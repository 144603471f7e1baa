-------------------------------- MODULE MCFences --------------------------------
\* Instances of Fences for TLC: 1 s is 2 ticks and a word holds 9, so that 5 s are
\* more than a word, as in the code, and the 5 s of a finish wrap to 1 tick.
EXTENDS Fences

\* 0 does not block; 3 needs a carry into the seconds when the clock is odd.
MCNsArgs == {0, 3}

\* 4 ms are exact, 9 ms wrap to 0.
MCMsArgs == {4, 9}
===============================================================================
