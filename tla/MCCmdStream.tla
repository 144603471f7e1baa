------------------------------ MODULE MCCmdStream ------------------------------
\* Instances of CmdStream for TLC.
EXTENDS CmdStream, TLC

\* Every buffer object has a GEM handle of its own.
MCHandle == [b \in Bos |-> b]

Symmetry == Permutations(Streams) \cup Permutations(Bos)
===============================================================================
