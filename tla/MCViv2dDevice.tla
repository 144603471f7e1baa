----------------------------- MODULE MCViv2dDevice -----------------------------
\* Instances of Viv2dDevice for TLC.
EXTENDS Viv2dDevice, TLC

\* Every parameter has a value of its own.
MCChip == [n \in 1 .. 26 |-> 100 + n]

Symmetry == Permutations(Devices) \cup Permutations(Addrs) \cup Permutations(Fds)
===============================================================================
