------------------------------- MODULE MCBuffers -------------------------------
\* Instances of Buffers for TLC.
EXTENDS Buffers, TLC

\* Addresses, objects, streams and descriptors are interchangeable; handles are
\* numbers.
Symmetry ==
  Permutations(Addrs) \cup Permutations(Streams) \cup Permutations(Objs)
    \cup Permutations(Fds)
===============================================================================
