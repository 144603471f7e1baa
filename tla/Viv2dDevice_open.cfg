SPECIFICATION Spec
CONSTANTS
  Devices = {d1, d2}
  Addrs = {a1, a2, a3, a4, a5, a6}
  Fds = {f1, f2}
  NULL = NULL
  Chip <- MCChip
SYMMETRY Symmetry
INVARIANTS
  TypeOK
  RefsAreAlive
  HeldByOne
  ReadyIsWhole
  AnswersAreTrue
