SPECIFICATION Spec
CONSTANTS
  Addrs = {a1, a2}
  Streams = {s1, s2}
  Objs = {o1, o2, o3}
  Handles = {1, 2}
  Fds = {f1, f2}
  NoStream = NoStream
  NoObj = NoObj
  Reimport = FALSE
  MaxWords = 3
SYMMETRY Symmetry
INVARIANTS
  TypeOK
  HandleIsOwn
  HandlesAreBalanced
  MapsAreOwn
  BatchIsAlive
  MarksAreAlive
CHECK_DEADLOCK FALSE
