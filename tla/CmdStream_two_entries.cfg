\* Two threads share a buffer object: one of them lists it twice.
SPECIFICATION Spec
CONSTANTS
  Streams = {s1, s2}
  Bos = {b1, b2}
  NoStream = NoStream
  NoBo = NoBo
  SizeArg = 5
  FenceMod = 2
  Handle <- MCHandle
SYMMETRY Symmetry
INVARIANTS
  OneEntryPerBuffer
