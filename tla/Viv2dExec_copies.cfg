\* Blits between two surfaces with two sources and blits from the stream, of odd
\* and even length, in a small buffer and with two jobs pending.
CONSTANTS
  s1 = s1
  s2 = s2
  Surfaces = {s1, s2}
  Black = Black
  White = White
  Green = Green
  Colors = {Black}
  Stale = Stale
  Cmds = {"multsrcblt", "mono_blit"}
  Edits = {"rects", "data", "clip"}
  Blends = {}
  SizeArg = 21
  MaxRects = 1
  MaxData = 1
  MaxOps = 2
  MaxJobs = 2
  FenceMod = 3
SPECIFICATION Spec
SYMMETRY Symmetry
INVARIANTS
  BufferNotOverrun
  CommitSeesDraws
  WholeOpsAreSynced
