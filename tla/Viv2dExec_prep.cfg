\* A draw that was cut from the write of its destination.
CONSTANTS
  s1 = s1
  s2 = s2
  Surfaces = {s1}
  Black = Black
  White = White
  Green = Green
  Colors = {Black}
  Stale = Stale
  Cmds = {"bitblt"}
  Edits = {}
  Blends = {}
  SizeArg = 17
  MaxRects = 1
  MaxData = 0
  MaxOps = 2
  MaxJobs = 2
  FenceMod = 3
SPECIFICATION Spec
INVARIANTS
  PrepSeesDraws
