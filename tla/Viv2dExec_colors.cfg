\* The colors of lines and of mono blits.
CONSTANTS
  s1 = s1
  s2 = s2
  Surfaces = {s1}
  Black = Black
  White = White
  Green = Green
  Colors = {Black, Green}
  Stale = Stale
  Cmds = {"line", "mono_blit"}
  Edits = {"color"}
  Blends = {}
  SizeArg = 25
  MaxRects = 1
  MaxData = 0
  MaxOps = 1
  MaxJobs = 1
  FenceMod = 2
SPECIFICATION Spec
INVARIANTS
  LinesAndTextHaveTheirColor
