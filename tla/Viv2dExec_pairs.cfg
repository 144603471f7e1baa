\* Any two operations of any kind, cut anywhere: does one inherit from the other?
CONSTANTS
  s1 = s1
  s2 = s2
  Surfaces = {s1}
  Black = Black
  White = White
  Green = Green
  Colors = {Black, Green}
  Stale = Stale
  Cmds = {"clear", "line", "bitblt", "stretchblt", "multsrcblt", "mono_blit"}
  Edits = {"color", "blend", "pat_fill"}
  Blends = {"over"}
  SizeArg = 9
  MaxRects = 1
  MaxData = 0
  MaxOps = 2
  MaxJobs = 1
  FenceMod = 2
SPECIFICATION Spec
INVARIANTS
  TypeOK
  DrawsAsAsked
