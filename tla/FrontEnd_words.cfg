SPECIFICATION Spec
CONSTANTS
  SurfaceIds = {"s1", "s2"}
  Kinds <- MCKinds
  GpuAddress <- MCGpuAddress
  Stale <- MCStale
  HeapWords <- MCHeapWords
  Rects <- MCRects
  Colors <- MCColors
  Blends <- MCBlends
  Glyphs <- MCGlyphs
  SourceCounts = {1, 2}
  MaxRects = 2
  MaxEdits = 1
  MaxOps = 2
INVARIANTS
  TypeOK
  CommandsAreWhole
  EngineSeesOp
  StretchSpansSource
  DumpStaysInside
  DumpShowsPicture
CHECK_DEADLOCK FALSE
