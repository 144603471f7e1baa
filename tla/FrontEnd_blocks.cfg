SPECIFICATION Spec
CONSTANTS
  SurfaceIds = {"s1", "s2"}
  Kinds <- MCKinds
  GpuAddress <- MCGpuAddress
  Stale <- MCStale
  HeapWords <- MCHeapWords
  Rects <- MCRects
  Colors <- MCColors
  Blends <- MCAdd
  Glyphs <- MCGlyphs
  SourceCounts = {1}
  MaxRects = 2
  MaxEdits = 1
  MaxOps = 1
INVARIANTS
  BlocksBlendAsAsked
CHECK_DEADLOCK FALSE
