\* Two fair threads, each with its own stream, share two buffer objects; the tables
\* implement CommandBatch. A stream only stores its last fence, so one number will do.
SPECIFICATION FairSpec
CONSTANTS
  Streams = {s1, s2}
  Bos = {b1, b2}
  NoStream = NoStream
  NoBo = NoBo
  SizeArg = 5
  FenceMod = 1
  Handle <- MCHandle
INVARIANTS
  TypeOK
  MarkedBoIsListed
  RelocsWellFormed
  TablesMatch
  OffsetInBounds
PROPERTIES
  MarkNeverStolen
  ImplementsBatch
  LockIsReleased
  FlushEnds
