\* One thread and every wait of the library, while other programs' jobs use the
\* same ring and buffer, and the GPU may hang.
SPECIFICATION FairSpec
CONSTANTS
  Threads = {t1}
  Bos = {b1}
  Fds = {3}
  NsPerSec = 2
  NsPerMs = 1
  WordMod = 9
  NsArgs <- MCNsArgs
  MsArgs <- MCMsArgs
  MaxJobs = 2
  MaxStart = 1
  MaxTime = 22
INVARIANTS
  TypeOK
  DeadlineHolds
  WaitHolds
  PrepHolds
PROPERTY WaitEnds
CHECK_DEADLOCK FALSE
