SPECIFICATION Spec
CONSTANTS
  Threads = {t1}
  Bos = {b1}
  Fds = {}
  NsPerSec = 2
  NsPerMs = 1
  WordMod = 9
  NsArgs <- MCNsArgs
  MsArgs <- MCMsArgs
  MaxJobs = 1
  MaxStart = 1
  MaxTime = 22
INVARIANT FinishIsPatient
CHECK_DEADLOCK FALSE
