--------------------------------- MODULE Fences ---------------------------------
(***************************************************************************)
(* Waiting for the GPU: every call of etnaviv.c that ends in a wait ioctl, *)
(* and the two kinds of fences a submit hands out.                         *)
(*                                                                         *)
(* A job is known by its number on the ring (CmdStream and Viv2dExec count *)
(* fences modulo 2^32; here none wraps).  The GPU finishes jobs in order,  *)
(* or hangs and finishes none.  A wait reads the monotonic clock, turns a  *)
(* span into an absolute time in C's integer types, and issues the ioctl;  *)
(* the clock runs on between those steps, and a signal may interrupt the   *)
(* ioctl, which libdrm then issues again with the same absolute time.      *)
(*                                                                         *)
(* Time is counted in ticks.  NsPerSec, NsPerMs and WordMod stand for      *)
(* 10^9, 10^6 and 2^32; what the code does depends on 5 s being more than  *)
(* WordMod ticks, which an instance keeps.                                 *)
(***************************************************************************)
EXTENDS Integers

CONSTANTS
  Threads,   \* each with a command stream of its own
  Bos,       \* buffer objects
  Fds,       \* descriptors the kernel may give to a sync file, none of them 0
  NsPerSec,  \* 1000000000
  NsPerMs,   \* 1000000
  WordMod,   \* a uint32_t is kept modulo this
  NsArgs,    \* spans given to etna_pipe_wait_ns
  MsArgs,    \* spans given to etna_pipe_wait
  MaxJobs,   \* bound: jobs submitted
  MaxStart,  \* bound: calls begin up to this time, and read the clock by the next
  MaxTime    \* bound: the clock stops here

ASSUME FencesAssumption ==
  /\ Fds \subseteq Nat \ {0}
  /\ NsPerSec \in Nat \ {0} /\ NsPerMs \in Nat \ {0} /\ WordMod \in Nat \ {0}
  /\ NsPerSec % NsPerMs = 0
  /\ NsArgs \subseteq Nat /\ MsArgs \subseteq Nat
  /\ MaxJobs \in Nat /\ MaxStart \in Nat /\ MaxTime \in Nat

VARIABLES
  now,             \* CLOCK_MONOTONIC
  seqno,           \* the last job the kernel accepted
  completed,       \* the last job the GPU finished
  bo_fence,        \* bo_fence[b]: the last job that lists b
  sync_file,       \* sync_file[fd]: the job of an open sync file, 0 if closed
  last_timestamp,  \* last_timestamp[t]: of the stream of t
  out_fence_fd,    \* out_fence_fd[t]: what flush2 gave its caller, -1 if none
  call             \* call[t]: the wait t is in

jobs == <<seqno, completed, bo_fence>>
fences == <<sync_file, out_fence_fd>>
vars == <<now, jobs, fences, last_timestamp, call>>

-------------------------------------------------------------------------------
\* Mutant: the nanoseconds of the clock are subtracted.
AbsTimeoutBorrows(t, ns) ==
  LET s == (ns \div NsPerSec) % WordMod
  IN  [tv_sec |-> t \div NsPerSec + s,
       tv_nsec |-> ns - ((s * NsPerSec) % WordMod) - (t % NsPerSec)]

\* Assigning to a uint32_t.
Word(x) == x % WordMod

\* Mutant: the span is taken for the deadline.
AbsTimeoutRelative(t, ns) == [tv_sec |-> ns \div NsPerSec, tv_nsec |-> ns % NsPerSec]

\* get_abs_timeout: s and s * 1000000000 are uint32_t, the rest is 64 bits wide.
AbsTimeout(t, ns) ==
  LET s == Word(ns \div NsPerSec)
  IN  [tv_sec |-> t \div NsPerSec + s,
       tv_nsec |-> (t % NsPerSec) + ns - Word(s * NsPerSec)]

\* The time a drm_etnaviv_timespec names.
Deadline(tv) == tv.tv_sec * NsPerSec + tv.tv_nsec

\* ms * 1000000 is a product of 32 bits.
MsToNs(ms) == Word(ms * NsPerMs)

\* etna_bo_cpu_prep and etna_bo_wait: 5000000000 ns.
PrepNs == 5 * NsPerSec

\* etna_cmd_stream_finish: 5000 ms.
FinishMs == 5 * (NsPerSec \div NsPerMs)

Idle == [at |-> "idle"]

\* A wait: what it waits for, the span in ticks the caller asked for (asked) and
\* the one that reaches pipe_wait_ns (ns), when it began, the last of the jobs
\* it covers that were there when it began (owed).
Wait(fn, target, asked, ns, owed) ==
  [at |-> "entered", fn |-> fn, target |-> target, asked |-> asked, ns |-> ns,
   start |-> now, owed |-> owed, read |-> 0,
   tv |-> [tv_sec |-> 0, tv_nsec |-> 0], ret |-> "none"]

WaitFns == {"pipe_wait_ns", "pipe_wait", "finish", "cpu_prep", "bo_wait"}
Timespec == [tv_sec : Nat, tv_nsec : Nat]
Waits == [at : {"entered", "timed", "blocked", "returned"}, fn : WaitFns,
          target : Nat, asked : Nat, ns : Nat, start : Nat, owed : Nat,
          read : Nat, tv : Timespec, ret : {"none", "0", "ETIMEDOUT", "EBUSY"}]

TypeOK ==
  /\ now \in Nat
  /\ seqno \in Nat
  /\ completed \in 0 .. seqno
  /\ bo_fence \in [Bos -> 0 .. seqno]
  /\ sync_file \in [Fds -> 0 .. seqno]
  /\ last_timestamp \in [Threads -> 0 .. seqno]
  /\ out_fence_fd \in [Threads -> Int]
  /\ call \in [Threads -> {Idle} \cup Waits]

Init ==
  /\ now = 0
  /\ seqno = 0
  /\ completed = 0
  /\ bo_fence = [b \in Bos |-> 0]
  /\ sync_file = [fd \in Fds |-> 0]
  /\ last_timestamp = [t \in Threads |-> 0]
  /\ out_fence_fd = [t \in Threads |-> -1]
  /\ call = [t \in Threads |-> Idle]

-------------------------------------------------------------------------------
\* The clock, and the GPU.  So that MaxTime is later than every deadline, the
\* clock goes beyond MaxStart only when no call has yet to read it.
Tick ==
  /\ now < MaxTime
  /\ now <= MaxStart \/ \A t \in Threads : call[t] = Idle \/ call[t].at # "entered"
  /\ now' = now + 1
  /\ UNCHANGED <<jobs, fences, last_timestamp, call>>

JobDone ==
  /\ completed < seqno
  /\ completed' = completed + 1
  /\ UNCHANGED <<now, seqno, bo_fence, fences, last_timestamp, call>>

\* A job of another program: the ring is shared, and so is a buffer that was
\* exported.
ForeignJob(B) ==
  /\ seqno < MaxJobs
  /\ seqno' = seqno + 1
  /\ bo_fence' = [b \in Bos |-> IF b \in B THEN seqno' ELSE bo_fence[b]]
  /\ UNCHANGED <<now, completed, fences, last_timestamp, call>>

\* The submit ioctl of flush, with a table of buffer objects.
Accepted(t, B) ==
  /\ seqno < MaxJobs
  /\ seqno' = seqno + 1
  /\ bo_fence' = [b \in Bos |-> IF b \in B THEN seqno' ELSE bo_fence[b]]
  /\ last_timestamp' = [last_timestamp EXCEPT ![t] = seqno']
  /\ UNCHANGED completed

\* A refused submit is only logged.
Refused == UNCHANGED <<jobs, last_timestamp>>

Idling(t) == call[t] = Idle /\ now <= MaxStart

\* etna_cmd_stream_flush.
Flush(t, B) ==
  /\ Idling(t)
  /\ Accepted(t, B)
  /\ UNCHANGED <<now, fences, call>>

\* etna_cmd_stream_flush2 with an out_fence_fd: the accepted job gets a sync file.
Flush2(t, B, in) ==
  /\ Idling(t)
  /\ out_fence_fd[t] = -1
  /\ Accepted(t, B)
  /\ \E fd \in Fds :
       /\ sync_file[fd] = 0
       /\ sync_file' = [sync_file EXCEPT ![fd] = seqno']
       /\ out_fence_fd' = [out_fence_fd EXCEPT ![t] = fd]
  /\ UNCHANGED <<now, call>>

\* The same, refused: req.fence_fd is still what the request was made with, the
\* in fence or the 0 of an initializer that does not name it.
Flush2Refused(t, in) ==
  /\ Idling(t)
  /\ out_fence_fd[t] = -1
  /\ Refused
  /\ out_fence_fd' = [out_fence_fd EXCEPT ![t] = IF in # -1 THEN in ELSE 0]
  /\ UNCHANGED <<now, sync_file, call>>

\* The caller of flush2 closes the descriptor it was given; one that is no sync
\* file of the model (0) is somebody else's file.
CloseOutFence(t) ==
  /\ Idling(t)
  /\ out_fence_fd[t] # -1
  /\ sync_file' = [fd \in Fds |-> IF fd = out_fence_fd[t] THEN 0 ELSE sync_file[fd]]
  /\ out_fence_fd' = [out_fence_fd EXCEPT ![t] = -1]
  /\ UNCHANGED <<now, jobs, last_timestamp, call>>

-------------------------------------------------------------------------------
\* A wait is entered.  etna_pipe_wait_ns of a fence of this stream:
PipeWaitNs(t, ns) ==
  /\ Idling(t)
  /\ call' = [call EXCEPT ![t] =
       Wait("pipe_wait_ns", last_timestamp[t], ns, ns, last_timestamp[t])]
  /\ UNCHANGED <<now, jobs, fences, last_timestamp>>

PipeWait(t, ms) ==
  /\ Idling(t)
  /\ call' = [call EXCEPT ![t] =
       Wait("pipe_wait", last_timestamp[t], ms * NsPerMs, MsToNs(ms), last_timestamp[t])]
  /\ UNCHANGED <<now, jobs, fences, last_timestamp>>

\* Mutant: finish waits for the fence of the job before the one it submits.
FinishStale(t, B) ==
  /\ Idling(t)
  /\ Accepted(t, B)
  /\ call' = [call EXCEPT ![t] =
       Wait("finish", last_timestamp[t], FinishMs * NsPerMs, MsToNs(FinishMs), seqno')]
  /\ UNCHANGED <<now, fences>>

\* etna_cmd_stream_finish: flush, then etna_pipe_wait on last_timestamp.
Finish(t, B) ==
  /\ Idling(t)
  /\ Accepted(t, B)
  /\ call' = [call EXCEPT ![t] =
       Wait("finish", last_timestamp'[t], FinishMs * NsPerMs, MsToNs(FinishMs), seqno')]
  /\ UNCHANGED <<now, fences>>

FinishRefused(t) ==
  /\ Idling(t)
  /\ Refused
  /\ call' = [call EXCEPT ![t] =
       Wait("finish", last_timestamp[t], FinishMs * NsPerMs, MsToNs(FinishMs),
            last_timestamp[t])]
  /\ UNCHANGED <<now, fences>>

\* etna_bo_cpu_prep (for reading or writing: every job lists its buffers for both)
\* and etna_bo_wait.  What another thread submits later need not be waited for.
BoPrep(t, fn, b) ==
  /\ Idling(t)
  /\ call' = [call EXCEPT ![t] = Wait(fn, bo_fence[b], PrepNs, PrepNs, bo_fence[b])]
  /\ UNCHANGED <<now, jobs, fences, last_timestamp>>

CpuPrep(t, b) == BoPrep(t, "cpu_prep", b)

BoWait(t, b) == BoPrep(t, "bo_wait", b)

\* get_abs_timeout.
GetAbsTimeout(t) ==
  /\ call[t].at = "entered"
  /\ call' = [call EXCEPT ![t].at = "timed", ![t].read = now,
                          ![t].tv = AbsTimeout(now, call[t].ns)]
  /\ UNCHANGED <<now, jobs, fences, last_timestamp>>

\* Only pipe_wait_ns turns a span of 0 into ETNA_WAIT_NONBLOCK.
NonBlock(c) == c.ns = 0 /\ c.fn \notin {"cpu_prep", "bo_wait"}

\* The ioctl: it blocks, unless it may not or need not.
Ioctl(t) ==
  /\ call[t].at = "timed"
  /\ completed < call[t].target
  /\ ~NonBlock(call[t])
  /\ call' = [call EXCEPT ![t].at = "blocked"]
  /\ UNCHANGED <<now, jobs, fences, last_timestamp>>

\* A signal interrupts it and drmIoctl issues it again; one that is past its
\* deadline returns before it looks at signals.
Interrupt(t) ==
  /\ call[t].at = "blocked"
  /\ now < Deadline(call[t].tv)
  /\ call' = [call EXCEPT ![t].at = "timed"]
  /\ UNCHANGED <<now, jobs, fences, last_timestamp>>

Return(t, ret) ==
  /\ call' = [call EXCEPT ![t].at = "returned", ![t].ret = ret]
  /\ UNCHANGED <<now, jobs, fences, last_timestamp>>

ReturnDone(t) ==
  /\ call[t].at \in {"timed", "blocked"}
  /\ completed >= call[t].target
  /\ Return(t, "0")

ReturnTimeout(t) ==
  /\ call[t].at = "blocked"
  /\ completed < call[t].target
  /\ now >= Deadline(call[t].tv)
  /\ Return(t, "ETIMEDOUT")

ReturnBusy(t) ==
  /\ call[t].at = "timed"
  /\ completed < call[t].target
  /\ NonBlock(call[t])
  /\ Return(t, "EBUSY")

\* Mutant: the caller of a wait that timed out waits again.
ResumeRetries(t) ==
  /\ call[t].at = "returned"
  /\ call' = [call EXCEPT ![t] = IF @.ret = "ETIMEDOUT" THEN [@ EXCEPT !.at = "entered"]
                                 ELSE Idle]
  /\ UNCHANGED <<now, jobs, fences, last_timestamp>>

\* The caller goes on.  etna_cmd_stream_finish, etna_bo_wait and
\* viv2d_surface_to_bmp do not look at the result.
Resume(t) ==
  /\ call[t].at = "returned"
  /\ call' = [call EXCEPT ![t] = Idle]
  /\ UNCHANGED <<now, jobs, fences, last_timestamp>>

-------------------------------------------------------------------------------
\* A descriptor a caller may pass to flush2: none, or a sync file it knows of.
InFences == {-1} \cup {fd \in Fds : sync_file[fd] # 0}

Client(t) ==
  \/ \E B \in SUBSET Bos : Flush(t, B) \/ Finish(t, B)
  \/ FinishRefused(t)
  \/ \E B \in SUBSET Bos, in \in InFences : Flush2(t, B, in)
  \/ \E in \in InFences : Flush2Refused(t, in)
  \/ CloseOutFence(t)
  \/ \E ns \in NsArgs : PipeWaitNs(t, ns)
  \/ \E ms \in MsArgs : PipeWait(t, ms)
  \/ \E b \in Bos : CpuPrep(t, b) \/ BoWait(t, b)

Step(t) ==
  \/ GetAbsTimeout(t)
  \/ Ioctl(t)
  \/ ReturnDone(t) \/ ReturnTimeout(t) \/ ReturnBusy(t)
  \/ Resume(t)

Next ==
  \/ Tick
  \/ JobDone
  \/ \E B \in SUBSET Bos : ForeignJob(B)
  \/ \E t \in Threads : Client(t) \/ Step(t) \/ Interrupt(t)

Spec == Init /\ [][Next]_vars

\* The clock runs and every thread that can run does.  Nothing is assumed of the
\* GPU: it may hang.
FairSpec == Spec /\ WF_vars(Tick) /\ \A t \in Threads : WF_vars(Step(t))

-------------------------------------------------------------------------------
(***************************************************************************)
(* Properties.                                                             *)
(***************************************************************************)
InFlight(t) == call[t].at # "idle"

\* get_abs_timeout never names a time before the one asked for, whatever the
\* clock reads, and names exactly that time when the seconds fit in 32 bits of
\* ns; else it is late by whole multiples of 2^32 ns (5 s: once).
DeadlineHolds ==
  \A t \in Threads :
    InFlight(t) /\ call[t].at # "entered" =>
      LET c == call[t]
          late == Deadline(c.tv) - (c.read + c.ns)
      IN  /\ late >= 0
          /\ \E k \in 0 .. late : late = WordMod * k
          /\ c.ns < WordMod => late = 0

\* A wait that returns found every job done that it was to wait for, or it gave
\* up, and then the span that reached pipe_wait_ns has passed since the call
\* began: interruptions and time lost before the ioctl do not shorten it.
WaitHolds ==
  \A t \in Threads :
    InFlight(t) /\ call[t].at = "returned" =>
      \/ completed >= call[t].owed
      \/ call[t].ret # "0" /\ now >= call[t].start + call[t].ns

\* After etna_bo_cpu_prep the CPU may use the buffer: no job that listed it
\* before the call is running, or 5 s have passed (viv2d_surface_to_bmp reads the
\* surface in either case).
PrepHolds ==
  \A t \in Threads :
    InFlight(t) /\ call[t].at = "returned" /\ call[t].fn = "cpu_prep" =>
      completed >= call[t].owed \/ now >= call[t].start + 5 * NsPerSec

\* A wait ends, even when the GPU hangs.
WaitEnds == \A t \in Threads : InFlight(t) ~> ~InFlight(t)

\* etna_pipe_wait is given milliseconds (etnaviv_drmif.h: "uint32_t ms"), and
\* etna_cmd_stream_finish gives it 5000: it goes on with the job still running
\* only after 5 s.
FinishIsPatient ==
  \A t \in Threads :
    InFlight(t) /\ call[t].at = "returned" /\ call[t].fn = "finish" =>
      completed >= call[t].owed \/ now >= call[t].start + call[t].asked
===============================================================================
