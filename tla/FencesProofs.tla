------------------------------ MODULE FencesProofs ------------------------------
(***************************************************************************)
(* Deadlines and waits, for every length of a second and every width of a  *)
(* word.                                                                   *)
(***************************************************************************)
EXTENDS Fences, TLAPS

\* A natural number is a multiple of d and a remainder below d.
LEMMA DivMod ==
  ASSUME NEW n \in Nat, NEW d \in Nat \ {0}
  PROVE  /\ n \div d \in Nat
         /\ n % d \in 0 .. d - 1
         /\ n = d * (n \div d) + (n % d)
OBVIOUS

\* A product of naturals is a natural, and not below a factor that is multiplied
\* by more than 0.
LEMMA Product ==
  ASSUME NEW a \in Nat, NEW b \in Nat
  PROVE  /\ a * b \in Nat
         /\ a # 0 => b <= a * b
OBVIOUS

\* A quotient by more than the number is 0.
LEMMA SmallDiv ==
  ASSUME NEW n \in Nat, NEW d \in Nat \ {0}, n < d
  PROVE  n % d = n
OBVIOUS

\* What a uint32_t keeps is never more than what was assigned to it, and differs
\* from it by whole words.
LEMMA WordIsLess ==
  ASSUME NEW x \in Nat
  PROVE  /\ Word(x) \in Nat
         /\ Word(x) <= x
         /\ \E k \in 0 .. x - Word(x) : x - Word(x) = WordMod * k
         /\ x < WordMod => Word(x) = x
<1>1. WordMod \in Nat \ {0}
  BY FencesAssumption
<1> DEFINE q == x \div WordMod
           p == WordMod * q
<1>2. q \in Nat /\ Word(x) \in 0 .. WordMod - 1 /\ x = p + Word(x)
  BY <1>1, DivMod DEF Word
<1>3. p \in Nat /\ q <= p
  BY <1>1, <1>2, Product
<1>4. x < WordMod => Word(x) = x
  BY <1>1, SmallDiv DEF Word
<1>5. x - Word(x) = p /\ Word(x) \in Nat /\ Word(x) <= x
  <2> HIDE DEF p, q
  <2> QED
    BY <1>1, <1>2, <1>3
<1>6. q \in 0 .. x - Word(x)
  <2> HIDE DEF p, q
  <2> QED
    BY <1>2, <1>3, <1>5
<1> QED
  BY <1>4, <1>5, <1>6

\* get_abs_timeout: the time it names is not before the one asked for; it is late
\* by whole words, and not late if the span fits in a word.
LEMMA AbsTimeoutIsNotEarly ==
  ASSUME NEW t \in Nat, NEW ns \in Nat
  PROVE  LET tv == AbsTimeout(t, ns)
             late == Deadline(tv) - (t + ns)
         IN  /\ tv \in Timespec
             /\ Deadline(tv) \in Nat
             /\ late \in Nat
             /\ \E k \in 0 .. late : late = WordMod * k
             /\ ns < WordMod => late = 0
<1> DEFINE N == NsPerSec
           s == Word(ns \div N)
           P == N * (t \div N)
           Q == N * (ns \div N)
           R == s * N
           w == Word(R)
           late == Deadline(AbsTimeout(t, ns)) - (t + ns)
<1>1. N \in Nat \ {0} /\ WordMod \in Nat \ {0}
  BY FencesAssumption
<1>2. /\ t \div N \in Nat /\ t % N \in Nat /\ t = P + (t % N)
      /\ ns \div N \in Nat /\ ns % N \in Nat /\ ns = Q + (ns % N)
  BY <1>1, DivMod
<1>3. s \in Nat /\ s <= ns \div N
  BY <1>2, WordIsLess
<1>4. P \in Nat /\ Q \in Nat /\ R \in Nat /\ R <= Q
  BY <1>1, <1>2, <1>3
<1>5. /\ w \in Nat /\ w <= R
      /\ \E k \in 0 .. R - w : R - w = WordMod * k
      /\ R < WordMod => w = R
  BY <1>4, WordIsLess
<1>6. AbsTimeout(t, ns) = [tv_sec |-> t \div N + s, tv_nsec |-> (t % N) + ns - w]
  BY DEF AbsTimeout
<1>7. (t \div N + s) * N = P + R
  BY <1>1, <1>2, <1>3
<1>8. Deadline(AbsTimeout(t, ns)) = (P + R) + ((t % N) + ns - w)
  BY <1>6, <1>7 DEF Deadline
<1>9. t \div N + s \in Nat
  BY <1>2, <1>3
<1> HIDE DEF P, Q, R, s, w
<1>10. (t % N) + ns - w \in Nat /\ R <= ns
  BY <1>2, <1>4, <1>5
<1>11. /\ late = R - w
       /\ Deadline(AbsTimeout(t, ns)) \in Nat
  BY <1>1, <1>2, <1>4, <1>5, <1>8, <1>10
<1>12. late \in Nat /\ (ns < WordMod => late = 0)
  BY <1>1, <1>4, <1>5, <1>10, <1>11
<1>13. AbsTimeout(t, ns) \in Timespec
  BY <1>6, <1>9, <1>10 DEF Timespec
<1> QED
  BY <1>5, <1>11, <1>12, <1>13

-------------------------------------------------------------------------------
\* What is known of a wait c at time n with the jobs up to k done.
CallOK(c, n, k) ==
  /\ c \in Waits
  /\ c.start <= n
  /\ c.owed = c.target
  /\ c.fn \in {"cpu_prep", "bo_wait"} => c.ns = PrepNs
  /\ c.at # "entered" => c.start <= c.read /\ c.tv = AbsTimeout(c.read, c.ns)
  /\ c.at = "returned" => k >= c.target \/ (c.ret # "0" /\ n >= c.start + c.ns)

\* The inductive invariant: the types, and what is known of every wait.
IInv ==
  /\ TypeOK
  /\ \A t \in Threads : call[t] = Idle \/ CallOK(call[t], now, completed)

\* The spans the code waits for.
LEMMA SpansAreNatural ==
  /\ PrepNs \in Nat
  /\ FinishMs \in Nat
  /\ \A ms \in Nat : ms * NsPerMs \in Nat /\ MsToNs(ms) \in Nat
<1>1. NsPerSec \in Nat \ {0} /\ NsPerMs \in Nat \ {0}
  BY FencesAssumption
<1>2. NsPerSec \div NsPerMs \in Nat
  BY <1>1, DivMod
<1>3. ASSUME NEW ms \in Nat
      PROVE  ms * NsPerMs \in Nat /\ MsToNs(ms) \in Nat
  <2>1. ms * NsPerMs \in Nat
    BY <1>1, Product
  <2> QED
    BY <2>1, WordIsLess DEF MsToNs
<1> QED
  BY <1>1, <1>2, <1>3 DEF PrepNs, FinishMs

\* Time passes and jobs end without spoiling what is known.
LEMMA CallStays ==
  ASSUME NEW c, NEW n \in Nat, NEW m \in Nat, NEW k \in Nat, NEW l \in Nat,
         CallOK(c, n, k), n <= m, k <= l
  PROVE  CallOK(c, m, l)
BY DEF CallOK, Waits

\* A wait that is entered is in order.
LEMMA CallStarts ==
  ASSUME NEW fn \in WaitFns, NEW target \in Nat, NEW asked \in Nat, NEW ns \in Nat,
         fn \in {"cpu_prep", "bo_wait"} => ns = PrepNs,
         now \in Nat, NEW k \in Nat
  PROVE  CallOK(Wait(fn, target, asked, ns, target), now, k)
BY DEF CallOK, Wait, Waits, Timespec

\* A deadline that has passed leaves no less than the span behind.
LEMMA DeadlinePassed ==
  ASSUME NEW c, NEW n \in Nat, NEW k \in Nat, CallOK(c, n, k),
         c.at # "entered", n >= Deadline(c.tv)
  PROVE  n >= c.start + c.ns
<1>1. c.read \in Nat /\ c.ns \in Nat /\ c.start \in Nat /\ c.start <= c.read
  BY DEF CallOK, Waits
<1>2. c.tv = AbsTimeout(c.read, c.ns)
  BY DEF CallOK
<1>3. Deadline(c.tv) \in Nat /\ Deadline(c.tv) - (c.read + c.ns) \in Nat
  BY <1>1, <1>2, AbsTimeoutIsNotEarly
<1> QED
  BY <1>1, <1>3

-------------------------------------------------------------------------------
LEMMA InitEstablishes == Init => IInv
BY DEF Init, IInv, TypeOK

\* Actions that leave the waits alone and set neither clock nor jobs back.
LEMMA OthersKeep ==
  ASSUME IInv, TypeOK', UNCHANGED call, now <= now', completed <= completed'
  PROVE  IInv'
<1>1. now \in Nat /\ now' \in Nat /\ completed \in Nat /\ completed' \in Nat
  BY DEF IInv, TypeOK
<1>2. ASSUME NEW t \in Threads
      PROVE  call'[t] = Idle \/ CallOK(call'[t], now', completed')
  <2>1. call[t] = Idle \/ CallOK(call[t], now, completed)
    BY DEF IInv
  <2> QED
    BY <1>1, <2>1, CallStays
<1> QED
  BY <1>2 DEF IInv

\* Actions that replace one wait, which is in order afterwards.
LEMMA OneCallKeeps ==
  ASSUME IInv, NEW t \in Threads, NEW c,
         call' = [call EXCEPT ![t] = c], now' = now, completed' = completed,
         seqno' \in Nat, seqno <= seqno',
         bo_fence' \in [Bos -> 0 .. seqno'], sync_file' \in [Fds -> 0 .. seqno'],
         last_timestamp' \in [Threads -> 0 .. seqno'], out_fence_fd' \in [Threads -> Int],
         c = Idle \/ CallOK(c, now, completed)
  PROVE  IInv'
<1>1. c \in {Idle} \cup Waits
  BY DEF CallOK
<1>2. call' \in [Threads -> {Idle} \cup Waits]
  BY <1>1 DEF IInv, TypeOK
<1>3. now' \in Nat /\ completed' \in 0 .. seqno'
  BY DEF IInv, TypeOK
<1>4. TypeOK'
  BY <1>2, <1>3 DEF TypeOK
<1>5. \A u \in Threads : call'[u] = Idle \/ CallOK(call'[u], now', completed')
  BY DEF IInv, TypeOK
<1> QED
  BY ONLY <1>4, <1>5 DEF IInv

\* The same for the steps that leave the kernel alone.
LEMMA WaitStepKeeps ==
  ASSUME IInv, NEW t \in Threads, NEW c,
         call' = [call EXCEPT ![t] = c], UNCHANGED <<now, jobs, fences, last_timestamp>>,
         c = Idle \/ CallOK(c, now, completed)
  PROVE  IInv'
<1>1. /\ seqno' \in Nat /\ seqno <= seqno'
      /\ bo_fence' \in [Bos -> 0 .. seqno'] /\ sync_file' \in [Fds -> 0 .. seqno']
      /\ last_timestamp' \in [Threads -> 0 .. seqno'] /\ out_fence_fd' \in [Threads -> Int]
      /\ now' = now /\ completed' = completed
  BY DEF IInv, TypeOK, jobs, fences
<1> QED
  BY <1>1, OneCallKeeps

\* An accepted submit keeps every number in range.
LEMMA AcceptedKeeps ==
  ASSUME TypeOK, NEW t \in Threads, NEW B \in SUBSET Bos, Accepted(t, B)
  PROVE  /\ seqno' = seqno + 1 /\ completed' = completed
         /\ bo_fence' \in [Bos -> 0 .. seqno']
         /\ last_timestamp' \in [Threads -> 0 .. seqno']
         /\ last_timestamp'[t] = seqno'
         /\ \A f : f \in [Fds -> 0 .. seqno] => f \in [Fds -> 0 .. seqno']
BY DEF TypeOK, Accepted

\* A wait in flight is in order.
LEMMA InFlightIsOK ==
  ASSUME IInv, NEW t \in Threads, call[t].at # "idle"
  PROVE  CallOK(call[t], now, completed) /\ call[t] \in Waits
BY DEF IInv, Idle, CallOK

-------------------------------------------------------------------------------
\* Every step of the specification keeps the invariant.
LEMMA NextKeeps == IInv /\ [Next]_vars => IInv'
<1> SUFFICES ASSUME IInv, [Next]_vars PROVE IInv'
  OBVIOUS
<1> USE FencesAssumption
<1>t. /\ now \in Nat /\ seqno \in Nat /\ completed \in Nat /\ completed <= seqno
      /\ bo_fence \in [Bos -> 0 .. seqno] /\ sync_file \in [Fds -> 0 .. seqno]
      /\ last_timestamp \in [Threads -> 0 .. seqno]
      /\ out_fence_fd \in [Threads -> Int]
      /\ call \in [Threads -> {Idle} \cup Waits]
      /\ TypeOK
  BY DEF IInv, TypeOK
<1>1. CASE Tick
  BY <1>1, <1>t, OthersKeep DEF Tick, TypeOK, jobs, fences
<1>2. CASE JobDone
  BY <1>2, <1>t, OthersKeep DEF JobDone, TypeOK, fences
<1>3. ASSUME NEW t \in Threads, Client(t) PROVE IInv'
  <2>l. last_timestamp[t] \in Nat
    BY <1>t
  <2>1. ASSUME NEW B \in SUBSET Bos, Flush(t, B) PROVE IInv'
    BY <2>1, <1>t, AcceptedKeeps, OthersKeep DEF Flush, TypeOK, fences
  <2>2. ASSUME NEW B \in SUBSET Bos, Finish(t, B) PROVE IInv'
    <3>1. Accepted(t, B) /\ UNCHANGED <<now, fences>>
      BY <2>2 DEF Finish
    <3>2. /\ seqno' = seqno + 1 /\ completed' = completed
          /\ bo_fence' \in [Bos -> 0 .. seqno']
          /\ last_timestamp' \in [Threads -> 0 .. seqno']
          /\ last_timestamp'[t] = seqno'
          /\ sync_file \in [Fds -> 0 .. seqno']
      BY <1>t, <3>1, AcceptedKeeps
    <3> DEFINE c == Wait("finish", seqno', FinishMs * NsPerMs, MsToNs(FinishMs), seqno')
    <3>3. call' = [call EXCEPT ![t] = c]
      BY <2>2, <3>2 DEF Finish
    <3>4. seqno' \in Nat /\ seqno <= seqno'
      BY <1>t, <3>2
    <3>5. CallOK(c, now, completed)
      BY <1>t, <3>4, SpansAreNatural, CallStarts DEF WaitFns
    <3> HIDE DEF c
    <3>6. out_fence_fd' \in [Threads -> Int] /\ sync_file' \in [Fds -> 0 .. seqno']
          /\ now' = now
      BY <1>t, <3>1, <3>2 DEF fences
    <3> QED
      BY <3>2, <3>3, <3>4, <3>5, <3>6, OneCallKeeps
  <2>3. CASE FinishRefused(t)
    <3> DEFINE c == Wait("finish", last_timestamp[t], FinishMs * NsPerMs,
                         MsToNs(FinishMs), last_timestamp[t])
    <3>1. call' = [call EXCEPT ![t] = c] /\ UNCHANGED <<now, jobs, fences, last_timestamp>>
      BY <2>3 DEF FinishRefused, Refused
    <3>2. CallOK(c, now, completed)
      BY <1>t, <2>l, SpansAreNatural, CallStarts DEF WaitFns
    <3> QED
      BY <3>1, <3>2, WaitStepKeeps
  <2>4. ASSUME NEW B \in SUBSET Bos, NEW in \in InFences, Flush2(t, B, in) PROVE IInv'
    <3>1. Accepted(t, B) /\ UNCHANGED <<now, call>>
      BY <2>4 DEF Flush2
    <3>2. PICK fd \in Fds :
            /\ sync_file' = [sync_file EXCEPT ![fd] = seqno']
            /\ out_fence_fd' = [out_fence_fd EXCEPT ![t] = fd]
      BY <2>4 DEF Flush2
    <3>3. /\ seqno' = seqno + 1 /\ completed' = completed
          /\ bo_fence' \in [Bos -> 0 .. seqno']
          /\ last_timestamp' \in [Threads -> 0 .. seqno']
          /\ sync_file \in [Fds -> 0 .. seqno']
      BY <1>t, <3>1, AcceptedKeeps
    <3>4. seqno' \in Nat /\ seqno' \in 0 .. seqno' /\ completed' \in 0 .. seqno' /\ fd \in Int
      BY <1>t, <3>3
    <3>5. sync_file' \in [Fds -> 0 .. seqno'] /\ out_fence_fd' \in [Threads -> Int]
      BY <1>t, <3>2, <3>3, <3>4
    <3>6. TypeOK'
      BY <1>t, <3>1, <3>3, <3>4, <3>5 DEF TypeOK
    <3> QED
      BY <1>t, <3>1, <3>3, <3>6, OthersKeep
  <2>5. ASSUME NEW in \in InFences, Flush2Refused(t, in) PROVE IInv'
    <3>1. in \in Int
      BY DEF InFences
    <3> QED
      BY <2>5, <3>1, <1>t, OthersKeep DEF Flush2Refused, Refused, TypeOK, jobs
  <2>6. CASE CloseOutFence(t)
    BY <2>6, <1>t, OthersKeep DEF CloseOutFence, TypeOK, jobs
  <2>7. ASSUME NEW ns \in NsArgs, PipeWaitNs(t, ns) PROVE IInv'
    <3> DEFINE c == Wait("pipe_wait_ns", last_timestamp[t], ns, ns, last_timestamp[t])
    <3>1. call' = [call EXCEPT ![t] = c] /\ UNCHANGED <<now, jobs, fences, last_timestamp>>
      BY <2>7 DEF PipeWaitNs
    <3>2. CallOK(c, now, completed)
      BY <1>t, <2>l, CallStarts DEF WaitFns
    <3> QED
      BY <3>1, <3>2, WaitStepKeeps
  <2>8. ASSUME NEW ms \in MsArgs, PipeWait(t, ms) PROVE IInv'
    <3> DEFINE c == Wait("pipe_wait", last_timestamp[t], ms * NsPerMs, MsToNs(ms),
                         last_timestamp[t])
    <3>1. call' = [call EXCEPT ![t] = c] /\ UNCHANGED <<now, jobs, fences, last_timestamp>>
      BY <2>8 DEF PipeWait
    <3>2. ms * NsPerMs \in Nat /\ MsToNs(ms) \in Nat
      BY SpansAreNatural
    <3>3. CallOK(c, now, completed)
      BY <1>t, <2>l, <3>2, CallStarts DEF WaitFns
    <3> QED
      BY <3>1, <3>3, WaitStepKeeps
  <2>9. ASSUME NEW b \in Bos, NEW fn \in {"cpu_prep", "bo_wait"}, BoPrep(t, fn, b)
        PROVE  IInv'
    <3> DEFINE c == Wait(fn, bo_fence[b], PrepNs, PrepNs, bo_fence[b])
    <3>1. call' = [call EXCEPT ![t] = c] /\ UNCHANGED <<now, jobs, fences, last_timestamp>>
      BY <2>9 DEF BoPrep
    <3>2. bo_fence[b] \in Nat /\ fn \in WaitFns
      BY <1>t DEF WaitFns
    <3>3. CallOK(c, now, completed)
      BY <1>t, <3>2, SpansAreNatural, CallStarts
    <3> QED
      BY <3>1, <3>3, WaitStepKeeps
  <2> QED
    BY <1>3, <2>1, <2>2, <2>3, <2>4, <2>5, <2>6, <2>7, <2>8, <2>9 DEF Client, CpuPrep, BoWait
<1>4. ASSUME NEW t \in Threads, Step(t) \/ Interrupt(t) PROVE IInv'
  <2> DEFINE c == call[t]
  <2>1. CASE GetAbsTimeout(t)
    <3> DEFINE d == [c EXCEPT !.at = "timed", !.read = now, !.tv = AbsTimeout(now, c.ns)]
    <3>1. call' = [call EXCEPT ![t] = d] /\ UNCHANGED <<now, jobs, fences, last_timestamp>>
      BY <2>1, <1>t DEF GetAbsTimeout
    <3>2. CallOK(c, now, completed) /\ c \in Waits
      BY <2>1, InFlightIsOK DEF GetAbsTimeout
    <3>3. AbsTimeout(now, c.ns) \in Timespec
      BY <1>t, <3>2, AbsTimeoutIsNotEarly DEF Waits
    <3>4. CallOK(d, now, completed)
      BY <1>t, <3>2, <3>3 DEF CallOK, Waits
    <3> QED
      BY <3>1, <3>4, WaitStepKeeps
  <2>2. CASE Ioctl(t) \/ Interrupt(t)
    <3>1. PICK a \in {"timed", "blocked"} :
            /\ call' = [call EXCEPT ![t] = [c EXCEPT !.at = a]]
            /\ UNCHANGED <<now, jobs, fences, last_timestamp>>
      BY <2>2, <1>t DEF Ioctl, Interrupt
    <3>2. CallOK(c, now, completed) /\ c.at \in {"timed", "blocked"}
      BY <2>2, InFlightIsOK DEF Ioctl, Interrupt
    <3>3. CallOK([c EXCEPT !.at = a], now, completed)
      BY <3>2 DEF CallOK, Waits
    <3> QED
      BY <3>1, <3>3, WaitStepKeeps
  <2>3. CASE ReturnDone(t) \/ ReturnTimeout(t) \/ ReturnBusy(t)
    <3>1. PICK r \in {"0", "ETIMEDOUT", "EBUSY"} :
            /\ Return(t, r)
            /\ c.at \in {"timed", "blocked"}
            /\ \/ completed >= c.target
               \/ r # "0" /\ now >= Deadline(c.tv)
               \/ r # "0" /\ c.ns = 0
      BY <2>3 DEF ReturnDone, ReturnTimeout, ReturnBusy, NonBlock
    <3> DEFINE d == [c EXCEPT !.at = "returned", !.ret = r]
    <3>2. call' = [call EXCEPT ![t] = d] /\ UNCHANGED <<now, jobs, fences, last_timestamp>>
      BY <3>1, <1>t DEF Return
    <3>3. CallOK(c, now, completed) /\ c \in Waits
      BY <3>1, InFlightIsOK
    <3>4. c.start \in Nat /\ c.start <= now
      BY <3>3 DEF CallOK, Waits
    <3>5. completed >= c.target \/ (r # "0" /\ now >= c.start + c.ns)
      BY <1>t, <3>1, <3>3, <3>4, DeadlinePassed
    <3>6. CallOK(d, now, completed)
      BY <3>1, <3>3, <3>5 DEF CallOK, Waits
    <3> QED
      BY <3>2, <3>6, WaitStepKeeps
  <2>4. CASE Resume(t)
    BY <2>4, WaitStepKeeps DEF Resume
  <2> QED
    BY <1>4, <2>1, <2>2, <2>3, <2>4 DEF Step
<1>5. CASE UNCHANGED vars
  <2>1. TypeOK' /\ UNCHANGED <<call, now, completed>>
    BY <1>5, <1>t DEF TypeOK, vars, jobs, fences
  <2> QED
    BY <2>1, <1>t, OthersKeep
<1>6. ASSUME NEW B \in SUBSET Bos, ForeignJob(B) PROVE IInv'
  <2>1. /\ now' = now /\ completed' = completed /\ seqno' = seqno + 1
        /\ bo_fence' \in [Bos -> 0 .. seqno']
        /\ UNCHANGED <<sync_file, out_fence_fd, last_timestamp, call>>
    BY <1>6, <1>t DEF ForeignJob, fences
  <2>2. seqno' \in Nat /\ completed' \in 0 .. seqno'
    BY <1>t, <2>1
  <2>3. /\ sync_file' \in [Fds -> 0 .. seqno']
        /\ last_timestamp' \in [Threads -> 0 .. seqno']
    BY <1>t, <2>1
  <2>4. TypeOK'
    BY <1>t, <2>1, <2>2, <2>3 DEF TypeOK
  <2> QED
    BY <1>t, <2>1, <2>4, OthersKeep
<1> QED
  BY <1>1, <1>2, <1>3, <1>4, <1>5, <1>6 DEF Next

LEMMA Inductive == Spec => []IInv
<1> QED
  BY InitEstablishes, NextKeeps, PTL DEF Spec

-------------------------------------------------------------------------------
\* The counters, the fences of the buffer objects, the sync files and the waits
\* keep their types, whatever the threads, the GPU and the clock do.
THEOREM FencesTypeCorrect == Spec => []TypeOK
<1>1. IInv => TypeOK
  BY DEF IInv
<1> QED
  BY <1>1, Inductive, PTL

\* No deadline is early, whatever the clock reads when get_abs_timeout asks: 32-bit
\* wrap-around only ever makes it late, by whole words, and only for spans that do
\* not fit in one.
THEOREM DeadlinesAreNotEarly == Spec => []DeadlineHolds
<1>1. IInv => DeadlineHolds
  <2> SUFFICES ASSUME IInv, NEW t \in Threads, InFlight(t), call[t].at # "entered"
               PROVE  LET c == call[t]
                          late == Deadline(c.tv) - (c.read + c.ns)
                      IN  /\ late >= 0
                          /\ \E k \in 0 .. late : late = WordMod * k
                          /\ c.ns < WordMod => late = 0
    BY DEF DeadlineHolds
  <2>1. CallOK(call[t], now, completed) /\ call[t] \in Waits
    BY InFlightIsOK DEF InFlight
  <2>2. /\ call[t].read \in Nat /\ call[t].ns \in Nat
        /\ call[t].tv = AbsTimeout(call[t].read, call[t].ns)
    BY <2>1 DEF CallOK, Waits
  <2> DEFINE late == Deadline(call[t].tv) - (call[t].read + call[t].ns)
             r == call[t].read
             n == call[t].ns
  <2>a. r \in Nat /\ n \in Nat /\ late = Deadline(AbsTimeout(r, n)) - (r + n)
    BY <2>2
  <2> HIDE DEF r, n
  <2>b. LET d == Deadline(AbsTimeout(r, n)) - (r + n)
        IN  d \in Nat /\ (\E k \in 0 .. d : d = WordMod * k) /\ (n < WordMod => d = 0)
    BY <2>a, AbsTimeoutIsNotEarly
  <2>3. /\ late \in Nat
        /\ \E k \in 0 .. late : late = WordMod * k
        /\ call[t].ns < WordMod => late = 0
    BY <2>a, <2>b DEF n
  <2>4. late >= 0
    BY <2>3
  <2> QED
    BY <2>3, <2>4
<1> QED
  BY <1>1, Inductive, PTL

\* A wait covers the jobs that were there when it began, or gives up only after
\* the span that reached etna_pipe_wait_ns.
THEOREM WaitsAreNotCutShort == Spec => []WaitHolds
<1>1. IInv => WaitHolds
  BY InFlightIsOK DEF WaitHolds, InFlight, CallOK
<1> QED
  BY <1>1, Inductive, PTL

\* After etna_bo_cpu_prep the jobs that listed the buffer are done, or five seconds
\* have passed.
THEOREM PrepIsNotCutShort == Spec => []PrepHolds
<1>1. IInv => PrepHolds
  BY InFlightIsOK DEF PrepHolds, InFlight, CallOK, PrepNs
<1> QED
  BY <1>1, Inductive, PTL
===============================================================================
