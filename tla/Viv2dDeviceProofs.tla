--------------------------- MODULE Viv2dDeviceProofs ---------------------------
(***************************************************************************)
(* Opening and closing are sound for any number of devices, however the    *)
(* steps of their threads interleave and whichever of them fail.           *)
(*                                                                         *)
(* The invariant says what the fields of a viv2d_device are worth at each  *)
(* point: while it opens, those below the part to acquire are set; while   *)
(* it closes, those above the part to release are stale; and what a field  *)
(* that is neither refers to is of the right kind, leads to the field      *)
(* below, and is referred to by no other field of any device.              *)
(***************************************************************************)
EXTENDS Viv2dDevice, TLAPS

\* The fields of d, as far as it has come.
FieldsInOrder(d) ==
  /\ at[d] = "closed" => \A p \in Part : field[d][p] = NULL
  /\ at[d] = "opening" => part[d] \in Part /\ \A p \in Part : field[d][p] # NULL <=> p < part[d]
  /\ at[d] = "ready" => \A p \in Part : field[d][p] # NULL
  /\ \A p \in Part \ {FD} : field[d][p] # NULL => field[d][p - 1] # NULL

\* What a field that d holds refers to.
PartIsGood(d, p) ==
  LET x == field[d][p]
  IN  /\ obj[x].kind = p
      /\ p # FD => obj[x].ref = field[d][p - 1]
      /\ p = GPU => /\ obj[x].model = Chip[ETNAVIV_PARAM_GPU.MODEL]
                    /\ obj[x].model # 0
                    /\ obj[x].revision \in {Chip[ETNAVIV_PARAM_GPU.REVISION], 0}

Held == \A x \in Addrs \cup Fds :
          obj[x] # Free => \E d \in Devices, p \in Part : Holds(d, p) /\ field[d][p] = x

Apart == \A d1, d2 \in Devices, p1, p2 \in Part :
           Holds(d1, p1) /\ Holds(d2, p2) /\ field[d1][p1] = field[d2][p2] =>
             d1 = d2 /\ p1 = p2

IInv ==
  /\ TypeOK
  /\ \A d \in Devices : FieldsInOrder(d)
  /\ \A d \in Devices, p \in Part : Holds(d, p) => PartIsGood(d, p)
  /\ Held
  /\ Apart
  /\ AnswersAreTrue

-------------------------------------------------------------------------------
LEMMA PartFacts ==
  /\ Part = {1, 2, 3, 4, 5}
  /\ FD = 1 /\ DEV = 2 /\ GPU = 3 /\ PIPE = 4 /\ STREAM = 5
BY DEF Part, FD, DEV, GPU, PIPE, STREAM

\* A struct that is not free has a kind, and a free one has none.
LEMMA KindOfFree ==
  ASSUME TypeOK, NEW x \in Addrs \cup Fds
  PROVE  obj[x] # Free => obj[x] \in Struct /\ obj[x].kind \in Part
BY DEF TypeOK, Struct, Free

LEMMA FreeKind == Free.kind = 0
BY DEF Free

LEMMA InitEstablishes == Init => IInv
<1> SUFFICES ASSUME Init PROVE IInv
  OBVIOUS
<1>1. TypeOK
  BY PartFacts DEF Init, TypeOK, Answer, NoAnswer
<1>2. \A d \in Devices : FieldsInOrder(d)
  BY DEF Init, FieldsInOrder
<1>3. \A d \in Devices, p \in Part : ~Holds(d, p)
  BY DEF Init, Holds
<1>4. Held /\ Apart
  BY <1>3 DEF Init, Held, Apart
<1>5. AnswersAreTrue
  BY DEF Init, AnswersAreTrue, NoAnswer, Param, ETNA_GPU
<1> QED
  BY <1>1, <1>2, <1>3, <1>4, <1>5 DEF IInv

\* Nothing is claimed of an answer that was cleared.
LEMMA ForgetIsTrue == Forget => AnswersAreTrue' /\ answer' \in Answer
BY DEF Forget, AnswersAreTrue, NoAnswer, Answer, Param, ETNA_GPU

\* A step of viv2d_device_open.
LEMMA AcquireKeeps ==
  ASSUME IInv, NEW d \in Devices, NEW p \in Part, NEW model \in Nat, NEW revision \in Nat,
         p = GPU => /\ model = Chip[ETNAVIV_PARAM_GPU.MODEL] /\ model # 0
                    /\ revision \in {Chip[ETNAVIV_PARAM_GPU.REVISION], 0},
         Acquire(d, p, model, revision)
  PROVE  IInv'
<1> USE PartFacts
<1> DEFINE new == [kind |-> p, ref |-> IF p = FD THEN NULL ELSE field[d][p - 1],
                   model |-> model, revision |-> revision]
<1>1. PICK x \in Place(p) :
        /\ obj[x] = Free
        /\ obj' = [obj EXCEPT ![x] = new]
        /\ field' = [field EXCEPT ![d][p] = x]
  BY DEF Acquire
<1>2. /\ at[d] = "opening" /\ part[d] = p /\ Forget
      /\ IF p = STREAM
         THEN at' = [at EXCEPT ![d] = "ready"] /\ part' = [part EXCEPT ![d] = 0]
         ELSE at' = at /\ part' = [part EXCEPT ![d] = p + 1]
  BY DEF Acquire
<1>3. x \in Addrs \cup Fds /\ x # NULL
  BY Viv2dDeviceAssumption DEF Place
<1>t. /\ at \in [Devices -> {"closed", "opening", "ready", "closing"}]
      /\ part \in [Devices -> 0 .. 5]
      /\ field \in [Devices -> [Part -> Addrs \cup Fds \cup {NULL}]]
      /\ obj \in [Addrs \cup Fds -> Struct \cup {Free}]
  BY DEF IInv, TypeOK
<1>4. new \in Struct /\ new # Free
  <2>1. IF p = FD THEN TRUE ELSE p - 1 \in Part
    OBVIOUS
  <2>2. (IF p = FD THEN NULL ELSE field[d][p - 1]) \in Addrs \cup Fds \cup {NULL}
    BY <1>t, <2>1
  <2> QED
    BY <2>2, FreeKind DEF Struct
<1>5. TypeOK'
  <2>1. at' \in [Devices -> {"closed", "opening", "ready", "closing"}]
        /\ part' \in [Devices -> 0 .. 5]
    BY <1>t, <1>2
  <2>2. field' \in [Devices -> [Part -> Addrs \cup Fds \cup {NULL}]]
    BY <1>t, <1>1, <1>3
  <2>3. obj' \in [Addrs \cup Fds -> Struct \cup {Free}]
    <3> HIDE DEF new
    <3> QED
      BY <1>t, <1>1, <1>3, <1>4
  <2> QED
    BY <2>1, <2>2, <2>3, <1>2, ForgetIsTrue DEF TypeOK
\* Only d's field p is another one; it was null.
<1>6. /\ \A e \in Devices, q \in Part : e # d \/ q # p => field'[e][q] = field[e][q]
      /\ field'[d][p] = x /\ field[d][p] = NULL
      /\ \A e \in Devices : e # d => at'[e] = at[e] /\ part'[e] = part[e]
      /\ at'[d] \in {"opening", "ready"}
  <2>1. field[d][p] = NULL
    BY <1>2, <1>t DEF IInv, FieldsInOrder
  <2> QED
    BY <1>t, <1>1, <1>2, <2>1
<1>7. ASSUME NEW e \in Devices PROVE FieldsInOrder(e)'
  <2>1. FieldsInOrder(e) /\ FieldsInOrder(d)
    BY DEF IInv
  <2>2. CASE e # d
    BY <1>6, <2>1, <2>2 DEF FieldsInOrder
  <2>3. CASE e = d
    <3>1. \A q \in Part : field[d][q] # NULL <=> q < p
      BY <1>2, <2>1 DEF FieldsInOrder
    <3>2. \A q \in Part : field'[d][q] # NULL <=> q < p + 1
      BY <1>3, <1>6, <3>1
    <3>3. \A q \in Part \ {FD} : field'[d][q] # NULL => field'[d][q - 1] # NULL
      BY <3>2
    <3>4. p = STREAM => \A q \in Part : field'[d][q] # NULL
      BY <3>2
    <3>5. /\ p = STREAM => at'[d] = "ready"
          /\ p # STREAM => at'[d] = "opening" /\ part'[d] = p + 1 /\ p + 1 \in Part
      BY <1>t, <1>2
    <3> QED
      BY <2>3, <3>2, <3>3, <3>4, <3>5 DEF FieldsInOrder
  <2> QED
    BY <2>2, <2>3
\* What was held is held, and field p of d besides.
<1>8. \A e \in Devices, q \in Part : Holds(e, q)' <=> Holds(e, q) \/ (e = d /\ q = p)
  BY <1>2, <1>3, <1>6 DEF Holds
<1>9. \A e \in Devices, q \in Part : Holds(e, q) => field[e][q] \in Addrs \cup Fds /\ field[e][q] # x
  <2> SUFFICES ASSUME NEW e \in Devices, NEW q \in Part, Holds(e, q)
               PROVE  field[e][q] \in Addrs \cup Fds /\ field[e][q] # x
    OBVIOUS
  <2>1. PartIsGood(e, q)
    BY DEF IInv
  <2>2. field[e][q] # x
    BY <1>1, <2>1, FreeKind DEF PartIsGood
  <2> QED
    BY <1>t, <2>2 DEF Holds
<1>10. obj'[x] = new /\ \A y \in Addrs \cup Fds : y # x => obj'[y] = obj[y]
  <2> HIDE DEF new
  <2> QED
    BY <1>t, <1>1, <1>3
<1>11. ASSUME NEW e \in Devices, NEW q \in Part, Holds(e, q)' PROVE PartIsGood(e, q)'
  <2>1. CASE Holds(e, q)
    <3>1. PartIsGood(e, q)
      BY <2>1 DEF IInv
    <3>2. e # d \/ q # p
      BY <1>6, <2>1 DEF Holds
    <3>3. field'[e][q] = field[e][q] /\ obj'[field[e][q]] = obj[field[e][q]]
      BY <1>6, <1>9, <1>10, <2>1, <3>2
    <3>4. q # FD => field'[e][q - 1] = field[e][q - 1]
      <4>1. q # FD => q - 1 \in Part /\ field[e][q - 1] # NULL
        BY <2>1 DEF Holds, IInv, FieldsInOrder
      <4> QED
        BY <1>6, <4>1
    <3> QED
      BY <3>1, <3>3, <3>4 DEF PartIsGood
  <2>2. CASE e = d /\ q = p
    <3>1. field'[e][q] = x /\ obj'[x] = new
      BY <1>6, <1>10, <2>2
    <3>2. q # FD => q - 1 \in Part /\ field'[e][q - 1] = field[d][p - 1]
      BY <1>6, <2>2
    <3> QED
      BY <2>2, <3>1, <3>2 DEF PartIsGood
  <2> QED
    BY <1>8, <1>11, <2>1, <2>2
<1>12. Held'
  <2> SUFFICES ASSUME NEW y \in Addrs \cup Fds, obj'[y] # Free
               PROVE  \E e \in Devices, q \in Part : Holds(e, q)' /\ field'[e][q] = y
    BY DEF Held
  <2>1. CASE y = x
    BY <1>6, <1>8, <2>1
  <2>2. CASE y # x
    <3>1. PICK e \in Devices, q \in Part : Holds(e, q) /\ field[e][q] = y
      BY <1>10, <2>2 DEF IInv, Held
    <3>2. e # d \/ q # p
      BY <1>6, <3>1 DEF Holds
    <3> QED
      BY <1>6, <1>8, <3>1, <3>2
  <2> QED
    BY <2>1, <2>2
<1>13. Apart'
  <2> SUFFICES ASSUME NEW d1 \in Devices, NEW d2 \in Devices, NEW p1 \in Part, NEW p2 \in Part,
                      Holds(d1, p1)', Holds(d2, p2)', field'[d1][p1] = field'[d2][p2]
               PROVE  d1 = d2 /\ p1 = p2
    BY DEF Apart
  <2>1. \A e \in Devices, q \in Part :
          Holds(e, q)' /\ ~(e = d /\ q = p) => Holds(e, q) /\ field'[e][q] # x
    BY <1>6, <1>8, <1>9
  <2>2. CASE d1 = d /\ p1 = p
    BY <1>6, <2>1, <2>2
  <2>3. CASE d2 = d /\ p2 = p
    BY <1>6, <2>1, <2>3
  <2>4. CASE ~(d1 = d /\ p1 = p) /\ ~(d2 = d /\ p2 = p)
    <3>1. Holds(d1, p1) /\ Holds(d2, p2) /\ field[d1][p1] = field[d2][p2]
      BY <1>6, <2>1, <2>4
    <3> QED
      BY <3>1 DEF IInv, Apart
  <2> QED
    BY <2>2, <2>3, <2>4
<1> QED
  BY <1>2, <1>5, <1>7, <1>11, <1>12, <1>13, ForgetIsTrue DEF IInv

\* A step of viv2d_device_close.
LEMMA ReleaseKeeps ==
  ASSUME IInv, NEW d \in Devices, NEW p \in Part, Release(d, p)
  PROVE  IInv'
<1> USE PartFacts
<1> DEFINE x == field[d][p]
<1>1. /\ at[d] = "closing" /\ part[d] = p
      /\ obj' = IF x = NULL THEN obj ELSE [obj EXCEPT ![x] = Free]
      /\ part' = [part EXCEPT ![d] = p - 1]
      /\ at' = at /\ field' = field /\ Forget
  BY DEF Release
<1>t. /\ at \in [Devices -> {"closed", "opening", "ready", "closing"}]
      /\ part \in [Devices -> 0 .. 5]
      /\ field \in [Devices -> [Part -> Addrs \cup Fds \cup {NULL}]]
      /\ obj \in [Addrs \cup Fds -> Struct \cup {Free}]
  BY DEF IInv, TypeOK
<1>2. TypeOK'
  <2>1. part' \in [Devices -> 0 .. 5]
    BY <1>t, <1>1
  <2>2. obj' \in [Addrs \cup Fds -> Struct \cup {Free}]
    BY <1>t, <1>1
  <2> QED
    BY <1>1, <1>t, <2>1, <2>2, ForgetIsTrue DEF TypeOK
<1>3. \A e \in Devices : FieldsInOrder(e)'
  <2>1. \A e \in Devices : at[e] = "opening" => part'[e] = part[e]
    BY <1>t, <1>1
  <2> QED
    BY <1>1, <2>1 DEF IInv, FieldsInOrder
\* Field p of d, if it was held, is so no more; nothing else changes hands.
<1>4. \A e \in Devices, q \in Part : Holds(e, q)' <=> Holds(e, q) /\ ~(e = d /\ q = p)
  BY <1>t, <1>1 DEF Holds
<1>5. x # NULL => Holds(d, p)
  BY <1>1 DEF Holds
<1>6. \A e \in Devices, q \in Part : Holds(e, q)' => field[e][q] # x \/ x = NULL
  BY <1>4, <1>5 DEF IInv, Apart
<1>7. \A y \in Addrs \cup Fds : y # x => obj'[y] = obj[y]
  BY <1>t, <1>1
<1>8. ASSUME NEW e \in Devices, NEW q \in Part, Holds(e, q)' PROVE PartIsGood(e, q)'
  <2>1. Holds(e, q) /\ PartIsGood(e, q)
    BY <1>4, <1>8 DEF IInv
  <2>2. field[e][q] \in Addrs \cup Fds /\ field[e][q] # x
    BY <1>t, <1>6, <1>8, <2>1 DEF Holds
  <2>3. obj'[field[e][q]] = obj[field[e][q]] /\ field' = field
    BY <1>1, <1>7, <2>2
  <2> QED
    BY <2>1, <2>3 DEF PartIsGood
<1>9. Held'
  <2> SUFFICES ASSUME NEW y \in Addrs \cup Fds, obj'[y] # Free
               PROVE  \E e \in Devices, q \in Part : Holds(e, q)' /\ field'[e][q] = y
    BY DEF Held
  <2>1. y # x
    BY <1>t, <1>1, Viv2dDeviceAssumption
  <2>2. PICK e \in Devices, q \in Part : Holds(e, q) /\ field[e][q] = y
    BY <1>7, <2>1 DEF IInv, Held
  <2> QED
    BY <1>1, <1>4, <2>1, <2>2
<1>10. Apart'
  BY <1>1, <1>4 DEF IInv, Apart
<1> QED
  BY <1>1, <1>2, <1>3, <1>8, <1>9, <1>10, ForgetIsTrue DEF IInv

\* Steps that touch neither fields nor structs, and change what d holds by nothing.
LEMMA SameHoldsKeeps ==
  ASSUME IInv, TypeOK', AnswersAreTrue', UNCHANGED obj,
         \A d \in Devices : FieldsInOrder(d)',
         \A d \in Devices, p \in Part :
           /\ Holds(d, p)' <=> Holds(d, p)
           /\ Holds(d, p) => /\ field'[d][p] = field[d][p]
                             /\ p # FD => field'[d][p - 1] = field[d][p - 1]
  PROVE  IInv'
<1>1. \A d \in Devices, p \in Part : Holds(d, p)' => PartIsGood(d, p)'
  <2> SUFFICES ASSUME NEW d \in Devices, NEW p \in Part, Holds(d, p)' PROVE PartIsGood(d, p)'
    OBVIOUS
  <2>1. Holds(d, p) /\ PartIsGood(d, p)
    BY DEF IInv
  <2>2. field'[d][p] = field[d][p] /\ (p # FD => field'[d][p - 1] = field[d][p - 1])
    BY <2>1
  <2> QED
    BY <2>1, <2>2 DEF PartIsGood
<1>2. Held' /\ Apart'
  BY DEF IInv, Held, Apart
<1> QED
  BY <1>1, <1>2 DEF IInv

\* viv2d_device_open and viv2d_device_close are called, and the struct is freed.
LEMMA CallsKeep ==
  ASSUME IInv, NEW d \in Devices, DeviceOpen(d) \/ OpenFails(d) \/ DeviceClose(d) \/ FreeDevice(d)
  PROVE  IInv'
<1> USE PartFacts
<1>t. /\ at \in [Devices -> {"closed", "opening", "ready", "closing"}]
      /\ part \in [Devices -> 0 .. 5]
      /\ field \in [Devices -> [Part -> Addrs \cup Fds \cup {NULL}]]
  BY DEF IInv, TypeOK
<1>f. FieldsInOrder(d)
  BY DEF IInv
<1>1. Forget /\ UNCHANGED obj
  BY DEF DeviceOpen, OpenFails, DeviceClose, FreeDevice
<1>2. /\ \A e \in Devices : e # d => at'[e] = at[e] /\ part'[e] = part[e] /\ field'[e] = field[e]
      /\ TypeOK'
  BY <1>t, <1>1, ForgetIsTrue DEF IInv, TypeOK, DeviceOpen, OpenFails, DeviceClose, FreeDevice
<1>3. \/ at[d] = "closed" /\ at'[d] = "opening" /\ part'[d] = FD /\ field'[d] = field[d]
      \/ at[d] \in {"opening", "ready"} /\ at'[d] = "closing" /\ part'[d] = STREAM
         /\ field'[d] = field[d]
      \/ at[d] = "closing" /\ part[d] = 0 /\ at'[d] = "closed"
         /\ field'[d] = [p \in Part |-> NULL]
  BY <1>t DEF DeviceOpen, OpenFails, DeviceClose, FreeDevice
<1>4. FieldsInOrder(d)'
  BY <1>t, <1>f, <1>3 DEF FieldsInOrder
<1>5. \A e \in Devices : FieldsInOrder(e)'
  BY <1>2, <1>4 DEF IInv, FieldsInOrder
<1>6. \A p \in Part : Holds(d, p)' <=> Holds(d, p)
  BY <1>t, <1>f, <1>3 DEF Holds, FieldsInOrder
<1>7. \A p \in Part : Holds(d, p) => field'[d] = field[d]
  BY <1>t, <1>3 DEF Holds
<1>8. \A e \in Devices, p \in Part :
        /\ Holds(e, p)' <=> Holds(e, p)
        /\ Holds(e, p) => field'[e] = field[e]
  BY <1>2, <1>6, <1>7 DEF Holds
<1> QED
  BY <1>1, <1>2, <1>5, <1>8, ForgetIsTrue, SameHoldsKeeps

\* What get_param asks for, under the kernel's number.
LEMMA AskedIsKernels ==
  ASSUME NEW id \in Param
  PROVE  Asked(id) = ETNAVIV_PARAM_GPU[id] /\ ETNAVIV_PARAM_GPU[id] \in 1 .. 26
BY DEF Asked, Features, Param, ETNA_GPU, ETNAVIV_PARAM_GPU

LEMMA ParamsAreNatural ==
  ASSUME NEW n \in 1 .. 26, NEW ok \in BOOLEAN
  PROVE  GetParam(n, ok) \in Nat /\ GetParam(n, ok) \in {Chip[n], 0}
BY Viv2dDeviceAssumption DEF GetParam

\* etna_gpu_get_param.
LEMMA GetParamKeeps ==
  ASSUME IInv, NEW d \in Devices,
         NEW id \in Param, NEW ok \in BOOLEAN, GpuGetParam(d, id, ok) \/ GpuGetParamInvalid(d)
  PROVE  IInv'
<1> USE PartFacts
<1>1. UNCHANGED <<at, part, field, obj>> /\ at[d] = "ready" /\ answer = NoAnswer
  BY DEF GpuGetParam, GpuGetParamInvalid
<1>2. answer' \in Answer /\ AnswersAreTrue'
  <2>1. CASE GpuGetParamInvalid(d)
    <3>1. answer' = [param |-> "invalid", ret |-> -1, value |-> 0]
      BY <1>1, <2>1 DEF GpuGetParamInvalid, NoAnswer
    <3>2. "invalid" \notin Param
      BY DEF Param, ETNA_GPU
    <3>3. answer' \in Answer
      BY <3>1 DEF Answer
    <3> QED
      BY <3>1, <3>2, <3>3 DEF AnswersAreTrue
  <2>2. CASE GpuGetParam(d, id, ok)
    <3> DEFINE gpu == obj[field[d][GPU]]
               value == CASE id = "MODEL" -> gpu.model
                          [] id = "REVISION" -> gpu.revision
                          [] OTHER -> GetParam(Asked(id), ok)
               n == ETNAVIV_PARAM_GPU[id]
    <3>1. answer' = [param |-> id, ret |-> 0, value |-> value]
      BY <2>2 DEF GpuGetParam
    <3>2. Holds(d, GPU)
      BY <1>1 DEF IInv, FieldsInOrder, Holds
    <3>3. PartIsGood(d, GPU)
      BY <3>2 DEF IInv
    <3>4. /\ n \in 1 .. 26 /\ Asked(id) = n /\ Chip[n] \in Nat
          /\ Chip[1] \in Nat /\ Chip[2] \in Nat
      BY AskedIsKernels, Viv2dDeviceAssumption
    <3>5. /\ id = "MODEL" => n = 1 /\ value = Chip[1] /\ value # 0
          /\ id = "REVISION" => n = 2 /\ value \in {Chip[2], 0}
          /\ id \notin {"MODEL", "REVISION"} => value \in {Chip[n], 0}
      BY <3>3, <3>4, ParamsAreNatural DEF PartIsGood, ETNAVIV_PARAM_GPU
    <3>6. value \in Nat
      BY <3>4, <3>5
    <3> HIDE DEF value
    <3> QED
      BY <3>1, <3>4, <3>5, <3>6 DEF Answer, AnswersAreTrue
  <2> QED
    BY <2>1, <2>2
<1>3. TypeOK' /\ \A e \in Devices : FieldsInOrder(e)'
  BY <1>1, <1>2 DEF IInv, TypeOK, FieldsInOrder
<1>4. \A e \in Devices, p \in Part : Holds(e, p)' <=> Holds(e, p)
  BY <1>1 DEF Holds
<1> QED
  BY <1>1, <1>2, <1>3, <1>4, SameHoldsKeeps

LEMMA NextKeeps == IInv /\ [Next]_vars => IInv'
<1> SUFFICES ASSUME IInv, [Next]_vars PROVE IInv'
  OBVIOUS
<1> USE PartFacts
<1>1. ASSUME NEW d \in Devices, Opening(d) PROVE IInv'
  <2>1. CASE OpenFile(d) \/ DeviceNew(d) \/ PipeNew(d) \/ StreamNew(d)
    <3>1. PICK p \in Part \ {GPU} : Acquire(d, p, 0, 0)
      BY <2>1 DEF OpenFile, DeviceNew, PipeNew, StreamNew
    <3> QED
      BY <3>1, AcquireKeeps
  <2>2. ASSUME NEW ok1 \in BOOLEAN, NEW ok2 \in BOOLEAN, GpuNew(d, ok1, ok2) PROVE IInv'
    <3> DEFINE model == GetParam(ETNAVIV_PARAM_GPU.MODEL, ok1)
               revision == GetParam(ETNAVIV_PARAM_GPU.REVISION, ok2)
    <3>1. model # 0 /\ Acquire(d, GPU, model, revision)
      BY <2>2 DEF GpuNew
    <3>2. ETNAVIV_PARAM_GPU.MODEL \in 1 .. 26 /\ ETNAVIV_PARAM_GPU.REVISION \in 1 .. 26
      BY DEF ETNAVIV_PARAM_GPU
    <3>3. /\ model \in Nat /\ model \in {Chip[ETNAVIV_PARAM_GPU.MODEL], 0}
          /\ revision \in Nat /\ revision \in {Chip[ETNAVIV_PARAM_GPU.REVISION], 0}
      BY <3>2, ParamsAreNatural
    <3> HIDE DEF model, revision
    <3> QED
      BY <3>1, <3>3, AcquireKeeps
  <2>3. CASE OpenFails(d)
    BY <2>3, CallsKeep
  <2> QED
    BY <1>1, <2>1, <2>2, <2>3 DEF Opening
<1>2. ASSUME NEW d \in Devices, Closing(d) PROVE IInv'
  <2>1. CASE FreeDevice(d)
    BY <2>1, CallsKeep
  <2>2. CASE \E p \in Part : Release(d, p)
    BY <2>2, ReleaseKeeps
  <2> QED
    BY <1>2, <2>1, <2>2 DEF Closing, StreamDel, PipeDel, GpuDel, DeviceDel, CloseFile
<1>3. ASSUME NEW d \in Devices, Client(d) PROVE IInv'
  <2>1. CASE DeviceOpen(d) \/ DeviceClose(d)
    BY <2>1, CallsKeep
  <2>2. CASE \E id \in Param, ok \in BOOLEAN : GpuGetParam(d, id, ok)
    BY <2>2, GetParamKeeps
  <2>3. CASE GpuGetParamInvalid(d)
    <3>1. "MODEL" \in Param
      BY DEF Param, ETNA_GPU
    <3> QED
      BY <2>3, <3>1, GetParamKeeps
  <2> QED
    BY <1>3, <2>1, <2>2, <2>3 DEF Client
<1>4. CASE UNCHANGED vars
  <2>1. TypeOK' /\ AnswersAreTrue' /\ \A e \in Devices : FieldsInOrder(e)'
    BY <1>4 DEF vars, IInv, TypeOK, AnswersAreTrue, FieldsInOrder
  <2>2. \A e \in Devices, p \in Part : Holds(e, p)' <=> Holds(e, p)
    BY <1>4 DEF vars, Holds
  <2> QED
    BY <1>4, <2>1, <2>2, SameHoldsKeeps DEF vars
<1> QED
  BY <1>1, <1>2, <1>3, <1>4 DEF Next

LEMMA Inductive == Spec => []IInv
<1> QED
  BY InitEstablishes, NextKeeps, PTL DEF Spec

-------------------------------------------------------------------------------
\* What every device keeps of its fields, its structs and its answers has its
\* type, whichever steps fail and whatever is stale.
THEOREM DeviceTypeCorrect == Spec => []TypeOK
<1>1. IInv => TypeOK
  BY DEF IInv
<1> QED
  BY <1>1, Inductive, PTL

\* A struct never outlives the one it points to: viv2d_device_close frees in the
\* reverse order of viv2d_device_open, from wherever that stopped.
THEOREM RefsStayAlive == Spec => []RefsAreAlive
<1> USE PartFacts
<1>1. IInv => RefsAreAlive
  <2> SUFFICES ASSUME IInv, NEW x \in Addrs \cup Fds, obj[x].kind > FD
               PROVE  obj[x].ref # NULL /\ obj[obj[x].ref].kind = obj[x].kind - 1
    BY DEF RefsAreAlive
  <2>1. PICK d \in Devices, p \in Part : Holds(d, p) /\ field[d][p] = x
    BY FreeKind DEF IInv, Held
  <2>2. PartIsGood(d, p)
    BY <2>1 DEF IInv
  <2>3. obj[x].kind = p /\ p # FD /\ obj[x].ref = field[d][p - 1] /\ p - 1 \in Part
    BY <2>1, <2>2 DEF PartIsGood
  <2>4. field[d][p - 1] # NULL
    BY <2>1, <2>3 DEF IInv, FieldsInOrder, Holds
  <2>5. Holds(d, p - 1)
    <3>1. part[d] \in 0 .. 5
      BY DEF IInv, TypeOK
    <3> QED
      BY <2>1, <2>3, <2>4, <3>1 DEF Holds
  <2>6. PartIsGood(d, p - 1)
    BY <2>3, <2>5 DEF IInv
  <2> QED
    BY <2>3, <2>4, <2>6 DEF PartIsGood
<1> QED
  BY <1>1, Inductive, PTL

\* Nothing that is acquired is lost or freed twice, whichever open fails where.
THEOREM NothingLeaks == Spec => []HeldByOne
<1>1. IInv => HeldByOne
  BY DEF IInv, Held, Apart, HeldByOne
<1> QED
  BY <1>1, Inductive, PTL

\* A device that viv2d_device_open returned has all its parts, and its GPU answered.
THEOREM OpenDevicesAreWhole == Spec => []ReadyIsWhole
<1> USE PartFacts
<1>1. IInv => ReadyIsWhole
  <2> SUFFICES ASSUME IInv, NEW d \in Devices, at[d] = "ready"
               PROVE  /\ \A p \in Part : field[d][p] # NULL /\ obj[field[d][p]].kind = p
                      /\ \A p \in Part \ {FD} : obj[field[d][p]].ref = field[d][p - 1]
                      /\ obj[field[d][GPU]].model # 0
    BY DEF ReadyIsWhole
  <2>1. \A p \in Part : field[d][p] # NULL
    BY DEF IInv, FieldsInOrder
  <2>2. \A p \in Part : PartIsGood(d, p)
    BY <2>1 DEF IInv, Holds
  <2> QED
    BY <2>1, <2>2 DEF PartIsGood
<1> QED
  BY <1>1, Inductive, PTL

\* etna_gpu_get_param asks for every parameter under the kernel's number; a value
\* other than the kernel's is the 0 of a failed ioctl, and the model is never that.
THEOREM AnswersStayTrue == Spec => []AnswersAreTrue
<1>1. IInv => AnswersAreTrue
  BY DEF IInv
<1> QED
  BY <1>1, Inductive, PTL
===============================================================================
