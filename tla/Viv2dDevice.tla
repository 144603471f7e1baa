------------------------------ MODULE Viv2dDevice ------------------------------
(***************************************************************************)
(* Opening and closing a device, and the parameters of its GPU.            *)
(*                                                                         *)
(* viv2d_device_open acquires a file descriptor and then, each from the    *)
(* one before, struct etna_device, etna_gpu, etna_pipe and                 *)
(* etna_cmd_stream.  Each step may fail, and then viv2d_device_close       *)
(* unwinds what there is; it is also what a program calls in the end.      *)
(* Nothing is counted: a struct holds a bare pointer to the one before,    *)
(* and viv2d_device_close clears no field of what it frees.                *)
(*                                                                         *)
(* Devices are opened and closed by threads of their own, which share the  *)
(* heap and the descriptors; both are reused as soon as they are free.     *)
(* The malloc of the viv2d_device itself is taken to succeed.              *)
(***************************************************************************)
EXTENDS Integers

CONSTANTS
  Devices,  \* variables of programs that hold a viv2d_device
  Addrs,    \* where calloc may put a struct
  Fds,      \* file descriptors
  NULL,     \* a null pointer; -1, for a descriptor
  Chip      \* Chip[n]: the kernel's value of parameter n

\* The fields of a viv2d_device in the order they are acquired.
FD == 1
DEV == 2
GPU == 3
PIPE == 4
STREAM == 5
Part == 1 .. 5

ASSUME Viv2dDeviceAssumption ==
  /\ Addrs \cap Fds = {}
  /\ NULL \notin Addrs \cup Fds
  /\ Chip \in [1 .. 26 -> Nat]

VARIABLES
  at,      \* at[d]: what is being done to d
  part,    \* part[d]: the part to acquire or to release next; 0: the struct itself
  field,   \* field[d][p]: the fields of the viv2d_device, stale ones included
  obj,     \* obj[x]: the struct at address x, or the file of descriptor x
  answer   \* what etna_gpu_get_param has just said

vars == <<at, part, field, obj, answer>>

-------------------------------------------------------------------------------
\* enum etna_param_id, and the kernel's numbers for the same parameters.
ETNA_GPU ==
  [MODEL |-> 1, REVISION |-> 2,
   FEATURES_0 |-> 3, FEATURES_1 |-> 4, FEATURES_2 |-> 5, FEATURES_3 |-> 6,
   FEATURES_4 |-> 7, FEATURES_5 |-> 8, FEATURES_6 |-> 9,
   STREAM_COUNT |-> 16, REGISTER_MAX |-> 17, THREAD_COUNT |-> 18,
   VERTEX_CACHE_SIZE |-> 19, SHADER_CORE_COUNT |-> 20, PIXEL_PIPES |-> 21,
   VERTEX_OUTPUT_BUFFER_SIZE |-> 22, BUFFER_SIZE |-> 23,
   INSTRUCTION_COUNT |-> 24, NUM_CONSTANTS |-> 25, NUM_VARYINGS |-> 26]

ETNAVIV_PARAM_GPU ==
  [MODEL |-> 1, REVISION |-> 2,
   FEATURES_0 |-> 3, FEATURES_1 |-> 4, FEATURES_2 |-> 5, FEATURES_3 |-> 6,
   FEATURES_4 |-> 7, FEATURES_5 |-> 8, FEATURES_6 |-> 9,
   STREAM_COUNT |-> 16, REGISTER_MAX |-> 17, THREAD_COUNT |-> 18,
   VERTEX_CACHE_SIZE |-> 19, SHADER_CORE_COUNT |-> 20, PIXEL_PIPES |-> 21,
   VERTEX_OUTPUT_BUFFER_SIZE |-> 22, BUFFER_SIZE |-> 23,
   INSTRUCTION_COUNT |-> 24, NUM_CONSTANTS |-> 25, NUM_VARYINGS |-> 26]

Param == DOMAIN ETNA_GPU
Features == {"FEATURES_0", "FEATURES_1", "FEATURES_2", "FEATURES_3", "FEATURES_4",
             "FEATURES_5", "FEATURES_6"}

\* Mutant: a failed ioctl reads as -1.
GetParamFails(n, ok) == IF ok THEN Chip[n] ELSE -1

\* get_param: a failed ioctl is logged and reads as 0.
GetParam(n, ok) == IF ok THEN Chip[n] ELSE 0

Free == [kind |-> 0, ref |-> NULL, model |-> 0, revision |-> 0]
Struct == [kind : Part, ref : Addrs \cup Fds \cup {NULL}, model : Nat, revision : Nat]
NoAnswer == [param |-> "none", ret |-> 0, value |-> 0]
Answer == [param : Param \cup {"none", "invalid"}, ret : {0, -1}, value : Nat]

\* Bound: between two answers something else is done, and answer is cleared.
Forget == answer' = NoAnswer

\* Descriptors and addresses.
Place(p) == IF p = FD THEN Fds ELSE Addrs

TypeOK ==
  /\ at \in [Devices -> {"closed", "opening", "ready", "closing"}]
  /\ part \in [Devices -> 0 .. 5]
  /\ field \in [Devices -> [Part -> Addrs \cup Fds \cup {NULL}]]
  /\ obj \in [Addrs \cup Fds -> Struct \cup {Free}]
  /\ answer \in Answer

Init ==
  /\ at = [d \in Devices |-> "closed"]
  /\ part = [d \in Devices |-> 0]
  /\ field = [d \in Devices |-> [p \in Part |-> NULL]]
  /\ obj = [x \in Addrs \cup Fds |-> Free]
  /\ answer = NoAnswer

-------------------------------------------------------------------------------
\* viv2d_device_open is called.
DeviceOpen(d) ==
  /\ at[d] = "closed"
  /\ at' = [at EXCEPT ![d] = "opening"]
  /\ part' = [part EXCEPT ![d] = FD]
  /\ UNCHANGED <<field, obj>> /\ Forget

\* A step of it succeeds: the new struct points to the one before.
Acquire(d, p, model, revision) ==
  /\ at[d] = "opening" /\ part[d] = p
  /\ \E x \in Place(p) :
       /\ obj[x] = Free
       /\ obj' = [obj EXCEPT ![x] =
            [kind |-> p, ref |-> IF p = FD THEN NULL ELSE field[d][p - 1],
             model |-> model, revision |-> revision]]
       /\ field' = [field EXCEPT ![d][p] = x]
  /\ IF p = STREAM
     THEN at' = [at EXCEPT ![d] = "ready"] /\ part' = [part EXCEPT ![d] = 0]
     ELSE at' = at /\ part' = [part EXCEPT ![d] = p + 1]
  /\ Forget

OpenFile(d) == Acquire(d, FD, 0, 0)

DeviceNew(d) == Acquire(d, DEV, 0, 0)

\* Mutant: a GPU that does not answer is taken all the same.
GpuNewUnchecked(d, ok1, ok2) ==
  Acquire(d, GPU, GetParam(ETNAVIV_PARAM_GPU.MODEL, ok1),
          GetParam(ETNAVIV_PARAM_GPU.REVISION, ok2))

\* etna_gpu_new asks twice, and looks at the first answer only.
GpuNew(d, ok1, ok2) ==
  /\ GetParam(ETNAVIV_PARAM_GPU.MODEL, ok1) # 0
  /\ Acquire(d, GPU, GetParam(ETNAVIV_PARAM_GPU.MODEL, ok1),
             GetParam(ETNAVIV_PARAM_GPU.REVISION, ok2))

PipeNew(d) == Acquire(d, PIPE, 0, 0)

StreamNew(d) == Acquire(d, STREAM, 0, 0)

\* Mutant: the unwinding begins below the part that failed last but one.
OpenFailsShort(d) ==
  /\ at[d] = "opening"
  /\ at' = [at EXCEPT ![d] = "closing"]
  /\ part' = [part EXCEPT ![d] = IF part[d] > DEV THEN part[d] - 2 ELSE 0]
  /\ UNCHANGED <<field, obj>> /\ Forget

\* A step fails (open, an allocation, or a GPU without a model) and leaves
\* nothing of its own behind; viv2d_device_close is called.
OpenFails(d) ==
  /\ at[d] = "opening"
  /\ at' = [at EXCEPT ![d] = "closing"]
  /\ part' = [part EXCEPT ![d] = STREAM]
  /\ UNCHANGED <<field, obj>> /\ Forget

-------------------------------------------------------------------------------
\* viv2d_device_close, called by a program.
DeviceClose(d) ==
  /\ at[d] = "ready"
  /\ at' = [at EXCEPT ![d] = "closing"]
  /\ part' = [part EXCEPT ![d] = STREAM]
  /\ UNCHANGED <<field, obj>> /\ Forget

\* Mutant: the file is closed first, then the structs from the device on.
ReleaseForwards(d, p) ==
  /\ at[d] = "closing" /\ part[d] = p
  /\ LET x == field[d][6 - p]
     IN  obj' = IF x = NULL THEN obj ELSE [obj EXCEPT ![x] = Free]
  /\ part' = [part EXCEPT ![d] = p - 1]
  /\ UNCHANGED <<at, field>> /\ Forget

\* A step of it: what is there is freed, or closed, and the field left as it is.
Release(d, p) ==
  /\ at[d] = "closing" /\ part[d] = p
  /\ LET x == field[d][p]
     IN  obj' = IF x = NULL THEN obj ELSE [obj EXCEPT ![x] = Free]
  /\ part' = [part EXCEPT ![d] = p - 1]
  /\ UNCHANGED <<at, field>> /\ Forget

\* The stream with its buffer, one object here.  Its two tables of buffer objects are
\* not freed (etnaviv.c:315-322): the first relocation allocates them, and no
\* operation is executed between the open and the close of this module.
StreamDel(d) == Release(d, STREAM)

PipeDel(d) == Release(d, PIPE)

GpuDel(d) == Release(d, GPU)

DeviceDel(d) == Release(d, DEV)

CloseFile(d) == Release(d, FD)

\* free(dev).
FreeDevice(d) ==
  /\ at[d] = "closing" /\ part[d] = 0
  /\ at' = [at EXCEPT ![d] = "closed"]
  /\ field' = [field EXCEPT ![d] = [p \in Part |-> NULL]]
  /\ UNCHANGED <<part, obj>> /\ Forget

-------------------------------------------------------------------------------
\* Mutant: the kernel's FEATURES_n is asked for with the number of FEATURES_n+1.
AskedShifted(id) == IF id \in Features THEN ETNAVIV_PARAM_GPU[id] + 1 ELSE ETNA_GPU[id]

\* The number etna_gpu_get_param puts into its request: the kernel's for the
\* features, its own for the rest.
Asked(id) == IF id \in Features THEN ETNAVIV_PARAM_GPU[id] ELSE ETNA_GPU[id]

\* etna_gpu_get_param.  Model and revision were asked for once.
GpuGetParam(d, id, ok) ==
  /\ at[d] = "ready" /\ answer = NoAnswer
  /\ LET gpu == obj[field[d][GPU]]
         value == CASE id = "MODEL" -> gpu.model
                    [] id = "REVISION" -> gpu.revision
                    [] OTHER -> GetParam(Asked(id), ok)
     IN  answer' = [param |-> id, ret |-> 0, value |-> value]
  /\ UNCHANGED <<at, part, field, obj>>

\* An unknown parameter: *value is left alone.
GpuGetParamInvalid(d) ==
  /\ at[d] = "ready" /\ answer = NoAnswer
  /\ answer' = [param |-> "invalid", ret |-> -1, value |-> answer.value]
  /\ UNCHANGED <<at, part, field, obj>>

-------------------------------------------------------------------------------
Opening(d) ==
  \/ OpenFile(d) \/ DeviceNew(d) \/ PipeNew(d) \/ StreamNew(d)
  \/ \E ok1, ok2 \in BOOLEAN : GpuNew(d, ok1, ok2)
  \/ OpenFails(d)

Closing(d) ==
  \/ StreamDel(d) \/ PipeDel(d) \/ GpuDel(d) \/ DeviceDel(d) \/ CloseFile(d)
  \/ FreeDevice(d)

Client(d) ==
  \/ DeviceOpen(d) \/ DeviceClose(d)
  \/ \E id \in Param, ok \in BOOLEAN : GpuGetParam(d, id, ok)
  \/ GpuGetParamInvalid(d)

Next == \E d \in Devices : Opening(d) \/ Closing(d) \/ Client(d)

Spec == Init /\ [][Next]_vars

-------------------------------------------------------------------------------
(***************************************************************************)
(* Properties.                                                             *)
(***************************************************************************)

\* d has acquired its part p and not yet released it.
Holds(d, p) ==
  /\ field[d][p] # NULL
  /\ \/ at[d] \in {"opening", "ready"}
     \/ at[d] = "closing" /\ p <= part[d]

\* A struct never outlives the one it points to: the stream's pipe, the pipe's
\* gpu, the gpu's device and the device's file are there as long as it is, also
\* while a half-opened device unwinds.
RefsAreAlive ==
  \A x \in Addrs \cup Fds :
    obj[x].kind > FD =>
      /\ obj[x].ref # NULL
      /\ obj[obj[x].ref].kind = obj[x].kind - 1

\* Whatever is allocated or open is held by exactly one device: an open that
\* failed and a close leave nothing behind, and free nothing of another device.
HeldByOne ==
  /\ \A x \in Addrs \cup Fds :
       obj[x] # Free => \E d \in Devices, p \in Part : Holds(d, p) /\ field[d][p] = x
  /\ \A d1, d2 \in Devices, p1, p2 \in Part :
       Holds(d1, p1) /\ Holds(d2, p2) /\ field[d1][p1] = field[d2][p2] =>
         d1 = d2 /\ p1 = p2

\* A device that viv2d_device_open returned is whole: every part is there, is of
\* the right kind and leads to the part before it of the same device; and its GPU
\* answered.
ReadyIsWhole ==
  \A d \in Devices :
    at[d] = "ready" =>
      /\ \A p \in Part : field[d][p] # NULL /\ obj[field[d][p]].kind = p
      /\ \A p \in Part \ {FD} : obj[field[d][p]].ref = field[d][p - 1]
      /\ obj[field[d][GPU]].model # 0

\* An answer of etna_gpu_get_param is the kernel's value of that parameter, under
\* the kernel's number, or 0 when an ioctl failed, now or (revision) when the
\* device was opened; the model is never such a 0.
AnswersAreTrue ==
  answer.param \in Param =>
    LET chip == Chip[ETNAVIV_PARAM_GPU[answer.param]]
    IN  IF answer.param = "MODEL" THEN answer.value = chip /\ chip # 0
        ELSE answer.value \in {chip, 0}
===============================================================================
