# Verification of test_omap5_drm

TLA+ modules, TLC configurations and TLAPS proofs kept beside the sources of
`test_omap5_drm`: a user-space 2D library (`viv2d`) for the Vivante GC320 of the
OMAP5, its etnaviv/DRM layer, and the programs that try it out.

## 1. The system

```
 client thread ── viv2d_op_exec / viv2d_flush / viv2d_commit / viv2d_surface_to_bmp
      │                    (viv2d.c, write_bmp.c)
      ▼
 etna_cmd_stream ── bo2idx (idx_lock) ── etna_bo.current_stream, etna_bo.idx
      │                    (etnaviv.c)              shared by all streams
      ▼  ioctl: SUBMIT, WAIT_FENCE, CPU_PREP, GET_PARAM, GEM_*
 kernel: job queue, fences, GEM handles  ── GPU: front end, registers, memory
```

A device owns one command stream. Every register write of an operation goes
through `etna_cmd_stream_reserve`, which submits the stream when it is full, so
jobs are cut wherever the 1024 words end. Streams have no lock of their own (one
thread each); buffer objects are shared, and each remembers in which table
position of which stream it was last used.

### Inventory

| Component | State | Operations | What is hard | What makes it correct | Modules |
|---|---|---|---|---|---|
| Command stream (`etnaviv.c` 253-473, `etnaviv_drmif.h`, `etnaviv.h`) | `offset`, `buffer`; `bos`/`nr_bos`, `submit.bos`, `submit.relocs`; `last_timestamp`; per buffer object `current_stream`, `idx`; `idx_lock` | new, del, reserve, emit, reloc, flush, flush2, finish | `bo2idx` holds a lock, `flush` clears the same marks without it; four counters of two tables; refused submits are only logged; unsigned room | a mark leads to the right table entry; tables agree and obey the kernel's rules; words stay in the buffer; the lock comes back; a job holds what was emitted | `CmdStream`, `CommandBatch` |
| Operation execution (`viv2d.c` 313-717) | the operation; the GPU's registers | `viv2d_op_new`, `_add_rect`, `_set_*`, `_exec`, `_del`, `viv2d_flush`, `viv2d_commit` | registers outlive an operation and a job; operations are cut between jobs; `exec` changes its operation; alignment of data | a draw does what its operation says; commit waits for all of it; a job lists what it uses | `Viv2dExec`, `FrontEnd` |
| Register and command encodings (`*.xml.h`) | the words | packing of fields, LOAD_STATE and DRAW_2D headers, padding | field widths, neighbours in a word, data that looks like commands | the front end finds whole commands and the engine the fields that were meant | `Registers`, `FrontEnd` |
| Fences and timeouts (`etnaviv.c` 188-224, 391-456, 602-613, 645-659) | fence numbers, absolute deadlines, sync files | `etna_pipe_wait(_ns)`, `etna_bo_cpu_prep`, `etna_bo_wait`, finish, flush2 | 32-bit products of milliseconds and seconds, `tv_nsec` not normalised, signals, ignored results | a deadline is not early; a wait that succeeds saw its job; every wait ends | `Fences` |
| Buffer objects (`etnaviv.c` 477-693) | handle, map, offset, mark; the kernel's handles, descriptors and mappings; no reference count | new, from dma-buf, from user memory, map, dmabuf, del | deletion while a stream still lists the object, reuse of memory and handles, imports that share a handle, failures of the map path | a handle and a map are of the object's own; nothing refers to what is gone | `Buffers` |
| Device, GPU and pipe (`viv2d.c` 204-263, `etnaviv.c` 40-247) | five nested resources | `viv2d_device_open`, `_close` and the `_new`/`_del` below them | a failure after any of five steps, threads that share heap and descriptors | everything acquired is released once; a returned device is whole | `Viv2dDevice` |
| GPU parameters (`etna_gpu_get_param`) | model and revision, kept | one ioctl per value | two numberings, failures that read as 0 | the answer is the kernel's | `Viv2dDevice` |
| Surfaces and BMP dumps (`viv2d.c` 154-202, 279-311, `write_bmp.c`) | size, pitch, buffer object; the file | new, alloc, del, to_bmp | pitch against width, bytes behind the picture | the dump stays in the object and shows the picture | `Surfaces` |
| Kernel declarations (`etnaviv_drm.h`, omap headers) | none | – | – | – | – |
| Test programs (`test_*.c`) | – | they show how the library is called | – | – | – |

The interactions: `viv2d` calls the stream (reserve, emit, reloc, flush, finish);
the stream calls the kernel (SUBMIT, WAIT_FENCE); two streams interact only
through the marks in shared buffer objects and through `idx_lock`; the surface dump
relies on the kernel knowing, from the tables of a job, which buffer objects it
uses. There are no callbacks in the programs: `reset_notify` is always NULL.

The hazards, line by line, are in `PROJECT.json` under `hazards`, with the
properties that cover them or why none does.

## 2. Modules

| Module | What it is |
|---|---|
| `CommandBatch` | what a stream promises: words are collected, an address word names the buffer object the caller gave, a flush hands over exactly these words |
| `CmdStream` | the streams of `etnaviv.c`: tables, marks, lock, flush, one thread per stream |
| `Viv2dExec` | operations of `viv2d.c`, the stream they are emitted into, the job queue and the GPU's registers |
| `Fences` | every wait of `etnaviv.c`, the clock it reads, the jobs it waits for, and the fence descriptors of flush2 |
| `Buffers` | the life of `struct etna_bo`, GEM handles, dma-bufs and mappings, and what streams remember of them |
| `Viv2dDevice` | opening and closing a device, and the parameters of its GPU |
| `Registers` | the layout of the registers and front end commands that `viv2d.c` writes |
| `Surfaces` | color formats, pitch, allocation, BMP files (EXTENDS `Registers`) |
| `FrontEnd` | `viv2d_op_exec` word by word, and the GPU's front end reading the words back (EXTENDS `Surfaces`) |
| `MC...` | the same for TLC: values of the constants, symmetry |
| `...Proofs` | theorems about the module of that name |

The modules look at one system at different depths. `CmdStream` has threads and tables and
does not know what words mean; `Viv2dExec` has whole operations over the stream that
`CommandBatch` promises; `FrontEnd` has the bits of every word and takes jobs as run when they are
flushed; `Fences` has time and no contents; `Buffers` has one thread and memory that is used
again; `Viv2dDevice` has what exists before the first word.

### CmdStream and the code

Variables carry the names of the C fields: `current_stream[b]` and `bo_idx[b]` are
`bo->current_stream` and `bo->idx`; `bos[s]`, `submit_bos[s]`, `relocs[s]` are the three
arrays with their counters (a counter is the length of its sequence);
`pc`, `call`, `arg`, `idx`, `pos` are the thread's program counter, the call it is in and its
locals.

Every access to shared memory is a step: the two loads of the mark in `bo2idx`
(`TestUnmarked`/`TestMarked`, `OwnerIsSelf`/`OwnerIsOther`), its two stores
(`SetCurrentStream`, `SetIdx`), `Lock`, the unlock in `UnlockAndReloc`, the ioctl (`Submit`) and
each turn of the clearing loop of `flush` (`ClearMark`). What a thread does to its own
stream between two of them is part of the step. `Enter` is the beginning of a call,
where `etna_cmd_stream_reserve` decides whether to flush first; `ResetInReserve` goes
back into the call that needed room, `ResetAndReturn` ends a flush or a finish.

The wait in `etna_cmd_stream_finish` may end by the fence or by its timeout; its result
is ignored in the code and so it is here. `Submit(s, FALSE)` is the refused ioctl.

A stream is deleted only when its table is empty (`StreamDel`): the programs commit
before they close a device. What that discipline is worth is checked in `Buffers`, where the
memory of a deleted stream is used again.

Sizes are counted in words, and one state (header and value) is the unit that is
emitted. What the words mean is not in this module.

### CommandBatch

`ImplementsBatch` is the refinement: `batch[s]` is read off the detailed state by
following each relocation through the stream's own table (`Words`), and becomes empty
when the ioctl has been made. A wrong index, a table that was not reset, a
relocation at a wrong offset would make the read-off batch differ from what the caller asked
for.

### Viv2dExec and the code

`op` is the client's `viv2d_op`; `Edit` and the actions above it are the setters and the
fields the programs set themselves (`pat_fill`, `data`, `srcs`). `ExecBegin` is the beginning of
`viv2d_op_exec` (default rectangle, raster operation of a pattern fill) and puts the list of
writes of this operation, in the code's order, into `todo`; `Emit` and `FlushAndEmit` emit one
item, with the decision of `etna_cmd_stream_reserve` before it. Registers that are written together from
the same fields are one register; `DRAW_2D` is the draw command with its rectangles and
data. The stream here is what `CommandBatch` promises.

External parts, modelled from how the code uses them: the kernel's queue (jobs run in order,
a fence is signalled when its job has run), the GPU (`RegsAt` is what its registers hold when it has come
to an item of a job: the last write to each counts) and other processes (`ForeignJob` may leave any value in
the registers: nothing saves them between jobs). `Effect` says what a draw does from the
registers alone; `Asked` says what the operation describes.

`cut` and `disturbed` are history variables for the properties.

### Fences and the code

`now` is CLOCK_MONOTONIC, `seqno` and `completed` the last job accepted and the last finished, `bo_fence[b]`
the last job that lists `b`. A wait is a record in `call[t]` that goes through "entered" (the caller has asked),
"timed" (`GetAbsTimeout` has read the clock and computed `tv_sec` and `tv_nsec` in C's types), "blocked" (in the
ioctl) and "returned"; `Resume` is the caller going on without looking at the result. Each of
`etna_pipe_wait_ns`, `etna_pipe_wait`, `etna_cmd_stream_finish`, `etna_bo_cpu_prep` and `etna_bo_wait` enters with
its own target and span. Time passes between any two steps; `Interrupt` is a signal, after which libdrm
issues the ioctl again with the same deadline. `Flush2` and `Flush2Refused` hand out descriptors: the refused one
hands out what the request was made with.

Fence numbers do not wrap here: `CmdStream` and `Viv2dExec` count them modulo.

`asked` and `owed` in a wait are history: the span the caller asked for, and the last of the jobs it was to wait for.

### Buffers and the code

`bo[a]` is the memory of a `struct etna_bo` at address `a`, which keeps its contents after `free` until `calloc`
clears it; `live` and `streams` are what is allocated; `handle_of`, `dmabuf` and `maps` are the kernel's side. An object
without handle, descriptor and mapping is gone (`Unused`) and its number may stand for a new one. `BoMap` has the two failures
of the code: of GEM_INFO, whose result nobody looks at, and of mmap. `Flush` writes through every pointer of its
table, whatever is there. `SurfaceDel` and `DeviceClose` are the programs' discipline: delete and close after a commit; the
mutant `SurfaceDelEarly` is a client without it. `Reimport` says whether clients import what they already have a handle of.

### Viv2dDevice and the code

`at[d]` and `part[d]` say what is being done to a device and with which of its five parts; `field[d]` are the fields of the
`viv2d_device`, which nobody clears; `obj` is the heap and the descriptor table, shared by all devices. Each of
`OpenFile`, `DeviceNew`, `GpuNew`, `PipeNew`, `StreamNew` takes a free place; `OpenFails` is any of the failures, after which
`viv2d_device_close` runs, part by part. `GpuGetParam` answers under the number `Asked` says, which is the kernel's for the
features and the library's own for the rest.

### Registers, Surfaces, FrontEnd and the code

A word is the set of its one bits, so `|` is a union, `__MASK` an intersection and `__SHIFT` a translation. `Registers` gives
every register `viv2d.c` writes its address and fields, `FrontEnd` has `viv2d_op_exec` as a sequence of
pieces, one for each reserve: `Program` follows the code block by block (`DestWrites`, `ClipWrites`, `MultiSourceWrites`,
`SourceWrites`, `NoSourceWrites`, ...). The address of a surface is a word the kernel has chosen. Fields of an operation that
`viv2d_op_new` does not set hold `HeapWords`, words skipped by ETNA_ALIGN hold `Stale`.

The front end is external: it takes words one at a time (`FeStep`), knows a command from data by counting only, starts commands at
even words, and keeps its registers from job to job. `Seen` is what the engine draws from the registers, `Asked` what
the operation describes; `due` and `wanted` are history. `Surfaces` has the pitch, the size of a
buffer object, and a file as its header and the number of bytes behind it.

## 3. Runs

| Run | Instance | States | Question |
|---|---|---|---|
| `two` | 2 fair streams, 2 buffer objects, 6-word buffer | 502 260 | are marks and tables sound under every interleaving of `bo2idx` and `flush`, do words stay in the buffer, does it all implement `CommandBatch`, does the lock come back, does a flush end? |
| `two_entries` | as `two` | violated | one entry per buffer object with two streams |
| `pairs` | every two operations of the six commands, colors, blending on and off, pattern fill; 8 usable words | 4 485 732 | does an operation inherit a register? |
| `copies` | multi-source and mono blits, 2 surfaces, clip, 0-1 data words, 2 jobs pending, 20 usable words | 1 932 546 | overrun of the buffer; what commit waits for; what a job lists |
| `prep` | two copies | violated | is `CPU_PREP` enough? |
| `colors` | one line or mono blit | violated | is it drawn in its color? |
| `waits` | 1 thread, 1 buffer object, every kind of wait, 2 jobs of this and other programs, signals, a GPU that may hang | 233 505 | is a deadline early, is a wait cut short, does it end? |
| `early` | 1 job | violated | does finish wait as long as it says? |
| `objects` | 2 addresses, 2 streams, 3 objects, 2 handles, 2 descriptors, 3 relocations | 386 256 | does anything refer to what is gone, or to what took its place? |
| `open` | 2 devices, 6 addresses, 2 descriptors | 96 871 | does an open or close leak, free twice, dangle? are answers true? |
| `words` | 2 surfaces of 3 kinds (padded and unpadded rows, 8 and 32 bits), 2 operations, 1 change of an operation | 392 560 | does the engine see what the operations say? do dumps show surfaces? |
| `blocks` | one multi-source blit, added | violated | are its sources blended as asked? |

What they show:

* `CmdStream`: `MarkedBoIsListed` (the fast path of `bo2idx` uses an index without
  looking at the table: it is right although other threads clear marks without the lock),
  `MarkNeverStolen` (a mark goes through NULL before another stream takes it),
  `RelocsWellFormed` (the kernel's rules for relocations), `TablesMatch` (the table `flush` walks and the
  table the kernel gets), `OffsetInBounds` (the unsigned subtraction of
  `etna_cmd_stream_avail` never wraps), `LockIsReleased`, `FlushEnds`, `ImplementsBatch`.
* `Viv2dExec`: `DrawsAsAsked` (what an operation asks for is not decided by what ran before: its own writes set
  or reset the registers, and an operation that is in one batch is right even if another job was
  refused or another process drew. Three things are excluded by name in the property (`Dropped`), because `viv2d_op_exec` does not emit them:
  the color of a line, the color of a mono blit, and the mode of a multi-source blit that is to be blended, but not over; the runs `colors` and `blocks`
  are about them), `BufferNotOverrun` (odd data and `ETNA_ALIGN` included),
  `CommitSeesDraws` (the fence of commit covers every job), `WholeOpsAreSynced` (a job lists the surfaces of the
  operations that are whole in it).
* `Fences`: `DeadlineHolds` (a deadline is never before the time asked for and late by whole multiples of 2^32 ns only: the wrap of
  `s * 1000000000` makes the 5 s of CPU_PREP longer, not shorter), `WaitHolds` (signals, a slow start and a busy ring do not
  shorten a wait, and it is for the right job), `PrepHolds`, `WaitEnds` (also when the GPU hangs).
* `Buffers`: `HandleIsOwn`, `HandlesAreBalanced`, `MapsAreOwn`, `BatchIsAlive`, `MarksAreAlive`: with the programs'
  discipline nothing of a deleted stream, struct, handle or mapping is found in the one that is made in its place.
* `Viv2dDevice`: `RefsAreAlive`, `HeldByOne` (neither leak nor double free on any failure path of any thread), `ReadyIsWhole`,
  `AnswersAreTrue`.
* `FrontEnd`: `CommandsAreWhole` (every piece between two reserves is whole commands of even length, so that any cut into
  jobs is harmless, with data that looks like headers), `EngineSeesOp` (what the engine reads from its registers is what the operation asked for,
  field by field, with stale registers, garbage in unset fields and values that fill their fields; the same three things are excluded, record by record, in
  the field `dropped` of what was asked for), `StretchSpansSource`,
  `DumpStaysInside`, `DumpShowsPicture`.

### Disagreements the runs show

* `two_entries` - `flush` clears the marks of every buffer object it lists, whoever set them
  (`etnaviv.c:425-428`), so a stream may list one buffer object twice, against
  `etnaviv_drm.h:134-136`. With one stream it cannot (theorem `SoleStreamListsOnce`).
* `prep` - an operation may be cut between the relocation of its destination and its draw;
  the second job does not list the surface it draws into, and `CPU_PREP`
  (`etnaviv_drm.h:180`, `viv2d.c:301`) does not wait for it. `viv2d_commit` does (`CommitIsSound`),
  and the test programs commit before they dump.
* `colors` - a line's color (`test_viv2d.c:105`) is never emitted: whichever register the engine takes it from, an earlier operation or another client decides it.
  That is the shortest counterexample; with `Cmds = {"mono_blit"}` the run finds another: a mono blit's color (`test_viv2d.c:499`) goes to the registers of a
  clear, and its bits are drawn white on a fixed background (`viv2d.c:586-589`).
* `blocks` - a multi-source blit that is to add its sources (`test_viv2d.c:333-334`) is blended ONE/INVERSED, the mode of "over" (`viv2d.c:512-515`): of
  `viv2d_op_set_blend` its blocks see only that it was called and the two alphas.
* `early` - `ms * 1000000` is a product of 32 bits (`etnaviv.c:223`): the 5000 ms of `etna_cmd_stream_finish` are 705 ms, and
  finish goes on with the job still running.

### Seen in the code, with no promise to check it against

* A refused submit in `etna_cmd_stream_flush2` hands out the in-fence, or descriptor 0, as the out-fence (`etnaviv.c:433`); `Flush2Refused`
  does it, and nothing says what it should be.
* `tv_nsec` exceeds a second whenever a carry is due (`etnaviv.c:194`).
* Importing an object a second time gives two `etna_bo` with one handle, and the first `etna_bo_del` closes it under the other. The run `objects` leaves it
  out (`Reimport = FALSE`), as the programs do: `HandleIsOwn` and `HandlesAreBalanced` say nothing about it, and fail with `Reimport = TRUE`.
* `etna_cmd_stream_del` does not free the two tables of buffer objects (`etnaviv.c:315-322`), so a device that has drawn leaves them behind; `Viv2dDevice`, where the
  stream is one object and nothing is drawn, does not have them. `bmp_dump32` does not close its file and looks at the result of no
  write; `viv2d_surface_to_bmp` looks at neither `CPU_PREP` nor the mapping.
* 256 rectangles are sent as 0 (`viv2d.c:681`), and `viv2d_op_add_rect` has no limit. `viv2d_op_exec` leaves its default rectangle in the operation.
* The 16 of the A8 format does not fit PE10_SOURCE_FORMAT and becomes 0 there (the mask keeps it out of the neighbour); clip corners have 15 bits.
* A stretch to a destination one pixel wide or high divides by zero (`viv2d.c:595`).
* A dump of a 16-bit surface reads behind its buffer object, and one whose rows are padded shears the picture (`viv2d.c:302`).

### Bounds and why they are enough

* Two streams and two buffer objects in `two`: the races in `bo2idx` are between one thread
  in it and one in `flush` about one mark; a second buffer object makes indexes differ and
  gives the table a second entry to search. A 6-word buffer holds two states, so a
  reserve flushes in the middle of a call, and a batch has two relocations. The proofs
  remove these bounds.
* Fences modulo 2 or 3 in `Viv2dExec`: they wrap within every run. `FenceMod > MaxJobs` stands for fewer than 2^32
  pending jobs. `CmdStream` only stores the number of a fence, so `two` has a single one, which halves its states; the proofs have any modulus.
* `MaxOps`, `MaxJobs`, `Cmds`, `Edits`: two operations are enough for one to inherit from the other, as
  every operation starts by writing its destination and the property is about a draw's own
  operation.
* Buffer sizes of `Viv2dExec`: `pairs` has 8 usable words, half of an operation, so that operations of
  different lengths are cut before almost every one of their writes and before the draw;
  `copies` has 20 (size argument 21, to see the rounding), where an operation may also be
  whole in a job, as nearly all are in the 1024 words of a device.
* `Fences` is scaled: a second is 2 ticks and a word holds 9, so that 5 s (10 ticks) are more than a word, as 5000000000 is more than 2^32. Spans of 0
  (does not block), 3 (carries), 10 (the 5 s) and milliseconds that are exact, wrap to 0 and wrap to 1 occur. `MaxStart` bounds when calls begin,
  `MaxTime` is later than every deadline, so that no wait hangs on the end of the clock. Two jobs give a wait an earlier and a later one.
* `Buffers`: two of everything that is reused, three objects so that one is always free to be somebody else's; three relocations let a second batch
  differ from the first.
* `Viv2dDevice`: six addresses hold one whole device and half of another, so that a freed place is taken by the other thread.
* `words`: `MaxRects` 2 (an odd and an even number of corners; the proof has 255), `SourceCounts` 1 and 2 (the proof has up to 4, the length of `srcs`). Above 255 rectangles the count in the
  header is cut to 8 bits, and what the front end makes of a count of 0 is not in the repository. The values are chosen to fill fields (rectangles to 32767, a clip to 15 bits, the highest format and swizzle numbers, garbage in all 32 bits);
  one change of an operation at a time, since setters change different fields; two operations because registers are inherited from one to the next.
* `pairs` blends with the one mode a block has, so that a blit that is not blended follows one that is. No branch
  of `viv2d_op_exec` depends on which mode it is; `words` has two as bit fields (one in front of the alphas, one not), and `DrawsDoAsAsked` and `EngineDrawsAsAsked`
  are proved for any set. `colors` and `blocks` need one operation.
* Surfaces, streams, addresses and descriptors are interchangeable: symmetry is used where no liveness is checked.

### Fairness

In `CmdStream`, `FairSpec` has weak fairness of each thread's `Step`: the scheduler runs a thread that can run, an
ioctl returns, and the wait of finish ends because it has a timeout. The client's choices
(`Client`) are not fair. Nothing is assumed about the order in which the lock is handed
out: weak fairness does not promise that a particular thread ever gets `idx_lock`, and no property claims it.

In `Fences`, `FairSpec` has weak fairness of the clock and of each thread's `Step`. The GPU is not fair: it may hang, and so may signals come at
any time or never. `WaitEnds` rests on the clock alone.

`CHECK_DEADLOCK FALSE` is said where the bounds end the behaviour: `Fences` (jobs, clock), `Buffers` (all addresses and handles in use, a client that does nothing more) and
`FrontEnd` (operations).

## 4. Proofs

All theorems hold for every value of the constants that satisfies the named assumption of the module. Every property was
checked by TLC before it was proved. What each module proves, and along which argument:

`CmdStreamProofs`, under `CmdStreamAssumption` (NULL is no stream, room for one state besides the end
clearance, at least one fence number):

* `TypeCorrect` - the types, and that a thread in `bo2idx` has a buffer object at hand (`ArgOK`).
* `MarksAreSound` - `MarkedBoIsListed` is not inductive: the index is in a local between two stores, and other
  threads clear marks at any time. `MarkInv` adds: the lock is held exactly inside `bo2idx`
  (`LockInv`), the local index is right (`LocalIdx`), a mark just taken is still this stream's or NULL
  (`MarkStable`), `flush` has cleared what its loop has passed (`ClearLoop`, `Unmarked`), a
  deleted stream has nothing (`FreeIsEmpty`). `MarkNext` has a step for each action.
* `MarksAreNotStolen` - the action property, from the same invariant.
* `RelocsAreSound`, `TablesAreMatched`, `OffsetsStayInBounds` - from `TablesInv`, on top of `MarkInv` (an index of
  a relocation must be in the table) and `RoomInv` (past reserve there is room for a state).
* `SoleStreamListsOnce` - with one stream and a handle for each buffer object, `OneEntryPerBuffer` holds: what is listed is marked
  (`SoleInv`), since no one else clears a mark. It is the other half of the run `two_entries`.

`BatchProofs`, on top of it:

* `StreamsImplementBatches` - the refinement `ImplementsBatch`: initial states map to initial states, and each step maps to a step of `CommandBatch` or
  a stutter. `Batch` reads an address word off the relocation at its offset, by a CHOOSE, so the proof first shows that there is just one: relocations are
  strictly sorted by offset (`RelocsSorted`). `CallInv` ties the program counter to the call a thread is in and to its argument.
  An append to a table leaves the entries of earlier relocations alone; `UnlockAndReloc` and `Emit` add the word `CommandBatch` says, the accepted or
  refused ioctl is its flush, and the rest (locks, marks, clearing loops, resets) are stutters.

`Viv2dExecProofs`, under `Viv2dExecAssumption` (the largest draw fits an empty buffer: neither reserve nor
any caller looks):

* `CommitIsSound` - `CommitSeesDraws`, by `FencesInv`: the remembered fence is the newest job's; refused
  submits, flushes inside an operation and the wrap of fences do not change that.
* `BufferIsNotOverrun` - `BufferNotOverrun`, by `RoomInv`: offset and size are even and what is still to be emitted
  fits; `ItemFits` is the arithmetic of the padding.
* `TypesHold` - the types.
* `DrawsDoAsAsked` - `DrawsAsAsked`, with its exclusions, when the client gives the commands `viv2d_op_exec` has a case for (`Cmds \subseteq Handled`: all but
  `viv2d_cmd_pat_fill`, see section 5). Two halves. (1) `EffectOfSetup`, a fact about `Setup` alone, command by command: a draw whose registers hold
  what its own operation wrote to them (it *finds its writes*) does what the operation asks, apart from what `Dropped` names, whatever the other registers hold. It needs that no register
  is written twice by an operation (`SetupShape`). (2) That draws do find their writes. `ExecInv` says where in its `Program` an operation is and that the
  description did not change meanwhile; `BatchesInv` says that a whole operation's draw finds its writes whatever the batch begins with;
  `ChainInv` says that, undisturbed by other processes and refused jobs, there is a chain of register states from the GPU's through all pending jobs to the end of the stream along which
  every draw does. A step that runs a job takes the first link from the chain, a flush adds one, an emit changes the last. `RegsAt` is a
  maximum over the writes to a register, which is why it needs no induction.
* `WholeOpsAreListed` - `WholeOpsAreSynced`: the relocations of a piece of a program that holds the draw and began in this batch are those of all of it (`ValuesInv`,
  and `BatchesInv` again).

`FencesProofs`, under `FencesAssumption` (sizes are positive, a second is whole milliseconds):

* `FencesTypeCorrect`, `DeadlinesAreNotEarly`, `WaitsAreNotCutShort`, `PrepIsNotCutShort` - by `IInv`, whose `CallOK` says for each point of a wait what its
  record holds. The arithmetic is `AbsTimeoutIsNotEarly`: a uint32_t differs from what was assigned to it by whole words and downwards, the product is
  subtracted, so the deadline is late. The proof is for every length of a second and every width of a word, hence for 10^9 and 2^32.

`BuffersProofs`, under `BuffersAssumption` and `~Reimport`:

* `BuffersTypeCorrect`, `HandlesAreSound`, `HandlesAreOwn`, `MapsAreSound`, `BatchesAreSound`, `MarksStayAlive` - `HInv` (structs, handles, mappings: a map is NULL or of the own
  object, and so is an offset) and `SInv` (tables and marks of live streams) are inductive together: handles in tables are right because live structs keep theirs.

`Viv2dDeviceProofs`, under `Viv2dDeviceAssumption`:

* `DeviceTypeCorrect`, `RefsStayAlive`, `NothingLeaks`, `OpenDevicesAreWhole`, `AnswersStayTrue` - the invariant says what a field of a `viv2d_device` is worth
  at each point: unset above the part that is being acquired, stale above the part that is being released (`FieldsInOrder`), else of the right
  kind and leading to the field below (`PartIsGood`), held (`Held`) and nobody else's (`Apart`).

`FrontEndProofs`, on words, surfaces and commands, under `SurfacesAssumption` (widths and heights are positive) and `FrontEndAssumption` (addresses, colors, stale words and data are of
32 bits, alphas are bytes, at most 4 sources, as `srcs[4]` has; at most 255 rectangles and 2047 words of data, as a DRAW_2D header can count: see section 3):

* `PackReadsBack` - a value or-ed into its field comes back whatever the other fields hold, when it fits and the fields are apart.
* `RectArrives` - so the corners of any rectangle arrive, with 16 bits each.
* `DumpsStayInside` - a dump of a surface of 32 bits of any size stays in its buffer object (`SurfInv`: the pitch holds a row, the object all rows).
* `DumpsShowPictures` - the header of a dump promises what is written behind it, and pixels are where a reader of the file looks for them (`PictInv`:
  a file is the dump of a surface of 32 bits; a width that is a multiple of 8 has rows without padding, `RowsAreTight`).
* `NumOfBits` - a number below 2^31 is what is read from its bits: `Num` is a fold over a set of bits.
* `CommandsStayWhole` - `CommandsAreWhole`, for any number of operations, jobs, surfaces, and any data. The invariant `WholeInv` says that the buffer is a
  sequence of `Pieces` and that the front end is `Ready`. A piece is defined by what the front end does with it: an even number of words that takes
  any front end at an even word between two commands to another such, whatever its registers hold. Three parts:
  (1) words. `FetchConcat` - what is read in two parts is read as if in one, although `Fetch` reads in blocks, by the run of states through the words; `FlattenSteps` the same for
  a sequence of pieces; so a sequence of pieces is harmless however long (`StreamIsTaken`). `PairIsTaken`: a LOAD_STATE header of one register is taken apart
  as it was put together, and the word behind it goes to that register. `DrawIsTaken`: a draw takes the padding word, exactly its rectangles, exactly its data and what
  pads them, whatever data looks like, and leaves one draw with these corners and data.
  (2) programs. Each `...Writes` of `Program` is a sequence of pieces (`DestWritesFit` to `DrawWritesFit`, `ProgramFits`): every register has an address that fits a header and fields
  that fit a word (`ValuesAreRegs`, `SizesAreRegs`, `ConfigsFit`, `BlocksAreRegs`), and an odd draw is padded.
  (3) the client. `OpInv`: every call leaves the operation one that can be described, with no more rectangles and data than can be counted, and the default
  rectangle `viv2d_op_exec` adds does not change that (`PreparedIsOp`).
* `FrontEndTypes` - `TypeOK`: no register outside of the address space is written, every register holds a word, the front end is never in a mode it cannot leave, histories
  are as long as they can be (`CountInv`).

The recursive functions `Steps` and `Fetch` and the folds `FlattenSeq` and `Num` are reasoned about by induction over sets of numbers (`Induct`): a set that has 0 and with each number the next
has all. What holds of the words of a stream is stated as a set of the lengths it holds for.

`EngineProofs`, on top of it, under `FieldsAssumption` as well: blends are those of `viv2d.h`, and no surface is wider or higher, and no rectangle ends further right or below, than 32767. The
registers have 15 bits for a corner of the clip rectangle and 16 for sizes and origins. Nothing in `viv2d.c` checks it: it is what its callers have to keep, and with a larger one
the masks of `state_2d.xml.h` cut the number and `EngineSeesOp` is false.

* `EngineDrawsAsAsked` - `EngineSeesOp`, for any surfaces, operations, numbers of sources, rectangles and data, any garbage in the fields `viv2d_op_new` leaves unset, any
  registers left behind, and every number of operations in a job. Not said, and false: that the color of a line or of a mono blit arrives, and that a
  multi-source blit is blended in another mode than over. `SeenIsAsked` proves the blend of each block for no blend and for over, its source always.
* `StretchesSpanSource` - `StretchSpansSource`: the steps end at the last pixel of the source (the lemma `StretchEndsInSource`: `<< 16` is of 32 bits and loses none
  of a size up to 65536), and the factors arrive whole.
* `CutsChangeNothing` - pieces submitted as two jobs leave the registers as one job would and draw the same in the same order, as a front end with earlier draws
  does what one without them does (`Behind`, word by word), and every piece leaves it ready.
* `CutDrawsAsAsked` - so at any time what is in the stream is drawn as asked, with the exclusions of `EngineDrawsAsAsked`, wherever it is cut between two reserves; no run checks this one.

`EngineSeesOp` speaks of draws that were made, so it is not inductive: nothing in it says what is still in the stream. `SeenInv` adds to `WholeInv`
that every surface fits the registers (`SizeInv`), that the operation at hand is one the client may describe, with the sources and data of its command (`DescInv`), and
that the stream, taken by *any* front end that is ready and whatever its registers hold, leaves just the draws that are due (`DueInv`); `WantedInv` says
the same of what was drawn. Quantifying over the front end is what makes inheritance harmless: `Flush` applies it to the registers the last job left. (`Flush` is between operations.
That a cut inside of one changes nothing is `CutDrawsAsAsked`.) The argument for one operation:
(1) The writes of an operation are taken together as a set of addresses and words, `...Set` for each `...Writes` of the program. A set is `Sole` when no register is given two different
words. The sets live in separate zones of the address space (`Zoned`), so their union is `Sole`, and then the registers hold every word of it behind the last piece, in whatever
order they were written and whatever was there before (`WritesAreHeld`).
(2) Every field `Seen` looks at is read back from its word (`PackReadsBack`): destination, clip, raster operation, blending, pattern, the source or each of up to four blocks, the stretch.
Here it matters which fields share a word, that 16 (A8) loses its bit only in PE10_SOURCE_FORMAT, and that blending off leaves the modes unread.
(3) What is read is what `Asked` says, command by command, and the draw brings its corners and data (`DrawIsTaken`).

So every invariant, action property and refinement of the passing runs is stated by a theorem. Only model-checked:

* `LockIsReleased`, `FlushEnds`, `WaitEnds`: liveness under fairness needs ENABLED, which the prover does not reason about.

## 5. Not modelled

* The capacity of the tables (`grow`, `etnaviv.c:253-264`): it follows from the lengths, and a failed `realloc` is not handled by the code. Failed allocations of
  streams and structs are modelled where the code looks at them (`Viv2dDevice`).
* `etna_cmd_stream_timestamp`, `etna_bo_size`, `etna_bo_handle`, `etna_bo_cpu_fini`: read only, or change nothing in the library.
* Kernel declarations and omap headers: no state of their own; the modules take the kernel as `etnaviv.c` uses it. Test programs: drivers; the discipline they
  keep (commit before dump, delete and close) is in the models.
* `viv2d_cmd_pat_fill` and filter blits: declared, handled by nobody (it clears with an old color), used by no program.
* More than 255 rectangles, a stretch to one pixel, a surface without a buffer object: undefined behaviour, or hardware behaviour that is not in the repository.
* In `Viv2dExec` a register group is written in one item; a cut inside a group is a cut before or after it.
* `bmp_dump32_noflip` and `bmp_dump32_ex`, which nothing calls; the colors in a BMP header.

## 6. Plan

Done: `CmdStream` and `CommandBatch` with the proof of the refinement, `Viv2dExec` with every safety property proved, `Fences` (with the deadlines), `Buffers`, `Viv2dDevice`,
`Registers`, `Surfaces`, `FrontEnd`, and the proofs of section 4, which state everything the passing runs check but liveness. Left:

1. Capacities of the tables (`grow`), and who frees them.
