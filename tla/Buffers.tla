-------------------------------- MODULE Buffers --------------------------------
(***************************************************************************)
(* The life of buffer objects: struct etna_bo, GEM handles, dma-buf file   *)
(* descriptors and mappings, together with what a command stream remembers *)
(* of a buffer object between a relocation and the flush.                  *)
(*                                                                         *)
(* Nothing here is counted or reference-counted by the library.  A stream  *)
(* keeps a pointer to the struct and a copy of the handle; the struct      *)
(* keeps a pointer to the stream.  Memory, handles and descriptors are     *)
(* reused as soon as they are free, so a stale one means something else.   *)
(*                                                                         *)
(* One thread (CmdStream has the interleavings of several).  Calls that    *)
(* fail and change nothing (etna_bo_new, etna_bo_from_dmabuf,              *)
(* etna_bo_from_usermem_prot returning NULL) are stuttering steps.         *)
(***************************************************************************)
EXTENDS Integers, Sequences

CONSTANTS
  Addrs,     \* where a struct etna_bo may be allocated
  Streams,   \* where a command stream may be allocated
  Objs,      \* GEM objects of the kernel
  Handles,   \* GEM handles, never 0
  Fds,       \* descriptors for dma-bufs
  NoStream,  \* NULL
  NoObj,     \* no object; offset 0; NULL, for map
  Reimport,  \* whether clients import objects they already have a handle of
  MaxWords   \* bound: relocations of one batch

ASSUME BuffersAssumption ==
  /\ NoStream \notin Streams
  /\ NoObj \notin Objs
  /\ 0 \notin Handles
  /\ Reimport \in BOOLEAN
  /\ MaxWords \in Nat

VARIABLES
  live,       \* the allocated structs
  bo,         \* bo[a]: the memory at a, allocated or not
  obj_of,     \* obj_of[a]: the object a was last made for
  streams,    \* the allocated streams
  table,      \* table[s]: priv->bos and priv->submit.bos, entry by entry
  words,      \* words[s]: the relocations, with the buffer object asked for
  handle_of,  \* handle_of[h]: the object of an open handle, or NoObj
  dmabuf,     \* dmabuf[fd]: the object of an open descriptor, or NoObj
  maps        \* the mappings of the process: <<struct it was made for, object>>

kernel == <<handle_of, dmabuf, maps>>
stream == <<streams, table, words>>
vars == <<live, bo, obj_of, stream, kernel>>

-------------------------------------------------------------------------------
\* struct etna_bo; offset stands for the object whose mmap offset it is.
EtnaBo == [handle : Handles \cup {0}, map : Objs \cup {NoObj},
           offset : Objs \cup {NoObj}, current_stream : Streams \cup {NoStream},
           idx : Nat]

Zeroed == [handle |-> 0, map |-> NoObj, offset |-> NoObj,
           current_stream |-> NoStream, idx |-> 0]

Entry == [bo : Addrs, handle : Handles \cup {0}]
Word == [bo : Addrs, idx : Nat]

TypeOK ==
  /\ live \subseteq Addrs
  /\ bo \in [Addrs -> EtnaBo]
  /\ obj_of \in [Addrs -> Objs \cup {NoObj}]
  /\ streams \subseteq Streams
  /\ table \in [Streams -> Seq(Entry)]
  /\ words \in [Streams -> Seq(Word)]
  /\ handle_of \in [Handles -> Objs \cup {NoObj}]
  /\ dmabuf \in [Fds -> Objs \cup {NoObj}]
  /\ maps \subseteq Addrs \X Objs

Init ==
  /\ live = {}
  /\ bo = [a \in Addrs |-> Zeroed]
  /\ obj_of = [a \in Addrs |-> NoObj]
  /\ streams = {}
  /\ table = [s \in Streams |-> <<>>]
  /\ words = [s \in Streams |-> <<>>]
  /\ handle_of = [h \in Handles |-> NoObj]
  /\ dmabuf = [fd \in Fds |-> NoObj]
  /\ maps = {}

\* An object nobody has a handle, a descriptor or a mapping of is gone, and its
\* number stands for a new one.
Unused(o) ==
  /\ \A h \in Handles : handle_of[h] # o
  /\ \A fd \in Fds : dmabuf[fd] # o
  /\ \A m \in maps : m[2] # o

-------------------------------------------------------------------------------
\* Mutant: malloc, so what was at a before shines through.
BoFromHandleUncleared(a, o, h) ==
  /\ a \notin live
  /\ live' = live \cup {a}
  /\ bo' = [bo EXCEPT ![a].handle = h]
  /\ obj_of' = [obj_of EXCEPT ![a] = o]

\* bo_from_handle: calloc, and the handle.  calloc is taken to succeed.
BoFromHandle(a, o, h) ==
  /\ a \notin live
  /\ live' = live \cup {a}
  /\ bo' = [bo EXCEPT ![a] = [Zeroed EXCEPT !.handle = h]]
  /\ obj_of' = [obj_of EXCEPT ![a] = o]

\* An ioctl makes a new object under a new handle.
NewObject(a) ==
  /\ \E o \in Objs, h \in Handles :
       /\ Unused(o)
       /\ handle_of[h] = NoObj
       /\ BoFromHandle(a, o, h)
       /\ handle_of' = [handle_of EXCEPT ![h] = o]
  /\ UNCHANGED <<stream, dmabuf, maps>>

BoNew(a) == NewObject(a)

\* etna_bo_from_usermem_prot: the object's pages are the caller's.
BoFromUsermem(a) == NewObject(a)

\* drmPrimeFDToHandle: an object has one handle per device file.
PrimeFDToHandle(fd, h) ==
  /\ dmabuf[fd] # NoObj
  /\ \/ handle_of[h] = dmabuf[fd]
     \/ handle_of[h] = NoObj /\ \A g \in Handles : handle_of[g] # dmabuf[fd]
  /\ handle_of' = [handle_of EXCEPT ![h] = dmabuf[fd]]

\* etna_bo_from_dmabuf; the descriptor stays the caller's.
BoFromDmabuf(a, fd) ==
  /\ Reimport \/ \A h \in Handles : handle_of[h] # dmabuf[fd]
  /\ \E h \in Handles :
       /\ PrimeFDToHandle(fd, h)
       /\ BoFromHandle(a, dmabuf[fd], h)
  /\ UNCHANGED <<stream, dmabuf, maps>>

\* etna_bo_dmabuf: the caller gets a descriptor, and closes it some time.
BoDmabuf(a, fd) ==
  /\ a \in live
  /\ dmabuf[fd] = NoObj
  /\ handle_of[bo[a].handle] # NoObj
  /\ dmabuf' = [dmabuf EXCEPT ![fd] = handle_of[bo[a].handle]]
  /\ UNCHANGED <<live, bo, obj_of, stream, handle_of, maps>>

\* Another program passes a descriptor of an object of its own.
ForeignDmabuf(fd) ==
  /\ dmabuf[fd] = NoObj
  /\ \E o \in Objs : Unused(o) /\ dmabuf' = [dmabuf EXCEPT ![fd] = o]
  /\ UNCHANGED <<live, bo, obj_of, stream, handle_of, maps>>

CloseFd(fd) ==
  /\ dmabuf[fd] # NoObj
  /\ dmabuf' = [dmabuf EXCEPT ![fd] = NoObj]
  /\ UNCHANGED <<live, bo, obj_of, stream, handle_of, maps>>

\* etna_bo_map, when it is not mapped yet: the offset is asked for once; when that
\* fails the result is not looked at and 0 is mapped, which is nobody's offset, so
\* mmap fails.  After a failure of mmap the next call tries again.
BoMap(a, info, mmap) ==
  /\ a \in live
  /\ bo[a].map = NoObj
  /\ LET offset == IF bo[a].offset = NoObj /\ info THEN handle_of[bo[a].handle]
                   ELSE bo[a].offset
         map == IF mmap THEN offset ELSE NoObj
     IN  /\ bo' = [bo EXCEPT ![a].offset = offset, ![a].map = map]
         /\ maps' = maps \cup ({<<a, map>>} \ {<<a, NoObj>>})
  /\ UNCHANGED <<live, obj_of, stream, handle_of, dmabuf>>

\* Mutant: the handle is not closed.
BoDelKeepsHandle(a) ==
  /\ a \in live
  /\ live' = live \ {a}
  /\ maps' = maps \ {<<a, bo[a].map>>}
  /\ UNCHANGED <<bo, obj_of, stream, handle_of, dmabuf>>

\* Mutant: a buffer object may be deleted twice.
BoDelTwice(a) ==
  /\ bo[a].handle # 0
  /\ live' = live \ {a}
  /\ maps' = maps \ {<<a, bo[a].map>>}
  /\ handle_of' = [handle_of EXCEPT ![bo[a].handle] = NoObj]
  /\ UNCHANGED <<bo, obj_of, stream, dmabuf>>

\* etna_bo_del: munmap, GEM_CLOSE, free.  GEM_CLOSE drops the handle whoever else
\* uses it, and free leaves the memory as it is until calloc returns it again.
BoDel(a) ==
  /\ a \in live
  /\ live' = live \ {a}
  /\ maps' = maps \ {<<a, bo[a].map>>}
  /\ handle_of' = [handle_of EXCEPT ![bo[a].handle] = NoObj]
  /\ UNCHANGED <<bo, obj_of, stream, dmabuf>>

-------------------------------------------------------------------------------
\* etna_cmd_stream_new, etna_cmd_stream_del: the memory of the tables goes with
\* the stream, the marks in the buffer objects stay.
StreamNew(s) ==
  /\ s \notin streams
  /\ streams' = streams \cup {s}
  /\ table' = [table EXCEPT ![s] = <<>>]
  /\ words' = [words EXCEPT ![s] = <<>>]
  /\ UNCHANGED <<live, bo, obj_of, kernel>>

StreamDel(s) ==
  /\ s \in streams
  /\ streams' = streams \ {s}
  /\ UNCHANGED <<live, bo, obj_of, table, words, kernel>>

AppendBo(s, a) ==
  table' = [table EXCEPT ![s] = Append(@, [bo |-> a, handle |-> bo[a].handle])]

\* Mutant: the index of the entry before.
RelocateOffByOne(s, a, idx) ==
  words' = [words EXCEPT ![s] = Append(@, [bo |-> a, idx |-> idx - 1])]

Relocate(s, a, idx) ==
  words' = [words EXCEPT ![s] = Append(@, [bo |-> a, idx |-> idx])]

\* etna_cmd_stream_reloc with bo2idx.  An unmarked buffer object gets an entry and
\* the mark; one marked for this stream is at the index it remembers; one marked
\* for another is searched for, and gets an entry if it is not found.
RelocUnmarked(s, a) ==
  /\ bo[a].current_stream = NoStream
  /\ AppendBo(s, a)
  /\ bo' = [bo EXCEPT ![a].current_stream = s, ![a].idx = Len(table[s])]
  /\ Relocate(s, a, Len(table[s]))

RelocMarked(s, a) ==
  /\ bo[a].current_stream = s
  /\ Relocate(s, a, bo[a].idx)
  /\ UNCHANGED <<table, bo>>

RelocElsewhere(s, a) ==
  /\ bo[a].current_stream \notin {s, NoStream}
  /\ \/ \E k \in 1 .. Len(table[s]) :
          /\ table[s][k].bo = a
          /\ \A j \in 1 .. k - 1 : table[s][j].bo # a
          /\ Relocate(s, a, k - 1)
          /\ UNCHANGED table
     \/ /\ \A k \in 1 .. Len(table[s]) : table[s][k].bo # a
        /\ AppendBo(s, a)
        /\ Relocate(s, a, Len(table[s]))
  /\ UNCHANGED bo

Reloc(s, a) ==
  /\ s \in streams /\ a \in live
  /\ Len(words[s]) < MaxWords
  /\ RelocUnmarked(s, a) \/ RelocMarked(s, a) \/ RelocElsewhere(s, a)
  /\ UNCHANGED <<live, obj_of, streams, kernel>>

\* Mutant: the marks are not cleared.
FlushKeepsMarks(s) ==
  /\ s \in streams
  /\ table' = [table EXCEPT ![s] = <<>>]
  /\ words' = [words EXCEPT ![s] = <<>>]
  /\ UNCHANGED <<live, bo, obj_of, streams, kernel>>

\* flush and reset_buffer.  The loop over priv->bos writes through each pointer,
\* whatever is at that address by now.
Flush(s) ==
  /\ s \in streams
  /\ bo' = [a \in Addrs |->
              IF \E k \in 1 .. Len(table[s]) : table[s][k].bo = a
              THEN [bo[a] EXCEPT !.current_stream = NoStream] ELSE bo[a]]
  /\ table' = [table EXCEPT ![s] = <<>>]
  /\ words' = [words EXCEPT ![s] = <<>>]
  /\ UNCHANGED <<live, obj_of, streams, kernel>>

-------------------------------------------------------------------------------
Listed(s, a) == \E k \in 1 .. Len(table[s]) : table[s][k].bo = a

\* Mutant: a client that deletes a surface before it commits.
SurfaceDelEarly(a) == BoDel(a)

\* The programs' discipline, which the library does not check: a surface is
\* deleted after a commit ...
SurfaceDel(a) == BoDel(a) /\ \A s \in streams : ~Listed(s, a)

\* ... and so is a device closed.
DeviceClose(s) == StreamDel(s) /\ table[s] = <<>>

Next ==
  \/ \E a \in Addrs :
       \/ BoNew(a) \/ BoFromUsermem(a)
       \/ SurfaceDel(a)
       \/ \E fd \in Fds : BoFromDmabuf(a, fd) \/ BoDmabuf(a, fd)
       \/ \E info, mmap \in BOOLEAN : BoMap(a, info, mmap)
  \/ \E fd \in Fds : ForeignDmabuf(fd) \/ CloseFd(fd)
  \/ \E s \in Streams :
       \/ StreamNew(s)
       \/ DeviceClose(s)
       \/ \E a \in Addrs : Reloc(s, a)
       \/ Flush(s)

Spec == Init /\ [][Next]_vars

-------------------------------------------------------------------------------
(***************************************************************************)
(* Properties.                                                             *)
(***************************************************************************)

\* A buffer object that is not deleted can be used: its handle is open and still
\* means the object it was made for.  With imports of one's own objects it fails:
\* "it is still using the 'struct etna_bo *'" (etnaviv.c:578-581).
HandleIsOwn == \A a \in live : handle_of[bo[a].handle] = obj_of[a]

\* Every open handle belongs to a buffer object, and no two share one: what
\* etna_bo_del closes is closed once, and nothing stays open for good.
HandlesAreBalanced ==
  /\ \A h \in Handles : handle_of[h] # NoObj => \E a \in live : bo[a].handle = h
  /\ \A a, b \in live : bo[a].handle = bo[b].handle => a = b

\* bo->map is NULL or a mapping of the buffer's own object, made for this struct
\* and not for one that was at its address before; a failed GEM_INFO or mmap
\* leaves nothing behind; and no mapping outlives its buffer object.
MapsAreOwn ==
  /\ \A a \in live : bo[a].map # NoObj => bo[a].map = obj_of[a]
  /\ maps = {<<a, bo[a].map>> : a \in {b \in live : bo[b].map # NoObj}}

\* What the submit ioctl will be given: the entries are buffer objects that still
\* exist, under the handle they still have, and every relocation leads to the
\* entry of the buffer object it was asked for.
BatchIsAlive ==
  \A s \in streams :
    /\ \A k \in 1 .. Len(table[s]) :
         /\ table[s][k].bo \in live
         /\ table[s][k].handle = bo[table[s][k].bo].handle
    /\ \A k \in 1 .. Len(words[s]) :
         /\ words[s][k].idx < Len(table[s])
         /\ table[s][words[s][k].idx + 1].bo = words[s][k].bo

\* A mark leads to a stream that exists and to the right entry of its table, also
\* when the memory of a deleted stream or buffer object is used again.
MarksAreAlive ==
  \A a \in live :
    LET s == bo[a].current_stream
    IN  s # NoStream =>
          /\ s \in streams
          /\ bo[a].idx < Len(table[s])
          /\ table[s][bo[a].idx + 1].bo = a
===============================================================================
