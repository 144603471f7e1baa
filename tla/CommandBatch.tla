----------------------------- MODULE CommandBatch -----------------------------
(***************************************************************************)
(* What the command stream of etnaviv.c promises its caller, with none of  *)
(* its tables: a stream collects command words, an address word names the  *)
(* buffer object the caller passed to etna_cmd_stream_reloc, and a flush   *)
(* hands exactly the collected words to the kernel and starts afresh,      *)
(* whether the kernel takes them or not.  The buffer-object index, the     *)
(* mark each buffer object carries and the lock that guards it are the     *)
(* implementation, in CmdStream.                                           *)
(***************************************************************************)
EXTENDS Integers, Sequences

CONSTANTS
  Streams,  \* command streams, one thread each
  Bos,      \* buffer objects
  NoBo,     \* "no buffer object"
  FenceMod  \* the kernel's fence numbers are counted modulo this (2^32)

VARIABLES
  open,       \* the streams that exist
  batch,      \* batch[s]: the words collected since the last flush
  want,       \* want[s]: the buffer object of the reloc call in progress
  sent,       \* sent[s]: the words of the flush in progress
  timestamp,  \* timestamp[s]: the fence of the stream's last accepted job
  seqno       \* the kernel's last fence number

vars == <<open, batch, want, sent, timestamp, seqno>>

\* A word that is not an address.
Data == NoBo

Init ==
  /\ open = {}
  /\ batch = [s \in Streams |-> <<>>]
  /\ want = [s \in Streams |-> NoBo]
  /\ sent = [s \in Streams |-> <<>>]
  /\ timestamp = [s \in Streams |-> 0]
  /\ seqno = 0

New(s) ==
  /\ s \notin open
  /\ open' = open \cup {s}
  /\ batch' = [batch EXCEPT ![s] = <<>>]
  /\ timestamp' = [timestamp EXCEPT ![s] = 0]
  /\ UNCHANGED <<want, sent, seqno>>

\* A stream that still refers to buffer objects is not deleted.
Del(s) ==
  /\ s \in open
  /\ \A i \in 1 .. Len(batch[s]) : batch[s][i] = Data
  /\ open' = open \ {s}
  /\ UNCHANGED <<batch, want, sent, timestamp, seqno>>

\* A caller asks for a word that will hold the address of b.
Request(s, b) ==
  /\ s \in open
  /\ want[s] = NoBo
  /\ want' = [want EXCEPT ![s] = b]
  /\ UNCHANGED <<open, batch, sent, timestamp, seqno>>

\* The header and the address word of the requested buffer object.
Reference(s) ==
  /\ want[s] # NoBo
  /\ batch' = [batch EXCEPT ![s] = @ \o <<Data, want[s]>>]
  /\ want' = [want EXCEPT ![s] = NoBo]
  /\ UNCHANGED <<open, sent, timestamp, seqno>>

\* The header and the value of a state that holds no address.
Emit(s) ==
  /\ s \in open
  /\ want[s] = NoBo
  /\ batch' = [batch EXCEPT ![s] = @ \o <<Data, Data>>]
  /\ UNCHANGED <<open, want, sent, timestamp, seqno>>

\* The batch goes to the kernel as it was collected: an accepted job gets the
\* next fence number, a refused one changes no timestamp and is gone as well.
Submit(s) ==
  /\ s \in open
  /\ sent' = [sent EXCEPT ![s] = batch[s]]
  /\ batch' = [batch EXCEPT ![s] = <<>>]
  /\ \/ /\ seqno' = (seqno + 1) % FenceMod
        /\ timestamp' = [timestamp EXCEPT ![s] = seqno']
     \/ UNCHANGED <<seqno, timestamp>>
  /\ UNCHANGED <<open, want>>

\* The flush returns to its caller.
Return(s) ==
  /\ sent' = [sent EXCEPT ![s] = <<>>]
  /\ UNCHANGED <<open, batch, want, timestamp, seqno>>

Next ==
  \E s \in Streams :
    \/ New(s) \/ Del(s)
    \/ \E b \in Bos : Request(s, b)
    \/ Reference(s) \/ Emit(s)
    \/ Submit(s) \/ Return(s)

Spec == Init /\ [][Next]_vars
===============================================================================
