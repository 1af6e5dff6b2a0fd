------------------------------ MODULE FileStream ------------------------------
(***************************************************************************)
(* Reading and writing a message queue file (server/zmq_netw.c,            *)
(* write_sockf and read_sockf, as zvm_write and zvm_read of fs_inmem.c     *)
(* call them). A write is one ZeroMQ message. A read takes what is left of *)
(* the message read last, kept in tempbuf, and then receives messages      *)
(* until its loop ends.                                                    *)
(*                                                                         *)
(* The writing node and the reading node agree on the sizes of the         *)
(* messages. Bytes are named by their place in the stream, from 1; 0 is    *)
(* what the caller's buffer held before the read.                          *)
(***************************************************************************)
EXTENDS Integers, Sequences

CONSTANTS
  Sizes,      \* the sizes of the messages, in the order they are written
  MaxCount    \* the largest count of a read

VARIABLES
  written,    \* how many messages were written
  bytes_sent, \* and how many bytes (__bytes_sent, only logged; its wrap is left out)
  queue,      \* the messages on their way
  tempbuf,    \* sockf->tempbuf: the rest of the message read last, from pos on
  read,       \* the call of read_sockf that is being served
  received    \* all the bytes that reads returned

vars == <<written, bytes_sent, queue, tempbuf, read, received>>

ASSUME SizesAssumption ==
  /\ Sizes \in Seq(Nat \ {0})
  /\ MaxCount \in Nat \ {0}

Least(a, b) == IF a < b THEN a ELSE b

\* A part of the stream: the n bytes that follow the first ones.
Bytes(first, n) == [k \in 1 .. n |-> first + k]

Taken == written - Len(queue)

Idle == [pc |-> "idle", head |-> <<>>, window |-> <<>>]

Init ==
  /\ written = 0
  /\ bytes_sent = 0
  /\ queue = <<>>
  /\ tempbuf = <<>>
  /\ read = Idle
  /\ received = <<>>

\* write_sockf; a message that zmq_send refuses is not sent, and no step.
WriteSockf ==
  /\ written < Len(Sizes)
  /\ written' = written + 1
  /\ bytes_sent' = bytes_sent + Sizes[written + 1]
  /\ queue' = Append(queue, Bytes(bytes_sent, Sizes[written + 1]))
  /\ UNCHANGED <<tempbuf, read, received>>

\* Seeded fault of MayAsk: what was read of the message already is forgotten.
MayAskWhole(count) ==
  count <= IF tempbuf # <<>> THEN Sizes[Taken]
           ELSE IF Taken < Len(Sizes) THEN Sizes[Taken + 1] ELSE 0

\* The counts that a reader asks for: of the message it is in, or comes to next,
\* no more than what is left.
MayAsk(count) ==
  count <= IF tempbuf # <<>> THEN Len(tempbuf)
           ELSE IF Taken < Len(Sizes) THEN Sizes[Taken + 1] ELSE 0

\* Seeded fault of ReadFromTempbuf: tempbuf->pos is not moved.
ReadFromTempbufAgain(count) ==
  /\ read.pc = "idle"
  /\ MayAsk(count)
  /\ Len(tempbuf) >= count
  /\ received' = received \o SubSeq(tempbuf, 1, count)
  /\ UNCHANGED <<written, bytes_sent, queue, tempbuf, read>>

\* read_sockf, when tempbuf has all that is asked for.
ReadFromTempbuf(count) ==
  /\ read.pc = "idle"
  /\ MayAsk(count)
  /\ Len(tempbuf) >= count
  /\ received' = received \o SubSeq(tempbuf, 1, count)
  /\ tempbuf' = SubSeq(tempbuf, count + 1, Len(tempbuf))
  /\ UNCHANGED <<written, bytes_sent, queue, read>>

\* read_sockf, when it has not: tempbuf is copied to the buffer, the loop is to
\* fill the window behind it.
ReadStart(count) ==
  /\ read.pc = "idle"
  /\ MayAsk(count)
  /\ Len(tempbuf) < count
  /\ read' = [pc |-> "recv", head |-> tempbuf,
              window |-> [k \in 1 .. count - Len(tempbuf) |-> 0]]
  /\ tempbuf' = <<>>
  /\ UNCHANGED <<written, bytes_sent, queue, received>>

\* What of a message goes to tempbuf, bytes of it being returned.
Rest(msg, bytes) == SubSeq(msg, bytes + 1, Len(msg))

\* One iteration of the loop. Every message is copied to the start of the window;
\* the loop ends by what tempbuf and the last message alone had.
ZmqRecv ==
  /\ read.pc = "recv"
  /\ queue # <<>>
  /\ LET msg == Head(queue)
         bytes == Least(Len(msg), Len(read.window))
         window == [k \in DOMAIN read.window |->
                      IF k <= bytes THEN msg[k] ELSE read.window[k]]
     IN  /\ tempbuf' = IF bytes < Len(msg) THEN Rest(msg, bytes) ELSE tempbuf
         /\ IF Len(read.head) + bytes < Len(window)
            THEN /\ read' = [read EXCEPT !.window = window]
                 /\ UNCHANGED received
            ELSE /\ read' = Idle
                 /\ received' = received \o read.head \o SubSeq(window, 1, bytes)
  /\ queue' = Tail(queue)
  /\ UNCHANGED <<written, bytes_sent>>

\* zmq_recv fails, interrupted by a signal: read_sockf returns 0.
ZmqRecvFails ==
  /\ read.pc = "recv"
  /\ read' = Idle
  /\ UNCHANGED <<written, bytes_sent, queue, tempbuf, received>>

\* All was written and read.
Ended ==
  /\ written = Len(Sizes)
  /\ queue = <<>>
  /\ tempbuf = <<>>
  /\ read = Idle

Next ==
  \/ WriteSockf
  \/ \E count \in 1 .. MaxCount : ReadFromTempbuf(count) \/ ReadStart(count)
  \/ ZmqRecv
  \/ ZmqRecvFails
  \/ Ended /\ UNCHANGED vars

Spec == Init /\ [][Next]_vars

-----------------------------------------------------------------------------
TypeOK ==
  /\ written \in 0 .. Len(Sizes)
  /\ bytes_sent \in Nat
  /\ queue \in Seq(Seq(Nat))
  /\ tempbuf \in Seq(Nat)
  /\ read.pc \in {"idle", "recv"}
  /\ read.head \in Seq(Nat)
  /\ read.window \in Seq(Nat)
  /\ received \in Seq(Nat)

\* The nodes never look at what read returns: they rely on a read that succeeds
\* giving all the bytes it was asked for, also where a message is read in parts
\* and a receive failed in between.
ReadsAreFull ==
  [][received' # received =>
       \/ read.pc = "idle"
       \/ Len(received') - Len(received) = Len(read.head) + Len(read.window)]_vars

Stream == INSTANCE ByteStream WITH sent <- bytes_sent

\* The messages implement a byte stream: reads return the bytes that were
\* written, in their order, none lost or returned twice.
ImplementsByteStream == Stream!Spec
=============================================================================
