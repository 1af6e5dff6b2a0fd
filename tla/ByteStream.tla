------------------------------ MODULE ByteStream ------------------------------
(***************************************************************************)
(* A byte stream: what a file of the mounted file system is to the node    *)
(* that opened it ("stream write file socket", "stream read file socket",  *)
(* server/zmq_netw.h). Bytes are named by their place in what was written. *)
(***************************************************************************)
EXTENDS Integers, Sequences

VARIABLES
  sent,       \* how many bytes were written
  received    \* the bytes that reads returned, in their order

streamVars == <<sent, received>>

Init == sent = 0 /\ received = <<>>

Write ==
  /\ sent' > sent
  /\ UNCHANGED received

\* A read returns the bytes that follow those read before, as many as it likes
\* of those that were written.
Read ==
  /\ \E n \in 1 .. sent - Len(received) :
       received' = received \o [k \in 1 .. n |-> Len(received) + k]
  /\ UNCHANGED sent

Next == Write \/ Read

Spec == Init /\ [][Next]_streamVars
=============================================================================
