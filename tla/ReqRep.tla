-------------------------------- MODULE ReqRep --------------------------------
(***************************************************************************)
(* External: what the nodes rely on of a ZeroMQ REQ socket connected to a  *)
(* REP socket. The requester alternates send and receive; the replier      *)
(* takes one request at a time and answers it before it takes another. A   *)
(* call made out of turn fails with EFSM, so it has no operator here: the  *)
(* guards below are when the calls succeed.                                *)
(***************************************************************************)
\* A connection nothing has happened on yet.
Fresh == [turn |-> "send", request |-> <<>>, reply |-> <<>>]

MayRequest(l) == l.turn = "send"
Request(l, m) == [l EXCEPT !.turn = "recv", !.request = <<m>>]

\* The replier's side: is a request waiting, taking it, answering it.
Requested(l) == l.request # <<>>
Take(l) == [l EXCEPT !.request = <<>>]
Answer(l, m) == [l EXCEPT !.reply = <<m>>]

\* The requester's side: is the answer there, reading it.
Answered(l) == l.turn = "recv" /\ l.reply # <<>>
Finish(l) == [l EXCEPT !.turn = "send", !.reply = <<>>]
=============================================================================
