--------------------------- MODULE SessionLedger ---------------------------
(***************************************************************************)
(* What one encrypted session owes its client, whatever the server caches, *)
(* evicts, writes or loses on the way: an append-only history of requests  *)
(* executed and of answers sent.  SessionServer implements it as long as   *)
(* one handler at a time serves the session.                               *)
(*                                                                         *)
(* A request is identified by its msg_id.  An answer is a record           *)
(* [for, seq, msg, nonce]: the request it answers, its seq_no, its msg_id  *)
(* and the counter in the first four bytes of its nonce.                   *)
(***************************************************************************)
EXTENDS Integers, Sequences

VARIABLES
    executed,   \* msg_ids of the requests given to handle_request, in order
    sent        \* answers put on the wire, in order

ledger == <<executed, sent>>

Ends(s) == s[Len(s)]

Init ==
    /\ executed = <<>>
    /\ sent = <<>>

(* A request is executed after every request with a smaller msg_id: so at  *)
(* most once.                                                              *)
Execute ==
    /\ Len(executed') > 0
    /\ executed' = Append(executed, Ends(executed'))
    /\ \A i \in DOMAIN executed : executed[i] < Ends(executed')
    /\ sent' = sent

(* An answer belongs to the latest request, is the only one to it, and is  *)
(* numbered above every earlier answer in seq_no, in msg_id and in the     *)
(* nonce counter.                                                          *)
Answer ==
    /\ Len(sent') > 0
    /\ sent' = Append(sent, Ends(sent'))
    /\ Len(executed) > 0
    /\ Ends(sent').for = Ends(executed)
    /\ \A i \in DOMAIN sent :
          /\ sent[i].for < Ends(sent').for
          /\ sent[i].seq < Ends(sent').seq
          /\ sent[i].msg < Ends(sent').msg
          /\ sent[i].nonce < Ends(sent').nonce
    /\ executed' = executed

Next == Execute \/ Answer

Spec == Init /\ [][Next]_ledger
=============================================================================
