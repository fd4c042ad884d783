--------------------------- MODULE SessionReplay ---------------------------
(***************************************************************************)
(* SessionServer with a history variable: which msg_ids the session's      *)
(* recent_msg_ids has not kept.                                            *)
(*                                                                         *)
(* The list is all that stops a second execution when several connections  *)
(* of one session work with clones of it: last_recv_msg_id is part of the  *)
(* clone and may be old.  But the list holds a bounded number of msg_ids,  *)
(* frames that are refused late take up room in it, and an entry that is   *)
(* rebuilt from the row starts with a new one.                             *)
(***************************************************************************)
EXTENDS SessionServer

VARIABLE
    lost    \* history: msg_ids that were on a list and are not on all of
            \* those in use, or were when the entry left the cache

(* On a list that the cache or a handler's clone points to; on all of      *)
(* them, of which the cache's is one.                                      *)
Noted == {m \in MsgIds : \E r \in LiveRefs : Contains(recent[r], m)}
Kept == {m \in MsgIds : cache # {} /\ \A r \in LiveRefs : Contains(recent[r], m)}

ReplayInit == Init /\ lost = {}
ReplayNext == Next /\ lost' = lost \cup ((Noted \cup Noted') \ Kept')
ReplaySpec == ReplayInit /\ [][ReplayNext]_<<vars, lost>>
-----------------------------------------------------------------------------
(* server.rs:193-201: as long as the session's list keeps a msg_id, its    *)
(* request is not executed a second time, however often the frame is       *)
(* delivered, to however many connections, and with however old a clone    *)
(* the handler works.  It may be executed again only after the list has    *)
(* forgotten it or the entry has been rebuilt with an empty one.           *)
ExecutedOnceWhileKept ==
    \A i, j \in DOMAIN executed :
        executed[i] = executed[j] /\ i # j => executed[i] \in lost
=============================================================================
