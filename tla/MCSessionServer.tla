-------------------------- MODULE MCSessionServer --------------------------
(***************************************************************************)
(* Instances of SessionServer.  With CtrBase = 2 the msg_ids 1..3 carry    *)
(* the times 0 and 1; with Window = 0 a frame can be too old and too new.  *)
(***************************************************************************)
EXTENDS SessionServer

MCMsgIds == 1..3
MCSeqNos == 0..1
=============================================================================
