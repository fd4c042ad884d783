-------------------------- MODULE MCSessionReplay --------------------------
(***************************************************************************)
(* SessionReplay with three msg_ids and a list that remembers two, so that *)
(* it forgets.  Handlers are alike.                                        *)
(***************************************************************************)
EXTENDS SessionReplay, TLC

MCMsgIds == 1..3
MCSeqNos == 0..1
MCSymmetry == Permutations(Handlers)
=============================================================================
