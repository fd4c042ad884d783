------------------------------ MODULE MCWebHub ------------------------------
(***************************************************************************)
(* WebHub with two users who share a dialog; one has another of his own.   *)
(***************************************************************************)
EXTENDS WebHub

CONSTANTS u1, u2, d1, d2

MCUsers == {u1, u2}
MCDialogs == {d1, d2}
MCParticipants == [d \in MCDialogs |-> IF d = d1 THEN {u1, u2} ELSE {u1}]
=============================================================================
