----------------------------- MODULE MCDialogs -----------------------------
(***************************************************************************)
(* Dialogs with its users, and with its handlers, taken as alike.          *)
(***************************************************************************)
EXTENDS Dialogs, TLC

MCSymmetry == Permutations(Users) \cup Permutations(Handlers)
=============================================================================
