----------------------------- MODULE MessagePipe -----------------------------
(***************************************************************************)
(* What a connection promises to those who send and receive objects over   *)
(* it: the objects come out as they were put in, in their order, and all   *)
(* of them do unless the connection breaks.                                *)
(***************************************************************************)
EXTENDS Naturals, Sequences

CONSTANT Objects
VARIABLES
    sent,   \* what has been put in
    got,    \* what has come out
    broken

vars == <<sent, got, broken>>

Init == sent = <<>> /\ got = <<>> /\ broken = FALSE

Put == /\ ~broken
       /\ \E o \in Objects : sent' = Append(sent, o)
       /\ UNCHANGED <<got, broken>>

(* What is under way when the connection breaks may still come out.        *)
ComeOut == /\ Len(got) < Len(sent)
           /\ got' = Append(got, sent[Len(got) + 1])
           /\ UNCHANGED <<sent, broken>>

Break == broken' = TRUE /\ UNCHANGED <<sent, got>>

Next == Put \/ ComeOut \/ Break

Spec == Init /\ [][Next]_vars /\ WF_vars(~broken /\ ComeOut)
=============================================================================
