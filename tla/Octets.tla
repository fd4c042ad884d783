-------------------------------- MODULE Octets --------------------------------
(***************************************************************************)
(* Reading from bytes, as the codec and the framing do.  A reader returns  *)
(* a set: what it read and the bytes behind it, or nothing where the code  *)
(* returns an error or waits.                                              *)
(***************************************************************************)
EXTENDS Integers, Sequences

Octet == 0..255

Is(value, rest) == [value |-> value, rest |-> rest]
(* read_exact *)
Take(in, n) ==
    IF n > Len(in) THEN {}
    ELSE {Is(SubSeq(in, 1, n), SubSeq(in, n + 1, Len(in)))}
=============================================================================
