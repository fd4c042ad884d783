-------------------------------- MODULE Wire --------------------------------
(***************************************************************************)
(* One direction of a connection: objects are serialised, sealed or not,   *)
(* put into abridged frames, sent over a byte stream that delivers them in *)
(* pieces and may end anywhere, and read again at the other end.           *)
(*                                                                         *)
(* A cipher is a thing that keeps lengths and is undone at the other end;  *)
(* what it adds (nonce, tag) is there for its length.  A receiver waits    *)
(* for a frame as long as it takes; the read timeouts of a client are in   *)
(* ClientSession.                                                          *)
(***************************************************************************)
EXTENDS TlCodec, Frames

CONSTANTS
    Items,      \* what may be sent
    Followers,  \* bound: what may be sent after the first item
    MaxPad      \* bound: bytes of padding

ASSUME WireAssumption == Followers \subseteq Items /\ MaxPad \in Nat

VARIABLES
    sent,  \* history: the items sent
    got    \* history: the items received

itemVars == <<sent, got>>
vars == <<framesVars, itemVars>>

Filler(n) == [i \in 1..n |-> 0]
AuthKeyId == [i \in 1..8 |-> 255]
-----------------------------------------------------------------------------
(* What goes into a frame.  An item is an object, its inner object if it   *)
(* is of a kind that encloses one, and whether the session is encrypted.   *)

Envelope == [ReqDHParams |-> "encrypted_data",
             ServerDHParamsOk |-> "encrypted_answer",
             SetClientDHParams |-> "encrypted_data"]
Tag == Filler(16)

(* padding.rs: at least 12 random bytes, up to a multiple of 16.           *)
Pads(n) == {p \in 12..MaxPad : (n + p) % 16 = 0}

(* The object to serialise, with its inner one padded and encrypted.       *)
Enclosed(item) ==
    IF item.inner = {} THEN {item.outer}
    ELSE LET f == Envelope[item.outer.kind]
         IN  UNION {LET data == WriteBoxed(inner)
                    IN  {[item.outer EXCEPT !.body[f] = data \o Filler(p) \o Tag] :
                             p \in Pads(Len(data))} : inner \in item.inner}

(* auth_key_id, nonce, msg_id and seq_no, the object, tag.                 *)
Payload(o, sealed) ==
    IF sealed THEN AuthKeyId \o Filler(16) \o Filler(12) \o WriteBoxed(o) \o Tag
    ELSE WriteBoxed(o)

Disclosed(o) ==
    IF o.kind \notin DOMAIN Envelope THEN {}
    ELSE LET data == o.body[Envelope[o.kind]]
         IN  ReadBoxed(SubSeq(data, 1, Len(data) - Len(Tag)))

IsSealed(raw) == Len(raw) >= 40 /\ SubSeq(raw, 1, 8) = AuthKeyId

(* The item in a payload, or none if it cannot be parsed.                  *)
Opened(raw) ==
    LET tl == IF IsSealed(raw) THEN SubSeq(raw, 24 + 12 + 1, Len(raw) - Len(Tag))
              ELSE raw
    IN  {[sealed |-> IsSealed(raw), inner |-> Disclosed(o),
          outer |-> IF o.kind \notin DOMAIN Envelope THEN o
                    ELSE [o EXCEPT !.body[Envelope[o.kind]] = <<>>]] :
             o \in ReadBoxed(tl)}
-----------------------------------------------------------------------------
Send ==
    \E item \in IF sent = <<>> THEN Items ELSE Followers :
        /\ \E o \in Enclosed(item) : SendFrame(Payload(o, item.sealed))
        /\ sent' = Append(sent, item)
        /\ got' = got

Arrive == BytesArrive /\ UNCHANGED itemVars

(* recv, and what its caller makes of the payload; a payload that cannot   *)
(* be parsed is dropped.                                                   *)
Opens ==
    /\ got' = got \o SetToSeq(Opened(Last(taken')))
    /\ sent' = sent
RecvStream == TakeFromStream /\ Opens
RecvSlice == TakeFromSlice /\ Opens
RecvFails == TakeFails /\ UNCHANGED itemVars
Cut == CutStream /\ UNCHANGED itemVars

Init == FramesInit /\ sent = <<>> /\ got = <<>>

Next == Send \/ Arrive \/ RecvStream \/ RecvSlice \/ RecvFails \/ Cut

(* Bytes that are under way arrive, and the receiver reads what there is.  *)
Spec == /\ Init /\ [][Next]_vars
        /\ WF_vars(Arrive) /\ WF_vars(RecvStream \/ RecvSlice)
-----------------------------------------------------------------------------
(* Properties *)

Pipe == INSTANCE MessagePipe WITH
            Objects <- Items, sent <- sent, got <- got, broken <- cut

(* The two ends of a transport are a pipe of payloads, and of objects:     *)
(* whatever is sent with send_tl comes out of recv equal, in order, once,  *)
(* and all of it unless the connection ends, however the bytes are cut     *)
(* into pieces; a frame the connection ends in is never handed on.         *)
PipeSpec == FramePipe!Spec /\ Pipe!Spec
=============================================================================
