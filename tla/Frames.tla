-------------------------------- MODULE Frames --------------------------------
(***************************************************************************)
(* The abridged framing of kosta-transport over one direction of a         *)
(* connection: payloads are put into frames, the bytes of the frames       *)
(* arrive in pieces, the stream may end anywhere, and the other end takes  *)
(* payloads out of what has arrived.                                       *)
(*                                                                         *)
(* What the payloads hold is no matter here; Wire sends objects in them.   *)
(***************************************************************************)
EXTENDS Octets

CONSTANTS
    Payloads,   \* what may be sent
    MaxItems,   \* bound: payloads sent
    Pieces,     \* bound: sizes of pieces in which bytes arrive
    MaxPieces   \* bound: pieces per payload

ASSUME FramesAssumption ==
    /\ Payloads \subseteq Seq(Octet)
    /\ MaxItems \in Nat /\ MaxPieces \in Nat
    /\ Pieces \subseteq Nat \ {0}

VARIABLES
    put,      \* history: the payloads sent
    flight,   \* bytes that have not arrived
    arrived,  \* bytes that have, and have not been read
    taken,    \* history: the payloads received
    cut,      \* the connection has ended under way
    gave_up,  \* the receiver has seen an error of the transport
    pieces    \* how many pieces the last payload has arrived in

framesVars == <<put, flight, arrived, taken, cut, gave_up, pieces>>

MAX_FRAME_SIZE == 1048576
MaxLength == 16777215   \* what encode_frame asserts: three bytes hold it
-----------------------------------------------------------------------------
(* The length of the long form: three bytes of a little-endian number.     *)
LE3(n) == <<n % 256, (n \div 256) % 256, (n \div 65536) % 256>>
FromLE3(a, b, c) == a + 256 * b + 65536 * c

EncodeFrame(payload) ==
    IF Len(payload) <= 127 THEN <<Len(payload)>> \o payload
    ELSE <<127>> \o LE3(Len(payload)) \o payload

(* decode_frame reads the length, of one byte or behind a mark, and the    *)
(* payload, and waits where the stream ends.                               *)
FrameLength(in) ==
    {Is(n.value[1], n.rest) : n \in {m \in Take(in, 1) : m.value[1] <= 126}}
    \cup {Is(FromLE3(n.value[2], n.value[3], n.value[4]), n.rest) :
             n \in {m \in Take(in, 4) : m.value[1] = 127}}
DecodeFrame(in) == UNION {Take(n.rest, n.value) : n \in FrameLength(in)}
NoFrame(in) == \/ in # <<>> /\ in[1] > 127
               \/ \E n \in FrameLength(in) : n.value > MAX_FRAME_SIZE

(* decode_frame_from_slice takes a frame out of a buffer, or leaves the    *)
(* buffer as it is.                                                        *)
DecodeFromSlice(buf) ==
    LET header == IF buf[1] = 127 THEN 4 ELSE 1
        total == header + (IF header = 4 THEN FromLE3(buf[2], buf[3], buf[4])
                           ELSE buf[1])
    IN  IF buf = <<>> \/ Len(buf) < header \/ Len(buf) < total THEN {}
        ELSE {Is(SubSeq(buf, header + 1, total),
                 SubSeq(buf, total + 1, Len(buf)))}
-----------------------------------------------------------------------------
(* The caller of encode_frame panics where the length is too large, and    *)
(* nothing is sent.                                                        *)
SendFrame(p) ==
    /\ p \in Payloads
    /\ ~cut /\ Len(put) < MaxItems
    /\ Len(p) <= MaxLength
    /\ put' = Append(put, p)
    /\ flight' = flight \o EncodeFrame(p)
    /\ pieces' = 0
    /\ UNCHANGED <<arrived, taken, cut, gave_up>>

(* The last piece is all that is left.                                     *)
BytesArrive ==
    /\ flight # <<>>
    /\ \E n \in Pieces \cup {Len(flight) - 1, Len(flight)} :
           /\ n \in 1..Len(flight)
           /\ pieces < MaxPieces \/ n = Len(flight)
           /\ arrived' = arrived \o SubSeq(flight, 1, n)
           /\ flight' = SubSeq(flight, n + 1, Len(flight))
    /\ pieces' = pieces + 1
    /\ UNCHANGED <<put, taken, cut, gave_up>>

TakeFrame(frames) ==
    /\ ~gave_up /\ ~NoFrame(arrived)
    /\ \E f \in frames :
           /\ taken' = Append(taken, f.value)
           /\ arrived' = f.rest
    /\ UNCHANGED <<put, flight, cut, gave_up, pieces>>

TakeFromStream == TakeFrame(DecodeFrame(arrived))
TakeFromSlice == TakeFrame(DecodeFromSlice(arrived))

(* The length is none, or the stream ends inside a frame.                  *)
TakeFails ==
    /\ ~gave_up
    /\ \/ NoFrame(arrived)
       \/ cut /\ DecodeFrame(arrived) = {}
    /\ gave_up' = TRUE
    /\ UNCHANGED <<put, flight, arrived, taken, cut, pieces>>

(* The connection ends; what is under way is lost.                         *)
CutStream ==
    /\ ~cut
    /\ cut' = TRUE
    /\ flight' = <<>>
    /\ UNCHANGED <<put, arrived, taken, gave_up, pieces>>

FramesInit ==
    /\ put = <<>> /\ taken = <<>>
    /\ flight = <<>> /\ arrived = <<>>
    /\ cut = FALSE /\ gave_up = FALSE
    /\ pieces = 0

FramesNext ==
    \/ \E p \in Payloads : SendFrame(p)
    \/ BytesArrive \/ TakeFromStream \/ TakeFromSlice \/ TakeFails
    \/ CutStream

FramesSpec == FramesInit /\ [][FramesNext]_framesVars
-----------------------------------------------------------------------------
(* Properties *)

(* The types; whatever arrives, what comes out is bytes.                   *)
FramesTypeOK ==
    /\ put \in Seq(Payloads) /\ taken \in Seq(Seq(Octet))
    /\ flight \in Seq(Octet) /\ arrived \in Seq(Octet)
    /\ cut \in BOOLEAN /\ gave_up \in BOOLEAN /\ pieces \in Nat

(* encode_frame gives a payload of 127 bytes the header that decode_frame  *)
(* takes for the mark of a three-byte length (abridged.rs:12 and 33).  No  *)
(* message has that length: 127 needs an object with three short strings   *)
(* modulo four, since each makes the length odd by one, and those are      *)
(* shorter or longer.                                                      *)
LengthsAvoidMark == \A i \in DOMAIN put : Len(put[i]) # 127

(* What has come out is what was put in, one by one, up to the first       *)
(* payload of 127 bytes (abridged.rs:12).                                  *)
OutAsPut ==
    \A n \in 1..Len(taken) :
        (\A k \in 1..n : k \in 1..Len(put) => Len(put[k]) # 127) =>
            n <= Len(put) /\ taken[n] = put[n]

(* When all bytes have arrived and the receiver waits for more, it has had *)
(* every payload, if none has a length that decode_frame refuses or takes  *)
(* for the mark (abridged.rs:33 and 46).                                   *)
NothingLeftBehind ==
    (/\ ~cut /\ flight = <<>> /\ DecodeFrame(arrived) = {}
     /\ \A i \in 1..Len(put) : Len(put[i]) <= MAX_FRAME_SIZE
     /\ LengthsAvoidMark) => taken = put

(* A receiver sees an error only of a stream that has ended, or after a    *)
(* payload too large or of 127 bytes (abridged.rs:38 and 46).              *)
FailureHasACause ==
    gave_up => \/ cut
               \/ \E i \in 1..Len(put) : \/ Len(put[i]) = 127
                                         \/ Len(put[i]) > MAX_FRAME_SIZE

(* The two ends are a pipe of payloads.                                    *)
FramePipe == INSTANCE MessagePipe WITH
                 Objects <- Payloads, sent <- put, got <- taken, broken <- cut
=============================================================================
