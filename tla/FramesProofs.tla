----------------------------- MODULE FramesProofs -----------------------------
(***************************************************************************)
(* That the framing neither loses nor makes up payloads, for any payloads, *)
(* any number of them, and any pieces their bytes arrive in.               *)
(***************************************************************************)
EXTENDS Frames, SequenceTheorems, TLAPS

-----------------------------------------------------------------------------
(* Reading from bytes *)

LEMMA Splits ==
  ASSUME NEW S, NEW s \in Seq(S), NEW k \in 0..Len(s)
  PROVE  /\ SubSeq(s, 1, k) \in Seq(S) /\ Len(SubSeq(s, 1, k)) = k
         /\ \A i \in 1..k : SubSeq(s, 1, k)[i] = s[i]
         /\ SubSeq(s, k + 1, Len(s)) \in Seq(S)
         /\ Len(SubSeq(s, k + 1, Len(s))) = Len(s) - k
         /\ \A i \in 1..Len(s) - k : SubSeq(s, k + 1, Len(s))[i] = s[k + i]
<1>1. Len(s) \in Nat /\ \A i \in 1..Len(s) : s[i] \in S
  BY LenProperties, ElementOfSeq
<1>2. /\ SubSeq(s, 1, k) \in Seq(S) /\ Len(SubSeq(s, 1, k)) = k
      /\ \A i \in 1..k : SubSeq(s, 1, k)[i] = s[i]
  <2>1. \A i \in 1..k : s[i] \in S
    BY <1>1
  <2>. QED  BY <1>1, <2>1, SubSeqProperties
<1>3. /\ SubSeq(s, k + 1, Len(s)) \in Seq(S)
      /\ Len(SubSeq(s, k + 1, Len(s))) = Len(s) - k
      /\ \A i \in 1..Len(s) - k : SubSeq(s, k + 1, Len(s))[i] = s[k + i]
  <2>1. \A i \in k + 1..Len(s) : s[i] \in S
    BY <1>1
  <2>2. k + 1 \in Int /\ Len(s) \in Int
    BY <1>1
  <2>3. PICK t : t = SubSeq(s, k + 1, Len(s))
    OBVIOUS
  <2>4. /\ t \in Seq(S)
        /\ Len(t) = IF k + 1 <= Len(s) THEN Len(s) - (k + 1) + 1 ELSE 0
        /\ \A i \in 1..Len(s) - (k + 1) + 1 : t[i] = s[(k + 1) + i - 1]
    BY <2>1, <2>2, <2>3, SubSeqProperties
  <2>5. \A i \in 1..Len(s) - k :
            i \in 1..Len(s) - (k + 1) + 1 /\ (k + 1) + i - 1 = k + i
    BY <1>1
  <2>6. Len(t) = Len(s) - k
    BY <1>1, <2>4
  <2>. QED  BY <2>3, <2>4, <2>5, <2>6
<1>. QED  BY <1>2, <1>3

(* A part of a sequence from its middle.                                   *)
LEMMA Middle ==
  ASSUME NEW S, NEW s \in Seq(S), NEW h \in Nat, NEW k \in Nat,
         h + k <= Len(s)
  PROVE  /\ SubSeq(s, h + 1, h + k) \in Seq(S)
         /\ Len(SubSeq(s, h + 1, h + k)) = k
         /\ \A i \in 1..k : SubSeq(s, h + 1, h + k)[i] = s[h + i]
<1>1. Len(s) \in Nat /\ \A i \in 1..Len(s) : s[i] \in S
  BY LenProperties, ElementOfSeq
<1>2. \A i \in h + 1..h + k : s[i] \in S
  BY <1>1
<1>3. PICK t : t = SubSeq(s, h + 1, h + k)
  OBVIOUS
<1>4. /\ t \in Seq(S)
      /\ Len(t) = IF h + 1 <= h + k THEN h + k - (h + 1) + 1 ELSE 0
      /\ \A i \in 1..h + k - (h + 1) + 1 : t[i] = s[(h + 1) + i - 1]
  <2>1. h + 1 \in Int /\ h + k \in Int
    OBVIOUS
  <2>. QED  BY <1>2, <1>3, <2>1, SubSeqProperties
<1>5. \A i \in 1..k : i \in 1..h + k - (h + 1) + 1 /\ (h + 1) + i - 1 = h + i
  OBVIOUS
<1>6. Len(t) = k
  BY <1>4
<1>. QED  BY <1>3, <1>4, <1>5, <1>6

(* What read_exact of k bytes returns behind the first h.                  *)
LEMMA TakeBehind ==
  ASSUME NEW in \in Seq(Octet), NEW h \in 0..Len(in), NEW k \in Nat
  PROVE  Take(SubSeq(in, h + 1, Len(in)), k) =
             IF h + k > Len(in) THEN {}
             ELSE {Is(SubSeq(in, h + 1, h + k),
                      SubSeq(in, h + k + 1, Len(in)))}
<1>1. Len(in) \in Nat
  BY LenProperties
<1>2. PICK rest : rest = SubSeq(in, h + 1, Len(in))
  OBVIOUS
<1>3. /\ rest \in Seq(Octet) /\ Len(rest) = Len(in) - h
      /\ \A i \in 1..Len(in) - h : rest[i] = in[h + i]
  BY <1>2, Splits
<1>4. CASE h + k > Len(in)
  BY <1>1, <1>2, <1>3, <1>4 DEF Take
<1>5. CASE h + k <= Len(in)
  <2>1. k \in 0..Len(rest) /\ h + k \in 0..Len(in)
    BY <1>1, <1>3, <1>5
  <2>2. PICK a : a = SubSeq(rest, 1, k)
    OBVIOUS
  <2>3. PICK b : b = SubSeq(rest, k + 1, Len(rest))
    OBVIOUS
  <2>4. PICK c : c = SubSeq(in, h + 1, h + k)
    OBVIOUS
  <2>5. PICK n \in Nat : n = h + k
    OBVIOUS
  <2>6. PICK d : d = SubSeq(in, n + 1, Len(in))
    OBVIOUS
  <2>7. /\ a \in Seq(Octet) /\ Len(a) = k /\ \A i \in 1..k : a[i] = rest[i]
        /\ b \in Seq(Octet) /\ Len(b) = Len(rest) - k
        /\ \A i \in 1..Len(rest) - k : b[i] = rest[k + i]
    BY <1>3, <2>1, <2>2, <2>3, Splits
  <2>8. /\ c \in Seq(Octet) /\ Len(c) = k
        /\ \A i \in 1..k : c[i] = in[h + i]
    <3>1. h \in Nat /\ h + k <= Len(in)
      BY <1>1, <1>5
    <3>. QED  BY <2>4, <3>1, Middle
  <2>9. /\ d \in Seq(Octet) /\ Len(d) = Len(in) - n
        /\ \A i \in 1..Len(in) - n : d[i] = in[n + i]
    BY <2>1, <2>5, <2>6, Splits
  <2>10. \A i \in 1..k : a[i] = c[i]
    <3>1. \A i \in 1..k : i \in 1..Len(in) - h
      BY <1>1, <1>5
    <3>. QED  BY <1>3, <2>7, <2>8, <3>1
  <2>11. a = c
    BY <2>7, <2>8, <2>10, SeqEqual
  <2>12. Len(b) = Len(d) /\ \A i \in 1..Len(b) : b[i] = d[i]
    <3>1. Len(b) = Len(d) /\ Len(b) = Len(in) - n
      BY <1>1, <1>3, <2>5, <2>7, <2>9
    <3>2. ASSUME NEW i \in 1..Len(b)
          PROVE  b[i] = d[i]
      <4>1. /\ i \in 1..Len(rest) - k /\ i \in 1..Len(in) - n
            /\ k + i \in 1..Len(in) - h
            /\ h + (k + i) = n + i
        <5>1. PICK x \in Nat : x = Len(in)
          BY <1>1
        <5>2. Len(rest) = x - h /\ Len(b) = x - n
          BY <1>3, <3>1, <5>1
        <5>3. h \in Nat /\ i \in 1..x - n
          BY <5>1, <5>2
        <5>4. /\ i \in 1..(x - h) - k /\ k + i \in 1..x - h
              /\ h + (k + i) = n + i
          BY <2>5, <5>3
        <5>. QED  BY <5>1, <5>2, <5>3, <5>4
      <4>2. b[i] = rest[k + i] /\ d[i] = in[n + i]
        BY <2>7, <2>9, <4>1
      <4>3. rest[k + i] = in[h + (k + i)]
        BY <1>3, <4>1
      <4>. QED  BY <4>1, <4>2, <4>3
    <3>. QED  BY <3>1, <3>2
  <2>13. b = d
    BY <2>7, <2>9, <2>12, SeqEqual
  <2>14. Take(rest, k) = {Is(a, b)}
    BY <1>1, <1>3, <1>5, <2>2, <2>3 DEF Take
  <2>15. {Is(a, b)} = {Is(c, d)}
    BY <2>11, <2>13
  <2>16. d = SubSeq(in, h + k + 1, Len(in))
    BY <2>5, <2>6
  <2>17. ~(h + k > Len(in))
    BY <1>1, <1>5
  <2>18. Take(rest, k) = {Is(SubSeq(in, h + 1, h + k),
                            SubSeq(in, h + k + 1, Len(in)))}
    BY <2>4, <2>14, <2>15, <2>16
  <2>. QED  BY <1>2, <2>17, <2>18
<1>. QED  BY <1>1, <1>4, <1>5

-----------------------------------------------------------------------------
(* What decode_frame makes of the bytes there are *)

LEMMA FirstByte ==
  ASSUME NEW in \in Seq(Octet), in # <<>>
  PROVE  Len(in) \in Nat /\ Len(in) >= 1 /\ in[1] \in 0..255
<1>1. Len(in) \in Nat /\ Len(in) >= 1
  BY EmptySeq, LenProperties
<1>2. in[1] \in Octet
  BY <1>1, ElementOfSeq
<1>. QED  BY <1>1, <1>2 DEF Octet

(* The first n bytes, if they are there.                                   *)
LEMMA TakeFront ==
  ASSUME NEW in \in Seq(Octet), NEW n \in Nat
  PROVE  IF n > Len(in) THEN Take(in, n) = {}
         ELSE \E x : /\ Take(in, n) = {x}
                     /\ x.rest = SubSeq(in, n + 1, Len(in))
                     /\ \A i \in 1..n : x.value[i] = in[i]
<1>1. Len(in) \in Nat
  BY LenProperties
<1>2. CASE n > Len(in)
  BY <1>2 DEF Take
<1>3. CASE ~(n > Len(in))
  <2>1. PICK x : x = Is(SubSeq(in, 1, n), SubSeq(in, n + 1, Len(in)))
    OBVIOUS
  <2>2. /\ Take(in, n) = {x}
        /\ x.value = SubSeq(in, 1, n)
        /\ x.rest = SubSeq(in, n + 1, Len(in))
    BY <1>3, <2>1 DEF Take, Is
  <2>3. n \in 0..Len(in)
    BY <1>1, <1>3
  <2>4. \A i \in 1..n : SubSeq(in, 1, n)[i] = in[i]
    BY <2>3, Splits
  <2>5. \A i \in 1..n : x.value[i] = in[i]
    BY <2>2, <2>4
  <2>. QED  BY <1>3, <2>2, <2>5
<1>. QED  BY <1>2, <1>3

LEMMA NoBytes ==
  FrameLength(<<>>) = {} /\ DecodeFrame(<<>>) = {} /\ ~NoFrame(<<>>)
<1>1. Take(<<>>, 1) = {} /\ Take(<<>>, 4) = {}
  BY DEF Take
<1>2. FrameLength(<<>>) = {}
  BY <1>1 DEF FrameLength
<1>. QED  BY <1>2 DEF DecodeFrame, NoFrame

(* The length found, the frame is read behind it.                          *)
LEMMA DecodeBehind ==
  ASSUME NEW in \in Seq(Octet), NEW h \in 0..Len(in), NEW k \in Nat,
         FrameLength(in) = {Is(k, SubSeq(in, h + 1, Len(in)))}
  PROVE  /\ DecodeFrame(in) =
                IF h + k > Len(in) THEN {}
                ELSE {Is(SubSeq(in, h + 1, h + k),
                         SubSeq(in, h + k + 1, Len(in)))}
         /\ in # <<>> /\ in[1] <= 127 => (NoFrame(in) <=> k > MAX_FRAME_SIZE)
<1>1. PICK n : n = Is(k, SubSeq(in, h + 1, Len(in)))
  OBVIOUS
<1>2. /\ n.value = k /\ n.rest = SubSeq(in, h + 1, Len(in))
      /\ FrameLength(in) = {n}
  BY <1>1 DEF Is
<1>3. DecodeFrame(in) = Take(n.rest, n.value)
  <2>1. DecodeFrame(in) = UNION {Take(m.rest, m.value) : m \in {n}}
    BY <1>2 DEF DecodeFrame
  <2>. QED  BY <2>1
<1>4. Take(SubSeq(in, h + 1, Len(in)), k) =
          IF h + k > Len(in) THEN {}
          ELSE {Is(SubSeq(in, h + 1, h + k), SubSeq(in, h + k + 1, Len(in)))}
  BY TakeBehind
<1>5. ASSUME in # <<>>, in[1] <= 127
      PROVE  NoFrame(in) <=> k > MAX_FRAME_SIZE
  <2>1. ~(in[1] > 127)
    <3>1. in[1] \in 0..255
      BY <1>5, FirstByte
    <3>2. \A b \in 0..255 : b <= 127 => ~(b > 127)
      OBVIOUS
    <3>. QED  BY <1>5, <3>1, <3>2
  <2>. QED  BY <1>2, <2>1 DEF NoFrame
<1>. QED  BY <1>2, <1>3, <1>4, <1>5

LEMMA ShortLength ==
  ASSUME NEW in \in Seq(Octet), in # <<>>, in[1] <= 126
  PROVE  FrameLength(in) = {Is(in[1], SubSeq(in, 1 + 1, Len(in)))}
<1>1. Len(in) \in Nat /\ Len(in) >= 1 /\ in[1] \in 0..255
  BY FirstByte
<1>2. PICK one : /\ Take(in, 1) = {one}
                 /\ one.rest = SubSeq(in, 1 + 1, Len(in))
                 /\ \A i \in 1..1 : one.value[i] = in[i]
  <2>1. ~(1 > Len(in)) /\ 1 \in Nat
    BY <1>1
  <2>. QED  BY <2>1, TakeFront
<1>3. one.value[1] = in[1]
  BY <1>2
<1>4. {m \in Take(in, 4) : m.value[1] = 127} = {}
  <2>1. ASSUME ~(4 > Len(in))
        PROVE  \A m \in Take(in, 4) : m.value[1] = in[1]
    <3>1. PICK four : /\ Take(in, 4) = {four}
                      /\ four.rest = SubSeq(in, 4 + 1, Len(in))
                      /\ \A i \in 1..4 : four.value[i] = in[i]
      <4>1. ~(4 > Len(in)) /\ 4 \in Nat
        BY <2>1
      <4>. QED  BY <4>1, TakeFront
    <3>. QED  BY <3>1
  <2>2. 4 > Len(in) => Take(in, 4) = {}
    BY DEF Take
  <2>3. in[1] # 127
    BY <1>1
  <2>. QED  BY <2>1, <2>2, <2>3
<1>5. {m \in Take(in, 1) : m.value[1] <= 126} = {one}
  BY <1>2, <1>3
<1>6. FrameLength(in) = {Is(n.value[1], n.rest) : n \in {one}}
  BY <1>4, <1>5 DEF FrameLength
<1>7. FrameLength(in) = {Is(one.value[1], one.rest)}
  BY <1>6
<1>. QED  BY <1>2, <1>3, <1>7

LEMMA LongLength ==
  ASSUME NEW in \in Seq(Octet), in # <<>>, in[1] = 127
  PROVE  IF 4 > Len(in)
         THEN FrameLength(in) = {} /\ DecodeFrame(in) = {} /\ ~NoFrame(in)
         ELSE /\ FromLE3(in[2], in[3], in[4]) \in Nat
              /\ FrameLength(in) = {Is(FromLE3(in[2], in[3], in[4]),
                                       SubSeq(in, 4 + 1, Len(in)))}
<1>1. Len(in) \in Nat /\ Len(in) >= 1 /\ in[1] \in 0..255
  BY FirstByte
<1>2. {m \in Take(in, 1) : m.value[1] <= 126} = {}
  <2>1. PICK one : /\ Take(in, 1) = {one}
                   /\ \A i \in 1..1 : one.value[i] = in[i]
    <3>1. ~(1 > Len(in)) /\ 1 \in Nat
      BY <1>1
    <3>. QED  BY <3>1, TakeFront
  <2>2. one.value[1] = 127
    BY <2>1
  <2>. QED  BY <2>1, <2>2
<1>3. CASE 4 > Len(in)
  <2>1. Take(in, 4) = {}
    BY <1>3 DEF Take
  <2>2. FrameLength(in) = {}
    BY <1>2, <2>1 DEF FrameLength
  <2>. QED  BY <1>3, <2>2 DEF DecodeFrame, NoFrame
<1>4. CASE ~(4 > Len(in))
  <2>1. PICK four : /\ Take(in, 4) = {four}
                    /\ four.rest = SubSeq(in, 4 + 1, Len(in))
                    /\ \A i \in 1..4 : four.value[i] = in[i]
    <3>1. ~(4 > Len(in)) /\ 4 \in Nat
      BY <1>4
    <3>. QED  BY <3>1, TakeFront
  <2>2. /\ four.value[1] = 127 /\ four.value[2] = in[2]
        /\ four.value[3] = in[3] /\ four.value[4] = in[4]
    BY <2>1
  <2>3. {m \in Take(in, 4) : m.value[1] = 127} = {four}
    BY <2>1, <2>2
  <2>4. FrameLength(in) =
            {Is(FromLE3(n.value[2], n.value[3], n.value[4]), n.rest) :
                 n \in {four}}
    BY <1>2, <2>3 DEF FrameLength
  <2>5. FrameLength(in) =
            {Is(FromLE3(four.value[2], four.value[3], four.value[4]),
                four.rest)}
    BY <2>4
  <2>6. in[2] \in Octet /\ in[3] \in Octet /\ in[4] \in Octet
    <3>1. 2 \in 1..Len(in) /\ 3 \in 1..Len(in) /\ 4 \in 1..Len(in)
      BY <1>1, <1>4
    <3>. QED  BY <3>1, ElementOfSeq
  <2>7. \A a, b, c \in Octet : FromLE3(a, b, c) \in Nat
    BY SMT DEF Octet, FromLE3
  <2>8. FromLE3(in[2], in[3], in[4]) \in Nat
    <3>1. PICK a \in Octet : a = in[2]
      BY <2>6
    <3>2. PICK b \in Octet : b = in[3]
      BY <2>6
    <3>3. PICK c \in Octet : c = in[4]
      BY <2>6
    <3>4. FromLE3(a, b, c) \in Nat
      BY <2>7, Zenon
    <3>. QED  BY <3>1, <3>2, <3>3, <3>4, Zenon
  <2>. QED  BY <1>4, <2>1, <2>2, <2>5, <2>8
<1>. QED  BY <1>3, <1>4

LEMMA NoLength ==
  ASSUME NEW in \in Seq(Octet), in # <<>>, in[1] > 127
  PROVE  NoFrame(in)
  BY DEF NoFrame

(* Where both take a frame: behind its header, if all of it is there.      *)
LEMMA WhereAFrameIs ==
  ASSUME NEW in \in Seq(Octet), in # <<>>, in[1] <= 127, NEW h, NEW k,
         h = IF in[1] = 127 THEN 4 ELSE 1,
         k = IF h = 4 THEN FromLE3(in[2], in[3], in[4]) ELSE in[1],
         ~(h > Len(in))
  PROVE  /\ h \in 0..Len(in) /\ k \in Nat
         /\ FrameLength(in) = {Is(k, SubSeq(in, h + 1, Len(in)))}
         /\ DecodeFrame(in) =
                IF h + k > Len(in) THEN {}
                ELSE {Is(SubSeq(in, h + 1, h + k),
                         SubSeq(in, h + k + 1, Len(in)))}
         /\ NoFrame(in) <=> k > MAX_FRAME_SIZE
<1>1. Len(in) \in Nat /\ in[1] \in 0..255
  BY FirstByte
<1>2. h \in 0..Len(in)
  BY <1>1
<1>3. k \in Nat /\ FrameLength(in) = {Is(k, SubSeq(in, h + 1, Len(in)))}
  <2>1. CASE in[1] = 127
    <3>1. h = 4 /\ k = FromLE3(in[2], in[3], in[4])
      BY <2>1
    <3>. QED  BY <2>1, <3>1, LongLength
  <2>2. CASE in[1] # 127
    <3>1. h = 1 /\ k = in[1]
      BY <2>2
    <3>2. in[1] <= 126 /\ in[1] \in Nat
      <4>1. \A b \in 0..255 : b <= 127 /\ b # 127 => b <= 126 /\ b \in Nat
        OBVIOUS
      <4>. QED  BY <1>1, <2>2, <4>1
    <3>3. FrameLength(in) = {Is(in[1], SubSeq(in, 1 + 1, Len(in)))}
      BY <3>2, ShortLength
    <3>. QED  BY <3>1, <3>2, <3>3
  <2>. QED  BY <2>1, <2>2
<1>. QED  BY <1>2, <1>3, DecodeBehind

(* decode_frame_from_slice agrees with decode_frame: StreamTransport and   *)
(* MockTransport receive the same payloads out of the same bytes, whether  *)
(* or not a frame is complete (abridged.rs:28 and 59).                     *)
THEOREM SliceAsStream ==
  ASSUME NEW in \in Seq(Octet), ~NoFrame(in)
  PROVE  DecodeFromSlice(in) = DecodeFrame(in)
<1>1. CASE in = <<>>
  BY <1>1, NoBytes DEF DecodeFromSlice
<1>2. CASE in # <<>>
  <2>1. Len(in) \in Nat /\ in[1] \in 0..255 /\ in[1] <= 127
    <3>1. ~(in[1] > 127)
      BY <1>2 DEF NoFrame
    <3>2. \A b \in 0..255 : ~(b > 127) => b <= 127
      OBVIOUS
    <3>. QED  BY <1>2, <3>1, <3>2, FirstByte
  <2>2. PICK h : h = IF in[1] = 127 THEN 4 ELSE 1
    OBVIOUS
  <2>3. PICK k : k = IF h = 4 THEN FromLE3(in[2], in[3], in[4]) ELSE in[1]
    OBVIOUS
  <2>4. DecodeFromSlice(in) =
            IF in = <<>> \/ Len(in) < h \/ Len(in) < h + k THEN {}
            ELSE {Is(SubSeq(in, h + 1, h + k), SubSeq(in, h + k + 1, Len(in)))}
    BY <2>2, <2>3 DEF DecodeFromSlice
  <2>5. h \in Nat
    BY <2>2
  <2>6. CASE h > Len(in)
    <3>1. DecodeFromSlice(in) = {}
      BY <2>1, <2>4, <2>5, <2>6
    <3>2. h = 4 /\ in[1] = 127
      <4>1. Len(in) >= 1
        BY <1>2, FirstByte
      <4>. QED  BY <2>1, <2>2, <2>6, <4>1
    <3>. QED  BY <1>2, <2>6, <3>1, <3>2, LongLength
  <2>7. CASE ~(h > Len(in))
    <3>1. /\ k \in Nat
          /\ DecodeFrame(in) =
                 IF h + k > Len(in) THEN {}
                 ELSE {Is(SubSeq(in, h + 1, h + k),
                          SubSeq(in, h + k + 1, Len(in)))}
      BY <1>2, <2>1, <2>2, <2>3, <2>7, WhereAFrameIs
    <3>2. Len(in) < h \/ Len(in) < h + k <=> h + k > Len(in)
      BY <2>1, <2>5, <2>7, <3>1
    <3>. QED  BY <1>2, <2>4, <3>1, <3>2
  <2>. QED  BY <2>6, <2>7
<1>. QED  BY <1>1, <1>2

LEMMA DecodeType ==
  ASSUME NEW in \in Seq(Octet), ~NoFrame(in), NEW f \in DecodeFrame(in)
  PROVE  f.value \in Seq(Octet) /\ f.rest \in Seq(Octet)
<1>1. in # <<>>
  BY NoBytes
<1>2. Len(in) \in Nat /\ Len(in) >= 1 /\ in[1] \in 0..255 /\ in[1] <= 127
  <2>1. ~(in[1] > 127)
    BY <1>1 DEF NoFrame
  <2>2. \A b \in 0..255 : ~(b > 127) => b <= 127
    OBVIOUS
  <2>. QED  BY <1>1, <2>1, <2>2, FirstByte
<1>3. PICK h : h = IF in[1] = 127 THEN 4 ELSE 1
  OBVIOUS
<1>4. PICK k : k = IF h = 4 THEN FromLE3(in[2], in[3], in[4]) ELSE in[1]
  OBVIOUS
<1>5. ~(h > Len(in))
  <2>1. ASSUME h > Len(in)
        PROVE  FALSE
    <3>1. h = 4 /\ in[1] = 127
      BY <1>2, <1>3, <2>1
    <3>. QED  BY <1>1, <2>1, <3>1, LongLength
  <2>. QED  BY <2>1
<1>6. /\ h \in 0..Len(in) /\ k \in Nat
      /\ DecodeFrame(in) =
             IF h + k > Len(in) THEN {}
             ELSE {Is(SubSeq(in, h + 1, h + k),
                      SubSeq(in, h + k + 1, Len(in)))}
  BY <1>1, <1>2, <1>3, <1>4, <1>5, WhereAFrameIs
<1>7. h \in Nat /\ h + k <= Len(in)
  BY <1>2, <1>6
<1>8. /\ f.value = SubSeq(in, h + 1, h + k)
      /\ f.rest = SubSeq(in, h + k + 1, Len(in))
  BY <1>6, <1>7 DEF Is
<1>9. SubSeq(in, h + 1, h + k) \in Seq(Octet)
  BY <1>6, <1>7, Middle
<1>10. PICK n \in 0..Len(in) : n = h + k
  BY <1>2, <1>6, <1>7
<1>11. SubSeq(in, n + 1, Len(in)) \in Seq(Octet)
  BY Splits
<1>. QED  BY <1>8, <1>9, <1>10, <1>11

-----------------------------------------------------------------------------
(* What encode_frame makes, and that decode_frame undoes it *)

Header(p) == IF Len(p) <= 127 THEN 1 ELSE 4

LEMMA DividedBy256 ==
  ASSUME NEW n \in Nat, NEW q \in Int, NEW r \in Int,
         q = n \div 256, r = n % 256
  PROVE  n = 256 * q + r /\ q \in Nat /\ r \in 0..255
<1>1. n = 256 * q + r
  BY SMT
<1>2. r \in 0..255
  BY SMT
<1>3. q \in Nat
  BY SMT
<1>. QED  BY <1>1, <1>2, <1>3

LEMMA DividedTwice ==
  ASSUME NEW n \in Nat
  PROVE  n \div 65536 = (n \div 256) \div 256
BY SMT

LEMMA ThreeDigits ==
  ASSUME NEW a \in 0..255, NEW b \in 0..255, NEW c \in Nat,
         256 * (256 * c + b) + a <= MaxLength
  PROVE  /\ c \in 0..255 /\ c % 256 = c
         /\ FromLE3(a, b, c) = 256 * (256 * c + b) + a
<1>1. c \in 0..255 /\ a + 256 * b + 65536 * c = 256 * (256 * c + b) + a
  BY SMT DEF MaxLength
<1>2. \A m \in 0..255 : m % 256 = m
  BY SMT
<1>. QED  BY <1>1, <1>2, SMT DEF FromLE3

LEMMA LittleEndian ==
  ASSUME NEW n \in Nat, n <= MaxLength
  PROVE  /\ LE3(n) \in Seq(Octet) /\ Len(LE3(n)) = 3
         /\ FromLE3(LE3(n)[1], LE3(n)[2], LE3(n)[3]) = n
<1>1. PICK q \in Int : q = n \div 256
  OBVIOUS
<1>2. PICK a \in Int : a = n % 256
  OBVIOUS
<1>3. n = 256 * q + a /\ q \in Nat /\ a \in 0..255
  BY <1>1, <1>2, DividedBy256
<1>4. PICK c \in Int : c = q \div 256
  BY <1>3
<1>5. PICK b \in Int : b = q % 256
  BY <1>3
<1>6. q = 256 * c + b /\ c \in Nat /\ b \in 0..255
  BY <1>3, <1>4, <1>5, DividedBy256
<1>7. c \in 0..255 /\ c % 256 = c /\ FromLE3(a, b, c) = n
  <2>1. n = 256 * (256 * c + b) + a
    BY <1>3, <1>6, Zenon
  <2>2. 256 * (256 * c + b) + a <= MaxLength
    BY <2>1, Zenon
  <2>3. a \in 0..255 /\ b \in 0..255 /\ c \in Nat
    BY <1>3, <1>6, Zenon
  <2>4. /\ c \in 0..255 /\ c % 256 = c
        /\ FromLE3(a, b, c) = 256 * (256 * c + b) + a
    BY <2>2, <2>3, ThreeDigits, ZenonT(60)
  <2>. QED  BY <2>1, <2>4, Zenon
<1>8. c = n \div 65536
  BY <1>1, <1>4, DividedTwice
<1>9. LE3(n) = <<a, b, c>>
  <2>1. n % 256 = a /\ (n \div 256) % 256 = b /\ (n \div 65536) % 256 = c
    BY <1>1, <1>2, <1>5, <1>7, <1>8
  <2>. QED  BY <2>1, SMT DEF LE3
<1>10. <<a, b, c>> \in Seq(Octet) /\ Len(<<a, b, c>>) = 3
  <2>1. a \in Octet /\ b \in Octet /\ c \in Octet
    BY <1>3, <1>6, <1>7 DEF Octet
  <2>. QED  BY <2>1
<1>. QED  BY <1>7, <1>9, <1>10

LEMMA EncodeFacts ==
  ASSUME NEW p \in Seq(Octet), Len(p) <= MaxLength
  PROVE  /\ EncodeFrame(p) \in Seq(Octet)
         /\ Header(p) \in Nat \ {0}
         /\ Len(EncodeFrame(p)) = Header(p) + Len(p)
         /\ \A i \in 1..Len(p) : EncodeFrame(p)[Header(p) + i] = p[i]
         /\ EncodeFrame(p)[1] = IF Len(p) <= 127 THEN Len(p) ELSE 127
         /\ Len(p) > 127 => FromLE3(EncodeFrame(p)[2], EncodeFrame(p)[3],
                                    EncodeFrame(p)[4]) = Len(p)
<1>1. Len(p) \in Nat
  BY LenProperties
<1>2. CASE Len(p) <= 127
  <2>1. PICK m \in Octet : m = Len(p)
    <3>1. \A n \in Nat : n <= 127 => n \in Octet
      BY DEF Octet
    <3>. QED  BY <1>1, <1>2, <3>1
  <2>2. <<m>> \in Seq(Octet) /\ Len(<<m>>) = 1 /\ <<m>>[1] = m
    OBVIOUS
  <2>3. PICK f : f = <<m>> \o p
    OBVIOUS
  <2>4. /\ f \in Seq(Octet) /\ Len(f) = 1 + Len(p)
        /\ \A i \in 1..1 + Len(p) : f[i] = IF i <= 1 THEN <<m>>[i] ELSE p[i - 1]
    BY <2>2, <2>3, ConcatProperties
  <2>5. f[1] = m
    BY <1>1, <2>2, <2>4
  <2>6. ASSUME NEW i \in 1..Len(p)
        PROVE  f[1 + i] = p[i]
    <3>1. 1 + i \in 1..1 + Len(p) /\ ~(1 + i <= 1) /\ (1 + i) - 1 = i
      BY <1>1
    <3>. QED  BY <2>4, <3>1
  <2>7. EncodeFrame(p) = f /\ Header(p) = 1
    BY <1>2, <2>1, <2>3 DEF EncodeFrame, Header
  <2>8. ~(Len(p) > 127)
    BY <1>1, <1>2
  <2>. QED  BY <1>2, <2>1, <2>4, <2>5, <2>6, <2>7, <2>8
<1>3. CASE ~(Len(p) <= 127)
  <2>1. PICK l : l = LE3(Len(p))
    OBVIOUS
  <2>2. /\ l \in Seq(Octet) /\ Len(l) = 3
        /\ FromLE3(l[1], l[2], l[3]) = Len(p)
    <3>1. PICK n \in Nat : n = Len(p)
      BY <1>1
    <3>2. n <= MaxLength
      BY <3>1
    <3>3. /\ LE3(n) \in Seq(Octet) /\ Len(LE3(n)) = 3
          /\ FromLE3(LE3(n)[1], LE3(n)[2], LE3(n)[3]) = n
      BY <3>2, LittleEndian
    <3>. QED  BY <2>1, <3>1, <3>3
  <2>3. PICK m \in Octet : m = 127
    BY DEF Octet
  <2>4. <<m>> \in Seq(Octet) /\ Len(<<m>>) = 1 /\ <<m>>[1] = m
    OBVIOUS
  <2>5. PICK g : g = <<m>> \o l
    OBVIOUS
  <2>6. /\ g \in Seq(Octet) /\ Len(g) = 4
        /\ g[1] = 127 /\ g[2] = l[1] /\ g[3] = l[2] /\ g[4] = l[3]
    <3>1. PICK s \in Seq(Octet) : s = <<m>> /\ Len(s) = 1 /\ s[1] = m
      BY <2>4
    <3>2. /\ g \in Seq(Octet) /\ Len(g) = Len(s) + Len(l)
          /\ \A i \in 1..Len(s) + Len(l) :
                 g[i] = IF i <= Len(s) THEN s[i] ELSE l[i - Len(s)]
      <4>1. g = s \o l /\ s \in Seq(Octet) /\ l \in Seq(Octet)
        BY <2>2, <2>5, <3>1
      <4>. QED  BY <4>1, ConcatProperties
    <3>3. Len(s) = 1 /\ Len(l) = 3 /\ s[1] = 127
      BY <2>2, <2>3, <3>1
    <3>. QED  BY <3>2, <3>3
  <2>7. PICK f : f = g \o p
    OBVIOUS
  <2>8. /\ f \in Seq(Octet) /\ Len(f) = 4 + Len(p)
        /\ \A i \in 1..4 + Len(p) : f[i] = IF i <= 4 THEN g[i] ELSE p[i - 4]
    <3>1. /\ f \in Seq(Octet) /\ Len(f) = Len(g) + Len(p)
          /\ \A i \in 1..Len(g) + Len(p) :
                 f[i] = IF i <= Len(g) THEN g[i] ELSE p[i - Len(g)]
      <4>1. g \in Seq(Octet)
        BY <2>6
      <4>. QED  BY <2>7, <4>1, ConcatProperties
    <3>. QED  BY <2>6, <3>1
  <2>9. f[1] = 127 /\ f[2] = l[1] /\ f[3] = l[2] /\ f[4] = l[3]
    BY <1>1, <2>6, <2>8
  <2>10. ASSUME NEW i \in 1..Len(p)
         PROVE  f[4 + i] = p[i]
    <3>1. 4 + i \in 1..4 + Len(p) /\ ~(4 + i <= 4) /\ (4 + i) - 4 = i
      BY <1>1
    <3>. QED  BY <2>8, <3>1
  <2>11. EncodeFrame(p) = f /\ Header(p) = 4
    BY <1>3, <2>1, <2>3, <2>5, <2>7 DEF EncodeFrame, Header
  <2>. QED  BY <1>3, <2>2, <2>8, <2>9, <2>10, <2>11
<1>. QED  BY <1>2, <1>3

(* The bytes there are begin with the frame, or are the beginning of it.   *)
Agrees(in, frame) == \A j \in 1..Len(in) : j <= Len(frame) => in[j] = frame[j]

(* A receiver that has the beginning of a frame waits for the rest of it;  *)
(* with all of the frame it has the payload, and the bytes behind it.      *)
(* This is so for every payload encode_frame takes but those of 127 bytes. *)
THEOREM FrameRoundTrip ==
  ASSUME NEW p \in Seq(Octet), Len(p) <= MaxLength, Len(p) # 127,
         NEW in \in Seq(Octet), Agrees(in, EncodeFrame(p))
  PROVE  /\ DecodeFrame(in) =
                IF Len(EncodeFrame(p)) > Len(in) THEN {}
                ELSE {Is(p, SubSeq(in, Len(EncodeFrame(p)) + 1, Len(in)))}
         /\ NoFrame(in) => Len(p) > MAX_FRAME_SIZE
<1>1. PICK f : f = EncodeFrame(p)
  OBVIOUS
<1>2. PICK h \in Nat \ {0} : h = Header(p)
  BY EncodeFacts
<1>3. /\ f \in Seq(Octet) /\ Len(f) = h + Len(p)
      /\ \A i \in 1..Len(p) : f[h + i] = p[i]
      /\ f[1] = IF Len(p) <= 127 THEN Len(p) ELSE 127
      /\ Len(p) > 127 => FromLE3(f[2], f[3], f[4]) = Len(p)
  BY <1>1, <1>2, EncodeFacts
<1>4. Len(p) \in Nat /\ Len(in) \in Nat
  BY LenProperties
<1>5. \A j \in 1..Len(in) : j <= Len(f) => in[j] = f[j]
  BY <1>1 DEF Agrees
<1>6. CASE in = <<>>
  <2>1. Len(f) > Len(in)
    BY <1>3, <1>4, <1>6
  <2>. QED  BY <1>1, <1>6, <2>1, NoBytes
<1>7. CASE in # <<>>
  <2>1. in[1] = f[1]
    <3>1. 1 \in 1..Len(in) /\ 1 <= Len(f)
      BY <1>3, <1>4, <1>7, FirstByte
    <3>. QED  BY <1>5, <3>1
  <2>2. in[1] <= 127 /\ h = IF in[1] = 127 THEN 4 ELSE 1
    BY <1>2, <1>3, <1>4, <2>1 DEF Header
  <2>3. CASE h > Len(in)
    <3>1. in[1] = 127 /\ h = 4
      <4>1. Len(in) >= 1
        BY <1>7, FirstByte
      <4>. QED  BY <1>4, <2>2, <2>3, <4>1
    <3>2. DecodeFrame(in) = {} /\ ~NoFrame(in)
      BY <1>7, <2>3, <3>1, LongLength
    <3>3. Len(f) > Len(in)
      BY <1>3, <1>4, <2>3
    <3>. QED  BY <1>1, <3>2, <3>3
  <2>4. CASE ~(h > Len(in))
    <3>1. Len(p) = IF h = 4 THEN FromLE3(in[2], in[3], in[4]) ELSE in[1]
      <4>1. CASE h = 4
        <5>1. Len(p) > 127
          BY <1>2, <1>4, <4>1 DEF Header
        <5>2. /\ 2 \in 1..Len(in) /\ 3 \in 1..Len(in) /\ 4 \in 1..Len(in)
              /\ 2 <= Len(f) /\ 3 <= Len(f) /\ 4 <= Len(f)
          BY <1>3, <1>4, <2>4, <4>1
        <5>3. in[2] = f[2] /\ in[3] = f[3] /\ in[4] = f[4]
          BY <1>5, <5>2
        <5>. QED  BY <1>3, <4>1, <5>1, <5>3
      <4>2. CASE h # 4
        BY <1>2, <1>3, <2>1, <4>2 DEF Header
      <4>. QED  BY <4>1, <4>2
    <3>2. PICK k : k = Len(p)
      OBVIOUS
    <3>3. /\ h \in 0..Len(in) /\ k \in Nat
          /\ DecodeFrame(in) =
                 IF h + k > Len(in) THEN {}
                 ELSE {Is(SubSeq(in, h + 1, h + k),
                          SubSeq(in, h + k + 1, Len(in)))}
          /\ NoFrame(in) <=> k > MAX_FRAME_SIZE
      BY <1>7, <2>2, <2>4, <3>1, <3>2, WhereAFrameIs
    <3>4. CASE h + k > Len(in)
      BY <1>1, <1>3, <3>2, <3>3, <3>4
    <3>5. CASE ~(h + k > Len(in))
      <4>1. h + k <= Len(in)
        BY <1>4, <3>3, <3>5
      <4>2. PICK v : v = SubSeq(in, h + 1, h + k)
        OBVIOUS
      <4>3. /\ v \in Seq(Octet) /\ Len(v) = k
            /\ \A i \in 1..k : v[i] = in[h + i]
        <5>1. h \in Nat /\ k \in Nat
          BY <3>3
        <5>. QED  BY <4>1, <4>2, <5>1, Middle
      <4>4. \A i \in 1..k : v[i] = p[i]
        <5>1. \A i \in 1..k : h + i \in 1..Len(in) /\ h + i <= Len(f)
          BY <1>3, <1>4, <3>2, <3>3, <4>1
        <5>2. \A i \in 1..k : in[h + i] = f[h + i]
          BY <1>5, <5>1
        <5>. QED  BY <1>3, <3>2, <4>3, <5>2
      <4>5. v = p
        BY <3>2, <4>3, <4>4, SeqEqual
      <4>6. DecodeFrame(in) = {Is(v, SubSeq(in, h + k + 1, Len(in)))}
        BY <3>3, <3>5, <4>2
      <4>7. h + k = Len(f)
        BY <1>3, <3>2
      <4>. QED  BY <1>1, <3>2, <3>3, <3>5, <4>5, <4>6, <4>7
    <3>. QED  BY <3>4, <3>5
  <2>. QED  BY <2>3, <2>4
<1>. QED  BY <1>6, <1>7

-----------------------------------------------------------------------------
(* Frames in a row *)

(* s holds the frames of the payloads q from the one behind the first m:   *)
(* that of q[i] is behind the first b[i - 1] bytes.                        *)
Lined(s, b, q, m) ==
    /\ s \in Seq(Octet) /\ b \in [m..Len(q) -> Nat]
    /\ b[m] = 0 /\ b[Len(q)] = Len(s)
    /\ \A i \in m + 1..Len(q) :
           /\ b[i] = b[i - 1] + Len(EncodeFrame(q[i]))
           /\ \A j \in 1..Len(EncodeFrame(q[i])) :
                  s[b[i - 1] + j] = EncodeFrame(q[i])[j]
    /\ \A i, k \in m..Len(q) : i <= k => b[i] <= b[k]

(* The bytes that have arrived and those under way are the beginning of s, *)
(* and all of it unless the stream was cut.                                *)
UnderWay(s, in, out, c) ==
    /\ Len(in) + Len(out) <= Len(s)
    /\ \A j \in 1..Len(in) : in[j] = s[j]
    /\ \A j \in 1..Len(out) : out[j] = s[Len(in) + j]
    /\ ~c => Len(in) + Len(out) = Len(s)

Sendable(q) == \A i \in 1..Len(q) : Len(q[i]) <= MaxLength

(* A frame is put behind the others.                                       *)
LEMMA LinedAppend ==
  ASSUME NEW q \in Seq(Seq(Octet)), NEW m \in 0..Len(q), NEW s, NEW b,
         Lined(s, b, q, m), Sendable(q),
         NEW p \in Seq(Octet), Len(p) <= MaxLength
  PROVE  /\ s \o EncodeFrame(p) \in Seq(Octet)
         /\ \E c : Lined(s \o EncodeFrame(p), c, Append(q, p), m)
<1>1. PICK f : f = EncodeFrame(p)
  OBVIOUS
<1>2. f \in Seq(Octet) /\ Len(f) \in Nat
  BY <1>1, EncodeFacts, LenProperties
<1>3. PICK z \in Nat : z = Len(q)
  BY LenProperties
<1>4. /\ s \in Seq(Octet) /\ Len(s) \in Nat
      /\ b \in [m..z -> Nat] /\ b[m] = 0 /\ b[z] = Len(s)
      /\ \A i \in m + 1..z :
             /\ b[i] = b[i - 1] + Len(EncodeFrame(q[i]))
             /\ \A j \in 1..Len(EncodeFrame(q[i])) :
                    s[b[i - 1] + j] = EncodeFrame(q[i])[j]
      /\ \A i, k \in m..z : i <= k => b[i] <= b[k]
  BY <1>3, LenProperties DEF Lined
<1>5. PICK t : t = s \o f
  OBVIOUS
<1>6. /\ t \in Seq(Octet) /\ Len(t) = Len(s) + Len(f)
      /\ \A j \in 1..Len(s) + Len(f) :
             t[j] = IF j <= Len(s) THEN s[j] ELSE f[j - Len(s)]
  BY <1>2, <1>4, <1>5, ConcatProperties
<1>7. PICK r : r = Append(q, p)
  OBVIOUS
<1>8. /\ Len(r) = z + 1 /\ r[z + 1] = p
      /\ \A i \in 1..z : r[i] = q[i]
  BY <1>3, <1>7, AppendProperties
<1>9. PICK c : c = [i \in m..z + 1 |-> IF i <= z THEN b[i]
                                       ELSE Len(s) + Len(f)]
  OBVIOUS
<1>10. /\ c \in [m..z + 1 -> Nat] /\ c[z + 1] = Len(t)
       /\ \A i \in m..z : c[i] = b[i]
  <2>1. \A i \in m..z + 1 : i <= z => i \in m..z
    BY <1>3
  <2>2. z + 1 \in m..z + 1 /\ ~(z + 1 <= z)
    BY <1>3
  <2>3. \A i \in m..z : i \in m..z + 1 /\ i <= z
    BY <1>3
  <2>4. Len(s) + Len(f) \in Nat
    BY <1>2, <1>4
  <2>5. \A i \in m..z + 1 : (IF i <= z THEN b[i] ELSE Len(s) + Len(f)) \in Nat
    BY <1>4, <2>1, <2>4
  <2>6. c \in [m..z + 1 -> Nat]
    BY <1>9, <2>5
  <2>. QED  BY <1>6, <1>9, <2>2, <2>3, <2>6
<1>11. c[m] = 0
  <2>1. m \in m..z
    BY <1>3
  <2>. QED  BY <1>4, <1>10, <2>1
<1>12. ASSUME NEW i \in m + 1..z
       PROVE  /\ c[i] = c[i - 1] + Len(EncodeFrame(r[i]))
              /\ \A j \in 1..Len(EncodeFrame(r[i])) :
                     t[c[i - 1] + j] = EncodeFrame(r[i])[j]
  <2>1. i \in m..z /\ i - 1 \in m..z /\ i \in 1..z /\ z \in m..z
    BY <1>3
  <2>2. c[i] = b[i] /\ c[i - 1] = b[i - 1] /\ r[i] = q[i]
    BY <1>8, <1>10, <2>1
  <2>3. PICK g : g = EncodeFrame(q[i])
    OBVIOUS
  <2>4. PICK d \in Nat : d = b[i - 1]
    BY <1>4, <2>1
  <2>5. /\ b[i] = d + Len(g)
        /\ \A j \in 1..Len(g) : s[d + j] = g[j]
    BY <1>4, <2>3, <2>4
  <2>6. b[i] <= Len(s) /\ b[i] \in Nat
    BY <1>4, <2>1
  <2>7. ASSUME NEW j \in 1..Len(g)
        PROVE  t[d + j] = g[j]
    <3>0. Len(g) \in Nat
      <4>1. q[i] \in Seq(Octet) /\ Len(q[i]) <= MaxLength
        BY <1>3, <2>1, ElementOfSeq DEF Sendable
      <4>. QED  BY <2>3, <4>1, EncodeFacts, LenProperties
    <3>1. d + j \in 1..Len(s)
      <4>1. d + Len(g) <= Len(s) /\ Len(s) \in Nat
        BY <1>4, <2>5, <2>6
      <4>. QED  BY <2>4, <3>0, <4>1
    <3>2. d + j \in 1..Len(s) + Len(f) /\ d + j <= Len(s)
      BY <1>2, <1>4, <3>1
    <3>. QED  BY <1>6, <2>5, <3>2
  <2>. QED  BY <2>2, <2>3, <2>4, <2>5, <2>7
<1>13. /\ c[z + 1] = c[(z + 1) - 1] + Len(EncodeFrame(r[z + 1]))
       /\ \A j \in 1..Len(EncodeFrame(r[z + 1])) :
              t[c[(z + 1) - 1] + j] = EncodeFrame(r[z + 1])[j]
  <2>1. (z + 1) - 1 = z /\ z \in m..z
    BY <1>3
  <2>2. c[z] = Len(s) /\ EncodeFrame(r[z + 1]) = f
    BY <1>1, <1>4, <1>8, <1>10, <2>1
  <2>3. ASSUME NEW j \in 1..Len(f)
        PROVE  t[Len(s) + j] = f[j]
    <3>1. /\ Len(s) + j \in 1..Len(s) + Len(f)
          /\ ~(Len(s) + j <= Len(s)) /\ (Len(s) + j) - Len(s) = j
      <4>1. PICK x \in Nat : x = Len(s)
        BY <1>4
      <4>2. PICK y \in Nat : y = Len(f)
        BY <1>2
      <4>3. j \in 1..y
        BY <4>2
      <4>4. x + j \in 1..x + y /\ ~(x + j <= x) /\ (x + j) - x = j
        BY <4>3
      <4>. QED  BY <4>1, <4>2, <4>4
    <3>. QED  BY <1>6, <3>1
  <2>. QED  BY <1>6, <1>10, <2>1, <2>2, <2>3
<1>14. ASSUME NEW i \in m..z + 1, NEW k \in m..z + 1, i <= k
       PROVE  c[i] <= c[k]
  <2>1. CASE k \in m..z
    <3>1. i \in m..z
      BY <1>3, <1>14, <2>1
    <3>. QED  BY <1>4, <1>10, <1>14, <2>1, <3>1
  <2>2. CASE k = z + 1 /\ i \in m..z
    <3>1. z \in m..z /\ i <= z
      BY <1>3, <2>2
    <3>2. b[i] <= Len(s) /\ b[i] \in Nat
      BY <1>4, <2>2, <3>1
    <3>3. c[i] = b[i] /\ c[k] = Len(s) + Len(f)
      BY <1>6, <1>10, <2>2
    <3>. QED  BY <1>2, <1>4, <3>2, <3>3
  <2>3. CASE k = z + 1 /\ i = z + 1
    BY <1>2, <1>4, <1>6, <1>10, <2>3
  <2>. QED  BY <1>3, <2>1, <2>2, <2>3
<1>15. \A i \in m + 1..z + 1 :
           /\ c[i] = c[i - 1] + Len(EncodeFrame(r[i]))
           /\ \A j \in 1..Len(EncodeFrame(r[i])) :
                  t[c[i - 1] + j] = EncodeFrame(r[i])[j]
  <2>1. \A i \in m + 1..z + 1 : i \in m + 1..z \/ i = z + 1
    BY <1>3
  <2>. QED  BY <1>12, <1>13, <2>1
<1>16. Lined(t, c, r, m)
  BY <1>6, <1>8, <1>10, <1>11, <1>14, <1>15 DEF Lined
<1>. QED  BY <1>1, <1>5, <1>6, <1>7, <1>16

(* The frame in front is there, and agrees with what has arrived.          *)
LEMMA LinedFirst ==
  ASSUME NEW q \in Seq(Seq(Octet)), NEW m \in 0..Len(q) - 1, NEW s, NEW b,
         Lined(s, b, q, m), Sendable(q),
         NEW in \in Seq(Octet), NEW out \in Seq(Octet), NEW c,
         UnderWay(s, in, out, c)
  PROVE  /\ q[m + 1] \in Seq(Octet) /\ Len(q[m + 1]) <= MaxLength
         /\ Len(EncodeFrame(q[m + 1])) \in 0..Len(s)
         /\ Agrees(in, EncodeFrame(q[m + 1]))
<1>1. Len(q) \in Nat /\ Len(in) \in Nat /\ Len(out) \in Nat
  BY LenProperties
<1>2. PICK n \in Nat : n = m + 1
  BY <1>1
<1>3. n \in 1..Len(q) /\ n \in m + 1..Len(q) /\ n \in m..Len(q)
      /\ n - 1 = m /\ Len(q) \in m..Len(q) /\ n <= Len(q)
  BY <1>1, <1>2
<1>4. q[n] \in Seq(Octet) /\ Len(q[n]) <= MaxLength
  BY <1>3, ElementOfSeq DEF Sendable
<1>5. PICK f : f = EncodeFrame(q[n])
  OBVIOUS
<1>6. f \in Seq(Octet) /\ Len(f) \in Nat
  BY <1>4, <1>5, EncodeFacts, LenProperties
<1>7. /\ s \in Seq(Octet) /\ b[m] = 0 /\ b[Len(q)] = Len(s)
      /\ b[n] = b[n - 1] + Len(f)
      /\ \A j \in 1..Len(f) : s[b[n - 1] + j] = f[j]
      /\ b[n] <= b[Len(q)]
  BY <1>3, <1>5 DEF Lined
<1>8. Len(s) \in Nat
  BY <1>7, LenProperties
<1>9. b[n] = Len(f) /\ \A j \in 1..Len(f) : s[0 + j] = f[j]
  <2>1. b[n - 1] = 0
    BY <1>3, <1>7
  <2>2. b[n] = 0 + Len(f) /\ \A j \in 1..Len(f) : s[0 + j] = f[j]
    BY <1>7, <2>1
  <2>. QED  BY <1>6, <2>2
<1>10. Len(f) \in 0..Len(s)
  BY <1>6, <1>7, <1>8, <1>9
<1>11. ASSUME NEW j \in 1..Len(in), j <= Len(f)
       PROVE  in[j] = f[j]
  <2>1. in[j] = s[j]
    BY DEF UnderWay
  <2>2. j \in 1..Len(f) /\ 0 + j = j
    BY <1>1, <1>6, <1>11
  <2>. QED  BY <1>9, <2>1, <2>2
<1>12. Agrees(in, f)
  BY <1>11 DEF Agrees
<1>. QED  BY <1>2, <1>4, <1>5, <1>10, <1>12

(* Without a frame there are no bytes.                                     *)
LEMMA LinedNone ==
  ASSUME NEW q \in Seq(Seq(Octet)), NEW s, NEW b, Lined(s, b, q, Len(q)),
         NEW in \in Seq(Octet), NEW out \in Seq(Octet), NEW c,
         UnderWay(s, in, out, c)
  PROVE  in = <<>>
<1>1. Len(s) = 0
  BY DEF Lined
<1>2. Len(in) \in Nat /\ Len(out) \in Nat
  BY LenProperties
<1>3. Len(in) = 0
  BY <1>1, <1>2 DEF UnderWay
<1>. QED  BY <1>3, EmptySeq

(* The frame in front is taken away.                                       *)
LEMMA LinedTail ==
  ASSUME NEW q \in Seq(Seq(Octet)), NEW m \in 0..Len(q) - 1, NEW s, NEW b,
         Lined(s, b, q, m), Sendable(q),
         NEW l \in 0..Len(s), l = Len(EncodeFrame(q[m + 1]))
  PROVE  \E c : Lined(SubSeq(s, l + 1, Len(s)), c, q, m + 1)
<1>1. PICK z \in Nat : z = Len(q)
  BY LenProperties
<1>2. PICK n \in Nat : n = m + 1
  BY <1>1
<1>3. /\ s \in Seq(Octet) /\ Len(s) \in Nat
      /\ b \in [m..z -> Nat] /\ b[m] = 0 /\ b[z] = Len(s)
      /\ \A i \in m + 1..z :
             /\ b[i] = b[i - 1] + Len(EncodeFrame(q[i]))
             /\ \A j \in 1..Len(EncodeFrame(q[i])) :
                    s[b[i - 1] + j] = EncodeFrame(q[i])[j]
      /\ \A i, k \in m..z : i <= k => b[i] <= b[k]
  BY <1>1, LenProperties DEF Lined
<1>4. l \in Nat
  BY <1>3
<1>5. n \in m + 1..z /\ n \in m..z /\ n - 1 = m /\ n \in n..z /\ z \in n..z
  BY <1>1, <1>2
<1>6. b[n] = l
  <2>1. b[n] = b[n - 1] + Len(EncodeFrame(q[n]))
    BY <1>3, <1>5
  <2>. QED  BY <1>2, <1>3, <1>4, <1>5, <2>1
<1>7. ASSUME NEW i \in n..z
      PROVE  i \in m..z /\ b[i] \in Nat /\ l <= b[i] /\ b[i] <= Len(s)
  <2>1. i \in m..z /\ z \in m..z /\ n <= i /\ i <= z
    BY <1>2, <1>5
  <2>2. b[n] <= b[i] /\ b[i] <= b[z] /\ b[i] \in Nat
    BY <1>3, <1>5, <2>1
  <2>. QED  BY <1>3, <1>6, <2>1, <2>2
<1>8. PICK t : t = SubSeq(s, l + 1, Len(s))
  OBVIOUS
<1>9. /\ t \in Seq(Octet) /\ Len(t) = Len(s) - l
      /\ \A i \in 1..Len(s) - l : t[i] = s[l + i]
  <2>1. s \in Seq(Octet)
    BY <1>3
  <2>. QED  BY <1>8, <2>1, Splits
<1>10. PICK c : c = [i \in n..z |-> b[i] - l]
  OBVIOUS
<1>11. c \in [n..z -> Nat] /\ \A i \in n..z : c[i] = b[i] - l
  <2>1. \A i \in n..z : b[i] - l \in Nat
    BY <1>4, <1>7
  <2>. QED  BY <1>10, <2>1
<1>12. c[n] = 0 /\ c[z] = Len(t)
  <2>1. c[n] = l - l /\ c[z] = Len(s) - l
    BY <1>3, <1>5, <1>6, <1>11
  <2>. QED  BY <1>4, <1>9, <2>1
<1>13. ASSUME NEW i \in n + 1..z
       PROVE  /\ c[i] = c[i - 1] + Len(EncodeFrame(q[i]))
              /\ \A j \in 1..Len(EncodeFrame(q[i])) :
                     t[c[i - 1] + j] = EncodeFrame(q[i])[j]
  <2>1. i \in m + 1..z /\ i \in n..z /\ i - 1 \in n..z /\ i \in 1..z
    BY <1>1, <1>2, <1>5
  <2>2. PICK f : f = EncodeFrame(q[i])
    OBVIOUS
  <2>3. Len(f) \in Nat
    <3>1. q[i] \in Seq(Octet) /\ Len(q[i]) <= MaxLength
      BY <1>1, <2>1, ElementOfSeq DEF Sendable
    <3>. QED  BY <2>2, <3>1, EncodeFacts, LenProperties
  <2>4. PICK d : d = b[i - 1]
    OBVIOUS
  <2>5. PICK e : e = b[i]
    OBVIOUS
  <2>6. /\ e = d + Len(f)
        /\ \A j \in 1..Len(f) : s[d + j] = f[j]
    BY <1>3, <2>1, <2>2, <2>4, <2>5
  <2>7. d \in Nat /\ l <= d /\ e \in Nat /\ e <= Len(s)
    BY <1>7, <2>1, <2>4, <2>5
  <2>8. c[i] = e - l /\ c[i - 1] = d - l
    BY <1>11, <2>1, <2>4, <2>5
  <2>9. e - l = (d - l) + Len(f)
    BY <1>4, <2>3, <2>6, <2>7
  <2>10. ASSUME NEW j \in 1..Len(f)
         PROVE  t[(d - l) + j] = f[j]
    <3>1. (d - l) + j \in 1..Len(s) - l /\ l + ((d - l) + j) = d + j
      <4>1. PICK x \in Nat : x = Len(s)
        BY <1>4
      <4>2. PICK y \in Nat : y = Len(f)
        BY <2>3
      <4>3. d + y <= x /\ l \in Nat /\ d \in Nat /\ l <= d /\ j \in 1..y
        BY <1>4, <2>6, <2>7, <4>1, <4>2
      <4>4. (d - l) + j \in 1..x - l /\ l + ((d - l) + j) = d + j
        BY <4>3
      <4>. QED  BY <4>1, <4>4
    <3>2. t[(d - l) + j] = s[l + ((d - l) + j)]
      BY <1>9, <3>1
    <3>. QED  BY <2>6, <3>1, <3>2
  <2>. QED  BY <2>2, <2>8, <2>9, <2>10
<1>14. ASSUME NEW i \in n..z, NEW k \in n..z, i <= k
       PROVE  c[i] <= c[k]
  <2>1. b[i] <= b[k] /\ b[i] \in Nat /\ b[k] \in Nat
    BY <1>3, <1>7, <1>14
  <2>2. PICK x \in Nat : x = b[i]
    BY <2>1
  <2>3. PICK y \in Nat : y = b[k]
    BY <2>1
  <2>4. c[i] = x - l /\ c[k] = y - l
    BY <1>11, <2>2, <2>3
  <2>5. x <= y /\ l \in Nat
    BY <1>4, <2>1, <2>2, <2>3
  <2>6. x - l <= y - l
    BY <2>5
  <2>. QED  BY <2>4, <2>6
<1>15. Lined(t, c, q, n)
  BY <1>1, <1>9, <1>11, <1>12, <1>13, <1>14 DEF Lined
<1>. QED  BY <1>2, <1>8, <1>15

-----------------------------------------------------------------------------
(* Bytes under way *)

LEMMA UnderWaySend ==
  ASSUME NEW s \in Seq(Octet), NEW in \in Seq(Octet), NEW out \in Seq(Octet),
         UnderWay(s, in, out, FALSE), NEW f \in Seq(Octet)
  PROVE  /\ UnderWay(s \o f, in, out \o f, FALSE)
         /\ out \o f \in Seq(Octet)
<1>1. /\ Len(s) \in Nat /\ Len(in) \in Nat /\ Len(out) \in Nat
      /\ Len(f) \in Nat
  BY LenProperties
<1>2. /\ Len(s) = Len(in) + Len(out)
      /\ \A j \in 1..Len(in) : in[j] = s[j]
      /\ \A j \in 1..Len(out) : out[j] = s[Len(in) + j]
  BY DEF UnderWay
<1>3. PICK t : t = s \o f
  OBVIOUS
<1>4. PICK o : o = out \o f
  OBVIOUS
<1>5. /\ Len(t) = Len(s) + Len(f)
      /\ \A j \in 1..Len(s) + Len(f) :
             t[j] = IF j <= Len(s) THEN s[j] ELSE f[j - Len(s)]
  BY <1>3, ConcatProperties
<1>6. /\ o \in Seq(Octet) /\ Len(o) = Len(out) + Len(f)
      /\ \A j \in 1..Len(out) + Len(f) :
             o[j] = IF j <= Len(out) THEN out[j] ELSE f[j - Len(out)]
  BY <1>4, ConcatProperties
<1>7. ASSUME NEW j \in 1..Len(in)
      PROVE  in[j] = t[j]
  <2>1. j \in 1..Len(s) + Len(f) /\ j <= Len(s)
    BY <1>1, <1>2
  <2>. QED  BY <1>2, <1>5, <2>1
<1>8. ASSUME NEW j \in 1..Len(o)
      PROVE  o[j] = t[Len(in) + j]
  <2>1. j \in 1..Len(out) + Len(f) /\ Len(in) + j \in 1..Len(s) + Len(f)
    BY <1>1, <1>2, <1>6
  <2>2. CASE j <= Len(out)
    <3>1. j \in 1..Len(out) /\ Len(in) + j <= Len(s)
      BY <1>1, <1>2, <2>1, <2>2
    <3>. QED  BY <1>2, <1>5, <1>6, <2>1, <2>2, <3>1
  <2>3. CASE ~(j <= Len(out))
    <3>1. ~(Len(in) + j <= Len(s)) /\ (Len(in) + j) - Len(s) = j - Len(out)
      BY <1>1, <1>2, <2>1, <2>3
    <3>. QED  BY <1>5, <1>6, <2>1, <2>3, <3>1
  <2>. QED  BY <2>2, <2>3
<1>9. Len(in) + Len(o) = Len(t) /\ Len(t) \in Nat
  BY <1>1, <1>2, <1>5, <1>6
<1>10. UnderWay(t, in, o, FALSE)
  BY <1>7, <1>8, <1>9 DEF UnderWay
<1>. QED  BY <1>3, <1>4, <1>6, <1>10

LEMMA UnderWayArrive ==
  ASSUME NEW s, Len(s) \in Nat, NEW in \in Seq(Octet), NEW out \in Seq(Octet),
         NEW c, UnderWay(s, in, out, c), NEW k \in 1..Len(out)
  PROVE  UnderWay(s, in \o SubSeq(out, 1, k), SubSeq(out, k + 1, Len(out)), c)
<1>1. Len(in) \in Nat /\ Len(out) \in Nat /\ k \in 0..Len(out) /\ k \in Nat
  BY LenProperties
<1>2. /\ Len(in) + Len(out) <= Len(s)
      /\ \A j \in 1..Len(in) : in[j] = s[j]
      /\ \A j \in 1..Len(out) : out[j] = s[Len(in) + j]
      /\ ~c => Len(in) + Len(out) = Len(s)
  BY DEF UnderWay
<1>3. PICK p : p = SubSeq(out, 1, k)
  OBVIOUS
<1>4. PICK r : r = SubSeq(out, k + 1, Len(out))
  OBVIOUS
<1>5. /\ p \in Seq(Octet) /\ Len(p) = k /\ \A i \in 1..k : p[i] = out[i]
      /\ Len(r) = Len(out) - k
      /\ \A i \in 1..Len(out) - k : r[i] = out[k + i]
  BY <1>1, <1>3, <1>4, Splits
<1>6. PICK a : a = in \o p
  OBVIOUS
<1>7. /\ Len(a) = Len(in) + Len(p)
      /\ \A j \in 1..Len(in) + Len(p) :
             a[j] = IF j <= Len(in) THEN in[j] ELSE p[j - Len(in)]
  <2>1. p \in Seq(Octet)
    BY <1>5
  <2>. QED  BY <1>6, <2>1, ConcatProperties
<1>8. ASSUME NEW j \in 1..Len(a)
      PROVE  a[j] = s[j]
  <2>1. j \in 1..Len(in) + Len(p)
    BY <1>7
  <2>2. CASE j <= Len(in)
    <3>1. j \in 1..Len(in)
      BY <1>1, <2>1, <2>2
    <3>. QED  BY <1>2, <1>7, <2>1, <2>2, <3>1
  <2>3. CASE ~(j <= Len(in))
    <3>1. PICK i \in Int : i = j - Len(in)
      <4>1. j - Len(in) \in Int
        BY <1>1, <1>5, <2>1
      <4>. QED  BY <4>1
    <3>2. i \in 1..k /\ i \in 1..Len(out) /\ Len(in) + i = j
      BY <1>1, <1>5, <2>1, <2>3, <3>1
    <3>3. a[j] = p[i] /\ p[i] = out[i] /\ out[i] = s[Len(in) + i]
      BY <1>2, <1>5, <1>7, <2>1, <2>3, <3>1, <3>2
    <3>. QED  BY <3>2, <3>3
  <2>. QED  BY <2>2, <2>3
<1>9. ASSUME NEW j \in 1..Len(r)
      PROVE  r[j] = s[Len(a) + j]
  <2>1. /\ j \in 1..Len(out) - k /\ k + j \in 1..Len(out)
        /\ Len(in) + (k + j) = Len(a) + j
    BY <1>1, <1>5, <1>7
  <2>. QED  BY <1>2, <1>5, <2>1
<1>10. Len(a) + Len(r) = Len(in) + Len(out)
  BY <1>1, <1>5, <1>7
<1>11. UnderWay(s, a, r, c)
  BY <1>2, <1>8, <1>9, <1>10 DEF UnderWay
<1>. QED  BY <1>3, <1>4, <1>6, <1>11

LEMMA UnderWayTake ==
  ASSUME NEW s \in Seq(Octet), NEW in \in Seq(Octet), NEW out \in Seq(Octet),
         NEW c, UnderWay(s, in, out, c), NEW l \in 0..Len(in)
  PROVE  /\ l \in 0..Len(s)
         /\ UnderWay(SubSeq(s, l + 1, Len(s)), SubSeq(in, l + 1, Len(in)),
                     out, c)
<1>1. Len(s) \in Nat /\ Len(in) \in Nat /\ Len(out) \in Nat /\ l \in Nat
  BY LenProperties
<1>2. /\ Len(in) + Len(out) <= Len(s)
      /\ \A j \in 1..Len(in) : in[j] = s[j]
      /\ \A j \in 1..Len(out) : out[j] = s[Len(in) + j]
      /\ ~c => Len(in) + Len(out) = Len(s)
  BY DEF UnderWay
<1>3. l \in 0..Len(s)
  BY <1>1, <1>2
<1>4. PICK t : t = SubSeq(s, l + 1, Len(s))
  OBVIOUS
<1>5. PICK a : a = SubSeq(in, l + 1, Len(in))
  OBVIOUS
<1>6. /\ Len(t) = Len(s) - l
      /\ \A i \in 1..Len(s) - l : t[i] = s[l + i]
  BY <1>3, <1>4, Splits
<1>7. /\ Len(a) = Len(in) - l
      /\ \A i \in 1..Len(in) - l : a[i] = in[l + i]
  BY <1>5, Splits
<1>8. ASSUME NEW j \in 1..Len(a)
      PROVE  a[j] = t[j]
  <2>1. /\ j \in 1..Len(in) - l /\ j \in 1..Len(s) - l
        /\ l + j \in 1..Len(in)
    BY <1>1, <1>2, <1>7
  <2>. QED  BY <1>2, <1>6, <1>7, <2>1
<1>9. ASSUME NEW j \in 1..Len(out)
      PROVE  out[j] = t[Len(a) + j]
  <2>1. /\ Len(a) + j \in 1..Len(s) - l
        /\ l + (Len(a) + j) = Len(in) + j
    BY <1>1, <1>2, <1>7
  <2>. QED  BY <1>2, <1>6, <2>1
<1>10. /\ Len(a) + Len(out) <= Len(t)
       /\ ~c => Len(a) + Len(out) = Len(t)
  BY <1>1, <1>2, <1>6, <1>7
<1>11. UnderWay(t, a, out, c)
  BY <1>8, <1>9, <1>10 DEF UnderWay
<1>. QED  BY <1>3, <1>4, <1>5, <1>11

LEMMA UnderWayCut ==
  ASSUME NEW s, Len(s) \in Nat, NEW in \in Seq(Octet), NEW out \in Seq(Octet),
         NEW c, UnderWay(s, in, out, c)
  PROVE  UnderWay(s, in, <<>>, TRUE)
<1>1. Len(in) \in Nat /\ Len(out) \in Nat /\ Len(<<>>) = 0
  BY LenProperties
<1>2. Len(in) + Len(<<>>) <= Len(s)
  BY <1>1 DEF UnderWay
<1>3. \A j \in 1..Len(<<>>) : <<>>[j] = s[Len(in) + j]
  BY <1>1
<1>. QED  BY <1>2, <1>3 DEF UnderWay

-----------------------------------------------------------------------------
(* The invariant *)

(* The receiver has the first payloads, and the bytes between it and the   *)
(* sender are the frames of the others.                                    *)
OnTrack ==
    /\ Len(taken) <= Len(put)
    /\ \A i \in 1..Len(taken) : taken[i] = put[i]
    /\ \E s, b : /\ Lined(s, b, put, Len(taken))
                 /\ UnderWay(s, arrived, flight, cut)

(* It has taken a payload of 127 bytes for something else; from there on   *)
(* anything may come out.                                                  *)
Derailed ==
    \E k \in 1..Len(put) : /\ Len(put[k]) = 127 /\ k <= Len(taken)
                           /\ \A i \in 1..k - 1 : taken[i] = put[i]

FramesInv == /\ FramesTypeOK /\ Sendable(put) /\ FailureHasACause
             /\ OnTrack \/ Derailed

LEMMA FramesTypeFacts ==
  ASSUME FramesTypeOK
  PROVE  /\ put \in Seq(Seq(Octet)) /\ taken \in Seq(Seq(Octet))
         /\ Len(put) \in Nat /\ Len(taken) \in Nat
         /\ arrived \in Seq(Octet) /\ flight \in Seq(Octet)
<1>1. put \in Seq(Payloads) /\ Payloads \subseteq Seq(Octet)
  BY FramesAssumption DEF FramesTypeOK
<1>2. put \in Seq(Seq(Octet))
  BY <1>1, SeqMonotonic
<1>3. /\ taken \in Seq(Seq(Octet))
      /\ arrived \in Seq(Octet) /\ flight \in Seq(Octet)
  BY DEF FramesTypeOK
<1>. QED  BY <1>2, <1>3, LenProperties

LEMMA InitInv == FramesInit => FramesInv
<1>. SUFFICES ASSUME FramesInit PROVE FramesInv
  OBVIOUS
<1>1. /\ put = <<>> /\ taken = <<>> /\ flight = <<>> /\ arrived = <<>>
      /\ cut = FALSE /\ gave_up = FALSE /\ pieces = 0
  BY DEF FramesInit
<1>2. FramesTypeOK
  BY <1>1, EmptySeq DEF FramesTypeOK
<1>3. Len(put) = 0 /\ Len(taken) = 0 /\ Len(<<>>) = 0
  BY <1>1
<1>4. Sendable(put) /\ FailureHasACause
  BY <1>1, <1>3 DEF Sendable, FailureHasACause
<1>5. OnTrack
  <2>1. PICK b : b = [i \in 0..0 |-> 0]
    OBVIOUS
  <2>2. b \in [0..0 -> Nat] /\ b[0] = 0 /\ \A i \in 0..0 : b[i] = 0
    BY <2>1
  <2>3. <<>> \in Seq(Octet)
    BY EmptySeq
  <2>4. Lined(<<>>, b, put, 0)
    BY <1>3, <2>2, <2>3 DEF Lined
  <2>5. UnderWay(<<>>, arrived, flight, cut)
    BY <1>1, <1>3 DEF UnderWay
  <2>6. Lined(<<>>, b, put, Len(taken))
    BY <1>3, <2>4
  <2>7. Len(taken) <= Len(put) /\ \A i \in 1..Len(taken) : taken[i] = put[i]
    BY <1>3
  <2>. QED  BY <2>5, <2>6, <2>7 DEF OnTrack
<1>. QED  BY <1>2, <1>4, <1>5 DEF FramesInv

LEMMA SendInv ==
  ASSUME FramesInv, NEW p \in Payloads, SendFrame(p)
  PROVE  FramesInv'
<1>1. /\ FramesTypeOK /\ Sendable(put) /\ FailureHasACause
      /\ OnTrack \/ Derailed
  BY DEF FramesInv
<1>2. /\ cut = FALSE /\ Len(p) <= MaxLength
      /\ put' = Append(put, p) /\ flight' = flight \o EncodeFrame(p)
      /\ pieces' = 0 /\ arrived' = arrived /\ taken' = taken
      /\ cut' = cut /\ gave_up' = gave_up
  BY <1>1 DEF SendFrame, FramesTypeOK
<1>3. /\ put \in Seq(Seq(Octet)) /\ taken \in Seq(Seq(Octet))
      /\ Len(put) \in Nat /\ Len(taken) \in Nat
      /\ arrived \in Seq(Octet) /\ flight \in Seq(Octet)
  BY <1>1, FramesTypeFacts
<1>4. p \in Seq(Octet)
  BY FramesAssumption
<1>5. PICK f : f = EncodeFrame(p)
  OBVIOUS
<1>6. f \in Seq(Octet)
  BY <1>2, <1>4, <1>5, EncodeFacts
<1>7. PICK q : q = put'
  OBVIOUS
<1>8. /\ q = Append(put, p) /\ Len(q) = Len(put) + 1
      /\ \A i \in 1..Len(put) : q[i] = put[i]
      /\ q[Len(put) + 1] = p
      /\ q \in Seq(Payloads)
  <2>1. put \in Seq(Payloads)
    BY <1>1 DEF FramesTypeOK
  <2>. QED  BY <1>2, <1>7, <2>1, AppendProperties
<1>9. FramesTypeOK'
  <2>1. flight \o f \in Seq(Octet)
    BY <1>3, <1>6, ConcatProperties
  <2>. QED  BY <1>1, <1>2, <1>5, <1>7, <1>8, <2>1 DEF FramesTypeOK
<1>10. Sendable(q)
  <2>1. \A i \in 1..Len(q) : i \in 1..Len(put) \/ i = Len(put) + 1
    BY <1>3, <1>8
  <2>. QED  BY <1>1, <1>2, <1>8, <2>1 DEF Sendable
<1>11. FailureHasACause'
  <2>1. \A i \in 1..Len(put) : i \in 1..Len(q)
    BY <1>3, <1>8
  <2>. QED  BY <1>1, <1>2, <1>7, <1>8, <2>1 DEF FailureHasACause
<1>12. ASSUME OnTrack
       PROVE  OnTrack'
  <2>1. PICK s, b : /\ Lined(s, b, put, Len(taken))
                    /\ UnderWay(s, arrived, flight, cut)
    BY <1>12 DEF OnTrack
  <2>2. Len(taken) <= Len(put) /\ \A i \in 1..Len(taken) : taken[i] = put[i]
    BY <1>12 DEF OnTrack
  <2>3. PICK m \in 0..Len(put) : m = Len(taken)
    BY <1>3, <2>2
  <2>4. \E c : Lined(s \o f, c, q, m)
    <3>1. Lined(s, b, put, m)
      BY <2>1, <2>3
    <3>2. \E c : Lined(s \o EncodeFrame(p), c, Append(put, p), m)
      BY <1>1, <1>2, <1>3, <1>4, <3>1, LinedAppend
    <3>. QED  BY <1>5, <1>8, <3>2
  <2>5. UnderWay(s \o f, arrived, flight \o f, FALSE)
    <3>1. s \in Seq(Octet)
      BY <2>1 DEF Lined
    <3>2. UnderWay(s, arrived, flight, FALSE)
      BY <1>2, <2>1
    <3>. QED  BY <1>3, <1>6, <3>1, <3>2, UnderWaySend
  <2>6. UnderWay(s \o f, arrived', flight', cut')
    BY <1>2, <1>5, <2>5
  <2>7. Len(taken) <= Len(q) /\ \A i \in 1..Len(taken) : taken[i] = q[i]
    <3>1. \A i \in 1..Len(taken) : i \in 1..Len(put)
      BY <1>3, <2>2
    <3>. QED  BY <1>3, <1>8, <2>2, <3>1
  <2>8. \E t, c : /\ Lined(t, c, q, Len(taken))
                  /\ UnderWay(t, arrived', flight', cut')
    BY <2>3, <2>4, <2>6
  <2>9. \E t, c : /\ Lined(t, c, put', Len(taken'))
                  /\ UnderWay(t, arrived', flight', cut')
    BY <1>2, <1>7, <2>8
  <2>10. /\ Len(taken') <= Len(put')
         /\ \A i \in 1..Len(taken') : taken'[i] = put'[i]
    BY <1>2, <1>7, <2>7
  <2>. QED  BY <2>9, <2>10 DEF OnTrack
<1>13. ASSUME Derailed
       PROVE  Derailed'
  <2>1. PICK k \in 1..Len(put) : /\ Len(put[k]) = 127 /\ k <= Len(taken)
                                 /\ \A i \in 1..k - 1 : taken[i] = put[i]
    BY <1>13 DEF Derailed
  <2>2. k \in 1..Len(q) /\ \A i \in 1..k - 1 : i \in 1..Len(put)
    BY <1>3, <1>8
  <2>3. Len(q[k]) = 127 /\ \A i \in 1..k - 1 : taken[i] = q[i]
    BY <1>8, <2>1, <2>2
  <2>4. /\ k \in 1..Len(put') /\ Len(put'[k]) = 127 /\ k <= Len(taken')
        /\ \A i \in 1..k - 1 : taken'[i] = put'[i]
    BY <1>2, <1>7, <2>1, <2>2, <2>3
  <2>. QED  BY <2>4 DEF Derailed
<1>14. OnTrack' \/ Derailed' => FramesInv'
  BY <1>7, <1>9, <1>10, <1>11 DEF FramesInv
<1>15. (OnTrack => OnTrack') /\ (Derailed => Derailed')
  BY <1>12, <1>13
<1>. QED  BY <1>1, <1>14, <1>15

LEMMA ArriveInv ==
  ASSUME FramesInv, BytesArrive
  PROVE  FramesInv'
<1>1. /\ FramesTypeOK /\ Sendable(put) /\ FailureHasACause
      /\ OnTrack \/ Derailed
  BY DEF FramesInv
<1>2. /\ put \in Seq(Seq(Octet)) /\ taken \in Seq(Seq(Octet))
      /\ Len(put) \in Nat /\ Len(taken) \in Nat
      /\ arrived \in Seq(Octet) /\ flight \in Seq(Octet)
  BY <1>1, FramesTypeFacts
<1>3. PICK k \in 1..Len(flight) :
          /\ arrived' = arrived \o SubSeq(flight, 1, k)
          /\ flight' = SubSeq(flight, k + 1, Len(flight))
  BY DEF BytesArrive
<1>4. /\ put' = put /\ taken' = taken /\ cut' = cut /\ gave_up' = gave_up
      /\ pieces' = pieces + 1
  BY DEF BytesArrive
<1>5. FramesTypeOK'
  <2>1. k \in 0..Len(flight)
    OBVIOUS
  <2>2. SubSeq(flight, 1, k) \in Seq(Octet) /\ flight' \in Seq(Octet)
    BY <1>2, <1>3, <2>1, Splits
  <2>3. arrived' \in Seq(Octet)
    BY <1>2, <1>3, <2>2, ConcatProperties
  <2>4. pieces' \in Nat
    BY <1>1, <1>4 DEF FramesTypeOK
  <2>. QED  BY <1>1, <1>4, <2>2, <2>3, <2>4 DEF FramesTypeOK
<1>6. ASSUME OnTrack
      PROVE  OnTrack'
  <2>1. PICK s, b : /\ Lined(s, b, put, Len(taken))
                    /\ UnderWay(s, arrived, flight, cut)
    BY <1>6 DEF OnTrack
  <2>2. Len(s) \in Nat
    BY <2>1, LenProperties DEF Lined
  <2>3. UnderWay(s, arrived', flight', cut')
    BY <1>2, <1>3, <1>4, <2>1, <2>2, UnderWayArrive
  <2>4. /\ Lined(s, b, put', Len(taken')) /\ Len(taken') <= Len(put')
        /\ \A i \in 1..Len(taken') : taken'[i] = put'[i]
    BY <1>4, <1>6, <2>1 DEF OnTrack
  <2>. QED  BY <2>3, <2>4 DEF OnTrack
<1>7. Derailed => Derailed'
  BY <1>4 DEF Derailed
<1>8. Sendable(put') /\ FailureHasACause'
  BY <1>1, <1>4 DEF FailureHasACause
<1>. QED  BY <1>1, <1>5, <1>6, <1>7, <1>8 DEF FramesInv

(* What is taken is the next payload, unless that has 127 bytes.           *)
LEMMA TakeNext ==
  ASSUME FramesTypeOK, Sendable(put), OnTrack, ~NoFrame(arrived),
         NEW f \in DecodeFrame(arrived)
  PROVE  /\ Len(taken) < Len(put)
         /\ Len(put[Len(taken) + 1]) # 127 =>
                /\ f.value = put[Len(taken) + 1]
                /\ \E s, b : /\ Lined(s, b, put, Len(taken) + 1)
                             /\ UnderWay(s, f.rest, flight, cut)
<1>1. /\ put \in Seq(Seq(Octet)) /\ taken \in Seq(Seq(Octet))
      /\ Len(put) \in Nat /\ Len(taken) \in Nat
      /\ arrived \in Seq(Octet) /\ flight \in Seq(Octet)
  BY FramesTypeFacts
<1>2. PICK s, b : /\ Lined(s, b, put, Len(taken))
                  /\ UnderWay(s, arrived, flight, cut)
  BY DEF OnTrack
<1>3. PICK m \in Nat : m = Len(taken)
  BY <1>1
<1>4. Len(taken) # Len(put)
  <2>1. Len(taken) = Len(put) => arrived = <<>>
    BY <1>1, <1>2, LinedNone
  <2>. QED  BY <2>1, NoBytes
<1>5. Len(taken) < Len(put) /\ m \in 0..Len(put) - 1
  BY <1>1, <1>3, <1>4 DEF OnTrack
<1>6. ASSUME Len(put[m + 1]) # 127
      PROVE  /\ f.value = put[m + 1]
             /\ \E t, c : /\ Lined(t, c, put, m + 1)
                          /\ UnderWay(t, f.rest, flight, cut)
  <2>1. PICK p : p = put[m + 1]
    OBVIOUS
  <2>2. PICK l : l = Len(EncodeFrame(p))
    OBVIOUS
  <2>3. s \in Seq(Octet) /\ Lined(s, b, put, m)
    BY <1>2, <1>3 DEF Lined
  <2>4. /\ p \in Seq(Octet) /\ Len(p) <= MaxLength /\ l \in 0..Len(s)
        /\ Agrees(arrived, EncodeFrame(p))
    BY <1>1, <1>2, <1>5, <2>1, <2>2, <2>3, LinedFirst
  <2>5. DecodeFrame(arrived) =
            IF l > Len(arrived) THEN {}
            ELSE {Is(p, SubSeq(arrived, l + 1, Len(arrived)))}
    BY <1>1, <1>6, <2>1, <2>2, <2>4, FrameRoundTrip
  <2>6. ~(l > Len(arrived)) /\ f = Is(p, SubSeq(arrived, l + 1, Len(arrived)))
    BY <2>5
  <2>7. f.value = p /\ f.rest = SubSeq(arrived, l + 1, Len(arrived))
    BY <2>6 DEF Is
  <2>8. l \in 0..Len(arrived)
    <3>1. Len(arrived) \in Nat /\ Len(s) \in Nat
      BY <1>1, <2>3, LenProperties
    <3>. QED  BY <2>4, <2>6, <3>1
  <2>9. PICK t : t = SubSeq(s, l + 1, Len(s))
    OBVIOUS
  <2>10. UnderWay(t, f.rest, flight, cut)
    BY <1>1, <1>2, <2>3, <2>7, <2>8, <2>9, UnderWayTake
  <2>11. \E c : Lined(t, c, put, m + 1)
    BY <1>1, <1>5, <2>1, <2>2, <2>3, <2>4, <2>9, LinedTail
  <2>. QED  BY <2>1, <2>7, <2>10, <2>11
<1>. QED  BY <1>3, <1>5, <1>6

LEMMA TakeFrameInv ==
  ASSUME FramesInv, TakeFrame(DecodeFrame(arrived))
  PROVE  FramesInv'
<1>1. /\ FramesTypeOK /\ Sendable(put) /\ FailureHasACause
      /\ OnTrack \/ Derailed
  BY DEF FramesInv
<1>2. /\ put \in Seq(Seq(Octet)) /\ taken \in Seq(Seq(Octet))
      /\ Len(put) \in Nat /\ Len(taken) \in Nat
      /\ arrived \in Seq(Octet) /\ flight \in Seq(Octet)
  BY <1>1, FramesTypeFacts
<1>3. PICK f \in DecodeFrame(arrived) :
          taken' = Append(taken, f.value) /\ arrived' = f.rest
  BY DEF TakeFrame
<1>4. /\ ~NoFrame(arrived)
      /\ put' = put /\ flight' = flight /\ cut' = cut /\ gave_up' = gave_up
      /\ pieces' = pieces
  BY DEF TakeFrame
<1>5. f.value \in Seq(Octet) /\ f.rest \in Seq(Octet)
  BY <1>2, <1>4, DecodeType
<1>6. PICK t : t = taken'
  OBVIOUS
<1>7. /\ t \in Seq(Seq(Octet)) /\ Len(t) = Len(taken) + 1
      /\ \A i \in 1..Len(taken) : t[i] = taken[i]
      /\ t[Len(taken) + 1] = f.value
  BY <1>2, <1>3, <1>5, <1>6, AppendProperties
<1>8. FramesTypeOK'
  BY <1>1, <1>3, <1>4, <1>5, <1>6, <1>7 DEF FramesTypeOK
<1>9. Sendable(put') /\ FailureHasACause'
  BY <1>1, <1>4 DEF FailureHasACause
<1>10. ASSUME Derailed
       PROVE  Derailed'
  <2>1. PICK k \in 1..Len(put) : /\ Len(put[k]) = 127 /\ k <= Len(taken)
                                 /\ \A i \in 1..k - 1 : taken[i] = put[i]
    BY <1>10 DEF Derailed
  <2>2. k <= Len(t) /\ \A i \in 1..k - 1 : i \in 1..Len(taken)
    BY <1>2, <1>7, <2>1
  <2>3. /\ k \in 1..Len(put') /\ Len(put'[k]) = 127 /\ k <= Len(taken')
        /\ \A i \in 1..k - 1 : taken'[i] = put'[i]
    BY <1>4, <1>6, <1>7, <2>1, <2>2
  <2>. QED  BY <2>3 DEF Derailed
<1>11. ASSUME OnTrack
       PROVE  OnTrack' \/ Derailed'
  <2>1. Len(taken) <= Len(put) /\ \A i \in 1..Len(taken) : taken[i] = put[i]
    BY <1>11 DEF OnTrack
  <2>2. PICK n \in Nat : n = Len(taken) + 1
    BY <1>2
  <2>3. /\ n \in 1..Len(put)
        /\ Len(put[n]) # 127 =>
               /\ f.value = put[n]
               /\ \E s, b : /\ Lined(s, b, put, n)
                            /\ UnderWay(s, f.rest, flight, cut)
    <3>1. /\ Len(taken) < Len(put)
          /\ Len(put[Len(taken) + 1]) # 127 =>
                 /\ f.value = put[Len(taken) + 1]
                 /\ \E s, b : /\ Lined(s, b, put, Len(taken) + 1)
                              /\ UnderWay(s, f.rest, flight, cut)
      BY <1>1, <1>4, <1>11, TakeNext
    <3>2. n \in 1..Len(put)
      BY <1>2, <2>2, <3>1
    <3>. QED  BY <2>2, <3>1, <3>2
  <2>4. Len(t) = n /\ \A i \in 1..n - 1 : t[i] = put[i]
    <3>1. \A i \in 1..n - 1 : i \in 1..Len(taken)
      BY <1>2, <2>2
    <3>. QED  BY <1>7, <2>1, <2>2, <3>1
  <2>5. CASE Len(put[n]) = 127
    <3>1. /\ n \in 1..Len(put') /\ Len(put'[n]) = 127 /\ n <= Len(taken')
          /\ \A i \in 1..n - 1 : taken'[i] = put'[i]
      BY <1>4, <1>6, <2>2, <2>3, <2>4, <2>5
    <3>. QED  BY <3>1 DEF Derailed
  <2>6. CASE Len(put[n]) # 127
    <3>1. t[n] = put[n]
      BY <1>7, <2>2, <2>3, <2>6
    <3>2. \A i \in 1..n : i \in 1..n - 1 \/ i = n
      OBVIOUS
    <3>3. n <= Len(put) /\ \A i \in 1..Len(t) : t[i] = put[i]
      BY <1>2, <2>3, <2>4, <3>1, <3>2
    <3>4. \E s, b : Lined(s, b, put, Len(t)) /\ UnderWay(s, f.rest, flight, cut)
      BY <2>3, <2>4, <2>6
    <3>5. \E s, b : /\ Lined(s, b, put', Len(taken'))
                    /\ UnderWay(s, arrived', flight', cut')
      BY <1>3, <1>4, <1>6, <3>4
    <3>6. /\ Len(taken') <= Len(put')
          /\ \A i \in 1..Len(taken') : taken'[i] = put'[i]
      BY <1>4, <1>6, <2>4, <3>3
    <3>. QED  BY <3>5, <3>6 DEF OnTrack
  <2>. QED  BY <2>5, <2>6
<1>. QED  BY <1>1, <1>8, <1>9, <1>10, <1>11 DEF FramesInv

(* The two receivers take the same frames.                                 *)
LEMMA TakeEither ==
  ASSUME arrived \in Seq(Octet), TakeFromStream \/ TakeFromSlice
  PROVE  TakeFrame(DecodeFrame(arrived))
<1>1. CASE TakeFromStream
  BY <1>1 DEF TakeFromStream
<1>2. CASE TakeFromSlice
  <2>1. TakeFrame(DecodeFromSlice(arrived)) /\ ~NoFrame(arrived)
    BY <1>2 DEF TakeFromSlice, TakeFrame
  <2>2. DecodeFromSlice(arrived) = DecodeFrame(arrived)
    BY <2>1, SliceAsStream
  <2>. QED  BY <2>1, <2>2
<1>. QED  BY <1>1, <1>2

(* No frame begins where a receiver on track is, only if the next payload  *)
(* is too large, or has 127 bytes.                                         *)
LEMMA BlockedHasACause ==
  ASSUME FramesTypeOK, Sendable(put), OnTrack, NoFrame(arrived)
  PROVE  \E i \in 1..Len(put) : \/ Len(put[i]) = 127
                                \/ Len(put[i]) > MAX_FRAME_SIZE
<1>1. /\ put \in Seq(Seq(Octet)) /\ Len(put) \in Nat /\ Len(taken) \in Nat
      /\ arrived \in Seq(Octet) /\ flight \in Seq(Octet)
  BY FramesTypeFacts
<1>2. PICK s, b : /\ Lined(s, b, put, Len(taken))
                  /\ UnderWay(s, arrived, flight, cut)
  BY DEF OnTrack
<1>3. PICK m \in Nat : m = Len(taken)
  BY <1>1
<1>4. Len(taken) # Len(put)
  <2>1. Len(taken) = Len(put) => arrived = <<>>
    BY <1>1, <1>2, LinedNone
  <2>. QED  BY <2>1, NoBytes
<1>5. m \in 0..Len(put) - 1 /\ m + 1 \in 1..Len(put)
  BY <1>1, <1>3, <1>4 DEF OnTrack
<1>6. PICK p : p = put[m + 1]
  OBVIOUS
<1>7. /\ p \in Seq(Octet) /\ Len(p) <= MaxLength
      /\ Agrees(arrived, EncodeFrame(p))
  <2>1. Lined(s, b, put, m)
    BY <1>2, <1>3
  <2>. QED  BY <1>1, <1>2, <1>5, <1>6, <2>1, LinedFirst
<1>8. Len(p) # 127 => Len(p) > MAX_FRAME_SIZE
  BY <1>1, <1>7, FrameRoundTrip
<1>. QED  BY <1>5, <1>6, <1>8

LEMMA FailsInv ==
  ASSUME FramesInv, TakeFails
  PROVE  FramesInv'
<1>1. /\ FramesTypeOK /\ Sendable(put) /\ FailureHasACause
      /\ OnTrack \/ Derailed
  BY DEF FramesInv
<1>2. /\ NoFrame(arrived) \/ cut
      /\ put' = put /\ flight' = flight /\ arrived' = arrived
      /\ taken' = taken /\ cut' = cut /\ pieces' = pieces
      /\ gave_up' = TRUE
  BY DEF TakeFails
<1>3. FramesTypeOK'
  BY <1>1, <1>2 DEF FramesTypeOK
<1>4. Sendable(put')
  BY <1>1, <1>2
<1>5. \/ cut
      \/ \E i \in 1..Len(put) : \/ Len(put[i]) = 127
                                \/ Len(put[i]) > MAX_FRAME_SIZE
  <2>1. CASE cut
    BY <2>1
  <2>2. CASE NoFrame(arrived) /\ OnTrack
    BY <1>1, <2>2, BlockedHasACause
  <2>3. CASE Derailed
    BY <2>3 DEF Derailed
  <2>. QED  BY <1>1, <1>2, <2>1, <2>2, <2>3
<1>6. FailureHasACause'
  BY <1>2, <1>5 DEF FailureHasACause
<1>7. (OnTrack => OnTrack') /\ (Derailed => Derailed')
  BY <1>2 DEF OnTrack, Derailed
<1>. QED  BY <1>1, <1>3, <1>4, <1>6, <1>7 DEF FramesInv

LEMMA CutInv ==
  ASSUME FramesInv, CutStream
  PROVE  FramesInv'
<1>1. /\ FramesTypeOK /\ Sendable(put) /\ FailureHasACause
      /\ OnTrack \/ Derailed
  BY DEF FramesInv
<1>2. /\ put' = put /\ flight' = <<>> /\ arrived' = arrived
      /\ taken' = taken /\ cut' = TRUE /\ pieces' = pieces
      /\ gave_up' = gave_up
  BY DEF CutStream
<1>3. /\ arrived \in Seq(Octet) /\ flight \in Seq(Octet)
  BY <1>1, FramesTypeFacts
<1>4. FramesTypeOK'
  BY <1>1, <1>2, EmptySeq DEF FramesTypeOK
<1>5. Sendable(put') /\ FailureHasACause'
  BY <1>1, <1>2 DEF FailureHasACause
<1>6. ASSUME OnTrack
      PROVE  OnTrack'
  <2>1. PICK s, b : /\ Lined(s, b, put, Len(taken))
                    /\ UnderWay(s, arrived, flight, cut)
    BY <1>6 DEF OnTrack
  <2>2. Len(s) \in Nat
    BY <2>1, LenProperties DEF Lined
  <2>3. UnderWay(s, arrived, <<>>, TRUE)
    BY <1>3, <2>1, <2>2, UnderWayCut
  <2>4. /\ Lined(s, b, put', Len(taken')) /\ Len(taken') <= Len(put')
        /\ \A i \in 1..Len(taken') : taken'[i] = put'[i]
    BY <1>2, <1>6, <2>1 DEF OnTrack
  <2>5. UnderWay(s, arrived', flight', cut')
    BY <1>2, <2>3
  <2>. QED  BY <2>4, <2>5 DEF OnTrack
<1>7. Derailed => Derailed'
  BY <1>2 DEF Derailed
<1>. QED  BY <1>1, <1>4, <1>5, <1>6, <1>7 DEF FramesInv

LEMMA NextInv == FramesInv /\ [FramesNext]_framesVars => FramesInv'
<1>. SUFFICES ASSUME FramesInv, [FramesNext]_framesVars
              PROVE  FramesInv'
  OBVIOUS
<1>1. ASSUME NEW p \in Payloads, SendFrame(p)
      PROVE  FramesInv'
  BY <1>1, SendInv
<1>2. CASE BytesArrive
  BY <1>2, ArriveInv
<1>3. CASE TakeFromStream \/ TakeFromSlice
  <2>1. arrived \in Seq(Octet)
    BY FramesTypeFacts DEF FramesInv
  <2>. QED  BY <1>3, <2>1, TakeEither, TakeFrameInv
<1>4. CASE TakeFails
  BY <1>4, FailsInv
<1>5. CASE CutStream
  BY <1>5, CutInv
<1>6. CASE UNCHANGED framesVars
  BY <1>6 DEF framesVars, FramesInv, FramesTypeOK, FailureHasACause,
              OnTrack, Derailed
<1>. QED  BY <1>1, <1>2, <1>3, <1>4, <1>5, <1>6 DEF FramesNext

LEMMA FramesInvariant == FramesSpec => []FramesInv
<1>. QED  BY InitInv, NextInv, PTL DEF FramesSpec
-----------------------------------------------------------------------------
(* The theorems *)

(* The types, for any payloads: whatever bytes arrive, what comes out are  *)
(* payloads of bytes (abridged.rs:28-97).                                  *)
THEOREM FramesTyped == FramesSpec => []FramesTypeOK
<1>1. FramesInv => FramesTypeOK
  BY DEF FramesInv
<1>. QED  BY <1>1, FramesInvariant, PTL

(* However the bytes are cut into pieces, and wherever the stream ends,    *)
(* what recv returns is what send was given, in order and once, up to the  *)
(* first payload of 127 bytes (abridged.rs, tcp.rs:16-26, mock.rs:45-48).  *)
THEOREM FramesInOrder == FramesSpec => []OutAsPut
<1>1. ASSUME FramesInv
      PROVE  OutAsPut
  <2>1. Len(put) \in Nat /\ Len(taken) \in Nat
    BY <1>1, FramesTypeFacts DEF FramesInv
  <2>2. SUFFICES ASSUME NEW n \in 1..Len(taken),
                        \A k \in 1..n : k \in 1..Len(put) => Len(put[k]) # 127
                 PROVE  n <= Len(put) /\ taken[n] = put[n]
    BY DEF OutAsPut
  <2>3. CASE OnTrack
    BY <2>1, <2>3 DEF OnTrack
  <2>4. CASE Derailed
    <3>1. PICK k \in 1..Len(put) : /\ Len(put[k]) = 127 /\ k <= Len(taken)
                                   /\ \A i \in 1..k - 1 : taken[i] = put[i]
      BY <2>4 DEF Derailed
    <3>2. ~(k <= n)
      BY <2>1, <2>2, <3>1
    <3>3. n \in 1..k - 1 /\ n <= Len(put)
      BY <2>1, <3>2
    <3>. QED  BY <3>1, <3>3
  <2>. QED  BY <1>1, <2>3, <2>4 DEF FramesInv
<1>. QED  BY <1>1, FramesInvariant, PTL

(* A receiver that waits although all bytes have arrived has had all       *)
(* payloads: no frame stays half read (abridged.rs:28-55).                 *)
THEOREM FramesAllOut == FramesSpec => []NothingLeftBehind
<1>1. ASSUME FramesInv
      PROVE  NothingLeftBehind
  <2>1. SUFFICES ASSUME ~cut, flight = <<>>, DecodeFrame(arrived) = {},
                        \A i \in 1..Len(put) : Len(put[i]) <= MAX_FRAME_SIZE,
                        LengthsAvoidMark
                 PROVE  taken = put
    BY DEF NothingLeftBehind
  <2>2. FramesTypeOK /\ Sendable(put) /\ (OnTrack \/ Derailed)
    BY <1>1 DEF FramesInv
  <2>3. /\ put \in Seq(Seq(Octet)) /\ taken \in Seq(Seq(Octet))
        /\ Len(put) \in Nat /\ Len(taken) \in Nat
        /\ arrived \in Seq(Octet) /\ flight \in Seq(Octet)
    BY <2>2, FramesTypeFacts
  <2>4. \A i \in 1..Len(put) : Len(put[i]) # 127
    BY <2>1, <2>3, LenProperties DEF LengthsAvoidMark
  <2>5. OnTrack
    BY <2>2, <2>4 DEF Derailed
  <2>6. PICK s, b : /\ Lined(s, b, put, Len(taken))
                    /\ UnderWay(s, arrived, flight, cut)
    BY <2>5 DEF OnTrack
  <2>7. PICK m \in Nat : m = Len(taken)
    BY <2>3
  <2>8. ASSUME m # Len(put)
        PROVE  FALSE
    <3>1. m \in 0..Len(put) - 1 /\ m + 1 \in 1..Len(put)
      BY <2>3, <2>5, <2>7, <2>8 DEF OnTrack
    <3>2. PICK p : p = put[m + 1]
      OBVIOUS
    <3>3. s \in Seq(Octet) /\ Lined(s, b, put, m)
      BY <2>6, <2>7 DEF Lined
    <3>4. /\ p \in Seq(Octet) /\ Len(p) <= MaxLength
          /\ Len(EncodeFrame(p)) \in 0..Len(s)
          /\ Agrees(arrived, EncodeFrame(p))
      BY <2>2, <2>3, <2>6, <3>1, <3>2, <3>3, LinedFirst
    <3>5. Len(p) # 127
      BY <2>4, <3>1, <3>2
    <3>6. Len(EncodeFrame(p)) > Len(arrived)
      <4>1. DecodeFrame(arrived) =
                IF Len(EncodeFrame(p)) > Len(arrived) THEN {}
                ELSE {Is(p, SubSeq(arrived, Len(EncodeFrame(p)) + 1,
                                   Len(arrived)))}
        BY <2>3, <3>4, <3>5, FrameRoundTrip
      <4>. QED  BY <2>1, <4>1
    <3>7. Len(arrived) = Len(s)
      <4>1. Len(arrived) \in Nat /\ Len(flight) = 0
        BY <2>1, <2>3, LenProperties
      <4>. QED  BY <2>1, <2>6, <4>1 DEF UnderWay
    <3>8. Len(s) \in Nat
      BY <3>3, LenProperties
    <3>. QED  BY <3>4, <3>6, <3>7, <3>8
  <2>9. Len(taken) = Len(put) /\ \A i \in 1..Len(taken) : taken[i] = put[i]
    BY <2>5, <2>7, <2>8 DEF OnTrack
  <2>. QED  BY <2>3, <2>9, SeqEqual
<1>. QED  BY <1>1, FramesInvariant, PTL

(* recv fails only where the connection has ended, or after a payload that *)
(* decode_frame refuses or takes for the mark (abridged.rs:33, 38 and 46). *)
THEOREM FramesFailure == FramesSpec => []FailureHasACause
<1>1. FramesInv => FailureHasACause
  BY DEF FramesInv
<1>. QED  BY <1>1, FramesInvariant, PTL

LEMMA PipeStep ==
  FramesInv /\ LengthsAvoidMark /\ [FramesNext]_framesVars
      => [FramePipe!Next]_(FramePipe!vars)
<1>. SUFFICES ASSUME FramesInv, LengthsAvoidMark, [FramesNext]_framesVars
              PROVE  [FramePipe!Next]_(FramePipe!vars)
  OBVIOUS
<1>1. /\ FramesTypeOK /\ Sendable(put) /\ (OnTrack \/ Derailed)
  BY DEF FramesInv
<1>2. /\ put \in Seq(Seq(Octet)) /\ taken \in Seq(Seq(Octet))
      /\ Len(put) \in Nat /\ Len(taken) \in Nat /\ cut \in BOOLEAN
      /\ arrived \in Seq(Octet) /\ flight \in Seq(Octet)
  BY <1>1, FramesTypeFacts DEF FramesTypeOK
<1>3. \A i \in 1..Len(put) : Len(put[i]) # 127
  BY <1>2, LenProperties DEF LengthsAvoidMark
<1>4. OnTrack
  BY <1>1, <1>3 DEF Derailed
<1>5. ASSUME NEW p \in Payloads, SendFrame(p)
      PROVE  FramePipe!Put
  BY <1>5 DEF SendFrame, FramePipe!Put
<1>6. ASSUME TakeFromStream \/ TakeFromSlice
      PROVE  FramePipe!ComeOut
  <2>1. TakeFrame(DecodeFrame(arrived))
    BY <1>2, <1>6, TakeEither
  <2>2. PICK f \in DecodeFrame(arrived) : taken' = Append(taken, f.value)
    BY <2>1 DEF TakeFrame
  <2>3. ~NoFrame(arrived) /\ put' = put /\ cut' = cut
    BY <2>1 DEF TakeFrame
  <2>4. /\ Len(taken) < Len(put)
        /\ Len(put[Len(taken) + 1]) # 127 => f.value = put[Len(taken) + 1]
    BY <1>1, <1>4, <2>3, TakeNext
  <2>5. Len(taken) + 1 \in 1..Len(put)
    BY <1>2, <2>4
  <2>6. f.value = put[Len(taken) + 1]
    BY <1>3, <2>4, <2>5
  <2>. QED  BY <2>2, <2>3, <2>4, <2>6 DEF FramePipe!ComeOut
<1>7. CutStream => FramePipe!Break
  BY DEF CutStream, FramePipe!Break
<1>8. ASSUME BytesArrive \/ TakeFails \/ UNCHANGED framesVars
      PROVE  UNCHANGED FramePipe!vars
  BY <1>8 DEF BytesArrive, TakeFails, framesVars, FramePipe!vars
<1>. QED  BY <1>5, <1>6, <1>7, <1>8 DEF FramesNext, FramePipe!Next

(* Both ends of a transport together are a pipe of payloads, as long as    *)
(* none of 127 bytes is sent: every step of the stream is one of the pipe, *)
(* or changes nothing that can be seen at its ends.                        *)
THEOREM FramesArePipe ==
  FramesSpec /\ []LengthsAvoidMark =>
      FramePipe!Init /\ [][FramePipe!Next]_(FramePipe!vars)
<1>1. FramesInit => FramePipe!Init
  BY DEF FramesInit, FramePipe!Init
<1>. QED  BY <1>1, PipeStep, FramesInvariant, PTL DEF FramesSpec

(* The condition is needed: a frame of 127 bytes, all of it there, is      *)
(* never read as the payload that was put into it (abridged.rs:12 and 33). *)
THEOREM MarkConfuses ==
  ASSUME NEW p \in Seq(Octet), Len(p) = 127,
         NEW f \in DecodeFrame(EncodeFrame(p))
  PROVE  f.value # p
<1>1. PICK in : in = EncodeFrame(p)
  OBVIOUS
<1>2. Len(p) <= MaxLength
  BY SMT DEF MaxLength
<1>3. in \in Seq(Octet) /\ Len(in) = 1 + 127 /\ in[1] = 127
  <2>1. Header(p) = 1
    BY DEF Header
  <2>2. /\ in \in Seq(Octet) /\ Len(in) = Header(p) + Len(p)
        /\ in[1] = IF Len(p) <= 127 THEN Len(p) ELSE 127
    BY <1>1, <1>2, EncodeFacts
  <2>. QED  BY <2>1, <2>2
<1>4. in # <<>> /\ Len(in) = 128
  <2>1. Len(in) = 128
    BY <1>3
  <2>2. in = <<>> => Len(in) = 0
    BY EmptySeq
  <2>3. 128 # 0
    OBVIOUS
  <2>. QED  BY <2>1, <2>2, <2>3, Zenon
<1>5. PICK k \in Nat : k = FromLE3(in[2], in[3], in[4])
  <2>1. ~(4 > Len(in)) /\ in \in Seq(Octet) /\ in[1] = 127
    BY <1>3, <1>4
  <2>2. FromLE3(in[2], in[3], in[4]) \in Nat
    BY <1>4, <2>1, LongLength
  <2>. QED  BY <2>2
<1>6. DecodeFrame(in) =
          IF 4 + k > Len(in) THEN {}
          ELSE {Is(SubSeq(in, 4 + 1, 4 + k), SubSeq(in, 4 + k + 1, Len(in)))}
  <2>1. PICK h : h = IF in[1] = 127 THEN 4 ELSE 1
    OBVIOUS
  <2>2. h = 4 /\ k = IF h = 4 THEN FromLE3(in[2], in[3], in[4]) ELSE in[1]
    BY <1>3, <1>5, <2>1
  <2>3. in[1] <= 127 /\ ~(h > Len(in))
    BY <1>3, <1>4, <2>2
  <2>4. DecodeFrame(in) =
            IF h + k > Len(in) THEN {}
            ELSE {Is(SubSeq(in, h + 1, h + k), SubSeq(in, h + k + 1, Len(in)))}
    <3>1. in \in Seq(Octet) /\ in # <<>>
      BY <1>3, <1>4
    <3>. QED  BY <2>1, <2>2, <2>3, <3>1, WhereAFrameIs
  <2>. QED  BY <2>2, <2>4
<1>7. 4 + k <= Len(in) /\ f.value = SubSeq(in, 4 + 1, 4 + k)
  BY <1>1, <1>4, <1>6 DEF Is
<1>8. Len(f.value) = k
  <2>1. PICK h \in Nat : h = 4
    OBVIOUS
  <2>2. Len(SubSeq(in, h + 1, h + k)) = k
    BY <1>3, <1>7, <2>1, Middle
  <2>. QED  BY <1>7, <2>1, <2>2
<1>9. k # 127
  BY <1>4, <1>7
<1>. QED  BY <1>8, <1>9
=============================================================================
