------------------------- MODULE ClientSessionProofs -------------------------
(***************************************************************************)
(* Client and server of one Session: keys, numbering, handshakes and       *)
(* answers, for any number of connections, attempts and requests, whatever *)
(* is lost, torn, restarted or timed out.                                  *)
(***************************************************************************)
EXTENDS ClientSession, FiniteSetTheorems, SequenceTheorems, TLAPS

-----------------------------------------------------------------------------
(* The invariant *)

AtMostOne(S) == \A x, y \in S : x = y
Items(q) == {q[j] : j \in DOMAIN q}

(* Types of the variables, and that a connection that is closed delivers   *)
(* nothing.                                                                *)
TypeInv ==
    /\ client \in Client /\ AtMostOne(client.key)
    /\ links \in [Links -> Link]
    /\ \A i \in Links : ~links[i].alive => links[i].up = <<>>
    /\ DOMAIN sessions \subseteq Keys
    /\ sessions \in [DOMAIN sessions -> ServerSession]
    /\ store \subseteq Entry
    /\ attempts \in Nat /\ issued \in Nat /\ calls \in Nat

(* Where the client is in a call, and what it keeps of it; its nonce is    *)
(* the last one drawn.                                                     *)
Exchanging == client.pc \in {"res_pq", "dh_params", "dh_gen"}
CallInv ==
    /\ client.pc = "idle" => client = Idle(client)
    /\ Exchanging <=> client.nonce # 0
    /\ client.pc = "answer" <=> client.wants \in Questions
    /\ client.nonce # 0 => client.nonce = attempts
    /\ client.seq >= -1

(* The last part of a key is the nonce of the attempt it was made in: a    *)
(* key on a connection left behind is older than the client's, and every   *)
(* key is older than the attempt under way.                                *)
UpKeyInv(i, f) ==
    /\ AtMostOne(f.key) /\ f.key \subseteq DOMAIN sessions
    /\ f.key # {} => f.id >= 1
    /\ \A k \in f.key :
          /\ client.nonce # 0 => k[2] < client.nonce
          /\ i # client.link => \A c \in client.key : k[2] < c[2]
KeyInv ==
    /\ \A k \in DOMAIN sessions :
          Len(k) = 2 /\ k[1] \in 1..issued /\ k[2] \in 1..attempts
    /\ KeyKnown
    /\ \A k \in client.key : client.nonce # 0 => k[2] < client.nonce
    /\ \A i \in Links : \A f \in Items(links[i].up) : UpKeyInv(i, f)
    /\ \A i, e \in Links :
          \A f \in Items(links[i].up), g \in Items(links[e].up) :
             f.key \cap g.key # {} => i = e
    /\ \A i \in Links : \A f \in Items(links[i].down) :
          f.obj.kind = "DHGenOk" => f.obj.value \in DOMAIN sessions

(* A SetClientDHParams is sent once in an attempt, and before its key is   *)
(* a session's; until then the client's entry in HANDSHAKE_STORE stays.    *)
Opens(f) == f.obj.kind = "SetClientDHParams"
Before == client.pc \in {"res_pq", "dh_params"}
OpenInv ==
    /\ \A e \in store : e.secret \in 1..issued
    /\ \A e, f \in store : e.nonce = f.nonce /\ e.snonce = f.snonce => e = f
    /\ \A i \in Links : \A f \in Items(links[i].up) : Opens(f) =>
          /\ f.obj.nonce \in 1..attempts /\ f.obj.value = <<f.obj.nonce>>
          /\ \A k \in DOMAIN sessions : k[2] # f.obj.nonce
          /\ Before => f.obj.nonce # client.nonce
    /\ \A i, e \in Links :
          \A j \in DOMAIN links[i].up, l \in DOMAIN links[e].up :
             (/\ Opens(links[i].up[j]) /\ Opens(links[e].up[l])
              /\ links[i].up[j].obj.nonce = links[e].up[l].obj.nonce)
                => i = e /\ j = l
    /\ Before => \A k \in DOMAIN sessions : k[2] # client.nonce
Exchanges(f) == f.obj.kind \in {"ReqDHParams", "ServerDHParamsOk"}
RememberInv ==
    /\ HandshakeRemembered
    /\ \A i \in Links :
          \A f \in Items(links[i].up) \cup Items(links[i].down) :
             Exchanges(f) =>
                /\ f.obj.nonce <= attempts
                /\ client.pc = "res_pq" => f.obj.nonce # client.nonce
    /\ client.pc = "dh_params" /\ Here.alive =>
          \A f \in Items(Here.down) :
             (/\ f.obj.kind = "ServerDHParamsOk"
              /\ f.obj.nonce = client.nonce /\ f.obj.snonce = client.snonce
              /\ <<f.obj.nonce, f.obj.snonce>> \notin aged)
             => Matching(store, f.obj) # {}

(* Frames under key k are numbered as a new session expects them, or from  *)
(* a number on that it will never reach.                                   *)
Plain(k) ==
    /\ \A i \in Links : \A f \in Items(links[i].up) :
          k \in f.key => f.seq = f.id - 1
    /\ k \in client.key => client.seq = client.sent - 1
Ahead(k) ==
    /\ sessions[k].rseq = -1 /\ sessions[k].done = <<>>
    /\ \A i \in Links : \A f \in Items(links[i].up) :
          k \in f.key => f.seq >= f.id
    /\ k \in client.key => client.seq >= client.sent
(* Nothing will come under key k any more.                                 *)
Silent(k) ==
    /\ \A i \in Links : \A f \in Items(links[i].up) : k \notin f.key
    /\ k \in client.key => ~Here.alive
NumberInv ==
    \A k \in DOMAIN sessions :
       /\ \A j \in DOMAIN sessions[k].done : sessions[k].done[j] = j
       /\ client.nonce # 0 /\ k[2] = client.nonce =>
             sessions[k].rseq = -1 /\ sessions[k].done = <<>>
       /\ Plain(k) \/ Ahead(k)
       /\ sessions[k].rseq = Len(sessions[k].done) - 1 \/ Silent(k)

(* One answer is awaited at a time, until a read times out.                *)
Asks(f) == f.obj.kind \in Questions \cup {"ReqPq", "ReqDHParams",
                                          "SetClientDHParams"}
Tells(f) == f.obj.kind \in {"Message", "HistoryResult"}
AnswerInv ==
    ~late =>
       /\ \A a \in answer : a.got = a.asked
       /\ ~Here.garbled
       /\ ~Reading => Here.down = <<>> /\ \A f \in Items(Here.up) : ~Asks(f)
       /\ Len(Here.down) <= 1
       /\ Here.down # <<>> => \A f \in Items(Here.up) : ~Asks(f)
       /\ \A i, j \in DOMAIN Here.up :
             Asks(Here.up[i]) /\ Asks(Here.up[j]) => i = j
       /\ client.pc = "answer" =>
             /\ \A f \in Items(Here.up) : Asks(f) => f.obj.call = client.call
             /\ \A f \in Items(Here.down) :
                   Tells(f) => f.obj.call = client.call

ClientInv ==
    TypeInv /\ CallInv /\ KeyInv /\ OpenInv /\ RememberInv /\ NumberInv
    /\ AnswerInv

(* Without what disturbs the numbering: a new key is taken when nothing is *)
(* under way, and then both directions carry its frames without a gap.     *)
Finishes(f) == f.obj.kind = "DHGenOk" /\ f.obj.nonce = client.nonce
Undisturbed ==
    {"tear", "send_fault", "clock", "rekey", "read_fault"}
       \cap Disturbances = {}
WholeInv ==
    /\ \A i \in Links : ~links[i].cut
    /\ ~Here.garbled
TakeInv ==
    /\ Exchanging => client.key = {}
    /\ client.key = {} => client.seq = -1 /\ client.rseq = -1
    /\ \A k \in DOMAIN sessions :
          client.nonce # 0 /\ k[2] = client.nonce => sessions[k].sseq = -1
    /\ \A i \in Links : \A f \in Items(links[i].down) :
          f.obj.kind = "DHGenOk" => /\ f.obj.nonce <= attempts
                                    /\ Before => f.obj.nonce # client.nonce
    /\ Here.alive /\ client.pc = "dh_gen" =>
          /\ \A j \in DOMAIN Here.up :
                (Opens(Here.up[j]) /\ Here.up[j].obj.nonce = client.nonce)
                   => j = Len(Here.up)
          /\ \A j \in DOMAIN Here.down : Finishes(Here.down[j]) =>
                j = Len(Here.down) /\ Here.up = <<>>
Runs(q, k, last) ==
    \A j \in DOMAIN q : q[j].key = {k} /\ q[j].seq = last - (Len(q) - j)
FlowInv ==
    \A k \in client.key : Here.alive =>
       /\ Runs(Here.up, k, client.seq)
       /\ Runs(Here.down, k, sessions[k].sseq)
       /\ sessions[k].rseq + Len(Here.up) = client.seq
       /\ client.rseq + Len(Here.down) = sessions[k].sseq
StepInv == WholeInv /\ TakeInv /\ FlowInv

-----------------------------------------------------------------------------
(* Sequences of frames *)

(* What stays of a stream once its first item is taken.                    *)
LEMMA TailItems ==
  ASSUME NEW S, NEW q \in Seq(S), q # <<>>
  PROVE  /\ Tail(q) \in Seq(S) /\ Head(q) = q[1] /\ q[1] \in S
         /\ Len(q) \in Nat /\ Len(q) >= 1 /\ Len(Tail(q)) = Len(q) - 1
         /\ DOMAIN q = 1..Len(q) /\ DOMAIN Tail(q) = 1..(Len(q) - 1)
         /\ \A j \in DOMAIN Tail(q) :
               j + 1 \in DOMAIN q /\ Tail(q)[j] = q[j + 1]
         /\ Items(Tail(q)) \subseteq Items(q) /\ Head(q) \in Items(q)
<1>1. /\ Tail(q) \in Seq(S) /\ Head(q) = q[1] /\ q[1] \in S
      /\ Len(q) \in Nat /\ Len(q) >= 1 /\ Len(Tail(q)) = Len(q) - 1
      /\ DOMAIN q = 1..Len(q) /\ DOMAIN Tail(q) = 1..(Len(q) - 1)
  OBVIOUS
<1>2. \A j \in DOMAIN Tail(q) : j + 1 \in DOMAIN q /\ Tail(q)[j] = q[j + 1]
  OBVIOUS
<1>3. Items(Tail(q)) \subseteq Items(q) /\ Head(q) \in Items(q)
  BY <1>1, <1>2 DEF Items
<1>. QED  BY <1>1, <1>2, <1>3

(* What it has once an item is added.                                      *)
LEMMA AppendItems ==
  ASSUME NEW S, NEW q \in Seq(S), NEW x \in S
  PROVE  /\ Append(q, x) \in Seq(S)
         /\ Len(q) \in Nat /\ DOMAIN q = 1..Len(q)
         /\ Len(Append(q, x)) = Len(q) + 1
         /\ DOMAIN Append(q, x) = 1..(Len(q) + 1)
         /\ \A j \in DOMAIN q : Append(q, x)[j] = q[j]
         /\ Append(q, x)[Len(q) + 1] = x
         /\ Items(Append(q, x)) = Items(q) \cup {x}
<1>1. /\ Append(q, x) \in Seq(S)
      /\ Len(q) \in Nat /\ DOMAIN q = 1..Len(q)
      /\ Len(Append(q, x)) = Len(q) + 1
      /\ DOMAIN Append(q, x) = 1..(Len(q) + 1)
  OBVIOUS
<1>2. /\ \A j \in DOMAIN q : Append(q, x)[j] = q[j]
      /\ Append(q, x)[Len(q) + 1] = x
  OBVIOUS
<1>3. Items(Append(q, x)) = Items(q) \cup {x}
  BY <1>1, <1>2 DEF Items
<1>. QED  BY <1>1, <1>2, <1>3

(* A part of it at either end.                                             *)
LEMMA PrefixItems ==
  ASSUME NEW S, NEW q \in Seq(S), NEW n \in 0..Len(q)
  PROVE  /\ SubSeq(q, 1, n) \in Seq(S) /\ Len(SubSeq(q, 1, n)) = n
         /\ DOMAIN q = 1..Len(q) /\ DOMAIN SubSeq(q, 1, n) = 1..n
         /\ \A j \in DOMAIN SubSeq(q, 1, n) : SubSeq(q, 1, n)[j] = q[j]
         /\ Items(SubSeq(q, 1, n)) \subseteq Items(q)
<1>1. /\ SubSeq(q, 1, n) \in Seq(S) /\ Len(SubSeq(q, 1, n)) = n
      /\ DOMAIN q = 1..Len(q) /\ DOMAIN SubSeq(q, 1, n) = 1..n
      /\ \A j \in DOMAIN SubSeq(q, 1, n) : SubSeq(q, 1, n)[j] = q[j]
  <2>1. Len(q) \in Nat /\ DOMAIN q = 1..Len(q)
    OBVIOUS
  <2>2. \A j \in 1..n : q[j] \in S
    BY <2>1
  <2>. QED  BY <2>1, <2>2, SubSeqProperties
<1>2. Items(SubSeq(q, 1, n)) \subseteq Items(q)
  BY <1>1 DEF Items
<1>. QED  BY <1>1, <1>2

LEMMA SuffixItems ==
  ASSUME NEW S, NEW q \in Seq(S), NEW n \in 1..Len(q)
  PROVE  /\ SubSeq(q, n + 1, Len(q)) \in Seq(S)
         /\ Items(SubSeq(q, n + 1, Len(q))) \subseteq Items(q)
<1>1. Len(q) \in Nat /\ DOMAIN q = 1..Len(q)
  OBVIOUS
<1>2. PICK t : t = SubSeq(q, n + 1, Len(q))
  OBVIOUS
<1>3. /\ t \in Seq(S) /\ DOMAIN t = 1..(Len(q) - n)
      /\ \A j \in DOMAIN t : t[j] = q[n + j]
  BY <1>1, <1>2, SubSeqProperties
<1>4. Items(t) \subseteq Items(q)
  BY <1>1, <1>3 DEF Items
<1>. QED  BY <1>2, <1>3, <1>4

LEMMA NoItems == Items(<<>>) = {} /\ \A S : <<>> \in Seq(S)
BY DEF Items

-----------------------------------------------------------------------------
(* Updates of the client and of a connection *)

(* A call returns: its locals are gone, the numbering stays.               *)
LEMMA IdleFields ==
  ASSUME NEW c \in Client
  PROVE  /\ Idle(c) \in Client
         /\ Idle(c).pc = "idle" /\ Idle(c).link = c.link
         /\ Idle(c).key = c.key /\ Idle(c).seq = c.seq
         /\ Idle(c).rseq = c.rseq /\ Idle(c).sent = c.sent
         /\ Idle(c).nonce = 0 /\ Idle(c).snonce = 0 /\ Idle(c).ga = <<>>
         /\ Idle(c).call = 0 /\ Idle(c).wants = ""
         /\ Idle(Idle(c)) = Idle(c)
<1>0. PICK none \in Seq(Nat) : none = <<>>
  BY NoItems
<1>1. PICK d : d = [c EXCEPT !.pc = "idle", !.nonce = 0, !.snonce = 0,
                             !.ga = none, !.call = 0, !.wants = ""]
  OBVIOUS
<1>2. /\ d \in Client
      /\ d.pc = "idle" /\ d.link = c.link
      /\ d.key = c.key /\ d.seq = c.seq
      /\ d.rseq = c.rseq /\ d.sent = c.sent
      /\ d.nonce = 0 /\ d.snonce = 0 /\ d.ga = none
      /\ d.call = 0 /\ d.wants = ""
  BY <1>1 DEF Client
<1>3. d = Idle(c)
  BY <1>0, <1>1 DEF Idle
<1>4. Idle(d) = d
  BY <1>0, <1>2 DEF Idle, Client
<1>. QED  BY <1>0, <1>2, <1>3, <1>4

(* A frame under a key takes the next number.                              *)
LEMMA NumberedFields ==
  ASSUME NEW c \in Client
  PROVE  /\ Numbered(c) \in Client
         /\ Numbered(c).pc = c.pc /\ Numbered(c).link = c.link
         /\ Numbered(c).key = c.key /\ Numbered(c).rseq = c.rseq
         /\ Numbered(c).seq = IF c.key = {} THEN c.seq ELSE c.seq + 1
         /\ Numbered(c).sent = IF c.key = {} THEN c.sent ELSE c.sent + 1
         /\ Numbered(c).nonce = c.nonce /\ Numbered(c).snonce = c.snonce
         /\ Numbered(c).ga = c.ga /\ Numbered(c).call = c.call
         /\ Numbered(c).wants = c.wants
<1>1. CASE c.key = {}
  BY <1>1 DEF Numbered
<1>2. CASE c.key # {}
  <2>0. c.seq \in Int /\ c.sent \in Nat
    BY DEF Client
  <2>1. PICK m \in Int, n \in Nat : m = c.seq + 1 /\ n = c.sent + 1
    BY <2>0
  <2>2. Numbered(c) = [c EXCEPT !.seq = m, !.sent = n]
    BY <1>2, <2>1 DEF Numbered, Client
  <2>. QED  BY <1>2, <2>1, <2>2 DEF Client
<1>. QED  BY <1>1, <1>2

LEMMA FrameFields ==
  ASSUME NEW c \in Client, NEW obj \in Object
  PROVE  /\ FrameOf(c, obj) \in Frame
         /\ FrameOf(c, obj).key = c.key /\ FrameOf(c, obj).obj = obj
         /\ FrameOf(c, obj).seq = IF c.key = {} THEN -1 ELSE c.seq
         /\ FrameOf(c, obj).id = IF c.key = {} THEN 0 ELSE c.sent
<1>1. PICK seq \in Int, id \in Nat :
          /\ seq = IF c.key = {} THEN -1 ELSE c.seq
          /\ id = IF c.key = {} THEN 0 ELSE c.sent
  <2>1. c.seq \in Int /\ c.sent \in Nat
    BY DEF Client
  <2>. QED  BY <2>1
<1>2. FrameOf(c, obj) = [key |-> c.key, seq |-> seq, id |-> id, obj |-> obj]
  BY <1>1 DEF FrameOf
<1>3. c.key \in SUBSET Keys
  BY DEF Client
<1>. QED  BY <1>1, <1>2, <1>3 DEF Frame

LEMMA ObjFields ==
  ASSUME NEW kind \in ObjectKinds, NEW nonce \in Nat, NEW snonce \in Nat,
         NEW value \in Seq(Nat)
  PROVE  /\ Obj(kind, nonce, snonce, value) \in Object
         /\ Obj(kind, nonce, snonce, value).kind = kind
         /\ Obj(kind, nonce, snonce, value).nonce = nonce
         /\ Obj(kind, nonce, snonce, value).snonce = snonce
         /\ Obj(kind, nonce, snonce, value).value = value
         /\ Obj(kind, nonce, snonce, value).call = 0
BY DEF Obj, Object

LEMMA UserObjFields ==
  ASSUME NEW kind \in ObjectKinds, NEW call \in Nat
  PROVE  /\ UserObj(kind, call) \in Object
         /\ UserObj(kind, call).kind = kind
         /\ UserObj(kind, call).call = call
<1>1. <<>> \in Seq(Nat) /\ 0 \in Nat
  OBVIOUS
<1>2. PICK o \in Object : o = Obj(kind, 0, 0, <<>>) /\ o.kind = kind
  <2>1. Obj(kind, 0, 0, <<>>) \in Object
    BY <1>1, ObjFields
  <2>2. Obj(kind, 0, 0, <<>>).kind = kind
    BY DEF Obj
  <2>. QED  BY <2>1, <2>2
<1>3. UserObj(kind, call) = [o EXCEPT !.call = call]
  BY <1>2 DEF UserObj
<1>. QED  BY <1>2, <1>3 DEF Object

(* What no step but a reconnect changes: connections other than link i.    *)
Elsewhere(i) ==
    /\ links' \in [Links -> Link]
    /\ \A e \in Links \ {i} : links'[e] = links[e]

(* send_tl of obj by client c, after the head of the stream to it has been *)
(* taken or not.                                                           *)
Sent(c, obj, taken) ==
    /\ Elsewhere(client.link)
    /\ links'[client.link].alive = Here.alive
    /\ links'[client.link].garbled = Here.garbled
    /\ links'[client.link].down = IF taken THEN Tail(Here.down) ELSE Here.down
    /\ \/ /\ client' = Numbered(c)
          /\ links'[client.link].cut = Here.cut
          /\ IF Here.alive /\ ~Here.cut
             THEN links'[client.link].up =
                      Append(Here.up, FrameOf(Numbered(c), obj))
             ELSE links'[client.link].up = Here.up
       \/ /\ "send_fault" \in Disturbances
          /\ client' = Idle(Numbered(c))
          /\ links'[client.link].up = Here.up

LEMMA SendTlSends ==
  ASSUME TypeInv, NEW c \in Client, c.link = client.link, NEW obj \in Object,
         NEW taken \in BOOLEAN, taken => Here.down # <<>>,
         SendTl(c, IF taken THEN Popped(links) ELSE links, obj)
  PROVE  Sent(c, obj, taken)
<1>1. /\ client.link \in Links /\ Here \in Link /\ links \in [Links -> Link]
      /\ Here.up \in Seq(Frame) /\ Here.down \in Seq(Frame)
      /\ Here.alive \in BOOLEAN /\ Here.cut \in BOOLEAN
      /\ Here.garbled \in BOOLEAN
  BY DEF TypeInv, Here, Client, Link
<1>2. PICK ls : ls = IF taken THEN Popped(links) ELSE links
  OBVIOUS
<1>3. PICK d \in Seq(Frame) :
          d = IF taken THEN Tail(Here.down) ELSE Here.down
  BY <1>1, TailItems
<1>4. PICK l : l = [Here EXCEPT !.down = d]
  OBVIOUS
<1>5. /\ l \in Link /\ l.up = Here.up /\ l.down = d /\ l.alive = Here.alive
      /\ l.cut = Here.cut /\ l.garbled = Here.garbled
  BY <1>1, <1>3, <1>4 DEF Link
<1>6. ls = [links EXCEPT ![client.link] = l]
  <2>1. CASE taken
    BY <1>1, <1>2, <1>3, <1>4, <2>1 DEF Popped, Here
  <2>2. CASE ~taken
    <3>1. l = Here
      BY <1>1, <1>3, <1>4, <2>2 DEF Link
    <3>. QED  BY <1>1, <1>2, <2>2, <3>1 DEF Here
  <2>. QED  BY <2>1, <2>2
<1>7. PICK n \in Client : n = Numbered(c) /\ n.link = client.link
  BY NumberedFields
<1>8. CASE /\ client' = n
           /\ links' = [ls EXCEPT ![n.link] = Carry(@, FrameOf(n, obj))]
  <2>1. PICK f \in Frame : f = FrameOf(n, obj)
    BY FrameFields
  <2>2. Append(Here.up, f) \in Seq(Frame)
    BY <1>1, AppendItems
  <2>3. PICK m : m = Carry(l, f)
    OBVIOUS
  <2>4. /\ m \in Link /\ m.down = d /\ m.alive = Here.alive
        /\ m.cut = Here.cut /\ m.garbled = Here.garbled
        /\ m.up = IF Here.alive /\ ~Here.cut THEN Append(Here.up, f)
                                             ELSE Here.up
    BY <1>1, <1>5, <2>2, <2>3 DEF Carry, Link
  <2>5. links' = [links EXCEPT ![client.link] = m]
    BY <1>1, <1>6, <1>7, <1>8, <2>1, <2>3
  <2>6. Elsewhere(client.link) /\ links'[client.link] = m
    BY <1>1, <2>4, <2>5 DEF Elsewhere
  <2>. QED  BY <1>3, <1>7, <1>8, <2>1, <2>4, <2>6 DEF Sent
<1>9. CASE /\ "send_fault" \in Disturbances /\ client' = Idle(n)
           /\ \E torn \in BOOLEAN :
                 links' = [ls EXCEPT ![n.link].cut = @ \/ torn]
  <2>1. PICK torn \in BOOLEAN : links' = [ls EXCEPT ![n.link].cut = @ \/ torn]
    BY <1>9
  <2>2. PICK cut \in BOOLEAN : cut = (l.cut \/ torn)
    OBVIOUS
  <2>3. PICK m : m = [l EXCEPT !.cut = cut]
    OBVIOUS
  <2>4. /\ m \in Link /\ m.down = d /\ m.alive = Here.alive
        /\ m.up = Here.up /\ m.garbled = Here.garbled
    BY <1>5, <2>3 DEF Link
  <2>5. links' = [links EXCEPT ![client.link] = m]
    BY <1>1, <1>6, <1>7, <2>1, <2>2, <2>3
  <2>6. Elsewhere(client.link) /\ links'[client.link] = m
    BY <1>1, <2>4, <2>5 DEF Elsewhere
  <2>. QED  BY <1>3, <1>7, <1>9, <2>4, <2>6 DEF Sent
<1>. QED  BY <1>2, <1>7, <1>8, <1>9 DEF SendTl

-----------------------------------------------------------------------------
(* The steps of the client *)

(* What recv_tl and the calls around it leave alone.                       *)
Same(c, d) == /\ c.link = d.link /\ c.key = d.key
              /\ c.seq = d.seq /\ c.sent = d.sent

LEMMA HeardFields ==
  ASSUME client \in Client
  PROVE  /\ Heard \in Client /\ Same(Heard, client)
         /\ Heard.rseq = IF client.key = {} THEN client.rseq
                                            ELSE client.rseq + 1
         /\ Heard.pc = client.pc /\ Heard.nonce = client.nonce
         /\ Heard.snonce = client.snonce /\ Heard.ga = client.ga
         /\ Heard.call = client.call /\ Heard.wants = client.wants
<1>1. CASE client.key = {}
  BY <1>1 DEF Heard, Same
<1>2. CASE client.key # {}
  <2>1. client.rseq \in Int
    BY DEF Client
  <2>2. PICK m \in Int : m = client.rseq + 1
    BY <2>1
  <2>3. Heard = [client EXCEPT !.rseq = m]
    BY <1>2, <2>2 DEF Heard
  <2>. QED  BY <1>2, <2>2, <2>3 DEF Client, Same
<1>. QED  BY <1>1, <1>2

(* What the prover needs of the types at every step.                       *)
LEMMA HereType ==
  ASSUME TypeInv
  PROVE  /\ client \in Client /\ client.link \in Links /\ Here \in Link
         /\ links \in [Links -> Link]
         /\ Here.up \in Seq(Frame) /\ Here.down \in Seq(Frame)
         /\ Here.alive \in BOOLEAN /\ Here.cut \in BOOLEAN
         /\ Here.garbled \in BOOLEAN
         /\ client.seq \in Int /\ client.rseq \in Int /\ client.sent \in Nat
         /\ client.nonce \in Nat /\ client.snonce \in Nat
         /\ client.ga \in Seq(Nat) /\ client.call \in Nat
         /\ client.key \in SUBSET Keys
BY DEF TypeInv, Here, Client, Link

LEMMA LinkType ==
  ASSUME TypeInv, NEW i \in Links
  PROVE  /\ links[i] \in Link
         /\ links[i].up \in Seq(Frame) /\ links[i].down \in Seq(Frame)
         /\ links[i].alive \in BOOLEAN /\ links[i].cut \in BOOLEAN
         /\ links[i].garbled \in BOOLEAN
BY DEF TypeInv, Link

(* The object that has arrived.                                            *)
LEMMA IncomingType ==
  ASSUME TypeInv, Here.down # <<>>
  PROVE  /\ Incoming \in Frame /\ Incoming.obj \in Object
         /\ Incoming.obj.snonce \in Nat /\ Incoming.obj.value \in Seq(Nat)
         /\ Incoming \in Items(Here.down) /\ Incoming = Here.down[1]
<1>1. Incoming \in Frame /\ Incoming \in Items(Here.down)
      /\ Incoming = Here.down[1]
  BY HereType, TailItems DEF Incoming
<1>. QED  BY <1>1 DEF Frame, Object

LEMMA AuthenticateMoves ==
  ASSUME TypeInv, Authenticate
  PROVE  \E c \in Client :
            /\ Same(c, client) /\ c.rseq = client.rseq
            /\ c.pc = "res_pq" /\ c.nonce = attempts + 1
            /\ c.call = client.call /\ c.wants = client.wants
            /\ Sent(c, Obj("ReqPq", attempts + 1, 0, <<>>), FALSE)
<1>1. PICK n \in Nat : n = attempts + 1
  BY DEF TypeInv
<1>2. PICK c : c = [client EXCEPT !.pc = "res_pq", !.nonce = n]
  OBVIOUS
<1>3. /\ c \in Client /\ Same(c, client) /\ c.rseq = client.rseq
      /\ c.pc = "res_pq" /\ c.nonce = n
      /\ c.call = client.call /\ c.wants = client.wants
  BY <1>2, HereType DEF Client, Same
<1>4. PICK obj \in Object : obj = Obj("ReqPq", n, 0, <<>>)
  BY NoItems, ObjFields DEF ObjectKinds
<1>5. SendTl(c, links, obj)
  BY <1>1, <1>2, <1>4 DEF Authenticate
<1>6. Sent(c, obj, FALSE)
  BY <1>3, <1>5, SendTlSends DEF Same
<1>. QED  BY <1>1, <1>3, <1>4, <1>6

LEMMA RequestMoves ==
  ASSUME TypeInv, Request
  PROVE  \E c \in Client, kind \in Kinds :
            /\ Same(c, client) /\ c.rseq = client.rseq
            /\ c.nonce = client.nonce
            /\ IF kind \in Questions
               THEN c.pc = "answer" /\ c.call = calls + 1 /\ c.wants = kind
               ELSE c = client
            /\ Sent(c, UserObj(kind, calls + 1), FALSE)
<1>1. PICK n \in Nat : n = calls + 1
  BY DEF TypeInv
<1>2. PICK kind \in Kinds :
          SendTl(IF kind \in Questions
                 THEN [client EXCEPT !.pc = "answer", !.call = calls + 1,
                                     !.wants = kind]
                 ELSE client,
                 links, UserObj(kind, calls + 1))
  BY DEF Request
<1>3. PICK c : c = IF kind \in Questions
                   THEN [client EXCEPT !.pc = "answer", !.call = n,
                                       !.wants = kind]
                   ELSE client
  OBVIOUS
<1>4. /\ c \in Client /\ Same(c, client) /\ c.rseq = client.rseq
      /\ c.nonce = client.nonce
      /\ IF kind \in Questions
         THEN c.pc = "answer" /\ c.call = n /\ c.wants = kind
         ELSE c = client
  <2>1. CASE kind \in Questions
    BY <1>3, <2>1, HereType DEF Client, Same
  <2>2. CASE kind \notin Questions
    BY <1>3, <2>2, HereType DEF Same
  <2>. QED  BY <2>1, <2>2
<1>5. kind \in ObjectKinds
  BY ClientKindsAssumption DEF ObjectKinds
<1>6. PICK obj \in Object : obj = UserObj(kind, n)
  BY <1>5, UserObjFields
<1>7. SendTl(c, links, obj)
  BY <1>1, <1>2, <1>3, <1>6
<1>8. Sent(c, obj, FALSE)
  BY <1>4, <1>7, SendTlSends DEF Same
<1>. QED  BY <1>1, <1>4, <1>6, <1>8

LEMMA AuthResPQMoves ==
  ASSUME TypeInv, AuthResPQ
  PROVE  /\ Here.down # <<>> /\ client.pc = "res_pq"
         /\ \E c \in Client :
            /\ Same(c, client) /\ c.rseq = Heard.rseq
            /\ c.pc = "dh_params" /\ c.nonce = client.nonce
            /\ c.call = client.call /\ c.wants = client.wants
            /\ Sent(c, Obj("ReqDHParams", client.nonce, Incoming.obj.snonce,
                           <<>>), TRUE)
<1>1. Here.down # <<>> /\ client.pc = "res_pq"
  BY DEF AuthResPQ, Takes, Arrives
<1>2. PICK n \in Nat : n = Incoming.obj.snonce
  BY <1>1, IncomingType
<1>3. PICK c : c = [Heard EXCEPT !.pc = "dh_params", !.snonce = n]
  OBVIOUS
<1>4. /\ c \in Client /\ Same(c, client) /\ c.rseq = Heard.rseq
      /\ c.pc = "dh_params" /\ c.nonce = client.nonce
      /\ c.call = client.call /\ c.wants = client.wants
  BY <1>3, HereType, HeardFields DEF Client, Same
<1>5. PICK obj \in Object : obj = Obj("ReqDHParams", client.nonce, n, <<>>)
  BY HereType, NoItems, ObjFields DEF ObjectKinds
<1>6. SendTl(c, Popped(links), obj)
  BY <1>2, <1>3, <1>5 DEF AuthResPQ
<1>7. Sent(c, obj, TRUE)
  BY <1>1, <1>4, <1>6, SendTlSends DEF Same
<1>. QED  BY <1>1, <1>2, <1>4, <1>5, <1>7

LEMMA AuthDHParamsMoves ==
  ASSUME TypeInv, AuthDHParams
  PROVE  /\ Here.down # <<>> /\ client.pc = "dh_params"
         /\ Expected(Incoming.obj)
         /\ \E c \in Client :
            /\ Same(c, client) /\ c.rseq = Heard.rseq
            /\ c.pc = "dh_gen" /\ c.nonce = client.nonce
            /\ c.call = client.call /\ c.wants = client.wants
            /\ Sent(c, Obj("SetClientDHParams", client.nonce, client.snonce,
                           <<client.nonce>>), TRUE)
<1>1. /\ Here.down # <<>> /\ client.pc = "dh_params"
      /\ Expected(Incoming.obj)
  BY DEF AuthDHParams, Takes, Arrives
<1>2. PICK ga \in Seq(Nat) : ga = Incoming.obj.value
  BY <1>1, IncomingType
<1>3. PICK c : c = [Heard EXCEPT !.pc = "dh_gen", !.ga = ga]
  OBVIOUS
<1>4. /\ c \in Client /\ Same(c, client) /\ c.rseq = Heard.rseq
      /\ c.pc = "dh_gen" /\ c.nonce = client.nonce
      /\ c.call = client.call /\ c.wants = client.wants
  BY <1>3, HereType, HeardFields DEF Client, Same
<1>5. PICK v \in Seq(Nat) : v = <<client.nonce>>
  <2>1. PICK n \in Nat : n = client.nonce
    BY HereType
  <2>2. <<n>> \in Seq(Nat)
    OBVIOUS
  <2>. QED  BY <2>1, <2>2
<1>6. PICK obj \in Object :
          obj = Obj("SetClientDHParams", client.nonce, client.snonce, v)
  BY HereType, ObjFields DEF ObjectKinds
<1>7. SendTl(c, Popped(links), obj)
  BY <1>2, <1>3, <1>5, <1>6 DEF AuthDHParams, Agreeing
<1>8. Sent(c, obj, TRUE)
  BY <1>1, <1>4, <1>7, SendTlSends DEF Same
<1>. QED  BY <1>1, <1>4, <1>5, <1>6, <1>8

(* The stream to the client, when something has been read from it.         *)
Drained ==
    /\ Elsewhere(client.link)
    /\ links'[client.link].up = Here.up
    /\ links'[client.link].alive = Here.alive
    /\ links'[client.link].cut = Here.cut
    /\ Items(links'[client.link].down) \subseteq Items(Here.down)

LEMMA PoppedDrains ==
  ASSUME TypeInv, Here.down # <<>>, links' = Popped(links)
  PROVE  /\ Drained /\ links'[client.link].down = Tail(Here.down)
         /\ links'[client.link].garbled = Here.garbled
<1>1. PICK d \in Seq(Frame) : /\ d = Tail(Here.down)
                              /\ Items(d) \subseteq Items(Here.down)
  BY HereType, TailItems
<1>2. PICK l : l = [Here EXCEPT !.down = d]
  OBVIOUS
<1>3. /\ l \in Link /\ l.up = Here.up /\ l.down = d /\ l.alive = Here.alive
      /\ l.cut = Here.cut /\ l.garbled = Here.garbled
  BY <1>2, HereType DEF Link
<1>4. links' = [links EXCEPT ![client.link] = l]
  BY <1>1, <1>2, HereType DEF Popped, Here
<1>. QED  BY <1>1, <1>3, <1>4, HereType DEF Drained, Elsewhere

(* A call returns: what it has got, an error or nothing at all.            *)
Rests ==
    /\ Drained
    /\ client' = Idle(client) \/ client' = Idle(Heard)
    /\ UNCHANGED <<server, drawn, refused>>
    /\ \/ answer' = answer
       \/ /\ client.pc = "answer" /\ Here.down # <<>>
          /\ Incoming.obj.kind \in AnswerTo(client.wants)
          /\ answer' = {[asked |-> client.call, got |-> Incoming.obj.call]}
    /\ \/ late' = TRUE
       \/ /\ late' = late
          /\ \/ Here.garbled
             \/ /\ links'[client.link].garbled = Here.garbled
                /\ \/ /\ Here.down # <<>>
                      /\ links'[client.link].down = Tail(Here.down)
                   \/ /\ ~Here.alive /\ Here.down = <<>>
                      /\ links'[client.link].down = Here.down

Rest == Returns \/ RecvFails \/ RecvGarbled \/ RecvEof \/ Timeout

LEMMA RestMoves ==
  ASSUME TypeInv, Rest
  PROVE  Rests
<1>1. CASE Returns
  <2>1. /\ Here.down # <<>> /\ client.pc = "answer"
        /\ Expected(Incoming.obj)
    BY <1>1 DEF Returns, Takes, Arrives
  <2>2. Incoming.obj.kind \in AnswerTo(client.wants)
    BY <2>1 DEF Expected
  <2>. QED  BY <1>1, <2>1, <2>2, PoppedDrains DEF Returns, Rests
<1>2. CASE RecvFails
  <2>1. Here.down # <<>> /\ links' = Popped(links)
    BY <1>2 DEF RecvFails, Arrives
  <2>2. client' = Idle(client) \/ client' = Idle(Heard)
    BY <1>2 DEF RecvFails
  <2>. QED  BY <1>2, <2>1, <2>2, PoppedDrains DEF RecvFails, Rests, history
<1>3. CASE RecvGarbled
  <2>1. PICK n \in 1..Len(Here.down), g \in BOOLEAN :
            links' = [links EXCEPT ![client.link].garbled = g,
                          ![client.link].down = SubSeq(@, n + 1, Len(@))]
    BY <1>3 DEF RecvGarbled
  <2>2. PICK d \in Seq(Frame) : /\ d = SubSeq(Here.down, n + 1, Len(Here.down))
                                /\ Items(d) \subseteq Items(Here.down)
    BY HereType, SuffixItems
  <2>3. PICK l : l = [Here EXCEPT !.garbled = g, !.down = d]
    OBVIOUS
  <2>4. /\ l \in Link /\ l.up = Here.up /\ l.down = d /\ l.alive = Here.alive
        /\ l.cut = Here.cut
    BY <2>3, HereType DEF Link
  <2>5. links' = [links EXCEPT ![client.link] = l]
    BY <2>1, <2>2, <2>3, HereType DEF Here
  <2>6. Drained
    BY <2>2, <2>4, <2>5, HereType DEF Drained, Elsewhere
  <2>. QED  BY <1>3, <2>6 DEF RecvGarbled, Rests, history
<1>4. CASE RecvEof
  <2>1. Drained /\ links'[client.link] = Here
    BY <1>4, HereType DEF RecvEof, Drained, Elsewhere, Here
  <2>. QED  BY <1>4, <2>1 DEF RecvEof, Rests, history
<1>5. CASE Timeout
  <2>1. PICK torn \in BOOLEAN :
            links' = [links EXCEPT ![client.link].garbled = @ \/ torn]
    BY <1>5 DEF Timeout
  <2>2. PICK g \in BOOLEAN : g = (Here.garbled \/ torn)
    OBVIOUS
  <2>3. PICK l : l = [Here EXCEPT !.garbled = g]
    OBVIOUS
  <2>4. /\ l \in Link /\ l.up = Here.up /\ l.down = Here.down
        /\ l.alive = Here.alive /\ l.cut = Here.cut
    BY <2>3, HereType DEF Link
  <2>5. links' = [links EXCEPT ![client.link] = l]
    BY <2>1, <2>2, <2>3, HereType DEF Here
  <2>6. Drained
    BY <2>4, <2>5, HereType DEF Drained, Elsewhere
  <2>. QED  BY <1>5, <2>6 DEF Timeout, Rests
<1>. QED  BY <1>1, <1>2, <1>3, <1>4, <1>5 DEF Rest

(* The client takes the key.                                               *)
Keyed ==
    /\ Drained /\ links'[client.link].down = Tail(Here.down)
    /\ links'[client.link].garbled = Here.garbled
    /\ Here.down # <<>> /\ client.pc = "dh_gen" /\ client.nonce # 0
    /\ Finishes(Incoming) /\ Incoming.obj.value = Secret /\ Accepts(Incoming)
    /\ client' \in Client /\ client' = Idle(client')
    /\ client'.pc = "idle" /\ client'.link = client.link
    /\ client'.key = {Secret} /\ client'.seq = client.seq
    /\ client'.rseq = Heard.rseq
    /\ client'.sent = 0 /\ client'.nonce = 0 /\ client'.wants = ""
    /\ UNCHANGED <<server, drawn, history>>

LEMMA AuthDHGenMoves ==
  ASSUME TypeInv, CallInv, AuthDHGen
  PROVE  Keyed
<1>1. /\ Here.down # <<>> /\ client.pc = "dh_gen" /\ Finishes(Incoming)
      /\ Incoming.obj.value = Secret /\ Accepts(Incoming)
  BY DEF AuthDHGen, Takes, Arrives, Expected, Finishes
<1>2. client.nonce # 0
  BY <1>1 DEF CallInv, Exchanging
<1>3. PICK k \in Keys : k = Secret
  BY <1>1, IncomingType DEF Keys
<1>4. PICK c \in Client : /\ c = Idle(Heard) /\ c.pc = "idle"
                          /\ c.link = client.link /\ c.seq = client.seq
                          /\ c.rseq = Heard.rseq
                          /\ c.nonce = 0 /\ c.wants = "" /\ Idle(c) = c
  BY HereType, HeardFields, IdleFields DEF Same
<1>5. PICK ks \in SUBSET Keys : ks = {k}
  OBVIOUS
<1>6. PICK d : d = [c EXCEPT !.key = ks, !.sent = 0]
  OBVIOUS
<1>7. /\ d \in Client /\ d.pc = "idle" /\ d.link = client.link
      /\ d.key = ks /\ d.seq = client.seq /\ d.rseq = Heard.rseq
      /\ d.sent = 0 /\ d.nonce = 0 /\ d.wants = ""
  BY <1>4, <1>6 DEF Client
<1>8. d = Idle(d)
  <2>1. c.snonce = 0 /\ c.ga = <<>> /\ c.call = 0
    BY <1>4, HereType, HeardFields, IdleFields
  <2>2. d.snonce = 0 /\ d.ga = <<>> /\ d.call = 0
    BY <1>4, <1>6, <2>1 DEF Client
  <2>. QED  BY <1>7, <2>2 DEF Idle, Client
<1>9. client' = d
  BY <1>3, <1>4, <1>5, <1>6 DEF AuthDHGen
<1>10. Drained /\ links'[client.link].down = Tail(Here.down)
       /\ links'[client.link].garbled = Here.garbled
  BY <1>1, PoppedDrains DEF AuthDHGen
<1>. QED  BY <1>1, <1>2, <1>3, <1>5, <1>7, <1>8, <1>9, <1>10
          DEF Keyed, AuthDHGen

(* The client opens connection i, and of what the server has not read of   *)
(* the old one a part remains.                                             *)
Moved(i) ==
    /\ i \in Links /\ i # client.link
    /\ links' \in [Links -> Link]
    /\ links'[i].up = <<>> /\ links'[i].down = <<>>
    /\ ~links'[i].cut /\ ~links'[i].garbled
    /\ Items(links'[client.link].up) \subseteq Items(Here.up)
    /\ \A j \in DOMAIN links'[client.link].up :
          j \in DOMAIN Here.up /\ links'[client.link].up[j] = Here.up[j]
    /\ links'[client.link].down = <<>>
    /\ links'[client.link].alive = Here.alive
    /\ ~links'[client.link].cut
    /\ ~Here.alive => links'[client.link].up = <<>>
    /\ \A e \in Links \ {i, client.link} : links'[e] = links[e]
    /\ client' \in Client /\ client'.pc = "idle" /\ client'.link = i
    /\ client'.key = {} /\ client'.seq = -1 /\ client'.rseq = -1
    /\ client'.nonce = 0 /\ client'.wants = "" /\ client' = Idle(client')
    /\ late' = FALSE /\ answer' = {}
    /\ UNCHANGED <<server, drawn, refused>>

LEMMA ReconnectMoves ==
  ASSUME TypeInv, Reconnect
  PROVE  \E i : Moved(i)
<1>1. PICK i \in Links \ {client.link}, n \in 0..Len(Here.up) :
          /\ links' = [links EXCEPT ![client.link] = Left(@, n),
                                    ![i] = FreshLink]
          /\ client' = Fresh(i)
  BY DEF Reconnect, Here
<1>2. PICK u \in Seq(Frame) :
          /\ u = SubSeq(Here.up, 1, n) /\ Items(u) \subseteq Items(Here.up)
          /\ \A j \in DOMAIN u : j \in DOMAIN Here.up /\ u[j] = Here.up[j]
          /\ Here.up = <<>> => u = <<>>
  <2>1. Here.up \in Seq(Frame) /\ n \in 0..Len(Here.up)
    BY HereType
  <2>2. PICK u : u = SubSeq(Here.up, 1, n)
    OBVIOUS
  <2>3. /\ u \in Seq(Frame) /\ Items(u) \subseteq Items(Here.up)
        /\ DOMAIN u = 1..n /\ DOMAIN Here.up = 1..Len(Here.up)
        /\ \A j \in DOMAIN u : u[j] = Here.up[j]
    BY <2>1, <2>2, PrefixItems
  <2>4. Here.up = <<>> => u = <<>>
    BY <2>1, <2>3
  <2>5. Len(Here.up) \in Nat /\ 1..n \subseteq 1..Len(Here.up)
    BY <2>1
  <2>. QED  BY <2>2, <2>3, <2>4, <2>5
<1>3. PICK l : l = Left(Here, n)
  OBVIOUS
<1>4. /\ l \in Link /\ l.up = u /\ l.down = <<>> /\ l.alive = Here.alive
      /\ ~l.cut
  BY <1>2, <1>3, HereType, NoItems DEF Left, FreshLink, Link
<1>5. PICK m : m = FreshLink
  OBVIOUS
<1>6. m \in Link /\ m.up = <<>> /\ m.down = <<>> /\ ~m.cut /\ ~m.garbled
  BY <1>5, NoItems DEF FreshLink, Link
<1>7. links' = [links EXCEPT ![client.link] = l, ![i] = m]
  BY <1>1, <1>3, <1>5, HereType DEF Here
<1>8. /\ links' \in [Links -> Link] /\ links'[i] = m
      /\ links'[client.link] = l
      /\ \A e \in Links \ {i, client.link} : links'[e] = links[e]
  BY <1>4, <1>6, <1>7, HereType
<1>9. PICK c : c = Fresh(i)
  OBVIOUS
<1>10. /\ c \in Client /\ c.pc = "idle" /\ c.link = i
       /\ c.key = {} /\ c.seq = -1 /\ c.rseq = -1
       /\ c.nonce = 0 /\ c.wants = "" /\ c = Idle(c)
  <2>1. PICK none \in Seq(Nat) : none = <<>>
    BY NoItems
  <2>2. PICK ks \in SUBSET Keys : ks = {}
    OBVIOUS
  <2>6. PICK z \in Int : z = -1
    OBVIOUS
  <2>3. c = [pc |-> "idle", link |-> i, key |-> ks, seq |-> z, rseq |-> z,
             sent |-> 0, nonce |-> 0, snonce |-> 0, ga |-> none, call |-> 0,
             wants |-> ""]
    BY <1>9, <2>1, <2>2, <2>6 DEF Fresh
  <2>4. /\ c \in Client /\ c.pc = "idle" /\ c.link = i
        /\ c.key = ks /\ c.seq = z /\ c.rseq = z
        /\ c.nonce = 0 /\ c.wants = ""
        /\ c.ga = none /\ c.snonce = 0 /\ c.call = 0
    BY <2>3 DEF Client
  <2>5. c = Idle(c)
    BY <2>1, <2>4 DEF Idle, Client
  <2>. QED  BY <2>2, <2>4, <2>5, <2>6
<1>11. ~Here.alive => u = <<>>
  BY <1>2, HereType DEF TypeInv, Here
<1>12. client' = c /\ late' = FALSE /\ answer' = {}
       /\ UNCHANGED <<server, drawn, refused>>
  BY <1>1, <1>9 DEF Reconnect
<1>13. Moved(i)
  BY <1>1, <1>2, <1>4, <1>6, <1>8, <1>10, <1>11, <1>12 DEF Moved
<1>. QED  BY <1>13

-----------------------------------------------------------------------------
(* The steps of the server *)

(* What a frame makes of the sessions: how far the server has come with    *)
(* it, the sessions it has opened, and the answers it has sent.            *)
Progress(ss, f, how, fresh, n) ==
    /\ DOMAIN ss = DOMAIN sessions \cup fresh
    /\ DOMAIN ss \subseteq Keys
    /\ ss \in [DOMAIN ss -> ServerSession]
    /\ fresh \cap DOMAIN sessions = {}
    /\ \A k \in fresh : ss[k].rseq = -1 /\ ss[k].sseq = -1 /\ ss[k].done = <<>>
    /\ \A k \in DOMAIN sessions :
          /\ ss[k].rseq = IF k \in f.key /\ how # "kept" THEN f.seq
                          ELSE sessions[k].rseq
          /\ ss[k].done = IF k \in f.key /\ how = "executed"
                          THEN Append(sessions[k].done, f.id)
                          ELSE sessions[k].done
          /\ ss[k].sseq = IF k \in f.key THEN sessions[k].sseq + n
                                         ELSE sessions[k].sseq

LEMMA SessionType ==
  ASSUME TypeInv, NEW k \in DOMAIN sessions
  PROVE  /\ sessions[k] \in ServerSession
         /\ sessions[k].rseq \in Int /\ sessions[k].sseq \in Int
         /\ sessions[k].user \in {0, 1} /\ sessions[k].done \in Seq(Nat)
BY DEF TypeInv, ServerSession

LEMMA KeptProgress ==
  ASSUME TypeInv, NEW f \in Frame
  PROVE  Progress(sessions, f, "kept", {}, 0)
BY SessionType DEF TypeInv, Progress

LEMMA CountedProgress ==
  ASSUME TypeInv, NEW f \in Frame
  PROVE  Progress(Counted(f), f, "counted", {}, 0)
<1>1. f.seq \in Int
  BY DEF Frame
<1>2. DOMAIN Counted(f) = DOMAIN sessions
  BY DEF Counted
<1>3. ASSUME NEW k \in DOMAIN sessions
      PROVE  /\ Counted(f)[k] \in ServerSession
             /\ Counted(f)[k].rseq = IF k \in f.key THEN f.seq
                                     ELSE sessions[k].rseq
             /\ Counted(f)[k].done = sessions[k].done
             /\ Counted(f)[k].sseq = sessions[k].sseq
  <2>1. Counted(f)[k] = IF k \in f.key THEN [sessions[k] EXCEPT !.rseq = f.seq]
                                       ELSE sessions[k]
    BY DEF Counted
  <2>2. PICK s : s = [sessions[k] EXCEPT !.rseq = f.seq]
    OBVIOUS
  <2>3. /\ s \in ServerSession /\ s.rseq = f.seq
        /\ s.done = sessions[k].done /\ s.sseq = sessions[k].sseq
    BY <1>1, <2>2, SessionType DEF ServerSession
  <2>. QED  BY <2>1, <2>2, <2>3, SessionType
<1>4. Counted(f) \in [DOMAIN sessions -> ServerSession]
  BY <1>2, <1>3 DEF Counted
<1>. QED  BY <1>2, <1>3, <1>4, SessionType DEF Progress, TypeInv

LEMMA ExecutedProgress ==
  ASSUME TypeInv, NEW f \in Frame
  PROVE  Progress(Executed(f), f, "executed", {}, 0)
<1>1. f.seq \in Int /\ f.id \in Nat
  BY DEF Frame
<1>2. DOMAIN Executed(f) = DOMAIN sessions
  BY DEF Executed
<1>3. ASSUME NEW k \in DOMAIN sessions
      PROVE  /\ Executed(f)[k] \in ServerSession
             /\ Executed(f)[k].rseq = IF k \in f.key THEN f.seq
                                      ELSE sessions[k].rseq
             /\ Executed(f)[k].done = IF k \in f.key
                                      THEN Append(sessions[k].done, f.id)
                                      ELSE sessions[k].done
             /\ Executed(f)[k].sseq = sessions[k].sseq
             /\ Executed(f)[k].user = sessions[k].user
  <2>1. CASE k \notin f.key
    BY <2>1, SessionType DEF Executed
  <2>2. CASE k \in f.key
    <3>1. Counted(f)[k] = [sessions[k] EXCEPT !.rseq = f.seq]
      BY <2>2 DEF Counted
    <3>2. PICK q \in Seq(Nat) : q = Append(sessions[k].done, f.id)
      BY <1>1, SessionType, AppendItems
    <3>3. PICK s : s = [sessions[k] EXCEPT !.rseq = f.seq]
      OBVIOUS
    <3>4. /\ s \in ServerSession /\ s.rseq = f.seq /\ s.done = sessions[k].done
          /\ s.sseq = sessions[k].sseq /\ s.user = sessions[k].user
      BY <1>1, <3>3, SessionType DEF ServerSession
    <3>5. PICK t : t = [s EXCEPT !.done = q]
      OBVIOUS
    <3>6. /\ t \in ServerSession /\ t.rseq = f.seq /\ t.done = q
          /\ t.sseq = sessions[k].sseq /\ t.user = sessions[k].user
      BY <3>4, <3>5 DEF ServerSession
    <3>7. Executed(f)[k] = t
      <4>1. Executed(f)[k] = [Counted(f)[k] EXCEPT !.done = Append(@, f.id)]
        BY <2>2 DEF Executed
      <4>2. Counted(f)[k] = s
        BY <3>1, <3>3
      <4>3. Executed(f)[k] = [s EXCEPT !.done = Append(s.done, f.id)]
        BY <4>1, <4>2
      <4>. QED  BY <3>2, <3>4, <3>5, <4>3
    <3>. QED  BY <2>2, <3>2, <3>6, <3>7
  <2>. QED  BY <2>1, <2>2
<1>4. Executed(f) \in [DOMAIN sessions -> ServerSession]
  BY <1>2, <1>3 DEF Executed
<1>. QED  BY <1>2, <1>3, <1>4, SessionType DEF Progress, TypeInv

(* sign_up, which also sets the session's user.                            *)
LEMMA SignUpProgress ==
  ASSUME TypeInv, NEW f \in Frame, NEW ss,
         ss = [k \in DOMAIN sessions |->
                  IF k \in f.key THEN [Executed(f)[k] EXCEPT !.user = 1]
                                 ELSE sessions[k]]
  PROVE  Progress(ss, f, "executed", {}, 0)
<1>1. Progress(Executed(f), f, "executed", {}, 0)
  BY ExecutedProgress
<1>2. ASSUME NEW k \in DOMAIN sessions
      PROVE  /\ ss[k] \in ServerSession
             /\ ss[k].rseq = Executed(f)[k].rseq
             /\ ss[k].done = Executed(f)[k].done
             /\ ss[k].sseq = Executed(f)[k].sseq
  <2>1. Executed(f)[k] \in ServerSession
    BY <1>1 DEF Progress
  <2>2. CASE k \notin f.key
    <3>1. ss[k] = sessions[k]
      BY <2>2
    <3>. QED  BY <1>1, <2>2, <3>1, SessionType DEF Progress
  <2>3. CASE k \in f.key
    <3>1. PICK s \in ServerSession : s = Executed(f)[k]
      BY <2>1
    <3>2. PICK t : t = [s EXCEPT !.user = 1]
      OBVIOUS
    <3>3. ss[k] = t
      BY <2>3, <3>1, <3>2
    <3>4. /\ t \in ServerSession /\ t.rseq = s.rseq /\ t.done = s.done
          /\ t.sseq = s.sseq
      BY <3>1, <3>2 DEF ServerSession
    <3>. QED  BY <3>1, <3>3, <3>4
  <2>. QED  BY <2>2, <2>3
<1>3. ss \in [DOMAIN sessions -> ServerSession] /\ DOMAIN ss = DOMAIN sessions
  BY <1>2
<1>. QED  BY <1>1, <1>2, <1>3, SessionType DEF Progress

(* A handshake ends with a session of its own.                             *)
LEMMA NewSessionProgress ==
  ASSUME TypeInv, NEW f \in Frame, NEW ss, NEW how, NEW k \in Keys,
         Progress(ss, f, how, {}, 0), k \notin DOMAIN sessions
  PROVE  Progress(With(ss, k, NewSession), f, how, {k}, 0)
<1>1. PICK t : t = With(ss, k, NewSession)
  OBVIOUS
<1>2. /\ DOMAIN t = DOMAIN sessions \cup {k}
      /\ t[k] = NewSession
      /\ \A x \in DOMAIN sessions : t[x] = ss[x]
      /\ t = [x \in DOMAIN t |-> t[x]]
  BY <1>1 DEF With, Progress
<1>3. /\ NewSession \in ServerSession
      /\ NewSession.rseq = -1 /\ NewSession.sseq = -1
      /\ NewSession.done = <<>>
  <2>1. PICK none \in Seq(Nat) : none = <<>>
    BY NoItems
  <2>2. PICK z \in Int : z = -1
    OBVIOUS
  <2>3. NewSession = [rseq |-> z, sseq |-> z, user |-> 0, done |-> none]
    BY <2>1, <2>2 DEF NewSession
  <2>. QED  BY <2>1, <2>2, <2>3 DEF ServerSession
<1>4. \A x \in DOMAIN t : t[x] \in ServerSession
  BY <1>2, <1>3 DEF Progress
<1>5. t \in [DOMAIN t -> ServerSession]
  BY <1>2, <1>4
<1>. QED  BY <1>1, <1>2, <1>3, <1>5 DEF Progress, TypeInv

(* An answer takes the next number of the session.                         *)
LEMMA AnsweredProgress ==
  ASSUME TypeInv, NEW f \in Frame, NEW ss, NEW how, NEW fresh,
         Progress(ss, f, how, fresh, 0), f.key \cap fresh = {}
  PROVE  Progress(Answered(f, ss), f, how, fresh, 1)
<1>1. PICK t : t = Answered(f, ss)
  OBVIOUS
<1>2. DOMAIN t = DOMAIN ss
  BY <1>1 DEF Answered
<1>3. ASSUME NEW k \in DOMAIN ss
      PROVE  /\ t[k] \in ServerSession
             /\ t[k].rseq = ss[k].rseq /\ t[k].done = ss[k].done
             /\ t[k].sseq = IF k \in f.key THEN ss[k].sseq + 1 ELSE ss[k].sseq
             /\ k \notin f.key => t[k] = ss[k]
  <2>1. PICK s \in ServerSession : s = ss[k]
    BY DEF Progress
  <2>2. CASE k \notin f.key
    BY <1>1, <2>1, <2>2 DEF Answered
  <2>3. CASE k \in f.key
    <3>1. PICK m \in Int : m = s.sseq + 1
      <4>1. s.sseq \in Int
        BY DEF ServerSession
      <4>. QED  BY <4>1
    <3>2. t[k] = [s EXCEPT !.sseq = m]
      BY <1>1, <2>1, <2>3, <3>1 DEF Answered
    <3>. QED  BY <2>1, <2>3, <3>1, <3>2 DEF ServerSession
  <2>. QED  BY <2>2, <2>3
<1>4. t \in [DOMAIN ss -> ServerSession]
  BY <1>1, <1>3 DEF Answered
<1>5. \A k \in DOMAIN sessions : sessions[k].sseq \in Int
  BY SessionType
<1>. QED  BY <1>1, <1>2, <1>3, <1>4, <1>5 DEF Progress

(* What a frame makes of its connection: the server goes on to the next,   *)
(* after an answer or without one, or closes it.                           *)
Reads(i) ==
    /\ Elsewhere(i)
    /\ links'[i].alive /\ links'[i].up = Tail(links[i].up)
    /\ links'[i].cut = links[i].cut /\ links'[i].garbled = links[i].garbled
Shuts(i) ==
    /\ Elsewhere(i)
    /\ ~links'[i].alive /\ links'[i].up = <<>>
    /\ links'[i].cut = links[i].cut /\ links'[i].garbled = links[i].garbled
    /\ links'[i].down = links[i].down

LEMMA ReadReads ==
  ASSUME TypeInv, NEW i \in Links, HasFrame(i),
         links' = [links EXCEPT ![i] = Read(@)]
  PROVE  Reads(i) /\ links'[i].down = links[i].down
<1>1. PICK u \in Seq(Frame) : u = Tail(links[i].up)
  BY LinkType, TailItems DEF HasFrame
<1>2. PICK l : l = [links[i] EXCEPT !.up = u]
  OBVIOUS
<1>3. /\ l \in Link /\ l.up = u /\ l.down = links[i].down
      /\ l.alive = links[i].alive
      /\ l.cut = links[i].cut /\ l.garbled = links[i].garbled
  BY <1>2, LinkType DEF Link
<1>4. links' = [links EXCEPT ![i] = l]
  BY <1>1, <1>2 DEF Read
<1>5. links' \in [Links -> Link] /\ links'[i] = l
      /\ \A e \in Links \ {i} : links'[e] = links[e]
  BY <1>3, <1>4 DEF TypeInv
<1>. QED  BY <1>1, <1>3, <1>5 DEF Reads, Elsewhere, HasFrame

LEMMA AnswerReads ==
  ASSUME TypeInv, NEW i \in Links, HasFrame(i), NEW r \in Frame,
         links' = [links EXCEPT ![i] = Deliver(Read(@), r)]
  PROVE  Reads(i) /\ links'[i].down = Append(links[i].down, r)
<1>1. PICK u \in Seq(Frame) : u = Tail(links[i].up)
  BY LinkType, TailItems DEF HasFrame
<1>2. PICK d \in Seq(Frame) : d = Append(links[i].down, r)
  BY LinkType, AppendItems
<1>3. PICK m : m = [links[i] EXCEPT !.up = u]
  OBVIOUS
<1>4. /\ m \in Link /\ m.up = u /\ m.down = links[i].down
      /\ m.alive = links[i].alive
      /\ m.cut = links[i].cut /\ m.garbled = links[i].garbled
  BY <1>3, LinkType DEF Link
<1>5. PICK l : l = [m EXCEPT !.down = d]
  OBVIOUS
<1>6. /\ l \in Link /\ l.up = u /\ l.down = d
      /\ l.alive = links[i].alive
      /\ l.cut = links[i].cut /\ l.garbled = links[i].garbled
  BY <1>4, <1>5 DEF Link
<1>7. links' = [links EXCEPT ![i] = l]
  <2>1. m = Read(links[i])
    BY <1>1, <1>3 DEF Read
  <2>2. l = Deliver(m, r)
    BY <1>2, <1>4, <1>5 DEF Deliver
  <2>. QED  BY <2>1, <2>2
<1>8. links' \in [Links -> Link] /\ links'[i] = l
      /\ \A e \in Links \ {i} : links'[e] = links[e]
  BY <1>6, <1>7 DEF TypeInv
<1>. QED  BY <1>1, <1>2, <1>6, <1>8 DEF Reads, Elsewhere, HasFrame

LEMMA ClosedShuts ==
  ASSUME TypeInv, NEW i \in Links, links' = [links EXCEPT ![i] = Closed(@)]
  PROVE  Shuts(i)
<1>1. PICK u \in Seq(Frame) : u = <<>>
  BY NoItems
<1>2. PICK l : l = [links[i] EXCEPT !.up = u, !.alive = FALSE]
  OBVIOUS
<1>3. /\ l \in Link /\ l.up = u /\ l.down = links[i].down /\ ~l.alive
      /\ l.cut = links[i].cut /\ l.garbled = links[i].garbled
  BY <1>2, LinkType DEF Link
<1>4. links' = [links EXCEPT ![i] = l]
  BY <1>1, <1>2 DEF Closed
<1>5. links' \in [Links -> Link] /\ links'[i] = l
      /\ \A e \in Links \ {i} : links'[e] = links[e]
  BY <1>3, <1>4 DEF TypeInv
<1>. QED  BY <1>1, <1>3, <1>5 DEF Shuts, Elsewhere

(* What the frame f at the head of connection i comes to: how far it gets, *)
(* the sessions it opens, and the answers the client gets to it.           *)
AnswersTo(f, r) ==
    /\ r \in Frame /\ r.key = f.key /\ Asks(f)
    /\ r.obj.kind = "DHGenOk" =>
          /\ Opens(f) /\ r.obj.nonce = f.obj.nonce
          /\ r.obj.value \in DOMAIN sessions'
    /\ r.obj.kind = "ServerDHParamsOk" =>
          /\ f.obj.kind = "ReqDHParams" /\ r.obj.nonce = f.obj.nonce
          /\ Matching(store', r.obj) # {}
    /\ r.obj.kind # "ReqDHParams"
    /\ Tells(r) => f.obj.kind \in Questions /\ r.obj.call = f.obj.call
    /\ \/ "read_fault" \in Disturbances
       \/ \A k \in f.key : r.seq = sessions[k].sseq + 1
Effect(i, f, how, fresh, answers) ==
    /\ \/ Shuts(i) /\ answers = {}
       \/ Reads(i) /\ answers = {} /\ links'[i].down = links[i].down
       \/ /\ i = client.link
          /\ \E r \in answers : /\ AnswersTo(f, r) /\ answers = {r}
                                /\ Reads(i)
                                /\ links'[i].down = Append(links[i].down, r)
    /\ \E n \in {0, 1} : /\ Progress(sessions', f, how, fresh, n)
                         /\ \/ "read_fault" \in Disturbances
                            \/ i = client.link => (n = 1 <=> answers # {})
    /\ \A k \in fresh : /\ Opens(f) /\ Len(k) = 2
                        /\ k[1] \in 1..issued /\ k[2] = f.obj.nonce
    /\ how # "kept" => Admitted(f)
    /\ how \in {"kept", "executed"} \/ Shuts(i)
    /\ how = "kept" /\ f.key # {} =>
          \/ Shuts(i) \/ ~Admitted(f)
          \/ {"clock", "read_fault"} \cap Disturbances # {}
StoreEffect(f) ==
    /\ store' \subseteq Entry
    /\ \A e \in store' : e.secret \in 1..issued'
    /\ \A e, g \in store' : e.nonce = g.nonce /\ e.snonce = g.snonce => e = g
    /\ \A e \in store : \/ <<e.nonce, e.snonce>> \in aged
                        \/ Opens(f) /\ e.nonce = f.obj.nonce
                        \/ \E g \in store' : /\ g.nonce = e.nonce
                                             /\ g.snonce = e.snonce
Served(i, f) ==
    /\ HasFrame(i) /\ f = First(i) /\ f \in Frame
    /\ UNCHANGED <<client, aged, drawn, late, answer>>
    /\ issued' \in Nat /\ issued' >= issued
    /\ StoreEffect(f)
    /\ \E how, fresh, answers : Effect(i, f, how, fresh, answers)

(* The frame at the head of a connection.                                  *)
LEMMA FirstFacts ==
  ASSUME TypeInv, KeyInv, NEW i \in Links, HasFrame(i), NEW f, f = First(i)
  PROVE  /\ f \in Frame /\ f \in Items(links[i].up) /\ f = links[i].up[1]
         /\ 1 \in DOMAIN links[i].up
         /\ f.key \subseteq DOMAIN sessions /\ AtMostOne(f.key)
         /\ f.seq \in Int /\ f.id \in Nat /\ f.obj \in Object
         /\ f.obj.nonce \in Nat /\ f.obj.snonce \in Nat
         /\ f.obj.value \in Seq(Nat) /\ f.obj.call \in Nat
         /\ UpKeyInv(i, f)
<1>1. links[i].up \in Seq(Frame) /\ links[i].up # <<>>
  BY LinkType DEF HasFrame
<1>2. f \in Frame /\ f \in Items(links[i].up) /\ f = links[i].up[1]
      /\ 1 \in DOMAIN links[i].up
  BY <1>1, TailItems DEF First
<1>3. f.seq \in Int /\ f.id \in Nat /\ f.obj \in Object
  BY <1>2 DEF Frame
<1>4. UpKeyInv(i, f)
  BY <1>2 DEF KeyInv
<1>. QED  BY <1>2, <1>3, <1>4 DEF UpKeyInv, Object

(* Its effect, from what the handler does.                                 *)
LEMMA NoReplyEffect ==
  ASSUME TypeInv, NEW i \in Links, HasFrame(i), NEW f, NEW ss, NEW how,
         Progress(ss, f, how, {}, 0), NoReply(i, ss),
         how \in {"kept", "executed"}, how = "kept" \/ Admitted(f),
         how = "kept" /\ f.key # {} =>
            ~Admitted(f) \/ {"clock", "read_fault"} \cap Disturbances # {}
  PROVE  Effect(i, f, how, {}, {})
<1>1. sessions' = ss /\ Reads(i) /\ links'[i].down = links[i].down
  BY ReadReads DEF NoReply
<1>. QED  BY <1>1 DEF Effect

LEMMA FailsEffect ==
  ASSUME TypeInv, NEW i \in Links, NEW f, NEW ss, NEW how, NEW fresh,
         Progress(ss, f, how, fresh, 0), Fails(i, ss),
         how = "kept" \/ Admitted(f),
         \A k \in fresh : /\ Opens(f) /\ Len(k) = 2
                          /\ k[1] \in 1..issued /\ k[2] = f.obj.nonce
  PROVE  Effect(i, f, how, fresh, {})
<1>1. sessions' = ss /\ Shuts(i)
  BY ClosedShuts DEF Fails
<1>. QED  BY <1>1 DEF Effect

LEMMA ReplyEffect ==
  ASSUME TypeInv, KeyInv, NEW i \in Links, HasFrame(i), NEW f, f = First(i),
         NEW ss, NEW fresh, Progress(ss, f, "executed", fresh, 0),
         NEW obj \in Object, Reply(i, ss, obj), Admitted(f), Asks(f),
         obj.kind = "DHGenOk" =>
             /\ Opens(f) /\ obj.nonce = f.obj.nonce
             /\ obj.value \in DOMAIN sessions \cup fresh,
         obj.kind = "ServerDHParamsOk" =>
             /\ f.obj.kind = "ReqDHParams" /\ obj.nonce = f.obj.nonce
             /\ Matching(store', obj) # {},
         obj.kind # "ReqDHParams",
         Tells([key |-> {}, seq |-> -1, id |-> 0, obj |-> obj]) =>
             f.obj.kind \in Questions /\ obj.call = f.obj.call,
         \A k \in fresh : /\ Opens(f) /\ Len(k) = 2
                          /\ k[1] \in 1..issued /\ k[2] = f.obj.nonce
  PROVE  \E answers : Effect(i, f, "executed", fresh, answers)
<1>1. /\ f.key \subseteq DOMAIN sessions /\ AtMostOne(f.key) /\ f \in Frame
  BY FirstFacts
<1>2. f.key \cap fresh = {}
  BY <1>1 DEF Progress
<1>3. ASSUME NEW r, NEW n \in {0, 1}, Send(i, r),
             r \in Frame, r.key = f.key, r.obj = obj,
             Progress(sessions', f, "executed", fresh, n),
             \/ "read_fault" \in Disturbances
             \/ n = 1 /\ \A k \in f.key : r.seq = sessions[k].sseq + 1
      PROVE  \E answers : Effect(i, f, "executed", fresh, answers)
  <2>1. CASE i # client.link
    <3>1. \/ Reads(i) /\ links'[i].down = links[i].down
          \/ Shuts(i)
      BY <1>3, <2>1, ReadReads, ClosedShuts DEF Send
    <3>2. Effect(i, f, "executed", fresh, {})
      BY <1>3, <2>1, <3>1 DEF Effect
    <3>. QED  BY <3>2
  <2>2. CASE i = client.link
    <3>1. Reads(i) /\ links'[i].down = Append(links[i].down, r)
      BY <1>3, <2>2, AnswerReads DEF Send
    <3>2. AnswersTo(f, r)
      BY <1>3 DEF AnswersTo, Progress, Tells
    <3>3. Effect(i, f, "executed", fresh, {r})
      BY <1>3, <2>2, <3>1, <3>2 DEF Effect
    <3>. QED  BY <3>3
  <2>. QED  BY <2>1, <2>2
<1>4. CASE sessions' = Answered(f, ss) /\ Send(i, AnswerFrame(f, obj))
  <2>1. PICK r : r = AnswerFrame(f, obj)
    OBVIOUS
  <2>2. /\ r.key = f.key /\ r.obj = obj /\ r \in Frame
        /\ \A k \in f.key : r.seq = sessions[k].sseq + 1
    <3>1. CASE f.key = {}
      <4>1. PICK m \in Int : m = -1
        OBVIOUS
      <4>2. r = [key |-> f.key, id |-> 0, obj |-> obj, seq |-> m]
        BY <2>1, <3>1, <4>1 DEF AnswerFrame
      <4>3. f.key \in SUBSET Keys
        BY <1>1 DEF Frame
      <4>. QED  BY <3>1, <4>2, <4>3 DEF Frame
    <3>2. CASE f.key # {}
      <4>1. PICK k \in f.key : k = (CHOOSE x \in f.key : TRUE)
        BY <3>2
      <4>2. PICK m \in Int : m = sessions[k].sseq + 1
        <5>1. sessions[k].sseq \in Int
          BY <1>1, SessionType
        <5>. QED  BY <5>1
      <4>3. r = [key |-> f.key, id |-> 0, obj |-> obj, seq |-> m]
        BY <2>1, <3>2, <4>1, <4>2 DEF AnswerFrame
      <4>4. f.key \in SUBSET Keys
        BY <1>1 DEF Frame
      <4>5. \A x \in f.key : x = k
        BY <1>1 DEF AtMostOne
      <4>. QED  BY <4>2, <4>3, <4>4, <4>5 DEF Frame
    <3>. QED  BY <3>1, <3>2
  <2>3. Progress(sessions', f, "executed", fresh, 1)
    BY <1>1, <1>2, <1>4, AnsweredProgress
  <2>4. Send(i, r)
    BY <1>4, <2>1
  <2>. QED  BY <1>3, <2>2, <2>3, <2>4
<1>5. CASE /\ "read_fault" \in Disturbances /\ sessions' = ss
           /\ Send(i, Unnumbered(f, obj))
  <2>0. PICK m \in Int : m = -1
    OBVIOUS
  <2>1. PICK r : r = Unnumbered(f, obj)
    OBVIOUS
  <2>2. r = [key |-> f.key, id |-> 0, obj |-> obj, seq |-> m]
    BY <2>0, <2>1 DEF Unnumbered
  <2>3. f.key \in SUBSET Keys
    BY <1>1 DEF Frame
  <2>4. r.key = f.key /\ r.obj = obj /\ r \in Frame
    BY <2>2, <2>3 DEF Frame
  <2>5. Progress(sessions', f, "executed", fresh, 0)
    BY <1>5
  <2>6. Send(i, r)
    BY <1>5, <2>1
  <2>. QED  BY <1>3, <1>5, <2>4, <2>5, <2>6
<1>. QED  BY <1>4, <1>5 DEF Reply

LEMMA StoreKept ==
  ASSUME TypeInv, OpenInv, store' = store, issued' \in Nat, issued' >= issued,
         NEW f
  PROVE  StoreEffect(f)
<1>1. \A e \in store : e.secret \in 1..issued'
  BY DEF OpenInv, TypeInv, Entry
<1>. QED  BY <1>1 DEF StoreEffect, TypeInv, OpenInv

LEMMA StoreCleaned ==
  ASSUME TypeInv, OpenInv, issued' = issued, NEW f, NEW done \in SUBSET store,
         store' = Clean(store) \ done,
         \A e \in done : Opens(f) /\ e.nonce = f.obj.nonce
  PROVE  StoreEffect(f)
<1>1. store' \subseteq store
  BY DEF Clean
<1>2. ASSUME NEW e \in store, <<e.nonce, e.snonce>> \notin aged, e \notin done
      PROVE  e \in store'
  BY <1>2 DEF Clean
<1>. QED  BY <1>1, <1>2 DEF StoreEffect, TypeInv, OpenInv

LEMMA DropsServed ==
  ASSUME TypeInv, KeyInv, OpenInv, NEW i \in Links, ServeDrops(i)
  PROVE  \E f : Served(i, f)
<1>1. PICK f : f = First(i)
  OBVIOUS
<1>2. HasFrame(i)
  BY DEF ServeDrops
<1>3. f \in Frame
  BY <1>1, <1>2, FirstFacts
<1>4. Effect(i, f, "kept", {}, {})
  BY <1>1, <1>2, <1>3, KeptProgress, NoReplyEffect DEF ServeDrops
<1>5. StoreEffect(f)
  BY StoreKept DEF ServeDrops, TypeInv
<1>6. Served(i, f)
  BY <1>1, <1>2, <1>3, <1>4, <1>5 DEF Served, ServeDrops, TypeInv, history
<1>. QED  BY <1>6

LEMMA ReqPqServed ==
  ASSUME TypeInv, KeyInv, OpenInv, NEW i \in Links, ServeReqPq(i)
  PROVE  \E f : Served(i, f)
<1>1. PICK f : f = First(i)
  OBVIOUS
<1>2. HasFrame(i) /\ Admitted(f) /\ f.obj.kind = "ReqPq"
  BY <1>1 DEF ServeReqPq, Handling
<1>3. f \in Frame /\ f.obj.nonce \in Nat
  BY <1>1, <1>2, FirstFacts
<1>4. PICK n \in Nat : n = issued + 1
  BY DEF TypeInv
<1>5. PICK obj \in Object :
          /\ obj = Obj("ResPQ", f.obj.nonce, n, <<>>) /\ obj.kind = "ResPQ"
  <2>1. Obj("ResPQ", f.obj.nonce, n, <<>>) \in Object
    BY <1>3, NoItems, ObjFields DEF ObjectKinds
  <2>. QED  BY <2>1 DEF Obj
<1>6. Reply(i, Executed(f), obj)
  BY <1>1, <1>4, <1>5 DEF ServeReqPq
<1>7. PICK answers : Effect(i, f, "executed", {}, answers)
  <2>1. Asks(f)
    BY <1>2 DEF Asks
  <2>2. ~Tells([key |-> {}, seq |-> -1, id |-> 0, obj |-> obj])
    BY <1>5 DEF Tells
  <2>. QED  BY <1>1, <1>2, <1>3, <1>5, <1>6, <2>1, <2>2, ExecutedProgress,
               ReplyEffect
<1>8. issued' \in Nat /\ issued' >= issued
  BY <1>4 DEF ServeReqPq, TypeInv
<1>9. StoreEffect(f)
  BY <1>8, StoreKept DEF ServeReqPq
<1>10. Served(i, f)
  BY <1>1, <1>2, <1>3, <1>7, <1>8, <1>9 DEF Served, ServeReqPq, history
<1>. QED  BY <1>10

LEMMA ReqDHParamsServed ==
  ASSUME TypeInv, KeyInv, OpenInv, NEW i \in Links, ServeReqDHParams(i)
  PROVE  \E f : Served(i, f)
<1>1. PICK f : f = First(i)
  OBVIOUS
<1>2. HasFrame(i) /\ Admitted(f) /\ f.obj.kind = "ReqDHParams"
  BY <1>1 DEF ServeReqDHParams, Handling
<1>3. f \in Frame /\ f.obj.nonce \in Nat /\ f.obj.snonce \in Nat
  BY <1>1, <1>2, FirstFacts
<1>4. PICK n \in Nat : n = issued + 1
  BY DEF TypeInv
<1>5. PICK v \in Seq(Nat) : v = <<n>>
  <2>1. <<n>> \in Seq(Nat)
    OBVIOUS
  <2>. QED  BY <2>1
<1>6. PICK obj \in Object :
          /\ obj = Obj("ServerDHParamsOk", f.obj.nonce, f.obj.snonce, v)
          /\ obj.kind = "ServerDHParamsOk"
          /\ obj.nonce = f.obj.nonce /\ obj.snonce = f.obj.snonce
  <2>1. Obj("ServerDHParamsOk", f.obj.nonce, f.obj.snonce, v) \in Object
    BY <1>3, ObjFields DEF ObjectKinds
  <2>. QED  BY <2>1 DEF Obj
<1>7. PICK e \in Entry : e = [nonce |-> f.obj.nonce, snonce |-> f.obj.snonce,
                              secret |-> n]
  BY <1>3 DEF Entry
<1>8. store' = (store \ Matching(store, f.obj)) \cup {e}
  BY <1>1, <1>4, <1>7 DEF ServeReqDHParams
<1>9. e.nonce = f.obj.nonce /\ e.snonce = f.obj.snonce /\ e.secret = n
  BY <1>7
<1>10. Reply(i, Executed(f), obj)
  BY <1>1, <1>4, <1>5, <1>6 DEF ServeReqDHParams
<1>11. PICK answers : Effect(i, f, "executed", {}, answers)
  <2>1. Asks(f)
    BY <1>2 DEF Asks
  <2>2. ~Tells([key |-> {}, seq |-> -1, id |-> 0, obj |-> obj])
    BY <1>6 DEF Tells
  <2>3. Matching(store', obj) # {}
    BY <1>6, <1>8, <1>9 DEF Matching
  <2>. QED  BY <1>1, <1>2, <1>3, <1>6, <1>10, <2>1, <2>2, <2>3,
               ExecutedProgress, ReplyEffect
<1>12. issued' \in Nat /\ issued' >= issued /\ issued' = n
  BY <1>4 DEF ServeReqDHParams, TypeInv
<1>13. StoreEffect(f)
  <2>1. store' \subseteq Entry
    BY <1>8 DEF TypeInv
  <2>2. \A g \in store' : g.secret \in 1..issued'
    BY <1>4, <1>8, <1>9, <1>12 DEF OpenInv, TypeInv, Entry
  <2>3. \A g, h \in store' : g.nonce = h.nonce /\ g.snonce = h.snonce => g = h
    BY <1>8, <1>9 DEF OpenInv, Matching
  <2>4. \A g \in store : \E h \in store' : h.nonce = g.nonce
                                           /\ h.snonce = g.snonce
    BY <1>8, <1>9 DEF Matching
  <2>. QED  BY <2>1, <2>2, <2>3, <2>4 DEF StoreEffect
<1>14. Served(i, f)
  BY <1>1, <1>2, <1>3, <1>11, <1>12, <1>13
     DEF Served, ServeReqDHParams, history
<1>. QED  BY <1>14

LEMMA SignUpServed ==
  ASSUME TypeInv, KeyInv, OpenInv, NEW i \in Links, ServeSignUp(i)
  PROVE  \E f : Served(i, f)
<1>1. PICK f : f = First(i)
  OBVIOUS
<1>2. HasFrame(i) /\ Admitted(f)
  BY <1>1 DEF ServeSignUp, Handling
<1>3. f \in Frame
  BY <1>1, <1>2, FirstFacts
<1>4. PICK ss : ss = [k \in DOMAIN sessions |->
                         IF k \in f.key THEN [Executed(f)[k] EXCEPT !.user = 1]
                                        ELSE sessions[k]]
  OBVIOUS
<1>5. NoReply(i, ss)
  BY <1>1, <1>4 DEF ServeSignUp
<1>6. Effect(i, f, "executed", {}, {})
  BY <1>1, <1>2, <1>3, <1>4, <1>5, SignUpProgress, NoReplyEffect
<1>7. StoreEffect(f)
  BY StoreKept DEF ServeSignUp, TypeInv
<1>8. Served(i, f)
  BY <1>1, <1>2, <1>3, <1>6, <1>7 DEF Served, ServeSignUp, TypeInv, history
<1>. QED  BY <1>8

LEMMA UserServed ==
  ASSUME TypeInv, KeyInv, OpenInv, NEW i \in Links, ServeUser(i)
  PROVE  \E f : Served(i, f)
<1>1. PICK f : f = First(i)
  OBVIOUS
<1>2. PICK kind \in {"SendMessage", "GetHistory", "SendMessageAck"} :
          /\ Handling(i, kind)
          /\ \/ First(i).key = {} /\ Fails(i, sessions)
             \/ /\ First(i).key # {} /\ AnswerTo(kind) = {}
                /\ NoReply(i, Executed(First(i)))
             \/ /\ First(i).key # {}
                /\ \E a \in AnswerTo(kind) :
                      Reply(i, Executed(First(i)),
                            UserObj(a, First(i).obj.call))
  BY DEF ServeUser
<1>3. HasFrame(i) /\ Admitted(f) /\ f.obj.kind = kind
  BY <1>1, <1>2 DEF Handling
<1>4. f \in Frame /\ f.obj.call \in Nat
  BY <1>1, <1>3, FirstFacts
<1>5. StoreEffect(f)
  BY StoreKept DEF ServeUser, TypeInv
<1>6. \E how, answers : Effect(i, f, how, {}, answers)
  <2>1. CASE Fails(i, sessions)
    BY <1>3, <1>4, <2>1, KeptProgress, FailsEffect
  <2>2. CASE NoReply(i, Executed(f))
    BY <1>3, <1>4, <2>2, ExecutedProgress, NoReplyEffect
  <2>3. ASSUME NEW a \in AnswerTo(kind),
               Reply(i, Executed(f), UserObj(a, f.obj.call))
        PROVE  \E answers : Effect(i, f, "executed", {}, answers)
    <3>1. kind \in Questions /\ a \in {"Message", "HistoryResult"}
      BY <1>2, <2>3 DEF AnswerTo, Questions
    <3>2. PICK obj \in Object : /\ obj = UserObj(a, f.obj.call)
                                /\ obj.kind = a /\ obj.call = f.obj.call
      BY <1>4, <3>1, UserObjFields DEF ObjectKinds
    <3>3. Asks(f) /\ f.obj.kind \in Questions
      BY <1>3, <3>1 DEF Asks
    <3>4. /\ obj.kind # "DHGenOk" /\ obj.kind # "ServerDHParamsOk"
          /\ obj.kind # "ReqDHParams"
      BY <3>1, <3>2
    <3>. QED  BY <1>1, <1>3, <1>4, <2>3, <3>2, <3>3, <3>4, ExecutedProgress,
                 ReplyEffect
  <2>. QED  BY <1>1, <1>2, <2>1, <2>2, <2>3
<1>7. Served(i, f)
  BY <1>1, <1>3, <1>4, <1>5, <1>6 DEF Served, ServeUser, TypeInv, history
<1>. QED  BY <1>7

LEMMA UserStatusServed ==
  ASSUME TypeInv, KeyInv, OpenInv, NEW i \in Links, ServeUserStatus(i)
  PROVE  \E f : Served(i, f)
<1>1. PICK f : f = First(i)
  OBVIOUS
<1>2. HasFrame(i) /\ Admitted(f)
  BY <1>1 DEF ServeUserStatus, Handling
<1>3. f \in Frame
  BY <1>1, <1>2, FirstFacts
<1>4. \/ Fails(i, sessions)
      \/ NoReply(i, Executed(f))
      \/ Fails(i, Executed(f))
  BY <1>1 DEF ServeUserStatus
<1>5. \E how : Effect(i, f, how, {}, {})
  BY <1>2, <1>3, <1>4, KeptProgress, ExecutedProgress, NoReplyEffect,
     FailsEffect
<1>6. StoreEffect(f)
  BY StoreKept DEF ServeUserStatus, TypeInv
<1>7. Served(i, f)
  BY <1>1, <1>2, <1>3, <1>5, <1>6 DEF Served, ServeUserStatus, TypeInv
<1>. QED  BY <1>7

LEMMA JoinPair ==
  ASSUME NEW s \in Nat, NEW n \in Nat, NEW k, k = <<s>> \o <<n>>
  PROVE  k[1] = s /\ k[2] = n /\ Len(k) = 2 /\ k \in Seq(Nat)
<1>1. /\ <<s>> \in Seq(Nat) /\ <<n>> \in Seq(Nat)
      /\ Len(<<s>>) = 1 /\ Len(<<n>>) = 1
  OBVIOUS
<1>2. PICK a \in Seq(Nat), b \in Seq(Nat) :
          /\ a = <<s>> /\ Len(a) = 1 /\ a[1] = s
          /\ b = <<n>> /\ Len(b) = 1 /\ b[1] = n
  BY <1>1
<1>. QED  BY <1>2, ConcatProperties

(* The key of a handshake is not a session's yet.                          *)
LEMMA NewKey ==
  ASSUME TypeInv, KeyInv, OpenInv, NEW i \in Links, HasFrame(i),
         NEW f, f = First(i), Opens(f), NEW e \in store,
         NEW k, k = <<e.secret>> \o f.obj.value
  PROVE  /\ k \in Keys /\ k \notin DOMAIN sessions
         /\ Len(k) = 2 /\ k[1] \in 1..issued /\ k[2] = f.obj.nonce
<1>1. /\ f.obj.nonce \in 1..attempts /\ f.obj.value = <<f.obj.nonce>>
      /\ \A x \in DOMAIN sessions : x[2] # f.obj.nonce
  BY FirstFacts DEF OpenInv
<1>2. PICK n \in Nat : n = f.obj.nonce
  BY <1>1 DEF TypeInv
<1>3. PICK s \in Nat : s = e.secret /\ s \in 1..issued
  BY DEF OpenInv, TypeInv, Entry
<1>4. k = <<s>> \o <<n>>
  BY <1>1, <1>2, <1>3
<1>5. k[1] = s /\ k[2] = n /\ Len(k) = 2 /\ k \in Seq(Nat)
  BY <1>4, JoinPair
<1>. QED  BY <1>1, <1>2, <1>3, <1>5 DEF Keys

LEMMA SetClientDHParamsServed ==
  ASSUME TypeInv, KeyInv, OpenInv, NEW i \in Links, ServeSetClientDHParams(i)
  PROVE  \E f : Served(i, f)
<1>1. PICK f : f = First(i)
  OBVIOUS
<1>2. HasFrame(i) /\ Admitted(f) /\ Opens(f)
  BY <1>1 DEF ServeSetClientDHParams, Handling, Opens
<1>3. f \in Frame /\ f.obj.nonce \in Nat /\ f.obj.snonce \in Nat
      /\ f.obj.value \in Seq(Nat)
  BY <1>1, <1>2, FirstFacts
<1>4. Progress(Executed(f), f, "executed", {}, 0)
  BY <1>3, ExecutedProgress
<1>5. CASE /\ Matching(Clean(store), f.obj) = {}
           /\ store' = Clean(store) /\ Fails(i, Executed(f))
  <2>1. Effect(i, f, "executed", {}, {})
    BY <1>2, <1>3, <1>4, <1>5, FailsEffect
  <2>2. StoreEffect(f)
    <3>1. PICK none \in SUBSET store : none = {}
      OBVIOUS
    <3>2. store' = Clean(store) \ none /\ issued' = issued
      BY <1>5, <3>1 DEF ServeSetClientDHParams
    <3>3. \A e \in none : Opens(f) /\ e.nonce = f.obj.nonce
      BY <3>1
    <3>. QED  BY <3>2, <3>3, StoreCleaned
  <2>3. Served(i, f)
    BY <1>1, <1>2, <1>3, <2>1, <2>2
       DEF Served, ServeSetClientDHParams, TypeInv, history
  <2>. QED  BY <2>3
<1>6. ASSUME NEW e \in Matching(Clean(store), f.obj),
             NEW k, k = <<e.secret>> \o f.obj.value,
             store' = Clean(store) \ {e},
             Reply(i, With(Executed(f), k, NewSession),
                   Obj("DHGenOk", f.obj.nonce, f.obj.snonce, k))
      PROVE  \E g : Served(i, g)
  <2>1. e \in store /\ e.nonce = f.obj.nonce
    BY <1>6 DEF Matching, Clean
  <2>2. /\ k \in Keys /\ k \notin DOMAIN sessions
        /\ Len(k) = 2 /\ k[1] \in 1..issued /\ k[2] = f.obj.nonce
    BY <1>1, <1>2, <1>6, <2>1, NewKey
  <2>3. Progress(With(Executed(f), k, NewSession), f, "executed", {k}, 0)
    BY <1>3, <1>4, <2>2, NewSessionProgress
  <2>4. PICK obj \in Object :
            /\ obj = Obj("DHGenOk", f.obj.nonce, f.obj.snonce, k)
            /\ obj.kind = "DHGenOk" /\ obj.nonce = f.obj.nonce /\ obj.value = k
    <3>0. k \in Seq(Nat)
      BY <2>2 DEF Keys
    <3>1. Obj("DHGenOk", f.obj.nonce, f.obj.snonce, k) \in Object
      BY <1>3, <3>0, ObjFields DEF ObjectKinds
    <3>. QED  BY <3>1 DEF Obj
  <2>5. PICK answers : Effect(i, f, "executed", {k}, answers)
    <3>1. Asks(f)
      BY <1>2 DEF Asks, Opens
    <3>2. ~Tells([key |-> {}, seq |-> -1, id |-> 0, obj |-> obj])
      BY <2>4 DEF Tells
    <3>3. Reply(i, With(Executed(f), k, NewSession), obj)
      BY <1>6, <2>4
    <3>. QED  BY <1>1, <1>2, <2>2, <2>3, <2>4, <3>1, <3>2, <3>3, ReplyEffect
  <2>6. StoreEffect(f)
    <3>1. issued' = issued
      BY DEF ServeSetClientDHParams
    <3>2. PICK done \in SUBSET store : done = {e}
      BY <2>1
    <3>3. store' = Clean(store) \ done
      BY <1>6, <3>2
    <3>4. \A g \in done : Opens(f) /\ g.nonce = f.obj.nonce
      BY <1>2, <2>1, <3>2
    <3>. QED  BY <3>1, <3>3, <3>4, StoreCleaned
  <2>7. Served(i, f)
    BY <1>1, <1>2, <1>3, <2>5, <2>6
       DEF Served, ServeSetClientDHParams, TypeInv, history
  <2>. QED  BY <2>7
<1>. QED  BY <1>1, <1>5, <1>6 DEF ServeSetClientDHParams

LEMMA FailsServed ==
  ASSUME TypeInv, KeyInv, OpenInv, NEW i \in Links, ServeFails(i)
  PROVE  \E f : Served(i, f)
<1>1. PICK f : f = First(i)
  OBVIOUS
<1>2. HasFrame(i) /\ Admitted(f)
  BY <1>1 DEF ServeFails
<1>3. f \in Frame
  BY <1>1, <1>2, FirstFacts
<1>4. StoreEffect(f)
  <2>1. issued' = issued /\ issued \in Nat
    BY DEF ServeFails, TypeInv
  <2>2. CASE store' = store
    BY <2>1, <2>2, StoreKept
  <2>3. CASE store' = Clean(store)
    <3>1. PICK none \in SUBSET store : none = {}
      OBVIOUS
    <3>2. store' = Clean(store) \ none
      BY <2>3, <3>1
    <3>3. \A e \in none : Opens(f) /\ e.nonce = f.obj.nonce
      BY <3>1
    <3>. QED  BY <2>1, <3>2, <3>3, StoreCleaned
  <2>. QED  BY <2>2, <2>3 DEF ServeFails
<1>5. \E how, fresh : Effect(i, f, how, fresh, {})
  <2>1. CASE Fails(i, sessions)
    BY <1>2, <1>3, <2>1, KeptProgress, FailsEffect
  <2>2. CASE Fails(i, Counted(f))
    BY <1>2, <1>3, <2>2, CountedProgress, FailsEffect
  <2>3. CASE Fails(i, Executed(f))
    BY <1>2, <1>3, <2>3, ExecutedProgress, FailsEffect
  <2>4. ASSUME f.obj.kind = "SetClientDHParams",
               NEW e \in Matching(Clean(store), f.obj),
               NEW k, k = <<e.secret>> \o f.obj.value,
               Fails(i, With(Executed(f), k, NewSession))
        PROVE  Effect(i, f, "executed", {k}, {})
    <3>1. Opens(f) /\ e \in store
      BY <2>4 DEF Opens, Matching, Clean
    <3>2. /\ k \in Keys /\ k \notin DOMAIN sessions
          /\ Len(k) = 2 /\ k[1] \in 1..issued /\ k[2] = f.obj.nonce
      BY <1>1, <1>2, <2>4, <3>1, NewKey
    <3>3. Progress(With(Executed(f), k, NewSession), f, "executed", {k}, 0)
      BY <1>3, <3>2, ExecutedProgress, NewSessionProgress
    <3>. QED  BY <1>2, <2>4, <3>1, <3>2, <3>3, FailsEffect
  <2>. QED  BY <1>1, <2>1, <2>2, <2>3, <2>4 DEF ServeFails
<1>6. Served(i, f)
  BY <1>1, <1>2, <1>3, <1>4, <1>5 DEF Served, ServeFails, TypeInv, history
<1>. QED  BY <1>6

LEMMA LooksUpServed ==
  ASSUME TypeInv, KeyInv, OpenInv, NEW i \in Links, ServeLooksUp(i)
  PROVE  \E f : Served(i, f)
<1>1. PICK f : f = First(i)
  OBVIOUS
<1>2. HasFrame(i) /\ "read_fault" \in Disturbances
  BY DEF ServeLooksUp
<1>3. f \in Frame
  BY <1>1, <1>2, FirstFacts
<1>4. \/ Fails(i, sessions)
      \/ Admitted(f) /\ Fails(i, Counted(f))
      \/ Admitted(f) /\ NoReply(i, Executed(f))
  BY <1>1 DEF ServeLooksUp, Handling
<1>5. \E how : Effect(i, f, how, {}, {})
  BY <1>2, <1>3, <1>4, KeptProgress, CountedProgress, ExecutedProgress,
     NoReplyEffect, FailsEffect
<1>6. StoreEffect(f)
  BY StoreKept DEF ServeLooksUp, TypeInv
<1>7. Served(i, f)
  BY <1>1, <1>2, <1>3, <1>5, <1>6 DEF Served, ServeLooksUp, TypeInv, history
<1>. QED  BY <1>7

LEMMA ServeServed ==
  ASSUME TypeInv, KeyInv, OpenInv, NEW i \in Links, Serve(i)
  PROVE  \E f : Served(i, f)
BY DropsServed, ReqPqServed, ReqDHParamsServed, SetClientDHParamsServed,
   SignUpServed, UserServed, UserStatusServed, LooksUpServed, FailsServed
   DEF Serve

LEMMA ChokesMoves ==
  ASSUME TypeInv, NEW i \in Links, ServeChokes(i)
  PROVE  /\ Shuts(i) /\ links[i].up = <<>>
         /\ UNCHANGED <<client, sessions, store, aged, issued, drawn, history>>
BY ClosedShuts DEF ServeChokes, Fails

(* The server is gone with all connections; of what it sent, a part        *)
(* arrives.                                                                *)
Reset ==
    /\ links' \in [Links -> Link]
    /\ \A i \in Links :
          /\ ~links'[i].alive /\ links'[i].up = <<>>
          /\ links'[i].cut = links[i].cut
          /\ links'[i].garbled = links[i].garbled
          /\ Items(links'[i].down) \subseteq Items(links[i].down)
    /\ Len(links'[client.link].down) <= Len(Here.down)
    /\ store' = {}
    /\ UNCHANGED <<client, sessions, aged, issued, drawn, history>>

LEMMA ClosedFields ==
  ASSUME TypeInv, NEW i \in Links
  PROVE  /\ Closed(links[i]) \in Link
         /\ ~Closed(links[i]).alive /\ Closed(links[i]).up = <<>>
         /\ Closed(links[i]).down = links[i].down
         /\ Closed(links[i]).cut = links[i].cut
         /\ Closed(links[i]).garbled = links[i].garbled
<1>1. PICK u \in Seq(Frame) : u = <<>>
  BY NoItems
<1>2. PICK l : l = [links[i] EXCEPT !.up = u, !.alive = FALSE]
  OBVIOUS
<1>3. /\ l \in Link /\ l.up = u /\ l.down = links[i].down /\ ~l.alive
      /\ l.cut = links[i].cut /\ l.garbled = links[i].garbled
  BY <1>2, LinkType DEF Link
<1>4. l = Closed(links[i])
  BY <1>1, <1>2 DEF Closed
<1>. QED  BY <1>1, <1>3, <1>4

LEMMA RestartMoves ==
  ASSUME TypeInv, Restart
  PROVE  Reset
<1>1. PICK n \in 0..Len(Here.down) :
          links' = [i \in Links |->
              IF i = client.link
              THEN [Closed(links[i]) EXCEPT !.down = SubSeq(@, 1, n)]
              ELSE Closed(links[i])]
  BY DEF Restart
<1>2. PICK d \in Seq(Frame) : /\ d = SubSeq(Here.down, 1, n) /\ Len(d) = n
                              /\ Items(d) \subseteq Items(Here.down)
  BY HereType, PrefixItems
<1>3. PICK m \in Link : /\ m = Closed(Here) /\ ~m.alive /\ m.up = <<>>
                        /\ m.down = Here.down /\ m.cut = Here.cut
                        /\ m.garbled = Here.garbled
  BY HereType, ClosedFields DEF Here
<1>4. PICK l : l = [m EXCEPT !.down = d]
  OBVIOUS
<1>5. /\ l \in Link /\ ~l.alive /\ l.up = <<>> /\ l.down = d
      /\ l.cut = Here.cut /\ l.garbled = Here.garbled
  BY <1>3, <1>4 DEF Link
<1>6. l = [Closed(Here) EXCEPT !.down = SubSeq(@, 1, n)]
  BY <1>2, <1>3, <1>4
<1>7. links'[client.link] = l
  BY <1>1, <1>6, HereType DEF Here
<1>8. \A i \in Links \ {client.link} : links'[i] = Closed(links[i])
  BY <1>1
<1>9. Here = links[client.link] /\ n <= Len(Here.down)
  BY HereType DEF Here
<1>10. ASSUME NEW i \in Links
       PROVE  /\ links'[i] \in Link
              /\ ~links'[i].alive /\ links'[i].up = <<>>
              /\ links'[i].cut = links[i].cut
              /\ links'[i].garbled = links[i].garbled
              /\ Items(links'[i].down) \subseteq Items(links[i].down)
  <2>1. CASE i = client.link
    BY <1>2, <1>5, <1>7, <1>9, <2>1
  <2>2. CASE i # client.link
    BY <1>8, <2>2, ClosedFields
  <2>. QED  BY <2>1, <2>2
<1>11. links' \in [Links -> Link]
  BY <1>1, <1>10
<1>. QED  BY <1>2, <1>5, <1>7, <1>9, <1>10, <1>11 DEF Reset, Restart

(* A call sends something: f is what is carried, if the write comes to     *)
(* that, and taken says whether a frame has been read first.               *)
Puts(f, taken) ==
    /\ f \in Frame /\ f.obj \in Object /\ f.key = client.key
    /\ f.key # {} => f.seq = client.seq + 1 /\ f.id = client.sent + 1
    /\ taken \in BOOLEAN /\ (taken => Here.down # <<>>)
    /\ Elsewhere(client.link)
    /\ links'[client.link].alive = Here.alive
    /\ links'[client.link].garbled = Here.garbled
    /\ links'[client.link].down = IF taken THEN Tail(Here.down) ELSE Here.down
    /\ client' \in Client
    /\ client'.link = client.link /\ client'.key = client.key
    /\ client'.seq = IF client.key = {} THEN client.seq ELSE client.seq + 1
    /\ client'.sent = IF client.key = {} THEN client.sent ELSE client.sent + 1

(* c is the client with what the call has noted before it sends.           *)
Follows(c) ==
    /\ client'.pc = c.pc /\ client'.nonce = c.nonce /\ client'.call = c.call
    /\ client'.wants = c.wants
Gives(c, f) ==
    /\ client'.rseq = c.rseq
    /\ \/ /\ Follows(c) /\ client' = Numbered(c)
          /\ links'[client.link].cut = Here.cut
          /\ \/ Here.alive /\ links'[client.link].up = Append(Here.up, f)
             \/ /\ ~Here.alive \/ Here.cut
                /\ links'[client.link].up = Here.up
       \/ /\ "send_fault" \in Disturbances
          /\ client' = Idle(client') /\ client'.pc = "idle"
          /\ client'.nonce = 0 /\ client'.wants = ""
          /\ links'[client.link].up = Here.up

LEMMA SentGives ==
  ASSUME TypeInv, NEW c \in Client, Same(c, client), NEW obj \in Object,
         NEW taken \in BOOLEAN, taken => Here.down # <<>>, Sent(c, obj, taken)
  PROVE  \E f : f.obj = obj /\ Puts(f, taken) /\ Gives(c, f)
<1>1. PICK n \in Client : /\ n = Numbered(c)
                          /\ n.pc = c.pc /\ n.link = client.link
                          /\ n.key = client.key /\ n.rseq = c.rseq
                          /\ n.nonce = c.nonce /\ n.call = c.call
                          /\ n.wants = c.wants
  BY NumberedFields DEF Same
<1>2. /\ n.seq = IF client.key = {} THEN client.seq ELSE client.seq + 1
      /\ n.sent = IF client.key = {} THEN client.sent ELSE client.sent + 1
  BY <1>1, NumberedFields DEF Same
<1>3. PICK f \in Frame : /\ f = FrameOf(n, obj) /\ f.obj = obj
                         /\ f.key = client.key
  BY <1>1, FrameFields
<1>4. f.key # {} => f.seq = n.seq /\ f.id = n.sent
  BY <1>1, <1>3, FrameFields
<1>5. f.key # {} => f.seq = client.seq + 1 /\ f.id = client.sent + 1
  BY <1>2, <1>3, <1>4
<1>6. \/ client' = n \/ client' = Idle(n)
  BY <1>1 DEF Sent
<1>7. /\ client' \in Client /\ client'.link = client.link
      /\ client'.key = client.key /\ client'.seq = n.seq
      /\ client'.sent = n.sent /\ client'.rseq = c.rseq
  <2>1. PICK m \in Client : /\ m = Idle(n) /\ m.link = n.link
                            /\ m.key = n.key /\ m.seq = n.seq
                            /\ m.sent = n.sent /\ m.rseq = n.rseq
    BY IdleFields
  <2>. QED  BY <1>1, <1>6, <2>1
<1>8. Puts(f, taken)
  BY <1>2, <1>3, <1>5, <1>7 DEF Puts, Sent
<1>9. CASE /\ client' = n
           /\ links'[client.link].cut = Here.cut
           /\ IF Here.alive /\ ~Here.cut
              THEN links'[client.link].up = Append(Here.up, FrameOf(n, obj))
              ELSE links'[client.link].up = Here.up
  <2>1. Follows(c)
    BY <1>1, <1>9 DEF Follows
  <2>2. Gives(c, f)
    BY <1>1, <1>3, <1>7, <1>9, <2>1 DEF Gives
  <2>. QED  BY <1>3, <1>8, <2>2
<1>10. CASE /\ "send_fault" \in Disturbances
            /\ client' = Idle(n)
            /\ links'[client.link].up = Here.up
  <2>1. /\ client' = Idle(client') /\ client'.pc = "idle"
        /\ client'.nonce = 0 /\ client'.wants = ""
    BY <1>1, <1>10, IdleFields
  <2>2. Gives(c, f)
    BY <1>7, <1>10, <2>1 DEF Gives
  <2>. QED  BY <1>3, <1>8, <2>2
<1>. QED  BY <1>1, <1>9, <1>10 DEF Sent

(* What the four calls that send have in common.                           *)
Goes(f, taken) ==
    /\ links'[client.link].up \in {Here.up, Append(Here.up, f)}
    /\ links'[client.link].up # Here.up => Here.alive
    /\ taken <=> client.pc # "idle"
    /\ taken => client.nonce # 0
    /\ client'.rseq = IF taken THEN Heard.rseq ELSE client.rseq
    /\ UNCHANGED <<sessions, store, aged, issued>>
    /\ UNCHANGED <<late, answer, refused>>
    /\ attempts' \in Nat /\ calls' \in Nat
    /\ CallInv'
    /\ \/ attempts' = attempts /\ client'.nonce \in {0, client.nonce}
       \/ /\ attempts' = attempts + 1 /\ client'.nonce \in {0, attempts'}
          /\ f.obj.kind = "ReqPq"
    /\ Opens(f) => /\ client.pc = "dh_params" /\ client.nonce # 0
                   /\ client'.pc \in {"idle", "dh_gen"}
                   /\ f.obj.nonce = client.nonce
                   /\ f.obj.snonce = client.snonce
                   /\ f.obj.value = <<client.nonce>>
                   /\ Expected(Incoming.obj)
    /\ Exchanges(f) => /\ f.obj.nonce = client.nonce /\ client.nonce # 0
                       /\ client'.pc \in {"idle", "dh_params"}
    /\ client'.pc = "res_pq" => attempts' = attempts + 1
    /\ client'.pc = "dh_params" => client.pc = "res_pq"
    /\ client'.pc = "dh_gen" => client.pc = "dh_params" /\ Opens(f)
    /\ client'.pc = "answer" => ~taken /\ f.obj.call = client'.call
    /\ Asks(f) => \/ client'.pc # "idle"
                  \/ links'[client.link].up = Here.up
    /\ \/ "send_fault" \in Disturbances
       \/ /\ links'[client.link].cut = Here.cut
          /\ \/ links'[client.link].up = Append(Here.up, f)
             \/ /\ ~Here.alive \/ Here.cut
                /\ links'[client.link].up = Here.up
    /\ f.obj.kind = "ReqPq" => client.key = {} \/ "rekey" \in Disturbances
Talks(f, taken) == Puts(f, taken) /\ Goes(f, taken)

LEMMA IdleStays ==
  ASSUME NEW c \in Client, c = Idle(c)
  PROVE  Numbered(c) = Idle(Numbered(c))
<1>1. PICK n \in Client : /\ n = Numbered(c)
                          /\ n.pc = c.pc /\ n.nonce = c.nonce
                          /\ n.snonce = c.snonce /\ n.ga = c.ga
                          /\ n.call = c.call /\ n.wants = c.wants
  BY NumberedFields
<1>2. /\ c.pc = "idle" /\ c.nonce = 0 /\ c.snonce = 0 /\ c.ga = <<>>
      /\ c.call = 0 /\ c.wants = ""
  <2>1. PICK d \in Client : /\ d = Idle(c)
                            /\ d.pc = "idle" /\ d.nonce = 0 /\ d.snonce = 0
                            /\ d.ga = <<>> /\ d.call = 0 /\ d.wants = ""
    BY IdleFields
  <2>. QED  BY <2>1
<1>3. n = Idle(n)
  BY <1>1, <1>2 DEF Idle, Client
<1>. QED  BY <1>1, <1>3

LEMMA SeqRises ==
  ASSUME TypeInv, CallInv, NEW f, NEW taken, Puts(f, taken)
  PROVE  client' \in Client /\ client'.seq >= -1
<1>1. client.seq \in Int /\ client.seq >= -1
  BY HereType DEF CallInv
<1>2. client' \in Client /\ client'.seq \in {client.seq, client.seq + 1}
  BY DEF Puts
<1>. QED  BY <1>1, <1>2

(* What it keeps of the call fits where it is in it.                       *)
LEMMA CallKept ==
  ASSUME TypeInv, CallInv, client' \in Client, attempts' \in Nat,
         client'.seq >= -1,
         \/ client' = Idle(client') /\ client'.pc = "idle"
            /\ client'.nonce = 0 /\ client'.wants = ""
         \/ /\ client'.pc \in {"res_pq", "dh_params", "dh_gen"}
            /\ client'.nonce = attempts' /\ attempts' # 0
            /\ client'.wants \notin Questions
         \/ /\ client'.pc = "answer"
            /\ client'.wants \in Questions /\ client'.nonce = 0
  PROVE  CallInv'
<1>2. "" \notin Questions
  BY DEF Questions
<1>. QED  BY <1>2 DEF CallInv, Exchanging

LEMMA AuthenticateTalks ==
  ASSUME TypeInv, CallInv, Authenticate
  PROVE  \E f : Talks(f, FALSE)
<1>1. PICK c \in Client :
          /\ Same(c, client) /\ c.rseq = client.rseq
          /\ c.pc = "res_pq" /\ c.nonce = attempts + 1
          /\ c.call = client.call /\ c.wants = client.wants
          /\ Sent(c, Obj("ReqPq", attempts + 1, 0, <<>>), FALSE)
  BY AuthenticateMoves
<1>2. PICK n \in Nat : n = attempts + 1 /\ n # 0
  BY DEF TypeInv
<1>3. PICK obj \in Object : /\ obj = Obj("ReqPq", n, 0, <<>>)
                            /\ obj.kind = "ReqPq"
  <2>1. Obj("ReqPq", n, 0, <<>>) \in Object
    BY NoItems, ObjFields DEF ObjectKinds
  <2>. QED  BY <2>1 DEF Obj
<1>4. PICK f : f.obj = obj /\ Puts(f, FALSE) /\ Gives(c, f)
  BY <1>1, <1>2, <1>3, SentGives
<1>5. /\ client.pc = "idle" /\ attempts' = n /\ calls' = calls
      /\ client.key = {} \/ "rekey" \in Disturbances
      /\ UNCHANGED <<sessions, store, aged, issued>>
      /\ UNCHANGED <<late, answer, refused>>
  BY <1>2 DEF Authenticate, server, history
<1>6. client.wants \notin Questions
  BY <1>5 DEF CallInv
<1>7. client' \in Client /\ client'.seq >= -1
  BY <1>4, SeqRises
<1>8. \/ client' = Idle(client') /\ client'.pc = "idle"
         /\ client'.nonce = 0 /\ client'.wants = ""
      \/ /\ client'.pc = "res_pq" /\ client'.nonce = n
         /\ client'.wants \notin Questions
  BY <1>1, <1>2, <1>4, <1>6 DEF Gives, Follows
<1>9. CallInv'
  BY <1>2, <1>5, <1>7, <1>8, CallKept
<1>10. ~Opens(f) /\ ~Exchanges(f)
  BY <1>3, <1>4 DEF Opens, Exchanges
<1>11. Asks(f) => client'.pc # "idle" \/ links'[client.link].up = Here.up
  BY <1>1, <1>4 DEF Gives, Follows
<1>12. /\ links'[client.link].up \in {Here.up, Append(Here.up, f)}
       /\ links'[client.link].up # Here.up => Here.alive
       /\ \/ "send_fault" \in Disturbances
          \/ /\ links'[client.link].cut = Here.cut
             /\ \/ links'[client.link].up = Append(Here.up, f)
                \/ /\ ~Here.alive \/ Here.cut
                   /\ links'[client.link].up = Here.up
       /\ client'.rseq = c.rseq
  BY <1>4 DEF Gives
<1>13. Goes(f, FALSE)
  BY <1>1, <1>2, <1>3, <1>4, <1>5, <1>8, <1>9, <1>10, <1>11, <1>12
     DEF Goes, TypeInv
<1>. QED  BY <1>4, <1>13 DEF Talks

LEMMA RequestTalks ==
  ASSUME TypeInv, CallInv, Request
  PROVE  \E f : Talks(f, FALSE)
<1>1. PICK c \in Client, kind \in Kinds :
          /\ Same(c, client) /\ c.rseq = client.rseq
          /\ c.nonce = client.nonce
          /\ IF kind \in Questions
             THEN c.pc = "answer" /\ c.call = calls + 1 /\ c.wants = kind
             ELSE c = client
          /\ Sent(c, UserObj(kind, calls + 1), FALSE)
  BY RequestMoves
<1>2. PICK n \in Nat : n = calls + 1
  BY DEF TypeInv
<1>3. kind \in ObjectKinds /\ kind \in Questions \cup Notices
  BY ClientKindsAssumption DEF ObjectKinds
<1>4. PICK obj \in Object : obj = UserObj(kind, n) /\ obj.kind = kind
                            /\ obj.call = n
  BY <1>2, <1>3, UserObjFields
<1>5. PICK f : f.obj = obj /\ Puts(f, FALSE) /\ Gives(c, f)
  BY <1>1, <1>2, <1>4, SentGives
<1>6. /\ client.pc = "idle" /\ calls' = n /\ attempts' = attempts
      /\ UNCHANGED <<sessions, store, aged, issued>>
      /\ UNCHANGED <<late, answer, refused>>
  BY <1>2 DEF Request, server, history
<1>7. client.nonce = 0 /\ client.wants \notin Questions
      /\ client = Idle(client)
  BY <1>6 DEF CallInv, Exchanging
<1>8. client' \in Client /\ client'.seq >= -1
  BY <1>5, SeqRises
<1>9. \/ client' = Idle(client') /\ client'.pc = "idle"
         /\ client'.nonce = 0 /\ client'.wants = ""
      \/ /\ client'.pc = "answer" /\ client'.nonce = 0
         /\ client'.wants \in Questions /\ client'.call = n
         /\ kind \in Questions
  <2>1. CASE client' = Idle(client') /\ client'.pc = "idle"
             /\ client'.nonce = 0 /\ client'.wants = ""
    BY <2>1
  <2>2. CASE Follows(c) /\ client' = Numbered(c)
    <3>1. CASE kind \in Questions
      BY <1>1, <1>2, <1>7, <2>2, <3>1 DEF Follows
    <3>2. CASE kind \notin Questions
      <4>1. client' = Idle(client')
        BY <1>1, <1>7, <2>2, <3>2, HereType, IdleStays
      <4>2. PICK e \in Client : /\ e = Idle(client') /\ e.pc = "idle"
                                /\ e.nonce = 0 /\ e.wants = ""
        BY <1>8, IdleFields
      <4>. QED  BY <4>1, <4>2
    <3>. QED  BY <3>1, <3>2
  <2>. QED  BY <1>5, <2>1, <2>2 DEF Gives
<1>10. CallInv'
  BY <1>6, <1>8, <1>9, CallKept DEF TypeInv
<1>11. ~Opens(f) /\ ~Exchanges(f) /\ f.obj.kind # "ReqPq"
       /\ (Asks(f) => kind \in Questions)
  BY <1>3, <1>4, <1>5 DEF Opens, Exchanges, Asks, Questions, Notices
<1>12. Asks(f) => client'.pc # "idle" \/ links'[client.link].up = Here.up
  BY <1>1, <1>5, <1>11 DEF Gives, Follows
<1>13. /\ links'[client.link].up \in {Here.up, Append(Here.up, f)}
       /\ links'[client.link].up # Here.up => Here.alive
       /\ \/ "send_fault" \in Disturbances
          \/ /\ links'[client.link].cut = Here.cut
             /\ \/ links'[client.link].up = Append(Here.up, f)
                \/ /\ ~Here.alive \/ Here.cut
                   /\ links'[client.link].up = Here.up
       /\ client'.rseq = c.rseq
  BY <1>5 DEF Gives
<1>14. Goes(f, FALSE)
  BY <1>1, <1>2, <1>4, <1>5, <1>6, <1>7, <1>9, <1>10, <1>11, <1>12, <1>13
     DEF Goes, TypeInv
<1>. QED  BY <1>5, <1>14 DEF Talks

LEMMA AuthResPQTalks ==
  ASSUME TypeInv, CallInv, AuthResPQ
  PROVE  \E f : Talks(f, TRUE)
<1>1. PICK c \in Client :
          /\ Same(c, client) /\ c.rseq = Heard.rseq
          /\ c.pc = "dh_params" /\ c.nonce = client.nonce
          /\ c.call = client.call /\ c.wants = client.wants
          /\ Sent(c, Obj("ReqDHParams", client.nonce, Incoming.obj.snonce,
                         <<>>), TRUE)
  BY AuthResPQMoves
<1>2. Here.down # <<>> /\ client.pc = "res_pq"
  BY AuthResPQMoves
<1>3. PICK n \in Nat : n = Incoming.obj.snonce
  BY <1>2, IncomingType
<1>4. PICK obj \in Object :
          /\ obj = Obj("ReqDHParams", client.nonce, n, <<>>)
          /\ obj.kind = "ReqDHParams" /\ obj.nonce = client.nonce
  <2>1. Obj("ReqDHParams", client.nonce, n, <<>>) \in Object
    BY HereType, NoItems, ObjFields DEF ObjectKinds
  <2>. QED  BY <2>1 DEF Obj
<1>5. PICK f : f.obj = obj /\ Puts(f, TRUE) /\ Gives(c, f)
  BY <1>1, <1>2, <1>3, <1>4, SentGives
<1>6. /\ calls' = calls /\ attempts' = attempts
      /\ UNCHANGED <<sessions, store, aged, issued>>
      /\ UNCHANGED <<late, answer, refused>>
  BY DEF AuthResPQ, server, drawn, history
<1>7. /\ client.nonce # 0 /\ client.nonce = attempts
      /\ client.wants \notin Questions
  BY <1>2 DEF CallInv, Exchanging
<1>8. client' \in Client /\ client'.seq >= -1
  BY <1>5, SeqRises
<1>9. \/ client' = Idle(client') /\ client'.pc = "idle"
         /\ client'.nonce = 0 /\ client'.wants = ""
      \/ /\ client'.pc = "dh_params" /\ client'.nonce = attempts'
         /\ client'.wants \notin Questions
  BY <1>1, <1>5, <1>6, <1>7 DEF Gives, Follows
<1>10. CallInv'
  BY <1>6, <1>7, <1>8, <1>9, CallKept DEF TypeInv
<1>11. ~Opens(f) /\ f.obj.kind # "ReqPq" /\ f.obj.nonce = client.nonce
  BY <1>4, <1>5 DEF Opens
<1>12. Asks(f) => client'.pc # "idle" \/ links'[client.link].up = Here.up
  BY <1>1, <1>5 DEF Gives, Follows
<1>13. /\ links'[client.link].up \in {Here.up, Append(Here.up, f)}
       /\ links'[client.link].up # Here.up => Here.alive
       /\ \/ "send_fault" \in Disturbances
          \/ /\ links'[client.link].cut = Here.cut
             /\ \/ links'[client.link].up = Append(Here.up, f)
                \/ /\ ~Here.alive \/ Here.cut
                   /\ links'[client.link].up = Here.up
       /\ client'.rseq = c.rseq
  BY <1>5 DEF Gives
<1>14. Goes(f, TRUE)
  BY <1>1, <1>2, <1>6, <1>7, <1>9, <1>10, <1>11, <1>12, <1>13
     DEF Goes, TypeInv
<1>. QED  BY <1>5, <1>14 DEF Talks

LEMMA AuthDHParamsTalks ==
  ASSUME TypeInv, CallInv, AuthDHParams
  PROVE  \E f : Talks(f, TRUE)
<1>1. PICK c \in Client :
          /\ Same(c, client) /\ c.rseq = Heard.rseq
          /\ c.pc = "dh_gen" /\ c.nonce = client.nonce
          /\ c.call = client.call /\ c.wants = client.wants
          /\ Sent(c, Obj("SetClientDHParams", client.nonce, client.snonce,
                         <<client.nonce>>), TRUE)
  BY AuthDHParamsMoves
<1>2. Here.down # <<>> /\ client.pc = "dh_params" /\ Expected(Incoming.obj)
  BY AuthDHParamsMoves
<1>3. PICK v \in Seq(Nat) : v = <<client.nonce>>
  <2>1. PICK n \in Nat : n = client.nonce
    BY HereType
  <2>2. <<n>> \in Seq(Nat)
    OBVIOUS
  <2>. QED  BY <2>1, <2>2
<1>4. PICK obj \in Object :
          /\ obj = Obj("SetClientDHParams", client.nonce, client.snonce, v)
          /\ obj.kind = "SetClientDHParams" /\ obj.nonce = client.nonce
          /\ obj.snonce = client.snonce /\ obj.value = v
  <2>1. Obj("SetClientDHParams", client.nonce, client.snonce, v) \in Object
    BY HereType, ObjFields DEF ObjectKinds
  <2>. QED  BY <2>1 DEF Obj
<1>5. PICK f : f.obj = obj /\ Puts(f, TRUE) /\ Gives(c, f)
  BY <1>1, <1>2, <1>3, <1>4, SentGives
<1>6. /\ calls' = calls /\ attempts' = attempts
      /\ UNCHANGED <<sessions, store, aged, issued>>
      /\ UNCHANGED <<late, answer, refused>>
  BY DEF AuthDHParams, server, drawn, history
<1>7. /\ client.nonce # 0 /\ client.nonce = attempts
      /\ client.wants \notin Questions
  BY <1>2 DEF CallInv, Exchanging
<1>8. client' \in Client /\ client'.seq >= -1
  BY <1>5, SeqRises
<1>9. \/ client' = Idle(client') /\ client'.pc = "idle"
         /\ client'.nonce = 0 /\ client'.wants = ""
      \/ /\ client'.pc = "dh_gen" /\ client'.nonce = attempts'
         /\ client'.wants \notin Questions
  BY <1>1, <1>5, <1>6, <1>7 DEF Gives, Follows
<1>10. CallInv'
  BY <1>6, <1>7, <1>8, <1>9, CallKept DEF TypeInv
<1>11. /\ Opens(f) /\ ~Exchanges(f) /\ f.obj.kind # "ReqPq"
       /\ f.obj.nonce = client.nonce /\ f.obj.snonce = client.snonce
       /\ f.obj.value = <<client.nonce>>
  BY <1>3, <1>4, <1>5 DEF Opens, Exchanges
<1>12. Asks(f) => client'.pc # "idle" \/ links'[client.link].up = Here.up
  BY <1>1, <1>5 DEF Gives, Follows
<1>13. /\ links'[client.link].up \in {Here.up, Append(Here.up, f)}
       /\ links'[client.link].up # Here.up => Here.alive
       /\ \/ "send_fault" \in Disturbances
          \/ /\ links'[client.link].cut = Here.cut
             /\ \/ links'[client.link].up = Append(Here.up, f)
                \/ /\ ~Here.alive \/ Here.cut
                   /\ links'[client.link].up = Here.up
       /\ client'.rseq = c.rseq
  BY <1>5 DEF Gives
<1>14. Goes(f, TRUE)
  BY <1>1, <1>2, <1>6, <1>7, <1>9, <1>10, <1>11, <1>12, <1>13
     DEF Goes, TypeInv
<1>. QED  BY <1>5, <1>14 DEF Talks

Talk == Authenticate \/ Request \/ AuthResPQ \/ AuthDHParams

LEMMA TalkMoves ==
  ASSUME TypeInv, CallInv, Talk
  PROVE  \E f, taken : Talks(f, taken)
BY AuthenticateTalks, RequestTalks, AuthResPQTalks, AuthDHParamsTalks DEF Talk

-----------------------------------------------------------------------------
(* What the steps do to the frames under way *)

(* Nothing is added to what connection i carries to the server.            *)
Narrows(i) ==
    /\ Items(links'[i].up) \subseteq Items(links[i].up)
    /\ \E d \in {0, 1} : \A j \in DOMAIN links'[i].up :
          /\ j + d \in DOMAIN links[i].up
          /\ links'[i].up[j] = links[i].up[j + d]

LEMMA TypesKept ==
  ASSUME TypeInv, links' \in [Links -> Link],
         \A i \in Links : ~links'[i].alive => links'[i].up = <<>>,
         client' \in Client, AtMostOne(client'.key),
         DOMAIN sessions' \subseteq Keys,
         sessions' \in [DOMAIN sessions' -> ServerSession],
         store' \subseteq Entry,
         attempts' \in Nat, issued' \in Nat, calls' \in Nat
  PROVE  TypeInv'
BY DEF TypeInv

LEMMA TalkTypes ==
  ASSUME TypeInv, NEW f, NEW taken, Talks(f, taken)
  PROVE  TypeInv'
<1>1. links' \in [Links -> Link]
      /\ \A i \in Links \ {client.link} : links'[i] = links[i]
  BY DEF Talks, Puts, Elsewhere
<1>2. ASSUME NEW i \in Links, ~links'[i].alive
      PROVE  links'[i].up = <<>>
  <2>1. CASE i = client.link
    <3>1. ~Here.alive
      BY <1>2, <2>1 DEF Talks, Puts
    <3>2. links'[i].up = Here.up
      BY <2>1, <3>1 DEF Talks, Goes
    <3>. QED  BY <3>1, <3>2, HereType DEF TypeInv, Here
  <2>2. CASE i # client.link
    BY <1>1, <1>2, <2>2 DEF TypeInv
  <2>. QED  BY <2>1, <2>2
<1>3. client' \in Client /\ AtMostOne(client'.key)
  BY DEF Talks, Puts, TypeInv
<1>4. UNCHANGED <<sessions, store, issued>> /\ attempts' \in Nat
      /\ calls' \in Nat
  BY DEF Talks, Goes
<1>. QED  BY <1>1, <1>2, <1>3, <1>4, TypesKept DEF TypeInv

(* The client after a call has returned.                                   *)
LEMMA RestClient ==
  ASSUME TypeInv, Rests
  PROVE  /\ client' \in Client /\ client' = Idle(client')
         /\ client'.pc = "idle" /\ client'.nonce = 0 /\ client'.wants = ""
         /\ Same(client', client)
<1>1. PICK c \in Client : /\ client' = Idle(c) /\ Same(c, client)
  BY HereType, HeardFields DEF Rests, Same
<1>2. PICK d \in Client : /\ d = Idle(c) /\ d = Idle(d)
                          /\ d.pc = "idle" /\ d.nonce = 0 /\ d.wants = ""
                          /\ Same(d, c)
  BY IdleFields DEF Same
<1>. QED  BY <1>1, <1>2 DEF Same

LEMMA RestTypes ==
  ASSUME TypeInv, Rests
  PROVE  TypeInv'
<1>1. /\ links' \in [Links -> Link]
      /\ \A i \in Links : /\ links'[i].alive = links[i].alive
                          /\ links'[i].up = links[i].up
  BY HereType DEF Rests, Drained, Elsewhere, Here
<1>2. client' \in Client /\ AtMostOne(client'.key)
  BY RestClient DEF Same, TypeInv
<1>3. UNCHANGED <<sessions, store, issued, attempts, calls>>
  BY DEF Rests, server, drawn
<1>. QED  BY <1>1, <1>2, <1>3, TypesKept DEF TypeInv

LEMMA KeyedTypes ==
  ASSUME TypeInv, Keyed
  PROVE  TypeInv'
<1>1. /\ links' \in [Links -> Link]
      /\ \A i \in Links : /\ links'[i].alive = links[i].alive
                          /\ links'[i].up = links[i].up
  BY HereType DEF Keyed, Drained, Elsewhere, Here
<1>2. client' \in Client /\ AtMostOne(client'.key)
  BY DEF Keyed, AtMostOne
<1>3. UNCHANGED <<sessions, store, issued, attempts, calls>>
  BY DEF Keyed, server, drawn
<1>. QED  BY <1>1, <1>2, <1>3, TypesKept DEF TypeInv

LEMMA MovedTypes ==
  ASSUME TypeInv, NEW i, Moved(i)
  PROVE  TypeInv'
<1>1. links' \in [Links -> Link]
  BY DEF Moved
<1>2. ASSUME NEW e \in Links, ~links'[e].alive
      PROVE  links'[e].up = <<>>
  <2>1. CASE e = i
    BY <2>1 DEF Moved
  <2>2. CASE e = client.link
    BY <1>2, <2>2 DEF Moved
  <2>3. CASE e \notin {i, client.link}
    BY <1>2, <2>3 DEF Moved, TypeInv
  <2>. QED  BY <2>1, <2>2, <2>3
<1>3. client' \in Client /\ AtMostOne(client'.key)
  BY DEF Moved, AtMostOne
<1>4. UNCHANGED <<sessions, store, issued, attempts, calls>>
  BY DEF Moved, server, drawn
<1>. QED  BY <1>1, <1>2, <1>3, <1>4, TypesKept DEF TypeInv

LEMMA ServedLinks ==
  ASSUME TypeInv, NEW i \in Links, NEW f, Served(i, f)
  PROVE  /\ links' \in [Links -> Link]
         /\ links[i].alive /\ links[i].up # <<>> /\ f = links[i].up[1]
         /\ f \in Frame /\ f \in Items(links[i].up)
         /\ \/ links'[i].alive /\ links'[i].up = Tail(links[i].up)
            \/ ~links'[i].alive /\ links'[i].up = <<>>
         /\ links'[i].cut = links[i].cut
         /\ links'[i].garbled = links[i].garbled
         /\ \A e \in Links \ {i} : links'[e] = links[e]
<1>1. /\ links[i].alive /\ links[i].up # <<>> /\ f = Head(links[i].up)
      /\ f \in Frame
  BY DEF Served, HasFrame, First
<1>2. f = links[i].up[1] /\ f \in Items(links[i].up)
  BY <1>1, LinkType, TailItems
<1>3. Reads(i) \/ Shuts(i)
  BY DEF Served, Effect
<1>. QED  BY <1>1, <1>2, <1>3 DEF Reads, Shuts, Elsewhere

LEMMA ServedTypes ==
  ASSUME TypeInv, NEW i \in Links, NEW f, Served(i, f)
  PROVE  TypeInv'
<1>1. links' \in [Links -> Link]
  BY ServedLinks
<1>2. \A e \in Links : ~links'[e].alive => links'[e].up = <<>>
  BY ServedLinks DEF TypeInv
<1>3. client' = client /\ attempts' = attempts /\ calls' = calls
      /\ issued' \in Nat /\ store' \subseteq Entry
  BY DEF Served, StoreEffect, drawn
<1>4. DOMAIN sessions' \subseteq Keys
      /\ sessions' \in [DOMAIN sessions' -> ServerSession]
  BY DEF Served, Effect, Progress
<1>. QED  BY <1>1, <1>2, <1>3, <1>4, TypesKept DEF TypeInv

LEMMA ChokesTypes ==
  ASSUME TypeInv, NEW i \in Links, ServeChokes(i)
  PROVE  TypeInv'
<1>1. /\ Shuts(i)
      /\ UNCHANGED <<client, sessions, store, aged, issued, drawn, history>>
  BY ChokesMoves
<1>2. links' \in [Links -> Link]
      /\ \A e \in Links : ~links'[e].alive => links'[e].up = <<>>
  BY <1>1 DEF Shuts, Elsewhere, TypeInv
<1>. QED  BY <1>1, <1>2, TypesKept DEF TypeInv, drawn

LEMMA ResetTypes ==
  ASSUME TypeInv, Reset
  PROVE  TypeInv'
<1>1. links' \in [Links -> Link]
      /\ \A e \in Links : ~links'[e].alive => links'[e].up = <<>>
  BY DEF Reset
<1>2. store' \subseteq Entry
  BY DEF Reset
<1>. QED  BY <1>1, <1>2, TypesKept DEF TypeInv, Reset, drawn

LEMMA AgeTypes ==
  ASSUME TypeInv, Age
  PROVE  TypeInv'
BY TypesKept DEF TypeInv, Age, drawn

(* The steps after which every stream to the server is a part of what it   *)
(* was.                                                                    *)
LEMMA SameNarrows ==
  ASSUME TypeInv, NEW i \in Links, links'[i].up = links[i].up
  PROVE  Narrows(i)
<1>1. \A j \in DOMAIN links[i].up : j \in Nat
  BY LinkType
<1>2. \A j \in DOMAIN links'[i].up : j + 0 \in DOMAIN links[i].up
                                  /\ links'[i].up[j] = links[i].up[j + 0]
  BY <1>1
<1>. QED  BY <1>2 DEF Narrows

LEMMA NoneNarrows ==
  ASSUME TypeInv, NEW i \in Links, links'[i].up = <<>>
  PROVE  Narrows(i)
BY NoItems DEF Narrows

LEMMA ServedNarrows ==
  ASSUME TypeInv, NEW i \in Links, NEW f, Served(i, f), NEW e \in Links
  PROVE  Narrows(e)
<1>1. CASE e # i
  BY <1>1, ServedLinks, SameNarrows
<1>2. CASE e = i /\ links'[i].up = <<>>
  BY <1>2, NoneNarrows
<1>3. CASE e = i /\ links'[i].up = Tail(links[i].up)
  <2>1. /\ Items(links'[i].up) \subseteq Items(links[i].up)
        /\ \A j \in DOMAIN links'[i].up :
              /\ j + 1 \in DOMAIN links[i].up
              /\ links'[i].up[j] = links[i].up[j + 1]
    BY <1>3, ServedLinks, LinkType, TailItems
  <2>. QED  BY <1>3, <2>1 DEF Narrows
<1>. QED  BY <1>1, <1>2, <1>3, ServedLinks

LEMMA TalkItems ==
  ASSUME TypeInv, NEW f, NEW taken, Talks(f, taken), NEW i \in Links
  PROVE  /\ \A g \in Items(links'[i].up) :
               \/ g \in Items(links[i].up)
               \/ g = f /\ i = client.link /\ Here.alive
         /\ Items(links'[i].down) \subseteq Items(links[i].down)
<1>1. CASE i = client.link
  <2>1. f \in Frame
    BY DEF Talks, Puts
  <2>2. \A g \in Items(links'[i].up) :
           g \in Items(Here.up) \/ (g = f /\ Here.alive)
    <3>1. CASE links'[i].up = Here.up
      BY <3>1
    <3>2. CASE Here.alive /\ links'[i].up = Append(Here.up, f)
      BY <2>1, <3>2, HereType, AppendItems
    <3>. QED  BY <1>1, <3>1, <3>2 DEF Talks, Goes
  <2>3. Items(links'[i].down) \subseteq Items(Here.down)
    BY <1>1, HereType, TailItems DEF Talks, Puts
  <2>. QED  BY <1>1, <2>2, <2>3 DEF Here
<1>2. CASE i # client.link
  BY <1>2 DEF Talks, Puts, Elsewhere
<1>. QED  BY <1>1, <1>2

LEMMA MovedItems ==
  ASSUME TypeInv, NEW i, Moved(i), NEW e \in Links
  PROVE  Narrows(e) /\ Items(links'[e].down) \subseteq Items(links[e].down)
<1>1. CASE e = i
  <2>1. Narrows(e)
    BY <1>1, NoneNarrows DEF Moved
  <2>. QED  BY <1>1, <2>1, NoItems DEF Moved
<1>2. CASE e = client.link
  <2>1. \A j \in DOMAIN Here.up : j \in Nat
    BY HereType
  <2>0. \A j \in DOMAIN links'[e].up : j \in DOMAIN Here.up
                                    /\ links'[e].up[j] = Here.up[j]
    BY <1>2 DEF Moved
  <2>2. \A j \in DOMAIN links'[e].up : j + 0 \in DOMAIN Here.up
                                    /\ links'[e].up[j] = Here.up[j + 0]
    BY <2>0, <2>1
  <2>3. Narrows(e)
    BY <1>2, <2>2 DEF Narrows, Here, Moved
  <2>. QED  BY <1>2, <2>3, NoItems DEF Moved
<1>3. CASE e \notin {i, client.link}
  BY <1>3, SameNarrows DEF Moved
<1>. QED  BY <1>1, <1>2, <1>3

LEMMA DrainedItems ==
  ASSUME TypeInv, Drained, NEW e \in Links
  PROVE  /\ Narrows(e) /\ links'[e].up = links[e].up
         /\ links'[e].alive = links[e].alive
         /\ Items(links'[e].down) \subseteq Items(links[e].down)
<1>1. links'[e].up = links[e].up /\ links'[e].alive = links[e].alive
  BY DEF Drained, Elsewhere, Here
<1>. QED  BY <1>1, SameNarrows DEF Drained, Elsewhere, Here

LEMMA ShutsItems ==
  ASSUME TypeInv, NEW i \in Links, Shuts(i), NEW e \in Links
  PROVE  Narrows(e) /\ links'[e].down = links[e].down
<1>1. CASE e = i
  BY <1>1, NoneNarrows DEF Shuts
<1>2. CASE e # i
  BY <1>2, SameNarrows DEF Shuts, Elsewhere
<1>. QED  BY <1>1, <1>2

LEMMA ResetItems ==
  ASSUME TypeInv, Reset, NEW e \in Links
  PROVE  Narrows(e) /\ Items(links'[e].down) \subseteq Items(links[e].down)
BY NoneNarrows DEF Reset

(* Of a frame served, the client gets an answer at most.                   *)
LEMMA ServedItems ==
  ASSUME TypeInv, NEW i \in Links, NEW f, Served(i, f), NEW e \in Links
  PROVE  \A r \in Items(links'[e].down) :
            \/ r \in Items(links[e].down)
            \/ e = i /\ i = client.link /\ links'[i].alive /\ AnswersTo(f, r)
<1>1. CASE e # i
  BY <1>1, ServedLinks
<1>2. CASE e = i /\ links'[i].down = links[i].down
  BY <1>2
<1>3. ASSUME NEW r, AnswersTo(f, r), e = i, i = client.link, Reads(i),
             links'[i].down = Append(links[i].down, r)
      PROVE  Items(links'[e].down) = Items(links[e].down) \cup {r}
             /\ links'[i].alive
  BY <1>3, LinkType, AppendItems DEF AnswersTo, Reads
<1>4. \/ links'[i].down = links[i].down
      \/ /\ i = client.link
         /\ \E r : /\ AnswersTo(f, r) /\ Reads(i)
                   /\ links'[i].down = Append(links[i].down, r)
  BY DEF Served, Effect, Shuts
<1>. QED  BY <1>1, <1>2, <1>3, <1>4

-----------------------------------------------------------------------------
(* Calls *)

LEMMA IdleCall ==
  ASSUME client' = Idle(client'), client'.pc = "idle", client'.nonce = 0,
         client'.wants = "", client'.seq >= -1
  PROVE  CallInv'
<1>1. "" \notin Questions
  BY DEF Questions
<1>. QED  BY <1>1 DEF CallInv, Exchanging

LEMMA SameCall ==
  ASSUME CallInv, client' = client, attempts' = attempts
  PROVE  CallInv'
BY DEF CallInv, Exchanging

LEMMA CallInvNext ==
  ASSUME TypeInv, CallInv
  PROVE  /\ \A f, taken : Talks(f, taken) => CallInv'
         /\ Rests => CallInv'
         /\ Keyed => CallInv'
         /\ \A i : Moved(i) => CallInv'
         /\ \A i, f : Served(i, f) => CallInv'
         /\ UNCHANGED <<client, drawn>> => CallInv'
<1>1. \A f, taken : Talks(f, taken) => CallInv'
  BY DEF Talks, Goes
<1>2. ASSUME Rests PROVE CallInv'
  BY <1>2, RestClient, IdleCall DEF Same, CallInv
<1>3. ASSUME Keyed PROVE CallInv'
  BY <1>3, IdleCall DEF Keyed, CallInv
<1>4. ASSUME NEW i, Moved(i) PROVE CallInv'
  <2>1. client'.seq = -1
    BY <1>4 DEF Moved
  <2>2. client'.seq >= -1
    BY <2>1
  <2>. QED  BY <1>4, <2>2, IdleCall DEF Moved
<1>5. ASSUME NEW i, NEW f, Served(i, f) PROVE CallInv'
  BY <1>5, SameCall DEF Served, drawn
<1>6. ASSUME UNCHANGED <<client, drawn>> PROVE CallInv'
  BY <1>6, SameCall DEF drawn
<1>. QED  BY <1>1, <1>2, <1>3, <1>4, <1>5, <1>6

-----------------------------------------------------------------------------
(* Keys *)

(* No key is of an attempt that has not begun.                             *)
LEMMA KeyParts ==
  ASSUME TypeInv, KeyInv, NEW k \in DOMAIN sessions
  PROVE  /\ Len(k) = 2 /\ k[1] \in 1..issued /\ k[2] \in 1..attempts
         /\ k[1] \in Nat /\ k[2] \in Nat /\ k[2] < attempts + 1
BY DEF KeyInv, TypeInv

LEMMA TalkKeys ==
  ASSUME TypeInv, KeyInv, NEW f, NEW taken, Talks(f, taken)
  PROVE  KeyInv'
<1>1. /\ UNCHANGED <<sessions, issued>>
      /\ client'.link = client.link /\ client'.key = client.key
      /\ f.key = client.key /\ AtMostOne(client.key)
      /\ attempts \in Nat /\ client.nonce \in Nat
  BY HereType DEF Talks, Goes, Puts, TypeInv
<1>2. /\ attempts' \in Nat /\ attempts' >= attempts
      /\ \/ client'.nonce \in {0, client.nonce}
         \/ client'.nonce = attempts + 1
  BY <1>1 DEF Talks, Goes
<1>3. f.key # {} => f.id >= 1
  <2>1. client.sent \in Nat
    BY HereType
  <2>. QED  BY <2>1 DEF Talks, Puts
<1>4. \A k \in DOMAIN sessions' :
         Len(k) = 2 /\ k[1] \in 1..issued' /\ k[2] \in 1..attempts'
  BY <1>1, <1>2, KeyParts
<1>5. KeyKnown' /\ client.key \subseteq DOMAIN sessions
  BY <1>1 DEF KeyInv, KeyKnown
<1>6. ASSUME NEW k \in DOMAIN sessions,
             client.nonce # 0 => k[2] < client.nonce, client'.nonce # 0
      PROVE  k[2] < client'.nonce
  BY <1>1, <1>2, <1>6, KeyParts
<1>7. \A k \in client'.key : client'.nonce # 0 => k[2] < client'.nonce
  BY <1>1, <1>5, <1>6 DEF KeyInv
<1>8. ASSUME NEW i \in Links, NEW g \in Items(links'[i].up)
      PROVE  UpKeyInv(i, g)'
  <2>1. CASE g \in Items(links[i].up)
    <3>1. UpKeyInv(i, g)
      BY <2>1 DEF KeyInv
    <3>. QED  BY <1>1, <1>6, <3>1 DEF UpKeyInv
  <2>2. CASE g = f /\ i = client.link
    BY <1>1, <1>3, <1>5, <1>7, <2>2 DEF UpKeyInv
  <2>. QED  BY <1>8, <2>1, <2>2, TalkItems
<1>9. ASSUME NEW i \in Links, NEW e \in Links,
             NEW g \in Items(links'[i].up), NEW h \in Items(links'[e].up),
             NEW k \in g.key \cap h.key
      PROVE  i = e
  <2>1. CASE g \in Items(links[i].up) /\ h \in Items(links[e].up)
    BY <2>1 DEF KeyInv
  <2>2. \A x \in Links : \A y \in Items(links[x].up) :
           y.key \cap client.key # {} => x = client.link
    <3>1. SUFFICES ASSUME NEW x \in Links, NEW y \in Items(links[x].up),
                          NEW z \in y.key \cap client.key, x # client.link
                   PROVE  FALSE
      OBVIOUS
    <3>2. z[2] < z[2]
      BY <3>1 DEF KeyInv, UpKeyInv
    <3>3. z[2] \in Nat
      BY <1>5, KeyParts
    <3>. QED  BY <3>2, <3>3
  <2>. QED  BY <1>1, <1>9, <2>1, <2>2, TalkItems
<1>10. \A i \in Links : \A g \in Items(links'[i].down) :
          g.obj.kind = "DHGenOk" => g.obj.value \in DOMAIN sessions'
  BY <1>1, TalkItems DEF KeyInv
<1>. QED  BY <1>4, <1>5, <1>7, <1>8, <1>9, <1>10 DEF KeyInv

(* Steps that add nothing to what is under way.                            *)
LEMMA QuietKeys ==
  ASSUME TypeInv, KeyInv, UNCHANGED <<sessions, issued, attempts>>,
         \A i \in Links : /\ Narrows(i)
                          /\ Items(links'[i].down)
                                \subseteq Items(links[i].down),
         client'.key \subseteq DOMAIN sessions,
         client'.nonce \in {0, client.nonce},
         \A k \in client'.key : client'.nonce # 0 => k[2] < client'.nonce,
         \A i \in Links : \A f \in Items(links'[i].up) : \A k \in f.key :
            i # client'.link => \A c \in client'.key : k[2] < c[2]
  PROVE  KeyInv'
<1>1. ASSUME NEW i \in Links, NEW g \in Items(links'[i].up)
      PROVE  UpKeyInv(i, g)'
  <2>1. UpKeyInv(i, g)
    BY <1>1 DEF KeyInv, Narrows
  <2>. QED  BY <1>1, <2>1 DEF UpKeyInv
<1>2. \A i, e \in Links :
         \A f \in Items(links'[i].up), g \in Items(links'[e].up) :
            f.key \cap g.key # {} => i = e
  <2>1. \A i \in Links : Items(links'[i].up) \subseteq Items(links[i].up)
    BY DEF Narrows
  <2>. QED  BY <2>1 DEF KeyInv
<1>3. \A i \in Links : \A g \in Items(links'[i].down) :
         g.obj.kind = "DHGenOk" => g.obj.value \in DOMAIN sessions'
  BY DEF KeyInv
<1>4. \A k \in DOMAIN sessions' :
         Len(k) = 2 /\ k[1] \in 1..issued' /\ k[2] \in 1..attempts'
  BY DEF KeyInv
<1>. QED  BY <1>1, <1>2, <1>3, <1>4 DEF KeyInv, KeyKnown

LEMMA RestKeys ==
  ASSUME TypeInv, KeyInv, Rests
  PROVE  KeyInv'
<1>1. /\ client'.nonce = 0 /\ client'.key = client.key
      /\ client'.link = client.link
  BY RestClient DEF Same
<1>2. \A i \in Links : /\ Narrows(i)
                       /\ Items(links'[i].down) \subseteq Items(links[i].down)
  BY DrainedItems DEF Rests
<1>3. UNCHANGED <<sessions, issued, attempts>>
  BY DEF Rests, server, drawn
<1>4. ASSUME NEW i \in Links, NEW f \in Items(links'[i].up), NEW k \in f.key,
             i # client'.link, NEW c \in client'.key
      PROVE  k[2] < c[2]
  <2>1. UpKeyInv(i, f)
    BY <1>2, <1>4 DEF KeyInv, Narrows
  <2>. QED  BY <1>1, <1>4, <2>1 DEF UpKeyInv
<1>. QED  BY <1>1, <1>2, <1>3, <1>4, QuietKeys DEF KeyInv, KeyKnown

(* The key the client takes: that of a session, and newer than every key   *)
(* in use.                                                                 *)
LEMMA TakenKey ==
  ASSUME TypeInv, CallInv, KeyInv, Keyed
  PROVE  /\ Secret \in DOMAIN sessions /\ Secret[2] = client.nonce
         /\ client'.key = {Secret} /\ client'.link = client.link
         /\ \A i \in Links : \A f \in Items(links[i].up) :
               \A k \in f.key : k[2] < Secret[2]
<1>1. /\ Here.down # <<>> /\ Finishes(Incoming)
      /\ Incoming.obj.value = Secret /\ client.nonce # 0
      /\ client'.key = {Secret} /\ client'.link = client.link
  BY DEF Keyed
<1>2. Secret \in DOMAIN sessions
  BY <1>1, IncomingType, HereType DEF KeyInv, Here, Finishes
<1>3. Len(Secret) = 2
  BY <1>2, KeyParts
<1>4. Secret[2] = client.nonce
  <2>1. PICK ga \in Seq(Nat), n \in Nat : ga = client.ga /\ n = client.nonce
    BY HereType
  <2>2. Secret = ga \o <<n>>
    BY <2>1 DEF Secret
  <2>3. Len(ga \o <<n>>) = Len(ga) + 1 /\ (ga \o <<n>>)[Len(ga) + 1] = n
    OBVIOUS
  <2>4. Len(ga) = 1
    BY <1>3, <2>2, <2>3
  <2>5. (ga \o <<n>>)[2] = n
    BY <2>3, <2>4
  <2>. QED  BY <2>1, <2>2, <2>5
<1>5. \A i \in Links : \A f \in Items(links[i].up) :
         \A k \in f.key : k[2] < Secret[2]
  BY <1>1, <1>4 DEF KeyInv, UpKeyInv
<1>. QED  BY <1>1, <1>2, <1>4, <1>5

LEMMA KeyedKeys ==
  ASSUME TypeInv, CallInv, KeyInv, Keyed
  PROVE  KeyInv'
<1>1. /\ client'.nonce = 0 /\ client'.key = {Secret}
      /\ client'.link = client.link /\ Secret \in DOMAIN sessions
  BY TakenKey DEF Keyed
<1>2. \A i \in Links : /\ Narrows(i) /\ links'[i].up = links[i].up
                       /\ Items(links'[i].down) \subseteq Items(links[i].down)
  BY DrainedItems DEF Keyed
<1>3. UNCHANGED <<sessions, issued, attempts>>
  BY DEF Keyed, server, drawn
<1>4. \A i \in Links : \A f \in Items(links'[i].up) : \A k \in f.key :
         i # client'.link => \A c \in client'.key : k[2] < c[2]
  BY <1>1, <1>2, TakenKey
<1>. QED  BY <1>1, <1>2, <1>3, <1>4, QuietKeys

LEMMA MovedKeys ==
  ASSUME TypeInv, KeyInv, NEW i, Moved(i)
  PROVE  KeyInv'
<1>1. client'.nonce = 0 /\ client'.key = {}
      /\ UNCHANGED <<sessions, issued, attempts>>
  BY DEF Moved, server, drawn
<1>. QED  BY <1>1, MovedItems, QuietKeys

LEMMA SameKeys ==
  ASSUME TypeInv, KeyInv, client' = client,
         UNCHANGED <<sessions, issued, attempts>>,
         \A i \in Links : /\ Narrows(i)
                          /\ Items(links'[i].down)
                                \subseteq Items(links[i].down)
  PROVE  KeyInv'
<1>1. ASSUME NEW i \in Links, NEW f \in Items(links'[i].up), NEW k \in f.key,
             i # client'.link, NEW c \in client'.key
      PROVE  k[2] < c[2]
  <2>1. UpKeyInv(i, f)
    BY <1>1 DEF KeyInv, Narrows
  <2>. QED  BY <1>1, <2>1 DEF UpKeyInv
<1>. QED  BY <1>1, QuietKeys DEF KeyInv, KeyKnown

(* The key of a session that is opened is of the attempt the frame is of.  *)
LEMMA ServedKeys ==
  ASSUME TypeInv, KeyInv, OpenInv, NEW i \in Links, NEW f, Served(i, f)
  PROVE  KeyInv'
<1>1. PICK how, fresh, answers : Effect(i, f, how, fresh, answers)
  BY DEF Served
<1>2. client' = client /\ attempts' = attempts /\ issued' \in Nat
      /\ issued' >= issued /\ attempts \in Nat /\ issued \in Nat
  BY DEF Served, drawn, TypeInv
<1>3. DOMAIN sessions' = DOMAIN sessions \cup fresh
      /\ fresh \cap DOMAIN sessions = {}
  BY <1>1 DEF Effect, Progress
<1>4. f \in Items(links[i].up)
  BY ServedLinks
<1>5. ASSUME NEW k \in DOMAIN sessions'
      PROVE  Len(k) = 2 /\ k[1] \in 1..issued' /\ k[2] \in 1..attempts'
  <2>1. CASE k \in DOMAIN sessions
    BY <1>2, <2>1, KeyParts
  <2>2. CASE k \in fresh
    <3>1. /\ Opens(f) /\ Len(k) = 2 /\ k[1] \in 1..issued
          /\ k[2] = f.obj.nonce
      BY <1>1, <2>2 DEF Effect
    <3>2. f.obj.nonce \in 1..attempts
      BY <1>4, <3>1 DEF OpenInv
    <3>. QED  BY <1>2, <3>1, <3>2
  <2>. QED  BY <1>3, <1>5, <2>1, <2>2
<1>6. ASSUME NEW e \in Links, NEW g \in Items(links'[e].up)
      PROVE  UpKeyInv(e, g)'
  <2>1. UpKeyInv(e, g)
    BY <1>6, ServedNarrows DEF KeyInv, Narrows
  <2>. QED  BY <1>2, <1>3, <2>1 DEF UpKeyInv
<1>7. \A d, e \in Links :
         \A g \in Items(links'[d].up), h \in Items(links'[e].up) :
            g.key \cap h.key # {} => d = e
  <2>1. \A e \in Links : Items(links'[e].up) \subseteq Items(links[e].up)
    BY ServedNarrows DEF Narrows
  <2>. QED  BY <2>1 DEF KeyInv
<1>8. \A e \in Links : \A g \in Items(links'[e].down) :
         g.obj.kind = "DHGenOk" => g.obj.value \in DOMAIN sessions'
  BY <1>3, ServedItems DEF KeyInv, AnswersTo
<1>9. KeyKnown'
      /\ \A k \in client'.key : client'.nonce # 0 => k[2] < client'.nonce
  BY <1>2, <1>3 DEF KeyInv, KeyKnown
<1>. QED  BY <1>5, <1>6, <1>7, <1>8, <1>9 DEF KeyInv

-----------------------------------------------------------------------------
(* SetClientDHParams *)

LEMMA Places ==
  ASSUME TypeInv, links' \in [Links -> Link], NEW i \in Links
  PROVE  /\ \A j \in DOMAIN links[i].up : j \in Nat /\ j >= 1
         /\ \A j \in DOMAIN links'[i].up : j \in Nat /\ j >= 1
         /\ links'[i].up \in Seq(Frame)
<1>1. links[i].up \in Seq(Frame) /\ links'[i].up \in Seq(Frame)
  BY LinkType DEF Link
<1>. QED  BY <1>1

(* Two of one attempt are one, wherever the connections are read from.     *)
Single ==
    \A i, e \in Links :
       \A j \in DOMAIN links[i].up, l \in DOMAIN links[e].up :
          (/\ Opens(links[i].up[j]) /\ Opens(links[e].up[l])
           /\ links[i].up[j].obj.nonce = links[e].up[l].obj.nonce)
             => i = e /\ j = l

LEMMA SingleStays ==
  ASSUME TypeInv, links' \in [Links -> Link], Single,
         \A i \in Links : Narrows(i)
  PROVE  Single'
<1>1. SUFFICES ASSUME NEW i \in Links, NEW e \in Links,
                      NEW j \in DOMAIN links'[i].up,
                      NEW l \in DOMAIN links'[e].up,
                      Opens(links'[i].up[j]), Opens(links'[e].up[l]),
                      links'[i].up[j].obj.nonce = links'[e].up[l].obj.nonce
               PROVE  i = e /\ j = l
  BY DEF Single
<1>2. PICK d \in {0, 1} : \A x \in DOMAIN links'[i].up :
          /\ x + d \in DOMAIN links[i].up
          /\ links'[i].up[x] = links[i].up[x + d]
  BY DEF Narrows
<1>3. PICK b \in {0, 1} : \A x \in DOMAIN links'[e].up :
          /\ x + b \in DOMAIN links[e].up
          /\ links'[e].up[x] = links[e].up[x + b]
  BY DEF Narrows
<1>4. i = e
  BY <1>1, <1>2, <1>3 DEF Single
<1>5. j + d = l + d
  BY <1>1, <1>2, <1>4 DEF Single
<1>6. j \in Nat /\ l \in Nat
  BY Places
<1>. QED  BY <1>4, <1>5, <1>6

LEMMA QuietOpens ==
  ASSUME TypeInv, OpenInv, links' \in [Links -> Link],
         \A i \in Links : Narrows(i), store' \subseteq store,
         UNCHANGED <<sessions, issued, attempts>>,
         Before' => Before /\ client'.nonce = client.nonce
  PROVE  OpenInv'
<1>1. Single'
  BY SingleStays DEF OpenInv, Single
<1>2. ASSUME NEW i \in Links, NEW f \in Items(links'[i].up), Opens(f)
      PROVE  /\ f.obj.nonce \in 1..attempts' /\ f.obj.value = <<f.obj.nonce>>
             /\ \A k \in DOMAIN sessions' : k[2] # f.obj.nonce
             /\ Before' => f.obj.nonce # client'.nonce
  <2>1. f \in Items(links[i].up)
    BY <1>2 DEF Narrows
  <2>. QED  BY <1>2, <2>1 DEF OpenInv
<1>3. Before' => \A k \in DOMAIN sessions' : k[2] # client'.nonce
  BY DEF OpenInv
<1>4. /\ \A e \in store' : e.secret \in 1..issued'
      /\ \A e, f \in store' :
            e.nonce = f.nonce /\ e.snonce = f.snonce => e = f
  BY DEF OpenInv
<1>. QED  BY <1>1, <1>2, <1>3, <1>4 DEF OpenInv, Single

LEMMA RestOpens ==
  ASSUME TypeInv, OpenInv, Rests
  PROVE  OpenInv'
<1>1. ~Before'
  BY RestClient DEF Before
<1>. QED  BY <1>1, DrainedItems, QuietOpens
          DEF Rests, Drained, Elsewhere, server, drawn

LEMMA KeyedOpens ==
  ASSUME TypeInv, OpenInv, Keyed
  PROVE  OpenInv'
<1>1. ~Before'
  BY DEF Keyed, Before
<1>. QED  BY <1>1, DrainedItems, QuietOpens
          DEF Keyed, Drained, Elsewhere, server, drawn

LEMMA MovedOpens ==
  ASSUME TypeInv, OpenInv, NEW i, Moved(i)
  PROVE  OpenInv'
<1>1. ~Before'
  BY DEF Moved, Before
<1>. QED  BY <1>1, MovedItems, QuietOpens DEF Moved, server, drawn

(* The one appended is the first of its attempt.                           *)
LEMMA TalkPlaces ==
  ASSUME TypeInv, NEW f, NEW taken, Talks(f, taken), NEW i \in Links,
         NEW j \in DOMAIN links'[i].up
  PROVE  \/ j \in DOMAIN links[i].up /\ links'[i].up[j] = links[i].up[j]
         \/ /\ i = client.link /\ j = Len(Here.up) + 1
            /\ links'[i].up[j] = f
<1>1. CASE i # client.link
  BY <1>1 DEF Talks, Puts, Elsewhere
<1>2. CASE i = client.link
  <2>1. CASE links'[i].up = Here.up
    BY <1>2, <2>1 DEF Here
  <2>2. CASE links'[i].up = Append(Here.up, f)
    <3>1. f \in Frame /\ links[i].up = Here.up
      BY <1>2 DEF Talks, Puts, Here
    <3>2. /\ DOMAIN Append(Here.up, f) = 1..(Len(Here.up) + 1)
          /\ DOMAIN Here.up = 1..Len(Here.up) /\ Len(Here.up) \in Nat
          /\ \A x \in DOMAIN Here.up : Append(Here.up, f)[x] = Here.up[x]
          /\ Append(Here.up, f)[Len(Here.up) + 1] = f
      BY <3>1, HereType, AppendItems
    <3>. QED  BY <1>2, <2>2, <3>1, <3>2
  <2>. QED  BY <1>2, <2>1, <2>2 DEF Talks, Goes
<1>. QED  BY <1>1, <1>2

LEMMA TalkOpens ==
  ASSUME TypeInv, KeyInv, OpenInv, NEW f, NEW taken, Talks(f, taken),
         CallInv
  PROVE  OpenInv'
<1>1. UNCHANGED <<sessions, store, issued>> /\ CallInv'
      /\ attempts \in Nat /\ attempts' \in Nat /\ attempts' >= attempts
      /\ client.nonce \in Nat
  BY HereType DEF Talks, Goes, TypeInv
<1>2. Opens(f) => /\ client.pc = "dh_params" /\ ~Before'
                  /\ f.obj.nonce = client.nonce /\ client.nonce # 0
                  /\ f.obj.value = <<client.nonce>>
                  /\ client.nonce = attempts
  BY DEF Talks, Goes, Before, CallInv
<1>3. Before' => \/ Before /\ client'.nonce = client.nonce
                 \/ client'.nonce = attempts + 1
  <2>1. ASSUME Before' PROVE client'.nonce # 0 /\ client'.nonce = attempts'
    BY <1>1, <2>1 DEF CallInv, Before, Exchanging
  <2>2. Before' => \/ attempts' = attempts + 1
                   \/ client.pc = "res_pq" /\ client'.nonce = client.nonce
    BY <2>1 DEF Before, Talks, Goes
  <2>. QED  BY <2>1, <2>2 DEF Before
<1>4. ASSUME NEW i \in Links, NEW g \in Items(links'[i].up), Opens(g)
      PROVE  /\ g.obj.nonce \in 1..attempts' /\ g.obj.value = <<g.obj.nonce>>
             /\ \A k \in DOMAIN sessions' : k[2] # g.obj.nonce
             /\ Before' => g.obj.nonce # client'.nonce
  <2>1. CASE g \in Items(links[i].up)
    <3>1. /\ g.obj.nonce \in 1..attempts /\ g.obj.value = <<g.obj.nonce>>
          /\ \A k \in DOMAIN sessions : k[2] # g.obj.nonce
          /\ Before => g.obj.nonce # client.nonce
      BY <1>4, <2>1 DEF OpenInv
    <3>2. Before' => g.obj.nonce # client'.nonce
      BY <1>1, <1>3, <3>1
    <3>. QED  BY <1>1, <3>1, <3>2
  <2>2. CASE g = f
    <3>1. \A k \in DOMAIN sessions : k[2] # client.nonce
      BY <1>2, <1>4, <2>2 DEF OpenInv, Before
    <3>. QED  BY <1>1, <1>2, <1>4, <2>2, <3>1
  <2>. QED  BY <1>4, <2>1, <2>2, TalkItems
<1>5. Single'
  <2>1. SUFFICES ASSUME NEW i \in Links, NEW e \in Links,
                        NEW j \in DOMAIN links'[i].up,
                        NEW l \in DOMAIN links'[e].up,
                        Opens(links'[i].up[j]), Opens(links'[e].up[l]),
                        links'[i].up[j].obj.nonce = links'[e].up[l].obj.nonce
                 PROVE  i = e /\ j = l
    BY DEF Single
  <2>2. ASSUME NEW x \in Links, NEW y \in DOMAIN links[x].up,
               Opens(links[x].up[y]), Opens(f)
        PROVE  links[x].up[y].obj.nonce # f.obj.nonce
    BY <1>2, <2>2 DEF OpenInv, Items, Before
  <2>3. \/ j \in DOMAIN links[i].up /\ links'[i].up[j] = links[i].up[j]
        \/ /\ i = client.link /\ j = Len(Here.up) + 1
           /\ links'[i].up[j] = f
    BY <2>1, TalkPlaces
  <2>4. \/ l \in DOMAIN links[e].up /\ links'[e].up[l] = links[e].up[l]
        \/ /\ e = client.link /\ l = Len(Here.up) + 1
           /\ links'[e].up[l] = f
    BY <2>1, TalkPlaces
  <2>5. CASE /\ j \in DOMAIN links[i].up /\ links'[i].up[j] = links[i].up[j]
             /\ l \in DOMAIN links[e].up /\ links'[e].up[l] = links[e].up[l]
    BY <2>1, <2>5 DEF OpenInv
  <2>. QED  BY <2>1, <2>2, <2>3, <2>4, <2>5
<1>6. Before' => \A k \in DOMAIN sessions' : k[2] # client'.nonce
  <2>1. \A k \in DOMAIN sessions : k[2] \in Nat /\ k[2] < attempts + 1
    BY KeyParts
  <2>. QED  BY <1>1, <1>3, <2>1 DEF OpenInv
<1>7. /\ \A e \in store' : e.secret \in 1..issued'
      /\ \A e, g \in store' :
            e.nonce = g.nonce /\ e.snonce = g.snonce => e = g
  BY <1>1 DEF OpenInv
<1>. QED  BY <1>4, <1>5, <1>6, <1>7 DEF OpenInv, Single

(* No other is of the attempt whose SetClientDHParams is served.           *)
LEMMA OthersOpen ==
  ASSUME TypeInv, OpenInv, NEW i \in Links, NEW f, Served(i, f), Opens(f),
         NEW e \in Links, NEW g \in Items(links'[e].up), Opens(g)
  PROVE  g.obj.nonce # f.obj.nonce
<1>1. /\ links[i].up # <<>> /\ f = links[i].up[1]
      /\ links' \in [Links -> Link] /\ 1 \in DOMAIN links[i].up
  BY ServedLinks, LinkType, TailItems
<1>2. PICK j \in DOMAIN links'[e].up : g = links'[e].up[j]
  BY DEF Items
<1>3. \E l \in DOMAIN links[e].up : g = links[e].up[l] /\ (e = i => l # 1)
  <2>1. CASE e # i
    BY <1>2, <2>1, ServedLinks
  <2>2. CASE e = i /\ links'[i].up = Tail(links[i].up)
    <3>1. j + 1 \in DOMAIN links[i].up
          /\ Tail(links[i].up)[j] = links[i].up[j + 1]
      BY <1>1, <1>2, <2>2, LinkType, TailItems
    <3>2. j \in Nat /\ j >= 1
      BY <1>1, <1>2, Places
    <3>3. j + 1 # 1
      BY <3>2
    <3>. QED  BY <1>2, <2>2, <3>1, <3>3
  <2>3. CASE e = i /\ links'[i].up = <<>>
    BY <1>2, <2>3
  <2>. QED  BY <2>1, <2>2, <2>3, ServedLinks
<1>. QED  BY <1>1, <1>3 DEF OpenInv

LEMMA ServedOpens ==
  ASSUME TypeInv, KeyInv, OpenInv, NEW i \in Links, NEW f, Served(i, f)
  PROVE  OpenInv'
<1>1. PICK how, fresh, answers : Effect(i, f, how, fresh, answers)
  BY DEF Served
<1>2. client' = client /\ attempts' = attempts /\ links' \in [Links -> Link]
  BY ServedLinks DEF Served, drawn
<1>3. DOMAIN sessions' = DOMAIN sessions \cup fresh
      /\ \A k \in fresh : Opens(f) /\ k[2] = f.obj.nonce
  BY <1>1 DEF Effect, Progress
<1>4. f \in Items(links[i].up)
  BY ServedLinks
<1>5. Single'
  BY <1>2, ServedNarrows, SingleStays DEF OpenInv, Single
<1>6. ASSUME NEW e \in Links, NEW g \in Items(links'[e].up), Opens(g)
      PROVE  /\ g.obj.nonce \in 1..attempts' /\ g.obj.value = <<g.obj.nonce>>
             /\ \A k \in DOMAIN sessions' : k[2] # g.obj.nonce
             /\ Before' => g.obj.nonce # client'.nonce
  <2>1. g \in Items(links[e].up)
    BY <1>6, ServedNarrows DEF Narrows
  <2>2. \A k \in fresh : k[2] # g.obj.nonce
    BY <1>3, <1>6, OthersOpen
  <2>3. /\ g.obj.nonce \in 1..attempts /\ g.obj.value = <<g.obj.nonce>>
        /\ \A k \in DOMAIN sessions : k[2] # g.obj.nonce
        /\ Before => g.obj.nonce # client.nonce
    BY <1>6, <2>1 DEF OpenInv
  <2>. QED  BY <1>2, <1>3, <2>2, <2>3 DEF Before
<1>7. Before' => \A k \in DOMAIN sessions' : k[2] # client'.nonce
  <2>1. Before => \A k \in fresh : k[2] # client.nonce
    BY <1>3, <1>4 DEF OpenInv
  <2>. QED  BY <1>2, <1>3, <2>1 DEF OpenInv, Before
<1>8. /\ \A e \in store' : e.secret \in 1..issued'
      /\ \A e, g \in store' :
            e.nonce = g.nonce /\ e.snonce = g.snonce => e = g
  BY DEF Served, StoreEffect
<1>. QED  BY <1>5, <1>6, <1>7, <1>8 DEF OpenInv, Single

-----------------------------------------------------------------------------
(* HANDSHAKE_STORE *)

LEMMA ItemType ==
  ASSUME TypeInv, NEW i \in Links,
         NEW f \in Items(links[i].up) \cup Items(links[i].down)
  PROVE  /\ f \in Frame /\ f.obj \in Object /\ f.obj.nonce \in Nat
         /\ f.key \in SUBSET Keys /\ f.seq \in Int /\ f.id \in Nat
<1>1. f \in Frame
  BY LinkType DEF Items
<1>. QED  BY <1>1 DEF Frame, Object

Remembered(f) ==
    Opens(f) /\ <<f.obj.nonce, f.obj.snonce>> \notin aged
       => Matching(store, f.obj) # {}

LEMMA RememberedItems ==
  /\ HandshakeRemembered <=>
        \A i \in Links : \A f \in Items(links[i].up) : Remembered(f)
  /\ HandshakeRemembered' <=>
        \A i \in Links : \A f \in Items(links'[i].up) : Remembered(f)'
<1>1. HandshakeRemembered <=>
        \A i \in Links : \A f \in Items(links[i].up) : Remembered(f)
  BY DEF HandshakeRemembered, Items, Remembered, Opens
<1>2. HandshakeRemembered' <=>
        \A i \in Links : \A f \in Items(links'[i].up) : Remembered(f)'
  BY DEF HandshakeRemembered, Items, Remembered, Opens
<1>. QED  BY <1>1, <1>2

LEMMA MatchingSame ==
  ASSUME NEW S, NEW a, NEW b, a.nonce = b.nonce, a.snonce = b.snonce
  PROVE  Matching(S, a) = Matching(S, b)
BY DEF Matching

(* Entries that stay, and an attempt that goes on or ends.                 *)
LEMMA QuietRemembers ==
  ASSUME TypeInv, RememberInv, store' = store, aged \subseteq aged',
         attempts' = attempts,
         \A i \in Links : /\ Narrows(i)
                          /\ Items(links'[i].down)
                                \subseteq Items(links[i].down),
         \/ client'.pc = "idle"
         \/ client' = client /\ (Here'.alive => Here.alive)
  PROVE  RememberInv'
<1>1. HandshakeRemembered'
  <2>1. ASSUME NEW i \in Links, NEW f \in Items(links'[i].up)
        PROVE  Remembered(f)'
    <3>1. Remembered(f)
      BY <2>1, RememberedItems DEF RememberInv, Narrows
    <3>. QED  BY <3>1 DEF Remembered
  <2>. QED  BY <2>1, RememberedItems
<1>2. \A i \in Links :
         \A f \in Items(links'[i].up) \cup Items(links'[i].down) :
            Exchanges(f) =>
               /\ f.obj.nonce <= attempts'
               /\ client'.pc = "res_pq" => f.obj.nonce # client'.nonce
  BY DEF RememberInv, Narrows
<1>3. client'.pc = "dh_params" /\ Here'.alive =>
         \A f \in Items(Here'.down) :
            (/\ f.obj.kind = "ServerDHParamsOk"
             /\ f.obj.nonce = client'.nonce /\ f.obj.snonce = client'.snonce
             /\ <<f.obj.nonce, f.obj.snonce>> \notin aged')
            => Matching(store', f.obj) # {}
  <2>1. client' = client => Items(Here'.down) \subseteq Items(Here.down)
    BY HereType DEF Here
  <2>. QED  BY <2>1 DEF RememberInv
<1>. QED  BY <1>1, <1>2, <1>3 DEF RememberInv

LEMMA RestRemembers ==
  ASSUME TypeInv, RememberInv, Rests
  PROVE  RememberInv'
<1>1. store' = store /\ aged' = aged /\ attempts' = attempts /\ Drained
  BY DEF Rests, server, drawn
<1>2. client'.pc = "idle"
  BY RestClient
<1>. QED  BY <1>1, <1>2, DrainedItems, QuietRemembers

LEMMA KeyedRemembers ==
  ASSUME TypeInv, RememberInv, Keyed
  PROVE  RememberInv'
<1>1. store' = store /\ aged' = aged /\ attempts' = attempts /\ Drained
      /\ client'.pc = "idle"
  BY DEF Keyed, server, drawn
<1>. QED  BY <1>1, DrainedItems, QuietRemembers

LEMMA MovedRemembers ==
  ASSUME TypeInv, RememberInv, NEW i, Moved(i)
  PROVE  RememberInv'
<1>1. store' = store /\ aged' = aged /\ attempts' = attempts
      /\ client'.pc = "idle"
  BY DEF Moved, server, drawn
<1>. QED  BY <1>1, MovedItems, QuietRemembers

LEMMA ResetRemembers ==
  ASSUME TypeInv, RememberInv, Reset
  PROVE  RememberInv'
<1>1. /\ client' = client /\ attempts' = attempts /\ client.link \in Links
      /\ ~Here'.alive
  BY HereType DEF Reset, Here, drawn
<1>2. HandshakeRemembered'
  BY RememberedItems, NoItems DEF Reset
<1>3. \A i \in Links :
         \A f \in Items(links'[i].up) \cup Items(links'[i].down) :
            Exchanges(f) =>
               /\ f.obj.nonce <= attempts'
               /\ client'.pc = "res_pq" => f.obj.nonce # client'.nonce
  BY <1>1, ResetItems DEF RememberInv, Narrows
<1>. QED  BY <1>1, <1>2, <1>3 DEF RememberInv

(* The entry of the pair in what has just been read is there still.        *)
LEMMA TalkRemembers ==
  ASSUME TypeInv, CallInv, RememberInv, NEW f, NEW taken, Talks(f, taken)
  PROVE  RememberInv'
<1>1. /\ UNCHANGED <<store, aged>> /\ CallInv'
      /\ attempts \in Nat /\ attempts' \in Nat /\ attempts' >= attempts
      /\ client'.link = client.link /\ client.link \in Links
      /\ \/ attempts' = attempts /\ client'.nonce \in {0, client.nonce}
         \/ attempts' = attempts + 1 /\ client'.nonce \in {0, attempts'}
  BY HereType DEF Talks, Goes, Puts, TypeInv
<1>2. HandshakeRemembered'
  <2>1. ASSUME NEW i \in Links, NEW g \in Items(links'[i].up)
        PROVE  Remembered(g)'
    <3>1. CASE g \in Items(links[i].up)
      <4>1. Remembered(g)
        BY <3>1, RememberedItems DEF RememberInv
      <4>. QED  BY <1>1, <4>1 DEF Remembered
    <3>2. ASSUME g = f, Here.alive, Opens(f),
                 <<f.obj.nonce, f.obj.snonce>> \notin aged
          PROVE  Matching(store, f.obj) # {}
      <4>1. /\ client.pc = "dh_params" /\ Expected(Incoming.obj)
            /\ f.obj.nonce = client.nonce /\ f.obj.snonce = client.snonce
            /\ Here.down # <<>>
        BY <3>2 DEF Talks, Goes, Puts
      <4>2. /\ Incoming.obj.kind = "ServerDHParamsOk"
            /\ Incoming.obj.nonce = client.nonce
            /\ Incoming.obj.snonce = client.snonce
        BY <4>1 DEF Expected
      <4>3. Matching(store, Incoming.obj) # {}
        BY <3>2, <4>1, <4>2, IncomingType DEF RememberInv
      <4>4. Matching(store, Incoming.obj) = Matching(store, f.obj)
        BY <4>1, <4>2, MatchingSame
      <4>. QED  BY <4>3, <4>4
    <3>. QED  BY <1>1, <2>1, <3>1, <3>2, TalkItems DEF Remembered
  <2>. QED  BY <2>1, RememberedItems
<1>3. ASSUME NEW i \in Links,
             NEW g \in Items(links'[i].up) \cup Items(links'[i].down),
             Exchanges(g)
      PROVE  /\ g.obj.nonce <= attempts'
             /\ client'.pc = "res_pq" => g.obj.nonce # client'.nonce
  <2>1. CASE g \in Items(links[i].up) \cup Items(links[i].down)
    <3>1. g.obj.nonce <= attempts /\ g.obj.nonce \in Nat
      BY <1>3, <2>1, ItemType DEF RememberInv
    <3>2. client'.pc = "res_pq" => /\ client'.nonce = attempts'
                                   /\ attempts' = attempts + 1
      BY <1>1 DEF CallInv, Exchanging, Talks, Goes
    <3>. QED  BY <1>1, <3>1, <3>2
  <2>2. CASE g = f
    <3>1. /\ f.obj.nonce = client.nonce /\ client.nonce # 0
          /\ client'.pc # "res_pq"
      BY <1>3, <2>2 DEF Talks, Goes
    <3>2. client.nonce = attempts
      BY <3>1 DEF CallInv
    <3>. QED  BY <1>1, <2>2, <3>1, <3>2
  <2>. QED  BY <1>3, <2>1, <2>2, TalkItems
<1>4. client'.pc = "dh_params" =>
         \A g \in Items(Here'.down) :
            ~(g.obj.kind = "ServerDHParamsOk" /\ g.obj.nonce = client'.nonce)
  <2>1. SUFFICES ASSUME client'.pc = "dh_params",
                        NEW g \in Items(Here'.down),
                        g.obj.kind = "ServerDHParamsOk",
                        g.obj.nonce = client'.nonce
                 PROVE  FALSE
    OBVIOUS
  <2>2. client.pc = "res_pq" /\ client'.nonce # 0
    BY <1>1, <2>1 DEF Talks, Goes, CallInv, Exchanging
  <2>3. g \in Items(links[client.link].down)
    BY <1>1, <2>1, TalkItems DEF Here
  <2>4. g.obj.nonce <= attempts /\ g.obj.nonce # client.nonce
        /\ g.obj.nonce \in Nat
    BY <1>1, <2>1, <2>2, <2>3, ItemType DEF RememberInv, Exchanges
  <2>. QED  BY <1>1, <2>1, <2>2, <2>4
<1>. QED  BY <1>2, <1>3, <1>4 DEF RememberInv

(* The server forgets an entry with its own SetClientDHParams only.        *)
LEMMA ServedRemembers ==
  ASSUME TypeInv, OpenInv, RememberInv, NEW i \in Links, NEW f, Served(i, f)
  PROVE  RememberInv'
<1>1. client' = client /\ attempts' = attempts /\ aged' = aged
      /\ client.link \in Links
  BY HereType DEF Served, drawn
<1>2. f \in Items(links[i].up)
  BY ServedLinks
<1>3. ASSUME NEW o, Matching(store, o) # {},
             <<o.nonce, o.snonce>> \notin aged,
             Opens(f) => o.nonce # f.obj.nonce
      PROVE  Matching(store', o) # {}
  <2>1. PICK e \in store : e.nonce = o.nonce /\ e.snonce = o.snonce
    BY <1>3 DEF Matching
  <2>2. \E g \in store' : g.nonce = e.nonce /\ g.snonce = e.snonce
    BY <1>3, <2>1 DEF Served, StoreEffect
  <2>. QED  BY <2>1, <2>2 DEF Matching
<1>4. HandshakeRemembered'
  <2>1. ASSUME NEW e \in Links, NEW g \in Items(links'[e].up), Opens(g),
               <<g.obj.nonce, g.obj.snonce>> \notin aged
        PROVE  Matching(store', g.obj) # {}
    <3>1. Remembered(g)
      BY <2>1, ServedNarrows, RememberedItems DEF RememberInv, Narrows
    <3>2. Matching(store, g.obj) # {}
      BY <2>1, <3>1 DEF Remembered
    <3>3. Opens(f) => g.obj.nonce # f.obj.nonce
      BY <2>1, OthersOpen
    <3>. QED  BY <1>3, <2>1, <3>2, <3>3
  <2>. QED  BY <1>1, <2>1, RememberedItems DEF Remembered
<1>5. ASSUME NEW e \in Links,
             NEW g \in Items(links'[e].up) \cup Items(links'[e].down),
             Exchanges(g)
      PROVE  /\ g.obj.nonce <= attempts'
             /\ client'.pc = "res_pq" => g.obj.nonce # client'.nonce
  <2>1. CASE g \in Items(links[e].up) \cup Items(links[e].down)
    BY <1>1, <1>5, <2>1 DEF RememberInv
  <2>2. CASE AnswersTo(f, g)
    <3>1. f.obj.kind = "ReqDHParams" /\ g.obj.nonce = f.obj.nonce
      BY <1>5, <2>2 DEF AnswersTo, Exchanges
    <3>. QED  BY <1>1, <1>2, <3>1 DEF RememberInv, Exchanges
  <2>. QED  BY <1>5, <2>1, <2>2, ServedNarrows, ServedItems DEF Narrows
<1>6. ASSUME client'.pc = "dh_params", Here'.alive,
             NEW g \in Items(Here'.down), g.obj.kind = "ServerDHParamsOk",
             g.obj.nonce = client'.nonce, g.obj.snonce = client'.snonce,
             <<g.obj.nonce, g.obj.snonce>> \notin aged'
      PROVE  Matching(store', g.obj) # {}
  <2>1. CASE g \in Items(Here.down)
    <3>1. Here.alive
      BY <1>1, <1>6, ServedLinks DEF Here
    <3>2. Matching(store, g.obj) # {}
      BY <1>1, <1>6, <2>1, <3>1 DEF RememberInv
    <3>3. Opens(f) => g.obj.nonce # f.obj.nonce
      BY <1>1, <1>2, <1>6 DEF OpenInv, Before
    <3>. QED  BY <1>1, <1>3, <1>6, <3>2, <3>3
  <2>2. CASE AnswersTo(f, g)
    BY <1>6, <2>2 DEF AnswersTo
  <2>3. g \in Items(links'[client.link].down)
    BY <1>1, <1>6 DEF Here
  <2>. QED  BY <1>1, <2>1, <2>2, <2>3, ServedItems DEF Here
<1>. QED  BY <1>4, <1>5, <1>6 DEF RememberInv

-----------------------------------------------------------------------------
(* Numbering *)

(* Under key k, frames under way and the client's own numbers fit together *)
(* as they did.                                                            *)
LEMMA PlainStays ==
  ASSUME NEW k, Plain(k), \A i \in Links : Narrows(i),
         k \in client'.key => /\ k \in client.key /\ client'.seq = client.seq
                              /\ client'.sent = client.sent
  PROVE  Plain(k)'
BY DEF Plain, Narrows

LEMMA AheadStays ==
  ASSUME NEW k, Ahead(k), \A i \in Links : Narrows(i),
         k \in client'.key => /\ k \in client.key /\ client'.seq = client.seq
                              /\ client'.sent = client.sent,
         sessions'[k].rseq = sessions[k].rseq,
         sessions'[k].done = sessions[k].done
  PROVE  Ahead(k)'
BY DEF Ahead, Narrows

LEMMA SilentStays ==
  ASSUME NEW k, Silent(k), \A i \in Links : Narrows(i),
         k \in client'.key => k \in client.key /\ (Here'.alive => Here.alive)
  PROVE  Silent(k)'
BY DEF Silent, Narrows

Numbers(k) ==
    /\ \A j \in DOMAIN sessions[k].done : sessions[k].done[j] = j
    /\ client.nonce # 0 /\ k[2] = client.nonce =>
          sessions[k].rseq = -1 /\ sessions[k].done = <<>>
    /\ Plain(k) \/ Ahead(k)
    /\ sessions[k].rseq = Len(sessions[k].done) - 1 \/ Silent(k)

LEMMA EachNumbers ==
  /\ NumberInv <=> \A k \in DOMAIN sessions : Numbers(k)
  /\ NumberInv' <=> \A k \in DOMAIN sessions' : Numbers(k)'
<1>1. NumberInv <=> \A k \in DOMAIN sessions : Numbers(k)
  BY DEF NumberInv, Numbers
<1>2. NumberInv' <=> \A k \in DOMAIN sessions' : Numbers(k)'
  BY DEF NumberInv, Numbers
<1>. QED  BY <1>1, <1>2

LEMMA QuietNumbers ==
  ASSUME NumberInv, sessions' = sessions, \A i \in Links : Narrows(i),
         client'.nonce \in {0, client.nonce},
         \A k \in client'.key : /\ k \in client.key
                                /\ client'.seq = client.seq
                                /\ client'.sent = client.sent
                                /\ Here'.alive => Here.alive
  PROVE  NumberInv'
<1>1. ASSUME NEW k \in DOMAIN sessions'
      PROVE  Numbers(k)'
  <2>1. Numbers(k)
    BY <1>1, EachNumbers
  <2>2. (Plain(k) \/ Ahead(k))'
    BY <2>1, PlainStays, AheadStays DEF Numbers
  <2>3. Silent(k) => Silent(k)'
    BY SilentStays
  <2>. QED  BY <2>1, <2>2, <2>3 DEF Numbers
<1>. QED  BY <1>1, EachNumbers

LEMMA RestNumbers ==
  ASSUME TypeInv, NumberInv, Rests
  PROVE  NumberInv'
<1>1. sessions' = sessions /\ Drained
  BY DEF Rests, server
<1>2. client'.nonce = 0 /\ Same(client', client)
  BY RestClient
<1>3. Here'.alive = Here.alive
  BY <1>1, <1>2 DEF Drained, Same, Here
<1>. QED  BY <1>1, <1>2, <1>3, DrainedItems, QuietNumbers DEF Same

LEMMA MovedNumbers ==
  ASSUME TypeInv, NumberInv, NEW i, Moved(i)
  PROVE  NumberInv'
<1>1. sessions' = sessions /\ client'.nonce = 0 /\ client'.key = {}
  BY DEF Moved, server
<1>. QED  BY <1>1, MovedItems, QuietNumbers

(* A new key finds a session nobody has sent to.                           *)
LEMMA KeyedNumbers ==
  ASSUME TypeInv, CallInv, KeyInv, NumberInv, Keyed
  PROVE  NumberInv'
<1>0. PICK s : s = Secret
  OBVIOUS
<1>1. /\ client'.key = {s} /\ client'.nonce = 0 /\ client'.sent = 0
      /\ client'.seq = client.seq /\ client.nonce # 0
      /\ sessions' = sessions /\ Drained
  BY <1>0 DEF Keyed, server
<1>2. /\ s \in DOMAIN sessions /\ s[2] = client.nonce
      /\ s[2] \in Nat
      /\ \A i \in Links : \A f \in Items(links[i].up) :
            \A k \in f.key : k[2] < s[2]
  BY <1>0, TakenKey, KeyParts
<1>3. \A i \in Links : Narrows(i) /\ links'[i].up = links[i].up
  BY <1>1, DrainedItems
<1>4. Numbers(s)'
  <2>1. Numbers(s)
    BY <1>2, EachNumbers
  <2>2. sessions[s].rseq = -1 /\ sessions[s].done = <<>>
    BY <1>1, <1>2, <2>1 DEF Numbers
  <2>3. \A i \in Links : \A f \in Items(links'[i].up) : s \notin f.key
    <3>1. ~(s[2] < s[2])
      BY <1>2
    <3>. QED  BY <1>2, <1>3, <3>1
  <2>4. (Plain(s) \/ Ahead(s))'
    <3>1. client.seq \in Int /\ client.seq >= -1
      BY HereType DEF CallInv
    <3>2. CASE client.seq = -1
      <4>1. client'.seq = client'.sent - 1
        BY <1>1, <3>2
      <4>. QED  BY <2>3, <4>1 DEF Plain
    <3>3. CASE client.seq # -1
      <4>1. client'.seq >= client'.sent
        BY <1>1, <3>1, <3>3
      <4>. QED  BY <1>1, <2>2, <2>3, <4>1 DEF Ahead
    <3>. QED  BY <3>2, <3>3
  <2>5. sessions[s].rseq = Len(sessions[s].done) - 1
    BY <2>2
  <2>. QED  BY <1>1, <2>1, <2>4, <2>5 DEF Numbers
<1>5. ASSUME NEW k \in DOMAIN sessions, k # s
      PROVE  Numbers(k)'
  <2>1. Numbers(k)
    BY <1>5, EachNumbers
  <2>2. k \notin client'.key
    BY <1>1, <1>5
  <2>3. (Plain(k) \/ Ahead(k))'
    BY <1>1, <1>3, <2>1, <2>2, PlainStays, AheadStays DEF Numbers
  <2>4. Silent(k) => Silent(k)'
    BY <1>3, <2>2, SilentStays
  <2>. QED  BY <1>1, <2>1, <2>3, <2>4 DEF Numbers
<1>. QED  BY <1>1, <1>4, <1>5, EachNumbers

(* The frame the client sends takes its number on in step with its id.     *)
LEMMA TalkNumbers ==
  ASSUME TypeInv, KeyInv, NumberInv, NEW f, NEW taken, Talks(f, taken)
  PROVE  NumberInv'
<1>1. /\ sessions' = sessions /\ f.key = client.key
      /\ client'.key = client.key /\ client'.link = client.link
      /\ Here'.alive = Here.alive /\ client.link \in Links
      /\ client.seq \in Int /\ client.sent \in Nat
      /\ attempts \in Nat
  BY HereType DEF Talks, Goes, Puts, Here, TypeInv
<1>2. client.key # {} =>
         /\ f.seq = client.seq + 1 /\ f.id = client.sent + 1
         /\ client'.seq = client.seq + 1 /\ client'.sent = client.sent + 1
  BY <1>1 DEF Talks, Puts
<1>3. \/ client'.nonce \in {0, client.nonce} \/ client'.nonce = attempts + 1
  BY DEF Talks, Goes
<1>4. ASSUME NEW k \in DOMAIN sessions
      PROVE  Numbers(k)'
  <2>1. Numbers(k)
    BY <1>4, EachNumbers
  <2>2. client'.nonce # 0 /\ k[2] = client'.nonce =>
           sessions[k].rseq = -1 /\ sessions[k].done = <<>>
    BY <1>1, <1>3, <2>1, KeyParts DEF Numbers
  <2>3. ASSUME Plain(k) PROVE Plain(k)'
    <3>1. k \in client.key => f.seq = f.id - 1
                              /\ client'.seq = client'.sent - 1
      BY <1>1, <1>2, <2>3 DEF Plain
    <3>2. \A i \in Links : \A g \in Items(links'[i].up) :
             k \in g.key => g.seq = g.id - 1
      BY <1>1, <1>4, <2>3, <3>1, TalkItems DEF Plain
    <3>. QED  BY <1>1, <3>1, <3>2 DEF Plain
  <2>4. ASSUME Ahead(k) PROVE Ahead(k)'
    <3>1. k \in client.key => f.seq >= f.id /\ client'.seq >= client'.sent
      BY <1>1, <1>2, <2>4 DEF Ahead
    <3>2. \A i \in Links : \A g \in Items(links'[i].up) :
             k \in g.key => g.seq >= g.id
      <4>1. SUFFICES ASSUME NEW i \in Links, NEW g \in Items(links'[i].up),
                            k \in g.key
                     PROVE  g.seq >= g.id
        OBVIOUS
      <4>2. g \in Items(links[i].up) \/ g = f
        BY <4>1, TalkItems
      <4>3. g \in Items(links[i].up) => g.seq >= g.id
        BY <2>4, <4>1 DEF Ahead
      <4>. QED  BY <1>1, <3>1, <4>1, <4>2, <4>3
    <3>3. sessions[k].rseq = -1 /\ sessions[k].done = <<>>
      BY <2>4 DEF Ahead
    <3>. QED  BY <1>1, <3>1, <3>2, <3>3 DEF Ahead
  <2>5. ASSUME Silent(k) PROVE Silent(k)'
    BY <1>1, <2>5, TalkItems DEF Silent
  <2>. QED  BY <1>1, <2>1, <2>2, <2>3, <2>4, <2>5 DEF Numbers
<1>. QED  BY <1>1, <1>4, EachNumbers

(* A frame that is executed is the next of its session.                    *)
LEMMA NextOfSession ==
  ASSUME TypeInv, KeyInv, NumberInv, NEW i \in Links, NEW f, Served(i, f),
         NEW k \in f.key
  PROVE  /\ k \in DOMAIN sessions /\ Numbers(k)
         /\ sessions[k].rseq = Len(sessions[k].done) - 1
         /\ client.nonce # 0 => k[2] # client.nonce
         /\ Admitted(f) => /\ Plain(k) /\ f.seq = sessions[k].rseq + 1
                           /\ f.id = Len(sessions[k].done) + 1
<1>1. f \in Items(links[i].up) /\ f \in Frame /\ f.seq \in Int /\ f.id \in Nat
  BY ServedLinks, ItemType
<1>2. UpKeyInv(i, f)
  BY <1>1 DEF KeyInv
<1>3. k \in DOMAIN sessions /\ f.id >= 1
  BY <1>2 DEF UpKeyInv
<1>4. Numbers(k) /\ ~Silent(k)
  BY <1>1, <1>3, EachNumbers DEF Silent
<1>5. sessions[k].rseq = Len(sessions[k].done) - 1
  BY <1>4 DEF Numbers
<1>6. client.nonce # 0 => k[2] # client.nonce
  <2>1. k[2] \in Nat /\ client.nonce \in Nat
    BY <1>3, KeyParts, HereType
  <2>2. client.nonce # 0 => k[2] < client.nonce
    BY <1>2 DEF UpKeyInv
  <2>. QED  BY <2>1, <2>2
<1>7. ASSUME Admitted(f)
      PROVE  /\ Plain(k) /\ f.seq = sessions[k].rseq + 1
             /\ f.id = Len(sessions[k].done) + 1
  <2>1. f.seq = sessions[k].rseq + 1
    BY <1>7 DEF Admitted, InSequence
  <2>2. ~Ahead(k)
    <3>1. SUFFICES ASSUME Ahead(k) PROVE FALSE
      OBVIOUS
    <3>2. f.seq >= f.id /\ sessions[k].rseq = -1
      BY <1>1, <3>1 DEF Ahead
    <3>3. f.seq = 0
      BY <2>1, <3>2
    <3>. QED  BY <1>1, <1>3, <3>2, <3>3
  <2>3. Plain(k)
    BY <1>4, <2>2 DEF Numbers
  <2>4. f.seq = f.id - 1
    BY <1>1, <2>3 DEF Plain
  <2>5. sessions[k].done \in Seq(Nat)
    BY <1>3, SessionType
  <2>6. PICK n \in Nat : n = Len(sessions[k].done)
    BY <2>5
  <2>7. f.id = n + 1
    BY <1>1, <1>5, <2>1, <2>4, <2>6
  <2>. QED  BY <2>1, <2>3, <2>6, <2>7
<1>. QED  BY <1>3, <1>4, <1>5, <1>6, <1>7

(* Once the server has counted it without executing it, the connection is  *)
(* closed, and with it all that is sent under the key.                     *)
LEMMA ShutSilent ==
  ASSUME TypeInv, KeyInv, NEW i \in Links, NEW f \in Items(links[i].up),
         NEW k \in f.key, Shuts(i), client' = client
  PROVE  Silent(k)'
<1>1. UpKeyInv(i, f)
  BY DEF KeyInv
<1>2. \A e \in Links : \A g \in Items(links'[e].up) : k \notin g.key
  <2>1. SUFFICES ASSUME NEW e \in Links, NEW g \in Items(links'[e].up),
                        k \in g.key
                 PROVE  FALSE
    OBVIOUS
  <2>2. e # i
    BY <2>1, NoItems DEF Shuts
  <2>3. g \in Items(links[e].up)
    BY <2>1, <2>2 DEF Shuts, Elsewhere
  <2>. QED  BY <2>1, <2>2, <2>3 DEF KeyInv
<1>3. k \in client'.key => ~Here'.alive
  <2>1. SUFFICES ASSUME k \in client.key PROVE i = client.link
    BY HereType DEF Shuts, Here
  <2>2. i # client.link => k[2] < k[2]
    BY <1>1, <2>1 DEF UpKeyInv
  <2>3. k[2] \in Nat
    BY <1>1, KeyParts DEF UpKeyInv
  <2>. QED  BY <2>2, <2>3
<1>. QED  BY <1>2, <1>3 DEF Silent

LEMMA ServedNumbers ==
  ASSUME TypeInv, KeyInv, OpenInv, NumberInv, NEW i \in Links, NEW f,
         Served(i, f)
  PROVE  NumberInv'
<1>1. PICK how, fresh, answers : Effect(i, f, how, fresh, answers)
  BY DEF Served
<1>2. client' = client /\ f \in Items(links[i].up)
      /\ client.link \in Links
  BY ServedLinks, HereType DEF Served
<1>3. /\ DOMAIN sessions' = DOMAIN sessions \cup fresh
      /\ fresh \cap DOMAIN sessions = {}
      /\ \A k \in fresh : sessions'[k].rseq = -1 /\ sessions'[k].done = <<>>
      /\ \A k \in DOMAIN sessions :
            /\ sessions'[k].rseq = IF k \in f.key /\ how # "kept" THEN f.seq
                                   ELSE sessions[k].rseq
            /\ sessions'[k].done = IF k \in f.key /\ how = "executed"
                                   THEN Append(sessions[k].done, f.id)
                                   ELSE sessions[k].done
  BY <1>1 DEF Effect, Progress
<1>4. \A e \in Links : Narrows(e)
  BY ServedNarrows
<1>5. Here'.alive => Here.alive
  BY <1>2, ServedLinks DEF Here
<1>6. ASSUME NEW k \in fresh
      PROVE  Numbers(k)'
  <2>1. /\ k \notin client.key
        /\ \A e \in Links : \A g \in Items(links[e].up) : k \notin g.key
    BY <1>3 DEF KeyInv, KeyKnown, UpKeyInv
  <2>2. \A e \in Links : \A g \in Items(links'[e].up) : k \notin g.key
    BY <1>4, <2>1 DEF Narrows
  <2>3. Plain(k)'
    BY <1>2, <2>1, <2>2 DEF Plain
  <2>4. sessions'[k].rseq = -1 /\ sessions'[k].done = <<>>
    BY <1>3
  <2>5. sessions'[k].rseq = Len(sessions'[k].done) - 1
    BY <2>4
  <2>. QED  BY <2>3, <2>4, <2>5 DEF Numbers
<1>7. ASSUME NEW k \in DOMAIN sessions, k \notin f.key \/ how = "kept"
      PROVE  Numbers(k)'
  <2>1. Numbers(k)
    BY EachNumbers
  <2>2. /\ sessions'[k].rseq = sessions[k].rseq
        /\ sessions'[k].done = sessions[k].done
    BY <1>3, <1>7
  <2>3. (Plain(k) \/ Ahead(k))'
    BY <1>2, <1>4, <2>1, <2>2, PlainStays, AheadStays DEF Numbers
  <2>4. Silent(k) => Silent(k)'
    BY <1>2, <1>4, <1>5, SilentStays
  <2>. QED  BY <1>2, <2>1, <2>2, <2>3, <2>4 DEF Numbers
<1>8. ASSUME NEW k \in f.key, how # "kept"
      PROVE  Numbers(k)'
  <2>1. Admitted(f)
    BY <1>1, <1>8 DEF Effect
  <2>2. /\ k \in DOMAIN sessions /\ Numbers(k)
        /\ sessions[k].rseq = Len(sessions[k].done) - 1
        /\ client.nonce # 0 => k[2] # client.nonce
        /\ Plain(k) /\ f.seq = sessions[k].rseq + 1
        /\ f.id = Len(sessions[k].done) + 1
    BY <2>1, NextOfSession
  <2>3. Plain(k)'
    BY <1>2, <1>4, <2>2, PlainStays
  <2>4. sessions[k].done \in Seq(Nat) /\ f.id \in Nat
    BY <1>2, <2>2, SessionType, ItemType
  <2>5. CASE how = "executed"
    <3>1. PICK d \in Seq(Nat) : d = sessions[k].done
      BY <2>4
    <3>2. PICK n \in Nat : n = f.id /\ n = Len(d) + 1
      BY <2>2, <2>4, <3>1
    <3>3. PICK b : b = Append(d, n)
      OBVIOUS
    <3>4. /\ DOMAIN b = 1..(Len(d) + 1) /\ Len(b) = Len(d) + 1
          /\ \A j \in DOMAIN d : b[j] = d[j]
          /\ b[Len(d) + 1] = n /\ DOMAIN d = 1..Len(d) /\ Len(d) \in Nat
      BY <3>1, <3>2, <3>3, AppendItems
    <3>5. \A j \in DOMAIN d : d[j] = j
      BY <2>2, <3>1 DEF Numbers
    <3>6. \A j \in DOMAIN b : b[j] = j
      BY <3>2, <3>4, <3>5
    <3>7. sessions'[k].done = b /\ sessions'[k].rseq = f.seq
      BY <1>3, <1>8, <2>2, <2>5, <3>1, <3>2, <3>3
    <3>8. f.seq = Len(b) - 1
      BY <2>2, <3>1, <3>4
    <3>. QED  BY <1>2, <2>2, <2>3, <3>6, <3>7, <3>8 DEF Numbers
  <2>6. CASE how # "executed"
    <3>1. Shuts(i)
      BY <1>1, <1>8, <2>6 DEF Effect
    <3>2. Silent(k)'
      BY <1>2, <1>8, <3>1, ShutSilent
    <3>3. sessions'[k].done = sessions[k].done
      BY <1>3, <2>2, <2>6
    <3>. QED  BY <1>2, <2>2, <2>3, <3>2, <3>3 DEF Numbers
  <2>. QED  BY <2>5, <2>6
<1>. QED  BY <1>3, <1>6, <1>7, <1>8, EachNumbers

-----------------------------------------------------------------------------
(* Answers *)

LEMMA HereNarrows ==
  ASSUME TypeInv, links' \in [Links -> Link], client'.link = client.link,
         Narrows(client.link)
  PROVE  /\ Here' = links'[client.link]
         /\ Items(Here'.up) \subseteq Items(Here.up)
         /\ (\A i, j \in DOMAIN Here.up :
                Asks(Here.up[i]) /\ Asks(Here.up[j]) => i = j)
            => \A i, j \in DOMAIN Here'.up :
                  Asks(Here'.up[i]) /\ Asks(Here'.up[j]) => i = j
<1>1. Here' = links'[client.link] /\ Here = links[client.link]
      /\ client.link \in Links
  BY HereType DEF Here
<1>2. PICK d \in {0, 1} : \A j \in DOMAIN Here'.up :
          /\ j + d \in DOMAIN Here.up /\ Here'.up[j] = Here.up[j + d]
  BY <1>1 DEF Narrows
<1>3. \A j \in DOMAIN Here'.up : j \in Nat
  BY <1>1, Places
<1>4. ASSUME \A i, j \in DOMAIN Here.up :
                Asks(Here.up[i]) /\ Asks(Here.up[j]) => i = j,
             NEW i \in DOMAIN Here'.up, NEW j \in DOMAIN Here'.up,
             Asks(Here'.up[i]), Asks(Here'.up[j])
      PROVE  i = j
  <2>1. i + d = j + d
    BY <1>2, <1>4
  <2>. QED  BY <1>3, <2>1
<1>. QED  BY <1>1, <1>4 DEF Narrows

(* Nothing new for the client.                                             *)
LEMMA QuietAnswers ==
  ASSUME TypeInv, AnswerInv, links' \in [Links -> Link], client' = client,
         UNCHANGED <<late, answer>>, Narrows(client.link),
         Here'.garbled = Here.garbled,
         Items(Here'.down) \subseteq Items(Here.down),
         Here.down = <<>> => Here'.down = <<>>,
         Len(Here'.down) <= Len(Here.down)
  PROVE  AnswerInv'
<1>1. SUFFICES ASSUME ~late
               PROVE  AnswerInv'
  BY DEF AnswerInv
<1>2. /\ \A a \in answer : a.got = a.asked
      /\ ~Here.garbled
      /\ ~Reading => Here.down = <<>> /\ \A f \in Items(Here.up) : ~Asks(f)
      /\ Len(Here.down) <= 1
      /\ Here.down # <<>> => \A f \in Items(Here.up) : ~Asks(f)
      /\ \A i, j \in DOMAIN Here.up :
            Asks(Here.up[i]) /\ Asks(Here.up[j]) => i = j
      /\ client.pc = "answer" =>
            /\ \A f \in Items(Here.up) : Asks(f) => f.obj.call = client.call
            /\ \A f \in Items(Here.down) :
                  Tells(f) => f.obj.call = client.call
  BY <1>1 DEF AnswerInv
<1>3. Len(Here'.down) <= 1
  <2>1. Here' \in Link
    BY HereType DEF Here
  <2>2. Len(Here'.down) \in Nat /\ Len(Here.down) \in Nat
    BY <2>1, HereType DEF Link
  <2>. QED  BY <1>2, <2>2
<1>4. Items(Here'.up) \subseteq Items(Here.up)
      /\ \A i, j \in DOMAIN Here'.up :
            Asks(Here'.up[i]) /\ Asks(Here'.up[j]) => i = j
  BY <1>2, HereNarrows
<1>5. Reading' <=> Reading
  BY DEF Reading
<1>. QED  BY <1>2, <1>3, <1>4, <1>5 DEF AnswerInv

(* The client is idle, and nothing is under way that it may take for an    *)
(* answer.                                                                 *)
LEMMA IdleAnswers ==
  ASSUME TypeInv, links' \in [Links -> Link],
         client'.pc = "idle", ~late' => /\ ~Here'.garbled
                                        /\ Here'.down = <<>>
                                        /\ \A f \in Items(Here'.up) : ~Asks(f)
                                        /\ \A a \in answer' : a.got = a.asked
  PROVE  AnswerInv'
<1>1. SUFFICES ASSUME ~late'
               PROVE  AnswerInv'
  BY DEF AnswerInv
<1>2. \A j \in DOMAIN Here'.up : ~Asks(Here'.up[j])
  BY <1>1 DEF Items
<1>3. Len(Here'.down) <= 1
  BY <1>1
<1>. QED  BY <1>1, <1>2, <1>3 DEF AnswerInv, Reading

(* The stream is empty once what has arrived is read.                      *)
LEMMA LastRead ==
  ASSUME NEW S, NEW q \in Seq(S), q # <<>>, Len(q) <= 1
  PROVE  Tail(q) = <<>>
<1>1. Len(q) \in Nat /\ Len(q) # 0 /\ Tail(q) \in Seq(S)
      /\ Len(Tail(q)) = Len(q) - 1
  OBVIOUS
<1>2. Len(Tail(q)) = 0
  BY <1>1
<1>. QED  BY <1>1, <1>2

LEMMA MovedAnswers ==
  ASSUME TypeInv, NEW i, Moved(i)
  PROVE  AnswerInv'
<1>1. Here' = links'[i] /\ client'.pc = "idle" /\ answer' = {}
      /\ links' \in [Links -> Link]
      /\ links'[i].up = <<>> /\ links'[i].down = <<>> /\ ~links'[i].garbled
  BY DEF Moved, Here
<1>. QED  BY <1>1, NoItems, IdleAnswers

LEMMA KeyedAnswers ==
  ASSUME TypeInv, AnswerInv, Keyed
  PROVE  AnswerInv'
<1>1. /\ Here' = links'[client.link] /\ client'.pc = "idle"
      /\ answer' = answer /\ late' = late
      /\ links' \in [Links -> Link]
      /\ Here'.down = Tail(Here.down) /\ Here'.up = Here.up
      /\ Here'.garbled = Here.garbled /\ Here.down # <<>>
  BY DEF Keyed, Here, history, Drained, Elsewhere
<1>2. ASSUME ~late
      PROVE  /\ ~Here.garbled /\ Tail(Here.down) = <<>>
             /\ \A f \in Items(Here.up) : ~Asks(f)
             /\ \A a \in answer : a.got = a.asked
  BY <1>1, <1>2, HereType, LastRead DEF AnswerInv
<1>. QED  BY <1>1, <1>2, IdleAnswers

(* A call returns with what answers it, or with nothing.                   *)
LEMMA RestAnswers ==
  ASSUME TypeInv, AnswerInv, Rests
  PROVE  AnswerInv'
<1>1. /\ client'.pc = "idle" /\ client'.link = client.link
      /\ links' \in [Links -> Link]
      /\ Here' = links'[client.link] /\ Here'.up = Here.up
  BY RestClient DEF Rests, Same, Here, Drained, Elsewhere
<1>2. ASSUME ~late'
      PROVE  /\ ~Here'.garbled /\ Here'.down = <<>>
             /\ \A f \in Items(Here'.up) : ~Asks(f)
             /\ \A a \in answer' : a.got = a.asked
  <2>1. ~late /\ ~Here.garbled
    BY <1>2 DEF Rests, AnswerInv
  <2>2. /\ Here'.garbled = Here.garbled
        /\ \/ Here.down # <<>> /\ Here'.down = Tail(Here.down)
           \/ ~Here.alive /\ Here.down = <<>> /\ Here'.down = <<>>
    BY <1>1, <1>2, <2>1 DEF Rests
  <2>3. Here'.down = <<>>
    <3>1. Here.down # <<>> => Tail(Here.down) = <<>>
      BY <2>1, HereType, LastRead DEF AnswerInv
    <3>. QED  BY <2>2, <3>1
  <2>4. \A f \in Items(Here'.up) : ~Asks(f)
    <3>1. CASE Here.down # <<>>
      BY <1>1, <2>1, <3>1 DEF AnswerInv
    <3>2. CASE ~Here.alive
      <4>1. Here.up = <<>>
        BY <3>2, HereType DEF TypeInv, Here
      <4>. QED  BY <1>1, <4>1, NoItems
    <3>. QED  BY <2>2, <3>1, <3>2
  <2>5. \A a \in answer' : a.got = a.asked
    <3>1. CASE answer' = answer
      BY <2>1, <3>1 DEF AnswerInv
    <3>2. CASE /\ client.pc = "answer" /\ Here.down # <<>>
               /\ Incoming.obj.kind \in AnswerTo(client.wants)
               /\ answer' = {[asked |-> client.call, got |-> Incoming.obj.call]}
      <4>1. Tells(Incoming)
        BY <3>2 DEF Tells, AnswerTo
      <4>2. Incoming.obj.call = client.call
        BY <2>1, <3>2, <4>1, IncomingType DEF AnswerInv
      <4>. QED  BY <3>2, <4>2
    <3>. QED  BY <3>1, <3>2 DEF Rests
  <2>. QED  BY <2>1, <2>2, <2>3, <2>4, <2>5
<1>. QED  BY <1>1, <1>2, IdleAnswers

(* A call asks when nothing is under way.                                  *)
LEMMA TalkAnswers ==
  ASSUME TypeInv, AnswerInv, NEW f, NEW taken, Talks(f, taken)
  PROVE  AnswerInv'
<1>1. SUFFICES ASSUME ~late
               PROVE  AnswerInv'
  BY DEF AnswerInv, Talks, Goes
<1>2. /\ late' = late /\ answer' = answer /\ client'.link = client.link
      /\ Here' = links'[client.link] /\ client.link \in Links
      /\ links' \in [Links -> Link] /\ Here'.garbled = Here.garbled
      /\ taken <=> client.pc # "idle"
      /\ taken => Here.down # <<>>
      /\ Here'.down = IF taken THEN Tail(Here.down) ELSE Here.down
  BY HereType DEF Talks, Goes, Puts, Here, Elsewhere
<1>3. /\ Here'.down = <<>> /\ ~Here.garbled
      /\ \A g \in Items(Here.up) : ~Asks(g)
      /\ \A a \in answer : a.got = a.asked
  BY <1>1, <1>2, HereType, LastRead DEF AnswerInv, Reading
<1>4. \A g \in Items(Here'.up) : Asks(g) => g = f /\ Here'.up # Here.up
  <2>1. CASE Here'.up = Here.up
    BY <1>3, <2>1
  <2>2. CASE Here'.up # Here.up
    BY <1>2, <1>3, <2>2, TalkItems DEF Here
  <2>. QED  BY <2>1, <2>2
<1>5. \A j \in DOMAIN Here'.up : Asks(Here'.up[j]) => j = Len(Here.up) + 1
  <2>1. \A j \in DOMAIN Here'.up :
           \/ j \in DOMAIN Here.up /\ Here'.up[j] = Here.up[j]
           \/ j = Len(Here.up) + 1
    BY <1>2, TalkPlaces DEF Here
  <2>. QED  BY <1>3, <2>1 DEF Items
<1>6. ~Reading' => \A g \in Items(Here'.up) : ~Asks(g)
  BY <1>2, <1>4 DEF Talks, Goes, Reading
<1>7. client'.pc = "answer" =>
         \A g \in Items(Here'.up) : Asks(g) => g.obj.call = client'.call
  BY <1>4 DEF Talks, Goes
<1>8. Items(Here'.down) = {} /\ Len(Here'.down) <= 1
  BY <1>3, NoItems
<1>. QED  BY <1>1, <1>2, <1>3, <1>5, <1>6, <1>7, <1>8 DEF AnswerInv

(* The answer to the one that asks.                                        *)
LEMMA ServedAnswers ==
  ASSUME TypeInv, AnswerInv, NEW i \in Links, NEW f, Served(i, f)
  PROVE  AnswerInv'
<1>1. /\ client' = client /\ UNCHANGED <<late, answer>>
      /\ client.link \in Links /\ links' \in [Links -> Link]
      /\ Here' = links'[client.link] /\ Here = links[client.link]
      /\ Narrows(client.link) /\ Here'.garbled = Here.garbled
  BY ServedLinks, ServedNarrows, HereType DEF Served, Here
<1>2. CASE Here'.down = Here.down
  <2>1. Len(Here.down) \in Nat
    BY HereType
  <2>2. Len(Here'.down) <= Len(Here.down)
    BY <1>2, <2>1
  <2>. QED  BY <1>1, <1>2, <2>2, QuietAnswers
<1>3. ASSUME i = client.link, NEW r, AnswersTo(f, r), Reads(i),
             links'[i].down = Append(links[i].down, r)
      PROVE  AnswerInv'
  <2>1. SUFFICES ASSUME ~late
                 PROVE  AnswerInv'
    BY <1>1 DEF AnswerInv
  <2>2. /\ f = Here.up[1] /\ f \in Items(Here.up) /\ Here.up # <<>>
        /\ Asks(f) /\ r \in Frame
        /\ Here'.up = Tail(Here.up) /\ Here'.down = Append(Here.down, r)
    BY <1>1, <1>3, ServedLinks DEF AnswersTo, Reads
  <2>3. Reading /\ Here.down = <<>>
    BY <2>1, <2>2 DEF AnswerInv
  <2>4. Items(Here'.down) = {r} /\ Len(Here'.down) <= 1 /\ Here'.down # <<>>
    <3>1. PICK q \in Seq(Frame) : q = Here.down
      BY HereType
    <3>2. Items(q) = {} /\ Len(q) = 0
      BY <2>3, <3>1, NoItems
    <3>3. PICK t : t = Append(q, r)
      OBVIOUS
    <3>4. t \in Seq(Frame) /\ Items(t) = Items(q) \cup {r}
          /\ Len(t) = Len(q) + 1
      BY <2>2, <3>3, AppendItems
    <3>5. Len(t) = 1
      BY <3>2, <3>4
    <3>6. t # <<>>
      BY <3>4, NoItems
    <3>. QED  BY <2>2, <3>1, <3>2, <3>3, <3>4, <3>5, <3>6
  <2>5. \A j \in DOMAIN Here'.up : ~Asks(Here'.up[j])
    <3>1. \A j \in DOMAIN Tail(Here.up) :
             j + 1 \in DOMAIN Here.up /\ Tail(Here.up)[j] = Here.up[j + 1]
      BY <2>2, HereType, TailItems
    <3>2. 1 \in DOMAIN Here.up /\ \A j \in DOMAIN Here'.up : j + 1 # 1
      <4>1. PICK q \in Seq(Frame) : q = Here.up /\ q # <<>>
        BY <2>2, HereType
      <4>2. /\ 1 \in DOMAIN q /\ DOMAIN Tail(q) = 1..(Len(q) - 1)
            /\ Len(q) \in Nat
        BY <4>1, TailItems
      <4>. QED  BY <2>2, <4>1, <4>2
    <3>. QED  BY <2>1, <2>2, <3>1, <3>2 DEF AnswerInv
  <2>6. \A g \in Items(Here'.up) : ~Asks(g)
    BY <2>5 DEF Items
  <2>7. client.pc = "answer" /\ Tells(r) => r.obj.call = client.call
    BY <1>3, <2>1, <2>2 DEF AnswerInv, AnswersTo
  <2>8. ~Here.garbled /\ \A a \in answer : a.got = a.asked
    BY <2>1 DEF AnswerInv
  <2>9. Reading'
    BY <1>1, <2>3 DEF Reading
  <2>. QED  BY <1>1, <2>4, <2>5, <2>6, <2>7, <2>8, <2>9 DEF AnswerInv
<1>4. \/ Here'.down = Here.down
      \/ /\ i = client.link
         /\ \E r : /\ AnswersTo(f, r) /\ Reads(i)
                   /\ links'[i].down = Append(links[i].down, r)
  <2>1. CASE i = client.link
    BY <1>1, <2>1 DEF Served, Effect, Shuts
  <2>2. CASE i # client.link
    BY <1>1, <2>2, ServedLinks
  <2>. QED  BY <2>1, <2>2
<1>. QED  BY <1>2, <1>3, <1>4

LEMMA ShutAnswers ==
  ASSUME TypeInv, AnswerInv, NEW i \in Links, Shuts(i), client' = client,
         UNCHANGED <<late, answer>>
  PROVE  AnswerInv'
<1>1. /\ client.link \in Links /\ links' \in [Links -> Link]
      /\ Here' = links'[client.link] /\ Here'.garbled = Here.garbled
      /\ Here'.down = Here.down
  BY HereType DEF Shuts, Elsewhere, Here
<1>2. Len(Here.down) \in Nat
  BY HereType
<1>3. Len(Here'.down) <= Len(Here.down)
  BY <1>1, <1>2
<1>. QED  BY <1>1, <1>3, ShutsItems, QuietAnswers

LEMMA ResetAnswers ==
  ASSUME TypeInv, AnswerInv, Reset
  PROVE  AnswerInv'
<1>1. /\ client.link \in Links /\ links' \in [Links -> Link]
      /\ Here' = links'[client.link] /\ Here'.garbled = Here.garbled
      /\ client' = client /\ UNCHANGED <<late, answer>>
      /\ Len(Here'.down) <= Len(Here.down)
      /\ Items(Here'.down) \subseteq Items(Here.down)
  BY HereType DEF Reset, Here, history
<1>2. Here.down = <<>> => Here'.down = <<>>
  <2>1. Here'.down \in Seq(Frame)
    BY <1>1 DEF Link
  <2>2. Here.down = <<>> => Len(Here'.down) = 0
    BY <1>1, <2>1
  <2>. QED  BY <2>1, <2>2
<1>. QED  BY <1>1, <1>2, ResetItems, QuietAnswers

-----------------------------------------------------------------------------
(* All of it *)

LEMMA InitInv == Init => ClientInv
<1>. SUFFICES ASSUME Init
              PROVE  ClientInv
  OBVIOUS
<1>1. /\ 1 \in Links /\ client.link = 1 /\ client.pc = "idle"
      /\ client.key = {} /\ client.seq = -1 /\ client.nonce = 0
      /\ client.sent = 0 /\ client.wants = ""
  <2>1. 1 \in Links
    BY ClientBoundsAssumption DEF Links
  <2>. QED  BY <2>1 DEF Init
<1>2. client \in Client /\ client = Idle(client)
  <2>1. PICK none \in Seq(Nat) : none = <<>>
    BY NoItems
  <2>2. PICK m \in Int : m = -1
    OBVIOUS
  <2>3. PICK ks \in SUBSET Keys : ks = {}
    OBVIOUS
  <2>4. client = [pc |-> "idle", link |-> 1, key |-> ks, seq |-> m,
                  rseq |-> m, sent |-> 0, nonce |-> 0, snonce |-> 0,
                  ga |-> none, call |-> 0, wants |-> ""]
    BY <2>1, <2>2, <2>3 DEF Init
  <2>5. client \in Client
    BY <1>1, <2>4 DEF Client
  <2>6. client.snonce = 0 /\ client.ga = <<>> /\ client.call = 0
    BY <2>1, <2>4
  <2>. QED  BY <1>1, <2>5, <2>6 DEF Idle, Client
<1>3. /\ links \in [Links -> Link]
      /\ \A i \in Links : /\ links[i].up = <<>> /\ links[i].down = <<>>
                          /\ links[i].alive /\ ~links[i].garbled
  <2>1. PICK l : l = FreshLink
    OBVIOUS
  <2>2. l \in Link /\ l.up = <<>> /\ l.down = <<>> /\ l.alive /\ ~l.garbled
    BY <2>1, NoItems DEF FreshLink, Link
  <2>3. links = [i \in Links |-> l]
    BY <2>1 DEF Init
  <2>. QED  BY <2>2, <2>3
<1>4. /\ DOMAIN sessions = {} /\ sessions \in [DOMAIN sessions -> ServerSession]
      /\ store = {} /\ attempts = 0 /\ issued = 0 /\ calls = 0 /\ answer = {}
  BY DEF Init
<1>5. \A i \in Links : /\ Items(links[i].up) = {} /\ Items(links[i].down) = {}
                       /\ DOMAIN links[i].up = {}
  BY <1>3, NoItems
<1>6. TypeInv
  BY <1>1, <1>2, <1>3, <1>4 DEF TypeInv, AtMostOne
<1>7. CallInv
  <2>1. "" \notin Questions
    BY DEF Questions
  <2>2. client.seq = -1
    BY <1>1
  <2>3. client.seq >= -1
    BY <2>2
  <2>. QED  BY <1>1, <1>2, <2>1, <2>3 DEF CallInv, Exchanging
<1>8. KeyInv
  BY <1>1, <1>4, <1>5 DEF KeyInv, KeyKnown
<1>9. OpenInv
  BY <1>1, <1>4, <1>5 DEF OpenInv, Before
<1>10. RememberInv
  BY <1>1, <1>5, RememberedItems DEF RememberInv
<1>11. NumberInv
  BY <1>4 DEF NumberInv
<1>12. Here.up = <<>> /\ Here.down = <<>> /\ ~Here.garbled
  BY <1>1, <1>3 DEF Here
<1>13. AnswerInv
  <2>1. Items(Here.up) = {} /\ Items(Here.down) = {} /\ DOMAIN Here.up = {}
    BY <1>12, NoItems
  <2>2. Len(Here.down) <= 1
    BY <1>12
  <2>. QED  BY <1>1, <1>4, <1>12, <2>1, <2>2 DEF AnswerInv, Reading
<1>. QED  BY <1>6, <1>7, <1>8, <1>9, <1>10, <1>11, <1>13 DEF ClientInv

(* The server gives a torn connection up.                                  *)
LEMMA ChokesKept ==
  ASSUME ClientInv, NEW i \in Links, ServeChokes(i)
  PROVE  ClientInv'
<1>1. /\ TypeInv /\ Shuts(i) /\ client' = client /\ links' \in [Links -> Link]
      /\ UNCHANGED <<sessions, store, aged, issued>>
      /\ UNCHANGED <<attempts, calls, late, answer>>
  BY ChokesMoves DEF ClientInv, drawn, history, Shuts, Elsewhere
<1>2. \A e \in Links : /\ Narrows(e)
                       /\ Items(links'[e].down) \subseteq Items(links[e].down)
  BY <1>1, ShutsItems
<1>3. Here'.alive => Here.alive
  BY <1>1, HereType DEF Shuts, Elsewhere, Here
<1>4. TypeInv'
  BY <1>1, ChokesTypes
<1>5. CallInv'
  BY <1>1, CallInvNext DEF ClientInv, drawn
<1>6. KeyInv'
  BY <1>1, <1>2, SameKeys DEF ClientInv
<1>7. OpenInv'
  BY <1>1, <1>2, QuietOpens DEF ClientInv, Before
<1>8. RememberInv'
  BY <1>1, <1>2, <1>3, QuietRemembers DEF ClientInv
<1>9. NumberInv'
  BY <1>1, <1>2, <1>3, QuietNumbers DEF ClientInv
<1>10. AnswerInv'
  BY <1>1, ShutAnswers DEF ClientInv
<1>. QED  BY <1>4, <1>5, <1>6, <1>7, <1>8, <1>9, <1>10 DEF ClientInv

LEMMA RestartKept ==
  ASSUME ClientInv, Restart
  PROVE  ClientInv'
<1>1. /\ TypeInv /\ Reset /\ client' = client /\ links' \in [Links -> Link]
      /\ UNCHANGED <<sessions, aged, issued>> /\ store' = {}
      /\ UNCHANGED <<attempts, calls, late, answer>>
  BY RestartMoves DEF ClientInv, drawn, history, Reset
<1>2. \A e \in Links : /\ Narrows(e)
                       /\ Items(links'[e].down) \subseteq Items(links[e].down)
  BY <1>1, ResetItems
<1>3. ~Here'.alive
  BY <1>1, HereType DEF Reset, Here
<1>4. TypeInv'
  BY <1>1, ResetTypes
<1>5. CallInv'
  BY <1>1, CallInvNext DEF ClientInv, drawn
<1>6. KeyInv'
  BY <1>1, <1>2, SameKeys DEF ClientInv
<1>7. OpenInv'
  BY <1>1, <1>2, QuietOpens DEF ClientInv, Before
<1>8. RememberInv'
  BY <1>1, ResetRemembers DEF ClientInv
<1>9. NumberInv'
  BY <1>1, <1>2, <1>3, QuietNumbers DEF ClientInv
<1>10. AnswerInv'
  BY <1>1, ResetAnswers DEF ClientInv
<1>. QED  BY <1>4, <1>5, <1>6, <1>7, <1>8, <1>9, <1>10 DEF ClientInv

(* Steps that move no frame.                                               *)
LEMMA StillKept ==
  ASSUME ClientInv, UNCHANGED <<client, links, sessions, store>>,
         UNCHANGED <<attempts, calls, issued, late, answer>>,
         aged \subseteq aged'
  PROVE  ClientInv'
<1>1. TypeInv /\ links' \in [Links -> Link]
  BY DEF ClientInv, TypeInv
<1>2. \A e \in Links : /\ Narrows(e)
                       /\ Items(links'[e].down) \subseteq Items(links[e].down)
  BY <1>1, SameNarrows
<1>3. Here' = Here /\ client.link \in Links
  BY <1>1, HereType DEF Here
<1>4. TypeInv'
  BY <1>1 DEF TypeInv
<1>5. CallInv'
  BY <1>1, CallInvNext DEF ClientInv, drawn
<1>6. KeyInv'
  BY <1>1, <1>2, SameKeys DEF ClientInv
<1>7. OpenInv'
  BY <1>1, <1>2, QuietOpens DEF ClientInv, Before
<1>8. RememberInv'
  BY <1>1, <1>2, <1>3, QuietRemembers DEF ClientInv
<1>9. NumberInv'
  BY <1>1, <1>2, <1>3, QuietNumbers DEF ClientInv
<1>10. AnswerInv'
  <2>1. Len(Here.down) \in Nat
    BY <1>1, HereType
  <2>2. Len(Here'.down) <= Len(Here.down)
    BY <1>3, <2>1
  <2>. QED  BY <1>1, <1>2, <1>3, <2>2, QuietAnswers DEF ClientInv
<1>. QED  BY <1>4, <1>5, <1>6, <1>7, <1>8, <1>9, <1>10 DEF ClientInv

LEMMA NextInv ==
  ASSUME ClientInv, [Next]_vars
  PROVE  ClientInv'
<1>1. TypeInv /\ CallInv /\ KeyInv /\ OpenInv /\ RememberInv /\ NumberInv
      /\ AnswerInv
  BY DEF ClientInv
<1>2. CASE Talk
  <2>1. PICK f, taken : Talks(f, taken)
    BY <1>1, <1>2, TalkMoves
  <2>. QED  BY <1>1, <2>1, TalkTypes, CallInvNext, TalkKeys, TalkOpens,
               TalkRemembers, TalkNumbers, TalkAnswers DEF ClientInv
<1>3. CASE Rest
  <2>1. Rests
    BY <1>1, <1>3, RestMoves
  <2>. QED  BY <1>1, <2>1, RestTypes, CallInvNext, RestKeys, RestOpens,
               RestRemembers, RestNumbers, RestAnswers DEF ClientInv
<1>4. CASE AuthDHGen
  <2>1. Keyed
    BY <1>1, <1>4, AuthDHGenMoves
  <2>. QED  BY <1>1, <2>1, KeyedTypes, CallInvNext, KeyedKeys, KeyedOpens,
               KeyedRemembers, KeyedNumbers, KeyedAnswers DEF ClientInv
<1>5. CASE Reconnect
  <2>1. PICK i : Moved(i)
    BY <1>1, <1>5, ReconnectMoves
  <2>. QED  BY <1>1, <2>1, MovedTypes, CallInvNext, MovedKeys, MovedOpens,
               MovedRemembers, MovedNumbers, MovedAnswers DEF ClientInv
<1>6. CASE \E i \in Links : Serve(i)
  <2>1. PICK i \in Links : Serve(i)
    BY <1>6
  <2>2. PICK f : Served(i, f)
    BY <1>1, <2>1, ServeServed
  <2>. QED  BY <1>1, <2>2, ServedTypes, CallInvNext, ServedKeys, ServedOpens,
               ServedRemembers, ServedNumbers, ServedAnswers DEF ClientInv
<1>7. CASE \E i \in Links : ServeChokes(i)
  BY <1>7, ChokesKept
<1>8. CASE Age
  <2>1. /\ UNCHANGED <<client, links, sessions, store>>
        /\ UNCHANGED <<attempts, calls, issued, late, answer>>
        /\ aged \subseteq aged'
    BY <1>8 DEF Age, drawn, history
  <2>. QED  BY <2>1, StillKept
<1>9. CASE Restart
  BY <1>9, RestartKept
<1>10. CASE UNCHANGED vars
  <2>1. /\ UNCHANGED <<client, links, sessions, store>>
        /\ UNCHANGED <<attempts, calls, issued, late, answer>>
        /\ aged \subseteq aged'
    BY <1>10 DEF vars, server, drawn, history
  <2>. QED  BY <2>1, StillKept
<1>. QED  BY <1>2, <1>3, <1>4, <1>5, <1>6, <1>7, <1>8, <1>9, <1>10
          DEF Next, Talk, Rest

LEMMA ClientCorrect == Spec => []ClientInv
<1>1. Init => ClientInv
  BY InitInv
<1>2. ClientInv /\ [Next]_vars => ClientInv'
  BY NextInv
<1>. QED  BY <1>1, <1>2, PTL DEF Spec

-----------------------------------------------------------------------------
(* What follows from it *)

LEMMA OneAtMost ==
  ASSUME NEW S, AtMostOne(S)
  PROVE  Cardinality(S) <= 1
<1>1. CASE S = {}
  BY <1>1, FS_EmptySet
<1>2. CASE S # {}
  <2>1. PICK x : x \in S
    BY <1>2
  <2>2. S = {x}
    BY <2>1 DEF AtMostOne
  <2>3. Cardinality(S) = 1
    BY <2>2, FS_Singleton
  <2>. QED  BY <2>3
<1>. QED  BY <1>1, <1>2

(* Types of client, connections, sessions and store: a call keeps its      *)
(* locals as long as it lasts (session.rs:190-420), a frame has one key at *)
(* most, and no entry of HANDSHAKE_STORE stands twice.                     *)
THEOREM TypeCorrect == Spec => []TypeOK
<1>1. ASSUME ClientInv PROVE TypeOK
  <2>1. TypeInv /\ CallInv /\ KeyInv /\ OpenInv
    BY <1>1 DEF ClientInv
  <2>2. /\ client.link \in Links /\ Cardinality(client.key) <= 1
        /\ client.seq \in Int /\ client.rseq \in Int /\ client.sent \in Nat
    BY <2>1, HereType, OneAtMost DEF TypeInv
  <2>3. /\ client.pc = "idle" => client = Idle(client)
        /\ client.pc \in {"res_pq", "dh_params", "dh_gen"} <=> client.nonce # 0
        /\ client.pc = "answer" <=> client.wants \in Questions
    BY <2>1 DEF CallInv, Exchanging
  <2>4. ASSUME NEW i \in Links, NEW j \in DOMAIN links[i].up
        PROVE  Cardinality(links[i].up[j].key) <= 1
    <3>1. AtMostOne(links[i].up[j].key)
      BY <2>1 DEF KeyInv, UpKeyInv, Items
    <3>. QED  BY <3>1, OneAtMost
  <2>5. \A i \in Links : ~links[i].alive => links[i].up = <<>>
    BY <2>1 DEF TypeInv
  <2>6. \A k \in DOMAIN sessions :
           /\ Len(k) = 2 /\ k[1] \in 1..issued /\ k[2] \in 1..attempts
           /\ sessions[k].done \in Seq(Nat)
    BY <2>1, KeyParts, SessionType
  <2>7. \A e, f \in store :
           e.nonce = f.nonce /\ e.snonce = f.snonce => e = f
    BY <2>1 DEF OpenInv
  <2>. QED  BY <2>2, <2>3, <2>4, <2>5, <2>6, <2>7 DEF TypeOK
<1>. QED  BY <1>1, ClientCorrect, PTL

(* A key the client holds is one the server can find (session.rs:404-418,  *)
(* handlers.rs:308).                                                       *)
THEOREM KeyIsKnown == Spec => []KeyKnown
<1>1. ClientInv => KeyKnown
  BY DEF ClientInv, KeyInv
<1>. QED  BY <1>1, ClientCorrect, PTL

(* A client that reconnects leaves its key behind, and no later one is the *)
(* same (session.rs:178-190).                                              *)
THEOREM KeysStay == Spec => []KeyOnOneLink
<1>1. ASSUME ClientInv PROVE KeyOnOneLink
  <2>1. SUFFICES ASSUME NEW i \in Links, i # client.link,
                        NEW j \in DOMAIN links[i].up,
                        NEW k \in links[i].up[j].key \cap client.key
                 PROVE  FALSE
    BY DEF KeyOnOneLink
  <2>2. TypeInv /\ KeyInv
    BY <1>1 DEF ClientInv
  <2>3. UpKeyInv(i, links[i].up[j])
    BY <2>2 DEF KeyInv, Items
  <2>4. k[2] < k[2]
    BY <2>1, <2>3 DEF UpKeyInv
  <2>5. k[2] \in Nat
    BY <2>2, KeyParts DEF KeyInv, KeyKnown
  <2>. QED  BY <2>4, <2>5
<1>. QED  BY <1>1, ClientCorrect, PTL

(* What is executed under a key is what was sent first under it, in order  *)
(* and without a gap, whatever is lost, torn or refused                    *)
(* (server.rs:199-204).                                                    *)
THEOREM NoneSkipped == Spec => []NoRequestSkipped
<1>1. ClientInv => NoRequestSkipped
  BY DEF ClientInv, NumberInv, NoRequestSkipped
<1>. QED  BY <1>1, ClientCorrect, PTL

(* The entry a SetClientDHParams under way needs is in HANDSHAKE_STORE,    *)
(* whoever cleans it (handlers.rs:38-43, 260-270, 352-355).                *)
THEOREM HandshakesRemembered == Spec => []HandshakeRemembered
<1>1. ClientInv => HandshakeRemembered
  BY DEF ClientInv, RememberInv
<1>. QED  BY <1>1, ClientCorrect, PTL

(* A call returns the answer to its own request, as long as no read has    *)
(* timed out (session.rs:525-549).                                         *)
THEOREM AnswersOwn == Spec => []AnswersOwnRequest
<1>1. ClientInv => AnswersOwnRequest
  BY DEF ClientInv, AnswerInv, AnswersOwnRequest
<1>. QED  BY <1>1, ClientCorrect, PTL

-----------------------------------------------------------------------------
(* Numbering without disturbance *)

LEMMA RunsTail ==
  ASSUME NEW q \in Seq(Frame), q # <<>>, NEW k, NEW last \in Int,
         Runs(q, k, last)
  PROVE  /\ Runs(Tail(q), k, last)
         /\ Head(q).key = {k} /\ Head(q).seq = last - (Len(q) - 1)
<1>1. /\ Tail(q) \in Seq(Frame) /\ Head(q) = q[1] /\ 1 \in DOMAIN q
      /\ Len(q) \in Nat /\ Len(Tail(q)) = Len(q) - 1
      /\ DOMAIN Tail(q) = 1..(Len(q) - 1)
      /\ \A j \in DOMAIN Tail(q) : j + 1 \in DOMAIN q /\ Tail(q)[j] = q[j + 1]
  BY TailItems
<1>2. ASSUME NEW j \in DOMAIN Tail(q)
      PROVE  /\ Tail(q)[j].key = {k}
             /\ Tail(q)[j].seq = last - (Len(Tail(q)) - j)
  <2>1. /\ q[j + 1].key = {k} /\ q[j + 1].seq = last - (Len(q) - (j + 1))
        /\ Tail(q)[j] = q[j + 1] /\ j \in Nat
    BY <1>1 DEF Runs
  <2>2. last - (Len(q) - (j + 1)) = last - ((Len(q) - 1) - j)
    BY <1>1, <2>1
  <2>. QED  BY <1>1, <2>1, <2>2
<1>3. Runs(Tail(q), k, last)
  BY <1>2 DEF Runs
<1>4. q[1].key = {k} /\ q[1].seq = last - (Len(q) - 1)
  BY <1>1 DEF Runs
<1>. QED  BY <1>1, <1>3, <1>4

LEMMA RunsAppend ==
  ASSUME NEW q \in Seq(Frame), NEW k, NEW last \in Int, Runs(q, k, last),
         NEW r \in Frame, r.key = {k}, r.seq = last + 1
  PROVE  Runs(Append(q, r), k, last + 1)
<1>1. /\ Len(q) \in Nat /\ DOMAIN q = 1..Len(q)
      /\ Len(Append(q, r)) = Len(q) + 1
      /\ DOMAIN Append(q, r) = 1..(Len(q) + 1)
      /\ \A j \in DOMAIN q : Append(q, r)[j] = q[j]
      /\ Append(q, r)[Len(q) + 1] = r
  BY AppendItems
<1>2. PICK t : t = Append(q, r)
  OBVIOUS
<1>3. ASSUME NEW j \in DOMAIN t
      PROVE  t[j].key = {k} /\ t[j].seq = (last + 1) - (Len(t) - j)
  <2>1. CASE j \in DOMAIN q
    <3>1. t[j] = q[j] /\ q[j].key = {k} /\ q[j].seq = last - (Len(q) - j)
      BY <1>1, <1>2, <2>1 DEF Runs
    <3>2. last - (Len(q) - j) = (last + 1) - ((Len(q) + 1) - j)
      BY <1>1, <2>1
    <3>. QED  BY <1>1, <1>2, <3>1, <3>2
  <2>2. CASE j = Len(q) + 1
    <3>1. (last + 1) - ((Len(q) + 1) - j) = last + 1
      BY <1>1, <2>2
    <3>. QED  BY <1>1, <1>2, <2>2, <3>1
  <2>. QED  BY <1>1, <1>2, <1>3, <2>1, <2>2
<1>. QED  BY <1>2, <1>3 DEF Runs

LEMMA RunsNone == \A k, last : Runs(<<>>, k, last)
BY DEF Runs

(* A call that returns has counted the frame it has taken, and only that.  *)
Steps ==
    /\ Drained
    /\ \/ Here.garbled
       \/ /\ links'[client.link].garbled = Here.garbled
          /\ links'[client.link].down = Here.down /\ client' = Idle(client)
       \/ /\ links'[client.link].garbled = Here.garbled
          /\ Here.down # <<>> /\ links'[client.link].down = Tail(Here.down)
          /\ \/ Accepts(Incoming) /\ client' = Idle(Heard)
             \/ ~Accepts(Incoming) /\ client' = Idle(client)

LEMMA RestSteps ==
  ASSUME TypeInv, Undisturbed, Rest
  PROVE  Steps
<1>0. Drained
  BY RestMoves DEF Rests
<1>1. CASE Returns
  <2>1. Here.down # <<>> /\ Accepts(Incoming) /\ links' = Popped(links)
        /\ client' = Idle(Heard)
    BY <1>1 DEF Returns, Takes, Arrives
  <2>. QED  BY <1>0, <2>1, PoppedDrains DEF Steps
<1>2. CASE RecvFails
  <2>1. Here.down # <<>> /\ links' = Popped(links)
    BY <1>2 DEF RecvFails, Arrives
  <2>2. \/ ~Accepts(Incoming) /\ client' = Idle(client)
        \/ Accepts(Incoming) /\ client' = Idle(Heard)
    BY <1>2 DEF RecvFails, Undisturbed
  <2>. QED  BY <1>0, <2>1, <2>2, PoppedDrains DEF Steps
<1>3. CASE RecvGarbled
  BY <1>0, <1>3 DEF Steps, RecvGarbled
<1>4. CASE RecvEof
  <2>1. links'[client.link] = Here /\ client' = Idle(client)
    BY <1>4 DEF RecvEof, Here
  <2>. QED  BY <1>0, <2>1 DEF Steps
<1>5. CASE Timeout
  <2>1. PICK torn \in BOOLEAN :
            /\ torn => "tear" \in Disturbances
            /\ links' = [links EXCEPT ![client.link].garbled = @ \/ torn]
    BY <1>5 DEF Timeout
  <2>2. ~torn
    BY <2>1 DEF Undisturbed
  <2>3. PICK g \in BOOLEAN : g = (Here.garbled \/ torn)
    OBVIOUS
  <2>4. g = Here.garbled
    BY <2>2, <2>3, HereType
  <2>5. PICK l : l = [Here EXCEPT !.garbled = g]
    OBVIOUS
  <2>6. l.garbled = Here.garbled /\ l.down = Here.down
    BY <2>4, <2>5, HereType DEF Link
  <2>7. links' = [links EXCEPT ![client.link] = l]
    BY <2>1, <2>3, <2>5, HereType DEF Here
  <2>8. links'[client.link] = l
    BY <2>7, HereType
  <2>9. client' = Idle(client)
    BY <1>5 DEF Timeout
  <2>. QED  BY <1>0, <2>6, <2>8, <2>9 DEF Steps
<1>. QED  BY <1>1, <1>2, <1>3, <1>4, <1>5 DEF Rest

(* A frame that arrives under the client's key is accepted.                *)
LEMMA NextArrives ==
  ASSUME TypeInv, FlowInv, NEW k \in client.key, Here.alive, Here.down # <<>>,
         sessions[k].sseq \in Int
  PROVE  /\ Accepts(Incoming) /\ client.key = {k}
         /\ Runs(Tail(Here.down), k, sessions[k].sseq)
         /\ Heard.rseq = client.rseq + 1
         /\ Heard.rseq + Len(Tail(Here.down)) = sessions[k].sseq
<1>1. /\ Runs(Here.down, k, sessions[k].sseq)
      /\ client.rseq + Len(Here.down) = sessions[k].sseq
  BY DEF FlowInv
<1>2. client.key = {k}
  BY DEF TypeInv, AtMostOne
<1>3. /\ Here.down \in Seq(Frame) /\ client.rseq \in Int
      /\ Len(Here.down) \in Nat /\ Len(Tail(Here.down)) = Len(Here.down) - 1
  BY HereType, TailItems
<1>4. /\ Runs(Tail(Here.down), k, sessions[k].sseq)
      /\ Incoming.key = {k}
      /\ Incoming.seq = sessions[k].sseq - (Len(Here.down) - 1)
  BY <1>1, <1>3, RunsTail DEF Incoming
<1>5. PICK q \in Int : q = Incoming.seq
  BY <1>3, <1>4
<1>6. q = client.rseq + 1
  BY <1>1, <1>3, <1>4, <1>5
<1>7. Accepts(Incoming)
  BY <1>2, <1>4, <1>5, <1>6 DEF Accepts
<1>8. Heard.rseq = client.rseq + 1
  BY <1>2, HereType, HeardFields
<1>. QED  BY <1>1, <1>2, <1>3, <1>4, <1>7, <1>8

LEMMA FlowType ==
  ASSUME TypeInv, KeyInv, NEW k \in client.key
  PROVE  /\ k \in DOMAIN sessions /\ client.key = {k}
         /\ sessions[k].rseq \in Int /\ sessions[k].sseq \in Int
<1>1. k \in DOMAIN sessions
  BY DEF KeyInv, KeyKnown
<1>. QED  BY <1>1, SessionType DEF TypeInv, AtMostOne

LEMMA RestInStep ==
  ASSUME TypeInv, KeyInv, StepInv, Undisturbed, Rest
  PROVE  StepInv'
<1>1. Steps /\ Rests
  BY RestSteps, RestMoves
<1>2. /\ client' \in Client /\ client'.pc = "idle" /\ client'.nonce = 0
      /\ client'.link = client.link /\ client'.key = client.key
      /\ client'.seq = client.seq
      /\ sessions' = sessions /\ attempts' = attempts
      /\ client.link \in Links
  BY <1>1, RestClient, HereType DEF Same, Rests, server, drawn
<1>3. /\ Here' = links'[client.link] /\ Here'.up = Here.up
      /\ Here'.alive = Here.alive
      /\ \A i \in Links : links'[i].cut = links[i].cut
      /\ \A i \in Links : Items(links'[i].down) \subseteq Items(links[i].down)
  BY <1>1, <1>2, DrainedItems DEF Steps, Drained, Elsewhere, Here
<1>4. \/ Here'.down = Here.down /\ client' = Idle(client)
      \/ /\ Here.down # <<>> /\ Here'.down = Tail(Here.down)
         /\ \/ Accepts(Incoming) /\ client' = Idle(Heard)
            \/ ~Accepts(Incoming) /\ client' = Idle(client)
  BY <1>1, <1>3 DEF Steps, StepInv, WholeInv
<1>5. WholeInv'
  BY <1>1, <1>3 DEF Steps, StepInv, WholeInv
<1>6. Idle(client).rseq = client.rseq /\ Idle(Heard).rseq = Heard.rseq
      /\ (client.key = {} => Heard.rseq = client.rseq)
  BY HereType, HeardFields, IdleFields
<1>7. TakeInv'
  <2>1. client'.key = {} => client'.seq = -1 /\ client'.rseq = -1
    BY <1>2, <1>4, <1>6 DEF StepInv, TakeInv
  <2>2. \A i \in Links : \A f \in Items(links'[i].down) :
           f.obj.kind = "DHGenOk" => f.obj.nonce <= attempts'
    BY <1>2, <1>3 DEF StepInv, TakeInv
  <2>. QED  BY <1>2, <2>1, <2>2 DEF TakeInv, Exchanging, Before
<1>8. FlowInv'
  <2>1. SUFFICES ASSUME NEW k \in client.key, Here.alive
                 PROVE  /\ Runs(Here'.up, k, client'.seq)
                        /\ Runs(Here'.down, k, sessions[k].sseq)
                        /\ sessions[k].rseq + Len(Here'.up) = client'.seq
                        /\ client'.rseq + Len(Here'.down) = sessions[k].sseq
    BY <1>2, <1>3 DEF FlowInv
  <2>2. /\ Runs(Here.up, k, client.seq)
        /\ Runs(Here.down, k, sessions[k].sseq)
        /\ sessions[k].rseq + Len(Here.up) = client.seq
        /\ client.rseq + Len(Here.down) = sessions[k].sseq
    BY <2>1 DEF StepInv, FlowInv
  <2>3. CASE Here'.down = Here.down /\ client' = Idle(client)
    BY <1>2, <1>3, <1>6, <2>2, <2>3
  <2>4. CASE Here.down # <<>> /\ Here'.down = Tail(Here.down)
    <3>1. /\ Accepts(Incoming)
          /\ Runs(Tail(Here.down), k, sessions[k].sseq)
          /\ Heard.rseq + Len(Tail(Here.down)) = sessions[k].sseq
      BY <2>1, <2>4, FlowType, NextArrives DEF StepInv
    <3>2. Here'.down = Here.down => Here.down = Tail(Here.down)
      BY <2>4
    <3>3. Here.down # Tail(Here.down)
      <4>1. Len(Tail(Here.down)) # Len(Here.down)
        BY <2>4, HereType, TailItems
      <4>. QED  BY <4>1
    <3>4. client' = Idle(Heard)
      BY <1>4, <3>1, <3>2, <3>3
    <3>. QED  BY <1>2, <1>3, <1>6, <2>2, <2>4, <3>1, <3>4
  <2>. QED  BY <1>4, <2>3, <2>4
<1>. QED  BY <1>5, <1>7, <1>8 DEF StepInv

(* A call that has just begun has a nonce of its own.                      *)
LEMMA TalkBefore ==
  ASSUME TypeInv, NEW f, NEW taken, Talks(f, taken), Before'
  PROVE  \/ Before /\ client'.nonce = client.nonce
         \/ client'.nonce = attempts + 1
<1>1. client'.nonce # 0 /\ client'.nonce = attempts'
  BY DEF Talks, Goes, CallInv, Before, Exchanging
<1>2. \/ attempts' = attempts + 1
      \/ client.pc = "res_pq" /\ client'.nonce = client.nonce
  BY <1>1 DEF Before, Talks, Goes
<1>. QED  BY <1>1, <1>2 DEF Before

(* What the client sends gets on the connection, as the next frame of its  *)
(* key.                                                                    *)
LEMMA TalkInStep ==
  ASSUME TypeInv, CallInv, KeyInv, OpenInv, StepInv, Undisturbed,
         NEW f, NEW taken, Talks(f, taken)
  PROVE  StepInv'
<1>1. /\ client'.link = client.link /\ client'.key = client.key
      /\ client.link \in Links /\ f \in Frame /\ f.key = client.key
      /\ Here' = links'[client.link] /\ Here'.alive = Here.alive
      /\ Here'.garbled = Here.garbled
      /\ \A i \in Links \ {client.link} : links'[i] = links[i]
      /\ sessions' = sessions
  BY HereType DEF Talks, Puts, Goes, Elsewhere, Here
<1>2. /\ links'[client.link].cut = Here.cut
      /\ Here.alive => Here'.up = Append(Here.up, f)
  <2>1. "send_fault" \notin Disturbances /\ ~Here.cut
    BY HereType DEF Undisturbed, StepInv, WholeInv, Here
  <2>. QED  BY <1>1, <2>1 DEF Talks, Goes
<1>3. WholeInv'
  BY <1>1, <1>2 DEF StepInv, WholeInv, Here
<1>4. Exchanging' => client.key = {}
  <2>1. CASE client'.pc = "res_pq"
    <3>1. attempts \in Nat /\ attempts' = attempts + 1
      BY <2>1 DEF Talks, Goes, TypeInv
    <3>2. f.obj.kind = "ReqPq"
      BY <3>1 DEF Talks, Goes
    <3>. QED  BY <3>2 DEF Talks, Goes, Undisturbed
  <2>2. CASE client'.pc \in {"dh_params", "dh_gen"}
    <3>1. Exchanging
      BY <2>2 DEF Talks, Goes, Exchanging
    <3>. QED  BY <3>1 DEF StepInv, TakeInv
  <2>. QED  BY <2>1, <2>2 DEF Exchanging
<1>5. client.key = {} => client'.seq = -1 /\ client'.rseq = -1
  <2>1. client.key = {} => client.seq = -1 /\ client.rseq = -1
    BY DEF StepInv, TakeInv
  <2>2. client.key = {} => client'.seq = client.seq
    BY DEF Talks, Puts
  <2>3. client.key = {} => client'.rseq = client.rseq
    BY HereType, HeardFields DEF Talks, Goes
  <2>. QED  BY <2>1, <2>2, <2>3
<1>6. \A k \in DOMAIN sessions :
         client'.nonce # 0 /\ k[2] = client'.nonce => sessions[k].sseq = -1
  <2>1. client'.nonce \in {0, client.nonce} \/ client'.nonce = attempts + 1
    BY DEF Talks, Goes
  <2>2. attempts \in Nat
        /\ \A k \in DOMAIN sessions : k[2] \in Nat /\ k[2] < attempts + 1
    BY KeyParts DEF TypeInv
  <2>. QED  BY <2>1, <2>2 DEF StepInv, TakeInv
<1>7. ASSUME NEW i \in Links, NEW g \in Items(links'[i].down),
             g.obj.kind = "DHGenOk"
      PROVE  /\ g.obj.nonce <= attempts'
             /\ Before' => g.obj.nonce # client'.nonce
  <2>1. g \in Items(links[i].down)
    BY <1>7, TalkItems
  <2>2. g.obj.nonce <= attempts /\ (Before => g.obj.nonce # client.nonce)
    BY <1>7, <2>1 DEF StepInv, TakeInv
  <2>3. g.obj.nonce \in Nat
    <3>1. links[i].down \in Seq(Frame)
      BY LinkType
    <3>. QED  BY <2>1, <3>1, ItemType
  <2>4. attempts \in Nat /\ attempts' \in {attempts, attempts + 1}
    BY DEF Talks, Goes, TypeInv
  <2>5. g.obj.nonce # attempts + 1 /\ g.obj.nonce <= attempts'
    BY <2>2, <2>3, <2>4
  <2>. QED  BY <2>2, <2>5, TalkBefore
<1>8. ASSUME Here.alive, client'.pc = "dh_gen"
      PROVE  /\ \A j \in DOMAIN Here'.up :
                   (Opens(Here'.up[j])
                    /\ Here'.up[j].obj.nonce = client'.nonce)
                      => j = Len(Here'.up)
             /\ \A g \in Items(Here'.down) : ~Finishes(g)'
  <2>1. /\ client.pc = "dh_params" /\ Opens(f) /\ Before
    BY <1>8 DEF Talks, Goes, Before
  <2>2. client'.nonce = client.nonce
    <3>1. f.obj.kind # "ReqPq"
      BY <2>1 DEF Opens
    <3>2. client'.nonce \in {0, client.nonce}
      BY <3>1 DEF Talks, Goes
    <3>3. client'.nonce # 0
      BY <1>8 DEF Talks, Goes, CallInv, Exchanging
    <3>. QED  BY <3>2, <3>3
  <2>3. /\ \A j \in DOMAIN Here'.up :
              \/ j \in DOMAIN Here.up /\ Here'.up[j] = Here.up[j]
              \/ j = Len(Here.up) + 1
    BY <1>1, TalkPlaces DEF Here
  <2>4. Len(Here'.up) = Len(Here.up) + 1
    BY <1>1, <1>2, <1>8, HereType, AppendItems
  <2>5. \A j \in DOMAIN Here.up :
           Opens(Here.up[j]) => Here.up[j].obj.nonce # client.nonce
    BY <1>1, <2>1 DEF OpenInv, Here, Items
  <2>6. \A g \in Items(Here'.down) : ~Finishes(g)'
    <3>1. Items(Here'.down) \subseteq Items(Here.down)
      BY <1>1, TalkItems DEF Here
    <3>2. \A g \in Items(Here.down) :
             g.obj.kind = "DHGenOk" => g.obj.nonce # client.nonce
      BY <1>1, <2>1 DEF StepInv, TakeInv, Here
    <3>. QED  BY <2>2, <3>1, <3>2 DEF Finishes
  <2>. QED  BY <2>2, <2>3, <2>4, <2>5, <2>6
<1>9. TakeInv'
  <2>1. \A j \in DOMAIN Here'.down : Here'.down[j] \in Items(Here'.down)
    BY DEF Items
  <2>. QED  BY <1>1, <1>4, <1>5, <1>6, <1>7, <1>8, <2>1 DEF TakeInv
<1>10. FlowInv'
  <2>1. SUFFICES ASSUME NEW k \in client.key, Here.alive
                 PROVE  /\ Runs(Here'.up, k, client'.seq)
                        /\ Runs(Here'.down, k, sessions[k].sseq)
                        /\ sessions[k].rseq + Len(Here'.up) = client'.seq
                        /\ client'.rseq + Len(Here'.down) = sessions[k].sseq
    BY <1>1 DEF FlowInv
  <2>2. /\ Runs(Here.up, k, client.seq)
        /\ Runs(Here.down, k, sessions[k].sseq)
        /\ sessions[k].rseq + Len(Here.up) = client.seq
        /\ client.rseq + Len(Here.down) = sessions[k].sseq
    BY <2>1 DEF StepInv, FlowInv
  <2>3. /\ client.key = {k} /\ sessions[k].rseq \in Int
        /\ client.seq \in Int /\ Here.up \in Seq(Frame)
        /\ Len(Here.up) \in Nat
    BY FlowType, HereType
  <2>4. f.seq = client.seq + 1 /\ client'.seq = client.seq + 1
    BY <1>1, <2>3 DEF Talks, Puts
  <2>5. Here'.down = Here.down /\ client'.rseq = client.rseq
    <3>1. client.nonce = 0
      BY <2>3 DEF StepInv, TakeInv, CallInv
    <3>2. ~taken
      BY <3>1 DEF Talks, Goes
    <3>. QED  BY <1>1, <3>2 DEF Talks, Puts, Goes
  <2>6. Here'.up = Append(Here.up, f)
    BY <1>2, <2>1
  <2>7. Runs(Here'.up, k, client'.seq)
    BY <1>1, <2>2, <2>3, <2>4, <2>6, RunsAppend
  <2>8. Len(Here'.up) = Len(Here.up) + 1
    BY <1>1, <2>3, <2>6, AppendItems
  <2>9. sessions[k].rseq + Len(Here'.up) = client'.seq
    BY <2>2, <2>3, <2>4, <2>8
  <2>. QED  BY <2>2, <2>5, <2>7, <2>9
<1>. QED  BY <1>3, <1>9, <1>10 DEF StepInv

(* A key is taken when both streams are empty, and numbered from the start *)
(* on both sides.                                                          *)
LEMMA KeyedInStep ==
  ASSUME TypeInv, CallInv, KeyInv, NumberInv, StepInv, Keyed
  PROVE  StepInv'
<1>0. PICK s : s = Secret
  OBVIOUS
<1>1. /\ client'.link = client.link /\ client'.key = {s}
      /\ client'.pc = "idle" /\ client'.nonce = 0
      /\ client'.seq = client.seq /\ client'.rseq = Heard.rseq
      /\ sessions' = sessions /\ attempts' = attempts
      /\ client.pc = "dh_gen" /\ client.nonce # 0
      /\ s \in DOMAIN sessions /\ s[2] = client.nonce
      /\ client.link \in Links
  BY <1>0, TakenKey, HereType DEF Keyed, server, drawn
<1>2. /\ Here' = links'[client.link] /\ Here'.up = Here.up
      /\ Here'.alive = Here.alive /\ Here'.garbled = Here.garbled
      /\ Here'.down = Tail(Here.down)
      /\ \A i \in Links : links'[i].cut = links[i].cut
      /\ \A i \in Links : Items(links'[i].down) \subseteq Items(links[i].down)
  BY <1>1, DrainedItems DEF Keyed, Drained, Elsewhere, Here
<1>3. WholeInv'
  BY <1>2 DEF StepInv, WholeInv
<1>4. TakeInv'
  BY <1>1, <1>2 DEF StepInv, TakeInv, Exchanging, Before
<1>5. FlowInv'
  <2>1. SUFFICES ASSUME Here.alive
                 PROVE  /\ Here'.up = <<>> /\ Here'.down = <<>>
                        /\ client.seq = -1 /\ client'.rseq = -1
                        /\ sessions[s].rseq = -1 /\ sessions[s].sseq = -1
    <3>1. PICK e : e = <<>>
      OBVIOUS
    <3>2. Len(e) = 0 /\ \A last : Runs(e, s, last)
      BY <3>1, RunsNone
    <3>3. ASSUME Here.alive,
                 /\ Here'.up = <<>> /\ Here'.down = <<>>
                 /\ client.seq = -1 /\ client'.rseq = -1
                 /\ sessions[s].rseq = -1 /\ sessions[s].sseq = -1
          PROVE  /\ Runs(Here'.up, s, client.seq)
                 /\ Runs(Here'.down, s, sessions[s].sseq)
                 /\ sessions[s].rseq + Len(Here'.up) = client.seq
                 /\ client'.rseq + Len(Here'.down) = sessions[s].sseq
      BY <3>1, <3>2, <3>3
    <3>. QED  BY <1>1, <1>2, <3>3 DEF FlowInv
  <2>2. /\ Here.down \in Seq(Frame) /\ Here.down # <<>>
        /\ Incoming = Here.down[1] /\ 1 \in DOMAIN Here.down
        /\ Finishes(Incoming)
    <3>1. Here.down # <<>> /\ Finishes(Incoming)
      BY DEF Keyed
    <3>2. Here.down \in Seq(Frame)
      BY HereType
    <3>3. 1 \in DOMAIN Here.down
      BY <3>1, <3>2, TailItems
    <3>4. Incoming = Here.down[1]
      BY <3>1, IncomingType
    <3>. QED  BY <3>1, <3>2, <3>3, <3>4
  <2>3. 1 = Len(Here.down) /\ Here.up = <<>>
    BY <1>1, <2>1, <2>2 DEF StepInv, TakeInv
  <2>4. Here'.down = <<>>
    <3>1. PICK t : t = Tail(Here.down)
      OBVIOUS
    <3>2. t \in Seq(Frame) /\ Len(t) = 0
      BY <2>2, <2>3, <3>1, TailItems
    <3>. QED  BY <1>2, <3>1, <3>2
  <2>5. client.key = {} /\ client.seq = -1 /\ client.rseq = -1
    BY <1>1 DEF StepInv, TakeInv, Exchanging
  <2>6. client'.rseq = -1
    BY <1>1, <2>5, HereType, HeardFields
  <2>7. sessions[s].rseq = -1
    BY <1>1 DEF NumberInv
  <2>8. sessions[s].sseq = -1
    BY <1>1 DEF StepInv, TakeInv
  <2>. QED  BY <1>2, <2>3, <2>4, <2>5, <2>6, <2>7, <2>8
<1>. QED  BY <1>3, <1>4, <1>5 DEF StepInv

LEMMA MovedInStep ==
  ASSUME TypeInv, StepInv, NEW i, Moved(i)
  PROVE  StepInv'
<1>1. /\ client'.link = i /\ client'.key = {} /\ client'.pc = "idle"
      /\ client'.nonce = 0 /\ client'.seq = -1 /\ client'.rseq = -1
      /\ sessions' = sessions /\ attempts' = attempts
      /\ Here' = links'[i] /\ ~links'[i].garbled
      /\ \A e \in Links : ~links[e].cut => ~links'[e].cut
  BY DEF Moved, server, drawn, Here
<1>2. WholeInv'
  BY <1>1 DEF StepInv, WholeInv
<1>3. \A e \in Links : Items(links'[e].down) \subseteq Items(links[e].down)
  BY MovedItems
<1>4. TakeInv'
  BY <1>1, <1>3 DEF StepInv, TakeInv, Exchanging, Before
<1>5. FlowInv'
  BY <1>1 DEF FlowInv
<1>. QED  BY <1>2, <1>4, <1>5 DEF StepInv

LEMMA ResetInStep ==
  ASSUME TypeInv, StepInv, Reset
  PROVE  StepInv'
<1>1. /\ client' = client /\ sessions' = sessions /\ attempts' = attempts
      /\ client.link \in Links /\ Here' = links'[client.link]
      /\ ~Here'.alive /\ Here'.garbled = Here.garbled
      /\ \A i \in Links : links'[i].cut = links[i].cut
      /\ \A i \in Links : Items(links'[i].down) \subseteq Items(links[i].down)
  BY HereType DEF Reset, Here, drawn
<1>2. WholeInv'
  BY <1>1 DEF StepInv, WholeInv
<1>3. TakeInv'
  BY <1>1 DEF StepInv, TakeInv, Exchanging, Before
<1>4. FlowInv'
  BY <1>1 DEF FlowInv
<1>. QED  BY <1>2, <1>3, <1>4 DEF StepInv

LEMMA StillInStep ==
  ASSUME StepInv, UNCHANGED <<client, links, sessions, attempts>>
  PROVE  StepInv'
BY DEF StepInv, WholeInv, TakeInv, FlowInv, Runs, Exchanging, Before,
       Opens, Finishes, Here

(* The frame at the head of the client's connection is the next of its     *)
(* session, and is executed.                                               *)
LEMMA NextServed ==
  ASSUME TypeInv, KeyInv, FlowInv, Undisturbed, Here.alive,
         NEW f, NEW how, NEW fresh, NEW answers,
         HasFrame(client.link), f = First(client.link),
         Effect(client.link, f, how, fresh, answers), ~Shuts(client.link),
         NEW k \in client.key
  PROVE  /\ f.key = {k} /\ how = "executed"
         /\ f.seq = sessions[k].rseq + 1
         /\ Runs(Tail(Here.up), k, client.seq)
         /\ sessions'[k].rseq + Len(Tail(Here.up)) = client.seq
<1>1. /\ Runs(Here.up, k, client.seq)
      /\ sessions[k].rseq + Len(Here.up) = client.seq
  BY DEF FlowInv
<1>2. /\ client.link \in Links /\ Here.up \in Seq(Frame) /\ Here.up # <<>>
      /\ f = Head(Here.up) /\ client.seq \in Int
      /\ k \in DOMAIN sessions /\ sessions[k].rseq \in Int
      /\ Len(Here.up) \in Nat /\ Len(Tail(Here.up)) = Len(Here.up) - 1
  BY HereType, FlowType, TailItems DEF HasFrame, First, Here
<1>3. /\ Runs(Tail(Here.up), k, client.seq)
      /\ f.key = {k} /\ f.seq = client.seq - (Len(Here.up) - 1)
  BY <1>1, <1>2, RunsTail
<1>4. f.seq = sessions[k].rseq + 1
  <2>1. PICK q \in Int : q = f.seq
    BY <1>2, <1>3
  <2>2. q = sessions[k].rseq + 1
    BY <1>1, <1>2, <1>3, <2>1
  <2>. QED  BY <2>1, <2>2
<1>5. Admitted(f)
  BY <1>2, <1>3, <1>4 DEF Admitted, Known, InSequence
<1>6. how = "executed"
  BY <1>3, <1>5 DEF Effect, Undisturbed
<1>7. sessions'[k].rseq = f.seq
  BY <1>2, <1>3, <1>6 DEF Effect, Progress
<1>8. sessions'[k].rseq + Len(Tail(Here.up)) = client.seq
  BY <1>1, <1>2, <1>4, <1>7
<1>. QED  BY <1>3, <1>4, <1>6, <1>8

LEMMA ServedInStep ==
  ASSUME TypeInv, KeyInv, OpenInv, NumberInv, StepInv, Undisturbed,
         NEW i \in Links, NEW f, Served(i, f)
  PROVE  StepInv'
<1>1. PICK how, fresh, answers : Effect(i, f, how, fresh, answers)
  BY DEF Served
<1>2. /\ client' = client /\ attempts' = attempts /\ attempts \in Nat
      /\ f \in Items(links[i].up) /\ f \in Frame
      /\ f = First(i) /\ HasFrame(i) /\ f = links[i].up[1]
      /\ client.link \in Links /\ Here' = links'[client.link]
      /\ \A e \in Links : links'[e].cut = links[e].cut
      /\ \A e \in Links : links'[e].garbled = links[e].garbled
      /\ \A e \in Links \ {i} : links'[e] = links[e]
  BY ServedLinks, HereType DEF Served, drawn, TypeInv, Here
<1>3. PICK n \in {0, 1} : /\ Progress(sessions', f, how, fresh, n)
                          /\ i = client.link => (n = 1 <=> answers # {})
  BY <1>1 DEF Effect, Undisturbed
<1>4. WholeInv'
  BY <1>2 DEF StepInv, WholeInv, Here
<1>5. ASSUME NEW k \in DOMAIN sessions', client.nonce # 0, k[2] = client.nonce
      PROVE  sessions'[k].sseq = -1
  <2>1. CASE k \in DOMAIN sessions
    <3>1. k \notin f.key
      BY <1>5, NextOfSession
    <3>2. sessions'[k].sseq = sessions[k].sseq
      BY <1>3, <2>1, <3>1 DEF Progress
    <3>. QED  BY <1>5, <2>1, <3>2 DEF StepInv, TakeInv
  <2>2. CASE k \in fresh
    BY <1>3, <2>2 DEF Progress
  <2>. QED  BY <1>3, <1>5, <2>1, <2>2 DEF Progress
<1>6. ASSUME NEW e \in Links, NEW g \in Items(links'[e].down),
             g.obj.kind = "DHGenOk"
      PROVE  g.obj.nonce <= attempts /\ (Before => g.obj.nonce # client.nonce)
  <2>1. CASE g \in Items(links[e].down)
    BY <1>6, <2>1 DEF StepInv, TakeInv
  <2>2. CASE AnswersTo(f, g)
    <3>1. Opens(f) /\ g.obj.nonce = f.obj.nonce
      BY <1>6, <2>2 DEF AnswersTo
    <3>2. /\ f.obj.nonce \in 1..attempts
          /\ Before => f.obj.nonce # client.nonce
      BY <1>2, <3>1 DEF OpenInv
    <3>. QED  BY <1>2, <3>1, <3>2
  <2>. QED  BY <1>6, <2>1, <2>2, ServedItems
<1>7. CASE i # client.link
  <2>1. Here' = Here
    BY <1>2, <1>7 DEF Here
  <2>2. TakeInv'
    BY <1>2, <1>5, <1>6, <2>1
       DEF StepInv, TakeInv, Exchanging, Before, Opens, Finishes
  <2>3. ASSUME NEW k \in client.key
        PROVE  /\ sessions'[k].rseq = sessions[k].rseq
               /\ sessions'[k].sseq = sessions[k].sseq
    <3>1. k \in DOMAIN sessions /\ k[2] \in Nat
      BY FlowType, KeyParts
    <3>2. k \in f.key => k[2] < k[2]
      BY <1>2, <1>7 DEF KeyInv, UpKeyInv
    <3>3. k \notin f.key
      BY <3>1, <3>2
    <3>. QED  BY <1>3, <3>1, <3>3 DEF Progress
  <2>4. FlowInv'
    BY <1>2, <2>1, <2>3 DEF StepInv, FlowInv, Runs
  <2>. QED  BY <1>4, <2>2, <2>4 DEF StepInv
<1>8. CASE i = client.link /\ ~Here'.alive
  <2>1. TakeInv'
    BY <1>2, <1>5, <1>6, <1>8 DEF StepInv, TakeInv, Exchanging, Before
  <2>2. FlowInv'
    BY <1>8 DEF FlowInv
  <2>. QED  BY <1>4, <2>1, <2>2 DEF StepInv
<1>9. CASE i = client.link /\ Here'.alive
  <2>1. /\ ~Shuts(i) /\ Here = links[i] /\ Here' = links'[i]
        /\ Here.alive /\ Here.up # <<>> /\ f = Here.up[1]
        /\ Here.up \in Seq(Frame) /\ Here.down \in Seq(Frame)
        /\ Reads(i) /\ Here'.up = Tail(Here.up)
    <3>1. ~Shuts(i)
      BY <1>2, <1>9 DEF Shuts
    <3>2. Here = links[i] /\ Here' = links'[i]
      BY <1>2, <1>9 DEF Here
    <3>3. Reads(i)
      BY <1>1, <3>1 DEF Effect
    <3>. QED  BY <1>2, <3>1, <3>2, <3>3, HereType DEF HasFrame, Reads
  <2>2. \/ answers = {} /\ Here'.down = Here.down
        \/ \E r : /\ AnswersTo(f, r) /\ answers = {r}
                  /\ Here'.down = Append(Here.down, r)
    BY <1>1, <1>9, <2>1 DEF Effect
  <2>3. ASSUME client.pc = "dh_gen", NEW j \in DOMAIN Here'.up,
               Opens(Here'.up[j]), Here'.up[j].obj.nonce = client.nonce
        PROVE  j = Len(Here'.up)
    <3>1. /\ j + 1 \in DOMAIN Here.up /\ Here'.up[j] = Here.up[j + 1]
          /\ Len(Here'.up) = Len(Here.up) - 1 /\ Len(Here.up) \in Nat
          /\ DOMAIN Here'.up = 1..(Len(Here.up) - 1)
      BY <2>1, <2>3, TailItems
    <3>2. j + 1 = Len(Here.up)
      BY <2>1, <2>3, <3>1 DEF StepInv, TakeInv
    <3>. QED  BY <2>3, <3>1, <3>2
  <2>4. ASSUME client.pc = "dh_gen", NEW j \in DOMAIN Here'.down,
               Finishes(Here'.down[j])
        PROVE  j = Len(Here'.down) /\ Here'.up = <<>>
    <3>1. \A l \in DOMAIN Here.down : ~Finishes(Here.down[l])
      BY <2>1, <2>4 DEF StepInv, TakeInv
    <3>2. PICK r : /\ AnswersTo(f, r)
                   /\ Here'.down = Append(Here.down, r)
      BY <2>2, <2>4, <3>1
    <3>3. r \in Frame
      BY <3>2 DEF AnswersTo
    <3>4. /\ DOMAIN Here.down = 1..Len(Here.down) /\ Len(Here.down) \in Nat
          /\ Len(Here'.down) = Len(Here.down) + 1
          /\ DOMAIN Here'.down = 1..(Len(Here.down) + 1)
          /\ \A l \in DOMAIN Here.down : Here'.down[l] = Here.down[l]
          /\ Here'.down[Len(Here.down) + 1] = r
      BY <2>1, <3>2, <3>3, AppendItems
    <3>5. j \notin DOMAIN Here.down
      BY <2>4, <3>1, <3>4
    <3>6. j = Len(Here.down) + 1
      BY <2>4, <3>4, <3>5
    <3>7. r.obj.kind = "DHGenOk" /\ r.obj.nonce = client.nonce
      BY <2>4, <3>4, <3>6 DEF Finishes
    <3>8. Opens(f) /\ f.obj.nonce = client.nonce
      BY <3>2, <3>7 DEF AnswersTo
    <3>9. 1 \in DOMAIN Here.up
      BY <2>1, TailItems
    <3>10. 1 = Len(Here.up)
      BY <2>1, <2>4, <3>8, <3>9 DEF StepInv, TakeInv
    <3>11. PICK t : t = Tail(Here.up)
      OBVIOUS
    <3>12. t \in Seq(Frame) /\ Len(t) = 0
      BY <2>1, <3>10, <3>11, TailItems
    <3>13. t = <<>>
      BY <3>12
    <3>. QED  BY <2>1, <3>4, <3>6, <3>11, <3>13
  <2>5. TakeInv'
    BY <1>2, <1>5, <1>6, <2>3, <2>4
       DEF StepInv, TakeInv, Exchanging, Before, Opens, Finishes
  <2>6. FlowInv'
    <3>1. SUFFICES ASSUME NEW k \in client.key
                   PROVE  /\ Runs(Here'.up, k, client.seq)
                          /\ Runs(Here'.down, k, sessions'[k].sseq)
                          /\ sessions'[k].rseq + Len(Here'.up) = client.seq
                          /\ client.rseq + Len(Here'.down)
                                = sessions'[k].sseq
      BY <1>2 DEF FlowInv
    <3>2. /\ f.key = {k}
          /\ Runs(Tail(Here.up), k, client.seq)
          /\ sessions'[k].rseq + Len(Tail(Here.up)) = client.seq
      BY <1>1, <1>2, <1>9, <2>1, NextServed DEF StepInv
    <3>3. /\ k \in DOMAIN sessions /\ sessions[k].sseq \in Int
          /\ client.rseq \in Int /\ Len(Here.down) \in Nat
      BY <2>1, FlowType, HereType
    <3>4. /\ Runs(Here.down, k, sessions[k].sseq)
          /\ client.rseq + Len(Here.down) = sessions[k].sseq
      BY <2>1 DEF StepInv, FlowInv
    <3>5. sessions'[k].sseq = sessions[k].sseq + n
      BY <1>3, <3>2, <3>3 DEF Progress
    <3>6. CASE answers = {} /\ Here'.down = Here.down
      <4>1. n = 0
        BY <1>3, <1>9, <3>6
      <4>2. sessions'[k].sseq = sessions[k].sseq
        BY <3>3, <3>5, <4>1
      <4>. QED  BY <2>1, <3>2, <3>4, <3>6, <4>2
    <3>7. ASSUME NEW r, AnswersTo(f, r), answers = {r},
                 Here'.down = Append(Here.down, r)
          PROVE  /\ Runs(Here'.down, k, sessions'[k].sseq)
                 /\ client.rseq + Len(Here'.down) = sessions'[k].sseq
      <4>1. n = 1
        BY <1>3, <1>9, <3>7
      <4>2. r \in Frame /\ r.key = {k} /\ r.seq = sessions[k].sseq + 1
        BY <3>2, <3>7 DEF AnswersTo, Undisturbed
      <4>3. PICK m \in Int : m = sessions[k].sseq
        BY <3>3
      <4>4. Runs(Append(Here.down, r), k, m + 1)
        BY <2>1, <3>4, <4>2, <4>3, RunsAppend
      <4>5. Len(Append(Here.down, r)) = Len(Here.down) + 1
        BY <2>1, <4>2, AppendItems
      <4>6. sessions'[k].sseq = m + 1
        BY <3>5, <4>1, <4>3
      <4>7. client.rseq + Len(Here'.down) = m + 1
        BY <3>3, <3>4, <3>7, <4>3, <4>5
      <4>. QED  BY <3>7, <4>4, <4>6, <4>7
    <3>. QED  BY <2>1, <2>2, <3>2, <3>6, <3>7
  <2>. QED  BY <1>4, <2>5, <2>6 DEF StepInv
<1>. QED  BY <1>7, <1>8, <1>9

LEMMA InitSteps == Init => StepInv
<1>1. SUFFICES ASSUME Init PROVE StepInv
  OBVIOUS
<1>2. /\ client.pc = "idle" /\ client.key = {} /\ client.nonce = 0
      /\ client.seq = -1 /\ client.rseq = -1 /\ client.link = 1
      /\ links = [i \in Links |-> FreshLink] /\ DOMAIN sessions = {}
  BY <1>1 DEF Init
<1>3. 1 \in Links
  BY ClientBoundsAssumption DEF Links
<1>4. /\ \A i \in Links : /\ ~links[i].cut /\ ~links[i].garbled
                          /\ links[i].down = <<>>
      /\ ~Here.garbled
  BY <1>2, <1>3 DEF FreshLink, Here
<1>. QED  BY <1>2, <1>4, NoItems
          DEF StepInv, WholeInv, TakeInv, FlowInv, Exchanging, Before

LEMMA NextInStep ==
  ASSUME Undisturbed, ClientInv, StepInv, [Next]_vars
  PROVE  StepInv'
<1>1. TypeInv /\ CallInv /\ KeyInv /\ OpenInv /\ NumberInv
  BY DEF ClientInv
<1>2. CASE Talk
  BY <1>1, <1>2, TalkMoves, TalkInStep
<1>3. CASE Rest
  BY <1>1, <1>3, RestInStep
<1>4. CASE AuthDHGen
  BY <1>1, <1>4, AuthDHGenMoves, KeyedInStep
<1>5. CASE Reconnect
  BY <1>1, <1>5, ReconnectMoves, MovedInStep
<1>6. CASE \E i \in Links : Serve(i)
  BY <1>1, <1>6, ServeServed, ServedInStep
<1>7. CASE \E i \in Links : ServeChokes(i)
  BY <1>7 DEF ServeChokes, StepInv, WholeInv
<1>8. CASE Age
  BY <1>8, StillInStep DEF Age, drawn
<1>9. CASE Restart
  BY <1>1, <1>9, RestartMoves, ResetInStep
<1>10. CASE UNCHANGED vars
  BY <1>10, StillInStep DEF vars, server, drawn
<1>. QED  BY <1>2, <1>3, <1>4, <1>5, <1>6, <1>7, <1>8, <1>9, <1>10
          DEF Next, Talk, Rest

LEMMA StepCorrect ==
  ASSUME Undisturbed
  PROVE  Spec => []StepInv
<1>1. Init => StepInv
  BY InitSteps
<1>2. ClientInv /\ StepInv /\ [Next]_vars => StepInv'
  BY NextInStep
<1>. QED  BY <1>1, <1>2, ClientCorrect, PTL DEF Spec

(* Every frame of a stream is under the key.                               *)
LEMMA AllUnder ==
  ASSUME NEW q \in Seq(Frame), NEW k, NEW last, Runs(q, k, last)
  PROVE  Under({k}, q) = Len(q)
<1>1. {j \in DOMAIN q : q[j].key = {k}} = 1..Len(q)
  BY DEF Runs
<1>2. PICK n \in Nat : n = Len(q)
  OBVIOUS
<1>3. Cardinality(1..n) = n
  <2>1. Cardinality(1..n) = IF 1 > n THEN 0 ELSE n - 1 + 1
    BY FS_Interval
  <2>. QED  BY <2>1
<1>. QED  BY <1>1, <1>2, <1>3 DEF Under

(* Client and server agree on how many frames there have been under the    *)
(* key in either direction, up to those under way, as long as no write     *)
(* fails, no frame is torn, no clock is set and the server finds the       *)
(* session (session.rs:426-518, server.rs:197-262); timeouts, failed       *)
(* handlers and restarts do no harm.                                       *)
THEOREM KeysInStep ==
  ASSUME Undisturbed
  PROVE  Spec => []InStep
<1>1. ASSUME ClientInv, StepInv PROVE InStep
  <2>1. SUFFICES ASSUME NEW k \in client.key, Here.alive
                 PROVE  /\ k \in DOMAIN sessions
                        /\ sessions[k].rseq + Under({k}, Here.up) = client.seq
                        /\ client.rseq + Under({k}, Here.down)
                              = sessions[k].sseq
    BY DEF InStep
  <2>2. TypeInv /\ KeyInv
    BY <1>1 DEF ClientInv
  <2>3. /\ Runs(Here.up, k, client.seq)
        /\ Runs(Here.down, k, sessions[k].sseq)
        /\ sessions[k].rseq + Len(Here.up) = client.seq
        /\ client.rseq + Len(Here.down) = sessions[k].sseq
    BY <1>1, <2>1 DEF StepInv, FlowInv
  <2>4. Under({k}, Here.up) = Len(Here.up)
        /\ Under({k}, Here.down) = Len(Here.down)
    BY <2>2, <2>3, HereType, AllUnder
  <2>. QED  BY <2>2, <2>3, <2>4, FlowType
<1>. QED  BY <1>1, ClientCorrect, StepCorrect, PTL
=============================================================================
