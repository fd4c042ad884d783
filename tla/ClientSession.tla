--------------------------- MODULE ClientSession ---------------------------
(***************************************************************************)
(* The client library's Session (kosta/src/session.rs) and the server it   *)
(* talks to: key exchange, numbering of requests and answers, timeouts,    *)
(* reconnecting.                                                           *)
(*                                                                         *)
(* Client and server are joined by links, TCP connections, of which the    *)
(* client holds one.  The server handles one frame of a link in one step;  *)
(* what goes on inside such a step is the matter of SessionServer.  Two    *)
(* links with frames at once come from a client that has reconnected while *)
(* the server still works on what the old connection delivered.            *)
(*                                                                         *)
(* Random values are numbers that have not been drawn before.  A public    *)
(* value, a shared secret or its digest is the sequence of the secrets it  *)
(* was computed from.  Optional values are sets with at most one element.  *)
(***************************************************************************)
EXTENDS Integers, Sequences, FiniteSets

CONSTANTS
    MaxLinks,      \* bound: connections with frames in them at once
    MaxAttempts,   \* bound: calls of authenticate
    MaxCalls,      \* bound: requests of the application
    Kinds,         \* requests the application makes
    Disturbances   \* what goes wrong, and how the client is used

Questions == {"SendMessage", "GetHistory"}       \* send_tl, then recv_tl
Notices == {"SignUp", "SendMessageAck", "UserStatusUpdate"}  \* send_tl only
AllDisturbances ==
    {"timeout",       \* a read of the client times out
     "tear",          \* it may do so in the middle of a frame
     "send_fault",    \* a write of the client fails
     "clock",         \* a clock is set, so msg_ids look old or out of range
     "rekey",         \* authenticate is called on an authenticated Session
     "restart",       \* of the server
     "age",           \* 60 s pass between two messages of a handshake
     "read_fault",    \* the server cannot look the session up
     "server_fault"}  \* a handler fails part of the way

ASSUME ClientBoundsAssumption ==
    /\ MaxLinks \in Nat \ {0, 1}
    /\ MaxAttempts \in Nat
    /\ MaxCalls \in Nat
ASSUME ClientKindsAssumption == Kinds \subseteq Questions \cup Notices
ASSUME ClientDisturbancesAssumption == Disturbances \subseteq AllDisturbances

VARIABLES
    client,     \* the Session with the locals of the call under way
    links,      \* connections: frames in both directions, and their state
    sessions,   \* the server's sessions table (with its cache), by key
    store,      \* HANDSHAKE_STORE
    aged,       \* nonce pairs whose ReqDHParams is more than 60 s ago
    attempts,   \* how many client nonces have been drawn
    issued,     \* how many server nonces and secrets have been drawn
    calls,      \* how many requests the application has made
    late,       \* history: a read of this connection has timed out
    answer,     \* history: the last answer a call returned on it
    refused     \* history: a status update was refused

server == <<sessions, store, aged, issued>>
drawn == <<attempts, calls>>
history == <<late, answer, refused>>
vars == <<client, links, server, drawn, history>>

Links == 1..MaxLinks
-----------------------------------------------------------------------------
(* Data *)

Keys == Seq(Nat)
ObjectKinds ==
    Questions \cup Notices \cup {"Message", "HistoryResult"} \cup
    {"ReqPq", "ResPQ", "ReqDHParams", "ServerDHParamsOk",
     "SetClientDHParams", "DHGenOk"}
Object == [kind : ObjectKinds, nonce : Nat, snonce : Nat, value : Seq(Nat),
           call : Nat]
Frame == [key : SUBSET Keys, seq : Int, id : Nat, obj : Object]
Link == [up : Seq(Frame), down : Seq(Frame), alive : BOOLEAN,
         cut : BOOLEAN, garbled : BOOLEAN]
Client == [pc : {"idle", "res_pq", "dh_params", "dh_gen", "answer"},
           link : Links, key : SUBSET Keys, seq : Int, rseq : Int,
           sent : Nat, nonce : Nat, snonce : Nat, ga : Seq(Nat),
           call : Nat, wants : Questions \cup {""}]
ServerSession == [rseq : Int, sseq : Int, user : {0, 1}, done : Seq(Nat)]
Entry == [nonce : Nat, snonce : Nat, secret : Nat]

Obj(kind, nonce, snonce, value) ==
    [kind |-> kind, nonce |-> nonce, snonce |-> snonce, value |-> value,
     call |-> 0]
UserObj(kind, call) == [Obj(kind, 0, 0, <<>>) EXCEPT !.call = call]

FreshLink == [up |-> <<>>, down |-> <<>>, alive |-> TRUE, cut |-> FALSE,
              garbled |-> FALSE]

(* A Session as connect and reconnect leave it; sent is history.           *)
Fresh_KeepsNumbering(i) ==
    [pc |-> "idle", link |-> i, key |-> {}, seq |-> client.seq,
     rseq |-> client.rseq, sent |-> 0, nonce |-> 0, snonce |-> 0,
     ga |-> <<>>, call |-> 0, wants |-> ""]
Fresh_KeepsKey(i) ==
    [pc |-> "idle", link |-> i, key |-> client.key, seq |-> -1, rseq |-> -1,
     sent |-> 0, nonce |-> 0, snonce |-> 0, ga |-> <<>>, call |-> 0,
     wants |-> ""]
Fresh(i) ==
    [pc |-> "idle", link |-> i, key |-> {}, seq |-> -1, rseq |-> -1,
     sent |-> 0, nonce |-> 0, snonce |-> 0, ga |-> <<>>, call |-> 0,
     wants |-> ""]

(* The call under way returns, and its locals are gone.                    *)
Idle(c) == [c EXCEPT !.pc = "idle", !.nonce = 0, !.snonce = 0, !.ga = <<>>,
                     !.call = 0, !.wants = ""]

(* handle_client returns: its end of the connection closes.                *)
Closed_Continues(l) == [l EXCEPT !.up = SubSeq(@, 2, Len(@))]
Closed(l) == [l EXCEPT !.up = <<>>, !.alive = FALSE]

(* An old connection, as the server still sees it.  Closing a socket with  *)
(* unread data may destroy what the peer has not read yet.                 *)
Left(l, n) == [FreshLink EXCEPT !.up = SubSeq(l.up, 1, n), !.alive = l.alive]

NewSession == [rseq |-> -1, sseq |-> -1, user |-> 0, done |-> <<>>]
With(ss, k, s) ==
    [x \in DOMAIN ss \cup {k} |-> IF x = k THEN s ELSE ss[x]]

(* What handle_request answers a user's request with, if anything.         *)
AnswerTo_Acks(kind) ==
    IF kind = "SendMessageAck" THEN {"Message"}
    ELSE IF kind = "SendMessage" THEN {"Message"}
    ELSE IF kind = "GetHistory" THEN {"HistoryResult"} ELSE {}
AnswerTo(kind) ==
    CASE kind = "SendMessage" -> {"Message"}
      [] kind = "GetHistory" -> {"HistoryResult"}
      [] OTHER -> {}

(* clean_handshake_store.                                                  *)
Clean_All(es) == {}
Clean(es) == {e \in es : <<e.nonce, e.snonce>> \notin aged}

Matching(es, o) == {e \in es : e.nonce = o.nonce /\ e.snonce = o.snonce}
-----------------------------------------------------------------------------
(* The client: sending *)

(* Under a key, a frame takes the next seq_no; its id counts the frames    *)
(* sent under that key.                                                    *)
Numbered(c) ==
    IF c.key = {} THEN c ELSE [c EXCEPT !.seq = @ + 1, !.sent = @ + 1]
FrameOf(c, obj) ==
    [key |-> c.key, seq |-> IF c.key = {} THEN -1 ELSE c.seq,
     id |-> IF c.key = {} THEN 0 ELSE c.sent, obj |-> obj]
Carry_Blind(l, f) == [l EXCEPT !.up = Append(@, f)]
Carry(l, f) ==
    IF l.alive /\ ~l.cut THEN [l EXCEPT !.up = Append(@, f)] ELSE l

(* send_tl, by client c over the connections ls.  The number is taken      *)
(* before the write, whatever comes of it; a write that stops in the       *)
(* middle of a frame makes all that follows unreadable for the server.     *)
SendTl(c, ls, obj) ==
    LET n == Numbered(c) IN
    \/ /\ client' = n
       /\ links' = [ls EXCEPT ![n.link] = Carry(@, FrameOf(n, obj))]
    \/ /\ "send_fault" \in Disturbances
       /\ client' = Idle(n)
       /\ \E torn \in BOOLEAN : links' = [ls EXCEPT ![n.link].cut = @ \/ torn]

(* authenticate, up to the first recv_tl.                                  *)
Authenticate ==
    /\ client.pc = "idle" /\ attempts < MaxAttempts
    /\ client.key = {} \/ "rekey" \in Disturbances
    /\ attempts' = attempts + 1
    /\ SendTl([client EXCEPT !.pc = "res_pq", !.nonce = attempts + 1], links,
              Obj("ReqPq", attempts + 1, 0, <<>>))
    /\ UNCHANGED <<server, calls, history>>

(* send_message, get_history, or send_tl of a request without an answer.   *)
Request ==
    /\ client.pc = "idle" /\ calls < MaxCalls
    /\ calls' = calls + 1
    /\ \E kind \in Kinds :
          SendTl(IF kind \in Questions
                 THEN [client EXCEPT !.pc = "answer", !.call = calls + 1,
                                     !.wants = kind]
                 ELSE client,
                 links, UserObj(kind, calls + 1))
    /\ UNCHANGED <<server, attempts, history>>

Reconnect ==
    /\ client.pc = "idle"
    /\ \E i \in Links \ {client.link}, n \in 0..Len(links[client.link].up) :
          /\ links[i].up = <<>>
          /\ links' = [links EXCEPT ![client.link] = Left(@, n),
                                    ![i] = FreshLink]
          /\ client' = Fresh(i)
    /\ late' = FALSE /\ answer' = {}
    /\ UNCHANGED <<server, drawn, refused>>
-----------------------------------------------------------------------------
(* The client: receiving *)

Here == links[client.link]
Incoming == Head(Here.down)
Reading == client.pc # "idle"
Arrives == Reading /\ Here.down # <<>> /\ ~Here.garbled
Popped(ls) == [ls EXCEPT ![client.link].down = Tail(@)]

(* recv_tl takes the frame: it is under the client's key (or there is no   *)
(* key on either side) and has the next number.                            *)
Accepts(f) ==
    /\ f.key = client.key
    /\ client.key # {} => f.seq = client.rseq + 1
Heard == IF client.key = {} THEN client ELSE [client EXCEPT !.rseq = @ + 1]

(* The shared secret, from the server's public value and the client's own  *)
(* secret, which is fresh in every attempt as its nonce is.                *)
Secret == client.ga \o <<client.nonce>>

(* The object is the one the call waits for.                               *)
Expected(o) ==
    \/ client.pc = "res_pq" /\ o.kind = "ResPQ" /\ o.nonce = client.nonce
    \/ client.pc = "dh_params" /\ o.kind = "ServerDHParamsOk"
       /\ o.nonce = client.nonce /\ o.snonce = client.snonce
    \/ client.pc = "dh_gen" /\ o.kind = "DHGenOk"
       /\ o.nonce = client.nonce /\ o.snonce = client.snonce
       /\ o.value = Secret
    \/ client.pc = "answer" /\ o.kind \in AnswerTo(client.wants)

Takes(pc) ==
    /\ Arrives /\ client.pc = pc
    /\ Accepts(Incoming) /\ Expected(Incoming.obj)

(* authenticate: ResPQ, then ReqDHParams.                                  *)
AuthResPQ ==
    /\ Takes("res_pq")
    /\ SendTl([Heard EXCEPT !.pc = "dh_params",
                            !.snonce = Incoming.obj.snonce],
              Popped(links),
              Obj("ReqDHParams", client.nonce, Incoming.obj.snonce, <<>>))
    /\ UNCHANGED <<server, drawn, history>>

(* ServerDHParamsOk, then SetClientDHParams.                               *)
Agreeing_TakesKey(c, ga) ==
    [c EXCEPT !.pc = "dh_gen", !.ga = ga, !.key = {ga \o <<c.nonce>>}]
Agreeing(c, ga) == [c EXCEPT !.pc = "dh_gen", !.ga = ga]

AuthDHParams ==
    /\ Takes("dh_params")
    /\ SendTl(Agreeing(Heard, Incoming.obj.value), Popped(links),
              Obj("SetClientDHParams", client.nonce, client.snonce,
                  <<client.nonce>>))
    /\ UNCHANGED <<server, drawn, history>>

(* DHGenOk: the new key is used from here on.  The numbering goes on where *)
(* it was, which is -1 unless the Session had a key already.               *)
AuthDHGen ==
    /\ Takes("dh_gen")
    /\ client' = [Idle(Heard) EXCEPT !.key = {Secret}, !.sent = 0]
    /\ links' = Popped(links)
    /\ UNCHANGED <<server, drawn, history>>

(* send_message and get_history return what they got.                      *)
Returns ==
    /\ Takes("answer")
    /\ client' = Idle(Heard) /\ links' = Popped(links)
    /\ answer' = {[asked |-> client.call, got |-> Incoming.obj.call]}
    /\ UNCHANGED <<server, drawn, late, refused>>

(* The frame is not what is awaited, and the call returns an error: under  *)
(* another key or number, or an object of another kind or handshake.  When *)
(* a clock has been set, a msg_id may not be above the last one, or, which *)
(* recv_tl notices after it has counted the frame, out of range.           *)
RecvFails ==
    /\ Arrives
    /\ \/ ~Accepts(Incoming) /\ client' = Idle(client)
       \/ /\ Accepts(Incoming) /\ ~Expected(Incoming.obj)
          /\ client' = Idle(Heard)
       \/ /\ "clock" \in Disturbances /\ client.key # {}
          /\ Incoming.key = client.key
          /\ \/ client' = Idle(client)
             \/ Accepts(Incoming) /\ client' = Idle(Heard)
    /\ links' = Popped(links)
    /\ UNCHANGED <<server, drawn, history>>

(* No complete frame in time.  What has been read of one is gone, and the  *)
(* next read starts in its middle.                                         *)
Timeout ==
    /\ "timeout" \in Disturbances /\ Reading
    /\ client' = Idle(client) /\ late' = TRUE
    /\ \E torn \in BOOLEAN :
          /\ torn => "tear" \in Disturbances /\ Here.down # <<>>
          /\ links' = [links EXCEPT ![client.link].garbled = @ \/ torn]
    /\ UNCHANGED <<server, drawn, answer, refused>>

(* Reading from the middle of a frame: bytes of the frames to come are     *)
(* taken for a length and a payload, until a frame boundary is met again.  *)
RecvGarbled ==
    /\ Reading /\ Here.garbled
    /\ client' = Idle(client)
    /\ \E n \in 1..Len(Here.down), g \in BOOLEAN :
          links' = [links EXCEPT ![client.link].garbled = g,
                        ![client.link].down = SubSeq(@, n + 1, Len(@))]
    /\ UNCHANGED <<server, drawn, history>>

(* The server has closed the connection, and all it sent has been read.    *)
RecvEof ==
    /\ Reading /\ ~Here.alive /\ Here.down = <<>>
    /\ client' = Idle(client)
    /\ UNCHANGED <<links, server, drawn, history>>

Receive == AuthResPQ \/ AuthDHParams \/ AuthDHGen \/ Returns \/ RecvFails
           \/ RecvGarbled \/ RecvEof
-----------------------------------------------------------------------------
(* The server *)

InSequence_AtLeast(s, f) == f.seq > s.rseq
InSequence(s, f) == f.seq = s.rseq + 1

(* The first frame of link i, with its session if it has one that counts   *)
(* the frame as its next.                                                  *)
HasFrame(i) == links[i].alive /\ links[i].up # <<>>
First(i) == Head(links[i].up)
Known(f) == f.key # {} /\ f.key \subseteq DOMAIN sessions
Admitted(f) ==
    \/ f.key = {}
    \/ Known(f) /\ \A k \in f.key : InSequence(sessions[k], f)

(* The sessions with the frame counted, and with it executed.              *)
Counted(f) ==
    [k \in DOMAIN sessions |->
        IF k \in f.key THEN [sessions[k] EXCEPT !.rseq = f.seq]
                       ELSE sessions[k]]
Executed(f) ==
    [k \in DOMAIN sessions |->
        IF k \in f.key THEN [Counted(f)[k] EXCEPT !.done = Append(@, f.id)]
                       ELSE sessions[k]]

Handling(i, kind) ==
    HasFrame(i) /\ Admitted(First(i)) /\ First(i).obj.kind = kind

(* The frame is used up, and its answer is sent under the frame's session  *)
(* (ss are the sessions so far).  An old connection leads nowhere, and     *)
(* sending on it may fail.  When the session cannot be looked up for its   *)
(* number the answer goes out all the same, with the number -1.            *)
Read(l) == [l EXCEPT !.up = Tail(@)]
Deliver(l, f) == [l EXCEPT !.down = Append(@, f)]
Answered(f, ss) ==
    [k \in DOMAIN ss |->
        IF k \in f.key THEN [ss[k] EXCEPT !.sseq = @ + 1] ELSE ss[k]]
AnswerFrame(f, obj) ==
    [key |-> f.key, id |-> 0, obj |-> obj,
     seq |-> IF f.key = {} THEN -1
             ELSE LET k == CHOOSE k \in f.key : TRUE
                  IN  sessions[k].sseq + 1]
Unnumbered(f, obj) == [key |-> f.key, id |-> 0, obj |-> obj, seq |-> -1]
Send(i, r) ==
    \/ /\ i = client.link
       /\ links' = [links EXCEPT ![i] = Deliver(Read(@), r)]
    \/ /\ i # client.link
       /\ \/ links' = [links EXCEPT ![i] = Read(@)]
          \/ links' = [links EXCEPT ![i] = Closed(@)]
Reply(i, ss, obj) ==
    \/ /\ sessions' = Answered(First(i), ss)
       /\ Send(i, AnswerFrame(First(i), obj))
    \/ /\ "read_fault" \in Disturbances /\ First(i).key # {}
       /\ sessions' = ss
       /\ Send(i, Unnumbered(First(i), obj))

NoReply(i, ss) ==
    /\ sessions' = ss
    /\ links' = [links EXCEPT ![i] = Read(@)]

(* handle_request returns an error.                                        *)
Fails(i, ss) ==
    /\ sessions' = ss
    /\ links' = [links EXCEPT ![i] = Closed(@)]

(* The frame is dropped without a word: its number is not the next, a      *)
(* clock was set, or its session could not be looked up, so that it was    *)
(* taken for an unencrypted one.                                           *)
ServeDrops(i) ==
    /\ HasFrame(i) /\ First(i).key # {}
    /\ \/ ~Admitted(First(i))
       \/ {"clock", "read_fault"} \cap Disturbances # {}
    /\ NoReply(i, sessions)
    /\ UNCHANGED <<client, store, aged, issued, drawn, history>>

ServeReqPq(i) ==
    /\ Handling(i, "ReqPq")
    /\ issued' = issued + 1
    /\ Reply(i, Executed(First(i)),
             Obj("ResPQ", First(i).obj.nonce, issued + 1, <<>>))
    /\ UNCHANGED <<client, store, aged, drawn, history>>

ServeReqDHParams(i) ==
    /\ Handling(i, "ReqDHParams")
    /\ issued' = issued + 1
    /\ LET o == First(i).obj IN
       /\ store' = (store \ Matching(store, o)) \cup
              {[nonce |-> o.nonce, snonce |-> o.snonce, secret |-> issued + 1]}
       /\ Reply(i, Executed(First(i)),
                Obj("ServerDHParamsOk", o.nonce, o.snonce, <<issued + 1>>))
    /\ UNCHANGED <<client, aged, drawn, history>>

(* The handshake is looked up after the old ones have been thrown out, and *)
(* ends with a new session.                                                *)
ServeSetClientDHParams(i) ==
    /\ Handling(i, "SetClientDHParams")
    /\ LET o == First(i).obj
           kept == Clean(store)
       IN \/ /\ Matching(kept, o) = {}
             /\ store' = kept /\ Fails(i, Executed(First(i)))
          \/ \E e \in Matching(kept, o) :
                LET k == <<e.secret>> \o o.value IN
                /\ store' = kept \ {e}
                /\ Reply(i, With(Executed(First(i)), k, NewSession),
                         Obj("DHGenOk", o.nonce, o.snonce, k))
    /\ UNCHANGED <<client, aged, issued, drawn, history>>

(* Without a session SignUp makes a user all the same.                     *)
ServeSignUp(i) ==
    /\ Handling(i, "SignUp")
    /\ NoReply(i, [k \in DOMAIN sessions |->
                      IF k \in First(i).key
                      THEN [Executed(First(i))[k] EXCEPT !.user = 1]
                      ELSE sessions[k]])
    /\ UNCHANGED <<client, store, aged, issued, drawn, history>>

(* The other requests of a user need a session.                            *)
ServeUser(i) ==
    /\ \E kind \in {"SendMessage", "GetHistory", "SendMessageAck"} :
          /\ Handling(i, kind)
          /\ \/ First(i).key = {} /\ Fails(i, sessions)
             \/ /\ First(i).key # {} /\ AnswerTo(kind) = {}
                /\ NoReply(i, Executed(First(i)))
             \/ /\ First(i).key # {}
                /\ \E a \in AnswerTo(kind) :
                      Reply(i, Executed(First(i)),
                            UserObj(a, First(i).obj.call))
    /\ UNCHANGED <<client, store, aged, issued, drawn, history>>

(* update_status sends user 0, for nothing ever sets Session::user_id; the *)
(* server compares it with the user of the session.                        *)
ServeUserStatus(i) ==
    /\ Handling(i, "UserStatusUpdate")
    /\ \/ /\ First(i).key = {}
          /\ Fails(i, sessions) /\ UNCHANGED refused
       \/ \E k \in First(i).key :
             \/ /\ sessions[k].user = 0
                /\ NoReply(i, Executed(First(i))) /\ UNCHANGED refused
             \/ /\ sessions[k].user # 0
                /\ Fails(i, Executed(First(i))) /\ refused' = TRUE
    /\ UNCHANGED <<client, store, aged, issued, drawn, late, answer>>

(* The session is found when the frame arrives and not when it is wanted   *)
(* next: for the keys, by the handler of a user's request, or by that of   *)
(* SignUp, which then does without.                                        *)
ServeLooksUp(i) ==
    /\ "read_fault" \in Disturbances
    /\ HasFrame(i) /\ Known(First(i))
    /\ \/ Fails(i, sessions)
       \/ /\ Admitted(First(i))
          /\ First(i).obj.kind \in (Questions \cup Notices) \ {"SignUp"}
          /\ Fails(i, Counted(First(i)))
       \/ Handling(i, "SignUp") /\ NoReply(i, Executed(First(i)))
    /\ UNCHANGED <<client, store, aged, issued, drawn, history>>

(* A statement fails on the way: the frame may have been counted, and      *)
(* executed, and the session of a handshake written, but nothing is sent.  *)
ServeFails(i) ==
    /\ "server_fault" \in Disturbances
    /\ HasFrame(i) /\ Admitted(First(i))
    /\ LET o == First(i).obj IN
       \/ Fails(i, sessions)
       \/ Fails(i, Counted(First(i)))
       \/ Fails(i, Executed(First(i)))
       \/ /\ o.kind = "SetClientDHParams"
          /\ \E e \in Matching(Clean(store), o) :
                Fails(i, With(Executed(First(i)), <<e.secret>> \o o.value,
                              NewSession))
    /\ \/ store' = store
       \/ First(i).obj.kind = "SetClientDHParams" /\ store' = Clean(store)
    /\ UNCHANGED <<client, aged, issued, drawn, history>>

(* After a torn frame the server reads nonsense, until it gives up.        *)
ServeChokes(i) ==
    /\ links[i].alive /\ links[i].cut /\ links[i].up = <<>>
    /\ Fails(i, sessions)
    /\ UNCHANGED <<client, store, aged, issued, drawn, history>>

Serve(i) ==
    \/ ServeDrops(i) \/ ServeReqPq(i) \/ ServeReqDHParams(i)
    \/ ServeSetClientDHParams(i) \/ ServeSignUp(i) \/ ServeUser(i)
    \/ ServeUserStatus(i) \/ ServeLooksUp(i) \/ ServeFails(i)
-----------------------------------------------------------------------------
(* The world *)

Age ==
    /\ "age" \in Disturbances
    /\ \E e \in store : aged' = aged \cup {<<e.nonce, e.snonce>>}
    /\ UNCHANGED <<client, links, sessions, store, issued, drawn, history>>

(* The process is gone with its connections and what is in memory; of what *)
(* it sent, a part may not have left the machine.                          *)
Restart ==
    /\ "restart" \in Disturbances
    /\ \E n \in 0..Len(Here.down) :
          links' = [i \in Links |->
              IF i = client.link
              THEN [Closed(links[i]) EXCEPT !.down = SubSeq(@, 1, n)]
              ELSE Closed(links[i])]
    /\ store' = {}
    /\ UNCHANGED <<client, sessions, aged, issued, drawn, history>>

Init ==
    /\ links = [i \in Links |-> FreshLink]
    /\ client = [pc |-> "idle", link |-> 1, key |-> {}, seq |-> -1,
                 rseq |-> -1, sent |-> 0, nonce |-> 0, snonce |-> 0,
                 ga |-> <<>>, call |-> 0, wants |-> ""]
    /\ sessions = [k \in {} |-> NewSession]
    /\ store = {} /\ aged = {}
    /\ attempts = 0 /\ issued = 0 /\ calls = 0
    /\ late = FALSE /\ answer = {} /\ refused = FALSE

Next ==
    \/ Authenticate \/ Request \/ Reconnect
    \/ AuthResPQ \/ AuthDHParams \/ AuthDHGen \/ Returns
    \/ RecvFails \/ RecvGarbled \/ RecvEof \/ Timeout
    \/ \E i \in Links : Serve(i) \/ ServeChokes(i)
    \/ Age \/ Restart

Spec ==
    /\ Init /\ [][Next]_vars
    /\ WF_vars(Receive)
    /\ \A i \in Links : WF_vars(Serve(i))
-----------------------------------------------------------------------------
(* Properties *)

(* Types, and that what a call keeps lives as long as the call.            *)
TypeOK ==
    /\ client.link \in Links /\ Cardinality(client.key) <= 1
    /\ client.seq \in Int /\ client.rseq \in Int /\ client.sent \in Nat
    /\ client.pc = "idle" => client = Idle(client)
    /\ client.pc \in {"res_pq", "dh_params", "dh_gen"} <=> client.nonce # 0
    /\ client.pc = "answer" <=> client.wants \in Questions
    /\ \A i \in Links : \A j \in DOMAIN links[i].up :
          Cardinality(links[i].up[j].key) <= 1
    /\ \A i \in Links : ~links[i].alive => links[i].up = <<>>
    /\ \A k \in DOMAIN sessions :
          /\ Len(k) = 2 /\ k[1] \in 1..issued /\ k[2] \in 1..attempts
          /\ sessions[k].done \in Seq(Nat)
    /\ \A e, f \in store :
          e.nonce = f.nonce /\ e.snonce = f.snonce => e = f

(* A client holds only keys the server can find, whatever was lost, timed  *)
(* out, restarted or failed in the exchange, after the session was saved   *)
(* as well (session.rs:404-418, handlers.rs:308).                          *)
KeyKnown == client.key \subseteq DOMAIN sessions

(* Client and server agree on the numbering, up to what is under way in    *)
(* either direction (session.rs:426-518 and server.rs:197-262).            *)
Under(key, q) == Cardinality({j \in DOMAIN q : q[j].key = key})
InStep ==
    \A k \in client.key : Here.alive =>
       /\ k \in DOMAIN sessions
       /\ sessions[k].rseq + Under({k}, Here.up) = client.seq
       /\ client.rseq + Under({k}, Here.down) = sessions[k].sseq

(* The frames of a session are all on one connection: a client that        *)
(* reconnects leaves its key behind (session.rs:178-190).                  *)
KeyOnOneLink ==
    \A i \in Links : i # client.link =>
       \A j \in DOMAIN links[i].up : links[i].up[j].key \cap client.key = {}

(* The server executes the frames sent under a key in the order sent, and  *)
(* skips none: what comes after a lost one is not executed either          *)
(* (server.rs:199-204).                                                    *)
NoRequestSkipped ==
    \A k \in DOMAIN sessions : \A j \in DOMAIN sessions[k].done :
       sessions[k].done[j] = j

(* As long as no read has timed out on its connection, a call returns the  *)
(* answer to its own request (session.rs:525-549); answers carry nothing   *)
(* that says what they answer.                                             *)
AnswersOwnRequest == ~late => \A a \in answer : a.got = a.asked

(* A handshake is forgotten only when it is done, more than 60 s old, or   *)
(* the server has restarted, whoever cleans the store                      *)
(* (handlers.rs:38-43, 260-270, 352-355).                                  *)
HandshakeRemembered ==
    \A i \in Links : \A j \in DOMAIN links[i].up :
       LET o == links[i].up[j].obj IN
       o.kind = "SetClientDHParams" /\ <<o.nonce, o.snonce>> \notin aged
          => Matching(store, o) # {}

(* A status update is that of the current user (session.rs:558).           *)
StatusIsOwn == ~refused

(* Every call of the client returns, even without read timeouts (as over   *)
(* TLS), while sessions can be looked up and nobody disturbs the           *)
(* numbering.                                                              *)
CallsEnd == Reading ~> ~Reading
=============================================================================
