--------------------------- MODULE SessionServer ---------------------------
(***************************************************************************)
(* One encrypted session of kosta-server: the handlers (handle_client,     *)
(* server.rs) that serve frames under its auth_key_id, its entry in the    *)
(* SessionCache and its row in the sessions table.                         *)
(*                                                                         *)
(* A step is what the code does between two points where other tasks can   *)
(* get in: one lock of the cache, one lock of recent_msg_ids, one SQL      *)
(* statement (autocommit), one read or write of the socket.  The cache has *)
(* room for 1000 sessions of which this is one, so the others may push it  *)
(* out at any moment: Evict.  Rows of sessions are never deleted.          *)
(*                                                                         *)
(* Optional values (a cache miss, a local that is not alive) are sets with *)
(* at most one element.                                                    *)
(***************************************************************************)
EXTENDS Integers, Sequences, FiniteSets

CONSTANTS
    Handlers,      \* tasks that may serve a connection of this session
    MsgIds,        \* msg_ids a client may put into a frame
    SeqNos,        \* seq_nos a client may put into a frame
    Kinds,         \* kinds of request a client may send
    CtrBase,       \* 2^32: a msg_id is time * CtrBase + counter
    Window,        \* 30_000 ms: how far a msg_id may be from the clock
    MaxTime,       \* bound: the clock stops here
    RecentCap,     \* 1000: msg_ids that recent_msg_ids remembers
    Disturbances   \* what the environment may do to the server

AllKinds == {"reply",        \* handle_request returns Some(data)
             "quiet",        \* it returns None
             "signup",       \* SignUp: None, and the session gets its user
             "fail",         \* it returns Err: the connection closes
             "unparsed",     \* TlObject::read_boxed fails
             "headless",     \* the plaintext has no msg_id and seq_no
             "undecryptable"}\* too short, or the tag does not match

AllDisturbances == {"evict", "crash", "read_fault", "write_fault",
                    "clock_back"}   \* the system's clock is set back

ASSUME HandlersAssumption == IsFiniteSet(Handlers)
ASSUME FramesAssumption ==
    /\ MsgIds \subseteq Nat \ {0}
    /\ SeqNos \subseteq Nat
    /\ Kinds \subseteq AllKinds
ASSUME BoundsAssumption ==
    /\ CtrBase \in Nat \ {0}
    /\ Window \in Nat
    /\ MaxTime \in Nat
    /\ RecentCap \in Nat \ {0}
ASSUME DisturbancesAssumption == Disturbances \subseteq AllDisturbances

VARIABLES
    task,       \* what each handler is doing, with its locals
    cache,      \* the LRU entry of this session, {} when it is not cached
    db,         \* its row in the sessions table
    recent,     \* the recent_msg_ids lists the Arcs point to
    now,        \* the server's clock, in ms
    users,      \* how many users create_user has made
    failed,     \* history: some write of the row has failed
    executed,   \* history: msg_ids given to handle_request
    sent        \* history: answers put on the wire

server == <<cache, db, recent>>
outside == <<now, users, failed>>
history == <<executed, sent>>
vars == <<task, server, outside, history>>
-----------------------------------------------------------------------------
(* Data *)

(* Arcs alive at once: one per handler's clone and one in the cache.       *)
Refs == 0..Cardinality(Handlers)

Frame == [msg : MsgIds, seq : SeqNos, kind : Kinds]

(* The columns of a sessions row that change after the handshake.          *)
Row == [user : Nat, rseq : Int, last : Int, sctr : Nat, rctr : Nat,
        sseq : Int, mctr : Nat]

(* SessionData: the same fields, the counters inside its SessionCrypto and *)
(* the Arc to its recent_msg_ids.                                          *)
Session == [user : Nat, rseq : Int, last : Int, sctr : Nat, rctr : Nat,
            sseq : Int, mctr : Nat, csend : Nat, crecv : Nat, rec : Refs]

Crypto == [send : Nat, recv : Nat]
Number == [seq : Int, ctr : Nat]
Answer == [msg : Int, seq : Int, for : MsgIds, nonce : Nat]

(* save_session_full writes the fields send_counter and recv_counter, not  *)
(* the counters inside crypto.                                             *)
RowOf_SkipsSendSeq(s) ==
    [user |-> s.user, rseq |-> s.rseq, last |-> s.last, sctr |-> s.sctr,
     rctr |-> s.rctr, sseq |-> s.rseq, mctr |-> s.mctr]
RowOf_WritesCryptoRecv(s) ==
    [user |-> s.user, rseq |-> s.rseq, last |-> s.last, sctr |-> s.sctr,
     rctr |-> s.crecv, sseq |-> s.sseq, mctr |-> s.mctr]
RowOf(s) ==
    [user |-> s.user, rseq |-> s.rseq, last |-> s.last, sctr |-> s.sctr,
     rctr |-> s.rctr, sseq |-> s.sseq, mctr |-> s.mctr]

(* The SessionData get_session builds from a row on a miss.                *)
Load_RestartsNumbering(row, ref) ==
    [user |-> row.user, rseq |-> row.rseq, last |-> row.last,
     sctr |-> row.sctr, rctr |-> row.rctr, sseq |-> -1, mctr |-> row.mctr,
     csend |-> row.sctr, crecv |-> row.rctr, rec |-> ref]
Load(row, ref) ==
    [user |-> row.user, rseq |-> row.rseq, last |-> row.last,
     sctr |-> row.sctr, rctr |-> row.rctr, sseq |-> row.sseq,
     mctr |-> row.mctr, csend |-> row.sctr, crecv |-> row.rctr, rec |-> ref]

(* The single-purpose UPDATE statements of db.rs.                          *)
SetRecv(row, seq, msg) == [row EXCEPT !.rseq = seq, !.last = msg]
SetCounters_Swapped(row, send, recv) ==
    [row EXCEPT !.sctr = recv, !.rctr = send]
SetCounters(row, send, recv) == [row EXCEPT !.sctr = send, !.rctr = recv]
SetSendState(row, seq, ctr) == [row EXCEPT !.sseq = seq, !.mctr = ctr]
SetUser(row, user) == [row EXCEPT !.user = user]

(* LruCache::put of a msg_id that is not in it; contains() does not touch  *)
(* the order, so the oldest falls out.                                     *)
Remember_Unbounded(q, m) == Append(q, m)
Remember(q, m) == Append(IF Len(q) < RecentCap THEN q ELSE Tail(q), m)

(* recent_msg_ids.contains(&msg_id).                                       *)
Contains(q, m) == \E i \in DOMAIN q : q[i] = m

(* The checks of an incoming frame, in the order the code makes them.      *)
NewerThan_OrEqual(s, f) == f.msg >= s.last
NewerThan(s, f) == f.msg > s.last
InSequence(s, f) == f.seq = s.rseq + 1
Timely(f) ==
    LET t == f.msg \div CtrBase IN t - now <= Window /\ now - t <= Window

(* The session clone once the frame has passed them.                       *)
AcceptedBy_ForgetsLast(s, f) ==
    [s EXCEPT !.rseq = f.seq, !.crecv = @ + 1]
AcceptedBy(s, f) ==
    [s EXCEPT !.rseq = f.seq, !.last = f.msg, !.crecv = @ + 1]

(* Reserving the number of an answer, and recording that one was sealed.   *)
Numbered(s) == [s EXCEPT !.sseq = @ + 1, !.mctr = @ + 1]
Sealed_KeepsField(s, c) ==
    [s EXCEPT !.csend = c.send, !.crecv = c.recv]
Sealed(s, c) ==
    [s EXCEPT !.csend = c.send, !.crecv = c.recv,
              !.sctr = c.send, !.rctr = c.recv]
-----------------------------------------------------------------------------
(* Handlers *)

Labels == {"closed", "recv", "lookup", "lookup_read", "lookup_fill", "check",
           "accept_recv", "accept_counters", "accept_save", "accept_put",
           "handle", "signup_user", "signup_save", "signup_put",
           "number_save", "number_put", "number_state", "encrypt",
           "seal_counters", "seal_save", "seal_put", "send"}

(* The five call sites of get_session in a handler.                        *)
Sites == {"none", "route", "session", "signup", "number", "seal"}

(* Labels at which the next step is an SQL statement that writes the row.  *)
Writing == {"accept_recv", "accept_counters", "accept_save", "signup_user",
            "signup_save", "number_save", "number_state", "seal_counters",
            "seal_save"}

Task == [user : Nat,                  \* the user SignUp has created
         row : SUBSET Row,            \* what get_session read on a miss
         pc : Labels, site : Sites,
         frame : SUBSET Frame,        \* the frame being served
         session : SUBSET Session,    \* the clone get_session returned
         crypto : SUBSET Crypto,      \* the clone that will seal the answer
         number : SUBSET Number,      \* seq_no and counter reserved for it
         answer : SUBSET Answer,      \* the sealed answer
         told : SUBSET Int]           \* history: seq_no last sent on this
                                      \* connection, as the client saw it

At(l) == [user |-> 0, row |-> {}, pc |-> l, site |-> "none", frame |-> {},
          session |-> {}, crypto |-> {}, number |-> {}, answer |-> {},
          told |-> {}]

(* A step of h from label l to the task t: on its locals only, one that    *)
(* writes the row, one that puts its session clone into the cache.         *)
Go(h, l, t) == task[h].pc = l /\ task' = [task EXCEPT ![h] = t]
Local(h, l, t) == Go(h, l, t) /\ UNCHANGED <<server, outside, history>>
Write(h, l, row, t) ==
    Go(h, l, t) /\ db' = row /\ UNCHANGED <<cache, recent, outside, history>>
Put(h, l, t) ==
    /\ Go(h, l, t)
    /\ cache' = task[h].session
    /\ UNCHANGED <<db, recent, outside, history>>

(* The handler is back at transport.recv(), its locals are gone.           *)
Back(h) == [At("recv") EXCEPT !.told = task[h].told]

Opened(h) == task[h].pc # "closed"

LiveRefs == {s.rec : s \in cache} \cup
            UNION {{s.rec : s \in task[h].session} : h \in Handlers}

FreshRow == [user |-> 0, rseq |-> -1, last |-> 0, sctr |-> 0, rctr |-> 0,
             sseq |-> -1, mctr |-> 0]

(* The handshake saved the session and put it into the cache.              *)
Init ==
    /\ task = [h \in Handlers |-> At("closed")]
    /\ db = FreshRow
    /\ cache = {Load(FreshRow, 0)}
    /\ recent = [r \in Refs |-> <<>>]
    /\ now = 0
    /\ users = 0
    /\ failed = FALSE
    /\ executed = <<>>
    /\ sent = <<>>

Connect(h) == Local(h, "closed", At("recv"))

(* recv fails or meets the end of the stream.                              *)
HangUp(h) == Local(h, "recv", At("closed"))

Receive(h) ==
    \E f \in Frame :
        Local(h, "recv", [task[h] EXCEPT !.pc = "lookup", !.site = "route",
                                         !.frame = {f}])
-----------------------------------------------------------------------------
(* SessionCache::get_session *)

(* Where a call site goes on.  "route" drops the clone and asks again.     *)
After_Loops(site) ==
    CASE site = "route" -> "lookup"
      [] site = "session" -> "check"
      [] site = "signup" -> "signup_save"
      [] site = "number" -> "number_save"
      [] OTHER -> "lookup"
After(site) ==
    CASE site = "route" -> "lookup"
      [] site = "session" -> "check"
      [] site = "signup" -> "signup_save"
      [] site = "number" -> "number_save"
      [] OTHER -> "seal_counters"

Returned(t, s) ==
    [t EXCEPT !.pc = After(t.site),
              !.site = IF t.site = "route" THEN "session" ELSE t.site,
              !.row = {},
              !.session = IF t.site = "route" THEN {} ELSE {s}]

LookupHit(h) == \E s \in cache : Local(h, "lookup", Returned(task[h], s))

LookupMiss(h) ==
    cache = {} /\ Local(h, "lookup", [task[h] EXCEPT !.pc = "lookup_read"])

LookupRead(h) ==
    Local(h, "lookup_read", [task[h] EXCEPT !.pc = "lookup_fill",
                                            !.row = {db}])

(* Builds a session with an empty recent_msg_ids, and puts it into the     *)
(* cache whatever the cache has got meanwhile.                             *)
LookupFill(h) ==
    /\ Refs \ LiveRefs # {}
    /\ LET ref == CHOOSE r \in Refs \ LiveRefs : TRUE IN
       \E row \in task[h].row :
          /\ Go(h, "lookup_fill", Returned(task[h], Load(row, ref)))
          /\ cache' = {Load(row, ref)}
          /\ recent' = [recent EXCEPT ![ref] = <<>>]
    /\ UNCHANGED <<db, outside, history>>

(* The SELECT fails.  The first call site then takes the frame for a       *)
(* plaintext one, which does not parse; the second returns the error;      *)
(* SignUp ends; the last two answer with the number (-1, 0), or without    *)
(* storing the counters.                                                   *)
LookupFails(h) ==
    /\ "read_fault" \in Disturbances
    /\ Local(h, "lookup_read",
             CASE task[h].site \in {"route", "signup"} -> Back(h)
               [] task[h].site = "number" ->
                     [task[h] EXCEPT !.pc = "encrypt",
                                     !.number = {[seq |-> -1, ctr |-> 0]}]
               [] task[h].site = "seal" -> [task[h] EXCEPT !.pc = "send"]
               [] OTHER -> At("closed"))
-----------------------------------------------------------------------------
(* Taking a request *)

(* Up to the first `continue` that leaves no trace.                        *)
Passes_NotRecent(s, f) ==
    f.kind \notin {"undecryptable", "headless"} /\ NewerThan(s, f)
Passes(s, f) ==
    /\ f.kind \notin {"undecryptable", "headless"}
    /\ NewerThan(s, f)
    /\ ~Contains(recent[s.rec], f.msg)

(* There is no answer to a rejected frame.                                 *)
Reject(h) ==
    \E f \in task[h].frame, s \in task[h].session :
        /\ ~Passes(s, f)
        /\ Local(h, "check", IF f.kind = "headless" THEN At("closed")
                             ELSE Back(h))

(* Under its lock recent_msg_ids takes the msg_id, and only then come the  *)
(* two remaining checks.                                                   *)
RejectLate(h) ==
    /\ \E f \in task[h].frame, s \in task[h].session :
          /\ Passes(s, f)
          /\ ~(InSequence(s, f) /\ Timely(f))
          /\ Go(h, "check", Back(h))
          /\ recent' = [recent EXCEPT ![s.rec] = Remember(@, f.msg)]
    /\ UNCHANGED <<cache, db, outside, history>>

Accept(h) ==
    /\ \E f \in task[h].frame, s \in task[h].session :
          /\ Passes(s, f)
          /\ InSequence(s, f)
          /\ Timely(f)
          /\ Go(h, "check", [task[h] EXCEPT !.pc = "accept_recv",
                                            !.session = {AcceptedBy(s, f)}])
          /\ recent' = [recent EXCEPT ![s.rec] = Remember(@, f.msg)]
    /\ UNCHANGED <<cache, db, outside, history>>

AcceptRecv(h) ==
    \E s \in task[h].session :
        Write(h, "accept_recv", SetRecv(db, s.rseq, s.last),
              [task[h] EXCEPT !.pc = "accept_counters"])

AcceptCounters(h) ==
    \E s \in task[h].session :
        Write(h, "accept_counters", SetCounters(db, s.csend, s.crecv),
              [task[h] EXCEPT !.pc = "accept_save"])

(* update_session: the row first, the cache after it.                      *)
AcceptSave(h) ==
    \E s \in task[h].session :
        Write(h, "accept_save", RowOf(s), [task[h] EXCEPT !.pc = "accept_put"])

AcceptPut(h) ==
    \E s \in task[h].session :
        Put(h, "accept_put",
            [task[h] EXCEPT !.pc = "handle", !.session = {},
                            !.crypto = {[send |-> s.csend, recv |-> s.crecv]}])

(* handle_request.  What it does to the other tables is not in this module.*)
Handle(h) ==
    /\ \E f \in task[h].frame :
          /\ Go(h, "handle",
                CASE f.kind = "reply" ->
                        [task[h] EXCEPT !.pc = "lookup", !.site = "number"]
                  [] f.kind = "signup" ->
                        [task[h] EXCEPT !.pc = "signup_user",
                                        !.user = users + 1]
                  [] f.kind = "fail" -> At("closed")
                  [] OTHER -> Back(h))
          /\ executed' = IF f.kind = "unparsed" THEN executed
                         ELSE Append(executed, f.msg)
          /\ users' = IF f.kind = "signup" THEN users + 1 ELSE users
    /\ UNCHANGED <<server, now, failed, sent>>

SignUpUser(h) ==
    Write(h, "signup_user", SetUser(db, task[h].user),
          [task[h] EXCEPT !.pc = "lookup", !.site = "signup"])

SignUpSave(h) ==
    \E s \in task[h].session :
        LET t == [s EXCEPT !.user = task[h].user] IN
        Write(h, "signup_save", RowOf(t),
              [task[h] EXCEPT !.pc = "signup_put", !.session = {t}])

SignUpPut(h) == Put(h, "signup_put", Back(h))
-----------------------------------------------------------------------------
(* Answering it *)

NumberSave(h) ==
    \E s \in task[h].session :
        Write(h, "number_save", RowOf(Numbered(s)),
              [task[h] EXCEPT
                  !.pc = "number_put",
                  !.session = {Numbered(s)},
                  !.number = {[seq |-> Numbered(s).sseq, ctr |-> s.mctr]}])

NumberPut(h) ==
    Put(h, "number_put", [task[h] EXCEPT !.pc = "number_state"])

NumberState(h) ==
    \E s \in task[h].session :
        Write(h, "number_state", SetSendState(db, s.sseq, s.mctr),
              [task[h] EXCEPT !.pc = "encrypt", !.session = {}])

(* The clone of crypto taken when the request was accepted seals the       *)
(* answer.                                                                 *)
Encrypt(h) ==
    \E f \in task[h].frame, c \in task[h].crypto, n \in task[h].number :
        Local(h, "encrypt",
              [task[h] EXCEPT
                  !.pc = "lookup",
                  !.site = "seal",
                  !.crypto = {[c EXCEPT !.send = @ + 1]},
                  !.answer = {[msg |-> now * CtrBase + n.ctr, seq |-> n.seq,
                               for |-> f.msg, nonce |-> c.send]}])

SealCounters(h) ==
    \E s \in task[h].session, c \in task[h].crypto :
        Write(h, "seal_counters", SetCounters(db, c.send, c.recv),
              [task[h] EXCEPT !.pc = "seal_save", !.session = {Sealed(s, c)}])

SealSave(h) ==
    \E s \in task[h].session :
        Write(h, "seal_save", RowOf(s), [task[h] EXCEPT !.pc = "seal_put"])

SealPut(h) ==
    Put(h, "seal_put", [task[h] EXCEPT !.pc = "send", !.session = {}])

Send(h) ==
    /\ \E a \in task[h].answer :
          /\ Go(h, "send", [At("recv") EXCEPT !.told = {a.seq}])
          /\ sent' = Append(sent, a)
    /\ UNCHANGED <<server, outside, executed>>

SendFails(h) == Local(h, "send", At("closed"))

(* An SQL statement that writes the row fails: `?` leaves handle_client.   *)
WriteFails(h) ==
    /\ "write_fault" \in Disturbances
    /\ task[h].pc \in Writing
    /\ task' = [task EXCEPT ![h] = At("closed")]
    /\ failed' = TRUE
    /\ UNCHANGED <<server, now, users, history>>
-----------------------------------------------------------------------------
(* The rest of the process, and the specification *)

(* Sessions served by other handlers fill the LRU.                         *)
Evict ==
    /\ "evict" \in Disturbances
    /\ cache # {}
    /\ cache' = {}
    /\ UNCHANGED <<task, db, recent, outside, history>>

(* The process dies and is started again: only the row survives.           *)
Crash ==
    /\ "crash" \in Disturbances
    /\ task' = [h \in Handlers |-> At("closed")]
    /\ cache' = {}
    /\ recent' = [r \in Refs |-> <<>>]
    /\ UNCHANGED <<db, outside, history>>

Tick ==
    /\ now < MaxTime
    /\ now' = now + 1
    /\ UNCHANGED <<task, server, users, failed, history>>

(* SystemTime is not monotonic.                                            *)
ClockBack ==
    /\ "clock_back" \in Disturbances
    /\ now' \in 0..(now - 1)
    /\ UNCHANGED <<task, server, users, failed, history>>

(* What a handler does by itself once it has a frame.                      *)
Step(h) ==
    \/ LookupHit(h) \/ LookupMiss(h) \/ LookupRead(h) \/ LookupFill(h)
    \/ LookupFails(h)
    \/ Reject(h) \/ RejectLate(h) \/ Accept(h)
    \/ AcceptRecv(h) \/ AcceptCounters(h) \/ AcceptSave(h) \/ AcceptPut(h)
    \/ Handle(h)
    \/ SignUpUser(h) \/ SignUpSave(h) \/ SignUpPut(h)
    \/ NumberSave(h) \/ NumberPut(h) \/ NumberState(h)
    \/ Encrypt(h)
    \/ SealCounters(h) \/ SealSave(h) \/ SealPut(h)
    \/ Send(h) \/ SendFails(h)
    \/ WriteFails(h)

Next ==
    \/ \E h \in Handlers : Connect(h) \/ HangUp(h) \/ Receive(h) \/ Step(h)
    \/ Evict \/ Crash \/ Tick \/ ClockBack

(* A handler runs on a thread of its own (spawn_blocking).                 *)
Fairness == \A h \in Handlers : WF_vars(Step(h))

Spec == Init /\ [][Next]_vars /\ Fairness
-----------------------------------------------------------------------------
(* Properties *)

Increasing(q) == \A i, j \in DOMAIN q : i < j => q[i] < q[j]

Idle == \A h \in Handlers : task[h].pc \in {"closed", "recv"}

(* At most one connection of the session is being served.                  *)
OneAtATime == \A g, h \in Handlers : Opened(g) /\ Opened(h) => g = h

Lone(S) == \A x, y \in S : x = y

(* Every variable keeps its type; an optional value has at most one        *)
(* element; recent_msg_ids never outgrows its LRU.                         *)
TypeOK ==
    /\ task \in [Handlers -> Task]
    /\ cache \in SUBSET Session
    /\ db \in Row
    /\ recent \in [Refs -> Seq(MsgIds)]
    /\ now \in Nat
    /\ users \in Nat
    /\ failed \in BOOLEAN
    /\ executed \in Seq(MsgIds)
    /\ sent \in Seq(Answer)
    /\ Lone(cache)
    /\ \A h \in Handlers : Lone(task[h].session) /\ Lone(task[h].row)
    /\ \A r \in Refs : Len(recent[r]) <= RecentCap

(* server.rs:188: requests are executed in the order of their msg_ids,     *)
(* and so at most once, also across evictions and restarts that empty      *)
(* recent_msg_ids.                                                         *)
ExecutedInOrder == Increasing(executed)

(* session_crypto.rs:47-48, server.rs:272-280: the counter part of the     *)
(* nonce of an answer is above that of every earlier answer, also when the *)
(* session was evicted or the process restarted between the two.           *)
NonceCounterGrows ==
    \A i, j \in DOMAIN sent : i < j => sent[i].nonce < sent[j].nonce

(* session_crypto.rs:47-48: no two answers of the session carry the same   *)
(* counter in their nonces.                                                *)
NonceCounterUnique ==
    \A i, j \in DOMAIN sent : sent[i].nonce = sent[j].nonce => i = j

(* session.rs:492-501 (client): the answers that go out on one connection  *)
(* carry consecutive seq_nos, as recv_tl demands, though other sessions    *)
(* may push the entry out between any two of them.  Nothing is said of two *)
(* connections: a number reserved for an answer that was never sent leaves *)
(* a gap between the last answer of one and the first of the next.         *)
AnswersConsecutive ==
    [][sent' # sent =>
         \A h \in Handlers : task'[h] # task[h] =>
            \A p \in task[h].told, q \in task'[h].told : q = p + 1]_vars

(* session_cache.rs:81-104: what the cache holds is on disk.  A handler    *)
(* may die, or the entry be evicted, at any point and no number or counter *)
(* that the cache has handed out is handed out again.                      *)
WriteAhead ==
    \A s \in cache : /\ s.last <= db.last
                     /\ s.sctr <= db.sctr /\ s.csend <= db.sctr
                     /\ s.sseq <= db.sseq /\ s.mctr <= db.mctr

(* session_cache.rs:59-76: get_session may build the entry anew from the   *)
(* row.  At any moment the rebuilt entry refuses every request that has    *)
(* been executed; and while no handler is in the middle of a frame and no  *)
(* write has failed, its fields are those of the entry it replaces, but    *)
(* for the receive counter of the crypto context, which does not come back *)
(* ahead.  The list of recent msg_ids does not come back at all: a frame   *)
(* that was refused for its seq_no or its time (server.rs:204-217), and is *)
(* in the list, is refused again as long as the entry is cached and may be *)
(* accepted once it has been rebuilt.                                      *)
RebuiltAsCached ==
    /\ \A i \in DOMAIN executed : executed[i] <= db.last
    /\ ~failed /\ Idle =>
           \A s \in cache :
              /\ [Load(db, s.rec) EXCEPT !.crecv = s.crecv] = s
              /\ Load(db, s.rec).crecv <= s.crecv

(* The row only moves forward: no msg_id, seq_no, counter or user that was *)
(* stored is ever replaced by an older one, though server.rs:222-224 and   *)
(* 248-280 and handlers.rs:393-399 write it from clones.  One column goes  *)
(* back in one place: recv_counter, which line 223 has set from the crypto *)
(* context and the save of line 224 sets from the older field.             *)
RowMovesForward ==
    [][~failed' =>
         /\ db.user <= db'.user
         /\ db.last <= db'.last /\ db.rseq <= db'.rseq
         /\ db.sctr <= db'.sctr
         /\ db.sseq <= db'.sseq /\ db.mctr <= db'.mctr
         /\ \/ db.rctr <= db'.rctr
            \/ \E h \in Handlers : /\ task[h].pc = "accept_save"
                                  /\ task'[h].pc = "accept_put"]_vars

(* server.rs:127-297: a handler that has a frame returns to recv or ends,  *)
(* also where the session cannot be read.  (With which numbers it answers  *)
(* then is not said here: the comment at LookupFails says what the code    *)
(* does.)                                                                  *)
FramesSettle ==
    \A h \in Handlers :
        task[h].pc \notin {"recv", "closed"} ~> task[h].pc \in {"recv", "closed"}

(* An accepted request with a reply is answered unless its connection ends.*)
RepliesArrive ==
    \A h \in Handlers, m \in MsgIds :
        (\E f \in task[h].frame : task[h].pc = "handle" /\ f.kind = "reply"
                                  /\ f.msg = m)
        ~> \/ task[h].pc = "closed"
           \/ \E i \in DOMAIN sent : sent[i].for = m

Ledger == INSTANCE SessionLedger WITH executed <- executed, sent <- sent
LedgerSpec == Ledger!Spec
=============================================================================
