------------------------ MODULE SessionServerProofs ------------------------
(***************************************************************************)
(* Theorems about SessionServer, for any number of handlers and any set of *)
(* msg_ids, seq_nos and disturbances.                                      *)
(***************************************************************************)
EXTENDS SessionServer, FiniteSetTheorems, SequenceTheorems, TLAPS

-----------------------------------------------------------------------------
(* The data operators keep their types. *)

(* Zero names an Arc.                                                      *)
LEMMA ZeroIsRef == 0 \in Refs
  BY HandlersAssumption, FS_CardinalityType DEF Refs

(* A session built from a row is one.                                      *)
LEMMA LoadType ==
  ASSUME NEW row \in Row, NEW ref \in Refs
  PROVE  Load(row, ref) \in Session
  BY DEF Load, Row, Session

(* The columns of a session make a row.                                    *)
LEMMA RowOfType ==
  ASSUME NEW s \in Session
  PROVE  RowOf(s) \in Row
  BY DEF RowOf, Row, Session

(* Each UPDATE leaves a row.                                               *)
LEMMA UpdateTypes ==
  ASSUME NEW row \in Row, NEW i \in Int, NEW j \in Int,
         NEW m \in Nat, NEW n \in Nat
  PROVE  /\ SetRecv(row, i, j) \in Row
         /\ SetCounters(row, m, n) \in Row
         /\ SetSendState(row, i, n) \in Row
         /\ SetUser(row, n) \in Row
  BY DEF SetRecv, SetCounters, SetSendState, SetUser, Row

(* What a frame carries.                                                   *)
LEMMA FrameType ==
  ASSUME NEW f \in Frame
  PROVE  /\ f.msg \in MsgIds /\ f.msg \in Nat \ {0} /\ f.msg \in Int
         /\ f.seq \in Int
<1>1. f.msg \in MsgIds /\ f.seq \in SeqNos
  BY DEF Frame
<1>2. f.msg \in Nat \ {0} /\ f.seq \in Nat
  BY <1>1, FramesAssumption, Zenon
<1>. QED  BY <1>1, <1>2

(* Accepting a frame leaves a session.                                     *)
LEMMA AcceptedType ==
  ASSUME NEW s \in Session, NEW f \in Frame
  PROVE  AcceptedBy(s, f) \in Session
<1>. DEFINE t == [s EXCEPT !.rseq = f.seq, !.last = f.msg]
<1>1. s.crecv + 1 \in Nat
  BY DEF Session
<1>2. t \in Session
  BY FrameType DEF Session
<1>3. [t EXCEPT !.crecv = s.crecv + 1] \in Session
  <2>. HIDE DEF t
  <2>. QED  BY <1>1, <1>2 DEF Session
<1>. QED  BY <1>3 DEF AcceptedBy

(* So do signing up, numbering an answer and sealing it.                   *)
LEMMA SessionTypes ==
  ASSUME NEW s \in Session
  PROVE  /\ \A u \in Nat : [s EXCEPT !.user = u] \in Session
         /\ Numbered(s) \in Session
         /\ \A c \in Crypto : Sealed(s, c) \in Session
<1>1. ASSUME NEW u \in Nat PROVE [s EXCEPT !.user = u] \in Session
  BY DEF Session
<1>2. Numbered(s) \in Session
  <2>1. s.sseq + 1 \in Int /\ s.mctr + 1 \in Nat
    BY DEF Session
  <2>2. \A i \in Int, n \in Nat :
           [s EXCEPT !.sseq = i, !.mctr = n] \in Session
    BY DEF Session
  <2>. QED  BY <2>1, <2>2 DEF Numbered
<1>3. ASSUME NEW c \in Crypto PROVE Sealed(s, c) \in Session
  <2>. DEFINE t == [s EXCEPT !.csend = c.send, !.crecv = c.recv]
  <2>1. t \in Session /\ c.send \in Nat /\ c.recv \in Nat
    BY DEF Session, Crypto
  <2>2. [t EXCEPT !.sctr = c.send, !.rctr = c.recv] \in Session
    <3>. HIDE DEF t
    <3>. QED  BY <2>1 DEF Session
  <2>. QED  BY <2>2 DEF Sealed
<1>. QED  BY <1>1, <1>2, <1>3

(* The types of a task's fields.                                           *)
LEMMA TaskFields ==
  ASSUME NEW t \in Task
  PROVE  /\ t.frame \subseteq Frame /\ t.row \subseteq Row
         /\ t.session \subseteq Session /\ t.crypto \subseteq Crypto
         /\ t.number \subseteq Number /\ t.answer \subseteq Answer
         /\ t.told \subseteq Int /\ t.user \in Nat
         /\ t.pc \in Labels /\ t.site \in Sites
  BY DEF Task

(* A handler with nothing in its hands is a task.                          *)
LEMMA AtType ==
  ASSUME NEW l \in Labels, NEW told \in SUBSET Int
  PROVE  /\ At(l) \in Task
         /\ [At(l) EXCEPT !.told = told] \in Task
  BY DEF At, Task, Sites

(* recent_msg_ids stays within its capacity.                               *)
LEMMA RememberType ==
  ASSUME NEW q \in Seq(MsgIds), Len(q) <= RecentCap, NEW m \in MsgIds
  PROVE  /\ Remember(q, m) \in Seq(MsgIds)
         /\ Len(Remember(q, m)) <= RecentCap
<1>1. CASE Len(q) < RecentCap
  BY <1>1, BoundsAssumption DEF Remember
<1>2. CASE ~(Len(q) < RecentCap)
  <2>1. q # <<>> /\ Len(q) = RecentCap
    BY <1>2, BoundsAssumption
  <2>2. Tail(q) \in Seq(MsgIds) /\ Len(Tail(q)) = Len(q) - 1
    BY <2>1
  <2>. QED  BY <1>2, <2>1, <2>2, BoundsAssumption DEF Remember
<1>. QED  BY <1>1, <1>2
(* The labels and sites the actions use.                                   *)
LEMMA AfterType ==
  ASSUME NEW site \in Sites
  PROVE  After(site) \in Labels
  BY DEF After, Sites, Labels

-----------------------------------------------------------------------------
(* Type correctness *)

(* What TypeOK says of the task of a handler.                              *)
GoodTask(t) == t \in Task /\ Lone(t.session) /\ Lone(t.row)

(* A step to a task keeps the tasks typed.                                 *)
LEMMA GoType ==
  ASSUME TypeOK, NEW h \in Handlers, NEW l, NEW t, GoodTask(t), Go(h, l, t)
  PROVE  /\ task' \in [Handlers -> Task]
         /\ \A g \in Handlers : Lone(task'[g].session) /\ Lone(task'[g].row)
<1>1. task \in [Handlers -> Task] /\ task' = [task EXCEPT ![h] = t]
  BY DEF TypeOK, Go
<1>2. \A g \in Handlers : task'[g] = IF g = h THEN t ELSE task[g]
  BY <1>1
<1>. QED  BY <1>1, <1>2 DEF TypeOK, GoodTask

(* A step on the locals only keeps the types.                              *)
LEMMA LocalType ==
  ASSUME TypeOK, NEW h \in Handlers, NEW l, NEW t, GoodTask(t), Local(h, l, t)
  PROVE  TypeOK'
<1>1. Go(h, l, t) /\ UNCHANGED <<cache, db, recent, now, users, failed,
                                executed, sent>>
  BY DEF Local, server, outside, history
<1>. QED  BY <1>1, GoType DEF TypeOK

(* So does one that writes a row.                                          *)
LEMMA WriteType ==
  ASSUME TypeOK, NEW h \in Handlers, NEW l, NEW row \in Row, NEW t,
         GoodTask(t), Write(h, l, row, t)
  PROVE  TypeOK'
<1>1. Go(h, l, t) /\ db' = row
      /\ UNCHANGED <<cache, recent, now, users, failed, executed, sent>>
  BY DEF Write, server, outside, history
<1>. QED  BY <1>1, GoType DEF TypeOK

(* And one that puts the handler's session into the cache.                 *)
LEMMA PutType ==
  ASSUME TypeOK, NEW h \in Handlers, NEW l, NEW t, GoodTask(t), Put(h, l, t)
  PROVE  TypeOK'
<1>1. Go(h, l, t) /\ cache' = task[h].session
      /\ UNCHANGED <<db, recent, now, users, failed, executed, sent>>
  BY DEF Put, server, outside, history
<1>2. task[h].session \subseteq Session /\ Lone(task[h].session)
  BY TaskFields DEF TypeOK
<1>. QED  BY <1>1, <1>2, GoType DEF TypeOK

(* The updates of a task that the actions make.                            *)
LEMMA TaskUpdates ==
  ASSUME NEW t, GoodTask(t)
  PROVE  /\ \A l \in Labels :
               GoodTask([t EXCEPT !.pc = l])
         /\ \A l \in Labels, site \in Sites :
               GoodTask([t EXCEPT !.pc = l, !.site = site])
         /\ \A l \in Labels, site \in Sites, f \in Frame :
               GoodTask([t EXCEPT !.pc = l, !.site = site, !.frame = {f}])
         /\ \A l \in Labels, r \in Row :
               GoodTask([t EXCEPT !.pc = l, !.row = {r}])
         /\ \A l \in Labels :
               GoodTask([t EXCEPT !.pc = l, !.session = {}])
         /\ \A l \in Labels, s \in Session :
               GoodTask([t EXCEPT !.pc = l, !.session = {s}])
         /\ \A l \in Labels, c \in Crypto :
               GoodTask([t EXCEPT !.pc = l, !.session = {}, !.crypto = {c}])
         /\ \A l \in Labels, s \in Session, n \in Number :
               GoodTask([t EXCEPT !.pc = l, !.session = {s}, !.number = {n}])
         /\ \A l \in Labels, u \in Nat :
               GoodTask([t EXCEPT !.pc = l, !.user = u])
         /\ \A l \in Labels, n \in Number :
               GoodTask([t EXCEPT !.pc = l, !.number = {n}])
         /\ \A l \in Labels, site \in Sites, c \in Crypto, a \in Answer :
               GoodTask([t EXCEPT !.pc = l, !.site = site, !.crypto = {c},
                         !.answer = {a}])
         /\ \A s \in Session : GoodTask(Returned(t, s))
<1>. USE DEF GoodTask, Task, Lone
<1>1. \A l \in Labels :
        GoodTask([t EXCEPT !.pc = l])
  OBVIOUS
<1>2. \A l \in Labels, site \in Sites :
        GoodTask([t EXCEPT !.pc = l, !.site = site])
  OBVIOUS
<1>3. \A l \in Labels, site \in Sites, f \in Frame :
        GoodTask([t EXCEPT !.pc = l, !.site = site, !.frame = {f}])
  OBVIOUS
<1>4. \A l \in Labels, r \in Row :
        GoodTask([t EXCEPT !.pc = l, !.row = {r}])
  OBVIOUS
<1>5. \A l \in Labels :
        GoodTask([t EXCEPT !.pc = l, !.session = {}])
  OBVIOUS
<1>6. \A l \in Labels, s \in Session :
        GoodTask([t EXCEPT !.pc = l, !.session = {s}])
  OBVIOUS
<1>7. \A l \in Labels, c \in Crypto :
        GoodTask([t EXCEPT !.pc = l, !.session = {}, !.crypto = {c}])
  OBVIOUS
<1>8. \A l \in Labels, s \in Session, n \in Number :
        GoodTask([t EXCEPT !.pc = l, !.session = {s}, !.number = {n}])
  OBVIOUS
<1>9. \A l \in Labels, u \in Nat :
        GoodTask([t EXCEPT !.pc = l, !.user = u])
  OBVIOUS
<1>10. \A l \in Labels, n \in Number :
        GoodTask([t EXCEPT !.pc = l, !.number = {n}])
  OBVIOUS
<1>11. \A l \in Labels, site \in Sites, c \in Crypto, a \in Answer :
        GoodTask([t EXCEPT !.pc = l, !.site = site, !.crypto = {c},
                         !.answer = {a}])
  <2>. TAKE l \in Labels, site \in Sites, c \in Crypto, a \in Answer
  <2>. DEFINE u == [t EXCEPT !.pc = l, !.site = site]
  <2>1. GoodTask(u)
    BY <1>2
  <2>2. GoodTask([u EXCEPT !.crypto = {c}, !.answer = {a}])
    <3>. HIDE DEF u
    <3>. QED  BY <2>1
  <2>. QED  BY <2>2
<1>12. \A s \in Session : GoodTask(Returned(t, s))
  BY AfterType DEF Returned, Sites
<1>. QED  BY <1>1, <1>2, <1>3, <1>4, <1>5, <1>6, <1>7, <1>8, <1>9, <1>10, <1>11,
             <1>12

(* What TypeOK gives an action of a handler.                               *)
LEMMA Typed ==
  ASSUME TypeOK, NEW h \in Handlers
  PROVE  /\ GoodTask(task[h])
         /\ \A s \in task[h].session : s \in Session
         /\ \A f \in task[h].frame : f \in Frame
         /\ \A c \in task[h].crypto : c \in Crypto
         /\ \A r \in task[h].row : r \in Row
         /\ \A n \in task[h].number : n \in Number
         /\ \A a \in task[h].answer : a \in Answer
         /\ \A s \in cache : s \in Session
         /\ db \in Row
<1>1. task[h] \in Task /\ Lone(task[h].session) /\ Lone(task[h].row)
  BY DEF TypeOK
<1>2. cache \subseteq Session /\ db \in Row
  BY DEF TypeOK
<1>. QED  BY <1>1, <1>2, TaskFields DEF GoodTask

(* A handler whose locals are gone.                                        *)
LEMMA BackType ==
  ASSUME TypeOK, NEW h \in Handlers
  PROVE  /\ \A l \in Labels : GoodTask(At(l))
         /\ \A l \in Labels, told \in SUBSET Int :
               GoodTask([At(l) EXCEPT !.told = told])
         /\ GoodTask(Back(h))
<1>1. \A l \in Labels, told \in SUBSET Int :
        GoodTask([At(l) EXCEPT !.told = told])
  BY AtType DEF GoodTask, At, Lone
<1>2. task[h].told \subseteq Int /\ "recv" \in Labels
  BY Typed, TaskFields DEF GoodTask, Labels
<1>3. \A l \in Labels : GoodTask(At(l))
  BY AtType DEF GoodTask, At, Lone
<1>. QED  BY <1>1, <1>2, <1>3 DEF Back

(* The initial state is typed.                                             *)
LEMMA InitType == Init => TypeOK
<1>. SUFFICES ASSUME Init PROVE TypeOK
  OBVIOUS
<1>1. FreshRow \in Row
  BY DEF FreshRow, Row
<1>2. cache \in SUBSET Session /\ Lone(cache)
  BY <1>1, LoadType, ZeroIsRef DEF Init, Lone
<1>3. At("closed") \in Task /\ Lone(At("closed").session)
      /\ Lone(At("closed").row)
  BY AtType DEF At, Lone, Labels, Task, Sites
<1>4. task \in [Handlers -> Task]
  BY <1>3 DEF Init
<1>5. \A h \in Handlers : task[h] = At("closed")
  BY DEF Init
<1>6. \A h \in Handlers : Lone(task[h].session) /\ Lone(task[h].row)
  BY <1>3, <1>5
<1>7. /\ recent \in [Refs -> Seq(MsgIds)]
      /\ \A r \in Refs : Len(recent[r]) <= RecentCap
  BY BoundsAssumption DEF Init
<1>8. /\ now = 0 /\ users = 0 /\ failed = FALSE
      /\ executed = <<>> /\ sent = <<>> /\ db = FreshRow
  BY DEF Init
<1>9. executed \in Seq(MsgIds) /\ sent \in Seq(Answer)
  BY <1>8
<1>. QED  BY <1>1, <1>2, <1>4, <1>6, <1>7, <1>8, <1>9 DEF TypeOK

(* get_session keeps the types.                                            *)
LEMMA LookupType ==
  ASSUME TypeOK, NEW h \in Handlers,
         \/ LookupHit(h) \/ LookupMiss(h) \/ LookupRead(h) \/ LookupFill(h)
         \/ LookupFails(h)
  PROVE  TypeOK'
<1>0. /\ GoodTask(task[h]) /\ \A s \in cache : s \in Session
      /\ \A r \in task[h].row : r \in Row
      /\ db \in Row
  BY Typed
<1>1. CASE LookupHit(h)
  <2>1. PICK s \in cache : Local(h, "lookup", Returned(task[h], s))
    BY <1>1 DEF LookupHit
  <2>2. GoodTask(Returned(task[h], s))
    BY <1>0, TaskUpdates
  <2>. QED  BY <2>1, <2>2, LocalType
<1>2. CASE LookupMiss(h)
  <2>1. GoodTask([task[h] EXCEPT !.pc = "lookup_read"])
    BY <1>0, TaskUpdates DEF Labels
  <2>. QED  BY <1>2, <2>1, LocalType DEF LookupMiss
<1>3. CASE LookupRead(h)
  <2>1. GoodTask([task[h] EXCEPT !.pc = "lookup_fill", !.row = {db}])
    BY <1>0, TaskUpdates DEF Labels
  <2>. QED  BY <1>3, <2>1, LocalType DEF LookupRead
<1>4. CASE LookupFill(h)
  <2>. DEFINE ref == CHOOSE r \in Refs \ LiveRefs : TRUE
  <2>1. ref \in Refs
    BY <1>4 DEF LookupFill
  <2>2. PICK row \in task[h].row :
           /\ Go(h, "lookup_fill", Returned(task[h], Load(row, ref)))
           /\ cache' = {Load(row, ref)}
           /\ recent' = [recent EXCEPT ![ref] = <<>>]
    BY <1>4 DEF LookupFill
  <2>. HIDE DEF ref
  <2>3. Load(row, ref) \in Session
    BY <1>0, <2>1, LoadType
  <2>4. UNCHANGED <<db, now, users, failed, executed, sent>>
    BY <1>4 DEF LookupFill, outside, history
  <2>5. cache' \in SUBSET Session /\ Lone(cache')
    BY <2>2, <2>3 DEF Lone
  <2>6. /\ recent' \in [Refs -> Seq(MsgIds)]
        /\ \A r \in Refs : Len(recent'[r]) <= RecentCap
    BY <2>1, <2>2, BoundsAssumption DEF TypeOK
  <2>7. GoodTask(Returned(task[h], Load(row, ref)))
    BY <1>0, <2>3, TaskUpdates
  <2>8. /\ task' \in [Handlers -> Task]
        /\ \A g \in Handlers : Lone(task'[g].session) /\ Lone(task'[g].row)
    BY <2>2, <2>7, GoType
  <2>. QED  BY <2>4, <2>5, <2>6, <2>8 DEF TypeOK
<1>5. CASE LookupFails(h)
  <2>. DEFINE n == [task[h] EXCEPT !.pc = "encrypt",
                                   !.number = {[seq |-> -1, ctr |-> 0]}]
              e == [task[h] EXCEPT !.pc = "send"]
  <2>1. PICK t \in {Back(h), n, e, At("closed")} : Local(h, "lookup_read", t)
    BY <1>5 DEF LookupFails
  <2>2. [seq |-> -1, ctr |-> 0] \in Number
    BY DEF Number
  <2>3. GoodTask(n) /\ GoodTask(e)
    BY <1>0, <2>2, TaskUpdates DEF Labels
  <2>4. GoodTask(Back(h)) /\ GoodTask(At("closed"))
    BY BackType DEF Labels
  <2>. HIDE DEF n, e
  <2>. QED  BY <2>1, <2>3, <2>4, LocalType
<1>. QED  BY <1>1, <1>2, <1>3, <1>4, <1>5

(* Checking a frame and recording it keeps the types.                      *)
LEMMA AcceptType ==
  ASSUME TypeOK, NEW h \in Handlers,
         \/ Reject(h) \/ RejectLate(h) \/ Accept(h)
         \/ AcceptRecv(h) \/ AcceptCounters(h) \/ AcceptSave(h) \/ AcceptPut(h)
  PROVE  TypeOK'
<1>0. /\ GoodTask(task[h]) /\ \A s \in task[h].session : s \in Session
      /\ \A f \in task[h].frame : f \in Frame
      /\ db \in Row
  BY Typed
<1>1. CASE Reject(h)
  <2>1. PICK t \in {At("closed"), Back(h)} : Local(h, "check", t)
    BY <1>1 DEF Reject
  <2>2. GoodTask(t)
    BY <2>1, BackType DEF Labels
  <2>. QED  BY <2>1, <2>2, LocalType
<1>2. ASSUME NEW f \in task[h].frame, NEW s \in task[h].session,
             recent' = [recent EXCEPT ![s.rec] = Remember(@, f.msg)]
      PROVE  /\ recent' \in [Refs -> Seq(MsgIds)]
             /\ \A r \in Refs : Len(recent'[r]) <= RecentCap
  <2>1. s \in Session /\ f \in Frame
    BY <1>0
  <2>2. s.rec \in Refs /\ f.msg \in MsgIds
    BY <2>1, FrameType DEF Session
  <2>3. recent \in [Refs -> Seq(MsgIds)]
        /\ \A r \in Refs : Len(recent[r]) <= RecentCap
    BY DEF TypeOK
  <2>4. Remember(recent[s.rec], f.msg) \in Seq(MsgIds)
        /\ Len(Remember(recent[s.rec], f.msg)) <= RecentCap
    BY <2>2, <2>3, RememberType
  <2>. QED  BY <1>2, <2>2, <2>3, <2>4
<1>3. CASE RejectLate(h)
  <2>1. PICK f \in task[h].frame, s \in task[h].session :
           /\ Go(h, "check", Back(h))
           /\ recent' = [recent EXCEPT ![s.rec] = Remember(@, f.msg)]
    BY <1>3 DEF RejectLate
  <2>2. /\ task' \in [Handlers -> Task]
        /\ \A g \in Handlers : Lone(task'[g].session) /\ Lone(task'[g].row)
    BY <2>1, BackType, GoType
  <2>3. UNCHANGED <<cache, db, now, users, failed, executed, sent>>
    BY <1>3 DEF RejectLate, outside, history
  <2>4. /\ recent' \in [Refs -> Seq(MsgIds)]
        /\ \A r \in Refs : Len(recent'[r]) <= RecentCap
    BY <2>1, <1>2
  <2>. QED  BY <2>2, <2>3, <2>4 DEF TypeOK
<1>4. CASE Accept(h)
  <2>1. PICK f \in task[h].frame, s \in task[h].session :
           /\ Go(h, "check", [task[h] EXCEPT !.pc = "accept_recv",
                                             !.session = {AcceptedBy(s, f)}])
           /\ recent' = [recent EXCEPT ![s.rec] = Remember(@, f.msg)]
    BY <1>4 DEF Accept
  <2>2. AcceptedBy(s, f) \in Session
    BY <1>0, AcceptedType
  <2>3. GoodTask([task[h] EXCEPT !.pc = "accept_recv",
                                 !.session = {AcceptedBy(s, f)}])
    BY <1>0, <2>2, TaskUpdates DEF Labels
  <2>4. /\ task' \in [Handlers -> Task]
        /\ \A g \in Handlers : Lone(task'[g].session) /\ Lone(task'[g].row)
    BY <2>1, <2>3, GoType
  <2>5. UNCHANGED <<cache, db, now, users, failed, executed, sent>>
    BY <1>4 DEF Accept, outside, history
  <2>6. /\ recent' \in [Refs -> Seq(MsgIds)]
        /\ \A r \in Refs : Len(recent'[r]) <= RecentCap
    BY <2>1, <1>2
  <2>. QED  BY <2>4, <2>5, <2>6 DEF TypeOK
<1>5. CASE AcceptRecv(h)
  <2>1. PICK s \in task[h].session :
           Write(h, "accept_recv", SetRecv(db, s.rseq, s.last),
                 [task[h] EXCEPT !.pc = "accept_counters"])
    BY <1>5 DEF AcceptRecv
  <2>2. s.rseq \in Int /\ s.last \in Int
    BY <1>0 DEF Session
  <2>3. SetRecv(db, s.rseq, s.last) \in Row
    BY <1>0, <2>2, UpdateTypes
  <2>4. GoodTask([task[h] EXCEPT !.pc = "accept_counters"])
    BY <1>0, TaskUpdates DEF Labels
  <2>. QED  BY <2>1, <2>3, <2>4, WriteType
<1>6. CASE AcceptCounters(h)
  <2>1. PICK s \in task[h].session :
           Write(h, "accept_counters", SetCounters(db, s.csend, s.crecv),
                 [task[h] EXCEPT !.pc = "accept_save"])
    BY <1>6 DEF AcceptCounters
  <2>2. s.csend \in Nat /\ s.crecv \in Nat
    BY <1>0 DEF Session
  <2>3. SetCounters(db, s.csend, s.crecv) \in Row
    BY <1>0, <2>2, UpdateTypes
  <2>4. GoodTask([task[h] EXCEPT !.pc = "accept_save"])
    BY <1>0, TaskUpdates DEF Labels
  <2>. QED  BY <2>1, <2>3, <2>4, WriteType
<1>7. CASE AcceptSave(h)
  <2>1. PICK s \in task[h].session :
           Write(h, "accept_save", RowOf(s), [task[h] EXCEPT !.pc = "accept_put"])
    BY <1>7 DEF AcceptSave
  <2>2. RowOf(s) \in Row
    BY <1>0, RowOfType
  <2>3. GoodTask([task[h] EXCEPT !.pc = "accept_put"])
    BY <1>0, TaskUpdates DEF Labels
  <2>. QED  BY <2>1, <2>2, <2>3, WriteType
<1>8. CASE AcceptPut(h)
  <2>1. PICK s \in task[h].session :
           Put(h, "accept_put",
               [task[h] EXCEPT !.pc = "handle", !.session = {},
                               !.crypto = {[send |-> s.csend, recv |-> s.crecv]}])
    BY <1>8 DEF AcceptPut
  <2>2. [send |-> s.csend, recv |-> s.crecv] \in Crypto
    BY <1>0 DEF Session, Crypto
  <2>3. GoodTask([task[h] EXCEPT
                     !.pc = "handle", !.session = {},
                     !.crypto = {[send |-> s.csend, recv |-> s.crecv]}])
    BY <1>0, <2>2, TaskUpdates DEF Labels
  <2>. QED  BY <2>1, <2>3, PutType
<1>. QED  BY <1>1, <1>3, <1>4, <1>5, <1>6, <1>7, <1>8

(* The types of what a request and its answer carry.                       *)
LEMMA RequestType ==
  ASSUME TypeOK, NEW h \in Handlers,
         \/ Handle(h)
         \/ SignUpUser(h) \/ SignUpSave(h) \/ SignUpPut(h)
         \/ Send(h) \/ SendFails(h) \/ WriteFails(h)
  PROVE  TypeOK'
<1>0. /\ GoodTask(task[h]) /\ \A s \in task[h].session : s \in Session
      /\ \A f \in task[h].frame : f \in Frame
      /\ \A a \in task[h].answer : a \in Answer
      /\ db \in Row /\ task[h].user \in Nat
  BY Typed, TaskFields DEF GoodTask
<1>1. GoodTask(Back(h)) /\ GoodTask(At("closed"))
  BY BackType DEF Labels
<1>2. CASE Handle(h)
  <2>. DEFINE r == [task[h] EXCEPT !.pc = "lookup", !.site = "number"]
              u == [task[h] EXCEPT !.pc = "signup_user", !.user = users + 1]
  <2>1. PICK f \in task[h].frame, t \in {r, u, At("closed"), Back(h)} :
           /\ Go(h, "handle", t)
           /\ executed' = IF f.kind = "unparsed" THEN executed
                          ELSE Append(executed, f.msg)
           /\ users' = IF f.kind = "signup" THEN users + 1 ELSE users
    BY <1>2 DEF Handle
  <2>2. users \in Nat /\ executed \in Seq(MsgIds)
    BY DEF TypeOK
  <2>3. GoodTask(r) /\ GoodTask(u)
    <3>1. /\ "lookup" \in Labels /\ "signup_user" \in Labels
          /\ "number" \in Sites /\ users + 1 \in Nat
      BY <2>2 DEF Labels, Sites
    <3>2. GoodTask(r)
      BY <1>0, <3>1, TaskUpdates
    <3>3. GoodTask(u)
      BY <1>0, <3>1, TaskUpdates
    <3>. QED  BY <3>2, <3>3
  <2>. HIDE DEF r, u
  <2>4. GoodTask(t)
    BY <1>1, <2>3
  <2>5. /\ task' \in [Handlers -> Task]
        /\ \A g \in Handlers : Lone(task'[g].session) /\ Lone(task'[g].row)
    BY <2>1, <2>4, GoType
  <2>6. f.msg \in MsgIds
    BY <1>0, FrameType
  <2>7. executed' \in Seq(MsgIds) /\ users' \in Nat
    BY <2>1, <2>2, <2>6
  <2>8. UNCHANGED <<cache, db, recent, now, failed, sent>>
    BY <1>2 DEF Handle, server
  <2>. QED  BY <2>5, <2>7, <2>8 DEF TypeOK
<1>3. CASE SignUpUser(h)
  <2>1. SetUser(db, task[h].user) \in Row
    BY <1>0, UpdateTypes
  <2>2. GoodTask([task[h] EXCEPT !.pc = "lookup", !.site = "signup"])
    BY <1>0, TaskUpdates DEF Labels, Sites
  <2>. QED  BY <1>3, <2>1, <2>2, WriteType DEF SignUpUser
<1>4. CASE SignUpSave(h)
  <2>1. PICK s \in task[h].session :
           Write(h, "signup_save", RowOf([s EXCEPT !.user = task[h].user]),
                 [task[h] EXCEPT
                     !.pc = "signup_put",
                     !.session = {[s EXCEPT !.user = task[h].user]}])
    BY <1>4 DEF SignUpSave
  <2>2. [s EXCEPT !.user = task[h].user] \in Session
    BY <1>0, SessionTypes
  <2>3. RowOf([s EXCEPT !.user = task[h].user]) \in Row
    BY <2>2, RowOfType
  <2>4. GoodTask([task[h] EXCEPT
                     !.pc = "signup_put",
                     !.session = {[s EXCEPT !.user = task[h].user]}])
    BY <1>0, <2>2, TaskUpdates DEF Labels
  <2>. QED  BY <2>1, <2>3, <2>4, WriteType
<1>5. CASE SignUpPut(h)
  BY <1>1, <1>5, PutType DEF SignUpPut
<1>6. CASE Send(h)
  <2>1. PICK a \in task[h].answer :
           /\ Go(h, "send", [At("recv") EXCEPT !.told = {a.seq}])
           /\ sent' = Append(sent, a)
    BY <1>6 DEF Send
  <2>2. a \in Answer
    BY <1>0
  <2>3. {a.seq} \in SUBSET Int
    BY <2>2 DEF Answer
  <2>4. GoodTask([At("recv") EXCEPT !.told = {a.seq}])
    BY <2>3, BackType DEF Labels
  <2>5. /\ task' \in [Handlers -> Task]
        /\ \A g \in Handlers : Lone(task'[g].session) /\ Lone(task'[g].row)
    BY <2>1, <2>4, GoType
  <2>6. sent' \in Seq(Answer)
    BY <2>1, <2>2 DEF TypeOK
  <2>7. UNCHANGED <<cache, db, recent, now, users, failed, executed>>
    BY <1>6 DEF Send, server, outside
  <2>. QED  BY <2>5, <2>6, <2>7 DEF TypeOK
<1>7. CASE SendFails(h)
  BY <1>1, <1>7, LocalType DEF SendFails
<1>8. CASE WriteFails(h)
  <2>1. Go(h, task[h].pc, At("closed"))
    BY <1>8 DEF WriteFails, Go
  <2>2. /\ task' \in [Handlers -> Task]
        /\ \A g \in Handlers : Lone(task'[g].session) /\ Lone(task'[g].row)
    BY <1>1, <2>1, GoType
  <2>3. UNCHANGED <<cache, db, recent, now, users, executed, sent>>
        /\ failed' = TRUE
    BY <1>8 DEF WriteFails, server, history
  <2>. QED  BY <2>2, <2>3 DEF TypeOK
<1>. QED  BY <1>2, <1>3, <1>4, <1>5, <1>6, <1>7, <1>8

(* Numbering, sealing and storing the counters keep the types.             *)
LEMMA AnswerType ==
  ASSUME TypeOK, NEW h \in Handlers,
         \/ NumberSave(h) \/ NumberPut(h) \/ NumberState(h)
         \/ Encrypt(h)
         \/ SealCounters(h) \/ SealSave(h) \/ SealPut(h)
  PROVE  TypeOK'
<1>0. /\ GoodTask(task[h]) /\ \A s \in task[h].session : s \in Session
      /\ \A f \in task[h].frame : f \in Frame
      /\ \A c \in task[h].crypto : c \in Crypto
      /\ \A n \in task[h].number : n \in Number
      /\ db \in Row
  BY Typed
<1>1. CASE NumberSave(h)
  <2>1. PICK s \in task[h].session :
           Write(h, "number_save", RowOf(Numbered(s)),
                 [task[h] EXCEPT
                     !.pc = "number_put",
                     !.session = {Numbered(s)},
                     !.number = {[seq |-> Numbered(s).sseq, ctr |-> s.mctr]}])
    BY <1>1 DEF NumberSave
  <2>2. Numbered(s) \in Session
    BY <1>0, SessionTypes
  <2>3. RowOf(Numbered(s)) \in Row
    BY <2>2, RowOfType
  <2>4. [seq |-> Numbered(s).sseq, ctr |-> s.mctr] \in Number
    BY <1>0, <2>2 DEF Session, Number
  <2>5. GoodTask([task[h] EXCEPT
                     !.pc = "number_put",
                     !.session = {Numbered(s)},
                     !.number = {[seq |-> Numbered(s).sseq, ctr |-> s.mctr]}])
    BY <1>0, <2>2, <2>4, TaskUpdates DEF Labels
  <2>. QED  BY <2>1, <2>3, <2>5, WriteType
<1>2. CASE NumberPut(h)
  <2>1. GoodTask([task[h] EXCEPT !.pc = "number_state"])
    BY <1>0, TaskUpdates DEF Labels
  <2>. QED  BY <1>2, <2>1, PutType DEF NumberPut
<1>3. CASE NumberState(h)
  <2>1. PICK s \in task[h].session :
           Write(h, "number_state", SetSendState(db, s.sseq, s.mctr),
                 [task[h] EXCEPT !.pc = "encrypt", !.session = {}])
    BY <1>3 DEF NumberState
  <2>2. s.sseq \in Int /\ s.mctr \in Nat
    BY <1>0 DEF Session
  <2>3. SetSendState(db, s.sseq, s.mctr) \in Row
    BY <1>0, <2>2, UpdateTypes
  <2>4. GoodTask([task[h] EXCEPT !.pc = "encrypt", !.session = {}])
    BY <1>0, TaskUpdates DEF Labels
  <2>. QED  BY <2>1, <2>3, <2>4, WriteType
<1>4. CASE Encrypt(h)
  <2>1. PICK f \in task[h].frame, c \in task[h].crypto,
             n \in task[h].number :
           Local(h, "encrypt",
                 [task[h] EXCEPT
                     !.pc = "lookup", !.site = "seal",
                     !.crypto = {[c EXCEPT !.send = @ + 1]},
                     !.answer = {[msg |-> now * CtrBase + n.ctr, seq |-> n.seq,
                                  for |-> f.msg, nonce |-> c.send]}])
    BY <1>4 DEF Encrypt
  <2>2. [c EXCEPT !.send = @ + 1] \in Crypto
    BY <1>0 DEF Crypto
  <2>3. now * CtrBase + n.ctr \in Int
    BY <1>0, BoundsAssumption DEF TypeOK, Number
  <2>4. n.seq \in Int /\ c.send \in Nat
    BY <1>0 DEF Number, Crypto
  <2>5. f.msg \in MsgIds
    BY <1>0, FrameType
  <2>. DEFINE k == [c EXCEPT !.send = @ + 1]
              a == [msg |-> now * CtrBase + n.ctr, seq |-> n.seq,
                    for |-> f.msg, nonce |-> c.send]
  <2>6. a \in Answer /\ k \in Crypto
    BY <2>2, <2>3, <2>4, <2>5 DEF Answer
  <2>7. "lookup" \in Labels /\ "seal" \in Sites
    BY DEF Labels, Sites
  <2>8. Local(h, "encrypt", [task[h] EXCEPT !.pc = "lookup", !.site = "seal",
                                            !.crypto = {k}, !.answer = {a}])
    BY <2>1
  <2>. HIDE DEF k, a
  <2>9. GoodTask([task[h] EXCEPT !.pc = "lookup", !.site = "seal",
                                 !.crypto = {k}, !.answer = {a}])
    BY <1>0, <2>6, <2>7, TaskUpdates
  <2>. QED  BY <2>8, <2>9, LocalType
<1>5. CASE SealCounters(h)
  <2>1. PICK s \in task[h].session, c \in task[h].crypto :
           Write(h, "seal_counters", SetCounters(db, c.send, c.recv),
                 [task[h] EXCEPT !.pc = "seal_save",
                                 !.session = {Sealed(s, c)}])
    BY <1>5 DEF SealCounters
  <2>2. Sealed(s, c) \in Session
    BY <1>0, SessionTypes
  <2>3. c.send \in Nat /\ c.recv \in Nat
    BY <1>0 DEF Crypto
  <2>4. SetCounters(db, c.send, c.recv) \in Row
    BY <1>0, <2>3, UpdateTypes
  <2>5. GoodTask([task[h] EXCEPT !.pc = "seal_save",
                                 !.session = {Sealed(s, c)}])
    BY <1>0, <2>2, TaskUpdates DEF Labels
  <2>. QED  BY <2>1, <2>4, <2>5, WriteType
<1>6. CASE SealSave(h)
  <2>1. PICK s \in task[h].session :
           Write(h, "seal_save", RowOf(s), [task[h] EXCEPT !.pc = "seal_put"])
    BY <1>6 DEF SealSave
  <2>2. RowOf(s) \in Row
    BY <1>0, RowOfType
  <2>3. GoodTask([task[h] EXCEPT !.pc = "seal_put"])
    BY <1>0, TaskUpdates DEF Labels
  <2>. QED  BY <2>1, <2>2, <2>3, WriteType
<1>7. CASE SealPut(h)
  <2>1. GoodTask([task[h] EXCEPT !.pc = "send", !.session = {}])
    BY <1>0, TaskUpdates DEF Labels
  <2>. QED  BY <1>7, <2>1, PutType DEF SealPut
<1>. QED  BY <1>1, <1>2, <1>3, <1>4, <1>5, <1>6, <1>7

(* Connections come and go, the process dies, entries are evicted.         *)
LEMMA OutsideType ==
  ASSUME TypeOK,
         \/ \E h \in Handlers : Connect(h) \/ HangUp(h) \/ Receive(h)
         \/ Evict \/ Crash \/ Tick \/ ClockBack
  PROVE  TypeOK'
<1>0. \A h \in Handlers : GoodTask(task[h])
  BY Typed
<1>1. ASSUME NEW h \in Handlers, Connect(h) \/ HangUp(h) PROVE TypeOK'
  <2>1. GoodTask(At("recv")) /\ GoodTask(At("closed"))
    BY BackType DEF Labels
  <2>. QED  BY <1>1, <2>1, LocalType DEF Connect, HangUp
<1>2. ASSUME NEW h \in Handlers, Receive(h) PROVE TypeOK'
  <2>1. PICK f \in Frame :
           Local(h, "recv", [task[h] EXCEPT !.pc = "lookup", !.site = "route",
                                            !.frame = {f}])
    BY <1>2 DEF Receive
  <2>2. GoodTask([task[h] EXCEPT !.pc = "lookup", !.site = "route",
                                 !.frame = {f}])
    BY <1>0, TaskUpdates DEF Labels, Sites
  <2>. QED  BY <2>1, <2>2, LocalType
<1>3. CASE Evict
  BY <1>3 DEF Evict, TypeOK, Lone, outside, history
<1>4. CASE Crash
  <2>1. At("closed") \in Task /\ Lone(At("closed").session)
        /\ Lone(At("closed").row)
    BY AtType DEF At, Lone, Labels, Task, Sites
  <2>2. task' = [h \in Handlers |-> At("closed")]
    BY <1>4 DEF Crash
  <2>3. task' \in [Handlers -> Task]
    BY <2>1, <2>2
  <2>4. \A h \in Handlers : Lone(task'[h].session) /\ Lone(task'[h].row)
    BY <2>1, <2>2
  <2>5. cache' \in SUBSET Session /\ Lone(cache')
    BY <1>4 DEF Crash, Lone
  <2>6. recent' = [r \in Refs |-> <<>>]
    BY <1>4 DEF Crash
  <2>7. /\ recent' \in [Refs -> Seq(MsgIds)]
        /\ \A r \in Refs : Len(recent'[r]) <= RecentCap
    BY <2>6, BoundsAssumption
  <2>8. UNCHANGED <<db, now, users, failed, executed, sent>>
    BY <1>4 DEF Crash, outside, history
  <2>. QED  BY <2>3, <2>4, <2>5, <2>7, <2>8 DEF TypeOK
<1>5. CASE Tick
  <2>1. now' \in Nat
    BY <1>5 DEF Tick, TypeOK
  <2>2. UNCHANGED <<task, cache, db, recent, users, failed, executed, sent>>
    BY <1>5 DEF Tick, server, history
  <2>. QED  BY <2>1, <2>2 DEF TypeOK
<1>6. CASE ClockBack
  <2>1. now' \in Nat
    BY <1>6 DEF ClockBack, TypeOK
  <2>2. UNCHANGED <<task, cache, db, recent, users, failed, executed, sent>>
    BY <1>6 DEF ClockBack, server, history
  <2>. QED  BY <2>1, <2>2 DEF TypeOK
<1>. QED  BY <1>1, <1>2, <1>3, <1>4, <1>5, <1>6

(* Every step keeps the types.                                             *)
LEMMA NextType == TypeOK /\ [Next]_vars => TypeOK'
<1>. SUFFICES ASSUME TypeOK, [Next]_vars PROVE TypeOK'
  OBVIOUS
<1>1. CASE Next
  BY <1>1, LookupType, AcceptType, RequestType, AnswerType, OutsideType
     DEF Next, Step
<1>2. CASE UNCHANGED vars
  <2>1. UNCHANGED <<task, cache, db, recent, now, users, failed, executed, sent>>
    BY <1>2 DEF vars, server, outside, history
  <2>. QED  BY <2>1 DEF TypeOK
<1>. QED  BY <1>1, <1>2

(* Type correctness: handlers, cache and row keep their types, optional    *)
(* values stay optional, and recent_msg_ids stays within the capacity of   *)
(* its LRU (session_cache.rs:52-54), for any number of handlers and any    *)
(* disturbances.                                                           *)
THEOREM TypeCorrect == Spec => []TypeOK
<1>1. Init => TypeOK
  BY InitType
<1>2. TypeOK /\ [Next]_vars => TypeOK'
  BY NextType
<1>. QED  BY <1>1, <1>2, PTL DEF Spec
-----------------------------------------------------------------------------
(* The nonce counter *)

(* n is above the counter of every answer sent so far.                     *)
Unused(n) == \A i \in DOMAIN sent : sent[i].nonce < n

(* A copy of the session that may seal the next answer.                    *)
Ready(s) == Unused(s.sctr) /\ Unused(s.csend)

(* Where a handler may hold a sealed answer.                               *)
Sealing == {"lookup", "lookup_read", "lookup_fill", "seal_counters",
            "seal_save", "seal_put", "send"}

(* A handler that holds the sealed answer a does not reach `send` before   *)
(* the row, and then the cache, are beyond a's counter; and no copy in its *)
(* hands is behind the answers sent.                                       *)
Covered(t, row, entries) ==
    /\ t.pc \in {"closed", "recv"} => /\ t.session = {} /\ t.row = {}
                                     /\ t.crypto = {} /\ t.answer = {}
    /\ t.answer # {} => t.site = "seal" /\ t.pc \in Sealing
    /\ \A s \in t.session : Ready(s)
    /\ \A r \in t.row : Unused(r.sctr)
    /\ \A c \in t.crypto : Unused(c.send)
    /\ \A a \in t.answer :
          /\ Unused(a.nonce)
          /\ \A c \in t.crypto : a.nonce < c.send
          /\ t.pc \in {"seal_save", "seal_put"} =>
                \A s \in t.session : a.nonce < s.sctr /\ a.nonce < s.csend
          /\ t.pc \in {"seal_put", "send"} => a.nonce < row.sctr
          /\ t.pc = "send" =>
                \A s \in entries : a.nonce < s.sctr /\ a.nonce < s.csend

(* The inductive invariant behind NonceCounterGrows.                       *)
NonceInv ==
    /\ NonceCounterGrows
    /\ Unused(db.sctr)
    /\ \A s \in cache : Ready(s)
    /\ \A h \in Handlers : Covered(task[h], db, cache)

(* A step of the only open handler that sends nothing.                     *)
LEMMA NonceStep ==
  ASSUME NonceInv, TypeOK, OneAtATime,
         NEW h \in Handlers, Opened(h), NEW t,
         task' = [task EXCEPT ![h] = t], sent' = sent,
         Unused(db'.sctr), \A s \in cache' : Ready(s),
         Covered(t, db', cache')
  PROVE  NonceInv'
<1>1. \A n : Unused(n)' <=> Unused(n)
  BY DEF Unused
<1>2. \A g \in Handlers : task'[g] = IF g = h THEN t ELSE task[g]
  BY DEF TypeOK
<1>3. ASSUME NEW g \in Handlers PROVE Covered(task[g], db, cache)'
  <2>1. CASE g = h
    BY <1>2, <2>1 DEF Covered, Sealing, Ready, Unused
  <2>2. CASE g # h
    <3>1. task[g].pc = "closed"
      BY <2>2 DEF OneAtATime, Opened
    <3>2. /\ task[g].session = {} /\ task[g].row = {}
          /\ task[g].crypto = {} /\ task[g].answer = {}
      BY <3>1 DEF NonceInv, Covered, Sealing
    <3>3. task'[g] = task[g]
      BY <1>2, <2>2
    <3>. QED  BY <3>2, <3>3 DEF Covered, Sealing
  <2>. QED  BY <2>1, <2>2
<1>4. NonceCounterGrows'
  BY DEF NonceInv, NonceCounterGrows
<1>5. Unused(db.sctr)' /\ \A s \in cache' : Ready(s)'
  BY <1>1 DEF Ready, Unused
<1>. QED  BY <1>3, <1>4, <1>5 DEF NonceInv

(* Such a step on the locals, the row or the cache.                        *)
LEMMA NonceLocal ==
  ASSUME NonceInv, TypeOK, OneAtATime,
         NEW h \in Handlers, Opened(h), NEW l, NEW t,
         Local(h, l, t), Covered(t, db, cache)
  PROVE  NonceInv'
<1>1. /\ task' = [task EXCEPT ![h] = t]
      /\ db' = db /\ cache' = cache /\ sent' = sent
  BY DEF Local, Go, server, history
<1>. QED  BY <1>1, NonceStep DEF NonceInv

(* A step that writes a row.                                               *)
LEMMA NonceWrite ==
  ASSUME NonceInv, TypeOK, OneAtATime,
         NEW h \in Handlers, Opened(h), NEW l, NEW t, NEW row,
         Write(h, l, row, t), Unused(row.sctr), Covered(t, row, cache)
  PROVE  NonceInv'
<1>1. /\ task' = [task EXCEPT ![h] = t]
      /\ db' = row /\ cache' = cache /\ sent' = sent
  BY DEF Write, Go, history
<1>. QED  BY <1>1, NonceStep DEF NonceInv

(* A step that puts the session clone into the cache.                      *)
LEMMA NoncePut ==
  ASSUME NonceInv, TypeOK, OneAtATime,
         NEW h \in Handlers, Opened(h), NEW l, NEW t,
         Put(h, l, t), Covered(t, db, task[h].session)
  PROVE  NonceInv'
<1>1. /\ task' = [task EXCEPT ![h] = t]
      /\ db' = db /\ cache' = task[h].session /\ sent' = sent
  BY DEF Put, Go, history
<1>2. \A s \in task[h].session : Ready(s)
  BY DEF NonceInv, Covered, Sealing
<1>. QED  BY <1>1, <1>2, NonceStep DEF NonceInv

(* A handler with no locals is covered, whatever it returns to.            *)
LEMMA CoveredAt ==
  ASSUME NEW l, NEW told, NEW row, NEW entries
  PROVE  /\ Covered(At(l), row, entries)
         /\ Covered([At(l) EXCEPT !.told = told], row, entries)
  BY DEF Covered, Sealing, At

(* get_session hands out copies of what is stored.                         *)
LEMMA NonceLookup ==
  ASSUME NonceInv, TypeOK, OneAtATime, "read_fault" \notin Disturbances,
         NEW h \in Handlers,
         \/ LookupHit(h) \/ LookupMiss(h) \/ LookupRead(h) \/ LookupFill(h)
         \/ LookupFails(h)
  PROVE  NonceInv'
<1>0. Covered(task[h], db, cache) /\ task[h] \in Task
  BY DEF NonceInv, TypeOK
<1>1. ASSUME NEW s, Ready(s), NEW entries, task[h].pc \in {"lookup", "lookup_fill"}
      PROVE  Covered(Returned(task[h], s), db, entries)
  BY <1>0, <1>1, AfterType DEF Covered, Sealing, Returned, Task, After
<1>2. CASE LookupHit(h)
  <2>1. PICK s \in cache : Local(h, "lookup", Returned(task[h], s))
    BY <1>2 DEF LookupHit
  <2>2. task[h].pc = "lookup" /\ Ready(s) /\ Opened(h)
    BY <2>1 DEF Local, Go, NonceInv, Opened
  <2>. QED  BY <1>1, <2>1, <2>2, NonceLocal
<1>3. CASE LookupMiss(h)
  <2>1. Local(h, "lookup", [task[h] EXCEPT !.pc = "lookup_read"])
    BY <1>3 DEF LookupMiss
  <2>2. task[h].pc = "lookup" /\ Opened(h)
    BY <2>1 DEF Local, Go, Opened
  <2>3. Covered([task[h] EXCEPT !.pc = "lookup_read"], db, cache)
    BY <1>0, <2>2 DEF Covered, Sealing, Task
  <2>. QED  BY <2>1, <2>2, <2>3, NonceLocal
<1>4. CASE LookupRead(h)
  <2>. DEFINE t == [task[h] EXCEPT !.pc = "lookup_fill", !.row = {db}]
  <2>1. Local(h, "lookup_read", t)
    BY <1>4 DEF LookupRead
  <2>2. task[h].pc = "lookup_read" /\ Opened(h)
    BY <2>1 DEF Local, Go, Opened
  <2>3. Unused(db.sctr)
    BY DEF NonceInv
  <2>4. Covered(t, db, cache)
    BY <1>0, <2>2, <2>3 DEF Covered, Sealing, Task
  <2>. QED  BY <2>1, <2>2, <2>4, NonceLocal
<1>5. CASE LookupFill(h)
  <2>. DEFINE ref == CHOOSE r \in Refs \ LiveRefs : TRUE
  <2>1. PICK row \in task[h].row :
           /\ Go(h, "lookup_fill", Returned(task[h], Load(row, ref)))
           /\ cache' = {Load(row, ref)}
    BY <1>5 DEF LookupFill
  <2>2. Unused(row.sctr)
    BY <1>0 DEF Covered, Sealing
  <2>3. Ready(Load(row, ref))
    BY <2>2 DEF Ready, Load
  <2>. HIDE DEF ref
  <2>4. task[h].pc = "lookup_fill" /\ Opened(h)
        /\ task' = [task EXCEPT ![h] = Returned(task[h], Load(row, ref))]
    BY <2>1 DEF Go, Opened
  <2>5. Covered(Returned(task[h], Load(row, ref)), db, cache')
    BY <1>1, <2>3, <2>4
  <2>6. db' = db /\ sent' = sent
    BY <1>5 DEF LookupFill, history
  <2>7. Unused(db'.sctr) /\ \A s \in cache' : Ready(s)
    BY <2>1, <2>3, <2>6 DEF NonceInv
  <2>. QED  BY <2>4, <2>5, <2>6, <2>7, NonceStep
<1>6. CASE LookupFails(h)
  BY <1>6 DEF LookupFails
<1>. QED  BY <1>2, <1>3, <1>4, <1>5, <1>6

(* Taking a request hands its session clone on, to the row, to the cache   *)
(* and to the crypto that will seal the answer.                            *)
LEMMA NonceAccept ==
  ASSUME NonceInv, TypeOK, OneAtATime, NEW h \in Handlers,
         \/ Reject(h) \/ RejectLate(h) \/ Accept(h)
         \/ AcceptRecv(h) \/ AcceptCounters(h) \/ AcceptSave(h) \/ AcceptPut(h)
  PROVE  NonceInv'
<1>0. /\ Covered(task[h], db, cache) /\ task[h] \in Task /\ db \in Row
      /\ \A s \in task[h].session : s \in Session
      /\ \A s \in cache : Ready(s)
      /\ Unused(db.sctr)
  BY Typed DEF NonceInv, GoodTask
<1>1. CASE Reject(h)
  <2>1. PICK t \in {At("closed"), Back(h)} : Local(h, "check", t)
    BY <1>1 DEF Reject
  <2>2. Opened(h)
    BY <2>1 DEF Local, Go, Opened
  <2>3. Covered(At("closed"), db, cache) /\ Covered(Back(h), db, cache)
    BY CoveredAt, Zenon DEF Back
  <2>4. Covered(t, db, cache)
    BY <2>1, <2>3
  <2>. QED  BY <2>1, <2>2, <2>4, NonceLocal
<1>2. CASE RejectLate(h)
  <2>1. Go(h, "check", Back(h)) /\ db' = db /\ cache' = cache /\ sent' = sent
    BY <1>2 DEF RejectLate, history
  <2>2. Opened(h) /\ task' = [task EXCEPT ![h] = Back(h)]
    BY <2>1 DEF Go, Opened
  <2>3. Covered(Back(h), db', cache')
    BY CoveredAt, Zenon DEF Back
  <2>. QED  BY <1>0, <2>1, <2>2, <2>3, NonceStep
<1>3. CASE Accept(h)
  <2>1. PICK f \in task[h].frame, s \in task[h].session :
           Go(h, "check", [task[h] EXCEPT !.pc = "accept_recv",
                                         !.session = {AcceptedBy(s, f)}])
    BY <1>3 DEF Accept
  <2>. DEFINE t == [task[h] EXCEPT !.pc = "accept_recv",
                                   !.session = {AcceptedBy(s, f)}]
  <2>2. task[h].pc = "check" /\ Opened(h) /\ task' = [task EXCEPT ![h] = t]
    BY <2>1 DEF Go, Opened
  <2>3. db' = db /\ cache' = cache /\ sent' = sent
    BY <1>3 DEF Accept, history
  <2>4. Ready(AcceptedBy(s, f))
    <3>1. s \in Session /\ Ready(s)
      BY <1>0 DEF Covered
    <3>2. /\ AcceptedBy(s, f).sctr = s.sctr
          /\ AcceptedBy(s, f).csend = s.csend
      BY <3>1 DEF AcceptedBy, Session
    <3>. QED  BY <3>1, <3>2 DEF Ready
  <2>5. Covered(t, db, cache)
    BY <1>0, <2>2, <2>4 DEF Covered, Sealing, Task
  <2>. HIDE DEF t
  <2>. QED  BY <1>0, <2>2, <2>3, <2>5, NonceStep
<1>4. \A row, l : /\ task[h].pc \in {"accept_recv", "accept_counters",
                                      "accept_save"}
                  /\ l \in {"accept_counters", "accept_save", "accept_put"}
         => Covered([task[h] EXCEPT !.pc = l], row, cache)
  BY <1>0 DEF Covered, Sealing, Task
<1>5. CASE AcceptRecv(h)
  <2>1. PICK s \in task[h].session :
           Write(h, "accept_recv", SetRecv(db, s.rseq, s.last),
                 [task[h] EXCEPT !.pc = "accept_counters"])
    BY <1>5 DEF AcceptRecv
  <2>2. task[h].pc = "accept_recv" /\ Opened(h)
    BY <2>1 DEF Write, Go, Opened
  <2>3. Unused(SetRecv(db, s.rseq, s.last).sctr)
    BY <1>0 DEF SetRecv, Row
  <2>. QED  BY <1>4, <2>1, <2>2, <2>3, NonceWrite
<1>6. CASE AcceptCounters(h)
  <2>1. PICK s \in task[h].session :
           Write(h, "accept_counters", SetCounters(db, s.csend, s.crecv),
                 [task[h] EXCEPT !.pc = "accept_save"])
    BY <1>6 DEF AcceptCounters
  <2>2. task[h].pc = "accept_counters" /\ Opened(h)
    BY <2>1 DEF Write, Go, Opened
  <2>3. Unused(SetCounters(db, s.csend, s.crecv).sctr)
    BY <1>0 DEF Covered, Sealing, Ready, SetCounters, Row
  <2>. QED  BY <1>4, <2>1, <2>2, <2>3, NonceWrite
<1>7. CASE AcceptSave(h)
  <2>1. PICK s \in task[h].session :
           Write(h, "accept_save", RowOf(s), [task[h] EXCEPT !.pc = "accept_put"])
    BY <1>7 DEF AcceptSave
  <2>2. task[h].pc = "accept_save" /\ Opened(h)
    BY <2>1 DEF Write, Go, Opened
  <2>3. Unused(RowOf(s).sctr)
    BY <1>0 DEF Covered, Sealing, Ready, RowOf
  <2>. QED  BY <1>4, <2>1, <2>2, <2>3, NonceWrite
<1>8. CASE AcceptPut(h)
  <2>1. PICK s \in task[h].session :
           Put(h, "accept_put",
               [task[h] EXCEPT !.pc = "handle", !.session = {},
                               !.crypto = {[send |-> s.csend, recv |-> s.crecv]}])
    BY <1>8 DEF AcceptPut
  <2>. DEFINE t == [task[h] EXCEPT !.pc = "handle", !.session = {},
                       !.crypto = {[send |-> s.csend, recv |-> s.crecv]}]
  <2>2. task[h].pc = "accept_put" /\ Opened(h)
    BY <2>1 DEF Put, Go, Opened
  <2>3. Unused(s.csend)
    BY <1>0 DEF Covered, Sealing, Ready
  <2>4. task[h].answer = {}
    BY <1>0, <2>2 DEF Covered, Sealing
  <2>5. Covered(t, db, task[h].session)
    BY <1>0, <2>2, <2>3, <2>4 DEF Covered, Sealing, Task
  <2>. QED  BY <2>1, <2>2, <2>5, NoncePut
<1>. QED  BY <1>1, <1>2, <1>3, <1>5, <1>6, <1>7, <1>8

(* handle_request and SignUp's write of the user leave every counter alone.*)
LEMMA NonceRequest ==
  ASSUME NonceInv, TypeOK, OneAtATime, NEW h \in Handlers,
         \/ Handle(h) \/ SignUpUser(h) \/ SignUpSave(h) \/ SignUpPut(h)
         \/ SendFails(h) \/ WriteFails(h)
  PROVE  NonceInv'
<1>0. /\ Covered(task[h], db, cache) /\ task[h] \in Task /\ db \in Row
      /\ \A s \in task[h].session : s \in Session
      /\ \A s \in cache : Ready(s)
      /\ Unused(db.sctr)
  BY Typed DEF NonceInv, GoodTask
<1>1. /\ \A row, entries : Covered(At("closed"), row, entries)
      /\ \A row, entries : Covered(Back(h), row, entries)
  BY CoveredAt, Zenon DEF Back
<1>2. CASE Handle(h)
  <2>. DEFINE reply == [task[h] EXCEPT !.pc = "lookup", !.site = "number"]
              signup == [task[h] EXCEPT !.pc = "signup_user", !.user = users + 1]
  <2>1. /\ task[h].pc = "handle" /\ Opened(h)
        /\ db' = db /\ cache' = cache /\ sent' = sent
    BY <1>2 DEF Handle, Go, Opened, server
  <2>2. Covered(reply, db, cache) /\ Covered(signup, db, cache)
    BY <1>0, <2>1 DEF Covered, Sealing, Task
  <2>3. PICK t \in {reply, signup, At("closed"), Back(h)} :
           task' = [task EXCEPT ![h] = t]
    BY <1>2 DEF Handle, Go
  <2>. HIDE DEF reply, signup
  <2>4. Covered(t, db, cache)
    BY <1>1, <2>2, <2>3
  <2>. QED  BY <1>0, <2>1, <2>3, <2>4, NonceStep
<1>3. CASE SignUpUser(h)
  <2>. DEFINE t == [task[h] EXCEPT !.pc = "lookup", !.site = "signup"]
  <2>1. Write(h, "signup_user", SetUser(db, task[h].user), t)
    BY <1>3 DEF SignUpUser
  <2>2. task[h].pc = "signup_user" /\ Opened(h)
    BY <2>1 DEF Write, Go, Opened
  <2>3. Unused(SetUser(db, task[h].user).sctr)
    BY <1>0 DEF SetUser, Row
  <2>4. \A row : Covered(t, row, cache)
    BY <1>0, <2>2 DEF Covered, Sealing, Task
  <2>. HIDE DEF t
  <2>. QED  BY <2>1, <2>2, <2>3, <2>4, NonceWrite
<1>4. CASE SignUpSave(h)
  <2>1. PICK s \in task[h].session :
           LET c == [s EXCEPT !.user = task[h].user] IN
           Write(h, "signup_save", RowOf(c),
                 [task[h] EXCEPT !.pc = "signup_put", !.session = {c}])
    BY <1>4 DEF SignUpSave
  <2>. DEFINE c == [s EXCEPT !.user = task[h].user]
              t == [task[h] EXCEPT !.pc = "signup_put", !.session = {c}]
  <2>2. Write(h, "signup_save", RowOf(c), t)
    BY <2>1
  <2>3. task[h].pc = "signup_save" /\ Opened(h)
    BY <2>2 DEF Write, Go, Opened
  <2>4. s \in Session /\ Ready(s)
    BY <1>0 DEF Covered
  <2>5. c.sctr = s.sctr /\ c.csend = s.csend
    BY <2>4 DEF Session
  <2>6. Ready(c) /\ Unused(RowOf(c).sctr)
    BY <2>4, <2>5 DEF Ready, RowOf
  <2>. HIDE DEF c
  <2>7. \A row : Covered(t, row, cache)
    BY <1>0, <2>3, <2>6 DEF Covered, Sealing, Task
  <2>. HIDE DEF t
  <2>. QED  BY <2>2, <2>3, <2>6, <2>7, NonceWrite
<1>5. CASE SignUpPut(h)
  <2>1. Put(h, "signup_put", Back(h))
    BY <1>5 DEF SignUpPut
  <2>2. Opened(h)
    BY <2>1 DEF Put, Go, Opened
  <2>. QED  BY <1>1, <2>1, <2>2, NoncePut
<1>6. CASE SendFails(h)
  <2>1. Local(h, "send", At("closed"))
    BY <1>6 DEF SendFails
  <2>2. Opened(h)
    BY <2>1 DEF Local, Go, Opened
  <2>. QED  BY <1>1, <2>1, <2>2, NonceLocal
<1>7. CASE WriteFails(h)
  <2>1. /\ task' = [task EXCEPT ![h] = At("closed")]
        /\ db' = db /\ cache' = cache /\ sent' = sent
    BY <1>7 DEF WriteFails, server, history
  <2>2. Opened(h)
    BY <1>7 DEF WriteFails, Opened, Writing
  <2>. QED  BY <1>0, <1>1, <2>1, <2>2, NonceStep
<1>. QED  BY <1>2, <1>3, <1>4, <1>5, <1>6, <1>7

(* Between encrypting an answer and sending it the handler moves the row,  *)
(* and then the cache, beyond the counter of that answer.                  *)
LEMMA NonceAnswer ==
  ASSUME NonceInv, TypeOK, OneAtATime, NEW h \in Handlers,
         \/ NumberSave(h) \/ NumberPut(h) \/ NumberState(h)
         \/ Encrypt(h)
         \/ SealCounters(h) \/ SealSave(h) \/ SealPut(h)
  PROVE  NonceInv'
<1>0. /\ Covered(task[h], db, cache) /\ task[h] \in Task /\ db \in Row
      /\ \A s \in task[h].session : s \in Session
      /\ Unused(db.sctr)
  BY Typed DEF NonceInv, GoodTask
<1>1. CASE NumberSave(h)
  <2>1. PICK s \in task[h].session :
           Write(h, "number_save", RowOf(Numbered(s)),
                 [task[h] EXCEPT
                    !.pc = "number_put",
                    !.session = {Numbered(s)},
                    !.number = {[seq |-> Numbered(s).sseq, ctr |-> s.mctr]}])
    BY <1>1 DEF NumberSave
  <2>. DEFINE c == Numbered(s)
              n == {[seq |-> Numbered(s).sseq, ctr |-> s.mctr]}
              t == [task[h] EXCEPT !.pc = "number_put", !.session = {c},
                                   !.number = n]
  <2>2. task[h].pc = "number_save" /\ Opened(h)
    BY <2>1 DEF Write, Go, Opened
  <2>3. s \in Session /\ Ready(s)
    BY <1>0 DEF Covered
  <2>4. c.sctr = s.sctr /\ c.csend = s.csend
    BY <2>3 DEF Session, Numbered
  <2>5. Ready(c) /\ Unused(RowOf(c).sctr)
    BY <2>3, <2>4 DEF Ready, RowOf
  <2>. HIDE DEF c, n
  <2>6. t = [[task[h] EXCEPT !.pc = "number_put", !.session = {c}]
                EXCEPT !.number = n]
    BY <1>0 DEF Task
  <2>7. \A row : Covered(t, row, cache)
    BY <1>0, <2>2, <2>5, <2>6 DEF Covered, Sealing, Task
  <2>8. Write(h, "number_save", RowOf(c), t)
    BY <2>1 DEF c, n
  <2>. HIDE DEF t
  <2>. QED  BY <2>2, <2>5, <2>7, <2>8, NonceWrite
<1>2. CASE NumberPut(h)
  <2>. DEFINE t == [task[h] EXCEPT !.pc = "number_state"]
  <2>1. Put(h, "number_put", t)
    BY <1>2 DEF NumberPut
  <2>2. task[h].pc = "number_put" /\ Opened(h)
    BY <2>1 DEF Put, Go, Opened
  <2>3. Covered(t, db, task[h].session)
    BY <1>0, <2>2 DEF Covered, Sealing, Task
  <2>. HIDE DEF t
  <2>. QED  BY <2>1, <2>2, <2>3, NoncePut
<1>3. CASE NumberState(h)
  <2>. DEFINE t == [task[h] EXCEPT !.pc = "encrypt", !.session = {}]
  <2>1. PICK s \in task[h].session :
           Write(h, "number_state", SetSendState(db, s.sseq, s.mctr), t)
    BY <1>3 DEF NumberState
  <2>2. task[h].pc = "number_state" /\ Opened(h)
    BY <2>1 DEF Write, Go, Opened
  <2>3. Unused(SetSendState(db, s.sseq, s.mctr).sctr)
    BY <1>0 DEF SetSendState, Row
  <2>4. \A row : Covered(t, row, cache)
    BY <1>0, <2>2 DEF Covered, Sealing, Task
  <2>. HIDE DEF t
  <2>. QED  BY <2>1, <2>2, <2>3, <2>4, NonceWrite
<1>4. CASE Encrypt(h)
  <2>1. PICK f \in task[h].frame, c \in task[h].crypto,
             n \in task[h].number :
           Local(h, "encrypt",
              [task[h] EXCEPT
                  !.pc = "lookup",
                  !.site = "seal",
                  !.crypto = {[c EXCEPT !.send = @ + 1]},
                  !.answer = {[msg |-> now * CtrBase + n.ctr, seq |-> n.seq,
                               for |-> f.msg, nonce |-> c.send]}])
    BY <1>4 DEF Encrypt
  <2>. DEFINE d == [c EXCEPT !.send = @ + 1]
              a == [msg |-> now * CtrBase + n.ctr, seq |-> n.seq,
                    for |-> f.msg, nonce |-> c.send]
              t == [task[h] EXCEPT !.pc = "lookup", !.site = "seal",
                                   !.crypto = {d}, !.answer = {a}]
  <2>2. task[h].pc = "encrypt" /\ Opened(h)
    BY <2>1 DEF Local, Go, Opened
  <2>3. c \in Crypto /\ Unused(c.send)
    BY <1>0 DEF Covered, Task
  <2>4. d.send = c.send + 1 /\ a.nonce = c.send /\ c.send \in Nat
    BY <2>3 DEF Crypto
  <2>5. Unused(d.send)
    <3>1. ASSUME NEW i \in DOMAIN sent PROVE sent[i].nonce \in Nat
      <4>1. sent[i] \in Answer
        BY DEF TypeOK
      <4>. QED  BY <4>1 DEF Answer
    <3>2. ASSUME NEW i \in DOMAIN sent PROVE sent[i].nonce < c.send + 1
      BY <2>3, <2>4, <3>1 DEF Unused
    <3>. HIDE DEF d
    <3>. QED  BY <2>4, <3>2 DEF Unused
  <2>6. Local(h, "encrypt", t)
    BY <2>1
  <2>. HIDE DEF d, a
  <2>7. t = [[task[h] EXCEPT !.pc = "lookup", !.site = "seal"]
                EXCEPT !.crypto = {d}, !.answer = {a}]
    BY <1>0 DEF Task
  <2>8. a.nonce < d.send
    BY <2>4
  <2>9. Covered(t, db, cache)
    BY <1>0, <2>2, <2>3, <2>4, <2>5, <2>7, <2>8 DEF Covered, Sealing, Task
  <2>. HIDE DEF t
  <2>. QED  BY <2>2, <2>6, <2>9, NonceLocal
<1>5. CASE SealCounters(h)
  <2>1. PICK s \in task[h].session, c \in task[h].crypto :
           Write(h, "seal_counters", SetCounters(db, c.send, c.recv),
              [task[h] EXCEPT !.pc = "seal_save", !.session = {Sealed(s, c)}])
    BY <1>5 DEF SealCounters
  <2>. DEFINE e == Sealed(s, c)
              t == [task[h] EXCEPT !.pc = "seal_save", !.session = {e}]
  <2>2. task[h].pc = "seal_counters" /\ Opened(h)
    BY <2>1 DEF Write, Go, Opened
  <2>3. Unused(c.send) /\ \A a \in task[h].answer : a.nonce < c.send
    BY <1>0 DEF Covered
  <2>4. e.sctr = c.send /\ e.csend = c.send
    <3>. DEFINE e1 == [s EXCEPT !.csend = c.send, !.crecv = c.recv]
    <3>1. s \in Session /\ c \in Crypto
      BY <1>0 DEF Task
    <3>2. e1 \in Session /\ e1.csend = c.send
      BY <3>1 DEF Session, Crypto
    <3>3. e = [e1 EXCEPT !.sctr = c.send, !.rctr = c.recv]
      BY <3>1 DEF Sealed, Session
    <3>. HIDE DEF e, e1
    <3>. QED  BY <3>2, <3>3 DEF Session
  <2>5. SetCounters(db, c.send, c.recv).sctr = c.send
    BY <1>0 DEF SetCounters, Row
  <2>6. Write(h, "seal_counters", SetCounters(db, c.send, c.recv), t)
    BY <2>1
  <2>. HIDE DEF e
  <2>7. \A row : Covered(t, row, cache)
    BY <1>0, <2>2, <2>3, <2>4 DEF Covered, Sealing, Ready, Task
  <2>. HIDE DEF t
  <2>. QED  BY <2>2, <2>3, <2>5, <2>6, <2>7, NonceWrite
<1>6. CASE SealSave(h)
  <2>. DEFINE t == [task[h] EXCEPT !.pc = "seal_put"]
  <2>1. PICK s \in task[h].session : Write(h, "seal_save", RowOf(s), t)
    BY <1>6 DEF SealSave
  <2>2. task[h].pc = "seal_save" /\ Opened(h)
    BY <2>1 DEF Write, Go, Opened
  <2>3. Unused(RowOf(s).sctr) /\ RowOf(s).sctr = s.sctr
    BY <1>0 DEF Covered, Ready, RowOf
  <2>4. Covered(t, RowOf(s), cache)
    BY <1>0, <2>2, <2>3 DEF Covered, Sealing, Task
  <2>. HIDE DEF t
  <2>. QED  BY <2>1, <2>2, <2>3, <2>4, NonceWrite
<1>7. CASE SealPut(h)
  <2>. DEFINE t == [task[h] EXCEPT !.pc = "send", !.session = {}]
  <2>1. Put(h, "seal_put", t)
    BY <1>7 DEF SealPut
  <2>2. task[h].pc = "seal_put" /\ Opened(h)
    BY <2>1 DEF Put, Go, Opened
  <2>3. Covered(t, db, task[h].session)
    BY <1>0, <2>2 DEF Covered, Sealing, Task
  <2>. HIDE DEF t
  <2>. QED  BY <2>1, <2>2, <2>3, NoncePut
<1>. QED  BY <1>1, <1>2, <1>3, <1>4, <1>5, <1>6, <1>7

(* The answer sent has the highest counter so far, and the row and the     *)
(* cache are beyond it.                                                    *)
LEMMA NonceSend ==
  ASSUME NonceInv, TypeOK, OneAtATime, NEW h \in Handlers, Send(h)
  PROVE  NonceInv'
<1>1. PICK a \in task[h].answer :
         /\ Go(h, "send", [At("recv") EXCEPT !.told = {a.seq}])
         /\ sent' = Append(sent, a)
  BY DEF Send
<1>. DEFINE t == [At("recv") EXCEPT !.told = {a.seq}]
<1>2. /\ task[h].pc = "send" /\ Opened(h) /\ task' = [task EXCEPT ![h] = t]
      /\ db' = db /\ cache' = cache
  BY <1>1 DEF Send, Go, Opened, server
<1>3. Covered(task[h], db, cache) /\ a \in Answer
  BY Typed DEF NonceInv
<1>4. /\ Unused(a.nonce) /\ a.nonce < db.sctr
      /\ \A s \in cache : a.nonce < s.sctr /\ a.nonce < s.csend
  BY <1>2, <1>3 DEF Covered
<1>5. /\ Unused(db.sctr) /\ \A s \in cache : Ready(s)
      /\ NonceCounterGrows
  BY DEF NonceInv
<1>6. sent \in Seq(Answer)
  BY DEF TypeOK
<1>. HIDE DEF t
<1>7. /\ DOMAIN sent' = 1..(Len(sent) + 1) /\ DOMAIN sent = 1..Len(sent)
      /\ Len(sent) \in Nat
      /\ \A i \in 1..Len(sent) : sent'[i] = sent[i]
      /\ sent'[Len(sent) + 1] = a
  BY <1>1, <1>3, <1>6
<1>8. ASSUME NEW n, Unused(n), a.nonce < n PROVE Unused(n)'
  <2>1. ASSUME NEW i \in DOMAIN sent' PROVE sent'[i].nonce < n
    <3>1. CASE i \in 1..Len(sent)
      BY <1>7, <1>8, <3>1 DEF Unused
    <3>2. CASE i = Len(sent) + 1
      BY <1>7, <1>8, <3>2
    <3>. QED  BY <1>7, <3>1, <3>2
  <2>. QED  BY <2>1 DEF Unused
<1>9. NonceCounterGrows'
  <2>1. ASSUME NEW i \in DOMAIN sent', NEW j \in DOMAIN sent', i < j
        PROVE  sent'[i].nonce < sent'[j].nonce
    <3>1. CASE j \in 1..Len(sent)
      <4>1. i \in 1..Len(sent)
        BY <1>7, <2>1, <3>1
      <4>. QED  BY <1>5, <1>7, <2>1, <3>1, <4>1 DEF NonceCounterGrows
    <3>2. CASE j = Len(sent) + 1
      <4>1. i \in 1..Len(sent)
        BY <1>7, <2>1, <3>2
      <4>2. sent[i].nonce < a.nonce
        BY <1>4, <1>7, <4>1 DEF Unused
      <4>. QED  BY <1>7, <3>2, <4>1, <4>2
    <3>. QED  BY <1>7, <2>1, <3>1, <3>2
  <2>. QED  BY <2>1 DEF NonceCounterGrows
<1>10. Unused(db.sctr)'
  BY <1>2, <1>4, <1>5, <1>8
<1>11. \A s \in cache' : Ready(s)'
  BY <1>2, <1>4, <1>5, <1>8 DEF Ready
<1>12. ASSUME NEW g \in Handlers PROVE Covered(task[g], db, cache)'
  <2>1. CASE g = h
    <3>1. task'[g] = t
      BY <1>2, <2>1 DEF TypeOK
    <3>. QED  BY <3>1 DEF t, Covered, At
  <2>2. CASE g # h
    <3>1. task'[g] = task[g] /\ task[g].pc = "closed"
      BY <1>2, <2>2 DEF OneAtATime, Opened, TypeOK
    <3>2. /\ task[g].session = {} /\ task[g].row = {}
          /\ task[g].crypto = {} /\ task[g].answer = {}
      BY <3>1 DEF NonceInv, Covered
    <3>. QED  BY <3>1, <3>2 DEF Covered
  <2>. QED  BY <2>1, <2>2
<1>. QED  BY <1>9, <1>10, <1>11, <1>12 DEF NonceInv

(* Connections come and go, the entry is evicted, the process restarts.    *)
LEMMA NonceOutside ==
  ASSUME NonceInv, TypeOK,
         \/ \E h \in Handlers : Connect(h) \/ HangUp(h) \/ Receive(h)
         \/ Evict \/ Crash \/ Tick \/ ClockBack
  PROVE  NonceInv'
<1>1. sent' = sent /\ db' = db /\ (cache' = cache \/ cache' = {})
  BY DEF Connect, HangUp, Receive, Local, Evict, Crash, Tick, ClockBack,
         server, history
<1>2. \A n : Unused(n)' <=> Unused(n)
  BY <1>1 DEF Unused
<1>3. /\ NonceCounterGrows' /\ Unused(db.sctr)'
      /\ \A s \in cache' : Ready(s)'
  BY <1>1, <1>2 DEF NonceInv, NonceCounterGrows, Ready
<1>4. \A g \in Handlers : Covered(task[g], db, cache) /\ task[g] \in Task
  BY DEF NonceInv, TypeOK
<1>5. ASSUME NEW g \in Handlers, task'[g] = task[g]
      PROVE  Covered(task[g], db, cache)'
  BY <1>1, <1>2, <1>4, <1>5 DEF Covered, Ready
<1>6. ASSUME NEW g \in Handlers, NEW l, task'[g] = At(l)
      PROVE  Covered(task[g], db, cache)'
  BY <1>6 DEF Covered, At
<1>7. ASSUME NEW h \in Handlers, Connect(h) \/ HangUp(h)
      PROVE  \A g \in Handlers : Covered(task[g], db, cache)'
  <2>1. PICK l \in {"recv", "closed"} : task' = [task EXCEPT ![h] = At(l)]
    BY <1>7 DEF Connect, HangUp, Local, Go
  <2>2. \A g \in Handlers : task'[g] = IF g = h THEN At(l) ELSE task[g]
    BY <2>1 DEF TypeOK
  <2>. QED  BY <1>5, <1>6, <2>2
<1>8. ASSUME NEW h \in Handlers, Receive(h)
      PROVE  \A g \in Handlers : Covered(task[g], db, cache)'
  <2>1. PICK f \in Frame :
           Local(h, "recv", [task[h] EXCEPT !.pc = "lookup", !.site = "route",
                                            !.frame = {f}])
    BY <1>8 DEF Receive
  <2>. DEFINE t == [task[h] EXCEPT !.pc = "lookup", !.site = "route",
                                   !.frame = {f}]
  <2>2. task[h].pc = "recv" /\ task' = [task EXCEPT ![h] = t]
    BY <2>1 DEF Local, Go
  <2>3. /\ task[h].session = {} /\ task[h].row = {}
        /\ task[h].crypto = {} /\ task[h].answer = {}
    BY <1>4, <2>2 DEF Covered
  <2>4. /\ t.session = {} /\ t.row = {} /\ t.crypto = {} /\ t.answer = {}
        /\ t.pc = "lookup"
    BY <1>4, <2>3 DEF Task
  <2>. HIDE DEF t
  <2>5. \A g \in Handlers : task'[g] = IF g = h THEN t ELSE task[g]
    BY <2>2 DEF TypeOK
  <2>6. Covered(task[h], db, cache)'
    BY <2>4, <2>5 DEF Covered
  <2>. QED  BY <1>5, <2>5, <2>6
<1>9. ASSUME Evict \/ Crash \/ Tick \/ ClockBack
      PROVE  \A g \in Handlers : Covered(task[g], db, cache)'
  <2>1. \/ task' = task
        \/ \A g \in Handlers : task'[g] = At("closed")
    BY <1>9 DEF Evict, Crash, Tick, ClockBack
  <2>. QED  BY <1>5, <1>6, <2>1
<1>10. \A g \in Handlers : Covered(task[g], db, cache)'
  BY <1>7, <1>8, <1>9
<1>. QED  BY <1>3, <1>10 DEF NonceInv

LEMMA NonceInit == Init => NonceInv
<1>. SUFFICES ASSUME Init PROVE NonceInv
  OBVIOUS
<1>1. /\ sent = <<>> /\ db = FreshRow /\ cache = {Load(FreshRow, 0)}
      /\ task = [h \in Handlers |-> At("closed")]
  BY DEF Init
<1>2. \A n : Unused(n)
  BY <1>1 DEF Unused
<1>3. NonceCounterGrows
  BY <1>1 DEF NonceCounterGrows
<1>4. \A h \in Handlers : Covered(task[h], db, cache)
  BY <1>1, CoveredAt
<1>. QED  BY <1>2, <1>3, <1>4 DEF NonceInv, Ready

LEMMA NonceNext ==
  ASSUME NonceInv, TypeOK, OneAtATime, "read_fault" \notin Disturbances,
         [Next]_vars
  PROVE  NonceInv'
<1>1. ASSUME NEW h \in Handlers, Step(h) PROVE NonceInv'
  <2>1. CASE \/ LookupHit(h) \/ LookupMiss(h) \/ LookupRead(h)
             \/ LookupFill(h) \/ LookupFails(h)
    BY <2>1, NonceLookup
  <2>2. CASE \/ Reject(h) \/ RejectLate(h) \/ Accept(h)
             \/ AcceptRecv(h) \/ AcceptCounters(h) \/ AcceptSave(h)
             \/ AcceptPut(h)
    BY <2>2, NonceAccept
  <2>3. CASE \/ Handle(h) \/ SignUpUser(h) \/ SignUpSave(h) \/ SignUpPut(h)
             \/ SendFails(h) \/ WriteFails(h)
    BY <2>3, NonceRequest
  <2>4. CASE \/ NumberSave(h) \/ NumberPut(h) \/ NumberState(h)
             \/ Encrypt(h)
             \/ SealCounters(h) \/ SealSave(h) \/ SealPut(h)
    BY <2>4, NonceAnswer
  <2>5. CASE Send(h)
    BY <2>5, NonceSend
  <2>. QED  BY <1>1, <2>1, <2>2, <2>3, <2>4, <2>5 DEF Step
<1>2. CASE \/ \E h \in Handlers : Connect(h) \/ HangUp(h) \/ Receive(h)
           \/ Evict \/ Crash \/ Tick \/ ClockBack
  BY <1>2, NonceOutside
<1>3. CASE UNCHANGED vars
  <2>1. /\ task' = task /\ cache' = cache /\ db' = db /\ sent' = sent
    BY <1>3 DEF vars, server, history
  <2>. QED  BY <2>1 DEF NonceInv, NonceCounterGrows, Covered, Ready, Unused
<1>. QED  BY <1>1, <1>2, <1>3 DEF Next

(* session_crypto.rs:47-48, server.rs:272-280: as long as the session is   *)
(* served by one connection at a time and the SELECTs of get_session do    *)
(* not fail, the counter in the nonce of every answer is above that of all *)
(* earlier answers, through any number of evictions, failed writes and     *)
(* restarts of the process.                                                *)
THEOREM NonceCounterGrowsAlone ==
  ASSUME "read_fault" \notin Disturbances
  PROVE  Spec /\ []OneAtATime => []NonceCounterGrows
<1>1. Init => NonceInv
  BY NonceInit
<1>2. NonceInv /\ TypeOK /\ OneAtATime /\ [Next]_vars => NonceInv'
  BY NonceNext
<1>3. NonceInv => NonceCounterGrows
  BY DEF NonceInv
<1>. QED  BY <1>1, <1>2, <1>3, TypeCorrect, PTL DEF Spec
=============================================================================
