------------------------- MODULE SessionOrderProofs -------------------------
(***************************************************************************)
(* ExecutedInOrder as a theorem: what keeps an old request from being      *)
(* executed, while one connection at a time serves the session, is         *)
(* last_recv_msg_id, in whichever copy of the session the next frame       *)
(* meets.  And ExecutedOnceWhileKept, for any number of connections: then  *)
(* it is the list recent_msg_ids.                                          *)
(***************************************************************************)
EXTENDS SessionServerProofs, SessionReplay

(* Every request executed so far has a msg_id up to n; below m.            *)
Past(n) == \A i \in DOMAIN executed : executed[i] <= n
Fresh(m) == \A i \in DOMAIN executed : executed[i] < m

Storing == {"accept_recv", "accept_counters", "accept_save", "accept_put"}

(* No copy of the session in a handler's hands is behind what has been     *)
(* executed; and a request is not executed before the clone, then the row, *)
(* then the cache have its msg_id.                                         *)
Ordered(t, row, entries) ==
    /\ t.pc \in {"closed", "recv"} => t.session = {} /\ t.frame = {}
    /\ t.pc = "handle" => t.session = {}
    /\ t.row # {} => t.pc = "lookup_fill"
    /\ Lone(t.frame)
    /\ \A s \in t.session : Past(s.last)
    /\ \A r \in t.row : Past(r.last)
    /\ \A f \in t.frame :
          /\ t.pc \in Storing \cup {"handle"} => Fresh(f.msg)
          /\ t.pc \in Storing => \A s \in t.session : f.msg <= s.last
          /\ t.pc \in (Storing \ {"accept_recv"}) \cup {"handle"} =>
                f.msg <= row.last
          /\ t.pc = "handle" => \A s \in entries : f.msg <= s.last

(* The inductive invariant behind ExecutedInOrder.                         *)
OrderInv ==
    /\ ExecutedInOrder
    /\ Past(db.last)
    /\ \A s \in cache : Past(s.last)
    /\ \A h \in Handlers : Ordered(task[h], db, cache)
-----------------------------------------------------------------------------
(* A step of the only open handler that executes nothing.                  *)
LEMMA OrderStep ==
  ASSUME OrderInv, TypeOK, OneAtATime,
         NEW h \in Handlers, Opened(h), NEW t,
         task' = [task EXCEPT ![h] = t], executed' = executed,
         Past(db'.last), \A s \in cache' : Past(s.last),
         Ordered(t, db', cache')
  PROVE  OrderInv'
<1>1. /\ \A n : Past(n)' <=> Past(n)
      /\ \A n : Fresh(n)' <=> Fresh(n)
  BY DEF Past, Fresh
<1>2. \A g \in Handlers : task'[g] = IF g = h THEN t ELSE task[g]
  BY DEF TypeOK
<1>3. ASSUME NEW g \in Handlers PROVE Ordered(task[g], db, cache)'
  <2>1. CASE g = h
    BY <1>2, <2>1 DEF Ordered, Past, Fresh
  <2>2. CASE g # h
    <3>1. task[g].pc = "closed"
      BY <2>2 DEF OneAtATime, Opened
    <3>2. task[g].session = {} /\ task[g].row = {} /\ task[g].frame = {}
      BY <3>1 DEF OrderInv, Ordered
    <3>3. task'[g] = task[g]
      BY <1>2, <2>2
    <3>. QED  BY <3>2, <3>3 DEF Ordered, Lone
  <2>. QED  BY <2>1, <2>2
<1>4. ExecutedInOrder'
  BY DEF OrderInv, ExecutedInOrder, Increasing
<1>5. Past(db.last)' /\ \A s \in cache' : Past(s.last)'
  BY <1>1
<1>. QED  BY <1>3, <1>4, <1>5 DEF OrderInv

(* Such a step on the locals, the row or the cache.                        *)
LEMMA OrderLocal ==
  ASSUME OrderInv, TypeOK, OneAtATime,
         NEW h \in Handlers, Opened(h), NEW l, NEW t,
         Local(h, l, t), Ordered(t, db, cache)
  PROVE  OrderInv'
<1>1. /\ task' = [task EXCEPT ![h] = t]
      /\ db' = db /\ cache' = cache /\ executed' = executed
  BY DEF Local, Go, server, history
<1>. QED  BY <1>1, OrderStep DEF OrderInv

LEMMA OrderWrite ==
  ASSUME OrderInv, TypeOK, OneAtATime,
         NEW h \in Handlers, Opened(h), NEW l, NEW t, NEW row,
         Write(h, l, row, t), Past(row.last), Ordered(t, row, cache)
  PROVE  OrderInv'
<1>1. /\ task' = [task EXCEPT ![h] = t]
      /\ db' = row /\ cache' = cache /\ executed' = executed
  BY DEF Write, Go, history
<1>. QED  BY <1>1, OrderStep DEF OrderInv

LEMMA OrderPut ==
  ASSUME OrderInv, TypeOK, OneAtATime,
         NEW h \in Handlers, Opened(h), NEW l, NEW t,
         Put(h, l, t), Ordered(t, db, task[h].session)
  PROVE  OrderInv'
<1>1. /\ task' = [task EXCEPT ![h] = t]
      /\ db' = db /\ cache' = task[h].session /\ executed' = executed
  BY DEF Put, Go, history
<1>2. \A s \in task[h].session : Past(s.last)
  BY DEF OrderInv, Ordered
<1>. QED  BY <1>1, <1>2, OrderStep DEF OrderInv

(* A handler with no locals is in order, whatever it returns to.           *)
LEMMA OrderedAt ==
  ASSUME NEW l, NEW told, NEW row, NEW entries
  PROVE  /\ Ordered(At(l), row, entries)
         /\ Ordered([At(l) EXCEPT !.told = told], row, entries)
  BY DEF Ordered, At, Lone

(* What is known of the handler that takes a step.                         *)
LEMMA OrderFacts ==
  ASSUME OrderInv, TypeOK, NEW h \in Handlers
  PROVE  /\ Ordered(task[h], db, cache) /\ task[h] \in Task /\ db \in Row
         /\ \A s \in task[h].session : s \in Session /\ Past(s.last)
         /\ \A f \in task[h].frame : f \in Frame
         /\ \A s \in cache : Past(s.last)
         /\ Past(db.last)
         /\ \A row, entries : Ordered(At("closed"), row, entries)
         /\ \A row, entries : Ordered(Back(h), row, entries)
<1>1. /\ Ordered(task[h], db, cache) /\ Past(db.last)
      /\ \A s \in cache : Past(s.last)
  BY DEF OrderInv
<1>2. \A s \in task[h].session : Past(s.last)
  BY <1>1 DEF Ordered
<1>3. /\ \A row, entries : Ordered(At("closed"), row, entries)
      /\ \A row, entries : Ordered(Back(h), row, entries)
  BY OrderedAt, Zenon DEF Back
<1>4. /\ task[h] \in Task /\ db \in Row
      /\ \A s \in task[h].session : s \in Session
      /\ \A f \in task[h].frame : f \in Frame
  BY Typed DEF GoodTask
<1>. QED  BY <1>1, <1>2, <1>3, <1>4

(* Away from accepting and executing, only the copies matter.              *)
LEMMA OrderedElsewhere ==
  ASSUME NEW t, NEW row, NEW entries,
         t.pc \notin Storing \cup {"handle", "closed", "recv"},
         Lone(t.frame), t.row = {}, \A s \in t.session : Past(s.last)
  PROVE  Ordered(t, row, entries)
  BY DEF Ordered, Storing

(* get_session hands out copies of what is stored.                         *)
LEMMA OrderLookup ==
  ASSUME OrderInv, TypeOK, OneAtATime, NEW h \in Handlers,
         \/ LookupHit(h) \/ LookupMiss(h) \/ LookupRead(h) \/ LookupFill(h)
         \/ LookupFails(h)
  PROVE  OrderInv'
<1>0. /\ Ordered(task[h], db, cache) /\ task[h] \in Task
      /\ \A s \in task[h].session : Past(s.last)
      /\ \A s \in cache : Past(s.last)
      /\ Past(db.last)
      /\ \A row, entries : Ordered(At("closed"), row, entries)
      /\ \A row, entries : Ordered(Back(h), row, entries)
  BY OrderFacts
<1>1. ASSUME NEW s, Past(s.last), NEW entries
      PROVE  Ordered(Returned(task[h], s), db, entries)
  <2>. DEFINE t == Returned(task[h], s)
  <2>1. /\ t.pc = After(task[h].site) /\ t.row = {} /\ t.frame = task[h].frame
        /\ t.session = IF task[h].site = "route" THEN {} ELSE {s}
    BY <1>0 DEF Returned, Task
  <2>2. t.pc \notin Storing \cup {"handle", "closed", "recv"}
    BY <2>1 DEF After, Storing
  <2>3. Lone(t.frame)
    BY <1>0, <2>1 DEF Ordered
  <2>. HIDE DEF t
  <2>4. \A c \in t.session : Past(c.last)
    BY <1>1, <2>1
  <2>5. Ordered(t, db, entries)
    BY <2>1, <2>2, <2>3, <2>4, OrderedElsewhere
  <2>. QED  BY <2>5 DEF t
<1>2. CASE LookupHit(h)
  <2>1. PICK s \in cache : Local(h, "lookup", Returned(task[h], s))
    BY <1>2 DEF LookupHit
  <2>2. Past(s.last) /\ Opened(h)
    BY <1>0, <2>1 DEF Local, Go, Opened
  <2>. QED  BY <1>1, <2>1, <2>2, OrderLocal
<1>3. CASE LookupMiss(h)
  <2>. DEFINE t == [task[h] EXCEPT !.pc = "lookup_read"]
  <2>1. Local(h, "lookup", t)
    BY <1>3 DEF LookupMiss
  <2>2. task[h].pc = "lookup" /\ Opened(h)
    BY <2>1 DEF Local, Go, Opened
  <2>3. Ordered(t, db, cache)
    BY <1>0, <2>2 DEF Ordered, Task, Storing
  <2>. HIDE DEF t
  <2>. QED  BY <2>1, <2>2, <2>3, OrderLocal
<1>4. CASE LookupRead(h)
  <2>. DEFINE t == [task[h] EXCEPT !.pc = "lookup_fill", !.row = {db}]
  <2>1. Local(h, "lookup_read", t)
    BY <1>4 DEF LookupRead
  <2>2. task[h].pc = "lookup_read" /\ Opened(h)
    BY <2>1 DEF Local, Go, Opened
  <2>3. Ordered(t, db, cache)
    BY <1>0, <2>2 DEF Ordered, Task, Storing
  <2>. HIDE DEF t
  <2>. QED  BY <2>1, <2>2, <2>3, OrderLocal
<1>5. CASE LookupFill(h)
  <2>. DEFINE ref == CHOOSE r \in Refs \ LiveRefs : TRUE
  <2>1. PICK row \in task[h].row :
           /\ Go(h, "lookup_fill", Returned(task[h], Load(row, ref)))
           /\ cache' = {Load(row, ref)}
    BY <1>5 DEF LookupFill
  <2>2. Past(Load(row, ref).last)
    BY <1>0 DEF Ordered, Load
  <2>. HIDE DEF ref
  <2>3. Opened(h)
        /\ task' = [task EXCEPT ![h] = Returned(task[h], Load(row, ref))]
    BY <2>1 DEF Go, Opened
  <2>4. Ordered(Returned(task[h], Load(row, ref)), db, cache')
    BY <1>1, <2>2
  <2>5. db' = db /\ executed' = executed
    BY <1>5 DEF LookupFill, history
  <2>6. Past(db'.last) /\ \A s \in cache' : Past(s.last)
    BY <1>0, <2>1, <2>2, <2>5
  <2>7. Ordered(Returned(task[h], Load(row, ref)), db', cache')
    BY <2>4, <2>5
  <2>. QED  BY <2>3, <2>5, <2>6, <2>7, OrderStep
<1>6. CASE LookupFails(h)
  <2>. DEFINE number == [task[h] EXCEPT
                            !.pc = "encrypt",
                            !.number = {[seq |-> -1, ctr |-> 0]}]
              seal == [task[h] EXCEPT !.pc = "send"]
  <2>1. PICK t \in {Back(h), number, seal, At("closed")} :
           Local(h, "lookup_read", t)
    BY <1>6 DEF LookupFails
  <2>2. Opened(h) /\ task[h].pc = "lookup_read"
    BY <2>1 DEF Local, Go, Opened
  <2>3. Ordered(number, db, cache) /\ Ordered(seal, db, cache)
    BY <1>0, <2>2 DEF Ordered, Task, Storing
  <2>. HIDE DEF number, seal
  <2>4. Ordered(t, db, cache)
    BY <1>0, <2>1, <2>3
  <2>. QED  BY <2>1, <2>2, <2>4, OrderLocal
<1>. QED  BY <1>2, <1>3, <1>4, <1>5, <1>6

(* Accepting a request records its msg_id in the clone, the row and the    *)
(* cache, in this order.                                                   *)
LEMMA OrderAccept ==
  ASSUME OrderInv, TypeOK, OneAtATime, NEW h \in Handlers,
         \/ Reject(h) \/ RejectLate(h) \/ Accept(h)
         \/ AcceptRecv(h) \/ AcceptCounters(h) \/ AcceptSave(h) \/ AcceptPut(h)
  PROVE  OrderInv'
<1>0. /\ Ordered(task[h], db, cache) /\ task[h] \in Task /\ db \in Row
      /\ \A s \in task[h].session : s \in Session /\ Past(s.last)
      /\ \A f \in task[h].frame : f \in Frame
      /\ \A s \in cache : Past(s.last)
      /\ Past(db.last)
      /\ \A row, entries : Ordered(At("closed"), row, entries)
      /\ \A row, entries : Ordered(Back(h), row, entries)
  BY OrderFacts
<1>1. CASE Reject(h)
  <2>1. PICK t \in {At("closed"), Back(h)} : Local(h, "check", t)
    BY <1>1 DEF Reject
  <2>2. Opened(h) /\ Ordered(t, db, cache)
    BY <1>0, <2>1 DEF Local, Go, Opened
  <2>. QED  BY <2>1, <2>2, OrderLocal
<1>2. CASE RejectLate(h)
  <2>1. Go(h, "check", Back(h))
        /\ db' = db /\ cache' = cache /\ executed' = executed
    BY <1>2 DEF RejectLate, history
  <2>2. Opened(h) /\ task' = [task EXCEPT ![h] = Back(h)]
    BY <2>1 DEF Go, Opened
  <2>. QED  BY <1>0, <2>1, <2>2, OrderStep
<1>3. CASE Accept(h)
  <2>1. PICK f \in task[h].frame, s \in task[h].session :
           /\ NewerThan(s, f)
           /\ Go(h, "check", [task[h] EXCEPT !.pc = "accept_recv",
                                             !.session = {AcceptedBy(s, f)}])
    BY <1>3 DEF Accept, Passes
  <2>. DEFINE c == AcceptedBy(s, f)
              t == [task[h] EXCEPT !.pc = "accept_recv", !.session = {c}]
  <2>2. task[h].pc = "check" /\ Opened(h) /\ task' = [task EXCEPT ![h] = t]
    BY <2>1 DEF Go, Opened
  <2>3. db' = db /\ cache' = cache /\ executed' = executed
    BY <1>3 DEF Accept, history
  <2>4. s \in Session /\ Past(s.last) /\ f \in Frame /\ f.msg \in Int
    BY <1>0, FrameType
  <2>5. c.last = f.msg
    <3>. DEFINE e == [s EXCEPT !.rseq = f.seq, !.last = f.msg]
    <3>1. e \in Session /\ e.last = f.msg
      BY <2>4, FrameType DEF Session
    <3>2. c = [e EXCEPT !.crecv = s.crecv + 1]
      BY <2>4 DEF AcceptedBy, Session
    <3>. HIDE DEF c, e
    <3>. QED  BY <3>1, <3>2 DEF Session
  <2>6. Fresh(f.msg) /\ Past(f.msg)
    <3>1. s.last < f.msg /\ s.last \in Int
      BY <2>1, <2>4 DEF NewerThan, Session
    <3>2. ASSUME NEW i \in DOMAIN executed
          PROVE  executed[i] < f.msg /\ executed[i] <= f.msg
      <4>1. executed[i] \in MsgIds
        BY DEF TypeOK
      <4>2. executed[i] \in Int
        BY <4>1, FramesAssumption
      <4>3. executed[i] <= s.last
        BY <2>4 DEF Past
      <4>. QED  BY <2>4, <3>1, <4>2, <4>3
    <3>. QED  BY <3>2 DEF Fresh, Past
  <2>7. Lone(task[h].frame) /\ \A g \in task[h].frame : g = f
    BY <1>0 DEF Ordered, Lone
  <2>8. task[h].row = {}
    BY <1>0, <2>2 DEF Ordered
  <2>. HIDE DEF c
  <2>9. /\ t.pc = "accept_recv" /\ t.session = {c} /\ t.row = task[h].row
        /\ t.frame = task[h].frame
    BY <1>0 DEF Task
  <2>. HIDE DEF t
  <2>10. Ordered(t, db, cache)
    BY <2>4, <2>5, <2>6, <2>7, <2>8, <2>9 DEF Ordered, Storing
  <2>. QED  BY <1>0, <2>2, <2>3, <2>10, OrderStep
<1>4. CASE AcceptRecv(h)
  <2>1. PICK s \in task[h].session :
           Write(h, "accept_recv", SetRecv(db, s.rseq, s.last),
                 [task[h] EXCEPT !.pc = "accept_counters"])
    BY <1>4 DEF AcceptRecv
  <2>. DEFINE row == SetRecv(db, s.rseq, s.last)
              t == [task[h] EXCEPT !.pc = "accept_counters"]
  <2>2. task[h].pc = "accept_recv" /\ Opened(h)
    BY <2>1 DEF Write, Go, Opened
  <2>3. row.last = s.last
    BY <1>0 DEF SetRecv, Row
  <2>4. Past(row.last)
    BY <1>0, <2>3
  <2>. HIDE DEF row
  <2>5. Ordered(t, row, cache)
    BY <1>0, <2>2, <2>3 DEF Ordered, Storing, Task
  <2>6. Write(h, "accept_recv", row, t)
    BY <2>1 DEF row
  <2>. HIDE DEF t
  <2>. QED  BY <2>2, <2>4, <2>5, <2>6, OrderWrite
<1>5. CASE AcceptCounters(h)
  <2>1. PICK s \in task[h].session :
           Write(h, "accept_counters", SetCounters(db, s.csend, s.crecv),
                 [task[h] EXCEPT !.pc = "accept_save"])
    BY <1>5 DEF AcceptCounters
  <2>. DEFINE row == SetCounters(db, s.csend, s.crecv)
              t == [task[h] EXCEPT !.pc = "accept_save"]
  <2>2. task[h].pc = "accept_counters" /\ Opened(h)
    BY <2>1 DEF Write, Go, Opened
  <2>3. row.last = db.last
    BY <1>0 DEF SetCounters, Row
  <2>4. Past(row.last)
    BY <1>0, <2>3
  <2>. HIDE DEF row
  <2>5. Ordered(t, row, cache)
    BY <1>0, <2>2, <2>3 DEF Ordered, Storing, Task
  <2>6. Write(h, "accept_counters", row, t)
    BY <2>1 DEF row
  <2>. HIDE DEF t
  <2>. QED  BY <2>2, <2>4, <2>5, <2>6, OrderWrite
<1>6. CASE AcceptSave(h)
  <2>1. PICK s \in task[h].session :
           Write(h, "accept_save", RowOf(s), [task[h] EXCEPT !.pc = "accept_put"])
    BY <1>6 DEF AcceptSave
  <2>. DEFINE t == [task[h] EXCEPT !.pc = "accept_put"]
  <2>2. task[h].pc = "accept_save" /\ Opened(h)
    BY <2>1 DEF Write, Go, Opened
  <2>3. RowOf(s).last = s.last /\ Past(RowOf(s).last)
    BY <1>0 DEF RowOf
  <2>4. Ordered(t, RowOf(s), cache)
    BY <1>0, <2>2, <2>3 DEF Ordered, Storing, Task
  <2>. HIDE DEF t
  <2>. QED  BY <2>1, <2>2, <2>3, <2>4, OrderWrite DEF t
<1>7. CASE AcceptPut(h)
  <2>1. PICK s \in task[h].session :
           Put(h, "accept_put",
               [task[h] EXCEPT !.pc = "handle", !.session = {},
                               !.crypto = {[send |-> s.csend, recv |-> s.crecv]}])
    BY <1>7 DEF AcceptPut
  <2>. DEFINE t == [task[h] EXCEPT !.pc = "handle", !.session = {},
                       !.crypto = {[send |-> s.csend, recv |-> s.crecv]}]
  <2>2. task[h].pc = "accept_put" /\ Opened(h)
    BY <2>1 DEF Put, Go, Opened
  <2>3. /\ t.pc = "handle" /\ t.session = {} /\ t.row = task[h].row
        /\ t.frame = task[h].frame
    BY <1>0 DEF Task
  <2>4. Put(h, "accept_put", t)
    BY <2>1
  <2>. HIDE DEF t
  <2>5. Ordered(t, db, task[h].session)
    BY <1>0, <2>2, <2>3 DEF Ordered, Storing
  <2>. QED  BY <2>2, <2>4, <2>5, OrderPut
<1>. QED  BY <1>1, <1>2, <1>3, <1>4, <1>5, <1>6, <1>7

(* Executing a request: it is above all earlier ones, and every copy that  *)
(* a later frame could meet knows it.                                      *)
LEMMA OrderHandle ==
  ASSUME OrderInv, TypeOK, OneAtATime, NEW h \in Handlers, Handle(h)
  PROVE  OrderInv'
<1>0. /\ Ordered(task[h], db, cache) /\ task[h] \in Task /\ db \in Row
      /\ \A f \in task[h].frame : f \in Frame
      /\ \A s \in cache : Past(s.last)
      /\ Past(db.last)
      /\ \A row, entries : Ordered(At("closed"), row, entries)
      /\ \A row, entries : Ordered(Back(h), row, entries)
  BY OrderFacts
<1>. DEFINE reply == [task[h] EXCEPT !.pc = "lookup", !.site = "number"]
            signup == [task[h] EXCEPT !.pc = "signup_user", !.user = users + 1]
<1>1. PICK f \in task[h].frame, t \in {reply, signup, At("closed"), Back(h)} :
         /\ task' = [task EXCEPT ![h] = t]
         /\ executed' = IF f.kind = "unparsed" THEN executed
                        ELSE Append(executed, f.msg)
  BY DEF Handle, Go
<1>2. /\ task[h].pc = "handle" /\ Opened(h)
      /\ db' = db /\ cache' = cache
  BY DEF Handle, Go, Opened, server
<1>3. /\ Fresh(f.msg) /\ f.msg <= db.last
      /\ \A s \in cache : f.msg <= s.last
  BY <1>0, <1>2 DEF Ordered
<1>4. /\ Lone(t.frame)
      /\ t.pc \notin Storing \cup {"handle"}
      /\ t.session = {} /\ t.row = {}
      /\ t.pc \in {"closed", "recv"} => t.frame = {}
  <2>1. CASE t = reply
    <3>1. /\ t.pc = "lookup" /\ t.frame = task[h].frame
          /\ t.session = task[h].session /\ t.row = task[h].row
      BY <1>0, <2>1 DEF Task
    <3>. QED  BY <1>0, <1>2, <3>1 DEF Storing, Ordered
  <2>2. CASE t = signup
    <3>1. /\ t.pc = "signup_user" /\ t.frame = task[h].frame
          /\ t.session = task[h].session /\ t.row = task[h].row
      BY <1>0, <2>2 DEF Task
    <3>. QED  BY <1>0, <1>2, <3>1 DEF Storing, Ordered
  <2>3. CASE t = At("closed") \/ t = Back(h)
    BY <2>3 DEF At, Back, Lone, Storing
  <2>. QED  BY <1>1, <2>1, <2>2, <2>3
<1>. HIDE DEF reply, signup
<1>5. CASE f.kind = "unparsed"
  <2>1. Ordered(t, db, cache)
    BY <1>0, <1>4 DEF Ordered, Storing
  <2>. QED  BY <1>0, <1>1, <1>2, <1>5, <2>1, OrderStep
<1>6. CASE f.kind # "unparsed"
  <2>1. executed \in Seq(MsgIds) /\ f.msg \in MsgIds /\ f.msg \in Int
    BY <1>0, FrameType DEF TypeOK
  <2>2. /\ DOMAIN executed' = 1..(Len(executed) + 1)
        /\ DOMAIN executed = 1..Len(executed) /\ Len(executed) \in Nat
        /\ \A i \in 1..Len(executed) : executed'[i] = executed[i]
        /\ executed'[Len(executed) + 1] = f.msg
    BY <1>1, <1>6, <2>1
  <2>3. ASSUME NEW n, Past(n), f.msg <= n PROVE Past(n)'
    BY <2>2, <2>3 DEF Past
  <2>4. ExecutedInOrder'
    <3>1. ASSUME NEW i \in DOMAIN executed', NEW j \in DOMAIN executed', i < j
          PROVE  executed'[i] < executed'[j]
      <4>1. i \in 1..Len(executed)
        BY <2>2, <3>1
      <4>2. CASE j \in 1..Len(executed)
        BY <2>2, <3>1, <4>1, <4>2 DEF OrderInv, ExecutedInOrder, Increasing
      <4>3. CASE j = Len(executed) + 1
        BY <1>3, <2>2, <4>1, <4>3 DEF Fresh
      <4>. QED  BY <2>2, <4>2, <4>3
    <3>. QED  BY <3>1 DEF ExecutedInOrder, Increasing
  <2>5. Past(db.last)' /\ \A s \in cache' : Past(s.last)'
    BY <1>0, <1>2, <1>3, <2>3
  <2>6. ASSUME NEW g \in Handlers PROVE Ordered(task[g], db, cache)'
    <3>1. CASE g = h
      <4>1. task'[g] = t
        BY <1>1, <3>1 DEF TypeOK
      <4>. QED  BY <1>4, <4>1 DEF Ordered, Storing
    <3>2. CASE g # h
      <4>1. task'[g] = task[g] /\ task[g].pc = "closed"
        BY <1>1, <1>2, <3>2 DEF OneAtATime, Opened, TypeOK
      <4>2. task[g].session = {} /\ task[g].row = {} /\ task[g].frame = {}
        BY <4>1 DEF OrderInv, Ordered
      <4>. QED  BY <4>1, <4>2 DEF Ordered, Lone
    <3>. QED  BY <3>1, <3>2
  <2>. QED  BY <2>4, <2>5, <2>6 DEF OrderInv
<1>. QED  BY <1>5, <1>6

(* SignUp and the answer copy the session without touching last_recv_msg_id*)
(* and execute nothing.                                                    *)
LEMMA OrderAnswer ==
  ASSUME OrderInv, TypeOK, OneAtATime, NEW h \in Handlers,
         \/ SignUpUser(h) \/ SignUpSave(h) \/ SignUpPut(h)
         \/ NumberSave(h) \/ NumberPut(h) \/ NumberState(h)
         \/ Encrypt(h)
         \/ SealCounters(h) \/ SealSave(h) \/ SealPut(h)
         \/ Send(h) \/ SendFails(h)
         \/ WriteFails(h)
  PROVE  OrderInv'
<1>0. /\ Ordered(task[h], db, cache) /\ task[h] \in Task /\ db \in Row
      /\ \A s \in task[h].session : s \in Session /\ Past(s.last)
      /\ \A s \in cache : Past(s.last)
      /\ Past(db.last)
      /\ \A row, entries : Ordered(At("closed"), row, entries)
      /\ \A row, entries : Ordered(Back(h), row, entries)
  BY OrderFacts
<1>1. ASSUME NEW l, NEW t, NEW row, Write(h, l, row, t),
             l \notin {"closed", "recv", "lookup_fill"},
             t.pc \notin Storing \cup {"handle", "closed", "recv"},
             t.row = task[h].row, t.frame = task[h].frame,
             \A s \in t.session : Past(s.last), Past(row.last)
      PROVE  OrderInv'
  <2>1. task[h].pc = l /\ Opened(h)
    BY <1>1 DEF Write, Go, Opened
  <2>2. t.row = {} /\ Lone(t.frame)
    BY <1>0, <1>1, <2>1 DEF Ordered
  <2>3. Ordered(t, row, cache)
    BY <1>1, <2>2, OrderedElsewhere
  <2>. QED  BY <1>1, <2>1, <2>3, OrderWrite
<1>2. ASSUME NEW l, NEW t, Put(h, l, t),
             l \notin {"closed", "recv", "lookup_fill"},
             t.pc \notin Storing \cup {"handle", "closed", "recv"},
             t.row = task[h].row, t.frame = task[h].frame,
             t.session \subseteq task[h].session
      PROVE  OrderInv'
  <2>1. task[h].pc = l /\ Opened(h)
    BY <1>2 DEF Put, Go, Opened
  <2>2. t.row = {} /\ Lone(t.frame)
    BY <1>0, <1>2, <2>1 DEF Ordered
  <2>3. \A s \in t.session : Past(s.last)
    BY <1>0, <1>2
  <2>4. Ordered(t, db, task[h].session)
    BY <1>2, <2>2, <2>3, OrderedElsewhere
  <2>. QED  BY <1>2, <2>1, <2>4, OrderPut
<1>3. CASE SignUpUser(h)
  <2>. DEFINE t == [task[h] EXCEPT !.pc = "lookup", !.site = "signup"]
              row == SetUser(db, task[h].user)
  <2>1. Write(h, "signup_user", row, t)
    BY <1>3 DEF SignUpUser
  <2>2. /\ t.pc = "lookup" /\ t.row = task[h].row
        /\ t.frame = task[h].frame /\ t.session = task[h].session
    BY <1>0 DEF Task
  <2>3. row.last = db.last
    BY <1>0 DEF SetUser, Row
  <2>. HIDE DEF t, row
  <2>. QED  BY <1>0, <1>1, <2>1, <2>2, <2>3 DEF Storing
<1>4. CASE SignUpSave(h)
  <2>1. PICK s \in task[h].session :
           LET e == [s EXCEPT !.user = task[h].user] IN
           Write(h, "signup_save", RowOf(e),
                 [task[h] EXCEPT !.pc = "signup_put", !.session = {e}])
    BY <1>4 DEF SignUpSave
  <2>. DEFINE c == [s EXCEPT !.user = task[h].user]
              t == [task[h] EXCEPT !.pc = "signup_put", !.session = {c}]
  <2>2. Write(h, "signup_save", RowOf(c), t)
    BY <2>1
  <2>3. c.last = s.last /\ Past(s.last)
    BY <1>0 DEF Session
  <2>. HIDE DEF c
  <2>4. /\ t.pc = "signup_put" /\ t.row = task[h].row
        /\ t.frame = task[h].frame /\ t.session = {c}
        /\ RowOf(c).last = c.last
    BY <1>0 DEF Task, RowOf
  <2>. HIDE DEF t
  <2>. QED  BY <1>1, <2>2, <2>3, <2>4 DEF Storing
<1>5. CASE SignUpPut(h)
  <2>1. Put(h, "signup_put", Back(h))
    BY <1>5 DEF SignUpPut
  <2>2. Opened(h)
    BY <2>1 DEF Put, Go, Opened
  <2>. QED  BY <1>0, <2>1, <2>2, OrderPut
<1>6. CASE NumberSave(h)
  <2>1. PICK s \in task[h].session :
           Write(h, "number_save", RowOf(Numbered(s)),
                 [task[h] EXCEPT
                    !.pc = "number_put",
                    !.session = {Numbered(s)},
                    !.number = {[seq |-> Numbered(s).sseq, ctr |-> s.mctr]}])
    BY <1>6 DEF NumberSave
  <2>. DEFINE c == Numbered(s)
              n == {[seq |-> Numbered(s).sseq, ctr |-> s.mctr]}
              t == [task[h] EXCEPT !.pc = "number_put", !.session = {c},
                                   !.number = n]
  <2>2. Write(h, "number_save", RowOf(c), t)
    BY <2>1
  <2>3. c.last = s.last /\ Past(s.last)
    BY <1>0 DEF Session, Numbered
  <2>. HIDE DEF c, n
  <2>4. /\ t.pc = "number_put" /\ t.row = task[h].row
        /\ t.frame = task[h].frame /\ t.session = {c}
        /\ RowOf(c).last = c.last
    BY <1>0 DEF Task, RowOf
  <2>. HIDE DEF t
  <2>. QED  BY <1>1, <2>2, <2>3, <2>4 DEF Storing
<1>7. CASE NumberPut(h)
  <2>. DEFINE t == [task[h] EXCEPT !.pc = "number_state"]
  <2>1. Put(h, "number_put", t)
    BY <1>7 DEF NumberPut
  <2>2. /\ t.pc = "number_state" /\ t.row = task[h].row
        /\ t.frame = task[h].frame /\ t.session = task[h].session
    BY <1>0 DEF Task
  <2>. HIDE DEF t
  <2>. QED  BY <1>2, <2>1, <2>2 DEF Storing
<1>8. CASE NumberState(h)
  <2>. DEFINE t == [task[h] EXCEPT !.pc = "encrypt", !.session = {}]
  <2>1. PICK s \in task[h].session :
           Write(h, "number_state", SetSendState(db, s.sseq, s.mctr), t)
    BY <1>8 DEF NumberState
  <2>2. SetSendState(db, s.sseq, s.mctr).last = db.last
    BY <1>0 DEF SetSendState, Row
  <2>3. /\ t.pc = "encrypt" /\ t.row = task[h].row
        /\ t.frame = task[h].frame /\ t.session = {}
    BY <1>0 DEF Task
  <2>. HIDE DEF t
  <2>. QED  BY <1>0, <1>1, <2>1, <2>2, <2>3 DEF Storing
<1>9. CASE Encrypt(h)
  <2>1. PICK f \in task[h].frame, c \in task[h].crypto,
             n \in task[h].number :
           Local(h, "encrypt",
              [task[h] EXCEPT
                  !.pc = "lookup",
                  !.site = "seal",
                  !.crypto = {[c EXCEPT !.send = @ + 1]},
                  !.answer = {[msg |-> now * CtrBase + n.ctr, seq |-> n.seq,
                               for |-> f.msg, nonce |-> c.send]}])
    BY <1>9 DEF Encrypt
  <2>. DEFINE d == {[c EXCEPT !.send = @ + 1]}
              a == {[msg |-> now * CtrBase + n.ctr, seq |-> n.seq,
                     for |-> f.msg, nonce |-> c.send]}
              t == [task[h] EXCEPT !.pc = "lookup", !.site = "seal",
                                   !.crypto = d, !.answer = a]
  <2>2. Local(h, "encrypt", t)
    BY <2>1
  <2>3. task[h].pc = "encrypt" /\ Opened(h)
    BY <2>2 DEF Local, Go, Opened
  <2>. HIDE DEF d, a
  <2>4. /\ t.pc = "lookup" /\ t.row = task[h].row
        /\ t.frame = task[h].frame /\ t.session = task[h].session
    BY <1>0 DEF Task
  <2>. HIDE DEF t
  <2>5. t.row = {} /\ Lone(t.frame)
    BY <1>0, <2>3, <2>4 DEF Ordered
  <2>6. Ordered(t, db, cache)
    BY <1>0, <2>4, <2>5, OrderedElsewhere DEF Storing
  <2>. QED  BY <2>2, <2>3, <2>6, OrderLocal
<1>10. CASE SealCounters(h)
  <2>1. PICK s \in task[h].session, c \in task[h].crypto :
           Write(h, "seal_counters", SetCounters(db, c.send, c.recv),
              [task[h] EXCEPT !.pc = "seal_save", !.session = {Sealed(s, c)}])
    BY <1>10 DEF SealCounters
  <2>. DEFINE e == Sealed(s, c)
              t == [task[h] EXCEPT !.pc = "seal_save", !.session = {e}]
  <2>2. Write(h, "seal_counters", SetCounters(db, c.send, c.recv), t)
    BY <2>1
  <2>3. e.last = s.last /\ Past(s.last)
    <3>1. s \in Session /\ c \in Crypto
      BY <1>0 DEF Task
    <3>. DEFINE e1 == [s EXCEPT !.csend = c.send, !.crecv = c.recv]
    <3>2. e1 \in Session /\ e1.last = s.last
      BY <3>1 DEF Session, Crypto
    <3>3. e = [e1 EXCEPT !.sctr = c.send, !.rctr = c.recv]
      BY <3>1 DEF Sealed, Session
    <3>. HIDE DEF e, e1
    <3>4. e.last = e1.last
      BY <3>2, <3>3 DEF Session
    <3>. QED  BY <1>0, <3>2, <3>4
  <2>4. SetCounters(db, c.send, c.recv).last = db.last
    BY <1>0 DEF SetCounters, Row
  <2>. HIDE DEF e
  <2>5. /\ t.pc = "seal_save" /\ t.row = task[h].row
        /\ t.frame = task[h].frame /\ t.session = {e}
    BY <1>0 DEF Task
  <2>. HIDE DEF t
  <2>. QED  BY <1>0, <1>1, <2>2, <2>3, <2>4, <2>5 DEF Storing
<1>11. CASE SealSave(h)
  <2>. DEFINE t == [task[h] EXCEPT !.pc = "seal_put"]
  <2>1. PICK s \in task[h].session : Write(h, "seal_save", RowOf(s), t)
    BY <1>11 DEF SealSave
  <2>2. RowOf(s).last = s.last
    BY DEF RowOf
  <2>3. /\ t.pc = "seal_put" /\ t.row = task[h].row
        /\ t.frame = task[h].frame /\ t.session = task[h].session
    BY <1>0 DEF Task
  <2>. HIDE DEF t
  <2>. QED  BY <1>0, <1>1, <2>1, <2>2, <2>3 DEF Storing
<1>12. CASE SealPut(h)
  <2>. DEFINE t == [task[h] EXCEPT !.pc = "send", !.session = {}]
  <2>1. Put(h, "seal_put", t)
    BY <1>12 DEF SealPut
  <2>2. /\ t.pc = "send" /\ t.row = task[h].row
        /\ t.frame = task[h].frame /\ t.session = {}
    BY <1>0 DEF Task
  <2>. HIDE DEF t
  <2>. QED  BY <1>2, <2>1, <2>2 DEF Storing
<1>13. CASE Send(h)
  <2>1. PICK a \in task[h].answer :
           Go(h, "send", [At("recv") EXCEPT !.told = {a.seq}])
    BY <1>13 DEF Send
  <2>2. Opened(h) /\ task' = [task EXCEPT ![h] = [At("recv") EXCEPT
                                                     !.told = {a.seq}]]
    BY <2>1 DEF Go, Opened
  <2>3. db' = db /\ cache' = cache /\ executed' = executed
    BY <1>13 DEF Send, server
  <2>4. Ordered([At("recv") EXCEPT !.told = {a.seq}], db, cache)
    BY OrderedAt, Zenon
  <2>. QED  BY <1>0, <2>2, <2>3, <2>4, OrderStep
<1>14. CASE SendFails(h)
  <2>1. Local(h, "send", At("closed"))
    BY <1>14 DEF SendFails
  <2>2. Opened(h)
    BY <2>1 DEF Local, Go, Opened
  <2>. QED  BY <1>0, <2>1, <2>2, OrderLocal
<1>15. CASE WriteFails(h)
  <2>1. /\ task' = [task EXCEPT ![h] = At("closed")]
        /\ db' = db /\ cache' = cache /\ executed' = executed
    BY <1>15 DEF WriteFails, server, history
  <2>2. Opened(h)
    BY <1>15 DEF WriteFails, Opened, Writing
  <2>. QED  BY <1>0, <2>1, <2>2, OrderStep
<1>. QED  BY <1>3, <1>4, <1>5, <1>6, <1>7, <1>8, <1>9, <1>10, <1>11, <1>12,
             <1>13, <1>14, <1>15

(* Connections come and go, the entry is evicted, the process restarts.    *)
LEMMA OrderOutside ==
  ASSUME OrderInv, TypeOK,
         \/ \E h \in Handlers : Connect(h) \/ HangUp(h) \/ Receive(h)
         \/ Evict \/ Crash \/ Tick \/ ClockBack
  PROVE  OrderInv'
<1>1. executed' = executed /\ db' = db /\ (cache' = cache \/ cache' = {})
  BY DEF Connect, HangUp, Receive, Local, Evict, Crash, Tick, ClockBack,
         server, history
<1>2. /\ \A n : Past(n)' <=> Past(n)
      /\ \A n : Fresh(n)' <=> Fresh(n)
  BY <1>1 DEF Past, Fresh
<1>3. /\ ExecutedInOrder' /\ Past(db.last)'
      /\ \A s \in cache' : Past(s.last)'
  BY <1>1, <1>2 DEF OrderInv, ExecutedInOrder, Increasing
<1>4. \A g \in Handlers : Ordered(task[g], db, cache) /\ task[g] \in Task
  BY DEF OrderInv, TypeOK
<1>5. ASSUME NEW g \in Handlers, task'[g] = task[g]
      PROVE  Ordered(task[g], db, cache)'
  BY <1>1, <1>2, <1>4, <1>5 DEF Ordered
<1>6. ASSUME NEW g \in Handlers, NEW l, task'[g] = At(l)
      PROVE  Ordered(task[g], db, cache)'
  BY <1>6 DEF Ordered, At, Lone
<1>7. ASSUME NEW h \in Handlers, Connect(h) \/ HangUp(h)
      PROVE  \A g \in Handlers : Ordered(task[g], db, cache)'
  <2>1. PICK l \in {"recv", "closed"} : task' = [task EXCEPT ![h] = At(l)]
    BY <1>7 DEF Connect, HangUp, Local, Go
  <2>2. \A g \in Handlers : task'[g] = IF g = h THEN At(l) ELSE task[g]
    BY <2>1 DEF TypeOK
  <2>. QED  BY <1>5, <1>6, <2>2
<1>8. ASSUME NEW h \in Handlers, Receive(h)
      PROVE  \A g \in Handlers : Ordered(task[g], db, cache)'
  <2>1. PICK f \in Frame :
           Local(h, "recv", [task[h] EXCEPT !.pc = "lookup", !.site = "route",
                                            !.frame = {f}])
    BY <1>8 DEF Receive
  <2>. DEFINE t == [task[h] EXCEPT !.pc = "lookup", !.site = "route",
                                   !.frame = {f}]
  <2>2. task[h].pc = "recv" /\ task' = [task EXCEPT ![h] = t]
    BY <2>1 DEF Local, Go
  <2>3. task[h].session = {} /\ task[h].row = {}
    BY <1>4, <2>2 DEF Ordered
  <2>4. /\ t.session = {} /\ t.row = {} /\ t.frame = {f} /\ t.pc = "lookup"
    BY <1>4, <2>3 DEF Task
  <2>. HIDE DEF t
  <2>5. \A g \in Handlers : task'[g] = IF g = h THEN t ELSE task[g]
    BY <2>2 DEF TypeOK
  <2>6. Ordered(task[h], db, cache)'
    BY <2>4, <2>5 DEF Ordered, Lone, Storing
  <2>. QED  BY <1>5, <2>5, <2>6
<1>9. ASSUME Evict \/ Crash \/ Tick \/ ClockBack
      PROVE  \A g \in Handlers : Ordered(task[g], db, cache)'
  <2>1. \/ task' = task
        \/ \A g \in Handlers : task'[g] = At("closed")
    BY <1>9 DEF Evict, Crash, Tick, ClockBack
  <2>. QED  BY <1>5, <1>6, <2>1
<1>10. \A g \in Handlers : Ordered(task[g], db, cache)'
  BY <1>7, <1>8, <1>9
<1>. QED  BY <1>3, <1>10 DEF OrderInv

LEMMA OrderInit == Init => OrderInv
<1>. SUFFICES ASSUME Init PROVE OrderInv
  OBVIOUS
<1>1. /\ executed = <<>> /\ db = FreshRow /\ cache = {Load(FreshRow, 0)}
      /\ task = [h \in Handlers |-> At("closed")]
  BY DEF Init
<1>2. \A n : Past(n)
  BY <1>1 DEF Past
<1>3. ExecutedInOrder
  BY <1>1 DEF ExecutedInOrder, Increasing
<1>4. \A h \in Handlers : Ordered(task[h], db, cache)
  BY <1>1, OrderedAt
<1>. QED  BY <1>2, <1>3, <1>4 DEF OrderInv

LEMMA OrderNext ==
  ASSUME OrderInv, TypeOK, OneAtATime, [Next]_vars
  PROVE  OrderInv'
<1>1. ASSUME NEW h \in Handlers, Step(h) PROVE OrderInv'
  <2>1. CASE \/ LookupHit(h) \/ LookupMiss(h) \/ LookupRead(h)
             \/ LookupFill(h) \/ LookupFails(h)
    BY <2>1, OrderLookup
  <2>2. CASE \/ Reject(h) \/ RejectLate(h) \/ Accept(h)
             \/ AcceptRecv(h) \/ AcceptCounters(h) \/ AcceptSave(h)
             \/ AcceptPut(h)
    BY <2>2, OrderAccept
  <2>3. CASE Handle(h)
    BY <2>3, OrderHandle
  <2>4. CASE \/ SignUpUser(h) \/ SignUpSave(h) \/ SignUpPut(h)
             \/ NumberSave(h) \/ NumberPut(h) \/ NumberState(h)
             \/ Encrypt(h)
             \/ SealCounters(h) \/ SealSave(h) \/ SealPut(h)
             \/ Send(h) \/ SendFails(h)
             \/ WriteFails(h)
    BY <2>4, OrderAnswer
  <2>. QED  BY <1>1, <2>1, <2>2, <2>3, <2>4 DEF Step
<1>2. CASE \/ \E h \in Handlers : Connect(h) \/ HangUp(h) \/ Receive(h)
           \/ Evict \/ Crash \/ Tick \/ ClockBack
  BY <1>2, OrderOutside
<1>3. CASE UNCHANGED vars
  <2>1. /\ task' = task /\ cache' = cache /\ db' = db /\ executed' = executed
    BY <1>3 DEF vars, server, history
  <2>. QED  BY <2>1 DEF OrderInv, ExecutedInOrder, Ordered, Past, Fresh
<1>. QED  BY <1>1, <1>2, <1>3 DEF Next

(* server.rs:188-191: as long as one connection at a time serves the       *)
(* session, requests are executed in the order of their msg_ids, whatever  *)
(* is evicted, lost in a restart or fails to be read or written.           *)
THEOREM ExecutedInOrderAlone == Spec /\ []OneAtATime => []ExecutedInOrder
<1>1. Init => OrderInv
  BY OrderInit
<1>2. OrderInv /\ TypeOK /\ OneAtATime /\ [Next]_vars => OrderInv'
  BY OrderNext
<1>3. OrderInv => ExecutedInOrder
  BY DEF OrderInv
<1>. QED  BY <1>1, <1>2, <1>3, TypeCorrect, PTL DEF Spec

-----------------------------------------------------------------------------
(* Several connections: SessionReplay *)

(* A msg_id that the lists in use all have, or have not kept.              *)
Guarded(m) == m \in lost \/ m \in Kept

(* A task whose request has passed the checks and is not executed yet.     *)
Pending(t) == t.pc \in Storing \cup {"handle"}

(* The inductive invariant behind ExecutedOnceWhileKept: a request that    *)
(* has been accepted is on every list in use, and accepted or executed by  *)
(* nobody else, unless its msg_id has been lost.                           *)
ReplayInv ==
    /\ ExecutedOnceWhileKept
    /\ \A i \in DOMAIN executed : Guarded(executed[i])
    /\ \A h \in Handlers :
          /\ Lone(task[h].frame)
          /\ Pending(task[h]) => \A f \in task[h].frame :
                /\ Guarded(f.msg)
                /\ \A i \in DOMAIN executed :
                      executed[i] = f.msg => f.msg \in lost
                /\ \A g \in Handlers \ {h} :
                      Pending(task[g]) => \A e \in task[g].frame :
                         e.msg = f.msg => f.msg \in lost

(* How lost changes in every step.                                         *)
Loses == lost' = lost \cup ((Noted \cup Noted') \ Kept')

(* What is guarded stays so, and a list's new entries are.                 *)
LEMMA GuardedStays ==
  ASSUME Loses
  PROVE  /\ \A m \in MsgIds : Guarded(m) => Guarded(m)'
         /\ \A m \in Noted' : Guarded(m)'
         /\ \A m \in lost : m \in lost'
<1>1. Kept \subseteq Noted
  BY DEF Kept, Noted, LiveRefs
<1>. QED  BY <1>1 DEF Loses, Guarded

(* Task u, which comes after t, has no request that t had not.             *)
Follows(u, t) == /\ Lone(u.frame)
                 /\ Pending(u) => Pending(t) /\ u.frame = t.frame

(* A step that accepts and executes nothing.                               *)
LEMMA ReplayStep ==
  ASSUME TypeOK, ReplayInv, Loses, executed' = executed,
         \A h \in Handlers : Follows(task'[h], task[h])
  PROVE  ReplayInv'
<1>1. /\ \A m \in MsgIds : Guarded(m) => Guarded(m)'
      /\ \A m \in lost : m \in lost'
  BY GuardedStays
<1>2. /\ \A i \in DOMAIN executed : executed[i] \in MsgIds
      /\ \A h \in Handlers : \A f \in task[h].frame : f.msg \in MsgIds
  BY Typed, FrameType DEF TypeOK, GoodTask
<1>3. ExecutedOnceWhileKept'
  BY <1>1 DEF ReplayInv, ExecutedOnceWhileKept
<1>4. \A i \in DOMAIN executed' : Guarded(executed[i])'
  BY <1>1, <1>2 DEF ReplayInv
<1>5. ASSUME NEW h \in Handlers
      PROVE  /\ Lone(task'[h].frame)
             /\ Pending(task'[h]) => \A f \in task'[h].frame :
                   /\ Guarded(f.msg)'
                   /\ \A i \in DOMAIN executed :
                         executed[i] = f.msg => f.msg \in lost'
                   /\ \A g \in Handlers \ {h} :
                         Pending(task'[g]) => \A e \in task'[g].frame :
                            e.msg = f.msg => f.msg \in lost'
  <2>1. Lone(task'[h].frame)
    BY DEF Follows
  <2>2. ASSUME Pending(task'[h]), NEW f \in task'[h].frame
        PROVE  /\ Guarded(f.msg)'
               /\ \A i \in DOMAIN executed :
                     executed[i] = f.msg => f.msg \in lost'
               /\ \A g \in Handlers \ {h} :
                     Pending(task'[g]) => \A e \in task'[g].frame :
                        e.msg = f.msg => f.msg \in lost'
    <3>1. Pending(task[h]) /\ f \in task[h].frame /\ f.msg \in MsgIds
      BY <1>2, <2>2 DEF Follows
    <3>2. Guarded(f.msg)'
      BY <1>1, <3>1 DEF ReplayInv
    <3>3. \A i \in DOMAIN executed : executed[i] = f.msg => f.msg \in lost'
      BY <1>1, <3>1 DEF ReplayInv
    <3>4. ASSUME NEW g \in Handlers \ {h}, Pending(task'[g]),
                 NEW e \in task'[g].frame, e.msg = f.msg
          PROVE  f.msg \in lost'
      <4>1. Pending(task[g]) /\ e \in task[g].frame
        BY <3>4 DEF Follows
      <4>. QED  BY <1>1, <3>1, <3>4, <4>1 DEF ReplayInv
    <3>. QED  BY <3>2, <3>3, <3>4
  <2>. QED  BY <2>1, <2>2
<1>6. \A h \in Handlers : Pending(task[h])' <=> Pending(task'[h])
  BY DEF Pending, Storing
<1>. QED  BY <1>3, <1>4, <1>5, <1>6 DEF ReplayInv, Lone

(* Such a step of one handler.                                             *)
LEMMA ReplayMove ==
  ASSUME TypeOK, ReplayInv, Loses, executed' = executed,
         NEW h \in Handlers, NEW t, task' = [task EXCEPT ![h] = t],
         Follows(t, task[h])
  PROVE  ReplayInv'
<1>1. \A g \in Handlers : task'[g] = IF g = h THEN t ELSE task[g]
  BY DEF TypeOK
<1>2. \A g \in Handlers : Follows(task'[g], task[g])
  BY <1>1 DEF Follows, ReplayInv
<1>. QED  BY <1>2, ReplayStep

(* One that ends a frame.                                                  *)
LEMMA ReplayEnds ==
  ASSUME TypeOK, ReplayInv, Loses, executed' = executed,
         NEW h \in Handlers, NEW l \in {"closed", "recv"}, NEW told,
         \/ task' = [task EXCEPT ![h] = At(l)]
         \/ task' = [task EXCEPT ![h] = [At(l) EXCEPT !.told = told]]
  PROVE  ReplayInv'
<1>1. PICK t : /\ task' = [task EXCEPT ![h] = t]
               /\ t = At(l) \/ t = [At(l) EXCEPT !.told = told]
  OBVIOUS
<1>2. t.pc = l /\ t.frame = {}
  BY <1>1 DEF At
<1>3. Follows(t, task[h])
  BY <1>2 DEF Follows, Pending, Storing, Lone
<1>. QED  BY <1>1, <1>3, ReplayMove

LEMMA FollowsElsewhere ==
  ASSUME NEW u, NEW t, Lone(t.frame), u.frame = t.frame,
         Pending(u) => Pending(t)
  PROVE  Follows(u, t)
BY DEF Follows

(* get_session, and what rejects a frame, accept nothing.                  *)
LEMMA ReplayLookup ==
  ASSUME TypeOK, ReplayInv, Loses, NEW h \in Handlers,
         \/ LookupHit(h) \/ LookupMiss(h) \/ LookupRead(h) \/ LookupFill(h)
         \/ LookupFails(h) \/ Reject(h) \/ RejectLate(h)
  PROVE  ReplayInv'
<1>0. task[h] \in Task /\ Lone(task[h].frame)
  BY DEF TypeOK, ReplayInv
<1>1. ASSUME NEW l \in {"lookup", "lookup_fill"}, NEW s, task[h].pc = l
      PROVE  Follows(Returned(task[h], s), task[h])
  <2>1. PICK t : t = Returned(task[h], s)
    OBVIOUS
  <2>2. t.pc = After(task[h].site) /\ t.frame = task[h].frame
    BY <1>0, <2>1 DEF Returned, Task
  <2>3. ~Pending(t)
    BY <2>2 DEF After, Pending, Storing
  <2>. QED  BY <1>0, <2>1, <2>2, <2>3, FollowsElsewhere
<1>2. Back(h) = [At("recv") EXCEPT !.told = task[h].told]
  BY DEF Back
<1>3. executed' = executed
  BY DEF LookupHit, LookupMiss, LookupRead, LookupFill, LookupFails, Reject,
         RejectLate, Local, history
<1>4. CASE LookupHit(h)
  <2>1. PICK s \in cache : Local(h, "lookup", Returned(task[h], s))
    BY <1>4 DEF LookupHit
  <2>. QED  BY <1>1, <1>3, <2>1, ReplayMove DEF Local, Go
<1>5. CASE LookupMiss(h)
  <2>1. PICK t : /\ t = [task[h] EXCEPT !.pc = "lookup_read"]
                 /\ task' = [task EXCEPT ![h] = t]
    BY <1>5 DEF LookupMiss, Local, Go
  <2>2. Follows(t, task[h])
    BY <1>0, <2>1, FollowsElsewhere DEF Task, Pending, Storing
  <2>. QED  BY <1>3, <2>1, <2>2, ReplayMove
<1>6. CASE LookupRead(h)
  <2>1. PICK t : /\ t = [task[h] EXCEPT !.pc = "lookup_fill", !.row = {db}]
                 /\ task' = [task EXCEPT ![h] = t]
    BY <1>6 DEF LookupRead, Local, Go
  <2>2. t.frame = task[h].frame /\ t.pc = "lookup_fill"
    BY <1>0, <2>1 DEF Task
  <2>3. Follows(t, task[h])
    BY <1>0, <2>2, FollowsElsewhere DEF Pending, Storing
  <2>. QED  BY <1>3, <2>1, <2>3, ReplayMove
<1>7. CASE LookupFill(h)
  <2>1. PICK s : Go(h, "lookup_fill", Returned(task[h], s))
    BY <1>7 DEF LookupFill
  <2>. QED  BY <1>1, <1>3, <2>1, ReplayMove DEF Go
<1>8. CASE LookupFails(h)
  <2>. DEFINE number == [task[h] EXCEPT
                            !.pc = "encrypt",
                            !.number = {[seq |-> -1, ctr |-> 0]}]
              seal == [task[h] EXCEPT !.pc = "send"]
  <2>1. PICK t \in {Back(h), number, seal, At("closed")} :
           task' = [task EXCEPT ![h] = t]
    BY <1>8 DEF LookupFails, Local, Go
  <2>2. /\ number.frame = task[h].frame /\ ~Pending(number)
        /\ seal.frame = task[h].frame /\ ~Pending(seal)
    BY <1>0 DEF Task, Pending, Storing
  <2>3. Follows(number, task[h]) /\ Follows(seal, task[h])
    BY <1>0, <2>2, FollowsElsewhere
  <2>. HIDE DEF number, seal
  <2>4. CASE t = number \/ t = seal
    BY <1>3, <2>1, <2>3, <2>4, ReplayMove
  <2>5. CASE t = Back(h) \/ t = At("closed")
    BY <1>2, <1>3, <2>1, <2>5, ReplayEnds
  <2>. QED  BY <2>1, <2>4, <2>5
<1>9. CASE Reject(h) \/ RejectLate(h)
  <2>1. PICK t \in {Back(h), At("closed")} : task' = [task EXCEPT ![h] = t]
    BY <1>9 DEF Reject, RejectLate, Local, Go
  <2>. QED  BY <1>2, <1>3, <2>1, ReplayEnds
<1>. QED  BY <1>4, <1>5, <1>6, <1>7, <1>8, <1>9

(* Recording a request and answering it keep the frame in hand.            *)
LEMMA ReplayAnswer ==
  ASSUME TypeOK, ReplayInv, Loses, NEW h \in Handlers,
         \/ AcceptRecv(h) \/ AcceptCounters(h) \/ AcceptSave(h)
         \/ AcceptPut(h)
         \/ SignUpUser(h) \/ SignUpSave(h) \/ SignUpPut(h)
         \/ NumberSave(h) \/ NumberPut(h) \/ NumberState(h) \/ Encrypt(h)
         \/ SealCounters(h) \/ SealSave(h) \/ SealPut(h)
         \/ Send(h) \/ SendFails(h) \/ WriteFails(h)
  PROVE  ReplayInv'
<1>0. task[h] \in Task /\ Lone(task[h].frame)
  BY DEF TypeOK, ReplayInv
<1>1. executed' = executed
  BY DEF AcceptRecv, AcceptCounters, AcceptSave, AcceptPut, SignUpUser,
         SignUpSave, SignUpPut, NumberSave, NumberPut, NumberState, Encrypt,
         SealCounters, SealSave, SealPut, Send, SendFails, WriteFails,
         Local, Write, Put, history
<1>2. ASSUME NEW t, task' = [task EXCEPT ![h] = t],
             t.frame = task[h].frame, Pending(t) => Pending(task[h])
      PROVE  ReplayInv'
  BY <1>0, <1>1, <1>2, FollowsElsewhere, ReplayMove
<1>3. ASSUME NEW l \in {"closed", "recv"}, NEW told,
             \/ task' = [task EXCEPT ![h] = At(l)]
             \/ task' = [task EXCEPT ![h] = [At(l) EXCEPT !.told = told]]
      PROVE  ReplayInv'
  BY <1>1, <1>3, ReplayEnds
<1>4. CASE AcceptRecv(h) \/ AcceptCounters(h) \/ AcceptSave(h)
  <2>1. PICK l \in Storing, k \in Storing :
           /\ task[h].pc = l
           /\ task' = [task EXCEPT ![h] = [task[h] EXCEPT !.pc = k]]
    BY <1>4 DEF AcceptRecv, AcceptCounters, AcceptSave, Write, Go, Storing
  <2>2. PICK t : t = [task[h] EXCEPT !.pc = k]
    OBVIOUS
  <2>3. t.frame = task[h].frame /\ Pending(task[h])
    BY <1>0, <2>1, <2>2 DEF Task, Pending
  <2>. QED  BY <1>2, <2>1, <2>2, <2>3
<1>5. CASE AcceptPut(h)
  <2>1. PICK c, t : /\ t = [task[h] EXCEPT !.pc = "handle", !.session = {},
                                           !.crypto = {c}]
                    /\ task' = [task EXCEPT ![h] = t]
                    /\ task[h].pc = "accept_put"
    BY <1>5 DEF AcceptPut, Put, Go
  <2>2. t.frame = task[h].frame /\ Pending(task[h])
    BY <1>0, <2>1 DEF Task, Pending, Storing
  <2>. QED  BY <1>2, <2>1, <2>2
<1>6. CASE SignUpUser(h)
  <2>1. PICK t : /\ t = [task[h] EXCEPT !.pc = "lookup", !.site = "signup"]
                 /\ task' = [task EXCEPT ![h] = t]
    BY <1>6 DEF SignUpUser, Write, Go
  <2>2. t.frame = task[h].frame /\ ~Pending(t)
    BY <1>0, <2>1 DEF Task, Pending, Storing
  <2>. QED  BY <1>2, <2>1, <2>2
<1>7. CASE SignUpSave(h)
  <2>1. PICK e, t : /\ t = [task[h] EXCEPT !.pc = "signup_put",
                                           !.session = {e}]
                    /\ task' = [task EXCEPT ![h] = t]
    BY <1>7 DEF SignUpSave, Write, Go
  <2>2. t.frame = task[h].frame /\ ~Pending(t)
    BY <1>0, <2>1 DEF Task, Pending, Storing
  <2>. QED  BY <1>2, <2>1, <2>2
<1>8. CASE SignUpPut(h)
  BY <1>3, <1>8 DEF SignUpPut, Put, Go, Back
<1>9. CASE NumberSave(h)
  <2>1. PICK s \in task[h].session :
           Go(h, "number_save",
              [task[h] EXCEPT
                 !.pc = "number_put",
                 !.session = {Numbered(s)},
                 !.number = {[seq |-> Numbered(s).sseq, ctr |-> s.mctr]}])
    BY <1>9 DEF NumberSave, Write
  <2>. DEFINE n == {[seq |-> Numbered(s).sseq, ctr |-> s.mctr]}
              t == [task[h] EXCEPT !.pc = "number_put",
                       !.session = {Numbered(s)}, !.number = n]
  <2>. HIDE DEF n
  <2>2. t.frame = task[h].frame /\ ~Pending(t)
    BY <1>0 DEF Task, Pending, Storing
  <2>3. task' = [task EXCEPT ![h] = t]
    BY <2>1 DEF Go, n
  <2>. HIDE DEF t
  <2>. QED  BY <1>2, <2>2, <2>3
<1>10. CASE NumberPut(h) \/ SealSave(h)
  <2>0. PICK l \in {"number_state", "seal_put"} :
           task' = [task EXCEPT ![h] = [task[h] EXCEPT !.pc = l]]
    BY <1>10 DEF NumberPut, SealSave, Put, Write, Go
  <2>1. PICK t : /\ t = [task[h] EXCEPT !.pc = l]
                 /\ task' = [task EXCEPT ![h] = t]
    BY <2>0
  <2>2. t.frame = task[h].frame /\ ~Pending(t)
    BY <1>0, <2>1 DEF Task, Pending, Storing
  <2>. QED  BY <1>2, <2>1, <2>2
<1>11. CASE NumberState(h) \/ SealPut(h)
  <2>0. PICK l \in {"encrypt", "send"} :
           task' = [task EXCEPT ![h] =
                      [task[h] EXCEPT !.pc = l, !.session = {}]]
    BY <1>11 DEF NumberState, SealPut, Put, Write, Go
  <2>1. PICK t : /\ t = [task[h] EXCEPT !.pc = l, !.session = {}]
                 /\ task' = [task EXCEPT ![h] = t]
    BY <2>0
  <2>2. t.frame = task[h].frame /\ ~Pending(t)
    BY <1>0, <2>1 DEF Task, Pending, Storing
  <2>. QED  BY <1>2, <2>1, <2>2
<1>12. CASE Encrypt(h)
  <2>1. PICK f \in task[h].frame, c \in task[h].crypto,
             n \in task[h].number :
           Go(h, "encrypt",
              [task[h] EXCEPT
                  !.pc = "lookup",
                  !.site = "seal",
                  !.crypto = {[c EXCEPT !.send = @ + 1]},
                  !.answer = {[msg |-> now * CtrBase + n.ctr, seq |-> n.seq,
                               for |-> f.msg, nonce |-> c.send]}])
    BY <1>12 DEF Encrypt, Local
  <2>. DEFINE d == {[c EXCEPT !.send = @ + 1]}
              a == {[msg |-> now * CtrBase + n.ctr, seq |-> n.seq,
                     for |-> f.msg, nonce |-> c.send]}
              t == [task[h] EXCEPT !.pc = "lookup", !.site = "seal",
                                   !.crypto = d, !.answer = a]
  <2>2. task' = [task EXCEPT ![h] = t]
    BY <2>1 DEF Go
  <2>. HIDE DEF d, a
  <2>3. t.frame = task[h].frame /\ ~Pending(t)
    BY <1>0 DEF Task, Pending, Storing
  <2>. HIDE DEF t
  <2>. QED  BY <1>2, <2>2, <2>3
<1>13. CASE SealCounters(h)
  <2>1. PICK e, t : /\ t = [task[h] EXCEPT !.pc = "seal_save",
                                           !.session = {e}]
                    /\ task' = [task EXCEPT ![h] = t]
    BY <1>13 DEF SealCounters, Write, Go
  <2>2. t.frame = task[h].frame /\ ~Pending(t)
    BY <1>0, <2>1 DEF Task, Pending, Storing
  <2>. QED  BY <1>2, <2>1, <2>2
<1>14. CASE Send(h)
  <2>1. PICK a : task' = [task EXCEPT ![h] = [At("recv") EXCEPT
                                                 !.told = {a.seq}]]
    BY <1>14 DEF Send, Go
  <2>. QED  BY <1>3, <2>1
<1>15. CASE SendFails(h) \/ WriteFails(h)
  <2>1. task' = [task EXCEPT ![h] = At("closed")]
    BY <1>15 DEF SendFails, WriteFails, Local, Go
  <2>. QED  BY <1>3, <2>1
<1>. QED  BY <1>4, <1>5, <1>6, <1>7, <1>8, <1>9, <1>10, <1>11, <1>12, <1>13,
             <1>14, <1>15

(* A request that is accepted was not on the list of its handler's clone:  *)
(* had it been accepted or executed before, it would be one that is lost.  *)
LEMMA ReplayAccept ==
  ASSUME TypeOK, ReplayInv, Loses, NEW h \in Handlers, Accept(h)
  PROVE  ReplayInv'
<1>0. PICK f \in task[h].frame, s \in task[h].session :
         /\ Passes(s, f) /\ task[h].pc = "check"
         /\ task' = [task EXCEPT ![h] =
                       [task[h] EXCEPT !.pc = "accept_recv",
                                       !.session = {AcceptedBy(s, f)}]]
         /\ recent' = [recent EXCEPT ![s.rec] = Remember(@, f.msg)]
  BY DEF Accept, Go
<1>1. PICK t :
         /\ Passes(s, f) /\ task[h].pc = "check"
         /\ t = [task[h] EXCEPT !.pc = "accept_recv",
                                !.session = {AcceptedBy(s, f)}]
         /\ task' = [task EXCEPT ![h] = t]
         /\ recent' = [recent EXCEPT ![s.rec] = Remember(@, f.msg)]
  BY <1>0
<1>2. executed' = executed
  BY DEF Accept, history
<1>3. /\ task[h] \in Task /\ s \in Session /\ f \in Frame /\ f.msg \in MsgIds
      /\ Lone(task[h].frame)
      /\ \A i \in DOMAIN executed : executed[i] \in MsgIds
      /\ \A g \in Handlers : \A e \in task[g].frame : e.msg \in MsgIds
  BY Typed, FrameType DEF TypeOK, GoodTask, ReplayInv
<1>4. t.frame = task[h].frame /\ t.session = {AcceptedBy(s, f)}
      /\ t.pc = "accept_recv"
  BY <1>1, <1>3 DEF Task
<1>5. \A g \in Handlers : task'[g] = IF g = h THEN t ELSE task[g]
  BY <1>1 DEF TypeOK
<1>6. f.msg \notin Kept
  <2>1. s.rec \in LiveRefs
    BY DEF LiveRefs
  <2>. QED  BY <1>1, <2>1 DEF Passes, Kept
<1>7. f.msg \in Noted'
  <2>1. AcceptedBy(s, f).rec = s.rec /\ s.rec \in Refs
    <3>1. PICK e : e = [s EXCEPT !.rseq = f.seq, !.last = f.msg]
      OBVIOUS
    <3>2. e \in Session /\ e.rec = s.rec
      BY <1>3, <3>1, FrameType DEF Session
    <3>3. AcceptedBy(s, f) = [e EXCEPT !.crecv = s.crecv + 1]
      BY <1>3, <3>1 DEF AcceptedBy, Session
    <3>. QED  BY <1>3, <3>2, <3>3 DEF Session
  <2>2. s.rec \in LiveRefs'
    BY <1>4, <1>5, <2>1 DEF LiveRefs
  <2>3. PICK q \in Seq(MsgIds) : q = recent[s.rec] /\ Len(q) <= RecentCap
    BY <2>1 DEF TypeOK
  <2>4. Contains(Remember(q, f.msg), f.msg)
    <3>1. PICK p \in Seq(MsgIds) : Remember(q, f.msg) = Append(p, f.msg)
      <4>1. CASE Len(q) < RecentCap
        BY <4>1 DEF Remember
      <4>2. CASE ~(Len(q) < RecentCap)
        <5>1. q # <<>>
          BY <2>3, <4>2, BoundsAssumption
        <5>2. Tail(q) \in Seq(MsgIds)
          BY <5>1
        <5>. QED  BY <4>2, <5>2 DEF Remember
      <4>. QED  BY <4>1, <4>2
    <3>2. Len(p) + 1 \in DOMAIN Append(p, f.msg)
          /\ Append(p, f.msg)[Len(p) + 1] = f.msg
      BY <1>3, <3>1
    <3>. QED  BY <3>1, <3>2 DEF Contains
  <2>5. recent'[s.rec] = Remember(q, f.msg)
    BY <1>1, <2>1, <2>3 DEF TypeOK
  <2>6. Contains(recent'[s.rec], f.msg)
    BY <2>4, <2>5
  <2>. QED  BY <1>3, <2>2, <2>6 DEF Noted, Contains
<1>8. /\ \A m \in MsgIds : Guarded(m) => Guarded(m)'
      /\ Guarded(f.msg)' /\ \A m \in lost : m \in lost'
  BY <1>7, GuardedStays
<1>9. /\ \A i \in DOMAIN executed : executed[i] = f.msg => f.msg \in lost'
      /\ \A g \in Handlers : Pending(task[g]) =>
            \A e \in task[g].frame : e.msg = f.msg => f.msg \in lost'
  <2>1. ASSUME Guarded(f.msg) PROVE f.msg \in lost'
    BY <1>6, <1>8, <2>1 DEF Guarded
  <2>. QED  BY <2>1 DEF ReplayInv
<1>10. \A e \in task[h].frame : e = f
  BY <1>3 DEF Lone
<1>11. ASSUME NEW g \in Handlers
       PROVE  /\ Lone(task'[g].frame)
              /\ Pending(task'[g]) => \A e \in task'[g].frame :
                    /\ Guarded(e.msg)'
                    /\ \A i \in DOMAIN executed :
                          executed[i] = e.msg => e.msg \in lost'
                    /\ \A k \in Handlers \ {g} :
                          Pending(task'[k]) => \A d \in task'[k].frame :
                             d.msg = e.msg => e.msg \in lost'
  <2>1. CASE g = h
    BY <1>3, <1>4, <1>5, <1>8, <1>9, <1>10, <2>1
  <2>2. CASE g # h
    <3>1. task'[g] = task[g] /\ Lone(task[g].frame)
      BY <1>5, <2>2 DEF ReplayInv
    <3>2. ASSUME Pending(task[g]), NEW e \in task[g].frame
          PROVE  /\ Guarded(e.msg)'
                 /\ \A i \in DOMAIN executed :
                       executed[i] = e.msg => e.msg \in lost'
                 /\ \A k \in Handlers \ {g} :
                       Pending(task'[k]) => \A d \in task'[k].frame :
                          d.msg = e.msg => e.msg \in lost'
      <4>1. Guarded(e.msg)'
        BY <1>3, <1>8, <3>2 DEF ReplayInv
      <4>2. \A i \in DOMAIN executed : executed[i] = e.msg => e.msg \in lost'
        BY <1>8, <3>2 DEF ReplayInv
      <4>3. ASSUME NEW k \in Handlers \ {g}, Pending(task'[k]),
                   NEW d \in task'[k].frame, d.msg = e.msg
            PROVE  e.msg \in lost'
        <5>1. CASE k = h
          <6>1. d = f
            BY <1>4, <1>5, <1>10, <4>3, <5>1
          <6>. QED  BY <1>9, <3>2, <4>3, <6>1
        <5>2. CASE k # h
          <6>1. task'[k] = task[k]
            BY <1>5, <5>2
          <6>. QED  BY <1>8, <3>2, <4>3, <6>1 DEF ReplayInv
        <5>. QED  BY <5>1, <5>2
      <4>. QED  BY <4>1, <4>2, <4>3
    <3>. QED  BY <3>1, <3>2
  <2>. QED  BY <2>1, <2>2
<1>12. ExecutedOnceWhileKept' /\ \A i \in DOMAIN executed' : Guarded(executed[i])'
  BY <1>2, <1>3, <1>8 DEF ReplayInv, ExecutedOnceWhileKept
<1>13. \A g \in Handlers : Pending(task[g])' <=> Pending(task'[g])
  BY DEF Pending, Storing
<1>. QED  BY <1>2, <1>11, <1>12, <1>13 DEF ReplayInv, Lone

(* A request that is executed is no longer pending.                        *)
LEMMA ReplayHandle ==
  ASSUME TypeOK, ReplayInv, Loses, NEW h \in Handlers, Handle(h)
  PROVE  ReplayInv'
<1>0. PICK f \in task[h].frame : \E t :
         /\ task[h].pc = "handle" /\ task' = [task EXCEPT ![h] = t]
         /\ \/ t = [task[h] EXCEPT !.pc = "lookup", !.site = "number"]
            \/ t = [task[h] EXCEPT !.pc = "signup_user", !.user = users + 1]
            \/ t = At("closed") \/ t = Back(h)
         /\ executed' = executed \/ executed' = Append(executed, f.msg)
  BY DEF Handle, Go
<1>1. PICK t :
         /\ task[h].pc = "handle" /\ task' = [task EXCEPT ![h] = t]
         /\ \/ t = [task[h] EXCEPT !.pc = "lookup", !.site = "number"]
            \/ t = [task[h] EXCEPT !.pc = "signup_user", !.user = users + 1]
            \/ t = At("closed") \/ t = Back(h)
         /\ executed' = executed \/ executed' = Append(executed, f.msg)
  BY <1>0
<1>2. /\ task[h] \in Task /\ f.msg \in MsgIds /\ Lone(task[h].frame)
      /\ executed \in Seq(MsgIds)
      /\ \A g \in Handlers : \A e \in task[g].frame : e.msg \in MsgIds
  BY Typed, FrameType DEF TypeOK, GoodTask, ReplayInv
<1>3. ~Pending(t) /\ Lone(t.frame)
  <2>1. CASE \/ t = [task[h] EXCEPT !.pc = "lookup", !.site = "number"]
             \/ t = [task[h] EXCEPT !.pc = "signup_user", !.user = users + 1]
    BY <1>2, <2>1 DEF Task, Pending, Storing
  <2>2. CASE t = At("closed") \/ t = Back(h)
    BY <2>2 DEF At, Back, Pending, Storing, Lone
  <2>. QED  BY <1>1, <2>1, <2>2
<1>4. CASE executed' = executed
  BY <1>1, <1>3, <1>4, ReplayMove DEF Follows
<1>5. CASE executed' = Append(executed, f.msg)
  <2>1. /\ \A m \in MsgIds : Guarded(m) => Guarded(m)'
        /\ \A m \in lost : m \in lost'
    BY GuardedStays
  <2>2. \A i \in DOMAIN executed' :
           \/ i \in DOMAIN executed /\ executed'[i] = executed[i]
           \/ i = Len(executed) + 1 /\ executed'[i] = f.msg
    BY <1>2, <1>5
  <2>3. Pending(task[h])
    BY <1>1 DEF Pending
  <2>4. /\ Guarded(f.msg)
        /\ \A i \in DOMAIN executed : executed[i] = f.msg => f.msg \in lost
        /\ \A g \in Handlers \ {h} : Pending(task[g]) =>
              \A e \in task[g].frame : e.msg = f.msg => f.msg \in lost
    BY <2>3 DEF ReplayInv
  <2>5. ASSUME NEW i \in DOMAIN executed' PROVE Guarded(executed[i])'
    <3>1. PICK m \in MsgIds : m = executed'[i] /\ Guarded(m)
      <4>1. \A j \in DOMAIN executed : executed[j] \in MsgIds
                                      /\ Guarded(executed[j])
        BY <1>2 DEF ReplayInv
      <4>. QED  BY <1>2, <2>2, <2>4, <4>1
    <3>2. Guarded(m)'
      BY <2>1, <3>1
    <3>. QED  BY <3>1, <3>2
  <2>6. ASSUME NEW i \in DOMAIN executed', NEW j \in DOMAIN executed',
               executed'[i] = executed'[j], i # j
        PROVE  executed'[i] \in lost'
    BY <2>1, <2>2, <2>4, <2>6 DEF ReplayInv, ExecutedOnceWhileKept
  <2>7. ASSUME NEW g \in Handlers
        PROVE  /\ Lone(task'[g].frame)
               /\ Pending(task'[g]) =>
                     /\ g # h /\ task'[g] = task[g] /\ Pending(task[g])
    BY <1>1, <1>3 DEF TypeOK, ReplayInv
  <2>8. ASSUME NEW g \in Handlers, Pending(task'[g]), NEW e \in task'[g].frame
        PROVE  /\ Guarded(e.msg)'
               /\ \A i \in DOMAIN executed' :
                     executed'[i] = e.msg => e.msg \in lost'
               /\ \A k \in Handlers \ {g} :
                     Pending(task'[k]) => \A d \in task'[k].frame :
                        d.msg = e.msg => e.msg \in lost'
    <3>1. g # h /\ e \in task[g].frame /\ Pending(task[g]) /\ e.msg \in MsgIds
      BY <1>2, <2>7, <2>8
    <3>2. Guarded(e.msg)'
      BY <2>1, <3>1 DEF ReplayInv
    <3>3. ASSUME NEW i \in DOMAIN executed', executed'[i] = e.msg
          PROVE  e.msg \in lost'
      <4>1. CASE i \in DOMAIN executed /\ executed'[i] = executed[i]
        BY <2>1, <3>1, <3>3, <4>1 DEF ReplayInv
      <4>2. CASE executed'[i] = f.msg
        BY <2>1, <2>4, <3>1, <3>3, <4>2
      <4>. QED  BY <2>2, <4>1, <4>2
    <3>4. ASSUME NEW k \in Handlers \ {g}, Pending(task'[k]),
                 NEW d \in task'[k].frame, d.msg = e.msg
          PROVE  e.msg \in lost'
      <4>1. d \in task[k].frame /\ Pending(task[k])
        BY <2>7, <3>4
      <4>. QED  BY <2>1, <3>1, <3>4, <4>1 DEF ReplayInv
    <3>. QED  BY <3>2, <3>3, <3>4
  <2>9. \A g \in Handlers : Pending(task[g])' <=> Pending(task'[g])
    BY DEF Pending, Storing
  <2>10. ExecutedOnceWhileKept'
    BY <2>6 DEF ExecutedOnceWhileKept
  <2>. QED  BY <2>5, <2>7, <2>8, <2>9, <2>10 DEF ReplayInv, Lone
<1>. QED  BY <1>1, <1>4, <1>5

(* What happens outside the handlers accepts nothing.                      *)
LEMMA ReplayOutside ==
  ASSUME TypeOK, ReplayInv, Loses,
         \/ \E h \in Handlers : Connect(h) \/ HangUp(h) \/ Receive(h)
         \/ Evict \/ Crash \/ Tick \/ ClockBack
  PROVE  ReplayInv'
<1>1. executed' = executed
  BY DEF Connect, HangUp, Receive, Local, Evict, Crash, Tick, ClockBack,
         history
<1>2. ASSUME NEW h \in Handlers, Connect(h) \/ HangUp(h) PROVE ReplayInv'
  <2>1. PICK l \in {"recv", "closed"} : task' = [task EXCEPT ![h] = At(l)]
    BY <1>2 DEF Connect, HangUp, Local, Go
  <2>. QED  BY <1>1, <2>1, ReplayEnds
<1>3. ASSUME NEW h \in Handlers, Receive(h) PROVE ReplayInv'
  <2>1. PICK f, t : /\ task' = [task EXCEPT ![h] = t]
                    /\ t = [task[h] EXCEPT !.pc = "lookup", !.site = "route",
                                           !.frame = {f}]
    BY <1>3 DEF Receive, Local, Go
  <2>2. t.frame = {f} /\ t.pc = "lookup"
    BY <2>1 DEF TypeOK, Task
  <2>3. Follows(t, task[h])
    BY <2>2 DEF Follows, Pending, Storing, Lone
  <2>. QED  BY <1>1, <2>1, <2>3, ReplayMove
<1>4. ASSUME Evict \/ Tick \/ ClockBack PROVE ReplayInv'
  <2>1. task' = task
    BY <1>4 DEF Evict, Tick, ClockBack
  <2>2. \A h \in Handlers : Follows(task'[h], task[h])
    BY <2>1 DEF Follows, ReplayInv
  <2>. QED  BY <1>1, <2>2, ReplayStep
<1>5. CASE Crash
  <2>1. task' = [h \in Handlers |-> At("closed")]
    BY <1>5 DEF Crash
  <2>2. \A h \in Handlers : task'[h].frame = {} /\ task'[h].pc = "closed"
    BY <2>1 DEF At
  <2>3. \A h \in Handlers : Follows(task'[h], task[h])
    BY <2>2 DEF Follows, Pending, Storing, Lone
  <2>. QED  BY <1>1, <2>3, ReplayStep
<1>. QED  BY <1>2, <1>3, <1>4, <1>5

LEMMA ReplayStepOrStutter ==
  ASSUME TypeOK, ReplayInv, [ReplayNext]_<<vars, lost>>
  PROVE  ReplayInv'
<1>1. CASE ReplayNext
  <2>1. Loses /\ Next
    BY <1>1 DEF ReplayNext, Loses
  <2>2. ASSUME NEW h \in Handlers, Step(h) PROVE ReplayInv'
    BY <2>1, <2>2, ReplayLookup, ReplayAccept, ReplayHandle, ReplayAnswer
       DEF Step
  <2>3. CASE \/ \E h \in Handlers : Connect(h) \/ HangUp(h) \/ Receive(h)
             \/ Evict \/ Crash \/ Tick \/ ClockBack
    BY <2>1, <2>3, ReplayOutside
  <2>. QED  BY <2>1, <2>2, <2>3 DEF Next
<1>2. CASE UNCHANGED <<vars, lost>>
  <2>1. UNCHANGED <<task, cache, recent, executed, lost>>
    BY <1>2 DEF vars, server, history
  <2>2. LiveRefs' = LiveRefs
    BY <2>1 DEF LiveRefs
  <2>3. Kept' = Kept
    BY <2>1, <2>2 DEF Kept, Contains
  <2>4. \A m : Guarded(m)' <=> Guarded(m)
    BY <2>1, <2>3 DEF Guarded
  <2>5. ExecutedOnceWhileKept'
    BY <2>1 DEF ReplayInv, ExecutedOnceWhileKept
  <2>6. \A t : Pending(t)' <=> Pending(t)
    BY DEF Pending, Storing
  <2>7. \A i \in DOMAIN executed' : Guarded(executed[i])'
    BY <2>1, <2>4 DEF ReplayInv
  <2>8. PICK u : u = task /\ u = task'
    BY <2>1
  <2>9. ASSUME NEW h \in Handlers
        PROVE  /\ Lone(u[h].frame)
               /\ Pending(u[h]) => \A f \in u[h].frame :
                     /\ Guarded(f.msg)'
                     /\ \A i \in DOMAIN executed' :
                           executed'[i] = f.msg => f.msg \in lost'
                     /\ \A g \in Handlers \ {h} :
                           Pending(u[g]) => \A e \in u[g].frame :
                              e.msg = f.msg => f.msg \in lost'
    BY <2>1, <2>4, <2>8 DEF ReplayInv
  <2>. QED  BY <2>5, <2>7, <2>8, <2>9 DEF ReplayInv, Lone, Pending, Storing
<1>. QED  BY <1>1, <1>2

(* server.rs:193-201: for any number of connections of the session, any    *)
(* capacity of the list and any disturbances, a request whose msg_id the   *)
(* lists in use have all kept since it was accepted is not executed a      *)
(* second time.                                                            *)
THEOREM ExecutedOnceWhileKeptCorrect == ReplaySpec => []ExecutedOnceWhileKept
<1>1. ReplayInit => TypeOK /\ ReplayInv
  <2>. SUFFICES ASSUME ReplayInit PROVE TypeOK /\ ReplayInv
    OBVIOUS
  <2>1. executed = <<>> /\ task = [h \in Handlers |-> At("closed")]
    BY DEF ReplayInit, Init
  <2>2. \A h \in Handlers : task[h].frame = {} /\ task[h].pc = "closed"
    BY <2>1 DEF At
  <2>. QED  BY <2>1, <2>2, InitType
            DEF ReplayInit, ReplayInv, ExecutedOnceWhileKept, Lone
<1>2. TypeOK /\ ReplayInv /\ [ReplayNext]_<<vars, lost>>
         => (TypeOK /\ ReplayInv)'
  <2>1. TypeOK /\ [ReplayNext]_<<vars, lost>> => TypeOK'
    BY NextType DEF ReplayNext
  <2>. QED  BY <2>1, ReplayStepOrStutter
<1>3. ReplayInv => ExecutedOnceWhileKept
  BY DEF ReplayInv
<1>. QED  BY <1>1, <1>2, <1>3, PTL DEF ReplaySpec

=============================================================================
