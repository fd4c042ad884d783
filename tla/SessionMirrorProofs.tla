------------------------- MODULE SessionMirrorProofs -------------------------
(***************************************************************************)
(* Cache and row: what the two say of each other while a handler works on  *)
(* both, for any number of handlers of which one at a time has a           *)
(* connection.  The entry is never ahead of the row, the row has all its   *)
(* fields, the row moves forward, the answers on a connection are numbered *)
(* without gaps, and so SessionServer implements SessionLedger.            *)
(***************************************************************************)
EXTENDS SessionOrderProofs

-----------------------------------------------------------------------------
(* The invariant *)

(* s is the session get_session would build from the row, but for the      *)
(* receive counter of its crypto context.                                  *)
Agrees(s, row) ==
    /\ s.rseq = row.rseq /\ s.last = row.last /\ s.sctr = row.sctr
    /\ s.rctr = row.rctr /\ s.sseq = row.sseq /\ s.mctr = row.mctr
Matches(s, row) == s.user = row.user /\ Agrees(s, row)

(* All that s has handed out is on disk.                                   *)
Within(s, row) ==
    /\ s.last <= row.last
    /\ s.sctr <= row.sctr /\ s.csend <= row.sctr
    /\ s.sseq <= row.sseq /\ s.mctr <= row.mctr

(* Nothing has been sealed that the field send_counter does not count, and *)
(* no more counted as received than the crypto context has.                *)
Whole(s) == s.csend = s.sctr /\ s.rctr <= s.crecv

(* The clock is never set back.                                            *)
Steady == "clock_back" \notin Disturbances

Looking == {"lookup", "lookup_read", "lookup_fill"}

(* Where a handler has not begun to change anything, ...                   *)
Taking(t) == \/ t.pc \in {"recv", "check"}
             \/ t.pc \in Looking /\ t.site \in {"route", "session"}
(* ... where it is recording a request, ...                                *)
Recording(t) == t.pc \in {"accept_recv", "accept_counters", "accept_save"}
(* ... where it has given the session its user and looks it up again, ...  *)
Naming(t) == \/ t.pc = "signup_save"
             \/ t.pc \in Looking /\ t.site = "signup"
(* ... and where row and cache are to agree, ...                           *)
Settled(t) ==
    \/ t.pc \in {"handle", "signup_user", "number_save", "number_state",
                 "encrypt", "seal_counters", "send"}
    \/ t.pc \in Looking /\ t.site \in {"number", "seal"}
(* ... or the row already has what the cache is about to get.              *)
Stored(t) == t.pc \in {"accept_put", "signup_put", "number_put",
                       "number_state", "seal_save", "seal_put"}

(* No write of the row has failed, or only before this connection was      *)
(* answered for the last time.                                             *)
Sound(t, bad) == ~bad \/ t.told # {}

(* What task t, the row and the cache say of each other.                   *)
Mirrored(t, row, entries, bad) ==
    /\ t.pc \in {"closed", "recv"} =>
           t.session = {} /\ t.row = {} /\ t.crypto = {} /\ t.number = {}
           /\ t.answer = {}
    /\ t.pc = "closed" => t.told = {}
    /\ t.pc \in Looking => t.site \in {"route", "session", "signup", "number",
                                       "seal"}
    /\ t.row # {} => t.pc = "lookup_fill"
    /\ \A r \in t.row : r = row
    /\ \A s \in t.session : Whole(s)
    /\ Taking(t) \/ Recording(t) \/ t.pc = "accept_put" => t.crypto = {}
    /\ Taking(t) /\ Sound(t, bad) =>
           \A s \in entries \cup t.session : Matches(s, row)
    /\ t.pc = "check" \/ Recording(t) =>
           \A s \in t.session, c \in entries :
              /\ c.last <= s.last /\ c.sctr <= s.sctr /\ c.csend <= s.sctr
              /\ c.sseq <= s.sseq /\ c.mctr <= s.mctr
    /\ Recording(t) /\ Sound(t, bad) =>
           \A s \in t.session :
              /\ s.user = row.user /\ s.sctr = row.sctr
              /\ s.sseq = row.sseq /\ s.mctr = row.mctr
              /\ row.last <= s.last /\ row.rseq <= s.rseq
              /\ t.pc # "accept_recv" => s.last = row.last /\ s.rseq = row.rseq
              /\ t.pc # "accept_save" => s.rctr = row.rctr
    /\ Naming(t) => /\ row.user = t.user
                    /\ \A s \in entries \cup t.session : Agrees(s, row)
    /\ Settled(t) => \A s \in entries \cup t.session : Matches(s, row)
    /\ Stored(t) => \A s \in t.session : Matches(s, row)
    /\ Lone(t.crypto)
    /\ \A c \in t.crypto :
           /\ row.rctr <= c.recv
           /\ c.send =
                 IF t.answer # {} /\ (t.pc \in Looking \cup {"seal_counters"})
                 THEN row.sctr + 1 ELSE row.sctr

(* The answers sent so far are numbered below what x gives out next, up to *)
(* its own seq_no; their msg_ids, too, unless the clock may be set back.   *)
Unsent(x) ==
    \A i \in DOMAIN sent :
       /\ sent[i].seq <= x.sseq
       /\ Steady => sent[i].msg < now * CtrBase + x.mctr

(* The request at hand is the latest executed, and not answered yet.       *)
Latest(m) == /\ executed # <<>> /\ executed[Len(executed)] = m
             /\ \A i \in DOMAIN sent : sent[i].for < m

Replying(t) == \/ t.pc \in {"number_save", "number_put", "number_state",
                            "encrypt", "seal_counters", "seal_save",
                            "seal_put", "send"}
               \/ t.pc \in Looking /\ t.site \in {"number", "seal"}

(* It is about to get the number of its answer.                            *)
Reserving(t) == \/ t.pc = "number_save"
                \/ t.pc \in Looking /\ t.site = "number"

(* A handler's answer is the next one.                                     *)
Numbering(t, row) ==
    /\ t.number = {} => t.answer = {}
    /\ t.number # {} => Replying(t) /\ ~Reserving(t)
    /\ t.answer # {} => t.site = "seal" /\ t.pc \in Sealing
    /\ \A s \in t.session : Unsent(s)
    /\ \A n \in t.number :
          /\ n.seq = row.sseq /\ n.ctr + 1 = row.mctr
          /\ \A i \in DOMAIN sent :
                /\ sent[i].seq < n.seq
                /\ Steady => sent[i].msg < now * CtrBase + n.ctr
    /\ \A a \in t.answer :
          /\ a.seq = row.sseq
          /\ Steady => a.msg < now * CtrBase + row.mctr
          /\ \A i \in DOMAIN sent : /\ sent[i].seq < a.seq
                                    /\ Steady => sent[i].msg < a.msg
          /\ Latest(a.for)
    /\ Replying(t) => \A f \in t.frame : Latest(f.msg)
    /\ \A p \in t.told :
          IF t.number = {} THEN p = row.sseq ELSE p + 1 = row.sseq

(* Every answer is one to a request that has been executed.                *)
Grounded == \A i \in DOMAIN sent : \E j \in DOMAIN executed :
                sent[i].for = executed[j]

(* The inductive invariant behind the theorems of this module.             *)
MirrorInv ==
    /\ WriteAhead /\ Grounded
    /\ \A s \in cache : Whole(s)
    /\ ~failed /\ (\A h \in Handlers : ~Opened(h)) =>
           \A s \in cache : Matches(s, db)
    /\ Unsent(db) /\ \A s \in cache : Unsent(s)
    /\ \A h \in Handlers : Mirrored(task[h], db, cache, failed)
    /\ \A h \in Handlers : Numbering(task[h], db)
-----------------------------------------------------------------------------
(* What a step of the only open handler has to establish *)

(* A handler without a connection has nothing in its hands.                *)
Empty(t) == /\ t.pc = "closed" /\ t.told = {}
            /\ t.session = {} /\ t.row = {} /\ t.crypto = {}
            /\ t.number = {} /\ t.answer = {}

LEMMA EmptyMirrored ==
  ASSUME NEW t, Empty(t), NEW row, NEW entries, NEW bad
  PROVE  Mirrored(t, row, entries, bad) /\ Numbering(t, row)
BY DEF Empty, Mirrored, Numbering, Taking, Recording, Naming, Settled, Stored,
       Replying, Reserving, Looking, Lone

(* Without a connection, nothing is in hand.                               *)
LEMMA ClosedIsEmpty ==
  ASSUME MirrorInv, NEW h \in Handlers, task[h].pc = "closed"
  PROVE  Empty(task[h])
BY DEF MirrorInv, Mirrored, Empty

(* A step of the only open handler that executes and sends nothing.        *)
LEMMA MirrorStep ==
  ASSUME MirrorInv, TypeOK, OneAtATime,
         NEW h \in Handlers, Opened(h), NEW t,
         task' = [task EXCEPT ![h] = t],
         UNCHANGED <<now, executed, sent>>,
         \A s \in cache' : Within(s, db') /\ Whole(s) /\ Unsent(s),
         Unsent(db'),
         Mirrored(t, db', cache', failed'), Numbering(t, db'),
         t.pc = "closed" => failed' \/ \A s \in cache' : Matches(s, db')
  PROVE  MirrorInv'
<1>1. /\ \A x : Unsent(x)' <=> Unsent(x)
      /\ \A m : Latest(m)' <=> Latest(m)
  BY DEF Unsent, Latest
<1>2. \A g \in Handlers : task'[g] = IF g = h THEN t ELSE task[g]
  BY DEF TypeOK
<1>3. ASSUME NEW g \in Handlers
      PROVE  Mirrored(task[g], db, cache, failed)' /\ Numbering(task[g], db)'
  <2>1. CASE g = h
    <3>1. task'[g] = t
      BY <1>2, <2>1
    <3>2. Mirrored(task[g], db, cache, failed)'
      BY <3>1 DEF Mirrored, Taking, Recording, Naming, Settled, Stored, Sound,
                  Looking, Matches, Agrees, Whole
    <3>3. Numbering(task[g], db)'
      BY <1>1, <3>1 DEF Numbering, Replying, Reserving, Looking, Sealing
    <3>. QED  BY <3>2, <3>3
  <2>2. CASE g # h
    <3>1. Empty(task[g]) /\ task'[g] = task[g]
      BY <1>2, <2>2, ClosedIsEmpty DEF OneAtATime, Opened
    <3>. QED  BY <3>1 DEF Empty, Mirrored, Numbering, Taking, Recording,
                          Naming, Settled, Stored, Replying, Reserving,
                          Looking, Lone
  <2>. QED  BY <2>1, <2>2
<1>4. WriteAhead' /\ Grounded'
  BY DEF WriteAhead, Within, MirrorInv, Grounded
<1>5. /\ \A s \in cache' : Whole(s)'
      /\ Unsent(db)' /\ \A s \in cache' : Unsent(s)'
  BY <1>1 DEF Whole
<1>6. (~failed /\ (\A g \in Handlers : ~Opened(g)) =>
           \A s \in cache : Matches(s, db))'
  <2>1. task'[h] = t
    BY <1>2
  <2>. QED  BY <2>1 DEF Opened, Matches, Agrees
<1>. QED  BY <1>3, <1>4, <1>5, <1>6 DEF MirrorInv

(* Such a step on the locals, the row or the cache.                        *)
LEMMA MirrorLocal ==
  ASSUME MirrorInv, TypeOK, OneAtATime,
         NEW h \in Handlers, Opened(h), NEW l, NEW t, Local(h, l, t),
         Mirrored(t, db, cache, failed), Numbering(t, db),
         t.pc = "closed" => failed \/ \A s \in cache : Matches(s, db)
  PROVE  MirrorInv'
<1>1. /\ task' = [task EXCEPT ![h] = t]
      /\ UNCHANGED <<db, cache, now, failed, executed, sent>>
  BY DEF Local, Go, server, outside, history
<1>2. \A s \in cache' : Within(s, db') /\ Whole(s) /\ Unsent(s)
  BY <1>1 DEF MirrorInv, WriteAhead, Within
<1>3. Unsent(db') /\ Mirrored(t, db', cache', failed') /\ Numbering(t, db')
  BY <1>1 DEF MirrorInv
<1>4. t.pc = "closed" => failed' \/ \A s \in cache' : Matches(s, db')
  BY <1>1
<1>. QED  BY <1>1, <1>2, <1>3, <1>4, MirrorStep

(* One that writes the row.                                                *)
LEMMA MirrorWrite ==
  ASSUME MirrorInv, TypeOK, OneAtATime,
         NEW h \in Handlers, Opened(h), NEW l, NEW t, NEW row,
         Write(h, l, row, t),
         \A s \in cache : Within(s, row), Unsent(row),
         Mirrored(t, row, cache, failed), Numbering(t, row),
         t.pc # "closed"
  PROVE  MirrorInv'
<1>1. /\ task' = [task EXCEPT ![h] = t] /\ db' = row
      /\ UNCHANGED <<cache, now, failed, executed, sent>>
  BY DEF Write, Go, outside, history
<1>2. \A s \in cache' : Within(s, db') /\ Whole(s) /\ Unsent(s)
  BY <1>1 DEF MirrorInv
<1>3. Unsent(db') /\ Mirrored(t, db', cache', failed') /\ Numbering(t, db')
  BY <1>1
<1>. QED  BY <1>1, <1>2, <1>3, MirrorStep

(* One that puts the handler's session into the cache.                     *)
LEMMA MirrorPut ==
  ASSUME MirrorInv, TypeOK, OneAtATime,
         NEW h \in Handlers, Opened(h), NEW l, NEW t, Put(h, l, t),
         \A s \in task[h].session : Matches(s, db),
         Mirrored(t, db, task[h].session, failed), Numbering(t, db),
         t.pc # "closed"
  PROVE  MirrorInv'
<1>1. /\ task' = [task EXCEPT ![h] = t] /\ cache' = task[h].session
      /\ UNCHANGED <<db, now, failed, executed, sent>>
  BY DEF Put, Go, outside, history
<1>2. ASSUME NEW s \in task[h].session
      PROVE  Within(s, db) /\ Whole(s) /\ Unsent(s)
  <2>1. Whole(s) /\ Unsent(s)
    BY DEF MirrorInv, Mirrored, Numbering
  <2>2. s \in Session /\ db \in Row
    BY Typed
  <2>. QED  BY <2>1, <2>2 DEF Matches, Agrees, Within, Whole, Session, Row
<1>3. \A s \in cache' : Within(s, db') /\ Whole(s) /\ Unsent(s)
  BY <1>1, <1>2
<1>4. Unsent(db') /\ Mirrored(t, db', cache', failed') /\ Numbering(t, db')
  BY <1>1 DEF MirrorInv
<1>. QED  BY <1>1, <1>3, <1>4, MirrorStep

(* A handler that is back at recv; one whose write has failed.             *)
LEMMA MirroredBack ==
  ASSUME NEW t, t.pc = "recv", t.session = {}, t.row = {}, t.crypto = {},
         t.number = {}, t.answer = {}, NEW row, NEW entries, NEW bad,
         Sound(t, bad) => \A s \in entries : Matches(s, row),
         \A p \in t.told : p = row.sseq
  PROVE  Mirrored(t, row, entries, bad) /\ Numbering(t, row)
BY DEF Mirrored, Numbering, Taking, Recording, Naming, Settled, Stored,
       Replying, Reserving, Looking, Lone

(* What is known of the handler that takes a step.                         *)
LEMMA MirrorFacts ==
  ASSUME MirrorInv, TypeOK, NEW h \in Handlers
  PROVE  /\ Mirrored(task[h], db, cache, failed) /\ Numbering(task[h], db)
         /\ task[h] \in Task /\ db \in Row
         /\ \A s \in task[h].session : s \in Session /\ Whole(s) /\ Unsent(s)
         /\ \A s \in cache : s \in Session /\ Whole(s) /\ Unsent(s)
                             /\ Within(s, db)
         /\ Unsent(db) /\ Lone(cache)
         /\ Lone(task[h].session)
<1>1. /\ Mirrored(task[h], db, cache, failed) /\ Numbering(task[h], db)
      /\ \A s \in cache : Whole(s) /\ Unsent(s) /\ Within(s, db)
      /\ Unsent(db)
  BY DEF MirrorInv, WriteAhead, Within
<1>2. \A s \in task[h].session : Whole(s) /\ Unsent(s)
  BY <1>1 DEF Mirrored, Numbering
<1>3. /\ task[h] \in Task /\ db \in Row
      /\ \A s \in task[h].session : s \in Session
      /\ \A s \in cache : s \in Session
      /\ Lone(task[h].session)
  BY Typed DEF GoodTask
<1>. QED  BY <1>1, <1>2, <1>3 DEF TypeOK
-----------------------------------------------------------------------------
(* The actions *)

(* get_session hands out what the cache or the row holds.                  *)
LEMMA MirrorLookup ==
  ASSUME MirrorInv, TypeOK, OneAtATime, "read_fault" \notin Disturbances,
         NEW h \in Handlers,
         \/ LookupHit(h) \/ LookupMiss(h) \/ LookupRead(h) \/ LookupFill(h)
         \/ LookupFails(h)
  PROVE  MirrorInv'
<1>0. /\ Mirrored(task[h], db, cache, failed) /\ Numbering(task[h], db)
      /\ task[h] \in Task /\ db \in Row
      /\ \A s \in cache : s \in Session /\ Whole(s) /\ Unsent(s)
                          /\ Within(s, db)
      /\ Unsent(db) /\ Lone(cache)
  BY MirrorFacts
<1>1. ASSUME NEW s \in Session, Whole(s), Unsent(s), NEW entries,
             \A c \in entries : c = s,
             Matches(s, db) \/ s \in cache,
             task[h].pc \in {"lookup", "lookup_fill"},
             NEW t, t = Returned(task[h], s)
      PROVE  /\ Mirrored(t, db, entries, failed) /\ Numbering(t, db)
             /\ t.pc # "closed"
  <2>1. /\ t.pc = After(task[h].site) /\ t.row = {}
        /\ t.site = IF task[h].site = "route" THEN "session" ELSE task[h].site
        /\ t.session = IF task[h].site = "route" THEN {} ELSE {s}
        /\ t.frame = task[h].frame /\ t.crypto = task[h].crypto
        /\ t.number = task[h].number /\ t.answer = task[h].answer
        /\ t.told = task[h].told /\ t.user = task[h].user
    BY <1>0, <1>1 DEF Returned, Task
  <2>2. task[h].site \in {"route", "session", "signup", "number", "seal"}
        /\ task[h].pc \in Looking
    BY <1>0, <1>1 DEF Mirrored, Looking
  <2>3. /\ task[h].site \in {"route", "session"} /\ Sound(task[h], failed)
              => Matches(s, db)
        /\ task[h].site = "signup" => db.user = task[h].user /\ Agrees(s, db)
        /\ task[h].site \in {"number", "seal"} => Matches(s, db)
    BY <1>0, <1>1, <2>2 DEF Mirrored, Taking, Naming, Settled, Matches
  <2>4. /\ s.csend = s.sctr /\ s.last \in Int /\ s.sctr \in Nat
        /\ s.sseq \in Int /\ s.mctr \in Nat /\ Whole(s)
    BY <1>1 DEF Whole, Session
  <2>5. \A c \in entries \cup t.session : c = s
    BY <1>1, <2>1
  <2>6. /\ task[h].site \in {"route", "session"} => task[h].crypto = {}
        /\ Lone(task[h].crypto)
        /\ \A c \in task[h].crypto :
              /\ db.rctr <= c.recv
              /\ c.send = IF task[h].answer # {} THEN db.sctr + 1 ELSE db.sctr
        /\ task[h].answer # {} => task[h].site = "seal"
    BY <1>0, <1>1, <2>2 DEF Mirrored, Numbering, Taking, Looking
  <2>7. t.pc = CASE task[h].site = "route" -> "lookup"
                 [] task[h].site = "session" -> "check"
                 [] task[h].site = "signup" -> "signup_save"
                 [] task[h].site = "number" -> "number_save"
                 [] task[h].site = "seal" -> "seal_counters"
    BY <2>1, <2>2 DEF After
  <2>8. Mirrored(t, db, entries, failed)
    <3>1. CASE task[h].site \in {"route", "session"}
      BY <1>1, <2>1, <2>3, <2>4, <2>5, <2>6, <2>7, <3>1
         DEF Mirrored, Taking, Recording, Naming, Settled, Stored, Sound,
             Looking
    <3>2. CASE task[h].site = "signup"
      BY <1>1, <2>1, <2>3, <2>4, <2>5, <2>6, <2>7, <3>2
         DEF Mirrored, Taking, Recording, Naming, Settled, Stored, Looking
    <3>3. CASE task[h].site \in {"number", "seal"}
      BY <1>1, <2>1, <2>3, <2>4, <2>5, <2>6, <2>7, <3>3
         DEF Mirrored, Taking, Recording, Naming, Settled, Stored, Looking
    <3>. QED  BY <2>2, <3>1, <3>2, <3>3
  <2>9. Numbering(t, db)
    BY <1>0, <1>1, <2>1, <2>2, <2>7
       DEF Numbering, Replying, Reserving, Looking, Sealing
  <2>. QED  BY <2>7, <2>8, <2>9, <2>2
<1>2. CASE LookupHit(h)
  <2>1. PICK s \in cache : Local(h, "lookup", Returned(task[h], s))
    BY <1>2 DEF LookupHit
  <2>2. task[h].pc = "lookup" /\ Opened(h)
    BY <2>1 DEF Local, Go, Opened
  <2>3. PICK t : t = Returned(task[h], s)
    OBVIOUS
  <2>4. \A c \in cache : c = s
    BY <1>0 DEF Lone
  <2>5. /\ Mirrored(t, db, cache, failed) /\ Numbering(t, db)
        /\ t.pc # "closed"
    BY <1>0, <1>1, <2>2, <2>3, <2>4
  <2>6. Local(h, "lookup", t)
    BY <2>1, <2>3
  <2>. QED  BY <2>2, <2>5, <2>6, MirrorLocal
<1>3. CASE LookupMiss(h)
  <2>1. PICK t : /\ t = [task[h] EXCEPT !.pc = "lookup_read"]
                 /\ Local(h, "lookup", t)
    BY <1>3 DEF LookupMiss
  <2>2. task[h].pc = "lookup" /\ Opened(h)
    BY <2>1 DEF Local, Go, Opened
  <2>3. /\ t.pc = "lookup_read" /\ t.site = task[h].site /\ t.row = task[h].row
        /\ t.session = task[h].session
        /\ t.frame = task[h].frame /\ t.crypto = task[h].crypto
        /\ t.number = task[h].number /\ t.answer = task[h].answer
        /\ t.told = task[h].told /\ t.user = task[h].user
    BY <1>0, <2>1 DEF Task
  <2>4. Mirrored(t, db, cache, failed)
    BY <1>0, <2>2, <2>3 DEF Mirrored, Taking, Recording, Naming, Settled,
       Stored, Sound, Looking
  <2>5. Numbering(t, db)
    BY <1>0, <2>2, <2>3 DEF Numbering, Replying, Reserving, Looking, Sealing
  <2>. QED  BY <2>1, <2>2, <2>3, <2>4, <2>5, MirrorLocal
<1>4. CASE LookupRead(h)
  <2>1. PICK t : /\ t = [task[h] EXCEPT !.pc = "lookup_fill", !.row = {db}]
                 /\ Local(h, "lookup_read", t)
    BY <1>4 DEF LookupRead
  <2>2. task[h].pc = "lookup_read" /\ Opened(h)
    BY <2>1 DEF Local, Go, Opened
  <2>3. /\ t.pc = "lookup_fill" /\ t.site = task[h].site /\ t.row = {db}
        /\ t.session = task[h].session
        /\ t.frame = task[h].frame /\ t.crypto = task[h].crypto
        /\ t.number = task[h].number /\ t.answer = task[h].answer
        /\ t.told = task[h].told /\ t.user = task[h].user
    BY <1>0, <2>1 DEF Task
  <2>4. Mirrored(t, db, cache, failed)
    BY <1>0, <2>2, <2>3 DEF Mirrored, Taking, Recording, Naming, Settled,
       Stored, Sound, Looking
  <2>5. Numbering(t, db)
    BY <1>0, <2>2, <2>3 DEF Numbering, Replying, Reserving, Looking, Sealing
  <2>. QED  BY <2>1, <2>2, <2>3, <2>4, <2>5, MirrorLocal
<1>5. CASE LookupFill(h)
  <2>1. PICK row \in task[h].row, ref \in Refs :
           /\ Go(h, "lookup_fill", Returned(task[h], Load(row, ref)))
           /\ cache' = {Load(row, ref)}
           /\ UNCHANGED <<db, now, failed, executed, sent>>
    BY <1>5 DEF LookupFill, outside, history
  <2>2. task[h].pc = "lookup_fill" /\ Opened(h) /\ row = db
    BY <1>0, <2>1 DEF Go, Opened, Mirrored
  <2>3. PICK s \in Session : s = Load(row, ref)
    BY <1>0, <2>2, LoadType
  <2>4. Matches(s, db) /\ Whole(s) /\ Unsent(s) /\ Within(s, db)
    <3>1. Matches(s, db) /\ s.csend = s.sctr /\ s.crecv = s.rctr
      BY <2>2, <2>3 DEF Load, Matches, Agrees
    <3>2. s \in Session /\ db \in Row
      BY <1>0
    <3>. QED  BY <1>0, <3>1, <3>2
              DEF Matches, Agrees, Whole, Within, Unsent, Session, Row
  <2>5. PICK t : t = Returned(task[h], s)
    OBVIOUS
  <2>6. /\ Mirrored(t, db, {s}, failed) /\ Numbering(t, db)
        /\ t.pc # "closed"
    BY <1>1, <2>2, <2>4, <2>5
  <2>7. cache' = {s} /\ db' = db /\ failed' = failed
        /\ task' = [task EXCEPT ![h] = t]
    BY <2>1, <2>3, <2>5 DEF Go
  <2>8. \A c \in cache' : Within(c, db') /\ Whole(c) /\ Unsent(c)
    BY <2>4, <2>7
  <2>9. /\ Unsent(db') /\ Mirrored(t, db', cache', failed')
        /\ Numbering(t, db')
    BY <1>0, <2>6, <2>7
  <2>. QED  BY <2>1, <2>2, <2>6, <2>7, <2>8, <2>9, MirrorStep
<1>6. CASE LookupFails(h)
  BY <1>6 DEF LookupFails
<1>. QED  BY <1>2, <1>3, <1>4, <1>5, <1>6

(* A task with its locals gone.                                            *)
LEMMA BareFields ==
  ASSUME NEW l, NEW told
  PROVE  /\ At(l).pc = l /\ [At(l) EXCEPT !.told = told].pc = l
         /\ At(l).told = {} /\ [At(l) EXCEPT !.told = told].told = told
         /\ \A t \in {At(l), [At(l) EXCEPT !.told = told]} :
               /\ t.session = {} /\ t.row = {} /\ t.crypto = {}
               /\ t.number = {} /\ t.answer = {} /\ t.frame = {}
BY DEF At

(* A handler that goes back to recv.                                       *)
LEMMA BackFields ==
  ASSUME NEW h
  PROVE  /\ Back(h).pc = "recv" /\ Back(h).told = task[h].told
         /\ Back(h).session = {} /\ Back(h).row = {} /\ Back(h).crypto = {}
         /\ Back(h).number = {} /\ Back(h).answer = {} /\ Back(h).frame = {}
BY BareFields DEF Back

(* What accepting a frame changes in a session.                            *)
LEMMA AcceptedFields ==
  ASSUME NEW s \in Session, NEW f \in Frame
  PROVE  LET c == AcceptedBy(s, f) IN
         /\ c.rseq = f.seq /\ c.last = f.msg
         /\ c.user = s.user /\ c.sctr = s.sctr /\ c.rctr = s.rctr
         /\ c.sseq = s.sseq /\ c.mctr = s.mctr /\ c.csend = s.csend
         /\ c.crecv = s.crecv + 1
<1>. DEFINE e == [s EXCEPT !.rseq = f.seq, !.last = f.msg]
            c == AcceptedBy(s, f)
<1>1. e \in Session /\ e.last = f.msg /\ e.rseq = f.seq
      /\ e.user = s.user /\ e.sctr = s.sctr /\ e.rctr = s.rctr
      /\ e.sseq = s.sseq /\ e.mctr = s.mctr /\ e.csend = s.csend
  BY FrameType DEF Session
<1>2. c = [e EXCEPT !.crecv = s.crecv + 1]
  BY DEF AcceptedBy, Session
<1>. HIDE DEF c, e
<1>3. /\ c.rseq = e.rseq /\ c.last = e.last /\ c.crecv = s.crecv + 1
      /\ c.user = e.user /\ c.sctr = e.sctr /\ c.rctr = e.rctr
      /\ c.sseq = e.sseq /\ c.mctr = e.mctr /\ c.csend = e.csend
  BY <1>1, <1>2 DEF Session
<1>4. /\ c.rseq = f.seq /\ c.last = f.msg /\ c.crecv = s.crecv + 1
      /\ c.user = s.user /\ c.sctr = s.sctr /\ c.rctr = s.rctr
      /\ c.sseq = s.sseq /\ c.mctr = s.mctr /\ c.csend = s.csend
  BY <1>1, <1>3
<1>. QED  BY <1>4 DEF c

(* What storing the counters of c changes in a session.                    *)
LEMMA SealedFields ==
  ASSUME NEW s \in Session, NEW c \in Crypto
  PROVE  LET e == Sealed(s, c) IN
         /\ e.user = s.user /\ e.rseq = s.rseq /\ e.last = s.last
         /\ e.sctr = c.send /\ e.rctr = c.recv /\ e.sseq = s.sseq
         /\ e.mctr = s.mctr /\ e.csend = c.send /\ e.crecv = c.recv
<1>. DEFINE d == [s EXCEPT !.csend = c.send, !.crecv = c.recv]
            e == Sealed(s, c)
<1>1. d \in Session /\ d.csend = c.send /\ d.crecv = c.recv
      /\ d.user = s.user /\ d.rseq = s.rseq /\ d.last = s.last
      /\ d.sseq = s.sseq /\ d.mctr = s.mctr
  BY DEF Session, Crypto
<1>2. e = [d EXCEPT !.sctr = c.send, !.rctr = c.recv]
  BY DEF Sealed, Session
<1>. HIDE DEF d, e
<1>3. /\ e.user = d.user /\ e.rseq = d.rseq /\ e.last = d.last
      /\ e.sctr = c.send /\ e.rctr = c.recv /\ e.sseq = d.sseq
      /\ e.mctr = d.mctr /\ e.csend = d.csend /\ e.crecv = d.crecv
  BY <1>1, <1>2 DEF Session
<1>4. /\ e.user = s.user /\ e.rseq = s.rseq /\ e.last = s.last
      /\ e.sctr = c.send /\ e.rctr = c.recv /\ e.sseq = s.sseq
      /\ e.mctr = s.mctr /\ e.csend = c.send /\ e.crecv = c.recv
  BY <1>1, <1>3
<1>. QED  BY <1>4 DEF e

(* Recording a request puts its msg_id and seq_no into the clone, then the *)
(* row, then the cache.                                                    *)
LEMMA MirrorAccept ==
  ASSUME MirrorInv, TypeOK, OneAtATime, NEW h \in Handlers,
         \/ Reject(h) \/ RejectLate(h) \/ Accept(h)
         \/ AcceptRecv(h) \/ AcceptCounters(h) \/ AcceptSave(h) \/ AcceptPut(h)
  PROVE  MirrorInv'
<1>0. /\ Mirrored(task[h], db, cache, failed) /\ Numbering(task[h], db)
      /\ task[h] \in Task /\ db \in Row
      /\ \A s \in task[h].session : s \in Session /\ Whole(s) /\ Unsent(s)
      /\ \A s \in cache : s \in Session /\ Whole(s) /\ Unsent(s)
                          /\ Within(s, db)
      /\ Unsent(db) /\ Lone(task[h].session)
  BY MirrorFacts
<1>1. ASSUME task[h].pc = "check"
      PROVE  /\ Opened(h) /\ task[h].number = {} /\ task[h].answer = {}
             /\ task[h].row = {} /\ task[h].crypto = {}
             /\ Sound(task[h], failed) =>
                   \A s \in cache \cup task[h].session : Matches(s, db)
             /\ \A p \in task[h].told : p = db.sseq
  BY <1>0, <1>1
     DEF Opened, Mirrored, Numbering, Taking, Replying, Reserving, Looking
<1>2. ASSUME task[h].pc = "check"
      PROVE  /\ Mirrored(Back(h), db, cache, failed)
             /\ Numbering(Back(h), db)
  BY <1>1, <1>2, BackFields, MirroredBack DEF Sound
<1>3. CASE Reject(h)
  <2>1. PICK t \in {At("closed"), Back(h)} : Local(h, "check", t)
    BY <1>3 DEF Reject
  <2>2. task[h].pc = "check"
    BY <2>1 DEF Local, Go
  <2>3. CASE t = Back(h)
    BY <1>1, <1>2, <2>1, <2>2, <2>3, BackFields, MirrorLocal
  <2>4. CASE t = At("closed")
    <3>1. Mirrored(t, db, cache, failed) /\ Numbering(t, db)
      BY <2>4, BareFields, EmptyMirrored DEF Empty
    <3>2. failed \/ \A s \in cache : Matches(s, db)
      BY <1>1, <2>2 DEF Sound
    <3>. QED  BY <1>1, <2>1, <2>2, <3>1, <3>2, MirrorLocal
  <2>. QED  BY <2>1, <2>3, <2>4
<1>4. CASE RejectLate(h)
  <2>1. /\ Go(h, "check", Back(h))
        /\ UNCHANGED <<cache, db, now, failed, executed, sent>>
    BY <1>4 DEF RejectLate, outside, history
  <2>2. task[h].pc = "check" /\ task' = [task EXCEPT ![h] = Back(h)]
    BY <2>1 DEF Go
  <2>3. /\ Mirrored(Back(h), db', cache', failed') /\ Numbering(Back(h), db')
        /\ Back(h).pc # "closed" /\ Opened(h)
    BY <1>1, <1>2, <2>1, <2>2, BackFields
  <2>4. /\ \A s \in cache' : Within(s, db') /\ Whole(s) /\ Unsent(s)
        /\ Unsent(db')
    BY <1>0, <2>1
  <2>. QED  BY <2>1, <2>2, <2>3, <2>4, MirrorStep
<1>5. CASE Accept(h)
  <2>1. PICK f \in task[h].frame, s \in task[h].session :
           /\ NewerThan(s, f) /\ InSequence(s, f)
           /\ Go(h, "check", [task[h] EXCEPT !.pc = "accept_recv",
                                             !.session = {AcceptedBy(s, f)}])
    BY <1>5 DEF Accept, Passes
  <2>2. s \in Session /\ f \in Frame
    BY <1>0, Typed
  <2>3. PICK c : c = AcceptedBy(s, f)
    OBVIOUS
  <2>4. /\ c.rseq = f.seq /\ c.last = f.msg
        /\ c.user = s.user /\ c.sctr = s.sctr /\ c.rctr = s.rctr
        /\ c.sseq = s.sseq /\ c.mctr = s.mctr /\ c.csend = s.csend
        /\ c.crecv = s.crecv + 1
    BY <2>2, <2>3, AcceptedFields
  <2>5. s.last < c.last /\ c.rseq = s.rseq + 1 /\ Whole(c) /\ Unsent(c)
    <3>1. s.last < c.last /\ c.rseq = s.rseq + 1 /\ Unsent(c)
      BY <1>0, <2>1, <2>4 DEF NewerThan, InSequence, Unsent
    <3>2. s.crecv \in Nat /\ s.rctr \in Nat
      BY <2>2 DEF Session
    <3>3. s.csend = s.sctr /\ s.rctr <= s.crecv
      BY <1>0 DEF Whole
    <3>4. Whole(c)
      BY <2>4, <3>2, <3>3 DEF Whole
    <3>. QED  BY <3>1, <3>4
  <2>6. PICK t : t = [task[h] EXCEPT !.pc = "accept_recv", !.session = {c}]
    OBVIOUS
  <2>7. task[h].pc = "check" /\ task' = [task EXCEPT ![h] = t]
    BY <2>1, <2>3, <2>6 DEF Go
  <2>8. /\ t.pc = "accept_recv" /\ t.row = task[h].row /\ t.session = {c}
        /\ t.frame = task[h].frame /\ t.crypto = task[h].crypto
        /\ t.number = task[h].number /\ t.answer = task[h].answer
        /\ t.told = task[h].told
    BY <1>0, <2>6 DEF Task
  <2>9. UNCHANGED <<cache, db, now, failed, executed, sent>>
    BY <1>5 DEF Accept, outside, history
  <2>10. /\ s.last \in Int /\ c.last \in Int /\ s.rseq \in Int
         /\ s.sctr \in Nat /\ s.sseq \in Int /\ s.mctr \in Nat
         /\ \A e \in cache : e.last \in Int
    BY <1>0, <2>2, <2>4, FrameType DEF Session
  <2>11. \A e \in cache : /\ e.last <= c.last
                          /\ e.sctr <= c.sctr /\ e.csend <= c.sctr
                          /\ e.sseq <= c.sseq /\ e.mctr <= c.mctr
    <3>1. \A e \in cache : /\ e.last <= s.last
                           /\ e.sctr <= s.sctr /\ e.csend <= s.sctr
                           /\ e.sseq <= s.sseq /\ e.mctr <= s.mctr
      BY <1>0, <2>7 DEF Mirrored
    <3>. QED  BY <2>4, <2>5, <2>10, <3>1
  <2>12. Sound(task[h], failed) => Matches(s, db)
    BY <1>1, <2>7
  <2>13. Mirrored(t, db, cache, failed)
    BY <1>1, <2>4, <2>5, <2>7, <2>8, <2>10, <2>11, <2>12
       DEF Mirrored, Taking, Recording, Naming, Settled, Stored, Sound,
           Looking, Matches, Agrees, Lone
  <2>14. Numbering(t, db)
    BY <1>1, <2>5, <2>7, <2>8 DEF Numbering, Replying, Reserving, Looking
  <2>15. /\ \A e \in cache' : Within(e, db') /\ Whole(e) /\ Unsent(e)
         /\ Unsent(db') /\ Opened(h) /\ t.pc # "closed"
         /\ Mirrored(t, db', cache', failed') /\ Numbering(t, db')
    BY <1>0, <1>1, <2>7, <2>8, <2>9, <2>13, <2>14
  <2>. QED  BY <2>7, <2>9, <2>15, MirrorStep
<1>6. ASSUME task[h].pc \in {"accept_recv", "accept_counters", "accept_save",
                             "accept_put"}
      PROVE  /\ Opened(h) /\ task[h].number = {} /\ task[h].answer = {}
             /\ task[h].row = {} /\ task[h].crypto = {}
             /\ \A p \in task[h].told : p = db.sseq
  BY <1>0, <1>6
     DEF Opened, Mirrored, Numbering, Recording, Replying, Reserving, Looking
<1>7. ASSUME Recording(task[h]), NEW s \in task[h].session
      PROVE  /\ \A c \in cache :
                   /\ c.last <= s.last /\ c.sctr <= s.sctr /\ c.csend <= s.sctr
                   /\ c.sseq <= s.sseq /\ c.mctr <= s.mctr
             /\ Sound(task[h], failed) =>
                   /\ s.user = db.user /\ s.sctr = db.sctr
                   /\ s.sseq = db.sseq /\ s.mctr = db.mctr
                   /\ db.last <= s.last /\ db.rseq <= s.rseq
                   /\ task[h].pc # "accept_recv" =>
                         s.last = db.last /\ s.rseq = db.rseq
                   /\ task[h].pc # "accept_save" => s.rctr = db.rctr
             /\ s.csend = s.sctr /\ \A c \in task[h].session : c = s
             /\ s.last \in Int /\ s.rseq \in Int /\ Unsent(s)
  <2>1. s \in Session /\ Whole(s) /\ Unsent(s)
    BY <1>0
  <2>. QED  BY <1>0, <1>7, <2>1 DEF Mirrored, Whole, Lone, Session
<1>8. CASE AcceptRecv(h)
  <2>1. PICK s \in task[h].session :
           Write(h, "accept_recv", SetRecv(db, s.rseq, s.last),
                 [task[h] EXCEPT !.pc = "accept_counters"])
    BY <1>8 DEF AcceptRecv
  <2>2. task[h].pc = "accept_recv" /\ Recording(task[h])
    BY <2>1 DEF Write, Go, Recording
  <2>3. PICK t : t = [task[h] EXCEPT !.pc = "accept_counters"]
    OBVIOUS
  <2>4. PICK row : row = SetRecv(db, s.rseq, s.last)
    OBVIOUS
  <2>5. /\ t.pc = "accept_counters" /\ t.row = task[h].row
        /\ t.session = task[h].session
        /\ t.frame = task[h].frame /\ t.crypto = task[h].crypto
        /\ t.number = task[h].number /\ t.answer = task[h].answer
        /\ t.told = task[h].told
    BY <1>0, <2>3 DEF Task
  <2>6. /\ row.rseq = s.rseq /\ row.last = s.last /\ row.user = db.user
        /\ row.sctr = db.sctr /\ row.rctr = db.rctr /\ row.sseq = db.sseq
        /\ row.mctr = db.mctr
    BY <1>0, <2>4 DEF SetRecv, Row
  <2>7. Mirrored(t, row, cache, failed)
    BY <1>0, <1>6, <1>7, <2>2, <2>5, <2>6
       DEF Mirrored, Taking, Recording, Naming, Settled, Stored, Sound,
           Looking
  <2>8. Numbering(t, row) /\ Unsent(row)
    BY <1>0, <1>6, <2>2, <2>5, <2>6
       DEF Numbering, Replying, Reserving, Looking, Unsent
  <2>9. \A c \in cache : Within(c, row)
    BY <1>0, <1>7, <2>2, <2>6 DEF Within
  <2>10. Write(h, "accept_recv", row, t) /\ t.pc # "closed" /\ Opened(h)
    BY <1>6, <2>1, <2>2, <2>3, <2>4, <2>5
  <2>. QED  BY <2>7, <2>8, <2>9, <2>10, MirrorWrite
<1>9. CASE AcceptCounters(h)
  <2>1. PICK s \in task[h].session :
           Write(h, "accept_counters", SetCounters(db, s.csend, s.crecv),
                 [task[h] EXCEPT !.pc = "accept_save"])
    BY <1>9 DEF AcceptCounters
  <2>2. task[h].pc = "accept_counters" /\ Recording(task[h])
    BY <2>1 DEF Write, Go, Recording
  <2>3. PICK t : t = [task[h] EXCEPT !.pc = "accept_save"]
    OBVIOUS
  <2>4. PICK row : row = SetCounters(db, s.csend, s.crecv)
    OBVIOUS
  <2>5. /\ t.pc = "accept_save" /\ t.row = task[h].row
        /\ t.session = task[h].session
        /\ t.frame = task[h].frame /\ t.crypto = task[h].crypto
        /\ t.number = task[h].number /\ t.answer = task[h].answer
        /\ t.told = task[h].told
    BY <1>0, <2>3 DEF Task
  <2>6. /\ row.rseq = db.rseq /\ row.last = db.last /\ row.user = db.user
        /\ row.sctr = s.csend /\ row.rctr = s.crecv /\ row.sseq = db.sseq
        /\ row.mctr = db.mctr
    BY <1>0, <2>4 DEF SetCounters, Row
  <2>7. Mirrored(t, row, cache, failed)
    BY <1>0, <1>6, <1>7, <2>2, <2>5, <2>6
       DEF Mirrored, Taking, Recording, Naming, Settled, Stored, Sound,
           Looking
  <2>8. Numbering(t, row) /\ Unsent(row)
    BY <1>0, <1>6, <2>2, <2>5, <2>6
       DEF Numbering, Replying, Reserving, Looking, Unsent
  <2>9. \A c \in cache : Within(c, row)
    BY <1>0, <1>7, <2>2, <2>6 DEF Within
  <2>10. Write(h, "accept_counters", row, t) /\ t.pc # "closed" /\ Opened(h)
    BY <1>6, <2>1, <2>2, <2>3, <2>4, <2>5
  <2>. QED  BY <2>7, <2>8, <2>9, <2>10, MirrorWrite
<1>10. CASE AcceptSave(h)
  <2>1. PICK s \in task[h].session :
           Write(h, "accept_save", RowOf(s),
                 [task[h] EXCEPT !.pc = "accept_put"])
    BY <1>10 DEF AcceptSave
  <2>2. task[h].pc = "accept_save" /\ Recording(task[h])
    BY <2>1 DEF Write, Go, Recording
  <2>3. PICK t : t = [task[h] EXCEPT !.pc = "accept_put"]
    OBVIOUS
  <2>4. PICK row : row = RowOf(s)
    OBVIOUS
  <2>5. /\ t.pc = "accept_put" /\ t.row = task[h].row
        /\ t.session = task[h].session
        /\ t.frame = task[h].frame /\ t.crypto = task[h].crypto
        /\ t.number = task[h].number /\ t.answer = task[h].answer
        /\ t.told = task[h].told
    BY <1>0, <2>3 DEF Task
  <2>6. Matches(s, row)
    BY <2>4 DEF RowOf, Matches, Agrees
  <2>7. Mirrored(t, row, cache, failed)
    BY <1>0, <1>6, <1>7, <2>2, <2>5, <2>6
       DEF Mirrored, Taking, Recording, Naming, Settled, Stored, Sound,
           Looking
  <2>8. \A p \in t.told : p = row.sseq
    BY <1>6, <1>7, <2>2, <2>5, <2>6 DEF Sound, Matches, Agrees
  <2>9. Numbering(t, row) /\ Unsent(row)
    BY <1>0, <1>6, <2>2, <2>5, <2>6, <2>8
       DEF Numbering, Replying, Reserving, Looking, Unsent, Matches, Agrees
  <2>10. \A c \in cache : Within(c, row)
    BY <1>7, <2>2, <2>6 DEF Within, Matches, Agrees
  <2>11. Write(h, "accept_save", row, t) /\ t.pc # "closed" /\ Opened(h)
    BY <1>6, <2>1, <2>2, <2>3, <2>4, <2>5
  <2>. QED  BY <2>7, <2>9, <2>10, <2>11, MirrorWrite
<1>11. CASE AcceptPut(h)
  <2>1. PICK s \in task[h].session :
           Put(h, "accept_put",
               [task[h] EXCEPT
                   !.pc = "handle", !.session = {},
                   !.crypto = {[send |-> s.csend, recv |-> s.crecv]}])
    BY <1>11 DEF AcceptPut
  <2>2. PICK c : c = [send |-> s.csend, recv |-> s.crecv]
    OBVIOUS
  <2>3. PICK t : t = [task[h] EXCEPT !.pc = "handle", !.session = {},
                                     !.crypto = {c}]
    OBVIOUS
  <2>4. task[h].pc = "accept_put" /\ Put(h, "accept_put", t)
    BY <2>1, <2>2, <2>3 DEF Put, Go
  <2>5. /\ t.pc = "handle" /\ t.row = task[h].row
        /\ t.session = {} /\ t.crypto = {c}
        /\ t.frame = task[h].frame
        /\ t.number = task[h].number /\ t.answer = task[h].answer
        /\ t.told = task[h].told
    BY <1>0, <2>3 DEF Task
  <2>6. \A e \in task[h].session : Matches(e, db) /\ Whole(e)
    BY <1>0, <2>4 DEF Mirrored, Stored
  <2>7. c.send = db.sctr /\ db.rctr <= c.recv
    BY <2>2, <2>6 DEF Matches, Agrees, Whole
  <2>8. Mirrored(t, db, task[h].session, failed)
    BY <1>6, <2>4, <2>5, <2>6, <2>7
       DEF Mirrored, Taking, Recording, Naming, Settled, Stored, Looking, Lone
  <2>9. Numbering(t, db)
    BY <1>6, <2>4, <2>5 DEF Numbering, Replying, Reserving, Looking
  <2>10. t.pc # "closed" /\ Opened(h)
    BY <1>6, <2>4, <2>5
  <2>. QED  BY <2>4, <2>6, <2>8, <2>9, <2>10, MirrorPut
<1>. QED  BY <1>3, <1>4, <1>5, <1>8, <1>9, <1>10, <1>11

(* handle_request is given a request above all that were answered.         *)
LEMMA MirrorHandle ==
  ASSUME MirrorInv, OrderInv, TypeOK, OneAtATime,
         NEW h \in Handlers, Handle(h)
  PROVE  MirrorInv'
<1>0. /\ Mirrored(task[h], db, cache, failed) /\ Numbering(task[h], db)
      /\ task[h] \in Task /\ db \in Row
      /\ \A s \in cache : s \in Session /\ Whole(s) /\ Unsent(s)
                          /\ Within(s, db)
      /\ Unsent(db)
  BY MirrorFacts
<1>1. PICK f \in task[h].frame : \E t :
         /\ task' = [task EXCEPT ![h] = t]
         /\ executed' = IF f.kind = "unparsed" THEN executed
                        ELSE Append(executed, f.msg)
         /\ \/ /\ f.kind = "reply"
               /\ t = [task[h] EXCEPT !.pc = "lookup", !.site = "number"]
            \/ t = [task[h] EXCEPT !.pc = "signup_user", !.user = users + 1]
            \/ t = At("closed")
            \/ t = Back(h)
  BY DEF Handle, Go
<1>2. PICK t :
         /\ task' = [task EXCEPT ![h] = t]
         /\ \/ /\ f.kind = "reply"
               /\ t = [task[h] EXCEPT !.pc = "lookup", !.site = "number"]
            \/ t = [task[h] EXCEPT !.pc = "signup_user", !.user = users + 1]
            \/ t = At("closed")
            \/ t = Back(h)
  BY <1>1
<1>3. /\ task[h].pc = "handle" /\ Opened(h)
      /\ UNCHANGED <<db, cache, now, failed, sent>>
  BY DEF Handle, Go, Opened, server
<1>4. /\ \A s \in cache \cup task[h].session : Matches(s, db)
      /\ task[h].number = {} /\ task[h].answer = {} /\ task[h].row = {}
      /\ \A p \in task[h].told : p = db.sseq
      /\ \A c \in task[h].crypto : c.send = db.sctr /\ db.rctr <= c.recv
      /\ Lone(task[h].crypto)
      /\ \A s \in task[h].session : Whole(s) /\ Unsent(s)
  BY <1>0, <1>3 DEF Mirrored, Numbering, Settled, Replying, Reserving, Looking
<1>5. Fresh(f.msg) /\ \A g \in task[h].frame : g = f
  BY <1>3 DEF OrderInv, Ordered, Lone
<1>6. f.msg \in MsgIds /\ f.msg \in Int /\ executed \in Seq(MsgIds)
      /\ users \in Nat
  BY Typed, FrameType DEF TypeOK
<1>7. \/ executed' = executed /\ f.kind = "unparsed"
      \/ /\ executed' = Append(executed, f.msg)
         /\ executed' # <<>> /\ executed'[Len(executed')] = f.msg
         /\ DOMAIN executed \subseteq DOMAIN executed'
         /\ \A i \in DOMAIN executed : executed'[i] = executed[i]
  BY <1>1, <1>6
<1>8. \A i \in DOMAIN sent : sent[i].for < f.msg
  <2>. SUFFICES ASSUME NEW i \in DOMAIN sent PROVE sent[i].for < f.msg
    OBVIOUS
  <2>1. PICK j \in DOMAIN executed : sent[i].for = executed[j]
    BY DEF MirrorInv, Grounded
  <2>. QED  BY <1>5, <2>1 DEF Fresh
<1>9. f.kind # "unparsed" => Latest(f.msg)'
  BY <1>3, <1>7, <1>8 DEF Latest
<1>10. \A x : Unsent(x)' <=> Unsent(x)
  BY <1>3 DEF Unsent
<1>11. Grounded'
  BY <1>3, <1>7 DEF MirrorInv, Grounded
<1>12. Mirrored(t, db, cache, failed) /\ Numbering(t, db)'
  <2>1. CASE /\ f.kind = "reply"
             /\ t = [task[h] EXCEPT !.pc = "lookup", !.site = "number"]
    <3>1. /\ t.pc = "lookup" /\ t.site = "number" /\ t.row = task[h].row
          /\ t.session = task[h].session
          /\ t.frame = task[h].frame /\ t.crypto = task[h].crypto
          /\ t.number = task[h].number /\ t.answer = task[h].answer
          /\ t.told = task[h].told
      BY <1>0, <2>1 DEF Task
    <3>2. \A g \in t.frame : Latest(g.msg)'
      BY <1>1, <1>5, <1>9, <2>1, <3>1
    <3>3. Mirrored(t, db, cache, failed)
      BY <1>4, <3>1 DEF Mirrored, Taking, Recording, Naming, Settled, Stored,
                        Looking
    <3>4. /\ \A s \in t.session : Unsent(s)'
          /\ \A p \in t.told : p = db'.sseq
      BY <1>3, <1>4, <1>10, <3>1
    <3>5. Numbering(t, db)'
      BY <1>4, <3>1, <3>2, <3>4 DEF Numbering, Reserving, Looking
    <3>. QED  BY <3>3, <3>5
  <2>2. CASE t = [task[h] EXCEPT !.pc = "signup_user", !.user = users + 1]
    <3>1. /\ t.pc = "signup_user" /\ t.user = users + 1 /\ t.row = task[h].row
          /\ t.session = task[h].session
          /\ t.frame = task[h].frame /\ t.crypto = task[h].crypto
          /\ t.number = task[h].number /\ t.answer = task[h].answer
          /\ t.told = task[h].told
      BY <1>0, <2>2 DEF Task
    <3>3. Mirrored(t, db, cache, failed)
      BY <1>4, <3>1 DEF Mirrored, Taking, Recording, Naming, Settled,
                        Stored, Looking
    <3>4. /\ \A s \in t.session : Unsent(s)'
          /\ \A p \in t.told : p = db'.sseq
      BY <1>3, <1>4, <1>10, <3>1
    <3>5. Numbering(t, db)'
      BY <1>4, <3>1, <3>4 DEF Numbering, Replying, Reserving, Looking
    <3>. QED  BY <3>3, <3>5
  <2>3. CASE t = At("closed")
    <3>1. Empty(t)
      BY <2>3, BareFields DEF Empty
    <3>. QED  BY <3>1, EmptyMirrored
                 DEF Empty, Numbering, Replying, Reserving, Looking
  <2>4. CASE t = Back(h)
    <3>1. Mirrored(t, db, cache, failed)
      BY <1>4, <2>4, BackFields, MirroredBack
    <3>2. \A p \in t.told : p = db'.sseq
      BY <1>3, <1>4, <2>4, BackFields
    <3>3. Numbering(t, db)'
      BY <2>4, <3>2, BackFields DEF Numbering, Replying, Reserving, Looking
    <3>. QED  BY <3>1, <3>3
  <2>. QED  BY <1>2, <2>1, <2>2, <2>3, <2>4
<1>13. ASSUME NEW g \in Handlers
       PROVE  Mirrored(task[g], db, cache, failed)' /\ Numbering(task[g], db)'
  <2>1. CASE g = h
    <3>1. task'[g] = t
      BY <1>2, <2>1 DEF TypeOK
    <3>2. Mirrored(task[g], db, cache, failed)'
      BY <1>3, <1>12, <3>1 DEF Mirrored, Taking, Recording, Naming, Settled,
                               Stored, Sound, Looking, Matches, Agrees, Whole
    <3>3. Numbering(task[g], db)'
      BY <1>12, <3>1 DEF Numbering, Replying, Reserving, Looking, Sealing
    <3>. QED  BY <3>2, <3>3
  <2>2. CASE g # h
    <3>1. Empty(task[g]) /\ task'[g] = task[g]
      BY <1>2, <1>3, <2>2, ClosedIsEmpty DEF OneAtATime, Opened, TypeOK
    <3>. QED  BY <3>1 DEF Empty, Mirrored, Numbering, Taking, Recording,
                          Naming, Settled, Stored, Replying, Reserving,
                          Looking, Lone
  <2>. QED  BY <2>1, <2>2
<1>14. /\ WriteAhead' /\ \A s \in cache' : Whole(s)'
       /\ Unsent(db)' /\ \A s \in cache' : Unsent(s)'
  <2>1. WriteAhead'
    BY <1>3 DEF MirrorInv, WriteAhead
  <2>2. \A s \in cache' : Whole(s)' /\ Unsent(s)'
    BY <1>0, <1>3, <1>10 DEF Whole
  <2>3. Unsent(db)'
    BY <1>0, <1>3, <1>10
  <2>. QED  BY <2>1, <2>2, <2>3
<1>15. \A s \in cache' : Matches(s, db)'
  BY <1>3, <1>4 DEF Matches, Agrees
<1>. QED  BY <1>11, <1>13, <1>14, <1>15 DEF MirrorInv

(* SignUp: the user goes into the row, then into the clone and the cache.  *)
LEMMA MirrorSignUp ==
  ASSUME MirrorInv, TypeOK, OneAtATime, NEW h \in Handlers,
         SignUpUser(h) \/ SignUpSave(h) \/ SignUpPut(h)
  PROVE  MirrorInv'
<1>0. /\ Mirrored(task[h], db, cache, failed) /\ Numbering(task[h], db)
      /\ task[h] \in Task /\ db \in Row
      /\ \A s \in task[h].session : s \in Session /\ Whole(s) /\ Unsent(s)
      /\ \A s \in cache : s \in Session /\ Whole(s) /\ Unsent(s)
                          /\ Within(s, db)
      /\ Unsent(db)
  BY MirrorFacts
<1>1. ASSUME task[h].pc \in {"signup_user", "signup_save", "signup_put"}
      PROVE  /\ Opened(h) /\ task[h].number = {} /\ task[h].answer = {}
             /\ task[h].row = {}
             /\ \A p \in task[h].told : p = db.sseq
             /\ \A c \in task[h].crypto : c.send = db.sctr
                                          /\ db.rctr <= c.recv
             /\ Lone(task[h].crypto)
  BY <1>0, <1>1 DEF Opened, Mirrored, Numbering, Replying, Reserving, Looking
<1>2. CASE SignUpUser(h)
  <2>1. PICK t : t = [task[h] EXCEPT !.pc = "lookup", !.site = "signup"]
    OBVIOUS
  <2>2. PICK row : row = SetUser(db, task[h].user)
    OBVIOUS
  <2>3. Write(h, "signup_user", row, t) /\ task[h].pc = "signup_user"
    BY <1>2, <2>1, <2>2 DEF SignUpUser, Write, Go
  <2>4. /\ t.pc = "lookup" /\ t.site = "signup" /\ t.row = task[h].row
        /\ t.session = task[h].session /\ t.user = task[h].user
        /\ t.frame = task[h].frame /\ t.crypto = task[h].crypto
        /\ t.number = task[h].number /\ t.answer = task[h].answer
        /\ t.told = task[h].told
    BY <1>0, <2>1 DEF Task
  <2>5. /\ row.user = task[h].user /\ row.rseq = db.rseq /\ row.last = db.last
        /\ row.sctr = db.sctr /\ row.rctr = db.rctr /\ row.sseq = db.sseq
        /\ row.mctr = db.mctr
    BY <1>0, <2>2 DEF SetUser, Row
  <2>6. \A s \in cache \cup task[h].session : Matches(s, db)
    BY <1>0, <2>3 DEF Mirrored, Settled
  <2>7. \A s \in cache \cup task[h].session : Agrees(s, row)
    BY <2>5, <2>6 DEF Matches, Agrees
  <2>8. Mirrored(t, row, cache, failed)
    BY <1>0, <1>1, <2>3, <2>4, <2>5, <2>7
       DEF Mirrored, Taking, Recording, Naming, Settled, Stored, Looking
  <2>9. Numbering(t, row) /\ Unsent(row)
    BY <1>0, <1>1, <2>3, <2>4, <2>5
       DEF Numbering, Replying, Reserving, Looking, Unsent
  <2>10. \A c \in cache : Within(c, row)
    BY <1>0, <2>5 DEF Within
  <2>11. t.pc # "closed" /\ Opened(h)
    BY <1>1, <2>3, <2>4
  <2>. QED  BY <2>3, <2>8, <2>9, <2>10, <2>11, MirrorWrite
<1>3. CASE SignUpSave(h)
  <2>1. PICK s \in task[h].session :
           LET e == [s EXCEPT !.user = task[h].user] IN
           Write(h, "signup_save", RowOf(e),
                 [task[h] EXCEPT !.pc = "signup_put", !.session = {e}])
    BY <1>3 DEF SignUpSave
  <2>2. PICK e : e = [s EXCEPT !.user = task[h].user]
    OBVIOUS
  <2>3. PICK t : t = [task[h] EXCEPT !.pc = "signup_put", !.session = {e}]
    OBVIOUS
  <2>4. PICK row : row = RowOf(e)
    OBVIOUS
  <2>5. Write(h, "signup_save", row, t) /\ task[h].pc = "signup_save"
    BY <2>1, <2>2, <2>3, <2>4 DEF Write, Go
  <2>6. /\ t.pc = "signup_put" /\ t.row = task[h].row /\ t.session = {e}
        /\ t.frame = task[h].frame /\ t.crypto = task[h].crypto
        /\ t.number = task[h].number /\ t.answer = task[h].answer
        /\ t.told = task[h].told
    BY <1>0, <2>3 DEF Task
  <2>7. /\ e.user = task[h].user
        /\ e.rseq = s.rseq /\ e.last = s.last /\ e.sctr = s.sctr
        /\ e.rctr = s.rctr /\ e.sseq = s.sseq /\ e.mctr = s.mctr
        /\ e.csend = s.csend /\ e.crecv = s.crecv
    BY <1>0, <2>2 DEF Session
  <2>8. Agrees(s, db)
    BY <1>0, <2>5 DEF Mirrored, Naming
  <2>9. Matches(e, row) /\ Whole(e) /\ Unsent(e)
    BY <1>0, <2>4, <2>7 DEF RowOf, Matches, Agrees, Whole, Unsent
  <2>10. /\ row.last = db.last /\ row.sctr = db.sctr /\ row.sseq = db.sseq
         /\ row.mctr = db.mctr /\ row.rctr = db.rctr
    BY <2>7, <2>8, <2>9 DEF Matches, Agrees
  <2>11. Mirrored(t, row, cache, failed)
    BY <1>1, <2>5, <2>6, <2>9, <2>10
       DEF Mirrored, Taking, Recording, Naming, Settled, Stored, Looking
  <2>12. Numbering(t, row) /\ Unsent(row)
    BY <1>0, <1>1, <2>5, <2>6, <2>9, <2>10
       DEF Numbering, Replying, Reserving, Looking, Unsent
  <2>13. \A c \in cache : Within(c, row)
    BY <1>0, <2>10 DEF Within
  <2>14. t.pc # "closed" /\ Opened(h)
    BY <1>1, <2>5, <2>6
  <2>. QED  BY <2>5, <2>11, <2>12, <2>13, <2>14, MirrorWrite
<1>4. CASE SignUpPut(h)
  <2>1. Put(h, "signup_put", Back(h)) /\ task[h].pc = "signup_put"
    BY <1>4 DEF SignUpPut, Put, Go
  <2>2. \A s \in task[h].session : Matches(s, db)
    BY <1>0, <2>1 DEF Mirrored, Stored
  <2>3. /\ Mirrored(Back(h), db, task[h].session, failed)
        /\ Numbering(Back(h), db)
    BY <1>1, <2>1, <2>2, BackFields, MirroredBack
  <2>4. Opened(h) /\ Back(h).pc # "closed"
    BY <1>1, <2>1, BackFields
  <2>. QED  BY <2>1, <2>2, <2>3, <2>4, MirrorPut
<1>. QED  BY <1>2, <1>3, <1>4

(* Reserving a number takes it from row and clone, then from the cache.    *)
LEMMA MirrorNumber ==
  ASSUME MirrorInv, TypeOK, OneAtATime, NEW h \in Handlers,
         NumberSave(h) \/ NumberPut(h) \/ NumberState(h)
  PROVE  MirrorInv'
<1>0. /\ Mirrored(task[h], db, cache, failed) /\ Numbering(task[h], db)
      /\ task[h] \in Task /\ db \in Row
      /\ \A s \in task[h].session : s \in Session /\ Whole(s) /\ Unsent(s)
      /\ \A s \in cache : s \in Session /\ Whole(s) /\ Unsent(s)
                          /\ Within(s, db)
      /\ Unsent(db)
  BY MirrorFacts
<1>1. ASSUME task[h].pc \in {"number_save", "number_put", "number_state"}
      PROVE  /\ Opened(h) /\ task[h].answer = {} /\ task[h].row = {}
             /\ \A c \in task[h].crypto : c.send = db.sctr
                                          /\ db.rctr <= c.recv
             /\ Lone(task[h].crypto)
             /\ \A f \in task[h].frame : Latest(f.msg)
  BY <1>0, <1>1 DEF Opened, Mirrored, Numbering, Replying, Looking, Sealing
<1>2. CASE NumberSave(h)
  <2>1. PICK s \in task[h].session :
           Write(h, "number_save", RowOf(Numbered(s)),
                 [task[h] EXCEPT
                    !.pc = "number_put",
                    !.session = {Numbered(s)},
                    !.number = {[seq |-> Numbered(s).sseq, ctr |-> s.mctr]}])
    BY <1>2 DEF NumberSave
  <2>2. PICK e : e = Numbered(s)
    OBVIOUS
  <2>3. PICK n : n = [seq |-> e.sseq, ctr |-> s.mctr]
    OBVIOUS
  <2>4. PICK t : t = [task[h] EXCEPT !.pc = "number_put", !.session = {e},
                                     !.number = {n}]
    OBVIOUS
  <2>5. PICK row : row = RowOf(e)
    OBVIOUS
  <2>6. Write(h, "number_save", row, t) /\ task[h].pc = "number_save"
    BY <2>1, <2>2, <2>3, <2>4, <2>5 DEF Write, Go
  <2>7. /\ t.pc = "number_put" /\ t.row = task[h].row /\ t.session = {e}
        /\ t.frame = task[h].frame /\ t.crypto = task[h].crypto
        /\ t.number = {n} /\ t.answer = task[h].answer
        /\ t.told = task[h].told
    BY <1>0, <2>4 DEF Task
  <2>8. /\ e.sseq = s.sseq + 1 /\ e.mctr = s.mctr + 1 /\ e.user = s.user
        /\ e.rseq = s.rseq /\ e.last = s.last /\ e.sctr = s.sctr
        /\ e.rctr = s.rctr /\ e.csend = s.csend /\ e.crecv = s.crecv
        /\ s.sseq \in Int /\ s.mctr \in Nat /\ n.seq = e.sseq /\ n.ctr = s.mctr
    BY <1>0, <2>2, <2>3 DEF Numbered, Session
  <2>9. /\ s.sseq = db.sseq /\ s.mctr = db.mctr
        /\ s.sctr = db.sctr /\ s.last = db.last /\ s.rctr = db.rctr
    BY <1>0, <2>6 DEF Mirrored, Settled, Matches, Agrees
  <2>10. Matches(e, row) /\ Whole(e)
    BY <1>0, <2>5, <2>8 DEF RowOf, Matches, Agrees, Whole
  <2>11. /\ row.last = db.last /\ row.sctr = db.sctr /\ row.rctr = db.rctr
         /\ row.sseq = db.sseq + 1 /\ row.mctr = db.mctr + 1
    BY <2>8, <2>9, <2>10 DEF Matches, Agrees
  <2>12. Mirrored(t, row, cache, failed)
    BY <1>1, <2>6, <2>7, <2>10, <2>11
       DEF Mirrored, Taking, Recording, Naming, Settled, Stored, Looking
  <2>13. /\ sent \in Seq(Answer) /\ now * CtrBase \in Int
         /\ db.sseq \in Int /\ db.mctr \in Nat
    BY <1>0, BoundsAssumption DEF TypeOK, Row
  <2>14. ASSUME NEW i \in DOMAIN sent
         PROVE  /\ sent[i].seq <= db.sseq /\ sent[i].seq < db.sseq + 1
                /\ Steady => sent[i].msg < now * CtrBase + db.mctr
                /\ Steady => sent[i].msg < now * CtrBase + (db.mctr + 1)
                /\ sent[i].seq <= db.sseq + 1
    <3>1. sent[i] \in Answer
      BY <2>13
    <3>2. sent[i].seq \in Int /\ sent[i].msg \in Int
      BY <3>1 DEF Answer
    <3>3. /\ sent[i].seq <= db.sseq
          /\ Steady => sent[i].msg < now * CtrBase + db.mctr
      BY <1>0 DEF Unsent
    <3>. QED  BY <2>13, <3>2, <3>3
  <2>15. Unsent(row) /\ Unsent(e)
    BY <2>8, <2>9, <2>11, <2>14 DEF Unsent
  <2>16. \A p \in task[h].told : p = db.sseq
    <3>1. task[h].number = {}
      BY <1>0, <2>6 DEF Numbering, Reserving
    <3>. QED  BY <1>0, <3>1 DEF Numbering
  <2>17. \A i \in DOMAIN sent :
            /\ sent[i].seq < n.seq
            /\ Steady => sent[i].msg < now * CtrBase + n.ctr
    BY <2>8, <2>9, <2>14
  <2>18. Numbering(t, row)
    BY <1>1, <2>6, <2>7, <2>8, <2>9, <2>11, <2>15, <2>16, <2>17
       DEF Numbering, Replying, Reserving, Looking
  <2>19. \A c \in cache : Within(c, row)
    <3>1. \A c \in cache : c.sseq \in Int /\ c.mctr \in Nat
      BY <1>0 DEF Session
    <3>. QED  BY <1>0, <2>11, <2>13, <3>1 DEF Within
  <2>20. t.pc # "closed" /\ Opened(h)
    BY <1>1, <2>6, <2>7
  <2>. QED  BY <2>6, <2>12, <2>15, <2>18, <2>19, <2>20, MirrorWrite
<1>3. CASE NumberPut(h)
  <2>1. PICK t : t = [task[h] EXCEPT !.pc = "number_state"]
    OBVIOUS
  <2>2. Put(h, "number_put", t) /\ task[h].pc = "number_put"
    BY <1>3, <2>1 DEF NumberPut, Put, Go
  <2>3. /\ t.pc = "number_state" /\ t.row = task[h].row
        /\ t.session = task[h].session
        /\ t.frame = task[h].frame /\ t.crypto = task[h].crypto
        /\ t.number = task[h].number /\ t.answer = task[h].answer
        /\ t.told = task[h].told
    BY <1>0, <2>1 DEF Task
  <2>4. \A s \in task[h].session : Matches(s, db) /\ Whole(s)
    BY <1>0, <2>2 DEF Mirrored, Stored
  <2>5. Mirrored(t, db, task[h].session, failed)
    BY <1>1, <2>2, <2>3, <2>4
       DEF Mirrored, Taking, Recording, Naming, Settled, Stored, Looking
  <2>6. Numbering(t, db)
    BY <1>0, <1>1, <2>2, <2>3 DEF Numbering, Replying, Reserving, Looking
  <2>7. t.pc # "closed" /\ Opened(h)
    BY <1>1, <2>2, <2>3
  <2>. QED  BY <2>2, <2>4, <2>5, <2>6, <2>7, MirrorPut
<1>4. CASE NumberState(h)
  <2>1. PICK t : t = [task[h] EXCEPT !.pc = "encrypt", !.session = {}]
    OBVIOUS
  <2>2. PICK s \in task[h].session :
           Write(h, "number_state", SetSendState(db, s.sseq, s.mctr), t)
    BY <1>4, <2>1 DEF NumberState
  <2>3. PICK row : row = SetSendState(db, s.sseq, s.mctr)
    OBVIOUS
  <2>4. Write(h, "number_state", row, t) /\ task[h].pc = "number_state"
    BY <2>2, <2>3 DEF Write, Go
  <2>5. /\ t.pc = "encrypt" /\ t.row = task[h].row /\ t.session = {}
        /\ t.frame = task[h].frame /\ t.crypto = task[h].crypto
        /\ t.number = task[h].number /\ t.answer = task[h].answer
        /\ t.told = task[h].told
    BY <1>0, <2>1 DEF Task
  <2>6. \A c \in cache \cup task[h].session : Matches(c, db)
    BY <1>0, <2>4 DEF Mirrored, Settled
  <2>7. /\ row.user = db.user /\ row.rseq = db.rseq /\ row.last = db.last
        /\ row.sctr = db.sctr /\ row.rctr = db.rctr /\ row.sseq = db.sseq
        /\ row.mctr = db.mctr
    BY <1>0, <2>3, <2>6 DEF SetSendState, Row, Matches, Agrees
  <2>8. \A c \in cache : Matches(c, row) /\ Within(c, row)
    BY <1>0, <2>6, <2>7 DEF Matches, Agrees, Within
  <2>9. Mirrored(t, row, cache, failed)
    BY <1>1, <2>4, <2>5, <2>7, <2>8
       DEF Mirrored, Taking, Recording, Naming, Settled, Stored, Looking
  <2>10. Numbering(t, row) /\ Unsent(row)
    BY <1>0, <1>1, <2>4, <2>5, <2>7
       DEF Numbering, Replying, Reserving, Looking, Unsent
  <2>11. t.pc # "closed" /\ Opened(h)
    BY <1>1, <2>4, <2>5
  <2>. QED  BY <2>4, <2>8, <2>9, <2>10, <2>11, MirrorWrite
<1>. QED  BY <1>2, <1>3, <1>4

(* The clone of the crypto context counts the answer, then row, clone and  *)
(* cache do.                                                               *)
LEMMA MirrorSeal ==
  ASSUME MirrorInv, TypeOK, OneAtATime, NEW h \in Handlers,
         Encrypt(h) \/ SealCounters(h) \/ SealSave(h) \/ SealPut(h)
  PROVE  MirrorInv'
<1>0. /\ Mirrored(task[h], db, cache, failed) /\ Numbering(task[h], db)
      /\ task[h] \in Task /\ db \in Row
      /\ \A s \in task[h].session : s \in Session /\ Whole(s) /\ Unsent(s)
      /\ \A s \in cache : s \in Session /\ Whole(s) /\ Unsent(s)
                          /\ Within(s, db)
      /\ Unsent(db)
      /\ \A c \in task[h].crypto : c \in Crypto
      /\ \A n \in task[h].number : n \in Number
      /\ \A f \in task[h].frame : f \in Frame
  BY MirrorFacts, Typed
<1>1. ASSUME task[h].pc \in {"encrypt", "seal_counters", "seal_save",
                             "seal_put"}
      PROVE  /\ Opened(h) /\ task[h].row = {}
             /\ task[h].pc # "seal_counters" =>
                   \A c \in task[h].crypto : c.send = db.sctr
             /\ \A c \in task[h].crypto : db.rctr <= c.recv
             /\ Lone(task[h].crypto)
             /\ \A f \in task[h].frame : Latest(f.msg)
  BY <1>0, <1>1 DEF Opened, Mirrored, Numbering, Replying, Looking
<1>2. CASE Encrypt(h)
  <2>1. PICK f \in task[h].frame, c \in task[h].crypto,
             n \in task[h].number :
           Local(h, "encrypt",
              [task[h] EXCEPT
                  !.pc = "lookup",
                  !.site = "seal",
                  !.crypto = {[c EXCEPT !.send = @ + 1]},
                  !.answer = {[msg |-> now * CtrBase + n.ctr, seq |-> n.seq,
                               for |-> f.msg, nonce |-> c.send]}])
    BY <1>2 DEF Encrypt
  <2>2. PICK d : d = [c EXCEPT !.send = @ + 1]
    OBVIOUS
  <2>3. PICK a : a = [msg |-> now * CtrBase + n.ctr, seq |-> n.seq,
                      for |-> f.msg, nonce |-> c.send]
    OBVIOUS
  <2>4. PICK t : t = [task[h] EXCEPT !.pc = "lookup", !.site = "seal",
                                     !.crypto = {d}, !.answer = {a}]
    OBVIOUS
  <2>5. Local(h, "encrypt", t) /\ task[h].pc = "encrypt"
    BY <2>1, <2>2, <2>3, <2>4 DEF Local, Go
  <2>6. /\ t.pc = "lookup" /\ t.site = "seal" /\ t.row = task[h].row
        /\ t.session = task[h].session
        /\ t.frame = task[h].frame /\ t.crypto = {d}
        /\ t.number = task[h].number /\ t.answer = {a}
        /\ t.told = task[h].told
    BY <1>0, <2>4 DEF Task
  <2>7. d.send = db.sctr + 1 /\ db.rctr <= d.recv
    BY <1>0, <1>1, <2>2, <2>5 DEF Crypto
  <2>8. Mirrored(t, db, cache, failed)
    BY <1>0, <1>1, <2>5, <2>6, <2>7
       DEF Mirrored, Taking, Recording, Naming, Settled, Stored, Looking, Lone
  <2>9. /\ n.seq = db.sseq /\ n.ctr + 1 = db.mctr
        /\ \A i \in DOMAIN sent :
              /\ sent[i].seq < n.seq
              /\ Steady => sent[i].msg < now * CtrBase + n.ctr
    BY <1>0 DEF Numbering
  <2>10. now * CtrBase \in Int /\ n.ctr \in Nat
    BY <1>0, BoundsAssumption DEF TypeOK, Number
  <2>11. /\ a.seq = db.sseq /\ a.msg < now * CtrBase + db.mctr
         /\ \A i \in DOMAIN sent : /\ sent[i].seq < a.seq
                                   /\ Steady => sent[i].msg < a.msg
         /\ Latest(a.for)
    BY <1>1, <2>3, <2>5, <2>9, <2>10
  <2>12. task[h].number # {}
    OBVIOUS
  <2>13. Numbering(t, db)
    BY <1>0, <1>1, <2>5, <2>6, <2>11, <2>12
       DEF Numbering, Replying, Reserving, Looking, Sealing
  <2>14. t.pc # "closed" /\ Opened(h)
    BY <1>1, <2>5, <2>6
  <2>. QED  BY <2>5, <2>8, <2>13, <2>14, MirrorLocal
<1>3. CASE SealCounters(h)
  <2>1. PICK s \in task[h].session, c \in task[h].crypto :
           Write(h, "seal_counters", SetCounters(db, c.send, c.recv),
              [task[h] EXCEPT !.pc = "seal_save", !.session = {Sealed(s, c)}])
    BY <1>3 DEF SealCounters
  <2>2. PICK e : e = Sealed(s, c)
    OBVIOUS
  <2>3. PICK t : t = [task[h] EXCEPT !.pc = "seal_save", !.session = {e}]
    OBVIOUS
  <2>4. PICK row : row = SetCounters(db, c.send, c.recv)
    OBVIOUS
  <2>5. Write(h, "seal_counters", row, t) /\ task[h].pc = "seal_counters"
    BY <2>1, <2>2, <2>3, <2>4 DEF Write, Go
  <2>6. /\ t.pc = "seal_save" /\ t.row = task[h].row /\ t.session = {e}
        /\ t.site = task[h].site
        /\ t.frame = task[h].frame /\ t.crypto = task[h].crypto
        /\ t.number = task[h].number /\ t.answer = task[h].answer
        /\ t.told = task[h].told
    BY <1>0, <2>3 DEF Task
  <2>7. /\ row.user = db.user /\ row.rseq = db.rseq /\ row.last = db.last
        /\ row.sctr = c.send /\ row.rctr = c.recv /\ row.sseq = db.sseq
        /\ row.mctr = db.mctr
    BY <1>0, <2>4 DEF SetCounters, Row
  <2>8. /\ e.user = s.user /\ e.rseq = s.rseq /\ e.last = s.last
        /\ e.sctr = c.send /\ e.rctr = c.recv /\ e.sseq = s.sseq
        /\ e.mctr = s.mctr /\ e.csend = c.send /\ e.crecv = c.recv
    BY <1>0, <2>2, SealedFields
  <2>9. Matches(s, db)
    BY <1>0, <2>5 DEF Mirrored, Settled
  <2>10. Matches(e, row) /\ Whole(e)
    <3>1. c.recv \in Nat
      BY <1>0 DEF Crypto
    <3>. QED  BY <2>7, <2>8, <2>9, <3>1 DEF Matches, Agrees, Whole
  <2>11. c.send \in Nat /\ db.sctr \in Nat /\ db.sctr <= c.send
         /\ \A d \in task[h].crypto : d.send = c.send /\ c.recv <= d.recv
    <3>1. c.send \in Nat /\ c.recv \in Nat /\ db.sctr \in Nat
      BY <1>0 DEF Crypto, Row
    <3>2. \A d \in task[h].crypto :
             d.send = IF task[h].answer # {} THEN db.sctr + 1 ELSE db.sctr
      BY <1>0, <2>5 DEF Mirrored
    <3>3. \A d \in task[h].crypto : d = c
      BY <1>1, <2>5 DEF Lone
    <3>. QED  BY <3>1, <3>2, <3>3
  <2>12. Mirrored(t, row, cache, failed)
    BY <1>1, <2>5, <2>6, <2>7, <2>10, <2>11
       DEF Mirrored, Taking, Recording, Naming, Settled, Stored, Looking
  <2>13. Unsent(row) /\ Unsent(e)
    BY <1>0, <2>7, <2>8 DEF Unsent
  <2>14. Numbering(t, row)
    BY <1>0, <1>1, <2>5, <2>6, <2>7, <2>13
       DEF Numbering, Replying, Reserving, Looking, Sealing
  <2>15. \A d \in cache : Within(d, row)
    <3>1. \A d \in cache : d.sctr \in Nat /\ d.csend \in Nat
      BY <1>0 DEF Session
    <3>. QED  BY <1>0, <2>7, <2>11, <3>1 DEF Within
  <2>16. t.pc # "closed" /\ Opened(h)
    BY <1>1, <2>5, <2>6
  <2>. QED  BY <2>5, <2>12, <2>13, <2>14, <2>15, <2>16, MirrorWrite
<1>4. CASE SealSave(h)
  <2>1. PICK t : t = [task[h] EXCEPT !.pc = "seal_put"]
    OBVIOUS
  <2>2. PICK s \in task[h].session : Write(h, "seal_save", RowOf(s), t)
    BY <1>4, <2>1 DEF SealSave
  <2>3. PICK row : row = RowOf(s)
    OBVIOUS
  <2>4. Write(h, "seal_save", row, t) /\ task[h].pc = "seal_save"
    BY <2>2, <2>3 DEF Write, Go
  <2>5. /\ t.pc = "seal_put" /\ t.row = task[h].row /\ t.site = task[h].site
        /\ t.session = task[h].session
        /\ t.frame = task[h].frame /\ t.crypto = task[h].crypto
        /\ t.number = task[h].number /\ t.answer = task[h].answer
        /\ t.told = task[h].told
    BY <1>0, <2>1 DEF Task
  <2>6. \A e \in task[h].session : Matches(e, db) /\ Whole(e)
    BY <1>0, <2>4 DEF Mirrored, Stored
  <2>7. /\ row.user = db.user /\ row.rseq = db.rseq /\ row.last = db.last
        /\ row.sctr = db.sctr /\ row.rctr = db.rctr /\ row.sseq = db.sseq
        /\ row.mctr = db.mctr
    BY <2>3, <2>6 DEF RowOf, Matches, Agrees
  <2>8. \A e \in task[h].session : Matches(e, row)
    BY <2>6, <2>7 DEF Matches, Agrees
  <2>9. Mirrored(t, row, cache, failed)
    BY <1>0, <1>1, <2>4, <2>5, <2>6, <2>7, <2>8
       DEF Mirrored, Taking, Recording, Naming, Settled, Stored, Looking
  <2>10. Numbering(t, row) /\ Unsent(row)
    BY <1>0, <1>1, <2>4, <2>5, <2>7
       DEF Numbering, Replying, Reserving, Looking, Sealing, Unsent
  <2>11. \A d \in cache : Within(d, row)
    BY <1>0, <2>7 DEF Within
  <2>12. t.pc # "closed" /\ Opened(h)
    BY <1>1, <2>4, <2>5
  <2>. QED  BY <2>4, <2>9, <2>10, <2>11, <2>12, MirrorWrite
<1>5. CASE SealPut(h)
  <2>1. PICK t : t = [task[h] EXCEPT !.pc = "send", !.session = {}]
    OBVIOUS
  <2>2. Put(h, "seal_put", t) /\ task[h].pc = "seal_put"
    BY <1>5, <2>1 DEF SealPut, Put, Go
  <2>3. /\ t.pc = "send" /\ t.row = task[h].row /\ t.session = {}
        /\ t.site = task[h].site
        /\ t.frame = task[h].frame /\ t.crypto = task[h].crypto
        /\ t.number = task[h].number /\ t.answer = task[h].answer
        /\ t.told = task[h].told
    BY <1>0, <2>1 DEF Task
  <2>4. \A s \in task[h].session : Matches(s, db)
    BY <1>0, <2>2 DEF Mirrored, Stored
  <2>5. Mirrored(t, db, task[h].session, failed)
    BY <1>1, <2>2, <2>3, <2>4
       DEF Mirrored, Taking, Recording, Naming, Settled, Stored, Looking
  <2>6. Numbering(t, db)
    BY <1>0, <1>1, <2>2, <2>3
       DEF Numbering, Replying, Reserving, Looking, Sealing
  <2>7. t.pc # "closed" /\ Opened(h)
    BY <1>1, <2>2, <2>3
  <2>. QED  BY <2>2, <2>4, <2>5, <2>6, <2>7, MirrorPut
<1>. QED  BY <1>2, <1>3, <1>4, <1>5

(* Sending the answer, and ending on a failed send or write.               *)
LEMMA MirrorEnd ==
  ASSUME MirrorInv, TypeOK, OneAtATime, NEW h \in Handlers,
         Send(h) \/ SendFails(h) \/ WriteFails(h)
  PROVE  MirrorInv'
<1>0. /\ Mirrored(task[h], db, cache, failed) /\ Numbering(task[h], db)
      /\ task[h] \in Task /\ db \in Row
      /\ \A s \in cache : s \in Session /\ Whole(s) /\ Unsent(s)
                          /\ Within(s, db)
      /\ Unsent(db)
  BY MirrorFacts
<1>1. /\ At("closed").pc = "closed"
      /\ \A row, entries, bad : Mirrored(At("closed"), row, entries, bad)
                                /\ Numbering(At("closed"), row)
  BY BareFields, EmptyMirrored DEF Empty
<1>2. CASE Send(h)
  <2>1. PICK a \in task[h].answer :
           /\ Go(h, "send", [At("recv") EXCEPT !.told = {a.seq}])
           /\ sent' = Append(sent, a)
    BY <1>2 DEF Send
  <2>2. PICK t : t = [At("recv") EXCEPT !.told = {a.seq}]
    OBVIOUS
  <2>3. /\ task' = [task EXCEPT ![h] = t] /\ task[h].pc = "send" /\ Opened(h)
        /\ UNCHANGED <<db, cache, now, failed, executed>>
    BY <1>2, <2>1, <2>2 DEF Send, Go, Opened, server, outside
  <2>4. /\ t.pc = "recv" /\ t.told = {a.seq} /\ t.session = {} /\ t.row = {}
        /\ t.crypto = {} /\ t.number = {} /\ t.answer = {}
    BY <2>2, BareFields
  <2>5. /\ a.seq = db.sseq
        /\ Steady => a.msg < now * CtrBase + db.mctr
        /\ Latest(a.for) /\ \A s \in cache : Matches(s, db)
    BY <1>0, <2>3 DEF Numbering, Mirrored, Settled
  <2>6. sent \in Seq(Answer) /\ a \in Answer /\ a.seq \in Int /\ db.sseq \in Int
    <3>1. sent \in Seq(Answer) /\ a \in Answer
      BY Typed DEF TypeOK
    <3>. QED  BY <1>0, <3>1 DEF Answer, Row
  <2>7. \A i \in DOMAIN sent' : \/ i \in DOMAIN sent /\ sent'[i] = sent[i]
                                \/ sent'[i] = a
    BY <2>1, <2>6
  <2>8. ASSUME NEW x, Unsent(x), a.seq = x.sseq,
               Steady => a.msg < now * CtrBase + x.mctr
        PROVE  Unsent(x)'
    <3>. SUFFICES ASSUME NEW i \in DOMAIN sent'
                  PROVE  /\ sent'[i].seq <= x.sseq
                         /\ Steady => sent'[i].msg < now * CtrBase + x.mctr
      BY <2>3 DEF Unsent, Steady
    <3>. QED  BY <2>6, <2>7, <2>8 DEF Unsent
  <2>9. Unsent(db)'
    <3>1. PICK d : d = db
      OBVIOUS
    <3>2. Unsent(d)'
      BY <1>0, <2>5, <2>8, <3>1
    <3>. QED  BY <2>3, <3>1, <3>2
  <2>10. \A s \in cache : Unsent(s)'
    BY <1>0, <2>5, <2>8 DEF Matches, Agrees
  <2>11. Grounded'
    <3>. SUFFICES ASSUME NEW i \in DOMAIN sent'
                  PROVE  \E j \in DOMAIN executed : sent'[i].for = executed[j]
      BY <2>3 DEF Grounded
    <3>1. executed \in Seq(MsgIds)
      BY DEF TypeOK
    <3>2. executed # <<>> /\ executed[Len(executed)] = a.for
      BY <2>5 DEF Latest
    <3>3. Len(executed) \in DOMAIN executed
      BY <3>1, <3>2
    <3>. QED  BY <2>7, <3>2, <3>3 DEF MirrorInv, Grounded
  <2>12. Mirrored(t, db, cache, failed) /\ Numbering(t, db)'
    <3>1. Mirrored(t, db, cache, failed)
      BY <2>4, <2>5, MirroredBack
    <3>2. \A p \in t.told : p = db'.sseq
      BY <2>3, <2>4, <2>5
    <3>3. Numbering(t, db)'
      BY <2>4, <3>2 DEF Numbering, Replying, Reserving, Looking
    <3>. QED  BY <3>1, <3>3
  <2>13. ASSUME NEW g \in Handlers
         PROVE  Mirrored(task[g], db, cache, failed)'
                /\ Numbering(task[g], db)'
    <3>1. CASE g = h
      <4>1. task'[g] = t
        BY <2>3, <3>1 DEF TypeOK
      <4>2. Mirrored(task[g], db, cache, failed)'
        BY <2>3, <2>12, <4>1 DEF Mirrored, Taking, Recording, Naming, Settled,
                                 Stored, Sound, Looking, Matches, Agrees, Whole
      <4>3. Numbering(task[g], db)'
        BY <2>12, <4>1 DEF Numbering, Replying, Reserving, Looking, Sealing
      <4>. QED  BY <4>2, <4>3
    <3>2. CASE g # h
      <4>1. Empty(task[g]) /\ task'[g] = task[g]
        BY <2>3, <3>2, ClosedIsEmpty DEF OneAtATime, Opened, TypeOK
      <4>. QED  BY <4>1 DEF Empty, Mirrored, Numbering, Taking, Recording,
                            Naming, Settled, Stored, Replying, Reserving,
                            Looking, Lone
    <3>. QED  BY <3>1, <3>2
  <2>14. WriteAhead' /\ \A s \in cache' : Whole(s)' /\ Unsent(s)'
    <3>1. WriteAhead'
      BY <2>3 DEF MirrorInv, WriteAhead
    <3>. QED  BY <1>0, <2>3, <2>10, <3>1 DEF Whole
  <2>15. \A s \in cache' : Matches(s, db)'
    BY <2>3, <2>5 DEF Matches, Agrees
  <2>. QED  BY <2>9, <2>11, <2>13, <2>14, <2>15 DEF MirrorInv
<1>3. CASE SendFails(h)
  <2>1. Local(h, "send", At("closed")) /\ task[h].pc = "send" /\ Opened(h)
    BY <1>3 DEF SendFails, Local, Go, Opened
  <2>2. \A s \in cache : Matches(s, db)
    BY <1>0, <2>1 DEF Mirrored, Settled
  <2>. QED  BY <1>1, <2>1, <2>2, MirrorLocal
<1>4. CASE WriteFails(h)
  <2>1. /\ task' = [task EXCEPT ![h] = At("closed")] /\ failed'
        /\ UNCHANGED <<db, cache, now, executed, sent>> /\ Opened(h)
    BY <1>4 DEF WriteFails, server, history, Opened, Writing
  <2>2. /\ \A s \in cache' : Within(s, db') /\ Whole(s) /\ Unsent(s)
        /\ Unsent(db')
    BY <1>0, <2>1
  <2>. QED  BY <1>1, <2>1, <2>2, MirrorStep
<1>. QED  BY <1>2, <1>3, <1>4

(* A clock that moves on moves msg_ids up by CtrBase; of the msg_ids that  *)
(* follow one that has been set back nothing is said.                      *)
LEMMA MirrorClock ==
  ASSUME MirrorInv, TypeOK, Tick \/ ClockBack
  PROVE  MirrorInv'
<1>1. /\ UNCHANGED <<task, cache, db, failed, executed, sent>>
      /\ now \in Nat /\ CtrBase \in Nat /\ now' \in Nat
      /\ now * CtrBase \in Nat /\ now' * CtrBase \in Nat
  BY BoundsAssumption DEF Tick, ClockBack, server, history, TypeOK
<1>2. Steady => now' * CtrBase = now * CtrBase + CtrBase
  <2>1. Steady => now' = now + 1
    BY DEF Tick, ClockBack, Steady
  <2>. QED  BY <1>1, <2>1
<1>3. PICK b \in Nat : b = now * CtrBase
  BY <1>1
<1>4. PICK d \in Nat : d = now' * CtrBase
  BY <1>1
<1>5. \A k \in Int, n \in Nat : Steady /\ k < b + n => k < d + n
  <2>1. Steady => d = b + CtrBase
    BY <1>2, <1>3, <1>4
  <2>. QED  BY <1>1, <2>1
<1>6. \A i \in DOMAIN sent : sent[i].msg \in Int
  <2>. SUFFICES ASSUME NEW i \in DOMAIN sent PROVE sent[i].msg \in Int
    OBVIOUS
  <2>1. sent[i] \in Answer
    BY DEF TypeOK
  <2>. QED  BY <2>1 DEF Answer
<1>7. ASSUME NEW x, x.mctr \in Nat, Unsent(x) PROVE Unsent(x)'
  <2>. SUFFICES ASSUME NEW i \in DOMAIN sent
                PROVE  /\ sent[i].seq <= x.sseq
                       /\ Steady => sent[i].msg < d + x.mctr
    BY <1>1, <1>4 DEF Unsent, Steady
  <2>1. sent[i].seq <= x.sseq /\ (Steady => sent[i].msg < b + x.mctr)
    BY <1>3, <1>7 DEF Unsent
  <2>. QED  BY <1>5, <1>6, <1>7, <2>1
<1>8. \A m : Latest(m)' <=> Latest(m)
  BY <1>1 DEF Latest
<1>9. ASSUME NEW g \in Handlers
      PROVE  Mirrored(task[g], db, cache, failed)' /\ Numbering(task[g], db)'
  <2>0. /\ Mirrored(task[g], db, cache, failed) /\ Numbering(task[g], db)
        /\ task'[g] = task[g] /\ db \in Row /\ db.mctr \in Nat
        /\ \A s \in task[g].session : s \in Session
        /\ \A n \in task[g].number : n \in Number
        /\ \A a \in task[g].answer : a \in Answer
    BY <1>1, MirrorFacts, Typed DEF Row
  <2>1. Mirrored(task[g], db, cache, failed)'
    BY <1>1, <2>0 DEF Mirrored, Taking, Recording, Naming, Settled, Stored,
                      Sound, Looking, Matches, Agrees, Whole
  <2>2. \A s \in task[g].session : Unsent(s)'
    BY <1>7, <2>0 DEF Numbering, Session
  <2>3. ASSUME NEW n \in task[g].number
        PROVE  /\ n.seq = db.sseq /\ n.ctr + 1 = db.mctr
               /\ \A i \in DOMAIN sent :
                     /\ sent[i].seq < n.seq
                     /\ Steady => sent[i].msg < d + n.ctr
    <3>1. n.ctr \in Nat
      BY <2>0 DEF Number
    <3>2. /\ n.seq = db.sseq /\ n.ctr + 1 = db.mctr
          /\ \A i \in DOMAIN sent :
                sent[i].seq < n.seq /\ (Steady => sent[i].msg < b + n.ctr)
      BY <1>3, <2>0 DEF Numbering
    <3>. QED  BY <1>5, <1>6, <3>1, <3>2
  <2>4. ASSUME NEW a \in task[g].answer
        PROVE  /\ a.seq = db.sseq /\ (Steady => a.msg < d + db.mctr)
               /\ \A i \in DOMAIN sent :
                     /\ sent[i].seq < a.seq
                     /\ Steady => sent[i].msg < a.msg
               /\ Latest(a.for)
    <3>1. a.msg \in Int
      BY <2>0 DEF Answer
    <3>2. /\ a.seq = db.sseq /\ (Steady => a.msg < b + db.mctr)
          /\ \A i \in DOMAIN sent :
                sent[i].seq < a.seq /\ (Steady => sent[i].msg < a.msg)
          /\ Latest(a.for)
      BY <1>3, <2>0 DEF Numbering
    <3>. QED  BY <1>5, <2>0, <3>1, <3>2
  <2>5. PICK t : t = task[g]
    OBVIOUS
  <2>6. Numbering(t, db)'
    <3>1. t.number = {} => t.answer = {}
      BY <2>0, <2>5 DEF Numbering
    <3>2. t.number # {} => Replying(t) /\ ~Reserving(t)
      BY <2>0, <2>5 DEF Numbering
    <3>3. t.answer # {} => t.site = "seal" /\ t.pc \in Sealing
      BY <2>0, <2>5 DEF Numbering
    <3>4. Replying(t) => \A f \in t.frame : Latest(f.msg)'
      BY <1>8, <2>0, <2>5 DEF Numbering
    <3>5. \A p \in t.told :
             IF t.number = {} THEN p = db.sseq ELSE p + 1 = db.sseq
      BY <2>0, <2>5 DEF Numbering
    <3>6. \A n \in t.number :
             /\ n.seq = db'.sseq /\ n.ctr + 1 = db'.mctr
             /\ \A i \in DOMAIN sent' :
                   /\ sent'[i].seq < n.seq
                   /\ Steady => sent'[i].msg < now' * CtrBase + n.ctr
      BY <1>1, <1>4, <2>3, <2>5
    <3>7. \A a \in t.answer :
             /\ a.seq = db'.sseq
             /\ Steady => a.msg < now' * CtrBase + db'.mctr
             /\ \A i \in DOMAIN sent' : /\ sent'[i].seq < a.seq
                                        /\ Steady => sent'[i].msg < a.msg
             /\ Latest(a.for)'
      BY <1>1, <1>4, <1>8, <2>4, <2>5
    <3>8. \A s \in t.session : Unsent(s)'
      BY <2>2, <2>5
    <3>9. db' = db
      BY <1>1
    <3>. QED  BY <3>1, <3>2, <3>3, <3>4, <3>5, <3>6, <3>7, <3>8, <3>9
              DEF Numbering, Replying, Reserving, Looking, Sealing
  <2>7. Numbering(task[g], db)'
    BY <2>0, <2>5, <2>6
  <2>. QED  BY <2>1, <2>7
<1>10. WriteAhead' /\ Grounded' /\ \A s \in cache' : Whole(s)'
  BY <1>1 DEF MirrorInv, WriteAhead, Grounded, Whole
<1>11. Unsent(db)' /\ \A s \in cache' : Unsent(s)'
  <2>1. db \in Row /\ \A s \in cache : s \in Session
    BY DEF TypeOK
  <2>2. db.mctr \in Nat /\ \A s \in cache : s.mctr \in Nat
    BY <2>1 DEF Row, Session
  <2>3. PICK e : e = db
    OBVIOUS
  <2>4. Unsent(e)' /\ \A s \in cache : Unsent(s)'
    BY <1>7, <2>2, <2>3 DEF MirrorInv
  <2>. QED  BY <1>1, <2>3, <2>4
<1>12. (~failed /\ (\A g \in Handlers : ~Opened(g)) =>
            \A s \in cache : Matches(s, db))'
  BY <1>1 DEF MirrorInv, Opened, Matches, Agrees
<1>. QED  BY <1>9, <1>10, <1>11, <1>12 DEF MirrorInv

(* Connections come and go, the entry is evicted, the process restarts.    *)
LEMMA MirrorOutside ==
  ASSUME MirrorInv, TypeOK, OneAtATime, OneAtATime',
         \/ \E h \in Handlers : Connect(h) \/ HangUp(h) \/ Receive(h)
         \/ Evict \/ Crash \/ Tick \/ ClockBack
  PROVE  MirrorInv'
<1>1. /\ At("closed").pc = "closed"
      /\ \A row, entries, bad : Mirrored(At("closed"), row, entries, bad)
                                /\ Numbering(At("closed"), row)
  BY BareFields, EmptyMirrored DEF Empty
<1>2. \A g \in Handlers : /\ Mirrored(task[g], db, cache, failed)
                          /\ Numbering(task[g], db) /\ task[g] \in Task
  BY MirrorFacts
<1>3. ASSUME NEW h \in Handlers, Connect(h) PROVE MirrorInv'
  <2>1. /\ task' = [task EXCEPT ![h] = At("recv")] /\ task[h].pc = "closed"
        /\ UNCHANGED <<db, cache, now, failed, executed, sent>>
    BY <1>3 DEF Connect, Local, Go, server, outside, history
  <2>2. /\ At("recv").pc = "recv" /\ At("recv").told = {}
        /\ At("recv").session = {} /\ At("recv").row = {}
        /\ At("recv").crypto = {} /\ At("recv").number = {}
        /\ At("recv").answer = {}
    BY BareFields
  <2>3. \A g \in Handlers : task'[g] = IF g = h THEN At("recv") ELSE task[g]
    BY <2>1 DEF TypeOK
  <2>4. \A g \in Handlers : ~Opened(g)
    <3>. SUFFICES ASSUME NEW g \in Handlers, Opened(g) PROVE FALSE
      OBVIOUS
    <3>1. g # h
      BY <2>1 DEF Opened
    <3>2. task'[g].pc # "closed" /\ task'[h].pc # "closed"
      BY <2>2, <2>3, <3>1 DEF Opened
    <3>. QED  BY <3>1, <3>2 DEF OneAtATime, Opened
  <2>5. ~failed => \A s \in cache : Matches(s, db)
    BY <2>4 DEF MirrorInv
  <2>6. Mirrored(At("recv"), db, cache, failed) /\ Numbering(At("recv"), db)
    BY <2>2, <2>5, MirroredBack DEF Sound
  <2>7. \A x : Unsent(x)' <=> Unsent(x)
    BY <2>1 DEF Unsent
  <2>8. \A m : Latest(m)' <=> Latest(m)
    BY <2>1 DEF Latest
  <2>9. ASSUME NEW g \in Handlers
        PROVE  Mirrored(task[g], db, cache, failed)'
               /\ Numbering(task[g], db)'
    <3>1. PICK t : /\ t = task'[g] /\ Mirrored(t, db, cache, failed)
                   /\ Numbering(t, db)
      BY <1>2, <2>3, <2>6
    <3>2. Mirrored(task[g], db, cache, failed)'
      BY <2>1, <3>1 DEF Mirrored, Taking, Recording, Naming, Settled, Stored,
                        Sound, Looking, Matches, Agrees, Whole
    <3>3. Numbering(task[g], db)'
      BY <2>1, <2>7, <2>8, <3>1
         DEF Numbering, Replying, Reserving, Looking, Sealing
    <3>. QED  BY <3>2, <3>3
  <2>10. /\ WriteAhead' /\ Grounded' /\ \A s \in cache' : Whole(s)'
         /\ Unsent(db)' /\ \A s \in cache' : Unsent(s)'
    BY <2>1, <2>7 DEF MirrorInv, WriteAhead, Grounded, Whole
  <2>11. ~(\A g \in Handlers : ~Opened(g))'
    BY <2>2, <2>3 DEF Opened
  <2>. QED  BY <2>9, <2>10, <2>11 DEF MirrorInv
<1>4. ASSUME NEW h \in Handlers, HangUp(h) PROVE MirrorInv'
  <2>1. Local(h, "recv", At("closed")) /\ task[h].pc = "recv" /\ Opened(h)
    BY <1>4 DEF HangUp, Local, Go, Opened
  <2>2. ~failed => \A s \in cache : Matches(s, db)
    BY <1>2, <2>1 DEF Mirrored, Taking, Sound
  <2>. QED  BY <1>1, <2>1, <2>2, MirrorLocal
<1>5. ASSUME NEW h \in Handlers, Receive(h) PROVE MirrorInv'
  <2>1. PICK f \in Frame :
           Local(h, "recv", [task[h] EXCEPT !.pc = "lookup", !.site = "route",
                                            !.frame = {f}])
    BY <1>5 DEF Receive
  <2>2. PICK t : t = [task[h] EXCEPT !.pc = "lookup", !.site = "route",
                                     !.frame = {f}]
    OBVIOUS
  <2>3. Local(h, "recv", t) /\ task[h].pc = "recv" /\ Opened(h)
    BY <2>1, <2>2 DEF Local, Go, Opened
  <2>4. /\ t.pc = "lookup" /\ t.site = "route" /\ t.row = task[h].row
        /\ t.session = task[h].session
        /\ t.crypto = task[h].crypto
        /\ t.number = task[h].number /\ t.answer = task[h].answer
        /\ t.told = task[h].told
    BY <1>2, <2>2 DEF Task
  <2>5. Mirrored(t, db, cache, failed)
    BY <1>2, <2>3, <2>4 DEF Mirrored, Taking, Recording, Naming, Settled,
                            Stored, Sound, Looking
  <2>6. Numbering(t, db)
    BY <1>2, <2>3, <2>4
       DEF Numbering, Mirrored, Replying, Reserving, Looking
  <2>. QED  BY <2>3, <2>4, <2>5, <2>6, MirrorLocal
<1>6. CASE Evict
  <2>1. cache' = {} /\ UNCHANGED <<task, db, now, failed, executed, sent>>
    BY <1>6 DEF Evict, outside, history
  <2>2. \A x : Unsent(x)' <=> Unsent(x)
    BY <2>1 DEF Unsent
  <2>3. \A m : Latest(m)' <=> Latest(m)
    BY <2>1 DEF Latest
  <2>4. ASSUME NEW g \in Handlers
        PROVE  Mirrored(task[g], db, cache, failed)'
               /\ Numbering(task[g], db)'
    <3>1. Mirrored(task[g], db, {}, failed)
      BY <1>2 DEF Mirrored
    <3>2. Mirrored(task[g], db, cache, failed)'
      BY <2>1, <3>1 DEF Mirrored, Taking, Recording, Naming, Settled, Stored,
                        Sound, Looking, Matches, Agrees, Whole
    <3>3. Numbering(task[g], db)'
      BY <1>2, <2>1, <2>2, <2>3
         DEF Numbering, Replying, Reserving, Looking, Sealing
    <3>. QED  BY <3>2, <3>3
  <2>. QED  BY <2>1, <2>2, <2>4 DEF MirrorInv, WriteAhead, Grounded
<1>7. CASE Crash
  <2>1. /\ cache' = {} /\ UNCHANGED <<db, now, failed, executed, sent>>
        /\ task' = [h \in Handlers |-> At("closed")]
    BY <1>7 DEF Crash, outside, history
  <2>2. \A x : Unsent(x)' <=> Unsent(x)
    BY <2>1 DEF Unsent
  <2>3. ASSUME NEW g \in Handlers
        PROVE  Mirrored(task[g], db, cache, failed)'
               /\ Numbering(task[g], db)'
    <3>1. Empty(task'[g])
      BY <2>1, BareFields DEF Empty
    <3>. QED  BY <3>1 DEF Empty, Mirrored, Numbering, Taking, Recording,
                          Naming, Settled, Stored, Replying, Reserving,
                          Looking, Lone
  <2>. QED  BY <2>1, <2>2, <2>3 DEF MirrorInv, WriteAhead, Grounded
<1>8. CASE Tick \/ ClockBack
  BY <1>8, MirrorClock
<1>. QED  BY <1>3, <1>4, <1>5, <1>6, <1>7, <1>8

(* The handshake leaves row and cache alike.                               *)
LEMMA MirrorInit == Init => MirrorInv
<1>. SUFFICES ASSUME Init PROVE MirrorInv
  OBVIOUS
<1>1. /\ sent = <<>> /\ db = FreshRow /\ cache = {Load(FreshRow, 0)}
      /\ task = [h \in Handlers |-> At("closed")]
  BY DEF Init
<1>2. PICK s : s = Load(FreshRow, 0)
  OBVIOUS
<1>3. /\ s.user = 0 /\ s.rseq = -1 /\ s.last = 0 /\ s.sctr = 0 /\ s.rctr = 0
      /\ s.sseq = -1 /\ s.mctr = 0 /\ s.csend = 0 /\ s.crecv = 0
      /\ db.user = 0 /\ db.rseq = -1 /\ db.last = 0 /\ db.sctr = 0
      /\ db.rctr = 0 /\ db.sseq = -1 /\ db.mctr = 0
  BY <1>1, <1>2 DEF Load, FreshRow
<1>4. Matches(s, db) /\ Whole(s)
  BY <1>3 DEF Matches, Agrees, Whole
<1>5. WriteAhead
  BY <1>1, <1>2, <1>3 DEF WriteAhead
<1>6. \A x : Unsent(x)
  BY <1>1 DEF Unsent
<1>7. Grounded
  BY <1>1 DEF Grounded
<1>8. \A h \in Handlers : Empty(task[h])
  BY <1>1, BareFields DEF Empty
<1>9. \A h \in Handlers : /\ Mirrored(task[h], db, cache, failed)
                          /\ Numbering(task[h], db)
  BY <1>8, EmptyMirrored
<1>. QED  BY <1>1, <1>2, <1>4, <1>5, <1>6, <1>7, <1>9 DEF MirrorInv

(* Every step keeps the invariant, where at most one handler is open.      *)
LEMMA MirrorNext ==
  ASSUME MirrorInv, OrderInv, TypeOK, OneAtATime, OneAtATime',
         "read_fault" \notin Disturbances, [Next]_vars
  PROVE  MirrorInv'
<1>1. ASSUME NEW h \in Handlers, Step(h) PROVE MirrorInv'
  BY <1>1, MirrorLookup, MirrorAccept, MirrorHandle, MirrorSignUp,
     MirrorNumber, MirrorSeal, MirrorEnd DEF Step
<1>2. CASE \/ \E h \in Handlers : Connect(h) \/ HangUp(h) \/ Receive(h)
           \/ Evict \/ Crash \/ Tick \/ ClockBack
  BY <1>2, MirrorOutside
<1>3. CASE UNCHANGED vars
  <2>1. UNCHANGED <<task, cache, db, now, failed, executed, sent>>
    BY <1>3 DEF vars, server, outside, history
  <2>2. /\ \A x : Unsent(x)' <=> Unsent(x)
        /\ \A m : Latest(m)' <=> Latest(m)
    BY <2>1 DEF Unsent, Latest
  <2>3. ASSUME NEW g \in Handlers
        PROVE  Mirrored(task[g], db, cache, failed)'
               /\ Numbering(task[g], db)'
    <3>1. Mirrored(task[g], db, cache, failed) /\ Numbering(task[g], db)
      BY MirrorFacts
    <3>2. Mirrored(task[g], db, cache, failed)'
      BY <2>1, <3>1 DEF Mirrored, Taking, Recording, Naming, Settled, Stored,
                        Sound, Looking, Matches, Agrees, Whole
    <3>3. Numbering(task[g], db)'
      BY <2>1, <2>2, <3>1 DEF Numbering, Replying, Reserving, Looking, Sealing
    <3>. QED  BY <3>2, <3>3
  <2>4. /\ WriteAhead' /\ Grounded' /\ \A s \in cache' : Whole(s)'
        /\ Unsent(db)' /\ \A s \in cache' : Unsent(s)'
    BY <2>1, <2>2 DEF MirrorInv, WriteAhead, Grounded, Whole
  <2>5. (~failed /\ (\A h \in Handlers : ~Opened(h)) =>
            \A s \in cache : Matches(s, db))'
    BY <2>1 DEF MirrorInv, Opened, Matches, Agrees
  <2>. QED  BY <2>3, <2>4, <2>5 DEF MirrorInv
<1>. QED  BY <1>1, <1>2, <1>3 DEF Next

-----------------------------------------------------------------------------
(* The theorems *)

(* SignUp's user is new: above the row's, which create_user has made.      *)
UserInv ==
    ~failed => /\ db.user <= users
               /\ \A h \in Handlers : task[h].pc = "signup_user" =>
                     db.user < task[h].user /\ task[h].user <= users

LEMMA UserInit == Init => UserInv
<1>. SUFFICES ASSUME Init PROVE UserInv
  OBVIOUS
<1>1. db.user = 0 /\ users = 0
  BY DEF Init, FreshRow
<1>2. \A h \in Handlers : task[h].pc = "closed"
  BY BareFields DEF Init
<1>. QED  BY <1>1, <1>2 DEF UserInv

(* A failed write is not forgotten; only handle_request makes a user, and  *)
(* only its SignUp leads to signup_user.                                   *)
LEMMA UserChanges ==
  ASSUME TypeOK, Next, \A h \in Handlers : ~Handle(h)
  PROVE  /\ users' = users /\ (failed => failed')
         /\ \A g \in Handlers : task'[g].pc = "signup_user" =>
               task'[g] = task[g]
<1>1. ASSUME NEW h \in Handlers,
             Connect(h) \/ HangUp(h) \/ Receive(h) \/ Step(h)
      PROVE  users' = users /\ (failed' = failed \/ failed' = TRUE)
  <2>1. CASE Connect(h) \/ HangUp(h) \/ Receive(h)
    BY <2>1 DEF Connect, HangUp, Receive, Local, outside
  <2>2. CASE \/ LookupHit(h) \/ LookupMiss(h) \/ LookupRead(h)
             \/ LookupFill(h) \/ LookupFails(h)
    BY <2>2 DEF LookupHit, LookupMiss, LookupRead, LookupFill, LookupFails,
                Local, outside
  <2>3. CASE \/ Reject(h) \/ RejectLate(h) \/ Accept(h) \/ AcceptRecv(h)
             \/ AcceptCounters(h) \/ AcceptSave(h) \/ AcceptPut(h)
    BY <2>3 DEF Reject, RejectLate, Accept, AcceptRecv, AcceptCounters,
                AcceptSave, AcceptPut, Local, Write, Put, outside
  <2>4. CASE SignUpUser(h) \/ SignUpSave(h) \/ SignUpPut(h)
    BY <2>4 DEF SignUpUser, SignUpSave, SignUpPut, Write, Put, outside
  <2>5. CASE \/ NumberSave(h) \/ NumberPut(h) \/ NumberState(h)
             \/ Encrypt(h) \/ SealCounters(h) \/ SealSave(h) \/ SealPut(h)
    BY <2>5 DEF NumberSave, NumberPut, NumberState, Encrypt, SealCounters,
                SealSave, SealPut, Local, Write, Put, outside
  <2>6. CASE Send(h) \/ SendFails(h)
    BY <2>6 DEF Send, SendFails, Local, outside
  <2>7. CASE WriteFails(h)
    BY <2>7 DEF WriteFails
  <2>. QED  BY <1>1, <2>1, <2>2, <2>3, <2>4, <2>5, <2>6, <2>7 DEF Step
<1>2. ASSUME NEW h \in Handlers,
             Connect(h) \/ HangUp(h) \/ Receive(h) \/ Step(h)
      PROVE  \E t : task' = [task EXCEPT ![h] = t] /\ t.pc # "signup_user"
  <2>0. task[h] \in Task
    BY DEF TypeOK
  <2>1. \A site : After(site) # "signup_user"
    BY DEF After
  <2>2. \A s : Returned(task[h], s).pc # "signup_user"
    BY <2>0, <2>1 DEF Returned, Task
  <2>3. /\ \A l : l # "signup_user" => At(l).pc # "signup_user"
        /\ Back(h).pc # "signup_user"
    BY BareFields, BackFields
  <2>4. CASE Connect(h) \/ HangUp(h) \/ Receive(h)
    BY <2>0, <2>3, <2>4 DEF Connect, HangUp, Receive, Local, Go, Task
  <2>5. CASE \/ LookupHit(h) \/ LookupMiss(h) \/ LookupRead(h)
             \/ LookupFill(h)
    BY <2>0, <2>2, <2>5
       DEF LookupHit, LookupMiss, LookupRead, LookupFill, Local, Go, Task
  <2>6. CASE LookupFails(h)
    <3>1. PICK t : /\ task' = [task EXCEPT ![h] = t]
                   /\ \/ t \in {Back(h), At("closed"),
                                [task[h] EXCEPT !.pc = "send"]}
                      \/ t = [task[h] EXCEPT
                                 !.pc = "encrypt",
                                 !.number = {[seq |-> -1, ctr |-> 0]}]
      BY <2>6 DEF LookupFails, Local, Go
    <3>. QED  BY <2>0, <2>3, <3>1 DEF Task
  <2>7. CASE Reject(h) \/ RejectLate(h)
    BY <2>3, <2>7 DEF Reject, RejectLate, Local, Go
  <2>8. CASE Accept(h)
    BY <2>0, <2>8 DEF Accept, Go, Task
  <2>9. CASE \/ AcceptRecv(h) \/ AcceptCounters(h) \/ AcceptSave(h)
             \/ AcceptPut(h)
    BY <2>0, <2>9
       DEF AcceptRecv, AcceptCounters, AcceptSave, AcceptPut, Write, Put, Go,
           Task
  <2>10. CASE SignUpUser(h) \/ SignUpPut(h)
    <3>1. CASE SignUpUser(h)
      <4>1. PICK t : t = [task[h] EXCEPT !.pc = "lookup", !.site = "signup"]
        OBVIOUS
      <4>2. t.pc = "lookup"
        BY <2>0, <4>1 DEF Task
      <4>3. task' = [task EXCEPT ![h] = t]
        BY <3>1, <4>1 DEF SignUpUser, Write, Go
      <4>. QED  BY <4>2, <4>3
    <3>2. CASE SignUpPut(h)
      BY <2>3, <3>2 DEF SignUpPut, Put, Go
    <3>. QED  BY <2>10, <3>1, <3>2
  <2>11. CASE SignUpSave(h)
    BY <2>0, <2>11 DEF SignUpSave, Write, Go, Task
  <2>12. CASE NumberSave(h)
    BY <2>0, <2>12 DEF NumberSave, Write, Go, Task
  <2>13. CASE NumberPut(h) \/ NumberState(h)
    BY <2>0, <2>13 DEF NumberPut, NumberState, Write, Put, Go, Task
  <2>14. CASE Encrypt(h)
    BY <2>0, <2>14 DEF Encrypt, Local, Go, Task
  <2>15. CASE SealCounters(h) \/ SealSave(h) \/ SealPut(h)
    BY <2>0, <2>15 DEF SealCounters, SealSave, SealPut, Write, Put, Go, Task
  <2>16. CASE Send(h) \/ SendFails(h) \/ WriteFails(h)
    <3>1. CASE Send(h)
      <4>1. PICK a : task' = [task EXCEPT ![h] =
                                 [At("recv") EXCEPT !.told = {a.seq}]]
        BY <3>1 DEF Send, Go
      <4>2. PICK t : t = [At("recv") EXCEPT !.told = {a.seq}]
        OBVIOUS
      <4>3. t.pc = "recv"
        BY <4>2, BareFields
      <4>. QED  BY <4>1, <4>2, <4>3
    <3>2. CASE SendFails(h) \/ WriteFails(h)
      BY <2>3, <3>2 DEF SendFails, WriteFails, Local, Go
    <3>. QED  BY <2>16, <3>1, <3>2
  <2>. QED  BY <1>2, <2>4, <2>5, <2>6, <2>7, <2>8, <2>9, <2>10, <2>11, <2>12,
               <2>13, <2>14, <2>15, <2>16 DEF Step
<1>3. CASE \E h \in Handlers : Connect(h) \/ HangUp(h) \/ Receive(h) \/ Step(h)
  BY <1>1, <1>2, <1>3 DEF TypeOK
<1>4. CASE Evict \/ Crash \/ Tick \/ ClockBack
  BY <1>4, BareFields DEF Evict, Crash, Tick, ClockBack, outside
<1>. QED  BY <1>3, <1>4 DEF Next

(* Which actions write the row.                                           *)
LEMMA RowChanges ==
  ASSUME Next, db' # db
  PROVE  \E h \in Handlers :
            \/ AcceptRecv(h) \/ AcceptCounters(h) \/ AcceptSave(h)
            \/ SignUpUser(h) \/ SignUpSave(h)
            \/ NumberSave(h) \/ NumberState(h)
            \/ SealCounters(h) \/ SealSave(h)
BY DEF Next, Step, Connect, HangUp, Receive, Evict, Crash, Tick, ClockBack,
       LookupHit, LookupMiss, LookupRead, LookupFill, LookupFails, Reject,
       RejectLate, Accept, AcceptPut, Handle, SignUpPut, NumberPut, Encrypt,
       SealPut, Send, SendFails, WriteFails, Local, Put, server

(* The user a write of the row leaves in it.                               *)
LEMMA RowUser ==
  ASSUME TypeOK, MirrorInv, UserInv, ~failed, NEW h \in Handlers,
         \/ AcceptRecv(h) \/ AcceptCounters(h) \/ AcceptSave(h)
         \/ SignUpUser(h) \/ SignUpSave(h)
         \/ NumberSave(h) \/ NumberState(h)
         \/ SealCounters(h) \/ SealSave(h)
  PROVE  /\ db.user <= db'.user /\ db'.user <= users
         /\ Opened(h) /\ task'[h].pc # "signup_user"
<1>0. /\ Mirrored(task[h], db, cache, failed) /\ task[h] \in Task
      /\ \A s \in task[h].session : s \in Session
      /\ db \in Row /\ db.user \in Nat /\ users \in Nat /\ db.user <= users
  BY MirrorFacts DEF UserInv, Row, TypeOK
<1>1. \A t : task' = [task EXCEPT ![h] = t] => task'[h] = t
  BY DEF TypeOK
<1>2. CASE AcceptRecv(h) \/ AcceptCounters(h)
  <2>1. db'.user = db.user
    BY <1>0, <1>2 DEF AcceptRecv, AcceptCounters, Write, SetRecv, SetCounters,
                      Row
  <2>. QED  BY <1>0, <1>1, <1>2, <2>1
            DEF AcceptRecv, AcceptCounters, Write, Go, Task, Opened
<1>3. CASE AcceptSave(h)
  <2>1. PICK s \in task[h].session :
           /\ task[h].pc = "accept_save" /\ db' = RowOf(s)
           /\ task' = [task EXCEPT ![h] = [task[h] EXCEPT !.pc = "accept_put"]]
    BY <1>3 DEF AcceptSave, Write, Go
  <2>2. db'.user = db.user
    BY <1>0, <2>1 DEF Mirrored, Recording, Sound, RowOf
  <2>. QED  BY <1>0, <1>1, <2>1, <2>2 DEF Task, Opened
<1>4. CASE SignUpUser(h)
  <2>1. /\ task[h].pc = "signup_user" /\ db' = SetUser(db, task[h].user)
        /\ task' = [task EXCEPT ![h] =
                       [task[h] EXCEPT !.pc = "lookup", !.site = "signup"]]
    BY <1>4 DEF SignUpUser, Write, Go
  <2>2. db'.user = task[h].user
    BY <1>0, <2>1 DEF SetUser, Row
  <2>3. db.user < task[h].user /\ task[h].user <= users /\ task[h].user \in Nat
    BY <1>0, <2>1 DEF UserInv, Task
  <2>4. PICK t : t = [task[h] EXCEPT !.pc = "lookup", !.site = "signup"]
    OBVIOUS
  <2>5. t.pc = "lookup" /\ task' = [task EXCEPT ![h] = t]
    BY <1>0, <2>1, <2>4 DEF Task
  <2>6. task'[h] = t
    BY <1>1, <2>5
  <2>7. db.user <= db'.user /\ db'.user <= users
    BY <1>0, <2>2, <2>3
  <2>. QED  BY <2>1, <2>5, <2>6, <2>7 DEF Opened
<1>5. CASE SignUpSave(h)
  <2>1. PICK s \in task[h].session :
           LET e == [s EXCEPT !.user = task[h].user] IN
           /\ task[h].pc = "signup_save" /\ db' = RowOf(e)
           /\ task' = [task EXCEPT ![h] =
                 [task[h] EXCEPT !.pc = "signup_put", !.session = {e}]]
    BY <1>5 DEF SignUpSave, Write, Go
  <2>2. PICK e : e = [s EXCEPT !.user = task[h].user]
    OBVIOUS
  <2>3. PICK t : t = [task[h] EXCEPT !.pc = "signup_put", !.session = {e}]
    OBVIOUS
  <2>4. db' = RowOf(e) /\ task' = [task EXCEPT ![h] = t]
    BY <2>1, <2>2, <2>3
  <2>5. e.user = task[h].user /\ t.pc = "signup_put"
    BY <1>0, <2>2, <2>3 DEF Session, Task
  <2>6. db'.user = task[h].user
    BY <2>4, <2>5 DEF RowOf
  <2>7. db.user = task[h].user
    BY <1>0, <2>1 DEF Mirrored, Naming
  <2>. QED  BY <1>0, <1>1, <2>1, <2>4, <2>5, <2>6, <2>7 DEF Opened
<1>6. CASE NumberSave(h)
  <2>1. PICK s \in task[h].session :
           /\ task[h].pc = "number_save" /\ db' = RowOf(Numbered(s))
           /\ task' = [task EXCEPT ![h] = [task[h] EXCEPT
                 !.pc = "number_put",
                 !.session = {Numbered(s)},
                 !.number = {[seq |-> Numbered(s).sseq, ctr |-> s.mctr]}]]
    BY <1>6 DEF NumberSave, Write, Go
  <2>2. PICK t : t = [task[h] EXCEPT
                 !.pc = "number_put",
                 !.session = {Numbered(s)},
                 !.number = {[seq |-> Numbered(s).sseq, ctr |-> s.mctr]}]
    OBVIOUS
  <2>3. task' = [task EXCEPT ![h] = t] /\ t.pc = "number_put"
    BY <1>0, <2>1, <2>2 DEF Task
  <2>4. db'.user = s.user
    BY <1>0, <2>1 DEF RowOf, Numbered, Session
  <2>5. s.user = db.user
    BY <1>0, <2>1 DEF Mirrored, Settled, Matches
  <2>. QED  BY <1>0, <1>1, <2>1, <2>3, <2>4, <2>5 DEF Opened
<1>7. CASE NumberState(h) \/ SealCounters(h)
  <2>1. db'.user = db.user
    BY <1>0, <1>7 DEF NumberState, SealCounters, Write, SetSendState,
                      SetCounters, Row
  <2>2. PICK t :
           /\ task[h].pc # "closed" /\ task' = [task EXCEPT ![h] = t]
           /\ t.pc # "signup_user"
    BY <1>0, <1>7 DEF NumberState, SealCounters, Write, Go, Task
  <2>3. task'[h] = t
    BY <1>1, <2>2
  <2>4. db.user <= db'.user /\ db'.user <= users
    BY <1>0, <2>1
  <2>. QED  BY <2>2, <2>3, <2>4 DEF Opened
<1>8. CASE SealSave(h)
  <2>1. PICK s \in task[h].session :
           /\ task[h].pc = "seal_save" /\ db' = RowOf(s)
           /\ task' = [task EXCEPT ![h] = [task[h] EXCEPT !.pc = "seal_put"]]
    BY <1>8 DEF SealSave, Write, Go
  <2>2. db'.user = db.user
    BY <1>0, <2>1 DEF Mirrored, Stored, Matches, RowOf
  <2>. QED  BY <1>0, <1>1, <2>1, <2>2 DEF Task, Opened
<1>. QED  BY <1>2, <1>3, <1>4, <1>5, <1>6, <1>7, <1>8

LEMMA UserNext ==
  ASSUME UserInv, TypeOK, MirrorInv, OneAtATime, [Next]_vars
  PROVE  UserInv'
<1>0. db \in Row /\ db.user \in Nat /\ users \in Nat
  BY DEF TypeOK, Row
<1>1. CASE UNCHANGED vars
  BY <1>1 DEF vars, server, outside, UserInv
<1>2. ASSUME NEW h \in Handlers, Handle(h) PROVE UserInv'
  <2>0. PICK f \in task[h].frame : \E t :
           /\ task' = [task EXCEPT ![h] = t]
           /\ users' = IF f.kind = "signup" THEN users + 1 ELSE users
           /\ \/ f.kind = "signup" /\ t.user = users + 1
              \/ t.pc # "signup_user"
    <3>1. task[h] \in Task
      BY DEF TypeOK
    <3>2. At("closed").pc # "signup_user" /\ Back(h).pc # "signup_user"
      BY BareFields, BackFields
    <3>3. PICK g \in task[h].frame : \E t :
             /\ task' = [task EXCEPT ![h] = t]
             /\ users' = IF g.kind = "signup" THEN users + 1 ELSE users
             /\ \/ t = [task[h] EXCEPT !.pc = "lookup", !.site = "number"]
                \/ /\ g.kind = "signup"
                   /\ t = [task[h] EXCEPT !.pc = "signup_user",
                                          !.user = users + 1]
                \/ t = At("closed")
                \/ t = Back(h)
      BY <1>2 DEF Handle, Go
    <3>. QED  BY <3>1, <3>2, <3>3 DEF Task
  <2>1. PICK t :
           /\ task' = [task EXCEPT ![h] = t]
           /\ users' = IF f.kind = "signup" THEN users + 1 ELSE users
           /\ \/ f.kind = "signup" /\ t.user = users + 1
              \/ t.pc # "signup_user"
    BY <2>0
  <2>2. /\ task[h].pc = "handle" /\ UNCHANGED <<db, failed>>
    BY <1>2 DEF Handle, Go, server
  <2>3. \A g \in Handlers : g # h => task'[g].pc # "signup_user"
    BY <2>1, <2>2 DEF OneAtATime, Opened, TypeOK
  <2>4. task'[h] = t
    BY <2>1 DEF TypeOK
  <2>5. users' \in Nat /\ users <= users'
    BY <1>0, <2>1
  <2>. QED  BY <1>0, <2>1, <2>2, <2>3, <2>4, <2>5 DEF UserInv
<1>3. CASE Next /\ \A h \in Handlers : ~Handle(h)
  <2>1. /\ users' = users /\ (failed => failed')
        /\ \A g \in Handlers : task'[g].pc = "signup_user" =>
              task'[g] = task[g]
    BY <1>3, UserChanges
  <2>2. CASE db' = db
    BY <2>1, <2>2 DEF UserInv
  <2>3. CASE db' # db /\ ~failed
    <3>1. PICK h \in Handlers :
            \/ AcceptRecv(h) \/ AcceptCounters(h) \/ AcceptSave(h)
            \/ SignUpUser(h) \/ SignUpSave(h)
            \/ NumberSave(h) \/ NumberState(h)
            \/ SealCounters(h) \/ SealSave(h)
      BY <1>3, <2>3, RowChanges
    <3>2. /\ db'.user <= users /\ Opened(h) /\ task'[h].pc # "signup_user"
      BY <2>3, <3>1, RowUser
    <3>3. \A g \in Handlers : task'[g].pc # "signup_user"
      BY <2>1, <3>2 DEF OneAtATime, Opened
    <3>. QED  BY <2>1, <3>2, <3>3 DEF UserInv
  <2>. QED  BY <2>1, <2>2, <2>3 DEF UserInv
<1>. QED  BY <1>1, <1>2, <1>3

(* The four invariants hold together.                                      *)
LEMMA MirrorCorrect ==
  ASSUME "read_fault" \notin Disturbances
  PROVE  Spec /\ []OneAtATime =>
            [](TypeOK /\ NonceInv /\ OrderInv /\ MirrorInv /\ UserInv)
<1>1. Init => NonceInv /\ OrderInv /\ MirrorInv /\ UserInv
  BY NonceInit, OrderInit, MirrorInit, UserInit
<1>2. /\ NonceInv /\ OrderInv /\ MirrorInv /\ UserInv
      /\ TypeOK /\ OneAtATime /\ OneAtATime' /\ [Next]_vars
      => (NonceInv /\ OrderInv /\ MirrorInv /\ UserInv)'
  BY NonceNext, OrderNext, MirrorNext, UserNext
<1>. QED  BY <1>1, <1>2, TypeCorrect, PTL DEF Spec

(* session_cache.rs:81-104: what the cache holds is on disk at every step, *)
(* so no counter, seq_no or msg_id that a handler took from it is handed   *)
(* out again when the entry is lost.                                       *)
THEOREM WriteAheadAlone ==
  ASSUME "read_fault" \notin Disturbances
  PROVE  Spec /\ []OneAtATime => []WriteAhead
<1>1. MirrorInv => WriteAhead
  BY DEF MirrorInv
<1>. QED  BY <1>1, MirrorCorrect, PTL

(* session_cache.rs:59-76: an entry rebuilt from the row refuses what has  *)
(* been executed; between two frames it has the fields of the entry it     *)
(* replaces, but for the receive counter of its crypto context, which is   *)
(* not ahead, and for the msg_ids in recent_msg_ids.                       *)
THEOREM RebuiltAsCachedAlone ==
  ASSUME "read_fault" \notin Disturbances
  PROVE  Spec /\ []OneAtATime => []RebuiltAsCached
<1>1. ASSUME TypeOK, OrderInv, MirrorInv PROVE RebuiltAsCached
  <2>0. \A i \in DOMAIN executed : executed[i] <= db.last
    BY <1>1 DEF OrderInv, Past
  <2>. SUFFICES ASSUME ~failed, Idle, NEW s \in cache
                PROVE  /\ [Load(db, s.rec) EXCEPT !.crecv = s.crecv] = s
                       /\ Load(db, s.rec).crecv <= s.crecv
    BY <2>0 DEF RebuiltAsCached
  <2>1. s \in Session /\ Whole(s) /\ db \in Row
    BY <1>1 DEF TypeOK, MirrorInv
  <2>2. Matches(s, db)
    <3>1. CASE \A h \in Handlers : ~Opened(h)
      BY <1>1, <3>1 DEF MirrorInv
    <3>2. CASE \E h \in Handlers : Opened(h)
      <4>1. PICK h \in Handlers : task[h].pc = "recv"
        BY <3>2 DEF Opened, Idle
      <4>2. Mirrored(task[h], db, cache, failed)
        BY <1>1 DEF MirrorInv
      <4>. QED  BY <4>1, <4>2 DEF Mirrored, Taking, Sound
    <3>. QED  BY <3>1, <3>2
  <2>3. Load(db, s.rec) =
           [user |-> s.user, rseq |-> s.rseq, last |-> s.last,
            sctr |-> s.sctr, rctr |-> s.rctr, sseq |-> s.sseq,
            mctr |-> s.mctr, csend |-> s.csend, crecv |-> s.rctr,
            rec |-> s.rec]
    BY <2>1, <2>2 DEF Load, Matches, Agrees, Whole
  <2>4. s = [user |-> s.user, rseq |-> s.rseq, last |-> s.last,
             sctr |-> s.sctr, rctr |-> s.rctr, sseq |-> s.sseq,
             mctr |-> s.mctr, csend |-> s.csend, crecv |-> s.crecv,
             rec |-> s.rec]
    BY <2>1 DEF Session
  <2>5. db.rctr <= s.crecv
    BY <2>1, <2>2 DEF Matches, Agrees, Whole
  <2>. QED  BY <2>3, <2>4, <2>5 DEF Load
<1>. QED  BY <1>1, MirrorCorrect, PTL

(* A later row; all of it but the receive counter; the save that takes     *)
(* that counter back.                                                      *)
Onward(old, new) ==
    /\ old.last <= new.last /\ old.rseq <= new.rseq
    /\ old.sctr <= new.sctr /\ old.sseq <= new.sseq /\ old.mctr <= new.mctr
Forward(old, new) == Onward(old, new) /\ old.rctr <= new.rctr
Saving == \E h \in Handlers : /\ task[h].pc = "accept_save"
                              /\ task'[h].pc = "accept_put"

(* No step that does not fail takes the row back.                          *)
LEMMA RowForward ==
  ASSUME TypeOK, MirrorInv, UserInv, [Next]_vars, ~failed'
  PROVE  /\ db.user <= db'.user /\ Onward(db, db')
         /\ db.rctr <= db'.rctr \/ Saving
<1>0. /\ db.last \in Int /\ db.rseq \in Int /\ db.sctr \in Nat
      /\ db.sseq \in Int /\ db.mctr \in Nat /\ db \in Row
      /\ db.user \in Nat /\ db.rctr \in Nat
  BY DEF TypeOK, Row
<1>1. CASE db' = db
  BY <1>0, <1>1 DEF Onward
<1>2. CASE db' # db
  <2>1. PICK h \in Handlers :
            \/ AcceptRecv(h) \/ AcceptCounters(h) \/ AcceptSave(h)
            \/ SignUpUser(h) \/ SignUpSave(h)
            \/ NumberSave(h) \/ NumberState(h)
            \/ SealCounters(h) \/ SealSave(h)
    BY <1>2, RowChanges DEF vars, server
  <2>2. /\ Mirrored(task[h], db, cache, failed)
        /\ \A s \in task[h].session : s \in Session /\ Whole(s)
        /\ \A c \in task[h].crypto : c \in Crypto
    BY MirrorFacts, Typed
  <2>3. ~failed
    BY <2>1 DEF AcceptRecv, AcceptCounters, AcceptSave, SignUpUser, SignUpSave,
                NumberSave, NumberState, SealCounters, SealSave, Write, outside
  <2>4. db.user <= db'.user
    BY <2>1, <2>3, RowUser
  <2>5. CASE AcceptRecv(h)
    <3>1. PICK s \in task[h].session : /\ task[h].pc = "accept_recv"
                                       /\ db' = SetRecv(db, s.rseq, s.last)
      BY <2>5 DEF AcceptRecv, Write, Go
    <3>2. db.last <= s.last /\ db.rseq <= s.rseq
      BY <2>2, <2>3, <3>1 DEF Mirrored, Recording, Sound
    <3>. QED  BY <1>0, <3>1, <3>2 DEF SetRecv, Row, Forward, Onward
  <2>6. CASE AcceptCounters(h)
    <3>1. PICK s \in task[h].session :
             /\ task[h].pc = "accept_counters"
             /\ db' = SetCounters(db, s.csend, s.crecv)
      BY <2>6 DEF AcceptCounters, Write, Go
    <3>2. db.sctr = s.csend /\ db.rctr <= s.crecv
      BY <2>2, <2>3, <3>1 DEF Mirrored, Recording, Sound, Whole
    <3>. QED  BY <1>0, <3>1, <3>2 DEF SetCounters, Row, Forward, Onward
  <2>7. CASE AcceptSave(h)
    <3>1. PICK s \in task[h].session : /\ task[h].pc = "accept_save"
                                       /\ db' = RowOf(s)
      BY <2>7 DEF AcceptSave, Write, Go
    <3>2. /\ s.user = db.user /\ s.sctr = db.sctr
          /\ s.sseq = db.sseq /\ s.mctr = db.mctr
          /\ s.last = db.last /\ s.rseq = db.rseq
      BY <2>2, <2>3, <3>1 DEF Mirrored, Recording, Sound
    <3>3. Saving
      <4>1. task' = [task EXCEPT ![h] = [task[h] EXCEPT !.pc = "accept_put"]]
        BY <2>7 DEF AcceptSave, Write, Go
      <4>2. task \in [Handlers -> Task] /\ task[h] \in Task
        BY DEF TypeOK
      <4>3. task'[h].pc = "accept_put"
        BY <4>1, <4>2 DEF Task
      <4>. QED  BY <3>1, <4>3 DEF Saving
    <3>. QED  BY <1>0, <3>1, <3>2, <3>3 DEF RowOf, Onward
  <2>8. CASE SignUpUser(h)
    <3>1. db' = SetUser(db, task[h].user)
      BY <2>8 DEF SignUpUser, Write, Go
    <3>2. /\ db'.rseq = db.rseq /\ db'.last = db.last /\ db'.sctr = db.sctr
          /\ db'.rctr = db.rctr /\ db'.sseq = db.sseq /\ db'.mctr = db.mctr
      BY <1>0, <3>1 DEF SetUser, Row
    <3>. QED  BY <1>0, <2>4, <3>2 DEF Onward
  <2>9. CASE SignUpSave(h)
    <3>1. PICK s \in task[h].session :
             /\ task[h].pc = "signup_save"
             /\ db' = RowOf([s EXCEPT !.user = task[h].user])
      BY <2>9 DEF SignUpSave, Write, Go
    <3>2. Agrees(s, db) /\ db.user = task[h].user /\ s \in Session
      BY <2>2, <3>1 DEF Mirrored, Naming
    <3>3. PICK e : e = [s EXCEPT !.user = task[h].user]
      OBVIOUS
    <3>4. /\ e.user = task[h].user /\ e.rseq = s.rseq /\ e.last = s.last
          /\ e.sctr = s.sctr /\ e.sseq = s.sseq /\ e.mctr = s.mctr
          /\ e.rctr = s.rctr
      BY <3>2, <3>3 DEF Session
    <3>5. db' = RowOf(e)
      BY <3>1, <3>3
    <3>. QED  BY <1>0, <3>2, <3>4, <3>5 DEF RowOf, Forward, Onward, Agrees
  <2>10. CASE NumberSave(h)
    <3>1. PICK s \in task[h].session : /\ task[h].pc = "number_save"
                                       /\ db' = RowOf(Numbered(s))
      BY <2>10 DEF NumberSave, Write, Go
    <3>2. Matches(s, db) /\ s \in Session
      BY <2>2, <3>1 DEF Mirrored, Settled
    <3>3. PICK e : e = Numbered(s)
      OBVIOUS
    <3>4. /\ e.user = s.user /\ e.rseq = s.rseq /\ e.last = s.last
          /\ e.sctr = s.sctr /\ e.sseq = s.sseq + 1 /\ e.mctr = s.mctr + 1
          /\ e.rctr = s.rctr
      BY <3>2, <3>3 DEF Numbered, Session
    <3>5. db' = RowOf(e)
      BY <3>1, <3>3
    <3>. QED  BY <1>0, <3>2, <3>4, <3>5
              DEF RowOf, Forward, Onward, Matches, Agrees
  <2>11. CASE NumberState(h)
    <3>1. PICK s \in task[h].session :
             /\ task[h].pc = "number_state"
             /\ db' = SetSendState(db, s.sseq, s.mctr)
      BY <2>11 DEF NumberState, Write, Go
    <3>2. Matches(s, db)
      BY <2>2, <3>1 DEF Mirrored, Settled
    <3>. QED  BY <1>0, <3>1, <3>2
              DEF SetSendState, Row, Forward, Onward, Matches, Agrees
  <2>12. CASE SealCounters(h)
    <3>1. PICK c \in task[h].crypto :
             /\ task[h].pc = "seal_counters"
             /\ db' = SetCounters(db, c.send, c.recv)
      BY <2>12 DEF SealCounters, Write, Go
    <3>2. /\ c.send = db.sctr \/ c.send = db.sctr + 1
          /\ db.rctr <= c.recv
      BY <2>2, <3>1 DEF Mirrored
    <3>. QED  BY <1>0, <3>1, <3>2 DEF SetCounters, Row, Forward, Onward
  <2>13. CASE SealSave(h)
    <3>1. PICK s \in task[h].session : /\ task[h].pc = "seal_save"
                                       /\ db' = RowOf(s)
      BY <2>13 DEF SealSave, Write, Go
    <3>2. Matches(s, db)
      BY <2>2, <3>1 DEF Mirrored, Stored
    <3>. QED  BY <1>0, <3>1, <3>2 DEF RowOf, Forward, Onward, Matches, Agrees
  <2>. QED  BY <2>1, <2>5, <2>6, <2>7, <2>8, <2>9, <2>10, <2>11, <2>12, <2>13,
               <2>4 DEF Forward
<1>. QED  BY <1>1, <1>2

(* server.rs:222-224, 248-280: as long as no write has failed, none of the *)
(* handler's UPDATEs and none of its full-row saves from a clone puts an   *)
(* older msg_id, counter, seq_no or user back into the row; but for the    *)
(* save of line 224, which may put back the receive counter of before.     *)
THEOREM RowMovesForwardAlone ==
  ASSUME "read_fault" \notin Disturbances
  PROVE  Spec /\ []OneAtATime => RowMovesForward
<1>. DEFINE Ahead == ~failed' =>
               /\ db.user <= db'.user
               /\ db.last <= db'.last /\ db.rseq <= db'.rseq
               /\ db.sctr <= db'.sctr
               /\ db.sseq <= db'.sseq /\ db.mctr <= db'.mctr
               /\ \/ db.rctr <= db'.rctr
                  \/ \E h \in Handlers : /\ task[h].pc = "accept_save"
                                        /\ task'[h].pc = "accept_put"
<1>1. TypeOK /\ MirrorInv /\ UserInv /\ [Next]_vars => [Ahead]_vars
  BY RowForward DEF Onward, Saving
<1>2. Spec /\ []OneAtATime => [][Ahead]_vars
  BY <1>1, MirrorCorrect, PTL DEF Spec
<1>. QED  BY <1>2 DEF RowMovesForward

(* Only Send puts an answer on the wire.                                   *)
LEMMA SentChanges ==
  ASSUME Next, sent' # sent
  PROVE  \E h \in Handlers : Send(h)
<1>1. ~(Evict \/ Crash \/ Tick \/ ClockBack)
  BY DEF Evict, Crash, Tick, ClockBack, history
<1>2. PICK h \in Handlers : Connect(h) \/ HangUp(h) \/ Receive(h) \/ Step(h)
  BY <1>1 DEF Next
<1>3. ~(Connect(h) \/ HangUp(h) \/ Receive(h))
  BY DEF Connect, HangUp, Receive, Local, history
<1>4. ~(LookupHit(h) \/ LookupMiss(h) \/ LookupRead(h) \/ LookupFill(h)
        \/ LookupFails(h) \/ Reject(h) \/ RejectLate(h))
  BY DEF LookupHit, LookupMiss, LookupRead, LookupFill, LookupFails, Reject,
         RejectLate, Local, Put, Write, history
<1>5. ~(Accept(h) \/ AcceptRecv(h) \/ AcceptCounters(h) \/ AcceptSave(h)
        \/ AcceptPut(h) \/ SignUpUser(h) \/ SignUpSave(h) \/ SignUpPut(h))
  BY DEF Accept, AcceptRecv, AcceptCounters, AcceptSave, AcceptPut,
         SignUpUser, SignUpSave, SignUpPut, Local, Put, Write, history
<1>6. ~(NumberSave(h) \/ NumberPut(h) \/ NumberState(h) \/ Encrypt(h)
        \/ SealCounters(h) \/ SealSave(h) \/ SealPut(h))
  BY DEF NumberSave, NumberPut, NumberState, Encrypt, SealCounters, SealSave,
         SealPut, Local, Put, Write, history
<1>7. ~(Handle(h) \/ SendFails(h) \/ WriteFails(h))
  BY DEF Handle, SendFails, WriteFails, Local, Put, Write, history
<1>. QED  BY <1>2, <1>3, <1>4, <1>5, <1>6, <1>7 DEF Step

(* session.rs:492-501: recv_tl of the client closes the connection at a    *)
(* gap in the seq_nos; the answers sent on one connection have none,       *)
(* whatever the handler loses and rereads between two of them.  From one   *)
(* connection to the next there may be one.                                *)
THEOREM AnswersConsecutiveAlone ==
  ASSUME "read_fault" \notin Disturbances
  PROVE  Spec /\ []OneAtATime => AnswersConsecutive
<1>. DEFINE NextSeq == sent' # sent =>
               \A h \in Handlers : task'[h] # task[h] =>
                  \A p \in task[h].told, q \in task'[h].told : q = p + 1
<1>1. ASSUME TypeOK, MirrorInv, [Next]_vars PROVE NextSeq
  <2>. SUFFICES ASSUME sent' # sent,
                       NEW h \in Handlers, task'[h] # task[h],
                       NEW p \in task[h].told, NEW q \in task'[h].told
                PROVE  q = p + 1
    OBVIOUS
  <2>1. PICK g \in Handlers : Send(g)
    BY <1>1, SentChanges DEF vars, history
  <2>2. PICK a \in task[g].answer :
           /\ task[g].pc = "send"
           /\ task' = [task EXCEPT ![g] = [At("recv") EXCEPT !.told = {a.seq}]]
    BY <2>1 DEF Send, Go
  <2>3. h = g
    BY <1>1, <2>2 DEF TypeOK
  <2>4. PICK t : t = [At("recv") EXCEPT !.told = {a.seq}]
    OBVIOUS
  <2>5. t.told = {a.seq} /\ task'[g] = t
    BY <1>1, <2>2, <2>4, BareFields DEF TypeOK
  <2>6. q = a.seq
    BY <2>3, <2>5
  <2>7. a.seq = db.sseq /\ p + 1 = db.sseq
    BY <1>1, <2>3, MirrorFacts DEF Numbering
  <2>. QED  BY <2>6, <2>7
<1>2. Spec /\ []OneAtATime => [][NextSeq]_vars
  BY <1>1, MirrorCorrect, PTL DEF Spec
<1>. QED  BY <1>2 DEF AnswersConsecutive

(* Only Handle executes a request.                                         *)
LEMMA ExecutedChanges ==
  ASSUME Next, executed' # executed
  PROVE  \E h \in Handlers : Handle(h)
<1>1. ~(Evict \/ Crash \/ Tick \/ ClockBack)
  BY DEF Evict, Crash, Tick, ClockBack, history
<1>2. PICK h \in Handlers : Connect(h) \/ HangUp(h) \/ Receive(h) \/ Step(h)
  BY <1>1 DEF Next
<1>3. ~(Connect(h) \/ HangUp(h) \/ Receive(h))
  BY DEF Connect, HangUp, Receive, Local, history
<1>4. ~(LookupHit(h) \/ LookupMiss(h) \/ LookupRead(h) \/ LookupFill(h)
        \/ LookupFails(h) \/ Reject(h) \/ RejectLate(h))
  BY DEF LookupHit, LookupMiss, LookupRead, LookupFill, LookupFails, Reject,
         RejectLate, Local, Put, Write, history
<1>5. ~(Accept(h) \/ AcceptRecv(h) \/ AcceptCounters(h) \/ AcceptSave(h)
        \/ AcceptPut(h) \/ SignUpUser(h) \/ SignUpSave(h) \/ SignUpPut(h))
  BY DEF Accept, AcceptRecv, AcceptCounters, AcceptSave, AcceptPut,
         SignUpUser, SignUpSave, SignUpPut, Local, Put, Write, history
<1>6. ~(NumberSave(h) \/ NumberPut(h) \/ NumberState(h) \/ Encrypt(h)
        \/ SealCounters(h) \/ SealSave(h) \/ SealPut(h))
  BY DEF NumberSave, NumberPut, NumberState, Encrypt, SealCounters, SealSave,
         SealPut, Local, Put, Write, history
<1>7. ~(Send(h) \/ SendFails(h) \/ WriteFails(h))
  BY DEF Send, SendFails, WriteFails, Local, Put, Write, history
<1>. QED  BY <1>2, <1>3, <1>4, <1>5, <1>6, <1>7 DEF Step

(* A request that is executed is a step Execute of the ledger; ...         *)
LEMMA HandleExecutes ==
  ASSUME TypeOK, OrderInv, NEW h \in Handlers, Handle(h),
         executed' # executed
  PROVE  Ledger!Execute
<1>1. PICK f \in task[h].frame : executed' = Append(executed, f.msg)
  BY DEF Handle
<1>2. f.msg \in MsgIds /\ executed \in Seq(MsgIds)
  BY Typed, FrameType DEF TypeOK
<1>3. Fresh(f.msg)
  BY DEF OrderInv, Ordered, Handle, Go
<1>4. Len(executed') > 0 /\ executed'[Len(executed')] = f.msg
  BY <1>1, <1>2
<1>5. sent' = sent
  BY DEF Handle
<1>. QED  BY <1>1, <1>3, <1>4, <1>5 DEF Ledger!Execute, Ledger!Ends, Fresh

(* ... one that is answered, a step Answer.                                *)
LEMMA SendAnswers ==
  ASSUME TypeOK, NonceInv, MirrorInv, NEW h \in Handlers, Send(h),
         "clock_back" \notin Disturbances
  PROVE  Ledger!Answer
<1>1. PICK a \in task[h].answer : sent' = Append(sent, a)
  BY DEF Send
<1>2. sent \in Seq(Answer) /\ a \in Answer /\ executed \in Seq(MsgIds)
  BY Typed DEF TypeOK
<1>3. Len(sent') > 0 /\ sent'[Len(sent')] = a
  BY <1>1, <1>2
<1>4. /\ Latest(a.for)
      /\ \A i \in DOMAIN sent : sent[i].seq < a.seq /\ sent[i].msg < a.msg
  BY MirrorFacts DEF Numbering, Steady
<1>5. Unused(a.nonce)
  BY DEF NonceInv, Covered
<1>6. /\ Len(executed) > 0 /\ executed[Len(executed)] = a.for
      /\ \A i \in DOMAIN sent : sent[i].for < a.for
  BY <1>2, <1>4 DEF Latest
<1>7. executed' = executed
  BY DEF Send
<1>. QED  BY <1>1, <1>3, <1>4, <1>5, <1>6, <1>7
          DEF Ledger!Answer, Ledger!Ends, Unused

(* server.rs:187-282: whatever is cached, evicted, written or lost on the  *)
(* way, the session keeps a ledger: requests executed in the order of      *)
(* their msg_ids, each answered at most once and before the next one, and  *)
(* answers numbered upwards in seq_no, msg_id and nonce counter.  The      *)
(* msg_ids of answers are taken from the clock (server.rs:263), so the     *)
(* clock must not be set back.                                             *)
THEOREM LedgerAlone ==
  ASSUME "read_fault" \notin Disturbances, "clock_back" \notin Disturbances
  PROVE  Spec /\ []OneAtATime => LedgerSpec
<1>1. Init => Ledger!Init
  BY DEF Init, Ledger!Init
<1>2. ASSUME TypeOK, NonceInv, OrderInv, MirrorInv, [Next]_vars
      PROVE  [Ledger!Next]_(Ledger!ledger)
  <2>1. CASE executed' = executed /\ sent' = sent
    BY <2>1 DEF Ledger!ledger
  <2>2. CASE executed' # executed
    <3>1. PICK h \in Handlers : Handle(h)
      BY <1>2, <2>2, ExecutedChanges DEF vars, history
    <3>. QED  BY <1>2, <2>2, <3>1, HandleExecutes DEF Ledger!Next
  <2>3. CASE sent' # sent
    <3>1. PICK h \in Handlers : Send(h)
      BY <1>2, <2>3, SentChanges DEF vars, history
    <3>. QED  BY <1>2, <3>1, SendAnswers DEF Ledger!Next
  <2>. QED  BY <2>1, <2>2, <2>3
<1>. QED  BY <1>1, <1>2, MirrorCorrect, PTL
          DEF Spec, LedgerSpec, Ledger!Spec
=============================================================================
