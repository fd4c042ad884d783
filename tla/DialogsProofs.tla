---------------------------- MODULE DialogsProofs ----------------------------
(***************************************************************************)
(* Who is in a dialog and who changes that, whatever requests overlap and  *)
(* wherever they fail; and what requests answer: the pages of a history,   *)
(* the dialogs found or made, and the participants shown.  For any number  *)
(* of users, handlers, messages and requests.                              *)
(***************************************************************************)
EXTENDS Dialogs, FiniteSetTheorems, SequenceTheorems, FunctionTheorems, TLAPS

-----------------------------------------------------------------------------
(* The invariant *)

(* A participant has joined, and so has, before all others, the user who   *)
(* asked for the dialog.                                                   *)
DialogInv ==
    \A d \in Ids : /\ dialogs[d].members \subseteq dialogs[d].joined
                   /\ dialogs[d].joined # {} =>
                          dialogs[d].creator \in dialogs[d].joined

(* A request has its user and a dialog that exists.  As long as nobody has *)
(* joined the dialog it fills, the next to join is its user; what it       *)
(* changes, its user has joined.                                           *)
RequestInv(r) ==
    /\ r.pc # "idle" => r.user \in Users /\ r.other \in People
    /\ r.pc \in {"find", "new"} => r.op \in {"private", "group"}
    /\ r.pc \in {"fill", "check", "change"} => r.dialog \in Ids
    /\ r.pc = "fill" =>
           /\ r.todo # <<>>
           /\ dialogs[r.dialog].joined = {} =>
                  Head(r.todo) = dialogs[r.dialog].creator
    /\ r.pc = "change" =>
           /\ r.user \in dialogs[r.dialog].joined
           /\ r.op = "remove" => r.user # r.other

DialogsInv == /\ TypeOK /\ DialogInv
              /\ \A h \in Handlers : RequestInv(handlers[h])
-----------------------------------------------------------------------------
(* What the operators of the model do to types *)

LEMMA IdleType == Idle \in Handler /\ RequestInv(Idle)
<1>1. <<>> \in Seq(People)
  BY EmptySeq
<1>. QED  BY <1>1 DEF Idle, Handler, RequestInv

(* Requests go on as they are while dialogs are added and joined.          *)
Grows ==
    \A d \in Ids : /\ d \in Ids'
                   /\ dialogs'[d].creator = dialogs[d].creator
                   /\ dialogs[d].joined \subseteq dialogs'[d].joined

Same(k) == /\ handlers'[k].pc = handlers[k].pc
           /\ handlers'[k].op = handlers[k].op
           /\ handlers'[k].user = handlers[k].user
           /\ handlers'[k].other = handlers[k].other
           /\ handlers'[k].dialog = handlers[k].dialog
           /\ handlers'[k].todo = handlers[k].todo

LEMMA RequestStays ==
  ASSUME NEW k \in Handlers, RequestInv(handlers[k]), Grows, Same(k)
  PROVE  RequestInv(handlers[k])'
BY DEF RequestInv, Grows, Same

(* A step of one request that leaves the dialogs alone.                    *)
LEMMA LocalStep ==
  ASSUME DialogsInv, NEW h \in Handlers, NEW r \in Handler, RequestInv(r),
         handlers' = [handlers EXCEPT ![h] = r], UNCHANGED dialogs
  PROVE  /\ handlers' \in [Handlers -> Handler]
         /\ \A k \in Handlers : RequestInv(handlers[k])'
         /\ DialogInv'
<1>1. handlers' \in [Handlers -> Handler] /\ handlers'[h] = r
  BY DEF DialogsInv, TypeOK
<1>2. RequestInv(handlers[h])'
  BY <1>1 DEF RequestInv, Ids
<1>3. ASSUME NEW k \in Handlers, k # h
      PROVE  RequestInv(handlers[k])'
  <2>1. handlers'[k] = handlers[k]
    BY <1>3 DEF DialogsInv, TypeOK
  <2>. QED  BY <2>1 DEF RequestInv, DialogsInv, Ids
<1>4. DialogInv'
  BY DEF DialogsInv, DialogInv, Ids
<1>. QED  BY <1>1, <1>2, <1>3, <1>4

(* What a change of participants comes to.                                 *)
Changed(d, m, hs) ==
    /\ dialogs' \in Seq(Dialog) /\ Ids' = Ids
    /\ dialogs'[d].members = m
    /\ dialogs'[d].joined = dialogs[d].joined \cup m
    /\ dialogs'[d].creator = dialogs[d].creator
    /\ \A e \in Ids : e # d => dialogs'[e] = dialogs[e]
    /\ handlers' \in [Handlers -> Handler]
    /\ \A k \in Handlers : \/ handlers'[k] = hs[k]
                           \/ /\ handlers'[k] = [hs[k] EXCEPT !.undone = TRUE]
                              /\ hs[k] = handlers[k]

LEMMA SetMembersType ==
  ASSUME DialogsInv, NEW d \in Ids, NEW m \in SUBSET Users,
         NEW mixed \in BOOLEAN, NEW hs \in [Handlers -> Handler],
         SetMembers(d, m, mixed, hs)
  PROVE  Changed(d, m, hs)
<1>1. dialogs \in Seq(Dialog) /\ dialogs[d] \in Dialog
  BY DEF DialogsInv, TypeOK, Ids
<1>. DEFINE new == [dialogs[d] EXCEPT !.members = m,
                                      !.joined = dialogs[d].joined \cup m,
                                      !.mixed = dialogs[d].mixed \/ mixed]
<1>2. dialogs' = [dialogs EXCEPT ![d] = new]
  BY <1>1 DEF SetMembers
<1>3. /\ new \in Dialog /\ new.members = m
      /\ new.joined = dialogs[d].joined \cup m
      /\ new.creator = dialogs[d].creator
  BY <1>1 DEF Dialog
<1>4. /\ dialogs' \in Seq(Dialog) /\ Ids' = Ids /\ dialogs'[d] = new
      /\ \A e \in Ids : e # d => dialogs'[e] = dialogs[e]
  <2>. HIDE DEF new
  <2>. QED  BY <1>1, <1>2, <1>3, ExceptSeq DEF Ids
<1>5. ASSUME NEW k \in Handlers
      PROVE  /\ [hs[k] EXCEPT !.undone = TRUE] \in Handler
             /\ hs[k] \in Handler
  BY DEF Handler
<1>6. /\ handlers' \in [Handlers -> Handler]
      /\ \A k \in Handlers : \/ handlers'[k] = hs[k]
                             \/ /\ handlers'[k] = [hs[k] EXCEPT !.undone = TRUE]
                                /\ hs[k] = handlers[k]
  BY <1>5 DEF SetMembers
<1>. QED  BY <1>3, <1>4, <1>6 DEF Changed

(* A step of one request that changes the participants of a dialog that    *)
(* its user has joined or is the first to join.                            *)
LEMMA MemberStep ==
  ASSUME DialogsInv, NEW h \in Handlers, NEW r \in Handler,
         NEW d \in Ids, NEW m \in SUBSET Users, NEW mixed \in BOOLEAN,
         dialogs[d].creator \in dialogs[d].joined \cup m,
         NEW hs, hs = [handlers EXCEPT ![h] = r], SetMembers(d, m, mixed, hs),
         r.pc # handlers[h].pc \/ r.todo # handlers[h].todo,
         r.pc \in {"fill", "info"},
         r.user \in Users, r.other \in People,
         r.pc = "fill" => r.dialog = d /\ r.todo # <<>> /\ m # {}
  PROVE  /\ dialogs' \in Seq(Dialog)
         /\ handlers' \in [Handlers -> Handler]
         /\ \A k \in Handlers : RequestInv(handlers[k])'
         /\ DialogInv'
<1>1. hs \in [Handlers -> Handler] /\ hs[h] = r
      /\ \A k \in Handlers : k # h => hs[k] = handlers[k]
  BY DEF DialogsInv, TypeOK
<1>2. Changed(d, m, hs)
  BY <1>1, SetMembersType
<1>3. Grows
  BY <1>2 DEF Grows, Changed
<1>4. DialogInv'
  BY <1>2 DEF DialogInv, DialogsInv, Changed
<1>5. handlers'[h] = r
  BY <1>1, <1>2 DEF Changed
<1>6. RequestInv(handlers[h])'
  BY <1>2, <1>5 DEF RequestInv, Changed
<1>7. ASSUME NEW k \in Handlers, k # h
      PROVE  RequestInv(handlers[k])'
  <2>1. /\ hs[k] = handlers[k] /\ handlers[k] \in Handler
        /\ \/ handlers'[k] = handlers[k]
           \/ handlers'[k] = [handlers[k] EXCEPT !.undone = TRUE]
    BY <1>1, <1>2, <1>7 DEF DialogsInv, TypeOK, Changed
  <2>2. Same(k)
    BY <2>1 DEF Same, Handler
  <2>. QED  BY <1>3, <2>2, RequestStays DEF DialogsInv
<1>. QED  BY <1>2, <1>4, <1>6, <1>7 DEF Changed

(* The parts of the state a request's statements leave as they are.        *)
LEMMA OthersStay ==
  ASSUME DialogsInv, UNCHANGED <<messages, requests, raced, reader>>,
         dialogs' \in Seq(Dialog), handlers' \in [Handlers -> Handler],
         \A k \in Handlers : RequestInv(handlers[k])', DialogInv'
  PROVE  DialogsInv'
BY DEF DialogsInv, TypeOK

LEMMA LocalInv ==
  ASSUME DialogsInv, NEW h \in Handlers, NEW r \in Handler, RequestInv(r),
         handlers' = [handlers EXCEPT ![h] = r],
         UNCHANGED <<dialogs, messages, requests, raced, reader>>
  PROVE  DialogsInv'
<1>1. dialogs' \in Seq(Dialog)
  BY DEF DialogsInv, TypeOK
<1>2. UNCHANGED dialogs
  OBVIOUS
<1>. QED  BY <1>1, <1>2, LocalStep, OthersStay

LEMMA ReturnInv ==
  ASSUME DialogsInv, NEW h \in Handlers, Return(h),
         UNCHANGED <<dialogs, messages, requests, raced, reader>>
  PROVE  DialogsInv'
<1>1. PICK r : r = Idle
  OBVIOUS
<1>2. r \in Handler /\ RequestInv(r)
  BY <1>1, IdleType
<1>3. handlers' = [handlers EXCEPT ![h] = r]
  BY <1>1 DEF Return
<1>. QED  BY <1>2, <1>3, LocalInv
-----------------------------------------------------------------------------
(* The actions *)

LEMMA BeginInv ==
  ASSUME DialogsInv, NEW h \in Handlers, NEW op, NEW pc, NEW u \in Users,
         NEW v \in People, NEW d \in Nat, NEW list \in Seq(People),
         op \in {"private", "group", "add", "remove", "dialogs"},
         pc \in {"find", "new", "check", "list"},
         pc \in {"find", "new"} => op \in {"private", "group"},
         pc = "check" => d \in Ids,
         Begin(h, op, pc, u, v, d, list)
  PROVE  DialogsInv'
<1>1. PICK r : r = [Idle EXCEPT !.pc = pc, !.op = op, !.user = u, !.other = v,
                                !.dialog = d, !.todo = list]
  OBVIOUS
<1>2. r \in Handler
  BY <1>1 DEF Idle, Handler
<1>3. /\ r.pc = pc /\ r.op = op /\ r.user = u /\ r.other = v /\ r.dialog = d
      /\ r.todo = list
  BY <1>1 DEF Idle
<1>4. RequestInv(r)
  BY <1>3 DEF RequestInv
<1>5. handlers' = [handlers EXCEPT ![h] = r] /\ UNCHANGED dialogs
  BY <1>1 DEF Begin
<1>6. /\ handlers' \in [Handlers -> Handler] /\ DialogInv'
      /\ \A k \in Handlers : RequestInv(handlers[k])'
  BY <1>2, <1>4, <1>5, LocalStep
<1>7. requests' \in 0..MaxRequests
  BY DialogsBoundsAssumption DEF Begin, DialogsInv, TypeOK
<1>. QED  BY <1>6, <1>7 DEF Begin, DialogsInv, TypeOK

LEMMA RequestStep ==
  ASSUME DialogsInv, NEW h \in Handlers, Request(h)
  PROVE  DialogsInv'
<1>1. <<>> \in Seq(People) /\ Users \subseteq People /\ Ids \subseteq Nat
  BY DEF People, Ids, DialogsInv, TypeOK
<1>2. CASE CreatePrivateDialog(h)
  <2>1. PICK u \in Users, v \in People :
            Begin(h, "private", "find", u, v, 0, <<>>)
    BY <1>2 DEF CreatePrivateDialog
  <2>2. PICK list \in Seq(People) : Begin(h, "private", "find", u, v, 0, list)
    BY <1>1, <2>1
  <2>. QED  BY <2>1, <2>2, BeginInv
<1>3. CASE CreateGroup(h)
  <2>1. PICK u \in Users, list \in Invitees :
            Begin(h, "group", "new", u, u, 0, list)
    BY <1>3 DEF CreateGroup
  <2>2. list \in Seq(People)
    <3>1. CASE list = <<>>
      BY <1>1, <3>1
    <3>2. ASSUME NEW a \in Users, list = <<a>>
          PROVE  list \in Seq(People)
      BY <1>1, <3>2
    <3>3. ASSUME NEW a \in Users, NEW b \in Strangers, list = <<a, b>>
          PROVE  list \in Seq(People)
      BY <3>3 DEF People
    <3>. QED  BY <3>1, <3>2, <3>3 DEF Invitees
  <2>3. u \in People
    BY <1>1
  <2>. QED  BY <2>1, <2>2, <2>3, BeginInv
<1>4. CASE AddGroupParticipant(h)
  <2>1. PICK u \in Users, v \in People, d \in Ids :
            Begin(h, "add", "check", u, v, d, <<>>)
    BY <1>4 DEF AddGroupParticipant
  <2>. QED  BY <1>1, <2>1, BeginInv
<1>5. CASE RemoveGroupParticipant(h)
  <2>1. PICK u \in Users, v \in People, d \in Ids :
            Begin(h, "remove", "check", u, v, d, <<>>)
    BY <1>5 DEF RemoveGroupParticipant
  <2>. QED  BY <1>1, <2>1, BeginInv
<1>6. CASE GetDialogs(h)
  <2>1. PICK u \in Users : Begin(h, "dialogs", "list", u, u, 0, <<>>)
    BY <1>6 DEF GetDialogs
  <2>2. u \in People
    BY <1>1
  <2>3. PICK list \in Seq(People) : Begin(h, "dialogs", "list", u, u, 0, list)
    BY <1>1, <2>1
  <2>. QED  BY <2>1, <2>2, <2>3, BeginInv
<1>. QED  BY <1>2, <1>3, <1>4, <1>5, <1>6 DEF Request

(* What is known of the request whose statement runs.                      *)
LEMMA RequestFacts ==
  ASSUME DialogsInv, NEW h \in Handlers
  PROVE  handlers[h] \in Handler /\ RequestInv(handlers[h])
BY DEF DialogsInv, TypeOK

LEMMA MembersType ==
  ASSUME DialogsInv, NEW d \in Ids
  PROVE  Members(d) \in SUBSET Users
<1>1. dialogs[d] \in Dialog
  BY DEF DialogsInv, TypeOK, Ids
<1>. QED  BY <1>1 DEF Members, Dialog

LEMMA FindPrivateStep ==
  ASSUME DialogsInv, NEW h \in Handlers, FindPrivate(h)
  PROVE  DialogsInv'
<1>1. /\ handlers[h] \in Handler /\ handlers[h].pc = "find"
      /\ handlers[h].user \in Users /\ handlers[h].other \in People
      /\ handlers[h].op \in {"private", "group"}
  BY RequestFacts DEF FindPrivate, RequestInv
<1>2. {handlers[h].user, handlers[h].other} \in SUBSET People
  BY <1>1 DEF People
<1>3. raced' \subseteq SUBSET People
  BY <1>2 DEF FindPrivate, DialogsInv, TypeOK
<1>4. PICK r \in Handler :
          RequestInv(r) /\ handlers' = [handlers EXCEPT ![h] = r]
  <2>1. ASSUME NEW d \in PrivateDialogsOf(handlers[h].user, handlers[h].other),
               handlers' = [handlers EXCEPT
                   ![h].pc = "info", ![h].dialog = d,
                   ![h].asked = {handlers[h].user, handlers[h].other}]
        PROVE  \E r \in Handler :
                   RequestInv(r) /\ handlers' = [handlers EXCEPT ![h] = r]
    <3>1. PICK r : r = [handlers[h] EXCEPT
                           !.pc = "info", !.dialog = d,
                           !.asked = {handlers[h].user, handlers[h].other}]
      OBVIOUS
    <3>2. d \in Nat
      BY DEF PrivateDialogsOf, Ids, DialogsInv, TypeOK
    <3>3. r \in Handler /\ RequestInv(r)
      BY <1>1, <1>2, <3>1, <3>2 DEF Handler, RequestInv
    <3>4. handlers' = [handlers EXCEPT ![h] = r]
      BY <2>1, <3>1 DEF DialogsInv, TypeOK
    <3>. QED  BY <3>3, <3>4
  <2>2. ASSUME handlers' = [handlers EXCEPT
                   ![h].pc = "new", ![h].todo = <<handlers[h].other>>]
        PROVE  \E r \in Handler :
                   RequestInv(r) /\ handlers' = [handlers EXCEPT ![h] = r]
    <3>1. PICK r : r = [handlers[h] EXCEPT
                           !.pc = "new", !.todo = <<handlers[h].other>>]
      OBVIOUS
    <3>2. <<handlers[h].other>> \in Seq(People)
      BY <1>1
    <3>3. r \in Handler /\ RequestInv(r)
      BY <1>1, <3>1, <3>2 DEF Handler, RequestInv
    <3>4. handlers' = [handlers EXCEPT ![h] = r]
      BY <2>2, <3>1 DEF DialogsInv, TypeOK
    <3>. QED  BY <3>3, <3>4
  <2>. QED  BY <2>1, <2>2 DEF FindPrivate
<1>5. UNCHANGED <<dialogs, messages, requests, reader>>
  BY DEF FindPrivate
<1>6. /\ handlers' \in [Handlers -> Handler] /\ DialogInv'
      /\ \A k \in Handlers : RequestInv(handlers[k])'
  BY <1>4, <1>5, LocalStep
<1>. QED  BY <1>3, <1>5, <1>6 DEF DialogsInv, TypeOK

(* The new dialog has nobody, and the first to be inserted is its creator. *)
LEMMA NewDialogStep ==
  ASSUME DialogsInv, NEW h \in Handlers, NewDialog(h)
  PROVE  DialogsInv'
<1>. DEFINE u == handlers[h].user
            all == AllParticipants(handlers[h])
            asked == {all[i] : i \in DOMAIN all}
<1>1. /\ handlers[h] \in Handler /\ handlers[h].pc = "new"
      /\ u \in Users /\ u \in People /\ handlers[h].todo \in Seq(People)
      /\ handlers[h].op \in {"private", "group"} /\ handlers[h].other \in People
  BY RequestFacts DEF NewDialog, RequestInv, Handler, People
<1>2. all \in Seq(People) /\ all # <<>> /\ Head(all) = u
      /\ asked \in SUBSET People
  BY <1>1 DEF AllParticipants
<1>3. PICK new \in Dialog :
          /\ new = [kind |-> handlers[h].op, members |-> {}, joined |-> {},
                    creator |-> u, mixed |-> FALSE]
          /\ dialogs' = Append(dialogs, new)
  BY <1>1 DEF NewDialog, Dialog
<1>4. /\ dialogs' \in Seq(Dialog) /\ Len(dialogs) \in Nat
      /\ Ids = 1..Len(dialogs) /\ Ids' = 1..Len(dialogs) + 1
      /\ \A d \in Ids : dialogs'[d] = dialogs[d]
      /\ dialogs'[Len(dialogs) + 1] = new
  BY <1>3, AppendProperties DEF Ids, DialogsInv, TypeOK
<1>5. Grows
  BY <1>4 DEF Grows
<1>6. DialogInv'
  BY <1>3, <1>4 DEF DialogInv, DialogsInv
<1>7. PICK r : r = [handlers[h] EXCEPT
                       !.pc = "fill", !.dialog = Len(dialogs) + 1, !.todo = all,
                       !.asked = asked]
  OBVIOUS
<1>8. /\ handlers' = [handlers EXCEPT ![h] = r]
      /\ UNCHANGED <<messages, requests, raced, reader>>
  BY <1>7 DEF NewDialog, DialogsInv, TypeOK
<1>. HIDE DEF all, asked
<1>9. r \in Handler
  <2>1. PICK n \in Nat : n = Len(dialogs) + 1
    BY <1>4
  <2>2. r = [handlers[h] EXCEPT !.pc = "fill", !.dialog = n, !.todo = all,
                                !.asked = asked]
    BY <1>7, <2>1
  <2>. QED  BY <1>1, <1>2, <2>2 DEF Handler
<1>10. /\ r.pc = "fill" /\ r.dialog = Len(dialogs) + 1 /\ r.todo = all
       /\ r.user = u /\ r.other = handlers[h].other
  BY <1>1, <1>7 DEF Handler
<1>11. handlers' \in [Handlers -> Handler] /\ handlers'[h] = r
  BY <1>8, <1>9 DEF DialogsInv, TypeOK
<1>12. RequestInv(handlers[h])'
  BY <1>1, <1>2, <1>3, <1>4, <1>10, <1>11 DEF RequestInv
<1>13. ASSUME NEW k \in Handlers, k # h
       PROVE  RequestInv(handlers[k])'
  <2>1. Same(k)
    BY <1>8, <1>13 DEF Same, DialogsInv, TypeOK
  <2>. QED  BY <1>5, <2>1, RequestStays DEF DialogsInv
<1>. QED  BY <1>4, <1>6, <1>8, <1>11, <1>12, <1>13, OthersStay

LEMMA InsertParticipantStep ==
  ASSUME DialogsInv, NEW h \in Handlers, InsertParticipant(h)
  PROVE  DialogsInv'
<1>. DEFINE d == handlers[h].dialog
            w == Head(handlers[h].todo)
<1>1. /\ handlers[h] \in Handler /\ handlers[h].pc = "fill" /\ d \in Ids
      /\ handlers[h].user \in Users /\ handlers[h].other \in People
      /\ handlers[h].todo \in Seq(People) /\ handlers[h].todo # <<>>
      /\ dialogs[d].joined = {} => w = dialogs[d].creator
  BY RequestFacts DEF InsertParticipant, RequestInv, Handler
<1>2. CASE Return(h) /\ UNCHANGED <<dialogs, messages, requests, raced, reader>>
  BY <1>2, ReturnInv
<1>3. CASE /\ Insertable(d, w)
           /\ SetMembers(d, Members(d) \cup {w}, FALSE,
                         [handlers EXCEPT ![h] = AfterInsert(handlers[h])])
           /\ UNCHANGED <<messages, requests, raced, reader>>
  <2>1. PICK r : r = AfterInsert(handlers[h])
    OBVIOUS
  <2>2. /\ Tail(handlers[h].todo) \in Seq(People)
        /\ Tail(handlers[h].todo) # handlers[h].todo
        /\ Len(handlers[h].todo) # 1 => Tail(handlers[h].todo) # <<>>
    <3>1. ASSUME NEW list \in Seq(People), list # <<>>
          PROVE  /\ Tail(list) \in Seq(People) /\ Tail(list) # list
                 /\ Len(list) # 1 => Tail(list) # <<>>
      <4>1. /\ Tail(list) \in Seq(People) /\ Len(Tail(list)) = Len(list) - 1
            /\ Len(list) \in Nat \ {0}
        BY <3>1
      <4>2. Len(Tail(list)) # Len(list)
        <5>1. PICK n \in Nat \ {0} : n = Len(list)
          BY <4>1
        <5>2. n - 1 # n
          OBVIOUS
        <5>. QED  BY <4>1, <5>1, <5>2, Zenon
      <4>3. Tail(list) # list
        BY <4>2
      <4>4. Len(list) # 1 => Len(Tail(list)) # 0
        BY <4>1
      <4>5. Len(list) # 1 => Tail(list) # <<>>
        BY <4>4
      <4>. QED  BY <4>1, <4>3, <4>5
    <3>. QED  BY <1>1, <3>1
  <2>3. r \in Handler
    BY <1>1, <2>1, <2>2 DEF AfterInsert, Handler
  <2>4. /\ r.pc \in {"fill", "info"} /\ r.todo = Tail(handlers[h].todo)
        /\ r.user = handlers[h].user /\ r.other = handlers[h].other
        /\ r.dialog = d
        /\ r.pc = "fill" => Len(handlers[h].todo) # 1
    BY <1>1, <2>1 DEF AfterInsert, Handler
  <2>5. PICK m \in SUBSET Users : m = Members(d) \cup {w}
    BY <1>1, <1>3, MembersType DEF Insertable
  <2>6. dialogs[d].creator \in dialogs[d].joined \cup m
    BY <1>1, <2>5 DEF DialogsInv, DialogInv
  <2>7. PICK hs : /\ hs = [handlers EXCEPT ![h] = r]
                  /\ SetMembers(d, m, FALSE, hs)
    <3>1. PICK hs : hs = [handlers EXCEPT ![h] = AfterInsert(handlers[h])]
      OBVIOUS
    <3>2. SetMembers(d, Members(d) \cup {w}, FALSE, hs)
      BY <1>3, <3>1 DEF SetMembers
    <3>3. SetMembers(d, m, FALSE, hs)
      BY <2>5, <3>2 DEF SetMembers
    <3>. QED  BY <2>1, <3>1, <3>3
  <2>8. PICK e \in Ids : e = d
    BY <1>1
  <2>9. /\ dialogs[e].creator \in dialogs[e].joined \cup m
        /\ SetMembers(e, m, FALSE, hs)
        /\ r.pc # handlers[h].pc \/ r.todo # handlers[h].todo
        /\ r.user \in Users /\ r.other \in People
        /\ r.pc = "fill" => r.dialog = e /\ r.todo # <<>> /\ m # {}
    BY <1>1, <2>2, <2>4, <2>5, <2>6, <2>7, <2>8
  <2>10. /\ dialogs' \in Seq(Dialog) /\ handlers' \in [Handlers -> Handler]
         /\ \A k \in Handlers : RequestInv(handlers[k])'
         /\ DialogInv'
    BY <2>3, <2>4, <2>7, <2>9, MemberStep
  <2>. QED  BY <1>3, <2>10, OthersStay
<1>. QED  BY <1>2, <1>3 DEF InsertParticipant

LEMMA CheckMemberStep ==
  ASSUME DialogsInv, NEW h \in Handlers, CheckMember(h)
  PROVE  DialogsInv'
<1>1. UNCHANGED <<dialogs, messages, requests, raced, reader>>
  BY DEF CheckMember
<1>2. CASE Return(h)
  BY <1>1, <1>2, ReturnInv
<1>3. CASE Allowed(handlers[h]) /\ Goto(h, "change")
  <2>1. /\ handlers[h] \in Handler /\ handlers[h].dialog \in Ids
        /\ handlers[h].user \in Users /\ handlers[h].other \in People
    BY RequestFacts DEF CheckMember, RequestInv
  <2>2. handlers[h].user \in dialogs[handlers[h].dialog].joined
    BY <1>3, <2>1 DEF Allowed, Members, DialogsInv, DialogInv
  <2>3. PICK r : r = [handlers[h] EXCEPT !.pc = "change"]
    OBVIOUS
  <2>4. r \in Handler /\ RequestInv(r)
    BY <1>3, <2>1, <2>2, <2>3 DEF Handler, RequestInv, Allowed
  <2>5. handlers' = [handlers EXCEPT ![h] = r]
    BY <1>3, <2>3 DEF Goto, DialogsInv, TypeOK
  <2>. QED  BY <1>1, <2>4, <2>5, LocalInv
<1>. QED  BY <1>2, <1>3 DEF CheckMember

LEMMA InsertOrIgnoreStep ==
  ASSUME DialogsInv, NEW h \in Handlers, InsertOrIgnore(h)
  PROVE  DialogsInv'
<1>. DEFINE d == handlers[h].dialog
<1>1. /\ handlers[h] \in Handler /\ handlers[h].pc = "change" /\ d \in Ids
      /\ handlers[h].user \in Users /\ handlers[h].other \in People
      /\ handlers[h].user \in dialogs[d].joined
  BY RequestFacts DEF InsertOrIgnore, RequestInv
<1>2. CASE Return(h) /\ UNCHANGED <<dialogs, messages, requests, raced, reader>>
  BY <1>2, ReturnInv
<1>3. CASE /\ handlers[h].other \in Users
           /\ SetMembers(d, Members(d) \cup {handlers[h].other}, TRUE,
                         [handlers EXCEPT ![h].pc = "info",
                                          ![h].asked = {handlers[h].other}])
           /\ UNCHANGED <<messages, requests, raced, reader>>
  <2>1. PICK r : r = [handlers[h] EXCEPT !.pc = "info",
                                         !.asked = {handlers[h].other}]
    OBVIOUS
  <2>2. /\ r \in Handler /\ r.pc = "info"
        /\ r.user \in Users /\ r.other \in People
    BY <1>1, <2>1 DEF Handler
  <2>3. PICK m \in SUBSET Users : m = Members(d) \cup {handlers[h].other}
    BY <1>1, <1>3, MembersType
  <2>4. PICK hs : hs = [handlers EXCEPT ![h].pc = "info",
                                        ![h].asked = {handlers[h].other}]
    OBVIOUS
  <2>5. PICK e \in Ids : e = d
    BY <1>1
  <2>6. SetMembers(e, m, TRUE, hs) /\ hs = [handlers EXCEPT ![h] = r]
    <3>1. SetMembers(d, Members(d) \cup {handlers[h].other}, TRUE, hs)
      BY <1>3, <2>4 DEF SetMembers
    <3>2. SetMembers(e, m, TRUE, hs)
      BY <2>3, <2>5, <3>1 DEF SetMembers
    <3>. QED  BY <2>1, <2>4, <3>2 DEF DialogsInv, TypeOK
  <2>7. dialogs[e].creator \in dialogs[e].joined \cup m
    BY <1>1, <2>5 DEF DialogsInv, DialogInv
  <2>8. r.pc # handlers[h].pc /\ r.pc # "fill"
    BY <1>1, <2>2
  <2>9. /\ dialogs' \in Seq(Dialog) /\ handlers' \in [Handlers -> Handler]
        /\ \A k \in Handlers : RequestInv(handlers[k])'
        /\ DialogInv'
    BY <2>2, <2>6, <2>7, <2>8, MemberStep
  <2>. QED  BY <1>3, <2>9, OthersStay
<1>. QED  BY <1>2, <1>3 DEF InsertOrIgnore

LEMMA DeleteParticipantStep ==
  ASSUME DialogsInv, NEW h \in Handlers, DeleteParticipant(h)
  PROVE  DialogsInv'
<1>. DEFINE d == handlers[h].dialog
<1>1. /\ handlers[h] \in Handler /\ handlers[h].pc = "change" /\ d \in Ids
      /\ handlers[h].user \in Users /\ handlers[h].other \in People
      /\ handlers[h].user \in dialogs[d].joined
  BY RequestFacts DEF DeleteParticipant, RequestInv
<1>2. PICK r : r = [handlers[h] EXCEPT !.pc = "info"]
  OBVIOUS
<1>3. /\ r \in Handler /\ r.pc = "info"
      /\ r.user \in Users /\ r.other \in People
  BY <1>1, <1>2 DEF Handler
<1>4. PICK m \in SUBSET Users : m = Members(d) \ {handlers[h].other}
  BY <1>1, MembersType
<1>5. PICK hs : hs = [handlers EXCEPT ![h].pc = "info"]
  OBVIOUS
<1>6. PICK e \in Ids : e = d
  BY <1>1
<1>7. SetMembers(e, m, FALSE, hs) /\ hs = [handlers EXCEPT ![h] = r]
  <2>1. SetMembers(d, Members(d) \ {handlers[h].other}, FALSE, hs)
    BY <1>5 DEF SetMembers, DeleteParticipant
  <2>2. SetMembers(e, m, FALSE, hs)
    BY <1>4, <1>6, <2>1 DEF SetMembers
  <2>. QED  BY <1>2, <1>5, <2>2 DEF DialogsInv, TypeOK
<1>8. dialogs[e].creator \in dialogs[e].joined \cup m
  BY <1>1, <1>6 DEF DialogsInv, DialogInv
<1>9. r.pc # handlers[h].pc /\ r.pc # "fill"
  BY <1>1, <1>3
<1>10. /\ dialogs' \in Seq(Dialog) /\ handlers' \in [Handlers -> Handler]
       /\ \A k \in Handlers : RequestInv(handlers[k])'
       /\ DialogInv'
  BY <1>3, <1>7, <1>8, <1>9, MemberStep
<1>11. UNCHANGED <<messages, requests, raced, reader>>
  BY DEF DeleteParticipant
<1>. QED  BY <1>10, <1>11, OthersStay

LEMMA ListDialogsStep ==
  ASSUME DialogsInv, NEW h \in Handlers, ListDialogs(h)
  PROVE  DialogsInv'
<1>1. UNCHANGED <<dialogs, messages, requests, raced, reader>>
  BY DEF ListDialogs
<1>2. CASE Return(h)
  BY <1>1, <1>2, ReturnInv
<1>3. CASE handlers' = [handlers EXCEPT
               ![h].pc = "info",
               ![h].due = {d \in Ids : handlers[h].user \in Members(d)}]
  <2>1. PICK mine : mine = {d \in Ids : handlers[h].user \in Members(d)}
    OBVIOUS
  <2>2. mine \in SUBSET Nat
    BY <2>1 DEF Ids, DialogsInv, TypeOK
  <2>3. PICK r : r = [handlers[h] EXCEPT !.pc = "info", !.due = mine]
    OBVIOUS
  <2>4. r \in Handler /\ RequestInv(r)
    <3>1. r \in Handler
      BY <2>2, <2>3, RequestFacts DEF Handler
    <3>2. RequestInv(r)
      BY <2>3, RequestFacts DEF ListDialogs, RequestInv
    <3>. QED  BY <3>1, <3>2
  <2>5. handlers' = [handlers EXCEPT ![h] = r]
    BY <1>3, <2>1, <2>3 DEF DialogsInv, TypeOK
  <2>. QED  BY <1>1, <2>4, <2>5, LocalInv
<1>. QED  BY <1>2, <1>3 DEF ListDialogs

LEMMA BuildDialogInfoStep ==
  ASSUME DialogsInv, NEW h \in Handlers, BuildDialogInfo(h)
  PROVE  DialogsInv'
<1>1. UNCHANGED <<dialogs, messages, requests, raced, reader>>
  BY DEF BuildDialogInfo
<1>2. CASE Return(h)
  BY <1>1, <1>2, ReturnInv
<1>3. ASSUME NEW d \in handlers[h].due,
             handlers' = [handlers EXCEPT ![h].due = @ \ {d}]
      PROVE  DialogsInv'
  <2>1. PICK r : r = [handlers[h] EXCEPT !.due = @ \ {d}]
    OBVIOUS
  <2>2. r \in Handler /\ RequestInv(r)
    BY <2>1, RequestFacts DEF BuildDialogInfo, Handler, RequestInv
  <2>3. handlers' = [handlers EXCEPT ![h] = r]
    BY <1>3, <2>1 DEF DialogsInv, TypeOK
  <2>. QED  BY <1>1, <2>2, <2>3, LocalInv
<1>. QED  BY <1>2, <1>3 DEF BuildDialogInfo

(* The requests that are one statement, and the client that reads.         *)
LEMMA OtherRequestsStep ==
  ASSUME DialogsInv, SendMessage \/ SendMessageAck \/ FirstPage \/ NextPage
  PROVE  DialogsInv'
<1>1. UNCHANGED <<dialogs, handlers, raced>>
  BY DEF SendMessage, SendMessageAck, FirstPage, NextPage, GetHistory
<1>2. /\ dialogs' \in Seq(Dialog) /\ handlers' \in [Handlers -> Handler]
      /\ raced' \subseteq SUBSET People /\ DialogInv'
      /\ \A k \in Handlers : RequestInv(handlers[k])'
  BY <1>1 DEF DialogsInv, TypeOK, DialogInv, RequestInv, Ids
<1>3. requests' \in 0..MaxRequests
  BY DialogsBoundsAssumption
     DEF SendMessage, SendMessageAck, FirstPage, NextPage, DialogsInv, TypeOK
<1>4. messages' \in Seq(Message)
  <2>1. CASE SendMessage
    <3>1. PICK d \in Ids, at \in Seconds :
              messages' = Append(messages,
                  [dialog |-> d, at |-> at, delivered |-> FALSE])
      BY <2>1 DEF SendMessage
    <3>2. d \in Nat
      BY DEF Ids, DialogsInv, TypeOK
    <3>3. [dialog |-> d, at |-> at, delivered |-> FALSE] \in Message
      BY <3>2 DEF Message
    <3>4. PICK new \in Message :
              new = [dialog |-> d, at |-> at, delivered |-> FALSE]
      BY <3>3
    <3>5. messages' = Append(messages, new)
      BY <3>1, <3>4, Zenon
    <3>6. messages \in Seq(Message)
      BY DEF DialogsInv, TypeOK
    <3>. HIDE DEF Message
    <3>. QED  BY <3>5, <3>6, AppendProperties
  <2>2. CASE SendMessageAck
    <3>1. PICK m \in DOMAIN messages :
              messages' = [messages EXCEPT ![m].delivered = TRUE]
      BY <2>2 DEF SendMessageAck
    <3>4. messages[m] \in Message
      BY DEF DialogsInv, TypeOK
    <3>5. [messages[m] EXCEPT !.delivered = TRUE] \in Message
      BY <3>4 DEF Message
    <3>2. PICK new \in Message : new = [messages[m] EXCEPT !.delivered = TRUE]
      BY <3>5
    <3>3. messages' = [messages EXCEPT ![m] = new]
      BY <3>1, <3>2
    <3>. QED  BY <3>3, ExceptSeq DEF DialogsInv, TypeOK
  <2>3. CASE FirstPage \/ NextPage
    BY <2>3 DEF FirstPage, NextPage, GetHistory, DialogsInv, TypeOK
  <2>. QED  BY <2>1, <2>2, <2>3
<1>5. reader' \subseteq Reader /\ Cardinality(reader') <= 1
  <2>1. ASSUME NEW d \in Nat, NEW offset \in Nat, GetHistory(d, offset)
        PROVE  reader' \subseteq Reader /\ Cardinality(reader') <= 1
    <3>1. PICK due, seen, done :
              /\ due = IF offset = 0 THEN History(d)
                       ELSE UNION {r.due : r \in reader}
              /\ seen = Page(d, offset, PageSize) \cup UNION {r.seen : r \in reader}
              /\ done = (Cardinality(Page(d, offset, PageSize)) < PageSize)
              /\ reader' = {[dialog |-> d, offset |-> offset + PageSize,
                             due |-> due, seen |-> seen, done |-> done]}
      BY <2>1 DEF GetHistory
    <3>2. History(d) \subseteq Nat /\ Page(d, offset, PageSize) \subseteq Nat
      BY DEF History, Page, DialogsInv, TypeOK
    <3>3. /\ UNION {r.due : r \in reader} \subseteq Nat
          /\ UNION {r.seen : r \in reader} \subseteq Nat
      <4>1. \A r \in reader : r.due \subseteq Nat /\ r.seen \subseteq Nat
        BY DEF Reader, DialogsInv, TypeOK
      <4>. QED  BY <4>1
    <3>4. /\ due \in SUBSET Nat /\ seen \in SUBSET Nat /\ done \in BOOLEAN
          /\ offset + PageSize \in Nat
      BY <3>1, <3>2, <3>3, DialogsBoundsAssumption
    <3>. HIDE DEF Reader
    <3>5. [dialog |-> d, offset |-> offset + PageSize, due |-> due,
           seen |-> seen, done |-> done] \in Reader
      BY <3>4 DEF Reader
    <3>6. PICK rec \in Reader :
              rec = [dialog |-> d, offset |-> offset + PageSize, due |-> due,
                     seen |-> seen, done |-> done]
      BY <3>5
    <3>7. reader' = {rec}
      BY <3>1, <3>6, Zenon
    <3>8. Cardinality({rec}) = 1
      BY FS_Singleton
    <3>. QED  BY <3>7, <3>8
  <2>2. CASE FirstPage
    <3>1. PICK d \in Ids : GetHistory(d, 0)
      BY <2>2 DEF FirstPage
    <3>. QED  BY <2>1, <3>1 DEF Ids, DialogsInv, TypeOK
  <2>3. CASE NextPage
    <3>1. PICK r \in reader : GetHistory(r.dialog, r.offset)
      BY <2>3 DEF NextPage
    <3>2. r.dialog \in Nat /\ r.offset \in Nat
      BY DEF Reader, DialogsInv, TypeOK
    <3>. QED  BY <2>1, <3>1, <3>2
  <2>4. CASE SendMessage \/ SendMessageAck
    BY <2>4 DEF SendMessage, SendMessageAck, DialogsInv, TypeOK
  <2>. QED  BY <2>2, <2>3, <2>4
<1>. QED  BY <1>2, <1>3, <1>4, <1>5 DEF DialogsInv, TypeOK
-----------------------------------------------------------------------------
(* Theorems *)

LEMMA InitInv ==
  ASSUME Init
  PROVE  DialogsInv
<1>1. ASSUME NEW d \in Seq(Dialog), NEW m \in Seq(Message), Started(d, m)
      PROVE  TypeOK /\ \A h \in Handlers : RequestInv(handlers[h])
  <2>1. handlers \in [Handlers -> Handler]
    BY <1>1, IdleType DEF Started
  <2>2. \A h \in Handlers : RequestInv(handlers[h])
    BY <1>1, IdleType DEF Started, Idle, RequestInv
  <2>3. Cardinality({}) <= 1
    BY FS_EmptySet
  <2>. QED
    BY <1>1, <2>1, <2>2, <2>3, DialogsBoundsAssumption DEF Started, TypeOK
<1>2. CASE Started(<<>>, <<>>)
  <2>1. PICK d \in Seq(Dialog), m \in Seq(Message) :
            Started(d, m) /\ d = <<>> /\ m = <<>>
    BY <1>2, EmptySeq
  <2>2. DialogInv
    BY <2>1 DEF Started, DialogInv, Ids
  <2>. QED  BY <1>1, <2>1, <2>2 DEF DialogsInv
<1>3. ASSUME NEW u \in Users, NEW m \in SUBSET Users, NEW at \in Seconds, u \in m,
             Started(<<[kind |-> "group", members |-> m, joined |-> m,
                        creator |-> u, mixed |-> FALSE]>>,
                     <<[dialog |-> 1, at |-> at, delivered |-> FALSE]>>)
      PROVE  DialogsInv
  <2>1. PICK new \in Dialog :
            /\ new.members = m /\ new.joined = m /\ new.creator = u
            /\ Started(<<new>>, <<[dialog |-> 1, at |-> at, delivered |-> FALSE]>>)
    BY <1>3 DEF Dialog
  <2>2. PICK text \in Message : Started(<<new>>, <<text>>)
    BY <2>1 DEF Message
  <2>3. <<new>> \in Seq(Dialog) /\ <<text>> \in Seq(Message)
    OBVIOUS
  <2>4. dialogs = <<new>>
    BY <2>2 DEF Started
  <2>5. DialogInv
    BY <1>3, <2>1, <2>4 DEF DialogInv, Ids
  <2>. QED  BY <1>1, <2>2, <2>3, <2>5 DEF DialogsInv
<1>. QED  BY <1>2, <1>3 DEF Init

LEMMA NextInv ==
  ASSUME DialogsInv, [Next]_vars
  PROVE  DialogsInv'
<1>1. ASSUME NEW h \in Handlers, HandlerStep(h)
      PROVE  DialogsInv'
  BY <1>1, FindPrivateStep, NewDialogStep, InsertParticipantStep,
     CheckMemberStep, InsertOrIgnoreStep, DeleteParticipantStep,
     ListDialogsStep, BuildDialogInfoStep DEF HandlerStep
<1>2. ASSUME NEW h \in Handlers, Fail(h)
      PROVE  DialogsInv'
  BY <1>2, ReturnInv DEF Fail
<1>3. CASE UNCHANGED vars
  BY <1>3 DEF vars, DialogsInv, TypeOK, DialogInv, RequestInv, Ids
<1>. QED  BY <1>1, <1>2, <1>3, RequestStep, OtherRequestsStep DEF Next

LEMMA Invariant == Spec => []DialogsInv
<1>1. Init => DialogsInv
  BY InitInv
<1>2. DialogsInv /\ [Next]_vars => DialogsInv'
  BY NextInv
<1>. QED  BY <1>1, <1>2, PTL DEF Spec

(* The tables, the requests under way and the history of the reader always *)
(* have their types.                                                       *)
THEOREM TypeCorrect == Spec => []TypeOK
<1>1. DialogsInv => TypeOK
  BY DEF DialogsInv
<1>. QED  BY <1>1, Invariant, PTL

(* Whatever fails or overlaps, a dialog that anybody has ever been in has  *)
(* been joined by the user who asked for it: create_group_dialog inserts   *)
(* the creator first (db.rs:468), and others are added only by members.    *)
THEOREM CreatorJoins == Spec => []LeftoverIsCreators
<1>1. DialogsInv => LeftoverIsCreators
  BY DEF DialogsInv, DialogInv, LeftoverIsCreators
<1>. QED  BY <1>1, Invariant, PTL
-----------------------------------------------------------------------------
(* Who changes the participants of a dialog *)

(* The participants change in one dialog, and its request moves on.        *)
LEMMA WriterMoves ==
  ASSUME DialogsInv, NEW h \in Handlers, NEW d \in Ids, NEW e \in Ids,
         NEW m, NEW mixed, NEW hs, SetMembers(d, m, mixed, hs),
         hs[h] # handlers[h], dialogs'[e].members # dialogs[e].members
  PROVE  e = d /\ dialogs'[e].members = m /\ handlers'[h] # handlers[h]
<1>1. dialogs \in Seq(Dialog) /\ \A k \in Ids : dialogs[k] \in Dialog
  BY DEF DialogsInv, TypeOK, Ids
<1>2. e = d /\ dialogs'[e].members = m
  BY <1>1 DEF SetMembers, Ids, Dialog
<1>3. handlers'[h] = hs[h]
  BY DEF SetMembers
<1>. QED  BY <1>2, <1>3

(* The request whose step changes the participants of d: only a removal    *)
(* can leave none, and then its user was not among the last.               *)
Changes(h, d) ==
    /\ handlers[h].dialog = d /\ handlers'[h] # handlers[h]
    /\ \/ handlers[h].pc = "fill" /\ dialogs'[d].members # {}
       \/ /\ handlers[h].pc = "change"
          /\ handlers[h].user \in dialogs[d].joined
          /\ \/ dialogs'[d].members # {}
             \/ Members(d) \subseteq People \ {handlers[h].user}

LEMMA InsertParticipantChanges ==
  ASSUME DialogsInv, NEW h \in Handlers, InsertParticipant(h),
         NEW e \in Ids, dialogs'[e].members # dialogs[e].members
  PROVE  Changes(h, e)
<1>. DEFINE d == handlers[h].dialog
            m == Members(d) \cup {Head(handlers[h].todo)}
<1>1. /\ handlers[h] \in Handler /\ handlers[h].pc = "fill" /\ d \in Ids
      /\ handlers[h].todo \in Seq(People) /\ handlers[h].todo # <<>>
  BY RequestFacts DEF InsertParticipant, RequestInv, Handler
<1>2. PICK hs : /\ hs = [handlers EXCEPT ![h] = AfterInsert(handlers[h])]
                /\ SetMembers(d, m, FALSE, hs)
  <2>1. SetMembers(d, m, FALSE,
                   [handlers EXCEPT ![h] = AfterInsert(handlers[h])])
    BY DEF InsertParticipant
  <2>2. PICK hs : hs = [handlers EXCEPT ![h] = AfterInsert(handlers[h])]
    OBVIOUS
  <2>3. SetMembers(d, m, FALSE, hs)
    BY <2>1, <2>2 DEF SetMembers
  <2>. QED  BY <2>2, <2>3
<1>3. AfterInsert(handlers[h]) # handlers[h]
  <2>1. Len(handlers[h].todo) \in Nat \ {0}
        /\ Len(Tail(handlers[h].todo)) = Len(handlers[h].todo) - 1
    BY <1>1
  <2>2. AfterInsert(handlers[h]).todo = Tail(handlers[h].todo)
    BY <1>1 DEF AfterInsert, Handler
  <2>3. PICK n \in Nat \ {0} : n = Len(handlers[h].todo)
    BY <2>1
  <2>4. n - 1 # n
    OBVIOUS
  <2>5. Len(Tail(handlers[h].todo)) # Len(handlers[h].todo)
    BY <2>1, <2>3, <2>4, Zenon
  <2>. QED  BY <2>2, <2>5
<1>4. hs[h] # handlers[h]
  BY <1>2, <1>3 DEF DialogsInv, TypeOK
<1>5. PICK set : set = m
  OBVIOUS
<1>6. PICK f \in Ids : f = d
  BY <1>1
<1>7. SetMembers(f, set, FALSE, hs)
  BY <1>2, <1>5, <1>6 DEF SetMembers
<1>8. e = f /\ dialogs'[e].members = set /\ handlers'[h] # handlers[h]
  BY <1>4, <1>7, WriterMoves
<1>. QED  BY <1>1, <1>5, <1>6, <1>8 DEF Changes

LEMMA InsertOrIgnoreChanges ==
  ASSUME DialogsInv, NEW h \in Handlers, InsertOrIgnore(h),
         NEW e \in Ids, dialogs'[e].members # dialogs[e].members
  PROVE  Changes(h, e)
<1>. DEFINE d == handlers[h].dialog
            m == Members(d) \cup {handlers[h].other}
<1>1. /\ handlers[h] \in Handler /\ handlers[h].pc = "change" /\ d \in Ids
      /\ handlers[h].user \in dialogs[d].joined
  BY RequestFacts DEF InsertOrIgnore, RequestInv
<1>2. PICK hs : /\ hs = [handlers EXCEPT ![h].pc = "info",
                                        ![h].asked = {handlers[h].other}]
                /\ SetMembers(d, m, TRUE, hs)
  <2>1. SetMembers(d, m, TRUE,
                   [handlers EXCEPT ![h].pc = "info",
                                    ![h].asked = {handlers[h].other}])
    BY DEF InsertOrIgnore
  <2>2. PICK hs : hs = [handlers EXCEPT ![h].pc = "info",
                                        ![h].asked = {handlers[h].other}]
    OBVIOUS
  <2>3. SetMembers(d, m, TRUE, hs)
    BY <2>1, <2>2 DEF SetMembers
  <2>. QED  BY <2>2, <2>3
<1>3. hs[h].pc = "info"
  BY <1>1, <1>2 DEF DialogsInv, TypeOK, Handler
<1>4. PICK set : set = m
  OBVIOUS
<1>5. PICK f \in Ids : f = d
  BY <1>1
<1>6. SetMembers(f, set, TRUE, hs)
  BY <1>2, <1>4, <1>5 DEF SetMembers
<1>7. hs[h] # handlers[h]
  BY <1>1, <1>3
<1>8. e = f /\ dialogs'[e].members = set /\ handlers'[h] # handlers[h]
  BY <1>6, <1>7, WriterMoves
<1>. QED  BY <1>1, <1>4, <1>5, <1>8 DEF Changes

LEMMA DeleteParticipantChanges ==
  ASSUME DialogsInv, NEW h \in Handlers, DeleteParticipant(h),
         NEW e \in Ids, dialogs'[e].members # dialogs[e].members
  PROVE  Changes(h, e)
<1>. DEFINE d == handlers[h].dialog
            m == Members(d) \ {handlers[h].other}
<1>1. /\ handlers[h] \in Handler /\ handlers[h].pc = "change" /\ d \in Ids
      /\ handlers[h].user \in dialogs[d].joined
      /\ handlers[h].user # handlers[h].other
  BY RequestFacts DEF DeleteParticipant, RequestInv
<1>2. PICK hs : /\ hs = [handlers EXCEPT ![h].pc = "info"]
                /\ SetMembers(d, m, FALSE, hs)
  <2>1. SetMembers(d, m, FALSE, [handlers EXCEPT ![h].pc = "info"])
    BY DEF DeleteParticipant
  <2>2. PICK hs : hs = [handlers EXCEPT ![h].pc = "info"]
    OBVIOUS
  <2>3. SetMembers(d, m, FALSE, hs)
    BY <2>1, <2>2 DEF SetMembers
  <2>. QED  BY <2>2, <2>3
<1>3. hs[h].pc = "info"
  BY <1>1, <1>2 DEF DialogsInv, TypeOK, Handler
<1>4. PICK set : set = m
  OBVIOUS
<1>5. PICK f \in Ids : f = d
  BY <1>1
<1>6. SetMembers(f, set, FALSE, hs)
  BY <1>2, <1>4, <1>5 DEF SetMembers
<1>7. hs[h] # handlers[h]
  BY <1>1, <1>3
<1>8. e = f /\ dialogs'[e].members = set /\ handlers'[h] # handlers[h]
  BY <1>6, <1>7, WriterMoves
<1>9. ASSUME dialogs'[e].members = {}
      PROVE  Members(e) \subseteq People \ {handlers[h].user}
  <2>1. Members(e) \subseteq {handlers[h].other} /\ Members(e) \subseteq Users
    BY <1>4, <1>5, <1>8, <1>9, MembersType
  <2>. QED  BY <1>1, <2>1 DEF People
<1>. QED  BY <1>1, <1>5, <1>8, <1>9 DEF Changes

LEMMA ChangesByRequest ==
  ASSUME DialogsInv, Next, NEW e \in Ids,
         dialogs'[e].members # dialogs[e].members
  PROVE  \E h \in Handlers : Changes(h, e)
<1>1. dialogs' # dialogs
  OBVIOUS
<1>2. ASSUME NEW h \in Handlers, NewDialog(h)
      PROVE  FALSE
  <2>1. PICK new : dialogs' = Append(dialogs, new)
    BY <1>2 DEF NewDialog
  <2>2. dialogs'[e] = dialogs[e]
    BY <2>1, AppendProperties DEF Ids, DialogsInv, TypeOK
  <2>. QED  BY <2>2
<1>3. ASSUME NEW h \in Handlers, Request(h) \/ Fail(h)
      PROVE  FALSE
  BY <1>1, <1>3 DEF Request, Fail, CreatePrivateDialog, CreateGroup,
     AddGroupParticipant, RemoveGroupParticipant, GetDialogs, Begin
<1>4. ASSUME NEW h \in Handlers,
             \/ FindPrivate(h) \/ CheckMember(h)
             \/ ListDialogs(h) \/ BuildDialogInfo(h)
      PROVE  FALSE
  BY <1>1, <1>4 DEF FindPrivate, CheckMember, ListDialogs, BuildDialogInfo
<1>5. ASSUME SendMessage \/ SendMessageAck \/ FirstPage \/ NextPage
      PROVE  FALSE
  BY <1>1, <1>5
     DEF SendMessage, SendMessageAck, FirstPage, NextPage, GetHistory
<1>6. PICK h \in Handlers :
          InsertParticipant(h) \/ InsertOrIgnore(h) \/ DeleteParticipant(h)
  BY <1>2, <1>3, <1>4, <1>5 DEF Next, HandlerStep
<1>. QED  BY <1>6, InsertParticipantChanges, InsertOrIgnoreChanges,
             DeleteParticipantChanges

(* Apart from filling a dialog that is being created, participants change  *)
(* only by a request whose user get_dialog_participants has found among    *)
(* them (handlers.rs:536 and 555), however late the change itself comes.   *)
THEOREM ChangedByMembers == Spec => MembersChangeMembers
<1>. DEFINE Step == \A d \in Ids :
                dialogs'[d].members # dialogs[d].members =>
                    \E h \in Handlers :
                        /\ handlers[h].dialog = d /\ handlers'[h] # handlers[h]
                        /\ \/ handlers[h].pc = "fill"
                           \/ handlers[h].user \in dialogs[d].joined
<1>1. DialogsInv /\ [Next]_vars => Step
  <2>1. ASSUME DialogsInv, Next
        PROVE  Step
    BY <2>1, ChangesByRequest DEF Changes
  <2>2. ASSUME UNCHANGED vars
        PROVE  Step
    BY <2>2 DEF vars
  <2>. QED  BY <2>1, <2>2
<1>2. DialogsInv /\ [Next]_vars => [Step]_vars
  BY <1>1
<1>3. [][Step]_vars => MembersChangeMembers
  BY PTL DEF MembersChangeMembers
<1>. HIDE DEF Step
<1>. QED  BY <1>2, <1>3, Invariant, PTL DEF Spec

(* Whoever removes the last participant has been removed between the check *)
(* and the removal (handlers.rs:555-562): user_id # request.user_id leaves *)
(* the remover in the dialog otherwise.                                    *)
THEOREM EmptiedTogether == Spec => EmptiedOnlyByEachOther
<1>. DEFINE Step == \A d \in Ids :
                Members(d) # {} /\ dialogs'[d].members = {} =>
                    \E h \in Handlers :
                        /\ handlers[h].dialog = d /\ handlers[h].pc = "change"
                        /\ handlers'[h] # handlers[h]
                        /\ handlers[h].user \in dialogs[d].joined \ Members(d)
<1>1. DialogsInv /\ [Next]_vars => Step
  <2>1. ASSUME DialogsInv, Next, NEW d \in Ids,
               Members(d) # {}, dialogs'[d].members = {}
        PROVE  \E h \in Handlers :
                   /\ handlers[h].dialog = d /\ handlers[h].pc = "change"
                   /\ handlers'[h] # handlers[h]
                   /\ handlers[h].user \in dialogs[d].joined \ Members(d)
    <3>1. dialogs'[d].members # dialogs[d].members
      BY <2>1 DEF Members
    <3>2. PICK h \in Handlers : Changes(h, d)
      BY <2>1, <3>1, ChangesByRequest
    <3>. QED  BY <2>1, <3>2 DEF Changes
  <2>2. ASSUME UNCHANGED vars
        PROVE  Step
    BY <2>2 DEF vars, Members
  <2>. QED  BY <2>1, <2>2
<1>2. DialogsInv /\ [Next]_vars => [Step]_vars
  BY <1>1
<1>3. [][Step]_vars => EmptiedOnlyByEachOther
  BY PTL DEF EmptiedOnlyByEachOther
<1>. HIDE DEF Step
<1>. QED  BY <1>2, <1>3, Invariant, PTL DEF Spec

-----------------------------------------------------------------------------
(* The order of a history *)

Above(m) == {n \in History(messages[m].dialog) : Before(n, m)}

LEMMA HistoryFinite ==
  ASSUME TypeOK, NEW d
  PROVE  IsFiniteSet(History(d)) /\ History(d) \subseteq DOMAIN messages
<1>1. PICK n \in Nat : DOMAIN messages = 1..n
  BY DEF TypeOK
<1>2. IsFiniteSet(1..n)
  BY FS_Interval
<1>3. History(d) \in SUBSET (1..n)
  BY <1>1 DEF History
<1>. QED  BY <1>1, <1>2, <1>3, FS_Subset

LEMMA MessageFacts ==
  ASSUME TypeOK, NEW d, NEW m \in History(d)
  PROVE  m \in Nat /\ messages[m].dialog = d /\ messages[m].at \in Nat
<1>1. m \in DOMAIN messages /\ messages[m].dialog = d
  BY DEF History
<1>2. m \in Nat /\ messages[m] \in Message
  BY <1>1 DEF TypeOK
<1>. QED  BY <1>1, <1>2, DialogsBoundsAssumption DEF Message

LEMMA RankBelow ==
  ASSUME TypeOK, NEW d, NEW m \in History(d)
  PROVE  /\ Above(m) \subseteq History(d) \ {m} /\ IsFiniteSet(Above(m))
         /\ Rank(m) = Cardinality(Above(m))
         /\ Rank(m) \in 0..Cardinality(History(d)) - 1
<1>1. messages[m].dialog = d /\ Rank(m) = Cardinality(Above(m))
  BY DEF History, Rank, Above
<1>2. IsFiniteSet(History(d)) /\ IsFiniteSet(History(d) \ {m})
  BY HistoryFinite, FS_Subset
<1>3. \A n \in History(d) : n \in Nat /\ messages[n].at \in Nat
  BY MessageFacts
<1>5. Above(m) \in SUBSET (History(d) \ {m})
  BY <1>1, <1>3 DEF Above, Before
<1>6. /\ IsFiniteSet(Above(m))
      /\ Cardinality(Above(m)) <= Cardinality(History(d) \ {m})
  BY <1>2, <1>5, FS_Subset
<1>7. Cardinality(History(d) \ {m}) = Cardinality(History(d)) - 1
  BY <1>2, FS_RemoveElement
<1>8. Cardinality(Above(m)) \in Nat /\ Cardinality(History(d)) \in Nat
  BY <1>2, <1>6, FS_CardinalityType
<1>. QED  BY <1>1, <1>5, <1>6, <1>7, <1>8

LEMMA RankGrows ==
  ASSUME TypeOK, NEW d, NEW m \in History(d), NEW n \in History(d), Before(m, n)
  PROVE  Rank(m) < Rank(n)
<1>1. \A k \in History(d) : messages[k].dialog = d /\ messages[k].at \in Nat
                            /\ k \in Nat
  BY MessageFacts
<1>2. Above(m) \in SUBSET Above(n)
  BY <1>1 DEF Above, Before
<1>3. m \in Above(n) /\ m \notin Above(m)
  BY <1>1 DEF Above, Before
<1>4. IsFiniteSet(Above(m)) /\ IsFiniteSet(Above(n))
      /\ Rank(m) = Cardinality(Above(m)) /\ Rank(n) = Cardinality(Above(n))
  BY RankBelow
<1>5. Cardinality(Above(m)) <= Cardinality(Above(n))
      /\ Cardinality(Above(m)) # Cardinality(Above(n))
  BY <1>2, <1>3, <1>4, FS_Subset
<1>6. Cardinality(Above(m)) \in Nat /\ Cardinality(Above(n)) \in Nat
  BY <1>4, FS_CardinalityType
<1>. QED  BY <1>4, <1>5, <1>6

(* Every place in a history is taken.                                      *)
LEMMA RankTaken ==
  ASSUME TypeOK, NEW d, NEW i \in 0..Cardinality(History(d)) - 1
  PROVE  \E m \in History(d) : Rank(m) = i
<1>. DEFINE top == Cardinality(History(d)) - 1
            f == [m \in History(d) |-> Rank(m)]
<1>1. IsFiniteSet(History(d)) /\ Cardinality(History(d)) \in Nat
  BY HistoryFinite, FS_CardinalityType
<1>2. top \in Nat
  BY <1>1
<1>3. IsFiniteSet(0..top) /\ Cardinality(0..top) = top + 1
  BY <1>2, FS_Interval
<1>4. \A m \in History(d) : Rank(m) \in 0..top
  BY RankBelow
<1>5. ASSUME NEW m \in History(d), NEW n \in History(d), m # n
      PROVE  Rank(m) # Rank(n)
  <2>1. \A k \in History(d) : messages[k].at \in Nat /\ k \in Nat
    BY MessageFacts
  <2>2. Before(m, n) \/ Before(n, m)
    BY <1>5, <2>1 DEF Before
  <2>3. Rank(m) < Rank(n) \/ Rank(n) < Rank(m)
    BY <2>2, RankGrows
  <2>4. Rank(m) \in Int /\ Rank(n) \in Int
    BY <1>4
  <2>. QED  BY <2>3, <2>4
<1>6. f \in Injection(History(d), 0..top)
  BY <1>4, <1>5 DEF Injection, IsInjective
<1>7. Cardinality(History(d)) = Cardinality(0..top)
  BY <1>1, <1>3
<1>8. f \in Surjection(History(d), 0..top)
  BY <1>3, <1>6, <1>7, FS_Injection
<1>. QED  BY <1>8 DEF Surjection

(* A page with a message behind it is full.                                *)
LEMMA FullPage ==
  ASSUME TypeOK, NEW d, NEW offset \in Nat, NEW m \in History(d),
         Rank(m) >= offset + PageSize
  PROVE  ~(Cardinality(Page(d, offset, PageSize)) < PageSize)
<1>. DEFINE page == Page(d, offset, PageSize)
            last == offset + PageSize - 1
            f == [n \in page |-> Rank(n)]
<1>1. last \in Nat /\ PageSize \in Nat \ {0}
  BY DialogsBoundsAssumption
<1>2. IsFiniteSet(page) /\ Cardinality(page) \in Nat
  <2>1. page \in SUBSET History(d)
    BY DEF Page
  <2>. QED  BY <2>1, HistoryFinite, FS_Subset, FS_CardinalityType
<1>3. \A n \in page : n \in History(d) /\ Rank(n) \in offset..last
  BY <1>1, RankBelow DEF Page
<1>4. ASSUME NEW i \in offset..last
      PROVE  \E n \in page : Rank(n) = i
  <2>1. Rank(m) \in 0..Cardinality(History(d)) - 1
        /\ Cardinality(History(d)) \in Nat
    BY RankBelow, HistoryFinite, FS_CardinalityType
  <2>2. i \in 0..Cardinality(History(d)) - 1
    BY <1>1, <2>1
  <2>3. PICK n \in History(d) : Rank(n) = i
    BY <2>2, RankTaken
  <2>4. n \in page
    BY <1>1, <2>3 DEF Page
  <2>. QED  BY <2>3, <2>4
<1>5. f \in Surjection(page, offset..last)
  BY <1>3, <1>4 DEF Surjection
<1>6. Cardinality(offset..last) <= Cardinality(page)
  BY <1>2, <1>5, FS_Surjection
<1>7. Cardinality(offset..last) = PageSize
  BY <1>1, FS_Interval
<1>. QED  BY <1>1, <1>2, <1>6, <1>7
-----------------------------------------------------------------------------
(* A client that reads a history *)

(* The messages that are owed and have not been seen are those behind the  *)
(* offset.                                                                 *)
ReaderInv(r) ==
    /\ r.offset >= 1 /\ r.due \subseteq History(r.dialog)
    /\ \A m \in r.due \ r.seen : Rank(m) >= r.offset
    /\ r.done => r.due \subseteq r.seen

ReadInv == /\ reader = {} \/ \E r : reader = {r}
           /\ \A r \in reader : ReaderInv(r)

(* What is read moves only towards the end of the history.                 *)
LEMMA HistoryMoves ==
  ASSUME TypeOK, TypeOK',
         \A m \in DOMAIN messages :
             /\ m \in DOMAIN messages'
             /\ messages'[m].dialog = messages[m].dialog
             /\ messages'[m].at = messages[m].at
  PROVE  \A d : \A m \in History(d) :
             m \in History(d)' /\ Rank(m)' \in Nat /\ Rank(m) <= Rank(m)'
<1>1. SUFFICES ASSUME NEW d, NEW m \in History(d)
               PROVE  /\ m \in History(d)' /\ Rank(m)' \in Nat
                      /\ Rank(m) <= Rank(m)'
  OBVIOUS
<1>2. m \in DOMAIN messages /\ m \in History(d)'
  BY DEF History
<1>3. Above(m) \subseteq Above(m)'
  BY <1>2 DEF Above, History, Before
<1>4. IsFiniteSet(Above(m)) /\ Rank(m) = Cardinality(Above(m))
  BY RankBelow
<1>5. IsFiniteSet(Above(m)') /\ Rank(m)' = Cardinality(Above(m)')
  <2>1. messages'[m].dialog = d
    BY <1>2 DEF History
  <2>2. Rank(m)' = Cardinality(Above(m)')
    BY DEF Rank, Above
  <2>3. PICK n \in Nat : DOMAIN messages' = 1..n
    BY DEF TypeOK
  <2>4. IsFiniteSet(1..n)
    BY FS_Interval
  <2>5. Above(m)' \in SUBSET (1..n)
    BY <2>3 DEF Above, History
  <2>. QED  BY <2>2, <2>4, <2>5, FS_Subset
<1>6. PICK old, new : old = Above(m) /\ new = Above(m)'
  OBVIOUS
<1>7. Cardinality(old) <= Cardinality(new)
  BY <1>3, <1>5, <1>6, FS_Subset
<1>8. Cardinality(new) \in Nat
  BY <1>5, <1>6, FS_CardinalityType
<1>. QED  BY <1>2, <1>4, <1>5, <1>6, <1>7, <1>8

LEMMA ReadStays ==
  ASSUME TypeOK, TypeOK', ReadInv, UNCHANGED reader,
         \A d : \A m \in History(d) :
             m \in History(d)' /\ Rank(m)' \in Nat /\ Rank(m) <= Rank(m)'
  PROVE  ReadInv'
<1>1. ASSUME NEW r \in reader
      PROVE  ReaderInv(r)'
  <2>1. ReaderInv(r)
    BY DEF ReadInv
  <2>2. r.due \subseteq History(r.dialog)'
    BY <2>1 DEF ReaderInv
  <2>3. ASSUME NEW m \in r.due \ r.seen
        PROVE  Rank(m)' >= r.offset
    <3>1. m \in History(r.dialog) /\ Rank(m) >= r.offset
      BY <2>1 DEF ReaderInv
    <3>2. Rank(m) \in Int
      BY <3>1, RankBelow
    <3>3. Rank(m) <= Rank(m)' /\ Rank(m)' \in Nat
      BY <3>1
    <3>4. r.offset \in Int
      BY DEF TypeOK, Reader
    <3>. QED  BY <3>1, <3>2, <3>3, <3>4
  <2>. QED  BY <2>1, <2>2, <2>3 DEF ReaderInv
<1>. QED  BY <1>1 DEF ReadInv

LEMMA PageRead ==
  ASSUME TypeOK, TypeOK', NEW d, NEW offset \in Nat, GetHistory(d, offset),
         NEW due, due \subseteq History(d),
         due = IF offset = 0 THEN History(d) ELSE UNION {r.due : r \in reader},
         \A m \in due \ UNION {r.seen : r \in reader} : Rank(m) >= offset
  PROVE  ReadInv'
<1>1. PICK seen, done :
          /\ seen = Page(d, offset, PageSize) \cup UNION {r.seen : r \in reader}
          /\ done = (Cardinality(Page(d, offset, PageSize)) < PageSize)
          /\ reader' = {[dialog |-> d, offset |-> offset + PageSize,
                         due |-> due, seen |-> seen, done |-> done]}
  BY DEF GetHistory
<1>2. PICK new : /\ reader' = {new}
                 /\ new = [dialog |-> d, offset |-> offset + PageSize,
                           due |-> due, seen |-> seen, done |-> done]
  BY <1>1
<1>3. /\ new.dialog = d /\ new.offset = offset + PageSize
      /\ new.due = due /\ new.seen = seen /\ new.done = done
  BY <1>2
<1>4. ASSUME NEW m \in due \ seen
      PROVE  m \in History(d) /\ Rank(m) >= offset + PageSize
  <2>1. m \in History(d) /\ Rank(m) >= offset
        /\ m \notin Page(d, offset, PageSize)
    BY <1>1, <1>4
  <2>2. Rank(m) \in Nat
    BY <2>1, RankBelow
  <2>. QED  BY <2>1, <2>2, DialogsBoundsAssumption DEF Page
<1>5. done => due \subseteq seen
  BY <1>1, <1>4, FullPage
<1>6. /\ \A e : History(e)' = History(e)
      /\ \A m : Rank(m)' = Rank(m)
  BY DEF GetHistory, History, Rank, Before
<1>7. offset + PageSize >= 1
  BY DialogsBoundsAssumption
<1>8. ReaderInv(new)'
  BY <1>3, <1>4, <1>5, <1>6, <1>7 DEF ReaderInv
<1>. QED  BY <1>2, <1>8 DEF ReadInv

LEMMA FirstPageStep ==
  ASSUME TypeOK, TypeOK', FirstPage
  PROVE  ReadInv'
<1>1. PICK d \in Ids : GetHistory(d, 0)
  BY DEF FirstPage
<1>2. PICK due : due = History(d)
  OBVIOUS
<1>3. \A m \in due : Rank(m) >= 0
  BY <1>2, RankBelow
<1>4. PICK offset \in Nat : offset = 0
  OBVIOUS
<1>5. GetHistory(d, offset)
  BY <1>1, <1>4
<1>. QED  BY <1>2, <1>3, <1>4, <1>5, PageRead

LEMMA NextPageStep ==
  ASSUME TypeOK, TypeOK', ReadInv, NextPage
  PROVE  ReadInv'
<1>1. PICK r \in reader : GetHistory(r.dialog, r.offset)
  BY DEF NextPage
<1>2. reader = {r} /\ ReaderInv(r)
  BY DEF ReadInv
<1>3. /\ UNION {q.due : q \in reader} = r.due
      /\ UNION {q.seen : q \in reader} = r.seen
  BY <1>2
<1>4. r.offset \in Nat /\ r.offset # 0
  BY <1>2 DEF ReaderInv, TypeOK, Reader
<1>5. PICK offset \in Nat : offset = r.offset
  BY <1>4
<1>6. PICK d, due : d = r.dialog /\ due = r.due
  OBVIOUS
<1>7. GetHistory(d, offset)
  BY <1>1, <1>5, <1>6
<1>8. due \subseteq History(d)
      /\ \A m \in due \ UNION {q.seen : q \in reader} : Rank(m) >= offset
  BY <1>2, <1>3, <1>5, <1>6 DEF ReaderInv
<1>. QED  BY <1>3, <1>4, <1>5, <1>7, <1>8, <1>6, PageRead

LEMMA MessageStep ==
  ASSUME TypeOK, TypeOK', ReadInv, SendMessage \/ SendMessageAck
  PROVE  ReadInv'
<1>1. messages \in Seq(Message)
  BY DEF TypeOK
<1>2. ASSUME NEW m \in DOMAIN messages
      PROVE  /\ m \in DOMAIN messages'
             /\ messages'[m].dialog = messages[m].dialog
             /\ messages'[m].at = messages[m].at
  <2>1. CASE SendMessage
    <3>1. PICK new : messages' = Append(messages, new)
      BY <2>1 DEF SendMessage
    <3>2. m \in DOMAIN messages' /\ messages'[m] = messages[m]
      BY <1>1, <3>1, AppendProperties
    <3>. QED  BY <3>2
  <2>2. CASE SendMessageAck
    <3>1. PICK n \in DOMAIN messages :
              messages' = [messages EXCEPT ![n].delivered = TRUE]
      BY <2>2 DEF SendMessageAck
    <3>2. messages[m] \in Message
      BY <1>1
    <3>. QED  BY <3>1, <3>2 DEF Message
  <2>. QED  BY <2>1, <2>2
<1>3. UNCHANGED reader
  BY DEF SendMessage, SendMessageAck
<1>. QED  BY <1>2, <1>3, HistoryMoves, ReadStays

LEMMA ReadNext ==
  ASSUME TypeOK, TypeOK', ReadInv, [Next]_vars
  PROVE  ReadInv'
<1>1. ASSUME UNCHANGED <<messages, reader>>
      PROVE  ReadInv'
  BY <1>1 DEF ReadInv, ReaderInv, History, Rank, Before
<1>2. ASSUME NEW h \in Handlers, Request(h)
      PROVE  UNCHANGED <<messages, reader>>
  BY <1>2 DEF Request, CreatePrivateDialog, CreateGroup, AddGroupParticipant,
     RemoveGroupParticipant, GetDialogs, Begin
<1>3. ASSUME NEW h \in Handlers, HandlerStep(h) \/ Fail(h)
      PROVE  UNCHANGED <<messages, reader>>
  BY <1>3 DEF HandlerStep, Fail, FindPrivate, NewDialog, InsertParticipant,
     CheckMember, InsertOrIgnore, DeleteParticipant, ListDialogs,
     BuildDialogInfo
<1>4. UNCHANGED vars => UNCHANGED <<messages, reader>>
  BY DEF vars
<1>. QED  BY <1>1, <1>2, <1>3, <1>4, FirstPageStep, NextPageStep, MessageStep
          DEF Next

(* A reader that goes on behind the rows it has got misses no message that *)
(* was there when it began: get_message_history's ORDER BY, LIMIT and      *)
(* OFFSET (db.rs:618) place a new message before or between the old ones   *)
(* and never move an old one forward.                                      *)
THEOREM NoneMissed == Spec => []NoMessageSkipped
<1>1. Init => ReadInv
  BY DEF Init, Started, ReadInv
<1>2. TypeOK /\ TypeOK' /\ ReadInv /\ [Next]_vars => ReadInv'
  BY ReadNext
<1>3. ReadInv => NoMessageSkipped
  BY DEF ReadInv, ReaderInv, NoMessageSkipped
<1>. QED  BY <1>1, <1>2, <1>3, TypeCorrect, PTL DEF Spec

-----------------------------------------------------------------------------
(* What a request has in hand *)

Items(s) == {s[i] : i \in DOMAIN s}

(* Nobody is asked for before the participants have been touched.  Then    *)
(* the dialog has everybody asked for who is not still to be inserted.     *)
Shows(r) ==
    /\ r.pc \in {"check", "change", "list"} => r.asked = {}
    /\ r.pc = "list" => r.op # "remove"
    /\ ~r.undone =>
           /\ r.pc = "fill" =>
                  r.asked \subseteq Members(r.dialog) \cup Items(r.todo)
           /\ r.pc = "info" =>
                  /\ r.asked \subseteq Members(r.dialog)
                  /\ r.op = "remove" => r.other \notin Members(r.dialog)

(* A dialog being filled is of the kind asked for, and a private one takes *)
(* in nobody but its two users unless somebody is added to it.             *)
Fills(r) ==
    /\ r.pc = "new" /\ r.op = "private" => r.todo = <<r.other>>
    /\ r.pc = "fill" =>
           /\ dialogs[r.dialog].kind = r.op
           /\ r.op = "private" =>
                  /\ Items(r.todo) \subseteq {r.user, r.other}
                  /\ \/ dialogs[r.dialog].mixed
                     \/ dialogs[r.dialog].joined \subseteq {r.user, r.other}

WorkInv(r) == Shows(r) /\ Fills(r)

(* No two requests fill the same dialog.                                   *)
Filling(k, d) == handlers[k].pc = "fill" /\ handlers[k].dialog = d
FillersApart ==
    \A h, k \in Handlers : \A d \in Ids :
        Filling(h, d) /\ Filling(k, d) => h = k

(* A pair has a dialog already, or will once its request has filled it.    *)
Private(d) == dialogs[d].kind = "private" /\ ~dialogs[d].mixed
Holds(d, p) ==
    \/ p \subseteq Members(d)
    \/ \E k \in Handlers :
           Filling(k, d) /\ p \subseteq Members(d) \cup Items(handlers[k].todo)

(* Requests that have found no dialog for their pair and have made none.   *)
Who(k) == {handlers[k].user, handlers[k].other}
Looked(k) == handlers[k].pc = "new" /\ handlers[k].op = "private"

(* Two dialogs of a pair, a dialog and a request about to make one, or two *)
(* such requests come only of requests that looked at the same time.       *)
RacedInv ==
    /\ \A d, e \in Ids : \A p \in Pairs :
           d # e /\ Private(d) /\ Private(e) /\ Holds(d, p) /\ Holds(e, p)
               => p \in raced
    /\ \A d \in Ids : \A k \in Handlers :
           Who(k) \in Pairs /\ Looked(k) /\ Private(d) /\ Holds(d, Who(k))
               => Who(k) \in raced
    /\ \A h, k \in Handlers :
           h # k /\ Looked(h) /\ Looked(k) /\ Who(h) = Who(k)
               => Who(h) \in raced

AnswersInv == /\ \A k \in Handlers : WorkInv(handlers[k])
              /\ FillersApart /\ RacedInv

LEMMA ItemsTail ==
  ASSUME NEW S, NEW s \in Seq(S), s # <<>>
  PROVE  /\ Head(s) \in Items(s) /\ Items(Tail(s)) \subseteq Items(s)
         /\ Items(s) \subseteq {Head(s)} \cup Items(Tail(s))
         /\ Len(s) = 1 => Items(Tail(s)) = {}
<1>1. /\ Tail(s) \in Seq(S) /\ Len(Tail(s)) = Len(s) - 1 /\ Len(s) \in Nat \ {0}
      /\ \A i \in 1..Len(s) - 1 : Tail(s)[i] = s[i + 1]
      /\ DOMAIN Tail(s) = 1..Len(s) - 1 /\ DOMAIN s = 1..Len(s)
      /\ Head(s) = s[1]
  OBVIOUS
<1>2. Head(s) \in Items(s) /\ Items(Tail(s)) \subseteq Items(s)
  BY <1>1 DEF Items
<1>3. ASSUME NEW i \in DOMAIN s, i # 1
      PROVE  s[i] \in Items(Tail(s))
  <2>1. i - 1 \in 1..Len(s) - 1 /\ (i - 1) + 1 = i
    BY <1>1, <1>3
  <2>. QED  BY <1>1, <2>1 DEF Items
<1>4. Items(s) \subseteq {Head(s)} \cup Items(Tail(s))
  BY <1>1, <1>3 DEF Items
<1>5. Len(s) = 1 => Items(Tail(s)) = {}
  BY <1>1 DEF Items
<1>. QED  BY <1>2, <1>4, <1>5

LEMMA PairIs ==
  ASSUME NEW p \in Pairs, NEW a, NEW b, p \subseteq {a, b}
  PROVE  p = {a, b}
<1>1. IsFiniteSet({a}) /\ Cardinality({a}) = 1
      /\ IsFiniteSet({b}) /\ Cardinality({b}) = 1
  BY FS_Singleton
<1>2. Cardinality(p) = 2
  BY DEF Pairs
<1>3. ASSUME p \subseteq {a} \/ p \subseteq {b}
      PROVE  FALSE
  <2>1. Cardinality(p) <= 1
    BY <1>1, <1>3, FS_Subset
  <2>. QED  BY <1>2, <2>1
<1>. QED  BY <1>3

-----------------------------------------------------------------------------
(* The steps of a request *)

(* Request h changes the participants of d to m and becomes r.             *)
Writes(h, r, d, m, mixed) ==
    /\ Ids' = Ids /\ handlers'[h] = r
    /\ dialogs'[d].members = m
    /\ dialogs'[d].joined = dialogs[d].joined \cup m
    /\ dialogs'[d].kind = dialogs[d].kind
    /\ dialogs'[d].mixed = (dialogs[d].mixed \/ mixed)
    /\ \A e \in Ids : e # d => dialogs'[e] = dialogs[e]
    /\ \A k \in Handlers : k # h =>
           handlers'[k] = IF handlers[k].dialog = d
                          THEN [handlers[k] EXCEPT !.undone = TRUE]
                          ELSE handlers[k]

LEMMA WritesIt ==
  ASSUME DialogsInv, NEW h \in Handlers, NEW r, r # handlers[h],
         NEW d \in Ids, NEW m, NEW mixed \in BOOLEAN,
         NEW hs, hs = [handlers EXCEPT ![h] = r], SetMembers(d, m, mixed, hs)
  PROVE  Writes(h, r, d, m, mixed)
<1>1. dialogs \in Seq(Dialog) /\ dialogs[d] \in Dialog
      /\ handlers \in [Handlers -> Handler]
  BY DEF DialogsInv, TypeOK, Ids
<1>2. PICK new : new = [dialogs[d] EXCEPT !.members = m,
                                          !.joined = dialogs[d].joined \cup m,
                                          !.mixed = dialogs[d].mixed \/ mixed]
  OBVIOUS
<1>3. dialogs' = [dialogs EXCEPT ![d] = new]
  BY <1>1, <1>2 DEF SetMembers
<1>4. /\ new.members = m /\ new.joined = dialogs[d].joined \cup m
      /\ new.kind = dialogs[d].kind
      /\ new.mixed = (dialogs[d].mixed \/ mixed)
  BY <1>1, <1>2 DEF Dialog
<1>5. /\ Ids' = Ids /\ dialogs'[d] = new
      /\ \A e \in Ids : e # d => dialogs'[e] = dialogs[e]
  BY <1>1, <1>3 DEF Ids
<1>6. hs[h] = r /\ \A k \in Handlers : k # h => hs[k] = handlers[k]
  BY <1>1
<1>7. \A k \in Handlers :
          handlers'[k] = IF hs[k].dialog = d /\ hs[k] = handlers[k]
                         THEN [hs[k] EXCEPT !.undone = TRUE] ELSE hs[k]
  BY DEF SetMembers
<1>8. handlers'[h] = r
  BY <1>6, <1>7
<1>9. ASSUME NEW k \in Handlers, k # h
      PROVE  handlers'[k] = IF handlers[k].dialog = d
                            THEN [handlers[k] EXCEPT !.undone = TRUE]
                            ELSE handlers[k]
  BY <1>6, <1>7, <1>9
<1>. QED  BY <1>4, <1>5, <1>8, <1>9 DEF Writes

(* What is left of a request in hand by a change of another.               *)
LEMMA OthersKept ==
  ASSUME DialogsInv, NEW h \in Handlers, NEW r, NEW d \in Ids, NEW m, NEW mixed,
         Writes(h, r, d, m, mixed), NEW k \in Handlers, k # h
  PROVE  /\ handlers'[k].pc = handlers[k].pc /\ handlers'[k].op = handlers[k].op
         /\ handlers'[k].user = handlers[k].user
         /\ handlers'[k].other = handlers[k].other
         /\ handlers'[k].dialog = handlers[k].dialog
         /\ handlers'[k].todo = handlers[k].todo
         /\ handlers'[k].asked = handlers[k].asked
         /\ handlers[k].dialog # d => handlers'[k] = handlers[k]
         /\ handlers[k].dialog = d => handlers'[k].undone
<1>1. handlers[k] \in Handler
  BY RequestFacts
<1>2. handlers'[k] = IF handlers[k].dialog = d
                     THEN [handlers[k] EXCEPT !.undone = TRUE]
                     ELSE handlers[k]
  BY DEF Writes
<1>3. CASE handlers[k].dialog = d
  BY <1>1, <1>2, <1>3 DEF Handler
<1>4. CASE handlers[k].dialog # d
  BY <1>2, <1>4
<1>. QED  BY <1>3, <1>4

(* What is still to be inserted into the dialog a request fills.           *)
Left(r) == IF r.pc = "fill" THEN Items(r.todo) ELSE {}

(* The changes a request makes: it goes on filling the dialog it fills,    *)
(* adds somebody, or only takes somebody away.                             *)
Proper(h, r, d, m, mixed) ==
    /\ r.pc # "new"
    /\ r.pc = "fill" => Filling(h, d) /\ r.dialog = d
    /\ \/ mixed
       \/ /\ m \subseteq Members(d) \/ Filling(h, d)
          /\ m \cup Left(r) \subseteq Members(d) \cup Left(handlers[h])

LEMMA WritesWork ==
  ASSUME DialogsInv, AnswersInv, NEW h \in Handlers, NEW r, NEW d \in Ids,
         NEW m, NEW mixed \in BOOLEAN, Writes(h, r, d, m, mixed),
         Proper(h, r, d, m, mixed), NEW k \in Handlers, k # h
  PROVE  WorkInv(handlers[k])'
<1>1. WorkInv(handlers[k]) /\ RequestInv(handlers[k]) /\ handlers[k] \in Handler
  BY RequestFacts DEF AnswersInv
<1>2. CASE handlers[k].dialog = d
  <2>1. Shows(handlers[k])'
    BY <1>1, <1>2, OthersKept DEF WorkInv, Shows
  <2>2. ASSUME handlers[k].pc = "fill"
        PROVE  dialogs'[d].mixed \/ dialogs'[d].joined = dialogs[d].joined
    <3>1. Filling(k, d) /\ ~Filling(h, d)
      BY <1>2, <2>2 DEF Filling, AnswersInv, FillersApart
    <3>2. CASE mixed
      BY <3>2 DEF Writes
    <3>3. CASE ~mixed
      <4>1. m \subseteq Members(d)
        BY <3>1, <3>3 DEF Proper
      <4>2. m \subseteq dialogs[d].joined
        BY <4>1 DEF Members, DialogsInv, DialogInv
      <4>. QED  BY <4>2 DEF Writes
    <3>. QED  BY <3>2, <3>3
  <2>3. dialogs[d].mixed => dialogs'[d].mixed
    BY DEF Writes
  <2>4. dialogs'[d].kind = dialogs[d].kind
    BY DEF Writes
  <2>5. Fills(handlers[k])'
    BY <1>1, <1>2, <2>2, <2>3, <2>4, OthersKept DEF WorkInv, Fills
  <2>. QED  BY <2>1, <2>5 DEF WorkInv
<1>3. CASE handlers[k].dialog # d
  <2>1. handlers'[k] = handlers[k]
    BY <1>3, OthersKept
  <2>2. Members(handlers[k].dialog)' = Members(handlers[k].dialog)
    BY <1>3, <2>1 DEF Members, Writes
  <2>3. Shows(handlers[k])'
    BY <1>1, <2>1, <2>2 DEF WorkInv, Shows
  <2>4. handlers[k].pc = "fill" =>
            dialogs'[handlers[k].dialog] = dialogs[handlers[k].dialog]
    BY <1>1, <1>3 DEF RequestInv, Writes
  <2>5. Fills(handlers[k])'
    BY <1>1, <2>1, <2>4 DEF WorkInv, Fills
  <2>. QED  BY <2>3, <2>5 DEF WorkInv
<1>. QED  BY <1>2, <1>3

LEMMA RacedShown ==
  ASSUME \A d, e \in Ids' : \A p \in Pairs :
             d # e /\ Private(d)' /\ Private(e)' /\ Holds(d, p)' /\ Holds(e, p)'
                 => p \in raced',
         \A d \in Ids' : \A k \in Handlers : \A p \in Pairs :
             p = Who(k)' /\ Looked(k)' /\ Private(d)' /\ Holds(d, p)'
                 => p \in raced',
         \A h, k \in Handlers :
             h # k /\ Looked(h)' /\ Looked(k)' /\ Who(h)' = Who(k)'
                 => Who(h)' \in raced'
  PROVE  RacedInv'
<1>1. ASSUME NEW d \in Ids', NEW k \in Handlers,
             Who(k)' \in Pairs, Looked(k)', Private(d)', Holds(d, Who(k))'
      PROVE  Who(k)' \in raced'
  <2>1. PICK p \in Pairs : p = Who(k)'
    BY <1>1
  <2>2. Holds(d, p)'
    BY <1>1, <2>1 DEF Holds
  <2>. QED  BY <1>1, <2>1, <2>2
<1>. QED  BY <1>1 DEF RacedInv

(* Nobody new holds a pair, so nobody has to be known to have raced.       *)
LEMMA RacedStays ==
  ASSUME RacedInv, raced \subseteq raced',
         \A d \in Ids' : Private(d)' => d \in Ids /\ Private(d),
         \A d \in Ids : \A p : Private(d)' /\ Holds(d, p)' => Holds(d, p),
         \A k \in Handlers : Looked(k)' => Looked(k) /\ Who(k)' = Who(k)
  PROVE  RacedInv'
<1>. QED  BY RacedShown DEF RacedInv

LEMMA WritesInv ==
  ASSUME DialogsInv, AnswersInv, NEW h \in Handlers, NEW r, NEW d \in Ids,
         NEW m, NEW mixed \in BOOLEAN, Writes(h, r, d, m, mixed),
         Proper(h, r, d, m, mixed), WorkInv(r)', UNCHANGED raced
  PROVE  AnswersInv'
<1>1. handlers'[h] = r /\ Ids' = Ids
  BY DEF Writes
<1>2. \A k \in Handlers : WorkInv(handlers[k])'
  <2>1. WorkInv(handlers[h])'
    BY <1>1 DEF WorkInv, Shows, Fills
  <2>. QED  BY <2>1, WritesWork
<1>3. ASSUME NEW k \in Handlers, NEW e, Filling(k, e)'
      PROVE  Filling(k, e) /\ (k = h => e = d)
  BY <1>1, <1>3, OthersKept DEF Filling, Proper
<1>4. FillersApart'
  BY <1>1, <1>3 DEF AnswersInv, FillersApart
<1>5. ASSUME NEW e \in Ids, Private(e)'
      PROVE  /\ Private(e) /\ (e = d => ~mixed)
             /\ e # d => Members(e)' = Members(e)
  BY <1>1, <1>5 DEF Private, Members, Writes
<1>6. Members(d)' = m
  BY DEF Members, Writes
<1>7. ASSUME NEW e \in Ids, NEW p, Private(e)', Holds(e, p)'
      PROVE  Holds(e, p)
  <2>1. CASE e # d
    <3>1. CASE p \subseteq Members(e)'
      BY <1>5, <1>7, <2>1, <3>1 DEF Holds
    <3>2. ASSUME NEW k \in Handlers, Filling(k, e)',
                 p \subseteq Members(e)' \cup Items(handlers'[k].todo)
          PROVE  Holds(e, p)
      <4>1. Filling(k, e) /\ k # h
        BY <1>3, <2>1, <3>2
      <4>2. p \subseteq Members(e) \cup Items(handlers[k].todo)
        BY <1>5, <1>7, <2>1, <3>2, <4>1, OthersKept
      <4>. QED  BY <4>1, <4>2 DEF Holds
    <3>. QED  BY <1>7, <3>1, <3>2 DEF Holds
  <2>2. CASE e = d
    <3>1. m \cup Left(r) \subseteq Members(d) \cup Left(handlers[h])
          /\ (m \subseteq Members(d) \/ Filling(h, d))
      BY <1>5, <1>7, <2>2 DEF Proper
    <3>2. CASE p \subseteq m
      <4>1. CASE handlers[h].pc # "fill"
        BY <2>2, <3>1, <3>2, <4>1 DEF Holds, Left
      <4>2. CASE p \subseteq Members(d)
        BY <2>2, <4>2 DEF Holds
      <4>3. CASE Filling(h, d)
        BY <2>2, <3>1, <3>2, <4>3 DEF Holds, Left, Filling
      <4>. QED  BY <3>1, <3>2, <4>2, <4>3
    <3>3. ASSUME NEW k \in Handlers, Filling(k, d)',
                 p \subseteq m \cup Items(handlers'[k].todo)
          PROVE  Holds(d, p)
      <4>1. Filling(k, d)
        BY <1>3, <3>3
      <4>2. CASE k = h
        <5>1. p \subseteq m \cup Left(r)
          BY <1>1, <3>3, <4>2 DEF Left, Filling
        <5>. QED  BY <3>1, <4>1, <4>2, <5>1 DEF Holds, Left, Filling
      <4>3. CASE k # h
        <5>1. m \subseteq Members(d)
          BY <3>1, <4>1, <4>3 DEF AnswersInv, FillersApart
        <5>2. p \subseteq Members(d) \cup Items(handlers[k].todo)
          BY <3>3, <4>3, <5>1, OthersKept
        <5>. QED  BY <4>1, <5>2 DEF Holds
      <4>. QED  BY <4>2, <4>3
    <3>. QED  BY <1>6, <1>7, <2>2, <3>2, <3>3 DEF Holds
  <2>. QED  BY <2>1, <2>2
<1>8. ASSUME NEW k \in Handlers, Looked(k)'
      PROVE  Looked(k) /\ Who(k)' = Who(k)
  <2>1. k # h
    BY <1>1, <1>8 DEF Looked, Proper
  <2>. QED  BY <1>8, <2>1, OthersKept DEF Looked, Who
<1>9. RacedInv'
  BY <1>1, <1>5, <1>7, <1>8, RacedStays DEF AnswersInv
<1>. QED  BY <1>2, <1>4, <1>9 DEF AnswersInv

(* A step that leaves the dialogs alone, and does not begin to make a      *)
(* private one.                                                            *)
LEMMA LocalAnswers ==
  ASSUME DialogsInv, AnswersInv, NEW h \in Handlers, NEW r,
         handlers' = [handlers EXCEPT ![h] = r], WorkInv(r),
         r.pc # "fill", ~(r.pc = "new" /\ r.op = "private"),
         UNCHANGED <<dialogs, raced>>
  PROVE  AnswersInv'
<1>1. /\ handlers'[h] = r
      /\ \A k \in Handlers : k # h => handlers'[k] = handlers[k]
  BY DEF DialogsInv, TypeOK
<1>2. /\ Ids' = Ids /\ \A d : Members(d)' = Members(d)
      /\ \A d : Private(d)' = Private(d)
  BY DEF Ids, Members, Private
<1>3. ASSUME NEW k \in Handlers
      PROVE  WorkInv(handlers[k])'
  BY <1>1, <1>2 DEF AnswersInv, WorkInv, Shows, Fills
<1>4. ASSUME NEW k \in Handlers, NEW d, Filling(k, d)'
      PROVE  Filling(k, d) /\ handlers'[k] = handlers[k]
  BY <1>1, <1>4 DEF Filling
<1>5. FillersApart'
  BY <1>2, <1>4 DEF AnswersInv, FillersApart
<1>6. ASSUME NEW d, NEW p, Holds(d, p)'
      PROVE  Holds(d, p)
  BY <1>2, <1>4, <1>6 DEF Holds
<1>7. ASSUME NEW k \in Handlers, Looked(k)'
      PROVE  Looked(k) /\ Who(k)' = Who(k)
  BY <1>1, <1>7 DEF Looked, Who
<1>8. RacedInv'
  BY <1>2, <1>6, <1>7, RacedStays DEF AnswersInv
<1>. QED  BY <1>3, <1>5, <1>8 DEF AnswersInv

LEMMA ReturnAnswers ==
  ASSUME DialogsInv, AnswersInv, NEW h \in Handlers, Return(h),
         UNCHANGED <<dialogs, raced>>
  PROVE  AnswersInv'
<1>1. PICK r : r = Idle
  OBVIOUS
<1>2. WorkInv(r) /\ r.pc = "idle"
  BY <1>1 DEF Idle, WorkInv, Shows, Fills
<1>3. handlers' = [handlers EXCEPT ![h] = r]
  BY <1>1 DEF Return
<1>. QED  BY <1>2, <1>3, LocalAnswers

LEMMA BeginAnswers ==
  ASSUME DialogsInv, AnswersInv, NEW h \in Handlers, NEW op, NEW pc, NEW u,
         NEW v, NEW d, NEW list, pc \in {"find", "new", "check", "list"},
         pc = "new" => op = "group", pc = "list" => op = "dialogs",
         Begin(h, op, pc, u, v, d, list)
  PROVE  AnswersInv'
<1>1. PICK r : r = [Idle EXCEPT !.pc = pc, !.op = op, !.user = u, !.other = v,
                                !.dialog = d, !.todo = list]
  OBVIOUS
<1>2. r.pc = pc /\ r.op = op /\ r.asked = {}
  BY <1>1 DEF Idle
<1>3. WorkInv(r)
  BY <1>2 DEF WorkInv, Shows, Fills
<1>4. handlers' = [handlers EXCEPT ![h] = r] /\ UNCHANGED <<dialogs, raced>>
  BY <1>1 DEF Begin
<1>. QED  BY <1>2, <1>3, <1>4, LocalAnswers

LEMMA RequestAnswers ==
  ASSUME DialogsInv, AnswersInv, NEW h \in Handlers, Request(h)
  PROVE  AnswersInv'
<1>1. CASE CreatePrivateDialog(h)
  BY <1>1, BeginAnswers DEF CreatePrivateDialog
<1>2. CASE CreateGroup(h)
  BY <1>2, BeginAnswers DEF CreateGroup
<1>3. CASE AddGroupParticipant(h)
  BY <1>3, BeginAnswers DEF AddGroupParticipant
<1>4. CASE RemoveGroupParticipant(h)
  BY <1>4, BeginAnswers DEF RemoveGroupParticipant
<1>5. CASE GetDialogs(h)
  BY <1>5, BeginAnswers DEF GetDialogs
<1>. QED  BY <1>1, <1>2, <1>3, <1>4, <1>5 DEF Request

LEMMA CheckMemberAnswers ==
  ASSUME DialogsInv, AnswersInv, NEW h \in Handlers, CheckMember(h)
  PROVE  AnswersInv'
<1>1. UNCHANGED <<dialogs, raced>> /\ handlers[h].pc = "check"
  BY DEF CheckMember
<1>2. CASE Return(h)
  BY <1>1, <1>2, ReturnAnswers
<1>3. CASE Goto(h, "change")
  <2>1. PICK r : r = [handlers[h] EXCEPT !.pc = "change"]
    OBVIOUS
  <2>2. r.pc = "change" /\ r.asked = {}
    BY <1>1, <2>1, RequestFacts DEF AnswersInv, WorkInv, Shows, Handler
  <2>3. WorkInv(r)
    BY <2>2 DEF WorkInv, Shows, Fills
  <2>4. handlers' = [handlers EXCEPT ![h] = r]
    BY <1>3, <2>1 DEF Goto, DialogsInv, TypeOK
  <2>. QED  BY <1>1, <2>2, <2>3, <2>4, LocalAnswers
<1>. QED  BY <1>2, <1>3 DEF CheckMember

LEMMA ListDialogsAnswers ==
  ASSUME DialogsInv, AnswersInv, NEW h \in Handlers, ListDialogs(h)
  PROVE  AnswersInv'
<1>1. UNCHANGED <<dialogs, raced>> /\ handlers[h].pc = "list"
  BY DEF ListDialogs
<1>2. CASE Return(h)
  BY <1>1, <1>2, ReturnAnswers
<1>3. ASSUME NEW mine, handlers' = [handlers EXCEPT ![h].pc = "info",
                                                    ![h].due = mine]
      PROVE  AnswersInv'
  <2>1. PICK r : r = [handlers[h] EXCEPT !.pc = "info", !.due = mine]
    OBVIOUS
  <2>2. r.pc = "info" /\ r.asked = {} /\ r.op # "remove"
    BY <1>1, <2>1, RequestFacts DEF AnswersInv, WorkInv, Shows, Handler
  <2>3. WorkInv(r)
    BY <2>2 DEF WorkInv, Shows, Fills
  <2>4. handlers' = [handlers EXCEPT ![h] = r]
    BY <1>3, <2>1 DEF DialogsInv, TypeOK
  <2>. QED  BY <1>1, <2>2, <2>3, <2>4, LocalAnswers
<1>. QED  BY <1>2, <1>3 DEF ListDialogs

LEMMA BuildDialogInfoAnswers ==
  ASSUME DialogsInv, AnswersInv, NEW h \in Handlers, BuildDialogInfo(h)
  PROVE  AnswersInv'
<1>1. UNCHANGED <<dialogs, raced>> /\ handlers[h].pc = "info"
  BY DEF BuildDialogInfo
<1>2. CASE Return(h)
  BY <1>1, <1>2, ReturnAnswers
<1>3. ASSUME NEW d, handlers' = [handlers EXCEPT ![h].due = @ \ {d}]
      PROVE  AnswersInv'
  <2>1. PICK r : r = [handlers[h] EXCEPT !.due = @ \ {d}]
    OBVIOUS
  <2>2. /\ r.pc = "info" /\ r.asked = handlers[h].asked
        /\ r.op = handlers[h].op /\ r.other = handlers[h].other
        /\ r.dialog = handlers[h].dialog /\ r.undone = handlers[h].undone
    BY <1>1, <2>1, RequestFacts DEF Handler
  <2>3. WorkInv(r)
    BY <1>1, <2>2 DEF AnswersInv, WorkInv, Shows, Fills
  <2>4. handlers' = [handlers EXCEPT ![h] = r]
    BY <1>3, <2>1 DEF DialogsInv, TypeOK
  <2>. QED  BY <1>1, <2>2, <2>3, <2>4, LocalAnswers
<1>. QED  BY <1>2, <1>3 DEF BuildDialogInfo

LEMMA InsertOrIgnoreAnswers ==
  ASSUME DialogsInv, AnswersInv, NEW h \in Handlers, InsertOrIgnore(h)
  PROVE  AnswersInv'
<1>1. /\ handlers[h] \in Handler /\ RequestInv(handlers[h])
      /\ handlers[h].pc = "change" /\ handlers[h].op = "add"
      /\ UNCHANGED raced
  BY RequestFacts DEF InsertOrIgnore
<1>2. CASE Return(h) /\ UNCHANGED dialogs
  BY <1>1, <1>2, ReturnAnswers
<1>3. ASSUME NEW m, NEW hs,
             m = Members(handlers[h].dialog) \cup {handlers[h].other},
             hs = [handlers EXCEPT ![h].pc = "info",
                                   ![h].asked = {handlers[h].other}],
             SetMembers(handlers[h].dialog, m, TRUE, hs)
      PROVE  AnswersInv'
  <2>1. PICK d \in Ids : d = handlers[h].dialog
    BY <1>1 DEF RequestInv
  <2>2. PICK r : r = [handlers[h] EXCEPT !.pc = "info",
                                         !.asked = {handlers[h].other}]
    OBVIOUS
  <2>3. /\ r.pc = "info" /\ r.asked = {handlers[h].other} /\ r.dialog = d
        /\ r.op = "add"
    BY <1>1, <2>1, <2>2 DEF Handler
  <2>4. hs = [handlers EXCEPT ![h] = r] /\ r # handlers[h]
    BY <1>1, <1>3, <2>2, <2>3 DEF DialogsInv, TypeOK
  <2>5. SetMembers(d, m, TRUE, hs)
    BY <1>3, <2>1 DEF SetMembers
  <2>6. Writes(h, r, d, m, TRUE)
    BY <2>4, <2>5, WritesIt
  <2>7. Members(d)' = m
    BY <2>6 DEF Members, Writes
  <2>8. WorkInv(r)'
    BY <1>3, <2>3, <2>7 DEF WorkInv, Shows, Fills
  <2>9. Proper(h, r, d, m, TRUE)
    BY <2>3 DEF Proper
  <2>. QED  BY <1>1, <2>6, <2>8, <2>9, WritesInv
<1>4. CASE SetMembers(handlers[h].dialog,
                      Members(handlers[h].dialog) \cup {handlers[h].other},
                      TRUE,
                      [handlers EXCEPT ![h].pc = "info",
                                       ![h].asked = {handlers[h].other}])
  <2>1. PICK m, hs : /\ m = Members(handlers[h].dialog) \cup {handlers[h].other}
                     /\ hs = [handlers EXCEPT ![h].pc = "info",
                                              ![h].asked = {handlers[h].other}]
    OBVIOUS
  <2>2. SetMembers(handlers[h].dialog, m, TRUE, hs)
    BY <1>4, <2>1 DEF SetMembers
  <2>. QED  BY <1>3, <2>1, <2>2
<1>. QED  BY <1>2, <1>4 DEF InsertOrIgnore

LEMMA DeleteParticipantAnswers ==
  ASSUME DialogsInv, AnswersInv, NEW h \in Handlers, DeleteParticipant(h)
  PROVE  AnswersInv'
<1>1. /\ handlers[h] \in Handler /\ RequestInv(handlers[h])
      /\ handlers[h].pc = "change" /\ handlers[h].op = "remove"
      /\ handlers[h].asked = {} /\ UNCHANGED raced
  BY RequestFacts DEF DeleteParticipant, AnswersInv, WorkInv, Shows
<1>2. PICK d \in Ids : d = handlers[h].dialog
  BY <1>1 DEF RequestInv
<1>3. PICK m, hs : /\ m = Members(handlers[h].dialog) \ {handlers[h].other}
                   /\ hs = [handlers EXCEPT ![h].pc = "info"]
  OBVIOUS
<1>4. PICK r : r = [handlers[h] EXCEPT !.pc = "info"]
  OBVIOUS
<1>5. /\ r.pc = "info" /\ r.asked = {} /\ r.dialog = d
      /\ r.other = handlers[h].other
  BY <1>1, <1>2, <1>4 DEF Handler
<1>6. hs = [handlers EXCEPT ![h] = r] /\ r # handlers[h]
  BY <1>1, <1>3, <1>4, <1>5 DEF DialogsInv, TypeOK
<1>7. SetMembers(d, m, FALSE, hs)
  <2>1. SetMembers(handlers[h].dialog,
                   Members(handlers[h].dialog) \ {handlers[h].other}, FALSE,
                   [handlers EXCEPT ![h].pc = "info"])
    BY DEF DeleteParticipant
  <2>. QED  BY <1>2, <1>3, <2>1 DEF SetMembers
<1>8. Writes(h, r, d, m, FALSE)
  BY <1>6, <1>7, WritesIt
<1>9. Members(d)' = m
  BY <1>8 DEF Members, Writes
<1>10. WorkInv(r)'
  BY <1>2, <1>3, <1>5, <1>9 DEF WorkInv, Shows, Fills
<1>11. Proper(h, r, d, m, FALSE)
  BY <1>1, <1>2, <1>3, <1>5 DEF Proper, Left
<1>. QED  BY <1>1, <1>8, <1>10, <1>11, WritesInv

LEMMA InsertParticipantAnswers ==
  ASSUME DialogsInv, AnswersInv, NEW h \in Handlers, InsertParticipant(h)
  PROVE  AnswersInv'
<1>1. /\ handlers[h] \in Handler /\ RequestInv(handlers[h])
      /\ handlers[h].pc = "fill" /\ WorkInv(handlers[h]) /\ UNCHANGED raced
  BY RequestFacts DEF InsertParticipant, AnswersInv
<1>2. PICK d \in Ids : d = handlers[h].dialog
  BY <1>1 DEF RequestInv
<1>3. PICK list \in Seq(People) : list = handlers[h].todo /\ list # <<>>
  BY <1>1 DEF RequestInv, Handler
<1>4. PICK w, m : w = Head(list) /\ m = Members(d) \cup {w}
  OBVIOUS
<1>5. CASE Return(h) /\ UNCHANGED dialogs
  BY <1>1, <1>5, ReturnAnswers
<1>6. CASE SetMembers(handlers[h].dialog,
                      Members(handlers[h].dialog) \cup {Head(handlers[h].todo)},
                      FALSE, [handlers EXCEPT ![h] = AfterInsert(handlers[h])])
  <2>1. PICK r : r = AfterInsert(handlers[h])
    OBVIOUS
  <2>2. /\ r.todo = Tail(list) /\ r.dialog = d /\ r.op = handlers[h].op
        /\ r.user = handlers[h].user /\ r.other = handlers[h].other
        /\ r.asked = handlers[h].asked /\ r.undone = handlers[h].undone
        /\ r.pc = IF Len(list) = 1 THEN "info" ELSE "fill"
    BY <1>1, <1>2, <1>3, <2>1 DEF AfterInsert, Handler
  <2>3. r # handlers[h]
    <3>1. Len(list) \in Nat \ {0} /\ Len(Tail(list)) = Len(list) - 1
      BY <1>3
    <3>2. PICK n \in Nat \ {0} : n = Len(list)
      BY <3>1
    <3>3. n - 1 # n
      OBVIOUS
    <3>4. Len(Tail(list)) # Len(list)
      BY <3>1, <3>2, <3>3, Zenon
    <3>. QED  BY <1>3, <2>2, <3>4
  <2>4. PICK hs : hs = [handlers EXCEPT ![h] = r]
    OBVIOUS
  <2>5. SetMembers(d, m, FALSE, hs)
    BY <1>2, <1>3, <1>4, <1>6, <2>1, <2>4 DEF SetMembers
  <2>6. Writes(h, r, d, m, FALSE)
    BY <2>3, <2>4, <2>5, WritesIt
  <2>7. /\ Members(d)' = m /\ dialogs'[d].kind = dialogs[d].kind
        /\ dialogs'[d].mixed = dialogs[d].mixed
        /\ dialogs'[d].joined = dialogs[d].joined \cup m
    <3>1. dialogs[d] \in Dialog
      BY DEF DialogsInv, TypeOK, Ids
    <3>2. dialogs[d].mixed \in BOOLEAN
      BY <3>1 DEF Dialog
    <3>. QED  BY <2>6, <3>2 DEF Members, Writes
  <2>8. /\ w \in Items(list) /\ Items(Tail(list)) \subseteq Items(list)
        /\ Items(list) \subseteq {w} \cup Items(Tail(list))
        /\ Len(list) = 1 => Items(Tail(list)) = {}
    BY <1>3, <1>4, ItemsTail
  <2>9. handlers[h].op # "remove"
    <3>1. dialogs[d] \in Dialog /\ dialogs[d].kind = handlers[h].op
      BY <1>1, <1>2 DEF DialogsInv, TypeOK, Ids, WorkInv, Fills
    <3>. QED  BY <3>1 DEF Dialog
  <2>10. Shows(r)'
    <3>1. ~handlers[h].undone =>
              handlers[h].asked \subseteq Members(d) \cup Items(list)
      BY <1>1, <1>2, <1>3 DEF WorkInv, Shows
    <3>2. ~r.undone => r.asked \subseteq m \cup Items(r.todo)
      BY <1>4, <2>2, <2>8, <3>1
    <3>3. r.pc = "info" => Items(r.todo) = {}
      BY <2>2, <2>8
    <3>. QED  BY <2>2, <2>7, <2>9, <3>2, <3>3 DEF Shows
  <2>11. Fills(r)'
    <3>1. handlers[h].op = "private" =>
              /\ Items(list) \subseteq {handlers[h].user, handlers[h].other}
              /\ \/ dialogs[d].mixed
                 \/ dialogs[d].joined \subseteq
                        {handlers[h].user, handlers[h].other}
      BY <1>1, <1>2, <1>3 DEF WorkInv, Fills
    <3>2. m \subseteq dialogs[d].joined \cup Items(list)
      BY <1>4, <2>8 DEF Members, DialogsInv, DialogInv
    <3>3. dialogs[d].kind = handlers[h].op
      BY <1>1, <1>2 DEF WorkInv, Fills
    <3>. QED  BY <2>2, <2>7, <2>8, <3>1, <3>2, <3>3 DEF Fills
  <2>12. Proper(h, r, d, m, FALSE)
    <3>1. Left(handlers[h]) = Items(list) /\ Left(r) \subseteq Items(Tail(list))
      BY <1>1, <1>3, <2>2 DEF Left
    <3>. QED  BY <1>1, <1>2, <1>4, <2>2, <2>8, <3>1 DEF Proper, Filling
  <2>13. WorkInv(r)'
    BY <2>10, <2>11 DEF WorkInv
  <2>. QED  BY <1>1, <2>6, <2>12, <2>13, WritesInv
<1>. QED  BY <1>5, <1>6 DEF InsertParticipant

LEMMA FoundAnswers ==
  ASSUME DialogsInv, AnswersInv, NEW h \in Handlers, FindPrivate(h),
         handlers'[h].pc = "info"
  PROVE  AnswersInv'
<1>1. /\ handlers[h] \in Handler /\ handlers[h].pc = "find"
      /\ handlers[h].op \in {"private", "group"}
      /\ handlers \in [Handlers -> Handler]
  BY RequestFacts DEF FindPrivate, RequestInv, DialogsInv, TypeOK
<1>2. PICK d \in PrivateDialogsOf(handlers[h].user, handlers[h].other) :
          /\ handlers' = [handlers EXCEPT
                 ![h].pc = "info", ![h].dialog = d,
                 ![h].asked = {handlers[h].user, handlers[h].other}]
          /\ UNCHANGED <<dialogs, raced>>
  <2>1. handlers' # [handlers EXCEPT ![h].pc = "new",
                                     ![h].todo = <<handlers[h].other>>]
    BY <1>1 DEF Handler
  <2>. QED  BY <2>1 DEF FindPrivate
<1>3. PICK r : r = [handlers[h] EXCEPT
                       !.pc = "info", !.dialog = d,
                       !.asked = {handlers[h].user, handlers[h].other}]
  OBVIOUS
<1>4. /\ r.pc = "info" /\ r.dialog = d /\ r.op = handlers[h].op
      /\ r.asked = {handlers[h].user, handlers[h].other}
  BY <1>1, <1>3 DEF Handler
<1>5. r.asked \subseteq Members(d)
  BY <1>4 DEF PrivateDialogsOf, Members
<1>6. WorkInv(r)
  BY <1>1, <1>4, <1>5 DEF WorkInv, Shows, Fills
<1>7. handlers' = [handlers EXCEPT ![h] = r]
  BY <1>1, <1>2, <1>3
<1>. QED  BY <1>2, <1>4, <1>6, <1>7, LocalAnswers

(* What a pair's search leaves behind when it finds nothing: whoever holds *)
(* the pair, or is about to, has been looking for it at the same time.     *)
LEMMA LookedAlone ==
  ASSUME DialogsInv, AnswersInv, NEW h \in Handlers, handlers[h].pc = "find",
         PrivateDialogsOf(handlers[h].user, handlers[h].other) = {},
         NEW d \in Ids, Private(d), Who(h) \in Pairs, Holds(d, Who(h))
  PROVE  Overlapped(h)
<1>1. ~(Who(h) \subseteq Members(d))
  BY DEF PrivateDialogsOf, Members, Private, Who
<1>2. PICK k \in Handlers :
          /\ Filling(k, d)
          /\ Who(h) \subseteq Members(d) \cup Items(handlers[k].todo)
  BY <1>1 DEF Holds
<1>3. /\ handlers[k].op = "private" /\ Items(handlers[k].todo) \subseteq Who(k)
      /\ dialogs[d].joined \subseteq Who(k)
  <2>1. Fills(handlers[k])
    BY DEF AnswersInv, WorkInv
  <2>. QED  BY <1>2, <2>1 DEF Fills, Filling, Private, Who
<1>4. Members(d) \subseteq dialogs[d].joined
  BY DEF Members, DialogsInv, DialogInv
<1>5. Who(h) \subseteq Who(k)
  BY <1>2, <1>3, <1>4
<1>6. Who(h) = Who(k)
  BY <1>5, PairIs DEF Who
<1>7. k # h
  BY <1>2 DEF Filling
<1>. QED  BY <1>2, <1>3, <1>6, <1>7 DEF Overlapped, Filling, Who

LEMMA NotFoundAnswers ==
  ASSUME DialogsInv, AnswersInv, NEW h \in Handlers, FindPrivate(h),
         handlers'[h].pc # "info"
  PROVE  AnswersInv'
<1>1. /\ handlers[h] \in Handler /\ handlers[h].pc = "find"
      /\ handlers \in [Handlers -> Handler] /\ UNCHANGED dialogs
  BY RequestFacts DEF FindPrivate, DialogsInv, TypeOK
<1>2. /\ PrivateDialogsOf(handlers[h].user, handlers[h].other) = {}
      /\ handlers' = [handlers EXCEPT ![h].pc = "new",
                                      ![h].todo = <<handlers[h].other>>]
      /\ raced' = raced \cup
             (IF Overlapped(h) THEN {{handlers[h].user, handlers[h].other}}
              ELSE {})
  <2>1. ASSUME NEW d, handlers' = [handlers EXCEPT
                          ![h].pc = "info", ![h].dialog = d,
                          ![h].asked = {handlers[h].user, handlers[h].other}]
        PROVE  FALSE
    BY <1>1, <2>1 DEF Handler
  <2>. QED  BY <2>1 DEF FindPrivate
<1>3. /\ handlers'[h].pc = "new" /\ handlers'[h].op = handlers[h].op
      /\ handlers'[h].user = handlers[h].user
      /\ handlers'[h].other = handlers[h].other
      /\ handlers'[h].todo = <<handlers[h].other>>
      /\ \A k \in Handlers : k # h => handlers'[k] = handlers[k]
  BY <1>1, <1>2 DEF Handler
<1>4. /\ Ids' = Ids /\ \A d : Members(d)' = Members(d)
      /\ \A d : Private(d)' = Private(d) /\ raced \subseteq raced'
  BY <1>1, <1>2 DEF Ids, Members, Private
<1>5. ASSUME NEW k \in Handlers
      PROVE  WorkInv(handlers[k])'
  <2>1. CASE k = h
    BY <1>3, <2>1 DEF WorkInv, Shows, Fills
  <2>2. CASE k # h
    BY <1>1, <1>3, <1>4, <2>2 DEF AnswersInv, WorkInv, Shows, Fills
  <2>. QED  BY <2>1, <2>2
<1>6. ASSUME NEW k \in Handlers, NEW d, Filling(k, d)'
      PROVE  Filling(k, d) /\ handlers'[k] = handlers[k]
  BY <1>3, <1>6 DEF Filling
<1>7. FillersApart'
  BY <1>4, <1>6 DEF AnswersInv, FillersApart
<1>8. ASSUME NEW d, NEW p, Holds(d, p)'
      PROVE  Holds(d, p)
  BY <1>4, <1>6, <1>8 DEF Holds
<1>9. \A k \in Handlers : Who(k)' = Who(k)
  BY <1>3 DEF Who
<1>10. \A k \in Handlers : k # h /\ Looked(k)' => Looked(k)
  BY <1>3 DEF Looked
<1>11. Overlapped(h) => Who(h) \in raced'
  BY <1>2 DEF Who
<1>12. ASSUME NEW d \in Ids', NEW e \in Ids', NEW p \in Pairs,
              d # e, Private(d)', Private(e)', Holds(d, p)', Holds(e, p)'
       PROVE  p \in raced'
  BY <1>4, <1>8, <1>12 DEF AnswersInv, RacedInv
<1>13. ASSUME NEW d \in Ids', NEW k \in Handlers, NEW p \in Pairs, p = Who(k),
              Looked(k)', Private(d)', Holds(d, p)'
       PROVE  p \in raced'
  <2>1. d \in Ids /\ Private(d) /\ Holds(d, p)
    BY <1>4, <1>8, <1>13
  <2>2. CASE k = h
    <3>1. Holds(d, Who(h)) /\ Who(h) \in Pairs
      BY <1>13, <2>1, <2>2
    <3>2. Overlapped(h)
      BY <1>1, <1>2, <2>1, <3>1, LookedAlone
    <3>. QED  BY <1>11, <1>13, <2>2, <3>2
  <2>3. CASE k # h
    <3>1. Looked(k) /\ Holds(d, Who(k)) /\ Who(k) \in Pairs
      BY <1>10, <1>13, <2>1, <2>3
    <3>2. Who(k) \in raced
      BY <2>1, <3>1 DEF AnswersInv, RacedInv
    <3>. QED  BY <1>4, <1>13, <3>2
  <2>. QED  BY <2>2, <2>3
<1>14. ASSUME NEW k \in Handlers, NEW g \in Handlers, k # g,
              Looked(k)', Looked(g)', Who(k) = Who(g)
       PROVE  Who(k) \in raced'
  <2>1. ASSUME NEW q \in Handlers, q # h, Looked(q), Who(q) = Who(h)
        PROVE  Overlapped(h)
    BY <2>1 DEF Overlapped, Looked, Who
  <2>2. CASE k = h
    BY <1>10, <1>11, <1>14, <2>1, <2>2
  <2>3. CASE g = h
    BY <1>10, <1>11, <1>14, <2>1, <2>3
  <2>4. CASE k # h /\ g # h
    BY <1>4, <1>10, <1>14, <2>4 DEF AnswersInv, RacedInv
  <2>. QED  BY <2>2, <2>3, <2>4
<1>15. RacedInv'
  BY <1>9, <1>12, <1>13, <1>14, RacedShown
<1>. QED  BY <1>5, <1>7, <1>15 DEF AnswersInv

LEMMA NewDialogAnswers ==
  ASSUME DialogsInv, AnswersInv, NEW h \in Handlers, NewDialog(h)
  PROVE  AnswersInv'
<1>1. /\ handlers[h] \in Handler /\ handlers[h].pc = "new"
      /\ handlers[h].op \in {"private", "group"}
      /\ handlers[h].todo \in Seq(People) /\ handlers[h].user \in Users
      /\ handlers \in [Handlers -> Handler] /\ UNCHANGED raced
  BY RequestFacts DEF NewDialog, RequestInv, DialogsInv, TypeOK, Handler
<1>2. PICK n \in Nat : n = Len(dialogs) + 1
  BY DEF DialogsInv, TypeOK
<1>3. PICK new :
          /\ new = [kind |-> handlers[h].op, members |-> {}, joined |-> {},
                    creator |-> handlers[h].user, mixed |-> FALSE]
          /\ dialogs' = Append(dialogs, new)
  BY DEF NewDialog
<1>4. /\ Ids' = Ids \cup {n} /\ n \notin Ids
      /\ \A d \in Ids : dialogs'[d] = dialogs[d]
      /\ dialogs'[n].kind = handlers[h].op /\ dialogs'[n].members = {}
      /\ dialogs'[n].joined = {} /\ dialogs'[n].mixed = FALSE
  <2>1. /\ Ids' = Ids \cup {n} /\ n \notin Ids /\ dialogs'[n] = new
        /\ \A d \in Ids : dialogs'[d] = dialogs[d]
    BY <1>2, <1>3, AppendProperties DEF Ids, DialogsInv, TypeOK
  <2>2. /\ new.kind = handlers[h].op /\ new.members = {}
        /\ new.joined = {} /\ new.mixed = FALSE
    BY <1>3
  <2>. QED  BY <2>1, <2>2
<1>5. PICK all : all = AllParticipants(handlers[h])
  OBVIOUS
<1>6. PICK r : r = [handlers[h] EXCEPT !.pc = "fill", !.dialog = n,
                                       !.todo = all, !.asked = Items(all)]
  OBVIOUS
<1>7. /\ handlers'[h] = r
      /\ \A k \in Handlers : k # h => handlers'[k] = handlers[k]
  <2>1. handlers' = [handlers EXCEPT ![h] = r]
    BY <1>1, <1>2, <1>5, <1>6 DEF NewDialog, Items
  <2>. QED  BY <1>1, <2>1
<1>8. /\ r.pc = "fill" /\ r.dialog = n /\ r.todo = all /\ r.asked = Items(all)
      /\ r.op = handlers[h].op
      /\ r.user = handlers[h].user /\ r.other = handlers[h].other
  BY <1>1, <1>6 DEF Handler
<1>9. handlers[h].op = "private" => Items(all) \subseteq Who(h)
  <2>1. ASSUME NEW a, NEW b
        PROVE  Items(<<a>> \o <<b>>) \subseteq {a, b}
    <3>1. <<a>> \in Seq({a, b}) /\ <<b>> \in Seq({a, b})
      OBVIOUS
    <3>2. /\ <<a>> \o <<b>> \in Seq({a, b}) /\ Len(<<a>> \o <<b>>) = 2
          /\ \A i \in 1..2 : (<<a>> \o <<b>>)[i] \in {a, b}
      BY <3>1, ConcatProperties
    <3>. QED  BY <3>2 DEF Items
  <2>2. handlers[h].op = "private" => handlers[h].todo = <<handlers[h].other>>
    BY <1>1 DEF AnswersInv, WorkInv, Fills
  <2>. QED  BY <1>5, <2>1, <2>2 DEF AllParticipants, Who
<1>10. \A d : Members(d)' = Members(d)
  BY <1>4 DEF Members
<1>11. \A d \in Ids : Private(d)' = Private(d)
  BY <1>4 DEF Private
<1>12. ASSUME NEW k \in Handlers
       PROVE  WorkInv(handlers[k])'
  <2>1. CASE k = h
    BY <1>4, <1>7, <1>8, <1>9, <2>1 DEF WorkInv, Shows, Fills, Who
  <2>2. CASE k # h
    <3>1. WorkInv(handlers[k]) /\ RequestInv(handlers[k])
      BY RequestFacts DEF AnswersInv
    <3>2. handlers[k].pc = "fill" =>
              dialogs'[handlers[k].dialog] = dialogs[handlers[k].dialog]
      BY <1>4, <3>1 DEF RequestInv
    <3>. QED  BY <1>7, <1>10, <2>2, <3>1, <3>2 DEF WorkInv, Shows, Fills
  <2>. QED  BY <2>1, <2>2
<1>13. ASSUME NEW k \in Handlers, NEW d, Filling(k, d)'
       PROVE  \/ k = h /\ d = n
              \/ /\ k # h /\ d \in Ids /\ Filling(k, d)
                 /\ handlers'[k] = handlers[k]
  BY <1>7, <1>8, <1>13, RequestFacts DEF Filling, RequestInv
<1>14. FillersApart'
  BY <1>4, <1>13 DEF AnswersInv, FillersApart
<1>15. ASSUME NEW d \in Ids, NEW p, Holds(d, p)'
       PROVE  Holds(d, p)
  BY <1>4, <1>10, <1>13, <1>15 DEF Holds
<1>16. ASSUME NEW p \in Pairs, Private(n)', Holds(n, p)'
       PROVE  Looked(h) /\ p = Who(h)
  <2>1. handlers[h].op = "private"
    BY <1>4, <1>16 DEF Private
  <2>2. Members(n)' = {}
    BY <1>4 DEF Members
  <2>3. p \subseteq Items(all)
    BY <1>4, <1>7, <1>8, <1>13, <1>16, <2>2 DEF Holds
  <2>4. p \subseteq Who(h)
    BY <1>9, <2>1, <2>3
  <2>5. p = Who(h)
    BY <2>4, PairIs DEF Who
  <2>. QED  BY <1>1, <2>1, <2>5 DEF Looked
<1>17. ASSUME NEW k \in Handlers, Looked(k)'
       PROVE  k # h /\ Looked(k) /\ Who(k)' = Who(k)
  BY <1>7, <1>8, <1>17 DEF Looked, Who
<1>18. ASSUME NEW d \in Ids', NEW e \in Ids', NEW p \in Pairs,
              d # e, Private(d)', Private(e)', Holds(d, p)', Holds(e, p)'
       PROVE  p \in raced'
  <2>1. CASE d \in Ids /\ e \in Ids
    BY <1>1, <1>11, <1>15, <1>18, <2>1 DEF AnswersInv, RacedInv
  <2>2. ASSUME NEW f \in Ids, Private(f)', Holds(f, p)',
               Private(n)', Holds(n, p)'
        PROVE  p \in raced'
    <3>1. Looked(h) /\ p = Who(h)
      BY <1>16, <2>2
    <3>2. Private(f) /\ Holds(f, Who(h)) /\ Who(h) \in Pairs
      BY <1>11, <1>15, <2>2, <3>1
    <3>. QED  BY <1>1, <3>1, <3>2 DEF AnswersInv, RacedInv
  <2>. QED  BY <1>4, <1>18, <2>1, <2>2
<1>19. ASSUME NEW d \in Ids', NEW k \in Handlers, NEW p \in Pairs,
              p = Who(k)', Looked(k)', Private(d)', Holds(d, p)'
       PROVE  p \in raced'
  <2>1. k # h /\ Looked(k) /\ p = Who(k)
    BY <1>17, <1>19
  <2>2. CASE d \in Ids
    <3>1. Private(d) /\ Holds(d, Who(k)) /\ Who(k) \in Pairs
      BY <1>11, <1>15, <1>19, <2>1, <2>2
    <3>. QED  BY <1>1, <2>1, <2>2, <3>1 DEF AnswersInv, RacedInv
  <2>3. CASE d = n
    <3>1. Looked(h) /\ p = Who(h)
      BY <1>16, <1>19, <2>3
    <3>. QED  BY <1>1, <2>1, <3>1 DEF AnswersInv, RacedInv
  <2>. QED  BY <1>4, <2>2, <2>3
<1>20. \A g, k \in Handlers :
           g # k /\ Looked(g)' /\ Looked(k)' /\ Who(g)' = Who(k)'
               => Who(g)' \in raced'
  BY <1>1, <1>17 DEF AnswersInv, RacedInv
<1>21. RacedInv'
  BY <1>18, <1>19, <1>20, RacedShown
<1>. QED  BY <1>12, <1>14, <1>21 DEF AnswersInv

LEMMA AnswersNext ==
  ASSUME DialogsInv, AnswersInv, [Next]_vars
  PROVE  AnswersInv'
<1>1. ASSUME UNCHANGED <<dialogs, handlers, raced>>
      PROVE  AnswersInv'
  <2>1. /\ Ids' = Ids /\ \A d : Members(d)' = Members(d)
        /\ \A d : Private(d)' = Private(d)
    BY <1>1 DEF Ids, Members, Private
  <2>2. \A k \in Handlers : WorkInv(handlers[k])'
    BY <1>1, <2>1 DEF AnswersInv, WorkInv, Shows, Fills
  <2>3. FillersApart'
    BY <1>1, <2>1 DEF AnswersInv, FillersApart, Filling
  <2>4. \A d : \A p : Holds(d, p)' => Holds(d, p)
    BY <1>1, <2>1 DEF Holds, Filling
  <2>5. \A k \in Handlers : Looked(k)' => Looked(k) /\ Who(k)' = Who(k)
    BY <1>1 DEF Looked, Who
  <2>6. RacedInv'
    BY <1>1, <2>1, <2>4, <2>5, RacedStays DEF AnswersInv
  <2>. QED  BY <2>2, <2>3, <2>6 DEF AnswersInv
<1>2. ASSUME NEW h \in Handlers, Fail(h)
      PROVE  AnswersInv'
  BY <1>2, ReturnAnswers DEF Fail
<1>3. ASSUME NEW h \in Handlers, HandlerStep(h)
      PROVE  AnswersInv'
  BY <1>3, FoundAnswers, NotFoundAnswers, NewDialogAnswers,
     InsertParticipantAnswers, CheckMemberAnswers, InsertOrIgnoreAnswers,
     DeleteParticipantAnswers, ListDialogsAnswers, BuildDialogInfoAnswers
     DEF HandlerStep
<1>4. ASSUME SendMessage \/ SendMessageAck \/ FirstPage \/ NextPage
      PROVE  UNCHANGED <<dialogs, handlers, raced>>
  BY <1>4 DEF SendMessage, SendMessageAck, FirstPage, NextPage, GetHistory
<1>5. UNCHANGED vars => UNCHANGED <<dialogs, handlers, raced>>
  BY DEF vars
<1>. QED  BY <1>1, <1>2, <1>3, <1>4, <1>5, RequestAnswers DEF Next

LEMMA AnswersInit ==
  ASSUME Init
  PROVE  AnswersInv
<1>1. handlers = [k \in Handlers |-> Idle] /\ Len(dialogs) \in {0, 1}
  BY DEF Init, Started
<1>2. \A k \in Handlers : handlers[k].pc = "idle"
  BY <1>1 DEF Idle
<1>3. \A k \in Handlers : WorkInv(handlers[k])
  BY <1>2 DEF WorkInv, Shows, Fills
<1>4. FillersApart
  BY <1>2 DEF FillersApart, Filling
<1>5. Ids = {} \/ Ids = {1}
  BY DEF Ids, Init, Started
<1>6. RacedInv
  BY <1>2, <1>5 DEF RacedInv, Looked
<1>. QED  BY <1>3, <1>4, <1>6 DEF AnswersInv

LEMMA AnswersAlways == Spec => []AnswersInv
<1>1. Init => AnswersInv
  BY AnswersInit
<1>2. DialogsInv /\ AnswersInv /\ [Next]_vars => AnswersInv'
  BY AnswersNext
<1>. QED  BY <1>1, <1>2, Invariant, PTL DEF Spec
-----------------------------------------------------------------------------
(* Theorems *)

(* The dialog a request is about to answer with holds everyone it was      *)
(* asked for and not who was removed, unless another request has changed   *)
(* the participants since: what the request's own statements have written  *)
(* stands when build_dialog_info reads it (handlers.rs:484-565).           *)
THEOREM AnswersShow == Spec => []ChangeShows
<1>1. AnswersInv => ChangeShows
  BY DEF AnswersInv, WorkInv, Shows, ChangeShows
<1>. QED  BY <1>1, AnswersAlways, PTL

(* Two users share two private dialogs only if two requests looked for     *)
(* theirs at the same time, or somebody was added to one of them: between  *)
(* the SELECT and the last INSERT of create_private_dialog (db.rs:436-458) *)
(* only another request for the pair makes one.                            *)
THEOREM OnePerPair == Spec => []OnePrivateDialog
<1>1. DialogsInv /\ AnswersInv => OnePrivateDialog
  <2>1. SUFFICES ASSUME DialogsInv, AnswersInv, NEW d \in Ids, NEW e \in Ids,
                        NEW p \in Pairs, d < e, Private(d), Private(e),
                        p \subseteq Members(d) \cap Members(e)
                 PROVE  p \in raced
    BY DEF OnePrivateDialog, Private
  <2>2. Holds(d, p) /\ Holds(e, p)
    BY <2>1 DEF Holds
  <2>3. d # e
    BY <2>1 DEF DialogsInv, TypeOK, Ids
  <2>. QED  BY <2>1, <2>2, <2>3 DEF AnswersInv, RacedInv
<1>. QED  BY <1>1, AnswersAlways, Invariant, PTL
=============================================================================
