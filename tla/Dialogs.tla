------------------------------- MODULE Dialogs -------------------------------
(***************************************************************************)
(* Dialogs, their participants and their messages as the request handlers  *)
(* of handlers.rs work on them through db.rs.                              *)
(*                                                                         *)
(* Every connection is served by a thread of its own and no request opens  *)
(* a transaction, so each SQL statement is one step, and between two       *)
(* statements of one request any other request may run, or the request may *)
(* end because a statement fails or the process does.                      *)
(*                                                                         *)
(* A dialog is its row with its dialog_participants; the row ids are the   *)
(* positions in the sequence.  Timestamps are seconds of a clock that may  *)
(* be set back.                                                            *)
(***************************************************************************)
EXTENDS Integers, Sequences, FiniteSets

CONSTANTS
    Users,        \* ids with a row in users
    Strangers,    \* ids without one: the foreign key refuses them
    Nobody,       \* no user, where a request has none
    Handlers,     \* bound: requests under way at once
    MaxRequests,  \* bound: requests
    Seconds,      \* bound: readings of the clock
    PageSize      \* what a reader of the history passes as limit

ASSUME DialogsUsersAssumption ==
    Users \cap Strangers = {} /\ Nobody \notin Users \cup Strangers
ASSUME DialogsBoundsAssumption ==
    /\ MaxRequests \in Nat
    /\ Seconds \subseteq Nat
    /\ PageSize \in Nat \ {0}

VARIABLES
    dialogs,    \* dialogs and dialog_participants
    messages,   \* messages
    handlers,   \* the requests under way
    requests,   \* how many requests have been made
    raced,      \* history: pairs two requests looked for at the same time
    reader      \* history: a client reading a dialog's history page by page

vars == <<dialogs, messages, handlers, requests, raced, reader>>

People == Users \cup Strangers
Pairs == {p \in SUBSET Users : Cardinality(p) = 2}
Invitees ==
    {<<>>} \cup {<<a>> : a \in Users} \cup (Users \X Strangers)

(* joined, creator and mixed are history: who has ever been a participant, *)
(* whose request made the dialog, and whether somebody was added to it.    *)
Dialog == [kind : {"private", "group"}, members : SUBSET Users,
           joined : SUBSET Users, creator : Users, mixed : BOOLEAN]
Message == [dialog : Nat, at : Seconds, delivered : BOOLEAN]
(* undone is history: another request has changed this dialog's            *)
(* participants since this one had it in hand.                             *)
Handler == [pc : {"idle", "find", "new", "fill", "check", "change", "list",
                  "info"},
            op : {"", "private", "group", "add", "remove", "dialogs"},
            user : Users \cup {Nobody}, other : People \cup {Nobody},
            dialog : Nat,
            todo : Seq(People), due : SUBSET Nat, asked : SUBSET People,
            undone : BOOLEAN]
Reader == [dialog : Nat, offset : Nat, due : SUBSET Nat, seen : SUBSET Nat,
           done : BOOLEAN]

Ids == DOMAIN dialogs
Members(d) == IF d \in Ids THEN dialogs[d].members ELSE {}
-----------------------------------------------------------------------------
(* The requests *)

Idle == [pc |-> "idle", op |-> "", user |-> Nobody, other |-> Nobody,
         dialog |-> 0, todo |-> <<>>, due |-> {}, asked |-> {},
         undone |-> FALSE]
Return(h) == handlers' = [handlers EXCEPT ![h] = Idle]
Goto(h, pc) == handlers' = [handlers EXCEPT ![h].pc = pc]

(* A request arrives from user u, whose id get_user_id has read.           *)
Begin(h, op, pc, u, v, d, list) ==
    /\ handlers[h].pc = "idle"
    /\ requests < MaxRequests
    /\ requests' = requests + 1
    /\ handlers' = [handlers EXCEPT ![h] =
           [Idle EXCEPT !.pc = pc, !.op = op, !.user = u, !.other = v,
                        !.dialog = d, !.todo = list]]
    /\ UNCHANGED <<dialogs, messages, raced, reader>>

CreatePrivateDialog(h) ==
    \E u \in Users, v \in People : Begin(h, "private", "find", u, v, 0, <<>>)
CreateGroup(h) ==
    \E u \in Users, list \in Invitees :
        Begin(h, "group", "new", u, u, 0, list)
AddGroupParticipant(h) ==
    \E u \in Users, v \in People, d \in Ids :
        Begin(h, "add", "check", u, v, d, <<>>)
RemoveGroupParticipant(h) ==
    \E u \in Users, v \in People, d \in Ids :
        Begin(h, "remove", "check", u, v, d, <<>>)
GetDialogs(h) ==
    \E u \in Users : Begin(h, "dialogs", "list", u, u, 0, <<>>)
-----------------------------------------------------------------------------
(* Creating dialogs: create_private_dialog and create_group_dialog *)

(* Participants of d become m.  Other requests that have d in hand may find *)
(* their own change undone.                                                 *)
SetMembers(d, m, mixed, hs) ==
    /\ dialogs' = [dialogs EXCEPT ![d].members = m, ![d].joined = @ \cup m,
                                  ![d].mixed = @ \/ mixed]
    /\ handlers' = [k \in Handlers |->
           IF hs[k].dialog = d /\ hs[k] = handlers[k]
           THEN [hs[k] EXCEPT !.undone = TRUE] ELSE hs[k]]

(* The SELECT joins dialog_participants twice, so user1 = user2 finds every *)
(* private dialog of that user.                                             *)
PrivateDialogsOf_OneSided(u, v) ==
    {d \in Ids : dialogs[d].kind = "private" /\ dialogs[d].creator = u
                 /\ {u, v} \subseteq dialogs[d].members}
PrivateDialogsOf(u, v) ==
    {d \in Ids : dialogs[d].kind = "private"
                 /\ {u, v} \subseteq dialogs[d].members}

(* Another request has looked for the same pair and is still inserting.    *)
Overlapped(h) ==
    \E k \in Handlers \ {h} :
        /\ handlers[k].op = "private"
        /\ handlers[k].pc \in {"new", "fill"}
        /\ {handlers[k].user, handlers[k].other}
               = {handlers[h].user, handlers[h].other}

FindPrivate(h) ==
    LET r == handlers[h]
        found == PrivateDialogsOf(r.user, r.other)
    IN  /\ r.pc = "find"
        /\ \/ \E d \in found :
                 /\ handlers' = [handlers EXCEPT
                       ![h].pc = "info", ![h].dialog = d,
                       ![h].asked = {r.user, r.other}]
                 /\ UNCHANGED raced
           \/ /\ found = {}
              /\ handlers' = [handlers EXCEPT
                       ![h].pc = "new", ![h].todo = <<r.other>>]
              /\ raced' = raced \cup
                     (IF Overlapped(h) THEN {{r.user, r.other}} ELSE {})
        /\ UNCHANGED <<dialogs, messages, requests, reader>>

AllParticipants_CreatorLast(r) == Append(r.todo, r.user)
AllParticipants(r) == <<r.user>> \o r.todo

NewDialog(h) ==
    LET r == handlers[h]
        all == AllParticipants(r)
    IN  /\ r.pc = "new"
        /\ dialogs' = Append(dialogs,
               [kind |-> r.op, members |-> {}, joined |-> {},
                creator |-> r.user, mixed |-> FALSE])
        /\ handlers' = [handlers EXCEPT
               ![h].pc = "fill", ![h].dialog = Len(dialogs) + 1,
               ![h].todo = all, ![h].asked = {all[i] : i \in DOMAIN all}]
        /\ UNCHANGED <<messages, requests, raced, reader>>

(* The primary key refuses a user who is there already and the foreign key *)
(* a user who does not exist.                                              *)
Insertable_NoForeignKey(d, w) == w \notin Members(d)
Insertable(d, w) == w \in Users \ Members(d)

(* One INSERT INTO dialog_participants; a refusal ends the request.        *)
AfterInsert_Once(r) == [r EXCEPT !.pc = "info", !.todo = <<>>]
AfterInsert(r) == [r EXCEPT !.todo = Tail(@),
                            !.pc = IF Len(r.todo) = 1 THEN "info" ELSE "fill"]

InsertParticipant(h) ==
    LET r == handlers[h]
        w == Head(r.todo)
    IN  /\ r.pc = "fill"
        /\ \/ /\ Insertable(r.dialog, w)
              /\ SetMembers(r.dialog, Members(r.dialog) \cup {w}, FALSE,
                            [handlers EXCEPT ![h] = AfterInsert(r)])
           \/ /\ ~Insertable(r.dialog, w)
              /\ Return(h)
              /\ UNCHANGED dialogs
        /\ UNCHANGED <<messages, requests, raced, reader>>
-----------------------------------------------------------------------------
(* Changing the participants of a dialog, private or group *)

(* get_dialog_participants, and the refusals made from it.                 *)
Allowed_NoMembership(r) == ~(r.op = "remove" /\ r.user = r.other)
Allowed_SelfRemoval(r) == r.user \in Members(r.dialog)
Allowed(r) == /\ r.user \in Members(r.dialog)
              /\ ~(r.op = "remove" /\ r.user = r.other)

CheckMember(h) ==
    /\ handlers[h].pc = "check"
    /\ \/ Allowed(handlers[h]) /\ Goto(h, "change")
       \/ ~Allowed(handlers[h]) /\ Return(h)
    /\ UNCHANGED <<dialogs, messages, requests, raced, reader>>

(* OR IGNORE passes over the primary key and not over the foreign key.     *)
InsertOrIgnore(h) ==
    LET r == handlers[h]
        m == Members(r.dialog) \cup {r.other}
    IN  /\ r.pc = "change" /\ r.op = "add"
        /\ \/ /\ r.other \in Users
              /\ SetMembers(r.dialog, m, TRUE, [handlers EXCEPT
                     ![h].pc = "info", ![h].asked = {r.other}])
           \/ /\ r.other \in Strangers
              /\ Return(h)
              /\ UNCHANGED dialogs
        /\ UNCHANGED <<messages, requests, raced, reader>>

DeleteParticipant(h) ==
    LET r == handlers[h]
    IN  /\ r.pc = "change" /\ r.op = "remove"
        /\ SetMembers(r.dialog, Members(r.dialog) \ {r.other}, FALSE,
                      [handlers EXCEPT ![h].pc = "info"])
        /\ UNCHANGED <<messages, requests, raced, reader>>
-----------------------------------------------------------------------------
(* Answers *)

(* get_user_dialogs; the order of its rows is left out.                    *)
ListDialogs(h) ==
    LET r == handlers[h]
        mine == {d \in Ids : r.user \in Members(d)}
    IN  /\ r.pc = "list"
        /\ \/ mine = {} /\ Return(h)
           \/ /\ mine # {}
              /\ handlers' = [handlers EXCEPT ![h].pc = "info",
                                              ![h].due = mine]
        /\ UNCHANGED <<dialogs, messages, requests, raced, reader>>

(* build_dialog_info, a query of its own for each dialog of the answer.    *)
BuildDialogInfo(h) ==
    LET r == handlers[h]
    IN  /\ r.pc = "info"
        /\ \/ \E d \in r.due :
                 /\ r.due # {d}
                 /\ handlers' = [handlers EXCEPT ![h].due = @ \ {d}]
           \/ Cardinality(r.due) <= 1 /\ Return(h)
        /\ UNCHANGED <<dialogs, messages, requests, raced, reader>>

(* A statement of the request fails or no connection of the pool is free,  *)
(* and what has been written stays.  A crash of the process is this        *)
(* happening to every request.                                             *)
Fail(h) ==
    /\ handlers[h].pc # "idle"
    /\ Return(h)
    /\ UNCHANGED <<dialogs, messages, requests, raced, reader>>
-----------------------------------------------------------------------------
(* Messages: each request is one statement *)

(* The foreign key on dialog_id is the only condition; who sends is left   *)
(* out.                                                                    *)
SendMessage ==
    /\ requests < MaxRequests
    /\ requests' = requests + 1
    /\ \E d \in Ids, at \in Seconds :
           messages' = Append(messages,
               [dialog |-> d, at |-> at, delivered |-> FALSE])
    /\ UNCHANGED <<dialogs, handlers, raced, reader>>

SendMessageAck ==
    /\ requests < MaxRequests
    /\ requests' = requests + 1
    /\ \E m \in DOMAIN messages :
           messages' = [messages EXCEPT ![m].delivered = TRUE]
    /\ UNCHANGED <<dialogs, handlers, raced, reader>>

(* ORDER BY timestamp DESC; rows of one second keep the order they have in *)
(* the index.                                                              *)
Before(m, n) == \/ messages[m].at > messages[n].at
                \/ messages[m].at = messages[n].at /\ m < n
History(d) == {m \in DOMAIN messages : messages[m].dialog = d}
Rank(m) == Cardinality({n \in History(messages[m].dialog) : Before(n, m)})

Page_Swapped(d, offset, limit) ==
    {m \in History(d) : Rank(m) >= limit /\ Rank(m) < limit + offset}
(* The condition deleted = 0 always holds: delete_message, which sets it,  *)
(* is called by no request.                                                *)
Page(d, offset, limit) ==
    {m \in History(d) : Rank(m) >= offset /\ Rank(m) < offset + limit}

(* One client reads a dialog's history from the newest message on, going   *)
(* on behind the rows it has got until a page is not full.                 *)
GetHistory(d, offset) ==
    LET got == Page(d, offset, PageSize)
    IN  /\ reader' = {[dialog |-> d, offset |-> offset + PageSize,
                       due |-> IF offset = 0 THEN History(d)
                               ELSE UNION {r.due : r \in reader},
                       seen |-> got \cup UNION {r.seen : r \in reader},
                       done |-> Cardinality(got) < PageSize]}
        /\ UNCHANGED <<dialogs, messages, handlers, raced>>

FirstPage ==
    /\ requests < MaxRequests
    /\ requests' = requests + 1
    /\ reader = {}
    /\ \E d \in Ids : GetHistory(d, 0)

(* The walk ends by itself, so the bound on requests leaves it alone.      *)
NextPage ==
    /\ \E r \in reader : ~r.done /\ GetHistory(r.dialog, r.offset)
    /\ UNCHANGED requests
-----------------------------------------------------------------------------
(* A server with a group of its first users and a message in it, or none.  *)
Started(d, m) ==
    /\ dialogs = d
    /\ messages = m
    /\ handlers = [h \in Handlers |-> Idle]
    /\ requests = 0
    /\ raced = {}
    /\ reader = {}

Init ==
    \/ Started(<<>>, <<>>)
    \/ \E u \in Users, m \in SUBSET Users, at \in Seconds :
           /\ u \in m /\ Cardinality(m) = 2
           /\ Started(<<[kind |-> "group", members |-> m, joined |-> m,
                         creator |-> u, mixed |-> FALSE]>>,
                      <<[dialog |-> 1, at |-> at, delivered |-> FALSE]>>)

HandlerStep(h) ==
    \/ FindPrivate(h) \/ NewDialog(h) \/ InsertParticipant(h)
    \/ CheckMember(h) \/ InsertOrIgnore(h) \/ DeleteParticipant(h)
    \/ ListDialogs(h) \/ BuildDialogInfo(h)

Request(h) ==
    \/ CreatePrivateDialog(h) \/ CreateGroup(h) \/ AddGroupParticipant(h)
    \/ RemoveGroupParticipant(h) \/ GetDialogs(h)

Next ==
    \/ \E h \in Handlers : Request(h) \/ HandlerStep(h) \/ Fail(h)
    \/ SendMessage \/ SendMessageAck \/ FirstPage \/ NextPage

Spec == Init /\ [][Next]_vars
-----------------------------------------------------------------------------
(* Properties *)

(* Every part of the store and of the requests under way has its type,     *)
(* over the tables of db.rs:43-106.                                        *)
TypeOK ==
    /\ dialogs \in Seq(Dialog)
    /\ messages \in Seq(Message)
    /\ handlers \in [Handlers -> Handler]
    /\ requests \in 0..MaxRequests
    /\ raced \subseteq SUBSET People
    /\ reader \subseteq Reader /\ Cardinality(reader) <= 1

(* Two users share at most one private dialog, unless two requests looked  *)
(* for theirs at the same time or somebody was added to one of the         *)
(* dialogs: create_private_dialog finds what an earlier call made, whoever *)
(* of the two made it and whatever failed in between.                      *)
OnePrivateDialog ==
    \A d, e \in Ids : \A p \in Pairs :
        /\ d < e
        /\ dialogs[d].kind = "private" /\ dialogs[e].kind = "private"
        /\ ~dialogs[d].mixed /\ ~dialogs[e].mixed
        /\ p \subseteq Members(d) \cap Members(e)
        => p \in raced

(* What a request is about to answer with shows the change it made: the    *)
(* dialog holds everyone it was asked for, and not who was removed, unless *)
(* another request has changed the participants since.                     *)
ChangeShows ==
    \A h \in Handlers :
        LET r == handlers[h]
        IN  r.pc = "info" /\ ~r.undone =>
                /\ r.asked \subseteq Members(r.dialog)
                /\ r.op = "remove" => r.other \notin Members(r.dialog)

(* A dialog that anybody has ever been in has been joined by the user who  *)
(* asked for it: what a request that failed on the way leaves behind is a  *)
(* dialog of its own user, never one of the invited only.                  *)
LeftoverIsCreators ==
    \A d \in Ids : dialogs[d].joined # {} => dialogs[d].creator \in dialogs[d].joined

(* Apart from the request that creates a dialog, only a request of a user  *)
(* who is or has been a participant changes who takes part in it.          *)
MembersChangeMembers ==
    [][\A d \in Ids : dialogs'[d].members # dialogs[d].members =>
           \E h \in Handlers :
               /\ handlers[h].dialog = d /\ handlers'[h] # handlers[h]
               /\ \/ handlers[h].pc = "fill"
                  \/ handlers[h].user \in dialogs[d].joined]_vars

(* The last participant of a dialog is removed only by a user who lost the *)
(* membership between being checked and removing: nobody can empty a       *)
(* dialog alone.                                                           *)
EmptiedOnlyByEachOther ==
    [][\A d \in Ids : Members(d) # {} /\ dialogs'[d].members = {} =>
           \E h \in Handlers :
               /\ handlers[h].dialog = d /\ handlers[h].pc = "change"
               /\ handlers'[h] # handlers[h]
               /\ handlers[h].user \in dialogs[d].joined \ Members(d)]_vars

(* A client that reads a history to its end has seen every message there   *)
(* was when it began, whatever is sent in between and however the clock    *)
(* is set.                                                                 *)
NoMessageSkipped == \A r \in reader : r.done => r.due \subseteq r.seen
=============================================================================
