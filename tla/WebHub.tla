------------------------------- MODULE WebHub -------------------------------
(***************************************************************************)
(* The WebSocket side of the server: one actor per connection (web/ws.rs)  *)
(* and the table of subscriptions they share (web/state.rs).               *)
(*                                                                         *)
(* Actors run on several threads, each handles one thing at a time: a text *)
(* of its client or a message another actor has sent it.  A request of the *)
(* client is cut where it reads or writes what actors share: the database, *)
(* and the table, whose lock a broadcast holds while it sends.             *)
(***************************************************************************)
EXTENDS Integers, Sequences, FiniteSets

CONSTANTS
    Conns,         \* bound: connections
    Users,         \* ids of users
    Dialogs,       \* ids of dialogs
    Participants,  \* who takes part in which at the beginning
    MaxTexts,      \* bound: requests of all clients, over TCP as well
    MaxMessages,   \* bound: messages sent
    Disturbances   \* what happens beside the requests

AllDisturbances ==
    {"leave",      \* a participant is removed (handlers.rs)
     "fault",      \* a user's status cannot be written
     "restart"}    \* of the server

ASSUME HubDialogsAssumption == IsFiniteSet(Dialogs)
ASSUME HubParticipantsAssumption == Participants \in [Dialogs -> SUBSET Users]
ASSUME HubBoundsAssumption == MaxTexts \in Nat /\ MaxMessages \in Nat
ASSUME HubDisturbancesAssumption == Disturbances \subseteq AllDisturbances

VARIABLES
    conn,       \* the actors
    inbox,      \* their mailboxes
    table,      \* WebState.connections
    members,    \* dialog_participants
    status,     \* user_status: no row, online, offline or another value
    messages,   \* messages saved over WebSocket
    texts,      \* how many requests clients have made
    got,        \* history: messages each client has been sent, in order
    routed,     \* history: who had subscribed when a message was broadcast
    unsure,     \* history: users whose status may not be what it seems
    stale       \* history: connections whose user has been removed from the
                \* dialog since they checked that the user is in it

history == <<got, routed, unsure, stale>>
vars == <<conn, inbox, table, members, status, messages, texts, history>>

Ids == DOMAIN messages
Message == [dialog : Dialogs, sender : Users]
(* dialog is the dialog of the request in hand; WsActor's own dialog_id is *)
(* written and never read.  subs is history: how often the client was told *)
(* "subscribed".                                                           *)
Actor == [pc : {"new", "idle", "online", "announce", "register", "save",
                "broadcast", "gone"},
          user : SUBSET Users, dialog : SUBSET Dialogs, sent : SUBSET Nat,
          subs : [Dialogs -> Nat]]
(* A mailbox holds SendMessage as the message, UserStatusUpdate as 0.      *)
Mail == Nat
Text == [id : Nat, own : BOOLEAN]

Open(c) == conn[c].pc \notin {"new", "gone"}
Fresh(pc) == [pc |-> pc, user |-> {}, dialog |-> {}, sent |-> {},
              subs |-> [d \in Dialogs |-> 0]]
Goto(c, pc) == conn' = [conn EXCEPT ![c].pc = pc]

(* do_send; what is sent to an actor that has stopped is lost.             *)
Post_TrySend(list, mail) ==
    [c \in Conns |->
        IF Open(c) /\ inbox[c] = <<>> /\ \E j \in DOMAIN list : list[j] = c
        THEN <<mail>> ELSE inbox[c]]
Post(list, mail) ==
    [c \in Conns |->
        IF Open(c)
        THEN inbox[c] \o [i \in 1..Cardinality({j \in DOMAIN list : list[j] = c})
                             |-> mail]
        ELSE inbox[c]]
-----------------------------------------------------------------------------
(* A connection's beginning and end *)

Connect(c) ==
    /\ conn[c].pc = "new"
    /\ Goto(c, "idle")
    /\ UNCHANGED <<inbox, table, members, status, messages, texts, history>>

Statuses == {"online", "offline", "other"}
UsersOf(cs) == UNION {conn[c].user : c \in cs}

(* set_user_status by the actor of c, or it fails and the error is logged  *)
(* only.  INSERT OR REPLACE: whatever the row was, it is true now, unless  *)
(* the user has another connection.                                        *)
SetStatus(c, u, value) ==
    \/ /\ status' = [status EXCEPT ![u] = value]
       /\ unsure' = IF u \in UsersOf(Conns \ {c}) THEN unsure
                    ELSE unsure \ {u}
    \/ /\ "fault" \in Disturbances
       /\ unsure' = unsure \cup {u}
       /\ UNCHANGED status

(* Close, a protocol error or the end of the stream; then stopped().       *)
Offline_Forgotten(c) == UNCHANGED <<status, unsure>>
Offline(c) ==
    IF conn[c].user = {} THEN UNCHANGED <<status, unsure>>
    ELSE \E u \in conn[c].user : SetStatus(c, u, "offline")

Stop(c) ==
    /\ conn[c].pc = "idle"
    /\ conn' = [conn EXCEPT ![c] = Fresh("gone")]
    /\ inbox' = [inbox EXCEPT ![c] = <<>>]
    /\ Offline(c)
    /\ UNCHANGED <<table, members, messages, texts, got, routed, stale>>

(* UserStatusUpdate of a client over TCP, for its own user: writes any of  *)
(* the six statuses and makes the row if there is none.  It asks nobody    *)
(* who is connected here.                                                  *)
UpdateStatus ==
    /\ texts < MaxTexts
    /\ texts' = texts + 1
    /\ \E u \in Users, value \in Statuses :
           /\ status' = [status EXCEPT ![u] = value]
           /\ unsure' = IF (value = "online") = (u \in UsersOf(Conns))
                        THEN unsure ELSE unsure \cup {u}
    /\ UNCHANGED <<conn, inbox, table, members, messages, got, routed, stale>>

(* The process ends and starts again; no actor's stopped() runs.           *)
Restart ==
    /\ "restart" \in Disturbances
    /\ \E c \in Conns : Open(c)
    /\ conn' = [c \in Conns |-> IF Open(c) THEN Fresh("gone") ELSE conn[c]]
    /\ inbox' = [c \in Conns |-> <<>>]
    /\ table' = [d \in Dialogs |-> <<>>]
    /\ unsure' = unsure \cup {u \in Users : status[u] = "online"}
    /\ stale' = {}
    /\ UNCHANGED <<members, status, messages, texts, got, routed>>
-----------------------------------------------------------------------------
(* Requests of the client *)

Ask(c) ==
    /\ conn[c].pc = "idle"
    /\ texts < MaxTexts
    /\ texts' = texts + 1

SetUser_Adds(c, u) == conn[c].user \cup {u}
SetUser(c, u) == {u}

(* auth: any user that has a status row is accepted.                       *)
Auth(c) ==
    /\ Ask(c)
    /\ \E u \in Users :
           \/ /\ status[u] # "none"
              /\ conn' = [conn EXCEPT ![c].pc = "online", ![c].user = SetUser(c, u)]
              \* the user is now, or was, behind two connections
              /\ unsure' = unsure \cup (conn[c].user \ {u})
                   \cup ({u} \cap UsersOf(Conns \ {c}))
           \/ status[u] = "none" /\ UNCHANGED <<conn, unsure>>
    /\ UNCHANGED <<inbox, table, members, status, messages, got, routed,
                   stale>>

AuthOnline(c) ==
    /\ conn[c].pc = "online"
    /\ \E u \in conn[c].user : SetStatus(c, u, "online")
    /\ Goto(c, "announce")
    /\ UNCHANGED <<inbox, table, members, messages, texts, got, routed, stale>>

(* broadcast_status goes through the lists of all dialogs.                 *)
AuthAnnounce(c) ==
    LET count(e) == Cardinality({x \in Dialogs \X (1..MaxTexts) :
                        /\ x[2] \in DOMAIN table[x[1]]
                        /\ table[x[1]][x[2]] = e})
    IN  /\ conn[c].pc = "announce"
        /\ inbox' = [e \in Conns |->
               IF Open(e) THEN inbox[e] \o [i \in 1..count(e) |-> 0]
               ELSE inbox[e]]
        /\ Goto(c, "idle")
        /\ UNCHANGED <<table, members, status, messages, texts, history>>

IsMember_NotAsked(c, d) == conn[c].user # {}
IsMember(c, d) == \E u \in conn[c].user : u \in members[d]

(* subscribe, and add_connection as its second step.                       *)
Subscribe(c) ==
    /\ Ask(c)
    /\ \E d \in Dialogs :
           \/ /\ IsMember(c, d)
              /\ conn' = [conn EXCEPT ![c].pc = "register", ![c].dialog = {d}]
           \/ UNCHANGED conn  \* not a participant, or the query failed
    /\ UNCHANGED <<inbox, table, members, status, messages, history>>

AddConnection_Replaces(list, c) == <<c>>
AddConnection(list, c) == Append(list, c)

Register(c) ==
    /\ conn[c].pc = "register"
    /\ \E d \in conn[c].dialog :
           /\ table' = [table EXCEPT ![d] = AddConnection(@, c)]
           /\ conn' = [conn EXCEPT ![c].pc = "idle", ![c].dialog = {},
                                    ![c].subs[d] = @ + 1]
    /\ UNCHANGED <<inbox, members, status, messages, texts, history>>
(* send_message: over the rate limit, not a participant, no such dialog or *)
(* not authenticated, the client gets an error.                            *)
SendMessage(c) ==
    /\ Ask(c)
    /\ Len(messages) < MaxMessages
    /\ \E d \in Dialogs :
           \/ /\ IsMember(c, d)
              /\ conn' = [conn EXCEPT ![c].pc = "save", ![c].dialog = {d}]
           \/ UNCHANGED conn
    /\ UNCHANGED <<inbox, table, members, status, messages, history>>

(* save_message and the text to the client itself; another message may be  *)
(* saved before this one is broadcast.                                     *)
Save(c) ==
    /\ conn[c].pc = "save"
    /\ \E d \in conn[c].dialog, u \in conn[c].user :
           \/ /\ Len(messages) < MaxMessages
              /\ messages' = Append(messages, [dialog |-> d, sender |-> u])
              /\ got' = [got EXCEPT ![c] =
                     Append(@, [id |-> Len(messages) + 1, own |-> TRUE])]
              /\ routed' = Append(routed, {})
              /\ conn' = [conn EXCEPT ![c].pc = "broadcast",
                                      ![c].sent = {Len(messages) + 1}]
           \/ /\ conn' = [conn EXCEPT ![c].pc = "idle", ![c].dialog = {}]
              /\ UNCHANGED <<messages, got, routed>>
    /\ stale' = stale \ {c}
    /\ UNCHANGED <<inbox, table, members, status, texts, unsure>>

(* broadcast_to_dialog: everyone on the dialog's list, the sender too (the *)
(* parameter _exclude_user is not used).                                   *)
Audience_AllDialogs(d) ==
    LET all[ds \in SUBSET Dialogs] ==
            IF ds = {} THEN <<>>
            ELSE LET e == CHOOSE e \in ds : TRUE IN table[e] \o all[ds \ {e}]
    IN  all[Dialogs]
Audience(d) == table[d]

Broadcast_SelfDirect(c, list, m) ==
    LET others == SelectSeq(list, LAMBDA e : e # c)
    IN  /\ inbox' = Post(others, m)
        /\ got' = [got EXCEPT ![c] =
               @ \o [i \in 1..(Len(list) - Len(others)) |->
                       [id |-> m, own |-> FALSE]]]
Broadcast(c, list, m) == inbox' = Post(list, m) /\ UNCHANGED got

BroadcastMessage(c) ==
    /\ conn[c].pc = "broadcast"
    /\ \E d \in conn[c].dialog, m \in conn[c].sent :
           /\ Broadcast(c, Audience(d), m)
           /\ routed' = [routed EXCEPT ![m] =
                  {e \in Conns : Open(e) /\ conn[e].subs[d] > 0}]
    /\ conn' = [conn EXCEPT ![c].pc = "idle", ![c].dialog = {}, ![c].sent = {}]
    /\ UNCHANGED <<table, members, status, messages, texts, unsure, stale>>
-----------------------------------------------------------------------------
(* A message from another actor: its text goes to the client.              *)
Handle(c) ==
    /\ conn[c].pc = "idle"
    /\ inbox[c] # <<>>
    /\ inbox' = [inbox EXCEPT ![c] = Tail(@)]
    /\ got' = IF Head(inbox[c]) = 0 THEN got
              ELSE [got EXCEPT ![c] =
                       Append(@, [id |-> Head(inbox[c]), own |-> FALSE])]
    /\ UNCHANGED <<conn, table, members, status, messages, texts, routed,
                   unsure, stale>>

(* Another part of the server removes a participant (bound: one).          *)
Leave ==
    /\ "leave" \in Disturbances
    /\ members = Participants
    /\ \E d \in Dialogs, u \in Users :
           /\ u \in members[d]
           /\ members' = [members EXCEPT ![d] = @ \ {u}]
           /\ stale' = stale \cup {c \in Conns : /\ conn[c].pc = "save"
                                               /\ conn[c].dialog = {d}
                                               /\ conn[c].user = {u}}
    /\ UNCHANGED <<conn, inbox, table, status, messages, texts, got, routed,
                   unsure>>
-----------------------------------------------------------------------------
(* Nobody is connected, or every connection is that of another user, who   *)
(* has authenticated already.                                              *)
InitWith(conns, rows) ==
    /\ conn = conns
    /\ inbox = [c \in Conns |-> <<>>]
    /\ table = [d \in Dialogs |-> <<>>]
    /\ members = Participants
    /\ status \in rows
    /\ messages = <<>>
    /\ texts = 0
    /\ got = [c \in Conns |-> <<>>]
    /\ routed = <<>>
    /\ unsure = {}
    /\ stale = {}

Init ==
    \/ InitWith([c \in Conns |-> Fresh("new")],
                [Users -> {"none", "offline"}])
    \/ \E who \in [Conns -> Users] :
           /\ \A c, e \in Conns : c # e => who[c] # who[e]
           /\ InitWith([c \in Conns |-> [Fresh("idle") EXCEPT !.user = {who[c]}]],
                       {[u \in Users |-> IF \E c \in Conns : who[c] = u
                                        THEN "online" ELSE "none"]})

(* What an actor does by itself once it has something to do.               *)
Work(c) ==
    \/ AuthOnline(c) \/ AuthAnnounce(c) \/ Register(c)
    \/ Save(c) \/ BroadcastMessage(c) \/ Handle(c)

Next ==
    \/ \E c \in Conns : \/ Connect(c) \/ Stop(c) \/ Work(c)
                        \/ Auth(c) \/ Subscribe(c) \/ SendMessage(c)
    \/ UpdateStatus
    \/ Leave
    \/ Restart

(* The threads of actix run every actor that has work.                     *)
Fairness == \A c \in Conns : WF_vars(Work(c))
Spec == Init /\ [][Next]_vars /\ Fairness
-----------------------------------------------------------------------------
(* Properties *)

(* The fields of WsActor and WebState and the history have their types     *)
(* (web/ws.rs:45-52, web/state.rs:6-9).                                    *)
TypeOK ==
    /\ conn \in [Conns -> Actor]
    /\ \A c \in Conns : Cardinality(conn[c].user) <= 1
    /\ inbox \in [Conns -> Seq(Mail)]
    /\ table \in [Dialogs -> Seq(Conns)]
    /\ members \in [Dialogs -> SUBSET Users]
    /\ status \in [Users -> {"none"} \cup Statuses]
    /\ messages \in Seq(Message) /\ Len(messages) <= MaxMessages
    /\ texts \in 0..MaxTexts
    /\ got \in [Conns -> Seq(Text)]
    /\ routed \in Seq(SUBSET Conns) /\ Len(routed) = Len(messages)
    /\ unsure \subseteq Users
    /\ stale \subseteq Conns

(* Copies of a message that the hub has handed to a connection.            *)
Copies(c, m) ==
    Cardinality({i \in DOMAIN got[c] : got[c][i] = [id |-> m, own |-> FALSE]})
    + Cardinality({i \in DOMAIN inbox[c] : inbox[c][i] = m})

(* Who was told "subscribed" before a message was broadcast, and is still  *)
(* connected, has it or has it in the mailbox, whatever other connections  *)
(* subscribed or closed before.                                            *)
SubscribersGetIt ==
    \A m \in Ids : \A c \in routed[m] : Open(c) => Copies(c, m) > 0

(* A client is sent a message no oftener than it has subscribed to the     *)
(* message's dialog, the direct answer to its sender aside: so messages of *)
(* other dialogs never reach it.                                           *)
CopiesHaveACause ==
    \A m \in Ids : \A c \in Conns :
        Open(c) => Copies(c, m) <= conn[c].subs[messages[m].dialog]

(* All clients see the broadcasts of two messages in the same order,       *)
(* though the messages may be saved in the other.                          *)
Sees(c, m, n) ==
    \E i, j \in DOMAIN got[c] :
        /\ i < j /\ got[c][i] = [id |-> m, own |-> FALSE]
        /\ got[c][j] = [id |-> n, own |-> FALSE]
SameOrder ==
    \A m, n \in Ids : \A c, e \in Conns :
        m # n /\ Sees(c, m, n) => ~Sees(e, n, m)

(* web/ws.rs:145-178: the user of a message that is saved is in its dialog *)
(* at that moment, or has been removed since the actor checked it, for     *)
(* this message.  So when a user is removed, each connection of the user   *)
(* may still save the message in hand and none after it.                   *)
SenderWasMember ==
    [][\A c \in Conns :
          conn[c].pc = "save" /\ conn'[c].pc = "broadcast" =>
              \A u \in conn[c].user, d \in conn[c].dialog :
                  u \in members[d] \/ c \in stale]_vars

(* web/ws.rs:62-67, 84-88: a user's row says online just while a connection*)
(* of the user is open.  Exempt, until an actor next writes the row of a   *)
(* user with no other connection, is a user                                *)
(*   - who has, or has just had, two connections (closing one writes       *)
(*     offline);                                                           *)
(*   - whose connection has authenticated again as another user (nothing   *)
(*     writes offline for the first one);                                  *)
(*   - whose row said online when the server was restarted;                *)
(*   - for whom a write of the row has failed;                             *)
(*   - who has reported a status over TCP that says otherwise              *)
(*     (handlers.rs:477-492).                                              *)
PresenceIsTrue ==
    \A u \in Users \ unsure : \A c \in Conns :
        /\ status[u] = "online" => \E e \in Conns : u \in conn[e].user
        /\ u \in conn[c].user /\ conn[c].pc # "online" => status[u] = "online"

(* A message that is saved reaches every client that was subscribed when   *)
(* it was broadcast, or the client's connection ends.                      *)
MessagesArrive ==
    \A m \in 1..MaxMessages : \A c \in Conns :
        (m \in Ids /\ c \in routed[m]) ~>
            (~Open(c) \/ \E i \in DOMAIN got[c] :
                             got[c][i] = [id |-> m, own |-> FALSE])
=============================================================================
