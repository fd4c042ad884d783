----------------------------- MODULE WebHubProofs -----------------------------
(***************************************************************************)
(* What subscribers get, in which order and how often, who may send, and   *)
(* whom the table of statuses shows online: for any number of connections, *)
(* users, dialogs and requests, restarts and failing writes included.      *)
(***************************************************************************)
EXTENDS WebHub, FiniteSetTheorems, SequenceTheorems, TLAPS

(* Everything of an actor after a step that others do not take part in.    *)
Becomes(c, pc, user, dialog, sent, subs) ==
    /\ conn' \in [Conns -> Actor]
    /\ \A e \in Conns \ {c} : conn'[e] = conn[e]
    /\ conn'[c].pc = pc
    /\ conn'[c].user = user
    /\ conn'[c].dialog = dialog
    /\ conn'[c].sent = sent
    /\ conn'[c].subs = subs

Labels == {"new", "idle", "online", "announce", "register", "save",
           "broadcast", "gone"}

(* The updates of an actor that the actions make, and what it is then.     *)
LEMMA NewPc ==
  ASSUME conn \in [Conns -> Actor], NEW c \in Conns, NEW p \in Labels,
         conn' = [conn EXCEPT ![c].pc = p]
  PROVE  Becomes(c, p, conn[c].user, conn[c].dialog, conn[c].sent,
                 conn[c].subs)
<1>1. conn[c] \in Actor
  OBVIOUS
<1>2. PICK t : t = [conn[c] EXCEPT !.pc = p]
  OBVIOUS
<1>3. /\ t \in Actor /\ t.pc = p /\ t.user = conn[c].user
      /\ t.dialog = conn[c].dialog /\ t.sent = conn[c].sent
      /\ t.subs = conn[c].subs
  BY <1>1, <1>2 DEF Actor, Labels
<1>4. conn' = [conn EXCEPT ![c] = t]
  BY <1>2
<1>. QED  BY <1>3, <1>4 DEF Becomes

(* auth: the label and the user.                                           *)
LEMMA NewUser ==
  ASSUME conn \in [Conns -> Actor], NEW c \in Conns, NEW p \in Labels,
         NEW u \in SUBSET Users,
         conn' = [conn EXCEPT ![c].pc = p, ![c].user = u]
  PROVE  Becomes(c, p, u, conn[c].dialog, conn[c].sent, conn[c].subs)
<1>1. conn[c] \in Actor
  OBVIOUS
<1>2. PICK t : t = [conn[c] EXCEPT !.pc = p, !.user = u]
  OBVIOUS
<1>3. /\ t \in Actor /\ t.pc = p /\ t.user = u
      /\ t.dialog = conn[c].dialog /\ t.sent = conn[c].sent
      /\ t.subs = conn[c].subs
  BY <1>1, <1>2 DEF Actor, Labels
<1>4. conn' = [conn EXCEPT ![c] = t]
  BY <1>2
<1>. QED  BY <1>3, <1>4 DEF Becomes

(* subscribe, send_message: the label and the dialog.                      *)
LEMMA NewDialog ==
  ASSUME conn \in [Conns -> Actor], NEW c \in Conns, NEW p \in Labels,
         NEW d \in SUBSET Dialogs,
         conn' = [conn EXCEPT ![c].pc = p, ![c].dialog = d]
  PROVE  Becomes(c, p, conn[c].user, d, conn[c].sent, conn[c].subs)
<1>1. conn[c] \in Actor
  OBVIOUS
<1>2. PICK t : t = [conn[c] EXCEPT !.pc = p, !.dialog = d]
  OBVIOUS
<1>3. /\ t \in Actor /\ t.pc = p /\ t.user = conn[c].user
      /\ t.dialog = d /\ t.sent = conn[c].sent
      /\ t.subs = conn[c].subs
  BY <1>1, <1>2 DEF Actor, Labels
<1>4. conn' = [conn EXCEPT ![c] = t]
  BY <1>2
<1>. QED  BY <1>3, <1>4 DEF Becomes

(* save_message: the label and the message's id.                           *)
LEMMA NewSent ==
  ASSUME conn \in [Conns -> Actor], NEW c \in Conns, NEW p \in Labels,
         NEW s \in SUBSET Nat,
         conn' = [conn EXCEPT ![c].pc = p, ![c].sent = s]
  PROVE  Becomes(c, p, conn[c].user, conn[c].dialog, s, conn[c].subs)
<1>1. conn[c] \in Actor
  OBVIOUS
<1>2. PICK t : t = [conn[c] EXCEPT !.pc = p, !.sent = s]
  OBVIOUS
<1>3. /\ t \in Actor /\ t.pc = p /\ t.user = conn[c].user
      /\ t.dialog = conn[c].dialog /\ t.sent = s
      /\ t.subs = conn[c].subs
  BY <1>1, <1>2 DEF Actor, Labels
<1>4. conn' = [conn EXCEPT ![c] = t]
  BY <1>2
<1>. QED  BY <1>3, <1>4 DEF Becomes

(* The request is over: nothing in hand.                                   *)
LEMMA NoRequest ==
  ASSUME conn \in [Conns -> Actor], NEW c \in Conns,
         conn' = [conn EXCEPT ![c].pc = "idle", ![c].dialog = {},
                              ![c].sent = {}]
  PROVE  Becomes(c, "idle", conn[c].user, {}, {}, conn[c].subs)
<1>1. conn[c] \in Actor
  OBVIOUS
<1>2. PICK t : t = [conn[c] EXCEPT !.pc = "idle", !.dialog = {}, !.sent = {}]
  OBVIOUS
<1>3. /\ t \in Actor /\ t.pc = "idle" /\ t.user = conn[c].user
      /\ t.dialog = {} /\ t.sent = {}
      /\ t.subs = conn[c].subs
  BY <1>1, <1>2 DEF Actor
<1>4. conn' = [conn EXCEPT ![c] = t]
  BY <1>2
<1>. QED  BY <1>3, <1>4 DEF Becomes

(* add_connection: the client has been told once more.                     *)
LEMMA NewSubs ==
  ASSUME conn \in [Conns -> Actor], NEW c \in Conns, NEW d \in Dialogs,
         conn' = [conn EXCEPT ![c].pc = "idle", ![c].dialog = {},
                              ![c].subs[d] = @ + 1]
  PROVE  Becomes(c, "idle", conn[c].user, {}, conn[c].sent,
                 [conn[c].subs EXCEPT ![d] = conn[c].subs[d] + 1])
<1>1. conn[c] \in Actor /\ conn[c].subs \in [Dialogs -> Nat]
  BY DEF Actor
<1>2. PICK b : b = [conn[c].subs EXCEPT ![d] = conn[c].subs[d] + 1]
  OBVIOUS
<1>3. b \in [Dialogs -> Nat]
  BY <1>1, <1>2
<1>4. PICK t : t = [conn[c] EXCEPT !.pc = "idle", !.dialog = {}, !.subs = b]
  OBVIOUS
<1>5. /\ t \in Actor /\ t.pc = "idle" /\ t.user = conn[c].user
      /\ t.dialog = {} /\ t.sent = conn[c].sent
      /\ t.subs = b
  BY <1>1, <1>3, <1>4 DEF Actor
<1>6. conn' = [conn EXCEPT ![c] = t]
  BY <1>1, <1>2, <1>4 DEF Actor
<1>7. conn' \in [Conns -> Actor] /\ conn'[c] = t
  BY <1>5, <1>6
<1>8. \A e \in Conns \ {c} : conn'[e] = conn[e]
  BY <1>6
<1>. QED  BY <1>2, <1>5, <1>7, <1>8 DEF Becomes

(* A connection that has just begun, or ended, is an actor.                *)
LEMMA FreshType ==
  ASSUME NEW p \in Labels
  PROVE  Fresh(p) \in Actor
BY DEF Fresh, Actor, Labels

(* stopped(): nothing is left of the actor.                                *)
LEMMA NewActor ==
  ASSUME conn \in [Conns -> Actor], NEW c \in Conns,
         conn' = [conn EXCEPT ![c] = Fresh("gone")]
  PROVE  Becomes(c, "gone", {}, {}, {}, [d \in Dialogs |-> 0])
<1>1. Fresh("gone") \in Actor
  BY FreshType DEF Labels
<1>. QED  BY <1>1 DEF Becomes, Fresh

-----------------------------------------------------------------------------
(* How often an element occurs in a sequence *)

Occurs(s, x) == Cardinality({i \in DOMAIN s : s[i] = x})

(* A count is finite, at most the length, and 0 if there is none.          *)
LEMMA OccursType ==
  ASSUME NEW S, NEW s \in Seq(S), NEW x
  PROVE  /\ IsFiniteSet({i \in DOMAIN s : s[i] = x})
         /\ Occurs(s, x) \in 0..Len(s)
         /\ Occurs(s, x) = 0 <=> \A i \in DOMAIN s : s[i] # x
<1>1. DOMAIN s = 1..Len(s) /\ Len(s) \in Nat
  BY LenProperties
<1>2. IsFiniteSet(DOMAIN s) /\ Cardinality(DOMAIN s) = Len(s)
  BY <1>1, FS_Interval
<1>3. {i \in DOMAIN s : s[i] = x} \in SUBSET DOMAIN s
  OBVIOUS
<1>4. IsFiniteSet({i \in DOMAIN s : s[i] = x}) /\ Occurs(s, x) <= Len(s)
  BY <1>2, <1>3, FS_Subset DEF Occurs
<1>5. Occurs(s, x) \in Nat
  BY <1>4, FS_CardinalityType DEF Occurs
<1>6. Occurs(s, x) = 0 <=> {i \in DOMAIN s : s[i] = x} = {}
  BY <1>4, FS_EmptySet DEF Occurs
<1>. QED  BY <1>1, <1>4, <1>5, <1>6

(* Nothing occurs in the empty sequence.                                   *)
LEMMA OccursEmpty ==
  ASSUME NEW x
  PROVE  Occurs(<<>>, x) = 0
<1>1. {i \in DOMAIN <<>> : <<>>[i] = x} = {}
  OBVIOUS
<1>. QED  BY <1>1, FS_EmptySet DEF Occurs

(* An appended element counts once more.                                   *)
LEMMA OccursAppend ==
  ASSUME NEW S, NEW s \in Seq(S), NEW y \in S, NEW x
  PROVE  Occurs(Append(s, y), x) =
             IF x = y THEN Occurs(s, x) + 1 ELSE Occurs(s, x)
<1>. DEFINE A == {i \in DOMAIN s : s[i] = x}
            B == {i \in DOMAIN Append(s, y) : Append(s, y)[i] = x}
<1>1. /\ DOMAIN s = 1..Len(s) /\ Len(s) \in Nat
      /\ DOMAIN Append(s, y) = 1..(Len(s) + 1)
      /\ Append(s, y)[Len(s) + 1] = y
      /\ \A i \in 1..Len(s) : Append(s, y)[i] = s[i]
  BY LenProperties, AppendProperties
<1>2. IsFiniteSet(A)
  BY OccursType
<1>3. B = IF x = y THEN A \cup {Len(s) + 1} ELSE A
  BY <1>1
<1>4. Len(s) + 1 \notin A
  BY <1>1
<1>. HIDE DEF A, B
<1>5. Cardinality(B) = IF x = y THEN Cardinality(A) + 1 ELSE Cardinality(A)
  BY <1>2, <1>3, <1>4, FS_AddElement
<1>. QED  BY <1>5 DEF A, B, Occurs

(* The second part of a concatenation is counted as it was by itself.      *)
LEMMA OccursConcat ==
  ASSUME NEW S, NEW s \in Seq(S), NEW t \in Seq(S), NEW x
  PROVE  Occurs(s \o t, x) = Occurs(s, x) + Occurs(t, x)
<1>. DEFINE n == Len(s)
            A == {i \in DOMAIN s : s[i] = x}
            B == {i \in DOMAIN t : t[i] = x}
            C == {i \in DOMAIN (s \o t) : (s \o t)[i] = x}
            D == {i \in C : i > n}
            f == [i \in B |-> i + n]
<1>1. /\ DOMAIN s = 1..n /\ n \in Nat
      /\ DOMAIN t = 1..Len(t) /\ Len(t) \in Nat
      /\ DOMAIN (s \o t) = 1..(n + Len(t))
      /\ \A i \in 1..(n + Len(t)) :
             (s \o t)[i] = IF i <= n THEN s[i] ELSE t[i - n]
  BY LenProperties, ConcatProperties
<1>2. IsFiniteSet(A) /\ IsFiniteSet(B)
  BY OccursType
<1>3. C = A \cup D /\ A \cap D = {}
  BY <1>1
<1>4. f \in Bijection(B, D)
  <2>1. \A i \in B : f[i] \in D
    BY <1>1
  <2>2. \A j \in D : j - n \in B /\ f[j - n] = j
    BY <1>1
  <2>3. \A i, j \in B : f[i] = f[j] => i = j
    BY <1>1
  <2>. HIDE DEF B, D, f
  <2>4. f \in [B -> D]
    BY <2>1 DEF f
  <2>5. DOMAIN f = B
    BY DEF f
  <2>6. f \in Injection(B, D)
    BY <2>3, <2>4, <2>5 DEF Injection, IsInjective
  <2>7. f \in Surjection(B, D)
    <3>1. \A j \in D : \E i \in B : f[i] = j
      BY <2>2
    <3>. QED  BY <2>4, <3>1 DEF Surjection
  <2>. QED  BY <2>6, <2>7 DEF Bijection
<1>. HIDE DEF A, B, C, D, f
<1>5. IsFiniteSet(D) /\ Cardinality(D) = Cardinality(B)
  BY <1>2, <1>4, FS_Bijection DEF ExistsBijection
<1>6. Cardinality(C) = Cardinality(A) + Cardinality(D) - Cardinality({})
  BY <1>2, <1>3, <1>5, FS_Union
<1>7. /\ Cardinality(A) \in Nat /\ Cardinality(D) \in Nat
      /\ Cardinality({}) = 0
  BY <1>2, <1>5, FS_CardinalityType, FS_EmptySet
<1>8. Cardinality(C) = Cardinality(A) + Cardinality(B)
  BY <1>5, <1>6, <1>7
<1>. QED  BY <1>8 DEF A, B, C, Occurs

(* Taking the head off counts it once less.                                *)
LEMMA OccursTail ==
  ASSUME NEW S, NEW s \in Seq(S), s # <<>>, NEW x
  PROVE  Occurs(s, x) =
             Occurs(Tail(s), x) + (IF x = Head(s) THEN 1 ELSE 0)
<1>1. PICK y \in S : y = Head(s)
  BY HeadTailProperties
<1>2. PICK t \in Seq(S) : t = Tail(s)
  BY HeadTailProperties
<1>3. PICK e \in Seq(S) : e = <<>>
  BY EmptySeq
<1>4. PICK h \in Seq(S) : h = Append(e, y)
  BY AppendProperties
<1>5. s = h \o t
  BY <1>1, <1>2, <1>3, <1>4, HeadTailProperties
<1>6. Occurs(e, x) = 0
  BY <1>3, OccursEmpty
<1>7. Occurs(h, x) = IF x = y THEN Occurs(e, x) + 1 ELSE Occurs(e, x)
  BY <1>4, OccursAppend
<1>8. Occurs(t, x) \in 0..Len(t) /\ Len(t) \in Nat
  BY OccursType, LenProperties
<1>9. Occurs(h \o t, x) = Occurs(h, x) + Occurs(t, x)
  BY OccursConcat
<1>10. Occurs(s, x) = Occurs(t, x) + (IF x = y THEN 1 ELSE 0)
  BY <1>5, <1>6, <1>7, <1>8, <1>9
<1>. QED  BY <1>1, <1>2, <1>10

Copied(n, y) == [i \in 1..n |-> y]

(* n copies of y are a sequence that has y n times.                        *)
LEMMA OccursCopies ==
  ASSUME NEW S, NEW n \in Nat, NEW y \in S, NEW x
  PROVE  /\ Copied(n, y) \in Seq(S)
         /\ Len(Copied(n, y)) = n
         /\ DOMAIN Copied(n, y) = 1..n
         /\ \A i \in 1..n : Copied(n, y)[i] = y
         /\ Occurs(Copied(n, y), x) = IF x = y THEN n ELSE 0
<1>. DEFINE t == Copied(n, y)
<1>1. t \in Seq(S)
  BY IsASeq DEF Copied
<1>2. DOMAIN t = 1..n /\ \A i \in 1..n : t[i] = y
  BY DEF Copied
<1>3. {i \in DOMAIN t : t[i] = x} = IF x = y THEN 1..n ELSE {}
  BY <1>2
<1>4. Cardinality(1..n) = n /\ Cardinality({}) = 0
  BY FS_Interval, FS_EmptySet
<1>5. DOMAIN t = 1..Len(t) /\ Len(t) \in Nat
  BY <1>1, LenProperties
<1>. HIDE DEF t
<1>6. Len(t) = n
  BY <1>2, <1>5
<1>7. Occurs(t, x) = IF x = y THEN n ELSE 0
  BY <1>3, <1>4 DEF Occurs
<1>. QED  BY <1>1, <1>2, <1>6, <1>7 DEF t

-----------------------------------------------------------------------------
(* The invariant *)

(* One user and one dialog at a time, and what is to be broadcast is a     *)
(* message of the dialog in hand.                                          *)
ActorInv(c) ==
    /\ \A u, w \in conn[c].user : u = w
    /\ \A d, e \in conn[c].dialog : d = e
    /\ conn[c].pc \in {"new", "gone"} => conn[c].user = {}
    /\ conn[c].pc # "broadcast" => conn[c].sent = {}
    /\ \A m \in conn[c].sent :
           m \in Ids /\ \A d \in conn[c].dialog : messages[m].dialog = d

(* Who is about to save is a participant still, or the actor's check is    *)
(* out of date.                                                            *)
CheckInv ==
    \A c \in Conns : conn[c].pc = "save" =>
        \A u \in conn[c].user, d \in conn[c].dialog :
            u \in members[d] \/ c \in stale

(* A user whose status is sure has one connection at most.                 *)
PresenceInv ==
    /\ PresenceIsTrue
    /\ \A u \in Users \ unsure : \A c, e \in Conns :
           u \in conn[c].user /\ u \in conn[e].user => c = e

(* A message is with clients or in mailboxes only once it is broadcast,    *)
(* which one actor does.                                                   *)
Announced(m) == m \in Ids /\ \A c \in Conns : m \notin conn[c].sent
UnseenInv ==
    /\ \A c, e \in Conns : c # e => conn[c].sent \cap conn[e].sent = {}
    /\ \A c \in Conns :
           /\ \A i \in DOMAIN inbox[c] :
                  inbox[c][i] = 0 \/ Announced(inbox[c][i])
           /\ \A i \in DOMAIN got[c] :
                  got[c][i].own \/ Announced(got[c][i].id)

(* The client gets what it has been sent, then what is in the mailbox.     *)
Told(c, m) == \E i \in DOMAIN got[c] : got[c][i] = [id |-> m, own |-> FALSE]
Mailed(c, m) == \E i \in DOMAIN inbox[c] : inbox[c][i] = m
MailedInTurn(c, m, n) ==
    \E i, j \in DOMAIN inbox[c] :
        i < j /\ inbox[c][i] = m /\ inbox[c][j] = n
Before(c, m, n) ==
    \/ Sees(c, m, n)
    \/ Told(c, m) /\ Mailed(c, n)
    \/ MailedInTurn(c, m, n)
OrderInv ==
    \A m, n \in Ids : \A c, e \in Conns :
        m # n /\ Before(c, m, n) => ~Before(e, n, m)

(* Connections are on a list as often as their clients were told so.       *)
SubscribedInv ==
    \A c \in Conns : conn[c].pc # "gone" =>
        /\ conn[c].pc = "new" => \A d \in Dialogs : conn[c].subs[d] = 0
        /\ \A d \in Dialogs : Occurs(table[d], c) = conn[c].subs[d]
CopiesInv ==
    \A m \in Ids : \A c \in Conns : conn[c].pc # "gone" =>
        /\ Copies(c, m) <= conn[c].subs[messages[m].dialog]
        /\ c \in routed[m] => Copies(c, m) > 0

MemberInv == (\A c \in Conns : ActorInv(c)) /\ CheckInv
StreamInv == UnseenInv /\ OrderInv
CountInv == SubscribedInv /\ CopiesInv
HubInv == TypeOK /\ MemberInv /\ PresenceInv /\ StreamInv /\ CountInv
-----------------------------------------------------------------------------
(* Mailboxes *)

(* t is s with n copies of mail at its end.                                *)
Grown(s, t, n, mail) ==
    /\ DOMAIN s = 1..Len(s) /\ Len(s) \in Nat
    /\ DOMAIN t = 1..(Len(s) + n)
    /\ \A i \in 1..Len(s) : t[i] = s[i]
    /\ \A i \in (Len(s) + 1)..(Len(s) + n) : t[i] = mail

(* What do_send adds to a mailbox, and what it leaves of it.               *)
LEMMA MailAdded ==
  ASSUME NEW s \in Seq(Nat), NEW n \in Nat, NEW mail \in Nat
  PROVE  /\ s \o Copied(n, mail) \in Seq(Nat)
         /\ Grown(s, s \o Copied(n, mail), n, mail)
         /\ \A m : Occurs(s \o Copied(n, mail), m) =
                IF m = mail THEN Occurs(s, m) + n ELSE Occurs(s, m)
<1>1. PICK t : t = Copied(n, mail)
  OBVIOUS
<1>2. t \in Seq(Nat) /\ Len(t) = n
  BY <1>1, OccursCopies
<1>3. \A i \in 1..n : t[i] = mail
  BY <1>1, OccursCopies
<1>4. \A m : Occurs(t, m) = IF m = mail THEN n ELSE 0
  BY <1>1, OccursCopies
<1>5. \A m : Occurs(s \o t, m) = Occurs(s, m) + Occurs(t, m)
  BY <1>2, OccursConcat
<1>6. \A m : Occurs(s, m) \in Nat
  <2>. TAKE m
  <2>1. Occurs(s, m) \in 0..Len(s) /\ Len(s) \in Nat
    BY OccursType, LenProperties
  <2>. QED  BY <2>1
<1>7. \A m : Occurs(s \o t, m) =
                 IF m = mail THEN Occurs(s, m) + n ELSE Occurs(s, m)
  BY <1>4, <1>5, <1>6
<1>8. /\ s \o t \in Seq(Nat)
      /\ DOMAIN s = 1..Len(s) /\ Len(s) \in Nat
      /\ DOMAIN (s \o t) = 1..(Len(s) + n)
      /\ \A i \in 1..Len(s) : (s \o t)[i] = s[i]
      /\ \A i \in (Len(s) + 1)..(Len(s) + n) : (s \o t)[i] = t[i - Len(s)]
  <2>1. DOMAIN s = 1..Len(s) /\ Len(s) \in Nat
    BY LenProperties
  <2>2. s \o t \in Seq(Nat) /\ Len(s \o t) = Len(s) + n
    BY <1>2, ConcatProperties
  <2>3. DOMAIN (s \o t) = 1..(Len(s) + n)
    BY <2>2, LenProperties
  <2>4. \A i \in 1..(Len(s) + n) :
            (s \o t)[i] = IF i <= Len(s) THEN s[i] ELSE t[i - Len(s)]
    BY <1>2, ConcatProperties
  <2>. QED  BY <2>1, <2>2, <2>3, <2>4
<1>. QED  BY <1>1, <1>3, <1>7, <1>8 DEF Grown

(* Mail for everyone who is connected, to each as often as count says.     *)
Delivered(mail, count) ==
    inbox' = [e \in Conns |->
                 IF Open(e) THEN inbox[e] \o Copied(count[e], mail)
                 ELSE inbox[e]]

(* do_send over the list is mail for each as often as it is on the list.   *)
LEMMA BroadcastDelivers ==
  ASSUME TypeOK, NEW d \in Dialogs, NEW c, NEW m
  PROVE  Broadcast(c, Audience(d), m) =>
             /\ Delivered(m, [e \in Conns |-> Occurs(table[d], e)])
             /\ UNCHANGED got
BY DEF Broadcast, Audience, Post, Delivered, Occurs, Copied

Announcements(e) ==
    Cardinality({x \in Dialogs \X (1..MaxTexts) :
                    /\ x[2] \in DOMAIN table[x[1]]
                    /\ table[x[1]][x[2]] = e})

(* The lists of all dialogs are finitely many and finite.                  *)
LEMMA AnnouncementsType == \A e : Announcements(e) \in Nat
<1>1. IsFiniteSet(1..MaxTexts)
  BY HubBoundsAssumption, FS_Interval
<1>2. IsFiniteSet(Dialogs \X (1..MaxTexts))
  BY <1>1, HubDialogsAssumption, FS_Product
<1>. SUFFICES ASSUME NEW e PROVE Announcements(e) \in Nat
  OBVIOUS
<1>. DEFINE X == {x \in Dialogs \X (1..MaxTexts) :
                    /\ x[2] \in DOMAIN table[x[1]]
                    /\ table[x[1]][x[2]] = e}
<1>3. X \in SUBSET (Dialogs \X (1..MaxTexts))
  OBVIOUS
<1>4. IsFiniteSet(X)
  BY <1>2, <1>3, FS_Subset
<1>. QED  BY <1>4, FS_CardinalityType DEF Announcements

(* broadcast_status is mail to everyone on any list.                       *)
LEMMA AnnounceDelivers ==
  ASSUME NEW c
  PROVE  AuthAnnounce(c) => Delivered(0, [e \in Conns |-> Announcements(e)])
BY DEF AuthAnnounce, Delivered, Announcements, Copied

(* Mail leaves mailboxes well typed.                                       *)
LEMMA DeliveredType ==
  ASSUME TypeOK, NEW mail \in Nat, NEW count \in [Conns -> Nat],
         Delivered(mail, count)
  PROVE  inbox' \in [Conns -> Seq(Nat)]
<1>1. \A e \in Conns : inbox[e] \in Seq(Nat) /\ count[e] \in Nat
  BY DEF TypeOK, Mail
<1>2. \A e \in Conns : inbox[e] \o Copied(count[e], mail) \in Seq(Nat)
  BY <1>1, MailAdded
<1>. QED  BY <1>1, <1>2 DEF Delivered

-----------------------------------------------------------------------------
(* Types *)

ConnType == /\ conn \in [Conns -> Actor]
            /\ \A c \in Conns : Cardinality(conn[c].user) <= 1

(* An actor's step keeps the types of actors.                              *)
LEMMA ConnStep ==
  ASSUME TypeOK, NEW c \in Conns, NEW p, NEW u, NEW d, NEW s, NEW b,
         Becomes(c, p, u, d, s, b), Cardinality(u) <= 1
  PROVE  ConnType'
BY DEF TypeOK, ConnType, Becomes

(* So does a step in which no actor changes.                               *)
LEMMA ConnSame ==
  ASSUME TypeOK, UNCHANGED conn
  PROVE  ConnType'
BY DEF TypeOK, ConnType

(* No user, or one, is at most one.                                        *)
LEMMA OneUser == Cardinality({}) <= 1 /\ \A u : Cardinality({u}) <= 1
<1>1. Cardinality({}) <= 1
  <2>1. Cardinality({}) = 0
    BY FS_EmptySet
  <2>. QED  BY <2>1
<1>2. ASSUME NEW u PROVE Cardinality({u}) <= 1
  <2>1. Cardinality({u}) = 1
    BY FS_Singleton
  <2>. QED  BY <2>1
<1>. QED  BY <1>1, <1>2

StatusRows == {"none"} \cup Statuses

(* set_user_status keeps types, failing or not.                            *)
LEMMA StatusType ==
  ASSUME TypeOK, NEW c, NEW u \in Users, NEW v \in Statuses,
         SetStatus(c, u, v)
  PROVE  /\ status' \in [Users -> StatusRows]
         /\ unsure' \subseteq Users
BY DEF TypeOK, SetStatus, StatusRows

(* Types hold at the start.                                                *)
LEMMA TypeInit == Init => TypeOK
<1>. SUFFICES ASSUME Init PROVE TypeOK
  OBVIOUS
<1>1. PICK conns \in [Conns -> Actor],
           rows \in SUBSET [Users -> StatusRows] :
          /\ InitWith(conns, rows)
          /\ \A c \in Conns : Cardinality(conns[c].user) <= 1
  <2>1. Fresh("new") \in Actor /\ Fresh("idle") \in Actor
    BY FreshType DEF Labels
  <2>2. CASE InitWith([c \in Conns |-> Fresh("new")],
                      [Users -> {"none", "offline"}])
    <3>1. [c \in Conns |-> Fresh("new")] \in [Conns -> Actor]
      BY <2>1
    <3>2. [Users -> {"none", "offline"}]
              \in SUBSET [Users -> StatusRows]
      BY DEF StatusRows, Statuses
    <3>3. \A c \in Conns :
              Cardinality([e \in Conns |-> Fresh("new")][c].user) <= 1
      BY OneUser DEF Fresh
    <3>. QED  BY <2>2, <3>1, <3>2, <3>3
  <2>3. CASE \E who \in [Conns -> Users] :
           /\ \A c, e \in Conns : c # e => who[c] # who[e]
           /\ InitWith([c \in Conns |->
                            [Fresh("idle") EXCEPT !.user = {who[c]}]],
                       {[u \in Users |-> IF \E c \in Conns : who[c] = u
                                        THEN "online" ELSE "none"]})
    <3>1. PICK who \in [Conns -> Users] :
             InitWith([c \in Conns |->
                           [Fresh("idle") EXCEPT !.user = {who[c]}]],
                      {[u \in Users |-> IF \E c \in Conns : who[c] = u
                                        THEN "online" ELSE "none"]})
      BY <2>3
    <3>2. \A c \in Conns :
              /\ [Fresh("idle") EXCEPT !.user = {who[c]}] \in Actor
              /\ [Fresh("idle") EXCEPT !.user = {who[c]}].user = {who[c]}
      BY <2>1 DEF Actor, Fresh
    <3>3. [c \in Conns |-> [Fresh("idle") EXCEPT !.user = {who[c]}]]
              \in [Conns -> Actor]
      BY <3>2
    <3>4. \A c \in Conns :
              Cardinality([e \in Conns |-> [Fresh("idle") EXCEPT
                                  !.user = {who[e]}]][c].user) <= 1
      <4>. TAKE c \in Conns
      <4>1. [e \in Conns |-> [Fresh("idle") EXCEPT !.user = {who[e]}]][c]
              = [Fresh("idle") EXCEPT !.user = {who[c]}]
        OBVIOUS
      <4>2. [e \in Conns |-> [Fresh("idle") EXCEPT !.user = {who[e]}]][c].user
              = {who[c]}
        BY <3>2, <4>1
      <4>3. Cardinality({who[c]}) <= 1
        BY OneUser
      <4>. QED  BY <4>2, <4>3
    <3>5. {[u \in Users |-> IF \E c \in Conns : who[c] = u
                            THEN "online" ELSE "none"]}
              \in SUBSET [Users -> StatusRows]
      BY DEF StatusRows, Statuses
    <3>. QED  BY <3>1, <3>3, <3>4, <3>5
  <2>. QED  BY <2>2, <2>3 DEF Init
<1>2. /\ conn \in [Conns -> Actor]
      /\ \A c \in Conns : Cardinality(conn[c].user) <= 1
      /\ status \in [Users -> StatusRows]
      /\ inbox = [c \in Conns |-> <<>>] /\ table = [d \in Dialogs |-> <<>>]
      /\ members = Participants /\ messages = <<>> /\ texts = 0
      /\ got = [c \in Conns |-> <<>>] /\ routed = <<>>
      /\ unsure = {} /\ stale = {}
  BY <1>1 DEF InitWith
<1>3. <<>> \in Seq(Mail) /\ <<>> \in Seq(Conns) /\ <<>> \in Seq(Message)
      /\ <<>> \in Seq(Text) /\ <<>> \in Seq(SUBSET Conns) /\ Len(<<>>) = 0
  BY EmptySeq
<1>. QED
  BY <1>2, <1>3, HubParticipantsAssumption, HubBoundsAssumption
     DEF TypeOK, StatusRows

(* What each action makes of the actor whose step it is.                   *)
Goes(c, pc) ==
    Becomes(c, pc, conn[c].user, conn[c].dialog, conn[c].sent, conn[c].subs)

(* Only the label changes.                                                 *)
LEMMA GotoGoes ==
  ASSUME TypeOK, NEW c \in Conns, NEW p \in Labels, Goto(c, p)
  PROVE  Goes(c, p)
BY NewPc DEF TypeOK, Goto, Goes

(* Close, an error, or the end of the stream.                              *)
LEMMA StopMoves ==
  ASSUME TypeOK, NEW c \in Conns, Stop(c)
  PROVE  Becomes(c, "gone", {}, {}, {}, [d \in Dialogs |-> 0])
BY NewActor DEF TypeOK, Stop

(* auth: the user is refused, or is the connection's from now on.          *)
LEMMA AuthMoves ==
  ASSUME TypeOK, NEW c \in Conns, Auth(c)
  PROVE  \/ UNCHANGED <<conn, unsure>>
         \/ \E u \in Users :
                /\ Becomes(c, "online", {u}, conn[c].dialog, conn[c].sent,
                           conn[c].subs)
                /\ unsure' = unsure \cup (conn[c].user \ {u})
                     \cup ({u} \cap UsersOf(Conns \ {c}))
<1>1. CASE UNCHANGED <<conn, unsure>>
  BY <1>1
<1>2. ASSUME NEW u \in Users,
             conn' = [conn EXCEPT ![c].pc = "online",
                                  ![c].user = SetUser(c, u)]
      PROVE  Becomes(c, "online", {u}, conn[c].dialog, conn[c].sent,
                     conn[c].subs)
  <2>1. conn' = [conn EXCEPT ![c].pc = "online", ![c].user = {u}]
    BY <1>2 DEF SetUser
  <2>. QED  BY <2>1, NewUser DEF TypeOK, Labels
<1>. QED  BY <1>1, <1>2 DEF Auth

(* subscribe: refused, or on to add_connection.                            *)
LEMMA SubscribeMoves ==
  ASSUME TypeOK, NEW c \in Conns, Subscribe(c)
  PROVE  \/ UNCHANGED conn
         \/ \E d \in Dialogs : Becomes(c, "register", conn[c].user, {d},
                                       conn[c].sent, conn[c].subs)
<1>1. ASSUME NEW d \in Dialogs,
             conn' = [conn EXCEPT ![c].pc = "register", ![c].dialog = {d}]
      PROVE  Becomes(c, "register", conn[c].user, {d}, conn[c].sent,
                     conn[c].subs)
  BY <1>1, NewDialog DEF TypeOK, Labels
<1>. QED  BY <1>1 DEF Subscribe

(* add_connection puts the connection on the dialog's list.                *)
LEMMA RegisterMoves ==
  ASSUME TypeOK, NEW c \in Conns, Register(c)
  PROVE  \E d \in conn[c].dialog :
            /\ d \in Dialogs
            /\ table' = [table EXCEPT ![d] = Append(table[d], c)]
            /\ Becomes(c, "idle", conn[c].user, {}, conn[c].sent,
                       [conn[c].subs EXCEPT ![d] = conn[c].subs[d] + 1])
<1>1. PICK d \in conn[c].dialog :
          /\ table' = [table EXCEPT ![d] = AddConnection(table[d], c)]
          /\ conn' = [conn EXCEPT ![c].pc = "idle", ![c].dialog = {},
                                  ![c].subs[d] = @ + 1]
  BY DEF Register
<1>2. d \in Dialogs
  BY DEF TypeOK, Actor
<1>3. Becomes(c, "idle", conn[c].user, {}, conn[c].sent,
              [conn[c].subs EXCEPT ![d] = conn[c].subs[d] + 1])
  BY <1>1, <1>2, NewSubs DEF TypeOK
<1>. QED  BY <1>1, <1>2, <1>3 DEF AddConnection

(* send_message: refused, or on to save_message for a participant.         *)
LEMMA SendMessageMoves ==
  ASSUME TypeOK, NEW c \in Conns, SendMessage(c)
  PROVE  \/ UNCHANGED conn
         \/ \E d \in Dialogs :
                /\ IsMember(c, d)
                /\ Becomes(c, "save", conn[c].user, {d}, conn[c].sent,
                           conn[c].subs)
<1>1. ASSUME NEW d \in Dialogs,
             conn' = [conn EXCEPT ![c].pc = "save", ![c].dialog = {d}]
      PROVE  Becomes(c, "save", conn[c].user, {d}, conn[c].sent,
                     conn[c].subs)
  BY <1>1, NewDialog DEF TypeOK, Labels
<1>. QED  BY <1>1 DEF SendMessage

SaveFails(c) ==
    /\ Becomes(c, "idle", conn[c].user, {}, conn[c].sent, conn[c].subs)
    /\ UNCHANGED <<messages, got, routed>>
Saves(c, d, u) ==
    /\ d \in Dialogs /\ u \in Users
    /\ Len(messages) < MaxMessages
    /\ messages' = Append(messages, [dialog |-> d, sender |-> u])
    /\ got' = [got EXCEPT ![c] =
           Append(got[c], [id |-> Len(messages) + 1, own |-> TRUE])]
    /\ routed' = Append(routed, {})
    /\ Becomes(c, "broadcast", conn[c].user, conn[c].dialog,
               {Len(messages) + 1}, conn[c].subs)

(* save_message fails, or saves for the user and dialog in hand.           *)
LEMMA SaveMoves ==
  ASSUME TypeOK, NEW c \in Conns, Save(c)
  PROVE  \/ SaveFails(c)
         \/ \E d \in conn[c].dialog, u \in conn[c].user : Saves(c, d, u)
<1>1. conn[c].dialog \subseteq Dialogs /\ conn[c].user \subseteq Users
  BY DEF TypeOK, Actor
<1>2. ASSUME conn' = [conn EXCEPT ![c].pc = "idle", ![c].dialog = {}]
      PROVE  Becomes(c, "idle", conn[c].user, {}, conn[c].sent,
                     conn[c].subs)
  BY <1>2, NewDialog DEF TypeOK, Labels
<1>3. ASSUME conn' = [conn EXCEPT ![c].pc = "broadcast",
                                  ![c].sent = {Len(messages) + 1}]
      PROVE  Becomes(c, "broadcast", conn[c].user, conn[c].dialog,
                     {Len(messages) + 1}, conn[c].subs)
  <2>1. {Len(messages) + 1} \in SUBSET Nat
    BY LenProperties DEF TypeOK
  <2>. QED  BY <1>3, <2>1, NewSent DEF TypeOK, Labels
<1>. QED  BY <1>1, <1>2, <1>3 DEF Save, SaveFails, Saves

(* broadcast_to_dialog, and the request is over.                           *)
LEMMA BroadcastMoves ==
  ASSUME TypeOK, NEW c \in Conns, BroadcastMessage(c)
  PROVE  \E d \in conn[c].dialog, m \in conn[c].sent :
            /\ d \in Dialogs /\ m \in Nat
            /\ Delivered(m, [e \in Conns |-> Occurs(table[d], e)])
            /\ routed' = [routed EXCEPT ![m] =
                   {e \in Conns : Open(e) /\ conn[e].subs[d] > 0}]
            /\ UNCHANGED got
            /\ Becomes(c, "idle", conn[c].user, {}, {}, conn[c].subs)
<1>1. PICK d \in conn[c].dialog, m \in conn[c].sent :
          /\ Broadcast(c, Audience(d), m)
          /\ routed' = [routed EXCEPT ![m] =
                 {e \in Conns : Open(e) /\ conn[e].subs[d] > 0}]
  BY DEF BroadcastMessage
<1>2. d \in Dialogs /\ m \in Nat
  BY DEF TypeOK, Actor
<1>3. Becomes(c, "idle", conn[c].user, {}, {}, conn[c].subs)
  BY NoRequest DEF TypeOK, BroadcastMessage
<1>. QED  BY <1>1, <1>2, <1>3, BroadcastDelivers

(* A change of label keeps the types of actors.                            *)
LEMMA GotoType ==
  ASSUME TypeOK, NEW c \in Conns, NEW p, Goes(c, p)
  PROVE  ConnType'
BY ConnStep DEF TypeOK, Goes

(* A restart keeps types.                                                  *)
LEMMA RestartType ==
  ASSUME TypeOK, Restart
  PROVE  TypeOK'
<1>1. \A c \in Conns : conn'[c] = IF Open(c) THEN Fresh("gone") ELSE conn[c]
  BY DEF Restart
<1>2. Fresh("gone") \in Actor /\ Fresh("gone").user = {}
  BY FreshType DEF Labels, Fresh
<1>3. conn' \in [Conns -> Actor]
  BY <1>2 DEF Restart, TypeOK
<1>4. \A c \in Conns : Cardinality(conn'[c].user) <= 1
  BY <1>1, <1>2, OneUser DEF TypeOK
<1>5. <<>> \in Seq(Mail) /\ <<>> \in Seq(Conns)
  BY EmptySeq
<1>. QED  BY <1>3, <1>4, <1>5 DEF Restart, TypeOK

(* Types are kept by every step.                                           *)
LEMMA TypeNext ==
  ASSUME TypeOK, [Next]_vars
  PROVE  TypeOK'
<1>1. ASSUME NEW c \in Conns, Connect(c) PROVE TypeOK'
  <2>1. ConnType'
    BY <1>1, GotoGoes, GotoType DEF Connect, Labels
  <2>. QED  BY <1>1, <2>1 DEF TypeOK, ConnType, Connect, history
<1>2. ASSUME NEW c \in Conns, Stop(c) PROVE TypeOK'
  <2>1. ConnType'
    BY <1>2, StopMoves, ConnStep, OneUser
  <2>2. conn[c].user \subseteq Users
    BY DEF TypeOK, Actor
  <2>3. /\ status' \in [Users -> StatusRows]
        /\ unsure' \subseteq Users
    <3>1. CASE UNCHANGED <<status, unsure>>
      BY <3>1 DEF TypeOK, StatusRows
    <3>2. CASE \E u \in conn[c].user : SetStatus(c, u, "offline")
      BY <2>2, <3>2, StatusType DEF Statuses
    <3>. QED  BY <1>2, <3>1, <3>2 DEF Stop, Offline
  <2>4. <<>> \in Seq(Mail)
    BY EmptySeq
  <2>5. inbox' \in [Conns -> Seq(Mail)]
    BY <1>2, <2>4 DEF TypeOK, Stop
  <2>. QED  BY <1>2, <2>1, <2>3, <2>5 DEF TypeOK, ConnType, Stop, StatusRows
<1>3. ASSUME NEW c \in Conns, Auth(c) PROVE TypeOK'
  <2>1. ConnType' /\ unsure' \subseteq Users
    <3>1. CASE UNCHANGED <<conn, unsure>>
      BY <3>1, ConnSame DEF TypeOK
    <3>2. ASSUME NEW u \in Users,
                 Becomes(c, "online", {u}, conn[c].dialog, conn[c].sent,
                         conn[c].subs),
                 unsure' = unsure \cup (conn[c].user \ {u})
                     \cup ({u} \cap UsersOf(Conns \ {c}))
          PROVE  ConnType' /\ unsure' \subseteq Users
      <4>1. Cardinality({u}) <= 1
        BY OneUser
      <4>2. conn[c].user \subseteq Users
        BY DEF TypeOK, Actor
      <4>. QED  BY <3>2, <4>1, <4>2, ConnStep DEF TypeOK
    <3>. QED  BY <1>3, <3>1, <3>2, AuthMoves
  <2>. QED  BY <1>3, <2>1, HubBoundsAssumption
            DEF TypeOK, ConnType, Auth, Ask
<1>4. ASSUME NEW c \in Conns, AuthOnline(c) PROVE TypeOK'
  <2>1. ConnType'
    BY <1>4, GotoGoes, GotoType DEF AuthOnline, Labels
  <2>2. conn[c].user \subseteq Users
    BY DEF TypeOK, Actor
  <2>3. /\ status' \in [Users -> StatusRows]
        /\ unsure' \subseteq Users
    BY <1>4, <2>2, StatusType DEF AuthOnline, Statuses
  <2>. QED  BY <1>4, <2>1, <2>3 DEF TypeOK, ConnType, AuthOnline, StatusRows
<1>5. ASSUME NEW c \in Conns, AuthAnnounce(c) PROVE TypeOK'
  <2>1. ConnType'
    BY <1>5, GotoGoes, GotoType DEF AuthAnnounce, Labels
  <2>2. [e \in Conns |-> Announcements(e)] \in [Conns -> Nat]
    BY AnnouncementsType
  <2>3. inbox' \in [Conns -> Seq(Nat)]
    BY <1>5, <2>2, AnnounceDelivers, DeliveredType
  <2>. QED
    BY <1>5, <2>1, <2>3 DEF TypeOK, ConnType, AuthAnnounce, Mail, history
<1>6. ASSUME NEW c \in Conns, Subscribe(c) PROVE TypeOK'
  <2>1. ConnType'
    BY <1>6, SubscribeMoves, ConnStep, ConnSame DEF TypeOK
  <2>. QED  BY <1>6, <2>1, HubBoundsAssumption
            DEF TypeOK, ConnType, Subscribe, Ask, history
<1>7. ASSUME NEW c \in Conns, Register(c) PROVE TypeOK'
  <2>1. PICK d \in Dialogs :
            /\ table' = [table EXCEPT ![d] = Append(table[d], c)]
            /\ Becomes(c, "idle", conn[c].user, {}, conn[c].sent,
                       [conn[c].subs EXCEPT ![d] = conn[c].subs[d] + 1])
    BY <1>7, RegisterMoves
  <2>2. ConnType'
    BY <2>1, ConnStep DEF TypeOK
  <2>3. table[d] \in Seq(Conns)
    BY DEF TypeOK
  <2>4. Append(table[d], c) \in Seq(Conns)
    BY <2>3, AppendProperties
  <2>. QED  BY <1>7, <2>1, <2>2, <2>4 DEF TypeOK, ConnType, Register, history
<1>8. ASSUME NEW c \in Conns, SendMessage(c) PROVE TypeOK'
  <2>1. ConnType'
    BY <1>8, SendMessageMoves, ConnStep, ConnSame DEF TypeOK
  <2>. QED  BY <1>8, <2>1, HubBoundsAssumption
            DEF TypeOK, ConnType, SendMessage, Ask, history
<1>9. ASSUME NEW c \in Conns, Save(c) PROVE TypeOK'
  <2>1. CASE SaveFails(c)
    <3>1. ConnType'
      BY <2>1, ConnStep DEF TypeOK, SaveFails
    <3>. QED  BY <1>9, <2>1, <3>1 DEF TypeOK, ConnType, Save, SaveFails
  <2>2. ASSUME NEW d \in conn[c].dialog, NEW u \in conn[c].user,
               Saves(c, d, u)
        PROVE  TypeOK'
    <3>1. ConnType'
      BY <2>2, ConnStep DEF TypeOK, Saves
    <3>2. PICK a \in Message : a = [dialog |-> d, sender |-> u]
      BY <2>2 DEF Message, Saves
    <3>3. /\ messages' \in Seq(Message)
          /\ Len(messages') = Len(messages) + 1 /\ Len(messages) \in Nat
      BY <2>2, <3>2, AppendProperties, LenProperties DEF TypeOK, Saves
    <3>4. PICK x \in Text : x = [id |-> Len(messages) + 1, own |-> TRUE]
      <4>1. Len(messages) + 1 \in Nat
        BY <3>3
      <4>2. [id |-> Len(messages) + 1, own |-> TRUE] \in Text
        BY <4>1 DEF Text
      <4>. QED  BY <4>2
    <3>5. Append(got[c], x) \in Seq(Text)
      BY AppendProperties DEF TypeOK
    <3>6. got' \in [Conns -> Seq(Text)]
      BY <2>2, <3>4, <3>5 DEF TypeOK, Saves
    <3>7. PICK none \in SUBSET Conns : none = {}
      OBVIOUS
    <3>8. routed' \in Seq(SUBSET Conns) /\ Len(routed') = Len(routed) + 1
      <4>1. routed \in Seq(SUBSET Conns)
        BY DEF TypeOK
      <4>2. routed' = Append(routed, none)
        BY <2>2, <3>7 DEF Saves
      <4>. QED  BY <4>1, <4>2, AppendProperties, Zenon
    <3>9. Len(messages') <= MaxMessages
      BY <2>2, <3>3, HubBoundsAssumption DEF Saves
    <3>. QED  BY <1>9, <2>2, <3>1, <3>3, <3>6, <3>8, <3>9
              DEF TypeOK, ConnType, Save
  <2>. QED  BY <1>9, <2>1, <2>2, SaveMoves
<1>10. ASSUME NEW c \in Conns, BroadcastMessage(c) PROVE TypeOK'
  <2>1. PICK d \in Dialogs, m \in Nat :
            /\ Delivered(m, [e \in Conns |-> Occurs(table[d], e)])
            /\ routed' = [routed EXCEPT ![m] =
                   {e \in Conns : Open(e) /\ conn[e].subs[d] > 0}]
            /\ UNCHANGED got
            /\ Becomes(c, "idle", conn[c].user, {}, {}, conn[c].subs)
    BY <1>10, BroadcastMoves
  <2>2. ConnType'
    BY <2>1, ConnStep DEF TypeOK
  <2>3. [e \in Conns |-> Occurs(table[d], e)] \in [Conns -> Nat]
    <3>1. \A e : Occurs(table[d], e) \in 0..Len(table[d])
      BY OccursType DEF TypeOK
    <3>2. Len(table[d]) \in Nat
      BY LenProperties DEF TypeOK
    <3>. QED  BY <3>1, <3>2
  <2>4. inbox' \in [Conns -> Seq(Nat)]
    BY <2>1, <2>3, DeliveredType
  <2>5. routed' \in Seq(SUBSET Conns) /\ Len(routed') = Len(routed)
    <3>1. PICK S \in SUBSET Conns :
              S = {e \in Conns : Open(e) /\ conn[e].subs[d] > 0}
      OBVIOUS
    <3>2. routed' = [routed EXCEPT ![m] = S] /\ routed \in Seq(SUBSET Conns)
      BY <2>1, <3>1 DEF TypeOK
    <3>3. routed \in [1..Len(routed) -> SUBSET Conns]
      BY <3>2, LenProperties
    <3>4. CASE m \in 1..Len(routed)
      BY <3>2, <3>4, ExceptSeq
    <3>5. CASE m \notin 1..Len(routed)
      <4>1. routed' = routed
        BY <3>2, <3>3, <3>5
      <4>. QED  BY <3>2, <4>1
    <3>. QED  BY <3>4, <3>5
  <2>. QED  BY <1>10, <2>1, <2>2, <2>4, <2>5
            DEF TypeOK, ConnType, BroadcastMessage, Mail
<1>11. ASSUME NEW c \in Conns, Handle(c) PROVE TypeOK'
  <2>1. inbox[c] \in Seq(Mail) /\ inbox[c] # <<>>
    BY <1>11 DEF TypeOK, Handle
  <2>2. Head(inbox[c]) \in Mail /\ Tail(inbox[c]) \in Seq(Mail)
    BY <2>1, HeadTailProperties
  <2>3. inbox' \in [Conns -> Seq(Mail)]
    BY <1>11, <2>2 DEF TypeOK, Handle
  <2>4. PICK x \in Text : x = [id |-> Head(inbox[c]), own |-> FALSE]
    BY <2>2 DEF Text, Mail
  <2>5. Append(got[c], x) \in Seq(Text)
    BY AppendProperties DEF TypeOK
  <2>6. got' \in [Conns -> Seq(Text)]
    BY <1>11, <2>4, <2>5 DEF TypeOK, Handle
  <2>. QED  BY <1>11, <2>3, <2>6 DEF TypeOK, Handle
<1>12. ASSUME Leave PROVE TypeOK'
  BY <1>12 DEF TypeOK, Leave, history
<1>13. ASSUME UNCHANGED vars PROVE TypeOK'
  BY <1>13 DEF TypeOK, vars, history
<1>14. ASSUME UpdateStatus PROVE TypeOK'
  BY <1>14, HubBoundsAssumption DEF TypeOK, UpdateStatus
<1>. QED
  BY <1>1, <1>2, <1>3, <1>4, <1>5, <1>6, <1>7, <1>8, <1>9, <1>10, <1>11,
     <1>12, <1>13, <1>14, RestartType DEF Next, Work

-----------------------------------------------------------------------------
(* Who sends *)

(* Messages are only added.                                                *)
LEMMA SavesAdds ==
  ASSUME TypeOK, NEW c, NEW d, NEW u, Saves(c, d, u)
  PROVE  /\ Ids' = Ids \cup {Len(messages) + 1}
         /\ Len(messages) \in Nat
         /\ Ids = 1..Len(messages)
         /\ \A m \in Ids : messages'[m] = messages[m]
         /\ messages'[Len(messages) + 1].dialog = d
         /\ messages'[Len(messages) + 1].sender = u
<1>1. PICK a \in Message : a = [dialog |-> d, sender |-> u]
  BY DEF Message, Saves
<1>2. a.dialog = d /\ a.sender = u
  BY <1>1
<1>3. messages' = Append(messages, a) /\ messages \in Seq(Message)
  BY <1>1 DEF TypeOK, Saves
<1>4. Ids = 1..Len(messages) /\ Len(messages) \in Nat
  BY <1>3, LenProperties DEF Ids
<1>5. messages' \in Seq(Message) /\ Len(messages') = Len(messages) + 1
  BY <1>3, AppendProperties
<1>6. Ids' = 1..(Len(messages) + 1)
  BY <1>5, LenProperties DEF Ids
<1>7. /\ \A m \in 1..Len(messages) : messages'[m] = messages[m]
      /\ messages'[Len(messages) + 1] = a
  BY <1>3, AppendProperties
<1>. QED  BY <1>2, <1>4, <1>6, <1>7

MessagesKept == \A m \in Ids : m \in Ids' /\ messages'[m] = messages[m]

(* Where messages are not touched they are kept.                           *)
LEMMA SameMessages ==
  ASSUME UNCHANGED messages
  PROVE  MessagesKept /\ Ids' = Ids
BY DEF MessagesKept, Ids

(* What holds of an actor holds while it is left alone.                    *)
LEMMA ActorStays ==
  ASSUME NEW c \in Conns, ActorInv(c), conn'[c] = conn[c], MessagesKept
  PROVE  ActorInv(c)'
BY DEF ActorInv, MessagesKept

(* Nobody has sent anything at the start.                                  *)
LEMMA MemberInit == Init => MemberInv
<1>. SUFFICES ASSUME Init PROVE MemberInv
  OBVIOUS
<1>1. \A c \in Conns : /\ conn[c].pc \in {"new", "idle"}
                       /\ conn[c].pc = "new" => conn[c].user = {}
                       /\ \A u, w \in conn[c].user : u = w
                       /\ conn[c].dialog = {} /\ conn[c].sent = {}
  <2>1. CASE conn = [c \in Conns |-> Fresh("new")]
    BY <2>1 DEF Fresh
  <2>2. ASSUME NEW who \in [Conns -> Users],
               conn = [c \in Conns |-> [Fresh("idle") EXCEPT !.user = {who[c]}]]
        PROVE  \A c \in Conns : /\ conn[c].pc = "idle"
                                /\ \A u, w \in conn[c].user : u = w
                                /\ conn[c].dialog = {} /\ conn[c].sent = {}
    BY <2>2 DEF Fresh
  <2>. QED  BY <2>1, <2>2 DEF Init, InitWith
<1>2. \A c \in Conns : ActorInv(c)
  BY <1>1 DEF ActorInv
<1>. QED  BY <1>1, <1>2 DEF MemberInv, CheckInv

(* One actor's step leaves the others as they are.                         *)
LEMMA OthersStay ==
  ASSUME NEW c \in Conns, NEW p, NEW u, NEW d, NEW s, NEW b,
         Becomes(c, p, u, d, s, b), MessagesKept, ActorInv(c)',
         \A e \in Conns : ActorInv(e)
  PROVE  \A e \in Conns : ActorInv(e)'
<1>. TAKE e \in Conns
<1>1. CASE e = c
  BY <1>1
<1>2. CASE e # c
  BY <1>2, ActorStays DEF Becomes
<1>. QED  BY <1>1, <1>2

(* Every step keeps what holds of actors.                                  *)
LEMMA ActorNext ==
  ASSUME TypeOK, MemberInv, [Next]_vars
  PROVE  \A e \in Conns : ActorInv(e)'
<1>. USE DEF MemberInv
<1>0. ASSUME UNCHANGED conn, UNCHANGED messages
      PROVE  \A e \in Conns : ActorInv(e)'
  BY <1>0, SameMessages, ActorStays
<1>1. ASSUME NEW c \in Conns, Connect(c) PROVE \A e \in Conns : ActorInv(e)'
  <2>1. Goes(c, "idle") /\ conn[c].pc = "new" /\ UNCHANGED messages
    BY <1>1, GotoGoes DEF Connect, Labels
  <2>2. ActorInv(c)'
    BY <2>1 DEF Goes, Becomes, ActorInv, Ids
  <2>. QED  BY <2>1, <2>2, OthersStay, SameMessages DEF Goes
<1>2. ASSUME NEW c \in Conns, Stop(c) PROVE \A e \in Conns : ActorInv(e)'
  <2>1. /\ Becomes(c, "gone", {}, {}, {}, [d \in Dialogs |-> 0])
        /\ UNCHANGED messages
    BY <1>2, StopMoves DEF Stop
  <2>2. ActorInv(c)'
    BY <2>1 DEF Becomes, ActorInv
  <2>. QED  BY <2>1, <2>2, OthersStay, SameMessages
<1>3. ASSUME NEW c \in Conns, Auth(c) PROVE \A e \in Conns : ActorInv(e)'
  <2>1. conn[c].pc = "idle" /\ UNCHANGED messages
    BY <1>3 DEF Auth, Ask
  <2>2. ASSUME NEW u \in Users,
               Becomes(c, "online", {u}, conn[c].dialog, conn[c].sent,
                       conn[c].subs)
        PROVE  \A e \in Conns : ActorInv(e)'
    <3>1. ActorInv(c)'
      BY <2>1, <2>2 DEF Becomes, ActorInv, Ids
    <3>. QED  BY <2>1, <2>2, <3>1, OthersStay, SameMessages
  <2>. QED  BY <1>0, <1>3, <2>1, <2>2, AuthMoves
<1>4. ASSUME NEW c \in Conns, AuthOnline(c)
      PROVE  \A e \in Conns : ActorInv(e)'
  <2>1. Goes(c, "announce") /\ conn[c].pc = "online" /\ UNCHANGED messages
    BY <1>4, GotoGoes DEF AuthOnline, Labels
  <2>2. ActorInv(c)'
    BY <2>1 DEF Goes, Becomes, ActorInv, Ids
  <2>. QED  BY <2>1, <2>2, OthersStay, SameMessages DEF Goes
<1>5. ASSUME NEW c \in Conns, AuthAnnounce(c)
      PROVE  \A e \in Conns : ActorInv(e)'
  <2>1. Goes(c, "idle") /\ conn[c].pc = "announce" /\ UNCHANGED messages
    BY <1>5, GotoGoes DEF AuthAnnounce, Labels
  <2>2. ActorInv(c)'
    BY <2>1 DEF Goes, Becomes, ActorInv, Ids
  <2>. QED  BY <2>1, <2>2, OthersStay, SameMessages DEF Goes
<1>6. ASSUME NEW c \in Conns, Subscribe(c)
      PROVE  \A e \in Conns : ActorInv(e)'
  <2>1. conn[c].pc = "idle" /\ UNCHANGED messages
    BY <1>6 DEF Subscribe, Ask
  <2>2. ASSUME NEW d \in Dialogs,
               Becomes(c, "register", conn[c].user, {d}, conn[c].sent,
                       conn[c].subs)
        PROVE  \A e \in Conns : ActorInv(e)'
    <3>1. ActorInv(c)'
      BY <2>1, <2>2 DEF Becomes, ActorInv
    <3>. QED  BY <2>1, <2>2, <3>1, OthersStay, SameMessages
  <2>. QED  BY <1>0, <1>6, <2>1, <2>2, SubscribeMoves
<1>7. ASSUME NEW c \in Conns, Register(c)
      PROVE  \A e \in Conns : ActorInv(e)'
  <2>1. conn[c].pc = "register" /\ UNCHANGED messages
    BY <1>7 DEF Register
  <2>2. PICK d \in Dialogs :
            Becomes(c, "idle", conn[c].user, {}, conn[c].sent,
                    [conn[c].subs EXCEPT ![d] = conn[c].subs[d] + 1])
    BY <1>7, RegisterMoves
  <2>3. ActorInv(c)'
    BY <2>1, <2>2 DEF Becomes, ActorInv
  <2>. QED  BY <2>1, <2>2, <2>3, OthersStay, SameMessages
<1>8. ASSUME NEW c \in Conns, SendMessage(c)
      PROVE  \A e \in Conns : ActorInv(e)'
  <2>1. conn[c].pc = "idle" /\ UNCHANGED messages
    BY <1>8 DEF SendMessage, Ask
  <2>2. ASSUME NEW d \in Dialogs, IsMember(c, d),
               Becomes(c, "save", conn[c].user, {d}, conn[c].sent,
                       conn[c].subs)
        PROVE  \A e \in Conns : ActorInv(e)'
    <3>1. ActorInv(c)'
      BY <2>1, <2>2 DEF Becomes, ActorInv
    <3>. QED  BY <2>1, <2>2, <3>1, OthersStay, SameMessages
  <2>. QED  BY <1>0, <1>8, <2>1, <2>2, SendMessageMoves
<1>9. ASSUME NEW c \in Conns, Save(c) PROVE \A e \in Conns : ActorInv(e)'
  <2>1. conn[c].pc = "save"
    BY <1>9 DEF Save
  <2>2. CASE SaveFails(c)
    <3>1. ActorInv(c)'
      BY <2>1, <2>2 DEF SaveFails, Becomes, ActorInv
    <3>. QED  BY <2>2, <3>1, OthersStay, SameMessages DEF SaveFails
  <2>3. ASSUME NEW d \in conn[c].dialog, NEW u \in conn[c].user,
               Saves(c, d, u)
        PROVE  \A e \in Conns : ActorInv(e)'
    <3>1. MessagesKept
      BY <2>3, SavesAdds DEF MessagesKept
    <3>2. \A x \in conn[c].dialog : x = d
      BY DEF ActorInv
    <3>3. Len(messages) + 1 \in Ids'
          /\ messages'[Len(messages) + 1].dialog = d
      BY <2>3, SavesAdds
    <3>4. Becomes(c, "broadcast", conn[c].user, conn[c].dialog,
                  {Len(messages) + 1}, conn[c].subs)
      BY <2>3 DEF Saves
    <3>5. ActorInv(c)'
      BY <2>1, <3>2, <3>3, <3>4 DEF Becomes, ActorInv
    <3>. QED  BY <3>1, <3>4, <3>5, OthersStay
  <2>. QED  BY <1>9, <2>2, <2>3, SaveMoves
<1>10. ASSUME NEW c \in Conns, BroadcastMessage(c)
       PROVE  \A e \in Conns : ActorInv(e)'
  <2>1. /\ Becomes(c, "idle", conn[c].user, {}, {}, conn[c].subs)
        /\ UNCHANGED messages
    BY <1>10, BroadcastMoves DEF BroadcastMessage
  <2>2. ActorInv(c)'
    BY <2>1 DEF Becomes, ActorInv
  <2>. QED  BY <2>1, <2>2, OthersStay, SameMessages
<1>11. ASSUME Restart PROVE \A e \in Conns : ActorInv(e)'
  <2>. TAKE e \in Conns
  <2>1. /\ conn'[e] = IF Open(e) THEN Fresh("gone") ELSE conn[e]
        /\ UNCHANGED messages
    BY <1>11 DEF Restart
  <2>2. CASE conn'[e] = conn[e]
    BY <2>1, <2>2, ActorStays, SameMessages
  <2>3. CASE conn'[e] = Fresh("gone")
    BY <2>3 DEF ActorInv, Fresh
  <2>. QED  BY <2>1, <2>2, <2>3
<1>12. ASSUME NEW c \in Conns, Handle(c)
       PROVE  \A e \in Conns : ActorInv(e)'
  BY <1>0, <1>12 DEF Handle
<1>13. CASE Leave
  BY <1>0, <1>13 DEF Leave
<1>14. CASE UNCHANGED vars
  BY <1>0, <1>14 DEF vars
<1>15. CASE UpdateStatus
  BY <1>0, <1>15 DEF UpdateStatus
<1>. HIDE DEF MemberInv
<1>. QED
  BY <1>1, <1>2, <1>3, <1>4, <1>5, <1>6, <1>7, <1>8, <1>9, <1>10, <1>11,
     <1>12, <1>13, <1>14, <1>15 DEF Next, Work

(* A step after which nobody newly is about to save.                       *)
LEMMA CheckKept ==
  ASSUME CheckInv, UNCHANGED <<members, stale>>,
         \A e \in Conns : conn'[e].pc = "save" => conn'[e] = conn[e]
  PROVE  CheckInv'
BY DEF CheckInv

(* An actor that goes on to another label takes such a step.               *)
LEMMA CheckPassed ==
  ASSUME CheckInv, UNCHANGED <<members, stale>>, NEW c \in Conns, NEW p,
         NEW u, NEW d, NEW s, NEW b, Becomes(c, p, u, d, s, b), p # "save"
  PROVE  CheckInv'
BY CheckKept DEF Becomes

(* Who is about to save has been checked.                                  *)
LEMMA CheckNext ==
  ASSUME TypeOK, MemberInv, [Next]_vars
  PROVE  CheckInv'
<1>0. CheckInv
  BY DEF MemberInv
<1>1. ASSUME UNCHANGED <<conn, members, stale>> PROVE CheckInv'
  BY <1>0, <1>1, CheckKept
<1>2. ASSUME NEW c \in Conns, Connect(c) PROVE CheckInv'
  BY <1>0, <1>2, GotoGoes, CheckPassed DEF Connect, Goes, Labels, history
<1>3. ASSUME NEW c \in Conns, Stop(c) PROVE CheckInv'
  BY <1>0, <1>3, StopMoves, CheckPassed DEF Stop
<1>4. ASSUME NEW c \in Conns, Auth(c) PROVE CheckInv'
  BY <1>0, <1>1, <1>4, AuthMoves, CheckPassed DEF Auth
<1>5. ASSUME NEW c \in Conns, AuthOnline(c) PROVE CheckInv'
  BY <1>0, <1>5, GotoGoes, CheckPassed DEF AuthOnline, Goes, Labels
<1>6. ASSUME NEW c \in Conns, AuthAnnounce(c) PROVE CheckInv'
  BY <1>0, <1>6, GotoGoes, CheckPassed DEF AuthAnnounce, Goes, Labels, history
<1>7. ASSUME NEW c \in Conns, Subscribe(c) PROVE CheckInv'
  BY <1>0, <1>1, <1>7, SubscribeMoves, CheckPassed DEF Subscribe, history
<1>8. ASSUME NEW c \in Conns, Register(c) PROVE CheckInv'
  BY <1>0, <1>8, RegisterMoves, CheckPassed DEF Register, history
<1>9. ASSUME NEW c \in Conns, SendMessage(c) PROVE CheckInv'
  <2>1. UNCHANGED <<members, stale>>
    BY <1>9 DEF SendMessage, history
  <2>2. ASSUME NEW d \in Dialogs, IsMember(c, d),
               Becomes(c, "save", conn[c].user, {d}, conn[c].sent,
                       conn[c].subs)
        PROVE  CheckInv'
    <3>1. \A u \in conn[c].user : u \in members[d]
      BY <2>2 DEF IsMember, MemberInv, ActorInv
    <3>. QED  BY <1>0, <2>1, <2>2, <3>1 DEF CheckInv, Becomes
  <2>. QED  BY <1>1, <1>9, <2>1, <2>2, SendMessageMoves
<1>10. ASSUME NEW c \in Conns, Save(c) PROVE CheckInv'
  <2>1. UNCHANGED members /\ stale' = stale \ {c}
    BY <1>10 DEF Save
  <2>2. conn'[c].pc # "save" /\ \A e \in Conns \ {c} : conn'[e] = conn[e]
    BY <1>10, SaveMoves DEF SaveFails, Saves, Becomes
  <2>. QED  BY <1>0, <2>1, <2>2 DEF CheckInv
<1>11. ASSUME NEW c \in Conns, BroadcastMessage(c) PROVE CheckInv'
  BY <1>0, <1>11, BroadcastMoves, CheckPassed DEF BroadcastMessage
<1>12. ASSUME NEW c \in Conns, Handle(c) PROVE CheckInv'
  BY <1>1, <1>12 DEF Handle
<1>13. CASE UpdateStatus
  BY <1>1, <1>13 DEF UpdateStatus
<1>14. CASE Restart
  BY <1>14 DEF Restart, CheckInv, Open, Fresh
<1>15. CASE Leave
  <2>1. PICK d \in Dialogs, u \in Users :
            /\ members' = [members EXCEPT ![d] = members[d] \ {u}]
            /\ stale' = stale \cup {c \in Conns : /\ conn[c].pc = "save"
                                                /\ conn[c].dialog = {d}
                                                /\ conn[c].user = {u}}
    BY <1>15 DEF Leave
  <2>2. UNCHANGED conn
    BY <1>15 DEF Leave
  <2>3. ASSUME NEW c \in Conns, conn[c].pc = "save",
               NEW w \in conn[c].user, NEW f \in conn[c].dialog
        PROVE  w \in members'[f] \/ c \in stale'
    <3>1. w \in members[f] \/ c \in stale
      BY <1>0, <2>3 DEF CheckInv
    <3>2. conn[c].user = {w} /\ conn[c].dialog = {f} /\ f \in Dialogs
      BY <2>3 DEF MemberInv, ActorInv, TypeOK, Actor
    <3>3. CASE w = u /\ f = d
      BY <2>1, <2>3, <3>2, <3>3
    <3>4. CASE w # u \/ f # d
      BY <2>1, <3>1, <3>2, <3>4 DEF TypeOK
    <3>. QED  BY <3>3, <3>4
  <2>. QED  BY <2>2, <2>3 DEF CheckInv
<1>16. CASE UNCHANGED vars
  BY <1>1, <1>16 DEF vars, history
<1>. QED
  BY <1>2, <1>3, <1>4, <1>5, <1>6, <1>7, <1>8, <1>9, <1>10, <1>11, <1>12,
     <1>13, <1>14, <1>15, <1>16 DEF Next, Work

(* Both parts together.                                                    *)
LEMMA MemberNext ==
  ASSUME TypeOK, MemberInv, [Next]_vars
  PROVE  MemberInv'
BY ActorNext, CheckNext DEF MemberInv

-----------------------------------------------------------------------------
(* Presence *)

(* A step that changes nobody's user and writes no status.                 *)
SameUsers ==
    /\ UNCHANGED <<status, unsure>>
    /\ \A e \in Conns : /\ conn'[e].user = conn[e].user
                        /\ conn[e].pc = "online" => conn'[e].pc = "online"

(* Nothing changes for presence in such a step.                            *)
LEMMA PresenceKept ==
  ASSUME PresenceInv, SameUsers
  PROVE  PresenceInv'
BY DEF PresenceInv, PresenceIsTrue, SameUsers

(* An actor that goes on with the same user takes such a step.             *)
LEMMA UsersStay ==
  ASSUME NEW c \in Conns, NEW p, NEW d, NEW s, NEW b,
         Becomes(c, p, conn[c].user, d, s, b), conn[c].pc # "online",
         UNCHANGED <<status, unsure>>
  PROVE  SameUsers
BY DEF Becomes, SameUsers

(* Users are offline, or one connection each has them online.              *)
LEMMA PresenceInit == Init => PresenceInv
<1>. SUFFICES ASSUME Init PROVE PresenceInv
  OBVIOUS
<1>1. ASSUME InitWith([c \in Conns |-> Fresh("new")],
                      [Users -> {"none", "offline"}])
      PROVE  PresenceInv
  <2>1. \A c \in Conns : conn[c].user = {}
    BY <1>1 DEF InitWith, Fresh
  <2>2. \A u \in Users : status[u] # "online"
    BY <1>1 DEF InitWith
  <2>. QED  BY <2>1, <2>2 DEF PresenceInv, PresenceIsTrue
<1>2. ASSUME NEW who \in [Conns -> Users],
             \A c, e \in Conns : c # e => who[c] # who[e],
             InitWith([c \in Conns |->
                           [Fresh("idle") EXCEPT !.user = {who[c]}]],
                      {[u \in Users |-> IF \E c \in Conns : who[c] = u
                                       THEN "online" ELSE "none"]})
      PROVE  PresenceInv
  <2>1. \A c \in Conns : conn[c].user = {who[c]}
    BY <1>2 DEF InitWith, Fresh
  <2>2. \A u \in Users : status[u] = "online" <=> \E c \in Conns : who[c] = u
    BY <1>2 DEF InitWith
  <2>. QED  BY <1>2, <2>1, <2>2 DEF PresenceInv, PresenceIsTrue
<1>. QED  BY <1>1, <1>2 DEF Init

(* Whose connections there are.                                            *)
LEMMA UsersAre ==
  ASSUME NEW cs, NEW u
  PROVE  u \in UsersOf(cs) <=> \E e \in cs : u \in conn[e].user
BY DEF UsersOf

(* auth: who may be behind two connections is unsure from now on.          *)
LEMMA PresenceAuth ==
  ASSUME TypeOK, PresenceInv, NEW c \in Conns, Auth(c)
  PROVE  PresenceInv'
<1>1. UNCHANGED status /\ conn[c].pc = "idle"
  BY DEF Auth, Ask
<1>2. CASE UNCHANGED <<conn, unsure>>
  BY <1>1, <1>2, PresenceKept DEF SameUsers
<1>3. ASSUME NEW u \in Users,
             Becomes(c, "online", {u}, conn[c].dialog, conn[c].sent,
                     conn[c].subs),
             unsure' = unsure \cup (conn[c].user \ {u})
                 \cup ({u} \cap UsersOf(Conns \ {c}))
      PROVE  PresenceInv'
  <2>1. /\ conn'[c].user = {u} /\ conn'[c].pc = "online"
        /\ \A e \in Conns \ {c} : conn'[e] = conn[e]
    BY <1>3 DEF Becomes
  <2>2. \A w \in Users \ unsure' :
            /\ w \in Users \ unsure
            /\ w \in conn[c].user => w = u
            /\ w = u => \A e \in Conns \ {c} : w \notin conn[e].user
    BY <1>3, UsersAre
  <2>. QED  BY <1>1, <2>1, <2>2 DEF PresenceInv, PresenceIsTrue
<1>. QED  BY <1>2, <1>3, AuthMoves

(* The row of a user with no other connection is true once written.        *)
LEMMA PresenceSet ==
  ASSUME TypeOK, PresenceInv, NEW c \in Conns, NEW u \in Users,
         NEW v \in Statuses, SetStatus(c, u, v),
         conn[c].user = {u}, conn'[c].user \subseteq {u},
         v = "online" <=> conn'[c].user = {u},
         conn[c].pc = "online" \/ conn'[c].user = {},
         \A e \in Conns \ {c} : conn'[e] = conn[e]
  PROVE  PresenceInv'
<1>1. CASE unsure' = unsure \cup {u} /\ UNCHANGED status
  <2>1. \A w \in Users \ unsure' : /\ w \in Users \ unsure
                                   /\ w \notin conn[c].user
                                   /\ w \notin conn'[c].user
    BY <1>1
  <2>. QED  BY <1>1, <2>1 DEF PresenceInv, PresenceIsTrue
<1>2. CASE /\ status' = [status EXCEPT ![u] = v]
           /\ unsure' = IF u \in UsersOf(Conns \ {c}) THEN unsure
                        ELSE unsure \ {u}
  <2>1. /\ status'[u] = v
        /\ \A w \in Users \ {u} : status'[w] = status[w]
    BY <1>2 DEF TypeOK
  <2>2. \A w \in Users \ unsure' : w # u => w \in Users \ unsure
    BY <1>2
  <2>3. u \notin unsure' => \A e \in Conns \ {c} : u \notin conn[e].user
    <3>1. CASE u \in UsersOf(Conns \ {c})
      BY <1>2, <3>1 DEF PresenceInv
    <3>2. CASE u \notin UsersOf(Conns \ {c})
      BY <3>2, UsersAre
    <3>. QED  BY <3>1, <3>2
  <2>4. PresenceIsTrue'
    <3>1. ASSUME NEW w \in Users, w \notin unsure', NEW d \in Conns
          PROVE  /\ status'[w] = "online" =>
                        \E e \in Conns : w \in conn'[e].user
                 /\ w \in conn'[d].user /\ conn'[d].pc # "online" =>
                        status'[w] = "online"
      <4>1. CASE w = u
        BY <2>1, <2>3, <3>1, <4>1
      <4>2. CASE w # u
        BY <2>1, <2>2, <3>1, <4>2 DEF PresenceInv, PresenceIsTrue
      <4>. QED  BY <4>1, <4>2
    <3>. QED  BY <3>1 DEF PresenceIsTrue
  <2>5. ASSUME NEW w \in Users, w \notin unsure', NEW d \in Conns,
               NEW e \in Conns, w \in conn'[d].user, w \in conn'[e].user
        PROVE  d = e
    <3>1. CASE w = u
      BY <2>3, <2>5, <3>1
    <3>2. CASE w # u
      BY <2>2, <2>5, <3>2 DEF PresenceInv
    <3>. QED  BY <3>1, <3>2
  <2>. QED  BY <2>4, <2>5 DEF PresenceInv
<1>. QED  BY <1>1, <1>2 DEF SetStatus

(* The user of auth is written online.                                     *)
LEMMA PresenceAuthOnline ==
  ASSUME TypeOK, MemberInv, PresenceInv, NEW c \in Conns, AuthOnline(c)
  PROVE  PresenceInv'
<1>1. PICK u \in conn[c].user : SetStatus(c, u, "online")
  BY DEF AuthOnline
<1>2. u \in Users /\ conn[c].user = {u} /\ conn[c].pc = "online"
  BY DEF TypeOK, Actor, MemberInv, ActorInv, AuthOnline
<1>3. Goes(c, "announce")
  BY GotoGoes DEF AuthOnline, Labels
<1>4. /\ conn'[c].user = {u}
      /\ \A e \in Conns \ {c} : conn'[e] = conn[e]
  BY <1>2, <1>3 DEF Goes, Becomes
<1>5. "online" \in Statuses
  BY DEF Statuses
<1>. QED  BY <1>1, <1>2, <1>4, <1>5, PresenceSet

(* The only connection of a user is gone, and the user offline.            *)
LEMMA PresenceStop ==
  ASSUME TypeOK, MemberInv, PresenceInv, NEW c \in Conns, Stop(c)
  PROVE  PresenceInv'
<1>1. Becomes(c, "gone", {}, {}, {}, [d \in Dialogs |-> 0])
  BY StopMoves
<1>2. /\ conn'[c].user = {}
      /\ \A e \in Conns \ {c} : conn'[e] = conn[e]
  BY <1>1 DEF Becomes
<1>3. CASE conn[c].user = {}
  <2>1. UNCHANGED <<status, unsure>>
    BY <1>3 DEF Stop, Offline
  <2>. QED  BY <1>2, <1>3, <2>1 DEF PresenceInv, PresenceIsTrue
<1>4. ASSUME NEW u \in conn[c].user, SetStatus(c, u, "offline")
      PROVE  PresenceInv'
  <2>1. u \in Users /\ conn[c].user = {u}
    BY DEF TypeOK, Actor, MemberInv, ActorInv
  <2>2. "offline" \in Statuses
    BY DEF Statuses
  <2>. QED  BY <1>2, <1>4, <2>1, <2>2, PresenceSet
<1>. QED  BY <1>3, <1>4 DEF Stop, Offline

(* What users report over TCP is true of them, or they are unsure.         *)
LEMMA PresenceUpdate ==
  ASSUME TypeOK, PresenceInv, UpdateStatus
  PROVE  PresenceInv'
<1>1. PICK u \in Users, value \in Statuses :
          /\ status' = [status EXCEPT ![u] = value]
          /\ unsure' = IF (value = "online") = (u \in UsersOf(Conns))
                       THEN unsure ELSE unsure \cup {u}
  BY DEF UpdateStatus
<1>2. /\ status'[u] = value
      /\ \A w \in Users \ {u} : status'[w] = status[w]
  BY <1>1 DEF TypeOK
<1>3. \A w \in Users \ unsure' : w \in Users \ unsure
  BY <1>1
<1>4. u \notin unsure' =>
          (value = "online" <=> \E e \in Conns : u \in conn[e].user)
  BY <1>1, UsersAre
<1>5. UNCHANGED conn
  BY DEF UpdateStatus
<1>6. PresenceIsTrue'
  BY <1>2, <1>3, <1>4, <1>5 DEF PresenceInv, PresenceIsTrue
<1>. QED  BY <1>3, <1>5, <1>6 DEF PresenceInv

(* Who was online is unsure after a restart.                               *)
LEMMA PresenceRestart ==
  ASSUME TypeOK, MemberInv, PresenceInv, Restart
  PROVE  PresenceInv'
<1>1. \A e \in Conns : conn'[e].user = {}
  <2>. TAKE e \in Conns
  <2>1. conn'[e] = IF Open(e) THEN Fresh("gone") ELSE conn[e]
    BY DEF Restart
  <2>2. ~Open(e) => conn[e].user = {}
    BY DEF Open, MemberInv, ActorInv
  <2>. QED  BY <2>1, <2>2 DEF Fresh
<1>2. /\ UNCHANGED status
      /\ unsure' = unsure \cup {u \in Users : status[u] = "online"}
  BY DEF Restart
<1>. QED  BY <1>1, <1>2 DEF PresenceInv, PresenceIsTrue

(* Every step keeps presence true.                                         *)
LEMMA PresenceNext ==
  ASSUME TypeOK, MemberInv, PresenceInv, [Next]_vars
  PROVE  PresenceInv'
<1>1. ASSUME NEW c \in Conns, NEW p, Goes(c, p), conn[c].pc # "online",
             UNCHANGED <<status, unsure>>
      PROVE  PresenceInv'
  BY <1>1, UsersStay, PresenceKept DEF Goes
<1>2. ASSUME NEW c \in Conns, Connect(c) PROVE PresenceInv'
  BY <1>1, <1>2, GotoGoes DEF Connect, Labels, history
<1>3. ASSUME NEW c \in Conns, AuthAnnounce(c) PROVE PresenceInv'
  BY <1>1, <1>3, GotoGoes DEF AuthAnnounce, Labels, history
<1>4. CASE UNCHANGED <<conn, status, unsure>>
  BY <1>4, PresenceKept DEF SameUsers
<1>5. ASSUME NEW c \in Conns, Subscribe(c) PROVE PresenceInv'
  BY <1>4, <1>5, SubscribeMoves, UsersStay, PresenceKept
     DEF Subscribe, Ask, history
<1>6. ASSUME NEW c \in Conns, Register(c) PROVE PresenceInv'
  BY <1>6, RegisterMoves, UsersStay, PresenceKept DEF Register, history
<1>7. ASSUME NEW c \in Conns, SendMessage(c) PROVE PresenceInv'
  BY <1>4, <1>7, SendMessageMoves, UsersStay, PresenceKept
     DEF SendMessage, Ask, history
<1>8. ASSUME NEW c \in Conns, Save(c) PROVE PresenceInv'
  BY <1>8, SaveMoves, UsersStay, PresenceKept DEF Save, SaveFails, Saves
<1>9. ASSUME NEW c \in Conns, BroadcastMessage(c) PROVE PresenceInv'
  BY <1>9, BroadcastMoves, UsersStay, PresenceKept DEF BroadcastMessage
<1>10. ASSUME NEW c \in Conns, Handle(c) PROVE PresenceInv'
  BY <1>4, <1>10 DEF Handle
<1>11. CASE Leave
  BY <1>4, <1>11 DEF Leave, history
<1>12. CASE UNCHANGED vars
  BY <1>4, <1>12 DEF vars, history
<1>. QED
  BY <1>2, <1>3, <1>5, <1>6, <1>7, <1>8, <1>9, <1>10, <1>11, <1>12,
     PresenceAuth, PresenceAuthOnline, PresenceStop, PresenceUpdate,
     PresenceRestart
     DEF Next, Work

-----------------------------------------------------------------------------
(* What clients have seen, and in which order *)

(* Ids of messages start at 1: 0 is news of a user.                        *)
LEMMA IdsNotZero ==
  ASSUME TypeOK
  PROVE  Ids = 1..Len(messages) /\ Len(messages) \in Nat
BY LenProperties DEF TypeOK, Ids

(* Before a message is announced nobody has it.                            *)
LEMMA NotSeen ==
  ASSUME UnseenInv, NEW m, m # 0, ~Announced(m), NEW c \in Conns
  PROVE  ~Told(c, m) /\ ~Mailed(c, m)
BY DEF UnseenInv, Told, Mailed

(* Who sees a message before another has both.                             *)
LEMMA BeforeSeen ==
  ASSUME NEW c, NEW m, NEW n, Before(c, m, n)
  PROVE  (Told(c, m) \/ Mailed(c, m)) /\ (Told(c, n) \/ Mailed(c, n))
BY DEF Before, Sees, MailedInTurn, Told, Mailed

(* A step after which nobody sees two messages in an order in which he did *)
(* not see them before keeps the order.                                    *)
LEMMA OrderKept ==
  ASSUME OrderInv,
         \A m, n \in Ids' : \A c \in Conns :
             m # n /\ Before(c, m, n)' =>
                 m \in Ids /\ n \in Ids /\ Before(c, m, n)
  PROVE  OrderInv'
BY DEF OrderInv

(* Steps that bring no mail: some may close connections.                   *)
LEMMA StreamQuiet ==
  ASSUME StreamInv, UNCHANGED <<got, messages>>,
         \A e \in Conns : conn'[e].sent \subseteq conn[e].sent,
         \A e \in Conns : inbox'[e] = inbox[e] \/ inbox'[e] = <<>>
  PROVE  StreamInv'
<1>1. \A m : Announced(m) => Announced(m)'
  BY DEF Announced, Ids
<1>2. UnseenInv'
  <2>1. \A c, e \in Conns : c # e => conn'[c].sent \cap conn'[e].sent = {}
    BY DEF StreamInv, UnseenInv
  <2>2. (\A c \in Conns : \A i \in DOMAIN inbox[c] :
             inbox[c][i] = 0 \/ Announced(inbox[c][i]))'
    <3>1. ASSUME NEW c \in Conns, NEW i \in DOMAIN inbox'[c],
                 inbox'[c][i] # 0
          PROVE  Announced(inbox[c][i])'
      <4>1. inbox'[c] = inbox[c]
        BY <3>1
      <4>2. Announced(inbox[c][i])
        BY <3>1, <4>1 DEF StreamInv, UnseenInv
      <4>. QED  BY <4>1, <4>2 DEF Announced, Ids
    <3>. QED  BY <3>1
  <2>3. (\A c \in Conns : \A i \in DOMAIN got[c] :
             got[c][i].own \/ Announced(got[c][i].id))'
    BY DEF StreamInv, UnseenInv, Announced, Ids
  <2>. QED  BY <2>1, <2>2, <2>3 DEF UnseenInv
<1>3. ASSUME NEW c \in Conns, NEW m, NEW n, Before(c, m, n)'
      PROVE  Before(c, m, n)
  <2>1. CASE inbox'[c] = <<>>
    <3>1. ~Mailed(c, n)' /\ ~MailedInTurn(c, m, n)'
      BY <2>1 DEF Mailed, MailedInTurn
    <3>. QED  BY <1>3, <3>1 DEF Before, Sees
  <2>2. CASE inbox'[c] = inbox[c]
    BY <1>3, <2>2 DEF Before, Sees, Told, Mailed, MailedInTurn
  <2>. QED  BY <2>1, <2>2
<1>4. OrderInv'
  BY <1>3, OrderKept DEF StreamInv, Ids
<1>. QED  BY <1>2, <1>4 DEF StreamInv

(* A step that saves nothing leaves less to be broadcast.                  *)
LEMMA SentStays ==
  ASSUME NEW c \in Conns, NEW p, NEW u, NEW d, NEW s, NEW b,
         Becomes(c, p, u, d, s, b), s = conn[c].sent \/ s = {}
  PROVE  \A e \in Conns : conn'[e].sent \subseteq conn[e].sent
BY DEF Becomes

(* Mail makes each mailbox longer at its end, if at all.                   *)
LEMMA DeliveredExtends ==
  ASSUME TypeOK, NEW mail \in Nat, NEW count \in [Conns -> Nat],
         Delivered(mail, count), NEW e \in Conns
  PROVE  \E n \in Nat : Grown(inbox[e], inbox'[e], n, mail)
<1>1. inbox[e] \in Seq(Nat)
  BY DEF TypeOK, Mail
<1>2. CASE Open(e)
  <2>1. inbox'[e] = inbox[e] \o Copied(count[e], mail)
    BY <1>2 DEF Delivered
  <2>2. PICK n \in Nat : n = count[e]
    OBVIOUS
  <2>3. Grown(inbox[e], inbox'[e], n, mail)
    BY <1>1, <2>1, <2>2, MailAdded
  <2>. QED  BY <2>3
<1>3. CASE ~Open(e)
  <2>1. inbox'[e] = inbox[e]
    BY <1>3 DEF Delivered
  <2>2. Grown(inbox[e], inbox'[e], 0, mail)
    BY <1>1, <2>1, LenProperties DEF Grown
  <2>. QED  BY <2>2
<1>. QED  BY <1>2, <1>3

(* New mail comes after everything a client has been sent or has waiting.  *)
LEMMA ExtendedSees ==
  ASSUME NEW e, NEW n \in Nat, NEW mail, Grown(inbox[e], inbox'[e], n, mail),
         UNCHANGED got, NEW a, NEW b, Before(e, a, b)', b # mail
  PROVE  Before(e, a, b)
<1>1. Sees(e, a, b)' => Sees(e, a, b)
  BY DEF Sees
<1>2. Told(e, a)' => Told(e, a)
  BY DEF Told
<1>3. Mailed(e, b)' => Mailed(e, b)
  BY DEF Grown, Mailed
<1>4. MailedInTurn(e, a, b)' => MailedInTurn(e, a, b)
  <2>1. ASSUME NEW i \in DOMAIN inbox'[e], NEW j \in DOMAIN inbox'[e], i < j,
               inbox'[e][i] = a, inbox'[e][j] = b
        PROVE  MailedInTurn(e, a, b)
    <3>1. j \in 1..Len(inbox[e]) /\ i \in 1..Len(inbox[e])
      BY <2>1 DEF Grown
    <3>. QED  BY <2>1, <3>1 DEF Grown, MailedInTurn
  <2>. QED  BY <2>1 DEF MailedInTurn
<1>. QED  BY <1>1, <1>2, <1>3, <1>4 DEF Before

(* Steps that put mail into mailboxes: news of a user, or a message that   *)
(* nobody has seen.                                                        *)
LEMMA StreamDelivered ==
  ASSUME TypeOK, StreamInv, UNCHANGED <<got, messages>>,
         \A e \in Conns : conn'[e].sent \subseteq conn[e].sent,
         NEW mail \in Nat, mail = 0 \/ (~Announced(mail) /\ Announced(mail)'),
         \A e \in Conns : \E n \in Nat : Grown(inbox[e], inbox'[e], n, mail)
  PROVE  StreamInv'
<1>1. Ids' = Ids /\ 0 \notin Ids
  BY IdsNotZero DEF Ids
<1>2. UnseenInv'
  <2>1. \A c, e \in Conns : c # e => conn'[c].sent \cap conn'[e].sent = {}
    BY DEF StreamInv, UnseenInv
  <2>2. (\A c \in Conns : \A i \in DOMAIN inbox[c] :
             inbox[c][i] = 0 \/ Announced(inbox[c][i]))'
    <3>1. ASSUME NEW c \in Conns, NEW i \in DOMAIN inbox'[c],
                 inbox'[c][i] # 0
          PROVE  Announced(inbox[c][i])'
      <4>1. PICK n \in Nat : Grown(inbox[c], inbox'[c], n, mail)
        OBVIOUS
      <4>2. CASE i \in 1..Len(inbox[c])
        <5>1. i \in DOMAIN inbox[c] /\ inbox'[c][i] = inbox[c][i]
          BY <4>1, <4>2 DEF Grown
        <5>2. Announced(inbox[c][i])
          BY <3>1, <5>1 DEF StreamInv, UnseenInv
        <5>. QED  BY <5>1, <5>2 DEF Announced, Ids
      <4>3. CASE i \notin 1..Len(inbox[c])
        <5>1. inbox'[c][i] = mail
          BY <3>1, <4>1, <4>3 DEF Grown
        <5>. QED  BY <3>1, <5>1 DEF Announced
      <4>. QED  BY <4>2, <4>3
    <3>. QED  BY <3>1
  <2>3. (\A c \in Conns : \A i \in DOMAIN got[c] :
             got[c][i].own \/ Announced(got[c][i].id))'
    BY DEF StreamInv, UnseenInv, Announced, Ids
  <2>. QED  BY <2>1, <2>2, <2>3 DEF UnseenInv
<1>3. ASSUME NEW c \in Conns, NEW a, NEW b, b # mail, Before(c, a, b)'
      PROVE  Before(c, a, b)
  BY <1>3, ExtendedSees
<1>4. ASSUME NEW m \in Ids, NEW n \in Ids, NEW c \in Conns, NEW e \in Conns,
             m # n, Before(c, m, n)', Before(e, n, m)'
      PROVE  FALSE
  <2>1. CASE m # mail /\ n # mail
    <3>1. Before(c, m, n) /\ Before(e, n, m)
      BY <1>3, <1>4, <2>1
    <3>. QED  BY <1>4, <3>1 DEF StreamInv, OrderInv
  <2>2. CASE m = mail
    <3>1. Before(c, m, n)
      BY <1>3, <1>4, <2>2
    <3>2. ~Told(c, m) /\ ~Mailed(c, m)
      BY <1>1, <2>2, NotSeen DEF StreamInv
    <3>. QED  BY <3>1, <3>2, BeforeSeen
  <2>3. CASE n = mail
    <3>1. Before(e, n, m)
      BY <1>3, <1>4, <2>3
    <3>2. ~Told(e, n) /\ ~Mailed(e, n)
      BY <1>1, <2>3, NotSeen DEF StreamInv
    <3>. QED  BY <3>1, <3>2, BeforeSeen
  <2>. QED  BY <2>1, <2>2, <2>3
<1>5. OrderInv'
  BY <1>1, <1>4 DEF OrderInv
<1>. QED  BY <1>2, <1>5 DEF StreamInv

(* What the sender is told is no broadcast.                                *)
LEMMA StreamSaves ==
  ASSUME TypeOK, MemberInv, StreamInv, NEW c \in Conns, NEW d, NEW u,
         Saves(c, d, u), conn[c].pc = "save", UNCHANGED inbox
  PROVE  StreamInv'
<1>1. /\ Ids' = Ids \cup {Len(messages) + 1} /\ Ids = 1..Len(messages)
      /\ Len(messages) \in Nat
  BY SavesAdds
<1>2. /\ \A e \in Conns \ {c} : conn'[e] = conn[e]
      /\ conn'[c].sent = {Len(messages) + 1} /\ conn[c].sent = {}
  BY DEF Saves, Becomes, MemberInv, ActorInv
<1>3. \A e \in Conns : conn[e].sent \subseteq Ids
  BY DEF MemberInv, ActorInv
<1>4. \A m : Announced(m) => Announced(m)'
  BY <1>1, <1>2 DEF Announced
<1>5. PICK x \in Text : x = [id |-> Len(messages) + 1, own |-> TRUE]
  <2>1. [id |-> Len(messages) + 1, own |-> TRUE] \in Text
    BY <1>1 DEF Text
  <2>. QED  BY <2>1
<1>6. x.own /\ \A m : x # [id |-> m, own |-> FALSE]
  BY <1>5
<1>7. got[c] \in Seq(Text) /\ got \in [Conns -> Seq(Text)]
  BY DEF TypeOK
<1>8. /\ got'[c] = Append(got[c], x)
      /\ \A e \in Conns \ {c} : got'[e] = got[e]
  BY <1>5, <1>7 DEF Saves
<1>9. /\ DOMAIN got[c] = 1..Len(got[c]) /\ Len(got[c]) \in Nat
      /\ DOMAIN got'[c] = 1..(Len(got[c]) + 1)
      /\ \A i \in 1..Len(got[c]) : got'[c][i] = got[c][i]
      /\ got'[c][Len(got[c]) + 1] = x
  <2>1. got'[c] \in Seq(Text) /\ Len(got'[c]) = Len(got[c]) + 1
    BY <1>7, <1>8, AppendProperties
  <2>2. DOMAIN got'[c] = 1..Len(got'[c])
    BY <2>1, LenProperties
  <2>3. DOMAIN got[c] = 1..Len(got[c]) /\ Len(got[c]) \in Nat
    BY <1>7, LenProperties
  <2>. QED  BY <1>7, <1>8, <2>1, <2>2, <2>3, AppendProperties
<1>10. UnseenInv'
  <2>1. \A e, f \in Conns : e # f => conn'[e].sent \cap conn'[f].sent = {}
    BY <1>1, <1>2, <1>3 DEF StreamInv, UnseenInv
  <2>2. (\A e \in Conns : \A i \in DOMAIN inbox[e] :
             inbox[e][i] = 0 \/ Announced(inbox[e][i]))'
    <3>1. ASSUME NEW e \in Conns, NEW i \in DOMAIN inbox[e], inbox[e][i] # 0
          PROVE  Announced(inbox[e][i])'
      <4>1. Announced(inbox[e][i])
        BY <3>1 DEF StreamInv, UnseenInv
      <4>. QED  BY <1>1, <1>2, <4>1 DEF Announced
    <3>. QED  BY <3>1
  <2>3. (\A e \in Conns : \A i \in DOMAIN got[e] :
             got[e][i].own \/ Announced(got[e][i].id))'
    <3>1. ASSUME NEW e \in Conns, NEW i \in DOMAIN got'[e], ~got'[e][i].own
          PROVE  Announced(got[e][i].id)'
      <4>1. i \in DOMAIN got[e] /\ got'[e][i] = got[e][i]
        BY <1>6, <1>8, <1>9, <3>1
      <4>2. Announced(got[e][i].id)
        BY <3>1, <4>1 DEF StreamInv, UnseenInv
      <4>. QED  BY <1>1, <1>2, <4>1, <4>2 DEF Announced
    <3>. QED  BY <3>1
  <2>. QED  BY <2>1, <2>2, <2>3 DEF UnseenInv
<1>11. ASSUME NEW e \in Conns, NEW m, NEW n, Before(e, m, n)'
       PROVE  Before(e, m, n)
  <2>1. CASE e # c
    <3>1. got'[e] = got[e] /\ inbox'[e] = inbox[e]
      BY <1>8, <2>1
    <3>. QED  BY <1>11, <3>1 DEF Before, Sees, Told, Mailed, MailedInTurn
  <2>2. CASE e = c
    <3>1. \A k : \A i \in DOMAIN got'[c] :
              got'[c][i] = [id |-> k, own |-> FALSE]
                  => i \in DOMAIN got[c] /\ got'[c][i] = got[c][i]
      BY <1>6, <1>9
    <3>2. Sees(c, m, n)' => Sees(c, m, n)
      BY <3>1 DEF Sees
    <3>3. Told(c, m)' => Told(c, m)
      BY <3>1 DEF Told
    <3>. QED  BY <1>11, <2>2, <3>2, <3>3 DEF Before, Mailed, MailedInTurn
  <2>. QED  BY <2>1, <2>2
<1>12. ASSUME NEW e \in Conns, NEW m \in Ids', NEW n \in Ids', Before(e, m, n)
       PROVE  m \in Ids /\ n \in Ids
  <2>1. \A k \in Ids' \ Ids : ~Told(e, k) /\ ~Mailed(e, k)
    <3>. TAKE k \in Ids' \ Ids
    <3>1. k # 0 /\ ~Announced(k)
      BY <1>1 DEF Announced
    <3>. QED  BY <3>1, NotSeen DEF StreamInv
  <2>. QED  BY <1>12, <2>1, BeforeSeen
<1>13. OrderInv'
  BY <1>11, <1>12, OrderKept DEF StreamInv
<1>. QED  BY <1>10, <1>13 DEF StreamInv

(* What comes out of a mailbox goes to the end of what the client has.     *)
LEMMA StreamHandles ==
  ASSUME TypeOK, StreamInv, NEW c \in Conns, Handle(c)
  PROVE  StreamInv'
<1>1. /\ UNCHANGED <<conn, messages>>
      /\ inbox[c] \in Seq(Nat) /\ inbox[c] # <<>> /\ inbox'[c] = Tail(inbox[c])
      /\ \A e \in Conns \ {c} : inbox'[e] = inbox[e] /\ got'[e] = got[e]
      /\ got[c] \in Seq(Text)
  BY DEF TypeOK, Handle, Mail
<1>2. PICK h : h = Head(inbox[c])
  OBVIOUS
<1>3. /\ DOMAIN inbox[c] = 1..Len(inbox[c]) /\ Len(inbox[c]) \in Nat
      /\ Len(inbox[c]) > 0 /\ inbox[c][1] = h /\ h \in Nat
      /\ DOMAIN inbox'[c] = 1..(Len(inbox[c]) - 1)
      /\ \A i \in 1..(Len(inbox[c]) - 1) : inbox'[c][i] = inbox[c][i + 1]
  <2>1. PICK s \in Seq(Nat) : s = inbox[c]
    BY <1>1
  <2>2. s # <<>>
    BY <1>1, <2>1
  <2>3. DOMAIN s = 1..Len(s) /\ Len(s) \in Nat
    BY LenProperties
  <2>4. /\ Head(s) \in Nat /\ Tail(s) \in Seq(Nat)
        /\ Len(Tail(s)) = Len(s) - 1 /\ Len(s) > 0
        /\ Head(s) = s[1]
        /\ \A i \in 1..(Len(s) - 1) : Tail(s)[i] = s[i + 1]
    BY <2>2, <2>3
  <2>5. DOMAIN Tail(s) = 1..(Len(s) - 1)
    BY <2>4, LenProperties
  <2>. QED  BY <1>1, <1>2, <2>1, <2>3, <2>4, <2>5
<1>4. \A m, n : /\ Mailed(c, m)' => Mailed(c, m)
                /\ MailedInTurn(c, m, n)' => MailedInTurn(c, m, n)
                /\ Mailed(c, m)' => MailedInTurn(c, h, m)
                /\ Mailed(c, h)
  <2>. TAKE m, n
  <2>1. \A i \in DOMAIN inbox'[c] :
            i + 1 \in DOMAIN inbox[c] /\ inbox'[c][i] = inbox[c][i + 1]
    BY <1>3
  <2>2. Mailed(c, m)' => Mailed(c, m)
    BY <2>1 DEF Mailed
  <2>3. MailedInTurn(c, m, n)' => MailedInTurn(c, m, n)
    <3>1. ASSUME NEW i \in DOMAIN inbox'[c], NEW j \in DOMAIN inbox'[c],
                 i < j, inbox'[c][i] = m, inbox'[c][j] = n
          PROVE  MailedInTurn(c, m, n)
      <4>1. i + 1 < j + 1
        BY <1>3, <3>1
      <4>. QED  BY <2>1, <3>1, <4>1 DEF MailedInTurn
    <3>. QED  BY <3>1 DEF MailedInTurn
  <2>4. Mailed(c, m)' => MailedInTurn(c, h, m)
    <3>1. ASSUME NEW i \in DOMAIN inbox'[c], inbox'[c][i] = m
          PROVE  MailedInTurn(c, h, m)
      <4>1. 1 < i + 1 /\ 1 \in DOMAIN inbox[c]
        BY <1>3, <3>1
      <4>. QED  BY <1>3, <2>1, <3>1, <4>1 DEF MailedInTurn
    <3>. QED  BY <3>1 DEF Mailed
  <2>5. Mailed(c, h)
    BY <1>3 DEF Mailed
  <2>. QED  BY <2>2, <2>3, <2>4, <2>5
<1>5. h = 0 \/ Announced(h)
  BY <1>3 DEF StreamInv, UnseenInv
<1>6. (\A e \in Conns : \A i \in DOMAIN inbox[e] :
           inbox[e][i] = 0 \/ Announced(inbox[e][i]))'
  <2>1. ASSUME NEW e \in Conns, NEW i \in DOMAIN inbox'[e], inbox'[e][i] # 0
        PROVE  Announced(inbox[e][i])'
    <3>1. \E j \in DOMAIN inbox[e] : inbox[e][j] = inbox'[e][i]
      <4>1. CASE e = c
        <5>1. i + 1 \in DOMAIN inbox[c] /\ inbox'[c][i] = inbox[c][i + 1]
          BY <1>3, <2>1, <4>1
        <5>. QED  BY <4>1, <5>1
      <4>2. CASE e # c
        BY <1>1, <2>1, <4>2
      <4>. QED  BY <4>1, <4>2
    <3>2. PICK j \in DOMAIN inbox[e] : inbox[e][j] = inbox'[e][i]
      BY <3>1
    <3>3. Announced(inbox[e][j])
      BY <2>1, <3>2 DEF StreamInv, UnseenInv
    <3>. QED  BY <1>1, <3>2, <3>3 DEF Announced, Ids
  <2>. QED  BY <2>1
<1>7. \A e, f \in Conns : e # f => conn'[e].sent \cap conn'[f].sent = {}
  BY <1>1 DEF StreamInv, UnseenInv
<1>8. CASE h = 0
  <2>1. UNCHANGED got
    BY <1>2, <1>8 DEF Handle
  <2>2. (\A e \in Conns : \A i \in DOMAIN got[e] :
             got[e][i].own \/ Announced(got[e][i].id))'
    BY <1>1, <2>1 DEF StreamInv, UnseenInv, Announced, Ids
  <2>3. ASSUME NEW e \in Conns, NEW m, NEW n, Before(e, m, n)'
        PROVE  Before(e, m, n)
    <3>1. CASE e # c
      BY <1>1, <2>1, <2>3, <3>1
         DEF Before, Sees, Told, Mailed, MailedInTurn
    <3>2. CASE e = c
      BY <1>4, <2>1, <2>3, <3>2 DEF Before, Sees, Told
    <3>. QED  BY <3>1, <3>2
  <2>4. OrderInv'
    BY <1>1, <2>3, OrderKept DEF StreamInv, Ids
  <2>. QED  BY <1>6, <1>7, <2>2, <2>4 DEF StreamInv, UnseenInv
<1>9. CASE h # 0
  <2>1. PICK x \in Text : x = [id |-> h, own |-> FALSE]
    <3>1. [id |-> h, own |-> FALSE] \in Text
      BY <1>3 DEF Text
    <3>. QED  BY <3>1
  <2>2. got'[c] = Append(got[c], x)
    BY <1>2, <1>9, <2>1 DEF TypeOK, Handle
  <2>3. /\ DOMAIN got[c] = 1..Len(got[c]) /\ Len(got[c]) \in Nat
        /\ DOMAIN got'[c] = 1..(Len(got[c]) + 1)
        /\ \A i \in 1..Len(got[c]) : got'[c][i] = got[c][i]
        /\ got'[c][Len(got[c]) + 1] = x
    <3>1. got'[c] \in Seq(Text) /\ Len(got'[c]) = Len(got[c]) + 1
      BY <1>1, <2>2, AppendProperties
    <3>2. DOMAIN got'[c] = 1..Len(got'[c])
      BY <3>1, LenProperties
    <3>3. DOMAIN got[c] = 1..Len(got[c]) /\ Len(got[c]) \in Nat
      BY <1>1, LenProperties
    <3>. QED  BY <1>1, <2>2, <3>1, <3>2, <3>3, AppendProperties
  <2>4. x.id = h /\ \A k : x = [id |-> k, own |-> FALSE] => k = h
    BY <2>1
  <2>5. (\A e \in Conns : \A i \in DOMAIN got[e] :
             got[e][i].own \/ Announced(got[e][i].id))'
    <3>1. ASSUME NEW e \in Conns, NEW i \in DOMAIN got'[e], ~got'[e][i].own
          PROVE  Announced(got[e][i].id)'
      <4>1. CASE e = c /\ i = Len(got[c]) + 1
        <5>1. Announced(h) /\ got'[e][i].id = h
          BY <1>5, <1>9, <2>3, <2>4, <4>1
        <5>. QED  BY <1>1, <5>1 DEF Announced, Ids
      <4>2. CASE ~(e = c /\ i = Len(got[c]) + 1)
        <5>1. i \in DOMAIN got[e] /\ got'[e][i] = got[e][i]
          <6>1. CASE e = c
            BY <2>3, <3>1, <4>2, <6>1
          <6>2. CASE e # c
            BY <1>1, <3>1, <6>2
          <6>. QED  BY <6>1, <6>2
        <5>2. Announced(got[e][i].id)
          BY <3>1, <5>1 DEF StreamInv, UnseenInv
        <5>. QED  BY <1>1, <5>1, <5>2 DEF Announced, Ids
      <4>. QED  BY <4>1, <4>2
    <3>. QED  BY <3>1
  <2>6. ASSUME NEW e \in Conns, NEW m, NEW n, Before(e, m, n)', m # n
        PROVE  Before(e, m, n)
    <3>1. CASE e # c
      BY <1>1, <2>6, <3>1 DEF Before, Sees, Told, Mailed, MailedInTurn
    <3>2. CASE e = c
      <4>1. Told(c, m)' => Told(c, m) \/ m = h
        BY <2>3, <2>4 DEF Told
      <4>2. Sees(c, m, n)' => Sees(c, m, n) \/ (Told(c, m) /\ n = h)
        <5>1. ASSUME NEW i \in DOMAIN got'[c], NEW j \in DOMAIN got'[c],
                     i < j, got'[c][i] = [id |-> m, own |-> FALSE],
                     got'[c][j] = [id |-> n, own |-> FALSE]
              PROVE  Sees(c, m, n) \/ (Told(c, m) /\ n = h)
          <6>1. i \in DOMAIN got[c] /\ got'[c][i] = got[c][i]
            BY <2>3, <5>1
          <6>2. CASE j = Len(got[c]) + 1
            <7>1. n = h
              BY <2>3, <2>4, <5>1, <6>2
            <7>. QED  BY <5>1, <6>1, <7>1 DEF Told
          <6>3. CASE j # Len(got[c]) + 1
            <7>1. j \in DOMAIN got[c] /\ got'[c][j] = got[c][j]
              BY <2>3, <5>1, <6>3
            <7>2. /\ i < j /\ got[c][i] = [id |-> m, own |-> FALSE]
                  /\ got[c][j] = [id |-> n, own |-> FALSE]
              BY <5>1, <6>1, <7>1
            <7>3. Sees(c, m, n)
              BY <6>1, <7>1, <7>2 DEF Sees
            <7>. QED  BY <7>3
          <6>. QED  BY <6>2, <6>3
        <5>. QED  BY <5>1 DEF Sees
      <4>. QED  BY <1>4, <2>6, <3>2, <4>1, <4>2 DEF Before
    <3>. QED  BY <3>1, <3>2
  <2>7. OrderInv'
    BY <1>1, <2>6, OrderKept DEF StreamInv, Ids
  <2>. QED  BY <1>6, <1>7, <2>5, <2>7 DEF StreamInv, UnseenInv
<1>. QED  BY <1>8, <1>9

(* There are no messages at the start.                                     *)
LEMMA StreamInit == Init => StreamInv
BY DEF Init, InitWith, StreamInv, UnseenInv, OrderInv, Fresh, Ids

(* Every step keeps the order of what clients see.                         *)
LEMMA StreamNext ==
  ASSUME TypeOK, MemberInv, StreamInv, [Next]_vars
  PROVE  StreamInv'
<1>1. ASSUME UNCHANGED <<conn, inbox, got, messages>> PROVE StreamInv'
  BY <1>1, StreamQuiet
<1>2. ASSUME NEW c \in Conns, NEW p, NEW u, NEW d, NEW s, NEW b,
             Becomes(c, p, u, d, s, b), s = conn[c].sent \/ s = {},
             UNCHANGED <<inbox, got, messages>>
      PROVE  StreamInv'
  BY <1>2, SentStays, StreamQuiet
<1>3. ASSUME NEW c \in Conns, Connect(c) PROVE StreamInv'
  BY <1>2, <1>3, GotoGoes DEF Connect, Goes, Labels, history
<1>4. ASSUME NEW c \in Conns, Stop(c) PROVE StreamInv'
  <2>1. \A e \in Conns : conn'[e].sent \subseteq conn[e].sent
    BY <1>4, StopMoves, SentStays
  <2>2. \A e \in Conns : inbox'[e] = inbox[e] \/ inbox'[e] = <<>>
    BY <1>4 DEF Stop, TypeOK
  <2>. QED  BY <1>4, <2>1, <2>2, StreamQuiet DEF Stop
<1>5. ASSUME NEW c \in Conns, Auth(c) PROVE StreamInv'
  <2>1. UNCHANGED <<inbox, got, messages>>
    BY <1>5 DEF Auth
  <2>2. CASE UNCHANGED conn
    BY <1>1, <2>1, <2>2
  <2>3. CASE \E u \in Users : Becomes(c, "online", {u}, conn[c].dialog,
                                     conn[c].sent, conn[c].subs)
    BY <1>2, <2>1, <2>3
  <2>. QED  BY <1>5, <2>2, <2>3, AuthMoves
<1>6. ASSUME NEW c \in Conns, AuthOnline(c) PROVE StreamInv'
  BY <1>2, <1>6, GotoGoes DEF AuthOnline, Goes, Labels
<1>7. ASSUME NEW c \in Conns, AuthAnnounce(c) PROVE StreamInv'
  <2>1. [e \in Conns |-> Announcements(e)] \in [Conns -> Nat]
    BY AnnouncementsType
  <2>2. PICK z \in Nat : z = 0
    OBVIOUS
  <2>4. \A e \in Conns : \E n \in Nat : Grown(inbox[e], inbox'[e], n, z)
    BY <1>7, <2>1, <2>2, AnnounceDelivers, DeliveredExtends
  <2>3. \A e \in Conns : conn'[e].sent \subseteq conn[e].sent
    BY <1>7, GotoGoes, SentStays DEF AuthAnnounce, Goes, Labels
  <2>5. UNCHANGED <<got, messages>>
    BY <1>7 DEF AuthAnnounce, history
  <2>. QED  BY <2>2, <2>3, <2>4, <2>5, StreamDelivered
<1>8. ASSUME NEW c \in Conns, Subscribe(c) PROVE StreamInv'
  BY <1>1, <1>2, <1>8, SubscribeMoves DEF Subscribe, history
<1>9. ASSUME NEW c \in Conns, Register(c) PROVE StreamInv'
  BY <1>2, <1>9, RegisterMoves DEF Register, history
<1>10. ASSUME NEW c \in Conns, SendMessage(c) PROVE StreamInv'
  BY <1>1, <1>2, <1>10, SendMessageMoves DEF SendMessage, history
<1>11. ASSUME NEW c \in Conns, Save(c) PROVE StreamInv'
  <2>1. UNCHANGED inbox /\ conn[c].pc = "save"
    BY <1>11 DEF Save
  <2>2. CASE SaveFails(c)
    BY <1>2, <2>1, <2>2 DEF SaveFails
  <2>3. ASSUME NEW d \in conn[c].dialog, NEW u \in conn[c].user,
               Saves(c, d, u)
        PROVE  StreamInv'
    BY <2>1, <2>3, StreamSaves
  <2>. QED  BY <1>11, <2>2, <2>3, SaveMoves
<1>12. ASSUME NEW c \in Conns, BroadcastMessage(c) PROVE StreamInv'
  <2>1. PICK d \in Dialogs, m \in conn[c].sent :
            /\ m \in Nat
            /\ Delivered(m, [e \in Conns |-> Occurs(table[d], e)])
            /\ UNCHANGED got
            /\ Becomes(c, "idle", conn[c].user, {}, {}, conn[c].subs)
    BY <1>12, BroadcastMoves
  <2>2. [e \in Conns |-> Occurs(table[d], e)] \in [Conns -> Nat]
    <3>1. \A e : Occurs(table[d], e) \in 0..Len(table[d])
      BY OccursType DEF TypeOK
    <3>2. Len(table[d]) \in Nat
      BY LenProperties DEF TypeOK
    <3>. QED  BY <3>1, <3>2
  <2>3. \A e \in Conns : \E n \in Nat : Grown(inbox[e], inbox'[e], n, m)
    BY <2>1, <2>2, DeliveredExtends
  <2>4. \A e \in Conns : conn'[e].sent \subseteq conn[e].sent
    BY <2>1, SentStays
  <2>5. ~Announced(m) /\ Announced(m)'
    <3>1. m \in Ids /\ UNCHANGED messages
      BY <1>12, <2>1 DEF MemberInv, ActorInv, BroadcastMessage
    <3>2. \A e \in Conns : m \notin conn'[e].sent
      BY <2>1 DEF Becomes, StreamInv, UnseenInv
    <3>. QED  BY <2>1, <3>1, <3>2 DEF Announced, Ids
  <2>. QED
    BY <1>12, <2>1, <2>3, <2>4, <2>5, StreamDelivered DEF BroadcastMessage
<1>13. ASSUME NEW c \in Conns, Handle(c) PROVE StreamInv'
  BY <1>13, StreamHandles
<1>14. CASE Leave
  BY <1>1, <1>14 DEF Leave, history
<1>15. CASE Restart
  <2>1. \A e \in Conns : /\ conn'[e].sent \subseteq conn[e].sent
                         /\ inbox'[e] = <<>>
    BY <1>15 DEF Restart, Fresh
  <2>. QED  BY <1>15, <2>1, StreamQuiet DEF Restart
<1>16. CASE UNCHANGED vars
  BY <1>1, <1>16 DEF vars, history
<1>17. CASE UpdateStatus
  BY <1>1, <1>17 DEF UpdateStatus
<1>. QED
  BY <1>3, <1>4, <1>5, <1>6, <1>7, <1>8, <1>9, <1>10, <1>11, <1>12, <1>13,
     <1>14, <1>15, <1>16, <1>17 DEF Next, Work

-----------------------------------------------------------------------------
(* How many copies clients get *)

Sent(m) == [id |-> m, own |-> FALSE]

(* Copies are those the client has and those waiting.                      *)
LEMMA CopiesType ==
  ASSUME TypeOK, NEW c \in Conns, NEW m
  PROVE  /\ Copies(c, m) = Occurs(got[c], Sent(m)) + Occurs(inbox[c], m)
         /\ Occurs(got[c], Sent(m)) \in Nat
         /\ Occurs(inbox[c], m) \in Nat
         /\ Copies(c, m) = 0 <=> ~Told(c, m) /\ ~Mailed(c, m)
<1>1. Copies(c, m) = Occurs(got[c], Sent(m)) + Occurs(inbox[c], m)
  BY DEF Copies, Occurs, Sent
<1>2. got[c] \in Seq(Text) /\ inbox[c] \in Seq(Nat)
  BY DEF TypeOK, Mail
<1>3. /\ Occurs(got[c], Sent(m)) \in 0..Len(got[c])
      /\ Len(got[c]) \in Nat
      /\ Occurs(got[c], Sent(m)) = 0 <=> ~Told(c, m)
  BY <1>2, OccursType, LenProperties DEF Told, Sent
<1>4. /\ Occurs(inbox[c], m) \in 0..Len(inbox[c])
      /\ Len(inbox[c]) \in Nat
      /\ Occurs(inbox[c], m) = 0 <=> ~Mailed(c, m)
  BY <1>2, OccursType, LenProperties DEF Mailed
<1>. QED  BY <1>1, <1>3, <1>4

(* Steps after which everyone who is connected is on the lists as before.  *)
LEMMA SubscribedKept ==
  ASSUME SubscribedInv, UNCHANGED table,
         \A e \in Conns : conn'[e].pc # "gone" =>
             /\ conn[e].pc # "gone" /\ conn'[e].subs = conn[e].subs
             /\ conn'[e].pc = "new" => conn[e].pc = "new"
  PROVE  SubscribedInv'
BY DEF SubscribedInv

(* An actor that subscribes to nothing takes such a step.                  *)
LEMMA SubsStay ==
  ASSUME NEW c \in Conns, NEW p, NEW u, NEW d, NEW s,
         Becomes(c, p, u, d, s, conn[c].subs), p # "new",
         conn[c].pc # "gone"
  PROVE  \A e \in Conns : conn'[e].pc # "gone" =>
             /\ conn[e].pc # "gone" /\ conn'[e].subs = conn[e].subs
             /\ conn'[e].pc = "new" => conn[e].pc = "new"
BY DEF Becomes

(* One more on the list, and the client told once more.                    *)
LEMMA SubscribedRegister ==
  ASSUME TypeOK, SubscribedInv, NEW c \in Conns, Register(c)
  PROVE  SubscribedInv'
<1>1. conn[c].pc = "register"
  BY DEF Register
<1>2. PICK d \in Dialogs :
          /\ table' = [table EXCEPT ![d] = Append(table[d], c)]
          /\ Becomes(c, "idle", conn[c].user, {}, conn[c].sent,
                     [conn[c].subs EXCEPT ![d] = conn[c].subs[d] + 1])
  BY RegisterMoves
<1>3. /\ conn'[c].pc = "idle"
      /\ conn'[c].subs = [conn[c].subs EXCEPT ![d] = conn[c].subs[d] + 1]
      /\ \A e \in Conns \ {c} : conn'[e] = conn[e]
  BY <1>2 DEF Becomes
<1>4. conn[c].subs \in [Dialogs -> Nat] /\ table[d] \in Seq(Conns)
  BY DEF TypeOK, Actor
<1>5. /\ table'[d] = Append(table[d], c)
      /\ \A f \in Dialogs \ {d} : table'[f] = table[f]
  BY <1>2 DEF TypeOK
<1>6. \A e \in Conns :
          Occurs(table'[d], e) =
              IF e = c THEN Occurs(table[d], e) + 1 ELSE Occurs(table[d], e)
  BY <1>4, <1>5, OccursAppend
<1>7. \A e \in Conns : conn[e].pc # "gone" =>
          \A f \in Dialogs : Occurs(table[f], e) = conn[e].subs[f]
  BY DEF SubscribedInv
<1>8. ASSUME NEW e \in Conns, conn'[e].pc # "gone", NEW f \in Dialogs
      PROVE  Occurs(table'[f], e) = conn'[e].subs[f]
  <2>1. conn[e].pc # "gone"
    BY <1>1, <1>3, <1>8
  <2>2. CASE f = d /\ e = c
    BY <1>3, <1>4, <1>6, <1>7, <2>1, <2>2
  <2>3. CASE f = d /\ e # c
    BY <1>3, <1>6, <1>7, <2>1, <2>3
  <2>4. CASE f # d
    <3>1. conn'[e].subs[f] = conn[e].subs[f]
      <4>1. CASE e = c
        BY <1>3, <1>4, <2>4, <4>1
      <4>2. CASE e # c
        BY <1>3, <4>2
      <4>. QED  BY <4>1, <4>2
    <3>2. table'[f] = table[f]
      BY <1>5, <2>4
    <3>. QED  BY <1>7, <2>1, <3>1, <3>2
  <2>. QED  BY <2>2, <2>3, <2>4
<1>9. \A e \in Conns : conn'[e].pc = "new" =>
          \A f \in Dialogs : conn'[e].subs[f] = 0
  BY <1>3 DEF SubscribedInv
<1>. QED  BY <1>8, <1>9 DEF SubscribedInv

(* Lists are empty after a restart, and nobody has subscribed.             *)
LEMMA SubscribedRestart ==
  ASSUME TypeOK, SubscribedInv, Restart
  PROVE  SubscribedInv'
<1>1. ASSUME NEW e \in Conns, conn'[e].pc # "gone"
      PROVE  conn[e].pc = "new" /\ conn'[e] = conn[e]
  BY <1>1 DEF Restart, Open, Fresh
<1>2. \A d \in Dialogs : \A e : Occurs(table'[d], e) = 0
  BY OccursEmpty DEF Restart
<1>. QED  BY <1>1, <1>2 DEF SubscribedInv

(* Every step keeps lists and subscriptions equal.                         *)
LEMMA SubscribedNext ==
  ASSUME TypeOK, SubscribedInv, [Next]_vars
  PROVE  SubscribedInv'
<1>1. ASSUME UNCHANGED <<conn, table>> PROVE SubscribedInv'
  BY <1>1 DEF SubscribedInv
<1>2. ASSUME NEW c \in Conns, NEW p, NEW u, NEW d, NEW s,
             Becomes(c, p, u, d, s, conn[c].subs), p # "new",
             conn[c].pc # "gone", UNCHANGED table
      PROVE  SubscribedInv'
  BY <1>2, SubsStay, SubscribedKept
<1>3. ASSUME NEW c \in Conns, Connect(c) PROVE SubscribedInv'
  BY <1>2, <1>3, GotoGoes DEF Connect, Goes, Labels
<1>4. ASSUME NEW c \in Conns, Stop(c) PROVE SubscribedInv'
  <2>1. conn'[c].pc = "gone" /\ \A e \in Conns \ {c} : conn'[e] = conn[e]
    BY <1>4, StopMoves DEF Becomes
  <2>. QED  BY <1>4, <2>1, SubscribedKept DEF Stop
<1>5. ASSUME NEW c \in Conns, Auth(c) PROVE SubscribedInv'
  <2>1. UNCHANGED table /\ conn[c].pc = "idle"
    BY <1>5 DEF Auth, Ask
  <2>2. CASE UNCHANGED conn
    BY <1>1, <2>1, <2>2
  <2>3. CASE \E u \in Users : Becomes(c, "online", {u}, conn[c].dialog,
                                     conn[c].sent, conn[c].subs)
    BY <1>2, <2>1, <2>3
  <2>. QED  BY <1>5, <2>2, <2>3, AuthMoves
<1>6. ASSUME NEW c \in Conns, AuthOnline(c) PROVE SubscribedInv'
  BY <1>2, <1>6, GotoGoes DEF AuthOnline, Goes, Labels
<1>7. ASSUME NEW c \in Conns, AuthAnnounce(c) PROVE SubscribedInv'
  BY <1>2, <1>7, GotoGoes DEF AuthAnnounce, Goes, Labels
<1>8. ASSUME NEW c \in Conns, Subscribe(c) PROVE SubscribedInv'
  BY <1>1, <1>2, <1>8, SubscribeMoves DEF Subscribe, Ask
<1>9. ASSUME NEW c \in Conns, SendMessage(c) PROVE SubscribedInv'
  BY <1>1, <1>2, <1>9, SendMessageMoves DEF SendMessage, Ask
<1>10. ASSUME NEW c \in Conns, Save(c) PROVE SubscribedInv'
  BY <1>2, <1>10, SaveMoves DEF Save, SaveFails, Saves
<1>11. ASSUME NEW c \in Conns, BroadcastMessage(c) PROVE SubscribedInv'
  BY <1>2, <1>11, BroadcastMoves DEF BroadcastMessage
<1>12. ASSUME NEW c \in Conns, Handle(c) PROVE SubscribedInv'
  BY <1>1, <1>12 DEF Handle
<1>13. CASE Leave
  BY <1>1, <1>13 DEF Leave
<1>14. CASE UNCHANGED vars
  BY <1>1, <1>14 DEF vars
<1>15. CASE UpdateStatus
  BY <1>1, <1>15 DEF UpdateStatus
<1>. QED
  BY <1>3, <1>4, <1>5, <1>6, <1>7, <1>8, <1>9, <1>10, <1>11, <1>12, <1>13,
     <1>14, <1>15, SubscribedRegister, SubscribedRestart DEF Next, Work

(* Steps in which nobody who stays connected gets or loses a copy.         *)
LEMMA CopiesKept ==
  ASSUME TypeOK, CopiesInv, TypeOK', UNCHANGED <<messages, routed>>,
         \A e \in Conns : conn'[e].pc # "gone" =>
             /\ conn[e].pc # "gone"
             /\ \A d \in Dialogs : conn[e].subs[d] <= conn'[e].subs[d]
             /\ \A m \in Ids : Copies(e, m)' = Copies(e, m)
  PROVE  CopiesInv'
<1>1. ASSUME NEW m \in Ids, NEW e \in Conns, conn'[e].pc # "gone"
      PROVE  /\ Copies(e, m)' <= conn'[e].subs[messages[m].dialog]
             /\ e \in routed[m] => Copies(e, m)' > 0
  <2>1. PICK d \in Dialogs : d = messages[m].dialog
    <3>1. messages[m] \in Message
      BY DEF TypeOK, Ids
    <3>. QED  BY <3>1 DEF Message
  <2>2. conn[e].subs[d] \in Nat /\ conn'[e].subs[d] \in Nat
    BY DEF TypeOK, Actor
  <2>3. PICK k \in Nat : k = Copies(e, m)
    BY CopiesType
  <2>4. k <= conn[e].subs[d] /\ (e \in routed[m] => k > 0)
    BY <1>1, <2>1, <2>3 DEF CopiesInv
  <2>5. Copies(e, m)' = k /\ conn[e].subs[d] <= conn'[e].subs[d]
    BY <1>1, <2>3
  <2>. QED  BY <2>1, <2>2, <2>4, <2>5
<1>2. Ids' = Ids
  BY DEF Ids
<1>. QED  BY <1>1, <1>2 DEF CopiesInv

(* Copies change only with the client's texts and mailbox.                 *)
LEMMA SameCopies ==
  ASSUME NEW e \in Conns, NEW m, got'[e] = got[e], inbox'[e] = inbox[e]
  PROVE  Copies(e, m)' = Copies(e, m)
BY DEF Copies

(* Nobody is subscribed less for another actor's step.                     *)
LEMMA SubsNotLess ==
  ASSUME TypeOK, NEW c \in Conns, NEW p, NEW u, NEW d, NEW s,
         Becomes(c, p, u, d, s, conn[c].subs), conn[c].pc # "gone"
  PROVE  \A e \in Conns : conn'[e].pc # "gone" =>
             /\ conn[e].pc # "gone"
             /\ \A f \in Dialogs : conn[e].subs[f] <= conn'[e].subs[f]
<1>. TAKE e \in Conns
<1>1. conn'[e].subs = conn[e].subs
  BY DEF Becomes
<1>2. \A f \in Dialogs : conn[e].subs[f] \in Nat
  BY DEF TypeOK, Actor
<1>3. conn'[e].pc # "gone" => conn[e].pc # "gone"
  BY DEF Becomes
<1>. QED  BY <1>1, <1>2, <1>3

(* News of a user is no copy of a message.                                 *)
LEMMA CopiesAnnounce ==
  ASSUME TypeOK, TypeOK', CopiesInv, NEW c \in Conns, AuthAnnounce(c)
  PROVE  CopiesInv'
<1>1. Goes(c, "idle") /\ conn[c].pc = "announce"
      /\ UNCHANGED <<got, messages, routed>>
  BY GotoGoes DEF AuthAnnounce, Labels, history
<1>2. 0 \notin Ids
  BY IdsNotZero
<1>3. ASSUME NEW e \in Conns, NEW m \in Ids
      PROVE  Copies(e, m)' = Copies(e, m)
  <2>1. CASE ~Open(e)
    <3>1. inbox'[e] = inbox[e] /\ got'[e] = got[e]
      BY <1>1, <2>1 DEF AuthAnnounce
    <3>. QED  BY <3>1, SameCopies
  <2>2. CASE Open(e)
    <3>1. PICK n \in Nat : n = Announcements(e)
      BY AnnouncementsType
    <3>2. PICK z \in Nat : z = 0
      OBVIOUS
    <3>3. inbox'[e] = inbox[e] \o Copied(n, z)
      BY <2>2, <3>1, <3>2, AnnounceDelivers DEF Delivered
    <3>4. inbox[e] \in Seq(Nat)
      BY DEF TypeOK, Mail
    <3>5. Occurs(inbox'[e], m) = Occurs(inbox[e], m)
      BY <1>2, <3>2, <3>3, <3>4, MailAdded
    <3>6. Copies(e, m)' = Occurs(got'[e], Sent(m)) + Occurs(inbox'[e], m)
      BY DEF Copies, Occurs, Sent
    <3>7. Copies(e, m) = Occurs(got[e], Sent(m)) + Occurs(inbox[e], m)
      BY CopiesType
    <3>. QED  BY <1>1, <3>5, <3>6, <3>7
  <2>. QED  BY <2>1, <2>2
<1>4. \A e \in Conns : conn'[e].pc # "gone" =>
          /\ conn[e].pc # "gone"
          /\ \A f \in Dialogs : conn[e].subs[f] <= conn'[e].subs[f]
  BY <1>1, SubsNotLess DEF Goes
<1>. QED  BY <1>1, <1>3, <1>4, CopiesKept

(* Out of the mailbox, to the client.                                      *)
LEMMA CopiesHandle ==
  ASSUME TypeOK, TypeOK', CopiesInv, NEW c \in Conns, Handle(c)
  PROVE  CopiesInv'
<1>1. /\ UNCHANGED <<conn, messages, routed>>
      /\ inbox[c] \in Seq(Nat) /\ inbox[c] # <<>> /\ inbox'[c] = Tail(inbox[c])
      /\ \A e \in Conns \ {c} : inbox'[e] = inbox[e] /\ got'[e] = got[e]
      /\ got[c] \in Seq(Text)
  BY DEF TypeOK, Handle, Mail
<1>2. PICK h \in Nat : h = Head(inbox[c])
  BY <1>1, HeadTailProperties
<1>3. PICK x \in Text : x = Sent(h)
  <2>1. Sent(h) \in Text
    BY <1>2 DEF Text, Sent
  <2>. QED  BY <2>1
<1>4. got'[c] = IF h = 0 THEN got[c] ELSE Append(got[c], x)
  BY <1>2, <1>3 DEF TypeOK, Handle, Sent
<1>5. ASSUME NEW m \in Ids PROVE Copies(c, m)' = Copies(c, m)
  <2>1. Copies(c, m)' = Occurs(got'[c], Sent(m)) + Occurs(inbox'[c], m)
    BY DEF Copies, Occurs, Sent
  <2>2. /\ Copies(c, m) = Occurs(got[c], Sent(m)) + Occurs(inbox[c], m)
        /\ Occurs(got[c], Sent(m)) \in Nat
    BY CopiesType
  <2>3. Occurs(inbox[c], m) =
            Occurs(inbox'[c], m) + (IF m = h THEN 1 ELSE 0)
    BY <1>1, <1>2, OccursTail
  <2>4. Occurs(inbox'[c], m) \in Nat
    <3>1. inbox'[c] \in Seq(Nat)
      BY DEF TypeOK, Mail
    <3>2. Occurs(inbox'[c], m) \in 0..Len(inbox'[c]) /\ Len(inbox'[c]) \in Nat
      BY <3>1, OccursType, LenProperties
    <3>. QED  BY <3>2
  <2>5. m # 0
    BY IdsNotZero
  <2>6. x = Sent(m) <=> m = h
    BY <1>3 DEF Sent
  <2>7. Occurs(Append(got[c], x), Sent(m)) =
            IF m = h THEN Occurs(got[c], Sent(m)) + 1
            ELSE Occurs(got[c], Sent(m))
    <3>1. Occurs(Append(got[c], x), Sent(m)) =
              IF Sent(m) = x THEN Occurs(got[c], Sent(m)) + 1
              ELSE Occurs(got[c], Sent(m))
      BY <1>1, OccursAppend
    <3>. QED  BY <2>6, <3>1
  <2>. QED  BY <1>4, <2>1, <2>2, <2>3, <2>4, <2>5, <2>7
<1>6. ASSUME NEW m \in Ids, NEW e \in Conns
      PROVE  Copies(e, m)' = Copies(e, m)
  BY <1>1, <1>5, SameCopies
<1>7. \A e \in Conns : \A d \in Dialogs : conn[e].subs[d] <= conn'[e].subs[d]
  <2>1. \A e \in Conns : \A d \in Dialogs : conn[e].subs[d] \in Nat
    BY DEF TypeOK, Actor
  <2>. QED  BY <1>1, <2>1
<1>. QED  BY <1>1, <1>6, <1>7, CopiesKept

(* A message just saved is with nobody, and what the sender is told of it  *)
(* is no copy.                                                             *)
LEMMA CopiesSaves ==
  ASSUME TypeOK, TypeOK', StreamInv, CopiesInv, NEW c \in Conns, NEW d, NEW u,
         Saves(c, d, u), conn[c].pc = "save", UNCHANGED inbox
  PROVE  CopiesInv'
<1>1. /\ Ids' = Ids \cup {Len(messages) + 1} /\ Ids = 1..Len(messages)
      /\ Len(messages) \in Nat
      /\ \A m \in Ids : messages'[m] = messages[m]
  BY SavesAdds
<1>2. /\ \A m \in Ids : routed'[m] = routed[m]
      /\ routed'[Len(messages) + 1] = {}
  <2>1. PICK none \in SUBSET Conns : none = {}
    OBVIOUS
  <2>2. routed \in Seq(SUBSET Conns) /\ Len(routed) = Len(messages)
    BY DEF TypeOK
  <2>3. routed' = Append(routed, none)
    BY <2>1 DEF Saves
  <2>. QED  BY <1>1, <2>1, <2>2, <2>3, AppendProperties
<1>3. PICK x \in Text : x = [id |-> Len(messages) + 1, own |-> TRUE]
  <2>1. [id |-> Len(messages) + 1, own |-> TRUE] \in Text
    BY <1>1 DEF Text
  <2>. QED  BY <2>1
<1>4. \A m : x # Sent(m)
  BY <1>3 DEF Sent
<1>5. /\ got[c] \in Seq(Text) /\ got'[c] = Append(got[c], x)
      /\ \A e \in Conns \ {c} : got'[e] = got[e]
  BY <1>3 DEF TypeOK, Saves
<1>6. ASSUME NEW e \in Conns, NEW m PROVE Copies(e, m)' = Copies(e, m)
  <2>1. CASE e # c
    BY <1>5, <2>1, SameCopies
  <2>2. CASE e = c
    <3>1. Occurs(Append(got[c], x), Sent(m)) = Occurs(got[c], Sent(m))
      BY <1>4, <1>5, OccursAppend
    <3>2. Copies(c, m)' = Occurs(got'[c], Sent(m)) + Occurs(inbox'[c], m)
      BY DEF Copies, Occurs, Sent
    <3>3. Copies(c, m) = Occurs(got[c], Sent(m)) + Occurs(inbox[c], m)
      BY CopiesType
    <3>. QED  BY <1>5, <2>2, <3>1, <3>2, <3>3
  <2>. QED  BY <2>1, <2>2
<1>7. \A e \in Conns : /\ conn'[e].pc # "gone" => conn[e].pc # "gone"
                       /\ conn'[e].subs = conn[e].subs
  BY DEF Saves, Becomes
<1>8. ASSUME NEW e \in Conns, conn'[e].pc # "gone", NEW m \in Ids'
      PROVE  /\ Copies(e, m)' <= conn'[e].subs[messages'[m].dialog]
             /\ e \in routed'[m] => Copies(e, m)' > 0
  <2>1. CASE m \in Ids
    BY <1>1, <1>2, <1>6, <1>7, <1>8, <2>1 DEF CopiesInv
  <2>2. CASE m = Len(messages) + 1
    <3>1. m # 0 /\ ~Announced(m)
      BY <1>1, <2>2 DEF Announced
    <3>2. Copies(e, m)' = 0
      BY <1>6, <3>1, NotSeen, CopiesType DEF StreamInv
    <3>3. conn'[e].subs[messages'[m].dialog] \in Nat
      <4>1. messages'[m] \in Message
        BY <1>8 DEF TypeOK, Ids
      <4>2. messages'[m].dialog \in Dialogs
        BY <4>1 DEF Message
      <4>3. conn'[e].subs \in [Dialogs -> Nat]
        BY DEF TypeOK, Actor
      <4>. QED  BY <4>2, <4>3
    <3>. QED  BY <1>2, <2>2, <3>2, <3>3
  <2>. QED  BY <1>1, <1>8, <2>1, <2>2
<1>. QED  BY <1>8 DEF CopiesInv

(* Everyone gets the message as often as the list has the connection.      *)
LEMMA CopiesBroadcast ==
  ASSUME TypeOK, TypeOK', MemberInv, StreamInv, CountInv, NEW c \in Conns,
         BroadcastMessage(c)
  PROVE  CopiesInv'
<1>1. PICK d \in conn[c].dialog, b \in conn[c].sent :
          /\ d \in Dialogs /\ b \in Nat
          /\ Delivered(b, [e \in Conns |-> Occurs(table[d], e)])
          /\ routed' = [routed EXCEPT ![b] =
                 {e \in Conns : Open(e) /\ conn[e].subs[d] > 0}]
          /\ UNCHANGED got
          /\ Becomes(c, "idle", conn[c].user, {}, {}, conn[c].subs)
  BY BroadcastMoves
<1>2. conn[c].pc = "broadcast" /\ UNCHANGED messages /\ Ids' = Ids
  BY DEF BroadcastMessage, Ids
<1>3. b \in Ids /\ messages[b].dialog = d /\ b # 0
  BY <1>1, IdsNotZero DEF MemberInv, ActorInv
<1>4. /\ \A e \in Conns : /\ conn'[e].pc # "gone" => conn[e].pc # "gone"
                          /\ conn'[e].subs = conn[e].subs
  BY <1>1, <1>2 DEF Becomes
<1>5. routed'[b] = {e \in Conns : Open(e) /\ conn[e].subs[d] > 0}
      /\ \A m \in Ids \ {b} : routed'[m] = routed[m]
  <2>1. routed \in Seq(SUBSET Conns) /\ Len(routed) = Len(messages)
    BY DEF TypeOK
  <2>2. DOMAIN routed = Ids
    BY <2>1, LenProperties, IdsNotZero
  <2>. QED  BY <1>1, <1>3, <2>2
<1>6. ASSUME NEW e \in Conns, NEW m
      PROVE  /\ Copies(e, m) \in Nat
             /\ Copies(e, m)' = IF m = b /\ Open(e)
                   THEN Copies(e, m) + Occurs(table[d], e) ELSE Copies(e, m)
  <2>1. Copies(e, m)' = Occurs(got'[e], Sent(m)) + Occurs(inbox'[e], m)
    BY DEF Copies, Occurs, Sent
  <2>2. /\ Copies(e, m) = Occurs(got[e], Sent(m)) + Occurs(inbox[e], m)
        /\ Occurs(got[e], Sent(m)) \in Nat /\ Occurs(inbox[e], m) \in Nat
    BY CopiesType
  <2>3. PICK n \in Nat : n = Occurs(table[d], e)
    <3>1. /\ Occurs(table[d], e) \in 0..Len(table[d])
          /\ Len(table[d]) \in Nat
      BY <1>1, OccursType, LenProperties DEF TypeOK
    <3>. QED  BY <3>1
  <2>4. CASE Open(e)
    <3>1. inbox'[e] = inbox[e] \o Copied(n, b) /\ inbox[e] \in Seq(Nat)
      BY <1>1, <2>3, <2>4 DEF Delivered, TypeOK, Mail
    <3>2. Occurs(inbox'[e], m) =
              IF m = b THEN Occurs(inbox[e], m) + n ELSE Occurs(inbox[e], m)
      <4>1. b \in Nat
        BY <1>1
      <4>2. PICK s \in Seq(Nat) : s = inbox[e]
        BY <3>1
      <4>3. \A k : Occurs(s \o Copied(n, b), k) =
                     IF k = b THEN Occurs(s, k) + n ELSE Occurs(s, k)
        BY <4>1, MailAdded
      <4>. QED  BY <3>1, <4>2, <4>3
    <3>. QED  BY <1>1, <2>1, <2>2, <2>3, <2>4, <3>2
  <2>5. CASE ~Open(e)
    <3>1. inbox'[e] = inbox[e]
      BY <1>1, <2>5 DEF Delivered
    <3>. QED  BY <1>1, <2>1, <2>2, <2>5, <3>1
  <2>. QED  BY <2>4, <2>5
<1>7. ASSUME NEW e \in Conns, conn'[e].pc # "gone", NEW m \in Ids
      PROVE  /\ Copies(e, m)' <= conn'[e].subs[messages[m].dialog]
             /\ e \in routed'[m] => Copies(e, m)' > 0
  <2>1. /\ conn[e].pc # "gone" /\ conn'[e].subs = conn[e].subs
        /\ Copies(e, m) <= conn[e].subs[messages[m].dialog]
        /\ e \in routed[m] => Copies(e, m) > 0
    BY <1>4, <1>7 DEF CountInv, CopiesInv
  <2>2. CASE m # b
    BY <1>5, <1>6, <2>1, <2>2
  <2>3. CASE m = b
    <3>1. ~Announced(b)
      BY <1>1 DEF Announced
    <3>2. Copies(e, b) = 0
      BY <1>3, <3>1, NotSeen, CopiesType DEF StreamInv
    <3>3. Occurs(table[d], e) = conn[e].subs[d] /\ conn[e].subs[d] \in Nat
      <4>1. Occurs(table[d], e) = conn[e].subs[d]
        BY <1>1, <2>1 DEF CountInv, SubscribedInv
      <4>2. conn[e] \in Actor
        BY DEF TypeOK
      <4>3. conn[e].subs \in [Dialogs -> Nat]
        BY <4>2 DEF Actor
      <4>4. d \in Dialogs
        BY <1>1
      <4>. QED  BY <4>1, <4>3, <4>4
    <3>4. Copies(e, b)' = IF Open(e) THEN conn[e].subs[d] ELSE 0
      BY <1>6, <3>2, <3>3
    <3>. QED  BY <1>3, <1>5, <2>1, <2>3, <3>3, <3>4
  <2>. QED  BY <2>2, <2>3
<1>. QED  BY <1>2, <1>7 DEF CopiesInv

(* Only connections that have not begun are there after a restart.         *)
LEMMA CopiesRestart ==
  ASSUME TypeOK, TypeOK', CountInv, Restart
  PROVE  CopiesInv'
<1>1. UNCHANGED <<messages, routed, got>> /\ Ids' = Ids
  BY DEF Restart, Ids
<1>2. ASSUME NEW e \in Conns, conn'[e].pc # "gone", NEW m \in Ids
      PROVE  /\ Copies(e, m)' <= conn'[e].subs[messages[m].dialog]
             /\ e \in routed[m] => Copies(e, m)' > 0
  <2>1. conn[e].pc = "new" /\ conn'[e] = conn[e]
    BY <1>2 DEF Restart, Open, Fresh
  <2>2. messages[m].dialog \in Dialogs
    <3>1. messages[m] \in Message
      BY DEF TypeOK, Ids
    <3>. QED  BY <3>1 DEF Message
  <2>3. conn[e].subs[messages[m].dialog] = 0
    BY <2>1, <2>2 DEF CountInv, SubscribedInv
  <2>4. /\ Copies(e, m) = Occurs(got[e], Sent(m)) + Occurs(inbox[e], m)
        /\ Occurs(got[e], Sent(m)) \in Nat /\ Occurs(inbox[e], m) \in Nat
    BY CopiesType
  <2>5. Copies(e, m) <= 0 /\ e \notin routed[m]
    BY <2>1, <2>3, <2>4 DEF CountInv, CopiesInv
  <2>6. Copies(e, m)' = Occurs(got'[e], Sent(m)) + Occurs(inbox'[e], m)
    BY DEF Copies, Occurs, Sent
  <2>7. Occurs(inbox'[e], m) = 0
    BY OccursEmpty DEF Restart
  <2>. QED  BY <1>1, <2>1, <2>3, <2>4, <2>5, <2>6, <2>7
<1>. QED  BY <1>1, <1>2 DEF CopiesInv

(* Subscribing brings no copies of messages sent before.                   *)
LEMMA CopiesRegister ==
  ASSUME TypeOK, TypeOK', CopiesInv, NEW c \in Conns, Register(c)
  PROVE  CopiesInv'
<1>1. PICK d \in Dialogs :
          Becomes(c, "idle", conn[c].user, {}, conn[c].sent,
                  [conn[c].subs EXCEPT ![d] = conn[c].subs[d] + 1])
  BY RegisterMoves
<1>2. conn[c].pc = "register" /\ UNCHANGED <<inbox, got, messages, routed>>
  BY DEF Register, history
<1>3. ASSUME NEW e \in Conns, NEW f \in Dialogs
      PROVE  conn[e].subs[f] <= conn'[e].subs[f]
  <2>1. conn[e].subs \in [Dialogs -> Nat]
    BY DEF TypeOK, Actor
  <2>2. CASE e = c
    <3>1. conn'[c].subs = [conn[c].subs EXCEPT ![d] = conn[c].subs[d] + 1]
      BY <1>1 DEF Becomes
    <3>. QED  BY <2>1, <2>2, <3>1
  <2>3. CASE e # c
    <3>1. conn'[e] = conn[e]
      BY <1>1, <2>3 DEF Becomes
    <3>. QED  BY <2>1, <3>1
  <2>. QED  BY <2>2, <2>3
<1>4. \A e \in Conns : conn'[e].pc # "gone" => conn[e].pc # "gone"
  BY <1>1, <1>2 DEF Becomes
<1>5. \A e \in Conns : \A m : Copies(e, m)' = Copies(e, m)
  BY <1>2, SameCopies
<1>. QED  BY <1>2, <1>3, <1>4, <1>5, CopiesKept

(* Every step keeps the number of copies right.                            *)
LEMMA CopiesNext ==
  ASSUME TypeOK, MemberInv, StreamInv, CountInv, [Next]_vars
  PROVE  CopiesInv'
<1>0. TypeOK' /\ CopiesInv
  BY TypeNext DEF CountInv
<1>1. ASSUME UNCHANGED <<conn, inbox, got, messages, routed>>
      PROVE  CopiesInv'
  BY <1>0, <1>1 DEF CopiesInv, Copies, Ids
<1>2. ASSUME NEW c \in Conns, NEW p, NEW u, NEW d, NEW s,
             Becomes(c, p, u, d, s, conn[c].subs), conn[c].pc # "gone",
             UNCHANGED <<inbox, got, messages, routed>>
      PROVE  CopiesInv'
  <2>1. \A e \in Conns : \A m : Copies(e, m)' = Copies(e, m)
    BY <1>2, SameCopies
  <2>2. \A e \in Conns : conn'[e].pc # "gone" =>
            /\ conn[e].pc # "gone"
            /\ \A f \in Dialogs : conn[e].subs[f] <= conn'[e].subs[f]
    BY <1>2, SubsNotLess
  <2>. QED  BY <1>0, <1>2, <2>1, <2>2, CopiesKept
<1>3. ASSUME NEW c \in Conns, Connect(c) PROVE CopiesInv'
  BY <1>2, <1>3, GotoGoes DEF Connect, Goes, Labels, history
<1>4. ASSUME NEW c \in Conns, Stop(c) PROVE CopiesInv'
  <2>1. conn'[c].pc = "gone" /\ \A e \in Conns \ {c} : conn'[e] = conn[e]
    BY <1>4, StopMoves DEF Becomes
  <2>2. /\ UNCHANGED <<got, messages, routed>>
        /\ \A e \in Conns \ {c} : inbox'[e] = inbox[e]
    BY <1>4 DEF Stop, TypeOK
  <2>3. \A e \in Conns \ {c} : \A m : Copies(e, m)' = Copies(e, m)
    BY <2>2, SameCopies
  <2>4. \A e \in Conns : \A f \in Dialogs : conn[e].subs[f] \in Nat
    BY DEF TypeOK, Actor
  <2>. QED  BY <1>0, <2>1, <2>2, <2>3, <2>4, CopiesKept
<1>5. ASSUME NEW c \in Conns, Auth(c) PROVE CopiesInv'
  <2>1. UNCHANGED <<inbox, got, messages, routed>> /\ conn[c].pc = "idle"
    BY <1>5 DEF Auth, Ask
  <2>2. CASE UNCHANGED conn
    BY <1>1, <2>1, <2>2
  <2>3. CASE \E u \in Users : Becomes(c, "online", {u}, conn[c].dialog,
                                     conn[c].sent, conn[c].subs)
    BY <1>2, <2>1, <2>3
  <2>. QED  BY <1>5, <2>2, <2>3, AuthMoves
<1>6. ASSUME NEW c \in Conns, AuthOnline(c) PROVE CopiesInv'
  BY <1>2, <1>6, GotoGoes DEF AuthOnline, Goes, Labels
<1>7. ASSUME NEW c \in Conns, AuthAnnounce(c) PROVE CopiesInv'
  BY <1>0, <1>7, CopiesAnnounce
<1>8. ASSUME NEW c \in Conns, Subscribe(c) PROVE CopiesInv'
  BY <1>1, <1>2, <1>8, SubscribeMoves DEF Subscribe, Ask, history
<1>9. ASSUME NEW c \in Conns, SendMessage(c) PROVE CopiesInv'
  BY <1>1, <1>2, <1>9, SendMessageMoves DEF SendMessage, Ask, history
<1>10. ASSUME NEW c \in Conns, Save(c) PROVE CopiesInv'
  <2>1. UNCHANGED inbox /\ conn[c].pc = "save"
    BY <1>10 DEF Save
  <2>2. CASE SaveFails(c)
    BY <1>2, <2>1, <2>2 DEF SaveFails
  <2>3. ASSUME NEW d \in conn[c].dialog, NEW u \in conn[c].user,
               Saves(c, d, u)
        PROVE  CopiesInv'
    BY <1>0, <2>1, <2>3, CopiesSaves
  <2>. QED  BY <1>10, <2>2, <2>3, SaveMoves
<1>11. CASE Leave
  BY <1>1, <1>11 DEF Leave, history
<1>12. CASE UNCHANGED vars
  BY <1>1, <1>12 DEF vars, history
<1>13. CASE UpdateStatus
  BY <1>1, <1>13 DEF UpdateStatus
<1>. QED
  BY <1>0, <1>3, <1>4, <1>5, <1>6, <1>7, <1>8, <1>9, <1>10, <1>11, <1>12, <1>13,
     CopiesRegister, CopiesBroadcast, CopiesHandle, CopiesRestart
     DEF Next, Work

(* Nobody has subscribed and nothing has been sent at the start.           *)
LEMMA CountInit == Init => CountInv
<1>. SUFFICES ASSUME Init PROVE CountInv
  OBVIOUS
<1>1. \A c \in Conns : \A d \in Dialogs : conn[c].subs[d] = 0
  <2>1. \A p : Fresh(p).subs = [d \in Dialogs |-> 0]
    BY DEF Fresh
  <2>2. \A p, u : [Fresh(p) EXCEPT !.user = u].subs = [d \in Dialogs |-> 0]
    BY DEF Fresh
  <2>3. ASSUME NEW c \in Conns
        PROVE  conn[c].subs = [d \in Dialogs |-> 0]
    <3>1. CASE conn = [e \in Conns |-> Fresh("new")]
      BY <2>1, <3>1
    <3>2. CASE \E who \in [Conns -> Users] :
                  conn = [e \in Conns |->
                             [Fresh("idle") EXCEPT !.user = {who[e]}]]
      <4>1. PICK who : conn = [e \in Conns |->
                                 [Fresh("idle") EXCEPT !.user = {who[e]}]]
        BY <3>2
      <4>2. PICK u : u = {who[c]}
        OBVIOUS
      <4>3. conn[c] = [Fresh("idle") EXCEPT !.user = u]
        BY <4>1, <4>2
      <4>. QED  BY <2>2, <4>3, Zenon
    <3>. QED  BY <3>1, <3>2 DEF Init, InitWith
  <2>. QED  BY <2>3
<1>2. \A d \in Dialogs : \A c : Occurs(table[d], c) = 0
  BY OccursEmpty DEF Init, InitWith
<1>3. Ids = {}
  BY DEF Init, InitWith, Ids
<1>. QED  BY <1>1, <1>2, <1>3 DEF CountInv, SubscribedInv, CopiesInv

-----------------------------------------------------------------------------
(* The theorems *)

(* The invariant holds of every reachable state.                           *)
LEMMA HubCorrect == Spec => []HubInv
<1>1. Init => HubInv
  BY TypeInit, MemberInit, PresenceInit, StreamInit, CountInit DEF HubInv
<1>2. HubInv /\ [Next]_vars => HubInv'
  BY TypeNext, MemberNext, PresenceNext, StreamNext, SubscribedNext,
     CopiesNext DEF HubInv, CountInv
<1>. QED  BY <1>1, <1>2, PTL DEF Spec

(* The fields of WsActor and WebState keep their types (web/ws.rs:45-52,   *)
(* web/state.rs:6-9), whatever any number of clients do.                   *)
THEOREM TypeCorrect == Spec => []TypeOK
<1>1. HubInv => TypeOK
  BY DEF HubInv
<1>. QED  BY <1>1, HubCorrect, PTL

(* When an actor saves a message its user is in the dialog, or has been    *)
(* removed from it since the actor asked for this very message             *)
(* (web/ws.rs:145-178): nothing an actor found out for an earlier request, *)
(* or for an earlier user of its connection, lets a message through.       *)
THEOREM SendersWereMembers == Spec => SenderWasMember
<1>1. HubInv => [\A c \in Conns :
                     conn[c].pc = "save" /\ conn'[c].pc = "broadcast" =>
                         \A u \in conn[c].user, d \in conn[c].dialog :
                             u \in members[d] \/ c \in stale]_vars
  BY DEF HubInv, MemberInv, CheckInv
<1>. QED  BY <1>1, HubCorrect, PTL DEF SenderWasMember

(* user_status says online for a user just while a connection of the user  *)
(* is open (web/ws.rs:64-67, 86), whatever the other users do.  The users  *)
(* this leaves out are those PresenceIsTrue names, and each only until an  *)
(* actor writes the user's row while the user has no other connection.     *)
THEOREM StatusIsPresence == Spec => []PresenceIsTrue
<1>1. HubInv => PresenceIsTrue
  BY DEF HubInv, PresenceInv
<1>. QED  BY <1>1, HubCorrect, PTL

(* No two clients see the broadcasts of two messages in different orders,  *)
(* whatever order they were saved in: an actor sends a message to all      *)
(* under one lock (web/state.rs:23-31) and mailboxes keep their order.     *)
THEOREM OneOrderForAll == Spec => []SameOrder
<1>1. HubInv => SameOrder
  BY DEF HubInv, StreamInv, OrderInv, Before, SameOrder
<1>. QED  BY <1>1, HubCorrect, PTL

(* Whoever had been told "subscribed" before a message was broadcast has   *)
(* it, or has it waiting, as long as connected: add_connection and the     *)
(* broadcast are under one lock (web/state.rs:18-31), and nobody else's    *)
(* coming and going takes a connection off the list.                       *)
THEOREM SubscribersHaveIt == Spec => []SubscribersGetIt
<1>1. ASSUME HubInv PROVE SubscribersGetIt
  <2>1. \A m \in Ids : routed[m] \subseteq Conns
    <3>1. routed \in Seq(SUBSET Conns) /\ Len(routed) = Len(messages) /\ TypeOK
      BY <1>1 DEF HubInv, TypeOK
    <3>. QED  BY <3>1, LenProperties, IdsNotZero
  <2>. QED
    BY <1>1, <2>1 DEF HubInv, CountInv, CopiesInv, SubscribersGetIt, Open
<1>. QED  BY <1>1, HubCorrect, PTL

(* A client gets a message at most as often as it subscribed to the        *)
(* message's dialog, so never one of another dialog (web/state.rs:18-31).  *)
THEOREM CopiesAreCaused == Spec => []CopiesHaveACause
<1>1. HubInv => CopiesHaveACause
  BY DEF HubInv, CountInv, CopiesInv, CopiesHaveACause, Open
<1>. QED  BY <1>1, HubCorrect, PTL
=============================================================================
