# KoSta: TLA+ models, model checking and proofs

KoSta is a small messenger in Rust: a server (`kosta-server`), a client library
(`kosta`), the protocol's encoding (`kosta-core`), its cryptography
(`kosta-crypto`), its framing (`kosta-transport`) and a web page (`web-ui`).
This directory holds specifications of it, the configurations that check them
with TLC, and theorems checked by TLAPS.

## Inventory

| Component | State | Operations | Hard part | What makes it correct |
|---|---|---|---|---|
| Encrypted session on the server (`server.rs` `handle_client`, `session_cache.rs`, `session_store.rs`) | one cache of 1000 `SessionData` per listener, one row per session, a shared list of recent msg_ids | receive, check, execute, number, seal, send; load, update, evict | read-modify-write over two locks and several SQL statements; eviction and restart at any point; one statement of several failing; several connections of one session | each request executed at most once and in order; seq_no, msg_id and nonce counter of answers only move forward; cache never ahead of the row |
| Session encryption (`session_crypto.rs`) | two counters inside each `SessionCrypto` clone | encrypt, decrypt | clones of the counters | a counter is used once |
| Handshake (`handlers.rs` 33-374) | `HANDSHAKE_STORE`, in memory, 60 s | ReqPq, ReqDHParams, SetClientDHParams | expiry, duplicates, restart between steps | both ends derive the same key and the session starts fresh |
| Users, dialogs, messages (`handlers.rs` 387-623, `db.rs`) | tables users, dialogs, dialog_participants, messages, user_status | SignUp, SendMessage, GetHistory, dialogs and groups, statuses | check-then-insert, several statements without a transaction | one private dialog per pair, groups complete or absent, members only |
| Client session (`kosta/src/session.rs`) | keys, own and expected seq_no, msg_ids | connect, reconnect, authenticate, send_tl, recv_tl | timeouts with a late answer, reconnecting, authenticating twice | an answer is returned for its own request |
| Accept loop and shutdown (`server.rs` 30-119, `main.rs`) | join handles, shutdown signal | accept, stop | two nested timeouts, blocking tasks that cannot be cancelled | shutdown ends; finished handlers are waited for |
| WebSocket hub (`web/ws.rs`, `web/state.rs`) | dialog -> actors, user_status | auth, subscribe, send, stop | actors that end while messages are routed to them, several connections of one user | members only, each message once, presence |
| Web handlers (`web/handlers.rs`) | none of their own | login, chats, history | | |
| Rate limiter (`rate_limiter.rs`) | timestamps per key | check | | at most N per window |
| Framing (`kosta-transport`) | none | encode, decode, slice | length boundaries, partial reads | decode inverts encode |
| TL codec (`kosta-core`) | none | read, write | length prefixes, alignment | read inverts write |
| Primitive cryptography (`kosta-crypto`), metrics | none | | | left out, but for padding and what ciphers do to lengths |

`tls.rs`, `ige.rs` and `factor.rs` are not compiled.

The components meet as follows. A connection is one blocking task running
`handle_client`; it decodes frames (framing, TL), finds the session by the
auth_key_id in the frame (cache, then database), executes the request
(`handle_request`, tables), and answers under the session's numbering and
encryption. The handshake creates sessions. The client does the same in
mirror image, on one thread. The web server shares only the database (its own
cache object is never used). WebSocket actors share a table of subscriptions
with each other and the database with all. A message sent over TCP is not
broadcast, and one sent over WebSocket reaches TCP clients only through
GetHistory: the two sides meet in tables, never in memory.

The hazards of each component, at the line where they bite, are listed in
`PROJECT.json`, with the properties that watch over them or what is missing.

## Modules

| Module | What it is |
|---|---|
| `SessionServer` | the encrypted session on the server: handlers x cache x row |
| `SessionLedger` | what one session promises: the abstract specification |
| `SessionReplay` | `SessionServer` with a record of which msg_ids its list of recent ones has forgotten |
| `MCSessionServer`, `MCSessionReplay` | the sets of msg_ids and seq_nos TLC uses |
| `ClientSession` | the client's `Session` and the server it talks to: key exchange, numbering, timeouts |
| `Dialogs` | requests on dialogs, participants and messages, one SQL statement at a time |
| `MCDialogs` | its symmetry |
| `WebHub` | WebSocket actors, their mailboxes, subscriptions and presence |
| `MCWebHub` | two users, two dialogs |
| `Lifecycle` | start, accept loop, shutdown of the process |
| `Octets` | reading from bytes, shared by the two next |
| `TlCodec` | the TL encoding: all structures, reading and writing |
| `Frames` | one direction of a connection: framing over a byte stream that comes in pieces |
| `Wire` | objects sent through `Frames`: encoding, sealing, opening |
| `MessagePipe` | what a connection promises: the abstract specification of `Frames` and `Wire` |
| `MCWire` | the objects TLC sends |
| `ClientSessionProofs` | the seven safety properties of `ClientSession`, proved |
| `DialogsProofs` | types and the six other safety properties of `Dialogs`, proved |
| `FramesProofs` | the framing undoes itself and `Frames` implements `MessagePipe`, proved |
| `LifecycleProofs` | types and the two safety properties of `Lifecycle`, proved |
| `SessionServerProofs` | types and the nonce counter of `SessionServer`, proved |
| `SessionOrderProofs` | order of execution in `SessionServer`, and that no request is executed twice while its msg_id is kept, proved |
| `SessionMirrorProofs` | cache and row of `SessionServer`, and that it implements `SessionLedger`, proved |
| `WebHubProofs` | types and the five other safety properties of `WebHub`, proved |

### SessionServer and the code

One session (one auth_key_id) is modelled, with any number of handlers serving
frames for it. `task[h]` is the handler's place in `handle_client` with the
locals that are alive there; `cache` is the entry of this session in the
`SessionCache` (a set with at most one element); `db` its row; `recent` the
`recent_msg_ids` lists, by reference, since clones of `SessionData` share one
through an `Arc`; `now` the clock. `users` numbers the users SignUp creates.
`failed`, `executed`, `sent` and the field `told` are history.

A step is the code between two points where another task can get in: a lock of
the cache, a lock of `recent_msg_ids`, an SQL statement, a socket operation.
So `get_session` is three steps (`LookupHit` or `LookupMiss`, `LookupRead`,
`LookupFill`) and `update_session` two (`...Save` for the row, `...Put` for
the cache). The label of a handler says which step is next; `site` says which
of the five calls of `get_session` is under way.

| Labels | Code |
|---|---|
| `recv` | `transport.recv()`, server.rs:126 |
| `lookup*` | session_cache.rs:29-79, from server.rs:147, 158, 248, 274, handlers.rs:396 |
| `check` | server.rs:161-221: length, tag, header, msg_id, replay, seq_no, clock, in that order |
| `accept_*` | server.rs:222-224 |
| `handle`, `signup_*` | server.rs:233-242, handlers.rs:387-403 |
| `number_*` | server.rs:248-255 |
| `encrypt` | server.rs:263-272 |
| `seal_*` | server.rs:274-280 |
| `send` | server.rs:282-288 |

Abstractions: keys and nonce's random bytes are left out (they do not change,
or nothing depends on them); a frame is its msg_id, its seq_no and the kind of
request in it; a kind also says whether the tag matches, the header is there
and the request parses. What `handle_request` does to the tables other than
`sessions` is not in this module, only how it ends. The cache is one entry
that may be evicted at any time, which stands for the other 999.

The environment's faults are the constant `Disturbances`: eviction, restart of
the process, a failing SELECT in `get_session`, a failing write of the row, and
a clock that is set back (`ClockBack`; `SystemTime`, read at server.rs:211 and
263, promises no more). A failing SELECT has three different effects, by call
site, and `LookupFails` has them all.

`SessionReplay` adds a history variable to it, `lost`: the msg_ids that have been
on a list of recent ones and are not on all lists in use any more, because a list
was full or because the entry was rebuilt from the row with a new one.

### SessionLedger

Two append-only histories, `executed` and `sent`. A request is executed after
all requests with smaller msg_ids; an answer belongs to the latest request, is
its only answer, and is above all earlier ones in seq_no, msg_id and nonce
counter. `SessionServer` implements it with one handler (`LedgerSpec`): no
eviction, failed write or restart shows to the client other than by a
connection that closes. The clock is taken never to be set back: the msg_ids of
answers begin with it.

### ClientSession and the code

The client of `kosta/src/session.rs` with the server at the other end of its
connections. `client` is the `Session` with the locals of the call under way:
`pc` says which `recv_tl` of `authenticate`, `send_message` or `get_history` it
waits in. A link is one TCP connection with the frames in both directions; the
client holds one, and those it left may still hold frames the server has to
read. `sessions` is the server's table, `store` is `HANDSHAKE_STORE`, `aged`
the nonce pairs that are older than its 60 s.

| Actions | Code |
|---|---|
| `Authenticate`, `AuthResPQ`, `AuthDHParams`, `AuthDHGen` | session.rs:230-423, from one `recv_tl` to the next |
| `Request`, `Returns` | session.rs:525-563; `send_tl` of any other request that has no answer |
| `Reconnect` | session.rs:162-194 |
| `SendTl`, `Accepts`, `RecvFails` | session.rs:426-518 |
| `Timeout`, `RecvGarbled`, `RecvEof` | what `transport.recv()` returns otherwise |
| `ServeReqPq`, `ServeReqDHParams`, `ServeSetClientDHParams` | handlers.rs:138-374 |
| `ServeSignUp`, `ServeUser`, `ServeUserStatus` | handlers.rs:387-492 |
| `ServeDrops`, `ServeFails`, `ServeChokes` | the `continue`s and the `?`s of server.rs:124-298 |
| `ServeLooksUp` | a lookup that fails behind the first one: server.rs:158, handlers.rs:60-64 and 396 |

The server handles a frame in one step. That is what `SessionServer` takes
apart; here the entry in the cache and the row are one. Two handlers never have
frames of the same session (`KeyOnOneLink`), so the steps of one do not disturb
another's, but for `HANDSHAKE_STORE`, which they share.

Abstractions: the cryptographic checks of the handshake are what they tell
apart (nonces, secrets, the key they make); primes, signature and ranges of DH
values always pass, as they do with this server. msg_ids and times are not
kept: that a receiver refuses one is a choice, made when a clock has been set
(`clock`). The server refuses before it counts the frame, the client after it
(`RecvFails`), which is why a refusal by the server ends the session and one by
the client does not. A frame the client writes to a connection the server has
closed is lost; the code may learn of it at once, the model at the next read.

### Dialogs and the code

The requests of handlers.rs 406-623 on `dialogs`, `dialog_participants` and
`messages`. No request opens a transaction, so each SQL statement of db.rs is a
step, and so is the end of a request at any `?` (`Fail`), which is also what a
crash does to it. `dialogs` is the table with its participants, row ids being
positions; `handlers[h]` the request a thread works on: `pc` says which
statement is next. `joined`, `creator`, `mixed`, `undone`, `raced` and `reader`
are history.

| Actions | Code |
|---|---|
| `CreatePrivateDialog`, `FindPrivate`, `NewDialog`, `InsertParticipant` | handlers.rs:499-512, db.rs:434-459 |
| `CreateGroup`, `NewDialog`, `InsertParticipant` | handlers.rs:514-528, db.rs:461-478 |
| `AddGroupParticipant`, `CheckMember`, `InsertOrIgnore` | handlers.rs:530-547, db.rs:513-520 |
| `RemoveGroupParticipant`, `CheckMember`, `DeleteParticipant` | handlers.rs:549-569, db.rs:522-529 |
| `GetDialogs`, `ListDialogs`, `BuildDialogInfo` | handlers.rs:571-623, db.rs:480-511 |
| `SendMessage`, `SendMessageAck` | handlers.rs:406-433, 470-474 |
| `FirstPage`, `NextPage` | handlers.rs:436-467, db.rs:560-593, called by a client that pages through a history |

Foreign keys are enforced: the bundled SQLite is built so, and user 0 exists
(db.rs:120). So a participant without a row in `users` makes an INSERT fail in
the middle of a request, which leaves a group half made. Rows of one second
come in the order of their ids, as the index on `dialog_id` gives them; no
property depends on which order it is, only on its being the same each time.
Titles, texts and the names in answers are left out, and so are methods of
`Database` no request calls.

What the code does and the properties leave room for: a private dialog with
oneself finds any private dialog one is in, since the SELECT joins one
participant's rows twice; `is_group` in an answer means more than two
participants, whatever the type column says; `remove_participant` may leave a
dialog without participants, when two members remove each other at once.

### WebHub and the code

One actor per connection, `conn[c]`, with its mailbox `inbox[c]`; `table` is
`WebState.connections`, `status` the rows of `user_status`. An actor works on
one thing at a time, and a request is cut where it touches what actors share:

| Actions | Code |
|---|---|
| `Connect`, `Stop` | ws.rs:299-315, 52-69, 241-247 |
| `Auth`, `AuthOnline`, `AuthAnnounce` | ws.rs:82-107, state.rs:33-41 |
| `Subscribe`, `Register` | ws.rs:110-140, state.rs:18-21 |
| `SendMessage`, `Save`, `BroadcastMessage` | ws.rs:143-215, state.rs:23-31 |
| `Handle` | ws.rs:256-277 |
| `UpdateStatus` | handlers.rs:477-492, db.rs:651-659 |

`Leave` removes a participant as RemoveGroupParticipant does, `UpdateStatus` is
the UserStatusUpdate of a client over TCP, and `Restart` ends the process.
`unsure` and `stale` are history: users whose row need not say what the hub knows,
and connections whose user has been removed since they last checked. The rate limiter's verdict is a choice in `SendMessage`.
An actor that has stopped stays in `table`; what is sent to it is lost.

What the code does and the properties leave room for: the status "offline" is
written and never announced; closing one of a user's two connections shows the
user offline, authenticating again as another user leaves the first one online, and
a client over TCP may report any status whoever is connected (all `unsure`, until
an actor next writes the row of a user without another connection); an actor is subscribed once more by every `subscribe`
and then gets every message once more; nobody is ever unsubscribed, so a removed
participant goes on receiving. `auth` works only for users with a row in
`user_status` (ws.rs:84), which a UserStatusUpdate over TCP makes and web login
does not; and the page of `web-ui` subscribes with `chat_id` where the server reads
`dialog_id`, which is outside this module: it takes requests as ws.rs reads them.

### Lifecycle and the code

`main` and `server` say where main.rs:18-64 and `run_server` (server.rs:30-119)
are; `thread[c]` is the blocking task of a connection, `handles` the JoinHandles
in their order. Both limits of five seconds count ticks of one `clock`.

| Actions | Code |
|---|---|
| `Start`, `Interrupt`, `Joined`, `DropRuntime`, `Exit` | main.rs |
| `Bind`, `Accept`, `AcceptFails`, `StopAccepting` | server.rs:35-110 |
| `WaitForHandle`, `AllClosed` | server.rs:112-118 |
| `BeginTask`, `TakeRequest`, `Answered`, `Return` | server.rs:78-98, `handle_client` |

Two rules are tokio's: a blocking task that has begun cannot be aborted, and
dropping the runtime waits for it without limit; one that has not begun is
cancelled. `main` being `#[tokio::main]`, its return drops the runtime. The web
server's thread is left out: nothing waits for it.

### TlCodec, Frames, Wire and MessagePipe

`TlCodec` is types.rs and constructors.rs: all 24 structures as tables of
fields, with the constructor ids, and `WriteBoxed` and `ReadBoxed` over them.
Values that are only carried (ids, times, nonces) are their bytes; lengths,
counts and flags are numbers.

`Frames` is the transport under it, for payloads of any bytes. `SendFrame` puts
the frame of a payload (`EncodeFrame`) on a stream that delivers bytes in pieces
(`BytesArrive`) and may end anywhere (`CutStream`). The receiver takes frames
with `decode_frame` (`TakeFromStream`, tcp.rs) or `decode_frame_from_slice`
(`TakeFromSlice`, mock.rs), or sees an error (`TakeFails`).

| Definitions | Code |
|---|---|
| `EncodeFrame` | abridged.rs:10-25 |
| `FrameLength`, `DecodeFrame`, `NoFrame` | abridged.rs:28-55 |
| `DecodeFromSlice` | abridged.rs:59-97 |
| `SendFrame`, `TakeFromStream` | tcp.rs:16-26 |
| `TakeFromSlice` | mock.rs:45-48 |

`Wire` sends objects through `Frames`: each of its actions is one of `Frames`
with what the session makes of the payload. `Enclosed` is the inner object of a
handshake message, padded and encrypted, `Payload` the header and tag of
`send_tl`, `Opened` what `recv_tl` does with a payload it gets. A cipher keeps
lengths and is undone at the other end.

`MessagePipe` has two histories, `sent` and `got`, and a flag: what comes out is
what was put in, in order, and all of it unless the connection breaks.
`PipeSpec` is the refinement, of payloads and of objects, liveness included. It
says at once that reading inverts writing for every kind of object, that no
length confuses the framing, and that a piece of a frame is never taken for a
frame.

`LengthsAvoidMark`: encode_frame writes 127 as a one-byte header, which
decode_frame takes for the mark of the long form, so a payload of 127 bytes
would be read wrong. No object of this protocol makes one. A sealed payload is
52 bytes and the object; everything in an object but its byte strings has a
length divisible by four, and a short string with its padding takes one more
than that, since the padding does not count the length byte. 127 is 3 modulo
four and so needs three short strings in one object; the objects with three are
`ResPQ` (67 bytes) and lists of messages or dialogs, which are longer then.
The run checks this with texts around the boundaries.

Left out: the UTF-8 check (both ends write what they read as `String`), and the
memory a vector's count asks for before its elements are read (types.rs:168-169):
a count no writer makes may end the reader there, where `ReadVector` fails.
Payloads over 1 MiB, which a server writes when a history is large enough and the
receiver refuses (abridged.rs:47), are in `Frames` and its theorems; the run does
not send one.

## Runs

| Run | Shows | Bounds |
|---|---|---|
| `session_one` | with one connection at a time, evictions, restarts and failed writes: types, order of execution, growth of the nonce counter, cache never ahead of the row, an entry rebuilt from the row as good as the one evicted, seq_nos consecutive on a connection, a row that only moves forward, the ledger, and that replies arrive | 1 handler, msg_ids 1..3, seq_nos 0..1, clock 0..1, two msg_ids per ms, window 0, recent list of 2 |
| `session_shared` | with two connections at once, frames refused late and restarts: no request is executed twice as long as the list keeps its msg_id | 2 handlers, msg_ids 1..3, seq_no 0, recent list of 2 |
| `session_read_faults` | failing SELECTs, malformed frames, evictions and a clock that is set back: every frame settles | 1 handler, seq_nos 0..1, clock 0..1, window 1, recent list of 1 |
| `client_used` | timeouts, handlers that fail, handshakes that age, restarts: numbering agrees on both ends, a session stays on one connection, no handshake is forgotten early, every call returns | 2 connections, 2 attempts, 2 requests of 4 kinds |
| `client_faults` | failing writes and handlers, torn frames, clocks set, failing lookups, authenticating twice: no request skipped, no key the server lacks, no answer to another's call without a timeout | 2 connections, 3 attempts, 2 requests of 3 kinds |
| `dialogs` | requests interleaved by statement and ending half way: one private dialog per pair, answers show their change, what a failed request leaves, who changes participants, who can empty a dialog, and that paging skips no message | 2 users and an id without a user, 2 requests at a time, 3 in all, clock 0..1, pages of 1 |
| `hub` | subscribers get messages, no oftener than they subscribed, in one order; senders are members; presence; messages arrive | 2 connections, 2 users, 2 dialogs, 4 requests or statuses reported over TCP, of which 2 send |
| `shutdown` | what Ok from `run_server` means, that nobody is cut short before the limit, that every client is heard, and that the process ends once clients have gone | 3 connections, 2 threads, limits of 2 ticks, 5 ticks |
| `wire` | `Wire` implements `MessagePipe`, for the payloads and for the objects in them; no payload of 127 bytes | 2 objects, the first of every kind and with texts of 0-4, 53-55, 253-255 bytes; 2 pieces of 1 or 3 bytes, all but one byte, or all; padding up to 43 |
| `shutdown_hangs` | after SIGINT the process need not end (violation) | as `shutdown` |
| `client_status` | `update_status` after `SignUp` is refused (violation) | 1 attempt, 2 requests |
| `session_nonce` | two connections of one session seal answers with the same nonce counter (violation) | 2 handlers |

The bounds are enough for the interesting cases: with three msg_ids a frame
can be older, equal and newer than the last, and a third one pushes the first
out of a recent list of two, which with two handlers lets one of them hold a clone
from before; a frame is too old, current or too new; two
answers of one connection, and two on either side of a restart, are sent.
seq_nos bound the number of accepted requests to two, which is what every
property speaks of: a pair of neighbours.

With two users every pair, and the self-pair, is there; three requests are two
that overlap and one that finds what they left. (With three users the run takes
longer than it is worth; it was made once and found the same.) Two pieces and
all the rest cut a frame inside the length byte, inside the length and inside
the payload; two objects are enough for the end of one frame and the start of
the next to arrive together. Three connections on two threads leave one queued
when the server is interrupted. In the hub two connections are those of two
users or of one.

Deadlock is checked in the runs of `SessionServer` and `ClientSession`. The
others may stop: a process that has exited, a connection that has ended, or
clients that have made all the requests the bound allows.

In the client runs two connections are the current one and one whose frames
the server still works on; two attempts are a handshake that fails half way and
the next one, or an authentication and one on top of it, and with three both
happen with a reconnect in between; of two requests the second is the one that
could get the first one's answer, or be executed in its place.

Fairness in `WebHub`: every actor with work goes on (`Work`), clients do what they
like. In `Lifecycle`: tasks, threads and timers run; clients need not close, nor
the server be interrupted. In `Wire`: bytes under way arrive and the receiver
reads what there is. `Dialogs` has safety only.

Fairness in the session modules: each handler's own steps are weakly fair (`WF_vars(Step(h))`). A
handler is a thread of its own (`spawn_blocking`), no lock is held over a
blocking call, and every lock is released by the step that takes it. There is
no fairness for the client (`Receive`, `Connect`, `HangUp`), for faults, or
for the clock. In `ClientSession` the handlers (`Serve(i)`) are weakly fair for
the same reason, and so is the client's reading of what has arrived
(`Receive`), since it blocks in `recv`. Timeouts are not: over TLS, and with
`timeout_secs = 0`, none is set (session.rs:91-103), and `CallsEnd` holds
without them.

`RebuiltAsCached` leaves out two things. The receive counter inside `crypto` does
not come back ahead but may come back behind: the code stores an older field for
it (server.rs:224 undoes 223), and nothing reads it. And the list of recent
msg_ids does not come back at all: a frame refused for its seq_no or its time is
in the list (server.rs:200), so it is refused again while the entry is cached and
may be accepted once it has been rebuilt.
`RowMovesForward` names the same column, `recv_counter`, at that one statement as
its exception, and speaks of runs in which no write has failed so far: after
one, a stale cache entry overwrites what was written (handlers.rs:395-398).
`AnswersConsecutive` speaks of the answers on one connection: a number reserved
for an answer that was never sent leaves a gap to the next connection's first.
`ExecutedOnceWhileKept` leaves out what the list does not keep: with two
connections a handler with an old clone has only the list against it, and executes
a request again once the list has forgotten it or there are two lists.
`NonceCounterGrows` and `LedgerSpec` are checked without failing SELECTs: a
failure at server.rs:274 skips storing the counter of an answer that is sent; and
`LedgerSpec` with a clock that is not set back.

`SenderWasMember` is a property of the step that saves: the user is in the dialog,
or has been removed since the actor's check for this message (`stale`). What
`PresenceIsTrue` exempts is listed at its definition, each case with what ends it.

`CallsEnd` and `InStep` are claimed for a `Session` that authenticates once per
connection, with writes and lookups that do not fail and clocks that are not
set. Otherwise the server may drop a request without a word, and from then on
all that follow under that key, since none has the next number:
`NoRequestSkipped` is what is left of it, and holds whatever happens.
`AnswersOwnRequest` ends with the first timeout of a connection: the late
answer is then in front of every later one.

### The disagreements found

`session.rs:558` says that `update_status` updates the status of the current
user. It sends `Session::user_id`, which nothing sets, or 0; after `SignUp` the
server refuses that as another user's status and closes the connection
(`client_status`).

`session_crypto.rs:47-48` documents a nonce whose counter part increases from
message to message. Two connections of one session that both accept a request
before either answers seal both answers with the same counter
(`session_nonce`): the handler encrypts with the clone it took at server.rs:227
and stores its counter without looking at what is there.

`server.rs:112` waits for all handlers "with a timeout", and main.rs:62 then
reports a graceful shutdown. The limit ends the awaiting only. A client that
stays connected and sends nothing keeps its handler in `recv`, which no
read timeout ends, and dropping the runtime waits for that handler: the process
does not end (`shutdown_hangs`).

## Theorems

`TypeCorrect`: `Spec => []TypeOK`, for all constants. `TypeOK` is inductive;
the proof has one lemma for every group of actions, and lemmas for the record
updates they share (`LocalType`, `WriteType`, `PutType`).

`NonceCounterGrowsAlone`: if `read_fault` is not a disturbance, then
`Spec /\ []OneAtATime => []NonceCounterGrows`. `NonceCounterGrows` alone is
not inductive: the next answer's counter comes from the crypto clone, which
came from a session clone, which came from the cache or from the row. The
inductive invariant `NonceInv` says that every one of those copies is above
all counters sent (`Ready`, `Unused`), and that between sealing an answer and
sending it the handler lifts the session clone, the row and the cache above
that answer's counter, one at a time (`Covered`). This is exactly what the
statements at server.rs:275-279 are for. `OneAtATime` (one connection of the
session is served at a time) is an assumption on the clients; without it the
property fails, as `session_nonce` shows for the weaker `NonceCounterUnique`.

`ExecutedInOrderAlone`: `Spec /\ []OneAtATime => []ExecutedInOrder`, failing
SELECTs included. What keeps an old request from being executed is
`last_recv_msg_id`, so the inductive invariant `OrderInv` follows it through
the copies of the session: none is behind what has been executed (`Past`), and
the request at hand, newer than all executed ones (`Fresh`), has its msg_id in
the clone, then in the row, then in the cache before it is executed. The order
of server.rs:222-224 before 233 is what the proof uses: a request is recorded
in both places first. The list of recent msg_ids plays no part in it.

`ExecutedOnceWhileKeptCorrect`: `ReplaySpec => []ExecutedOnceWhileKept`, for any
number of connections and under all disturbances. Here the list is what the proof
is about: what has been executed and is not `lost` is on every list that a clone
or the cache points to, so the check of server.rs:193-201 refuses it there,
whatever the clone's `last_recv_msg_id` says; and a request whose frame has passed
that check and is not executed yet is with one handler only.

In `SessionMirrorProofs`, under the same two assumptions as
`NonceCounterGrowsAlone`: `WriteAheadAlone`, `RebuiltAsCachedAlone`,
`RowMovesForwardAlone`, `AnswersConsecutiveAlone` and `LedgerAlone`. That the
cache is never ahead of the row, or says the same between two frames, follows
from nothing one step does: a handler changes the clone, the row and the cache
in turn, and looks the session up anew in between. The inductive invariant
`MirrorInv` says for every label which of them agree (`Mirrored`): all of them
before a request is accepted (`Taking`); the clone ahead of the row while it is
recorded (`Recording`); row and cache without the user SignUp has just given the
clone, or with it (`Naming`); clone and row ahead of the cache between a `Save`
and its `Put` (`Stored`); all of them otherwise (`Settled`). A write that fails
leaves the row behind, so `Taking` and `Recording` speak of connections whose
writes have not failed, or that have been answered since (`Sound`), and such a
failure is why a rebuilt entry is as the cached one only without one. `Numbering` adds what an
answer under way has taken from the row's counters and that all answers sent are
below it. `LedgerAlone` is the refinement, step by step: only `handle` and
`signup_put` add to `executed`, where `OrderInv` gives the order, and only
`send` to `sent`, where `MirrorInv` gives seq_no, msg_id and the request and
`NonceInv` the counter; every other step is a stutter. It assumes besides that
`clock_back` is not a disturbance. TLC found `MirrorInv` to
hold before it was proved, with one handler and with two under `OneAtATime`.

In `ClientSessionProofs`, for any number of connections, attempts and requests
and whatever disturbs them (but for the last theorem): `TypeCorrect`,
`KeyIsKnown` (`KeyKnown`), `KeysStay` (`KeyOnOneLink`), `HandshakesRemembered`,
`NoneSkipped` (`NoRequestSkipped`) and `AnswersOwn` (`AnswersOwnRequest`), all
from one inductive invariant, `ClientInv`:

- `CallInv`: what the client keeps at which point of a call; its nonce is the
  last one drawn.
- `KeyInv`: the second part of a key is the nonce of the attempt it was agreed
  in. A key in a frame on a connection left behind is older than the one the
  client has, and all are older than the attempt under way, so a new key is on
  no frame yet; a DHGenOk carries the key of a session that exists.
- `OpenInv`: a SetClientDHParams of an attempt is under way once at most, and
  only after the client has left `dh_params`; the session it opens is the only
  one of that attempt, and has not been opened before.
- `RememberInv`: from the ServerDHParamsOk on the way to the client until its
  SetClientDHParams is served, the entry in `HANDSHAKE_STORE` stays, or its pair
  has aged: another request with the same pair would replace it, and there is
  none.
- `NumberInv`: under one key all frames have `seq = id - 1` (`Plain`), or all
  have a number the server never comes to (`Ahead`), which is what is left of an
  earlier numbering after authenticating twice; and what a session has counted it
  has executed, or nothing more comes under its key (`Silent`), since the handler
  that failed in between has closed the connection.
- `AnswerInv`: until the first timeout one frame that asks for an answer, or one
  answer, is under way, and it is of the call the client is in.

`KeysInStep` (`Spec => []InStep`) assumes what the text on the runs says of
`InStep`: `Undisturbed`, that writes and lookups do not fail, no frame is torn, no
clock is set and the client does not authenticate on top of a key, as in
`client_used`. Timeouts, failing handlers, old handshakes and restarts remain.
Under it `StepInv` is inductive together with `ClientInv`: nothing is lost before
a connection closes (`WholeInv`); when the DHGenOk arrives at a client that waits
for it, nothing else is under way in either direction, and both sides count from
-1 (`TakeInv`); from then on every frame in either direction is under the key and
has the number after the one before it (`FlowInv`). TLC found both invariants to
hold, on the constants of `client_faults` and `client_used`, before they were
proved.

In `WebHubProofs`, for any number of connections, users, dialogs and messages,
all from one inductive invariant, `HubInv`: `TypeCorrect`, `SendersWereMembers`,
`StatusIsPresence`, `OneOrderForAll`, `SubscribersHaveIt` and
`CopiesAreCaused`. Its parts:

- `ActorInv`, `CheckInv`: which locals an actor has at which label, and that the
  user of a message about to be saved is in its dialog or has been removed since
  the check. `SendersWereMembers` (`Spec => SenderWasMember`) follows step by step.
- `PresenceInv`: a user whose status is claimed to be sure has at most one
  connection, so that no other one's end makes it wrong.
- `UnseenInv`, `OrderInv`: a message that is saved and not yet broadcast is with
  nobody, and in what a client has got followed by what is in its mailbox, the
  messages of a dialog never go back. `SameOrder` says the latter of the first
  part only, which `Handle` extends from the second.
- `SubscribedInv`, `CopiesInv`: a list of `table` holds a connection that is open
  exactly as often as its client has been told; copies of a message in client and
  mailbox together are no more than that, and at least one where the broadcast
  sent it. The counts are cardinalities of sets of positions.

The one assumption is that there are finitely many dialogs
(`HubDialogsAssumption`): `WebState.connections` is a map in memory. TLC found
`HubInv` to hold on the constants of `hub` before it was proved.

In `LifecycleProofs`: `TypeCorrect`; `OkIsAllDone` (`Spec => []OkMeansAllDone`) by
the invariant `Awaited`, that the tasks before the handle waited for have ended
without a panic, and `DoneStays`, that none comes back; `NobodyCutShort`
(`Spec => []NobodyIsCutShort`) by `Ended`, which keeps, for a `run_server` that
has failed, why it did (`Reason`): a limit that passes began at the signal or
later, so five seconds have passed since.

In `DialogsProofs`, all from one inductive invariant, `DialogsInv`:
`TypeCorrect`, `CreatorJoins` (`Spec => []LeftoverIsCreators`), `ChangedByMembers`
(`Spec => MembersChangeMembers`) and `EmptiedTogether`
(`Spec => EmptiedOnlyByEachOther`). `DialogsInv` ties the requests under way to
the dialogs they work on (`RequestInv`): the next to join a dialog nobody has
joined is the user who asked for it, since creators come first in the list; and
a request between its check and its change belongs to somebody who has joined,
whatever other requests have done to the dialog in between, since nobody is
taken off `joined`. Who is taken off `members` may still have a change to make,
and that is all two requests can do to a dialog's last participants: a request
alone never removes its own user.

The other three properties of `Dialogs` have two more inductive invariants on
top of `DialogsInv`:

- `AnswersInv` gives `AnswersShow` (`Spec => []ChangeShows`) and `OnePerPair`
  (`Spec => []OnePrivateDialog`). `Shows` says where a change is before it is
  answered: whoever was asked for is a participant or still in the list to
  insert. `RacedInv` counts for a pair not only its dialogs but what becomes one:
  a dialog being filled that will hold the pair (`Holds`), and a request that has
  found none and has yet to insert one (`Looked`). Two of these come only of
  requests that looked at the same time. It needs `FillersApart`, that no two
  requests fill one dialog, and `Fills`, that a private dialog takes in only its
  two users until somebody is added to it.
- `ReadInv` gives `NoneMissed` (`Spec => []NoMessageSkipped`): what a reader is
  owed and has not seen is behind its offset. A new message, wherever the clock
  puts it, moves no old one forward (`HistoryMoves`); and a page with a message
  behind it is full (`FullPage`), because the ranks of a history are all taken
  (`RankTaken`), so the page that ends the walk is the last.

TLC found both to hold on the constants of `dialogs`, and with three
users, three handlers and pages of two, before they were proved.

In `FramesProofs`, for any set of payloads of bytes, any number of them and any
pieces, first the operators: `SliceAsStream` (both decoders take the same payload
out of the same bytes and leave the same bytes), `FrameRoundTrip` (`decode_frame`
waits on the beginning of a frame, and on all of it returns the payload and leaves
what is behind) and `MarkConfuses` (which is false of every payload of 127 bytes).
Then the stream: `FramesTyped`, `FramesInOrder` (`FramesSpec => []OutAsPut`),
`FramesAllOut` (`NothingLeftBehind`), `FramesFailure` (`FailureHasACause`) and
`FramesArePipe`, all from one inductive invariant, `FramesInv`. That what came out
is what was put in is not inductive, since it says nothing of the bytes that are
under way. `OnTrack` does: the bytes that have arrived and those that have not
are, together, the frames of the payloads not yet taken, one behind the other
(`Lined`), or the beginning of them once the stream is cut (`UnderWay`). The
sequence of frames and where each begins are existentially quantified; sending
puts a frame at its end, receiving takes one off its front, and the arrival of
bytes only moves the border. The other case, `Derailed`, is that a payload of 127
bytes has been taken for something else; from there on nothing is claimed, so that
the theorems need no hypothesis on lengths: `OutAsPut` speaks of what comes before
the first such payload. Only `FramesArePipe`
(`FramesSpec /\ []LengthsAvoidMark => FramePipe!Init /\ [][FramePipe!Next]_(FramePipe!vars)`)
has one: `LengthsAvoidMark` is no property of the framing but of the objects the
protocol has, for which the run `wire` checks it. On payloads of 0, 1, 3 and 126
to 130 bytes with `MAX_FRAME_SIZE` made 129, TLC found `FramesInv` to hold before
it was proved.

The assumptions on constants are those named in the modules; TLC evaluates
them in every run.

`OneAtATime` is what this project's own client gives the server: the frames of
a session are all on one connection, which `KeysStay` proves of `ClientSession`
(`KeyOnOneLink`), with the server's handlers as one step each.

Only model-checked: of `SessionServer`, that two connections at once repeat a
nonce counter. With more than one connection only types and
`ExecutedOnceWhileKept` are proved, with failing SELECTs only these and the order
of execution.
`RepliesArrive`, `FramesSettle`, `CallsEnd`, `MessagesArrive`,
`EveryoneIsHeard`, `ProcessEnds` and the liveness part of `PipeSpec` are liveness
under fairness and stay with TLC. `TlCodec` reads and writes nested types by
recursive operators, out of the provers' reach, so what `Wire` adds to `Frames`
stays with TLC: that reading inverts writing, and `LengthsAvoidMark`.

## Plan

The safety properties of every module but `Wire` and `TlCodec` are proved, those
of `SessionServer` and the refinement of `Frames` under the assumptions named
with them. Left is to model the separate locks of SetClientDHParams as steps of
two handlers, should a client that repeats it appear.

## Not modelled

- Ciphers, hashes, key derivation and signatures: calls of libraries without
  state. Prime and range checks (`kosta/src/dh_checks.rs`): pure functions of
  2048-bit numbers, taken as passed, as they are with this server.
- The rate limiter: a map of times under one lock, whose verdict `WebHub` takes as
  a choice. No property of the hub depends on it.
- Web handlers: queries without state of their own; HTTP; the page of `web-ui`.
- Counters that wrap at 2^32: out of reach of bounded instances.
- TLS, metrics, logging, wording; `tls.rs`, `ige.rs`, `factor.rs`, which are not
  compiled.
