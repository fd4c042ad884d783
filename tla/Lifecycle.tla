------------------------------ MODULE Lifecycle ------------------------------
(***************************************************************************)
(* The server process from its start to its end: main.rs, and the accept   *)
(* loop and shutdown of run_server in server.rs.                           *)
(*                                                                         *)
(* main waits for SIGINT, tells the accept loop over a broadcast channel,  *)
(* waits for it with a limit and returns, which drops the tokio runtime.   *)
(* The accept loop gives each connection to a thread of the runtime's      *)
(* blocking pool.  What such a thread does to its client's session is the  *)
(* matter of SessionServer; here it waits for the client, works on a       *)
(* request, and returns or panics.                                         *)
(*                                                                         *)
(* The rules of the pool and of dropping the runtime are tokio's: a        *)
(* blocking task that has begun cannot be aborted and is waited for, one   *)
(* that has not begun is cancelled.                                        *)
(***************************************************************************)
EXTENDS Naturals, Sequences, FiniteSets

CONSTANTS
    Clients,    \* bound: connections made to the server
    PoolSize,   \* threads of the blocking pool (512)
    Grace,      \* both limits of waiting (5 s), in ticks
    MaxTime     \* bound: ticks after the signal

ASSUME LifecycleAssumption ==
    PoolSize \in Nat \ {0} /\ Grace \in Nat \ {0} /\ MaxTime \in Nat

VARIABLES
    main,      \* where main() is
    server,    \* where run_server() is
    listening, \* the listener exists
    signal,    \* what was sent on the shutdown channel has not been read
    client,    \* the clients' ends of the connections
    handles,   \* JoinHandles, in the order of accepting
    thread,    \* the blocking task of each connection
    next,      \* the handle the accept loop waits for
    clock,     \* ticks since the signal
    since      \* when that wait began

vars == <<main, server, listening, signal, client, handles, thread, next,
          clock, since>>

Running == {c \in Clients : thread[c] \in {"waiting", "busy"}}
Finished == {"done", "panicked", "cancelled"}
Signalled == main \notin {"starting", "waiting"}
-----------------------------------------------------------------------------
(* main *)

(* Configuration, key and database are read; the web server gets a thread  *)
(* of its own that nobody waits for; run_server becomes a task.            *)
Start ==
    /\ main = "starting"
    /\ main' = "waiting"
    /\ server' = "binding"
    /\ UNCHANGED <<listening, signal, client, handles, thread, next, clock,
                   since>>

(* SIGINT.  Without a receiver the send fails, which is ignored.           *)
Interrupt ==
    /\ main = "waiting"
    /\ main' = "joining"
    /\ signal' = (server \in {"binding", "accepting"})
    /\ UNCHANGED <<server, listening, client, handles, thread, next, clock,
                   since>>

ServerReturned == server \in {"ok", "failed"}

(* timeout(5 s, server_handle): the task has ended in whatever way, or the *)
(* limit is over and the task goes on by itself.                           *)
Joined ==
    /\ main = "joining"
    /\ ServerReturned \/ clock >= Grace
    /\ main' = "dropping"
    /\ UNCHANGED <<server, listening, signal, client, handles, thread, next,
                   clock, since>>

(* main returns: the runtime drops run_server where it stands, cancels the *)
(* tasks no thread has begun, and waits for the others without limit.      *)
MayExit == Running = {}

DropRuntime ==
    /\ main = "dropping"
    /\ \/ ~ServerReturned
       \/ \E c \in Clients : thread[c] = "queued"
    /\ server' = IF ServerReturned THEN server ELSE "dropped"
    /\ listening' = FALSE
    /\ client' = [c \in Clients |->
           IF client[c] = "connecting" \/ thread[c] = "queued" THEN "closed"
           ELSE client[c]]
    /\ thread' = [c \in Clients |->
           IF thread[c] = "queued" THEN "cancelled" ELSE thread[c]]
    /\ UNCHANGED <<main, signal, handles, next, clock, since>>

Exit ==
    /\ main = "dropping"
    /\ ServerReturned \/ server = "dropped"
    /\ \A c \in Clients : thread[c] # "queued"
    /\ MayExit
    /\ main' = "exited"
    /\ client' = [c \in Clients |-> "closed"]
    /\ UNCHANGED <<server, listening, signal, handles, thread, next, clock,
                   since>>
-----------------------------------------------------------------------------
(* run_server *)

(* The listener and the TLS identity, any of which may fail.               *)
Bind ==
    /\ server = "binding"
    /\ \/ server' = "accepting" /\ listening' = TRUE
       \/ server' = "failed" /\ UNCHANGED listening
    /\ UNCHANGED <<main, signal, client, handles, thread, next, clock, since>>

(* handles.push(handle): nothing ever takes a finished one out again.      *)
Remember_Not(c) == handles
Remember(c) == Append(handles, c)

(* A connection gets a blocking task, which waits for a free thread; or    *)
(* the stream cannot be converted and is dropped.  (An error of accept()   *)
(* itself changes nothing.)                                                *)
Accept(c) ==
    /\ server = "accepting"
    /\ client[c] = "connecting"
    /\ \/ /\ client' = [client EXCEPT ![c] = "open"]
          /\ handles' = Remember(c)
          /\ thread' = [thread EXCEPT ![c] = "queued"]
       \/ /\ client' = [client EXCEPT ![c] = "closed"]
          /\ UNCHANGED <<handles, thread>>
    /\ UNCHANGED <<main, server, listening, signal, next, clock, since>>

(* Connections that have not been accepted are reset with the listener.    *)
Unlisten_Leaks == listening' = FALSE /\ UNCHANGED client
Unlisten ==
    /\ listening' = FALSE
    /\ client' = [c \in Clients |->
           IF client[c] = "connecting" THEN "closed" ELSE client[c]]

(* set_nonblocking(false) fails: `?` leaves run_server.                    *)
AcceptFails ==
    /\ server = "accepting"
    /\ \E c \in Clients : client[c] = "connecting"
    /\ server' = "failed"
    /\ Unlisten
    /\ UNCHANGED <<main, signal, handles, thread, next, clock, since>>

(* The other branch of select!.                                            *)
StopAccepting ==
    /\ server = "accepting"
    /\ signal
    /\ signal' = FALSE
    /\ server' = "closing"
    /\ Unlisten
    /\ next' = 1
    /\ since' = clock
    /\ UNCHANGED <<main, handles, thread, clock>>

(* timeout(5 s, handle).await??, one handle after the other, each with a   *)
(* limit of its own; the first limit that passes or task that panicked     *)
(* ends the waiting for all.                                               *)
Expired_Short == clock > since
Expired == clock >= since + Grace
AfterTimeout_GoesOn == /\ next' = next + 1 /\ since' = clock
                       /\ UNCHANGED server
AfterTimeout == server' = "failed" /\ UNCHANGED <<next, since>>

WaitForHandle ==
    /\ server = "closing"
    /\ next <= Len(handles)
    /\ LET t == thread[handles[next]]
       IN  \/ /\ t = "done"
              /\ next' = next + 1
              /\ since' = clock
              /\ UNCHANGED server
           \/ /\ t = "panicked"
              /\ server' = "failed"
              /\ UNCHANGED <<next, since>>
           \/ t \notin Finished /\ Expired /\ AfterTimeout
    /\ UNCHANGED <<main, listening, signal, client, handles, thread, clock>>

AllClosed ==
    /\ server = "closing"
    /\ next > Len(handles)
    /\ server' = "ok"
    /\ UNCHANGED <<main, listening, signal, client, handles, thread, next,
                   clock, since>>
-----------------------------------------------------------------------------
(* The thread of a connection: handle_client *)

(* The pool takes tasks in their order.                                    *)
BeginTask ==
    /\ main # "exited"
    /\ Cardinality(Running) < PoolSize
    /\ \E i \in DOMAIN handles :
           /\ thread[handles[i]] = "queued"
           /\ \A j \in 1..i - 1 : thread[handles[j]] # "queued"
           /\ thread' = [thread EXCEPT ![handles[i]] = "waiting"]
    /\ UNCHANGED <<main, server, listening, signal, client, handles, next,
                   clock, since>>

TakeRequest(c) ==
    /\ thread[c] = "waiting" /\ client[c] = "open"
    /\ thread' = [thread EXCEPT ![c] = "busy"]
    /\ UNCHANGED <<main, server, listening, signal, client, handles, next,
                   clock, since>>

Answered(c) ==
    /\ thread[c] = "busy"
    /\ thread' = [thread EXCEPT ![c] = "waiting"]
    /\ UNCHANGED <<main, server, listening, signal, client, handles, next,
                   clock, since>>

(* recv fails at the end of the stream; a request that fails or panics     *)
(* ends the connection too.                                                *)
LeavesLoop_Never(c) == FALSE
LeavesLoop(c) == thread[c] = "waiting" /\ client[c] = "closed"

Return(c) ==
    /\ \/ LeavesLoop(c) /\ thread' = [thread EXCEPT ![c] = "done"]
       \/ /\ thread[c] = "busy"
          /\ thread' \in {[thread EXCEPT ![c] = "done"],
                          [thread EXCEPT ![c] = "panicked"]}
    /\ client' = [client EXCEPT ![c] = "closed"]
    /\ UNCHANGED <<main, server, listening, signal, handles, next, clock,
                   since>>
-----------------------------------------------------------------------------
(* Clients and time *)

Connect(c) ==
    /\ main # "exited"
    /\ client[c] = "none"
    /\ client' = [client EXCEPT ![c] =
           IF listening THEN "connecting" ELSE "closed"]
    /\ UNCHANGED <<main, server, listening, signal, handles, thread, next,
                   clock, since>>

Disconnect(c) ==
    /\ client[c] = "open"
    /\ client' = [client EXCEPT ![c] = "closed"]
    /\ UNCHANGED <<main, server, listening, signal, handles, thread, next,
                   clock, since>>

Tick ==
    /\ Signalled /\ main # "exited"
    /\ clock < MaxTime
    /\ clock' = clock + 1
    /\ UNCHANGED <<main, server, listening, signal, client, handles, thread,
                   next, since>>
-----------------------------------------------------------------------------
Init ==
    /\ main = "starting"
    /\ server = "none"
    /\ listening = FALSE
    /\ signal = FALSE
    /\ client = [c \in Clients |-> "none"]
    /\ handles = <<>>
    /\ thread = [c \in Clients |-> "none"]
    /\ next = 0
    /\ clock = 0
    /\ since = 0

Main == Start \/ Joined \/ DropRuntime \/ Exit
Server == \/ Bind \/ AcceptFails \/ StopAccepting \/ WaitForHandle \/ AllClosed
          \/ \E c \in Clients : Accept(c)
Thread(c) == TakeRequest(c) \/ Answered(c) \/ Return(c)

Next ==
    \/ Main \/ Server \/ BeginTask \/ Tick
    \/ \E c \in Clients : Thread(c) \/ Connect(c) \/ Disconnect(c)
    \/ Interrupt

(* Tasks, threads and timers run.  A client need not close its connection, *)
(* nor make a request, nor is the server bound to be interrupted.          *)
Fairness ==
    /\ WF_vars(Main) /\ WF_vars(Server) /\ WF_vars(BeginTask) /\ WF_vars(Tick)
    /\ \A c \in Clients : WF_vars(Answered(c) \/ Return(c))
Spec == Init /\ [][Next]_vars /\ Fairness
-----------------------------------------------------------------------------
(* Properties *)

(* The locals of main and run_server and the state of each connection have *)
(* their types (main.rs:18-63, server.rs:30-119).                          *)
TypeOK ==
    /\ main \in {"starting", "waiting", "joining", "dropping", "exited"}
    /\ server \in {"none", "binding", "accepting", "closing", "ok", "failed",
                   "dropped"}
    /\ listening \in BOOLEAN /\ signal \in BOOLEAN
    /\ client \in [Clients -> {"none", "connecting", "open", "closed"}]
    /\ handles \in Seq(Clients)
    /\ \A c \in Clients :
           thread[c] # "none" <=> \E i \in DOMAIN handles : handles[i] = c
    /\ thread \in [Clients -> {"none", "queued", "waiting", "busy"} \cup Finished]
    /\ next \in 0..Len(handles) + 1
    /\ clock \in 0..MaxTime /\ since \in 0..MaxTime

(* run_server says "All connections closed." and returns Ok only when the  *)
(* handler of each connection it ever accepted has returned.               *)
OkMeansAllDone ==
    server = "ok" => \A i \in DOMAIN handles : thread[handles[i]] = "done"

(* main stops waiting for connections that are still served only after the *)
(* five seconds, when some handler panicked (perhaps long ago), or when    *)
(* the accept loop had failed: the limit per handle cannot run out sooner. *)
NobodyIsCutShort ==
    main \in {"dropping", "exited"} /\ Running # {} =>
        \/ clock >= Grace
        \/ \E c \in Clients : thread[c] = "panicked"
        \/ server = "failed" /\ next = 0

(* A client that connects is given a handler or its connection is closed,  *)
(* also when the server stops accepting at that moment.                    *)
EveryoneIsHeard ==
    \A c \in Clients : (client[c] = "connecting") ~>
        (thread[c] # "none" \/ client[c] = "closed")

(* After SIGINT the process ends, if its clients all close their           *)
(* connections in the end; also when the server was not yet listening, or  *)
(* had failed, or has more connections than threads.                       *)
ProcessEnds ==
    (<>[](\A c \in Clients : client[c] # "open")) =>
        (Signalled ~> (main = "exited"))

(* server.rs:112: "Ждём завершения всех обработчиков (с таймаутом)": the   *)
(* waiting for the handlers has a limit, so a SIGINT ends the process.     *)
WaitHasALimit == Signalled ~> (main = "exited")
=============================================================================
