--------------------------- MODULE LifecycleProofs ---------------------------
(***************************************************************************)
(* What the end of run_server and of main says about the connections, for  *)
(* any number of clients, threads and ticks.                               *)
(***************************************************************************)
EXTENDS Lifecycle, SequenceTheorems, TLAPS

-----------------------------------------------------------------------------
(* Types *)

(* The program starts with its locals typed.                               *)
LEMMA TypeInit ==
  ASSUME Init
  PROVE  TypeOK
<1>1. handles \in Seq(Clients) /\ Len(handles) = 0 /\ DOMAIN handles = {}
  BY DEF Init
<1>2. /\ clock \in 0..MaxTime /\ since \in 0..MaxTime
      /\ next \in 0..Len(handles) + 1
  BY <1>1, LifecycleAssumption DEF Init
<1>. QED  BY <1>1, <1>2 DEF Init, TypeOK

(* A task is made and put into the list of handles in one step.            *)
LEMMA AcceptType ==
  ASSUME TypeOK, NEW c \in Clients, Accept(c)
  PROVE  TypeOK'
<1>1. CASE UNCHANGED <<handles, thread>>
  BY <1>1 DEF Accept, TypeOK
<1>2. CASE /\ handles' = Append(handles, c)
           /\ thread' = [thread EXCEPT ![c] = "queued"]
           /\ client' = [client EXCEPT ![c] = "open"]
  <2>1. /\ handles' \in Seq(Clients)
        /\ Len(handles') = Len(handles) + 1
        /\ \A i \in 1..Len(handles) : handles'[i] = handles[i]
        /\ handles'[Len(handles) + 1] = c
    BY <1>2, AppendProperties DEF TypeOK
  <2>2. next \in 0..Len(handles') + 1
    BY <2>1 DEF TypeOK
  <2>3. ASSUME NEW d \in Clients
        PROVE  thread'[d] # "none" <=> \E i \in DOMAIN handles' : handles'[i] = d
    BY <1>2, <2>1 DEF TypeOK
  <2>. QED  BY <1>2, <2>1, <2>2, <2>3 DEF Accept, TypeOK
<1>. QED  BY <1>1, <1>2 DEF Accept, Remember

(* Every step keeps the types.                                             *)
LEMMA TypeStep ==
  ASSUME TypeOK, [Next]_vars
  PROVE  TypeOK'
<1>. USE LifecycleAssumption
<1>1. CASE Start
  BY <1>1 DEF Start, TypeOK, Finished
<1>2. CASE Interrupt
  BY <1>2 DEF Interrupt, TypeOK, Finished
<1>3. CASE Joined
  BY <1>3 DEF Joined, ServerReturned, TypeOK, Finished
<1>4. CASE DropRuntime
  BY <1>4 DEF DropRuntime, ServerReturned, TypeOK, Finished
<1>5. CASE Exit
  BY <1>5 DEF Exit, TypeOK, Finished
<1>6. CASE Bind
  BY <1>6 DEF Bind, TypeOK, Finished
<1>7. CASE AcceptFails
  BY <1>7 DEF AcceptFails, Unlisten, TypeOK, Finished
<1>8. CASE StopAccepting
  <2>1. Len(handles) \in Nat /\ 1 \in 0..Len(handles) + 1
    BY DEF TypeOK
  <2>. QED  BY <1>8, <2>1 DEF StopAccepting, Unlisten, TypeOK
<1>9. CASE WaitForHandle
  BY <1>9 DEF WaitForHandle, AfterTimeout, Expired, TypeOK, Finished
<1>10. CASE AllClosed
  BY <1>10 DEF AllClosed, TypeOK, Finished
<1>11. CASE BeginTask
  BY <1>11 DEF BeginTask, TypeOK, Finished
<1>12. CASE Tick
  BY <1>12 DEF Tick, TypeOK, Finished
<1>13. ASSUME NEW c \in Clients, Accept(c)
      PROVE  TypeOK'
  BY <1>13, AcceptType
<1>14. ASSUME NEW c \in Clients, TakeRequest(c)
      PROVE  TypeOK'
  BY <1>14 DEF TakeRequest, TypeOK, Finished
<1>15. ASSUME NEW c \in Clients, Answered(c)
      PROVE  TypeOK'
  BY <1>15 DEF Answered, TypeOK, Finished
<1>16. ASSUME NEW c \in Clients, Return(c)
      PROVE  TypeOK'
  BY <1>16 DEF Return, LeavesLoop, TypeOK, Finished
<1>17. ASSUME NEW c \in Clients, Connect(c)
      PROVE  TypeOK'
  BY <1>17 DEF Connect, TypeOK, Finished
<1>18. ASSUME NEW c \in Clients, Disconnect(c)
      PROVE  TypeOK'
  BY <1>18 DEF Disconnect, TypeOK, Finished
<1>19. CASE UNCHANGED vars
  BY <1>19 DEF vars, TypeOK, Finished
<1>. QED
  BY <1>1, <1>2, <1>3, <1>4, <1>5, <1>6, <1>7, <1>8, <1>9, <1>10, <1>11, <1>12,
     <1>13, <1>14, <1>15, <1>16, <1>17, <1>18, <1>19
     DEF Next, Main, Server, Thread

(* The locals of main and run_server, and the state of each connection,    *)
(* always have their types; a connection has a task exactly if its handle  *)
(* is kept.                                                                *)
THEOREM TypeCorrect == Spec => []TypeOK
<1>1. Init => TypeOK
  BY TypeInit
<1>2. TypeOK /\ [Next]_vars => TypeOK'
  BY TypeStep
<1>. QED  BY <1>1, <1>2, PTL DEF Spec
-----------------------------------------------------------------------------
(* The accept loop *)

(* The tasks before the one the accept loop waits for have ended, each     *)
(* without a panic.                                                        *)
Awaited ==
    /\ server \in {"closing", "ok"} =>
           \A i \in DOMAIN handles : i < next => thread[handles[i]] = "done"
    /\ server = "ok" => next > Len(handles)

(* No task comes out of its end again.                                     *)
LEMMA DoneStays ==
  ASSUME TypeOK, [Next]_vars, server \notin {"accepting"},
         NEW d \in Clients, thread[d] = "done"
  PROVE  thread'[d] = "done" /\ handles' = handles
<1>1. CASE Start
  BY <1>1 DEF Start, TypeOK
<1>2. CASE Interrupt
  BY <1>2 DEF Interrupt, TypeOK
<1>3. CASE Joined
  BY <1>3 DEF Joined, ServerReturned, TypeOK
<1>4. CASE DropRuntime
  BY <1>4 DEF DropRuntime, ServerReturned, TypeOK
<1>5. CASE Exit
  BY <1>5 DEF Exit, TypeOK
<1>6. CASE Bind
  BY <1>6 DEF Bind, TypeOK
<1>7. CASE AcceptFails
  BY <1>7 DEF AcceptFails, Unlisten, TypeOK
<1>8. CASE StopAccepting
  BY <1>8 DEF StopAccepting, Unlisten, TypeOK
<1>9. CASE WaitForHandle
  BY <1>9 DEF WaitForHandle, AfterTimeout, Expired, Finished, TypeOK
<1>10. CASE AllClosed
  BY <1>10 DEF AllClosed, TypeOK
<1>11. CASE BeginTask
  BY <1>11 DEF BeginTask, TypeOK
<1>12. CASE Tick
  BY <1>12 DEF Tick, TypeOK
<1>13. ASSUME NEW c \in Clients, Accept(c)
      PROVE  thread'[d] = "done" /\ handles' = handles
  BY <1>13 DEF Accept, Remember, TypeOK
<1>14. ASSUME NEW c \in Clients, TakeRequest(c)
      PROVE  thread'[d] = "done" /\ handles' = handles
  BY <1>14 DEF TakeRequest, TypeOK
<1>15. ASSUME NEW c \in Clients, Answered(c)
      PROVE  thread'[d] = "done" /\ handles' = handles
  BY <1>15 DEF Answered, TypeOK
<1>16. ASSUME NEW c \in Clients, Return(c)
      PROVE  thread'[d] = "done" /\ handles' = handles
  BY <1>16 DEF Return, LeavesLoop, TypeOK
<1>17. ASSUME NEW c \in Clients, Connect(c)
      PROVE  thread'[d] = "done" /\ handles' = handles
  BY <1>17 DEF Connect, TypeOK
<1>18. ASSUME NEW c \in Clients, Disconnect(c)
      PROVE  thread'[d] = "done" /\ handles' = handles
  BY <1>18 DEF Disconnect, TypeOK
<1>19. CASE UNCHANGED vars
  BY <1>19 DEF vars, TypeOK
<1>. QED
  BY <1>1, <1>2, <1>3, <1>4, <1>5, <1>6, <1>7, <1>8, <1>9, <1>10, <1>11, <1>12,
     <1>13, <1>14, <1>15, <1>16, <1>17, <1>18, <1>19
     DEF Next, Main, Server, Thread

(* While it waits, and once it has returned Ok.                            *)
LEMMA AwaitedStep ==
  ASSUME TypeOK, Awaited, [Next]_vars
  PROVE  Awaited'
<1>1. CASE StopAccepting
  BY <1>1 DEF StopAccepting, Awaited, TypeOK
<1>2. CASE WaitForHandle
  BY <1>2 DEF WaitForHandle, AfterTimeout, Awaited, TypeOK
<1>3. CASE AllClosed
  BY <1>3 DEF AllClosed, Awaited, TypeOK
<1>4. CASE server' \notin {"closing", "ok"}
  BY <1>4 DEF Awaited
<1>5. CASE UNCHANGED <<server, handles, next>> /\ server \in {"closing", "ok"}
  <2>1. ASSUME NEW i \in DOMAIN handles, i < next
        PROVE  thread'[handles[i]] = "done"
    <3>1. handles[i] \in Clients /\ thread[handles[i]] = "done"
      BY <1>5, <2>1 DEF Awaited, TypeOK
    <3>. QED  BY <1>5, <3>1, DoneStays
  <2>. QED  BY <1>5, <2>1 DEF Awaited
<1>6. \/ StopAccepting \/ WaitForHandle \/ AllClosed
      \/ server' \notin {"closing", "ok"}
      \/ UNCHANGED <<server, handles, next>> /\ server \in {"closing", "ok"}
  BY DEF Next, Main, Server, Thread, vars, Start, Interrupt, Joined, DropRuntime,
         ServerReturned, Exit, Bind, AcceptFails, BeginTask, Tick, Accept,
         TakeRequest, Answered, Return, Connect, Disconnect
<1>. QED  BY <1>1, <1>2, <1>3, <1>4, <1>5, <1>6

(* run_server returns Ok only when the handler of every connection it ever *)
(* accepted has returned: what "All connections closed." says (server.rs,  *)
(* lines 112-118).                                                         *)
THEOREM OkIsAllDone == Spec => []OkMeansAllDone
<1>1. Init => Awaited
  BY DEF Init, Awaited
<1>2. TypeOK /\ Awaited /\ [Next]_vars => Awaited'
  BY AwaitedStep
<1>3. TypeOK /\ Awaited => OkMeansAllDone
  BY DEF Awaited, OkMeansAllDone, TypeOK
<1>. QED  BY <1>1, <1>2, <1>3, TypeCorrect, PTL DEF Spec
-----------------------------------------------------------------------------
(* main *)

(* Why run_server, and main's waiting for it, may end before all handlers  *)
(* have: main drops the runtime because run_server has ended or because    *)
(* the time is over, and run_server fails before it waits for any handler, *)
(* after a panic, or when the time of one is over, which began at the      *)
(* signal or later.                                                        *)
Reason ==
    \/ server = "failed" /\ next = 0
    \/ clock >= Grace
    \/ \E c \in Clients : thread[c] = "panicked"

Ended ==
    /\ main = "starting" => server = "none"
    /\ server \in {"none", "binding", "accepting"} => next = 0
    /\ server = "failed" => Reason
    /\ main \in {"dropping", "exited"} =>
           clock >= Grace \/ server \in {"ok", "failed"}

(* Time does not go back, a task that panicked stays so, and a run_server  *)
(* that failed does not wait any more.                                     *)
LEMMA ReasonStays ==
  ASSUME TypeOK, Ended, Reason, server = "failed", [Next]_vars
  PROVE  Reason'
<1>. USE LifecycleAssumption
<1>1. CASE Start
  BY <1>1 DEF Start, Ended
<1>2. CASE Interrupt
  BY <1>2 DEF Interrupt, Reason, TypeOK
<1>3. CASE Joined
  BY <1>3 DEF Joined, ServerReturned, Reason, TypeOK
<1>4. CASE DropRuntime
  BY <1>4 DEF DropRuntime, ServerReturned, Reason, TypeOK
<1>5. CASE Exit
  BY <1>5 DEF Exit, Reason, TypeOK
<1>6. CASE Bind
  BY <1>6 DEF Bind, Reason, TypeOK
<1>7. CASE AcceptFails
  BY <1>7 DEF AcceptFails, Unlisten, Reason, TypeOK
<1>8. CASE StopAccepting
  BY <1>8 DEF StopAccepting, Unlisten, Reason, TypeOK
<1>9. CASE WaitForHandle
  BY <1>9 DEF WaitForHandle, AfterTimeout, Expired, Finished, Reason, TypeOK
<1>10. CASE AllClosed
  BY <1>10 DEF AllClosed, Reason, TypeOK
<1>11. CASE BeginTask
  BY <1>11 DEF BeginTask, Reason, TypeOK
<1>12. CASE Tick
  BY <1>12 DEF Tick, Reason, TypeOK
<1>13. ASSUME NEW c \in Clients, Accept(c)
      PROVE  Reason'
  BY <1>13 DEF Accept, Remember, Reason, TypeOK
<1>14. ASSUME NEW c \in Clients, TakeRequest(c)
      PROVE  Reason'
  BY <1>14 DEF TakeRequest, Reason, TypeOK
<1>15. ASSUME NEW c \in Clients, Answered(c)
      PROVE  Reason'
  BY <1>15 DEF Answered, Reason, TypeOK
<1>16. ASSUME NEW c \in Clients, Return(c)
      PROVE  Reason'
  BY <1>16 DEF Return, LeavesLoop, Reason, TypeOK
<1>17. ASSUME NEW c \in Clients, Connect(c)
      PROVE  Reason'
  BY <1>17 DEF Connect, Reason, TypeOK
<1>18. ASSUME NEW c \in Clients, Disconnect(c)
      PROVE  Reason'
  BY <1>18 DEF Disconnect, Reason, TypeOK
<1>19. CASE UNCHANGED vars
  BY <1>19 DEF vars, Reason, TypeOK
<1>. QED
  BY <1>1, <1>2, <1>3, <1>4, <1>5, <1>6, <1>7, <1>8, <1>9, <1>10, <1>11, <1>12,
     <1>13, <1>14, <1>15, <1>16, <1>17, <1>18, <1>19
     DEF Next, Main, Server, Thread

LEMMA EndedStep ==
  ASSUME TypeOK, Ended, [Next]_vars
  PROVE  Ended'
<1>1. server' \in {"none", "binding", "accepting"} => next' = 0
  BY DEF Ended, TypeOK, Next, Main, Server, Thread, vars, Start, Interrupt,
         Joined, ServerReturned, DropRuntime, Exit, Bind, AcceptFails,
         StopAccepting, WaitForHandle, AfterTimeout, AllClosed, BeginTask, Tick,
         Accept, TakeRequest, Answered, Return, Connect, Disconnect
<1>2. server' = "failed" => Reason'
  <2>1. CASE server = "failed"
    BY <2>1, ReasonStays DEF Ended
  <2>2. CASE WaitForHandle
    BY <2>2, LifecycleAssumption
       DEF WaitForHandle, AfterTimeout, Expired, Reason, TypeOK
  <2>3. CASE Bind \/ AcceptFails
    BY <2>3 DEF Bind, AcceptFails, Ended, Reason
  <2>4. server' = "failed" /\ server # "failed" =>
            Bind \/ AcceptFails \/ WaitForHandle
    BY DEF Next, Main, Server, Thread, vars, Start, Interrupt, Joined,
           DropRuntime, ServerReturned, Exit, StopAccepting, AllClosed,
           BeginTask, Tick, Accept, TakeRequest, Answered, Return, Connect,
           Disconnect
  <2>. QED  BY <2>1, <2>2, <2>3, <2>4
<1>3. main' \in {"dropping", "exited"} =>
          clock' >= Grace \/ server' \in {"ok", "failed"}
  BY LifecycleAssumption
     DEF Ended, TypeOK, Next, Main, Server, Thread, vars, Start, Interrupt,
         Joined, ServerReturned, DropRuntime, Exit, Bind, AcceptFails,
         StopAccepting, WaitForHandle, AfterTimeout, AllClosed, BeginTask, Tick,
         Accept, TakeRequest, Answered, Return, Connect, Disconnect
<1>4. main' = "starting" => server' = "none"
  BY DEF Ended, Next, Main, Server, Thread, vars, Start, Interrupt, Joined,
         DropRuntime, Exit, Bind, AcceptFails, StopAccepting, WaitForHandle,
         AfterTimeout, AllClosed, BeginTask, Tick, Accept, TakeRequest,
         Answered, Return, Connect, Disconnect
<1>. QED  BY <1>1, <1>2, <1>3, <1>4 DEF Ended

(* While a handler runs, main leaves off waiting for it only after the     *)
(* five seconds, after a panic, or if the accept loop had failed.          *)
THEOREM NobodyCutShort == Spec => []NobodyIsCutShort
<1>1. Init => Ended
  BY DEF Init, Ended
<1>2. TypeOK /\ Ended /\ [Next]_vars => Ended'
  BY EndedStep
<1>3. TypeOK /\ OkMeansAllDone /\ Ended => NobodyIsCutShort
  <2>1. SUFFICES ASSUME TypeOK, OkMeansAllDone, Ended,
                        main \in {"dropping", "exited"}, Running # {},
                        clock < Grace
                 PROVE  Reason
    BY LifecycleAssumption DEF NobodyIsCutShort, Reason, TypeOK
  <2>2. PICK c \in Clients : thread[c] \in {"waiting", "busy"}
    BY <2>1 DEF Running
  <2>3. PICK i \in DOMAIN handles : handles[i] = c
    BY <2>1, <2>2 DEF TypeOK
  <2>4. server # "ok"
    BY <2>1, <2>2, <2>3 DEF OkMeansAllDone
  <2>. QED  BY <2>1, <2>4, LifecycleAssumption DEF Ended, TypeOK
<1>. QED  BY <1>1, <1>2, <1>3, TypeCorrect, OkIsAllDone, PTL DEF Spec
=============================================================================
