---------------------------- MODULE OrderManager ----------------------------
(***************************************************************************)
(* The order manager (core/ordermgr.go): the registry of running tasks,    *)
(* the flag that says whether the exchange can be reached, and the loop    *)
(* that hands order books and order events to the tasks.  Its goroutines:  *)
(*                                                                         *)
(*   execCommand  one per CREATE_ORDER command (http, websocket or Mx);    *)
(*   a goroutine  per event the broker passes on, blocked on a channel;    *)
(*   Run          the manager's loop, which serves those channels and the  *)
(*                reports of tasks that have ended;                        *)
(*   OrderTask.Run  one per task, cut down here to its life cycle;         *)
(*   StopTaskByName its callers (the program itself has none).             *)
(*                                                                         *)
(* mgr.mtx guards the registry and is never held over two steps of this    *)
(* module.  networkOk is read and written without it.  A task is named by  *)
(* the command that created it.  Events that look alike are not told       *)
(* apart; MaxInFlight bounds how many are on their way.                    *)
(***************************************************************************)
EXTENDS Integers, FiniteSets

CONSTANTS
    Requests,       \* CREATE_ORDER commands; also the tasks they create
    NoTask,         \* no task
    Pairs,          \* task ids: the names of a spot and a swap
    Names,          \* names of underlyings
    Legs,           \* the two names of a pair
    Stoppers,       \* callers of StopTaskByName
    MaxInFlight     \* bound: events on their way when another is pushed

ASSUME NoTaskAssumption == NoTask \notin Requests
ASSUME BoundAssumption  == MaxInFlight \in Nat
ASSUME LegsAssumption   == Legs \in [Pairs -> SUBSET Names]

VARIABLES
    networkOk,      \* mgr.networkOk
    ws,             \* what the broker hears the exchange over: its client, and the rest
    books,          \* names of the underlyings with an order book
    request,        \* how far CreateOrder is, and the pair it was asked for
    run,            \* the life of OrderTask.Run
    tasks,          \* mgr.tasks
    raised,         \* events in goroutines of the broker
    waiting,        \* events waiting for the manager's loop
    loop,           \* the event the loop is working on
    offered,        \* events waiting for a task
    stopper,        \* how far StopTaskByName is, and the task it has found
    proc,           \* the process
    dropped,        \* history: order events not offered to the task they are of
    named           \* history: the pairs that were stopped by name

netVars   == <<networkOk, ws, books>>
taskVars  == <<request, run, tasks>>
eventVars == <<raised, waiting, loop, offered, dropped>>
stopVars  == <<stopper, named>>
vars      == <<netVars, taskVars, eventVars, stopVars, proc>>

-----------------------------------------------------------------------------
(* Tasks and events *)

PairOf(r)  == request[r].pair
Registered == {r \in Requests : \E p \in Pairs : tasks[p] = r}
Life       == {"none", "created", "running", "cancelled", "ended", "gone"}
Looping    == {"running", "cancelled"}
Alive      == proc = "up"

Book(name)        == [kind |-> "book", name |-> name, owner |-> NoTask]
Order(name, r)    == [kind |-> "order", name |-> name, owner |-> r]
SendError(r)      == [kind |-> "error", name |-> "none", owner |-> r]
NoEvent           == [kind |-> "none", name |-> "none", owner |-> NoTask]
Events            == {Book(n) : n \in Names} \cup {SendError(r) : r \in Requests}
                        \cup {Order(n, r) : n \in Names, r \in Requests}

NameInSwapOnly(name, r) == name = CHOOSE n \in Legs[PairOf(r)] : TRUE

\* OrderRequest.NameIn
NameIn(name, r) == name \in Legs[PairOf(r)]

-----------------------------------------------------------------------------
(* The broker, as the manager sees it *)

\* A client that lacks a connection counts as lost; the other connection, or what a
\* subscription that failed half way has left, goes on delivering (ws.rest).  What
\* comes in is passed on by the loop of the broker.
Hears == ws.client = "up" \/ ws.rest

Push(e) ==
    /\ Hears
    /\ Cardinality(raised \cup waiting) + Cardinality(offered) < MaxInFlight
    /\ raised' = raised \cup {e}
    /\ UNCHANGED <<netVars, taskVars, waiting, loop, offered, dropped, stopVars, proc>>

\* Order books, the life of the orders of a task (also after the task), and refusals
\* of its orders.
Exchange ==
    \/ \E n \in Names : Push(Book(n))
    \/ \E r \in Requests :
          /\ run[r] \notin {"none", "created"}
          /\ \/ \E n \in Legs[PairOf(r)] : Push(Order(n, r))
             \/ Push(SendError(r))

\* The client loses one of its connections or both, or the rest of an older client
\* the last one it has.
Disconnect ==
    /\ \/ ws.client = "up" /\ ws' \in {[client |-> "down", rest |-> r] : r \in {TRUE, ws.rest}}
       \/ ws.rest /\ ws' = [ws EXCEPT !.rest = FALSE]
    /\ UNCHANGED <<networkOk, books, taskVars, eventVars, stopVars, proc>>

JustLost == ws.client = "down"

\* The broker tells its subscribers again and again until it is connected, or hangs.
StillLost == ws.client \in {"down", "lost"}

\* OnBrokerEvent("WsNetDisconnected"), called by the loop of the broker.
OnDisconnected ==
    /\ Alive
    /\ StillLost
    /\ networkOk' = FALSE
    /\ ws' = [ws EXCEPT !.client = "lost"]
    /\ UNCHANGED <<books, taskVars, eventVars, stopVars, proc>>

\* The broker connects anew in the tick that told of the loss, gets half way, or
\* hangs in an authentication that is not answered and passes nothing on any more.
Reconnect ==
    /\ Alive
    /\ ws.client = "lost"
    /\ ws' \in {[ws EXCEPT !.client = "up"], [ws EXCEPT !.rest = TRUE],
               [client |-> "hung", rest |-> FALSE]}
    /\ UNCHANGED <<networkOk, books, taskVars, eventVars, stopVars, proc>>

\* Broker.onOrderBook starts a goroutine per subscriber: another subscriber's
\* may be the first to store the book.
SetOrderBook(e) ==
    /\ Alive
    /\ e \in raised /\ e.kind = "book"
    /\ books' = books \cup {e.name}
    /\ UNCHANGED <<networkOk, ws, taskVars, eventVars, stopVars, proc>>

OnOrderBook(e) ==
    /\ Alive
    /\ e \in raised /\ e.kind = "book"
    /\ books' = books \cup {e.name}
    /\ raised' = raised \ {e}
    /\ waiting' = waiting \cup {e}
    /\ UNCHANGED <<networkOk, ws, taskVars, loop, offered, dropped, stopVars, proc>>

\* The flag is set before the event is taken, however old the event is.
OnOrderReturn(e) ==
    /\ Alive
    /\ e \in raised /\ e.kind = "order"
    /\ networkOk' = TRUE
    /\ raised' = raised \ {e}
    /\ waiting' = waiting \cup {e}
    /\ UNCHANGED <<ws, books, taskVars, loop, offered, dropped, stopVars, proc>>

\* OnBrokerEvent("orderError"): every registered task is asked.
OnBrokerError(e) ==
    /\ Alive
    /\ e \in raised /\ e.kind = "error"
    /\ raised' = raised \ {e}
    /\ offered' = offered \cup {<<e, r>> : r \in Registered}
    /\ UNCHANGED <<netVars, taskVars, waiting, loop, dropped, stopVars, proc>>

Broker ==
    \/ Exchange
    \/ Disconnect \/ OnDisconnected \/ Reconnect
    \/ \E e \in raised :
          SetOrderBook(e) \/ OnOrderBook(e) \/ OnOrderReturn(e) \/ OnBrokerError(e)

-----------------------------------------------------------------------------
(* CreateOrder, in the goroutine of a command *)

KnownInPart(p) == Legs[p] \cap books # {}

\* Both order books are there.
Known(p) == Legs[p] \subseteq books

\* CreateOrder looks at the flag and at the order books ...
CheckCommand(r) ==
    /\ Alive
    /\ request[r].pc = "idle"
    /\ request' = [request EXCEPT ![r].pc =
          IF networkOk /\ Known(PairOf(r)) THEN "register" ELSE "done"]
    /\ UNCHANGED <<netVars, run, tasks, eventVars, stopVars, proc>>

VacantOnceStopped(p) == \A r \in Requests : tasks[p] = r => run[r] \in {"cancelled", "ended"}

Vacant(p) == tasks[p] = NoTask

\* ... and then, under mgr.mtx, at the registry.
CreateOrder(r) ==
    /\ Alive
    /\ request[r].pc = "register"
    /\ request' = [request EXCEPT ![r].pc = "done"]
    /\ IF Vacant(PairOf(r))
       THEN /\ tasks' = [tasks EXCEPT ![PairOf(r)] = r]
            /\ run' = [run EXCEPT ![r] = "created"]
       ELSE UNCHANGED <<run, tasks>>
    /\ UNCHANGED <<netVars, eventVars, stopVars, proc>>

Commands == \E r \in Requests : CheckCommand(r) \/ CreateOrder(r)

-----------------------------------------------------------------------------
(* OrderTask.Run, as the manager sees it *)

Becomes(r, from, to) ==
    /\ Alive
    /\ run[r] = from
    /\ run' = [run EXCEPT ![r] = to]
    /\ UNCHANGED <<netVars, request, tasks, eventVars, stopVars, proc>>

\* OrderTask.Stop calls fxCancel, which is nil until Run has started.
Cancel(r) ==
    /\ run' = IF run[r] = "running" THEN [run EXCEPT ![r] = "cancelled"] ELSE run
    /\ proc' = IF run[r] = "created" THEN "panic" ELSE proc

\* Run sets fxCancel, is stopped for a reason of its own, and leaves its loop
\* to report its end.
TaskRun(r)  == Becomes(r, "created", "running")
TaskStop(r) == Becomes(r, "running", "cancelled")
TaskExit(r) == Becomes(r, "cancelled", "ended")

\* The select of the task's loop serves books and order events alike.
Takes(e) == e.kind \in {"book", "order"}

\* The loop of the task takes an event it was offered.
TaskTakes(r, e) ==
    /\ Alive
    /\ run[r] \in Looping
    /\ Takes(e) /\ <<e, r>> \in offered
    /\ offered' = offered \ {<<e, r>>}
    /\ UNCHANGED <<netVars, taskVars, raised, waiting, loop, dropped, stopVars, proc>>

IsAnyones(o, r) == TRUE

\* OnOrderError: the refused order is one of the task's own.  The ids of orders
\* come from one counter of the manager.
IsOwn(o, r) == o = r

\* OrderTask.OnOrderError stops the task whose order was refused.
TaskError(r) ==
    /\ Alive
    /\ \E o \in Requests :
          /\ <<SendError(o), r>> \in offered
          /\ offered' = offered \ {<<SendError(o), r>>}
          /\ IF IsOwn(o, r) THEN Cancel(r) ELSE UNCHANGED <<run, proc>>
    /\ UNCHANGED <<netVars, request, tasks, raised, waiting, loop, dropped, stopVars>>

Tasks == \E r \in Requests :
            \/ TaskRun(r) \/ TaskStop(r) \/ TaskExit(r) \/ TaskError(r)
            \/ \E e \in Events : TaskTakes(r, e)

-----------------------------------------------------------------------------
(* The loop of the manager *)

\* onOrderBook sets the flag before it locks the registry.
TakeBook(e) ==
    /\ Alive
    /\ loop = NoEvent
    /\ e \in waiting /\ e.kind = "book"
    /\ networkOk' = TRUE
    /\ loop' = e
    /\ waiting' = waiting \ {e}
    /\ UNCHANGED <<ws, books, taskVars, raised, offered, dropped, stopVars, proc>>

FanOutBlocking(e) ==
    /\ \A q \in Registered : NameIn(e.name, q) => run[q] \in Looping
    /\ offered' = offered \cup {<<e, r>> : r \in {q \in Registered : NameIn(e.name, q)}}

\* A goroutine per registered task that trades the underlying of the event.
FanOut(e) == offered' = offered \cup {<<e, r>> : r \in {q \in Registered : NameIn(e.name, q)}}

onOrderBook ==
    /\ Alive
    /\ loop # NoEvent
    /\ FanOut(loop)
    /\ loop' = NoEvent
    /\ UNCHANGED <<netVars, taskVars, raised, waiting, dropped, stopVars, proc>>

onOrderReturn(e) ==
    /\ Alive
    /\ loop = NoEvent
    /\ e \in waiting /\ e.kind = "order"
    /\ waiting' = waiting \ {e}
    /\ FanOut(e)
    /\ dropped' = IF <<e, e.owner>> \in offered' THEN dropped ELSE dropped \cup {e}
    /\ UNCHANGED <<netVars, taskVars, raised, loop, stopVars, proc>>

\* delete(mgr.tasks, task.Id()): whichever task is registered for the pair.
Forget(p) == tasks' = [tasks EXCEPT ![p] = NoTask]

\* onTaskEvent("task_stopped")
onTaskEvent(r) ==
    /\ Alive
    /\ loop = NoEvent
    /\ run[r] = "ended"
    /\ Forget(PairOf(r))
    /\ run' = [run EXCEPT ![r] = "gone"]
    /\ UNCHANGED <<netVars, request, eventVars, stopVars, proc>>

Run ==
    \/ \E e \in waiting : TakeBook(e) \/ onOrderReturn(e)
    \/ onOrderBook
    \/ \E r \in Requests : onTaskEvent(r)

-----------------------------------------------------------------------------
(* StopTaskByName *)

\* GetTaskByName, ...
GetTaskByName(s) ==
    /\ Alive
    /\ stopper[s].pc = "idle"
    /\ \E r \in Registered : stopper' = [stopper EXCEPT ![s] = [pc |-> "delete", task |-> r]]
    /\ UNCHANGED <<netVars, taskVars, eventVars, named, proc>>

\* ... the deletion, by id and under the mutex again, ...
StopDelete(s) ==
    /\ Alive
    /\ stopper[s].pc = "delete"
    /\ stopper' = [stopper EXCEPT ![s].pc = "stop"]
    /\ Forget(PairOf(stopper[s].task))
    /\ named' = named \cup {PairOf(stopper[s].task)}
    /\ UNCHANGED <<netVars, request, run, eventVars, proc>>

\* ... and task.Stop.
StopCancel(s) ==
    /\ Alive
    /\ stopper[s].pc = "stop"
    /\ Cancel(stopper[s].task)
    /\ stopper' = [stopper EXCEPT ![s] = [pc |-> "idle", task |-> NoTask]]
    /\ UNCHANGED <<netVars, request, tasks, eventVars, named>>

StopTaskByName == \E s \in Stoppers : GetTaskByName(s) \/ StopDelete(s) \/ StopCancel(s)

-----------------------------------------------------------------------------
(* Specification *)

Init ==
    /\ networkOk = FALSE /\ ws = [client |-> "down", rest |-> FALSE] /\ books = {}
    /\ request \in [Requests -> {[pc |-> "idle", pair |-> p] : p \in Pairs}]
    /\ run = [r \in Requests |-> "none"]
    /\ tasks = [p \in Pairs |-> NoTask]
    /\ raised = {} /\ waiting = {} /\ loop = NoEvent /\ offered = {} /\ dropped = {}
    /\ stopper = [s \in Stoppers |-> [pc |-> "idle", task |-> NoTask]]
    /\ named = {}
    /\ proc = "up"

Next == Broker \/ Commands \/ Tasks \/ Run \/ StopTaskByName

Spec == Init /\ [][Next]_vars

\* Goroutines are scheduled, the broker ticks, and the manager's select serves
\* every kind of channel on which goroutines keep waiting, as does that of a
\* task; that a task stops, or that the connection comes back, is not promised.
Fairness ==
    /\ WF_vars(OnDisconnected)
    /\ WF_vars(\E e \in raised : OnOrderBook(e) \/ OnOrderReturn(e) \/ OnBrokerError(e))
    /\ WF_vars(onOrderBook)
    /\ SF_vars(\E e \in waiting : TakeBook(e) \/ onOrderReturn(e))
    /\ \A r \in Requests : SF_vars(onTaskEvent(r)) /\ WF_vars(TaskRun(r))
    /\ \A r \in Requests, e \in Events : WF_vars(TaskTakes(r, e))

FairSpec == Spec /\ Fairness
=============================================================================
