-------------------------------- MODULE Desk --------------------------------
(***************************************************************************)
(* The program as a whole around the orders it has at the exchange: the    *)
(* start of its goroutines (core/controller.go:263-287), the commands that *)
(* become tasks, the requests that cancel orders wholesale, the loss of    *)
(* the connection, the end of the process and its restart.  Nothing is     *)
(* saved: a restarted process knows none of the orders of the one before,  *)
(* and may be configured (retreat_all_orders) to cancel them first.        *)
(*                                                                         *)
(* RetreatOrderWithInstrument cancels all that is open in an instrument,   *)
(* be it of another task that trades the same one.                         *)
(*                                                                         *)
(* A task is cut down here to the orders it places and its recoveries; an  *)
(* order is there until it is cancelled.  Requests to the exchange have    *)
(* arrived when a new process starts.  OrderManager takes CreateOrder      *)
(* apart, Broker the connection, OrderTask the task.                       *)
(***************************************************************************)
EXTENDS Controller

CONSTANTS
    Commands,       \* commands; also the tasks they create
    Legs,           \* instruments of the exchange
    Underlyings,    \* those the broker is configured for
    ByHand,         \* those where somebody may have placed an order by hand
    LegsOf,         \* the swap and the spot of each command
    NoTask,         \* owner of orders that are not of a task of this process
    MaxOrders,      \* bound: orders placed
    MaxRestarts     \* bound: restarts

ASSUME BoundAssumption == {MaxOrders, MaxRestarts} \subseteq Nat
ASSUME LegAssumption   == /\ Underlyings \subseteq Legs /\ ByHand \subseteq Legs
                         /\ LegsOf \in [Commands -> Legs \X Legs]
ASSUME NoTaskAssumption == NoTask \notin Commands

VARIABLES
    retreatAll,     \* the configuration: cancel what is open at the start
    broker,         \* Broker.Run: "none", "list" and "cancel" (prepare), "loop"
    client,         \* b.client: "none" and "half" (none, but a client that was given up
                    \* is subscribed), "up" or "lost" (a connection of it is missing)
    mgr,            \* does OrderManager.Run run?
    books,          \* have both legs an order book?
    waiting,        \* does a book wait for the manager's loop?
    networkOk,      \* mgr.networkOk
    early,          \* history: an order event has come, and the manager's loop is yet to run
    tasks,          \* mgr.tasks
    created,        \* commands that have become tasks of this process
    live,           \* orders open at the exchange
    placed,         \* orders placed so far: they are numbered
    since,          \* those placed before this process started
    request,        \* what prepare asks to cancel
    retreat,        \* how far the recovery of each task is
    restarts,       \* restarts so far
    refused         \* history: orders the exchange refused to cancel

gateVars == <<client, books, waiting, networkOk, early>>
taskVars == <<tasks, created>>
bookVars == <<live, placed, refused>>
vars     == <<ctrlVars, proc, retreatAll, broker, gateVars, mgr, taskVars, bookVars, since,
              request, retreat, restarts, faults>>

HasClient == client \in {"up", "lost"}

Numbers(orders) == {o.nr : o \in orders}

\* One cancellation request for several orders.  The exchange may refuse some of
\* them, which the caller learns as an error or not at all.
CancelBatch(numbers) ==
    \E kept \in SUBSET (numbers \cap Numbers(live)) :
        /\ \/ kept = {} /\ UNCHANGED faults
           \/ numbers # {} /\ Fault
        /\ live' = {o \in live : o.nr \notin numbers \ kept}
        /\ refused' = refused \cup kept

-----------------------------------------------------------------------------
(* The loop of the broker *)

\* Broker.Run, once it is scheduled; prepare has work only if so configured.
RunBroker ==
    /\ Alive /\ HasContext /\ broker = "none"
    /\ broker' = IF retreatAll THEN "list" ELSE "loop"
    /\ UNCHANGED <<ctrlVars, proc, retreatAll, gateVars, mgr, taskVars, bookVars, since,
                   request, retreat, restarts, faults>>

OwnToCancel == Numbers({o \in live : o.leg \in Underlyings /\ o.nr > since})

\* RetreatAllOrder takes the open orders of the instruments it is configured for.
ToCancel == Numbers({o \in live : o.leg \in Underlyings})

\* prepare: without a client, or without the list, the process ends.
ListAll ==
    /\ Alive /\ broker = "list"
    /\ \/ /\ request' = ToCancel
          /\ broker' = "cancel"
          /\ UNCHANGED <<proc, faults>>
       \/ Fault /\ proc' = "fatal" /\ UNCHANGED <<request, broker>>
    /\ UNCHANGED <<ctrlVars, retreatAll, gateVars, mgr, taskVars, bookVars, since, retreat, restarts>>

PrepareAgain == "list"

\* What prepare leads to.
Prepared == "loop"

CancelAll ==
    /\ Alive /\ broker = "cancel"
    /\ CancelBatch(request)
    /\ \/ broker' = "loop" /\ UNCHANGED proc
       \/ proc' = "fatal" /\ faults' # faults /\ UNCHANGED broker
    /\ UNCHANGED <<ctrlVars, retreatAll, gateVars, mgr, taskVars, placed, since, request, retreat,
                   restarts>>

\* A tick finds no client, or one with a connection missing.  It tells the manager, and
\* connects or tries again with the next tick; a client given up may be subscribed.
Connect ==
    /\ Alive /\ broker = "loop"
    /\ client # "up"
    /\ networkOk' = FALSE
    /\ \/ client' = "up" /\ UNCHANGED faults
       \/ Fault /\ client' \in (IF client = "none" THEN {"none", "half"} ELSE {client})
    /\ broker' = Prepared
    /\ UNCHANGED <<ctrlVars, proc, retreatAll, books, waiting, early, mgr, taskVars, bookVars, since,
                   request, retreat, restarts>>

Disconnect ==
    /\ Alive /\ client = "up"
    /\ Fault
    /\ client' = "lost"
    /\ UNCHANGED <<ctrlVars, proc, retreatAll, broker, books, waiting, networkOk, early, mgr,
                   taskVars, bookVars, since, request, retreat, restarts>>

\* Broker.onOrderBook stores the books and offers them to the manager, to which they
\* say nothing new once it has them and networkOk is set (OrderManager has those that
\* linger).  They come from any client that is subscribed.
onOrderBook ==
    /\ Alive /\ broker = "loop" /\ client # "none"
    /\ ~(networkOk /\ books)
    /\ books' = TRUE /\ waiting' = TRUE
    /\ UNCHANGED <<ctrlVars, proc, retreatAll, broker, client, networkOk, early, mgr, taskVars, bookVars,
                   since, request, retreat, restarts, faults>>

\* An event of any order of the account: OnOrderReturn sets the flag in a goroutine of
\* the broker, and only then waits for the manager's loop.
OnOrderReturn ==
    /\ Alive /\ broker = "loop" /\ client # "none"
    /\ networkOk' = TRUE
    /\ early' = (early \/ ~mgr)
    /\ UNCHANGED <<ctrlVars, proc, retreatAll, broker, client, books, waiting, mgr, taskVars,
                   bookVars, since, request, retreat, restarts, faults>>

Broker ==
    \/ RunBroker \/ ListAll \/ CancelAll
    \/ Connect \/ Disconnect \/ onOrderBook \/ OnOrderReturn

-----------------------------------------------------------------------------
(* The order manager *)

RunManager ==
    /\ Alive /\ HasContext /\ ~mgr
    /\ mgr' = TRUE /\ early' = FALSE
    /\ UNCHANGED <<ctrlVars, proc, retreatAll, broker, client, books, waiting, networkOk, taskVars,
                   bookVars, since, request, retreat, restarts, faults>>

\* Its loop takes the book.
TakeBook ==
    /\ Alive /\ mgr /\ waiting
    /\ networkOk' = TRUE /\ waiting' = FALSE
    /\ UNCHANGED <<ctrlVars, proc, retreatAll, broker, client, books, early, mgr, taskVars,
                   bookVars, since, request, retreat, restarts, faults>>

BooksOnly(c) == books

\* CreateOrder lets a command through when the network is there and both legs have
\* a book; a task is created once here.
Admits(c) == networkOk /\ books

CreateOrder(c, via) ==
    /\ Calls(via)
    /\ Admits(c)
    /\ {LegsOf[c][1], LegsOf[c][2]} \subseteq Underlyings
    /\ c \notin created /\ \A d \in tasks : LegsOf[d] # LegsOf[c]
    /\ created' = created \cup {c}
    /\ tasks' = tasks \cup {c}
    /\ UNCHANGED <<ctrlVars, proc, retreatAll, broker, gateVars, mgr, bookVars, since,
                   request, retreat, restarts, faults>>

-----------------------------------------------------------------------------
(* The tasks *)

\* A task runs on from the context of the manager.
Runs(r) == Alive /\ r \in tasks /\ mgr

\* Run panics without a context to derive from, SendOrder without a client.
Panics(r) ==
    /\ Alive /\ r \in tasks
    /\ ~mgr \/ ~HasClient
    /\ proc' = "fatal"
    /\ UNCHANGED <<ctrlVars, retreatAll, broker, gateVars, mgr, taskVars, bookVars, since,
                   request, retreat, restarts, faults>>

PlaceOrder(r, leg) ==
    /\ Runs(r) /\ HasClient
    /\ leg \in {LegsOf[r][1], LegsOf[r][2]}
    /\ placed < MaxOrders
    /\ placed' = placed + 1
    /\ live' = live \cup {[nr |-> placed + 1, leg |-> leg, task |-> r]}
    /\ UNCHANGED <<ctrlVars, proc, retreatAll, broker, gateVars, mgr, taskVars, since,
                   request, retreat, restarts, faults, refused>>

\* A task that ends leaves its orders where they are.
EndTask(r) ==
    /\ Runs(r)
    /\ tasks' = tasks \ {r}
    /\ UNCHANGED created
    /\ UNCHANGED <<ctrlVars, proc, retreatAll, broker, gateVars, mgr, bookVars, since,
                   request, retreat, restarts, faults>>

Idle == [at |-> "idle", leg |-> 1, request |-> {}, old |-> {}]

RetreatStep(r, from, change) ==
    /\ Alive /\ retreat[r].at = from
    /\ retreat' = [retreat EXCEPT ![r] = change]
    /\ UNCHANGED <<ctrlVars, proc, retreatAll, broker, gateVars, mgr, taskVars, placed, since,
                   request, restarts>>

OpenOn(r) == {o \in live : o.leg \in {LegsOf[r][1], LegsOf[r][2]}}

\* The recovery of a task: RetreatOrderWithInstrument(nil, swap, spot).
Retreat(r) ==
    /\ Runs(r)
    /\ RetreatStep(r, "idle", [Idle EXCEPT !.at = "list", !.old = Numbers(OpenOn(r))])
    /\ UNCHANGED <<live, refused, faults>>

\* Without a client it returns as if all were cancelled.
NoClient(r) ==
    /\ ~HasClient
    /\ RetreatStep(r, "list", Idle)
    /\ UNCHANGED <<live, refused, faults>>

\* The list of one instrument is added to the request; no list, nothing to add
\* (and nothing to expect of what was open).
GetOrderList(r) ==
    LET rt    == retreat[r]
        found == Numbers({o \in live : o.leg = LegsOf[r][rt.leg]})
    IN  /\ HasClient
        /\ \/ RetreatStep(r, "list", [rt EXCEPT !.at = "cancel", !.request = @ \cup found])
              /\ UNCHANGED faults
           \/ RetreatStep(r, "list", [rt EXCEPT !.at = "cancel", !.old = {}])
              /\ Fault
        /\ UNCHANGED <<live, refused>>

StopsAfterFirst(rt) == Idle

GoesOn(rt) == [rt EXCEPT !.at = "list", !.leg = @ + 1]

\* The other instrument comes next, with what was asked for before.
NextLeg(rt) == IF rt.leg = 1 THEN [rt EXCEPT !.at = "list", !.leg = 2] ELSE Idle

\* An error ends the recovery at once, and is not looked at.
CandleOrder(r) ==
    LET rt == retreat[r]
    IN  /\ CancelBatch(rt.request)
        /\ \/ RetreatStep(r, "cancel", NextLeg(rt))
           \/ RetreatStep(r, "cancel", Idle) /\ faults' # faults

Task(r) ==
    \/ Panics(r) \/ EndTask(r)
    \/ Retreat(r) \/ NoClient(r) \/ GetOrderList(r) \/ CandleOrder(r)
    \/ \E leg \in Legs : PlaceOrder(r, leg)

-----------------------------------------------------------------------------
(* The process *)

\* The process has ended in one of its ways, or is killed now, and another starts.
\* Only the exchange remembers.
Restart ==
    /\ restarts < MaxRestarts
    /\ restarts' = restarts + 1
    /\ stage' = "init" /\ mx' = "none" /\ session' = "none" /\ proc' = "up"
    /\ broker' = "none" /\ client' = "none" /\ mgr' = FALSE
    /\ books' = FALSE /\ waiting' = FALSE /\ networkOk' = FALSE /\ early' = FALSE
    /\ tasks' = {} /\ created' = {} /\ request' = {}
    /\ retreat' = [r \in Commands |-> Idle]
    /\ since' = placed
    /\ UNCHANGED <<retreatAll, bookVars, faults>>

-----------------------------------------------------------------------------
(* Specification *)

\* An order may be open that somebody placed by hand.
Init ==
    /\ CtrlInit
    /\ broker = "none" /\ client = "none" /\ mgr = FALSE
    /\ books = FALSE /\ waiting = FALSE /\ networkOk = FALSE /\ early = FALSE
    /\ tasks = {} /\ created = {} /\ request = {}
    /\ retreat = [r \in Commands |-> Idle]
    /\ retreatAll \in BOOLEAN
    /\ \/ live = {} /\ placed = 0
       \/ \E leg \in ByHand : live = {[nr |-> 1, leg |-> leg, task |-> NoTask]} /\ placed = 1
    /\ since = placed
    /\ restarts = 0
    /\ refused = {}

deskVars == <<retreatAll, broker, gateVars, mgr, taskVars, bookVars, since, request, retreat, restarts>>

Next ==
    \/ CtrlNext /\ UNCHANGED deskVars
    \/ Broker \/ RunManager \/ TakeBook
    \/ \E c \in Commands, via \in Vias : CreateOrder(c, via)
    \/ \E c \in Commands : Task(c)
    \/ Restart

Spec == Init /\ [][Next]_vars
=============================================================================
