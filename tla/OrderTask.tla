----------------------------- MODULE OrderTask -----------------------------
(***************************************************************************)
(* One arbitrage task (core/order.go, type OrderTask): it works a limit    *)
(* order on the swap leg and answers every swap execution with a market    *)
(* order on the spot leg.  Three kinds of goroutine share the task:        *)
(*                                                                         *)
(*   Run      the select loop (orders, books, slices to send, timer),      *)
(*   onStart  the goroutine that places the first order,                   *)
(*   book     a goroutine per order book, of which TryLock admits one.     *)
(*                                                                         *)
(* Run's handlers and the second half of onOrderBook hold task.mtx;        *)
(* onStart and the recovery in onOrderBook do not.  Only the repricing     *)
(* loop of onOrderBook keeps the mutex over several steps of this module,  *)
(* so the mutex is held exactly while book.pc = "reprice".                 *)
(*                                                                         *)
(* Order slices are named by the manager's sequence number, which makes    *)
(* their client order ids unique; NoSlice is the nil *OrderSlice.  Prices  *)
(* are abstracted to the choices they lead to (has the book moved away     *)
(* from a working order, how many contracts does the amount buy).          *)
(***************************************************************************)
EXTENDS Integers, Sequences

CONSTANTS
    Sizes,          \* contract counts the task's (signed) amount may come to
    MaxSize,        \* the largest of them
    CtVal,          \* spot units per contract, price included
    MinSz,          \* spot lot, in the same units
    Repricing,      \* is TapePriceDeviation below 1000 ?
    LifeLimit,      \* is TaskMaxLifeTimeLimit positive ?
    Stoppable,      \* does the manager stop the task (StopTaskByName) ?
    StartRace,      \* bound: may a book overtake the onStart goroutine ?
    LateStore,      \* bound: may a book be late to store its time ?
    MaxSlices,      \* bound: slices a task creates
    MaxFills,       \* bound: executions of swap orders
    MaxOutages,     \* bound: connection losses
    MaxRecoveries,  \* bound: recoveries that books start
    MaxReprices,    \* bound: working orders the book moves away from
    MaxFaults,      \* bound: requests the exchange fails ...
    MaxRepeats      \* ... and order events that come once more, of both together

ASSUME SizesAssumption  == MaxSize \in Nat /\ Sizes \subseteq {n \in Int : n <= MaxSize}
ASSUME LotAssumption    == CtVal \in Nat \ {0} /\ MinSz \in Nat \ {0}
ASSUME SwitchAssumption == {Repricing, LifeLimit, Stoppable, StartRace, LateStore} \subseteq BOOLEAN
ASSUME BoundAssumption  ==
    {MaxSlices, MaxFills, MaxOutages, MaxRepeats, MaxRecoveries, MaxReprices, MaxFaults} \subseteq Nat

NoSlice == 0
Ids     == 1..MaxSlices
Slots   == Ids \cup {NoSlice}

OrderState == {"live", "partially_filled", "filled", "canceled"}
Working    == {"live", "partially_filled"}

\* A swap execution: the order and its accumulated size afterwards.
Fill   == Ids \X (1..MaxSize)
NoFill == <<NoSlice, 0>>

VARIABLES
    slice,          \* the OrderSlice objects, by sequence number
    seqId,          \* mgr.seqId: the last sequence number handed out
    orderSlices,    \* task.orderSlices
    chOrderSlice,   \* goroutines blocked on task.chOrderSlice <- slice
    task,           \* is Run looping, was fxCancel called, and the process
    start,          \* the onStart goroutine: where it is, its slice, its copy
    book,           \* the goroutine in onOrderBook, latestOrderBookTime, and the
                    \* times that goroutines past onOrderBook are about to store there
    exch,           \* the orders at the exchange, by client order id
    chOrder,        \* order events on their way to task.chOrder
    sendErrors,     \* asynchronous order errors on their way to the task
    net,            \* are the client's connections up, and the gaps in the order books
    used,           \* what was consumed of the bounds
    fills,          \* history: every swap execution so far
    repeated,       \* history: those of which a report came more than once
    lost            \* history: those whose last report the task did not get, or passed over

sliceVars == <<slice, seqId, orderSlices, chOrderSlice>>
exchVars  == <<exch, chOrder, sendErrors, fills, repeated, lost>>
vars      == <<sliceVars, task, start, book, exchVars, net, used>>

-----------------------------------------------------------------------------
(* Slices and the state of the task *)

NewSlice(role, target, isLast, from) ==
    [role |-> role, target |-> target, present |-> 0, isLast |-> isLast,
     ready |-> FALSE, ignored |-> FALSE, latest |-> "none", from |-> from]

Swap(i) == slice[i].role \in {"first", "next"}
Spot(i) == slice[i].role = "spot"

Elements(s) == {s[k] : k \in DOMAIN s}
Tracked     == Elements(orderSlices)

SpotTargetOfAcc(ev) == ((ev.acc * CtVal) \div MinSz) * MinSz

\* Swap executions are converted to spot units and cut to whole lots.
SpotTarget(ev) == ((ev.fill * CtVal) \div MinSz) * MinSz

\* slice.State is never assigned, so its half of the test is never true.
isOrderFinished(i) == slice[i].target = slice[i].present

LockFree == book.pc # "reprice"

\* A range over orderSlices meets a nil slice before it stops at slice i.
MeetsNil(i, stopsAt) ==
    \E k \in DOMAIN orderSlices :
        /\ orderSlices[k] = NoSlice
        /\ stopsAt => \A m \in 1..(k - 1) : orderSlices[m] # i

\* A panic or Fatalln takes every goroutine with it, but not the exchange.
Alive    == task.proc = "up"
Die(how) == task' = [task EXCEPT !.proc = how]

\* OrderTask.Stop; nothing depends on the reason it is given.
Stop == task' = [task EXCEPT !.cancelled = TRUE]

\* Appends slice i and lets a goroutine offer it to the Run loop.
Enqueue(list, i) ==
    /\ orderSlices' = Append(list, i)
    /\ chOrderSlice' = chOrderSlice \cup {i}

-----------------------------------------------------------------------------
(* The exchange, as the task sees it *)

Event(i, state, acc, fill) == [id |-> i, state |-> state, acc |-> acc, fill |-> fill]

SwapFills(evs) == {<<e.id, e.acc>> : e \in {x \in evs : x.fill > 0 /\ Swap(x.id)}}

\* Order events are pushed over the websocket, and broker and manager pass
\* each one on in goroutines of its own: they arrive in any order.  While a
\* connection of the client is missing, they do only if it is the other one.
Push(evs) ==
    \/ chOrder' = chOrder \cup evs /\ UNCHANGED lost
    \/ ~net.up /\ lost' = lost \cup SwapFills(evs) /\ UNCHANGED chOrder

\* A spot slice was made for these executions.
Hedged == {slice[i].from : i \in {j \in Ids : Spot(j)}}

\* The exchange executes q contracts of a working swap order.
ExecuteSwap(i, q) ==
    LET acc   == exch[i].acc + q
        state == IF acc = slice[i].target THEN "filled" ELSE "partially_filled"
    IN  /\ Swap(i)
        /\ exch[i].state \in Working
        /\ acc <= slice[i].target
        /\ used.fills < MaxFills
        /\ used' = [used EXCEPT !.fills = @ + 1]
        /\ exch' = [exch EXCEPT ![i] = [state |-> state, acc |-> acc]]
        /\ fills' = fills \cup {<<i, acc>>}
        /\ Push({Event(i, state, acc, q)})
        /\ UNCHANGED <<sliceVars, task, start, book, sendErrors, repeated, net>>

\* A spot order is a market order: it is executed in one go.
ExecuteSpot(i) ==
    /\ Spot(i)
    /\ exch[i].state \in Working
    /\ exch' = [exch EXCEPT ![i] = [state |-> "filled", acc |-> slice[i].target]]
    /\ Push({Event(i, "filled", slice[i].target, slice[i].target)})
    /\ UNCHANGED <<sliceVars, task, start, book, sendErrors, fills, repeated, net, used>>

\* One of the two connections of the client is lost, or both.
Disconnect ==
    /\ net.up
    /\ used.outages < MaxOutages
    /\ used' = [used EXCEPT !.outages = @ + 1]
    /\ net' = [net EXCEPT !.up = FALSE]
    /\ UNCHANGED <<sliceVars, task, start, book, exchVars>>

\* A new client.  The next order book is more than five seconds younger than the
\* last one, unless that connection was not lost.
Reconnect ==
    /\ ~net.up
    /\ \E epoch \in {net.epoch, net.epoch + 1} : net' = [up |-> TRUE, epoch |-> epoch]
    /\ UNCHANGED <<sliceVars, task, start, book, exchVars, used>>

Exchange ==
    \/ \E i \in Ids : \E q \in 1..slice[i].target : ExecuteSwap(i, q)
    \/ \E i \in Ids : ExecuteSpot(i)
    \/ Disconnect
    \/ Reconnect

\* A request the exchange, or the way to it, fails.
Fault ==
    /\ used.repeats + used.faults < MaxFaults
    /\ used' = [used EXCEPT !.faults = @ + 1]

-----------------------------------------------------------------------------
(* firstOrder and onStart *)

NoContractMutant(size) == size = 0

NoContract(size) == size <= 0

\* The slice gets the next sequence number; where it goes is up to the caller.
firstOrder(size) ==
    /\ ~NoContract(size)
    /\ seqId < MaxSlices
    /\ seqId' = seqId + 1
    /\ slice' = [slice EXCEPT ![seqId + 1] = NewSlice("first", size, FALSE, NoFill)]

NeedsFirstMutant == TRUE

NeedsFirst == orderSlices = <<>>

\* onStart reads orderSlices without the mutex ...
StartCheck ==
    /\ Alive
    /\ start.pc = "check"
    /\ \/ /\ NeedsFirst
          /\ \E size \in Sizes : firstOrder(size)
          /\ start' = [start EXCEPT !.pc = "read", !.new = seqId + 1]
       \/ /\ NeedsFirst => \E size \in Sizes : NoContract(size)
          /\ start' = [start EXCEPT !.pc = "done"]
          /\ UNCHANGED <<slice, seqId>>
    /\ UNCHANGED <<orderSlices, chOrderSlice, task, book, exchVars, net, used>>

\* ... evaluates task.orderSlices for the append ...
StartRead ==
    /\ Alive
    /\ start.pc = "read"
    /\ start' = [start EXCEPT !.pc = "write", !.base = orderSlices]
    /\ UNCHANGED <<sliceVars, task, book, exchVars, net, used>>

\* ... and stores the result, whatever was appended in between.
StartWrite ==
    /\ Alive
    /\ start.pc = "write"
    /\ Enqueue(start.base, start.new)
    /\ start' = [start EXCEPT !.pc = "done", !.base = <<>>]
    /\ UNCHANGED <<slice, seqId, task, book, exchVars, net, used>>

onStart == StartCheck \/ StartRead \/ StartWrite

-----------------------------------------------------------------------------
(* The Run loop *)

\* fxCancel closed wait.Done(); onCleanup squares nothing (broker.go:435).
RunDone ==
    /\ Alive
    /\ task.run
    /\ task.cancelled
    /\ task' = [task EXCEPT !.run = FALSE]
    /\ UNCHANGED <<sliceVars, start, book, exchVars, net, used>>

\* The life time of the task has run out.
checkStatus == LifeLimit

\* The timer finds it so, or the manager stops the task (StopTaskByName).
RunTimer ==
    /\ Alive
    /\ task.run
    /\ checkStatus
    /\ Stop
    /\ UNCHANGED <<sliceVars, start, book, exchVars, net, used>>

ManagerStop ==
    /\ Alive
    /\ task.run
    /\ Stoppable
    /\ Stop
    /\ UNCHANGED <<sliceVars, start, book, exchVars, net, used>>

NetworkBackMutant == net.epoch >= book.latest

\* The book is more than five seconds younger than the last one.
NetworkBack == net.epoch > book.latest

\* The goroutine of a book is past onOrderBook: what is left for it to do is to
\* store the time of the book, without any mutex.
Leaving(epoch) == IF LateStore THEN [book EXCEPT !.due = @ \cup {epoch}]
                               ELSE [book EXCEPT !.latest = epoch]

\* A book starts onOrderBook, which gives up when another one is inside.
RunBook ==
    /\ Alive
    /\ task.run
    /\ StartRace \/ start.pc = "done"
    /\ book' = IF book.pc # "idle" THEN Leaving(net.epoch)
               ELSE [book EXCEPT !.epoch = net.epoch,
                                 !.pc = IF NetworkBack THEN "retreatSwap" ELSE "lock"]
    /\ IF book.pc = "idle" /\ NetworkBack
       THEN /\ used.recoveries < MaxRecoveries
            /\ used' = [used EXCEPT !.recoveries = @ + 1]
       ELSE UNCHANGED used
    /\ UNCHANGED <<sliceVars, task, start, exchVars, net>>

\* The times are stored in any order.
StoreTime(epoch) ==
    /\ Alive
    /\ epoch \in book.due
    /\ book' = [book EXCEPT !.latest = epoch, !.due = @ \ {epoch}]
    /\ UNCHANGED <<sliceVars, task, start, exchVars, net, used>>

\* The order request reaches the exchange and is accepted.
Place(i) ==
    /\ exch' = [exch EXCEPT ![i] = [state |-> "live", acc |-> 0]]
    /\ Push({Event(i, "live", 0, 0)})

CanExecute == task.run

\* executeSlice: SendOrder tries the websocket, then REST.  The exchange refuses
\* size 0; over the websocket the refusal comes back later as an error event,
\* over REST nobody reads the response code.
executeSlice(i) ==
    /\ Alive
    /\ CanExecute
    /\ LockFree
    /\ i \in chOrderSlice \ {NoSlice}
    /\ chOrderSlice' = chOrderSlice \ {i}
    /\ slice' = [slice EXCEPT ![i].ready = TRUE]
    /\ \/ /\ slice[i].target > 0
          /\ Place(i)
          /\ UNCHANGED <<sendErrors, task, used>>
       \/ /\ IF slice[i].target > 0 THEN Fault ELSE UNCHANGED used
          /\ sendErrors' = IF net.up THEN sendErrors \cup {i} ELSE sendErrors
          /\ UNCHANGED <<exch, chOrder, lost, task>>
       \/ /\ Fault
          /\ Stop
          /\ Place(i) \/ UNCHANGED <<exch, chOrder, lost>>
          /\ UNCHANGED sendErrors
    /\ UNCHANGED <<seqId, orderSlices, start, book, fills, repeated, net>>

\* executeSlice(nil) dereferences it.
ExecuteNil ==
    /\ Alive
    /\ CanExecute
    /\ LockFree
    /\ NoSlice \in chOrderSlice
    /\ Die("panic")
    /\ UNCHANGED <<sliceVars, start, book, exchVars, net, used>>

\* OnOrderError, in a goroutine of the manager.
OnOrderError(i) ==
    /\ Alive
    /\ LockFree
    /\ i \in sendErrors
    /\ sendErrors' = sendErrors \ {i}
    /\ IF MeetsNil(i, TRUE) THEN Die("panic")
       ELSE IF i \in Tracked THEN Stop
       ELSE UNCHANGED task
    /\ UNCHANGED <<sliceVars, start, book, exch, chOrder, fills, repeated, lost, net, used>>

-----------------------------------------------------------------------------
(* onOrderEvent *)

IsFillStateWithCancel(state) == state \in {"partially_filled", "filled", "canceled"}
IsFillStateOnlyFilled(state) == state = "filled"

IsFillState(state) == state \in {"partially_filled", "filled"}

CreditOfSize(ev) == slice[ev.id].target

\* What an execution of a later swap slice adds to the first slice.
Credit(ev) == ev.fill

\* A swap execution: account for it, then hedge it with a spot slice.
SwapReturn(ev) ==
    LET first    == orderSlices[1]
        reported == [slice EXCEPT ![ev.id].latest = ev.state, ![ev.id].present = ev.acc]
        credited == IF first = ev.id THEN reported
                    ELSE [reported EXCEPT ![first].present = @ + Credit(ev)]
        isLast   == credited[first].present = credited[first].target
    IN  /\ seqId < MaxSlices
        /\ seqId' = seqId + 1
        /\ slice' = [credited EXCEPT ![seqId + 1] =
                        NewSlice("spot", SpotTarget(ev), isLast, <<ev.id, ev.acc>>)]
        /\ Enqueue(orderSlices, seqId + 1)
        /\ UNCHANGED task

\* A spot execution: the last one finishes the task.
SpotReturn(ev) ==
    /\ slice' = [slice EXCEPT ![ev.id].latest = ev.state]
    /\ IF ev.state = "filled" /\ slice[ev.id].isLast THEN Stop
                                                     ELSE UNCHANGED task
    /\ UNCHANGED <<seqId, orderSlices, chOrderSlice>>

\* The event is taken.  A client that was replaced or given up half made keeps its
\* subscriptions: what it delivers as well is a copy of the event, still on its way.
Take(ev) ==
    \/ chOrder' = chOrder \ {ev} /\ UNCHANGED <<used, repeated>>
    \/ /\ used.repeats + used.faults < MaxRepeats
       /\ used' = [used EXCEPT !.repeats = @ + 1]
       /\ repeated' = repeated \cup SwapFills({ev})
       /\ UNCHANGED chOrder

onOrderEvent(ev) ==
    /\ Alive
    /\ task.run
    /\ LockFree
    /\ ev \in chOrder
    /\ \/ /\ MeetsNil(ev.id, ~IsFillState(ev.state))
          /\ Die("panic")
          /\ UNCHANGED <<sliceVars, chOrder, repeated, lost, used>>
       \/ /\ ~MeetsNil(ev.id, ~IsFillState(ev.state))
          /\ Take(ev)
          /\ \/ /\ ev.id \notin Tracked
                /\ lost' = IF ev \in chOrder' THEN lost
                           ELSE lost \cup (SwapFills({ev}) \ Hedged)
                /\ UNCHANGED <<sliceVars, task>>
             \/ /\ ev.id \in Tracked /\ ~IsFillState(ev.state)
                /\ slice' = [slice EXCEPT ![ev.id].latest = ev.state]
                /\ UNCHANGED <<seqId, orderSlices, chOrderSlice, task, lost>>
             \/ /\ ev.id \in Tracked /\ IsFillState(ev.state)
                /\ IF Swap(ev.id) THEN SwapReturn(ev) ELSE SpotReturn(ev)
                /\ UNCHANGED lost
    /\ UNCHANGED <<start, book, exch, sendErrors, fills, net>>

\* PrintTask, in the manager's loop once it has the report of the end, looks
\* into every slice.
PrintTask ==
    /\ Alive
    /\ ~task.run
    /\ NoSlice \in Tracked
    /\ Die("panic")
    /\ UNCHANGED <<sliceVars, start, book, exchVars, net, used>>

Run ==
    \/ RunDone
    \/ RunTimer
    \/ RunBook
    \/ \E ev \in chOrder : onOrderEvent(ev)
    \/ \E i \in Ids : executeSlice(i)
    \/ ExecuteNil

-----------------------------------------------------------------------------
(* onOrderBook, first half: recovery after a gap, without task.mtx *)

SwapLeg == {"first", "next"}
SpotLeg == {"spot"}

WorkingOf(leg) == {i \in Ids : slice[i].role \in leg /\ exch[i].state \in Working}

\* The orders W are cancelled and the exchange reports so.
CancelOrders(W) ==
    /\ exch' = [i \in Ids |-> IF i \in W THEN [exch[i] EXCEPT !.state = "canceled"]
                                         ELSE exch[i]]
    /\ Push({Event(i, "canceled", exch[i].acc, 0) : i \in W})

\* RetreatOrderWithInstrument for one leg.  A failed listing skips the leg, a
\* failed cancellation returns; onOrderBook ignores the error and goes on.
BookRetreat(leg, here, next) ==
    /\ Alive
    /\ book.pc = here
    /\ \E pc \in {next, "query"} :
          /\ book' = [book EXCEPT !.pc = pc,
                                  !.todo = IF pc = "query" THEN orderSlices ELSE <<>>]
          /\ \/ pc = next /\ CancelOrders(WorkingOf(leg)) /\ UNCHANGED used
             \/ Fault /\ UNCHANGED <<exch, chOrder, lost>>
    /\ UNCHANGED <<sliceVars, task, start, sendErrors, fills, repeated, net>>

\* GetOrderDetail of the next slice; ten failures end the process (Fatalln).
BookQuery ==
    /\ Alive
    /\ book.pc = "query" /\ book.todo # <<>>
    /\ LET i == Head(book.todo)
       IN  /\ i # NoSlice
           /\ \/ /\ slice' = IF slice[i].ignored \/ exch[i].state = "absent" THEN slice
                             ELSE [slice EXCEPT ![i].latest = exch[i].state]
                 /\ UNCHANGED <<task, used>>
              \/ ~slice[i].ignored /\ Fault /\ Die("fatal") /\ UNCHANGED slice
    /\ book' = [book EXCEPT !.todo = Tail(@)]
    /\ UNCHANGED <<seqId, orderSlices, chOrderSlice, start, exchVars, net>>

BookQueried ==
    /\ Alive
    /\ book.pc = "query" /\ book.todo = <<>>
    /\ book' = [book EXCEPT !.pc = "filter", !.todo = orderSlices]
    /\ UNCHANGED <<sliceVars, task, start, exchVars, net, used>>

KeepsMutant(i) == slice[i].latest # "none" /\ ~slice[i].ignored

\* The recovery keeps the slices of which anything was ever heard ...
Keeps(i) == slice[i].latest # "none"

BookFilter ==
    /\ Alive
    /\ book.pc = "filter" /\ book.todo # <<>>
    /\ LET i == Head(book.todo)
       IN  /\ i # NoSlice
           /\ book' = [book EXCEPT !.todo = Tail(@),
                                   !.keep = IF Keeps(i) THEN Append(@, i) ELSE @]
    /\ UNCHANGED <<sliceVars, task, start, exchVars, net, used>>

\* ... and assigns what it kept, under the mutex.
BookAssign ==
    /\ Alive
    /\ book.pc = "filter" /\ book.todo = <<>>
    /\ orderSlices' = book.keep
    /\ book' = [book EXCEPT !.pc = "lock", !.keep = <<>>]
    /\ UNCHANGED <<slice, seqId, chOrderSlice, task, start, exchVars, net, used>>

-----------------------------------------------------------------------------
(* onOrderBook, second half: under task.mtx *)

\* onOrderBook returns and releases the mutexes.
BookReturn == book' = [Leaving(book.epoch) EXCEPT !.pc = "idle", !.todo = <<>>]

\* Nothing tracked: start over with a first order.
BookFirst ==
    /\ Alive
    /\ book.pc = "lock" /\ NeedsFirst
    /\ \E size \in Sizes : IF NoContract(size) THEN UNCHANGED sliceVars
                           ELSE firstOrder(size) /\ Enqueue(orderSlices, seqId + 1)
    /\ BookReturn
    /\ UNCHANGED <<task, start, exchVars, net, used>>

EndedMutant(i) == slice[i].ignored

\* Orders known to be filled or cancelled need no more attention.
Ended(i) == slice[i].ignored \/ slice[i].latest \in {"filled", "canceled"}

\* Nor does, for the repricing loop, a swap order whose size is all reported.
Reported(i) == slice[i].ready /\ Swap(i) /\ isOrderFinished(i)

Ignore(S) ==
    slice' = [i \in Ids |-> IF i \in S THEN [slice[i] EXCEPT !.ignored = TRUE] ELSE slice[i]]

\* All slices ignored: the task is finished.
BookFinish ==
    /\ Alive
    /\ book.pc = "lock" /\ orderSlices # <<>> /\ NoSlice \notin Tracked
    /\ \A i \in Tracked : Ended(i)
    /\ Ignore(Tracked)
    /\ Stop
    /\ BookReturn
    /\ UNCHANGED <<seqId, orderSlices, chOrderSlice, start, exchVars, net, used>>

\* Otherwise the repricing loop starts, if it is switched on and has something
\* to look at.  It holds the mutex, so what it will skip is known from the start.
BookCheck ==
    /\ Alive
    /\ book.pc = "lock" /\ orderSlices # <<>> /\ NoSlice \notin Tracked
    /\ \E i \in Tracked : ~Ended(i)
    /\ Ignore({i \in Tracked : Ended(i) \/ (Repricing /\ Reported(i))})
    /\ IF Repricing /\ \E i \in Tracked : ~Ended(i) /\ slice[i].ready /\ Swap(i) /\ ~Reported(i)
       THEN book' = [book EXCEPT !.pc = "reprice", !.todo = orderSlices]
       ELSE BookReturn
    /\ UNCHANGED <<seqId, orderSlices, chOrderSlice, task, start, exchVars, net, used>>

\* The slices the book goroutine is about to dereference.
Inspected ==
    CASE book.pc = "lock" -> Tracked
      [] book.pc \in {"query", "filter"} /\ book.todo # <<>> -> {Head(book.todo)}
      [] OTHER -> {}

BookNil ==
    /\ Alive
    /\ NoSlice \in Inspected
    /\ Die("panic")
    /\ UNCHANGED <<sliceVars, start, book, exchVars, net, used>>

\* RetreatOrder: an error, or an order that has already ended, is only logged.
RetreatOrder(i) ==
    /\ used.reprices < MaxReprices
    /\ \/ /\ CancelOrders({i} \cap WorkingOf(SwapLeg))
          /\ used' = [used EXCEPT !.reprices = @ + 1]
       \/ /\ used.repeats + used.faults < MaxFaults
          /\ used' = [used EXCEPT !.reprices = @ + 1, !.faults = @ + 1]
          /\ UNCHANGED <<exch, chOrder, lost>>

\* nextOrder returns nil.
NothingLeft(i) == isOrderFinished(i) \/ slice[i].target - slice[i].present <= 0

\* nextOrder: the rest of slice i becomes a slice of its own; the nil slice is
\* appended and offered to the Run loop just the same.
nextOrder(i) ==
    IF NothingLeft(i)
    THEN /\ slice' = [slice EXCEPT ![i].ignored = TRUE]
         /\ Enqueue(orderSlices, NoSlice)
         /\ UNCHANGED seqId
    ELSE /\ seqId < MaxSlices
         /\ seqId' = seqId + 1
         /\ slice' = [slice EXCEPT ![i].ignored = TRUE,
                                   ![seqId + 1] = NewSlice("next", slice[i].target - slice[i].present,
                                                           FALSE, NoFill)]
         /\ Enqueue(orderSlices, seqId + 1)

CanRepriceMutant(i) == slice[i].ready /\ Swap(i)

CanReprice(i) == slice[i].ready /\ Swap(i) /\ ~slice[i].ignored

\* The book has moved away from the price of a slice, the next such one of the
\* loop: cancel its order and replace it.
BookReprice ==
    /\ Alive
    /\ book.pc = "reprice"
    /\ \E k \in DOMAIN book.todo :
          /\ CanReprice(book.todo[k])
          /\ RetreatOrder(book.todo[k])
          /\ nextOrder(book.todo[k])
          /\ book' = [book EXCEPT !.todo = SubSeq(@, k + 1, Len(@))]
    /\ UNCHANGED <<task, start, sendErrors, fills, repeated, net>>

\* No further slice needs it.
BookRepriced ==
    /\ Alive
    /\ book.pc = "reprice"
    /\ BookReturn
    /\ UNCHANGED <<sliceVars, task, start, exchVars, net, used>>

onOrderBook ==
    \/ BookRetreat(SwapLeg, "retreatSwap", "retreatSpot")
    \/ BookRetreat(SpotLeg, "retreatSpot", "query")
    \/ BookQuery \/ BookQueried \/ BookFilter \/ BookAssign
    \/ BookFirst \/ BookFinish \/ BookCheck \/ BookNil
    \/ BookReprice \/ BookRepriced

-----------------------------------------------------------------------------
(* Specification *)

Init ==
    /\ slice = [i \in Ids |-> NewSlice("none", 0, FALSE, NoFill)]
    /\ seqId = 0 /\ orderSlices = <<>> /\ chOrderSlice = {}
    /\ task = [run |-> TRUE, cancelled |-> FALSE, proc |-> "up"]
    /\ start = [pc |-> "check", new |-> NoSlice, base |-> <<>>]
    /\ book = [pc |-> "idle", epoch |-> 0, todo |-> <<>>, keep |-> <<>>,
               latest |-> 0, due |-> {}]
    /\ exch = [i \in Ids |-> [state |-> "absent", acc |-> 0]]
    /\ chOrder = {} /\ sendErrors = {}
    /\ net = [up |-> TRUE, epoch |-> 0]
    /\ used = [fills |-> 0, outages |-> 0, repeats |-> 0, recoveries |-> 0, reprices |-> 0, faults |-> 0]
    /\ fills = {} /\ repeated = {} /\ lost = {}

Next ==
    \/ Run
    \/ onStart
    \/ onOrderBook
    \/ \E epoch \in book.due : StoreTime(epoch)
    \/ ManagerStop
    \/ PrintTask
    \/ \E i \in Ids : OnOrderError(i)
    \/ Exchange

Spec == Init /\ [][Next]_vars

Handled(i) == \E ev \in chOrder : ev.id = i /\ onOrderEvent(ev)

\* Goroutines are scheduled, time passes, and select serves every channel on
\* which a goroutine keeps waiting; neither the network, nor books, nor
\* executions are promised.
Fairness ==
    /\ WF_vars(onStart)
    /\ WF_vars(onOrderBook)
    /\ \A epoch \in 0..MaxOutages : WF_vars(StoreTime(epoch))
    /\ WF_vars(RunDone)
    /\ WF_vars(RunTimer)
    /\ SF_vars(ExecuteNil)
    /\ \A i \in Ids : SF_vars(executeSlice(i)) /\ SF_vars(Handled(i)) /\ SF_vars(OnOrderError(i))

FairSpec == Spec /\ Fairness

\* The exchange keeps pushing books while it is connected.
BookSpec == FairSpec /\ WF_vars(net.up /\ RunBook)
=============================================================================
