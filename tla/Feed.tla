-------------------------------- MODULE Feed --------------------------------
(***************************************************************************)
(* The way of an order book from the exchange to a task, and the locks on  *)
(* it: broker and task composed.  The task takes a gap between the times   *)
(* of two books for an outage and recovers from it (core/order.go:227-274) *)
(* by cancelling its orders, so everything hangs on the order in which     *)
(* goroutines read and store latestOrderBookTime:                          *)
(*                                                                         *)
(*   the loop of the broker   takes books from the exchange's library, one *)
(*              goroutine each passes them on; it holds b.mtx over the     *)
(*              whole of a reconnection;                                   *)
(*   the loop of the task   takes a book and starts a goroutine for it; in *)
(*              executeSlice it holds task.mtx, and waits for b.mtx;       *)
(*   a goroutine per book   tries mtxOrderbookReEnter, compares the times, *)
(*              recovers, waits for task.mtx, and stores its own time once *)
(*              it has released both.                                      *)
(*                                                                         *)
(* A book is named by its time stamp.  What a recovery and the body of     *)
(* onOrderBook do to orders is the business of OrderTask; that a book also *)
(* waits for the loop of the manager, that of OrderManager.                *)
(***************************************************************************)
EXTENDS Integers, FiniteSets

CONSTANTS
    MaxTime,        \* bound: time units
    MaxBooks,       \* bound: order books
    MaxSends,       \* bound: slices the task executes
    MaxFaults,      \* bound: requests that fail
    Gap             \* the five seconds of onOrderBook, in time units

ASSUME BoundAssumption == {MaxTime, MaxBooks, MaxSends, MaxFaults} \subseteq Nat
ASSUME GapAssumption   == Gap \in Nat

Times  == 1..MaxTime

VARIABLES
    conn,           \* connections of the client: "up", "half" (books only) or "down"
    loop,           \* the loop of the broker: "select", "connect" or, for good, "hung"
    at,             \* how far each book is
    latest,         \* task.latestOrderBookTime
    run,            \* the loop of the task: "select", or how far executeSlice is
    used,           \* what was consumed of the bounds
    proc,           \* the process
    noticed,        \* history: books that started a recovery
    overtaken,      \* history: stored times that were replaced by older ones
    skipped         \* history: books that gave up, and behind which book

netVars  == <<conn, loop>>
taskVars == <<at, latest, run>>
pastVars == <<noticed, overtaken, skipped>>
vars     == <<netVars, taskVars, used, proc, pastVars>>

Alive  == proc = "up"
Stages == {"none", "inbox", "offered", "started", "inside", "recover", "lock", "body",
           "leaving", "done"}
Born   == {b \in Times : at[b] # "none"}

\* The book that holds mtxOrderbookReEnter.
Inside == {b \in Times : at[b] \in {"inside", "recover", "lock", "body"}}

LoopHasNoMtx == run \in {"select", "slice"}

TaskMtxFree   == run \in {"select", "slice"} /\ \A b \in Times : at[b] # "body"
BrokerMtxFree == loop = "select" /\ run # "send"

Becomes(b, from, to) == Alive /\ at[b] = from /\ at' = [at EXCEPT ![b] = to]

Fault == used.faults < MaxFaults /\ used' = [used EXCEPT !.faults = @ + 1]

-----------------------------------------------------------------------------
(* The exchange *)

\* Books come in the order of their times, while there is a connection for them.
Push(b) ==
    /\ at[b] = "none" /\ \A c \in Born : c < b
    /\ conn \in {"up", "half"}
    /\ Cardinality(Born) < MaxBooks
    /\ at' = [at EXCEPT ![b] = "inbox"]
    /\ UNCHANGED <<netVars, latest, run, used, proc, pastVars>>

\* The private connection breaks, or the one that carries the books too.
Disconnect ==
    /\ \/ conn = "up" /\ conn' \in {"half", "down"}
       \/ conn = "half" /\ conn' = "down"
    /\ Fault
    /\ UNCHANGED <<loop, taskVars, proc, pastVars>>

Exchange == Disconnect \/ \E b \in Times : Push(b)

-----------------------------------------------------------------------------
(* The loop of the broker *)

\* A tick finds a connection missing; b.mtx is locked from here ...
StartConnecting ==
    /\ Alive
    /\ BrokerMtxFree
    /\ conn # "up"
    /\ loop' = "connect"
    /\ UNCHANGED <<conn, taskVars, used, proc, pastVars>>

\* ... until it has a new client, or has failed to and waits for the next tick.
Connect ==
    /\ Alive
    /\ loop = "connect"
    /\ loop' = "select"
    /\ \/ conn' = "up" /\ UNCHANGED used
       \/ Fault /\ UNCHANGED conn
    /\ UNCHANGED <<taskVars, proc, pastVars>>

\* A reconnection authenticates the new client, and waits for the answer as long as
\* it takes.
AuthHangs ==
    /\ Alive
    /\ loop = "connect"
    /\ loop' = "hung"
    /\ UNCHANGED <<conn, taskVars, used, proc, pastVars>>

\* Books are passed on in goroutines: they may overtake each other.
onOrderBook(b) ==
    /\ loop = "select"
    /\ \A c \in Times : c < b => at[c] # "inbox"
    /\ Becomes(b, "inbox", "offered")
    /\ UNCHANGED <<netVars, latest, run, used, proc, pastVars>>

Broker == StartConnecting \/ Connect \/ AuthHangs \/ \E b \in Times : onOrderBook(b)

-----------------------------------------------------------------------------
(* The loop of the task *)

RunBook(b) ==
    /\ run = "select"
    /\ Becomes(b, "offered", "started")
    /\ UNCHANGED <<netVars, latest, run, used, proc, pastVars>>

RunBecomes(from, to) ==
    /\ Alive
    /\ run = from
    /\ run' = to
    /\ UNCHANGED <<netVars, at, latest, proc, pastVars>>

\* The loop takes a slice and executes it: it locks task.mtx ...
RunSlice ==
    /\ used.sends < MaxSends
    /\ used' = [used EXCEPT !.sends = @ + 1]
    /\ RunBecomes("select", "slice")

executeSlice == TaskMtxFree /\ RunBecomes("slice", "wait") /\ UNCHANGED used

\* ... then b.mtx, for the request over the websocket ...
SendOrder == BrokerMtxFree /\ RunBecomes("wait", "send") /\ UNCHANGED used

\* ... which may fail: the REST request goes without b.mtx.
SendOverWs == RunBecomes("send", "select") /\ UNCHANGED used

SendFailsAgain == (IF conn = "up" THEN Fault ELSE UNCHANGED used) /\ RunBecomes("send", "wait")

SendFails  == (IF conn = "up" THEN Fault ELSE UNCHANGED used) /\ RunBecomes("send", "rest")
SendRest   == RunBecomes("rest", "select") /\ UNCHANGED used

Run ==
    \/ \E b \in Times : RunBook(b)
    \/ RunSlice \/ executeSlice \/ SendOrder \/ SendOverWs \/ SendFails \/ SendRest

-----------------------------------------------------------------------------
(* The goroutine of a book *)

\* The time the book ahead has compared its own with, or may have found there.
Ahead == LET d == CHOOSE d \in Inside : TRUE IN IF at[d] = "inside" THEN 0 ELSE d

\* mtxOrderbookReEnter.TryLock; a book that does not get in still stores its time.
TryLock(b) ==
    /\ \/ /\ Inside = {}
          /\ Becomes(b, "started", "inside")
          /\ UNCHANGED skipped
       \/ /\ Inside # {}
          /\ Becomes(b, "started", "leaving")
          /\ skipped' = skipped \cup {[book |-> b, behind |-> Ahead]}
    /\ UNCHANGED <<netVars, latest, run, used, proc, noticed, overtaken>>

LongerAgo(b) == b - latest > Gap + 1

LongAgo(b) == b - latest > Gap

\* More than five seconds since the last book: recover.
Compare(b) ==
    /\ \/ LongAgo(b) /\ Becomes(b, "inside", "recover") /\ noticed' = noticed \cup {b}
       \/ ~LongAgo(b) /\ Becomes(b, "inside", "lock") /\ UNCHANGED noticed
    /\ UNCHANGED <<netVars, latest, run, used, proc, overtaken, skipped>>

\* It queries every order; task.mtx is locked to replace the list of slices.
Recover(b) ==
    /\ TaskMtxFree
    /\ Becomes(b, "recover", "lock")
    /\ UNCHANGED <<netVars, latest, run, used, proc, pastVars>>

\* Ten failed queries of one order end the process.
Fatal(b) ==
    /\ Alive /\ at[b] = "recover"
    /\ Fault
    /\ proc' = "fatal"
    /\ UNCHANGED <<netVars, taskVars, pastVars>>

Lock(b) ==
    /\ TaskMtxFree
    /\ Becomes(b, "lock", "body")
    /\ UNCHANGED <<netVars, latest, run, used, proc, pastVars>>

OffersInBody == run = "select"

\* Slices are offered to the loop of the task by goroutines of their own.
OffersAside == TRUE

\* Both mutexes are released on return ...
Unlock(b) ==
    /\ OffersAside
    /\ Becomes(b, "body", "leaving")
    /\ UNCHANGED <<netVars, latest, run, used, proc, pastVars>>

TimeNotStored(b) == latest

\* The time it stores, be it older than the one that is there or not.
TimeStored(b) == b

\* ... and only then the time is stored, without any.
StoreTime(b) ==
    /\ Becomes(b, "leaving", "done")
    /\ latest' = TimeStored(b)
    /\ overtaken' = IF latest > latest' THEN overtaken \cup {latest} ELSE overtaken
    /\ UNCHANGED <<netVars, run, used, proc, noticed, skipped>>

BookSteps(b) ==
    \/ TryLock(b) \/ Compare(b) \/ Recover(b) \/ Fatal(b)
    \/ Lock(b) \/ Unlock(b) \/ StoreTime(b)

-----------------------------------------------------------------------------
(* Specification *)

Init ==
    /\ conn = "up" /\ loop = "select"
    /\ at = [b \in Times |-> "none"]
    /\ latest = 0 /\ run = "select"
    /\ used = [sends |-> 0, faults |-> 0]
    /\ proc = "up"
    /\ noticed = {} /\ overtaken = {} /\ skipped = {}

Next == Exchange \/ Broker \/ Run \/ \E b \in Times : BookSteps(b)

Spec == Init /\ [][Next]_vars

\* Goroutines are scheduled, mutexes are handed to those who wait, select serves
\* every channel that keeps waiting, and requests to the exchange return in the end,
\* but for an authentication (AuthHangs).  As the bounds leave nobody who could
\* overtake for ever, weak fairness says it all.
Fairness ==
    /\ WF_vars(Connect)
    /\ WF_vars(executeSlice) /\ WF_vars(SendOrder)
    /\ WF_vars(SendOverWs \/ SendFails) /\ WF_vars(SendRest)
    /\ \A b \in Times :
          /\ WF_vars(onOrderBook(b)) /\ WF_vars(RunBook(b))
          /\ WF_vars(Recover(b)) /\ WF_vars(Lock(b))
          /\ WF_vars(TryLock(b) \/ Compare(b) \/ Unlock(b) \/ StoreTime(b))

FairSpec == Spec /\ Fairness
=============================================================================
