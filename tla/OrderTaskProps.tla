--------------------------- MODULE OrderTaskProps ---------------------------
(***************************************************************************)
(* What OrderTask must and must not do.                                    *)
(***************************************************************************)
EXTENDS OrderTask

SliceType ==
    [role : {"none", "first", "next", "spot"}, target : Nat, present : Nat,
     isLast : BOOLEAN, ready : BOOLEAN, ignored : BOOLEAN,
     latest : OrderState \cup {"none"}, from : Slots \X Nat]
TaskType  == [run : BOOLEAN, cancelled : BOOLEAN,
              proc : {"up", "panic", "fatal"}]
StartType == [pc : {"check", "read", "write", "done"}, new : Slots, base : Seq(Slots)]
Epochs    == SUBSET Nat
BookType  == [pc : {"idle", "retreatSwap", "retreatSpot", "query", "filter", "lock", "reprice"},
              epoch : Nat, todo : Seq(Slots), keep : Seq(Slots), latest : Nat, due : Epochs]
UsedType  == [fills : Nat, outages : Nat, repeats : Nat, recoveries : Nat, reprices : Nat,
              faults : Nat]
EventType == [id : Ids, state : OrderState, acc : Nat, fill : Nat]

\* Every variable has its type; in particular no slice asks for a negative size.
TypeOK ==
    /\ slice \in [Ids -> SliceType] /\ seqId \in 0..MaxSlices
    /\ orderSlices \in Seq(Slots) /\ chOrderSlice \subseteq Slots
    /\ task \in TaskType /\ start \in StartType /\ book \in BookType
    /\ exch \in [Ids -> [state : OrderState \cup {"absent"}, acc : Nat]]
    /\ chOrder \subseteq EventType /\ sendErrors \subseteq Ids
    /\ net \in [up : BOOLEAN, epoch : Nat]
    /\ used \in UsedType
    /\ fills \subseteq Fill /\ repeated \subseteq Fill /\ lost \subseteq Fill

Firsts    == {i \in Ids : slice[i].role = "first"}
TwoFirsts == \E i, j \in Firsts : i # j

Untroubled == used.outages = 0 /\ ~TwoFirsts

\* The order events that wait for the task; it takes them while the Run loop lasts.
InFlight == SwapFills(chOrder)
Served   == Alive /\ task.run

\* The executions the task may yet answer, and those it never will.
Pending    == IF Served THEN InFlight ELSE {}
Unanswered == lost \cup (IF Served THEN {} ELSE InFlight \ Hedged)

\* The spot slices that answer what an earlier one has answered.
Again == {i \in Ids : Spot(i) /\ \E j \in Ids : j < i /\ Spot(j) /\ slice[j].from = slice[i].from}

\* Every swap execution is pending, answered by a spot slice, or stays unanswered,
\* as one whose report is lost, is not known to the list (order.go:713), or comes
\* when the loop is over (399-432).  Only a report that comes once more, from a
\* client that was kept (broker.go:366, 405), makes it pending after its answer, or
\* has it answered by two slices.
FillsPartitioned ==
    /\ fills = Pending \cup Hedged \cup Unanswered
    /\ Unanswered \cap (Pending \cup Hedged) = {}
    /\ Pending \cap Hedged \subseteq repeated
    /\ \A i \in Again : slice[i].from \in repeated

\* orderSlices[0] is always a swap slice, as onOrderEvent takes for granted
\* (order.go:733), through recovery, repricing and the race of the first order.
HeadIsSwap ==
    orderSlices # <<>> => orderSlices[1] # NoSlice /\ Swap(orderSlices[1])

\* The report of a swap execution is lost, or passed over, only through an outage, or
\* when onStart and a book both made a first order and one overwrote the other's
\* entry in orderSlices (order.go:602, 713).  Without either, it stays unanswered
\* only if it comes at the end of the Run loop (399-432) or of the process.
NoFillLostQuietly ==
    /\ lost # {} => used.outages > 0 \/ TwoFirsts
    /\ Unanswered # {} => used.outages > 0 \/ TwoFirsts \/ ~task.run \/ task.proc = "fatal"

\* A nil slice, and with it the panic of the process, takes two first orders:
\* repricing alone never finds a swap order with nothing left to replace.
PanicNeedsTwoFirsts == task.proc = "panic" => TwoFirsts

\* Every reported swap execution is answered by a spot order that was sent,
\* unless the task is stopped, the report is lost, or the process ends.
FillsGetHedged ==
    \A i \in Ids : \A n \in 1..MaxSize :
        <<i, n>> \in InFlight ~>
            \/ \E j \in Ids : Spot(j) /\ slice[j].from = <<i, n>> /\ slice[j].ready
            \/ task.cancelled \/ <<i, n>> \in lost \/ ~Alive

EndedAtExchange(i) == exch[i].state \in {"filled", "canceled"}

\* An order has ended, but what the task heard last says otherwise, and no
\* report is left to correct it.
Regressed(i) ==
    /\ EndedAtExchange(i)
    /\ slice[i].latest \notin {"filled", "canceled"}
    /\ \A ev \in chOrder : ev.id # i

AllEnded ==
    /\ orderSlices # <<>> /\ NoSlice \notin Tracked
    /\ \A i \in Tracked : EndedAtExchange(i)
    /\ InFlight = {} /\ chOrderSlice = {} /\ start.pc = "done"

\* While books keep coming, a task none of whose orders is working any more
\* notices and stops, except when reordered reports, or those lost in an outage
\* that no book has shown, left it with a stale state.
EndIsNoticed ==
    <>[]AllEnded => []<>(\/ task.cancelled \/ ~Alive \/ ~net.up
                         \/ \E i \in Tracked \ {NoSlice} : Regressed(i))

Ledger == INSTANCE HedgeLedger WITH
              Fills <- Fill, SpotOrders <- Ids,
              traded <- fills, repeated <- repeated,
              hedges <- {<<i, slice[i].from>> : i \in {j \in Ids : Spot(j)}}

\* The task keeps the promise of HedgeLedger.
ImplementsLedger == Ledger!Spec
=============================================================================
