-------------------------- MODULE OrderTaskProofs --------------------------
(***************************************************************************)
(* Theorems about OrderTask, for every value of its constants: the types,  *)
(* the partition of the swap executions, and that the task implements      *)
(* HedgeLedger.                                                            *)
(***************************************************************************)
EXTENDS OrderTaskProps, SequenceTheorems, TLAPS

\* Slices beyond the sequence number do not exist in any respect.
Fresh ==
    /\ \A i \in Ids : i > seqId => slice[i].role = "none" /\ exch[i].state = "absent"
    /\ chOrderSlice \subseteq 0..seqId
    /\ start.new \in 0..seqId
    /\ \A ev \in chOrder : ev.id <= seqId

\* A slice that is yet to be sent is unknown to the exchange, and the slice
\* onStart holds is not offered to the Run loop yet.
Unsent ==
    /\ \A i \in Ids : exch[i].state = "absent" => exch[i].acc = 0
    /\ \A i \in chOrderSlice \ {NoSlice} : exch[i].state = "absent"
    /\ start.pc \in {"read", "write"} =>
          /\ start.new \in Ids \ chOrderSlice
          /\ exch[start.new].state = "absent"

\* The size of an order limits its executions, and those of the history are
\* no larger than what the exchange has counted.
Counted ==
    /\ \A i \in Ids : Swap(i) => slice[i].target <= MaxSize
    /\ \A f \in fills : Swap(f[1]) /\ f[2] <= exch[f[1]].acc

\* The reports of executions, and only they, name a size, and no two reports
\* are of one execution.
Reports ==
    /\ \A ev \in chOrder : Swap(ev.id) => (IsFillState(ev.state) <=> ev.fill > 0)
    /\ \A ev, ew \in chOrder :
          /\ Swap(ev.id) /\ ev.fill > 0 /\ ew.fill > 0
          /\ ev.id = ew.id /\ ev.acc = ew.acc
          => ev = ew

\* Where the swap executions are, whether or not the task goes on; only a report
\* that came more than once finds an answer, or leaves two.
Sorted ==
    /\ fills = InFlight \cup Hedged \cup lost
    /\ lost \cap (InFlight \cup Hedged) = {}
    /\ InFlight \cap Hedged \subseteq repeated
    /\ \A i, j \in Ids : Spot(i) /\ Spot(j) /\ i # j /\ slice[i].from = slice[j].from
                         => slice[i].from \in repeated

IInv == TypeOK /\ Fresh /\ Unsent /\ Counted /\ Reports /\ Sorted

-----------------------------------------------------------------------------
(* Lemmas *)

\* Cutting a natural number to whole lots gives a natural number.
LEMMA WholeLots == \A n \in Nat : (n \div MinSz) * MinSz \in Nat
  BY LotAssumption

\* The spot size of a report is a natural number.
LEMMA SpotTargetType ==
  ASSUME NEW ev \in EventType
  PROVE  SpotTarget(ev) \in Nat
<1>1. ev.fill * CtVal \in Nat
  BY LotAssumption DEF EventType
<1> QED
  BY <1>1, WholeLots DEF SpotTarget

\* Sequences of slots, named so that the provers need not look into them.
LEMMA SlotSeqs ==
  /\ <<>> \in Seq(Slots)
  /\ \A s \in Seq(Slots) : s # <<>> => Head(s) \in Slots /\ Tail(s) \in Seq(Slots)
  /\ \A s \in Seq(Slots), i \in Slots : Append(s, i) \in Seq(Slots)
  OBVIOUS

\* The initial states satisfy the invariant.
LEMMA InitIInv == Init => IInv
<1> SUFFICES ASSUME Init PROVE IInv
  OBVIOUS
<1> USE DEF Init, NewSlice, NoFill
<1>1. TypeOK
  BY BoundAssumption DEF TypeOK, Ids, Slots, NoSlice, UsedType, SliceType, TaskType,
     StartType, BookType, Epochs
<1>2. Fresh /\ Unsent /\ Counted /\ Reports
  BY DEF Fresh, Unsent, Counted, Reports, Swap, Ids, NoSlice
<1>3. Sorted
  BY DEF Sorted, InFlight, SwapFills, Hedged, Spot
<1> QED
  BY <1>1, <1>2, <1>3 DEF IInv

\* One more of what is bounded.
LEMMA Counts ==
  ASSUME NEW u \in UsedType
  PROVE  /\ [u EXCEPT !.outages = @ + 1] \in UsedType
         /\ [u EXCEPT !.reprices = @ + 1] \in UsedType
         /\ [u EXCEPT !.reprices = @ + 1, !.faults = @ + 1] \in UsedType
         /\ [u EXCEPT !.faults = @ + 1] \in UsedType
<1>1. [u EXCEPT !.outages = @ + 1] \in UsedType
  BY DEF UsedType
<1>2. [u EXCEPT !.reprices = @ + 1] \in UsedType
  BY DEF UsedType
<1>3. [u EXCEPT !.reprices = @ + 1, !.faults = @ + 1] \in UsedType
  <2> DEFINE w == [u EXCEPT !.reprices = @ + 1]
  <2>1. \A x \in UsedType : [x EXCEPT !.faults = @ + 1] \in UsedType
    BY DEF UsedType
  <2>2. w.faults = u.faults
    BY DEF UsedType
  <2>3. [u EXCEPT !.reprices = @ + 1, !.faults = @ + 1] = [w EXCEPT !.faults = @ + 1]
    BY <2>2
  <2> QED
    BY <1>2, <2>1, <2>3
<1>4. [u EXCEPT !.faults = @ + 1] \in UsedType
  BY DEF UsedType
<1> QED
  BY <1>1, <1>2, <1>3, <1>4

LEMMA CountSteps ==
  ASSUME IInv, Disconnect \/ Fault
  PROVE  used' \in UsedType
<1>1. used \in UsedType
  BY DEF IInv, TypeOK
<1> QED
  BY <1>1, Counts DEF Disconnect, Fault

\* A step that leaves alone what the invariant is about, the types apart.
Kept ==
    /\ UNCHANGED <<seqId, chOrderSlice, exch, chOrder, fills, repeated, lost>>
    /\ start'.new = start.new
    /\ start'.pc \in {"read", "write"} => start.pc \in {"read", "write"}
    /\ \A i \in Ids : /\ slice'[i].role = slice[i].role
                      /\ slice'[i].target = slice[i].target
                      /\ slice'[i].from = slice[i].from

LEMMA KeptIInv ==
  ASSUME IInv, TypeOK', Kept
  PROVE  IInv'
<1> USE DEF Kept
<1>0. \A i \in Ids : Swap(i)' = Swap(i) /\ Spot(i)' = Spot(i)
  BY DEF Swap, Spot
<1>1. Fresh' /\ Unsent'
  BY DEF IInv, TypeOK, StartType, Fresh, Unsent
<1>2. Counted'
  BY <1>0 DEF IInv, TypeOK, EventType, Counted, Fill
<1>3. Reports'
  BY <1>0 DEF IInv, TypeOK, EventType, Reports
<1>4. InFlight' = InFlight
  <2>1. {ev \in chOrder : ev.fill > 0 /\ Swap(ev.id)}'
          = {ev \in chOrder : ev.fill > 0 /\ Swap(ev.id)}
    BY <1>0 DEF IInv, TypeOK, EventType
  <2> QED
    BY <2>1 DEF InFlight, SwapFills
<1>5. Hedged' = Hedged
  <2>1. \A i \in Ids : Spot(i)' => slice'[i].from \in Hedged
    BY <1>0 DEF Hedged
  <2>2. \A i \in Ids : Spot(i) => slice[i].from \in Hedged'
    BY <1>0 DEF Hedged
  <2> QED
    BY <2>1, <2>2 DEF Hedged
<1>6. Sorted'
  BY <1>0, <1>4, <1>5 DEF IInv, Sorted
<1> QED
  BY <1>1, <1>2, <1>3, <1>6 DEF IInv

\* The steps of the task and of the network that only move a goroutine on, or
\* touch what the invariant does not speak of.
LEMMA TaskSteps ==
  ASSUME IInv, RunDone \/ RunTimer \/ ManagerStop \/ ExecuteNil \/ BookNil \/ PrintTask
  PROVE  IInv'
<1> USE DEF IInv, TypeOK, Kept, sliceVars, exchVars, Die, Stop
<1>1. task' \in TaskType
  BY DEF RunDone, RunTimer, ManagerStop, ExecuteNil, BookNil, PrintTask, TaskType
<1>2. UNCHANGED <<sliceVars, start, book, exchVars, net, used>>
  BY DEF RunDone, RunTimer, ManagerStop, ExecuteNil, BookNil, PrintTask
<1> QED
  BY <1>1, <1>2, KeptIInv

\* A book that leaves onOrderBook, or never got in.
LEMMA Leaves ==
  ASSUME book \in BookType, NEW e \in Nat
  PROVE  /\ Leaving(e) \in BookType
         /\ Leaving(e).pc = book.pc
<1>1. book.due \cup {e} \in Epochs
  BY DEF BookType, Epochs
<1>2. [book EXCEPT !.due = @ \cup {e}] \in BookType /\ [book EXCEPT !.latest = e] \in BookType
  BY <1>1 DEF BookType
<1>3. [book EXCEPT !.due = @ \cup {e}].pc = book.pc /\ [book EXCEPT !.latest = e].pc = book.pc
  BY DEF BookType
<1> QED
  BY <1>2, <1>3 DEF Leaving

LEMMA Returns ==
  ASSUME book \in BookType, BookReturn
  PROVE  book' \in BookType /\ book'.pc = "idle"
<1>1. book.epoch \in Nat
  BY DEF BookType
<1>2. Leaving(book.epoch) \in BookType
  BY <1>1, Leaves
<1> QED
  BY <1>2, SlotSeqs DEF BookReturn, BookType

LEMMA BookMoves ==
  ASSUME IInv, RunBook \/ BookQueried \/ BookFilter \/ BookRepriced \/ \E e \in book.due : StoreTime(e)
  PROVE  IInv'
<1> USE DEF IInv, TypeOK, Kept, sliceVars, exchVars
<1>1. book' \in BookType
  <2>1. CASE RunBook
    <3>1. net.epoch \in Nat
      OBVIOUS
    <3>2. Leaving(net.epoch) \in BookType
      BY <3>1, Leaves
    <3> QED
      BY <2>1, <3>1, <3>2 DEF RunBook, BookType
  <2>2. CASE BookQueried
    BY <2>2 DEF BookQueried, BookType
  <2>3. CASE BookFilter
    <3>1. book.todo \in Seq(Slots) /\ book.keep \in Seq(Slots) /\ book.todo # <<>>
      BY <2>3 DEF BookFilter, BookType
    <3>2. /\ Tail(book.todo) \in Seq(Slots)
          /\ Append(book.keep, Head(book.todo)) \in Seq(Slots)
      BY <3>1, SlotSeqs
    <3> QED
      BY <2>3, <3>2 DEF BookFilter, BookType
  <2>4. CASE BookRepriced
    BY <2>4, Returns DEF BookRepriced
  <2>5. ASSUME NEW e \in book.due, StoreTime(e)
        PROVE  book' \in BookType
    <3>1. e \in Nat /\ book.due \ {e} \in Epochs
      BY <2>5 DEF BookType, Epochs
    <3> QED
      BY <2>5, <3>1 DEF StoreTime, BookType
  <2> QED
    BY <2>1, <2>2, <2>3, <2>4, <2>5
<1>2. UNCHANGED <<sliceVars, task, start, exchVars, net>>
  BY DEF RunBook, BookQueried, BookFilter, BookRepriced, StoreTime
<1>3. used' \in UsedType
  <2>1. used' \in {used, [used EXCEPT !.recoveries = @ + 1]}
    BY DEF RunBook, BookQueried, BookFilter, BookRepriced, StoreTime
  <2> QED
    BY <2>1 DEF UsedType
<1> QED
  BY <1>1, <1>2, <1>3, KeptIInv

LEMMA BookAssigns ==
  ASSUME IInv, BookAssign
  PROVE  IInv'
<1> USE DEF IInv, TypeOK, Kept, sliceVars, exchVars, BookAssign
<1>1. book' \in BookType /\ orderSlices' \in Seq(Slots)
  BY SlotSeqs DEF BookType
<1> QED
  BY <1>1, KeptIInv

\* Marking slices as ignored keeps the types and all the invariant speaks of.
LEMMA IgnoreKeeps ==
  ASSUME slice \in [Ids -> SliceType], NEW S, Ignore(S)
  PROVE  /\ slice' \in [Ids -> SliceType]
         /\ \A i \in Ids : /\ slice'[i].role = slice[i].role
                           /\ slice'[i].target = slice[i].target
                           /\ slice'[i].from = slice[i].from
<1>1. slice' \in [Ids -> SliceType]
  <2>1. \A r \in SliceType : [r EXCEPT !.ignored = TRUE] \in SliceType
    BY DEF SliceType
  <2> QED
    BY <2>1 DEF Ignore
<1>2. \A i \in Ids : /\ slice'[i].role = slice[i].role
                     /\ slice'[i].target = slice[i].target
                     /\ slice'[i].from = slice[i].from
  BY DEF Ignore, SliceType
<1> QED
  BY <1>1, <1>2

LEMMA BookMarks ==
  ASSUME IInv, BookFinish \/ BookCheck
  PROVE  IInv'
<1> USE DEF IInv, exchVars
<1>1. PICK S : Ignore(S)
  BY DEF BookFinish, BookCheck
<1>2. book' \in BookType
  BY SlotSeqs, Returns DEF BookFinish, BookCheck, TypeOK, BookType
<1>3. task' \in TaskType
  BY DEF BookFinish, BookCheck, Stop, TypeOK, TaskType
<1>4. UNCHANGED <<seqId, orderSlices, chOrderSlice, start, exchVars, net, used>>
  BY DEF BookFinish, BookCheck
<1> QED
  BY <1>1, <1>2, <1>3, <1>4, IgnoreKeeps, KeptIInv DEF TypeOK, Kept

LEMMA BookQueries ==
  ASSUME IInv, BookQuery
  PROVE  IInv'
<1>0. Fault => used' \in UsedType
  BY CountSteps
<1> USE DEF IInv, exchVars
<1>1. /\ book.todo # <<>>
      /\ Head(book.todo) \in Slots \ {NoSlice}
      /\ Tail(book.todo) \in Seq(Slots)
  BY SlotSeqs DEF BookQuery, TypeOK, BookType
<1>2. book' \in BookType
  BY <1>1 DEF BookQuery, TypeOK, BookType
<1>3. task' \in TaskType
  BY DEF BookQuery, TypeOK, TaskType, Die
<1>4. used' \in UsedType
  BY <1>0 DEF BookQuery, TypeOK
<1>5. slice \in [Ids -> SliceType] /\ Head(book.todo) \in Ids
  BY <1>1 DEF TypeOK, Slots
<1>6. \/ slice' = slice
      \/ /\ exch[Head(book.todo)].state \in OrderState
         /\ slice' = [slice EXCEPT ![Head(book.todo)].latest = exch[Head(book.todo)].state]
  BY <1>5 DEF BookQuery, TypeOK
<1>7. slice' \in [Ids -> SliceType]
  BY <1>5, <1>6 DEF SliceType
<1>8. \A j \in Ids : /\ slice'[j].role = slice[j].role
                     /\ slice'[j].target = slice[j].target
                     /\ slice'[j].from = slice[j].from
  BY <1>5, <1>6 DEF SliceType
<1>9. UNCHANGED <<seqId, orderSlices, chOrderSlice, start, exchVars, net>>
  BY DEF BookQuery
<1> QED
  BY <1>2, <1>3, <1>4, <1>7, <1>8, <1>9, KeptIInv DEF TypeOK, Kept

LEMMA OtherSteps ==
  ASSUME IInv,
         StartRead \/ Disconnect \/ Reconnect \/ UNCHANGED vars \/ \E i \in Ids : OnOrderError(i)
  PROVE  IInv'
<1>0. Disconnect => used' \in UsedType
  BY CountSteps
<1> USE DEF IInv, TypeOK, Kept, sliceVars, exchVars
<1>1. CASE StartRead
  <2>1. start' \in StartType
    BY <1>1 DEF StartRead, StartType
  <2> QED
    BY <1>1, <2>1, KeptIInv DEF StartRead, StartType
<1>2. CASE Disconnect \/ Reconnect
  <2>1. net.epoch \in Nat /\ net.up \in BOOLEAN
    OBVIOUS
  <2>2. CASE Disconnect
    BY <2>2, <1>0, KeptIInv DEF Disconnect
  <2>3. CASE Reconnect
    BY <2>1, <2>3, KeptIInv DEF Reconnect
  <2> QED
    BY <1>2, <2>2, <2>3
<1>3. CASE UNCHANGED vars
  BY <1>3, KeptIInv DEF vars
<1>4. CASE \E i \in Ids : OnOrderError(i)
  <2>1. task' \in TaskType
    BY <1>4 DEF OnOrderError, Die, Stop, TaskType
  <2> QED
    BY <1>4, <2>1, KeptIInv DEF OnOrderError
<1> QED
  BY <1>1, <1>2, <1>3, <1>4

-----------------------------------------------------------------------------
(* Steps that create a slice or send something *)

\* The numbers behind the identities.
LEMMA Numbers ==
  ASSUME IInv
  PROVE  /\ Ids \subseteq Nat /\ seqId \in Nat /\ MaxSlices \in Nat /\ seqId <= MaxSlices
         /\ \A ev \in chOrder : ev.id \in Ids /\ ev.id <= seqId
         /\ \A i \in Ids : i > seqId => slice[i].role = "none" /\ exch[i].state = "absent"
         /\ chOrderSlice \subseteq 0..seqId /\ start.new \in 0..seqId
<1>1. Ids \subseteq Nat /\ seqId \in Nat /\ MaxSlices \in Nat /\ seqId <= MaxSlices
  BY BoundAssumption DEF IInv, TypeOK, Ids
<1>2. \A ev \in chOrder : ev.id \in Ids
  BY DEF IInv, TypeOK, EventType
<1> QED
  BY <1>1, <1>2 DEF IInv, Fresh

\* A step that executes no swap order and reports no such execution.
Quiet ==
    /\ UNCHANGED <<fills, repeated, lost>>
    /\ \A i \in Ids : IF i <= seqId THEN /\ slice'[i].role = slice[i].role
                                          /\ slice'[i].target = slice[i].target
                                          /\ slice'[i].from = slice[i].from
                      ELSE /\ slice'[i].role # "spot"
                           /\ slice'[i].role # "none" => slice'[i].target <= MaxSize
    /\ \A i \in Ids : Swap(i) => exch'[i].acc = exch[i].acc
    /\ \A ev \in chOrder' : \/ ev \in chOrder \/ slice'[ev.id].role = "spot"
                            \/ ev.fill = 0 /\ ~IsFillState(ev.state)
    /\ \A ev \in chOrder : ev.fill > 0 /\ Swap(ev.id) => ev \in chOrder'

LEMMA QuietIInv ==
  ASSUME IInv, TypeOK', Fresh', Unsent', Quiet
  PROVE  IInv'
<1>0. /\ \A i \in Ids : Spot(i)' <=> Spot(i)
      /\ \A i \in Ids : Swap(i) => Swap(i)'
      /\ \A i \in Ids : i <= seqId => (Swap(i)' <=> Swap(i))
      /\ \A i \in Ids : Swap(i) \/ Spot(i) => i <= seqId
      /\ \A i \in Ids : Spot(i) => slice'[i].from = slice[i].from
  <2>1. \A i \in Ids : i > seqId <=> ~(i <= seqId)
    BY Numbers
  <2>2. \A i \in Ids : i <= seqId => /\ slice'[i].role = slice[i].role
                                    /\ slice'[i].from = slice[i].from
    BY DEF Quiet
  <2>3. \A i \in Ids : ~(i <= seqId) => slice[i].role = "none" /\ slice'[i].role # "spot"
    BY <2>1, Numbers DEF Quiet
  <2> QED
    BY <2>2, <2>3 DEF Swap, Spot
<1>1. chOrder \subseteq EventType /\ fills \subseteq Fill /\ chOrder' \subseteq EventType
  BY DEF IInv, TypeOK
<1>2. Counted'
  <2>1. \A i \in Ids : Swap(i)' => slice'[i].target <= MaxSize
    BY <1>0 DEF Quiet, IInv, Counted, Swap
  <2>2. \A f \in fills' : Swap(f[1])' /\ f[2] <= exch'[f[1]].acc
    BY <1>0, <1>1 DEF Quiet, IInv, Counted, Fill
  <2> QED
    BY <2>1, <2>2 DEF Counted
<1>3. \A ev \in chOrder' : Swap(ev.id)' /\ ev.fill > 0 => ev \in chOrder /\ Swap(ev.id)
  BY <1>0, <1>1 DEF Quiet, IInv, Fresh, EventType, Swap
<1>4. Reports'
  <2>1. \A ev \in chOrder' : Swap(ev.id)' => (IsFillState(ev.state) <=> ev.fill > 0)
    <3>1. \A ev \in chOrder : Swap(ev.id)' => Swap(ev.id)
      BY <1>0, <1>1 DEF IInv, Fresh, EventType
    <3> QED
      BY <3>1, <1>1 DEF Quiet, IInv, Reports, Swap
  <2>2. \A ev, ew \in chOrder' :
           /\ Swap(ev.id)' /\ ev.fill > 0 /\ ew.fill > 0
           /\ ev.id = ew.id /\ ev.acc = ew.acc
           => ev = ew
    BY <1>3 DEF IInv, Reports
  <2> QED
    BY <2>1, <2>2 DEF Reports
<1>5. InFlight' = InFlight
  <2>1. \A ev \in chOrder : ev.fill > 0 /\ Swap(ev.id) => ev \in chOrder' /\ Swap(ev.id)'
    BY <1>0, <1>1 DEF Quiet, EventType
  <2>2. {ev \in chOrder : ev.fill > 0 /\ Swap(ev.id)}'
          = {ev \in chOrder : ev.fill > 0 /\ Swap(ev.id)}
    BY <2>1, <1>3
  <2> QED
    BY <2>2 DEF InFlight, SwapFills
<1>6. Hedged' = Hedged
  <2>1. \A i \in Ids : Spot(i)' => slice'[i].from \in Hedged
    BY <1>0 DEF Hedged
  <2>2. \A i \in Ids : Spot(i) => slice[i].from \in Hedged'
    BY <1>0 DEF Hedged
  <2> QED
    BY <2>1, <2>2 DEF Hedged
<1>7. Sorted'
  BY <1>0, <1>5, <1>6 DEF Quiet, IInv, Sorted
<1> QED
  BY <1>2, <1>4, <1>7 DEF IInv

\* A first order is a new slice of at most MaxSize contracts.
LEMMA FirstOrders ==
  ASSUME IInv, NEW size \in Sizes, firstOrder(size)
  PROVE  /\ seqId + 1 \in Ids /\ seqId' = seqId + 1 /\ seqId \in Nat
         /\ slice' \in [Ids -> SliceType]
         /\ \A i \in Ids : i # seqId + 1 => slice'[i] = slice[i]
         /\ slice'[seqId + 1].role = "first" /\ slice'[seqId + 1].target <= MaxSize
<1>1. size \in Nat /\ size <= MaxSize
  BY SizesAssumption DEF firstOrder, NoContract
<1>2. seqId + 1 \in Ids /\ seqId' = seqId + 1 /\ seqId \in Nat
  BY BoundAssumption DEF IInv, TypeOK, firstOrder, Ids
<1>3. NewSlice("first", size, FALSE, NoFill) \in SliceType
  BY <1>1 DEF NewSlice, SliceType, NoFill, Slots, NoSlice
<1>4. slice' = [slice EXCEPT ![seqId + 1] = NewSlice("first", size, FALSE, NoFill)]
  BY DEF firstOrder
<1>5. slice \in [Ids -> SliceType]
  BY DEF IInv, TypeOK
<1>6. /\ slice' \in [Ids -> SliceType]
      /\ \A i \in Ids : i # seqId + 1 => slice'[i] = slice[i]
      /\ slice'[seqId + 1] = NewSlice("first", size, FALSE, NoFill)
  BY <1>2, <1>3, <1>4, <1>5
<1> QED
  BY <1>1, <1>2, <1>6 DEF NewSlice

\* Pushing reports that name no execution.
LEMMA QuietPush ==
  ASSUME chOrder \subseteq EventType, lost \subseteq Fill,
         NEW evs \in SUBSET EventType, \A ev \in evs : ev.fill = 0,
         Push(evs)
  PROVE  /\ chOrder' \subseteq chOrder \cup evs
         /\ chOrder \subseteq chOrder'
         /\ lost' = lost
<1>1. SwapFills(evs) = {}
  BY DEF SwapFills
<1> QED
  BY <1>1 DEF Push

\* Changing one field of a slice keeps the types, and whatever the invariant
\* says of the slices.
LEMMA SliceUpdates ==
  ASSUME NEW s \in [Ids -> SliceType], NEW i \in Ids
  PROVE  /\ \A x \in BOOLEAN : [s EXCEPT ![i].ready = x] \in [Ids -> SliceType]
         /\ \A x \in BOOLEAN : [s EXCEPT ![i].ignored = x] \in [Ids -> SliceType]
         /\ \A x \in OrderState : [s EXCEPT ![i].latest = x] \in [Ids -> SliceType]
         /\ \A x \in Nat : [s EXCEPT ![i].present = x] \in [Ids -> SliceType]
         /\ \A x \in SliceType : [s EXCEPT ![i] = x] \in [Ids -> SliceType]
<1>1. \A x \in BOOLEAN : [s EXCEPT ![i].ready = x] \in [Ids -> SliceType]
  BY DEF SliceType
<1>2. \A x \in BOOLEAN : [s EXCEPT ![i].ignored = x] \in [Ids -> SliceType]
  BY DEF SliceType
<1>3. \A x \in OrderState : [s EXCEPT ![i].latest = x] \in [Ids -> SliceType]
  BY DEF SliceType
<1>4. \A x \in Nat : [s EXCEPT ![i].present = x] \in [Ids -> SliceType]
  BY DEF SliceType
<1>5. \A x \in SliceType : [s EXCEPT ![i] = x] \in [Ids -> SliceType]
  OBVIOUS
<1> QED
  BY <1>1, <1>2, <1>3, <1>4, <1>5

LEMMA StartSteps ==
  ASSUME IInv, StartCheck \/ StartWrite
  PROVE  IInv'
<1> USE DEF sliceVars, exchVars
<1>0. /\ seqId \in Nat /\ Ids \subseteq Nat /\ slice \in [Ids -> SliceType]
      /\ chOrder \subseteq EventType
      /\ start \in StartType /\ seqId <= MaxSlices /\ MaxSlices \in Nat
  BY BoundAssumption DEF IInv, TypeOK, Ids
<1>1. CASE StartCheck /\ \E size \in Sizes : firstOrder(size) /\ start' = [start EXCEPT !.pc = "read", !.new = seqId + 1]
  <2>1. PICK size \in Sizes : firstOrder(size) /\ start' = [start EXCEPT !.pc = "read", !.new = seqId + 1]
    BY <1>1
  <2>0. /\ seqId + 1 \in Ids /\ seqId' = seqId + 1
        /\ slice' \in [Ids -> SliceType]
        /\ \A i \in Ids : i # seqId + 1 => slice'[i] = slice[i]
        /\ slice'[seqId + 1].role = "first" /\ slice'[seqId + 1].target <= MaxSize
    BY <2>1, FirstOrders
  <2>2. /\ UNCHANGED <<orderSlices, chOrderSlice, task, book, exchVars, net, used>>
    BY <1>1 DEF StartCheck
  <2>3. start' \in StartType /\ start'.new = seqId + 1
    BY <2>1, <1>0, <2>0 DEF StartType, Slots
  <2>4. seqId' \in 0..MaxSlices
    BY <2>1, <1>0, <2>0 DEF Ids
  <2>5. TypeOK'
    BY <2>1, <2>2, <2>3, <2>4, <2>0 DEF IInv, TypeOK
  <2>6. Fresh'
    <3>1. \A i \in Ids : i > seqId' => slice'[i].role = "none" /\ exch'[i].state = "absent"
      BY <2>2, <2>0, Numbers
    <3>2. chOrderSlice' \subseteq 0..seqId' /\ \A ev \in chOrder' : ev.id <= seqId'
      BY <2>2, <2>0, Numbers
    <3> QED
      BY <2>1, <2>3, <1>0, <3>1, <3>2, <2>0 DEF Fresh
  <2>7. Unsent'
    BY <2>1, <2>2, <2>3, <1>0, <2>0 DEF IInv, Fresh, Unsent
  <2>8. Quiet
    BY <2>2, <1>0, <2>0 DEF IInv, Fresh, Quiet
  <2> QED
    BY <2>5, <2>6, <2>7, <2>8, QuietIInv
<1>2. CASE StartCheck /\ start' = [start EXCEPT !.pc = "done"] /\ UNCHANGED <<slice, seqId>>
  <2>1. start' \in StartType /\ start'.new = start.new /\ start'.pc = "done"
    BY <1>2, <1>0 DEF StartType
  <2> QED
    BY <1>2, <2>1, KeptIInv DEF StartCheck, IInv, TypeOK, Kept
<1>3. CASE StartWrite
  <2>1. /\ start.pc = "write" /\ orderSlices' = Append(start.base, start.new)
        /\ chOrderSlice' = chOrderSlice \cup {start.new}
        /\ UNCHANGED <<slice, seqId, task, book, exchVars, net, used>>
    BY <1>3 DEF StartWrite, Enqueue
  <2>2. start' \in StartType /\ start'.new = start.new /\ start'.pc = "done"
    BY <1>3, <1>0, SlotSeqs DEF StartWrite, StartType
  <2>3. start.new \in Slots /\ orderSlices' \in Seq(Slots)
    BY <2>1, <1>0, SlotSeqs DEF StartType
  <2>4. TypeOK'
    BY <2>1, <2>2, <2>3 DEF IInv, TypeOK
  <2>5. Fresh'
    BY <2>1, <2>2 DEF IInv, Fresh
  <2>6. Unsent'
    BY <2>1, <2>2 DEF IInv, Unsent
  <2>7. Quiet
    <3>1. \A i \in Ids : i > seqId => slice'[i].role = "none"
      BY <2>1, Numbers
    <3>2. \A i \in Ids : IF i <= seqId THEN slice'[i] = slice[i] ELSE slice'[i].role = "none"
      BY <3>1, <2>1, Numbers
    <3> QED
      BY <3>2, <1>3 DEF StartWrite, Quiet
  <2> QED
    BY <2>4, <2>5, <2>6, <2>7, QuietIInv
<1> QED
  BY <1>1, <1>2, <1>3 DEF StartCheck

LEMMA BookStartsOver ==
  ASSUME IInv, BookFirst
  PROVE  IInv'
<1> USE DEF sliceVars, exchVars
<1>0. /\ seqId \in Nat /\ Ids \subseteq Nat /\ slice \in [Ids -> SliceType]
      /\ chOrder \subseteq EventType /\ book \in BookType /\ orderSlices \in Seq(Slots)
      /\ seqId <= MaxSlices /\ MaxSlices \in Nat
  BY BoundAssumption DEF IInv, TypeOK, Ids
<1>1. book' \in BookType
  BY <1>0, Returns DEF BookFirst
<1>2. UNCHANGED <<task, start, exchVars, net, used>>
  BY DEF BookFirst
<1>3. CASE UNCHANGED sliceVars
  BY <1>1, <1>2, <1>3, KeptIInv DEF IInv, TypeOK, Kept
<1>4. CASE \E size \in Sizes : firstOrder(size) /\ Enqueue(orderSlices, seqId + 1)
  <2>1. PICK size \in Sizes : firstOrder(size) /\ Enqueue(orderSlices, seqId + 1)
    BY <1>4
  <2>0. /\ seqId + 1 \in Ids /\ seqId' = seqId + 1
        /\ slice' \in [Ids -> SliceType]
        /\ \A i \in Ids : i # seqId + 1 => slice'[i] = slice[i]
        /\ slice'[seqId + 1].role = "first" /\ slice'[seqId + 1].target <= MaxSize
    BY <2>1, FirstOrders
  <2>2. /\ orderSlices' \in Seq(Slots)
        /\ chOrderSlice' = chOrderSlice \cup {seqId + 1}
    BY <1>0, <2>1, <2>0, SlotSeqs DEF Enqueue, Slots
  <2>3. seqId' \in 0..MaxSlices
    BY <2>1, <1>0, <2>0 DEF Ids
  <2>4. TypeOK'
    BY <2>1, <2>2, <2>3, <1>1, <1>2, <2>0 DEF IInv, TypeOK, Slots
  <2>5. Fresh'
    <3>1. \A i \in Ids : i > seqId' => slice'[i].role = "none" /\ exch'[i].state = "absent"
      BY <1>2, <2>0, Numbers
    <3>2. chOrderSlice' \subseteq 0..seqId'
      <4>1. chOrderSlice \subseteq 0..seqId /\ seqId' = seqId + 1
        BY <2>1, <2>0 DEF IInv, Fresh
      <4> QED
        BY <4>1, <2>2, <1>0
    <3>4. \A ev \in chOrder' : ev.id <= seqId'
      BY <1>2, <2>0, Numbers
    <3>3. start'.new \in 0..seqId'
      BY <1>2, <1>0, <2>0 DEF IInv, Fresh
    <3> QED
      BY <3>1, <3>2, <3>3, <3>4 DEF Fresh
  <2>6. Unsent'
    BY <2>2, <1>2, <1>0, <2>0 DEF IInv, Fresh, Unsent
  <2>7. Quiet
    BY <1>2, <1>0, <2>0 DEF IInv, Fresh, Quiet
  <2> QED
    BY <2>4, <2>5, <2>6, <2>7, QuietIInv
<1> QED
  BY <1>3, <1>4 DEF BookFirst

\* Reports of a placed or of cancelled orders name no execution.
LEMMA PlaceEvent ==
  ASSUME NEW i \in Ids
  PROVE  /\ Event(i, "live", 0, 0) \in EventType
         /\ Event(i, "live", 0, 0).fill = 0 /\ ~IsFillState("live")
         /\ Event(i, "live", 0, 0).id = i /\ Event(i, "live", 0, 0).state = "live"
  BY DEF Event, EventType, OrderState, IsFillState

LEMMA SliceSent ==
  ASSUME IInv, NEW i \in Ids, executeSlice(i)
  PROVE  IInv'
<1> USE DEF sliceVars, exchVars
<1>0. /\ seqId \in Nat /\ Ids \subseteq Nat /\ slice \in [Ids -> SliceType]
      /\ chOrder \subseteq EventType /\ lost \subseteq Fill
      /\ task \in TaskType /\ used \in UsedType
      /\ exch \in [Ids -> [state : OrderState \cup {"absent"}, acc : Nat]]
  BY DEF IInv, TypeOK, Ids
<1>1. /\ i \in chOrderSlice /\ i <= seqId
      /\ exch[i].state = "absent" /\ exch[i].acc = 0
  <2>1. i \in chOrderSlice \ {NoSlice}
    BY DEF executeSlice
  <2>2. i <= seqId
    BY <2>1, <1>0 DEF IInv, Fresh
  <2> QED
    BY <2>1, <2>2 DEF IInv, Unsent
<1>2. /\ chOrderSlice' = chOrderSlice \ {i}
      /\ slice' = [slice EXCEPT ![i].ready = TRUE]
      /\ UNCHANGED <<seqId, orderSlices, start, book, fills, repeated, net>>
  BY DEF executeSlice
<1>3. /\ slice' \in [Ids -> SliceType]
      /\ \A j \in Ids : /\ slice'[j].role = slice[j].role
                        /\ slice'[j].target = slice[j].target
                        /\ slice'[j].from = slice[j].from
  <2>1. slice' \in [Ids -> SliceType]
    BY <1>0, <1>2, SliceUpdates
  <2>2. \A j \in Ids : /\ slice'[j].role = slice[j].role
                       /\ slice'[j].target = slice[j].target
                       /\ slice'[j].from = slice[j].from
    BY <1>0, <1>2 DEF SliceType
  <2> QED
    BY <2>1, <2>2
<1>4. task' \in TaskType /\ sendErrors' \subseteq Ids
  <2>1. task' \in {task, [task EXCEPT !.cancelled = TRUE]}
    BY DEF executeSlice, Stop
  <2>2. sendErrors' \subseteq sendErrors \cup {i}
    BY DEF executeSlice
  <2> QED
    BY <2>1, <2>2, <1>0 DEF TaskType, IInv, TypeOK
<1>5. used' \in UsedType
  <2>1. used' \in {used, [used EXCEPT !.faults = @ + 1]}
    BY DEF executeSlice, Fault
  <2> QED
    BY <2>1, <1>0 DEF UsedType
<1>6. Place(i) \/ UNCHANGED <<exch, chOrder, lost>>
  BY DEF executeSlice
<1>7. /\ exch' \in [Ids -> [state : OrderState \cup {"absent"}, acc : Nat]]
      /\ \A j \in Ids : j # i => exch'[j] = exch[j]
      /\ exch'[i].acc = 0
  BY <1>6, <1>0, <1>1 DEF Place, OrderState
<1>8. /\ chOrder' \subseteq chOrder \cup {Event(i, "live", 0, 0)}
      /\ chOrder \subseteq chOrder' /\ lost' = lost
  <2>1. CASE Place(i)
    <3>1. Push({Event(i, "live", 0, 0)})
      BY <2>1 DEF Place
    <3> QED
      BY <3>1, <1>0, PlaceEvent, QuietPush
  <2>2. CASE UNCHANGED <<exch, chOrder, lost>>
    BY <2>2
  <2> QED
    BY <1>6, <2>1, <2>2
<1>9. chOrder' \subseteq EventType
  BY <1>8, <1>0, PlaceEvent
<1>10. TypeOK'
  BY <1>2, <1>3, <1>4, <1>5, <1>7, <1>8, <1>9 DEF IInv, TypeOK
<1>11. Fresh'
  <2>1. \A ev \in chOrder' : ev.id <= seqId'
    BY <1>1, <1>2, <1>8, PlaceEvent DEF IInv, Fresh
  <2>2. \A j \in Ids : j > seqId' => slice'[j].role = "none" /\ exch'[j].state = "absent"
    BY <1>0, <1>1, <1>2, <1>3, <1>7 DEF IInv, Fresh
  <2> QED
    BY <2>1, <2>2, <1>2 DEF IInv, Fresh
<1>12. Unsent'
  <2>1. \A j \in Ids : exch'[j].state = "absent" => exch'[j].acc = 0
    BY <1>7 DEF IInv, Unsent
  <2>2. \A j \in chOrderSlice' \ {NoSlice} : j \in Ids /\ exch'[j].state = "absent"
    BY <1>2, <1>7 DEF IInv, TypeOK, Unsent, Slots
  <2>3. start'.pc \in {"read", "write"} =>
           start'.new \in Ids \ chOrderSlice' /\ exch'[start'.new].state = "absent"
    BY <1>1, <1>2, <1>7 DEF IInv, Unsent
  <2> QED
    BY <2>1, <2>2, <2>3 DEF Unsent
<1>13. Quiet
  <2>1. \A ev \in chOrder' : ev \in chOrder \/ (ev.fill = 0 /\ ~IsFillState(ev.state))
    BY <1>8, PlaceEvent
  <2>2. \A j \in Ids : exch'[j].acc = exch[j].acc
    BY <1>1, <1>7
  <2>3. \A j \in Ids : j > seqId => slice'[j].role = "none"
    BY <1>3 DEF IInv, Fresh
  <2>4. UNCHANGED <<fills, repeated, lost>> /\ chOrder \subseteq chOrder'
    BY <1>2, <1>8
  <2>5. \A j \in Ids : IF j <= seqId THEN /\ slice'[j].role = slice[j].role
                                         /\ slice'[j].target = slice[j].target
                                         /\ slice'[j].from = slice[j].from
                       ELSE slice'[j].role = "none"
    BY <2>3, <1>3, Numbers
  <2> QED
    BY <2>1, <2>2, <2>4, <2>5 DEF Quiet
<1> QED
  BY <1>10, <1>11, <1>12, <1>13, QuietIInv

\* Cancelling working orders reports no execution.
LEMMA Cancels ==
  ASSUME IInv, NEW W \in SUBSET Ids, \A i \in W : exch[i].state \in Working,
         CancelOrders(W)
  PROVE  /\ exch' \in [Ids -> [state : OrderState \cup {"absent"}, acc : Nat]]
         /\ \A i \in Ids : /\ exch'[i].acc = exch[i].acc
                           /\ exch'[i].state = "absent" <=> exch[i].state = "absent"
         /\ chOrder \subseteq chOrder' /\ chOrder' \subseteq EventType /\ lost' = lost
         /\ \A ev \in chOrder' :
               ev \in chOrder \/ (ev.fill = 0 /\ ~IsFillState(ev.state) /\ ev.id <= seqId)
<1>0. /\ chOrder \subseteq EventType /\ lost \subseteq Fill
      /\ exch \in [Ids -> [state : OrderState \cup {"absent"}, acc : Nat]]
  BY DEF IInv, TypeOK
<1>1. exch' = [i \in Ids |-> IF i \in W THEN [exch[i] EXCEPT !.state = "canceled"] ELSE exch[i]]
  BY DEF CancelOrders
<1>2. exch' \in [Ids -> [state : OrderState \cup {"absent"}, acc : Nat]]
  BY <1>0, <1>1 DEF OrderState
<1>3. \A i \in Ids : /\ exch'[i].acc = exch[i].acc
                     /\ exch'[i].state = "absent" <=> exch[i].state = "absent"
  BY <1>0, <1>1 DEF Working
<1> DEFINE evs == {Event(i, "canceled", exch[i].acc, 0) : i \in W}
<1>4. \A i \in W : /\ Event(i, "canceled", exch[i].acc, 0) \in EventType
                   /\ Event(i, "canceled", exch[i].acc, 0).fill = 0
                   /\ ~IsFillState(Event(i, "canceled", exch[i].acc, 0).state)
                   /\ Event(i, "canceled", exch[i].acc, 0).id <= seqId
  <2> SUFFICES ASSUME NEW i \in W
               PROVE  /\ Event(i, "canceled", exch[i].acc, 0) \in EventType
                      /\ Event(i, "canceled", exch[i].acc, 0).fill = 0
                      /\ ~IsFillState(Event(i, "canceled", exch[i].acc, 0).state)
                      /\ Event(i, "canceled", exch[i].acc, 0).id <= seqId
    OBVIOUS
  <2>1. i \in Ids /\ exch[i].acc \in Nat
    BY <1>0
  <2>2. i <= seqId
    BY Numbers DEF Working
  <2> QED
    BY <2>1, <2>2 DEF Event, EventType, OrderState, IsFillState
<1>5. evs \in SUBSET EventType /\ \A ev \in evs : ev.fill = 0
  BY <1>4
<1>6. chOrder' \subseteq chOrder \cup evs /\ chOrder \subseteq chOrder' /\ lost' = lost
  <2>1. Push(evs)
    BY DEF CancelOrders
  <2> HIDE DEF evs
  <2> QED
    BY <1>0, <1>5, <2>1, QuietPush
<1>7. chOrder' \subseteq EventType
  BY <1>0, <1>5, <1>6
<1>8. \A ev \in evs : ev.fill = 0 /\ ~IsFillState(ev.state) /\ ev.id <= seqId
  BY <1>4
<1> HIDE DEF evs
<1> QED
  BY <1>2, <1>3, <1>6, <1>7, <1>8

\* A step that cancels working orders, or none, and creates no slice.
LEMMA CancelIInv ==
  ASSUME IInv, NEW W \in SUBSET Ids, \A i \in W : exch[i].state \in Working,
         CancelOrders(W), UNCHANGED <<sliceVars, start, task, sendErrors, fills, repeated, net>>,
         book' \in BookType, used' \in UsedType
  PROVE  IInv'
<1> USE DEF sliceVars
<1>1. TypeOK'
  BY Cancels DEF IInv, TypeOK
<1>2. Fresh'
  <2>1. \A ev \in chOrder' : ev.id <= seqId
    BY Cancels, Numbers
  <2>2. \A i \in Ids : i > seqId => exch'[i].state = "absent"
    BY Cancels, Numbers
  <2> QED
    BY <2>1, <2>2, Numbers DEF Fresh
<1>3. Unsent'
  <2>1. \A i \in Ids : exch'[i].state = "absent" => exch'[i].acc = 0
    BY Cancels DEF IInv, Unsent
  <2>2. chOrderSlice \subseteq Slots
    BY DEF IInv, TypeOK
  <2>3. \A i \in chOrderSlice' \ {NoSlice} : exch'[i].state = "absent"
    BY <2>2, Cancels DEF IInv, Unsent, Slots
  <2>4. start'.pc \in {"read", "write"} =>
           start'.new \in Ids \ chOrderSlice' /\ exch'[start'.new].state = "absent"
    BY Cancels DEF IInv, Unsent
  <2> QED
    BY <2>1, <2>3, <2>4 DEF Unsent
<1>4. Quiet
  <2>1. /\ \A i \in Ids : exch'[i].acc = exch[i].acc
        /\ \A ev \in chOrder' : ev \in chOrder \/ (ev.fill = 0 /\ ~IsFillState(ev.state))
        /\ chOrder \subseteq chOrder' /\ lost' = lost
    BY Cancels
  <2>2. \A i \in Ids : i > seqId => slice'[i].role = "none"
    BY Numbers
  <2>3. \A i \in Ids : IF i <= seqId THEN slice'[i] = slice[i] ELSE slice'[i].role = "none"
    BY <2>2, Numbers
  <2> QED
    BY <2>1, <2>3 DEF Quiet
<1> QED
  BY <1>1, <1>2, <1>3, <1>4, QuietIInv

LEMMA BookRetreats ==
  ASSUME IInv, NEW leg, NEW here, NEW next \in {"retreatSpot", "query"},
         BookRetreat(leg, here, next)
  PROVE  IInv'
<1>1. PICK pc \in {next, "query"} :
          /\ book' = [book EXCEPT !.pc = pc, !.todo = IF pc = "query" THEN orderSlices ELSE <<>>]
          /\ \/ pc = next /\ CancelOrders(WorkingOf(leg)) /\ UNCHANGED used
             \/ Fault /\ UNCHANGED <<exch, chOrder, lost>>
  BY DEF BookRetreat
<1>2. UNCHANGED <<sliceVars, start, task, sendErrors, fills, repeated, net>>
  BY DEF BookRetreat
<1>3. book' \in BookType
  <2>1. book \in BookType /\ orderSlices \in Seq(Slots) /\ <<>> \in Seq(Slots)
    BY SlotSeqs DEF IInv, TypeOK
  <2> QED
    BY <1>1, <2>1 DEF BookType
<1>4. CASE CancelOrders(WorkingOf(leg)) /\ UNCHANGED used
  <2>1. WorkingOf(leg) \in SUBSET Ids /\ \A i \in WorkingOf(leg) : exch[i].state \in Working
    BY DEF WorkingOf
  <2>2. used' \in UsedType
    BY <1>4 DEF IInv, TypeOK
  <2> QED
    BY <1>2, <1>3, <1>4, <2>1, <2>2, CancelIInv
<1>5. CASE Fault /\ UNCHANGED <<exch, chOrder, lost>>
  <2>1. used' \in UsedType
    BY <1>5, CountSteps
  <2> QED
    BY <1>2, <1>3, <1>5, <2>1, KeptIInv DEF IInv, TypeOK, Kept, sliceVars
<1> QED
  BY <1>1, <1>4, <1>5

\* nextOrder appends a slice of its own, or the nil slice.
LEMMA NextOrders ==
  ASSUME IInv, NEW i \in Ids, Swap(i), nextOrder(i)
  PROVE  /\ slice' \in [Ids -> SliceType] /\ orderSlices' \in Seq(Slots)
         /\ seqId' \in 0..MaxSlices /\ seqId <= seqId'
         /\ \A j \in Ids : IF j <= seqId THEN /\ slice'[j].role = slice[j].role
                                              /\ slice'[j].target = slice[j].target
                                              /\ slice'[j].from = slice[j].from
                           ELSE /\ slice'[j].role # "spot"
                                /\ slice'[j].role # "none" => slice'[j].target <= MaxSize
         /\ \A j \in Ids : j > seqId' => slice'[j].role = "none"
         /\ chOrderSlice' \subseteq chOrderSlice \cup {NoSlice}
                                     \cup {j \in Ids : seqId < j /\ j <= seqId'}
<1>0. /\ slice \in [Ids -> SliceType] /\ orderSlices \in Seq(Slots)
      /\ slice[i].target <= MaxSize
  BY DEF IInv, TypeOK, Counted
<1>1. i <= seqId
  BY Numbers DEF Swap
<1> DEFINE marked == [slice EXCEPT ![i].ignored = TRUE]
<1>2. marked \in [Ids -> SliceType]
  BY <1>0, SliceUpdates
<1>3. \A j \in Ids : /\ marked[j].role = slice[j].role
                     /\ marked[j].target = slice[j].target
                     /\ marked[j].from = slice[j].from
  BY <1>0 DEF SliceType
<1>4. CASE NothingLeft(i)
  <2>1. slice' = marked /\ seqId' = seqId /\ Enqueue(orderSlices, NoSlice)
    BY <1>4 DEF nextOrder
  <2>2. orderSlices' \in Seq(Slots) /\ chOrderSlice' = chOrderSlice \cup {NoSlice}
    BY <2>1, <1>0, SlotSeqs DEF Enqueue, Slots
  <2> HIDE DEF marked
  <2>3. \A j \in Ids : j > seqId => slice'[j].role = "none"
    BY <2>1, <1>3, Numbers
  <2> QED
    BY <2>1, <2>2, <2>3, <1>2, <1>3, Numbers
<1>5. CASE ~NothingLeft(i)
  <2> DEFINE new == NewSlice("next", slice[i].target - slice[i].present, FALSE, NoFill)
  <2>1. /\ slice' = [marked EXCEPT ![seqId + 1] = new]
        /\ seqId < MaxSlices /\ seqId' = seqId + 1 /\ Enqueue(orderSlices, seqId + 1)
    BY <1>5 DEF nextOrder
  <2>2. slice[i].target \in Nat /\ slice[i].present \in Nat
    BY <1>0 DEF SliceType
  <2>3. /\ slice[i].target - slice[i].present \in Nat
        /\ slice[i].target - slice[i].present <= MaxSize
    BY <2>2, <1>0, <1>5, SizesAssumption DEF NothingLeft
  <2>4. new \in SliceType /\ new.role = "next" /\ new.target <= MaxSize
    BY <2>3 DEF NewSlice, SliceType, NoFill, Slots, NoSlice
  <2>5. seqId + 1 \in Ids
    BY <2>1, Numbers DEF Ids
  <2> HIDE DEF new, marked
  <2>6. orderSlices' \in Seq(Slots) /\ chOrderSlice' = chOrderSlice \cup {seqId + 1}
    BY <2>1, <2>5, <1>0, SlotSeqs DEF Enqueue, Slots
  <2>7. /\ slice' \in [Ids -> SliceType] /\ slice'[seqId + 1] = new
        /\ \A j \in Ids : j # seqId + 1 => slice'[j] = marked[j]
    BY <2>1, <2>4, <2>5, <1>2
  <2>8. \A j \in Ids : j > seqId + 1 => slice'[j].role = "none"
    BY <2>7, <1>3, Numbers
  <2>9. \A j \in Ids : j <= seqId => slice'[j] = marked[j]
    BY <2>7, Numbers
  <2>10. \A j \in Ids : j > seqId => slice'[j] = new \/ slice'[j].role = "none"
    BY <2>7, <2>8, Numbers
  <2>11. chOrderSlice' \subseteq chOrderSlice \cup {j \in Ids : seqId < j /\ j <= seqId'}
    BY <2>1, <2>5, <2>6, Numbers
  <2>12. seqId' \in 0..MaxSlices /\ seqId <= seqId'
    BY <2>1, Numbers
  <2>13. \A j \in Ids : IF j <= seqId THEN /\ slice'[j].role = slice[j].role
                                          /\ slice'[j].target = slice[j].target
                                          /\ slice'[j].from = slice[j].from
                        ELSE /\ slice'[j].role # "spot"
                             /\ slice'[j].role # "none" => slice'[j].target <= MaxSize
    BY <2>4, <2>9, <2>10, <1>3, Numbers
  <2> QED
    BY <2>1, <2>6, <2>7, <2>8, <2>11, <2>12, <2>13
<1> QED
  BY <1>4, <1>5

\* The repricing loop runs over slices that exist.
Looping == book.pc = "reprice" => \A k \in DOMAIN book.todo : book.todo[k] \in Ids

LEMMA BookReprices ==
  ASSUME IInv, Looping, BookReprice
  PROVE  IInv'
<1>1. PICK k \in DOMAIN book.todo :
          /\ CanReprice(book.todo[k]) /\ RetreatOrder(book.todo[k]) /\ nextOrder(book.todo[k])
          /\ book' = [book EXCEPT !.todo = SubSeq(@, k + 1, Len(@))]
  BY DEF BookReprice
<1> DEFINE i == book.todo[k]
<1>2. i \in Ids /\ Swap(i)
  BY <1>1 DEF BookReprice, Looping, CanReprice
<1>3. UNCHANGED <<task, start, sendErrors, fills, repeated, net>>
  BY DEF BookReprice
<1>4. book' \in BookType
  <2>1. book \in BookType /\ book.todo \in Seq(Slots) /\ k \in 1..Len(book.todo)
    BY DEF IInv, TypeOK, BookType
  <2>2. SubSeq(book.todo, k + 1, Len(book.todo)) \in Seq(Slots)
    BY <2>1
  <2> QED
    BY <1>1, <2>1, <2>2 DEF BookType
<1>5. used' \in UsedType
  <2>1. used \in UsedType
    BY DEF IInv, TypeOK
  <2>2. \/ used' = [used EXCEPT !.reprices = @ + 1]
        \/ used' = [used EXCEPT !.reprices = @ + 1, !.faults = @ + 1]
    BY <1>1 DEF RetreatOrder
  <2> QED
    BY <2>1, <2>2, Counts
<1>6. /\ exch' \in [Ids -> [state : OrderState \cup {"absent"}, acc : Nat]]
      /\ \A j \in Ids : /\ exch'[j].acc = exch[j].acc
                        /\ exch'[j].state = "absent" <=> exch[j].state = "absent"
      /\ chOrder \subseteq chOrder' /\ chOrder' \subseteq EventType /\ lost' = lost
      /\ \A ev \in chOrder' :
            ev \in chOrder \/ (ev.fill = 0 /\ ~IsFillState(ev.state) /\ ev.id <= seqId)
  <2>1. CASE UNCHANGED <<exch, chOrder, lost>>
    BY <2>1 DEF IInv, TypeOK
  <2>2. CASE CancelOrders({i} \cap WorkingOf(SwapLeg))
    <3> DEFINE W == {i} \cap WorkingOf(SwapLeg)
    <3>1. W \in SUBSET Ids /\ \A j \in W : exch[j].state \in Working
      BY DEF WorkingOf
    <3> HIDE DEF W
    <3>2. CancelOrders(W)
      BY <2>2 DEF W
    <3> QED
      BY <3>1, <3>2, Cancels
  <2> QED
    BY <1>1, <2>1, <2>2 DEF RetreatOrder
<1>7. nextOrder(i)
  BY <1>1
<1> HIDE DEF i
<1>8. TypeOK'
  <2>1. chOrderSlice' \subseteq Slots
    BY <1>2, <1>7, NextOrders DEF IInv, TypeOK, Slots
  <2> QED
    BY <1>2, <1>3, <1>4, <1>5, <1>6, <1>7, <2>1, NextOrders DEF IInv, TypeOK
<1>9. seqId' \in Nat /\ seqId <= seqId'
  BY <1>2, <1>7, NextOrders, Numbers
<1>10. Fresh'
  <2>1. \A j \in Ids : j > seqId' => slice'[j].role = "none" /\ exch'[j].state = "absent"
    BY <1>2, <1>6, <1>7, <1>9, NextOrders, Numbers
  <2>2. \A ev \in chOrder' : ev.id <= seqId'
    <3>1. \A ev \in chOrder' : ev.id <= seqId /\ ev.id \in Nat
      BY <1>6, Numbers DEF EventType
    <3> QED
      BY <3>1, <1>9, Numbers
  <2>3. chOrderSlice' \subseteq 0..seqId'
    BY <1>2, <1>7, <1>9, NextOrders, Numbers DEF NoSlice
  <2>4. start'.new \in 0..seqId'
    BY <1>3, <1>9, Numbers
  <2> QED
    BY <2>1, <2>2, <2>3, <2>4 DEF Fresh
<1>11. Unsent'
  <2>0. \A j \in chOrderSlice' : j \in chOrderSlice \/ j = NoSlice \/ (j \in Ids /\ seqId < j)
    BY <1>2, <1>7, NextOrders
  <2>1. \A j \in Ids : exch'[j].state = "absent" => exch'[j].acc = 0
    BY <1>6 DEF IInv, Unsent
  <2>2. \A j \in chOrderSlice' \ {NoSlice} : exch'[j].state = "absent"
    <3>1. \A j \in chOrderSlice' \ {NoSlice} : exch[j].state = "absent" /\ j \in Ids
      BY <2>0, Numbers DEF IInv, TypeOK, Unsent, Slots
    <3> QED
      BY <3>1, <1>6
  <2>3. start'.pc \in {"read", "write"} =>
           start'.new \in Ids \ chOrderSlice' /\ exch'[start'.new].state = "absent"
    BY <2>0, <1>3, <1>6, Numbers DEF IInv, Unsent, Ids, NoSlice
  <2> QED
    BY <2>1, <2>2, <2>3 DEF Unsent
<1>12. Quiet
  <2>1. \A j \in Ids : IF j <= seqId THEN /\ slice'[j].role = slice[j].role
                                          /\ slice'[j].target = slice[j].target
                                          /\ slice'[j].from = slice[j].from
                       ELSE /\ slice'[j].role # "spot"
                            /\ slice'[j].role # "none" => slice'[j].target <= MaxSize
    BY <1>2, <1>7, NextOrders
  <2> QED
    BY <2>1, <1>3, <1>6 DEF Quiet
<1> QED
  BY <1>8, <1>10, <1>11, <1>12, QuietIInv

-----------------------------------------------------------------------------
(* Executions and their reports *)

\* A slice other than a swap slice is executed.
LEMMA SpotExecuted ==
  ASSUME IInv, NEW i \in Ids, ExecuteSpot(i)
  PROVE  IInv'
<1> DEFINE ev == Event(i, "filled", slice[i].target, slice[i].target)
<1>1. /\ Spot(i) /\ exch[i].state \in Working /\ Push({ev})
      /\ exch' = [exch EXCEPT ![i] = [state |-> "filled", acc |-> slice[i].target]]
      /\ UNCHANGED <<sliceVars, task, start, book, sendErrors, fills, repeated, net, used>>
  BY DEF ExecuteSpot
<1>2. /\ exch \in [Ids -> [state : OrderState \cup {"absent"}, acc : Nat]]
      /\ slice[i].target \in Nat /\ chOrder \subseteq EventType
  BY DEF IInv, TypeOK, SliceType
<1>3. ev \in EventType /\ ev.id = i
  BY <1>2 DEF Event, EventType, OrderState
<1>4. chOrder \subseteq chOrder' /\ chOrder' \subseteq chOrder \cup {ev} /\ lost' = lost
  <2>1. SwapFills({ev}) = {}
    BY <1>1, <1>3 DEF SwapFills, Spot, Swap
  <2> HIDE DEF ev
  <2>2. lost \cup {} = lost
    OBVIOUS
  <2> QED
    BY <1>1, <2>1, <2>2 DEF Push
<1>5. /\ exch' \in [Ids -> [state : OrderState \cup {"absent"}, acc : Nat]]
      /\ \A j \in Ids : j # i => exch'[j] = exch[j]
      /\ exch'[i].state = "filled"
  BY <1>1, <1>2 DEF OrderState
<1>6. exch[i].state # "absent" /\ i <= seqId
  BY <1>1, Numbers DEF Working
<1> HIDE DEF ev
<1>7. TypeOK'
  BY <1>1, <1>2, <1>3, <1>4, <1>5 DEF IInv, TypeOK, sliceVars
<1>8. Fresh'
  <2>1. \A e \in chOrder' : e.id <= seqId
    BY <1>3, <1>4, <1>6, Numbers
  <2>2. \A j \in Ids : j > seqId => slice[j].role = "none" /\ exch'[j].state = "absent"
    BY <1>5, <1>6, Numbers
  <2> QED
    BY <1>1, <2>1, <2>2, Numbers DEF Fresh, sliceVars
<1>9. Unsent'
  <2>1. \A j \in Ids : exch'[j].state = "absent" => exch'[j].acc = 0
    BY <1>5 DEF IInv, Unsent
  <2>2. \A j \in chOrderSlice \ {NoSlice} : exch'[j].state = "absent"
    BY <1>5, <1>6 DEF IInv, TypeOK, Unsent, Slots
  <2>3. start.pc \in {"read", "write"} =>
           start.new \in Ids \ chOrderSlice /\ exch'[start.new].state = "absent"
    BY <1>5, <1>6 DEF IInv, Unsent
  <2> QED
    BY <1>1, <2>1, <2>2, <2>3 DEF Unsent, sliceVars
<1>10. Quiet
  <2>1. slice' = slice /\ fills' = fills /\ repeated' = repeated
    BY <1>1 DEF sliceVars
  <2>2. \A j \in Ids : Swap(j) => exch'[j].acc = exch[j].acc
    BY <1>1, <1>5 DEF Spot, Swap
  <2>3. \A e \in chOrder' : e \in chOrder \/ slice'[e.id].role = "spot"
    BY <1>1, <1>3, <1>4, <2>1 DEF Spot
  <2>4. \A j \in Ids : IF j <= seqId THEN slice'[j] = slice[j] ELSE slice'[j].role = "none"
    BY <2>1, Numbers
  <2> QED
    BY <1>4, <2>1, <2>2, <2>3, <2>4 DEF Quiet
<1> QED
  BY <1>7, <1>8, <1>9, <1>10, QuietIInv

\* A swap execution is new, and under way or lost.
LEMMA SwapExecuted ==
  ASSUME IInv, NEW i \in Ids, NEW q \in 1..slice[i].target, ExecuteSwap(i, q)
  PROVE  IInv'
<1> DEFINE acc   == exch[i].acc + q
           state == IF acc = slice[i].target THEN "filled" ELSE "partially_filled"
           ev    == Event(i, state, acc, q)
           f     == <<i, acc>>
<1>1. /\ Swap(i) /\ exch[i].state \in Working /\ acc <= slice[i].target
      /\ used' = [used EXCEPT !.fills = @ + 1]
      /\ exch' = [exch EXCEPT ![i] = [state |-> state, acc |-> acc]]
      /\ fills' = fills \cup {f} /\ Push({ev})
      /\ UNCHANGED <<sliceVars, task, start, book, sendErrors, repeated, net>>
  BY DEF ExecuteSwap
<1>2. /\ exch \in [Ids -> [state : OrderState \cup {"absent"}, acc : Nat]]
      /\ exch[i].acc \in Nat /\ slice[i].target \in Nat /\ slice[i].target <= MaxSize
      /\ chOrder \subseteq EventType /\ fills \subseteq Fill /\ lost \subseteq Fill
      /\ MaxSize \in Nat
  BY <1>1, SizesAssumption DEF IInv, TypeOK, SliceType, Counted
<1>3. q \in Nat /\ q > 0 /\ acc \in 1..MaxSize /\ acc > exch[i].acc
  BY <1>1, <1>2
<1>4. state \in OrderState /\ IsFillState(state) /\ state # "absent"
  BY DEF OrderState, IsFillState
<1> HIDE DEF state, acc
<1>5. ev \in EventType /\ ev.id = i /\ ev.fill > 0 /\ ev.acc = acc /\ IsFillState(ev.state)
  BY <1>3, <1>4 DEF Event, EventType
<1>6. f \in Fill /\ f \notin fills
  <2>1. \A g \in fills : g[2] <= exch[g[1]].acc
    BY DEF IInv, Counted
  <2> QED
    BY <1>2, <1>3, <2>1 DEF Fill
<1>7. SwapFills({ev}) = {f}
  BY <1>1, <1>5 DEF SwapFills
<1> HIDE DEF ev, f
<1>8. exch[i].state # "absent" /\ i <= seqId
  BY <1>1, Numbers DEF Working
<1>9. /\ exch' \in [Ids -> [state : OrderState \cup {"absent"}, acc : Nat]]
      /\ \A j \in Ids : j # i => exch'[j] = exch[j]
      /\ exch'[i].state = state /\ exch'[i].acc = acc
  <2>1. [state |-> state, acc |-> acc] \in [state : OrderState \cup {"absent"}, acc : Nat]
    BY <1>3, <1>4
  <2> QED
    BY <1>1, <1>2, <2>1
<1>10. \/ chOrder' = chOrder \cup {ev} /\ lost' = lost
       \/ chOrder' = chOrder /\ lost' = lost \cup {f}
  BY <1>1, <1>7 DEF Push
<1>11. UNCHANGED sliceVars /\ slice' = slice /\ seqId' = seqId /\ chOrderSlice' = chOrderSlice
       /\ start' = start
  BY <1>1 DEF sliceVars
<1>12. used' \in UsedType
  <2>1. used \in UsedType
    BY DEF IInv, TypeOK
  <2> QED
    BY <1>1, <2>1 DEF UsedType
<1>13. TypeOK'
  <2>1. chOrder' \subseteq EventType /\ lost' \subseteq Fill /\ fills' \subseteq Fill
    BY <1>1, <1>2, <1>5, <1>6, <1>10
  <2> QED
    BY <1>1, <1>9, <1>12, <2>1 DEF IInv, TypeOK, sliceVars
<1>14. Fresh'
  <2>1. \A e \in chOrder' : e.id <= seqId
    BY <1>5, <1>8, <1>10, Numbers
  <2>2. \A j \in Ids : j > seqId => slice[j].role = "none" /\ exch'[j].state = "absent"
    BY <1>8, <1>9, Numbers
  <2> QED
    BY <1>11, <2>1, <2>2, Numbers DEF Fresh
<1>15. Unsent'
  <2>1. \A j \in Ids : exch'[j].state = "absent" => exch'[j].acc = 0
    BY <1>4, <1>9 DEF IInv, Unsent
  <2>2. \A j \in chOrderSlice \ {NoSlice} : exch'[j].state = "absent"
    BY <1>8, <1>9 DEF IInv, TypeOK, Unsent, Slots
  <2>3. start.pc \in {"read", "write"} =>
           start.new \in Ids \ chOrderSlice /\ exch'[start.new].state = "absent"
    BY <1>8, <1>9 DEF IInv, Unsent
  <2> QED
    BY <1>11, <2>1, <2>2, <2>3 DEF Unsent
<1>16. Counted'
  <2>1. \A g \in fills : Swap(g[1]) /\ g[2] <= exch'[g[1]].acc
    <3> SUFFICES ASSUME NEW g \in fills PROVE Swap(g[1]) /\ g[2] <= exch'[g[1]].acc
      OBVIOUS
    <3>1. g[1] \in Ids /\ g[2] \in Nat /\ Swap(g[1]) /\ g[2] <= exch[g[1]].acc
      BY <1>2 DEF IInv, Counted, Fill
    <3> QED
      BY <3>1, <1>2, <1>3, <1>9
  <2>2. Swap(f[1]) /\ f[2] <= exch'[f[1]].acc
    BY <1>1, <1>3, <1>9 DEF f
  <2> QED
    BY <1>1, <1>11, <2>1, <2>2 DEF IInv, Counted, Swap
<1>17. f \notin InFlight
  BY <1>6 DEF IInv, Sorted
<1>18. \A e \in chOrder : ~(Swap(e.id) /\ e.fill > 0 /\ e.id = i /\ e.acc = acc)
  BY <1>17 DEF InFlight, SwapFills, f
<1>19. Reports'
  <2>1. \A e \in chOrder' : Swap(e.id) => (IsFillState(e.state) <=> e.fill > 0)
    BY <1>5, <1>10 DEF IInv, Reports
  <2>2. \A e, d \in chOrder' :
           /\ Swap(e.id) /\ e.fill > 0 /\ d.fill > 0
           /\ e.id = d.id /\ e.acc = d.acc
           => e = d
    BY <1>5, <1>10, <1>18 DEF IInv, Reports
  <2> QED
    BY <1>11, <2>1, <2>2 DEF Reports, Swap
<1>20. Hedged' = Hedged
  BY <1>11 DEF Hedged, Spot
<1>21. InFlight' = IF lost' = lost /\ chOrder' = chOrder \cup {ev} THEN InFlight \cup {f} ELSE InFlight
  <2>1. InFlight' = {<<e.id, e.acc>> : e \in {x \in chOrder' : x.fill > 0 /\ Swap(x.id)}}
    BY <1>11 DEF InFlight, SwapFills, Swap
  <2>2. CASE chOrder' = chOrder \cup {ev} /\ lost' = lost
    <3>1. {x \in chOrder' : x.fill > 0 /\ Swap(x.id)}
             = {x \in chOrder : x.fill > 0 /\ Swap(x.id)} \cup {ev}
      BY <2>2, <1>1, <1>5
    <3>2. <<ev.id, ev.acc>> = f
      BY <1>5 DEF f
    <3> QED
      BY <2>1, <2>2, <3>1, <3>2 DEF InFlight, SwapFills
  <2>3. CASE chOrder' = chOrder /\ lost' = lost \cup {f}
    <3>1. lost' # lost
      BY <2>3, <1>6 DEF IInv, Sorted
    <3> QED
      BY <2>1, <2>3, <3>1 DEF InFlight, SwapFills
  <2> QED
    BY <1>10, <2>2, <2>3
<1>22. Sorted'
  <2>1. /\ fills = InFlight \cup Hedged \cup lost
        /\ lost \cap (InFlight \cup Hedged) = {} /\ InFlight \cap Hedged \subseteq repeated
    BY DEF IInv, Sorted
  <2>2. /\ fills' = InFlight' \cup Hedged' \cup lost'
        /\ lost' \cap (InFlight' \cup Hedged') = {} /\ InFlight' \cap Hedged' \subseteq repeated'
    <3>1. CASE chOrder' = chOrder \cup {ev} /\ lost' = lost
      BY <3>1, <2>1, <1>1, <1>6, <1>20, <1>21
    <3>2. CASE chOrder' = chOrder /\ lost' = lost \cup {f}
      <4>1. lost' # lost
        BY <3>2, <2>1, <1>6
      <4> QED
        BY <3>2, <4>1, <2>1, <1>1, <1>6, <1>20, <1>21
    <3> QED
      BY <1>10, <3>1, <3>2
  <2>3. \A j, k \in Ids : Spot(j)' /\ Spot(k)' /\ j # k /\ slice'[j].from = slice'[k].from
                            => slice'[j].from \in repeated'
    BY <1>1, <1>11 DEF IInv, Sorted, Spot
  <2> QED
    BY <2>2, <2>3 DEF Sorted
<1> QED
  BY <1>13, <1>14, <1>15, <1>16, <1>19, <1>22 DEF IInv

\* An event is taken: the others stay, and what it names is among the repeated
\* executions when it stays as well.
LEMMA Taken ==
  ASSUME IInv, NEW ev \in chOrder, Take(ev)
  PROVE  /\ used' \in UsedType /\ chOrder' \subseteq chOrder
         /\ repeated \subseteq repeated' /\ repeated' \subseteq Fill
         /\ ~(Swap(ev.id) /\ ev.fill > 0) => repeated' = repeated
         /\ \A e \in chOrder : e # ev => e \in chOrder'
<1>1. used \in UsedType /\ repeated \subseteq Fill /\ fills \subseteq Fill
  BY DEF IInv, TypeOK
<1>2. used' \in UsedType
  BY <1>1 DEF Take, UsedType
<1>3. SwapFills({ev}) \subseteq Fill
  <2>1. SwapFills({ev}) \subseteq InFlight
    BY DEF SwapFills, InFlight
  <2> QED
    BY <1>1, <2>1 DEF IInv, Sorted
<1>4. ~(Swap(ev.id) /\ ev.fill > 0) => SwapFills({ev}) = {}
  BY DEF SwapFills
<1>5. repeated \cup {} = repeated
  OBVIOUS
<1>6. repeated' = repeated \/ repeated' = repeated \cup SwapFills({ev})
  BY DEF Take
<1>7. repeated \subseteq repeated' /\ repeated' \subseteq Fill
  BY <1>1, <1>3, <1>6
<1>8. ~(Swap(ev.id) /\ ev.fill > 0) => repeated' = repeated
  BY <1>4, <1>5, <1>6
<1>9. chOrder' \subseteq chOrder /\ \A e \in chOrder : e # ev => e \in chOrder'
  BY DEF Take
<1> QED
  BY <1>2, <1>7, <1>8, <1>9

\* The report of a swap execution is taken: the other executions stay in flight,
\* and this one does if the report stays.
LEMMA ReportTaken ==
  ASSUME IInv, NEW ev \in chOrder, Take(ev), Swap(ev.id), ev.fill > 0,
         \A i \in Ids : i <= seqId => (Swap(i)' <=> Swap(i))
  PROVE  /\ <<ev.id, ev.acc>> \in InFlight
         /\ \/ /\ InFlight' = InFlight \ {<<ev.id, ev.acc>>} /\ repeated' = repeated
               /\ chOrder' = chOrder \ {ev}
            \/ /\ InFlight' = InFlight /\ repeated' = repeated \cup {<<ev.id, ev.acc>>}
               /\ chOrder' = chOrder
<1>1. <<ev.id, ev.acc>> \in InFlight
  BY DEF InFlight, SwapFills
<1>2. \A e \in chOrder : Swap(e.id)' <=> Swap(e.id)
  BY Numbers
<1>3. CASE chOrder' = chOrder \ {ev} /\ repeated' = repeated
  <2>1. \A e \in chOrder' :
           e.fill > 0 /\ Swap(e.id)' => <<e.id, e.acc>> \in InFlight \ {<<ev.id, ev.acc>>}
    BY <1>2, <1>3 DEF IInv, Reports, InFlight, SwapFills
  <2>2. \A e \in chOrder : e.fill > 0 /\ Swap(e.id) /\ <<e.id, e.acc>> # <<ev.id, ev.acc>>
                              => <<e.id, e.acc>> \in InFlight'
    BY <1>2, <1>3 DEF InFlight, SwapFills
  <2>3. InFlight' \subseteq InFlight \ {<<ev.id, ev.acc>>}
    BY <2>1 DEF InFlight, SwapFills
  <2>4. InFlight \ {<<ev.id, ev.acc>>} \subseteq InFlight'
    BY <2>2 DEF InFlight, SwapFills
  <2> QED
    BY <1>1, <1>3, <2>3, <2>4
<1>4. CASE chOrder' = chOrder /\ repeated' = repeated \cup SwapFills({ev})
  <2>1. SwapFills({ev}) = {<<ev.id, ev.acc>>}
    BY DEF SwapFills
  <2>2. \A e \in chOrder' : e.fill > 0 /\ Swap(e.id)' => <<e.id, e.acc>> \in InFlight
    BY <1>2, <1>4 DEF InFlight, SwapFills
  <2>3. \A e \in chOrder : e.fill > 0 /\ Swap(e.id) => <<e.id, e.acc>> \in InFlight'
    BY <1>2, <1>4 DEF InFlight, SwapFills
  <2>4. InFlight' \subseteq InFlight
    BY <2>2 DEF InFlight, SwapFills
  <2>5. InFlight \subseteq InFlight'
    BY <2>3 DEF InFlight, SwapFills
  <2> QED
    BY <1>1, <1>4, <2>1, <2>4, <2>5
<1> QED
  BY <1>3, <1>4 DEF Take

\* A report for an order that is not tracked: a swap execution that has no answer,
\* and of which no other report is on its way, is lost with it.
LEMMA ReportUntracked ==
  ASSUME IInv, NEW ev \in chOrder, Take(ev),
         lost' = IF ev \in chOrder' THEN lost ELSE lost \cup (SwapFills({ev}) \ Hedged),
         UNCHANGED <<sliceVars, task, start, book, exch, sendErrors, fills, net>>
  PROVE  IInv'
<1>0. /\ slice' = slice /\ seqId' = seqId /\ chOrderSlice' = chOrderSlice /\ orderSlices' = orderSlices
      /\ start' = start /\ exch' = exch /\ fills' = fills
  BY DEF sliceVars
<1>1. \A i \in Ids : Swap(i)' = Swap(i) /\ Spot(i)' = Spot(i)
  BY <1>0 DEF Swap, Spot
<1>2. chOrder' \subseteq chOrder /\ used' \in UsedType /\ repeated' \subseteq Fill
  BY Taken
<1>3. Fresh' /\ Unsent'
  BY <1>0, <1>2 DEF IInv, Fresh, Unsent
<1>4. CASE Swap(ev.id) /\ ev.fill > 0
  <2> DEFINE f == <<ev.id, ev.acc>>
  <2>1. SwapFills({ev}) = {f}
    BY <1>4 DEF SwapFills
  <2>2. /\ f \in InFlight
        /\ \/ InFlight' = InFlight \ {f} /\ repeated' = repeated /\ ev \notin chOrder'
           \/ InFlight' = InFlight /\ repeated' = repeated \cup {f} /\ ev \in chOrder'
    BY <1>1, <1>4, ReportTaken
  <2> HIDE DEF f
  <2>3. f \in fills /\ f \in Fill
    BY <2>2 DEF IInv, TypeOK, Sorted
  <2>4. TypeOK'
    BY <1>0, <1>2, <2>1, <2>3 DEF IInv, TypeOK
  <2>5. Counted'
    BY <1>0 DEF IInv, Counted, Swap
  <2>6. Reports'
    BY <1>0, <1>2 DEF IInv, Reports, Swap
  <2>7. Hedged' = Hedged
    BY <1>0 DEF Hedged, Spot
  <2>8. Sorted'
    <3>1. /\ fills = InFlight \cup Hedged \cup lost
          /\ lost \cap (InFlight \cup Hedged) = {} /\ InFlight \cap Hedged \subseteq repeated
      BY DEF IInv, Sorted
    <3>2. CASE InFlight' = InFlight \ {f} /\ repeated' = repeated /\ ev \notin chOrder'
      <4>1. lost' = lost \cup ({f} \ Hedged)
        BY <2>1, <3>2
      <4> QED
        BY <1>0, <1>1, <2>2, <2>7, <3>1, <3>2, <4>1 DEF IInv, Sorted
    <3>3. CASE InFlight' = InFlight /\ repeated' = repeated \cup {f} /\ ev \in chOrder'
      BY <1>0, <1>1, <2>7, <3>1, <3>3 DEF IInv, Sorted
    <3> QED
      BY <2>2, <3>2, <3>3
  <2> QED
    BY <1>3, <2>4, <2>5, <2>6, <2>8 DEF IInv
<1>5. CASE ~(Swap(ev.id) /\ ev.fill > 0)
  <2>1. lost' = lost /\ repeated' = repeated
    <3>1. SwapFills({ev}) = {}
      BY <1>5 DEF SwapFills
    <3>2. lost \cup ({} \ Hedged) = lost
      OBVIOUS
    <3> QED
      BY <1>5, <3>1, <3>2, Taken
  <2>2. TypeOK'
    BY <1>0, <1>2, <2>1 DEF IInv, TypeOK
  <2>3. \A i \in Ids : IF i <= seqId THEN slice'[i] = slice[i] ELSE slice'[i].role = "none"
    BY <1>0, Numbers
  <2>4. Quiet
    BY <1>0, <1>2, <1>5, <2>1, <2>3, Taken DEF Quiet
  <2> QED
    BY <1>3, <2>2, <2>4, QuietIInv
<1> QED
  BY <1>4, <1>5

\* A report that is no swap execution updates the last known state only.
LEMMA ReportNoted ==
  ASSUME IInv, NEW ev \in chOrder, Take(ev),
         ~(Swap(ev.id) /\ IsFillState(ev.state)),
         slice' = [slice EXCEPT ![ev.id].latest = ev.state], task' \in TaskType,
         UNCHANGED <<seqId, orderSlices, chOrderSlice, lost>>,
         UNCHANGED <<start, book, exch, sendErrors, fills, net>>
  PROVE  IInv'
<1>0. slice \in [Ids -> SliceType] /\ ev.id \in Ids /\ ev.state \in OrderState
  BY DEF IInv, TypeOK, EventType
<1>1. slice' \in [Ids -> SliceType]
  BY <1>0, SliceUpdates
<1>2. \A j \in Ids : /\ slice'[j].role = slice[j].role
                     /\ slice'[j].target = slice[j].target
                     /\ slice'[j].from = slice[j].from
  BY <1>0 DEF SliceType
<1>3. ~(Swap(ev.id) /\ ev.fill > 0)
  BY DEF IInv, Reports
<1>4. chOrder' \subseteq chOrder /\ used' \in UsedType /\ repeated' = repeated
  BY <1>3, Taken
<1>5. TypeOK'
  BY <1>1, <1>4 DEF IInv, TypeOK
<1>6. Fresh'
  BY <1>2, <1>4 DEF IInv, Fresh
<1>7. Unsent'
  BY DEF IInv, Unsent
<1>8. Quiet
  <2>1. \A j \in Ids : j > seqId => slice'[j].role = "none"
    BY <1>2, Numbers
  <2>2. \A j \in Ids : IF j <= seqId THEN /\ slice'[j].role = slice[j].role
                                         /\ slice'[j].target = slice[j].target
                                         /\ slice'[j].from = slice[j].from
                       ELSE slice'[j].role = "none"
    BY <1>2, <2>1, Numbers
  <2>3. \A e \in chOrder : e.fill > 0 /\ Swap(e.id) => e \in chOrder'
    BY <1>3, Taken
  <2> QED
    BY <1>4, <2>2, <2>3 DEF Quiet
<1> QED
  BY <1>5, <1>6, <1>7, <1>8, QuietIInv

\* What SwapReturn does to the slices: it creates a spot slice, and changes
\* neither role, target nor origin of any other.
LEMMA SwapReturns ==
  ASSUME IInv, NEW ev \in chOrder, SwapReturn(ev), orderSlices[1] \in Ids
  PROVE  /\ seqId + 1 \in Ids /\ seqId' = seqId + 1 /\ task' = task
         /\ slice' \in [Ids -> SliceType] /\ orderSlices' \in Seq(Slots)
         /\ chOrderSlice' = chOrderSlice \cup {seqId + 1}
         /\ slice'[seqId + 1].role = "spot" /\ slice'[seqId + 1].from = <<ev.id, ev.acc>>
         /\ \A j \in Ids : j <= seqId => /\ slice'[j].role = slice[j].role
                                         /\ slice'[j].target = slice[j].target
                                         /\ slice'[j].from = slice[j].from
         /\ \A j \in Ids : j > seqId + 1 => slice'[j].role = "none"
<1> DEFINE first    == orderSlices[1]
           reported == [slice EXCEPT ![ev.id].latest = ev.state, ![ev.id].present = ev.acc]
           credited == IF first = ev.id THEN reported
                       ELSE [reported EXCEPT ![first].present = @ + Credit(ev)]
           isLast   == credited[first].present = credited[first].target
           f        == <<ev.id, ev.acc>>
           new      == NewSlice("spot", SpotTarget(ev), isLast, f)
<1>0. /\ slice \in [Ids -> SliceType] /\ orderSlices \in Seq(Slots)
      /\ ev \in EventType /\ ev.id \in Ids /\ ev.state \in OrderState
      /\ ev.acc \in Nat /\ ev.fill \in Nat
  BY DEF IInv, TypeOK, EventType
<1>1. /\ seqId < MaxSlices /\ seqId' = seqId + 1 /\ task' = task
      /\ slice' = [credited EXCEPT ![seqId + 1] = new]
      /\ Enqueue(orderSlices, seqId + 1)
  BY DEF SwapReturn
<1>2. seqId + 1 \in Ids /\ ev.id <= seqId /\ seqId \in Nat
  BY <1>1, Numbers DEF Ids
<1>3. reported \in [Ids -> SliceType]
  <2> DEFINE half == [slice EXCEPT ![ev.id].latest = ev.state]
  <2>1. half \in [Ids -> SliceType]
    BY <1>0, SliceUpdates
  <2>2. reported = [half EXCEPT ![ev.id].present = ev.acc]
    BY <1>0
  <2> HIDE DEF half
  <2> QED
    BY <1>0, <2>1, <2>2, SliceUpdates
<1>4. \A j \in Ids : /\ reported[j].role = slice[j].role
                     /\ reported[j].target = slice[j].target
                     /\ reported[j].from = slice[j].from
  BY <1>0 DEF SliceType
<1> HIDE DEF reported
<1>5. credited \in [Ids -> SliceType]
  <2>0. reported[first] \in SliceType
    BY <1>3
  <2>1. reported[first].present + Credit(ev) \in Nat
    BY <1>0, <2>0 DEF Credit, SliceType
  <2>2. [reported EXCEPT ![first].present = @ + Credit(ev)] \in [Ids -> SliceType]
    BY <2>1, <1>3, SliceUpdates
  <2> QED
    BY <2>2, <1>3
<1>6. \A j \in Ids : /\ credited[j].role = slice[j].role
                     /\ credited[j].target = slice[j].target
                     /\ credited[j].from = slice[j].from
  <2>1. \A j \in Ids : /\ credited[j].role = reported[j].role
                       /\ credited[j].target = reported[j].target
                       /\ credited[j].from = reported[j].from
    BY <1>3 DEF SliceType
  <2> QED
    BY <1>4, <2>1
<1> HIDE DEF credited
<1>7. new \in SliceType /\ new.role = "spot" /\ new.from = f
  <2>1. SpotTarget(ev) \in Nat /\ isLast \in BOOLEAN
    BY <1>0, SpotTargetType
  <2> HIDE DEF isLast
  <2> QED
    BY <1>0, <2>1 DEF NewSlice, SliceType, Slots
<1> HIDE DEF new
<1>8. /\ slice' \in [Ids -> SliceType] /\ slice'[seqId + 1] = new
      /\ \A j \in Ids : j # seqId + 1 => slice'[j] = credited[j]
  BY <1>1, <1>2, <1>5, <1>7
<1>9. \A j \in Ids : j <= seqId => /\ slice'[j].role = slice[j].role
                                   /\ slice'[j].target = slice[j].target
                                   /\ slice'[j].from = slice[j].from
  BY <1>2, <1>6, <1>8, Numbers
<1>10. \A j \in Ids : j > seqId + 1 => slice'[j].role = "none"
  BY <1>2, <1>6, <1>8, Numbers
<1>11. orderSlices' \in Seq(Slots) /\ chOrderSlice' = chOrderSlice \cup {seqId + 1}
  BY <1>0, <1>1, <1>2, SlotSeqs DEF Enqueue, Slots
<1> QED
  BY <1>1, <1>2, <1>7, <1>8, <1>9, <1>10, <1>11

\* The report of a swap execution becomes a spot slice.
LEMMA ReportHedged ==
  ASSUME IInv, NEW ev \in chOrder, Take(ev), SwapReturn(ev),
         Swap(ev.id), IsFillState(ev.state), orderSlices[1] \in Ids,
         UNCHANGED <<lost, start, book, exch, sendErrors, fills, net>>
  PROVE  IInv'
<1> DEFINE f == <<ev.id, ev.acc>>
<1>1. /\ seqId + 1 \in Ids /\ seqId' = seqId + 1 /\ task' = task
      /\ slice' \in [Ids -> SliceType] /\ orderSlices' \in Seq(Slots)
      /\ chOrderSlice' = chOrderSlice \cup {seqId + 1}
  BY SwapReturns
<1>2. slice'[seqId + 1].role = "spot" /\ slice'[seqId + 1].from = f
  BY SwapReturns
<1>3. \A j \in Ids : j <= seqId => /\ slice'[j].role = slice[j].role
                                  /\ slice'[j].target = slice[j].target
                                  /\ slice'[j].from = slice[j].from
  BY SwapReturns
<1>4. \A j \in Ids : j > seqId + 1 => slice'[j].role = "none"
  BY SwapReturns
<1>5. /\ \A j \in Ids : j <= seqId => (Swap(j)' <=> Swap(j)) /\ (Spot(j)' <=> Spot(j))
      /\ \A j \in Ids : Swap(j) \/ Spot(j) => j <= seqId
      /\ \A j \in Ids : Swap(j)' => j <= seqId
      /\ \A j \in Ids : Spot(j)' => j <= seqId \/ j = seqId + 1
  <2>1. \A j \in Ids : j <= seqId => (Swap(j)' <=> Swap(j)) /\ (Spot(j)' <=> Spot(j))
    BY <1>3 DEF Swap, Spot
  <2>2. \A j \in Ids : Swap(j) \/ Spot(j) => j <= seqId
    BY Numbers DEF Swap, Spot
  <2>3. \A j \in Ids : j <= seqId \/ j = seqId + 1 \/ j > seqId + 1
    BY Numbers
  <2>4. \A j \in Ids : Swap(j)' => j <= seqId
    BY <2>3, <1>2, <1>4 DEF Swap
  <2>5. \A j \in Ids : Spot(j)' => j <= seqId \/ j = seqId + 1
    BY <2>3, <1>4 DEF Spot
  <2> QED
    BY <2>1, <2>2, <2>4, <2>5
<1>6. ev.fill > 0
  BY DEF IInv, Reports
<1>7. /\ f \in InFlight
      /\ \/ InFlight' = InFlight \ {f} /\ repeated' = repeated
         \/ InFlight' = InFlight /\ repeated' = repeated \cup {f}
  BY <1>5, <1>6, ReportTaken
<1>15. chOrder' \subseteq chOrder /\ used' \in UsedType /\ repeated' \subseteq Fill
  BY Taken
<1> HIDE DEF f
<1>8. TypeOK'
  <2>1. seqId' \in 0..MaxSlices /\ chOrderSlice' \subseteq Slots
    BY <1>1, Numbers DEF IInv, TypeOK, Slots, Ids
  <2> QED
    BY <1>1, <1>15, <2>1 DEF IInv, TypeOK
<1>9. Fresh'
  <2>1. \A j \in Ids : j > seqId' => slice'[j].role = "none" /\ exch'[j].state = "absent"
    BY <1>1, <1>4, Numbers
  <2>2. /\ \A e \in chOrder' : e.id <= seqId'
        /\ chOrderSlice' \subseteq 0..seqId' /\ start'.new \in 0..seqId'
    BY <1>1, <1>15, Numbers
  <2> QED
    BY <2>1, <2>2 DEF Fresh
<1>10. Unsent'
  <2>1. \A j \in chOrderSlice' \ {NoSlice} : exch'[j].state = "absent"
    BY <1>1, Numbers DEF IInv, Unsent
  <2>2. start'.pc \in {"read", "write"} =>
           start'.new \in Ids \ chOrderSlice' /\ exch'[start'.new].state = "absent"
    <3>1. start.new # seqId + 1
      BY <1>1, Numbers
    <3> QED
      BY <3>1, <1>1 DEF IInv, Unsent
  <2> QED
    BY <2>1, <2>2 DEF IInv, Unsent
<1>11. Counted'
  <2>1. \A j \in Ids : Swap(j)' => slice'[j].target <= MaxSize
    BY <1>3, <1>5 DEF IInv, Counted
  <2>2. \A g \in fills : g[1] \in Ids /\ Swap(g[1]) /\ g[2] <= exch[g[1]].acc
    BY DEF IInv, TypeOK, Counted, Fill
  <2> QED
    BY <2>1, <2>2, <1>5 DEF Counted
<1>12. Reports'
  <2>1. \A e \in chOrder : e.id \in Ids /\ (Swap(e.id)' <=> Swap(e.id))
    BY <1>5, Numbers
  <2> QED
    BY <1>15, <2>1 DEF IInv, Reports
<1>13. Hedged' = Hedged \cup {f}
  <2>1. \A j \in Ids : Spot(j)' => slice'[j].from \in Hedged \cup {f}
    BY <1>2, <1>3, <1>5 DEF Hedged
  <2>2. \A j \in Ids : Spot(j) => slice[j].from \in Hedged'
    BY <1>3, <1>5 DEF Hedged
  <2>3. f \in Hedged'
    BY <1>1, <1>2 DEF Hedged, Spot
  <2>4. Hedged' \subseteq Hedged \cup {f}
    BY <2>1 DEF Hedged
  <2>5. Hedged \subseteq Hedged'
    BY <2>2 DEF Hedged
  <2> QED
    BY <2>3, <2>4, <2>5
<1>14. Sorted'
  <2>1. /\ fills = InFlight \cup Hedged \cup lost
        /\ lost \cap (InFlight \cup Hedged) = {} /\ InFlight \cap Hedged \subseteq repeated
        /\ \A j, k \in Ids : Spot(j) /\ Spot(k) /\ j # k /\ slice[j].from = slice[k].from
                              => slice[j].from \in repeated
    BY DEF IInv, Sorted
  <2>2. /\ fills' = InFlight' \cup Hedged' \cup lost'
        /\ lost' \cap (InFlight' \cup Hedged') = {} /\ InFlight' \cap Hedged' \subseteq repeated'
    BY <1>7, <1>13, <2>1
  <2>3. \A j \in Ids : Spot(j) /\ slice[j].from = f => f \in repeated
    BY <1>7, <2>1 DEF Hedged
  <2>4. \A j, k \in Ids : Spot(j)' /\ Spot(k)' /\ j # k /\ slice'[j].from = slice'[k].from
                            => slice'[j].from \in repeated'
    <3> SUFFICES ASSUME NEW j \in Ids, NEW k \in Ids, Spot(j)', Spot(k)', j # k,
                        slice'[j].from = slice'[k].from
                 PROVE  slice'[j].from \in repeated'
      OBVIOUS
    <3>0. repeated \subseteq repeated'
      BY <1>7
    <3>1. CASE j <= seqId /\ k <= seqId
      BY <3>0, <3>1, <2>1, <1>3, <1>5
    <3>2. CASE j = seqId + 1 \/ k = seqId + 1
      <4>1. slice'[seqId + 1].from = f
        BY <1>2
      <4>2. \A m \in Ids : m <= seqId /\ Spot(m)' /\ slice'[m].from = f => f \in repeated
        BY <2>3, <1>3, <1>5
      <4> QED
        BY <3>0, <3>2, <4>1, <4>2, <1>5
    <3> QED
      BY <3>1, <3>2, <1>5
  <2> QED
    BY <2>2, <2>4 DEF Sorted
<1> QED
  BY <1>8, <1>9, <1>10, <1>11, <1>12, <1>14 DEF IInv

LEMMA ReportHandled ==
  ASSUME IInv, NEW ev \in chOrder, onOrderEvent(ev)
  PROVE  IInv'
<1>1. UNCHANGED <<start, book, exch, sendErrors, fills, net>>
  BY DEF onOrderEvent
<1>2. task \in TaskType /\ orderSlices \in Seq(Slots) /\ ev.id \in Ids
  BY DEF IInv, TypeOK, EventType
<1>3. CASE Die("panic") /\ UNCHANGED <<sliceVars, chOrder, repeated, lost, used>>
  <2>1. task' \in TaskType
    BY <1>2, <1>3 DEF Die, TaskType
  <2> QED
    BY <1>1, <1>3, <2>1, KeptIInv DEF IInv, TypeOK, Kept, sliceVars
<1>4. CASE /\ ~MeetsNil(ev.id, ~IsFillState(ev.state)) /\ Take(ev) /\ ev.id \notin Tracked
           /\ lost' = IF ev \in chOrder' THEN lost ELSE lost \cup (SwapFills({ev}) \ Hedged)
           /\ UNCHANGED <<sliceVars, task>>
  BY <1>1, <1>4, ReportUntracked
<1>5. CASE /\ Take(ev) /\ ~IsFillState(ev.state)
           /\ slice' = [slice EXCEPT ![ev.id].latest = ev.state]
           /\ UNCHANGED <<seqId, orderSlices, chOrderSlice, task, lost>>
  BY <1>1, <1>2, <1>5, ReportNoted
<1>6. CASE /\ Take(ev) /\ ~Swap(ev.id) /\ SpotReturn(ev) /\ UNCHANGED lost
  <2>1. task' \in TaskType
    BY <1>2, <1>6 DEF SpotReturn, Stop, TaskType
  <2> QED
    BY <1>1, <1>6, <2>1, ReportNoted DEF SpotReturn
<1>7. CASE /\ ~MeetsNil(ev.id, ~IsFillState(ev.state)) /\ Take(ev)
           /\ ev.id \in Tracked /\ IsFillState(ev.state)
           /\ Swap(ev.id) /\ SwapReturn(ev) /\ UNCHANGED lost
  <2>1. \A k \in DOMAIN orderSlices : orderSlices[k] # NoSlice
    BY <1>7 DEF MeetsNil
  <2>2. orderSlices # <<>>
    BY <1>7 DEF Tracked, Elements
  <2>3. orderSlices[1] \in Ids
    BY <1>2, <2>1, <2>2 DEF Slots
  <2> QED
    BY <1>1, <1>7, <2>3, ReportHedged
<1> QED
  BY <1>3, <1>4, <1>5, <1>6, <1>7 DEF onOrderEvent

-----------------------------------------------------------------------------
(* The invariant *)

\* The repricing loop only starts over slices that exist, and only shortens
\* what is left of them.
LEMMA LoopingKept ==
  ASSUME TypeOK, Looping, [Next]_vars
  PROVE  Looping'
<1>1. CASE BookCheck
  <2>1. CASE book' = [book EXCEPT !.pc = "reprice", !.todo = orderSlices]
    <3>1. /\ book'.todo = orderSlices /\ NoSlice \notin Tracked /\ orderSlices \in Seq(Slots)
      BY <1>1, <2>1 DEF BookCheck, TypeOK, BookType
    <3> QED
      BY <3>1 DEF Looping, Tracked, Elements, Slots
  <2>2. CASE BookReturn
    BY <2>2, Returns DEF TypeOK, Looping
  <2> QED
    BY <1>1, <2>1, <2>2 DEF BookCheck
<1>2. CASE BookReprice
  <2>1. PICK k \in DOMAIN book.todo : book' = [book EXCEPT !.todo = SubSeq(@, k + 1, Len(@))]
    BY <1>2 DEF BookReprice
  <2>2. /\ book.todo \in Seq(Slots) /\ k \in 1..Len(book.todo)
        /\ \A m \in 1..Len(book.todo) : book.todo[m] \in Ids
    BY <1>2 DEF BookReprice, Looping, TypeOK, BookType
  <2>3. book'.todo = SubSeq(book.todo, k + 1, Len(book.todo))
    BY <2>1 DEF TypeOK, BookType
  <2>4. \A m \in DOMAIN book'.todo : book'.todo[m] = book.todo[k + m] /\ k + m \in 1..Len(book.todo)
    BY <2>2, <2>3
  <2> QED
    BY <2>2, <2>4 DEF Looping
<1>3. CASE UNCHANGED <<book>> \/ book'.pc # "reprice"
  BY <1>3 DEF Looping
<1>4. CASE RunBook \/ \E e \in book.due : StoreTime(e)
  <2>1. book \in BookType
    BY DEF TypeOK
  <2>2. book'.pc # "reprice" \/ (book'.pc = book.pc /\ book'.todo = book.todo)
    BY <1>4, <2>1 DEF RunBook, StoreTime, Leaving, BookType
  <2> QED
    BY <2>2 DEF Looping
<1>5. CASE \/ BookRetreat(SwapLeg, "retreatSwap", "retreatSpot")
           \/ BookRetreat(SpotLeg, "retreatSpot", "query")
           \/ BookQuery \/ BookQueried \/ BookFilter \/ BookAssign
           \/ BookFirst \/ BookFinish \/ BookRepriced
  <2>1. book \in BookType
    BY DEF TypeOK
  <2>2. book'.pc # "reprice"
    BY <1>5, <2>1, Returns DEF BookRetreat, BookQuery, BookQueried, BookFilter, BookAssign,
       BookFirst, BookFinish, BookRepriced, BookType
  <2> QED
    BY <2>2 DEF Looping
<1>6. CASE \/ RunDone \/ RunTimer \/ ExecuteNil \/ ManagerStop \/ PrintTask \/ onStart \/ BookNil
           \/ \E ev \in chOrder : onOrderEvent(ev)
           \/ \E i \in Ids : executeSlice(i) \/ OnOrderError(i)
           \/ Exchange \/ UNCHANGED vars
  <2>1. UNCHANGED book
    BY <1>6 DEF RunDone, RunTimer, ExecuteNil, ManagerStop, PrintTask, onStart, StartCheck, StartRead,
       StartWrite, BookNil, onOrderEvent, executeSlice, OnOrderError, Exchange, ExecuteSwap,
       ExecuteSpot, Disconnect, Reconnect, vars
  <2> QED
    BY <2>1, <1>3
<1> QED
  BY <1>1, <1>2, <1>4, <1>5, <1>6 DEF Next, Run, onOrderBook

\* The inductive invariant of the task.
Inductive == IInv /\ Looping

LEMMA StepIInv ==
  ASSUME IInv, Looping, [Next]_vars
  PROVE  IInv'
<1>1. CASE Run
  <2>1. CASE RunDone \/ RunTimer \/ ExecuteNil
    BY <2>1, TaskSteps
  <2>2. CASE RunBook
    BY <2>2, BookMoves
  <2>3. CASE \E ev \in chOrder : onOrderEvent(ev)
    BY <2>3, ReportHandled
  <2>4. CASE \E i \in Ids : executeSlice(i)
    BY <2>4, SliceSent
  <2> QED
    BY <1>1, <2>1, <2>2, <2>3, <2>4 DEF Run
<1>2. CASE onStart
  BY <1>2, StartSteps, OtherSteps DEF onStart
<1>3. CASE onOrderBook
  <2>1. CASE BookRetreat(SwapLeg, "retreatSwap", "retreatSpot")
    BY <2>1, BookRetreats
  <2>2. CASE BookRetreat(SpotLeg, "retreatSpot", "query")
    BY <2>2, BookRetreats
  <2>3. CASE BookQuery
    BY <2>3, BookQueries
  <2>4. CASE BookQueried \/ BookFilter \/ BookRepriced
    BY <2>4, BookMoves
  <2>5. CASE BookAssign
    BY <2>5, BookAssigns
  <2>6. CASE BookFirst
    BY <2>6, BookStartsOver
  <2>7. CASE BookFinish \/ BookCheck
    BY <2>7, BookMarks
  <2>8. CASE BookNil
    BY <2>8, TaskSteps
  <2>9. CASE BookReprice
    BY <2>9, BookReprices
  <2> QED
    BY <1>3, <2>1, <2>2, <2>3, <2>4, <2>5, <2>6, <2>7, <2>8, <2>9 DEF onOrderBook
<1>4. CASE Exchange
  <2>1. CASE \E i \in Ids : \E q \in 1..slice[i].target : ExecuteSwap(i, q)
    BY <2>1, SwapExecuted
  <2>2. CASE \E i \in Ids : ExecuteSpot(i)
    BY <2>2, SpotExecuted
  <2>3. CASE Disconnect \/ Reconnect
    BY <2>3, OtherSteps
  <2> QED
    BY <1>4, <2>1, <2>2, <2>3 DEF Exchange
<1>5. CASE ManagerStop \/ PrintTask \/ \E e \in book.due : StoreTime(e)
  BY <1>5, TaskSteps, BookMoves
<1>6. CASE \E i \in Ids : OnOrderError(i)
  BY <1>6, OtherSteps
<1>7. CASE UNCHANGED vars
  BY <1>7, OtherSteps
<1> QED
  BY <1>1, <1>2, <1>3, <1>4, <1>5, <1>6, <1>7 DEF Next

\* Every reachable state of a task, with any amount and lot size and any number
\* of executions, outages, repricings and faults, satisfies the invariant.
THEOREM Invariance == Spec => []Inductive
<1>1. Init => Inductive
  BY InitIInv DEF Init, Inductive, Looping
<1>2. Inductive /\ [Next]_vars => Inductive'
  BY StepIInv, LoopingKept DEF Inductive, IInv
<1> QED
  BY <1>1, <1>2, PTL DEF Spec

\* Type correctness.
THEOREM Types == Spec => []TypeOK
<1>1. Inductive => TypeOK
  BY DEF Inductive, IInv
<1> QED
  BY <1>1, Invariance, PTL

\* Every swap execution is pending, answered, or stays unanswered, for good when the
\* loop or the process is over; only one whose report came more than once can be
\* pending after its answer, or have two.
THEOREM Partition == Spec => []FillsPartitioned
<1>1. Inductive => FillsPartitioned
  <2> SUFFICES ASSUME Sorted, Ids \subseteq Nat PROVE FillsPartitioned
    BY Numbers DEF Inductive, IInv
  <2>1. \A i \in Again : slice[i].from \in repeated
    <3>1. \A i, j \in Ids : j < i => i # j
      OBVIOUS
    <3> QED
      BY <3>1 DEF Again, Sorted
  <2>2. CASE Served
    BY <2>1, <2>2 DEF FillsPartitioned, Pending, Unanswered, Sorted
  <2>3. CASE ~Served
    BY <2>1, <2>3 DEF FillsPartitioned, Pending, Unanswered, Sorted
  <2> QED
    BY <2>2, <2>3
<1> QED
  BY <1>1, Invariance, PTL

-----------------------------------------------------------------------------
(* Refinement of HedgeLedger *)

\* A step that creates no spot slice and leaves those there are with their origin.
SpotsKept == \A i \in Ids : (Spot(i)' <=> Spot(i)) /\ (Spot(i) => slice'[i].from = slice[i].from)

LEMMA SpotsUntouched ==
  ASSUME Inductive, Next,
         ~ \E ev \in chOrder : onOrderEvent(ev) /\ Swap(ev.id) /\ SwapReturn(ev)
  PROVE  SpotsKept
<1>0. slice \in [Ids -> SliceType] /\ chOrder \subseteq EventType /\ IInv /\ Looping
  BY DEF Inductive, IInv, TypeOK
<1>1. ASSUME \A i \in Ids : slice'[i].role = slice[i].role /\ slice'[i].from = slice[i].from
      PROVE  SpotsKept
  BY <1>1 DEF SpotsKept, Spot
<1>2. CASE UNCHANGED slice
  BY <1>1, <1>2
<1>3. ASSUME NEW size \in Sizes, firstOrder(size)
      PROVE  SpotsKept
  <2>1. /\ seqId + 1 \in Ids /\ slice'[seqId + 1].role = "first"
        /\ \A i \in Ids : i # seqId + 1 => slice'[i] = slice[i]
    BY <1>0, <1>3, FirstOrders
  <2>2. slice[seqId + 1].role = "none"
    BY <1>0, <2>1, Numbers
  <2> QED
    BY <2>1, <2>2 DEF SpotsKept, Spot
<1>4. ASSUME NEW i \in Ids, executeSlice(i)
      PROVE  SpotsKept
  BY <1>0, <1>1, <1>4 DEF executeSlice, SliceType
<1>5. ASSUME NEW ev \in chOrder, onOrderEvent(ev)
      PROVE  SpotsKept
  <2>1. ev.id \in Ids /\ ev.state \in OrderState
    BY <1>0 DEF EventType
  <2>2. UNCHANGED slice \/ slice' = [slice EXCEPT ![ev.id].latest = ev.state]
    BY <1>5 DEF onOrderEvent, SpotReturn, sliceVars
  <2>3. ASSUME slice' = [slice EXCEPT ![ev.id].latest = ev.state]
        PROVE  SpotsKept
    BY <1>0, <1>1, <2>1, <2>3 DEF SliceType
  <2> QED
    BY <1>2, <2>2, <2>3
<1>6. CASE BookQuery
  <2>1. UNCHANGED slice \/ (/\ Head(book.todo) \in Ids
                            /\ slice' = [slice EXCEPT ![Head(book.todo)].latest = exch[Head(book.todo)].state])
    <3>1. book.todo \in Seq(Slots) /\ book.todo # <<>>
      BY <1>0, <1>6 DEF BookQuery, IInv, TypeOK, BookType
    <3>2. Head(book.todo) \in Ids
      BY <1>6, <3>1, SlotSeqs DEF BookQuery, Slots
    <3> QED
      BY <1>6, <3>2 DEF BookQuery
  <2>2. ASSUME NEW j \in Ids, slice' = [slice EXCEPT ![j].latest = exch[j].state]
        PROVE  SpotsKept
    BY <1>0, <1>1, <2>2 DEF SliceType
  <2> QED
    BY <1>2, <2>1, <2>2
<1>7. CASE BookFinish \/ BookCheck
  <2>1. PICK S : Ignore(S)
    BY <1>7 DEF BookFinish, BookCheck
  <2> QED
    BY <1>0, <1>1, <2>1, IgnoreKeeps
<1>8. CASE BookReprice
  <2>1. PICK k \in DOMAIN book.todo : CanReprice(book.todo[k]) /\ nextOrder(book.todo[k])
    BY <1>8 DEF BookReprice
  <2>2. book.todo[k] \in Ids /\ Swap(book.todo[k])
    BY <1>0, <1>8, <2>1 DEF BookReprice, Looping, CanReprice
  <2>3. \A j \in Ids : IF j <= seqId THEN /\ slice'[j].role = slice[j].role
                                          /\ slice'[j].from = slice[j].from
                       ELSE slice'[j].role # "spot"
    BY <1>0, <2>1, <2>2, NextOrders
  <2>4. \A j \in Ids : ~(j <= seqId) => slice[j].role = "none"
    BY <1>0, Numbers
  <2> QED
    BY <2>3, <2>4 DEF SpotsKept, Spot
<1>9. CASE \/ StartCheck \/ BookFirst
  BY <1>2, <1>3, <1>9 DEF StartCheck, BookFirst, sliceVars
<1>10. CASE \/ RunDone \/ RunTimer \/ RunBook \/ ExecuteNil \/ ManagerStop \/ StartRead \/ StartWrite
            \/ PrintTask \/ (\E e \in book.due : StoreTime(e)) \/ (\E i \in Ids : OnOrderError(i)) \/ Exchange
            \/ (\E leg, here, next : BookRetreat(leg, here, next))
            \/ BookQueried \/ BookFilter \/ BookAssign \/ BookNil \/ BookRepriced
  <2>1. UNCHANGED slice
    BY <1>10 DEF RunDone, RunTimer, RunBook, ExecuteNil, ManagerStop, StartRead, StartWrite,
       PrintTask, StoreTime, OnOrderError, Exchange, ExecuteSwap, ExecuteSpot, Disconnect, Reconnect, BookRetreat,
       BookQueried, BookFilter, BookAssign, BookNil, BookRepriced, sliceVars
  <2> QED
    BY <1>2, <2>1
<1> QED
  BY <1>4, <1>5, <1>6, <1>7, <1>8, <1>9, <1>10 DEF Next, Run, onStart, onOrderBook

\* The pairs of a spot slice and the execution it answers.
Hedges == {<<i, slice[i].from>> : i \in {j \in Ids : Spot(j)}}

LEMMA HedgesKept == SpotsKept => Hedges' = Hedges
<1> SUFFICES ASSUME SpotsKept PROVE Hedges' = Hedges
  OBVIOUS
<1>1. \A i \in Ids : Spot(i)' => <<i, slice'[i].from>> \in Hedges
  BY DEF SpotsKept, Hedges
<1>2. \A i \in Ids : Spot(i) => <<i, slice[i].from>> \in Hedges'
  BY DEF SpotsKept, Hedges
<1>3. Hedges' \subseteq Hedges
  BY <1>1 DEF Hedges
<1>4. Hedges \subseteq Hedges'
  BY <1>2 DEF Hedges
<1> QED
  BY <1>3, <1>4

\* Only an execution of a swap order changes the history of executions.
LEMMA FillsKept ==
  ASSUME Next, ~ \E i \in Ids : \E q \in 1..slice[i].target : ExecuteSwap(i, q)
  PROVE  fills' = fills
<1>1. CASE Run \/ onStart \/ ManagerStop \/ PrintTask \/ (\E e \in book.due : StoreTime(e)) \/ \E i \in Ids : OnOrderError(i)
  BY <1>1 DEF Run, RunDone, RunTimer, RunBook, onOrderEvent, executeSlice, ExecuteNil,
     onStart, StartCheck, StartRead, StartWrite, ManagerStop, PrintTask, StoreTime, OnOrderError, exchVars
<1>2. CASE onOrderBook
  BY <1>2 DEF onOrderBook, BookRetreat, BookQuery, BookQueried, BookFilter, BookAssign,
     BookFirst, BookFinish, BookCheck, BookNil, BookReprice, BookRepriced, exchVars
<1>3. CASE Exchange
  BY <1>3 DEF Exchange, ExecuteSpot, Disconnect, Reconnect, exchVars
<1> QED
  BY <1>1, <1>2, <1>3 DEF Next

\* Only a report that comes once more adds to the repeated executions.
LEMMA RepeatedSteps ==
  ASSUME Next
  PROVE  repeated' = repeated \/ \E f \in InFlight : repeated' = repeated \cup {f}
<1>1. ASSUME NEW ev \in chOrder, onOrderEvent(ev)
      PROVE  repeated' = repeated \/ \E f \in InFlight : repeated' = repeated \cup {f}
  <2>1. repeated' = repeated \/ repeated' = repeated \cup SwapFills({ev})
    BY <1>1 DEF onOrderEvent, Take
  <2>2. CASE ev.fill > 0 /\ Swap(ev.id)
    <3>1. SwapFills({ev}) = {<<ev.id, ev.acc>>} /\ <<ev.id, ev.acc>> \in InFlight
      BY <2>2 DEF SwapFills, InFlight
    <3> QED
      BY <2>1, <3>1
  <2>3. CASE ~(ev.fill > 0 /\ Swap(ev.id))
    <3>1. SwapFills({ev}) = {}
      BY <2>3 DEF SwapFills
    <3> QED
      BY <2>1, <3>1
  <2> QED
    BY <2>2, <2>3
<1>2. CASE \/ RunDone \/ RunTimer \/ RunBook \/ ExecuteNil \/ (\E i \in Ids : executeSlice(i))
           \/ onStart \/ ManagerStop \/ PrintTask \/ (\E e \in book.due : StoreTime(e))
           \/ \E i \in Ids : OnOrderError(i)
  BY <1>2 DEF RunDone, RunTimer, RunBook, executeSlice, ExecuteNil,
     onStart, StartCheck, StartRead, StartWrite, ManagerStop, PrintTask, StoreTime, OnOrderError, exchVars
<1>3. CASE onOrderBook
  BY <1>3 DEF onOrderBook, BookRetreat, BookQuery, BookQueried, BookFilter, BookAssign,
     BookFirst, BookFinish, BookCheck, BookNil, BookReprice, BookRepriced, exchVars
<1>4. CASE Exchange
  BY <1>4 DEF Exchange, ExecuteSwap, ExecuteSpot, Disconnect, Reconnect, exchVars
<1> QED
  BY <1>1, <1>2, <1>3, <1>4 DEF Next, Run

\* A task does what HedgeLedger promises: an execution of a swap order is a
\* trade, the report of one that is acted on is a hedge that covers it alone, and
\* one that was covered before only if its report was repeated, and nothing else
\* touches the ledger.
THEOREM Refinement == Spec => ImplementsLedger
<1>1. Init => Ledger!Init
  BY DEF Init, Ledger!Init, NewSlice, Spot
<1>2. ASSUME Inductive, [Next]_vars
      PROVE  [Ledger!Next]_(Ledger!ledgerVars)
  <2>0. IInv /\ fills \subseteq Fill
    BY <1>2 DEF Inductive, IInv, TypeOK
  <2>1. CASE UNCHANGED vars
    BY <2>1 DEF vars, sliceVars, exchVars, Ledger!ledgerVars, Spot
  <2>2. CASE \E i \in Ids : \E q \in 1..slice[i].target : ExecuteSwap(i, q)
    <3>1. PICK i \in Ids : \E q \in 1..slice[i].target : ExecuteSwap(i, q)
      BY <2>2
    <3>0. PICK q \in 1..slice[i].target : ExecuteSwap(i, q)
      BY <3>1
    <3>2. fills' = fills \cup {<<i, exch[i].acc + q>>} /\ UNCHANGED <<slice, repeated>>
      BY <3>0 DEF ExecuteSwap, sliceVars
    <3>3. SpotsKept
      BY <3>2 DEF SpotsKept, Spot
    <3>4. <<i, exch[i].acc + q>> \in Fill
      <4>1. IInv'
        BY <2>0, <3>0, SwapExecuted
      <4> QED
        BY <3>2, <4>1 DEF IInv, TypeOK
    <3>5. Hedges' = Hedges
      BY <3>3, HedgesKept
    <3> QED
      BY <3>2, <3>4, <3>5 DEF Ledger!Next, Ledger!Trade, Hedges
  <2>3. CASE \E ev \in chOrder : onOrderEvent(ev) /\ Swap(ev.id) /\ SwapReturn(ev)
    <3>1. PICK ev \in chOrder : onOrderEvent(ev) /\ Swap(ev.id) /\ SwapReturn(ev)
      BY <2>3
    <3> DEFINE f == <<ev.id, ev.acc>>
    <3>2. orderSlices[1] \in Ids /\ IsFillState(ev.state) /\ fills' = fills /\ Take(ev)
      <4>1. seqId' # seqId
        BY <2>0, <3>1, Numbers DEF SwapReturn
      <4>2. /\ ~MeetsNil(ev.id, ~IsFillState(ev.state)) /\ ev.id \in Tracked
            /\ IsFillState(ev.state) /\ fills' = fills /\ Take(ev)
        BY <3>1, <4>1 DEF onOrderEvent, sliceVars
      <4>3. \A k \in DOMAIN orderSlices : orderSlices[k] # NoSlice
        BY <4>2 DEF MeetsNil
      <4>4. orderSlices \in Seq(Slots) /\ orderSlices # <<>>
        BY <2>0, <4>2 DEF IInv, TypeOK, Tracked, Elements
      <4> QED
        BY <4>2, <4>3, <4>4 DEF Slots
    <3>3. /\ seqId + 1 \in Ids
          /\ slice'[seqId + 1].role = "spot" /\ slice'[seqId + 1].from = f
          /\ \A j \in Ids : j <= seqId => /\ slice'[j].role = slice[j].role
                                          /\ slice'[j].from = slice[j].from
          /\ \A j \in Ids : j > seqId + 1 => slice'[j].role = "none"
      BY <2>0, <3>1, <3>2, SwapReturns
    <3>4. /\ f \in fills /\ f \in Fill
          /\ f \in Hedged => f \in repeated
          /\ repeated' \in {repeated, repeated \cup {f}}
      <4>1. ev.fill > 0
        BY <2>0, <3>1, <3>2 DEF IInv, Reports
      <4>2. f \in InFlight /\ SwapFills({ev}) = {f}
        BY <3>1, <4>1 DEF InFlight, SwapFills
      <4>3. repeated' \in {repeated, repeated \cup {f}}
        BY <3>2, <4>2 DEF Take
      <4> QED
        BY <2>0, <4>2, <4>3 DEF IInv, Sorted
    <3> HIDE DEF f
    <3>5. /\ \A h \in Hedges : h[1] # seqId + 1
          /\ f \in Ledger!Hedged => f \in repeated
      <4>1. \A h \in Hedges : h[1] # seqId + 1
        BY <2>0, Numbers DEF Hedges, Spot
      <4>2. \A h \in Hedges : h[2] \in Hedged
        BY DEF Hedges, Hedged
      <4>3. Ledger!Hedged \subseteq Hedged
        BY <4>2 DEF Ledger!Hedged, Hedges
      <4> QED
        BY <3>4, <4>1, <4>3
    <3>6. Hedges' = Hedges \cup {<<seqId + 1, f>>}
      <4>1. \A j \in Ids : j <= seqId \/ j = seqId + 1 \/ j > seqId + 1
        BY <2>0, Numbers
      <4>2. \A j \in Ids : Spot(j)' => <<j, slice'[j].from>> \in Hedges \cup {<<seqId + 1, f>>}
        BY <3>3, <4>1 DEF Hedges, Spot
      <4>3. \A j \in Ids : Spot(j) => <<j, slice[j].from>> \in Hedges'
        <5>1. \A j \in Ids : Spot(j) => j <= seqId
          BY <2>0, Numbers DEF Spot
        <5> QED
          BY <3>3, <5>1 DEF Hedges, Spot
      <4>4. <<seqId + 1, f>> \in Hedges'
        BY <3>3 DEF Hedges, Spot
      <4>5. Hedges' \subseteq Hedges \cup {<<seqId + 1, f>>}
        BY <4>2 DEF Hedges
      <4>6. Hedges \subseteq Hedges'
        BY <4>3 DEF Hedges
      <4> QED
        BY <4>4, <4>5, <4>6
    <3>7. Ledger!Hedge(seqId + 1, f)
      BY <3>2, <3>4, <3>5, <3>6 DEF Ledger!Hedge, Hedges
    <3> QED
      BY <3>3, <3>4, <3>7 DEF Ledger!Next
  <2>4. CASE /\ Next
             /\ ~ \E i \in Ids : \E q \in 1..slice[i].target : ExecuteSwap(i, q)
             /\ ~ \E ev \in chOrder : onOrderEvent(ev) /\ Swap(ev.id) /\ SwapReturn(ev)
    <3>1. fills' = fills /\ Hedges' = Hedges
      BY <1>2, <2>4, FillsKept, SpotsUntouched, HedgesKept
    <3>2. CASE repeated' = repeated
      BY <3>1, <3>2 DEF Ledger!ledgerVars, Hedges
    <3>3. ASSUME NEW f \in InFlight, repeated' = repeated \cup {f}
          PROVE  Ledger!Next
      <4>1. f \in fills /\ f \in Fill
        BY <2>0 DEF IInv, Sorted
      <4>2. Ledger!Repeat(f)
        BY <3>1, <3>3, <4>1 DEF Ledger!Repeat, Hedges
      <4> QED
        BY <4>1, <4>2 DEF Ledger!Next
    <3> QED
      BY <2>4, <3>2, <3>3, RepeatedSteps
  <2> QED
    BY <1>2, <2>1, <2>2, <2>3, <2>4
<1> QED
  BY <1>1, <1>2, Invariance, PTL DEF Spec, ImplementsLedger, Ledger!Spec
=============================================================================
