------------------------ MODULE OrderTaskListProofs ------------------------
(***************************************************************************)
(* Theorems about orderSlices and the repricing loop of OrderTask: what    *)
(* stands at the head of the list, when a swap execution may be lost, and  *)
(* what it takes for a nil slice to get into the list.                     *)
(*                                                                         *)
(* The predicates on lists take the slices as an argument, so that a lemma *)
(* can relate the list before a step to the slices after it.               *)
(***************************************************************************)
EXTENDS OrderTaskProofs

Slices == [Ids -> SliceType]
Lists  == Seq(Slots)

IsSwap(sl, i) == sl[i].role \in {"first", "next"}
IsSpot(sl, i) == sl[i].role = "spot"

\* A swap slice of which something was heard: the recovery keeps it.
Known(sl, i)  == IsSwap(sl, i) /\ sl[i].latest # "none"
KnownAt(sl, s, k) == s[k] # NoSlice /\ Known(sl, s[k])
Heard(sl, s)  == \E k \in 1..Len(s) : KnownAt(sl, s, k)

\* Every slice of the list is a swap or a spot slice, and a spot slice comes
\* after a swap slice that was heard of, in this list or (led) before it.
Follows(sl, s, led, k) ==
    s[k] # NoSlice =>
        /\ IsSwap(sl, s[k]) \/ IsSpot(sl, s[k])
        /\ IsSpot(sl, s[k]) => led \/ \E m \in 1..(k - 1) : KnownAt(sl, s, m)
Led(sl, s, led) == \A k \in 1..Len(s) : Follows(sl, s, led, k)
Headed(sl, s)   == Led(sl, s, FALSE) /\ (s # <<>> => s[1] # NoSlice)

\* Slices are never taken back or resized, and what was heard of one is not
\* forgotten.
Grows(sl, sl2) ==
    \A i \in Ids : sl[i].role # "none" =>
        /\ sl2[i].role = sl[i].role /\ sl2[i].target = sl[i].target
        /\ sl[i].latest # "none" => sl2[i].latest # "none"

Starting == start.pc \in {"read", "write"}

-----------------------------------------------------------------------------
(* Lemmas about lists *)

\* The elements of a list are slots.
LEMMA ListElements ==
  ASSUME NEW s \in Lists
  PROVE  /\ Len(s) \in Nat /\ DOMAIN s = 1..Len(s)
         /\ \A k \in 1..Len(s) : s[k] \in Slots
         /\ s = <<>> <=> Len(s) = 0
  BY DEF Lists

LEMMA Appended ==
  ASSUME NEW s \in Lists, NEW i \in Slots
  PROVE  /\ Append(s, i) \in Lists /\ Len(Append(s, i)) = Len(s) + 1
         /\ \A k \in 1..Len(s) : Append(s, i)[k] = s[k]
         /\ Append(s, i)[Len(s) + 1] = i
         /\ Append(s, i) # <<>>
  BY DEF Lists

LEMMA Tailed ==
  ASSUME NEW s \in Lists, s # <<>>
  PROVE  /\ Head(s) = s[1] /\ Head(s) \in Slots
         /\ Tail(s) \in Lists /\ Len(Tail(s)) = Len(s) - 1 /\ Len(s) \in Nat \ {0}
         /\ \A k \in 1..(Len(s) - 1) : Tail(s)[k] = s[k + 1]
  BY DEF Lists

\* Growth keeps a list in order.
LEMMA GrowsKnown ==
  ASSUME NEW sl, NEW sl2, Grows(sl, sl2), NEW i \in Ids
  PROVE  /\ IsSwap(sl, i) => IsSwap(sl2, i)
         /\ IsSpot(sl, i) => IsSpot(sl2, i)
         /\ Known(sl, i) => Known(sl2, i)
  BY DEF Grows, IsSwap, IsSpot, Known

LEMMA GrowsLed ==
  ASSUME NEW sl, NEW sl2, Grows(sl, sl2), NEW s \in Lists,
         NEW led \in BOOLEAN, NEW led2 \in BOOLEAN, led => led2, Led(sl, s, led)
  PROVE  Led(sl2, s, led2)
<1> SUFFICES ASSUME NEW k \in 1..Len(s), s[k] # NoSlice PROVE Follows(sl2, s, led2, k)
  BY DEF Led, Follows
<1>1. s[k] \in Ids /\ \A m \in 1..(k - 1) : s[m] \in Slots
  BY ListElements DEF Slots
<1>2. IsSwap(sl2, s[k]) \/ IsSpot(sl2, s[k])
  BY <1>1, GrowsKnown DEF Led, Follows
<1>3. ASSUME IsSpot(sl2, s[k]) PROVE led2 \/ \E m \in 1..(k - 1) : KnownAt(sl2, s, m)
  <2>1. IsSpot(sl, s[k])
    BY <1>1, <1>3, GrowsKnown DEF Led, Follows, IsSpot, IsSwap
  <2>2. led \/ \E m \in 1..(k - 1) : KnownAt(sl, s, m)
    BY <2>1 DEF Led, Follows
  <2>3. \A m \in 1..(k - 1) : KnownAt(sl, s, m) => KnownAt(sl2, s, m)
    BY <1>1, GrowsKnown DEF KnownAt, Slots
  <2> QED
    BY <2>2, <2>3
<1> QED
  BY <1>2, <1>3 DEF Follows

LEMMA GrowsHeard ==
  ASSUME NEW sl, NEW sl2, Grows(sl, sl2), NEW s \in Lists
  PROVE  Heard(sl, s) => Heard(sl2, s)
  BY GrowsKnown, ListElements DEF Heard, KnownAt, Slots

LEMMA GrowsHeaded ==
  ASSUME NEW sl, NEW sl2, Grows(sl, sl2), NEW s \in Lists, Headed(sl, s)
  PROVE  Headed(sl2, s)
  BY GrowsLed DEF Headed

\* What may be appended to a list that is in order.
LEMMA AppendLed ==
  ASSUME NEW sl, NEW s \in Lists, NEW led \in BOOLEAN, Led(sl, s, led), NEW i \in Slots,
         i # NoSlice => IsSwap(sl, i) \/ (IsSpot(sl, i) /\ (led \/ Heard(sl, s)))
  PROVE  Led(sl, Append(s, i), led)
<1> DEFINE t == Append(s, i)
<1>1. /\ Len(t) = Len(s) + 1 /\ Len(s) \in Nat
      /\ \A k \in 1..Len(s) : t[k] = s[k]
      /\ t[Len(s) + 1] = i
  BY Appended, ListElements
<1> HIDE DEF t
<1>2. \A k \in 1..Len(s) : KnownAt(sl, s, k) <=> KnownAt(sl, t, k)
  BY <1>1 DEF KnownAt
<1>3. ASSUME NEW k \in 1..Len(s) PROVE Follows(sl, t, led, k)
  <2>1. Follows(sl, s, led, k) /\ t[k] = s[k]
    BY <1>1, <1>3 DEF Led
  <2>2. \A m \in 1..(k - 1) : m \in 1..Len(s)
    BY <1>1, <1>3
  <2> QED
    BY <1>2, <2>1, <2>2 DEF Follows
<1>4. Follows(sl, t, led, Len(s) + 1)
  <2>1. Heard(sl, s) => \E m \in 1..(Len(s) + 1 - 1) : KnownAt(sl, t, m)
    BY <1>1, <1>2 DEF Heard
  <2>2. IsSwap(sl, i) => ~IsSpot(sl, i)
    BY DEF IsSwap, IsSpot
  <2> QED
    BY <1>1, <2>1, <2>2 DEF Follows
<1> QED
  BY <1>1, <1>3, <1>4 DEF Led, t

LEMMA AppendHeaded ==
  ASSUME NEW sl, NEW s \in Lists, Headed(sl, s), NEW i \in Slots,
         IF i = NoSlice THEN s # <<>> ELSE IsSwap(sl, i) \/ (IsSpot(sl, i) /\ Heard(sl, s))
  PROVE  Append(s, i) \in Lists /\ Headed(sl, Append(s, i))
<1>1. Led(sl, Append(s, i), FALSE)
  BY AppendLed DEF Headed
<1>2. Append(s, i)[1] # NoSlice
  <2>1. CASE s = <<>>
    BY <2>1, Appended, ListElements
  <2>2. CASE s # <<>>
    BY <2>2, Appended, ListElements DEF Headed
  <2> QED
    BY <2>1, <2>2
<1> QED
  BY <1>1, <1>2, Appended DEF Headed

\* A step of the filter: it drops slices of which nothing was heard, and so
\* never the swap slice that a spot slice it keeps comes after.
LEMMA FilterStep ==
  ASSUME NEW sl, NEW keep \in Lists, NEW todo \in Lists, todo # <<>>, Head(todo) # NoSlice,
         Headed(sl, keep), Led(sl, todo, Heard(sl, keep)),
         NEW keep2, keep2 = IF sl[Head(todo)].latest # "none" THEN Append(keep, Head(todo)) ELSE keep
  PROVE  /\ keep2 \in Lists /\ Headed(sl, keep2)
         /\ Led(sl, Tail(todo), Heard(sl, keep2))
<1> DEFINE i == Head(todo)  t == Tail(todo)
<1>1. /\ i = todo[1] /\ i \in Slots /\ t \in Lists
      /\ Len(t) = Len(todo) - 1 /\ Len(todo) \in Nat \ {0}
      /\ \A k \in 1..(Len(todo) - 1) : t[k] = todo[k + 1]
  BY Tailed
<1>2. i # NoSlice
  OBVIOUS
<1>3. IsSwap(sl, i) \/ (IsSpot(sl, i) /\ Heard(sl, keep))
  <2>1. Follows(sl, todo, Heard(sl, keep), 1)
    BY <1>1 DEF Led
  <2>2. \A m \in 1..(1 - 1) : FALSE
    OBVIOUS
  <2> QED
    BY <1>1, <1>2, <2>1, <2>2 DEF Follows
<1>4. keep2 \in Lists /\ Headed(sl, keep2)
  BY <1>1, <1>2, <1>3, AppendHeaded
<1>5. Heard(sl, keep) => Heard(sl, keep2)
  <2>1. CASE keep2 = keep
    BY <2>1
  <2>2. CASE keep2 = Append(keep, i)
    <3>1. /\ Len(keep2) = Len(keep) + 1 /\ Len(keep) \in Nat
          /\ \A k \in 1..Len(keep) : keep2[k] = keep[k]
      BY <1>1, <2>2, Appended, ListElements
    <3>2. \A k \in 1..Len(keep) : k \in 1..Len(keep2)
      BY <3>1
    <3> QED
      BY <3>1, <3>2 DEF Heard, KnownAt
  <2> QED
    BY <2>1, <2>2
<1>6. Known(sl, i) => Heard(sl, keep2)
  <2> SUFFICES ASSUME Known(sl, i) PROVE Heard(sl, keep2)
    OBVIOUS
  <2>1. keep2 = Append(keep, i)
    BY DEF Known
  <2>2. /\ Len(keep2) = Len(keep) + 1 /\ keep2[Len(keep) + 1] = i /\ Len(keep) \in Nat
    BY <1>1, <2>1, Appended, ListElements
  <2> QED
    BY <1>2, <2>2 DEF Heard, KnownAt
<1> HIDE DEF t, i
<1>7. ASSUME NEW k \in 1..Len(t), t[k] # NoSlice
      PROVE  Follows(sl, t, Heard(sl, keep2), k)
  <2>1. Follows(sl, todo, Heard(sl, keep), k + 1) /\ t[k] = todo[k + 1]
    BY <1>1, <1>7 DEF Led
  <2>2. ASSUME NEW m \in 1..(k + 1 - 1), KnownAt(sl, todo, m)
        PROVE  Heard(sl, keep2) \/ \E n \in 1..(k - 1) : KnownAt(sl, t, n)
    <3>1. CASE m = 1
      BY <1>1, <1>6, <2>2, <3>1 DEF KnownAt
    <3>2. CASE m # 1
      <4>1. m - 1 \in 1..(k - 1) /\ t[m - 1] = todo[m]
        BY <1>1, <1>7, <2>2, <3>2
      <4> QED
        BY <2>2, <4>1 DEF KnownAt
    <3> QED
      BY <3>1, <3>2
  <2> QED
    BY <1>5, <1>7, <2>1, <2>2 DEF Follows
<1> QED
  BY <1>4, <1>7 DEF Led, Follows, t

-----------------------------------------------------------------------------
(* What a step does to the slices *)

RolesKept == \A i \in Ids : i <= seqId => slice'[i].role = slice[i].role

LEMMA FirstGrows ==
  ASSUME IInv, NEW size \in Sizes, firstOrder(size)
  PROVE  /\ Grows(slice, slice') /\ RolesKept /\ seqId + 1 \in Ids
         /\ slice'[seqId + 1].role = "first" /\ slice[seqId + 1].role = "none"
<1>1. /\ seqId + 1 \in Ids /\ slice'[seqId + 1].role = "first"
      /\ \A i \in Ids : i # seqId + 1 => slice'[i] = slice[i]
  BY FirstOrders
<1>2. slice[seqId + 1].role = "none"
  BY <1>1, Numbers
<1>3. RolesKept
  BY <1>1, Numbers DEF RolesKept
<1> QED
  BY <1>1, <1>2, <1>3 DEF Grows

\* Roles that stay and states that stay known.
LEMMA FieldGrows ==
  ASSUME slice \in Slices, NEW i \in Ids
  PROVE  /\ \A x : slice' = [slice EXCEPT ![i].ready = x] => Grows(slice, slice') /\ RolesKept
         /\ \A x : slice' = [slice EXCEPT ![i].ignored = x] => Grows(slice, slice') /\ RolesKept
         /\ \A x \in OrderState : slice' = [slice EXCEPT ![i].latest = x] => Grows(slice, slice') /\ RolesKept
         /\ slice' = slice => Grows(slice, slice') /\ RolesKept
<1>1. "none" \notin OrderState
  BY DEF OrderState
<1> QED
  BY <1>1 DEF Grows, RolesKept, Slices, SliceType

\* The report of a swap execution is noted with its slice, before the spot
\* slice that answers it is created.
LEMMA ReturnGrows ==
  ASSUME IInv, NEW ev \in chOrder, SwapReturn(ev), Swap(ev.id), orderSlices[1] \in Ids
  PROVE  /\ Grows(slice, slice') /\ RolesKept /\ Known(slice', ev.id)
         /\ seqId + 1 \in Ids /\ IsSpot(slice', seqId + 1)
<1>1. /\ seqId + 1 \in Ids /\ seqId' = seqId + 1
      /\ slice'[seqId + 1].role = "spot"
      /\ \A j \in Ids : j <= seqId => /\ slice'[j].role = slice[j].role
                                      /\ slice'[j].target = slice[j].target
      /\ ev.id \in Ids /\ ev.id <= seqId /\ ev.state \in OrderState
  BY SwapReturns, Numbers DEF IInv, TypeOK, EventType
<1> DEFINE first    == orderSlices[1]
           reported == [slice EXCEPT ![ev.id].latest = ev.state, ![ev.id].present = ev.acc]
           credited == IF first = ev.id THEN reported
                       ELSE [reported EXCEPT ![first].present = @ + Credit(ev)]
<1>2. /\ reported[ev.id].latest = ev.state
      /\ \A j \in Ids : j # ev.id => reported[j] = slice[j]
      /\ reported \in Slices
  <2>1. slice \in Slices /\ ev.acc \in Nat
    BY DEF IInv, TypeOK, EventType, Slices
  <2>2. [slice EXCEPT ![ev.id].latest = ev.state] \in Slices
    BY <1>1, <2>1, SliceUpdates DEF Slices
  <2>3. reported \in Slices
    BY <1>1, <2>1, <2>2, SliceUpdates DEF Slices
  <2> QED
    BY <1>1, <2>1, <2>2, <2>3 DEF Slices, SliceType
<1> HIDE DEF reported
<1>3. \A j \in Ids : credited[j].latest = reported[j].latest
  BY <1>2 DEF Slices, SliceType
<1>4. \A j \in Ids : j # seqId + 1 => slice'[j] = credited[j]
  BY <1>2 DEF SwapReturn, reported, Slices
<1> HIDE DEF credited
<1>5. \A j \in Ids : j <= seqId => slice'[j].latest = IF j = ev.id THEN ev.state ELSE slice[j].latest
  <2>1. \A j \in Ids : j <= seqId => j # seqId + 1
    BY Numbers
  <2> QED
    BY <1>2, <1>3, <1>4, <2>1
<1>6. "none" \notin OrderState
  BY DEF OrderState
<1>7. \A j \in Ids : slice[j].role # "none" => j <= seqId
  BY Numbers
<1>8. Grows(slice, slice')
  BY <1>1, <1>5, <1>6, <1>7 DEF Grows
<1>9. Known(slice', ev.id)
  BY <1>1, <1>5, <1>6 DEF Known, IsSwap, Swap
<1> QED
  BY <1>1, <1>8, <1>9 DEF IsSpot, RolesKept

LEMMA NextGrows ==
  ASSUME IInv, NEW i \in Ids, Swap(i), nextOrder(i)
  PROVE  Grows(slice, slice') /\ RolesKept
<1>1. \A j \in Ids : j <= seqId => /\ slice'[j].role = slice[j].role
                                  /\ slice'[j].target = slice[j].target
  BY NextOrders
<1>2. \A j \in Ids : slice[j].role # "none" => j <= seqId /\ j # seqId + 1
  BY Numbers
<1>3. slice \in Slices
  BY DEF IInv, TypeOK, Slices
<1>4. \A j \in Ids : j # seqId + 1 => slice'[j].latest = slice[j].latest
  <2>1. [slice EXCEPT ![i].ignored = TRUE][i].latest = slice[i].latest
    BY <1>3 DEF Slices, SliceType
  <2>2. \A j \in Ids : j # seqId + 1 => slice'[j] = [slice EXCEPT ![i].ignored = TRUE][j]
    BY <1>3 DEF nextOrder, Slices
  <2>3. \A j \in Ids : [slice EXCEPT ![i].ignored = TRUE][j].latest = slice[j].latest
    BY <1>3, <2>1 DEF Slices
  <2> QED
    BY <2>2, <2>3
<1> QED
  BY <1>1, <1>2, <1>4 DEF Grows, RolesKept

LEMMA IgnoreGrows ==
  ASSUME slice \in Slices, NEW S, Ignore(S)
  PROVE  Grows(slice, slice') /\ RolesKept
  BY DEF Ignore, Grows, RolesKept, Slices, SliceType

\* The head of a list without nil slices is a slice.
LEMMA HeadTracked ==
  ASSUME TypeOK, NEW ev \in chOrder, ~MeetsNil(ev.id, FALSE), ev.id \in Tracked
  PROVE  orderSlices[1] \in Ids
<1>1. \A k \in DOMAIN orderSlices : orderSlices[k] # NoSlice
  BY DEF MeetsNil
<1>2. orderSlices \in Seq(Slots) /\ orderSlices # <<>>
  BY DEF Tracked, Elements, TypeOK
<1> QED
  BY <1>1, <1>2 DEF Slots

\* Every step lets the slices grow.
LEMMA StepGrows ==
  ASSUME IInv, Looping, [Next]_vars
  PROVE  Grows(slice, slice') /\ RolesKept
<1>0. slice \in Slices /\ chOrder \subseteq EventType
  BY DEF IInv, TypeOK, Slices
<1>1. CASE UNCHANGED slice
  BY <1>1 DEF Grows, RolesKept
<1>2. ASSUME NEW i \in Ids, executeSlice(i)
      PROVE  Grows(slice, slice') /\ RolesKept
  BY <1>0, <1>2, FieldGrows DEF executeSlice
<1>3. ASSUME NEW ev \in chOrder, onOrderEvent(ev)
      PROVE  Grows(slice, slice') /\ RolesKept
  <2>1. ev.id \in Ids /\ ev.state \in OrderState
    BY <1>0 DEF EventType
  <2>2. \/ UNCHANGED slice \/ slice' = [slice EXCEPT ![ev.id].latest = ev.state]
        \/ /\ ~MeetsNil(ev.id, FALSE) /\ ev.id \in Tracked /\ Swap(ev.id) /\ SwapReturn(ev)
    BY <1>3 DEF onOrderEvent, SpotReturn, sliceVars
  <2>3. ASSUME slice' = [slice EXCEPT ![ev.id].latest = ev.state]
        PROVE  Grows(slice, slice') /\ RolesKept
    BY <1>0, <2>1, <2>3, FieldGrows
  <2>4. ASSUME ~MeetsNil(ev.id, FALSE), ev.id \in Tracked, Swap(ev.id), SwapReturn(ev)
        PROVE  Grows(slice, slice') /\ RolesKept
    BY <2>4, HeadTracked, ReturnGrows DEF IInv
  <2> QED
    BY <1>1, <2>2, <2>3, <2>4
<1>4. CASE StartCheck \/ BookFirst
  <2>1. UNCHANGED slice \/ \E size \in Sizes : firstOrder(size)
    BY <1>4 DEF StartCheck, BookFirst, sliceVars
  <2> QED
    BY <1>1, <2>1, FirstGrows
<1>5. CASE BookQuery
  <2>1. \/ UNCHANGED slice
        \/ /\ Head(book.todo) \in Ids /\ exch[Head(book.todo)].state \in OrderState
           /\ slice' = [slice EXCEPT ![Head(book.todo)].latest = exch[Head(book.todo)].state]
    <3>1. book.todo \in Seq(Slots) /\ book.todo # <<>>
      BY <1>5 DEF BookQuery, IInv, TypeOK, BookType
    <3>2. Head(book.todo) \in Ids
      BY <1>5, <3>1, SlotSeqs DEF BookQuery, Slots
    <3>3. exch[Head(book.todo)].state \in OrderState \cup {"absent"}
      BY <3>2 DEF IInv, TypeOK
    <3> QED
      BY <1>5, <3>2, <3>3 DEF BookQuery
  <2>2. ASSUME NEW j \in Ids, NEW x \in OrderState, slice' = [slice EXCEPT ![j].latest = x]
        PROVE  Grows(slice, slice') /\ RolesKept
    BY <1>0, <2>2, FieldGrows
  <2> QED
    BY <1>1, <2>1, <2>2
<1>6. CASE BookFinish \/ BookCheck
  BY <1>0, <1>6, IgnoreGrows DEF BookFinish, BookCheck
<1>7. CASE BookReprice
  <2>1. PICK k \in DOMAIN book.todo : CanReprice(book.todo[k]) /\ nextOrder(book.todo[k])
    BY <1>7 DEF BookReprice
  <2>2. book.todo[k] \in Ids /\ Swap(book.todo[k])
    BY <1>7, <2>1 DEF BookReprice, Looping, CanReprice
  <2> QED
    BY <2>1, <2>2, NextGrows
<1>8. CASE \/ RunDone \/ RunTimer \/ RunBook \/ ExecuteNil \/ ManagerStop \/ StartRead \/ StartWrite
           \/ PrintTask \/ (\E e \in book.due : StoreTime(e)) \/ (\E i \in Ids : OnOrderError(i)) \/ Exchange
           \/ (\E leg, here, next : BookRetreat(leg, here, next))
           \/ BookQueried \/ BookFilter \/ BookAssign \/ BookNil \/ BookRepriced \/ UNCHANGED vars
  <2>1. UNCHANGED slice
    BY <1>8 DEF RunDone, RunTimer, RunBook, ExecuteNil, ManagerStop, StartRead, StartWrite,
       PrintTask, StoreTime, OnOrderError, Exchange, ExecuteSwap, ExecuteSpot, Disconnect, Reconnect,
       BookRetreat, BookQueried, BookFilter, BookAssign, BookNil, BookRepriced, sliceVars, vars
  <2> QED
    BY <1>1, <2>1
<1> QED
  BY <1>2, <1>3, <1>4, <1>5, <1>6, <1>7, <1>8 DEF Next, Run, onStart, onOrderBook

-----------------------------------------------------------------------------
(* The head of the list *)

\* The recovery works on a copy of the list, and builds a new one.
Recovered ==
    /\ book.pc = "filter" => /\ Headed(slice, book.keep)
                             /\ Led(slice, book.todo, Heard(slice, book.keep))
    /\ book.pc # "filter" => book.keep = <<>>

InOrder ==
    /\ Headed(slice, orderSlices)
    /\ Headed(slice, start.base)
    /\ Starting => slice[start.new].role = "first"
    /\ Recovered
    /\ book.pc = "reprice" => orderSlices # <<>>

\* The variables the lemmas about lists look into, each by its type.
LEMMA ListTypes ==
  ASSUME TypeOK
  PROVE  /\ slice \in Slices /\ orderSlices \in Lists /\ start.base \in Lists
         /\ book.todo \in Lists /\ book.keep \in Lists
         /\ start \in StartType /\ book \in BookType
         /\ start.new \in Slots /\ seqId \in Nat
  BY BoundAssumption DEF TypeOK, Slices, Lists, StartType, BookType

\* A step that leaves the recovery where it is, or happens outside its filter.
Elsewhere ==
    /\ book'.keep = book.keep
    /\ \/ book'.pc = book.pc /\ book'.todo = book.todo
       \/ book.pc # "filter" /\ book'.pc # "filter"

LEMMA ElsewhereRecovered ==
  ASSUME TypeOK, Grows(slice, slice'), Recovered, Elsewhere
  PROVE  Recovered'
<1>1. CASE book.pc = "filter"
  <2>1. Headed(slice, book.keep) /\ Led(slice, book.todo, Heard(slice, book.keep))
    BY <1>1 DEF Recovered
  <2>2. Headed(slice', book.keep) /\ (Heard(slice, book.keep) => Heard(slice', book.keep))
    BY <2>1, ListTypes, GrowsHeaded, GrowsHeard
  <2>3. Heard(slice, book.keep) \in BOOLEAN /\ Heard(slice', book.keep) \in BOOLEAN
    BY DEF Heard
  <2>4. Led(slice', book.todo, Heard(slice', book.keep))
    BY <2>1, <2>2, <2>3, ListTypes, GrowsLed
  <2> QED
    BY <1>1, <2>2, <2>4 DEF Recovered, Elsewhere
<1>2. CASE book.pc # "filter"
  BY <1>2 DEF Recovered, Elsewhere
<1> QED
  BY <1>1, <1>2

\* A step that leaves orderSlices and the goroutine onStart alone.
Aside ==
    /\ UNCHANGED <<orderSlices, start>>
    /\ book'.pc = "reprice" => book.pc = "reprice" \/ orderSlices # <<>>

LEMMA AsideInOrder ==
  ASSUME IInv, InOrder, Grows(slice, slice'), Aside, Recovered'
  PROVE  InOrder'
<1>1. TypeOK
  BY DEF IInv
<1>2. Headed(slice', orderSlices) /\ Headed(slice', start.base)
  BY <1>1, ListTypes, GrowsHeaded DEF InOrder
<1>3. Starting => slice'[start.new].role = "first"
  BY DEF IInv, Unsent, Starting, InOrder, Grows
<1> QED
  BY <1>2, <1>3 DEF InOrder, Aside, Starting

\* A step that appends to orderSlices.
LEMMA AppendInOrder ==
  ASSUME IInv, InOrder, Grows(slice, slice'), UNCHANGED start, Elsewhere, NEW i \in Slots,
         orderSlices' = Append(orderSlices, i),
         IF i = NoSlice THEN orderSlices # <<>>
         ELSE IsSwap(slice', i) \/ (IsSpot(slice', i) /\ Heard(slice', orderSlices))
  PROVE  InOrder'
<1>1. TypeOK
  BY DEF IInv
<1>2. Headed(slice', orderSlices) /\ Headed(slice', start.base)
  BY <1>1, ListTypes, GrowsHeaded DEF InOrder
<1>3. Headed(slice', orderSlices') /\ orderSlices' # <<>>
  BY <1>1, <1>2, ListTypes, AppendHeaded, Appended
<1>4. Starting => slice'[start.new].role = "first"
  BY DEF IInv, Unsent, Starting, InOrder, Grows
<1>5. Recovered'
  BY <1>1, ElsewhereRecovered DEF InOrder
<1> QED
  BY <1>2, <1>3, <1>4, <1>5 DEF InOrder, Starting

LEMMA StartInOrder ==
  ASSUME IInv, InOrder, StartCheck \/ StartRead \/ StartWrite, Grows(slice, slice')
  PROVE  InOrder'
<1>1. TypeOK /\ start \in StartType
  BY ListTypes DEF IInv
<1>2. UNCHANGED book /\ Recovered'
  <2>1. UNCHANGED book
    BY DEF StartCheck, StartRead, StartWrite
  <2> QED
    BY <1>1, <2>1, ElsewhereRecovered DEF Elsewhere, InOrder
<1>3. Headed(slice', orderSlices) /\ Headed(slice', start.base)
  BY <1>1, ListTypes, GrowsHeaded DEF InOrder
<1>4. CASE StartCheck
  <2>1. start'.base = start.base /\ UNCHANGED orderSlices
    BY <1>1, <1>4 DEF StartCheck, StartType
  <2>2. ASSUME Starting' PROVE slice'[start'.new].role = "first"
    <3>1. PICK size \in Sizes : firstOrder(size) /\ start' = [start EXCEPT !.pc = "read", !.new = seqId + 1]
      BY <1>1, <1>4, <2>2 DEF StartCheck, Starting, StartType
    <3> QED
      BY <1>1, <3>1, FirstGrows DEF StartType
  <2> QED
    BY <1>2, <1>3, <2>1, <2>2 DEF InOrder
<1>5. CASE StartRead
  <2>1. /\ start'.base = orderSlices /\ start'.new = start.new /\ Starting
        /\ UNCHANGED <<orderSlices, slice>>
    BY <1>1, <1>5 DEF StartRead, StartType, sliceVars, Starting
  <2> QED
    BY <1>2, <1>3, <2>1 DEF InOrder
<1>6. CASE StartWrite
  <2>1. /\ start'.base = <<>> /\ start'.pc = "done" /\ Starting
        /\ orderSlices' = Append(start.base, start.new) /\ slice' = slice
    BY <1>1, <1>6 DEF StartWrite, StartType, Starting, Enqueue
  <2>2. start.new \in Ids /\ IsSwap(slice', start.new)
    BY <2>1 DEF InOrder, IsSwap, IInv, Unsent, Starting
  <2>3. Headed(slice', orderSlices') /\ orderSlices' # <<>>
    BY <1>1, <1>3, <2>1, <2>2, ListTypes, AppendHeaded, Appended DEF Slots, Ids, NoSlice
  <2>4. Headed(slice', start'.base)
    BY <2>1 DEF Headed, Led
  <2> QED
    BY <1>2, <2>1, <2>3, <2>4 DEF InOrder, Starting
<1> QED
  BY <1>4, <1>5, <1>6

LEMMA ReportInOrder ==
  ASSUME IInv, InOrder, NEW ev \in chOrder, onOrderEvent(ev), Grows(slice, slice')
  PROVE  InOrder'
<1>1. TypeOK
  BY DEF IInv
<1>2. UNCHANGED <<start, book>>
  BY DEF onOrderEvent
<1>3. CASE UNCHANGED orderSlices
  BY <1>1, <1>2, <1>3, AsideInOrder, ElsewhereRecovered DEF Aside, Elsewhere, InOrder
<1>4. CASE ~MeetsNil(ev.id, FALSE) /\ ev.id \in Tracked /\ Swap(ev.id) /\ SwapReturn(ev)
  <2>1. Known(slice', ev.id) /\ seqId + 1 \in Ids /\ IsSpot(slice', seqId + 1)
    BY <1>1, <1>4, HeadTracked, ReturnGrows
  <2>2. orderSlices' = Append(orderSlices, seqId + 1)
    BY <1>4 DEF SwapReturn, Enqueue
  <2>3. Heard(slice', orderSlices)
    BY <1>1, <1>4, <2>1, ListTypes, ListElements DEF Tracked, Elements, Heard, KnownAt, MeetsNil
  <2> QED
    BY <1>2, <2>1, <2>2, <2>3, AppendInOrder DEF Elsewhere, Slots, Ids, NoSlice
<1> QED
  BY <1>3, <1>4 DEF onOrderEvent, SpotReturn, sliceVars

\* The book goroutine outside the filter and the repricing loop.
LEMMA BookInOrder ==
  ASSUME IInv, InOrder, Grows(slice, slice'),
         \/ RunBook \/ (\E e \in book.due : StoreTime(e))
         \/ BookRetreat(SwapLeg, "retreatSwap", "retreatSpot")
         \/ BookRetreat(SpotLeg, "retreatSpot", "query")
         \/ BookQuery \/ BookFinish \/ BookCheck \/ BookRepriced
  PROVE  InOrder'
<1>1. TypeOK /\ book \in BookType
  BY ListTypes DEF IInv
<1>2. UNCHANGED <<orderSlices, start>>
  BY DEF RunBook, StoreTime, BookRetreat, BookQuery, BookFinish, BookCheck, BookRepriced, sliceVars
<1>3. Elsewhere /\ (book'.pc = "reprice" => book.pc = "reprice" \/ orderSlices # <<>>)
  <2>1. \A e \in Nat : Leaving(e).pc = book.pc /\ Leaving(e).todo = book.todo /\ Leaving(e).keep = book.keep
    BY <1>1 DEF Leaving, BookType
  <2>2. BookReturn => book'.pc = "idle" /\ book'.keep = book.keep
    <3>1. book.epoch \in Nat /\ Leaving(book.epoch) \in BookType
      BY <1>1, Leaves DEF BookType
    <3> QED
      BY <2>1, <3>1 DEF BookReturn, BookType
  <2>3. CASE RunBook
    <3>1. net.epoch \in Nat
      BY <1>1 DEF TypeOK
    <3> QED
      BY <1>1, <2>1, <2>3, <3>1 DEF RunBook, Elsewhere, BookType
  <2>4. ASSUME NEW e \in book.due, StoreTime(e)
        PROVE  Elsewhere /\ (book'.pc = "reprice" => book.pc = "reprice" \/ orderSlices # <<>>)
    BY <1>1, <2>4 DEF StoreTime, Elsewhere, BookType
  <2>5. CASE \/ BookRetreat(SwapLeg, "retreatSwap", "retreatSpot")
             \/ BookRetreat(SpotLeg, "retreatSpot", "query")
    BY <1>1, <2>5 DEF BookRetreat, Elsewhere, BookType
  <2>6. CASE BookQuery
    BY <1>1, <2>6 DEF BookQuery, Elsewhere, BookType
  <2>7. CASE BookFinish \/ BookRepriced
    BY <2>2, <2>7 DEF BookFinish, BookRepriced, Elsewhere
  <2>8. CASE BookCheck
    BY <1>1, <2>2, <2>8 DEF BookCheck, Elsewhere, BookType
  <2> QED
    BY <2>3, <2>4, <2>5, <2>6, <2>7, <2>8
<1>4. Recovered'
  BY <1>1, <1>3, ElsewhereRecovered DEF InOrder
<1> QED
  BY <1>2, <1>3, <1>4, AsideInOrder DEF Aside

\* The filter, from the copy it works on to the list it assigns.
LEMMA FilterInOrder ==
  ASSUME IInv, InOrder, BookQueried \/ BookFilter \/ BookAssign
  PROVE  InOrder'
<1>1. TypeOK /\ book \in BookType
  BY ListTypes DEF IInv
<1>2. UNCHANGED <<slice, start>> /\ Grows(slice, slice')
  BY DEF BookQueried, BookFilter, BookAssign, sliceVars, Grows
<1>3. CASE BookQueried
  <2>1. /\ UNCHANGED orderSlices /\ book.keep = <<>>
        /\ book'.pc = "filter" /\ book'.todo = orderSlices /\ book'.keep = <<>>
    BY <1>1, <1>3 DEF BookQueried, BookType, sliceVars, InOrder, Recovered
  <2>2. Headed(slice', <<>>)
    BY DEF Headed, Led
  <2>3. Led(slice', orderSlices, Heard(slice', <<>>))
    BY <1>2, ListTypes, <1>1, GrowsLed DEF InOrder, Headed, Heard
  <2>4. Recovered'
    BY <2>1, <2>2, <2>3 DEF Recovered
  <2> QED
    BY <1>2, <2>1, <2>4, AsideInOrder DEF Aside
<1>4. CASE BookFilter
  <2> DEFINE keep2 == IF slice[Head(book.todo)].latest # "none"
                      THEN Append(book.keep, Head(book.todo)) ELSE book.keep
  <2>1. /\ UNCHANGED orderSlices /\ book.pc = "filter" /\ book'.pc = "filter"
        /\ book.todo # <<>> /\ Head(book.todo) # NoSlice
        /\ book'.todo = Tail(book.todo) /\ book'.keep = keep2
    BY <1>1, <1>4 DEF BookFilter, BookType, sliceVars, Keeps
  <2>2. book.todo \in Lists /\ book.keep \in Lists
    BY <1>1, ListTypes
  <2>3. Headed(slice, book.keep) /\ Led(slice, book.todo, Heard(slice, book.keep))
    BY <2>1 DEF InOrder, Recovered
  <2> HIDE DEF keep2
  <2>4. keep2 = IF slice[Head(book.todo)].latest # "none"
                THEN Append(book.keep, Head(book.todo)) ELSE book.keep
    BY DEF keep2
  <2>5. Headed(slice, keep2) /\ Led(slice, Tail(book.todo), Heard(slice, keep2))
    BY <2>1, <2>2, <2>3, <2>4, FilterStep
  <2>6. Recovered'
    BY <1>2, <2>1, <2>5 DEF Recovered
  <2> QED
    BY <1>2, <2>1, <2>6, AsideInOrder DEF Aside
<1>5. CASE BookAssign
  <2>1. /\ orderSlices' = book.keep /\ book.pc = "filter"
        /\ book'.pc = "lock" /\ book'.keep = <<>>
    BY <1>1, <1>5 DEF BookAssign, BookType
  <2> QED
    BY <1>2, <2>1 DEF InOrder, Recovered, Starting
<1> QED
  BY <1>3, <1>4, <1>5

\* An empty list starts over, and a repriced slice is followed by the next one.
LEMMA BookAppends ==
  ASSUME IInv, Looping, InOrder, BookFirst \/ BookReprice, Grows(slice, slice')
  PROVE  InOrder'
<1>1. TypeOK /\ book \in BookType
  BY ListTypes DEF IInv
<1>2. UNCHANGED start
  BY DEF BookFirst, BookReprice
<1>3. CASE BookFirst
  <2>1. Elsewhere /\ book'.pc = "idle"
    <3>1. BookReturn /\ book.pc = "lock"
      BY <1>3 DEF BookFirst
    <3>2. book.epoch \in Nat /\ Leaving(book.epoch) \in BookType
      BY <1>1, Leaves DEF BookType
    <3>3. Leaving(book.epoch).keep = book.keep
      BY <1>1, <3>2 DEF Leaving, BookType
    <3> QED
      BY <3>1, <3>2, <3>3 DEF BookReturn, Elsewhere, BookType
  <2>2. CASE UNCHANGED sliceVars
    <3>1. Recovered'
      BY <1>1, <2>1, ElsewhereRecovered DEF InOrder
    <3> QED
      BY <1>2, <2>1, <2>2, <3>1, AsideInOrder DEF Aside, sliceVars
  <2>3. ASSUME NEW size \in Sizes, firstOrder(size), Enqueue(orderSlices, seqId + 1)
        PROVE  InOrder'
    <3>1. seqId + 1 \in Ids /\ IsSwap(slice', seqId + 1)
      BY <2>3, FirstGrows DEF IsSwap
    <3> QED
      BY <1>2, <2>1, <2>3, <3>1, AppendInOrder DEF Enqueue, Slots, Ids, NoSlice
  <2> QED
    BY <1>3, <2>2, <2>3 DEF BookFirst
<1>4. CASE BookReprice
  <2>1. PICK k \in DOMAIN book.todo : /\ CanReprice(book.todo[k]) /\ nextOrder(book.todo[k])
                                      /\ book' = [book EXCEPT !.todo = SubSeq(@, k + 1, Len(@))]
    BY <1>4 DEF BookReprice
  <2> DEFINE i == book.todo[k]
  <2>2. i \in Ids /\ Swap(i)
    BY <1>4, <2>1 DEF BookReprice, Looping, CanReprice
  <2>3. Elsewhere /\ orderSlices # <<>>
    BY <1>1, <1>4, <2>1 DEF BookReprice, BookType, Elsewhere, InOrder
  <2> HIDE DEF i
  <2>4. CASE NothingLeft(i)
    <3>1. orderSlices' = Append(orderSlices, NoSlice)
      BY <2>1, <2>4 DEF i, nextOrder, Enqueue
    <3> QED
      BY <1>2, <2>3, <3>1, AppendInOrder DEF Slots
  <2>5. CASE ~NothingLeft(i)
    <3>1. /\ orderSlices' = Append(orderSlices, seqId + 1) /\ seqId < MaxSlices
          /\ slice' = [slice EXCEPT ![i].ignored = TRUE,
                                    ![seqId + 1] = NewSlice("next", slice[i].target - slice[i].present, FALSE, NoFill)]
      BY <2>1, <2>5 DEF i, nextOrder, Enqueue
    <3>2. seqId + 1 \in Ids /\ slice \in Slices
      BY <1>1, <3>1, ListTypes, Numbers DEF Ids
    <3>3. IsSwap(slice', seqId + 1)
      BY <3>1, <3>2 DEF Slices, NewSlice, IsSwap
    <3> QED
      BY <1>2, <2>3, <3>1, <3>2, <3>3, AppendInOrder DEF Slots, Ids, NoSlice
  <2> QED
    BY <2>4, <2>5
<1> QED
  BY <1>3, <1>4

LEMMA StepInOrder ==
  ASSUME IInv, Looping, InOrder, [Next]_vars
  PROVE  InOrder'
<1>0. Grows(slice, slice') /\ TypeOK
  BY StepGrows DEF IInv
<1>1. ASSUME UNCHANGED <<orderSlices, start, book>>
      PROVE  InOrder'
  BY <1>0, <1>1, AsideInOrder, ElsewhereRecovered DEF Aside, Elsewhere, InOrder
<1>2. CASE \/ RunDone \/ RunTimer \/ ExecuteNil \/ ManagerStop \/ PrintTask
           \/ (\E i \in Ids : executeSlice(i) \/ OnOrderError(i)) \/ Exchange \/ BookNil \/ UNCHANGED vars
  <2>1. UNCHANGED <<orderSlices, start, book>>
    BY <1>2 DEF RunDone, RunTimer, ExecuteNil, ManagerStop, PrintTask, executeSlice, OnOrderError,
       Exchange, ExecuteSwap, ExecuteSpot, Disconnect, Reconnect, BookNil, sliceVars, vars
  <2> QED
    BY <1>1, <2>1
<1>3. CASE onStart
  BY <1>0, <1>3, StartInOrder DEF onStart
<1>4. CASE \E ev \in chOrder : onOrderEvent(ev)
  BY <1>0, <1>4, ReportInOrder
<1>5. CASE RunBook \/ (\E e \in book.due : StoreTime(e))
  BY <1>0, <1>5, BookInOrder
<1>6. CASE onOrderBook
  BY <1>0, <1>2, <1>6, BookInOrder, FilterInOrder, BookAppends DEF onOrderBook
<1> QED
  BY <1>2, <1>3, <1>4, <1>5, <1>6 DEF Next, Run

\* Every reachable state has its lists in order.
LEMMA InOrderInvariance == Spec => [](Inductive /\ InOrder)
<1>1. Init => InOrder
  BY DEF Init, InOrder, Recovered, Headed, Led, Starting
<1>2. Inductive /\ InOrder /\ [Next]_vars => InOrder'
  BY StepInOrder DEF Inductive
<1> QED
  BY <1>1, <1>2, Invariance, PTL DEF Spec

\* onOrderEvent credits executions to the head of orderSlices (order.go:733):
\* that is a swap slice in every state, whatever recoveries, repricings and
\* the race for the first order did to the list.
THEOREM Heads == Spec => []HeadIsSwap
<1>1. Inductive /\ InOrder => HeadIsSwap
  <2> SUFFICES ASSUME IInv, InOrder, orderSlices # <<>>
               PROVE  orderSlices[1] # NoSlice /\ Swap(orderSlices[1])
    BY DEF Inductive, HeadIsSwap
  <2>1. orderSlices[1] # NoSlice /\ 1 \in 1..Len(orderSlices)
    BY ListTypes, ListElements DEF IInv, InOrder, Headed
  <2>2. Follows(slice, orderSlices, FALSE, 1)
    BY <2>1 DEF InOrder, Headed, Led
  <2>3. \A m \in 1..(1 - 1) : FALSE
    OBVIOUS
  <2> QED
    BY <2>1, <2>2, <2>3 DEF Follows, IsSwap, Swap
<1> QED
  BY <1>1, InOrderInvariance, PTL

-----------------------------------------------------------------------------
(* The executions that are lost *)

\* An empty list has nothing in it for the recovery to copy.
Echo ==
    orderSlices = <<>> =>
        /\ book.keep = <<>>
        /\ book.pc \in {"query", "filter"} => book.todo = <<>>

\* Unless there are two first orders, onStart is alone in filling the list.
Alone ==
    /\ start.pc # "write" => start.base = <<>>
    /\ Starting /\ ~TwoFirsts => orderSlices = <<>> /\ start.base = <<>>

\* A recovery follows an outage.
Recovering == book.pc \in {"retreatSwap", "retreatSpot", "query", "filter"}
Gap        == Recovering => net.epoch > 0

\* Without an outage, and with one first order at most, every slice is in the
\* list but the one that onStart holds.
Held(i)    == Starting /\ i = start.new
AllTracked == Untroubled => \A i \in Ids : i <= seqId => i \in Tracked \/ Held(i)

\* Until there is an outage, the connections are up and the books have no gap.
Unbroken == used.outages = 0 => net.up /\ net.epoch = 0

Accounted == Echo /\ Alone /\ Gap /\ Unbroken /\ AllTracked

LEMMA FirstsGrow ==
  ASSUME Grows(slice, slice')
  PROVE  Firsts \subseteq Firsts' /\ (TwoFirsts => TwoFirsts')
<1>1. Firsts \subseteq Firsts'
  BY DEF Firsts, Grows
<1> QED
  BY <1>1 DEF TwoFirsts

\* A first order besides another one.
LEMMA SecondFirst ==
  ASSUME IInv, NEW size \in Sizes, firstOrder(size), Firsts # {}
  PROVE  TwoFirsts'
<1>1. PICK i : i \in Firsts
  OBVIOUS
<1>2. i \in Firsts' /\ seqId + 1 \in Firsts' /\ i # seqId + 1
  BY <1>1, FirstGrows, FirstsGrow DEF Firsts
<1> QED
  BY <1>2 DEF TwoFirsts

\* A step that leaves the book goroutine and what it reads in place.
LEMMA BookFields ==
  ASSUME book \in BookType
  PROVE  /\ \A e \in Nat : /\ Leaving(e).pc = book.pc /\ Leaving(e).todo = book.todo
                           /\ Leaving(e).keep = book.keep /\ Leaving(e) \in BookType
         /\ BookReturn => /\ book'.pc = "idle" /\ book'.keep = book.keep
                          /\ book'.todo = <<>>
<1>1. \A e \in Nat : /\ Leaving(e).pc = book.pc /\ Leaving(e).todo = book.todo
                     /\ Leaving(e).keep = book.keep
  BY DEF Leaving, BookType
<1>2. \A e \in Nat : Leaving(e) \in BookType
  BY Leaves
<1>3. book.epoch \in Nat
  BY DEF BookType
<1> QED
  BY <1>1, <1>2, <1>3 DEF BookReturn, BookType

\* A book that comes in, or gives up, or stores its time.
LEMMA BookMoved ==
  ASSUME TypeOK, RunBook \/ (\E e \in book.due : StoreTime(e))
  PROVE  /\ UNCHANGED orderSlices /\ book'.keep = book.keep /\ book'.todo = book.todo
         /\ \/ book'.pc = book.pc
            \/ book'.pc = "lock"
            \/ book'.pc = "retreatSwap" /\ net.epoch > book.latest
<1>1. net.epoch \in Nat /\ book \in BookType
  BY DEF TypeOK
<1>2. CASE RunBook
  <2>1. CASE book.pc # "idle"
    BY <1>1, <1>2, <2>1, BookFields DEF RunBook, sliceVars
  <2>2. CASE book.pc = "idle"
    BY <1>1, <1>2, <2>2 DEF RunBook, sliceVars, NetworkBack, BookType
  <2> QED
    BY <2>1, <2>2
<1>3. ASSUME NEW e \in book.due, StoreTime(e)
      PROVE  /\ UNCHANGED orderSlices /\ book'.keep = book.keep /\ book'.todo = book.todo
             /\ book'.pc = book.pc
  BY <1>1, <1>3 DEF StoreTime, sliceVars, BookType
<1> QED
  BY <1>2, <1>3

LEMMA StepEcho ==
  ASSUME IInv, Looping, InOrder, Echo, [Next]_vars
  PROVE  Echo'
<1>0. TypeOK /\ book \in BookType
  BY ListTypes DEF IInv
<1>1. CASE UNCHANGED <<orderSlices, book>>
  BY <1>1 DEF Echo
<1>2. ASSUME NEW s \in Lists, NEW i \in Slots, orderSlices' = Append(s, i)
      PROVE  Echo'
  BY <1>2, Appended DEF Echo
<1>3. CASE onStart
  <2>1. CASE StartCheck \/ StartRead
    BY <1>1, <2>1 DEF StartCheck, StartRead, sliceVars
  <2>2. CASE StartWrite
    BY <1>0, <1>2, <2>2, ListTypes DEF StartWrite, Enqueue
  <2> QED
    BY <1>3, <2>1, <2>2 DEF onStart
<1>4. CASE \E ev \in chOrder : onOrderEvent(ev)
  <2>1. \/ UNCHANGED <<orderSlices, book>>
        \/ \E ev \in chOrder : SwapReturn(ev)
    BY <1>4 DEF onOrderEvent, SpotReturn, sliceVars
  <2>2. ASSUME NEW ev \in chOrder, SwapReturn(ev)
        PROVE  Echo'
    <3>1. orderSlices' = Append(orderSlices, seqId + 1) /\ seqId < MaxSlices
      BY <2>2 DEF SwapReturn, Enqueue
    <3>2. seqId + 1 \in Slots
      BY <3>1, Numbers DEF Slots, Ids
    <3> QED
      BY <1>0, <1>2, <3>1, <3>2, ListTypes
  <2> QED
    BY <1>1, <2>1, <2>2
<1>5. CASE RunBook \/ (\E e \in book.due : StoreTime(e))
  <2>1. UNCHANGED orderSlices /\ book'.keep = book.keep
        /\ (book'.pc \in {"query", "filter"} => book'.pc = book.pc /\ book'.todo = book.todo)
    BY <1>0, <1>5, BookMoved
  <2> QED
    BY <2>1 DEF Echo
<1>6. CASE \/ BookRetreat(SwapLeg, "retreatSwap", "retreatSpot")
           \/ BookRetreat(SpotLeg, "retreatSpot", "query")
  <2>1. UNCHANGED orderSlices /\ book'.keep = book.keep
        /\ (book'.pc \in {"query", "filter"} => book'.todo = orderSlices)
    BY <1>0, <1>6 DEF BookRetreat, BookType, sliceVars
  <2> QED
    BY <2>1 DEF Echo
<1>7. CASE BookQuery \/ BookFilter
  <2>1. UNCHANGED orderSlices /\ book.pc \in {"query", "filter"} /\ book.todo # <<>>
    BY <1>7 DEF BookQuery, BookFilter, sliceVars
  <2> QED
    BY <2>1 DEF Echo
<1>8. CASE BookQueried
  <2>1. UNCHANGED orderSlices /\ book'.keep = book.keep /\ book'.todo = orderSlices
    BY <1>0, <1>8 DEF BookQueried, BookType, sliceVars
  <2> QED
    BY <2>1 DEF Echo
<1>9. CASE BookAssign
  <2>1. book'.keep = <<>> /\ book'.pc = "lock"
    BY <1>0, <1>9 DEF BookAssign, BookType
  <2> QED
    BY <2>1 DEF Echo
<1>10. CASE BookFirst
  <2>1. CASE UNCHANGED sliceVars
    <3>1. UNCHANGED orderSlices /\ book'.keep = book.keep /\ book'.pc = "idle"
      BY <1>0, <1>10, <2>1, BookFields DEF BookFirst, sliceVars
    <3> QED
      BY <3>1 DEF Echo
  <2>2. ASSUME NEW size \in Sizes, firstOrder(size), Enqueue(orderSlices, seqId + 1)
        PROVE  Echo'
    BY <1>0, <1>2, <2>2, FirstGrows, ListTypes DEF Enqueue, Slots
  <2> QED
    BY <1>10, <2>1, <2>2 DEF BookFirst
<1>11. CASE BookFinish \/ BookCheck
  <2>1. UNCHANGED orderSlices /\ orderSlices # <<>>
    BY <1>11 DEF BookFinish, BookCheck
  <2> QED
    BY <2>1 DEF Echo
<1>12. CASE BookReprice
  <2>1. orderSlices' # <<>>
    <3>1. PICK k \in DOMAIN book.todo : nextOrder(book.todo[k])
      BY <1>12 DEF BookReprice
    <3>2. \/ orderSlices' = Append(orderSlices, NoSlice)
          \/ orderSlices' = Append(orderSlices, seqId + 1)
      BY <3>1 DEF nextOrder, Enqueue
    <3> QED
      BY <3>2, <1>0, ListTypes DEF Lists
  <2> QED
    BY <2>1 DEF Echo
<1>13. CASE BookRepriced
  <2>1. UNCHANGED orderSlices /\ book'.keep = book.keep /\ book'.pc = "idle"
    BY <1>0, <1>13, BookFields DEF BookRepriced, sliceVars
  <2> QED
    BY <2>1 DEF Echo
<1>14. CASE \/ RunDone \/ RunTimer \/ ExecuteNil \/ ManagerStop \/ PrintTask
            \/ (\E i \in Ids : executeSlice(i) \/ OnOrderError(i)) \/ Exchange \/ BookNil \/ UNCHANGED vars
  <2>1. UNCHANGED <<orderSlices, book>>
    BY <1>14 DEF RunDone, RunTimer, ExecuteNil, ManagerStop, PrintTask, executeSlice, OnOrderError,
       Exchange, ExecuteSwap, ExecuteSpot, Disconnect, Reconnect, BookNil, sliceVars, vars
  <2> QED
    BY <1>1, <2>1
<1> QED
  BY <1>3, <1>4, <1>5, <1>6, <1>7, <1>8, <1>9, <1>10, <1>11, <1>12, <1>13, <1>14
     DEF Next, Run, onOrderBook

\* What a step appends to the list, if it changes it at all.
AppendsNew == /\ orderSlices' = Append(orderSlices, seqId + 1) /\ seqId' = seqId + 1
              /\ UNCHANGED <<start, net>>
AppendsNil == /\ orderSlices' = Append(orderSlices, NoSlice) /\ seqId' = seqId
              /\ orderSlices # <<>> /\ UNCHANGED <<start, net>>

\* The repricing loop is at a slice that leaves nothing for the next one.
NilNext == /\ book.pc = "reprice"
           /\ \E k \in DOMAIN book.todo : CanReprice(book.todo[k]) /\ NothingLeft(book.todo[k])

LEMMA ListSteps ==
  ASSUME IInv, Looping, InOrder, [Next]_vars
  PROVE  \/ UNCHANGED <<orderSlices, seqId, start>>
         \/ StartCheck \/ StartRead \/ StartWrite \/ BookAssign
         \/ AppendsNew /\ orderSlices # <<>>
         \/ AppendsNew /\ orderSlices = <<>> /\ \E size \in Sizes : firstOrder(size)
         \/ AppendsNil /\ NilNext
<1> USE DEF sliceVars, exchVars
<1>1. CASE BookFirst
  BY <1>1 DEF BookFirst, NeedsFirst, AppendsNew, firstOrder, Enqueue
<1>2. CASE BookReprice
  <2>1. orderSlices # <<>>
    BY <1>2 DEF BookReprice, InOrder
  <2>2. PICK k \in DOMAIN book.todo : CanReprice(book.todo[k]) /\ nextOrder(book.todo[k])
    BY <1>2 DEF BookReprice
  <2>3. UNCHANGED <<start, net>> /\ book.pc = "reprice"
    BY <1>2 DEF BookReprice
  <2> QED
    BY <2>1, <2>2, <2>3 DEF nextOrder, AppendsNew, AppendsNil, NilNext, Enqueue
<1>3. CASE \E ev \in chOrder : onOrderEvent(ev)
  <2>1. PICK ev \in chOrder : onOrderEvent(ev)
    BY <1>3
  <2>2. CASE UNCHANGED <<orderSlices, seqId>>
    BY <2>1, <2>2 DEF onOrderEvent
  <2>3. CASE ev.id \in Tracked /\ SwapReturn(ev)
    <3>1. orderSlices # <<>>
      BY <2>3 DEF Tracked, Elements
    <3> QED
      BY <2>1, <2>3, <3>1 DEF onOrderEvent, SwapReturn, AppendsNew, Enqueue
  <2> QED
    BY <2>1, <2>2, <2>3 DEF onOrderEvent, SpotReturn
<1>4. CASE \/ RunDone \/ RunTimer \/ ExecuteNil \/ ManagerStop \/ PrintTask \/ RunBook
           \/ (\E e \in book.due : StoreTime(e))
           \/ (\E i \in Ids : executeSlice(i) \/ OnOrderError(i)) \/ Exchange \/ BookNil \/ UNCHANGED vars
           \/ BookRetreat(SwapLeg, "retreatSwap", "retreatSpot")
           \/ BookRetreat(SpotLeg, "retreatSpot", "query")
           \/ BookQuery \/ BookQueried \/ BookFilter \/ BookFinish \/ BookCheck \/ BookRepriced
  <2>1. UNCHANGED <<orderSlices, seqId, start>>
    BY <1>4 DEF RunDone, RunTimer, ExecuteNil, ManagerStop, PrintTask, RunBook, StoreTime, executeSlice,
       OnOrderError, Exchange, ExecuteSwap, ExecuteSpot, Disconnect, Reconnect, BookNil, vars,
       BookRetreat, BookQuery, BookQueried, BookFilter, BookFinish, BookCheck, BookRepriced
  <2> QED
    BY <2>1
<1> QED
  BY <1>1, <1>2, <1>3, <1>4 DEF Next, Run, onStart, onOrderBook

LEMMA StepAlone ==
  ASSUME IInv, Looping, InOrder, Echo, Alone, [Next]_vars
  PROVE  Alone'
<1>0. TypeOK /\ start \in StartType /\ (TwoFirsts => TwoFirsts')
  BY ListTypes, StepGrows, FirstsGrow DEF IInv
<1>1. CASE UNCHANGED <<orderSlices, start>>
  BY <1>0, <1>1 DEF Alone, Starting
<1>2. CASE StartCheck
  BY <1>0, <1>2 DEF StartCheck, NeedsFirst, Alone, Starting, StartType
<1>3. CASE StartRead
  <2>1. /\ start'.pc = "write" /\ start'.base = orderSlices /\ UNCHANGED orderSlices /\ Starting
    BY <1>0, <1>3 DEF StartRead, StartType, sliceVars, Starting
  <2> QED
    BY <1>0, <2>1 DEF Alone
<1>4. CASE StartWrite
  BY <1>0, <1>4 DEF StartWrite, StartType, Alone, Starting
<1>5. CASE BookAssign
  <2>1. UNCHANGED start /\ orderSlices' = book.keep
    BY <1>5 DEF BookAssign
  <2> QED
    BY <1>0, <2>1 DEF Alone, Echo, Starting
<1>6. CASE orderSlices # <<>> /\ UNCHANGED start
  BY <1>0, <1>6 DEF Alone, Starting
<1>7. ASSUME UNCHANGED start, NEW size \in Sizes, firstOrder(size)
      PROVE  Alone'
  <2>1. Starting => start.new \in Firsts
    BY DEF InOrder, IInv, Unsent, Starting, Firsts
  <2>2. Starting => TwoFirsts'
    BY <1>7, <2>1, SecondFirst
  <2> QED
    BY <1>7, <2>2 DEF Alone, Starting
<1> QED
  BY <1>1, <1>2, <1>3, <1>4, <1>5, <1>6, <1>7, ListSteps DEF AppendsNew, AppendsNil

\* The connections lost so far are only ever more, and a recovery starts when
\* there are more than those that the latest book knows of.
LEMMA StepGap ==
  ASSUME IInv, Looping, Gap, [Next]_vars
  PROVE  Gap'
<1>0. TypeOK /\ book \in BookType /\ net.epoch \in Nat /\ book.latest \in Nat
  BY ListTypes DEF IInv, TypeOK, BookType
<1>1. net'.epoch \in Nat /\ net'.epoch >= net.epoch
  <2>1. \/ UNCHANGED net \/ Disconnect \/ Reconnect
    BY DEF Next, Run, RunDone, RunTimer, RunBook, onOrderEvent, executeSlice, ExecuteNil,
       onStart, StartCheck, StartRead, StartWrite, ManagerStop, PrintTask, StoreTime, OnOrderError,
       onOrderBook, BookRetreat, BookQuery, BookQueried, BookFilter, BookAssign, BookFirst,
       BookFinish, BookCheck, BookNil, BookReprice, BookRepriced, Exchange, ExecuteSwap,
       ExecuteSpot, vars
  <2>2. CASE Disconnect
    BY <1>0, <2>2 DEF Disconnect, TypeOK
  <2>3. CASE Reconnect
    BY <1>0, <2>3 DEF Reconnect
  <2> QED
    BY <1>0, <2>1, <2>2, <2>3
<1>2. Recovering' => Recovering \/ net.epoch > book.latest
  <2>1. CASE RunBook \/ (\E e \in book.due : StoreTime(e))
    BY <1>0, <2>1, BookMoved DEF Recovering
  <2>2. CASE onOrderBook
    <3>1. CASE BookFirst \/ BookFinish \/ BookRepriced
      BY <1>0, <3>1, BookFields DEF BookFirst, BookFinish, BookRepriced, Recovering
    <3>2. CASE BookCheck
      BY <1>0, <3>2, BookFields DEF BookCheck, Recovering, BookType
    <3>3. CASE BookNil \/ BookReprice
      BY <1>0, <3>3 DEF BookNil, BookReprice, Recovering, BookType
    <3>4. CASE \/ BookRetreat(SwapLeg, "retreatSwap", "retreatSpot")
               \/ BookRetreat(SpotLeg, "retreatSpot", "query")
               \/ BookQuery \/ BookQueried \/ BookFilter \/ BookAssign
      BY <3>4 DEF BookRetreat, BookQuery, BookQueried, BookFilter, BookAssign, Recovering
    <3> QED
      BY <2>2, <3>1, <3>2, <3>3, <3>4 DEF onOrderBook
  <2>3. CASE \/ RunDone \/ RunTimer \/ ExecuteNil \/ ManagerStop \/ PrintTask \/ onStart
             \/ (\E ev \in chOrder : onOrderEvent(ev))
             \/ (\E i \in Ids : executeSlice(i) \/ OnOrderError(i)) \/ Exchange \/ UNCHANGED vars
    <3>1. UNCHANGED book
      BY <2>3 DEF RunDone, RunTimer, ExecuteNil, ManagerStop, PrintTask, onStart, StartCheck, StartRead,
         StartWrite, onOrderEvent, executeSlice, OnOrderError, Exchange, ExecuteSwap, ExecuteSpot,
         Disconnect, Reconnect, vars
    <3> QED
      BY <3>1 DEF Recovering
  <2> QED
    BY <2>1, <2>2, <2>3 DEF Next, Run
<1> QED
  BY <1>0, <1>1, <1>2 DEF Gap

\* An append adds one slice to those of the list.
LEMMA TrackedAppend ==
  ASSUME orderSlices \in Lists, NEW i \in Slots, orderSlices' = Append(orderSlices, i)
  PROVE  Tracked' = Tracked \cup {i}
<1> DEFINE t == Append(orderSlices, i)  n == Len(orderSlices)
<1>1. /\ n \in Nat /\ DOMAIN orderSlices = 1..n /\ t \in Lists /\ Len(t) = n + 1
      /\ \A k \in 1..n : t[k] = orderSlices[k]
      /\ t[n + 1] = i
  BY ListElements, Appended
<1>2. DOMAIN t = 1..(n + 1)
  BY <1>1, ListElements
<1>3. 1..(n + 1) = (1..n) \cup {n + 1}
  BY <1>1
<1> HIDE DEF t, n
<1>4. {t[k] : k \in 1..(n + 1)} = {orderSlices[k] : k \in 1..n} \cup {i}
  BY <1>1, <1>3
<1>5. orderSlices' = t
  BY DEF t
<1> QED
  BY <1>1, <1>2, <1>4, <1>5 DEF Tracked, Elements

\* Only the loss of a connection adds to the outages.
LEMMA OutageSteps ==
  ASSUME TypeOK, [Next]_vars
  PROVE  used'.outages = used.outages \/ (Disconnect /\ used'.outages = used.outages + 1)
<1>0. used \in UsedType
  BY DEF TypeOK
<1>1. CASE used' = used
  BY <1>1
<1>2. CASE Disconnect
  BY <1>0, <1>2 DEF Disconnect, UsedType
<1>3. Fault => used'.outages = used.outages
  BY <1>0 DEF Fault, UsedType
<1>4. CASE RunBook
  BY <1>0, <1>4 DEF RunBook, UsedType
<1>5. CASE \E ev \in chOrder : onOrderEvent(ev)
  <2>1. \/ used' = used
        \/ used' = [used EXCEPT !.repeats = @ + 1]
    BY <1>5 DEF onOrderEvent, Take
  <2> QED
    BY <1>0, <2>1 DEF UsedType
<1>6. CASE BookReprice
  <2>1. \/ used' = [used EXCEPT !.reprices = @ + 1]
        \/ used' = [used EXCEPT !.reprices = @ + 1, !.faults = @ + 1]
    BY <1>6 DEF BookReprice, RetreatOrder
  <2> QED
    BY <1>0, <2>1 DEF UsedType
<1>7. CASE \/ (\E i \in Ids : executeSlice(i)) \/ BookQuery
           \/ BookRetreat(SwapLeg, "retreatSwap", "retreatSpot")
           \/ BookRetreat(SpotLeg, "retreatSpot", "query")
  <2>1. used' = used \/ Fault
    BY <1>7 DEF executeSlice, BookQuery, BookRetreat
  <2> QED
    BY <1>3, <2>1
<1>8. CASE \E i \in Ids : \E q \in 1..slice[i].target : ExecuteSwap(i, q)
  BY <1>0, <1>8 DEF ExecuteSwap, UsedType
<1>9. CASE \/ RunDone \/ RunTimer \/ ExecuteNil \/ ManagerStop \/ PrintTask \/ onStart
           \/ (\E e \in book.due : StoreTime(e)) \/ (\E i \in Ids : OnOrderError(i))
           \/ BookQueried \/ BookFilter \/ BookAssign \/ BookFirst \/ BookFinish \/ BookCheck
           \/ BookNil \/ BookRepriced \/ (\E i \in Ids : ExecuteSpot(i)) \/ Reconnect
           \/ UNCHANGED vars
  <2>1. UNCHANGED used
    BY <1>9 DEF RunDone, RunTimer, ExecuteNil, ManagerStop, PrintTask, onStart, StartCheck,
       StartRead, StartWrite, StoreTime, OnOrderError, BookQueried, BookFilter, BookAssign,
       BookFirst, BookFinish, BookCheck, BookNil, BookRepriced, ExecuteSpot, Reconnect, vars
  <2> QED
    BY <1>1, <2>1
<1> QED
  BY <1>2, <1>4, <1>5, <1>6, <1>7, <1>8, <1>9 DEF Next, Run, onOrderBook, Exchange

LEMMA NetSteps ==
  ASSUME TypeOK, Unbroken, [Next]_vars, used'.outages = 0
  PROVE  UNCHANGED net /\ used.outages = 0
<1>0. used.outages \in Nat
  BY DEF TypeOK, UsedType
<1>1. \/ UNCHANGED net \/ Disconnect \/ Reconnect
  BY DEF Next, Run, RunDone, RunTimer, RunBook, onOrderEvent, executeSlice, ExecuteNil,
     onStart, StartCheck, StartRead, StartWrite, ManagerStop, PrintTask, StoreTime, OnOrderError,
     onOrderBook, BookRetreat, BookQuery, BookQueried, BookFilter, BookAssign, BookFirst,
     BookFinish, BookCheck, BookNil, BookReprice, BookRepriced, Exchange, ExecuteSwap,
     ExecuteSpot, vars
<1>2. used.outages = 0
  BY <1>0, OutageSteps
<1>3. ~Disconnect
  BY <1>0, <1>2 DEF Disconnect, TypeOK, UsedType
<1>4. ~Reconnect
  BY <1>2 DEF Reconnect, Unbroken
<1> QED
  BY <1>1, <1>2, <1>3, <1>4

LEMMA StepUnbroken ==
  ASSUME TypeOK, Unbroken, [Next]_vars
  PROVE  Unbroken'
<1> SUFFICES ASSUME used'.outages = 0 PROVE net'.up /\ net'.epoch = 0
  BY DEF Unbroken
<1> QED
  BY NetSteps DEF Unbroken

LEMMA StepAllTracked ==
  ASSUME IInv, Looping, InOrder, Echo, Alone, Gap, Unbroken, AllTracked, [Next]_vars
  PROVE  AllTracked'
<1> SUFFICES ASSUME Untroubled' PROVE \A i \in Ids : i <= seqId' => i \in Tracked' \/ Held(i)'
  BY DEF AllTracked
<1>0. /\ TypeOK /\ start \in StartType /\ orderSlices \in Lists /\ start.base \in Lists
      /\ seqId \in Nat /\ Ids \subseteq Nat
  BY ListTypes, Numbers DEF IInv
<1>1. net' = net /\ Untroubled
  BY <1>0, NetSteps, StepGrows, FirstsGrow DEF Untroubled
<1>2. \A i \in Ids : i <= seqId => i \in Tracked \/ Held(i)
  BY <1>1 DEF AllTracked
<1>3. CASE UNCHANGED <<orderSlices, seqId, start>>
  BY <1>2, <1>3 DEF Tracked, Held, Starting
<1>4. CASE StartCheck
  <2>1. UNCHANGED orderSlices /\ ~Starting
    BY <1>4 DEF StartCheck, Starting
  <2>2. \/ seqId' = seqId
        \/ seqId' = seqId + 1 /\ start' = [start EXCEPT !.pc = "read", !.new = seqId + 1]
    BY <1>4 DEF StartCheck, firstOrder
  <2>3. seqId' = seqId + 1 => Starting' /\ start'.new = seqId + 1
    <3>1. start' = [start EXCEPT !.pc = "read", !.new = seqId + 1]
             => start'.pc = "read" /\ start'.new = seqId + 1
      BY <1>0 DEF StartType
    <3>2. seqId + 1 # seqId
      BY <1>0
    <3> QED
      BY <2>2, <3>1, <3>2 DEF Starting
  <2>4. \A i \in Ids : i <= seqId' => i <= seqId \/ (seqId' = seqId + 1 /\ i = seqId + 1)
    BY <1>0, <2>2
  <2> QED
    BY <1>2, <2>1, <2>3, <2>4 DEF Tracked, Held
<1>5. CASE StartRead
  BY <1>0, <1>2, <1>5 DEF StartRead, sliceVars, Tracked, Held, Starting, StartType
<1>6. CASE StartWrite
  <2>1. Starting /\ orderSlices = <<>> /\ start.base = <<>>
    BY <1>1, <1>6 DEF StartWrite, Starting, Alone, Untroubled
  <2>2. Tracked = {}
    BY <2>1 DEF Tracked, Elements
  <2>3. orderSlices' = Append(orderSlices, start.new) /\ UNCHANGED seqId
    BY <1>6, <2>1 DEF StartWrite, Enqueue
  <2>4. start.new \in Tracked'
    BY <1>0, <2>3, TrackedAppend, ListTypes
  <2> QED
    BY <1>2, <2>2, <2>3, <2>4 DEF Held
<1>7. CASE BookAssign
  <2>1. Recovering
    BY <1>7 DEF BookAssign, Recovering
  <2> QED
    BY <1>0, <1>1, <2>1 DEF Gap, Unbroken, Untroubled, TypeOK
<1>8. CASE AppendsNew
  <2>1. seqId + 1 \in Slots
    <3>1. TypeOK'
      BY StepIInv DEF IInv
    <3> QED
      BY <1>0, <1>8, <3>1 DEF AppendsNew, TypeOK, Slots, Ids
  <2>2. Tracked' = Tracked \cup {seqId + 1}
    BY <1>0, <1>8, <2>1, TrackedAppend DEF AppendsNew
  <2>3. \A i \in Ids : i <= seqId' => i <= seqId \/ i = seqId + 1
    BY <1>0, <1>8 DEF AppendsNew
  <2> QED
    BY <1>2, <1>8, <2>2, <2>3 DEF AppendsNew, Held, Starting
<1>9. CASE AppendsNil
  <2>1. Tracked' = Tracked \cup {NoSlice}
    BY <1>0, <1>9, TrackedAppend DEF AppendsNil, Slots
  <2> QED
    BY <1>2, <1>9, <2>1 DEF AppendsNil, Held, Starting
<1> QED
  BY <1>3, <1>4, <1>5, <1>6, <1>7, <1>8, <1>9, ListSteps

LEMMA AccountedInvariance == Spec => [](Inductive /\ InOrder /\ Accounted)
<1>1. Init => Accounted
  <2> SUFFICES ASSUME Init PROVE Accounted
    OBVIOUS
  <2>1. Echo /\ Alone /\ Gap /\ Unbroken
    BY DEF Init, Echo, Alone, Gap, Unbroken, Recovering, Starting
  <2>2. AllTracked
    BY DEF Init, AllTracked, Ids
  <2> QED
    BY <2>1, <2>2 DEF Accounted
<1>2. Inductive /\ InOrder /\ Accounted /\ [Next]_vars => Accounted'
  BY StepEcho, StepAlone, StepGap, StepUnbroken, StepAllTracked DEF Inductive, Accounted, IInv
<1> QED
  BY <1>1, <1>2, InOrderInvariance, PTL DEF Spec

\* Reports are lost while the connection is down, or because no slice of the
\* list is theirs.
LEMMA LostSteps ==
  ASSUME TypeOK, [Next]_vars, lost' # lost
  PROVE  /\ UNCHANGED net
         /\ \/ ~net.up
            \/ \E ev \in chOrder : ev.id \notin Tracked /\ ev.fill > 0 /\ Swap(ev.id)
<1>1. \A evs : Push(evs) => ~net.up
  BY DEF Push
<1>2. CASE \E ev \in chOrder : onOrderEvent(ev)
  <2>1. PICK ev \in chOrder : onOrderEvent(ev)
    BY <1>2
  <2>2. UNCHANGED net /\ ev.id \notin Tracked /\ SwapFills({ev}) # {}
    BY <2>1 DEF onOrderEvent
  <2> QED
    BY <2>2 DEF SwapFills
<1>3. ASSUME NEW i \in Ids, executeSlice(i)
      PROVE  UNCHANGED net /\ ~net.up
  BY <1>1, <1>3 DEF executeSlice, Place
<1>4. CASE BookReprice
  BY <1>1, <1>4 DEF BookReprice, RetreatOrder, CancelOrders
<1>5. ASSUME NEW leg, NEW here, NEW next, BookRetreat(leg, here, next)
      PROVE  UNCHANGED net /\ ~net.up
  BY <1>1, <1>5 DEF BookRetreat, CancelOrders
<1>6. ASSUME NEW i \in Ids, NEW q \in 1..slice[i].target, ExecuteSwap(i, q)
      PROVE  UNCHANGED net /\ ~net.up
  BY <1>1, <1>6 DEF ExecuteSwap
<1>7. ASSUME NEW i \in Ids, ExecuteSpot(i)
      PROVE  UNCHANGED net /\ ~net.up
  BY <1>1, <1>7 DEF ExecuteSpot
<1>8. CASE \/ RunDone \/ RunTimer \/ RunBook \/ ExecuteNil \/ ManagerStop \/ PrintTask \/ onStart
           \/ (\E e \in book.due : StoreTime(e)) \/ (\E i \in Ids : OnOrderError(i))
           \/ Disconnect \/ Reconnect
           \/ BookQuery \/ BookQueried \/ BookFilter \/ BookAssign \/ BookFirst
           \/ BookFinish \/ BookCheck \/ BookNil \/ BookRepriced \/ UNCHANGED vars
  BY <1>8 DEF RunDone, RunTimer, RunBook, ExecuteNil, ManagerStop, PrintTask, onStart, StartCheck,
     StartRead, StartWrite, StoreTime, OnOrderError, Disconnect, Reconnect, BookQuery, BookQueried,
     BookFilter, BookAssign, BookFirst, BookFinish, BookCheck, BookNil, BookRepriced, exchVars, vars
<1> QED
  BY <1>2, <1>3, <1>4, <1>5, <1>6, <1>7, <1>8 DEF Next, Run, onOrderBook, Exchange

\* The order of a slice that was not sent yet has no executions to report.
LEMMA UnsentSilent ==
  ASSUME IInv, NEW ev \in chOrder, ev.fill > 0, Swap(ev.id)
  PROVE  exch[ev.id].state # "absent" /\ ev.acc \in 1..exch[ev.id].acc
<1>1. <<ev.id, ev.acc>> \in fills
  BY DEF IInv, Sorted, InFlight, SwapFills
<1>2. ev.acc \in 1..MaxSize /\ ev.acc <= exch[ev.id].acc /\ ev.id \in Ids
  BY <1>1 DEF IInv, TypeOK, Fill, Counted
<1>3. exch[ev.id].acc \in Nat
  BY <1>2 DEF IInv, TypeOK
<1>4. exch[ev.id].acc # 0
  BY <1>2, <1>3, SizesAssumption
<1> QED
  BY <1>2, <1>3, <1>4, SizesAssumption DEF IInv, Unsent

-----------------------------------------------------------------------------
(* Sizes *)

\* The exchange executes no more of a swap order than its size, and no report
\* says otherwise; and a swap slice goes back to a first order.
Sized ==
    /\ \A i \in Ids : Swap(i) => exch[i].acc <= slice[i].target
    /\ \A ev \in chOrder : Swap(ev.id) => ev.acc <= slice[ev.id].target
Founded == \A i \in Ids : Swap(i) => Firsts # {}

LEMMA SizedKept ==
  ASSUME IInv, TypeOK', Sized, Grows(slice, slice'), RolesKept,
         \A i \in Ids : \/ exch'[i].acc = exch[i].acc
                        \/ Swap(i)' => exch'[i].acc <= slice'[i].target,
         \A ev \in chOrder' : \/ ev \in chOrder
                              \/ ev.id \in Ids /\ (Swap(ev.id)' => ev.acc <= exch'[ev.id].acc)
  PROVE  Sized'
<1>1. \A i \in Ids : Swap(i) => Swap(i)' /\ slice'[i].target = slice[i].target
  BY DEF Grows, Swap
<1>2. \A i \in Ids : Swap(i)' => Swap(i) \/ exch[i].acc = 0
  <2>1. \A i \in Ids : i <= seqId \/ i > seqId
    BY Numbers
  <2>2. \A i \in Ids : i <= seqId => (Swap(i)' <=> Swap(i))
    BY DEF RolesKept, Swap
  <2>3. \A i \in Ids : i > seqId => exch[i].acc = 0
    BY Numbers DEF IInv, Unsent
  <2> QED
    BY <2>1, <2>2, <2>3
<1>3. \A i \in Ids : Swap(i)' => exch'[i].acc <= slice'[i].target
  <2>1. \A i \in Ids : slice'[i].target \in Nat
    BY DEF TypeOK, SliceType
  <2> QED
    BY <1>1, <1>2, <2>1 DEF Sized
<1>4. \A ev \in chOrder' : Swap(ev.id)' => ev.acc <= slice'[ev.id].target
  <2> SUFFICES ASSUME NEW ev \in chOrder', Swap(ev.id)' PROVE ev.acc <= slice'[ev.id].target
    OBVIOUS
  <2>0. ev.id \in Ids /\ ev.acc \in Nat
    BY DEF TypeOK, EventType
  <2>1. CASE ev \in chOrder
    <3>1. ev.id <= seqId
      BY <2>1, Numbers
    <3>2. Swap(ev.id)
      BY <2>0, <3>1 DEF RolesKept, Swap
    <3> QED
      BY <1>1, <2>0, <2>1, <3>2 DEF Sized
  <2>2. CASE ev.acc <= exch'[ev.id].acc
    <3>1. exch'[ev.id].acc \in Nat /\ slice'[ev.id].target \in Nat
      BY <2>0 DEF TypeOK, SliceType
    <3> QED
      BY <1>3, <2>0, <2>2, <3>1
  <2> QED
    BY <2>1, <2>2
<1> QED
  BY <1>3, <1>4 DEF Sized

LEMMA StepSized ==
  ASSUME IInv, Looping, Sized, [Next]_vars
  PROVE  Sized'
<1>0. /\ TypeOK /\ TypeOK' /\ Grows(slice, slice') /\ RolesKept
      /\ exch \in [Ids -> [state : OrderState \cup {"absent"}, acc : Nat]]
      /\ exch' \in [Ids -> [state : OrderState \cup {"absent"}, acc : Nat]]
  BY StepIInv, StepGrows DEF IInv, TypeOK
<1>1. ASSUME UNCHANGED exch, chOrder' \subseteq chOrder
      PROVE  Sized'
  BY <1>0, <1>1, SizedKept
<1>2. ASSUME NEW W \in SUBSET Ids, CancelOrders(W)
      PROVE  Sized'
  <2>1. \A i \in Ids : exch'[i].acc = exch[i].acc
    BY <1>0, <1>2 DEF CancelOrders
  <2>2. \A ev \in chOrder' : \/ ev \in chOrder
                             \/ ev \in {Event(i, "canceled", exch[i].acc, 0) : i \in W}
    BY <1>2 DEF CancelOrders, Push
  <2>3. \A i \in W : /\ Event(i, "canceled", exch[i].acc, 0).id = i
                     /\ Event(i, "canceled", exch[i].acc, 0).acc = exch[i].acc
    BY DEF Event
  <2>4. \A i \in Ids : exch'[i].acc <= exch'[i].acc
    BY <1>0
  <2> QED
    BY <1>0, <2>1, <2>2, <2>3, <2>4, SizedKept
<1>3. ASSUME NEW i \in Ids, Place(i)
      PROVE  Sized'
  <2>1. exch'[i].acc = 0 /\ \A j \in Ids : j # i => exch'[j].acc = exch[j].acc
    BY <1>0, <1>3 DEF Place
  <2>2. slice'[i].target \in Nat
    BY <1>0 DEF TypeOK, SliceType
  <2>3. \A ev \in chOrder' : ev \in chOrder \/ (ev.id = i /\ ev.acc = 0)
    BY <1>3 DEF Place, Push, Event
  <2>4. \A j \in Ids : exch'[j].acc = exch[j].acc \/ exch'[j].acc <= slice'[j].target
    BY <2>1, <2>2
  <2>5. \A ev \in chOrder' : ev \in chOrder \/ (ev.id \in Ids /\ ev.acc <= exch'[ev.id].acc)
    BY <2>1, <2>3
  <2> QED
    BY <1>0, <2>4, <2>5, SizedKept
<1>4. ASSUME NEW i \in Ids, executeSlice(i)
      PROVE  Sized'
  <2>1. Place(i) \/ UNCHANGED <<exch, chOrder>>
    BY <1>4 DEF executeSlice
  <2> QED
    BY <1>1, <1>3, <2>1
<1>5. ASSUME NEW ev \in chOrder, onOrderEvent(ev)
      PROVE  Sized'
  <2>1. chOrder' = chOrder \/ Take(ev)
    BY <1>5 DEF onOrderEvent
  <2>2. UNCHANGED exch /\ chOrder' \subseteq chOrder
    BY <1>5, <2>1 DEF onOrderEvent, Take
  <2> QED
    BY <1>1, <2>2
<1>6. CASE BookReprice
  <2>1. PICK k \in DOMAIN book.todo : RetreatOrder(book.todo[k])
    BY <1>6 DEF BookReprice
  <2>2. {book.todo[k]} \cap WorkingOf(SwapLeg) \subseteq Ids
    BY DEF WorkingOf
  <2> QED
    BY <1>1, <1>2, <2>1, <2>2 DEF RetreatOrder
<1>7. ASSUME NEW leg, NEW here, NEW next, BookRetreat(leg, here, next)
      PROVE  Sized'
  <2>1. WorkingOf(leg) \subseteq Ids
    BY DEF WorkingOf
  <2>2. CancelOrders(WorkingOf(leg)) \/ UNCHANGED <<exch, chOrder>>
    BY <1>7 DEF BookRetreat
  <2> QED
    BY <1>1, <1>2, <2>1, <2>2
<1>8. ASSUME NEW i \in Ids, NEW q \in 1..slice[i].target, ExecuteSwap(i, q)
      PROVE  Sized'
  <2> DEFINE acc == exch[i].acc + q
             state == IF acc = slice[i].target THEN "filled" ELSE "partially_filled"
  <2>1. /\ acc <= slice[i].target /\ UNCHANGED slice
        /\ exch' = [exch EXCEPT ![i] = [state |-> state, acc |-> acc]]
        /\ Push({Event(i, state, acc, q)})
    BY <1>8 DEF ExecuteSwap, sliceVars
  <2>2. exch'[i].acc = acc /\ \A j \in Ids : j # i => exch'[j].acc = exch[j].acc
    BY <1>0, <2>1
  <2>3. \A ev \in chOrder' : ev \in chOrder \/ (ev.id = i /\ ev.acc = exch'[i].acc)
    BY <2>1, <2>2 DEF Push, Event
  <2> HIDE DEF acc, state
  <2>4. exch'[i].acc <= slice'[i].target /\ exch'[i].acc <= exch'[i].acc
    BY <1>0, <2>1, <2>2
  <2>5. \A j \in Ids : exch'[j].acc = exch[j].acc \/ exch'[j].acc <= slice'[j].target
    BY <2>2, <2>4
  <2>6. \A ev \in chOrder' : ev \in chOrder \/ (ev.id \in Ids /\ ev.acc <= exch'[ev.id].acc)
    BY <2>3, <2>4
  <2> QED
    BY <1>0, <2>5, <2>6, SizedKept
<1>9. ASSUME NEW i \in Ids, ExecuteSpot(i)
      PROVE  Sized'
  <2>1. UNCHANGED slice /\ Spot(i) /\ ~Swap(i)'
    BY <1>9 DEF ExecuteSpot, sliceVars, Spot, Swap
  <2>2. \A j \in Ids : j # i => exch'[j].acc = exch[j].acc
    BY <1>0, <1>9 DEF ExecuteSpot
  <2>3. \A ev \in chOrder' : ev \in chOrder \/ ev.id = i
    BY <1>9 DEF ExecuteSpot, Push, Event
  <2> QED
    BY <1>0, <2>1, <2>2, <2>3, SizedKept
<1>10. CASE \/ RunDone \/ RunTimer \/ RunBook \/ ExecuteNil \/ ManagerStop \/ PrintTask \/ onStart
            \/ (\E e \in book.due : StoreTime(e)) \/ (\E i \in Ids : OnOrderError(i))
            \/ Disconnect \/ Reconnect
            \/ BookQuery \/ BookQueried \/ BookFilter \/ BookAssign \/ BookFirst
            \/ BookFinish \/ BookCheck \/ BookNil \/ BookRepriced \/ UNCHANGED vars
  <2>1. UNCHANGED <<exch, chOrder>>
    BY <1>10 DEF RunDone, RunTimer, RunBook, ExecuteNil, ManagerStop, PrintTask, onStart, StartCheck,
       StartRead, StartWrite, StoreTime, OnOrderError, Disconnect, Reconnect, BookQuery, BookQueried,
       BookFilter, BookAssign, BookFirst, BookFinish, BookCheck, BookNil, BookRepriced, exchVars, vars
  <2> QED
    BY <1>1, <2>1
<1> QED
  BY <1>4, <1>5, <1>6, <1>7, <1>8, <1>9, <1>10 DEF Next, Run, onOrderBook, Exchange

\* How a step may change the slices: what was there stays as it is in every
\* respect the repricing depends on, or one slice is created or reported of.
Tame ==
    \A i \in Ids : /\ slice'[i].role = slice[i].role /\ slice'[i].target = slice[i].target
                   /\ slice'[i].present = slice[i].present
                   /\ slice[i].ignored => slice'[i].ignored

LEMMA SliceSteps ==
  ASSUME IInv, Looping, [Next]_vars
  PROVE  \/ Tame
         \/ \E size \in Sizes : firstOrder(size)
         \/ \E ev \in chOrder : Swap(ev.id) /\ ev.id \in Tracked /\ SwapReturn(ev) /\ ~MeetsNil(ev.id, FALSE)
         \/ BookReprice
<1>0. slice \in Slices /\ chOrder \subseteq EventType
  BY DEF IInv, TypeOK, Slices
<1>1. ASSUME UNCHANGED slice
      PROVE  Tame
  BY <1>1 DEF Tame
<1>2. ASSUME NEW i \in Ids, NEW x, slice' = [slice EXCEPT ![i].latest = x]
      PROVE  Tame
  BY <1>0, <1>2 DEF Tame, Slices, SliceType
<1>3. ASSUME NEW i \in Ids, executeSlice(i)
      PROVE  Tame
  BY <1>0, <1>3 DEF Tame, executeSlice, Slices, SliceType
<1>4. ASSUME NEW ev \in chOrder, onOrderEvent(ev)
      PROVE  \/ Tame
             \/ Swap(ev.id) /\ ev.id \in Tracked /\ SwapReturn(ev) /\ ~MeetsNil(ev.id, FALSE)
  <2>1. ev.id \in Ids
    BY <1>0 DEF EventType
  <2>2. \/ UNCHANGED slice \/ slice' = [slice EXCEPT ![ev.id].latest = ev.state]
        \/ ~MeetsNil(ev.id, FALSE) /\ ev.id \in Tracked /\ Swap(ev.id) /\ SwapReturn(ev)
    BY <1>4 DEF onOrderEvent, SpotReturn, sliceVars
  <2> QED
    BY <1>1, <1>2, <2>1, <2>2
<1>5. CASE StartCheck \/ BookFirst
  <2>1. UNCHANGED slice \/ \E size \in Sizes : firstOrder(size)
    BY <1>5 DEF StartCheck, BookFirst, sliceVars
  <2> QED
    BY <1>1, <2>1
<1>6. CASE BookQuery
  <2>1. UNCHANGED slice \/ (/\ Head(book.todo) \in Ids
                            /\ slice' = [slice EXCEPT ![Head(book.todo)].latest = exch[Head(book.todo)].state])
    <3>1. book.todo \in Seq(Slots) /\ book.todo # <<>>
      BY <1>6 DEF BookQuery, IInv, TypeOK, BookType
    <3>2. Head(book.todo) \in Ids
      BY <1>6, <3>1, SlotSeqs DEF BookQuery, Slots
    <3> QED
      BY <1>6, <3>2 DEF BookQuery
  <2> QED
    BY <1>1, <1>2, <2>1
<1>7. CASE BookFinish \/ BookCheck
  <2>1. PICK S : Ignore(S)
    BY <1>7 DEF BookFinish, BookCheck
  <2> QED
    BY <1>0, <2>1 DEF Ignore, Tame, Slices, SliceType
<1>8. CASE \/ RunDone \/ RunTimer \/ RunBook \/ ExecuteNil \/ ManagerStop \/ StartRead \/ StartWrite
           \/ PrintTask \/ (\E e \in book.due : StoreTime(e)) \/ (\E i \in Ids : OnOrderError(i)) \/ Exchange
           \/ (\E leg, here, next : BookRetreat(leg, here, next))
           \/ BookQueried \/ BookFilter \/ BookAssign \/ BookNil \/ BookRepriced \/ UNCHANGED vars
  <2>1. UNCHANGED slice
    BY <1>8 DEF RunDone, RunTimer, RunBook, ExecuteNil, ManagerStop, StartRead, StartWrite,
       PrintTask, StoreTime, OnOrderError, Exchange, ExecuteSwap, ExecuteSpot, Disconnect, Reconnect,
       BookRetreat, BookQueried, BookFilter, BookAssign, BookNil, BookRepriced, sliceVars, vars
  <2> QED
    BY <1>1, <2>1
<1> QED
  BY <1>3, <1>4, <1>5, <1>6, <1>7, <1>8 DEF Next, Run, onStart, onOrderBook

LEMMA StepFounded ==
  ASSUME IInv, Looping, Founded, [Next]_vars
  PROVE  Founded'
<1>0. Firsts \subseteq Firsts'
  BY StepGrows, FirstsGrow
<1>1. CASE Tame
  BY <1>0, <1>1 DEF Founded, Tame, Swap
<1>2. ASSUME NEW size \in Sizes, firstOrder(size)
      PROVE  Founded'
  <2>1. seqId + 1 \in Firsts'
    BY <1>2, FirstGrows DEF Firsts
  <2> QED
    BY <2>1 DEF Founded
<1>3. ASSUME NEW ev \in chOrder, Swap(ev.id)
      PROVE  Founded'
  <2>1. ev.id \in Ids
    BY Numbers
  <2> QED
    BY <1>0, <1>3, <2>1 DEF Founded
<1>4. CASE BookReprice
  <2>1. PICK k \in DOMAIN book.todo : CanReprice(book.todo[k])
    BY <1>4 DEF BookReprice
  <2>2. book.todo[k] \in Ids /\ Swap(book.todo[k])
    BY <1>4, <2>1 DEF BookReprice, Looping, CanReprice
  <2> QED
    BY <1>0, <2>2 DEF Founded
<1> QED
  BY <1>1, <1>2, <1>3, <1>4, SliceSteps

-----------------------------------------------------------------------------
(* Nil slices *)

\* A list without nil slices, oldest slice first.
Ranked(s)    == \A k \in 1..Len(s) : s[k] # NoSlice /\ \A m \in 1..(k - 1) : s[m] < s[k]
Before(s, t) == \A k \in 1..Len(s) : \A m \in 1..Len(t) : s[k] < t[m]

Straight ==
    /\ Ranked(orderSlices)
    /\ NoSlice \notin chOrderSlice
    /\ book.pc \in {"query", "filter"} => Ranked(book.todo)
    /\ book.pc = "filter" => Ranked(book.keep) /\ Before(book.keep, book.todo)

\* The only swap slice that is not ignored is the newest one, it has room for
\* what is reported of it, and the repricing loop skips it once it is full.
Open(i) == Swap(i) /\ ~slice[i].ignored
Newest  == \A i, j \in Ids : Open(i) /\ Swap(j) => j <= i
Room    == \A i \in Ids : Open(i) => slice[i].present <= slice[i].target
Due(sl, i)  == sl[i].ready /\ IsSwap(sl, i) /\ ~sl[i].ignored
Full(sl, i) == sl[i].target = sl[i].present
Worth   == book.pc = "reprice" =>
               \A k \in DOMAIN book.todo : Due(slice, book.todo[k]) => ~Full(slice, book.todo[k])

Single == ~TwoFirsts => Straight /\ Newest /\ Room /\ Worth

LEMMA RankedAppend ==
  ASSUME NEW s \in Lists, Ranked(s), NEW i \in Ids, \A k \in 1..Len(s) : s[k] < i
  PROVE  Ranked(Append(s, i))
<1> DEFINE t == Append(s, i)
<1>1. /\ Len(t) = Len(s) + 1 /\ Len(s) \in Nat
      /\ \A k \in 1..Len(s) : t[k] = s[k]
      /\ t[Len(s) + 1] = i /\ i # NoSlice
  BY Appended, ListElements DEF Slots, Ids, NoSlice
<1> HIDE DEF t
<1>2. ASSUME NEW k \in 1..Len(s)
      PROVE  t[k] # NoSlice /\ \A m \in 1..(k - 1) : t[m] < t[k]
  <2>1. \A m \in 1..(k - 1) : m \in 1..Len(s)
    BY <1>1
  <2> QED
    BY <1>1, <2>1 DEF Ranked
<1>3. t[Len(s) + 1] # NoSlice /\ \A m \in 1..(Len(s) + 1 - 1) : t[m] < t[Len(s) + 1]
  BY <1>1
<1>4. \A k \in 1..Len(t) : k \in 1..Len(s) \/ k = Len(s) + 1
  BY <1>1
<1> QED
  BY <1>2, <1>3, <1>4 DEF Ranked, t

LEMMA RankedTail ==
  ASSUME NEW s \in Lists, s # <<>>, Ranked(s)
  PROVE  /\ Ranked(Tail(s)) /\ Head(s) \in Ids
         /\ \A m \in 1..Len(Tail(s)) : Head(s) < Tail(s)[m]
<1> DEFINE t == Tail(s)
<1>1. /\ Head(s) = s[1] /\ Head(s) \in Slots
      /\ Len(t) = Len(s) - 1 /\ Len(s) \in Nat \ {0}
      /\ \A k \in 1..(Len(s) - 1) : t[k] = s[k + 1]
  BY Tailed
<1> HIDE DEF t
<1>2. Head(s) \in Ids
  BY <1>1 DEF Ranked, Slots
<1>3. ASSUME NEW m \in 1..Len(t)
      PROVE  t[m] # NoSlice /\ s[1] < t[m] /\ \A k \in 1..(m - 1) : t[k] < t[m]
  <2>1. m + 1 \in 1..Len(s) /\ t[m] = s[m + 1]
    BY <1>1
  <2>2. \A k \in 1..(m - 1) : t[k] = s[k + 1] /\ k + 1 \in 1..(m + 1 - 1)
    BY <1>1
  <2>3. 1 \in 1..(m + 1 - 1)
    BY <1>1
  <2> QED
    BY <2>1, <2>2, <2>3 DEF Ranked
<1> QED
  BY <1>1, <1>2, <1>3 DEF Ranked, t

\* A step of the filter moves the oldest slice of the copy to the end of what it
\* keeps, or drops it.
LEMMA RankedFilter ==
  ASSUME NEW keep \in Lists, NEW todo \in Lists, todo # <<>>,
         Ranked(keep), Ranked(todo), Before(keep, todo),
         NEW keep2, keep2 = keep \/ keep2 = Append(keep, Head(todo))
  PROVE  Ranked(keep2) /\ Ranked(Tail(todo)) /\ Before(keep2, Tail(todo))
<1> DEFINE t == Tail(todo)  i == Head(todo)
<1>1. Ranked(t) /\ i \in Ids /\ \A m \in 1..Len(t) : i < t[m]
  BY RankedTail
<1>2. /\ i = todo[1] /\ Len(t) = Len(todo) - 1 /\ Len(todo) \in Nat \ {0}
      /\ \A k \in 1..(Len(todo) - 1) : t[k] = todo[k + 1]
  BY Tailed
<1> HIDE DEF t, i
<1>3. Before(keep, t)
  <2>1. \A m \in 1..Len(t) : t[m] = todo[m + 1] /\ m + 1 \in 1..Len(todo)
    BY <1>2
  <2> QED
    BY <2>1 DEF Before
<1>4. \A k \in 1..Len(keep) : keep[k] < i
  <2>1. 1 \in 1..Len(todo)
    BY <1>2
  <2> QED
    BY <1>2, <2>1 DEF Before
<1>5. CASE keep2 = keep
  BY <1>1, <1>3, <1>5 DEF t
<1>6. CASE keep2 = Append(keep, i)
  <2>1. Ranked(keep2)
    BY <1>1, <1>4, <1>6, RankedAppend
  <2>2. /\ Len(keep2) = Len(keep) + 1 /\ Len(keep) \in Nat
        /\ \A k \in 1..Len(keep) : keep2[k] = keep[k]
        /\ keep2[Len(keep) + 1] = i
    BY <1>1, <1>6, Appended, ListElements DEF Slots
  <2>3. \A k \in 1..Len(keep2) : k \in 1..Len(keep) \/ k = Len(keep) + 1
    BY <2>2
  <2>4. Before(keep2, t)
    BY <1>1, <1>3, <2>2, <2>3 DEF Before
  <2> QED
    BY <1>1, <2>1, <2>4 DEF t
<1> QED
  BY <1>5, <1>6 DEF i

\* The slices of a list in order exist already.
LEMMA ListBounded ==
  ASSUME IInv, InOrder, Ranked(orderSlices)
  PROVE  \A k \in 1..Len(orderSlices) : orderSlices[k] \in Ids /\ orderSlices[k] <= seqId
<1> SUFFICES ASSUME NEW k \in 1..Len(orderSlices)
             PROVE  orderSlices[k] \in Ids /\ orderSlices[k] <= seqId
  OBVIOUS
<1>1. orderSlices[k] \in Ids
  BY ListTypes, ListElements DEF IInv, Ranked, Slots
<1>2. slice[orderSlices[k]].role # "none"
  BY <1>1 DEF InOrder, Headed, Led, Follows, Ranked, IsSwap, IsSpot
<1> QED
  BY <1>1, <1>2, Numbers

\* How a step may move the book goroutine.
LEMMA BookSteps ==
  ASSUME TypeOK, [Next]_vars
  PROVE  \/ book'.pc = book.pc /\ book'.todo = book.todo /\ book'.keep = book.keep
         \/ book'.pc \notin {"query", "filter", "reprice"}
         \/ book'.pc = "query" /\ book'.todo = orderSlices
         \/ BookQuery \/ BookQueried \/ BookFilter \/ BookCheck \/ BookReprice
<1>0. book \in BookType
  BY ListTypes
<1>1. CASE RunBook \/ (\E e \in book.due : StoreTime(e))
  BY <1>1, BookMoved
<1>2. CASE BookFirst \/ BookFinish \/ BookRepriced
  BY <1>0, <1>2, BookFields DEF BookFirst, BookFinish, BookRepriced
<1>3. CASE BookAssign
  BY <1>0, <1>3 DEF BookAssign, BookType
<1>4. CASE \/ BookRetreat(SwapLeg, "retreatSwap", "retreatSpot")
           \/ BookRetreat(SpotLeg, "retreatSpot", "query")
  BY <1>0, <1>4 DEF BookRetreat, BookType
<1>5. CASE \/ RunDone \/ RunTimer \/ ExecuteNil \/ ManagerStop \/ PrintTask \/ onStart \/ BookNil
           \/ (\E ev \in chOrder : onOrderEvent(ev))
           \/ (\E i \in Ids : executeSlice(i) \/ OnOrderError(i)) \/ Exchange \/ UNCHANGED vars
  <2>1. UNCHANGED book
    BY <1>5 DEF RunDone, RunTimer, ExecuteNil, ManagerStop, PrintTask, onStart, StartCheck, StartRead,
       StartWrite, BookNil, onOrderEvent, executeSlice, OnOrderError, Exchange, ExecuteSwap,
       ExecuteSpot, Disconnect, Reconnect, vars
  <2> QED
    BY <2>1
<1> QED
  BY <1>1, <1>2, <1>3, <1>4, <1>5 DEF Next, Run, onOrderBook

\* What is offered to the Run loop is a slice, unless the repricing loop finds
\* nothing left.
LEMMA OfferSteps ==
  ASSUME IInv, [Next]_vars, NoSlice \in chOrderSlice'
  PROVE  NoSlice \in chOrderSlice \/ NilNext
<1>0. seqId \in Nat /\ NoSlice = 0
  BY Numbers DEF NoSlice
<1>1. ASSUME NEW list, Enqueue(list, seqId + 1)
      PROVE  NoSlice \in chOrderSlice
  BY <1>0, <1>1 DEF Enqueue
<1>2. CASE onStart
  <2>1. CASE StartWrite
    BY <2>1, <1>0 DEF StartWrite, Enqueue, IInv, Unsent, Ids
  <2>2. CASE StartCheck \/ StartRead
    BY <2>2 DEF StartCheck, StartRead, sliceVars
  <2> QED
    BY <1>2, <2>1, <2>2 DEF onStart
<1>3. CASE \E ev \in chOrder : onOrderEvent(ev)
  BY <1>1, <1>3 DEF onOrderEvent, SwapReturn, SpotReturn, sliceVars
<1>4. CASE BookFirst
  BY <1>1, <1>4 DEF BookFirst, sliceVars
<1>5. CASE BookReprice
  <2>1. PICK k \in DOMAIN book.todo : CanReprice(book.todo[k]) /\ nextOrder(book.todo[k])
    BY <1>5 DEF BookReprice
  <2>2. book.pc = "reprice"
    BY <1>5 DEF BookReprice
  <2> QED
    BY <1>1, <2>1, <2>2 DEF nextOrder, NilNext
<1>6. CASE \E i \in Ids : executeSlice(i)
  BY <1>6 DEF executeSlice
<1>7. CASE \/ RunDone \/ RunTimer \/ RunBook \/ ExecuteNil \/ ManagerStop \/ PrintTask
           \/ (\E e \in book.due : StoreTime(e)) \/ (\E i \in Ids : OnOrderError(i)) \/ Exchange
           \/ BookRetreat(SwapLeg, "retreatSwap", "retreatSpot")
           \/ BookRetreat(SpotLeg, "retreatSpot", "query")
           \/ BookQuery \/ BookQueried \/ BookFilter \/ BookAssign
           \/ BookFinish \/ BookCheck \/ BookNil \/ BookRepriced \/ UNCHANGED vars
  <2>1. UNCHANGED chOrderSlice
    BY <1>7 DEF RunDone, RunTimer, RunBook, ExecuteNil, ManagerStop, PrintTask, StoreTime, OnOrderError,
       Exchange, ExecuteSwap, ExecuteSpot, Disconnect, Reconnect, BookRetreat, BookQuery, BookQueried,
       BookFilter, BookAssign, BookFinish, BookCheck, BookNil, BookRepriced, sliceVars, vars
  <2> QED
    BY <2>1
<1> QED
  BY <1>2, <1>3, <1>4, <1>5, <1>6, <1>7 DEF Next, Run, onOrderBook

\* With room in the slices worth a repricing, each leaves something to the next.
LEMMA NoNilNext ==
  ASSUME IInv, Looping, Room, Worth
  PROVE  ~NilNext
<1> SUFFICES ASSUME book.pc = "reprice", NEW k \in DOMAIN book.todo,
                    CanReprice(book.todo[k]), NothingLeft(book.todo[k])
             PROVE  FALSE
  BY DEF NilNext
<1> DEFINE i == book.todo[k]
<1>1. i \in Ids /\ ~isOrderFinished(i) /\ Open(i)
  BY DEF Looping, Worth, Due, Full, IsSwap, Swap, isOrderFinished, CanReprice, Open
<1>2. slice[i].target \in Nat /\ slice[i].present \in Nat
  BY <1>1 DEF IInv, TypeOK, SliceType
<1>3. slice[i].present <= slice[i].target /\ slice[i].target # slice[i].present
  BY <1>1 DEF Room, isOrderFinished
<1>4. slice[i].target - slice[i].present <= 0
  BY <1>1 DEF NothingLeft
<1> QED
  BY <1>2, <1>3, <1>4

LEMMA StepStraight ==
  ASSUME IInv, Looping, InOrder, Alone, ~TwoFirsts, Straight, ~NilNext, [Next]_vars
  PROVE  Straight'
<1>0. /\ TypeOK /\ book \in BookType /\ orderSlices \in Lists /\ book.todo \in Lists
      /\ book.keep \in Lists /\ seqId \in Nat
  BY ListTypes DEF IInv
<1>1. NoSlice \notin chOrderSlice'
  BY OfferSteps DEF Straight
<1>2. Ranked(orderSlices')
  <2>1. CASE orderSlices' = orderSlices
    BY <2>1 DEF Straight
  <2>2. CASE StartCheck \/ StartRead
    BY <2>1, <2>2 DEF StartCheck, StartRead, sliceVars
  <2>3. CASE StartWrite
    <3>1. /\ orderSlices' = Append(orderSlices, start.new) /\ orderSlices = <<>>
          /\ start.new \in Ids
      BY <2>3 DEF StartWrite, Enqueue, Alone, Starting, IInv, Unsent
    <3>2. \A k \in 1..Len(orderSlices) : FALSE
      BY <3>1
    <3> QED
      BY <1>0, <3>1, <3>2, RankedAppend DEF Straight
  <2>4. CASE BookAssign
    BY <2>4 DEF BookAssign, Straight
  <2>5. CASE AppendsNew
    <3>1. seqId + 1 \in Ids
      <4>1. TypeOK'
        BY StepIInv DEF IInv
      <4> QED
        BY <1>0, <2>5, <4>1 DEF AppendsNew, TypeOK, Ids
    <3>2. \A k \in 1..Len(orderSlices) : orderSlices[k] \in Ids /\ orderSlices[k] <= seqId
      BY ListBounded DEF Straight
    <3>3. \A k \in 1..Len(orderSlices) : orderSlices[k] < seqId + 1
      BY <1>0, <3>2, Numbers
    <3> QED
      BY <1>0, <2>5, <3>1, <3>3, RankedAppend DEF AppendsNew, Straight
  <2> QED
    BY <2>1, <2>2, <2>3, <2>4, <2>5, ListSteps
<1>3. /\ book'.pc \in {"query", "filter"} => Ranked(book'.todo)
      /\ book'.pc = "filter" => Ranked(book'.keep) /\ Before(book'.keep, book'.todo)
  <2> DEFINE Goal == /\ book'.pc \in {"query", "filter"} => Ranked(book'.todo)
                     /\ book'.pc = "filter" => Ranked(book'.keep) /\ Before(book'.keep, book'.todo)
  <2>1. CASE book'.pc = book.pc /\ book'.todo = book.todo /\ book'.keep = book.keep
    BY <2>1 DEF Straight
  <2>2. CASE book'.pc \notin {"query", "filter", "reprice"}
    BY <2>2
  <2>3. CASE book'.pc = "query" /\ book'.todo = orderSlices
    BY <2>3 DEF Straight
  <2>4. CASE BookQuery
    <3>1. /\ book.pc = "query" /\ book.todo # <<>>
          /\ book'.pc = "query" /\ book'.todo = Tail(book.todo)
      BY <1>0, <2>4 DEF BookQuery, BookType
    <3> QED
      BY <1>0, <3>1, RankedTail DEF Straight
  <2>5. CASE BookQueried
    <3>1. book'.todo = orderSlices /\ book'.keep = <<>> /\ book'.pc = "filter"
      BY <1>0, <2>5 DEF BookQueried, BookType, InOrder, Recovered
    <3>2. Ranked(<<>>) /\ Before(<<>>, orderSlices)
      BY DEF Ranked, Before
    <3> QED
      BY <3>1, <3>2 DEF Straight
  <2>6. CASE BookFilter
    <3>1. /\ book.pc = "filter" /\ book.todo # <<>> /\ book'.todo = Tail(book.todo)
          /\ book'.keep = book.keep \/ book'.keep = Append(book.keep, Head(book.todo))
      BY <1>0, <2>6 DEF BookFilter, BookType
    <3> QED
      BY <1>0, <3>1, RankedFilter DEF Straight
  <2>7. CASE BookCheck
    <3>1. book'.pc \in {"reprice", "idle"}
      BY <1>0, <2>7, BookFields DEF BookCheck, BookType
    <3> QED
      BY <3>1
  <2>8. CASE BookReprice
    BY <1>0, <2>8 DEF BookReprice, BookType
  <2> QED
    BY <1>0, <2>1, <2>2, <2>3, <2>4, <2>5, <2>6, <2>7, <2>8, BookSteps
<1> QED
  BY <1>1, <1>2, <1>3 DEF Straight

\* The first order of a task is its first swap slice.
LEMMA OnlyFirst ==
  ASSUME IInv, Founded, NEW size \in Sizes, firstOrder(size), ~TwoFirsts'
  PROVE  /\ \A i \in Ids : ~Swap(i)
         /\ \A i \in Ids : Swap(i)' => i = seqId + 1
         /\ slice'[seqId + 1].present = 0
<1>1. \A i \in Ids : ~Swap(i)
  BY SecondFirst DEF Founded
<1>2. /\ seqId + 1 \in Ids
      /\ \A i \in Ids : i # seqId + 1 => slice'[i] = slice[i]
  BY FirstOrders
<1>3. slice'[seqId + 1].present = 0
  <2>1. slice' = [slice EXCEPT ![seqId + 1] = NewSlice("first", size, FALSE, NoFill)]
    BY DEF firstOrder
  <2>2. slice'[seqId + 1] = NewSlice("first", size, FALSE, NoFill)
    BY <1>2, <2>1, ListTypes DEF IInv, Slices
  <2> QED
    BY <2>2 DEF NewSlice
<1> QED
  BY <1>1, <1>2, <1>3 DEF Swap

\* A report changes what is present of its own slice, and of the first slice of
\* the list if that is another one.
LEMMA ReturnPresent ==
  ASSUME IInv, NEW ev \in chOrder, SwapReturn(ev), orderSlices[1] \in Ids
  PROVE  \A i \in Ids : i <= seqId =>
           /\ slice'[i].ignored = slice[i].ignored
           /\ slice'[i].present = slice[i].present \/ i = ev.id \/ i = orderSlices[1]
           /\ i = ev.id => slice'[i].present = ev.acc
<1>1. /\ slice \in Slices /\ ev.id \in Ids /\ ev.state \in OrderState /\ ev.acc \in Nat
      /\ seqId \in Nat /\ Ids \subseteq Nat
  BY Numbers DEF IInv, TypeOK, EventType, Slices
<1> DEFINE first    == orderSlices[1]
           reported == [slice EXCEPT ![ev.id].latest = ev.state, ![ev.id].present = ev.acc]
           credited == IF first = ev.id THEN reported
                       ELSE [reported EXCEPT ![first].present = @ + Credit(ev)]
<1>2. /\ reported[ev.id].present = ev.acc /\ reported[ev.id].ignored = slice[ev.id].ignored
      /\ \A j \in Ids : j # ev.id => reported[j] = slice[j]
      /\ reported \in Slices
  <2>1. [slice EXCEPT ![ev.id].latest = ev.state] \in Slices
    BY <1>1, SliceUpdates DEF Slices
  <2>2. reported \in Slices
    BY <1>1, <2>1, SliceUpdates DEF Slices
  <2> QED
    BY <1>1, <2>1, <2>2 DEF Slices, SliceType
<1>3. \A j \in Ids : j # seqId + 1 => slice'[j] = credited[j]
  BY <1>2 DEF SwapReturn, Slices
<1> HIDE DEF reported
<1>4. \A j \in Ids : /\ credited[j].ignored = reported[j].ignored
                     /\ j # first \/ first = ev.id => credited[j].present = reported[j].present
  BY <1>2 DEF Slices, SliceType
<1> HIDE DEF credited, first
<1> SUFFICES ASSUME NEW i \in Ids, i <= seqId
             PROVE  /\ slice'[i].ignored = slice[i].ignored
                    /\ slice'[i].present = slice[i].present \/ i = ev.id \/ i = first
                    /\ i = ev.id => slice'[i].present = ev.acc
  BY DEF first
<1>5. slice'[i] = credited[i]
  BY <1>1, <1>3
<1> QED
  BY <1>2, <1>4, <1>5

LEMMA ReturnOpen ==
  ASSUME IInv, Sized, Ranked(orderSlices), Newest, Room, NEW ev \in chOrder,
         Swap(ev.id), ev.id \in Tracked, SwapReturn(ev), ~MeetsNil(ev.id, FALSE)
  PROVE  Newest' /\ Room'
<1>0. /\ orderSlices[1] \in Ids /\ orderSlices \in Lists /\ ev.id \in Ids /\ ev.id <= seqId
      /\ seqId \in Nat /\ Ids \subseteq Nat
  BY HeadTracked, ListTypes, Numbers DEF IInv
<1>1. /\ slice'[seqId + 1].role = "spot"
      /\ \A j \in Ids : j <= seqId => /\ slice'[j].role = slice[j].role
                                      /\ slice'[j].target = slice[j].target
      /\ \A j \in Ids : j > seqId + 1 => slice'[j].role = "none"
  BY <1>0, SwapReturns
<1>2. \A i \in Ids : i <= seqId =>
         /\ slice'[i].ignored = slice[i].ignored
         /\ slice'[i].present = slice[i].present \/ i = ev.id \/ i = orderSlices[1]
         /\ i = ev.id => slice'[i].present = ev.acc
  BY <1>0, ReturnPresent
<1>3. \A j \in Ids : j <= seqId \/ j = seqId + 1 \/ j > seqId + 1
  BY <1>0
<1>4. \A j \in Ids : Swap(j)' => j <= seqId /\ Swap(j)
  BY <1>1, <1>3 DEF Swap
<1>5. \A j \in Ids : Open(j)' => j <= seqId /\ Open(j)
  BY <1>2, <1>4 DEF Open
<1>6. Newest'
  BY <1>4, <1>5 DEF Newest
<1>7. Room'
  <2> SUFFICES ASSUME NEW i \in Ids, Open(i)' PROVE slice'[i].present <= slice'[i].target
    BY DEF Room
  <2>1. i <= seqId /\ Open(i) /\ slice'[i].target = slice[i].target
    BY <1>1, <1>5
  <2>2. CASE slice'[i].present = slice[i].present
    BY <2>1, <2>2 DEF Room
  <2>3. CASE i = ev.id
    BY <1>2, <2>1, <2>3 DEF Sized
  <2>4. CASE i = orderSlices[1] /\ i # ev.id
    <3>1. PICK k \in 1..Len(orderSlices) : orderSlices[k] = ev.id
      BY <1>0, ListElements DEF Tracked, Elements
    <3>2. 1 \in 1..(k - 1)
      BY <1>0, <2>4, <3>1
    <3>3. i < ev.id
      BY <2>4, <3>1, <3>2 DEF Ranked
    <3>4. ev.id <= i
      BY <1>0, <2>1 DEF Newest
    <3> QED
      BY <1>0, <3>3, <3>4
  <2> QED
    BY <1>2, <2>1, <2>2, <2>3, <2>4
<1> QED
  BY <1>6, <1>7

LEMMA RepriceOpen ==
  ASSUME IInv, Looping, Newest, Room, BookReprice, ~NilNext
  PROVE  Newest' /\ Room'
<1>1. PICK k \in DOMAIN book.todo : CanReprice(book.todo[k]) /\ nextOrder(book.todo[k])
  BY DEF BookReprice
<1> DEFINE i == book.todo[k]
<1>2. i \in Ids /\ Open(i) /\ Swap(i) /\ ~NothingLeft(i)
  BY <1>1 DEF BookReprice, Looping, CanReprice, Open, NilNext
<1>3. /\ seqId < MaxSlices /\ seqId' = seqId + 1
      /\ slice' = [slice EXCEPT ![i].ignored = TRUE,
                                ![seqId + 1] = NewSlice("next", slice[i].target - slice[i].present, FALSE, NoFill)]
  BY <1>1, <1>2 DEF nextOrder
<1>4. /\ seqId \in Nat /\ Ids \subseteq Nat /\ seqId + 1 \in Ids /\ slice \in Slices
      /\ slice' \in Slices
  <2>1. seqId \in Nat /\ Ids \subseteq Nat /\ MaxSlices \in Nat
    BY Numbers
  <2>2. seqId + 1 \in Ids
    BY <1>3, <2>1 DEF Ids
  <2>3. slice' \in Slices
    BY <1>1, <1>2, NextOrders DEF Slices
  <2> QED
    BY <2>1, <2>2, <2>3, ListTypes DEF IInv
<1>5. \A j \in Ids : j > seqId + 1 => slice'[j].role = "none"
  BY <1>1, <1>2, <1>3, NextOrders
<1> HIDE DEF i
<1>6. i # seqId + 1
  BY <1>2, Numbers DEF Swap
<1>7. slice'[seqId + 1].present = 0
  BY <1>3, <1>4 DEF NewSlice, Slices
<1>8. /\ slice'[i].ignored
      /\ \A j \in Ids : j # i /\ j # seqId + 1 => slice'[j] = slice[j]
  BY <1>3, <1>4, <1>6, <1>2 DEF Slices, SliceType
<1>9. \A j \in Ids : Open(j) => j = i
  BY <1>2, <1>4 DEF Newest, Open
<1>10. \A j \in Ids : Open(j)' => j = seqId + 1
  BY <1>8, <1>9 DEF Open, Swap
<1>11. \A j \in Ids : Swap(j)' => j <= seqId + 1
  <2>1. \A j \in Ids : j <= seqId + 1 \/ j > seqId + 1
    BY <1>4
  <2> QED
    BY <1>5, <2>1 DEF Swap
<1>12. Newest'
  BY <1>10, <1>11 DEF Newest
<1>13. slice'[seqId + 1].target \in Nat
  BY <1>4 DEF Slices, SliceType
<1>14. Room'
  BY <1>7, <1>10, <1>13 DEF Room
<1> QED
  BY <1>12, <1>14

LEMMA StepOpen ==
  ASSUME IInv, Looping, Sized, Founded, ~TwoFirsts', Ranked(orderSlices),
         Newest, Room, ~NilNext, [Next]_vars
  PROVE  Newest' /\ Room'
<1>1. CASE Tame
  <2>1. \A i \in Ids : (Swap(i)' <=> Swap(i)) /\ (Open(i)' => Open(i))
    BY <1>1 DEF Tame, Swap, Open
  <2> QED
    BY <1>1, <2>1 DEF Newest, Room, Tame
<1>2. ASSUME NEW size \in Sizes, firstOrder(size)
      PROVE  Newest' /\ Room'
  <2>1. /\ \A i \in Ids : Swap(i)' => i = seqId + 1
        /\ slice'[seqId + 1].present = 0
    BY <1>2, OnlyFirst
  <2>2. \A i \in Ids : slice'[i].target \in Nat /\ i <= i
    <3>1. TypeOK'
      BY StepIInv DEF IInv
    <3> QED
      BY <3>1, Numbers DEF TypeOK, SliceType
  <2> QED
    BY <2>1, <2>2 DEF Newest, Room, Open
<1>3. CASE \E ev \in chOrder : Swap(ev.id) /\ ev.id \in Tracked /\ SwapReturn(ev) /\ ~MeetsNil(ev.id, FALSE)
  BY <1>3, ReturnOpen
<1>4. CASE BookReprice
  BY <1>4, RepriceOpen
<1> QED
  BY <1>1, <1>2, <1>3, <1>4, SliceSteps

\* While the repricing loop holds the mutex, only onStart touches the slices
\* besides the loop itself.
LEMMA LockedSteps ==
  ASSUME [Next]_vars, book.pc = "reprice"
  PROVE  UNCHANGED slice \/ StartCheck \/ BookReprice
<1>1. CASE Run
  BY <1>1 DEF Run, RunDone, RunTimer, RunBook, onOrderEvent, executeSlice, ExecuteNil, LockFree, sliceVars
<1>2. CASE onOrderBook
  BY <1>2 DEF onOrderBook, BookRetreat, BookQuery, BookQueried, BookFilter, BookAssign, BookFirst,
     BookFinish, BookCheck, BookNil, BookRepriced, sliceVars
<1>3. CASE \/ StartRead \/ StartWrite \/ ManagerStop \/ PrintTask
           \/ (\E e \in book.due : StoreTime(e)) \/ (\E i \in Ids : OnOrderError(i)) \/ Exchange
           \/ UNCHANGED vars
  BY <1>3 DEF StartRead, StartWrite, ManagerStop, PrintTask, StoreTime, OnOrderError, Exchange,
     ExecuteSwap, ExecuteSpot, Disconnect, Reconnect, sliceVars, vars
<1> QED
  BY <1>1, <1>2, <1>3 DEF Next, onStart

LEMMA StepWorth ==
  ASSUME IInv, Looping, Worth, [Next]_vars
  PROVE  Worth'
<1> SUFFICES ASSUME book'.pc = "reprice", NEW k \in DOMAIN book'.todo,
                    NEW i, i = book'.todo[k], Due(slice', i)
             PROVE  ~Full(slice', i)
  BY DEF Worth
<1>0. TypeOK /\ book \in BookType /\ slice \in Slices /\ book.todo \in Lists /\ orderSlices \in Lists
  BY ListTypes DEF IInv
<1>1. CASE BookCheck
  <2>1. Repricing /\ book'.todo = orderSlices
    BY <1>0, <1>1, BookFields DEF BookCheck, BookType
  <2>2. i \in Ids /\ i \in Tracked
    BY <1>0, <1>1, <2>1, ListElements DEF BookCheck, Tracked, Elements, Slots
  <2> DEFINE S == {m \in Tracked : Ended(m) \/ (Repricing /\ Reported(m))}
  <2>3. slice'[i] = IF i \in S THEN [slice[i] EXCEPT !.ignored = TRUE] ELSE slice[i]
    BY <1>1, <2>2 DEF BookCheck, Ignore
  <2>4. i \notin S
    <3>1. [slice[i] EXCEPT !.ignored = TRUE].ignored = TRUE
      BY <1>0, <2>2 DEF Slices, SliceType
    <3> HIDE DEF S
    <3> QED
      BY <2>3, <3>1 DEF Due
  <2>5. ~Reported(i)
    BY <2>1, <2>2, <2>4
  <2>6. slice'[i] = slice[i]
    BY <2>3, <2>4
  <2> QED
    BY <2>5, <2>6 DEF Due, Full, Reported, isOrderFinished, IsSwap, Swap
<1>2. ASSUME book.pc = "reprice", NEW m \in DOMAIN book.todo, i = book.todo[m], slice'[i] = slice[i]
      PROVE  ~Full(slice', i)
  BY <1>2 DEF Worth, Due, Full, IsSwap
<1>3. CASE book'.pc = book.pc /\ book'.todo = book.todo /\ ~BookReprice
  <2>1. i \in Ids
    BY <1>3 DEF Looping
  <2>2. CASE UNCHANGED slice
    BY <1>2, <1>3, <2>2
  <2>3. ASSUME NEW size \in Sizes, firstOrder(size)
        PROVE  slice'[i] = slice[i]
    <3>1. /\ seqId + 1 \in Ids
          /\ slice' = [slice EXCEPT ![seqId + 1] = NewSlice("first", size, FALSE, NoFill)]
      BY <2>3, FirstOrders DEF firstOrder
    <3>2. ~slice'[seqId + 1].ready
      BY <1>0, <3>1 DEF NewSlice, Slices
    <3>3. i # seqId + 1
      BY <3>2 DEF Due
    <3> QED
      BY <1>0, <2>1, <3>1, <3>3 DEF Slices
  <2>4. UNCHANGED slice \/ \E size \in Sizes : firstOrder(size)
    BY <1>3, LockedSteps DEF StartCheck
  <2> QED
    BY <1>2, <1>3, <2>2, <2>3, <2>4
<1>4. CASE BookReprice
  <2>1. PICK n \in DOMAIN book.todo : /\ CanReprice(book.todo[n]) /\ nextOrder(book.todo[n])
                                      /\ book' = [book EXCEPT !.todo = SubSeq(@, n + 1, Len(@))]
    BY <1>4 DEF BookReprice
  <2>2. book'.todo = SubSeq(book.todo, n + 1, Len(book.todo)) /\ book.pc = "reprice"
    BY <1>0, <1>4, <2>1 DEF BookReprice, BookType
  <2>3. n + k \in DOMAIN book.todo /\ i = book.todo[n + k]
    BY <1>0, <2>1, <2>2 DEF Lists
  <2>4. PICK j : j = book.todo[n]
    OBVIOUS
  <2>5. i \in Ids /\ j \in Ids /\ Swap(j) /\ nextOrder(j)
    BY <2>1, <2>2, <2>3, <2>4 DEF Looping, CanReprice
  <2>6. j # seqId + 1
    BY <2>5, Numbers DEF Swap
  <2>7. CASE NothingLeft(j)
    <3>1. slice' = [slice EXCEPT ![j].ignored = TRUE]
      BY <2>5, <2>7 DEF nextOrder
    <3>2. slice'[j].ignored
      BY <1>0, <2>5, <3>1 DEF Slices, SliceType
    <3>3. i # j
      BY <3>2 DEF Due
    <3> QED
      BY <1>0, <1>2, <2>2, <2>3, <2>5, <3>1, <3>3 DEF Slices
  <2>8. CASE ~NothingLeft(j)
    <3>1. slice' = [slice EXCEPT ![j].ignored = TRUE,
                                 ![seqId + 1] = NewSlice("next", slice[j].target - slice[j].present, FALSE, NoFill)]
      BY <2>5, <2>8 DEF nextOrder
    <3>2. slice'[j].ignored
      BY <1>0, <2>5, <2>6, <3>1 DEF Slices, SliceType
    <3>3. i = seqId + 1 => ~slice'[i].ready
      BY <1>0, <2>5, <3>1 DEF NewSlice, Slices
    <3>4. i # j /\ i # seqId + 1
      BY <3>2, <3>3 DEF Due
    <3> QED
      BY <1>0, <1>2, <2>2, <2>3, <2>5, <3>1, <3>4 DEF Slices
  <2> QED
    BY <2>7, <2>8
<1>5. CASE BookQuery \/ BookQueried \/ BookFilter
  BY <1>0, <1>5 DEF BookQuery, BookQueried, BookFilter, BookType
<1> QED
  BY <1>0, <1>1, <1>3, <1>4, <1>5, BookSteps

Solid == Sized /\ Founded /\ Single

LEMMA SolidInvariance == Spec => [](Inductive /\ InOrder /\ Accounted /\ Solid)
<1>1. Init => Solid
  <2> SUFFICES ASSUME Init PROVE Solid
    OBVIOUS
  <2>1. \A i \in Ids : ~Swap(i)
    BY DEF Init, NewSlice, Swap
  <2>2. Sized /\ Founded /\ Newest /\ Room
    BY <2>1 DEF Init, Sized, Founded, Newest, Room, Open
  <2>3. Straight /\ Worth
    BY DEF Init, Straight, Ranked, Worth
  <2> QED
    BY <2>2, <2>3 DEF Solid, Single
<1>2. ASSUME Inductive, InOrder, Accounted, Solid, [Next]_vars
      PROVE  Solid'
  <2>1. IInv /\ Looping /\ Alone
    BY <1>2 DEF Inductive, Accounted
  <2>2. Sized' /\ Founded'
    BY <1>2, <2>1, StepSized, StepFounded DEF Solid
  <2>3. ASSUME ~TwoFirsts'
        PROVE  Straight' /\ Newest' /\ Room' /\ Worth'
    <3>1. ~TwoFirsts
      BY <1>2, <2>1, <2>3, StepGrows, FirstsGrow
    <3>2. Straight /\ Newest /\ Room /\ Worth /\ Sized /\ Founded
      BY <1>2, <3>1 DEF Solid, Single
    <3>3. ~NilNext
      BY <2>1, <3>2, NoNilNext
    <3>4. Straight'
      BY <1>2, <2>1, <3>1, <3>2, <3>3, StepStraight
    <3>5. Newest' /\ Room'
      BY <1>2, <2>1, <2>3, <3>2, <3>3, StepOpen DEF Straight
    <3>6. Worth'
      BY <1>2, <2>1, <3>2, StepWorth
    <3> QED
      BY <3>4, <3>5, <3>6
  <2> QED
    BY <2>2, <2>3 DEF Solid, Single
<1>3. Inductive /\ InOrder /\ Accounted /\ Solid /\ [Next]_vars => Solid'
  BY <1>2
<1> QED
  BY <1>1, <1>3, AccountedInvariance, PTL DEF Spec

\* A panic is a dereferenced nil slice.
LEMMA Panics ==
  ASSUME TypeOK, [Next]_vars, task'.proc = "panic", task.proc # "panic"
  PROVE  NoSlice \in Tracked \cup chOrderSlice \cup Inspected
<1>0. task \in TaskType
  BY DEF TypeOK
<1>1. \A i, stops : MeetsNil(i, stops) => NoSlice \in Tracked
  BY DEF MeetsNil, Tracked, Elements
<1>2. Stop => task'.proc = task.proc
  BY <1>0 DEF Stop, TaskType
<1>3. CASE Run
  <2>1. CASE ExecuteNil
    BY <2>1 DEF ExecuteNil
  <2>2. CASE \E ev \in chOrder : onOrderEvent(ev)
    BY <1>1, <1>2, <2>2 DEF onOrderEvent, SwapReturn, SpotReturn
  <2>3. CASE \E i \in Ids : executeSlice(i)
    BY <1>2, <2>3 DEF executeSlice
  <2>4. CASE RunDone \/ RunTimer \/ RunBook
    BY <1>0, <1>2, <2>4 DEF RunDone, RunTimer, RunBook, TaskType
  <2> QED
    BY <1>3, <2>1, <2>2, <2>3, <2>4 DEF Run
<1>4. CASE onOrderBook
  <2>1. CASE BookNil
    BY <2>1 DEF BookNil
  <2>2. CASE BookQuery
    BY <1>0, <2>2 DEF BookQuery, Die, TaskType
  <2>3. CASE BookFinish
    BY <1>2, <2>3 DEF BookFinish
  <2>4. CASE \/ BookRetreat(SwapLeg, "retreatSwap", "retreatSpot")
             \/ BookRetreat(SpotLeg, "retreatSpot", "query")
             \/ BookQueried \/ BookFilter \/ BookAssign \/ BookFirst
             \/ BookCheck \/ BookReprice \/ BookRepriced
    BY <2>4 DEF BookRetreat, BookQueried, BookFilter, BookAssign, BookFirst, BookCheck,
       BookReprice, BookRepriced
  <2> QED
    BY <1>4, <2>1, <2>2, <2>3, <2>4 DEF onOrderBook
<1>5. CASE PrintTask
  BY <1>5 DEF PrintTask
<1>6. CASE \E i \in Ids : OnOrderError(i)
  BY <1>1, <1>2, <1>6 DEF OnOrderError
<1>7. CASE ManagerStop
  BY <1>2, <1>7 DEF ManagerStop
<1>8. CASE onStart \/ (\E e \in book.due : StoreTime(e)) \/ Exchange \/ UNCHANGED vars
  BY <1>8 DEF onStart, StartCheck, StartRead, StartWrite, StoreTime, Exchange, ExecuteSwap,
     ExecuteSpot, Disconnect, Reconnect, vars
<1> QED
  BY <1>3, <1>4, <1>5, <1>6, <1>7, <1>8 DEF Next

\* The process only panics when onStart and a book both made a first order:
\* with one first order the slice that the repricing loop replaces always has
\* something left, and so nextOrder never returns nil (order.go:656).
THEOREM PanicFree == Spec => []PanicNeedsTwoFirsts
<1>1. Init => PanicNeedsTwoFirsts
  BY DEF Init, PanicNeedsTwoFirsts
<1>2. ASSUME Inductive, InOrder, Accounted, Solid, PanicNeedsTwoFirsts, [Next]_vars
      PROVE  PanicNeedsTwoFirsts'
  <2> SUFFICES ASSUME task'.proc = "panic", ~TwoFirsts' PROVE FALSE
    BY DEF PanicNeedsTwoFirsts
  <2>1. IInv /\ Looping /\ TypeOK /\ ~TwoFirsts
    BY <1>2, StepGrows, FirstsGrow DEF Inductive, IInv
  <2>2. Straight
    BY <1>2, <2>1 DEF Solid, Single
  <2>3. NoSlice \in Tracked \cup chOrderSlice \cup Inspected
    BY <1>2, <2>1, Panics DEF PanicNeedsTwoFirsts
  <2>4. NoSlice \notin Tracked
    BY <2>1, <2>2, ListTypes, ListElements DEF Straight, Ranked, Tracked, Elements
  <2>5. NoSlice \notin Inspected
    <3>1. CASE book.pc \in {"query", "filter"} /\ book.todo # <<>>
      <4>1. Head(book.todo) \in Ids
        BY <2>1, <2>2, <3>1, ListTypes, RankedTail DEF Straight
      <4> QED
        BY <3>1, <4>1 DEF Inspected, NoSlice, Ids
    <3>2. CASE ~(book.pc \in {"query", "filter"} /\ book.todo # <<>>)
      BY <2>4, <3>2 DEF Inspected
    <3> QED
      BY <3>1, <3>2
  <2> QED
    BY <2>2, <2>3, <2>4, <2>5 DEF Straight
<1>3. Inductive /\ InOrder /\ Accounted /\ Solid /\ PanicNeedsTwoFirsts /\ [Next]_vars
        => PanicNeedsTwoFirsts'
  BY <1>2
<1> QED
  BY <1>1, <1>3, SolidInvariance, PTL DEF Spec

-----------------------------------------------------------------------------
(* The executions nobody answers *)

\* No report is lost or passed over without an outage or two first orders.
Missed == lost # {} => used.outages > 0 \/ TwoFirsts

LEMMA MissedInvariance == Spec => []Missed
<1>1. Init => Missed
  BY DEF Init, Missed
<1>2. ASSUME Inductive, InOrder, Accounted, Missed, [Next]_vars
      PROVE  Missed'
  <2>0. IInv /\ TypeOK /\ Unbroken /\ (TwoFirsts => TwoFirsts')
    BY <1>2, StepGrows, FirstsGrow DEF Inductive, IInv, Accounted
  <2> SUFFICES ASSUME lost' # {}, ~TwoFirsts', ~(used'.outages > 0) PROVE FALSE
    BY DEF Missed
  <2>1. used'.outages = 0
    <3>1. TypeOK'
      BY <1>2, StepIInv DEF Inductive, IInv
    <3>2. used'.outages \in Nat
      BY <3>1 DEF TypeOK, UsedType
    <3> QED
      BY <3>2
  <2>2. UNCHANGED net /\ Untroubled /\ net.up
    BY <1>2, <2>0, <2>1, NetSteps DEF Untroubled, Unbroken
  <2>3. lost' # lost
    BY <1>2, <2>0, <2>2 DEF Missed, Untroubled
  <2>4. PICK ev \in chOrder : ev.id \notin Tracked /\ ev.fill > 0 /\ Swap(ev.id)
    BY <1>2, <2>0, <2>2, <2>3, LostSteps
  <2>5. Held(ev.id)
    BY <1>2, <2>0, <2>2, <2>4, Numbers DEF Accounted, AllTracked
  <2>6. exch[ev.id].state = "absent"
    BY <2>0, <2>5 DEF Held, Starting, IInv, Unsent
  <2> QED
    BY <2>0, <2>4, <2>6, UnsentSilent
<1>3. Inductive /\ InOrder /\ Accounted /\ Missed /\ [Next]_vars => Missed'
  BY <1>2
<1> QED
  BY <1>1, <1>3, AccountedInvariance, PTL DEF Spec

\* A swap execution that nobody acts on takes an outage, or two first orders of
\* which one overwrote the other in the list: without either, the slice of every
\* order that was sent is in the list, where onOrderEvent looks for it, for as
\* long as the loop runs and no failed query ends the process.
THEOREM Losses == Spec => []NoFillLostQuietly
<1>1. Inductive /\ Missed /\ PanicNeedsTwoFirsts => NoFillLostQuietly
  <2> SUFFICES ASSUME TypeOK, Missed, PanicNeedsTwoFirsts PROVE NoFillLostQuietly
    BY DEF Inductive, IInv
  <2>1. ~Served => ~task.run \/ task.proc \in {"panic", "fatal"}
    BY DEF TypeOK, TaskType, Served, Alive
  <2> QED
    BY <2>1 DEF NoFillLostQuietly, Unanswered, Missed, PanicNeedsTwoFirsts
<1> QED
  BY <1>1, Invariance, MissedInvariance, PanicFree, PTL
=============================================================================
