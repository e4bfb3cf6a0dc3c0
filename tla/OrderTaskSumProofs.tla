------------------------- MODULE OrderTaskSumProofs -------------------------
(***************************************************************************)
(* Theorems about the quantities of OrderTask: how many first orders there *)
(* are, that the two legs match, what the last spot slice says of the swap *)
(* leg, and that a task which finishes has executed its amount.            *)
(*                                                                         *)
(* A sum of natural numbers is the number of elements of a set that has a  *)
(* row for each of them, so that the sums are reasoned about as finite     *)
(* sets; that the fold of the library is this number is proved first.      *)
(***************************************************************************)
EXTENDS OrderTaskSums, OrderTaskListProofs, FiniteSetTheorems

-----------------------------------------------------------------------------
(* Sums over finite sets *)

\* The sum of g over S, laid out as a set: a row of g[i] units for each i.
Row(g, i)   == {i} \X (1..g[i])
Units(g, S) == UNION {Row(g, i) : i \in S}

\* Induction over the subsets of a finite set, all smaller ones to lean on: what
\* is to be shown is a set, so that the provers need not instantiate an operator.
LEMMA StrongInduction ==
  ASSUME NEW S, IsFiniteSet(S), NEW F,
         \A s \in SUBSET S : (\A r \in SUBSET s : r # s => r \in F) => s \in F
  PROVE  S \in F
<1> DEFINE T == {s \in SUBSET S : s \notin F}
<1>1. SUFFICES ASSUME T # {} PROVE FALSE
  OBVIOUS
<1>2. IsWellFoundedOn(StrictSubsetOrdering(S), SUBSET S)
  BY FS_StrictSubsetOrderingWellFounded, FS_FiniteSubsetsOfFinite
<1>3. PICK s \in T : \A r \in T : <<r, s>> \notin StrictSubsetOrdering(S)
  <2> HIDE DEF T
  <2>1. T \subseteq SUBSET S
    BY DEF T
  <2> QED
    BY <1>1, <1>2, <2>1, WFMin
<1>4. \A r \in SUBSET s : r # s => r \in F
  BY <1>3 DEF StrictSubsetOrdering
<1> QED
  BY <1>3, <1>4

\* The same for one more element at a time.
LEMMA SubsetInduction ==
  ASSUME NEW S, IsFiniteSet(S), NEW F, {} \in F,
         \A s \in SUBSET S : \A x \in S : s \in F /\ x \notin s => s \cup {x} \in F
  PROVE  S \in F
<1>1. ASSUME NEW s \in SUBSET S, \A r \in SUBSET s : r # s => r \in F
      PROVE  s \in F
  <2> SUFFICES ASSUME s # {} PROVE s \in F
    OBVIOUS
  <2>1. PICK x \in s : TRUE
    OBVIOUS
  <2>2. s \ {x} \in F /\ s \ {x} \in SUBSET S /\ (s \ {x}) \cup {x} = s
    BY <1>1
  <2> QED
    BY <2>1, <2>2
<1> QED
  BY <1>1, StrongInduction

\* A row more: the units are finitely many, and g[x] more.
LEMMA RowAdded ==
  ASSUME NEW S, IsFiniteSet(S), NEW g, \A i \in S : g[i] \in Nat,
         NEW s \in SUBSET S, NEW x \in S \ s, IsFiniteSet(Units(g, s))
  PROVE  /\ IsFiniteSet(Units(g, s \cup {x}))
         /\ Cardinality(Units(g, s \cup {x})) = Cardinality(Units(g, s)) + g[x]
<1>1. IsFiniteSet(Row(g, x)) /\ Cardinality(Row(g, x)) = g[x]
  <2>1. IsFiniteSet({x}) /\ Cardinality({x}) = 1
    BY FS_Singleton
  <2>2. g[x] \in Nat
    OBVIOUS
  <2>3. IsFiniteSet(1..g[x]) /\ Cardinality(1..g[x]) = g[x]
    BY <2>2, FS_Interval
  <2>4. IsFiniteSet({x} \X (1..g[x])) /\ Cardinality({x} \X (1..g[x])) = 1 * g[x]
    BY <2>1, <2>3, FS_Product
  <2> QED
    BY <2>2, <2>4 DEF Row
<1>2. Units(g, s \cup {x}) = Units(g, s) \cup Row(g, x)
  BY DEF Units
<1>3. Units(g, s) \cap Row(g, x) = {}
  BY DEF Units, Row
<1>4. Cardinality(Units(g, s) \cap Row(g, x)) = 0
  BY <1>3, FS_EmptySet
<1>5. Cardinality(Units(g, s)) \in Nat
  BY FS_CardinalityType
<1>6. /\ IsFiniteSet(Units(g, s) \cup Row(g, x))
      /\ Cardinality(Units(g, s) \cup Row(g, x))
            = Cardinality(Units(g, s)) + Cardinality(Row(g, x)) - Cardinality(Units(g, s) \cap Row(g, x))
  BY <1>1, FS_Union
<1>7. g[x] \in Nat
  OBVIOUS
<1>8. IsFiniteSet(Units(g, s \cup {x}))
  BY <1>2, <1>6
<1>9. Cardinality(Units(g, s \cup {x})) = Cardinality(Units(g, s)) + g[x] - 0
  BY <1>1, <1>2, <1>4, <1>6
<1> QED
  BY <1>5, <1>7, <1>8, <1>9

LEMMA UnitsFinite ==
  ASSUME NEW S, IsFiniteSet(S), NEW g, \A i \in S : g[i] \in Nat
  PROVE  IsFiniteSet(Units(g, S))
<1> DEFINE F == {s \in SUBSET S : IsFiniteSet(Units(g, s))}
<1>1. {} \in F
  <2>1. Units(g, {}) = {}
    BY DEF Units
  <2> QED
    BY <2>1, FS_EmptySet
<1>2. \A s \in SUBSET S : \A x \in S : s \in F /\ x \notin s => s \cup {x} \in F
  BY RowAdded
<1>3. S \in F
  <2> HIDE DEF F
  <2> QED
    BY <1>1, <1>2, SubsetInduction
<1> QED
  BY <1>3

\* The sum of the library counts the units.
LEMMA SumCounts ==
  ASSUME NEW S, IsFiniteSet(S), NEW g, \A i \in S : g[i] \in Nat
  PROVE  SumFunctionOnSet(g, S) = Cardinality(Units(g, S))
<1> DEFINE pick(s) == CHOOSE x \in s : TRUE
           body(f, s) == IF s = {} THEN 0 ELSE g[pick(s)] + f[s \ {pick(s)}]
           iter == CHOOSE f : f = [s \in SUBSET S |-> body(f, s)]
           count == [s \in SUBSET S |-> Cardinality(Units(g, s))]
<1>1. SumFunctionOnSet(g, S) = iter[S]
  BY DEF SumFunctionOnSet, FoldFunctionOnSet, MapThenFoldSet
<1>2. \A s \in SUBSET S : s # {} =>
         /\ pick(s) \in s
         /\ s \ {pick(s)} \in SUBSET S
         /\ (s \ {pick(s)}) \cup {pick(s)} = s
  OBVIOUS
<1>3. \A s \in SUBSET S : s # {} => count[s] = g[pick(s)] + count[s \ {pick(s)}]
  <2> SUFFICES ASSUME NEW s \in SUBSET S, s # {}
               PROVE  Cardinality(Units(g, s)) = g[pick(s)] + Cardinality(Units(g, s \ {pick(s)}))
    BY <1>2
  <2> DEFINE x == pick(s)
             r == s \ {x}
  <2>1. x \in S \ r /\ r \in SUBSET S /\ r \cup {x} = s
    BY <1>2
  <2> HIDE DEF x, r, pick
  <2>2. IsFiniteSet(r)
    BY <2>1, FS_Subset
  <2>3. IsFiniteSet(Units(g, r))
    BY <2>1, <2>2, UnitsFinite
  <2>4. Cardinality(Units(g, s)) = Cardinality(Units(g, r)) + g[x]
    BY <2>1, <2>3, RowAdded
  <2>5. Cardinality(Units(g, r)) \in Nat /\ g[x] \in Nat
    BY <2>1, <2>3, FS_CardinalityType
  <2> QED
    BY <2>4, <2>5 DEF x, r
<1>4. count[{}] = 0
  <2>1. Units(g, {}) = {}
    BY DEF Units
  <2> QED
    BY <2>1, FS_EmptySet
<1>5. count = [s \in SUBSET S |-> body(count, s)]
  <2> HIDE DEF pick
  <2>1. \A s \in SUBSET S : count[s] = body(count, s)
    <3> HIDE DEF count
    <3> QED BY <1>3, <1>4
  <2>2. count = [s \in SUBSET S |-> count[s]]
    OBVIOUS
  <2> HIDE DEF count, body
  <2> QED BY <2>1, <2>2
<1>6. iter = [s \in SUBSET S |-> body(iter, s)]
  <2> HIDE DEF count, body
  <2> QED BY <1>5
<1> DEFINE F == {s \in SUBSET S : iter[s] = count[s]}
<1>7. {} \in F
  <2> HIDE DEF count, iter, pick
  <2>1. iter[{}] = body(iter, {})
    BY <1>6
  <2> QED
    BY <1>4, <2>1
<1>8. \A s \in SUBSET S : (\A r \in SUBSET s : r # s => r \in F) => s \in F
  <2> HIDE DEF count, iter
  <2> SUFFICES ASSUME NEW s \in SUBSET S, \A r \in SUBSET s : r # s => r \in F, s # {}
               PROVE  iter[s] = count[s]
    BY <1>7
  <2>1. iter[s] = g[pick(s)] + iter[s \ {pick(s)}]
    <3> HIDE DEF pick
    <3> QED BY <1>6
  <2>2. s \ {pick(s)} \in SUBSET s /\ s \ {pick(s)} # s
    BY <1>2
  <2> HIDE DEF pick
  <2> QED
    BY <1>3, <2>1, <2>2
<1>9. S \in F
  <2> HIDE DEF F, count, iter
  <2> QED BY <1>8, StrongInduction
<1> QED
  BY <1>1, <1>9

\* A sum whose terms each stay within m below c times the size of a set of their
\* own, these sets being disjoint, stays within m for each term below c times
\* the size of their union.
Cover(B, S) == UNION {B[j] : j \in S}

LEMMA CoverBounds ==
  ASSUME NEW S, IsFiniteSet(S), NEW g, \A j \in S : g[j] \in Nat,
         NEW B, \A j \in S : IsFiniteSet(B[j]),
         \A i, j \in S : i # j => B[i] \cap B[j] = {},
         NEW c \in Nat, NEW m \in Nat,
         \A j \in S : /\ g[j] <= c * Cardinality(B[j])
                     /\ c * Cardinality(B[j]) - m <= g[j]
  PROVE  /\ IsFiniteSet(Cover(B, S))
         /\ SumFunctionOnSet(g, S) <= c * Cardinality(Cover(B, S))
         /\ c * Cardinality(Cover(B, S)) - m * Cardinality(S) <= SumFunctionOnSet(g, S)
<1> DEFINE F == {s \in SUBSET S :
                   /\ IsFiniteSet(Cover(B, s)) /\ IsFiniteSet(Units(g, s)) /\ IsFiniteSet(s)
                   /\ Cardinality(Units(g, s)) <= c * Cardinality(Cover(B, s))
                   /\ c * Cardinality(Cover(B, s)) - m * Cardinality(s) <= Cardinality(Units(g, s))}
<1>1. {} \in F
  <2>1. Units(g, {}) = {} /\ Cover(B, {}) = {}
    BY DEF Units, Cover
  <2>2. 0 <= c * 0 /\ c * 0 - m * 0 <= 0
    OBVIOUS
  <2>3. /\ IsFiniteSet(Cover(B, {})) /\ IsFiniteSet(Units(g, {})) /\ IsFiniteSet({})
        /\ Cardinality(Units(g, {})) = 0 /\ Cardinality(Cover(B, {})) = 0 /\ Cardinality({}) = 0
    BY <2>1, FS_EmptySet
  <2>4. /\ Cardinality(Units(g, {})) <= c * Cardinality(Cover(B, {}))
        /\ c * Cardinality(Cover(B, {})) - m * Cardinality({}) <= Cardinality(Units(g, {}))
    BY <2>2, <2>3
  <2> QED
    BY <2>3, <2>4
<1>2. ASSUME NEW s \in SUBSET S, NEW x \in S, s \in F, x \notin s
      PROVE  s \cup {x} \in F
  <2> DEFINE u == Cardinality(Units(g, s))  v == Cardinality(Cover(B, s))
             n == Cardinality(s)            b == Cardinality(B[x])
  <2>1. /\ IsFiniteSet(Cover(B, s)) /\ IsFiniteSet(Units(g, s)) /\ IsFiniteSet(s)
        /\ u <= c * v /\ c * v - m * n <= u
    BY <1>2
  <2>2. u \in Nat /\ v \in Nat /\ n \in Nat /\ b \in Nat /\ g[x] \in Nat
    BY <2>1, FS_CardinalityType
  <2>3. /\ IsFiniteSet(Units(g, s \cup {x}))
        /\ Cardinality(Units(g, s \cup {x})) = u + g[x]
    BY <1>2, <2>1, RowAdded
  <2>4. IsFiniteSet(s \cup {x}) /\ Cardinality(s \cup {x}) = n + 1
    BY <1>2, <2>1, FS_AddElement
  <2>5. Cover(B, s \cup {x}) = Cover(B, s) \cup B[x] /\ Cover(B, s) \cap B[x] = {}
    BY <1>2 DEF Cover
  <2>6. /\ IsFiniteSet(Cover(B, s \cup {x}))
        /\ Cardinality(Cover(B, s \cup {x})) = v + b - 0
    <3>1. IsFiniteSet(B[x]) /\ Cardinality(Cover(B, s) \cap B[x]) = 0
      BY <2>5, FS_EmptySet
    <3>2. /\ IsFiniteSet(Cover(B, s) \cup B[x])
          /\ Cardinality(Cover(B, s) \cup B[x]) = v + b - Cardinality(Cover(B, s) \cap B[x])
      BY <2>1, <3>1, FS_Union
    <3> QED
      BY <2>5, <3>1, <3>2
  <2>7. g[x] <= c * b /\ c * b - m <= g[x]
    OBVIOUS
  <2> HIDE DEF u, v, n, b
  <2>8. c * (v + b) = c * v + c * b /\ m * (n + 1) = m * n + m
    BY <2>2
  <2>9. /\ c * v \in Nat /\ c * b \in Nat /\ m * n \in Nat
        /\ v + b - 0 = v + b
    BY <2>2
  <2>10. u + g[x] <= c * (v + b) /\ c * (v + b) - m * (n + 1) <= u + g[x]
    BY <2>1, <2>2, <2>7, <2>8, <2>9
  <2> QED
    BY <1>2, <2>3, <2>4, <2>6, <2>9, <2>10
<1>3. S \in F
  <2> HIDE DEF F
  <2> QED
    BY <1>1, <1>2, SubsetInduction
<1> QED
  BY <1>3, SumCounts

-----------------------------------------------------------------------------
(* First orders *)

\* The first orders that no race explains: onStart's own is one of the race.
Unraced == IF StartRace THEN Firsts \ {start.new} ELSE Firsts

\* A book that gets to it now would place a first order.
Vacant == orderSlices = <<>> /\ (StartRace \/ ~Starting)

\* Each recovery pays for one first order: for one that follows it, or for the
\* one that was there before, when it empties the list.
Budget ==
    Cardinality(Unraced) + (IF Vacant THEN 1 ELSE 0) + (IF Recovering THEN 1 ELSE 0)
        <= 1 + used.recoveries

\* Books do not overtake onStart unless there is a race, and onStart makes one
\* slice at most.
Punctual ==
    /\ start.pc = "check" => start.new = NoSlice
    /\ start.pc # "done" => StartRace \/ book.pc = "idle"

LEMMA FirstsFinite ==
  /\ IsFiniteSet(Ids) /\ IsFiniteSet(Firsts) /\ IsFiniteSet(Unraced)
  /\ Cardinality(Firsts) \in Nat /\ Cardinality(Unraced) \in Nat
<1>1. IsFiniteSet(Ids)
  BY BoundAssumption, FS_Interval DEF Ids
<1>2. Firsts \in SUBSET Ids /\ Unraced \in SUBSET Ids
  BY DEF Firsts, Unraced
<1>3. IsFiniteSet(Firsts) /\ IsFiniteSet(Unraced)
  BY <1>1, <1>2, FS_Subset
<1> QED
  BY <1>1, <1>3, FS_CardinalityType

\* A first order is one first slice more.
LEMMA FirstAdded ==
  ASSUME IInv, NEW size \in Sizes, firstOrder(size)
  PROVE  Firsts' = Firsts \cup {seqId + 1} /\ seqId + 1 \notin Firsts
<1>1. /\ seqId + 1 \in Ids /\ slice'[seqId + 1].role = "first"
      /\ \A i \in Ids : i # seqId + 1 => slice'[i] = slice[i]
  BY FirstOrders
<1>2. slice[seqId + 1].role = "none"
  BY FirstGrows
<1> QED
  BY <1>1, <1>2 DEF Firsts

\* Only a first order makes a first slice.
LEMMA FirstsKept ==
  ASSUME IInv,
         \/ \A i \in Ids : slice'[i].role = slice[i].role
         \/ \E i \in Ids : Swap(i) /\ nextOrder(i)
         \/ \E ev \in chOrder : SwapReturn(ev) /\ orderSlices[1] \in Ids
  PROVE  Firsts' = Firsts
<1>1. CASE \A i \in Ids : slice'[i].role = slice[i].role
  BY <1>1 DEF Firsts
<1>2. ASSUME NEW i \in Ids, Swap(i), nextOrder(i)
      PROVE  Firsts' = Firsts
  <2>0. /\ slice \in Slices /\ seqId \in Nat /\ \A j \in Ids : j > seqId => slice[j].role = "none"
        /\ Ids \subseteq Nat
    BY <1>2, Numbers DEF IInv, TypeOK, Slices
  <2>1. \A j \in Ids : j # seqId + 1 => slice'[j].role = slice[j].role
    <3>1. [slice EXCEPT ![i].ignored = TRUE][i].role = slice[i].role
      BY <2>0 DEF Slices, SliceType
    <3>2. \A j \in Ids : j # seqId + 1 => slice'[j] = [slice EXCEPT ![i].ignored = TRUE][j]
      BY <1>2, <2>0 DEF nextOrder, Slices
    <3>3. \A j \in Ids : [slice EXCEPT ![i].ignored = TRUE][j].role = slice[j].role
      BY <2>0, <3>1 DEF Slices
    <3> QED
      BY <3>2, <3>3
  <2>2. seqId + 1 \in Ids => slice'[seqId + 1].role # "first"
    <3> SUFFICES ASSUME seqId + 1 \in Ids PROVE slice'[seqId + 1].role # "first"
      OBVIOUS
    <3>1. i # seqId + 1
      BY <1>2, <2>0, Numbers DEF Swap
    <3>3. CASE NothingLeft(i)
      <4>1. slice'[seqId + 1] = slice[seqId + 1]
        BY <1>2, <2>0, <3>1, <3>3 DEF nextOrder, Slices
      <4> QED
        BY <2>0, <4>1
    <3>4. CASE ~NothingLeft(i)
      <4>1. slice'[seqId + 1] = NewSlice("next", slice[i].target - slice[i].present, FALSE, NoFill)
        BY <1>2, <2>0, <3>1, <3>4 DEF nextOrder, Slices
      <4> QED
        BY <4>1 DEF NewSlice
    <3> QED
      BY <3>3, <3>4
  <2>3. seqId + 1 \in Ids => slice[seqId + 1].role = "none"
    BY <2>0
  <2>4. \A j \in Ids : slice'[j].role = "first" <=> slice[j].role = "first"
    BY <2>1, <2>2, <2>3
  <2> QED
    BY <2>4 DEF Firsts
<1>3. ASSUME NEW ev \in chOrder, SwapReturn(ev), orderSlices[1] \in Ids
      PROVE  Firsts' = Firsts
  <2>1. /\ \A j \in Ids : j <= seqId => slice'[j].role = slice[j].role
        /\ slice'[seqId + 1].role = "spot"
        /\ \A j \in Ids : j > seqId + 1 => slice'[j].role = "none"
    BY <1>3, SwapReturns
  <2>2. \A j \in Ids : j <= seqId \/ j = seqId + 1 \/ j > seqId + 1
    BY Numbers
  <2>3. \A j \in Ids : ~(j <= seqId) => slice[j].role = "none"
    BY Numbers
  <2>4. \A j \in Ids : slice'[j].role = "first" <=> slice[j].role = "first"
    BY <2>1, <2>2, <2>3
  <2> QED
    BY <2>4 DEF Firsts
<1> QED
  BY <1>1, <1>2, <1>3

\* A step that makes no first slice, leaves no list empty, starts no recovery.
LEMMA BudgetKept ==
  ASSUME IInv, Budget, Firsts' = Firsts, UNCHANGED start,
         orderSlices' = <<>> => orderSlices = <<>>,
         Recovering' => Recovering, used'.recoveries = used.recoveries
  PROVE  Budget'
<1>1. Unraced' = Unraced
  BY DEF Unraced
<1>2. Vacant' => Vacant
  BY DEF Vacant, Starting
<1>3. Cardinality(Unraced) \in Nat /\ used.recoveries \in Nat
  BY FirstsFinite DEF IInv, TypeOK, UsedType
<1> QED
  BY <1>1, <1>2, <1>3 DEF Budget

\* Only onStart and a book that finds nothing tracked make first orders.
LEMMA FirstSteps ==
  ASSUME IInv, Looping, [Next]_vars, ~StartCheck, ~BookFirst
  PROVE  Firsts' = Firsts
<1>0. slice \in Slices /\ chOrder \subseteq EventType /\ seqId \in Nat
  BY Numbers DEF IInv, TypeOK, Slices
<1>1. CASE BookReprice
  <2>1. PICK k \in DOMAIN book.todo : CanReprice(book.todo[k]) /\ nextOrder(book.todo[k])
    BY <1>1 DEF BookReprice
  <2>2. book.todo[k] \in Ids /\ Swap(book.todo[k])
    BY <1>1, <2>1 DEF BookReprice, Looping, CanReprice
  <2> QED
    BY <2>1, <2>2, FirstsKept
<1>2. ASSUME NEW ev \in chOrder, onOrderEvent(ev)
      PROVE  Firsts' = Firsts
  <2>1. ev.id \in Ids
    BY <1>0 DEF EventType
  <2>2. \/ UNCHANGED slice \/ slice' = [slice EXCEPT ![ev.id].latest = ev.state]
        \/ /\ ~MeetsNil(ev.id, FALSE) /\ ev.id \in Tracked /\ SwapReturn(ev)
    BY <1>2 DEF onOrderEvent, SpotReturn, sliceVars
  <2>3. ASSUME slice' = [slice EXCEPT ![ev.id].latest = ev.state]
        PROVE  \A i \in Ids : slice'[i].role = slice[i].role
    BY <1>0, <2>1, <2>3 DEF Slices, SliceType
  <2>4. ASSUME ~MeetsNil(ev.id, FALSE), ev.id \in Tracked, SwapReturn(ev)
        PROVE  Firsts' = Firsts
    BY <2>4, HeadTracked, FirstsKept DEF IInv
  <2> QED
    BY <2>2, <2>3, <2>4, FirstsKept
<1>3. CASE ~BookReprice /\ ~ \E ev \in chOrder : onOrderEvent(ev)
  <2>1. seqId' = seqId
    BY <1>3 DEF Next, Run, onStart, onOrderBook, executeSlice, RunDone, RunTimer, RunBook, ExecuteNil,
       ManagerStop, StartRead, StartWrite, PrintTask, StoreTime, OnOrderError, Exchange, ExecuteSwap,
       ExecuteSpot, Disconnect, Reconnect, BookRetreat, BookQuery, BookQueried, BookFilter, BookAssign,
       BookFinish, BookCheck, BookNil, BookRepriced, sliceVars, vars
  <2>2. seqId' # seqId + 1
    BY <1>0, <2>1
  <2>3. /\ ~ \E size \in Sizes : firstOrder(size)
        /\ ~ \E ev \in chOrder : SwapReturn(ev)
    BY <2>2 DEF firstOrder, SwapReturn
  <2>4. Tame
    BY <1>3, <2>3, SliceSteps
  <2> QED
    BY <2>4 DEF Tame, Firsts
<1> QED
  BY <1>1, <1>2, <1>3

\* What a step consumes of the bounds: only a book that starts a recovery adds to
\* the recoveries, and only an event that comes once more to the repeats.
LEMMA UsedSteps ==
  ASSUME TypeOK, [Next]_vars
  PROVE  /\ used'.recoveries = used.recoveries \/ RunBook
         /\ used'.repeats = used.repeats \/ \E ev \in chOrder : onOrderEvent(ev)
<1> DEFINE Same == used'.recoveries = used.recoveries /\ used'.repeats = used.repeats
<1>0. used \in UsedType
  BY DEF TypeOK
<1>1. CASE used' = used
  BY <1>1
<1>2. Fault => Same
  BY <1>0 DEF Fault, UsedType
<1>3. CASE Disconnect
  BY <1>0, <1>3 DEF Disconnect, UsedType
<1>4. CASE RunBook
  BY <1>0, <1>4 DEF RunBook, UsedType
<1>5. CASE \E ev \in chOrder : onOrderEvent(ev)
  <2>1. used' = used \/ used' = [used EXCEPT !.repeats = @ + 1]
    BY <1>5 DEF onOrderEvent, Take
  <2> QED
    BY <1>0, <1>5, <2>1 DEF UsedType
<1>6. CASE BookReprice
  <2>1. \/ used' = [used EXCEPT !.reprices = @ + 1]
        \/ used' = [used EXCEPT !.reprices = @ + 1, !.faults = @ + 1]
    BY <1>6 DEF BookReprice, RetreatOrder
  <2> QED
    BY <1>0, <2>1 DEF UsedType
<1>7. CASE \/ (\E i \in Ids : executeSlice(i)) \/ BookQuery
           \/ BookRetreat(SwapLeg, "retreatSwap", "retreatSpot")
           \/ BookRetreat(SpotLeg, "retreatSpot", "query")
  <2>1. used' = used \/ Fault
    BY <1>7 DEF executeSlice, BookQuery, BookRetreat
  <2> QED
    BY <1>2, <2>1
<1>8. CASE \E i \in Ids : \E q \in 1..slice[i].target : ExecuteSwap(i, q)
  BY <1>0, <1>8 DEF ExecuteSwap, UsedType
<1>9. CASE \/ RunDone \/ RunTimer \/ ExecuteNil \/ ManagerStop \/ PrintTask \/ onStart
           \/ (\E e \in book.due : StoreTime(e)) \/ (\E i \in Ids : OnOrderError(i))
           \/ BookQueried \/ BookFilter \/ BookAssign \/ BookFirst \/ BookFinish \/ BookCheck
           \/ BookNil \/ BookRepriced \/ (\E i \in Ids : ExecuteSpot(i)) \/ Reconnect
           \/ UNCHANGED vars
  <2>1. UNCHANGED used
    BY <1>9 DEF RunDone, RunTimer, ExecuteNil, ManagerStop, PrintTask, onStart, StartCheck,
       StartRead, StartWrite, StoreTime, OnOrderError, BookQueried, BookFilter, BookAssign,
       BookFirst, BookFinish, BookCheck, BookNil, BookRepriced, ExecuteSpot, Reconnect, vars
  <2> QED
    BY <1>1, <2>1
<1> QED
  BY <1>3, <1>4, <1>5, <1>6, <1>7, <1>8, <1>9 DEF Next, Run, onOrderBook, Exchange

LEMMA StepBudget ==
  ASSUME IInv, Looping, Budget, Punctual, [Next]_vars
  PROVE  Budget'
<1>0. /\ Cardinality(Unraced) \in Nat /\ used.recoveries \in Nat /\ IsFiniteSet(Unraced)
      /\ orderSlices \in Lists /\ used \in UsedType /\ start \in StartType /\ book \in BookType
  BY FirstsFinite, ListTypes DEF IInv, TypeOK, UsedType
<1>1. CASE StartCheck
  <2>1. UNCHANGED <<orderSlices, book, used>> /\ start.pc = "check" /\ start.new = NoSlice
    BY <1>1 DEF StartCheck, Punctual
  <2>2. Recovering' = Recovering
    BY <2>1 DEF Recovering
  <2>3. ASSUME NEW size \in Sizes, firstOrder(size), orderSlices = <<>>,
               start' = [start EXCEPT !.pc = "read", !.new = seqId + 1]
        PROVE  Budget'
    <3>1. Firsts' = Firsts \cup {seqId + 1} /\ seqId + 1 \notin Firsts
      BY <2>3, FirstAdded
    <3>2. start'.pc = "read" /\ start'.new = seqId + 1
      BY <1>0, <2>3 DEF StartType
    <3>3. CASE StartRace
      <4>1. Unraced' = Unraced
        <5>1. NoSlice \notin Firsts
          BY DEF Firsts, Ids, NoSlice
        <5> QED
          BY <2>1, <3>1, <3>2, <3>3, <5>1 DEF Unraced
      <4>2. Vacant' = Vacant
        BY <2>1, <3>3 DEF Vacant
      <4> QED
        BY <2>1, <2>2, <4>1, <4>2 DEF Budget
    <3>4. CASE ~StartRace
      <4>1. Unraced' = Unraced \cup {seqId + 1} /\ seqId + 1 \notin Unraced
        BY <3>1, <3>4 DEF Unraced
      <4>2. Cardinality(Unraced') = Cardinality(Unraced) + 1
        BY <1>0, <4>1, FS_AddElement
      <4>3. Vacant /\ ~Vacant'
        BY <2>1, <2>3, <3>2, <3>4 DEF Vacant, Starting
      <4> QED
        BY <1>0, <2>1, <2>2, <4>2, <4>3 DEF Budget
    <3> QED
      BY <3>3, <3>4
  <2>4. ASSUME start' = [start EXCEPT !.pc = "done"], UNCHANGED slice
        PROVE  Budget'
    <3>1. start'.pc = "done" /\ start'.new = start.new
      BY <1>0, <2>4 DEF StartType
    <3>2. Unraced' = Unraced
      BY <2>4, <3>1 DEF Unraced, Firsts
    <3>3. Vacant' = Vacant
      BY <2>1, <3>1 DEF Vacant, Starting
    <3> QED
      BY <2>1, <2>2, <3>2, <3>3 DEF Budget
  <2> QED
    BY <1>1, <2>3, <2>4 DEF StartCheck, NeedsFirst
<1>2. CASE StartRead \/ StartWrite
  <2>1. UNCHANGED <<slice, book, used>> /\ start.pc \in {"read", "write"} /\ start'.new = start.new
    BY <1>0, <1>2 DEF StartRead, StartWrite, sliceVars, StartType
  <2>2. Unraced' = Unraced /\ Recovering' = Recovering
    BY <2>1 DEF Unraced, Firsts, Recovering
  <2>3. Vacant' => Vacant
    <3>1. CASE StartRead
      BY <1>0, <2>1, <3>1 DEF StartRead, sliceVars, Vacant, Starting, StartType
    <3>2. CASE StartWrite
      <4>1. start.base \in Lists /\ start.new \in Slots
        BY <1>0 DEF StartType, Lists
      <4>2. orderSlices' # <<>>
        BY <3>2, <4>1, Appended DEF StartWrite, Enqueue
      <4> QED
        BY <4>2 DEF Vacant
    <3> QED
      BY <1>2, <3>1, <3>2
  <2> QED
    BY <1>0, <2>1, <2>2, <2>3 DEF Budget
<1>3. CASE BookFirst
  <2>1. UNCHANGED <<start, used>> /\ orderSlices = <<>> /\ book.pc = "lock" /\ book'.pc = "idle"
    BY <1>0, <1>3, BookFields DEF BookFirst, NeedsFirst
  <2>2. ~Recovering /\ ~Recovering'
    BY <2>1 DEF Recovering
  <2>3. ASSUME UNCHANGED sliceVars PROVE Budget'
    BY <2>1, <2>2, <2>3, BudgetKept DEF sliceVars, Firsts
  <2>4. ASSUME NEW size \in Sizes, firstOrder(size), Enqueue(orderSlices, seqId + 1)
        PROVE  Budget'
    <3>1. Firsts' = Firsts \cup {seqId + 1} /\ seqId + 1 \notin Firsts
      BY <2>4, FirstAdded
    <3>2. seqId + 1 # start.new
      BY Numbers
    <3>3. Unraced' = Unraced \cup {seqId + 1} /\ seqId + 1 \notin Unraced
      BY <2>1, <3>1, <3>2 DEF Unraced
    <3>4. Cardinality(Unraced') = Cardinality(Unraced) + 1
      BY <1>0, <3>3, FS_AddElement
    <3>5. Vacant
      BY <2>1 DEF Vacant, Starting, Punctual
    <3>6. ~Vacant'
      <4>1. seqId + 1 \in Slots
        BY <2>4, FirstGrows DEF Slots
      <4>2. orderSlices' # <<>>
        BY <1>0, <2>4, <4>1, Appended DEF Enqueue
      <4> QED
        BY <4>2 DEF Vacant
    <3> QED
      BY <1>0, <2>1, <2>2, <3>4, <3>5, <3>6 DEF Budget
  <2> QED
    BY <1>3, <2>3, <2>4 DEF BookFirst
<1>4. CASE RunBook \/ \E e \in book.due : StoreTime(e)
  <2>1. Firsts' = Firsts /\ Unraced' = Unraced /\ Vacant' = Vacant
    BY <1>4 DEF RunBook, StoreTime, Firsts, Unraced, Vacant, Starting, sliceVars
  <2>2. \/ used' = used /\ (Recovering' => Recovering)
        \/ used'.recoveries = used.recoveries + 1 /\ ~Recovering
    <3>1. CASE RunBook
      <4>1. CASE book.pc = "idle" /\ NetworkBack
        BY <1>0, <3>1, <4>1 DEF RunBook, UsedType, Recovering
      <4>2. CASE ~(book.pc = "idle" /\ NetworkBack)
        <5>1. used' = used
          BY <3>1, <4>2 DEF RunBook
        <5>2. net.epoch \in Nat
          BY DEF IInv, TypeOK
        <5>3. book'.pc = book.pc \/ book'.pc = "lock"
          BY <1>0, <3>1, <4>2, <5>2, BookFields DEF RunBook, BookType
        <5> QED
          BY <5>1, <5>3 DEF Recovering
      <4> QED
        BY <4>1, <4>2
    <3>2. ASSUME NEW e \in book.due, StoreTime(e)
          PROVE  used' = used /\ (Recovering' => Recovering)
      BY <1>0, <3>2 DEF StoreTime, Recovering, BookType
    <3> QED
      BY <1>4, <3>1, <3>2
  <2> QED
    BY <1>0, <2>1, <2>2 DEF Budget
<1>5. CASE BookAssign
  <2>1. /\ UNCHANGED <<slice, start, used>> /\ Recovering /\ book'.pc = "lock"
    BY <1>0, <1>5 DEF BookAssign, Recovering, BookType
  <2>2. Unraced' = Unraced /\ ~Recovering'
    BY <2>1 DEF Unraced, Firsts, Recovering
  <2> QED
    BY <1>0, <2>1, <2>2 DEF Budget
<1>6. CASE ~StartCheck /\ ~StartRead /\ ~StartWrite /\ ~BookFirst /\ ~RunBook
           /\ ~(\E e \in book.due : StoreTime(e)) /\ ~BookAssign
  <2>1. Firsts' = Firsts
    BY <1>6, FirstSteps
  <2>2. UNCHANGED start
    BY <1>6 DEF Next, Run, onStart, onOrderBook, executeSlice, onOrderEvent, RunDone, RunTimer, ExecuteNil,
       ManagerStop, PrintTask, OnOrderError, Exchange, ExecuteSwap, ExecuteSpot, Disconnect, Reconnect,
       BookRetreat, BookQuery, BookQueried, BookFilter, BookFinish, BookCheck, BookNil, BookReprice,
       BookRepriced, vars
  <2>3. orderSlices' = <<>> => orderSlices = <<>>
    <3>1. \/ UNCHANGED orderSlices
          \/ (\E ev \in chOrder : onOrderEvent(ev) /\ SwapReturn(ev))
          \/ BookReprice
      BY <1>6 DEF Next, Run, onStart, onOrderBook, executeSlice, onOrderEvent, SpotReturn, RunDone, RunTimer,
         ExecuteNil, ManagerStop, PrintTask, OnOrderError, Exchange, ExecuteSwap, ExecuteSpot, Disconnect,
         Reconnect, BookRetreat, BookQuery, BookQueried, BookFilter, BookFinish, BookCheck, BookNil,
         BookRepriced, sliceVars, vars
    <3>2. ASSUME NEW i, orderSlices' = Append(orderSlices, i) PROVE orderSlices' # <<>>
      BY <1>0, <3>2 DEF Lists
    <3>3. BookReprice \/ (\E ev \in chOrder : SwapReturn(ev)) =>
             \E i : orderSlices' = Append(orderSlices, i)
      BY DEF BookReprice, nextOrder, SwapReturn, Enqueue
    <3> QED
      BY <3>1, <3>2, <3>3
  <2>4. Recovering' => Recovering
    <3>1. CASE book' = book
      BY <3>1 DEF Recovering
    <3>2. CASE \/ BookRetreat(SwapLeg, "retreatSwap", "retreatSpot")
               \/ BookRetreat(SpotLeg, "retreatSpot", "query")
               \/ BookQuery \/ BookQueried \/ BookFilter
      BY <3>2 DEF BookRetreat, BookQuery, BookQueried, BookFilter, Recovering
    <3>3. CASE BookFinish \/ BookRepriced
      BY <1>0, <3>3, BookFields DEF BookFinish, BookRepriced, Recovering
    <3>4. CASE BookCheck \/ BookReprice
      <4>1. book'.pc \in {"reprice", "idle"}
        BY <1>0, <3>4, BookFields DEF BookCheck, BookReprice, BookType
      <4> QED
        BY <4>1 DEF Recovering
    <3> QED
      BY <1>6, <3>1, <3>2, <3>3, <3>4 DEF Next, Run, onStart, onOrderBook, executeSlice, onOrderEvent,
         RunDone, RunTimer, ExecuteNil, ManagerStop, PrintTask, OnOrderError, Exchange, ExecuteSwap,
         ExecuteSpot, Disconnect, Reconnect, BookNil, vars
  <2>5. used'.recoveries = used.recoveries
    BY <1>0, <1>6, UsedSteps DEF IInv, TypeOK, UsedType
  <2> QED
    BY <2>1, <2>2, <2>3, <2>4, <2>5, BudgetKept
<1> QED
  BY <1>1, <1>2, <1>3, <1>4, <1>5, <1>6

LEMMA StepPunctual ==
  ASSUME IInv, Punctual, [Next]_vars
  PROVE  Punctual'
<1>0. start \in StartType /\ book \in BookType
  BY DEF IInv, TypeOK
<1>1. \/ start' = start
      \/ start'.pc # "check" /\ start.pc # "done"
  <2>1. CASE StartCheck \/ StartRead \/ StartWrite
    BY <1>0, <2>1 DEF StartCheck, StartRead, StartWrite, StartType
  <2>2. CASE ~(StartCheck \/ StartRead \/ StartWrite)
    BY <2>2 DEF Next, Run, onStart, onOrderBook, executeSlice, onOrderEvent, RunDone, RunTimer, RunBook,
       ExecuteNil, ManagerStop, PrintTask, StoreTime, OnOrderError, Exchange, ExecuteSwap, ExecuteSpot,
       Disconnect, Reconnect, BookRetreat, BookQuery, BookQueried, BookFilter, BookAssign, BookFirst,
       BookFinish, BookCheck, BookNil, BookReprice, BookRepriced, vars
  <2> QED
    BY <2>1, <2>2
<1>2. ASSUME book.pc = "idle", start.pc # "done", ~StartRace
      PROVE  book'.pc = "idle"
  <2>1. CASE \E e \in book.due : StoreTime(e)
    BY <1>0, <1>2, <2>1 DEF StoreTime, BookType
  <2>2. CASE ~ \E e \in book.due : StoreTime(e)
    <3>1. book' = book
      BY <1>2, <2>2 DEF Next, Run, onStart, onOrderBook, executeSlice, onOrderEvent, RunDone, RunTimer,
         RunBook, ExecuteNil, ManagerStop, PrintTask, OnOrderError, Exchange, ExecuteSwap, ExecuteSpot,
         Disconnect, Reconnect, BookRetreat, BookQuery, BookQueried, BookFilter, BookAssign, BookFirst,
         BookFinish, BookCheck, BookNil, Inspected, BookReprice, BookRepriced, StartCheck, StartRead,
         StartWrite, vars
    <3> QED
      BY <1>2, <3>1
  <2> QED
    BY <2>1, <2>2
<1> QED
  BY <1>1, <1>2 DEF Punctual

LEMMA InitBudget == Init => Budget /\ Punctual
<1> SUFFICES ASSUME Init PROVE Budget /\ Punctual
  OBVIOUS
<1>1. Firsts = {} /\ used.recoveries = 0 /\ ~Recovering
  BY DEF Init, Firsts, NewSlice, Recovering
<1>2. Unraced = {}
  BY <1>1 DEF Unraced
<1>3. Cardinality(Unraced) = 0
  BY <1>2, FS_EmptySet
<1>4. Punctual
  BY DEF Init, Punctual
<1> QED
  BY <1>1, <1>3, <1>4 DEF Budget

LEMMA BudgetInvariance == Spec => [](Inductive /\ Budget /\ Punctual)
<1>1. Init => Budget /\ Punctual
  BY InitBudget
<1>2. Inductive /\ Budget /\ Punctual /\ [Next]_vars => (Budget /\ Punctual)'
  BY StepBudget, StepPunctual DEF Inductive
<1> QED
  BY <1>1, <1>2, Invariance, PTL DEF Spec

\* The whole amount is ordered once, and once more for the race of onStart with
\* a book and for each recovery (order.go:267, 279, 598).
THEOREM FewFirstOrders == Spec => []FewFirsts
<1>1. Inductive /\ Budget => FewFirsts
  <2> SUFFICES ASSUME IInv, Budget PROVE FewFirsts
    BY DEF Inductive
  <2>1. Cardinality(Unraced) <= 1 + used.recoveries
    BY FirstsFinite DEF Budget, IInv, TypeOK, UsedType
  <2>2. CASE ~StartRace
    BY <2>1, <2>2 DEF FewFirsts, Unraced, IInv, TypeOK, UsedType
  <2>3. CASE StartRace
    <3>1. Firsts \subseteq Unraced \cup {start.new}
      BY <2>3 DEF Unraced
    <3>2. /\ IsFiniteSet(Unraced \cup {start.new})
          /\ Cardinality(Unraced \cup {start.new}) <= Cardinality(Unraced) + 1
      <4>1. CASE start.new \in Unraced
        <5>1. Unraced \cup {start.new} = Unraced
          BY <4>1
        <5> QED
          BY <5>1, FirstsFinite
      <4>2. CASE start.new \notin Unraced
        BY <4>2, FirstsFinite, FS_AddElement
      <4> QED
        BY <4>1, <4>2
    <3>3. Cardinality(Firsts) <= Cardinality(Unraced \cup {start.new})
      BY <3>1, <3>2, FS_Subset
    <3>4. /\ Cardinality(Firsts) \in Nat /\ Cardinality(Unraced) \in Nat
          /\ Cardinality(Unraced \cup {start.new}) \in Nat /\ used.recoveries \in Nat
      BY <3>2, FirstsFinite, FS_CardinalityType DEF IInv, TypeOK, UsedType
    <3> QED
      BY <2>1, <2>3, <3>2, <3>3, <3>4 DEF FewFirsts
  <2> QED
    BY <2>2, <2>3
<1> QED
  BY <1>1, BudgetInvariance, PTL

-----------------------------------------------------------------------------
(* The executions of a swap order, laid out one after the other *)

\* What is said of a set F of executions is said with F as an argument, so that
\* the executions before a step can be compared with those after it.
Earlier(F, f) == {g \in F : g[1] = f[1] /\ g[2] < f[2]}

\* Execution f was one of q contracts: those after the latest one before it.
OfSize(F, f, q) ==
    /\ f \in F /\ q \in 1..f[2]
    /\ q = f[2] \/ <<f[1], f[2] - q>> \in F
    /\ \A g \in Earlier(F, f) : g[2] <= f[2] - q

\* The contracts of execution f, counted from the first one of its order.
Contracts(F, f) == {f[1]} \X {u \in 1..f[2] : \A g \in Earlier(F, f) : g[2] < u}

Lots(q) == ((q * CtVal) \div MinSz) * MinSz

\* Reports tell how much was executed, spot orders ask for as much, cut to lots,
\* and every contract the exchange counts was part of an execution.
Told    == \A ev \in chOrder : Swap(ev.id) /\ ev.fill > 0 => OfSize(fills, <<ev.id, ev.acc>>, ev.fill)
Asked   == \A j \in Ids : Spot(j) =>
               \E q \in Nat : OfSize(fills, slice[j].from, q) /\ slice[j].target = Lots(q)
Covered == \A i \in Ids : Swap(i) =>
               \A u \in 1..exch[i].acc : \E f \in fills : <<i, u>> \in Contracts(fills, f)

Measured == Told /\ Asked /\ Covered

\* An execution after all the others of its order takes nothing from them.
LEMMA NewFill ==
  ASSUME fills \in SUBSET (Ids \X Nat), NEW i \in Ids, NEW a \in Nat, NEW q \in Nat \ {0},
         \A g \in fills : g[1] = i => g[2] <= a,
         fills' = fills \cup {<<i, a + q>>}
  PROVE  /\ \A f \in fills : Contracts(fills', f) = Contracts(fills, f)
         /\ \A f \in fills, n \in Nat : OfSize(fills, f, n) => OfSize(fills', f, n)
         /\ a = 0 \/ <<i, a>> \in fills => OfSize(fills', <<i, a + q>>, q)
         /\ \A u \in (a + 1)..(a + q) : <<i, u>> \in Contracts(fills', <<i, a + q>>)
<1> DEFINE e == <<i, a + q>>
<1>0. e[1] = i /\ e[2] = a + q /\ a + q \in Nat /\ a < a + q
  OBVIOUS
<1> HIDE DEF e
<1>1. \A f \in fills : Earlier(fills', f) = Earlier(fills, f)
  <2> SUFFICES ASSUME NEW f \in fills PROVE e \notin Earlier(fills', f)
    BY DEF Earlier, e
  <2>1. f[1] = i => f[2] \in Nat /\ f[2] <= a
    OBVIOUS
  <2> QED
    BY <1>0, <2>1 DEF Earlier
<1>2. \A f \in fills : Contracts(fills', f) = Contracts(fills, f)
  BY <1>1 DEF Contracts
<1>3. \A f \in fills, n \in Nat : OfSize(fills, f, n) => OfSize(fills', f, n)
  <2>1. fills \subseteq fills'
    OBVIOUS
  <2> QED
    BY <1>1, <2>1 DEF OfSize
<1>4. \A g \in Earlier(fills', e) : g[2] \in Nat /\ g[2] <= a
  <2> SUFFICES ASSUME NEW g \in Earlier(fills', e) PROVE g[2] \in Nat /\ g[2] <= a
    OBVIOUS
  <2>1. g \in fills' /\ g[1] = i /\ g[2] < a + q
    BY <1>0 DEF Earlier
  <2>2. g # e
    BY <1>0, <2>1
  <2> QED
    BY <2>1, <2>2 DEF e
<1>5. a = 0 \/ <<i, a>> \in fills => OfSize(fills', e, q)
  <2> SUFFICES ASSUME a = 0 \/ <<i, a>> \in fills PROVE OfSize(fills', e, q)
    OBVIOUS
  <2>1. e \in fills' /\ q \in 1..e[2] /\ e[2] - q = a
    BY <1>0 DEF e
  <2>2. q = e[2] \/ <<e[1], e[2] - q>> \in fills'
    BY <1>0, <2>1
  <2>3. \A g \in Earlier(fills', e) : g[2] <= e[2] - q
    BY <1>4, <2>1
  <2> QED
    BY <2>1, <2>2, <2>3 DEF OfSize
<1>6. \A u \in (a + 1)..(a + q) : <<i, u>> \in Contracts(fills', e)
  <2> SUFFICES ASSUME NEW u \in (a + 1)..(a + q) PROVE <<i, u>> \in Contracts(fills', e)
    OBVIOUS
  <2>1. u \in 1..(a + q)
    OBVIOUS
  <2>2. \A g \in Earlier(fills', e) : g[2] < u
    BY <1>4
  <2> QED
    BY <1>0, <2>1, <2>2 DEF Contracts
<1> QED
  BY <1>2, <1>3, <1>5, <1>6 DEF e

\* Only an execution at the exchange changes what it has counted of a swap order.
LEMMA ExchangeKept ==
  ASSUME IInv, Looping, [Next]_vars,
         ~ \E i \in Ids : \E q \in 1..slice[i].target : ExecuteSwap(i, q)
  PROVE  /\ fills' = fills
         /\ \A i \in Ids : exch'[i].acc = exch[i].acc \/ Spot(i)
         /\ \A ev \in chOrder' : ev \in chOrder \/ ev.fill = 0 \/ Spot(ev.id)
<1>0. exch \in [Ids -> [state : OrderState \cup {"absent"}, acc : Nat]]
  BY DEF IInv, TypeOK
<1> DEFINE Goal == /\ \A i \in Ids : exch'[i].acc = exch[i].acc \/ Spot(i)
                   /\ \A ev \in chOrder' : ev \in chOrder \/ ev.fill = 0 \/ Spot(ev.id)
<1>1. ASSUME UNCHANGED exch, chOrder' \subseteq chOrder
      PROVE  Goal
  BY <1>1
<1>2. ASSUME NEW W \in SUBSET Ids, CancelOrders(W)
      PROVE  Goal
  <2>1. \A i \in Ids : exch'[i].acc = exch[i].acc
    BY <1>0, <1>2 DEF CancelOrders
  <2>2. \A ev \in chOrder' : \/ ev \in chOrder
                             \/ ev \in {Event(i, "canceled", exch[i].acc, 0) : i \in W}
    BY <1>2 DEF CancelOrders, Push
  <2>3. \A i \in W : Event(i, "canceled", exch[i].acc, 0).fill = 0
    BY DEF Event
  <2> QED
    BY <2>1, <2>2, <2>3
<1>3. ASSUME NEW i \in Ids, executeSlice(i)
      PROVE  Goal
  <2>1. exch[i].acc = 0
    BY <1>3 DEF executeSlice, IInv, Unsent
  <2>2. ASSUME Place(i) PROVE Goal
    <3>1. exch'[i].acc = 0 /\ \A j \in Ids : j # i => exch'[j].acc = exch[j].acc
      BY <1>0, <2>2 DEF Place
    <3>2. \A ev \in chOrder' : ev \in chOrder \/ ev.fill = 0
      BY <2>2 DEF Place, Push, Event
    <3> QED
      BY <2>1, <3>1, <3>2
  <2>3. Place(i) \/ UNCHANGED <<exch, chOrder>>
    BY <1>3 DEF executeSlice
  <2> QED
    BY <1>1, <2>2, <2>3
<1>4. ASSUME NEW ev \in chOrder, onOrderEvent(ev)
      PROVE  Goal
  <2>1. chOrder' \subseteq chOrder
    BY <1>4 DEF onOrderEvent, Take
  <2> QED
    BY <1>1, <1>4, <2>1 DEF onOrderEvent
<1>5. ASSUME BookReprice
      PROVE  Goal
  <2>1. PICK k \in DOMAIN book.todo : RetreatOrder(book.todo[k])
    BY <1>5 DEF BookReprice
  <2>2. {book.todo[k]} \cap WorkingOf(SwapLeg) \subseteq Ids
    BY DEF WorkingOf
  <2> QED
    BY <1>1, <1>2, <2>1, <2>2 DEF RetreatOrder
<1>6. ASSUME NEW leg, NEW here, NEW next, BookRetreat(leg, here, next)
      PROVE  Goal
  <2>1. WorkingOf(leg) \subseteq Ids
    BY DEF WorkingOf
  <2>2. CancelOrders(WorkingOf(leg)) \/ UNCHANGED <<exch, chOrder>>
    BY <1>6 DEF BookRetreat
  <2> QED
    BY <1>1, <1>2, <2>1, <2>2
<1>7. ASSUME NEW i \in Ids, ExecuteSpot(i)
      PROVE  Goal
  <2>1. Spot(i) /\ \A j \in Ids : j # i => exch'[j].acc = exch[j].acc
    BY <1>0, <1>7 DEF ExecuteSpot
  <2>2. \A ev \in chOrder' : ev \in chOrder \/ ev.id = i
    BY <1>7 DEF ExecuteSpot, Push, Event
  <2> QED
    BY <2>1, <2>2
<1>8. ASSUME \/ RunDone \/ RunTimer \/ RunBook \/ ExecuteNil \/ ManagerStop \/ PrintTask \/ onStart
             \/ (\E e \in book.due : StoreTime(e)) \/ (\E i \in Ids : OnOrderError(i))
             \/ Disconnect \/ Reconnect
             \/ BookQuery \/ BookQueried \/ BookFilter \/ BookAssign \/ BookFirst
             \/ BookFinish \/ BookCheck \/ BookNil \/ BookRepriced \/ UNCHANGED vars
      PROVE  Goal
  <2>1. UNCHANGED <<exch, chOrder>>
    BY <1>8 DEF RunDone, RunTimer, RunBook, ExecuteNil, ManagerStop, PrintTask, onStart, StartCheck,
       StartRead, StartWrite, StoreTime, OnOrderError, Disconnect, Reconnect, BookQuery, BookQueried,
       BookFilter, BookAssign, BookFirst, BookFinish, BookCheck, BookNil, BookRepriced, exchVars, vars
  <2> QED
    BY <1>1, <2>1
<1>9. Goal
  BY <1>3, <1>4, <1>5, <1>6, <1>7, <1>8 DEF Next, Run, onOrderBook, Exchange
<1>10. fills' = fills
  BY FillsKept DEF exchVars, vars
<1> QED
  BY <1>9, <1>10

\* What the answer to a swap execution finds: the order at the head of the list.
LEMMA ReturnHead ==
  ASSUME IInv, HeadIsSwap, NEW ev \in chOrder, onOrderEvent(ev), Swap(ev.id), SwapReturn(ev)
  PROVE  /\ orderSlices # <<>> /\ orderSlices[1] \in Ids /\ Swap(orderSlices[1])
         /\ ev.fill > 0 /\ ev.fill \in Nat /\ Take(ev)
         /\ UNCHANGED <<exch, fills, start>>
<1>0. seqId \in Nat
  BY Numbers
<1>1. ~(slice' = [slice EXCEPT ![ev.id].latest = ev.state] /\ UNCHANGED seqId) /\ ~UNCHANGED sliceVars
  BY <1>0 DEF SwapReturn, sliceVars
<1>2. /\ ~MeetsNil(ev.id, FALSE) /\ ev.id \in Tracked /\ IsFillState(ev.state)
      /\ Take(ev) /\ UNCHANGED <<exch, fills, start>>
  BY <1>1 DEF onOrderEvent
<1>3. orderSlices # <<>>
  BY <1>2 DEF Tracked, Elements
<1> QED
  BY <1>2, <1>3, HeadTracked DEF HeadIsSwap, IInv, Reports, TypeOK, EventType

\* What the answer to a swap execution asks for, and what is credited for it.
LEMMA ReturnCredits ==
  ASSUME IInv, NEW ev \in chOrder, SwapReturn(ev), orderSlices[1] \in Ids, Swap(orderSlices[1])
  PROVE  /\ slice'[seqId + 1].target = SpotTarget(ev)
         /\ slice'[seqId + 1].isLast =
               (slice'[orderSlices[1]].present = slice'[orderSlices[1]].target)
         /\ slice'[orderSlices[1]].present =
               IF orderSlices[1] = ev.id THEN ev.acc ELSE slice[orderSlices[1]].present + ev.fill
         /\ \A j \in Ids : j # seqId + 1 => slice'[j].isLast = slice[j].isLast
<1>0. /\ slice \in Slices /\ ev.id \in Ids /\ ev.state \in OrderState /\ ev.acc \in Nat /\ ev.fill \in Nat
      /\ seqId \in Nat /\ Ids \subseteq Nat /\ seqId + 1 \in Ids
  BY Numbers, SwapReturns DEF IInv, TypeOK, EventType, Slices
<1> DEFINE first    == orderSlices[1]
           reported == [slice EXCEPT ![ev.id].latest = ev.state, ![ev.id].present = ev.acc]
           credited == IF first = ev.id THEN reported
                       ELSE [reported EXCEPT ![first].present = @ + Credit(ev)]
           isLast   == credited[first].present = credited[first].target
           new      == NewSlice("spot", SpotTarget(ev), isLast, <<ev.id, ev.acc>>)
<1>1. slice' = [credited EXCEPT ![seqId + 1] = new]
  BY DEF SwapReturn
<1>2. /\ reported[ev.id].present = ev.acc
      /\ reported \in Slices
      /\ \A j \in Ids : /\ reported[j].isLast = slice[j].isLast
                        /\ j # ev.id => reported[j].present = slice[j].present
  <2>1. [slice EXCEPT ![ev.id].latest = ev.state] \in Slices
    BY <1>0, SliceUpdates DEF Slices
  <2>2. reported \in Slices
    BY <1>0, <2>1, SliceUpdates DEF Slices
  <2> QED
    BY <1>0, <2>2 DEF Slices, SliceType
<1>3. /\ credited[first].present = IF first = ev.id THEN ev.acc ELSE slice[first].present + ev.fill
      /\ \A j \in Ids : credited[j].isLast = slice[j].isLast
      /\ DOMAIN credited = Ids
  <2> HIDE DEF reported
  <2>1. CASE first = ev.id
    BY <1>2, <2>1 DEF Slices
  <2>2. CASE first # ev.id
    <3>1. credited = [reported EXCEPT ![first].present = @ + Credit(ev)]
      BY <2>2
    <3> HIDE DEF credited
    <3> QED
      BY <1>2, <2>2, <3>1 DEF Credit, Slices, SliceType
  <2> QED
    BY <2>1, <2>2
<1>4. first # seqId + 1
  BY <1>0, Numbers DEF Swap
<1> HIDE DEF credited
<1>5. slice'[seqId + 1] = new /\ \A j \in Ids : j # seqId + 1 => slice'[j] = credited[j]
  BY <1>0, <1>1, <1>3
<1>6. new.target = SpotTarget(ev) /\ new.isLast = isLast
  BY DEF NewSlice
<1> HIDE DEF new
<1>7. slice'[first] = credited[first]
  BY <1>4, <1>5
<1>8. isLast = (slice'[first].present = slice'[first].target)
  BY <1>7
<1>9. \A j \in Ids : j # seqId + 1 => slice'[j].isLast = slice[j].isLast
  BY <1>0, <1>3, <1>5
<1> HIDE DEF isLast
<1> QED
  BY <1>3, <1>5, <1>6, <1>7, <1>8, <1>9

\* A slice that is a swap slice after a step was one before, or is new, and then
\* the exchange knows nothing of it.
LEMMA SwapsBefore ==
  ASSUME IInv, RolesKept, NEW i \in Ids, Swap(i)'
  PROVE  Swap(i) \/ (i > seqId /\ exch[i].acc = 0)
<1>1. i <= seqId \/ i > seqId
  BY Numbers
<1>2. i <= seqId => Swap(i)
  BY DEF RolesKept, Swap
<1>3. i > seqId => exch[i].acc = 0
  BY Numbers DEF IInv, Unsent
<1> QED
  BY <1>1, <1>2, <1>3

\* What holds of the executions of an order in general.
LEMMA FillFacts ==
  ASSUME IInv
  PROVE  /\ fills \in SUBSET (Ids \X Nat)
         /\ \A f \in fills : /\ f[1] \in Ids /\ f[2] \in Nat /\ f = <<f[1], f[2]>>
                             /\ Swap(f[1]) /\ f[2] <= exch[f[1]].acc
         /\ \A i \in Ids : exch[i].acc \in Nat /\ slice[i].target \in Nat
<1>1. Fill \subseteq Ids \X Nat
  BY SizesAssumption DEF Fill
<1>2. fills \in SUBSET (Ids \X Nat)
  BY <1>1 DEF IInv, TypeOK
<1> QED
  BY <1>2 DEF IInv, TypeOK, Counted, SliceType

LEMMA SwapMeasured ==
  ASSUME IInv, TypeOK', Measured,
         NEW i \in Ids, NEW q \in 1..slice[i].target, ExecuteSwap(i, q)
  PROVE  Measured'
<1> DEFINE a == exch[i].acc
           e == <<i, a + q>>
<1>0. /\ a \in Nat /\ q \in Nat \ {0} /\ fills \in SUBSET (Ids \X Nat)
      /\ exch \in [Ids -> [state : OrderState \cup {"absent"}, acc : Nat]]
      /\ \A g \in fills : g[1] = i => g[2] <= a
  BY FillFacts DEF IInv, TypeOK
<1>1. fills' = fills \cup {e} /\ slice' = slice
  BY DEF ExecuteSwap, sliceVars
<1>2. exch'[i].acc = a + q /\ \A j \in Ids : j # i => exch'[j].acc = exch[j].acc
  BY <1>0 DEF ExecuteSwap
<1>3. \A ev \in chOrder' : ev \in chOrder \/ (ev.id = i /\ ev.acc = a + q /\ ev.fill = q)
  BY DEF ExecuteSwap, Push, Event
<1>4. /\ \A f \in fills : Contracts(fills', f) = Contracts(fills, f)
      /\ \A f \in fills, n \in Nat : OfSize(fills, f, n) => OfSize(fills', f, n)
      /\ a = 0 \/ <<i, a>> \in fills => OfSize(fills', e, q)
      /\ \A u \in (a + 1)..(a + q) : <<i, u>> \in Contracts(fills', e)
  <2> HIDE DEF a
  <2> QED
    BY <1>0, <1>1, NewFill
<1>5. Swap(i) /\ \A j \in Ids : Swap(j)' = Swap(j) /\ Spot(j)' = Spot(j)
  BY <1>1 DEF ExecuteSwap, Swap, Spot
<1>6. a = 0 \/ <<i, a>> \in fills
  <2> SUFFICES ASSUME a # 0 PROVE <<i, a>> \in fills
    OBVIOUS
  <2>1. a \in 1..exch[i].acc
    BY <1>0
  <2>2. PICK f \in fills : <<i, a>> \in Contracts(fills, f)
    BY <1>5, <2>1 DEF Measured, Covered
  <2>3. f[1] = i /\ a \in 1..f[2] /\ f[2] \in Nat /\ f[2] <= a /\ f = <<f[1], f[2]>>
    BY <1>0, <2>2, FillFacts DEF Contracts
  <2>4. f[2] = a
    BY <1>0, <2>3
  <2> QED
    BY <2>2, <2>3, <2>4
<1> HIDE DEF a, e
<1>7. Told'
  <2> SUFFICES ASSUME NEW ev \in chOrder', Swap(ev.id)', ev.fill > 0
               PROVE  OfSize(fills', <<ev.id, ev.acc>>, ev.fill)
    BY DEF Told
  <2>1. CASE ev \in chOrder
    <3>1. ev.id \in Ids /\ ev.fill \in Nat /\ Swap(ev.id)
      BY <1>5, <2>1 DEF IInv, TypeOK, EventType
    <3>2. OfSize(fills, <<ev.id, ev.acc>>, ev.fill)
      BY <2>1, <3>1 DEF Measured, Told
    <3>3. <<ev.id, ev.acc>> \in fills
      BY <3>2 DEF OfSize
    <3> QED
      BY <1>4, <3>1, <3>2, <3>3
  <2>2. CASE ev.id = i /\ ev.acc = a + q /\ ev.fill = q
    BY <1>4, <1>6, <2>2 DEF e
  <2> QED
    BY <1>3, <2>1, <2>2
<1>8. Asked'
  <2> SUFFICES ASSUME NEW j \in Ids, Spot(j)'
               PROVE  \E n \in Nat : OfSize(fills', slice'[j].from, n) /\ slice'[j].target = Lots(n)
    BY DEF Asked
  <2>1. PICK n \in Nat : OfSize(fills, slice[j].from, n) /\ slice[j].target = Lots(n)
    BY <1>5 DEF Measured, Asked
  <2>2. slice[j].from \in fills
    BY <2>1 DEF OfSize
  <2> QED
    BY <1>1, <1>4, <2>1, <2>2
<1>9. Covered'
  <2> SUFFICES ASSUME NEW j \in Ids, Swap(j)', NEW u \in 1..exch'[j].acc
               PROVE  \E f \in fills' : <<j, u>> \in Contracts(fills', f)
    BY DEF Covered
  <2>1. CASE u \in 1..exch[j].acc
    <3>1. PICK f \in fills : <<j, u>> \in Contracts(fills, f)
      BY <1>5, <2>1 DEF Measured, Covered
    <3> QED
      BY <1>1, <1>4, <3>1
  <2>2. CASE u \notin 1..exch[j].acc
    <3>1. j = i
      BY <1>2, <2>2
    <3>2. u \in (a + 1)..(a + q)
      BY <1>0, <1>2, <2>2, <3>1 DEF a
    <3> QED
      BY <1>1, <1>4, <3>1, <3>2
  <2> QED
    BY <2>1, <2>2
<1> QED
  BY <1>7, <1>8, <1>9 DEF Measured

LEMMA StepMeasured ==
  ASSUME IInv, Looping, HeadIsSwap, Measured, [Next]_vars
  PROVE  Measured'
<1>0. /\ TypeOK /\ TypeOK' /\ Grows(slice, slice') /\ RolesKept
      /\ seqId \in Nat /\ Ids \subseteq Nat
  BY StepIInv, StepGrows, Numbers DEF IInv
<1>1. ASSUME NEW i \in Ids, NEW q \in 1..slice[i].target, ExecuteSwap(i, q)
      PROVE  Measured'
  BY <1>0, <1>1, SwapMeasured
<1>2. ASSUME ~ \E i \in Ids : \E q \in 1..slice[i].target : ExecuteSwap(i, q)
      PROVE  Measured'
  <2>1. /\ fills' = fills
        /\ \A i \in Ids : exch'[i].acc = exch[i].acc \/ Spot(i)
        /\ \A ev \in chOrder' : ev \in chOrder \/ ev.fill = 0 \/ Spot(ev.id)
    BY <1>2, ExchangeKept
  <2>2. \A i \in Ids : Spot(i) => Spot(i)' /\ ~Swap(i)'
    BY <1>0 DEF Grows, Spot, Swap
  <2>3. Told'
    <3> SUFFICES ASSUME NEW ev \in chOrder', Swap(ev.id)', ev.fill > 0
                 PROVE  OfSize(fills', <<ev.id, ev.acc>>, ev.fill)
      BY DEF Told
    <3>1. ev.id \in Ids
      BY <1>0 DEF TypeOK, EventType
    <3>2. ev \in chOrder
      BY <2>1, <2>2, <3>1
    <3>3. Swap(ev.id)
      BY <1>0, <3>1, <3>2, Numbers DEF RolesKept, Swap
    <3> QED
      BY <2>1, <3>2, <3>3 DEF Measured, Told
  <2>4. Covered'
    <3> SUFFICES ASSUME NEW i \in Ids, Swap(i)', NEW u \in 1..exch'[i].acc
                 PROVE  \E f \in fills' : <<i, u>> \in Contracts(fills', f)
      BY DEF Covered
    <3>1. exch'[i].acc = exch[i].acc
      BY <2>1, <2>2
    <3>2. Swap(i)
      BY <1>0, <3>1, SwapsBefore
    <3> QED
      BY <2>1, <3>1, <3>2 DEF Measured, Covered
  <2>5. ASSUME NEW j \in Ids, Spot(j), Spot(j)', slice'[j].from = slice[j].from
        PROVE  \E n \in Nat : OfSize(fills', slice'[j].from, n) /\ slice'[j].target = Lots(n)
    <3>1. slice'[j].target = slice[j].target
      BY <1>0, <2>5 DEF Grows, Spot
    <3> QED
      BY <2>1, <2>5, <3>1 DEF Measured, Asked
  <2>6. Asked'
    <3>1. ASSUME NEW ev \in chOrder, onOrderEvent(ev), Swap(ev.id), SwapReturn(ev)
          PROVE  Asked'
      <4>1. /\ orderSlices[1] \in Ids /\ Swap(orderSlices[1])
            /\ ev.fill > 0 /\ ev.fill \in Nat
        BY <3>1, ReturnHead
      <4>2. /\ slice'[seqId + 1].from = <<ev.id, ev.acc>>
            /\ \A j \in Ids : j <= seqId => /\ slice'[j].role = slice[j].role
                                            /\ slice'[j].from = slice[j].from
            /\ \A j \in Ids : j > seqId + 1 => slice'[j].role = "none"
        BY <3>1, <4>1, SwapReturns
      <4>3. slice'[seqId + 1].target = Lots(ev.fill)
        BY <3>1, <4>1, ReturnCredits DEF SpotTarget, Lots
      <4>4. OfSize(fills', <<ev.id, ev.acc>>, ev.fill)
        BY <2>1, <3>1, <4>1 DEF Measured, Told
      <4> SUFFICES ASSUME NEW j \in Ids, Spot(j)'
                   PROVE  \E n \in Nat : OfSize(fills', slice'[j].from, n) /\ slice'[j].target = Lots(n)
        BY DEF Asked
      <4>5. CASE j <= seqId
        BY <2>5, <4>2, <4>5 DEF Spot
      <4>6. CASE j = seqId + 1
        BY <4>1, <4>2, <4>3, <4>4, <4>6
      <4>7. ~(j > seqId + 1)
        BY <4>2 DEF Spot
      <4> QED
        BY <1>0, <4>5, <4>6, <4>7
    <3>2. ASSUME ~ \E ev \in chOrder : onOrderEvent(ev) /\ Swap(ev.id) /\ SwapReturn(ev)
          PROVE  Asked'
      <4>1. SpotsKept
        <5>1. CASE Next
          BY <3>2, <5>1, SpotsUntouched DEF Inductive
        <5>2. CASE UNCHANGED vars
          BY <5>2 DEF vars, sliceVars, SpotsKept, Spot
        <5> QED
          BY <5>1, <5>2
      <4>2. \A j \in Ids : Spot(j)' => Spot(j) /\ slice'[j].from = slice[j].from
        BY <4>1 DEF SpotsKept
      <4> QED
        BY <2>5, <4>2 DEF Asked
    <3> QED
      BY <3>1, <3>2
  <2> QED
    BY <2>3, <2>4, <2>6 DEF Measured
<1> QED
  BY <1>1, <1>2

LEMMA MeasuredInvariance == Spec => [](Inductive /\ HeadIsSwap /\ Measured)
<1>1. Init => Measured
  BY DEF Init, Measured, Told, Asked, Covered, NewSlice, Spot, Swap
<1>2. Inductive /\ HeadIsSwap /\ Measured /\ [Next]_vars => Measured'
  BY StepMeasured DEF Inductive
<1> QED
  BY <1>1, <1>2, Invariance, Heads, PTL DEF Spec

-----------------------------------------------------------------------------
(* Answers to repeated reports *)

\* A set of slices that is not empty has a least one.
LEMMA LeastSlice ==
  ASSUME NEW S \in SUBSET Ids, S # {}
  PROVE  \E m \in S : \A k \in S : m <= k
<1> DEFINE F == {s \in SUBSET S : s = {} \/ \E m \in s : \A k \in s : m <= k}
<1>0. IsFiniteSet(S) /\ S \subseteq Nat
  <2>1. Ids \subseteq Nat
    BY DEF Ids
  <2> QED
    BY <2>1, FirstsFinite, FS_Subset
<1>1. {} \in F
  OBVIOUS
<1>2. ASSUME NEW s \in SUBSET S, NEW x \in S, s \in F
      PROVE  \E m \in s \cup {x} : \A k \in s \cup {x} : m <= k
  <2>1. CASE s = {}
    BY <1>0, <2>1
  <2>2. ASSUME NEW m \in s, \A k \in s : m <= k
        PROVE  \E n \in s \cup {x} : \A k \in s \cup {x} : n <= k
    <3>1. m \in Nat /\ x \in Nat /\ \A k \in s : k \in Nat
      BY <1>0
    <3>2. CASE m <= x
      BY <2>2, <3>2
    <3>3. CASE x <= m
      BY <2>2, <3>1, <3>3
    <3> QED
      BY <3>1, <3>2, <3>3
  <2> QED
    BY <1>2, <2>1, <2>2
<1>3. \A s \in SUBSET S : \A x \in S : s \in F /\ x \notin s => s \cup {x} \in F
  BY <1>2
<1>4. S \in F
  <2> HIDE DEF F
  <2> QED
    BY <1>0, <1>1, <1>3, SubsetInduction
<1> QED
  BY <1>4

\* Every execution that is answered has a first answer, and one only.
LEMMA FirstAnswers ==
  /\ \A f \in Hedged : \E i \in SpotIds \ Again : slice[i].from = f
  /\ \A i, j \in SpotIds \ Again : slice[i].from = slice[j].from => i = j
<1>0. Ids \subseteq Nat
  BY DEF Ids
<1>1. ASSUME NEW f \in Hedged
      PROVE  \E i \in SpotIds \ Again : slice[i].from = f
  <2> DEFINE S == {j \in Ids : Spot(j) /\ slice[j].from = f}
  <2>1. S \in SUBSET Ids /\ S # {}
    BY DEF Hedged
  <2> HIDE DEF S
  <2>2. PICK m \in S : \A k \in S : m <= k
    BY <2>1, LeastSlice
  <2>3. \A k \in S : ~(k < m)
    BY <1>0, <2>1, <2>2
  <2>4. m \in SpotIds /\ slice[m].from = f /\ m \notin Again
    BY <2>2, <2>3 DEF S, SpotIds, Again
  <2> QED
    BY <2>4
<1>2. ASSUME NEW i \in SpotIds \ Again, NEW j \in SpotIds \ Again, slice[i].from = slice[j].from
      PROVE  i = j
  <2>1. i \in Nat /\ j \in Nat /\ i \in Ids /\ j \in Ids /\ Spot(i) /\ Spot(j)
    BY <1>0 DEF SpotIds
  <2>2. ~(i < j) /\ ~(j < i)
    BY <1>2, <2>1 DEF Again
  <2> QED
    BY <2>1, <2>2
<1> QED
  BY <1>1, <1>2

\* The answer to an execution is one more; when it has one, the new slice answers
\* it again.
LEMMA ReturnAnswers ==
  ASSUME IInv, HeadIsSwap, NEW ev \in chOrder, onOrderEvent(ev), Swap(ev.id), SwapReturn(ev)
  PROVE  LET f == <<ev.id, ev.acc>>
         IN  /\ f \in fills /\ Hedged' = Hedged \cup {f}
             /\ Again' = IF f \in Hedged THEN Again \cup {seqId + 1} ELSE Again
             /\ seqId + 1 \notin Again /\ slice'[seqId + 1].from = f
             /\ \A j \in Ids : Spot(j) => slice'[j].from = slice[j].from
<1> DEFINE f == <<ev.id, ev.acc>>
           n == seqId + 1
<1>1. /\ orderSlices[1] \in Ids /\ ev.fill > 0 /\ ev.fill \in Nat
      /\ seqId \in Nat /\ Ids \subseteq Nat
  BY ReturnHead, Numbers
<1>2. f \in InFlight
  BY <1>1 DEF InFlight, SwapFills
<1>3. f \in fills
  BY <1>2 DEF IInv, Sorted
<1>4. /\ n \in Ids /\ slice'[n].role = "spot" /\ slice'[n].from = f
      /\ \A j \in Ids : j <= seqId => slice'[j].role = slice[j].role /\ slice'[j].from = slice[j].from
      /\ \A j \in Ids : j > n => slice'[j].role = "none"
  BY <1>1, SwapReturns
<1>5. \A j \in Ids : ~(j <= seqId) => slice[j].role = "none"
  BY Numbers
<1> HIDE DEF f
<1>6. /\ \A j \in Ids : Spot(j)' <=> Spot(j) \/ j = n
      /\ \A j \in Ids : Spot(j) => j < n /\ slice'[j].from = slice[j].from
  <2>1. \A j \in Ids : j <= seqId \/ j = n \/ j > n
    BY <1>1
  <2>2. \A j \in Ids : Spot(j)' <=> Spot(j) \/ j = n
    BY <1>4, <1>5, <2>1 DEF Spot
  <2>3. \A j \in Ids : Spot(j) => j <= seqId
    BY <1>5 DEF Spot
  <2> QED
    BY <1>1, <1>4, <2>2, <2>3
<1>7. ~Spot(n) /\ n \in Nat
  BY <1>1, <1>4, <1>6
<1> HIDE DEF n
<1>8. Hedged' = Hedged \cup {f}
  <2>1. {j \in Ids : Spot(j)'} = {j \in Ids : Spot(j)} \cup {n}
    BY <1>4, <1>6
  <2> QED
    BY <1>4, <1>6, <2>1 DEF Hedged
<1>9. n \notin Again
  BY <1>7 DEF Again
<1>10. Again' = IF f \in Hedged THEN Again \cup {n} ELSE Again
  <2>1. \A i \in Ids : i \in Again' <=>
           Spot(i)' /\ \E j \in Ids : j < i /\ Spot(j)' /\ slice'[j].from = slice'[i].from
    BY DEF Again
  <2>2. ASSUME NEW i \in Ids, i # n
        PROVE  i \in Again' <=> i \in Again
    <3>1. Spot(i) => ~(n < i)
      BY <1>1, <1>6, <1>7
    <3> QED
      BY <1>6, <2>1, <2>2, <3>1 DEF Again
  <2>3. n \in Again' <=> f \in Hedged
    BY <1>4, <1>6, <2>1 DEF Hedged
  <2>4. Again \subseteq Ids /\ Again' \subseteq Ids
    BY DEF Again
  <2> QED
    BY <1>4, <1>9, <2>2, <2>3, <2>4
<1> QED
  BY <1>3, <1>4, <1>6, <1>8, <1>9, <1>10 DEF f, n

\* Every other step leaves the answers as they are.
LEMMA AnswersKept ==
  ASSUME Inductive, [Next]_vars,
         ~ \E ev \in chOrder : onOrderEvent(ev) /\ Swap(ev.id) /\ SwapReturn(ev)
  PROVE  /\ Hedged' = Hedged /\ Again' = Again
         /\ \A j \in Ids : Spot(j) => slice'[j].from = slice[j].from
<1>1. SpotsKept
  <2>1. CASE Next
    BY <2>1, SpotsUntouched
  <2>2. CASE UNCHANGED vars
    BY <2>2 DEF vars, sliceVars, SpotsKept, Spot
  <2> QED
    BY <2>1, <2>2
<1>2. {j \in Ids : Spot(j)'} = {j \in Ids : Spot(j)}
  BY <1>1 DEF SpotsKept
<1>3. \A j \in Ids : Spot(j) => slice'[j].from = slice[j].from
  BY <1>1 DEF SpotsKept
<1>4. Hedged' = Hedged
  BY <1>2, <1>3 DEF Hedged
<1>5. Again' = Again
  BY <1>1 DEF SpotsKept, Again
<1> QED
  BY <1>3, <1>4, <1>5

\* An answer to a repeated report stays one.
LEMMA AgainGrows ==
  ASSUME Inductive, HeadIsSwap, [Next]_vars
  PROVE  /\ Again \subseteq Again'
         /\ \A a \in Again : slice'[a].from = slice[a].from
         /\ \A i \in Ids : CreditedAgain(i) => CreditedAgain(i)'
<1>1. Again \subseteq Again' /\ \A j \in Ids : Spot(j) => slice'[j].from = slice[j].from
  <2>1. ASSUME NEW ev \in chOrder, onOrderEvent(ev), Swap(ev.id), SwapReturn(ev)
        PROVE  Again \subseteq Again' /\ \A j \in Ids : Spot(j) => slice'[j].from = slice[j].from
    BY <2>1, ReturnAnswers DEF Inductive
  <2> QED
    BY <2>1, AnswersKept
<1>2. \A a \in Again : a \in Ids /\ Spot(a)
  BY DEF Again
<1> QED
  BY <1>1, <1>2 DEF CreditedAgain

\* An execution that is answered gets into flight again only as a report that is
\* taken and stays.
LEMMA FlightsOfAnswered ==
  ASSUME IInv, Looping, [Next]_vars,
         ~ \E ev \in chOrder : onOrderEvent(ev) /\ Swap(ev.id) /\ SwapReturn(ev)
  PROVE  InFlight' \cap Hedged \subseteq InFlight
<1>0. /\ chOrder' \subseteq EventType /\ Hedged \subseteq fills /\ Grows(slice, slice') /\ RolesKept
      /\ Ids \subseteq Nat /\ seqId \in Nat
  BY StepIInv, StepGrows, Numbers DEF IInv, TypeOK, Sorted
<1> SUFFICES ASSUME NEW e \in chOrder', e.fill > 0, Swap(e.id)', <<e.id, e.acc>> \in Hedged
             PROVE  <<e.id, e.acc>> \in InFlight
  BY DEF InFlight, SwapFills
<1>1. e.id \in Ids /\ e.acc \in Nat /\ e.fill \in Nat
  BY <1>0 DEF EventType
<1>2. CASE e \in chOrder
  <2>1. Swap(e.id)
    BY <1>0, <1>1, <1>2, Numbers DEF RolesKept, Swap
  <2> QED
    BY <1>2, <2>1 DEF InFlight, SwapFills
<1>3. ASSUME NEW i \in Ids, NEW q \in 1..slice[i].target, ExecuteSwap(i, q), e \notin chOrder
      PROVE  FALSE
  <2>1. e.id = i /\ e.acc = exch[i].acc + q
    BY <1>3 DEF ExecuteSwap, Push, Event
  <2>2. <<i, e.acc>> \in fills
    BY <1>0, <2>1
  <2>3. e.acc <= exch[i].acc /\ exch[i].acc \in Nat
    BY <2>2, FillFacts
  <2> QED
    BY <2>1, <2>3
<1>4. ASSUME ~ \E i \in Ids : \E q \in 1..slice[i].target : ExecuteSwap(i, q)
      PROVE  e \in chOrder
  <2>1. e \in chOrder \/ e.fill = 0 \/ Spot(e.id)
    BY <1>4, ExchangeKept
  <2>2. Spot(e.id) => ~Swap(e.id)'
    BY <1>0, <1>1 DEF Grows, Spot, Swap
  <2> QED
    BY <1>1, <2>1, <2>2
<1> QED
  BY <1>2, <1>3, <1>4

\* Every answer to a repeated report, and every report that may yet get one, is
\* one of the repeats.
Answers == Cardinality(Again) + Cardinality(InFlight \cap Hedged) <= used.repeats

LEMMA AnswersFinite ==
  ASSUME IInv
  PROVE  /\ IsFiniteSet(fills) /\ IsFiniteSet(Again) /\ IsFiniteSet(InFlight \cap Hedged)
         /\ Cardinality(Again) \in Nat /\ Cardinality(InFlight \cap Hedged) \in Nat
         /\ used.repeats \in Nat /\ Hedged \subseteq fills
<1>1. IsFiniteSet(1..MaxSize)
  BY SizesAssumption, FS_Interval
<1>2. IsFiniteSet(Fill)
  BY <1>1, FirstsFinite, FS_Product DEF Fill
<1>3. IsFiniteSet(fills)
  BY <1>2, FS_Subset DEF IInv, TypeOK
<1>4. InFlight \cap Hedged \subseteq fills /\ Hedged \subseteq fills /\ Again \subseteq Ids
  BY DEF IInv, Sorted, Again
<1>5. IsFiniteSet(Again) /\ IsFiniteSet(InFlight \cap Hedged)
  BY <1>3, <1>4, FirstsFinite, FS_Subset
<1> QED
  BY <1>3, <1>4, <1>5, FS_CardinalityType DEF IInv, TypeOK, UsedType

LEMMA StepAnswers ==
  ASSUME Inductive, HeadIsSwap, Answers, [Next]_vars
  PROVE  Answers'
<1>0. /\ IInv /\ Looping /\ IInv' /\ used \in UsedType
      /\ IsFiniteSet(Again) /\ IsFiniteSet(InFlight \cap Hedged)
      /\ Cardinality(Again) \in Nat /\ Cardinality(InFlight \cap Hedged) \in Nat /\ used.repeats \in Nat
  BY StepIInv, AnswersFinite DEF Inductive, IInv, TypeOK
<1> DEFINE a == Cardinality(Again)  h == Cardinality(InFlight \cap Hedged)
<1>1. ASSUME NEW ev \in chOrder, onOrderEvent(ev), Swap(ev.id), SwapReturn(ev)
      PROVE  Answers'
  <2> DEFINE f == <<ev.id, ev.acc>>
  <2>1. /\ Hedged' = Hedged \cup {f} /\ seqId + 1 \notin Again
        /\ Again' = IF f \in Hedged THEN Again \cup {seqId + 1} ELSE Again
    BY <1>0, <1>1, ReturnAnswers
  <2>2. /\ Take(ev) /\ ev.fill > 0 /\ orderSlices[1] \in Ids
    BY <1>0, <1>1, ReturnHead
  <2>3. /\ f \in InFlight
        /\ \/ InFlight' = InFlight \ {f} /\ chOrder' = chOrder \ {ev}
           \/ InFlight' = InFlight /\ chOrder' = chOrder
    <3>1. \A i \in Ids : i <= seqId => (Swap(i)' <=> Swap(i))
      BY <1>0, <1>1, <2>2, SwapReturns DEF Swap
    <3> QED
      BY <1>0, <1>1, <2>2, <3>1, ReportTaken
  <2>4. \/ used' = used /\ InFlight' = InFlight \ {f}
        \/ used'.repeats = used.repeats + 1 /\ InFlight' = InFlight
    <3>1. chOrder \ {ev} # chOrder
      OBVIOUS
    <3>2. Take(ev) /\ chOrder' = chOrder => used' = [used EXCEPT !.repeats = @ + 1]
      BY <3>1 DEF Take
    <3>3. Take(ev) /\ chOrder' # chOrder => used' = used
      BY DEF Take
    <3> QED
      BY <1>0, <2>2, <2>3, <3>1, <3>2, <3>3 DEF UsedType
  <2>5. Cardinality(Again') = IF f \in Hedged THEN a + 1 ELSE a
    BY <1>0, <2>1, FS_AddElement
  <2> HIDE DEF f
  <2>6. CASE used' = used /\ InFlight' = InFlight \ {f}
    <3>1. CASE f \in Hedged
      <4>1. InFlight' \cap Hedged' = (InFlight \cap Hedged) \ {f} /\ f \in InFlight \cap Hedged
        BY <2>1, <2>3, <2>6, <3>1
      <4>2. Cardinality(InFlight' \cap Hedged') = h - 1
        BY <1>0, <4>1, FS_RemoveElement
      <4>3. Cardinality(Again') = a + 1
        BY <2>5, <3>1
      <4> HIDE DEF a, h
      <4> QED
        BY <1>0, <2>6, <4>2, <4>3 DEF Answers, a, h
    <3>2. CASE f \notin Hedged
      <4>1. InFlight' \cap Hedged' = InFlight \cap Hedged
        BY <2>1, <2>3, <2>6, <3>2
      <4> QED
        BY <1>0, <2>5, <2>6, <3>2, <4>1 DEF Answers
    <3> QED
      BY <3>1, <3>2
  <2>7. CASE used'.repeats = used.repeats + 1 /\ InFlight' = InFlight
    <3>1. CASE f \in Hedged
      <4>1. InFlight' \cap Hedged' = InFlight \cap Hedged
        BY <2>1, <2>7, <3>1
      <4>2. Cardinality(Again') = a + 1
        BY <2>5, <3>1
      <4> QED
        BY <1>0, <2>7, <4>1, <4>2 DEF Answers
    <3>2. CASE f \notin Hedged
      <4>1. InFlight' \cap Hedged' = (InFlight \cap Hedged) \cup {f} /\ f \notin InFlight \cap Hedged
        BY <2>1, <2>3, <2>7, <3>2
      <4>2. Cardinality(InFlight' \cap Hedged') = h + 1
        BY <1>0, <4>1, FS_AddElement
      <4>3. Cardinality(Again') = a
        BY <2>5, <3>2
      <4> QED
        BY <1>0, <2>7, <4>2, <4>3 DEF Answers
    <3> QED
      BY <3>1, <3>2
  <2> QED
    BY <2>4, <2>6, <2>7
<1>2. ASSUME ~ \E ev \in chOrder : onOrderEvent(ev) /\ Swap(ev.id) /\ SwapReturn(ev)
      PROVE  Answers'
  <2>1. Hedged' = Hedged /\ Again' = Again
    BY <1>2, AnswersKept
  <2>2. InFlight' \cap Hedged' \subseteq InFlight \cap Hedged
    BY <1>0, <1>2, <2>1, FlightsOfAnswered
  <2>3. /\ Cardinality(InFlight' \cap Hedged') <= h
        /\ Cardinality(InFlight' \cap Hedged') \in Nat
    BY <1>0, <2>2, FS_Subset, FS_CardinalityType
  <2>4. used'.repeats \in Nat /\ used'.repeats >= used.repeats
    <3>1. used'.repeats = used.repeats \/ used'.repeats = used.repeats + 1
      <4>1. CASE \E ev \in chOrder : onOrderEvent(ev)
        <5>1. used' = used \/ used' = [used EXCEPT !.repeats = @ + 1]
          BY <4>1 DEF onOrderEvent, Take
        <5> QED
          BY <1>0, <5>1 DEF UsedType
      <4> QED
        BY <1>0, <4>1, UsedSteps DEF IInv
    <3> QED
      BY <1>0, <3>1
  <2>5. Cardinality(Again') = a
    BY <2>1
  <2> HIDE DEF a, h
  <2> QED
    BY <1>0, <2>3, <2>4, <2>5 DEF Answers, a, h
<1> QED
  BY <1>1, <1>2

LEMMA AnswersInvariance == Spec => []Answers
<1>1. Init => Answers
  <2> SUFFICES ASSUME Init PROVE Answers
    OBVIOUS
  <2>1. Again = {} /\ InFlight \cap Hedged = {} /\ used.repeats = 0
    BY DEF Init, Again, Spot, NewSlice, InFlight, SwapFills
  <2>2. Cardinality(Again) = 0 /\ Cardinality(InFlight \cap Hedged) = 0
    BY <2>1, FS_EmptySet
  <2> QED
    BY <2>1, <2>2 DEF Answers
<1>2. Inductive /\ HeadIsSwap /\ Answers /\ [Next]_vars => Answers'
  BY StepAnswers
<1> QED
  BY <1>1, <1>2, Invariance, Heads, PTL DEF Spec

-----------------------------------------------------------------------------
(* The two legs *)

LEMMA Division ==
  ASSUME NEW n \in Nat, NEW m \in Nat \ {0}
  PROVE  n \div m \in Nat /\ n % m \in 0..(m - 1) /\ n = m * (n \div m) + (n % m)
<1>1. n \div m \in Nat
  OBVIOUS
<1>2. n % m \in 0..(m - 1)
  OBVIOUS
<1>3. n = m * (n \div m) + (n % m)
  OBVIOUS
<1> QED
  BY <1>1, <1>2, <1>3

\* Cutting to lots takes less than a lot off.
LEMMA LotsBounds ==
  ASSUME NEW q \in Nat
  PROVE  /\ Lots(q) \in Nat /\ Lots(q) <= CtVal * q
         /\ CtVal * q - (MinSz - 1) <= Lots(q)
<1> DEFINE n == q * CtVal
           d == n \div MinSz
           r == n % MinSz
<1>1. n \in Nat /\ MinSz \in Nat \ {0} /\ n = CtVal * q
  BY LotAssumption
<1> HIDE DEF n
<1>2. d \in Nat /\ r \in 0..(MinSz - 1) /\ n = MinSz * d + r
  BY <1>1, Division
<1>3. Lots(q) = d * MinSz
  BY DEF Lots, n
<1> HIDE DEF d, r
<1>4. d * MinSz = MinSz * d /\ MinSz * d \in Nat
  BY <1>1, <1>2
<1> QED
  BY <1>1, <1>2, <1>3, <1>4

\* Scaling keeps an order.
LEMMA Scaled ==
  ASSUME NEW c \in Nat, NEW m \in Nat, NEW n \in Nat, m <= n
  PROVE  c * m \in Nat /\ c * n \in Nat /\ c * m <= c * n
<1>1. n - m \in Nat /\ n = m + (n - m)
  OBVIOUS
<1>2. c * (m + (n - m)) = c * m + c * (n - m) /\ c * (n - m) \in Nat
  BY <1>1
<1> QED
  BY <1>1, <1>2

\* The contracts of an execution of size q are q, of its order, and none is part
\* of another execution.
LEMMA ContractsCounted ==
  ASSUME IInv, NEW f \in fills, NEW q \in Nat, OfSize(fills, f, q)
  PROVE  IsFiniteSet(Contracts(fills, f)) /\ Cardinality(Contracts(fills, f)) = q
<1> DEFINE U == {u \in 1..f[2] : \A g \in Earlier(fills, f) : g[2] < u}
           b == f[2] - q
<1>1. f[1] \in Ids /\ f[2] \in Nat /\ q \in 1..f[2] /\ b \in Nat /\ b < f[2] /\ b + q = f[2]
  BY FillFacts DEF OfSize
<1>2. \A g \in Earlier(fills, f) : g[2] \in Nat /\ g[2] <= b
  BY FillFacts DEF OfSize, Earlier
<1>3. b = 0 \/ <<f[1], b>> \in Earlier(fills, f)
  <2>1. CASE q = f[2]
    BY <1>1, <2>1
  <2>2. CASE <<f[1], b>> \in fills
    BY <1>1, <2>2 DEF Earlier
  <2> QED
    BY <2>1, <2>2 DEF OfSize
<1>4. U = (b + 1)..f[2]
  <2>1. \A u \in U : u \in (b + 1)..f[2]
    <3> SUFFICES ASSUME NEW u \in U PROVE b < u
      BY <1>1
    <3>1. CASE b = 0
      BY <1>1, <3>1
    <3>2. CASE <<f[1], b>> \in Earlier(fills, f)
      BY <3>2
    <3> QED
      BY <1>3, <3>1, <3>2
  <2>2. \A u \in (b + 1)..f[2] : u \in U
    <3> SUFFICES ASSUME NEW u \in (b + 1)..f[2] PROVE u \in U
      OBVIOUS
    <3>1. u \in 1..f[2] /\ b < u
      BY <1>1
    <3>2. \A g \in Earlier(fills, f) : g[2] < u
      BY <1>1, <1>2, <3>1
    <3> QED
      BY <3>1, <3>2
  <2> QED
    BY <2>1, <2>2
<1> HIDE DEF U
<1>5. IsFiniteSet(U) /\ Cardinality(U) = q
  <2>1. b + 1 \in Int /\ f[2] \in Int /\ ~(b + 1 > f[2]) /\ f[2] - (b + 1) + 1 = q
    BY <1>1
  <2> HIDE DEF b
  <2>2. /\ IsFiniteSet((b + 1)..f[2])
        /\ Cardinality((b + 1)..f[2]) = IF b + 1 > f[2] THEN 0 ELSE f[2] - (b + 1) + 1
    BY <2>1, FS_Interval
  <2> QED
    BY <1>4, <2>1, <2>2
<1>6. IsFiniteSet({f[1]}) /\ Cardinality({f[1]}) = 1
  BY FS_Singleton
<1>7. IsFiniteSet({f[1]} \X U) /\ Cardinality({f[1]} \X U) = 1 * q
  BY <1>5, <1>6, FS_Product
<1> QED
  BY <1>7 DEF Contracts, U

LEMMA ContractsDisjoint ==
  ASSUME IInv, NEW f \in fills, NEW g \in fills, f # g
  PROVE  Contracts(fills, f) \cap Contracts(fills, g) = {}
<1> SUFFICES ASSUME NEW x \in Contracts(fills, f), x \in Contracts(fills, g) PROVE FALSE
  OBVIOUS
<1>1. /\ f[2] \in Nat /\ g[2] \in Nat /\ f = <<f[1], f[2]>> /\ g = <<g[1], g[2]>>
  BY FillFacts
<1>2. /\ x[1] = f[1] /\ x[2] \in 1..f[2] /\ (\A e \in Earlier(fills, f) : e[2] < x[2])
      /\ x[1] = g[1] /\ x[2] \in 1..g[2] /\ (\A e \in Earlier(fills, g) : e[2] < x[2])
  BY DEF Contracts
<1>3. f[2] # g[2]
  BY <1>1, <1>2
<1>4. f[2] < g[2] \/ g[2] < f[2]
  BY <1>1, <1>3
<1>5. f[2] < g[2] => f \in Earlier(fills, g)
  BY <1>2 DEF Earlier
<1>6. g[2] < f[2] => g \in Earlier(fills, f)
  BY <1>2 DEF Earlier
<1> QED
  BY <1>1, <1>2, <1>4, <1>5, <1>6

\* The contracts of the executions, and those of the hedged ones.
Executed == Units([i \in Ids |-> exch[i].acc], SwapIds)
Answered == Cover([j \in Ids |-> Contracts(fills, slice[j].from)], SpotIds \ Again)

LEMMA ExecutedUnits ==
  ASSUME IInv
  PROVE  /\ Executed = {x \in Ids \X Nat : Swap(x[1]) /\ x[2] \in 1..exch[x[1]].acc}
         /\ IsFiniteSet(Executed)
         /\ SwapDone = Cardinality(Executed)
         /\ \A f \in fills : Contracts(fills, f) \subseteq Executed
<1> DEFINE g == [i \in Ids |-> exch[i].acc]
<1>1. /\ SwapIds \subseteq Ids /\ \A i \in SwapIds : g[i] \in Nat
      /\ \A i \in Ids : exch[i].acc \in Nat
  BY FillFacts DEF SwapIds
<1>2. IsFiniteSet(SwapIds)
  BY <1>1, FirstsFinite, FS_Subset
<1>3. Executed = {x \in Ids \X Nat : Swap(x[1]) /\ x[2] \in 1..exch[x[1]].acc}
  <2>1. \A i \in SwapIds : Row(g, i) = {i} \X (1..exch[i].acc)
    BY <1>1 DEF Row
  <2>2. Executed = UNION {{i} \X (1..exch[i].acc) : i \in SwapIds}
    BY <2>1 DEF Executed, Units
  <2> QED
    BY <1>1, <2>2 DEF SwapIds
<1>4. \A f \in fills : Contracts(fills, f) \subseteq Executed
  <2> SUFFICES ASSUME NEW f \in fills, NEW x \in Contracts(fills, f) PROVE x \in Executed
    OBVIOUS
  <2>1. f[1] \in Ids /\ f[2] \in Nat /\ Swap(f[1]) /\ f[2] <= exch[f[1]].acc
    BY FillFacts
  <2>2. x[1] = f[1] /\ x[2] \in 1..f[2] /\ x = <<x[1], x[2]>>
    BY DEF Contracts
  <2>3. x \in Ids \X Nat /\ x[2] \in 1..exch[x[1]].acc
    BY <1>1, <2>1, <2>2
  <2> QED
    BY <1>3, <2>1, <2>2, <2>3
<1> HIDE DEF g
<1>5. IsFiniteSet(Units(g, SwapIds)) /\ SumFunctionOnSet(g, SwapIds) = Cardinality(Units(g, SwapIds))
  BY <1>1, <1>2, UnitsFinite, SumCounts
<1> QED
  BY <1>3, <1>4, <1>5 DEF Executed, SwapDone, g

\* The spot orders ask for the contracts that they are the first to answer, cut to
\* lots.
LEMMA AskedBounds ==
  ASSUME IInv, Measured
  PROVE  /\ IsFiniteSet(Answered) /\ IsFiniteSet(SpotIds \ Again) /\ Answered \subseteq Executed
         /\ SpotAsked <= CtVal * Cardinality(Answered)
         /\ CtVal * Cardinality(Answered) - (MinSz - 1) * Cardinality(SpotIds \ Again) <= SpotAsked
         /\ SpotAsked \in Nat
<1> DEFINE S == SpotIds \ Again
           g == [j \in Ids |-> slice[j].target]
           B == [j \in Ids |-> Contracts(fills, slice[j].from)]
           c == CtVal
           m == MinSz - 1
<1>0. S \subseteq Ids /\ \A j \in S : Spot(j)
  BY DEF SpotIds
<1>1. IsFiniteSet(S)
  BY <1>0, FirstsFinite, FS_Subset
<1>2. c \in Nat /\ m \in Nat
  BY LotAssumption
<1>3. ASSUME NEW j \in S
      PROVE  /\ slice[j].from \in fills /\ IsFiniteSet(B[j]) /\ g[j] \in Nat
             /\ g[j] <= c * Cardinality(B[j]) /\ c * Cardinality(B[j]) - m <= g[j]
  <2>1. PICK q \in Nat : OfSize(fills, slice[j].from, q) /\ slice[j].target = Lots(q)
    BY <1>0 DEF Measured, Asked
  <2>2. slice[j].from \in fills
    BY <2>1 DEF OfSize
  <2>3. /\ IsFiniteSet(Contracts(fills, slice[j].from))
        /\ Cardinality(Contracts(fills, slice[j].from)) = q
    BY <2>1, <2>2, ContractsCounted
  <2>4. Lots(q) \in Nat /\ Lots(q) <= CtVal * q /\ CtVal * q - (MinSz - 1) <= Lots(q)
    BY LotsBounds
  <2> QED
    BY <1>0, <2>1, <2>2, <2>3, <2>4
<1>4. \A j, k \in S : j # k => B[j] \cap B[k] = {}
  <2> SUFFICES ASSUME NEW j \in S, NEW k \in S, j # k PROVE B[j] \cap B[k] = {}
    OBVIOUS
  <2>1. slice[j].from # slice[k].from
    BY FirstAnswers
  <2>2. slice[j].from \in fills /\ slice[k].from \in fills
    BY <1>3
  <2>3. Contracts(fills, slice[j].from) \cap Contracts(fills, slice[k].from) = {}
    BY <2>1, <2>2, ContractsDisjoint
  <2> QED
    BY <1>0, <2>3
<1>5. Answered \subseteq Executed
  <2>1. \A j \in S : Contracts(fills, slice[j].from) \subseteq Executed
    BY <1>3, ExecutedUnits
  <2> QED
    BY <1>0, <2>1 DEF Answered, Cover
<1>6. Answered = Cover(B, S) /\ SpotAsked = SumFunctionOnSet(g, S)
  BY DEF Answered, SpotAsked
<1> HIDE DEF B, g, c, m, S
<1>7. /\ IsFiniteSet(Cover(B, S))
      /\ SumFunctionOnSet(g, S) <= c * Cardinality(Cover(B, S))
      /\ c * Cardinality(Cover(B, S)) - m * Cardinality(S) <= SumFunctionOnSet(g, S)
  BY <1>1, <1>2, <1>3, <1>4, CoverBounds
<1>8. SumFunctionOnSet(g, S) \in Nat
  <2>1. IsFiniteSet(Units(g, S)) /\ SumFunctionOnSet(g, S) = Cardinality(Units(g, S))
    BY <1>1, <1>3, UnitsFinite, SumCounts
  <2> QED
    BY <2>1, FS_CardinalityType
<1> QED
  BY <1>1, <1>5, <1>6, <1>7, <1>8 DEF c, m, S

\* But for the answers to reports that came more than once (broker.go:366, 405),
\* which are no more than these reports, the spot leg never asks for more than the
\* swap leg has executed, and lags behind by less than a lot for each execution once
\* all are answered (order.go:745-773: the conversion of the size, the cut to lots).
THEOREM Matching == Spec => []LegsMatch
<1>1. ASSUME IInv, Measured, Answers PROVE LegsMatch
  <2> DEFINE a == Cardinality(Answered)  e == Cardinality(Executed)
             s == Cardinality(SpotIds \ Again)   n == Cardinality(fills)
  <2>1. a \in Nat /\ e \in Nat /\ s \in Nat /\ a <= e /\ SwapDone = e
    BY <1>1, AskedBounds, ExecutedUnits, FS_Subset, FS_CardinalityType
  <2>2. s <= n /\ n \in Nat
    <3>1. IsFiniteSet(fills)
      BY <1>1, AnswersFinite
    <3> DEFINE h == [j \in SpotIds \ Again |-> slice[j].from]
    <3>2. \A j \in SpotIds \ Again : slice[j].from \in fills
      BY <1>1 DEF SpotIds, Measured, Asked, OfSize
    <3>3. \A j, k \in SpotIds \ Again : slice[j].from = slice[k].from => j = k
      BY FirstAnswers
    <3>4. h \in Injection(SpotIds \ Again, fills)
      BY <3>2, <3>3 DEF Injection, IsInjective
    <3> HIDE DEF h
    <3> QED
      BY <3>1, <3>4, FS_Injection, FS_CardinalityType DEF ExistsInjection
  <2>3. CtVal * a \in Nat /\ CtVal * e \in Nat /\ CtVal * a <= CtVal * e
    BY <2>1, LotAssumption, Scaled
  <2>4. (MinSz - 1) * s \in Nat /\ (MinSz - 1) * n \in Nat /\ (MinSz - 1) * s <= (MinSz - 1) * n
    BY <2>1, <2>2, LotAssumption, Scaled
  <2>5. fills \subseteq Hedged => a = e
    <3> SUFFICES ASSUME fills \subseteq Hedged PROVE Executed = Answered
      OBVIOUS
    <3>0. Answered \subseteq Executed
      BY <1>1, AskedBounds
    <3> SUFFICES ASSUME NEW x \in Executed PROVE x \in Answered
      BY <3>0
    <3>1. x \in Ids \X Nat /\ Swap(x[1]) /\ x[2] \in 1..exch[x[1]].acc /\ x = <<x[1], x[2]>>
      BY <1>1, ExecutedUnits
    <3>2. PICK f \in fills : x \in Contracts(fills, f)
      BY <1>1, <3>1 DEF Measured, Covered
    <3>3. PICK j \in SpotIds \ Again : slice[j].from = f
      BY FirstAnswers
    <3> QED
      BY <3>2, <3>3 DEF Answered, Cover, SpotIds
  <2>6. SpotAsked \in Nat /\ SpotAsked <= CtVal * a /\ CtVal * a - (MinSz - 1) * s <= SpotAsked
    BY <1>1, AskedBounds
  <2> HIDE DEF a, e, s
  <2>7. SpotAsked <= CtVal * SwapDone
    BY <2>1, <2>3, <2>6
  <2>8. ASSUME fills \subseteq Hedged PROVE CtVal * SwapDone - SpotAsked <= (MinSz - 1) * n
    BY <2>1, <2>3, <2>4, <2>5, <2>6, <2>8
  <2>9. Cardinality(Again) <= used.repeats
    BY <1>1, AnswersFinite DEF Answers
  <2> QED
    BY <2>7, <2>8, <2>9 DEF LegsMatch
<1>2. Inductive /\ Measured /\ Answers => LegsMatch
  BY <1>1 DEF Inductive
<1> QED
  BY <1>2, MeasuredInvariance, AnswersInvariance, PTL

-----------------------------------------------------------------------------
(* The last spot slice *)

\* The contracts of the hedged executions of other orders than i.
OfOthers(i) == UNION {Contracts(fills, f) : f \in {g \in Hedged : g[1] # i}}

\* A swap slice is credited with what its own order has executed at most, and
\* with what was hedged for others, unless that was credited again.
Credited ==
    \A i \in Ids : Swap(i) => \/ slice[i].present <= exch[i].acc + Cardinality(OfOthers(i))
                              \/ CreditedAgain(i)

\* No swap slice is credited with more than the swap orders together executed,
\* unless an execution of another one was credited to it again.
Backed == \A i \in Ids : Swap(i) => slice[i].present <= SwapDone \/ CreditedAgain(i)

LEMMA OthersFinite ==
  ASSUME IInv, NEW i \in Ids
  PROVE  /\ IsFiniteSet(OfOthers(i)) /\ Cardinality(OfOthers(i)) \in Nat
         /\ OfOthers(i) \subseteq {x \in Executed : x[1] # i}
<1>1. Hedged \subseteq fills
  BY DEF IInv, Sorted
<1>2. \A f \in fills : Contracts(fills, f) \subseteq {x \in Executed : x[1] = f[1]}
  BY ExecutedUnits DEF Contracts
<1>3. OfOthers(i) \subseteq {x \in Executed : x[1] # i}
  BY <1>1, <1>2 DEF OfOthers
<1>4. IsFiniteSet(OfOthers(i))
  BY <1>3, ExecutedUnits, FS_Subset
<1> QED
  BY <1>3, <1>4, FS_CardinalityType

\* A slice is only marked as the last one, and only credited, by the answer to
\* a swap execution.
LEMMA CreditSteps ==
  ASSUME IInv, Looping, [Next]_vars,
         ~ \E ev \in chOrder : onOrderEvent(ev) /\ Swap(ev.id) /\ SwapReturn(ev)
  PROVE  /\ \A j \in Ids : slice'[j].isLast => slice[j].isLast
         /\ \A j \in Ids :
               \/ slice'[j].present = 0
               \/ slice'[j].present = slice[j].present /\ slice'[j].role = slice[j].role
<1> DEFINE Same(t, j) == /\ t[j].isLast = slice[j].isLast
                         /\ t[j].present = slice[j].present /\ t[j].role = slice[j].role
           Goal == \A j \in Ids : /\ slice'[j].isLast => slice[j].isLast
                                  /\ \/ slice'[j].present = 0
                                     \/ /\ slice'[j].present = slice[j].present
                                        /\ slice'[j].role = slice[j].role
<1>0. slice \in Slices /\ chOrder \subseteq EventType /\ seqId \in Nat /\ Ids \subseteq Nat
  BY Numbers DEF IInv, TypeOK, Slices
<1>1. ASSUME \A j \in Ids : Same(slice', j)
      PROVE  Goal
  BY <1>1
<1>2. ASSUME NEW i \in Ids,
             \/ \E x : slice' = [slice EXCEPT ![i].ready = x]
             \/ \E x : slice' = [slice EXCEPT ![i].ignored = x]
             \/ \E x : slice' = [slice EXCEPT ![i].latest = x]
      PROVE  Goal
  <2>1. \A j \in Ids : Same(slice', j)
    BY <1>0, <1>2 DEF Slices, SliceType
  <2> QED
    BY <1>1, <2>1
<1>3. ASSUME UNCHANGED slice PROVE Goal
  BY <1>3
<1>4. ASSUME NEW size \in Sizes, firstOrder(size) PROVE Goal
  <2>1. /\ slice' = [slice EXCEPT ![seqId + 1] = NewSlice("first", size, FALSE, NoFill)]
        /\ seqId + 1 \in Ids
    BY <1>4, FirstGrows DEF firstOrder
  <2>2. ~NewSlice("first", size, FALSE, NoFill).isLast /\ NewSlice("first", size, FALSE, NoFill).present = 0
    BY DEF NewSlice
  <2> QED
    BY <1>0, <2>1, <2>2 DEF Slices
<1>5. ASSUME NEW i \in Ids, executeSlice(i) PROVE Goal
  BY <1>2, <1>5 DEF executeSlice
<1>6. ASSUME NEW ev \in chOrder, onOrderEvent(ev) PROVE Goal
  <2>1. UNCHANGED slice \/ slice' = [slice EXCEPT ![ev.id].latest = ev.state]
    BY <1>6 DEF onOrderEvent, SpotReturn, sliceVars
  <2>2. ev.id \in Ids
    BY <1>0 DEF EventType
  <2> QED
    BY <1>2, <1>3, <2>1, <2>2
<1>7. ASSUME StartCheck \/ BookFirst PROVE Goal
  BY <1>3, <1>4, <1>7 DEF StartCheck, BookFirst, sliceVars
<1>8. ASSUME BookQuery PROVE Goal
  <2>1. book.todo \in Seq(Slots) /\ book.todo # <<>>
    BY <1>8 DEF BookQuery, IInv, TypeOK, BookType
  <2>2. Head(book.todo) \in Ids
    BY <1>8, <2>1, SlotSeqs DEF BookQuery, Slots
  <2>3. UNCHANGED slice \/ slice' = [slice EXCEPT ![Head(book.todo)].latest = exch[Head(book.todo)].state]
    BY <1>8 DEF BookQuery
  <2> QED
    BY <1>2, <1>3, <2>2, <2>3
<1>9. ASSUME BookFinish \/ BookCheck PROVE Goal
  <2>1. PICK S : Ignore(S)
    BY <1>9 DEF BookFinish, BookCheck
  <2>2. \A j \in Ids : Same(slice', j)
    BY <1>0, <2>1 DEF Ignore, Slices, SliceType
  <2> QED
    BY <1>1, <2>2
<1>10. ASSUME BookReprice PROVE Goal
  <2>1. PICK k \in DOMAIN book.todo : CanReprice(book.todo[k]) /\ nextOrder(book.todo[k])
    BY <1>10 DEF BookReprice
  <2> DEFINE i == book.todo[k]
             marked == [slice EXCEPT ![i].ignored = TRUE]
             new == NewSlice("next", slice[i].target - slice[i].present, FALSE, NoFill)
  <2>2. i \in Ids
    BY <1>10, <2>1 DEF BookReprice, Looping
  <2>3. \A j \in Ids : Same(marked, j)
    BY <1>0, <2>2 DEF Slices, SliceType
  <2>4. ~new.isLast /\ new.present = 0
    BY DEF NewSlice
  <2>5. DOMAIN marked = Ids
    BY <1>0 DEF Slices
  <2>6. slice' = marked \/ slice' = [marked EXCEPT ![seqId + 1] = new]
    BY <2>1 DEF nextOrder
  <2> HIDE DEF marked, new
  <2>7. \A j \in Ids : slice'[j] = marked[j] \/ slice'[j] = new
    BY <2>5, <2>6
  <2> QED
    BY <2>3, <2>4, <2>7
<1>11. ASSUME \/ RunDone \/ RunTimer \/ RunBook \/ ExecuteNil \/ ManagerStop \/ StartRead \/ StartWrite
              \/ PrintTask \/ (\E e \in book.due : StoreTime(e)) \/ (\E i \in Ids : OnOrderError(i)) \/ Exchange
              \/ (\E leg, here, next : BookRetreat(leg, here, next))
              \/ BookQueried \/ BookFilter \/ BookAssign \/ BookNil \/ BookRepriced \/ UNCHANGED vars
       PROVE  Goal
  <2>1. UNCHANGED slice
    BY <1>11 DEF RunDone, RunTimer, RunBook, ExecuteNil, ManagerStop, StartRead, StartWrite,
       PrintTask, StoreTime, OnOrderError, Exchange, ExecuteSwap, ExecuteSpot, Disconnect, Reconnect,
       BookRetreat, BookQueried, BookFilter, BookAssign, BookNil, BookRepriced, sliceVars, vars
  <2> QED
    BY <1>3, <2>1
<1> HIDE DEF Goal
<1>12. Goal
  BY <1>5, <1>6, <1>7, <1>8, <1>9, <1>10, <1>11 DEF Next, Run, onStart, onOrderBook
<1> QED
  BY <1>12 DEF Goal

\* The answer to an execution hedges as many contracts as its report says.
LEMMA ReturnHedges ==
  ASSUME IInv, HeadIsSwap, Told, NEW ev \in chOrder, onOrderEvent(ev), Swap(ev.id), SwapReturn(ev)
  PROVE  LET f == <<ev.id, ev.acc>>
         IN  /\ IsFiniteSet(Contracts(fills, f)) /\ Cardinality(Contracts(fills, f)) = ev.fill
             /\ ev.acc <= exch[ev.id].acc
<1> DEFINE f == <<ev.id, ev.acc>>
<1>1. ev.fill > 0 /\ ev.fill \in Nat /\ f \in fills /\ f[1] = ev.id /\ f[2] = ev.acc
  BY ReturnHead, ReturnAnswers
<1>2. OfSize(fills, f, ev.fill)
  BY <1>1 DEF Told
<1> HIDE DEF f
<1>3. IsFiniteSet(Contracts(fills, f)) /\ Cardinality(Contracts(fills, f)) = ev.fill
  BY <1>1, <1>2, ContractsCounted
<1>4. ev.acc <= exch[ev.id].acc
  BY <1>1, FillFacts
<1> QED
  BY <1>3, <1>4 DEF f

LEMMA ReturnCredited ==
  ASSUME IInv, IInv', HeadIsSwap, Told, Credited,
         NEW ev \in chOrder, onOrderEvent(ev), Swap(ev.id), SwapReturn(ev)
  PROVE  Credited'
<1> DEFINE f == <<ev.id, ev.acc>>
           first == orderSlices[1]
<1>1. /\ first \in Ids /\ Swap(first) /\ ev.id \in Ids /\ ev.acc \in Nat /\ ev.fill \in Nat
      /\ exch' = exch /\ fills' = fills /\ seqId \in Nat /\ Ids \subseteq Nat
      /\ \A i \in Ids : exch[i].acc \in Nat /\ slice[i].present \in Nat
  BY ReturnHead, Numbers DEF IInv, TypeOK, EventType, SliceType
<1>2. /\ f \in fills /\ Hedged' = Hedged \cup {f} /\ Hedged \subseteq fills
      /\ IsFiniteSet(Contracts(fills, f)) /\ Cardinality(Contracts(fills, f)) = ev.fill
      /\ ev.acc <= exch[ev.id].acc
  BY ReturnAnswers, ReturnHedges DEF IInv, Sorted
<1>3. /\ f[1] = ev.id
      /\ f \in Hedged => seqId + 1 \in Again' /\ slice'[seqId + 1].from = f
      /\ Again \subseteq Again' /\ \A j \in Again : slice'[j].from = slice[j].from
  <2>1. \A j \in Again : j \in Ids /\ Spot(j)
    BY DEF Again
  <2> QED
    BY <2>1, ReturnAnswers
<1> HIDE DEF f
<1> SUFFICES ASSUME NEW i \in Ids, Swap(i)', ~CreditedAgain(i)'
             PROVE  slice'[i].present <= exch[i].acc + Cardinality(OfOthers(i)')
  BY <1>1 DEF Credited
<1>4. ~CreditedAgain(i) /\ (f \in Hedged => i = ev.id)
  BY <1>3 DEF CreditedAgain
<1>5. OfOthers(i)' = OfOthers(i) \cup (IF i = ev.id THEN {} ELSE Contracts(fills, f))
  <2>1. {g \in Hedged' : g[1] # i} = {g \in Hedged : g[1] # i} \cup (IF i = ev.id THEN {} ELSE {f})
    BY <1>2, <1>3
  <2>2. OfOthers(i)' = UNION {Contracts(fills, g) : g \in {h \in Hedged' : h[1] # i}}
    BY <1>1 DEF OfOthers
  <2> QED
    BY <2>1, <2>2 DEF OfOthers
<1>6. i # ev.id => OfOthers(i) \cap Contracts(fills, f) = {}
  <2>1. i # ev.id => \A g \in Hedged : Contracts(fills, g) \cap Contracts(fills, f) = {}
    BY <1>2, <1>4, ContractsDisjoint
  <2> QED
    BY <2>1 DEF OfOthers
<1>7. /\ Cardinality(OfOthers(i)) \in Nat
      /\ Cardinality(OfOthers(i)') =
            Cardinality(OfOthers(i)) + (IF i = ev.id THEN 0 ELSE ev.fill)
  <2>1. IsFiniteSet(OfOthers(i)) /\ Cardinality(OfOthers(i)) \in Nat
    BY OthersFinite
  <2>2. CASE i = ev.id
    <3>1. OfOthers(i)' = OfOthers(i)
      BY <1>5, <2>2
    <3>2. Cardinality(OfOthers(i)') = Cardinality(OfOthers(i))
      BY <3>1
    <3> QED
      BY <2>1, <2>2, <3>2
  <2>3. CASE i # ev.id
    <3>1. OfOthers(i)' = OfOthers(i) \cup Contracts(fills, f)
      BY <1>5, <2>3
    <3>2. Cardinality(OfOthers(i) \cap Contracts(fills, f)) = 0
      BY <1>6, <2>3, FS_EmptySet
    <3>3. Cardinality(OfOthers(i) \cup Contracts(fills, f))
             = Cardinality(OfOthers(i)) + Cardinality(Contracts(fills, f))
                 - Cardinality(OfOthers(i) \cap Contracts(fills, f))
      BY <1>2, <2>1, FS_Union
    <3> QED
      BY <1>1, <1>2, <2>1, <2>3, <3>1, <3>2, <3>3
  <2> QED
    BY <2>1, <2>2, <2>3
<1>8. /\ slice'[first].present = IF first = ev.id THEN ev.acc ELSE slice[first].present + ev.fill
      /\ \A j \in Ids : j <= seqId =>
            /\ slice'[j].present = slice[j].present \/ j = ev.id \/ j = first
            /\ j = ev.id => slice'[j].present = ev.acc
      /\ \A j \in Ids : j <= seqId => slice'[j].role = slice[j].role
      /\ slice'[seqId + 1].role = "spot"
      /\ \A j \in Ids : j > seqId + 1 => slice'[j].role = "none"
  BY <1>1, ReturnCredits, ReturnPresent, SwapReturns
<1>9. i <= seqId /\ Swap(i)
  <2>1. i <= seqId \/ i = seqId + 1 \/ i > seqId + 1
    BY <1>1
  <2> QED
    BY <1>8, <2>1 DEF Swap
<1>10. slice[i].present <= exch[i].acc + Cardinality(OfOthers(i))
  BY <1>9, <1>4 DEF Credited
<1> DEFINE n == Cardinality(OfOthers(i))  m == Cardinality(OfOthers(i)')
<1>11. n \in Nat /\ m = n + (IF i = ev.id THEN 0 ELSE ev.fill)
  BY <1>7
<1> HIDE DEF n, m, first
<1>12. CASE i = ev.id
  BY <1>1, <1>2, <1>8, <1>9, <1>11, <1>12 DEF m
<1>13. CASE i # ev.id /\ i = first
  <2>1. slice'[i].present = slice[i].present + ev.fill
    BY <1>8, <1>13
  <2>2. slice[i].present <= exch[i].acc + n /\ m = n + ev.fill
    BY <1>10, <1>11, <1>13 DEF n
  <2>3. slice'[i].present <= exch[i].acc + m
    BY <1>1, <1>11, <2>1, <2>2
  <2> QED
    BY <2>3 DEF m
<1>14. CASE i # ev.id /\ i # first
  <2>1. slice'[i].present = slice[i].present
    BY <1>8, <1>9, <1>14
  <2>2. slice[i].present <= exch[i].acc + n /\ m = n + ev.fill
    BY <1>10, <1>11, <1>14 DEF n
  <2>3. slice'[i].present <= exch[i].acc + m
    BY <1>1, <1>11, <2>1, <2>2
  <2> QED
    BY <2>3 DEF m
<1> QED
  BY <1>12, <1>13, <1>14

LEMMA StepCredited ==
  ASSUME Inductive, HeadIsSwap, Measured, Credited, [Next]_vars
  PROVE  Credited'
<1> USE DEF Inductive
<1>0. /\ IInv' /\ Grows(slice, slice') /\ RolesKept /\ Told
      /\ \A i \in Ids : exch[i].acc \in Nat /\ exch'[i].acc \in Nat
      /\ \A i \in Ids : slice[i].present \in Nat
  BY StepIInv, StepGrows DEF IInv, TypeOK, SliceType, Measured
<1>1. ASSUME NEW ev \in chOrder, onOrderEvent(ev), Swap(ev.id), SwapReturn(ev)
      PROVE  Credited'
  BY <1>0, <1>1, ReturnCredited
<1>2. ASSUME ~ \E ev \in chOrder : onOrderEvent(ev) /\ Swap(ev.id) /\ SwapReturn(ev)
      PROVE  Credited'
  <2>1. \A j \in Ids : \/ slice'[j].present = 0
                       \/ slice'[j].present = slice[j].present /\ slice'[j].role = slice[j].role
    BY <1>2, CreditSteps
  <2>2. Hedged' = Hedged /\ Hedged \subseteq fills
    BY <1>2, AnswersKept DEF IInv, Sorted
  <2>3. /\ \A f \in fills : Contracts(fills', f) = Contracts(fills, f)
        /\ \A i \in Ids : Swap(i) => exch'[i].acc >= exch[i].acc
    <3>1. ASSUME NEW i \in Ids, NEW q \in 1..slice[i].target, ExecuteSwap(i, q)
          PROVE  /\ \A f \in fills : Contracts(fills', f) = Contracts(fills, f)
                 /\ \A j \in Ids : exch'[j].acc >= exch[j].acc
      <4>1. /\ exch[i].acc \in Nat /\ q \in Nat \ {0} /\ fills \in SUBSET (Ids \X Nat)
            /\ exch \in [Ids -> [state : OrderState \cup {"absent"}, acc : Nat]]
            /\ \A g \in fills : g[1] = i => g[2] <= exch[i].acc
        BY FillFacts DEF IInv, TypeOK
      <4>2. fills' = fills \cup {<<i, exch[i].acc + q>>}
        BY <3>1 DEF ExecuteSwap
      <4>3. \A f \in fills : Contracts(fills', f) = Contracts(fills, f)
        BY <4>1, <4>2, NewFill
      <4>4. exch'[i].acc = exch[i].acc + q /\ \A j \in Ids : j # i => exch'[j].acc = exch[j].acc
        BY <3>1, <4>1 DEF ExecuteSwap
      <4> QED
        BY <1>0, <4>1, <4>3, <4>4
    <3>2. ASSUME ~ \E i \in Ids : \E q \in 1..slice[i].target : ExecuteSwap(i, q)
          PROVE  fills' = fills /\ \A i \in Ids : Swap(i) => exch'[i].acc = exch[i].acc
      BY <3>2, ExchangeKept DEF Swap, Spot
    <3> QED
      BY <1>0, <3>1, <3>2
  <2>4. \A i \in Ids : OfOthers(i)' = OfOthers(i)
    BY <2>2, <2>3 DEF OfOthers
  <2> SUFFICES ASSUME NEW i \in Ids, Swap(i)', ~CreditedAgain(i)'
               PROVE  slice'[i].present <= exch'[i].acc + Cardinality(OfOthers(i))
    BY <2>4 DEF Credited
  <2>5. Cardinality(OfOthers(i)) \in Nat
    BY OthersFinite
  <2>6. CASE slice'[i].present = 0
    BY <1>0, <2>5, <2>6
  <2>7. CASE slice'[i].present = slice[i].present /\ slice'[i].role = slice[i].role
    <3>1. Swap(i)
      BY <2>7 DEF Swap
    <3>2. slice[i].present <= exch[i].acc + Cardinality(OfOthers(i)) /\ exch'[i].acc >= exch[i].acc
      BY <2>3, <3>1, AgainGrows DEF Credited
    <3> QED
      BY <1>0, <2>5, <2>7, <3>2
  <2> QED
    BY <2>1, <2>6, <2>7
<1> QED
  BY <1>1, <1>2

LEMMA CreditedInvariance == Spec => [](Inductive /\ HeadIsSwap /\ Measured /\ Credited)
<1>1. Init => Credited
  BY DEF Init, Credited, NewSlice, Swap
<1>2. Inductive /\ HeadIsSwap /\ Measured /\ Credited /\ [Next]_vars => Credited'
  BY StepCredited
<1> QED
  BY <1>1, <1>2, MeasuredInvariance, PTL DEF Spec

\* No swap slice, and in particular not the first one, which is credited with
\* the executions of the later ones too (order.go:733-736), is credited with more
\* than the swap orders together have executed, unless the report of an execution
\* of another order came once more and was answered again (broker.go:366, 405).
THEOREM Backing == Spec => []Backed
<1>1. ASSUME IInv, Credited, NEW i \in Ids, Swap(i), ~CreditedAgain(i)
      PROVE  slice[i].present <= SwapDone
  <2> DEFINE own == {i} \X (1..exch[i].acc)
             n   == Cardinality(OfOthers(i))
  <2>1. exch[i].acc \in Nat /\ slice[i].present \in Nat
    BY <1>1, FillFacts DEF IInv, TypeOK, SliceType
  <2>2. IsFiniteSet(own) /\ Cardinality(own) = exch[i].acc
    <3>1. IsFiniteSet({i}) /\ Cardinality({i}) = 1
      BY FS_Singleton
    <3>2. IsFiniteSet(1..exch[i].acc) /\ Cardinality(1..exch[i].acc) = exch[i].acc
      <4> DEFINE a == exch[i].acc
      <4>1. a \in Nat
        BY <2>1
      <4> HIDE DEF a
      <4>2. IsFiniteSet(1..a) /\ Cardinality(1..a) = a
        BY <4>1, FS_Interval
      <4> QED
        BY <4>2 DEF a
    <3>3. IsFiniteSet(own) /\ Cardinality(own) = 1 * exch[i].acc
      BY <3>1, <3>2, FS_Product
    <3> QED
      BY <2>1, <3>3
  <2>3. IsFiniteSet(OfOthers(i)) /\ n \in Nat /\ OfOthers(i) \subseteq {x \in Executed : x[1] # i}
    BY <1>1, OthersFinite
  <2>4. own \subseteq Executed /\ own \cap OfOthers(i) = {}
    <3>1. own \subseteq Executed
      BY <1>1, <2>1, ExecutedUnits
    <3> QED
      BY <2>3, <3>1
  <2>5. Cardinality(own \cup OfOthers(i)) = exch[i].acc + n
    <3>1. Cardinality(own \cap OfOthers(i)) = 0
      BY <2>4, FS_EmptySet
    <3>2. Cardinality(own \cup OfOthers(i)) = Cardinality(own) + n - Cardinality(own \cap OfOthers(i))
      BY <2>2, <2>3, FS_Union
    <3> HIDE DEF own, n
    <3> QED
      BY <2>1, <2>2, <2>3, <3>1, <3>2
  <2>6. Cardinality(own \cup OfOthers(i)) <= Cardinality(Executed) /\ SwapDone = Cardinality(Executed)
    <3>1. own \cup OfOthers(i) \subseteq Executed
      BY <2>3, <2>4
    <3>2. IsFiniteSet(Executed) /\ SwapDone = Cardinality(Executed)
      BY <1>1, ExecutedUnits
    <3> HIDE DEF own
    <3> QED
      BY <3>1, <3>2, FS_Subset
  <2>7. slice[i].present <= exch[i].acc + n
    BY <1>1 DEF Credited
  <2>8. Cardinality(Executed) \in Nat
    BY <1>1, ExecutedUnits, FS_CardinalityType
  <2> HIDE DEF own, n
  <2> QED
    BY <2>1, <2>3, <2>5, <2>6, <2>7, <2>8
<1>2. Inductive /\ Credited => Backed
  BY <1>1 DEF Inductive, Backed
<1> QED
  BY <1>2, CreditedInvariance, PTL

\* A spot slice is only marked as the last one, upon whose execution the task
\* stops, when the swap orders together have executed what the order at the head
\* of the list asked for (order.go:737-740, 772, 789), or when an execution of
\* another order than that was credited to it again.
THEOREM Finishing == Spec => LastMeansDone
<1> DEFINE Marks == \A i \in Ids : (slice'[i].isLast /\ ~slice[i].isLast)
                                      => \/ SwapDone >= slice[orderSlices[1]].target
                                         \/ CreditedAgain(orderSlices[1])'
<1>1. ASSUME Inductive, Inductive', HeadIsSwap, Backed', [Next]_vars
      PROVE  Marks
  <2>0. IInv /\ IInv' /\ Looping
    BY <1>1 DEF Inductive
  <2>1. ASSUME ~ \E ev \in chOrder : onOrderEvent(ev) /\ Swap(ev.id) /\ SwapReturn(ev)
        PROVE  Marks
    <3>1. \A j \in Ids : slice'[j].isLast => slice[j].isLast
      BY <1>1, <2>0, <2>1, CreditSteps
    <3> QED
      BY <3>1
  <2>2. ASSUME NEW ev \in chOrder, onOrderEvent(ev), Swap(ev.id), SwapReturn(ev)
        PROVE  Marks
    <3> DEFINE first == orderSlices[1]
    <3>1. first \in Ids /\ Swap(first) /\ exch' = exch
      BY <1>1, <2>0, <2>2, ReturnHead
    <3>2. /\ slice'[seqId + 1].isLast = (slice'[first].present = slice'[first].target)
          /\ \A j \in Ids : j # seqId + 1 => slice'[j].isLast = slice[j].isLast
      BY <2>0, <2>2, <3>1, ReturnCredits
    <3>3. /\ slice'[seqId + 1].role = "spot" /\ seqId + 1 \in Ids
          /\ \A j \in Ids : j <= seqId => /\ slice'[j].role = slice[j].role
                                          /\ slice'[j].target = slice[j].target
          /\ \A j \in Ids : j > seqId + 1 => slice'[j].role = "none"
      BY <2>0, <2>2, <3>1, SwapReturns
    <3>4. /\ \A j \in Ids : ~(j <= seqId) => slice[j].role = "none"
          /\ Ids \subseteq Nat /\ seqId \in Nat
      BY <2>0, Numbers
    <3>5. \A j \in Ids : Swap(j)' <=> Swap(j)
      <4>1. \A j \in Ids : j <= seqId \/ j = seqId + 1 \/ j > seqId + 1
        BY <3>4
      <4> QED
        BY <3>3, <3>4, <4>1 DEF Swap
    <3>6. SwapDone' = SwapDone
      <4>1. SwapIds' = SwapIds
        BY <3>5 DEF SwapIds
      <4> QED
        BY <3>1, <4>1 DEF SwapDone
    <3>7. first <= seqId
      BY <3>1, <3>4 DEF Swap
    <3>8. /\ slice'[first].target = slice[first].target
          /\ \/ slice'[first].present <= SwapDone
             \/ \E a \in Again' : slice'[a].from[1] # first
      BY <1>1, <3>1, <3>3, <3>5, <3>6, <3>7 DEF Backed, CreditedAgain
    <3>9. orderSlices'[1] = first
      <4>1. orderSlices \in Seq(Slots) /\ orderSlices # <<>>
        BY <1>1, <2>0, <2>2, ReturnHead DEF IInv, TypeOK
      <4>2. orderSlices' = Append(orderSlices, seqId + 1)
        BY <2>2 DEF SwapReturn, Enqueue
      <4>3. seqId + 1 \in Slots
        BY <3>3 DEF Slots
      <4> QED
        BY <4>1, <4>2, <4>3
    <3>10. (\E a \in Again' : slice'[a].from[1] # first) => CreditedAgain(orderSlices[1])'
      BY <3>9 DEF CreditedAgain
    <3>11. SwapDone \in Nat /\ slice[first].target \in Nat
      BY <2>0, <3>1, ExecutedUnits, FS_CardinalityType, FillFacts
    <3> SUFFICES ASSUME NEW i \in Ids, slice'[i].isLast, ~slice[i].isLast
                 PROVE  \/ SwapDone >= slice[first].target
                        \/ \E a \in Again' : slice'[a].from[1] # first
      BY <3>10
    <3>12. i = seqId + 1
      BY <3>2
    <3>13. slice'[first].present = slice'[first].target
      BY <3>2, <3>12
    <3> QED
      BY <3>8, <3>11, <3>13
  <2> QED
    BY <2>1, <2>2
<1>2. Inductive /\ Inductive' /\ HeadIsSwap /\ Backed' /\ [Next]_vars => [Marks]_vars
  BY <1>1
<1>3. Spec => [][Marks]_vars
  <2> HIDE DEF Marks
  <2> QED
    BY <1>2, Invariance, Heads, Backing, PTL DEF Spec
<1> QED
  BY <1>3 DEF LastMeansDone

-----------------------------------------------------------------------------
(* A task that finishes *)

\* The first slice of a task is a first order.
Begun == /\ seqId > 0 => 1 \in Firsts
         /\ \A i \in Ids : slice[i].isLast => seqId > 0

\* A slice that exists has a number the manager has handed out.
LEMMA SliceUsed ==
  ASSUME IInv, NEW i \in Ids, slice[i].role # "none"
  PROVE  i <= seqId /\ seqId > 0
<1>1. seqId \in Nat /\ i \in Nat /\ i > 0
  BY Numbers, BoundAssumption DEF Ids
<1>2. ~(i > seqId)
  BY DEF IInv, Fresh
<1> QED
  BY <1>1, <1>2

\* A list that is not empty starts with a swap slice.
LEMMA HeadListed ==
  ASSUME IInv, HeadIsSwap, orderSlices # <<>>
  PROVE  orderSlices[1] \in Ids /\ Swap(orderSlices[1])
<1>1. orderSlices \in Seq(Slots)
  BY DEF IInv, TypeOK
<1>2. orderSlices[1] \in Slots
  BY <1>1
<1> QED
  BY <1>2 DEF HeadIsSwap, Slots, NoSlice

LEMMA StepBegun ==
  ASSUME IInv, IInv', Looping, InOrder, HeadIsSwap, Begun, [Next]_vars
  PROVE  Begun'
<1>0. /\ seqId \in Nat /\ seqId' \in Nat /\ Ids \subseteq Nat /\ orderSlices \in Lists
      /\ MaxSlices \in Nat
  <2>1. seqId \in Nat /\ Ids \subseteq Nat /\ orderSlices \in Lists
    BY Numbers, ListTypes DEF IInv
  <2>2. MaxSlices \in Nat
    BY BoundAssumption
  <2>3. seqId' \in 0..MaxSlices
    BY DEF IInv, TypeOK
  <2> QED
    BY <2>1, <2>2, <2>3
<1>1. seqId > 0 => 1 \in Firsts' /\ seqId' > 0
  <2>1. Firsts \subseteq Firsts'
    BY StepGrows, FirstsGrow
  <2>2. 1 \in Firsts' => ~(1 > seqId')
    BY DEF Firsts, IInv, Fresh
  <2> QED
    BY <1>0, <2>1, <2>2 DEF Begun
<1>2. ASSUME seqId = 0
      PROVE  seqId' > 0 => 1 \in Firsts'
  <2>1. \A i \in Ids : ~Swap(i)
    BY <1>0, <1>2, SliceUsed DEF Swap
  <2>2. orderSlices = <<>>
    BY <2>1, HeadListed
  <2>3. ASSUME NEW size \in Sizes, firstOrder(size)
        PROVE  1 \in Firsts'
    BY <1>2, <2>3, FirstOrders DEF Firsts
  <2> QED
    BY <1>2, <2>2, <2>3, ListSteps DEF StartCheck, StartRead, StartWrite, BookAssign, sliceVars, AppendsNil
<1>3. ASSUME NEW i \in Ids, slice'[i].isLast
      PROVE  seqId' > 0
  <2>1. CASE \E ev \in chOrder : onOrderEvent(ev) /\ Swap(ev.id) /\ SwapReturn(ev)
    BY <1>0, <2>1 DEF SwapReturn
  <2>2. CASE ~ \E ev \in chOrder : onOrderEvent(ev) /\ Swap(ev.id) /\ SwapReturn(ev)
    BY <1>1, <1>3, <2>2, CreditSteps DEF Begun
  <2> QED
    BY <2>1, <2>2
<1> QED
  BY <1>0, <1>1, <1>2, <1>3 DEF Begun

\* While nothing goes wrong, the list starts with the first order.
LEMMA FirstHeads ==
  ASSUME IInv, Accounted, Solid, Begun, HeadIsSwap, Untroubled, orderSlices # <<>>
  PROVE  orderSlices[1] = 1 /\ 1 \in Firsts
<1>0. /\ seqId \in Nat /\ Ids \subseteq Nat /\ orderSlices \in Lists
      /\ orderSlices[1] \in Ids /\ Swap(orderSlices[1])
  BY Numbers, ListTypes, HeadListed DEF IInv
<1>1. seqId > 0
  BY <1>0, SliceUsed DEF Swap
<1>2. 1 \in Firsts /\ 1 \in Ids /\ 1 <= seqId
  BY <1>0, <1>1 DEF Begun, Firsts
<1>3. ~Starting
  BY DEF Accounted, Alone, Untroubled
<1>4. PICK k \in DOMAIN orderSlices : orderSlices[k] = 1
  BY <1>2, <1>3 DEF Accounted, AllTracked, Held, Tracked, Elements
<1>5. Ranked(orderSlices)
  BY DEF Solid, Single, Straight, Untroubled
<1>6. k \in 1..Len(orderSlices) /\ k \in Nat
  BY <1>0, <1>4 DEF Lists
<1>7. k # 1 => orderSlices[1] < orderSlices[k]
  BY <1>5, <1>6 DEF Ranked
<1> QED
  BY <1>0, <1>2, <1>4, <1>7 DEF Ids

\* What is executed, in this state and in the next one.
Tally == /\ Executed = {x \in Ids \X Nat : Swap(x[1]) /\ x[2] \in 1..exch[x[1]].acc}
         /\ IsFiniteSet(Executed) /\ SwapDone = Cardinality(Executed)

LEMMA ExecutedCounted == IInv => Tally
BY ExecutedUnits DEF Tally

LEMMA ExecutedCountedLater == IInv' => Tally'
BY ExecutedCounted, PTL

\* What is executed is never taken back.
LEMMA DoneGrows ==
  ASSUME IInv, IInv', Looping, [Next]_vars
  PROVE  SwapDone <= SwapDone'
<1>0. /\ exch \in [Ids -> [state : OrderState \cup {"absent"}, acc : Nat]]
      /\ exch' \in [Ids -> [state : OrderState \cup {"absent"}, acc : Nat]]
  BY DEF IInv, TypeOK
<1>1. \A i \in Ids : Swap(i) => Swap(i)'
  BY StepGrows DEF Grows, Swap
<1>2. ASSUME NEW i \in Ids, Swap(i)
      PROVE  exch[i].acc <= exch'[i].acc
  <2>1. CASE \E j \in Ids : \E q \in 1..slice[j].target : ExecuteSwap(j, q)
    <3>1. PICK j \in Ids : \E q \in 1..slice[j].target : ExecuteSwap(j, q)
      BY <2>1
    <3>2. PICK q \in Nat : ExecuteSwap(j, q)
      BY <3>1 DEF IInv, TypeOK, SliceType
    <3>3. exch'[i].acc = exch[i].acc \/ exch'[i].acc = exch[i].acc + q
      BY <1>0, <3>2 DEF ExecuteSwap
    <3> QED
      BY <1>0, <3>2, <3>3
  <2>2. CASE ~ \E j \in Ids : \E q \in 1..slice[j].target : ExecuteSwap(j, q)
    <3>1. exch'[i].acc = exch[i].acc
      BY <1>2, <2>2, ExchangeKept DEF Swap, Spot
    <3> QED
      BY <1>0, <3>1
  <2> QED
    BY <2>1, <2>2
<1>3. Executed \subseteq Executed'
  BY <1>0, <1>1, <1>2, ExecutedCounted, ExecutedCountedLater DEF Tally
<1>4. /\ IsFiniteSet(Executed')
      /\ SwapDone = Cardinality(Executed) /\ SwapDone' = Cardinality(Executed')
  BY ExecutedCounted, ExecutedCountedLater DEF Tally
<1> QED
  BY <1>3, <1>4, FS_Subset

\* Every step keeps it: a slice that becomes the last one finds the head, which is
\* the first order, executed, and executions and sizes stay.
LEMMA StepComplete ==
  ASSUME IInv, IInv', Looping, Accounted, Solid, HeadIsSwap, Begun, Begun', LastCoversAmount, [Next]_vars,
         \A i \in Ids : (slice'[i].isLast /\ ~slice[i].isLast)
                           => \/ SwapDone >= slice[orderSlices[1]].target
                              \/ CreditedAgain(orderSlices[1])'
  PROVE  LastCoversAmount'
<1> SUFFICES ASSUME Untroubled', NEW i \in Ids, NEW j \in Firsts', slice'[i].isLast
             PROVE  SwapDone' >= slice'[j].target \/ CreditedAgain(j)'
  BY DEF LastCoversAmount
<1>0. Grows(slice, slice') /\ Firsts \subseteq Firsts' /\ (TwoFirsts => TwoFirsts')
  BY StepGrows, FirstsGrow
<1>1. Untroubled
  BY <1>0, NetSteps DEF IInv, Accounted, Untroubled
<1>2. SwapDone \in Nat /\ SwapDone' \in Nat /\ SwapDone <= SwapDone'
  BY DoneGrows, ExecutedCounted, ExecutedCountedLater, FS_CardinalityType DEF Tally
<1>3. ASSUME NEW f \in Firsts
      PROVE  j = f /\ slice'[j].target = slice[f].target /\ slice[f].target \in Nat
  <2>1. j = f
    BY <1>0, <1>3 DEF Untroubled, TwoFirsts
  <2>2. f \in Ids /\ slice[f].role # "none"
    BY <1>3 DEF Firsts
  <2> QED
    BY <1>0, <2>1, <2>2 DEF Grows, IInv, TypeOK, SliceType
<1>4. CASE slice[i].isLast
  <2>1. 1 \in Firsts
    BY <1>4 DEF Begun
  <2>2. SwapDone >= slice[1].target \/ CreditedAgain(1)
    BY <1>1, <1>4, <2>1 DEF LastCoversAmount
  <2>3. CreditedAgain(1) => CreditedAgain(j)'
    BY <1>3, <2>1, AgainGrows DEF Inductive, Firsts
  <2> QED
    BY <1>2, <1>3, <2>1, <2>2, <2>3
<1>5. CASE ~slice[i].isLast
  <2>1. PICK ev \in chOrder : onOrderEvent(ev) /\ Swap(ev.id) /\ SwapReturn(ev)
    BY <1>5, CreditSteps
  <2>2. orderSlices # <<>>
    BY <2>1, ReturnHead
  <2>3. orderSlices[1] = 1 /\ 1 \in Firsts
    BY <1>1, <2>2, FirstHeads
  <2>4. orderSlices'[1] = 1
    <3>1. orderSlices \in Seq(Slots) /\ seqId + 1 \in Slots
      BY <2>1, <2>3, SwapReturns DEF IInv, TypeOK, Slots, Firsts
    <3>2. orderSlices' = Append(orderSlices, seqId + 1)
      BY <2>1 DEF SwapReturn, Enqueue
    <3> QED
      BY <2>2, <2>3, <3>1, <3>2
  <2>5. SwapDone >= slice[1].target \/ CreditedAgain(1)'
    BY <1>5, <2>3, <2>4 DEF CreditedAgain
  <2> QED
    BY <1>2, <1>3, <2>3, <2>5
<1> QED
  BY <1>4, <1>5

\* In a task with one first order and without an outage, a spot slice that is
\* marked as the last one, upon whose execution the task stops as finished
\* (order.go:789-792), means that the swap orders have executed the whole amount,
\* or that the report of an execution of a later order came once more from a client
\* that was kept (broker.go:366, 405) and was credited to the first one again (735).
THEOREM Completion == Spec => []LastCoversAmount
<1> DEFINE Marks == \A i \in Ids : (slice'[i].isLast /\ ~slice[i].isLast)
                                      => \/ SwapDone >= slice[orderSlices[1]].target
                                         \/ CreditedAgain(orderSlices[1])'
<1>1. Init => Begun /\ LastCoversAmount
  BY DEF Init, Begun, LastCoversAmount, NewSlice
<1>2. Inductive /\ InOrder /\ HeadIsSwap /\ Accounted /\ Solid /\ Begun /\ LastCoversAmount
        /\ Inductive' /\ [Next]_vars /\ [Marks]_vars
        => Begun' /\ LastCoversAmount'
  <2> SUFFICES ASSUME Inductive, InOrder, HeadIsSwap, Accounted, Solid, Begun, LastCoversAmount,
                      Inductive', [Next]_vars, [Marks]_vars
               PROVE  Begun' /\ LastCoversAmount'
    OBVIOUS
  <2>1. Begun'
    BY StepBegun DEF Inductive
  <2>2. Marks
    <3>1. UNCHANGED vars => UNCHANGED slice
      BY DEF vars, sliceVars
    <3> QED
      BY <3>1
  <2> QED
    BY <2>1, <2>2, StepComplete DEF Inductive
<1>3. Spec => [][Marks]_vars
  BY Finishing DEF LastMeansDone
<1> HIDE DEF Marks
<1> QED
  BY <1>1, <1>2, <1>3, Invariance, Heads, SolidInvariance, PTL DEF Spec

=============================================================================
