--------------------------- MODULE OrderTaskSums ---------------------------
(***************************************************************************)
(* Properties of OrderTask that add up the quantities of the two legs, or  *)
(* count orders.                                                           *)
(***************************************************************************)
EXTENDS OrderTaskProps, FiniteSets, Functions

SwapIds == {i \in Ids : Swap(i)}
SpotIds == {i \in Ids : Spot(i)}

SwapDone  == SumFunctionOnSet([i \in Ids |-> exch[i].acc], SwapIds)
SpotAsked == SumFunctionOnSet([i \in Ids |-> slice[i].target], SpotIds \ Again)

\* An execution of another swap slice than i was answered, and credited, again.
CreditedAgain(i) == \E a \in Again : slice[a].from[1] # i

\* The whole amount is ordered once; a book that overtakes onStart (order.go:279,
\* 598) can order it again, and so can each recovery, when it finds no slice of
\* which anything was heard (267, 279).  Nothing else can.
FewFirsts == Cardinality(Firsts) <= 1 + (IF StartRace THEN 1 ELSE 0) + used.recoveries

\* But for answers to repeated reports, of which there are no more than repeats, the
\* spot orders never ask for more than the swap leg has executed (order.go:745-773);
\* and once every execution is answered they lag behind by less than a lot for each.
LegsMatch ==
    /\ Cardinality(Again) <= used.repeats
    /\ SpotAsked <= CtVal * SwapDone
    /\ fills \subseteq Hedged => CtVal * SwapDone - SpotAsked <= (MinSz - 1) * Cardinality(fills)

\* A spot slice is only marked as the last one (order.go:737) when the swap orders
\* together have executed what the order at the head of the list asked for, or when
\* an execution of a later one was reported, and so credited to the head, again (735).
LastMeansDone ==
    [][\A i \in Ids : (slice'[i].isLast /\ ~slice[i].isLast)
                         => \/ SwapDone >= slice[orderSlices[1]].target
                            \/ CreditedAgain(orderSlices[1])']_vars

\* In a task with one first order and without an outage, a last spot slice, upon
\* whose execution the task stops as finished (order.go:789-792), means that the swap
\* orders, replaced as often as the book moved, have executed the whole amount, or that
\* an execution of a later one was credited to the first one again.
LastCoversAmount ==
    Untroubled => \A i \in Ids, j \in Firsts :
                      slice[i].isLast => SwapDone >= slice[j].target \/ CreditedAgain(j)
=============================================================================
