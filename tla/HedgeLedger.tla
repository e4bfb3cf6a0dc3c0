---------------------------- MODULE HedgeLedger ----------------------------
(***************************************************************************)
(* What an arbitrage task promises about its two legs, without saying how: *)
(* a spot order is only ever issued for a swap execution that really took  *)
(* place, and for each execution once, unless its report is repeated.      *)
(***************************************************************************)
CONSTANTS Fills,        \* the swap executions there can be
          SpotOrders    \* the identities a spot order can have

VARIABLES traded,       \* the swap executions that took place
          repeated,     \* those that are reported more than once
          hedges        \* the pairs <<spot order, swap execution it covers>>

ledgerVars == <<traded, repeated, hedges>>

Hedged == {h[2] : h \in hedges}

Init ==
    /\ traded = {}
    /\ repeated = {}
    /\ hedges = {}

\* The exchange executes (part of) a swap order.
Trade(f) ==
    /\ traded' = traded \cup {f}
    /\ UNCHANGED <<repeated, hedges>>

\* Its report will come once more.
Repeat(f) ==
    /\ f \in traded
    /\ repeated' = repeated \cup {f}
    /\ UNCHANGED <<traded, hedges>>

\* A new spot order is issued against an execution nothing covers yet, or one
\* that is reported again; this may not have been the last report of it.
Hedge(o, f) ==
    /\ f \in traded
    /\ f \in Hedged => f \in repeated
    /\ \A h \in hedges : h[1] # o
    /\ hedges' = hedges \cup {<<o, f>>}
    /\ repeated' \in {repeated, repeated \cup {f}}
    /\ UNCHANGED traded

Next ==
    \/ \E f \in Fills : Trade(f) \/ Repeat(f)
    \/ \E o \in SpotOrders, f \in Fills : Hedge(o, f)

Spec == Init /\ [][Next]_ledgerVars
=============================================================================
