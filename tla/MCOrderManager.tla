--------------------------- MODULE MCOrderManager ---------------------------
(* Instances of OrderManager for TLC. *)
EXTENDS OrderManagerProps, TLC

CONSTANTS r1, r2, p1, p2

\* Two pairs that share the spot leg.
SharedLeg == (p1 :> {"spot", "swap"}) @@ (p2 :> {"spot", "swap2"})
OneName   == p1 :> {"spot"}

\* Commands are interchangeable.
Symmetric == Permutations(Requests)
=============================================================================
