-------------------------- MODULE OrderTaskClaims --------------------------
(***************************************************************************)
(* What comments of core/order.go and core/broker.go say of the task, word *)
(* for word where possible.  TLC refutes each of them.                     *)
(***************************************************************************)
EXTENDS OrderTask

\* "All slices ignored means all orders traded" (order.go:307).
AllIgnoredMeansTraded ==
    [][BookFinish => \A i \in Tracked : exch[i].state = "filled"]_vars

\* "Remove the orders that do not exist at the exchange (they were not sent)"
\* (order.go:266).
RemovedWereNotSent ==
    [][BookAssign => \A i \in Tracked \ Elements(book.keep) : exch[i].state = "absent"]_vars
=============================================================================
