------------------------------ MODULE DeskProps ------------------------------
(* What the program as a whole (cmd/Goofy/main.go, core/controller.go and      *)
(* core/broker.go) promises about its start, its orders and its end.           *)
EXTENDS Desk

Orders == [nr : 1..placed, leg : Legs, task : Commands \cup {NoTask}]

\* Every variable keeps its type; orders have numbers of their own, and recoveries
\* ask only for orders that were placed.
TypeOK ==
    /\ stage \in {"init", "listening", "wired", "started"}
    /\ mx \in {"none", "up", "ended"} /\ session \in {"none", "open", "broken"}
    /\ proc \in {"up", "fatal"} \cup Vias
    /\ retreatAll \in BOOLEAN /\ mgr \in BOOLEAN
    /\ books \in BOOLEAN /\ waiting \in BOOLEAN /\ networkOk \in BOOLEAN
    /\ early \in BOOLEAN
    /\ broker \in {"none", "list", "cancel", "loop"} /\ client \in {"none", "half", "up", "lost"}
    /\ tasks \subseteq created /\ created \subseteq Commands
    /\ live \subseteq Orders /\ placed \in Nat /\ since \in 0..placed
    /\ \A o, p \in live : o.nr = p.nr => o = p
    /\ retreat \in [Commands -> [at : {"idle", "list", "cancel"}, leg : {1, 2},
                                 request : SUBSET (1..placed), old : SUBSET (1..placed)]]
    /\ faults \in Nat /\ restarts \in Nat
    /\ request \subseteq 1..placed /\ refused \subseteq 1..placed

\* A task without a context to derive its own from (ordermgr.go:173, order.go:380)
\* takes an order event that came before the manager's loop has set it (181, 315-318):
\* commands alone, served long before (controller.go:130-140), and books, stored
\* without that loop (broker.go:141), create none.
TasksHaveContext == tasks # {} => HasManager /\ (mgr \/ early)

\* With retreat_all_orders, no task starts while an order of an earlier process is
\* open in an instrument of the broker (broker.go:335-345, 507-529), the ones the
\* exchange refused to cancel apart.
FreshStart ==
    retreatAll /\ tasks # {} =>
        \A o \in live : o.nr <= since /\ o.leg \in Underlyings => o.nr \in refused

\* An order that is cancelled wholesale is of an instrument of the broker; the order
\* of a running task falls only to the recovery of a task that trades the same
\* instrument (broker.go:469-498), and never to that of the start (507-529).
OnlySharersCancel ==
    [][\A o \in live \ live' :
          /\ o.leg \in Underlyings
          /\ o.task \in tasks /\ o.nr > since =>
                \E r \in Commands : o \in OpenOn(r) /\ retreat[r].at = "cancel"]_vars

\* A recovery that meets with no error leaves none of the orders open that were so
\* in its two instruments when it began (broker.go:483-496), but refused ones.  Without
\* a client (475-481) it leaves all of them, and none is of this process.
RecoveryClears ==
    [][\A r \in Commands :
          retreat[r].at # "idle" /\ retreat'[r] = Idle /\ faults' = faults /\ restarts' = restarts =>
              \A n \in Numbers(live') \cap retreat[r].old :
                  n \in refused' \/ (~HasClient /\ n <= since)]_vars
=============================================================================
