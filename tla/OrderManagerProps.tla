-------------------------- MODULE OrderManagerProps --------------------------
(* What the order manager (core/ordermgr.go) must guarantee. *)
EXTENDS OrderManager

\* Every variable keeps its type (ordermgr.go:26-42), and a task is only ever
\* created with both order books there to price its orders (145).
TypeOK ==
    /\ networkOk \in BOOLEAN /\ books \subseteq Names
    /\ ws \in [client : {"up", "down", "lost", "hung"}, rest : BOOLEAN]
    /\ request \in [Requests -> [pc : {"idle", "register", "done"}, pair : Pairs]]
    /\ run \in [Requests -> Life]
    /\ \A r \in Requests : run[r] # "none" => request[r].pc = "done"
    /\ \A r \in Requests :
          request[r].pc = "register" \/ run[r] # "none" => Legs[PairOf(r)] \subseteq books
    /\ tasks \in [Pairs -> Requests \cup {NoTask}]
    /\ raised \subseteq Events /\ waiting \subseteq Events /\ dropped \subseteq Events
    /\ loop \in Events \cup {NoEvent}
    /\ offered \subseteq Events \X Requests
    /\ stopper \in [Stoppers -> [pc : {"idle", "delete", "stop"}, task : Requests \cup {NoTask}]]
    /\ named \subseteq Pairs
    /\ proc \in {"up", "panic"}

\* A pair is traded by one task at a time, from CreateOrder (ordermgr.go:167) until
\* the manager has taken the report of its end (237), and all that time the
\* task is the one the registry names, so that events reach it.  Only
\* StopTaskByName (213) may break this.
AtWork == {"created", "running", "cancelled", "ended"}
OneTaskPerPair ==
    \A r \in Requests : run[r] \in AtWork => tasks[PairOf(r)] = r \/ PairOf(r) \in named

\* An order event the manager passes to everyone but the task it is about
\* (ordermgr.go:326-343) comes too late: that task is over, or was stopped by name.
DroppedCameLate ==
    \A e \in dropped : run[e.owner] = "gone" \/ PairOf(e.owner) \in named

\* Only StopTaskByName (ordermgr.go:217) can call the fxCancel of a task that has
\* not got that far (order.go:385, 822): a refusal (ordermgr.go:71-82), of which
\* every registered task is told, a task just created included, never does.
NilCancelNeedsStopper == proc = "panic" => named # {}

\* No matter how many events of lost connections are still on their way
\* (ordermgr.go:296, 317), a manager that stays disconnected ends up refusing
\* commands (69, 135): once nothing is left that delivers events, neither of the
\* client that was lost nor of one that was given up half subscribed
\* (broker.go:366-386), and as long as the loop of the broker, which has to tell it
\* again, does not hang in a reconnection.
OutageRefuses ==
    <>[](ws.client \in {"down", "lost"} /\ ~ws.rest) => <>[](~networkOk \/ ~Alive)

\* A task that has left its loop gets its report through (order.go:430) and
\* is then forgotten, whatever else the manager's loop (ordermgr.go:182-200) is fed.
EndIsReported == \A r \in Requests : run[r] = "ended" ~> run[r] = "gone" \/ ~Alive
=============================================================================
