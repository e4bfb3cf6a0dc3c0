------------------------- MODULE OrderManagerProofs -------------------------
(***************************************************************************)
(* The registry of the order manager, for any number of commands, pairs,   *)
(* callers of StopTaskByName and events on their way.                      *)
(*                                                                         *)
(* OneTaskPerPair alone is not inductive: that removing the entry of a     *)
(* pair removes no other task needs every entry to be filed under the pair *)
(* of its task (Filed), and that an event nobody takes came late needs     *)
(* every order event to be about a task that has run (Owned).  So must     *)
(* every refusal be, for the fxCancel it leads to not to be nil.           *)
(***************************************************************************)
EXTENDS OrderManagerProps, TLAPS

Filed ==
    \A p \in Pairs : tasks[p] # NoTask => PairOf(tasks[p]) = p /\ run[tasks[p]] \in AtWork

OwnedEvent(e) ==
    /\ e.kind \in {"order", "error"} =>
          e.owner \in Requests /\ run[e.owner] \notin {"none", "created"}
    /\ e.kind = "order" => NameIn(e.name, e.owner)

Owned ==
    /\ \A e \in raised \cup waiting \cup dropped : OwnedEvent(e)
    /\ \A x \in offered : OwnedEvent(x[1])
    /\ loop = NoEvent \/ loop.kind = "book"
    /\ \A e \in dropped : e.kind = "order"

Found ==
    \A s \in Stoppers :
       /\ stopper[s].pc # "idle" => stopper[s].task \in Requests
       /\ stopper[s].pc = "stop" => PairOf(stopper[s].task) \in named

IInv == /\ TypeOK /\ Filed /\ Owned /\ Found
        /\ OneTaskPerPair /\ DroppedCameLate /\ NilCancelNeedsStopper

USE NoTaskAssumption, LegsAssumption

-----------------------------------------------------------------------------
(* Events *)

\* What the constructors of events yield.
LEMMA EventTypes ==
    /\ \A n \in Names : Book(n) \in Events /\ Book(n).kind = "book"
    /\ \A r \in Requests :
          SendError(r) \in Events /\ SendError(r).kind = "error" /\ SendError(r).owner = r
    /\ \A n \in Names, r \in Requests :
          /\ Order(n, r) \in Events /\ Order(n, r).kind = "order"
          /\ Order(n, r).name = n /\ Order(n, r).owner = r
<1>1. \A n \in Names : Book(n) \in Events /\ Book(n).kind = "book"
  BY DEF Events, Book
<1>2. \A r \in Requests :
         SendError(r) \in Events /\ SendError(r).kind = "error" /\ SendError(r).owner = r
  BY DEF Events, SendError
<1>3. \A n \in Names, r \in Requests : Order(n, r) \in Events
  BY DEF Events
<1>4. \A n \in Names, r \in Requests :
         Order(n, r).kind = "order" /\ Order(n, r).name = n /\ Order(n, r).owner = r
  BY DEF Order
<1> QED
  BY <1>1, <1>2, <1>3, <1>4

\* Books name an underlying.
LEMMA BookNames ==
    ASSUME NEW e \in Events, e.kind = "book"
    PROVE  e.name \in Names
BY DEF Events, Book, SendError, Order

\* The initial states satisfy the invariant.
LEMMA InitIInv == Init => IInv
<1> SUFFICES ASSUME Init PROVE IInv
  OBVIOUS
<1>1. /\ request \in [Requests -> [pc : {"idle", "register", "done"}, pair : Pairs]]
      /\ \A r \in Requests : request[r].pc = "idle"
      /\ run \in [Requests -> Life] /\ \A r \in Requests : run[r] = "none"
      /\ tasks \in [Pairs -> Requests \cup {NoTask}] /\ \A p \in Pairs : tasks[p] = NoTask
  BY DEF Init, Life
<1>2. TypeOK
  BY <1>1 DEF Init, TypeOK
<1>3. Filed /\ OneTaskPerPair
  BY <1>1 DEF Filed, OneTaskPerPair, AtWork
<1>4. Owned /\ Found /\ DroppedCameLate /\ NilCancelNeedsStopper
  BY DEF Init, Owned, Found, DroppedCameLate, NilCancelNeedsStopper
<1> QED
  BY <1>2, <1>3, <1>4 DEF IInv

-----------------------------------------------------------------------------
(* Steps, by the part of the state they touch *)

\* A step that leaves commands, tasks and the registry alone.
LEMMA RegistryKept ==
    ASSUME IInv, UNCHANGED <<taskVars, stopVars>>
    PROVE  /\ Filed' /\ Found' /\ OneTaskPerPair'
           /\ dropped' = dropped => DroppedCameLate'
           /\ proc' = proc => NilCancelNeedsStopper'
           /\ \A e : OwnedEvent(e) <=> OwnedEvent(e)'
<1> USE DEF taskVars, stopVars
<1>1. Filed' /\ Found' /\ OneTaskPerPair'
  BY DEF IInv, Filed, Found, OneTaskPerPair, PairOf, AtWork
<1>2. dropped' = dropped => DroppedCameLate'
  BY DEF IInv, DroppedCameLate, PairOf
<1>3. \A e : OwnedEvent(e) <=> OwnedEvent(e)'
  BY DEF OwnedEvent, NameIn, PairOf
<1>4. proc' = proc => NilCancelNeedsStopper'
  BY DEF IInv, NilCancelNeedsStopper
<1> QED
  BY <1>1, <1>2, <1>3, <1>4

\* Steps that only touch the network flag, the websocket or the order books.
LEMMA NetSteps ==
    ASSUME IInv, networkOk' \in BOOLEAN,
           ws' \in [client : {"up", "down", "lost", "hung"}, rest : BOOLEAN],
           books' \subseteq Names, books \subseteq books',
           UNCHANGED <<taskVars, eventVars, stopVars, proc>>
    PROVE  IInv'
<1>1. TypeOK'
  BY DEF IInv, TypeOK, PairOf, taskVars, eventVars, stopVars
<1>2. Owned'
  BY RegistryKept DEF IInv, Owned, eventVars
<1> QED
  BY <1>1, <1>2, RegistryKept DEF IInv, eventVars

\* Steps that move events on, without dropping any.
LEMMA EventSteps ==
    ASSUME IInv, networkOk' \in BOOLEAN, books' \subseteq Names, books \subseteq books',
           raised' \subseteq Events, waiting' \subseteq Events,
           loop' \in Events \cup {NoEvent}, offered' \subseteq Events \X Requests,
           \A e \in (raised' \cup waiting') \ (raised \cup waiting) : OwnedEvent(e),
           \A x \in offered' \ offered : OwnedEvent(x[1]),
           loop' = NoEvent \/ loop'.kind = "book",
           UNCHANGED <<ws, taskVars, dropped, stopVars, proc>>
    PROVE  IInv'
<1>1. TypeOK'
  BY DEF IInv, TypeOK, PairOf, taskVars, stopVars
<1>2. Owned'
  <2>1. \A e \in raised' \cup waiting' \cup dropped' : OwnedEvent(e)
    BY DEF IInv, Owned
  <2>2. /\ \A e \in dropped' : e.kind = "order"
        /\ \A x \in offered' : OwnedEvent(x[1])
    BY DEF IInv, Owned
  <2> QED
    BY <2>1, <2>2, RegistryKept DEF Owned
<1> QED
  BY <1>1, <1>2, RegistryKept DEF IInv

\* The life of a task goes on.
LEMMA RunSteps ==
    ASSUME IInv, NEW r \in Requests, NEW to \in Life,
           run' = [run EXCEPT ![r] = to],
           run[r] \in AtWork, to \in AtWork, run[r] = "created" \/ to # "created",
           offered' \subseteq offered, stopper' \in [Stoppers ->
               [pc : {"idle", "delete", "stop"}, task : Requests \cup {NoTask}]],
           Found',
           UNCHANGED <<netVars, request, tasks, raised, waiting, loop, dropped, named, proc>>
    PROVE  IInv'
<1> USE DEF netVars
<1>1. \A q \in Requests : PairOf(q)' = PairOf(q)
  BY DEF PairOf
<1>2. run \in [Requests -> Life]
  BY DEF IInv, TypeOK
<1>3. \A q \in Requests : /\ run'[q] = IF q = r THEN to ELSE run[q]
                          /\ run'[q] \in AtWork <=> run[q] \in AtWork
                          /\ run[q] \notin {"none", "created"} => run'[q] \notin {"none", "created"}
                          /\ run[q] = "gone" => run'[q] = "gone"
  BY <1>2 DEF AtWork
<1>4. TypeOK'
  <2>1. \A q \in Requests :
           /\ run'[q] # "none" => request'[q].pc = "done"
           /\ request'[q].pc = "register" \/ run'[q] # "none" => Legs[PairOf(q)'] \subseteq books'
    BY <1>1, <1>3 DEF IInv, TypeOK, AtWork
  <2> QED
    BY <1>1, <1>2, <2>1 DEF IInv, TypeOK, PairOf
<1>5. Filed'
  <2>1. \A p \in Pairs : tasks[p] \in Requests \cup {NoTask}
    BY DEF IInv, TypeOK
  <2> QED
    BY <1>1, <1>3, <2>1 DEF IInv, Filed
<1>6. OneTaskPerPair'
  BY <1>1, <1>3 DEF IInv, OneTaskPerPair
<1>7. Owned'
  BY <1>1, <1>3 DEF IInv, Owned, OwnedEvent, NameIn
<1>8. DroppedCameLate' /\ NilCancelNeedsStopper'
  <2>1. \A e \in dropped : e.owner \in Requests
    BY DEF IInv, Owned, OwnedEvent
  <2> QED
    BY <1>1, <1>3, <2>1 DEF IInv, DroppedCameLate, NilCancelNeedsStopper
<1> QED
  BY <1>4, <1>5, <1>6, <1>7, <1>8 DEF IInv

-----------------------------------------------------------------------------
(* Every step keeps the invariant *)

\* The broker: connection, order books and events.
LEMMA BrokerSteps == IInv /\ Broker => IInv'
<1> SUFFICES ASSUME IInv, Broker PROVE IInv'
  OBVIOUS
<1> USE DEF IInv, TypeOK
<1>1. ASSUME NEW e \in Events, OwnedEvent(e), Push(e)
      PROVE  IInv'
  BY <1>1, EventSteps DEF Push, Owned, netVars
<1>2. CASE Exchange
  <2>1. CASE \E n \in Names : Push(Book(n))
    BY <1>1, <2>1, EventTypes DEF OwnedEvent
  <2>2. ASSUME NEW r \in Requests, run[r] \notin {"none", "created"},
               NEW n \in Legs[PairOf(r)], Push(Order(n, r))
        PROVE  IInv'
    <3>1. n \in Names
      BY DEF PairOf
    <3>2. OwnedEvent(Order(n, r))
      BY <2>2, <3>1, EventTypes DEF OwnedEvent, NameIn
    <3> QED
      BY <1>1, <2>2, <3>1, <3>2, EventTypes
  <2>3. ASSUME NEW r \in Requests, run[r] \notin {"none", "created"}, Push(SendError(r))
        PROVE  IInv'
    BY <1>1, <2>3, EventTypes DEF OwnedEvent
  <2> QED
    BY <1>2, <2>1, <2>2, <2>3 DEF Exchange
<1>3. CASE Disconnect \/ OnDisconnected \/ Reconnect
  <2>1. ws' \in [client : {"up", "down", "lost", "hung"}, rest : BOOLEAN]
    <3>1. ws \in [client : {"up", "down", "lost", "hung"}, rest : BOOLEAN]
      OBVIOUS
    <3>2. CASE Disconnect
      <4>1. CASE \E r \in {TRUE, ws.rest} : ws' = [client |-> "down", rest |-> r]
        <5>1. PICK r \in {TRUE, ws.rest} : ws' = [client |-> "down", rest |-> r]
          BY <4>1
        <5>2. r \in BOOLEAN
          BY <3>1
        <5> QED
          BY <5>1, <5>2
      <4>2. CASE ws' = [ws EXCEPT !.rest = FALSE]
        BY <3>1, <4>2
      <4> QED
        BY <3>2, <4>1, <4>2 DEF Disconnect
    <3>3. CASE OnDisconnected
      BY <3>1, <3>3 DEF OnDisconnected
    <3>4. CASE Reconnect
      <4>1. \/ ws' = [ws EXCEPT !.client = "up"]
            \/ ws' = [ws EXCEPT !.rest = TRUE]
            \/ ws' = [client |-> "hung", rest |-> FALSE]
        BY <3>4 DEF Reconnect
      <4>2. CASE ws' = [ws EXCEPT !.client = "up"]
        BY <3>1, <4>2
      <4>3. CASE ws' = [ws EXCEPT !.rest = TRUE]
        BY <3>1, <4>3
      <4>4. CASE ws' = [client |-> "hung", rest |-> FALSE]
        BY <4>4
      <4> QED
        BY <4>1, <4>2, <4>3, <4>4
    <3> QED
      BY <1>3, <3>2, <3>3, <3>4
  <2>2. /\ networkOk' \in BOOLEAN /\ books' = books
        /\ UNCHANGED <<taskVars, eventVars, stopVars, proc>>
    BY <1>3 DEF Disconnect, OnDisconnected, Reconnect
  <2> QED
    BY <2>1, <2>2, NetSteps
<1>4. ASSUME NEW e \in raised, SetOrderBook(e)
      PROVE  IInv'
  BY <1>4, NetSteps, BookNames DEF SetOrderBook
<1>5. ASSUME NEW e \in raised, OnOrderBook(e)
      PROVE  IInv'
  BY <1>5, EventSteps, BookNames DEF OnOrderBook, Owned
<1>6. ASSUME NEW e \in raised, OnOrderReturn(e)
      PROVE  IInv'
  BY <1>6, EventSteps DEF OnOrderReturn, Owned
<1>7. ASSUME NEW e \in raised, OnBrokerError(e)
      PROVE  IInv'
  <2>1. {<<e, r>> : r \in Registered} \subseteq Events \X Requests
    BY DEF Registered
  <2> QED
    BY <1>7, <2>1, EventSteps DEF OnBrokerError, Owned, netVars
<1> QED
  BY <1>2, <1>3, <1>4, <1>5, <1>6, <1>7 DEF Broker

\* The second half of CreateOrder files a task that has not existed before.
LEMMA CreateStep == ASSUME IInv, NEW r \in Requests, CreateOrder(r) PROVE IInv'
<1> USE DEF CreateOrder, netVars, eventVars, stopVars
<1>1. \A q \in Requests : PairOf(q)' = PairOf(q)
  BY DEF IInv, TypeOK, PairOf
<1>2. run[r] = "none" /\ PairOf(r) \in Pairs /\ run \in [Requests -> Life]
  BY DEF IInv, TypeOK, PairOf
<1>3. CASE ~Vacant(PairOf(r))
  <2>1. TypeOK'
    BY <1>1, <1>3 DEF IInv, TypeOK, PairOf
  <2>2. Filed' /\ OneTaskPerPair' /\ Found'
    <3>1. \A p \in Pairs : tasks[p] \in Requests \cup {NoTask}
      BY DEF IInv, TypeOK
    <3> QED
      BY <1>1, <1>3, <3>1 DEF IInv, Filed, OneTaskPerPair, Found
  <2>3. Owned'
    BY <1>1, <1>3 DEF IInv, Owned, OwnedEvent, NameIn
  <2>4. DroppedCameLate' /\ NilCancelNeedsStopper'
    <3>1. \A e \in dropped : e.owner \in Requests
      BY DEF IInv, Owned, OwnedEvent
    <3> QED
      BY <1>1, <1>3, <3>1 DEF IInv, DroppedCameLate, NilCancelNeedsStopper
  <2> QED
    BY <2>1, <2>2, <2>3, <2>4 DEF IInv
<1>4. CASE Vacant(PairOf(r))
  <2> DEFINE p == PairOf(r)
  <2>1. tasks' = [tasks EXCEPT ![p] = r] /\ run' = [run EXCEPT ![r] = "created"]
    BY <1>4
  <2>2. tasks[p] = NoTask
    BY <1>4 DEF Vacant
  <2>3. \A q \in Requests : run'[q] = IF q = r THEN "created" ELSE run[q]
    BY <1>2, <2>1
  <2>4. /\ tasks \in [Pairs -> Requests \cup {NoTask}]
        /\ \A x \in Pairs : tasks'[x] = IF x = p THEN r ELSE tasks[x]
    BY <2>1 DEF IInv, TypeOK
  <2>5. TypeOK'
    <3>1. Legs[p] \subseteq books
      BY DEF IInv, TypeOK
    <3>2. \A q \in Requests :
             /\ run'[q] # "none" => request'[q].pc = "done"
             /\ request'[q].pc = "register" \/ run'[q] # "none" =>
                   Legs[PairOf(q)'] \subseteq books'
      BY <1>1, <2>3, <3>1 DEF IInv, TypeOK
    <3> QED
      BY <1>1, <1>2, <2>1, <2>4, <3>2 DEF IInv, TypeOK, PairOf, Life
  <2>6. \A q \in Requests : /\ run'[q] \in AtWork <=> q = r \/ run[q] \in AtWork
                            /\ q # r => run'[q] = run[q]
    BY <2>3 DEF AtWork
  <2>7. Filed'
    <3>1. r # NoTask /\ PairOf(r)' = p
      BY <1>1
    <3> QED
      BY <1>1, <2>4, <2>6, <3>1 DEF IInv, Filed
  <2>8. OneTaskPerPair'
    <3> SUFFICES ASSUME NEW q \in Requests, run'[q] \in AtWork, PairOf(q) \notin named
                 PROVE  tasks'[PairOf(q)] = q
      BY <1>1 DEF OneTaskPerPair
    <3>1. CASE q = r
      BY <1>2, <2>4, <3>1
    <3>2. CASE q # r
      <4>1. tasks[PairOf(q)] = q
        BY <2>6, <3>2 DEF IInv, OneTaskPerPair
      <4>2. PairOf(q) \in Pairs
        BY DEF IInv, TypeOK, PairOf
      <4> QED
        BY <2>2, <2>4, <4>1, <4>2
    <3> QED
      BY <3>1, <3>2
  <2>9. Owned' /\ Found'
    BY <1>1, <1>2, <2>6 DEF IInv, Owned, OwnedEvent, NameIn, Found
  <2>10. DroppedCameLate' /\ NilCancelNeedsStopper'
    <3>1. \A e \in dropped : e.owner \in Requests
      BY DEF IInv, Owned, OwnedEvent
    <3> QED
      BY <1>1, <1>2, <2>6, <3>1 DEF IInv, DroppedCameLate, NilCancelNeedsStopper
  <2> QED
    BY <2>5, <2>7, <2>8, <2>9, <2>10 DEF IInv
<1> QED
  BY <1>3, <1>4

\* The first half of CreateOrder.
LEMMA CommandStep == ASSUME IInv, NEW r \in Requests, CheckCommand(r) PROVE IInv'
<1> USE DEF CheckCommand, netVars, eventVars, stopVars
<1>1. \A q \in Requests : PairOf(q)' = PairOf(q)
  BY DEF IInv, TypeOK, PairOf
<1>2. run[r] = "none"
  BY DEF IInv, TypeOK
<1>3. TypeOK'
  <2>1. request' \in [Requests -> [pc : {"idle", "register", "done"}, pair : Pairs]]
    BY DEF IInv, TypeOK
  <2>2. \A q \in Requests :
           /\ run'[q] # "none" => request'[q].pc = "done"
           /\ request'[q].pc = "register" \/ run'[q] # "none" => Legs[PairOf(q)'] \subseteq books'
    BY <1>1, <1>2 DEF IInv, TypeOK, Known
  <2> QED
    BY <2>1, <2>2 DEF IInv, TypeOK, PairOf
<1>4. Filed' /\ OneTaskPerPair' /\ Found'
  <2>1. \A p \in Pairs : tasks[p] \in Requests \cup {NoTask}
    BY DEF IInv, TypeOK
  <2> QED
    BY <1>1, <2>1 DEF IInv, Filed, OneTaskPerPair, Found
<1>5. Owned'
  BY <1>1 DEF IInv, Owned, OwnedEvent, NameIn
<1>6. DroppedCameLate' /\ NilCancelNeedsStopper'
  <2>1. \A e \in dropped : e.owner \in Requests
    BY DEF IInv, Owned, OwnedEvent
  <2> QED
    BY <1>1, <2>1 DEF IInv, DroppedCameLate, NilCancelNeedsStopper
<1> QED
  BY <1>3, <1>4, <1>5, <1>6 DEF IInv

\* The tasks.
LEMMA TaskSteps == IInv /\ Tasks => IInv'
<1> SUFFICES ASSUME IInv, NEW r \in Requests,
                    \/ TaskRun(r) \/ TaskStop(r) \/ TaskExit(r) \/ TaskError(r)
                    \/ \E e \in Events : TaskTakes(r, e)
             PROVE  IInv'
  BY DEF Tasks
<1>1. stopper \in [Stoppers -> [pc : {"idle", "delete", "stop"}, task : Requests \cup {NoTask}]]
  BY DEF IInv, TypeOK
<1>2. CASE TaskRun(r) \/ TaskStop(r) \/ TaskExit(r)
  <2>1. Found' /\ offered' \subseteq offered
    BY <1>2 DEF IInv, Found, PairOf, TaskRun, TaskStop, TaskExit, Becomes, stopVars, eventVars
  <2> QED
    BY <1>1, <1>2, <2>1, RunSteps
       DEF TaskRun, TaskStop, TaskExit, Becomes, AtWork, Life, stopVars, eventVars
<1>3. ASSUME NEW e \in Events, TaskTakes(r, e)
      PROVE  IInv'
  BY <1>3, EventSteps DEF TaskTakes, IInv, TypeOK, Owned, netVars
<1>4. CASE TaskError(r)
  <2>1. PICK o \in Requests : /\ <<SendError(o), r>> \in offered
                              /\ IF IsOwn(o, r) THEN Cancel(r) ELSE UNCHANGED <<run, proc>>
    BY <1>4 DEF TaskError
  <2>2. run[o] \notin {"none", "created"}
    BY <2>1, EventTypes DEF IInv, Owned, OwnedEvent
  <2>3. Found' /\ offered' \subseteq offered
    BY <1>4 DEF IInv, Found, PairOf, TaskError, stopVars
  <2>4. proc' = proc
    BY <2>1, <2>2 DEF IsOwn, Cancel
  <2>5. CASE run' = run
    BY <1>4, <2>3, <2>4, <2>5, EventSteps DEF TaskError, IInv, TypeOK, Owned, netVars, taskVars
  <2>6. CASE run[r] = "running" /\ run' = [run EXCEPT ![r] = "cancelled"]
    BY <1>1, <1>4, <2>3, <2>4, <2>6, RunSteps DEF TaskError, AtWork, Life, stopVars
  <2> QED
    BY <2>1, <2>5, <2>6 DEF Cancel
<1> QED
  BY <1>2, <1>3, <1>4

\* Taking the entry of a pair away harms no other task: the entry was that of
\* r, or the pair had been stopped by name.
LEMMA ForgetKeeps ==
    ASSUME IInv, NEW r \in Requests, Forget(PairOf(r)),
           UNCHANGED request,
           run[r] \in AtWork => run'[r] = "gone" \/ PairOf(r) \in named',
           run[r] = "ended" \/ PairOf(r) \in named',
           \A q \in Requests : q # r => run'[q] = run[q],
           run'[r] = run[r] \/ run'[r] = "gone",
           named \subseteq named'
    PROVE  Filed' /\ OneTaskPerPair'
<1>1. \A q \in Requests : PairOf(q)' = PairOf(q) /\ PairOf(q) \in Pairs
  BY DEF IInv, TypeOK, PairOf
<1>2. /\ \A p \in Pairs : tasks[p] \in Requests \cup {NoTask}
      /\ \A p \in Pairs : tasks'[p] = IF p = PairOf(r) THEN NoTask ELSE tasks[p]
  BY <1>1 DEF IInv, TypeOK, Forget
<1>3. Filed'
  <2> SUFFICES ASSUME NEW p \in Pairs, tasks'[p] # NoTask
               PROVE  request'[tasks'[p]].pair = p /\ run'[tasks'[p]] \in AtWork
    BY DEF Filed, PairOf
  <2>1. p # PairOf(r) /\ tasks'[p] = tasks[p] /\ tasks[p] \in Requests
    BY <1>2
  <2>2. request[tasks[p]].pair = p /\ run[tasks[p]] \in AtWork
    BY <2>1 DEF IInv, Filed, PairOf
  <2>3. tasks[p] # r
    BY <2>1, <2>2 DEF PairOf
  <2> QED
    BY <2>1, <2>2, <2>3
<1>4. OneTaskPerPair'
  <2> SUFFICES ASSUME NEW q \in Requests, run'[q] \in AtWork, PairOf(q) \notin named'
               PROVE  tasks'[PairOf(q)] = q
    BY <1>1 DEF OneTaskPerPair
  <2>1. q # r
    BY DEF AtWork
  <2>2. run[q] \in AtWork /\ tasks[PairOf(q)] = q
    BY <2>1 DEF IInv, OneTaskPerPair
  <2>3. PairOf(q) # PairOf(r)
    <3> SUFFICES ASSUME PairOf(q) = PairOf(r) PROVE FALSE
      OBVIOUS
    <3>1. run[r] = "ended" /\ PairOf(r) \notin named
      OBVIOUS
    <3>2. tasks[PairOf(r)] = r
      BY <3>1 DEF IInv, OneTaskPerPair, AtWork
    <3> QED
      BY <2>1, <2>2, <3>2
  <2> QED
    BY <1>1, <1>2, <2>2, <2>3
<1> QED
  BY <1>3, <1>4

\* The loop of the manager.
LEMMA LoopSteps == IInv /\ Run => IInv'
<1> SUFFICES ASSUME IInv, Run PROVE IInv'
  OBVIOUS
<1>1. \A e : {<<e, r>> : r \in {q \in Registered : NameIn(e.name, q)}} \subseteq {e} \X Requests
  BY DEF Registered
<1>2. ASSUME NEW e \in waiting, TakeBook(e)
      PROVE  IInv'
  BY <1>2, EventSteps DEF TakeBook, IInv, TypeOK, Owned
<1>3. CASE onOrderBook
  <2>1. offered' \subseteq Events \X Requests
    BY <1>1, <1>3 DEF onOrderBook, FanOut, IInv, TypeOK
  <2>2. \A x \in offered' \ offered : OwnedEvent(x[1])
    BY <1>3 DEF onOrderBook, FanOut, IInv, Owned, OwnedEvent
  <2> QED
    BY <1>3, <2>1, <2>2, EventSteps DEF onOrderBook, IInv, TypeOK, Owned, netVars
<1>4. ASSUME NEW e \in waiting, onOrderReturn(e)
      PROVE  IInv'
  <2> USE <1>4 DEF onOrderReturn
  <2>1. e \in Events /\ e.kind = "order" /\ OwnedEvent(e) /\ e.owner \in Requests
    BY DEF IInv, TypeOK, Owned, OwnedEvent
  <2>2. offered' \subseteq Events \X Requests
    BY <1>1, <2>1 DEF FanOut, IInv, TypeOK
  <2>3. dropped' \subseteq dropped \cup {e}
    OBVIOUS
  <2>4. TypeOK'
    BY <2>1, <2>2, <2>3 DEF IInv, TypeOK, PairOf, netVars, taskVars, stopVars
  <2>5. Owned'
    <3>1. \A x \in raised' \cup waiting' \cup dropped' : OwnedEvent(x)
      BY <2>1, <2>3 DEF IInv, Owned
    <3>2. \A x \in dropped' : x.kind = "order"
      BY <2>1, <2>3 DEF IInv, Owned
    <3>3. \A x \in offered' : OwnedEvent(x[1])
      BY <2>1 DEF IInv, Owned, FanOut
    <3> QED
      BY <3>1, <3>2, <3>3, RegistryKept DEF IInv, Owned
  <2>6. DroppedCameLate'
    <3>1. CASE <<e, e.owner>> \in offered'
      BY <3>1, RegistryKept
    <3>2. CASE <<e, e.owner>> \notin offered'
      <4>1. e.owner \notin Registered
        BY <2>1, <3>2 DEF FanOut, OwnedEvent
      <4>2. run[e.owner] \notin AtWork \/ PairOf(e.owner) \in named
        BY <2>1, <4>1 DEF IInv, TypeOK, OneTaskPerPair, Registered, PairOf
      <4>3. run[e.owner] = "gone" \/ PairOf(e.owner) \in named
        BY <2>1, <4>2 DEF IInv, TypeOK, OwnedEvent, AtWork, Life
      <4> QED
        BY <2>3, <4>3 DEF IInv, DroppedCameLate, PairOf, taskVars, stopVars
    <3> QED
      BY <3>1, <3>2
  <2> QED
    BY <2>4, <2>5, <2>6, RegistryKept DEF IInv
<1>5. ASSUME NEW r \in Requests, onTaskEvent(r)
      PROVE  IInv'
  <2> USE <1>5 DEF onTaskEvent, netVars, eventVars, stopVars
  <2>1. \A q \in Requests : PairOf(q)' = PairOf(q) /\ PairOf(q) \in Pairs
    BY DEF IInv, TypeOK, PairOf
  <2>2. \A q \in Requests : run'[q] = IF q = r THEN "gone" ELSE run[q]
    BY DEF IInv, TypeOK
  <2>3. TypeOK'
    <3>1. run' \in [Requests -> Life] /\ tasks' \in [Pairs -> Requests \cup {NoTask}]
      BY <2>1 DEF IInv, TypeOK, Forget, Life
    <3>2. \A q \in Requests : run'[q] # "none" => run[q] # "none"
      BY <2>2
    <3> QED
      BY <2>1, <3>1, <3>2 DEF IInv, TypeOK
  <2>4. Filed' /\ OneTaskPerPair'
    BY <2>2, ForgetKeeps
  <2>5. Owned' /\ Found'
    BY <2>1, <2>2 DEF IInv, Owned, OwnedEvent, NameIn, Found
  <2>6. DroppedCameLate' /\ NilCancelNeedsStopper'
    <3>1. \A e \in dropped : e.owner \in Requests
      BY DEF IInv, Owned, OwnedEvent
    <3> QED
      BY <2>1, <2>2, <3>1 DEF IInv, DroppedCameLate, NilCancelNeedsStopper
  <2> QED
    BY <2>3, <2>4, <2>5, <2>6 DEF IInv
<1> QED
  BY <1>2, <1>3, <1>4, <1>5 DEF Run

\* StopTaskByName.
LEMMA StopSteps == IInv /\ StopTaskByName => IInv'
<1> SUFFICES ASSUME IInv, NEW s \in Stoppers,
                    GetTaskByName(s) \/ StopDelete(s) \/ StopCancel(s)
             PROVE  IInv'
  BY DEF StopTaskByName
<1>1. stopper \in [Stoppers -> [pc : {"idle", "delete", "stop"}, task : Requests \cup {NoTask}]]
  BY DEF IInv, TypeOK
<1>2. CASE GetTaskByName(s)
  <2> USE <1>2 DEF GetTaskByName, netVars, taskVars, eventVars
  <2>1. PICK r \in Requests : stopper' = [stopper EXCEPT ![s] = [pc |-> "delete", task |-> r]]
    BY DEF Registered
  <2>2. TypeOK' /\ Found'
    BY <1>1, <2>1 DEF IInv, TypeOK, PairOf, Found
  <2>3. /\ Filed' /\ OneTaskPerPair' /\ Owned'
        /\ DroppedCameLate' /\ NilCancelNeedsStopper'
    BY DEF IInv, Filed, OneTaskPerPair, Owned, OwnedEvent, DroppedCameLate,
           NilCancelNeedsStopper, PairOf, NameIn, AtWork
  <2> QED
    BY <2>2, <2>3 DEF IInv
<1>3. CASE StopDelete(s)
  <2> USE <1>3 DEF StopDelete, netVars, eventVars
  <2> DEFINE r == stopper[s].task
  <2>1. r \in Requests
    BY DEF IInv, Found
  <2>2. PairOf(r) \in Pairs /\ \A q \in Requests : PairOf(q)' = PairOf(q)
    BY <2>1 DEF IInv, TypeOK, PairOf
  <2>3. Filed' /\ OneTaskPerPair'
    BY <2>1, ForgetKeeps
  <2>4. stopper' \in [Stoppers -> [pc : {"idle", "delete", "stop"}, task : Requests \cup {NoTask}]]
    BY <1>1
  <2>5. TypeOK'
    BY <2>2, <2>4 DEF IInv, TypeOK, PairOf, Forget
  <2>6. Found' /\ Owned' /\ DroppedCameLate'
    BY <1>1 DEF IInv, Found, Owned, OwnedEvent, DroppedCameLate, PairOf, NameIn
  <2>7. NilCancelNeedsStopper'
    BY DEF NilCancelNeedsStopper
  <2> QED
    BY <2>3, <2>5, <2>6, <2>7 DEF IInv
<1>4. CASE StopCancel(s)
  <2> USE <1>4 DEF StopCancel, netVars, eventVars
  <2> DEFINE r == stopper[s].task
  <2>1. r \in Requests
    BY DEF IInv, Found
  <2>2. /\ stopper' \in [Stoppers -> [pc : {"idle", "delete", "stop"}, task : Requests \cup {NoTask}]]
        /\ Found'
    BY <1>1 DEF IInv, Found, PairOf
  <2>3. PairOf(r) \in named
    BY DEF IInv, Found
  <2>4. CASE run' = run
    <3>1. TypeOK' /\ NilCancelNeedsStopper'
      BY <2>2, <2>3, <2>4 DEF IInv, TypeOK, PairOf, Cancel, NilCancelNeedsStopper
    <3>2. Filed' /\ OneTaskPerPair' /\ Owned' /\ DroppedCameLate'
      BY <2>4 DEF IInv, Filed, OneTaskPerPair, Owned, OwnedEvent, DroppedCameLate, PairOf, NameIn, AtWork
    <3> QED
      BY <2>2, <3>1, <3>2 DEF IInv
  <2>5. CASE run[r] = "running" /\ run' = [run EXCEPT ![r] = "cancelled"]
    <3>1. UNCHANGED proc
      BY <2>5 DEF Cancel
    <3> QED
      BY <2>1, <2>2, <2>5, <3>1, RunSteps DEF AtWork, Life
  <2> QED
    BY <2>4, <2>5 DEF Cancel
<1> QED
  BY <1>2, <1>3, <1>4

-----------------------------------------------------------------------------
(* Theorems *)

\* The strengthened invariant holds in every reachable state.
THEOREM Invariance == Spec => []IInv
<1>1. IInv /\ [Next]_vars => IInv'
  <2> SUFFICES ASSUME IInv, [Next]_vars PROVE IInv'
    OBVIOUS
  <2>1. CASE Broker
    BY <2>1, BrokerSteps
  <2>2. CASE Commands
    BY <2>2, CommandStep, CreateStep DEF Commands
  <2>3. CASE Tasks
    BY <2>3, TaskSteps
  <2>4. CASE Run
    BY <2>4, LoopSteps
  <2>5. CASE StopTaskByName
    BY <2>5, StopSteps
  <2>6. CASE UNCHANGED vars
    <3>1. UNCHANGED <<taskVars, eventVars, stopVars, proc, netVars>>
      BY <2>6 DEF vars
    <3> QED
      BY <3>1, NetSteps DEF IInv, TypeOK, netVars
  <2> QED
    BY <2>1, <2>2, <2>3, <2>4, <2>5, <2>6 DEF Next
<1> QED
  BY <1>1, InitIInv, PTL DEF Spec

\* Every variable keeps its type, and a registered pair has its order books
\* (ordermgr.go:133-178).
THEOREM Types == Spec => []TypeOK
<1>1. IInv => TypeOK
  BY DEF IInv
<1> QED
  BY <1>1, Invariance, PTL

\* A pair is traded by one task at a time, and the registry names it
\* (ordermgr.go:165-171, 236-240), unless the pair was stopped by name.
THEOREM OneTask == Spec => []OneTaskPerPair
<1>1. IInv => OneTaskPerPair
  BY DEF IInv
<1> QED
  BY <1>1, Invariance, PTL

\* An order event that is not offered to its own task comes too late
\* (ordermgr.go:321-345), unless the pair was stopped by name.
THEOREM Late == Spec => []DroppedCameLate
<1>1. IInv => DroppedCameLate
  BY DEF IInv
<1> QED
  BY <1>1, Invariance, PTL

\* A refusal of an order never makes a task call a fxCancel that it has not set
\* yet (order.go:385, 609-619): only StopTaskByName can (ordermgr.go:217).
THEOREM NilCancel == Spec => []NilCancelNeedsStopper
<1>1. IInv => NilCancelNeedsStopper
  BY DEF IInv
<1> QED
  BY <1>1, Invariance, PTL
=============================================================================
