----------------------------- MODULE DeskProofs -----------------------------
(***************************************************************************)
(* The program and its orders, for any commands, legs, configuration and   *)
(* any number of orders and restarts.                                      *)
(*                                                                         *)
(* What a task finds at its start rests on the way there: a task needs the *)
(* network flag, the flag an event the broker passes on, and that the loop *)
(* of the broker (Gated), which comes after prepare has asked for every    *)
(* old order (Listed) and the exchange has cancelled those it did not      *)
(* refuse (Cleared).  What a recovery cancels, and what it may leave,      *)
(* rests on what it has asked for so far (Recovering), and on that nothing *)
(* is sent before there is a client (Sent).                                *)
(***************************************************************************)
EXTENDS DeskProps, TLAPS

Staged == mgr \/ broker # "none" \/ mx = "up" => stage = "started"

Gated ==
    /\ networkOk \/ waiting => broker = "loop"
    /\ networkOk => mgr \/ early
    /\ tasks # {} => (mgr \/ early) /\ broker = "loop"

Sent == ~HasClient => \A o \in live : o.nr <= since

Old(o) == o.nr <= since /\ o.leg \in Underlyings

Listed ==
    broker = "cancel" =>
        \A o \in live : /\ Old(o) => o.nr \in request
                        /\ o.nr \in request => o.leg \in Underlyings

Cleared == retreatAll /\ broker = "loop" => \A o \in live : Old(o) => o.nr \in refused

LegSet(r) == {LegsOf[r][1], LegsOf[r][2]}

\* Has the recovery listed this leg?
ListedLeg(r, leg) ==
    \/ leg = LegsOf[r][1] /\ (retreat[r].at = "cancel" \/ retreat[r].leg = 2)
    \/ leg = LegsOf[r][2] /\ retreat[r].at = "cancel" /\ retreat[r].leg = 2

Recovering ==
    \A r \in Commands :
        /\ retreat[r].at # "idle" => r \in created
        /\ \A o \in live :
              /\ o.nr \in retreat[r].request => retreat[r].at # "idle" /\ o.leg \in LegSet(r)
              /\ o.nr \in retreat[r].old =>
                    o.leg \in LegSet(r) /\ (ListedLeg(r, o.leg) => o.nr \in retreat[r].request)

Configured == \A c \in created : LegSet(c) \subseteq Underlyings

IInv == /\ TypeOK /\ Staged /\ Gated /\ Listed /\ Cleared
        /\ Recovering /\ Configured /\ Sent

USE BoundAssumption, LegAssumption, NoTaskAssumption, FaultsAssumption

-----------------------------------------------------------------------------
(* The initial states *)

\* The initial states satisfy the invariant.
LEMMA InitIInv == Init => IInv
<1> SUFFICES ASSUME Init PROVE IInv
  OBVIOUS
<1> USE DEF Init, CtrlInit
<1>1. /\ retreat \in [Commands -> {Idle}] /\ \A r \in Commands : retreat[r] = Idle
  OBVIOUS
<1>2. /\ placed \in Nat /\ live \subseteq Orders /\ \A o, p \in live : o.nr = p.nr => o = p
  <2>1. CASE live = {} /\ placed = 0
    BY <2>1
  <2>2. CASE \E leg \in ByHand : live = {[nr |-> 1, leg |-> leg, task |-> NoTask]} /\ placed = 1
    BY <2>2 DEF Orders
  <2> QED
    BY <2>1, <2>2
<1>3. retreat \in [Commands -> [at : {"idle", "list", "cancel"}, leg : {1, 2},
                                request : SUBSET (1..placed), old : SUBSET (1..placed)]]
  BY <1>1 DEF Idle
<1>4. TypeOK
  <2>1. /\ retreatAll \in BOOLEAN /\ mgr \in BOOLEAN
        /\ books \in BOOLEAN /\ waiting \in BOOLEAN /\ networkOk \in BOOLEAN
        /\ early \in BOOLEAN
    OBVIOUS
  <2>2. /\ stage \in {"init", "listening", "wired", "started"}
        /\ mx \in {"none", "up", "ended"} /\ session \in {"none", "open", "broken"}
        /\ proc \in {"up", "fatal"} \cup Vias
        /\ broker \in {"none", "list", "cancel", "loop"} /\ client \in {"none", "half", "up", "lost"}
        /\ tasks \subseteq created /\ created \subseteq Commands
        /\ request \subseteq 1..placed /\ refused \subseteq 1..placed
    OBVIOUS
  <2>3. since \in 0..placed /\ faults \in Nat /\ restarts \in Nat
    BY <1>2
  <2> QED
    BY <1>2, <1>3, <2>1, <2>2, <2>3 DEF TypeOK
<1>5. Staged /\ Gated /\ Listed /\ Cleared /\ Configured /\ Sent
  BY <1>2 DEF Staged, Gated, Listed, Cleared, Configured, Sent, IInv, TypeOK
<1>6. Recovering
  BY <1>1 DEF Recovering, Idle
<1> QED
  BY <1>4, <1>5, <1>6 DEF IInv

-----------------------------------------------------------------------------
(* Steps, by the part of the state they touch *)

\* A step that leaves orders, tasks and recoveries alone keeps what is said of them.
LEMMA OrdersKept ==
    ASSUME IInv, UNCHANGED <<live, placed, refused, since, retreat, tasks, created>>
    PROVE  /\ Recovering' /\ Configured'
           /\ UNCHANGED <<broker, request>> => Listed'
           /\ UNCHANGED <<broker, retreatAll>> => Cleared'
           /\ (HasClient => HasClient') => Sent'
BY DEF IInv, HasClient, Sent, Recovering, Configured, Listed, Cleared, Old, LegSet, ListedLeg

\* The start of the program and its ways in.
LEMMA CtrlIInv == IInv /\ CtrlNext /\ UNCHANGED deskVars => IInv'
<1> SUFFICES ASSUME IInv, CtrlNext, UNCHANGED deskVars PROVE IInv'
  OBVIOUS
<1> USE DEF deskVars, gateVars, taskVars, bookVars
<1>1. /\ stage' \in {"init", "listening", "wired", "started"}
      /\ mx' \in {"none", "up", "ended"} /\ session' \in {"none", "open", "broken"}
      /\ proc' \in {"up", "fatal"} \cup Vias /\ faults' \in Nat
      /\ stage = "started" => stage' = "started"
      /\ mx' = "up" => stage' = "started"
  <2> USE DEF IInv, TypeOK, Staged, HasManager, Alive, Fault, Vias
  <2>1. CASE Listen \/ Wire \/ Start
    BY <2>1 DEF Listen, Wire, Start
  <2>2. CASE MxFails \/ httpWs \/ WsBreaks
    BY <2>2 DEF MxFails, httpWs, WsBreaks
  <2>3. CASE WsPanics
    BY <2>3 DEF WsPanics, ctrlVars
  <2>4. CASE \E via \in Vias, shape \in {"order", "nodata"} : Panic(via, shape)
    BY <2>4 DEF Panic, Open, Recovers, ctrlVars
  <2> QED
    BY <2>1, <2>2, <2>3, <2>4 DEF CtrlNext
<1>2. TypeOK'
  BY <1>1 DEF IInv, TypeOK, Orders
<1>3. Staged' /\ Gated'
  BY <1>1 DEF IInv, Staged, Gated
<1> QED
  BY <1>1, <1>2, <1>3, OrdersKept DEF IInv, HasClient

\* The connection, the order books, and the loops of broker and manager.
LEMMA GateIInv ==
    ASSUME IInv, Connect \/ Disconnect \/ onOrderBook \/ OnOrderReturn \/ RunManager \/ TakeBook
    PROVE  IInv'
<1> USE DEF Connect, Disconnect, onOrderBook, OnOrderReturn, RunManager, TakeBook,
            ctrlVars, gateVars, taskVars, bookVars, Prepared, Alive
<1>1. UNCHANGED <<ctrlVars, proc, retreatAll, broker, taskVars, bookVars, since, request, retreat, restarts>>
  OBVIOUS
<1>2. client' \in {"none", "half", "up", "lost"} /\ faults' \in Nat
  BY DEF IInv, TypeOK, Fault
<1>3. /\ books' \in BOOLEAN /\ waiting' \in BOOLEAN /\ networkOk' \in BOOLEAN /\ mgr' \in BOOLEAN
      /\ early' \in BOOLEAN
  <2>1. /\ books \in BOOLEAN /\ waiting \in BOOLEAN /\ networkOk \in BOOLEAN /\ mgr \in BOOLEAN
        /\ early \in BOOLEAN
    BY DEF IInv, TypeOK
  <2> QED
    BY <2>1
<1>7. TypeOK'
  BY <1>1, <1>2, <1>3 DEF IInv, TypeOK, Orders
<1>4. Staged'
  BY DEF IInv, Staged, HasContext
<1>5. Gated'
  <2>1. CASE OnOrderReturn
    BY <2>1 DEF IInv, Gated, OnOrderReturn
  <2>2. CASE Connect \/ Disconnect \/ onOrderBook \/ RunManager \/ TakeBook
    BY <2>2 DEF IInv, Gated
  <2> QED
    BY <2>1, <2>2
<1>6. Sent'
  BY <1>1, OrdersKept DEF HasClient
<1> QED
  BY <1>1, <1>4, <1>5, <1>6, <1>7, OrdersKept DEF IInv

-----------------------------------------------------------------------------
(* The start of the broker *)

\* What one request for cancellation does: what it asked for is gone or refused.
LEMMA BatchOutcome ==
    ASSUME IInv, NEW numbers, CancelBatch(numbers)
    PROVE  /\ live' \subseteq live /\ refused \subseteq refused' /\ refused' \subseteq 1..placed
           /\ faults' \in Nat
           /\ \A o \in live' : o.nr \in numbers => o.nr \in refused'
           /\ \A o \in live \ live' : o.nr \in numbers
<1>1. PICK kept \in SUBSET (numbers \cap Numbers(live)) :
         /\ \/ kept = {} /\ UNCHANGED faults
            \/ numbers # {} /\ Fault
         /\ live' = {o \in live : o.nr \notin numbers \ kept}
         /\ refused' = refused \cup kept
  BY DEF CancelBatch
<1>2. Numbers(live) \subseteq 1..placed
  BY DEF IInv, TypeOK, Numbers, Orders
<1>3. refused' \subseteq 1..placed /\ refused \subseteq refused'
  BY <1>1, <1>2 DEF IInv, TypeOK
<1>4. faults' \in Nat
  BY <1>1 DEF IInv, TypeOK, Fault
<1> QED
  BY <1>1, <1>3, <1>4

\* With fewer orders, and nothing else changed, recoveries are as before.
LEMMA FewerOrders ==
    ASSUME IInv, live' \subseteq live, UNCHANGED <<retreat, created>>
    PROVE  Recovering' /\ Configured'
BY DEF IInv, Recovering, Configured, LegSet, ListedLeg

\* prepare: first it asks for all that is old, then that is gone or refused.
LEMMA PrepareIInv ==
    ASSUME IInv, RunBroker \/ ListAll \/ CancelAll
    PROVE  IInv'
<1> USE DEF ctrlVars, gateVars, taskVars, bookVars, Alive
<1>1. CASE RunBroker
  <2> USE <1>1 DEF RunBroker
  <2>1. TypeOK'
    BY DEF IInv, TypeOK, Orders
  <2>2. Staged' /\ Gated' /\ Listed' /\ Cleared' /\ Sent'
    BY DEF IInv, Staged, Gated, Listed, Cleared, Sent, HasClient, HasContext
  <2> QED
    BY <2>1, <2>2, OrdersKept DEF IInv
<1>2. CASE ListAll
  <2> USE <1>2 DEF ListAll
  <2>1. ToCancel \subseteq 1..placed
    BY DEF ToCancel, Numbers, IInv, TypeOK, Orders
  <2>2. TypeOK'
    <3>1. request' \subseteq 1..placed
      BY <2>1 DEF IInv, TypeOK
    <3>2. broker' \in {"none", "list", "cancel", "loop"}
      BY DEF IInv, TypeOK
    <3>3. proc' \in {"up", "fatal"} \cup Vias
      BY DEF IInv, TypeOK
    <3>4. faults' \in Nat
      BY DEF IInv, TypeOK, Fault
    <3> QED
      BY <3>1, <3>2, <3>3, <3>4 DEF IInv, TypeOK, Orders
  <2>3. Listed'
    <3> SUFFICES ASSUME request' = ToCancel, NEW o \in live
                 PROVE  /\ Old(o) => o.nr \in ToCancel
                        /\ o.nr \in ToCancel => o.leg \in Underlyings
      BY DEF Listed, Old
    <3>1. Old(o) => o.nr \in ToCancel
      BY DEF Old, ToCancel, Numbers
    <3>2. ASSUME o.nr \in ToCancel PROVE o.leg \in Underlyings
      <4>1. PICK p \in live : p.leg \in Underlyings /\ p.nr = o.nr
        BY <3>2 DEF ToCancel, Numbers
      <4> QED
        BY <4>1 DEF IInv, TypeOK
    <3> QED
      BY <3>1, <3>2
  <2>4. Staged' /\ Gated' /\ Cleared' /\ Sent'
    BY DEF IInv, Staged, Gated, Cleared, Sent, HasClient
  <2> QED
    BY <2>2, <2>3, <2>4, OrdersKept DEF IInv
<1>3. CASE CancelAll
  <2> USE <1>3 DEF CancelAll
  <2>1. /\ live' \subseteq live /\ refused' \subseteq 1..placed /\ faults' \in Nat
        /\ \A o \in live' : o.nr \in request => o.nr \in refused'
    BY BatchOutcome
  <2>2. TypeOK'
    BY <2>1 DEF IInv, TypeOK, Orders
  <2>3. Cleared'
    BY <2>1 DEF IInv, Listed, Cleared, Old
  <2>4. Staged' /\ Gated' /\ Listed' /\ Sent'
    BY <2>1 DEF IInv, Staged, Gated, Listed, Old, Sent, HasClient
  <2> QED
    BY <2>1, <2>2, <2>3, <2>4, FewerOrders DEF IInv
<1> QED
  BY <1>1, <1>2, <1>3

-----------------------------------------------------------------------------
(* Tasks *)

\* A command that becomes a task finds the broker started, and its legs configured.
LEMMA CreateOrderIInv == ASSUME NEW c \in Commands, NEW via, IInv, CreateOrder(c, via) PROVE IInv'
<1> USE DEF CreateOrder, ctrlVars, gateVars, bookVars
<1>1. TypeOK'
  BY DEF IInv, TypeOK, Orders
<1>2. Gated' /\ Staged' /\ Sent'
  BY DEF IInv, Gated, Admits, Staged, Sent, HasClient
<1>3. Configured'
  BY DEF IInv, Configured, LegSet
<1>4. Recovering'
  BY DEF IInv, Recovering, LegSet, ListedLeg
<1>5. Listed' /\ Cleared'
  BY DEF IInv, Listed, Cleared, Old
<1> QED
  BY <1>1, <1>2, <1>3, <1>4, <1>5 DEF IInv

\* A task that ends, or the process with it, leaves everything else as it is.
LEMMA EndTaskIInv == ASSUME NEW r \in Commands, IInv, EndTask(r) \/ Panics(r) PROVE IInv'
<1> USE DEF EndTask, Panics, taskVars, ctrlVars, gateVars, bookVars
<1>1. TypeOK'
  <2>1. CASE EndTask(r)
    BY <2>1 DEF IInv, TypeOK, Orders
  <2>2. CASE Panics(r)
    BY <2>2 DEF IInv, TypeOK, Orders
  <2> QED
    BY <2>1, <2>2
<1>2. Gated' /\ Staged' /\ Sent'
  BY DEF IInv, Gated, Staged, Sent, HasClient
<1>3. Configured' /\ Recovering'
  BY DEF IInv, Configured, Recovering, LegSet, ListedLeg
<1>4. Listed' /\ Cleared'
  BY DEF IInv, Listed, Cleared, Old
<1> QED
  BY <1>1, <1>2, <1>3, <1>4 DEF IInv

\* A new order has a number nobody has asked for.
LEMMA PlaceOrderIInv == ASSUME NEW r \in Commands, NEW leg \in Legs, IInv, PlaceOrder(r, leg) PROVE IInv'
<1> DEFINE new == [nr |-> placed + 1, leg |-> leg, task |-> r]
<1> USE DEF PlaceOrder, Runs, ctrlVars, gateVars, taskVars
<1>1. /\ live' = live \cup {new} /\ placed' = placed + 1 /\ placed \in Nat /\ since <= placed
      /\ since \in Nat /\ new.nr = placed + 1
      /\ \A o \in live : o.nr \in 1..placed
  BY DEF IInv, TypeOK, Orders
<1>2. new.nr \notin 1..placed /\ ~(new.nr <= since) /\ 1..placed \subseteq 1..placed'
  BY <1>1
<1>3. live' \subseteq Orders' /\ \A o, p \in live' : o.nr = p.nr => o = p
  <2>1. new \in Orders'
    BY <1>1 DEF Orders
  <2>2. live \subseteq Orders'
    BY <1>2 DEF IInv, TypeOK, Orders
  <2> QED
    BY <1>1, <1>2, <2>1, <2>2 DEF IInv, TypeOK
<1>4. retreat' \in [Commands -> [at : {"idle", "list", "cancel"}, leg : {1, 2},
                                 request : SUBSET (1..placed'), old : SUBSET (1..placed')]]
  BY <1>2 DEF IInv, TypeOK
<1>5. TypeOK'
  BY <1>1, <1>2, <1>3, <1>4 DEF IInv, TypeOK
<1>6. Gated' /\ Staged' /\ Sent' /\ Configured'
  BY DEF IInv, Gated, Staged, Sent, HasClient, Configured, LegSet
<1>7. Listed' /\ Cleared'
  BY <1>1, <1>2 DEF IInv, TypeOK, Listed, Cleared, Old
<1>8. Recovering'
  <2> SUFFICES ASSUME NEW s \in Commands
               PROVE  /\ retreat[s].at # "idle" => s \in created
                      /\ \A o \in live' :
                            /\ o.nr \in retreat[s].request => retreat[s].at # "idle" /\ o.leg \in LegSet(s)
                            /\ o.nr \in retreat[s].old =>
                                  o.leg \in LegSet(s) /\ (ListedLeg(s, o.leg) => o.nr \in retreat[s].request)
    BY DEF Recovering, LegSet, ListedLeg
  <2>1. retreat[s].request \subseteq 1..placed /\ retreat[s].old \subseteq 1..placed
    BY DEF IInv, TypeOK
  <2> HIDE DEF new
  <2> QED
    BY <1>1, <1>2, <2>1 DEF IInv, Recovering
<1> QED
  BY <1>5, <1>6, <1>7, <1>8 DEF IInv

-----------------------------------------------------------------------------
(* Recoveries *)

\* What the steps of a recovery have in common.
LEMMA RetreatFrame ==
    ASSUME IInv, NEW r \in Commands, NEW from, NEW change, RetreatStep(r, from, change),
           live' \subseteq live, refused \subseteq refused', refused' \subseteq 1..placed, faults' \in Nat,
           change \in [at : {"idle", "list", "cancel"}, leg : {1, 2},
                       request : SUBSET (1..placed), old : SUBSET (1..placed)]
    PROVE  /\ TypeOK' /\ Staged' /\ Gated' /\ Listed' /\ Cleared' /\ Configured' /\ Sent'
           /\ retreat[r].at = from /\ retreat'[r] = change
           /\ \A s \in Commands : s # r => retreat'[s] = retreat[s]
<1> USE DEF RetreatStep, ctrlVars, gateVars, taskVars
<1>1. /\ retreat' \in [Commands -> [at : {"idle", "list", "cancel"}, leg : {1, 2},
                                    request : SUBSET (1..placed), old : SUBSET (1..placed)]]
      /\ retreat[r].at = from /\ retreat'[r] = change
      /\ \A s \in Commands : s # r => retreat'[s] = retreat[s]
  BY DEF IInv, TypeOK
<1>2. TypeOK'
  BY <1>1 DEF IInv, TypeOK, Orders
<1>3. Staged' /\ Gated' /\ Configured' /\ Sent'
  BY DEF IInv, Staged, Gated, Configured, LegSet, Sent, HasClient
<1>4. Listed' /\ Cleared'
  BY DEF IInv, Listed, Cleared, Old
<1> QED
  BY <1>1, <1>2, <1>3, <1>4

\* What is said of the recoveries of other tasks stays.
LEMMA OtherRetreat ==
    ASSUME IInv, NEW s \in Commands, live' \subseteq live, retreat'[s] = retreat[s], created' = created
    PROVE  /\ retreat'[s].at # "idle" => s \in created'
           /\ \A o \in live' :
                 /\ o.nr \in retreat'[s].request => retreat'[s].at # "idle" /\ o.leg \in LegSet(s)
                 /\ o.nr \in retreat'[s].old =>
                       o.leg \in LegSet(s) /\ (ListedLeg(s, o.leg)' => o.nr \in retreat'[s].request)
BY DEF IInv, Recovering, ListedLeg

\* A recovery begins with what is open in its instruments.
LEMMA RetreatIInv == ASSUME NEW r \in Commands, IInv, Retreat(r) PROVE IInv'
<1> DEFINE begun == [Idle EXCEPT !.at = "list", !.old = Numbers(OpenOn(r))]
<1> USE DEF Retreat, Runs
<1>1. RetreatStep(r, "idle", begun) /\ r \in tasks /\ UNCHANGED <<live, refused, faults>>
  OBVIOUS
<1>2. OpenOn(r) \subseteq live /\ Numbers(OpenOn(r)) \subseteq 1..placed
  BY DEF OpenOn, Numbers, IInv, TypeOK, Orders
<1>3. /\ begun.at = "list" /\ begun.leg = 1 /\ begun.request = {} /\ begun.old = Numbers(OpenOn(r))
      /\ begun \in [at : {"idle", "list", "cancel"}, leg : {1, 2},
                    request : SUBSET (1..placed), old : SUBSET (1..placed)]
  BY <1>2 DEF Idle
<1> HIDE DEF begun
<1>4. /\ TypeOK' /\ Staged' /\ Gated' /\ Listed' /\ Cleared' /\ Configured' /\ Sent'
      /\ retreat'[r] = begun /\ \A s \in Commands : s # r => retreat'[s] = retreat[s]
  BY <1>1, <1>3, RetreatFrame DEF IInv, TypeOK
<1>5. created' = created /\ r \in created
  BY <1>1 DEF RetreatStep, taskVars, IInv, TypeOK
<1>6. ASSUME NEW o \in live, o.nr \in begun.old PROVE o.leg \in LegSet(r)
  <2>1. PICK p \in OpenOn(r) : p.nr = o.nr
    BY <1>3, <1>6 DEF Numbers
  <2> QED
    BY <1>2, <2>1 DEF IInv, TypeOK, OpenOn, LegSet
<1>7. Recovering'
  <2> SUFFICES ASSUME NEW s \in Commands
               PROVE  /\ retreat'[s].at # "idle" => s \in created'
                      /\ \A o \in live' :
                            /\ o.nr \in retreat'[s].request => retreat'[s].at # "idle" /\ o.leg \in LegSet(s)
                            /\ o.nr \in retreat'[s].old =>
                                  o.leg \in LegSet(s) /\ (ListedLeg(s, o.leg)' => o.nr \in retreat'[s].request)
    BY DEF Recovering, LegSet, ListedLeg
  <2>1. CASE s = r
    <3>1. \A leg : ~ListedLeg(r, leg)'
      BY <1>3, <1>4 DEF ListedLeg
    <3> QED
      BY <1>1, <1>3, <1>4, <1>5, <1>6, <2>1, <3>1
  <2>2. CASE s # r
    BY <1>1, <1>4, <1>5, <2>2, OtherRetreat
  <2> QED
    BY <2>1, <2>2
<1> QED
  BY <1>4, <1>7 DEF IInv

\* A recovery without a client is over at once.
LEMMA NoClientIInv == ASSUME NEW r \in Commands, IInv, NoClient(r) PROVE IInv'
<1> USE DEF NoClient
<1>1. RetreatStep(r, "list", Idle) /\ UNCHANGED <<live, refused, faults>>
  OBVIOUS
<1>2. /\ Idle.at = "idle" /\ Idle.request = {} /\ Idle.old = {}
      /\ Idle \in [at : {"idle", "list", "cancel"}, leg : {1, 2},
                   request : SUBSET (1..placed), old : SUBSET (1..placed)]
  BY DEF Idle
<1>3. /\ TypeOK' /\ Staged' /\ Gated' /\ Listed' /\ Cleared' /\ Configured' /\ Sent'
      /\ retreat'[r] = Idle /\ \A s \in Commands : s # r => retreat'[s] = retreat[s]
  BY <1>1, <1>2, RetreatFrame DEF IInv, TypeOK
<1>4. created' = created
  BY <1>1 DEF RetreatStep, taskVars
<1>5. Recovering'
  <2> SUFFICES ASSUME NEW s \in Commands
               PROVE  /\ retreat'[s].at # "idle" => s \in created'
                      /\ \A o \in live' :
                            /\ o.nr \in retreat'[s].request => retreat'[s].at # "idle" /\ o.leg \in LegSet(s)
                            /\ o.nr \in retreat'[s].old =>
                                  o.leg \in LegSet(s) /\ (ListedLeg(s, o.leg)' => o.nr \in retreat'[s].request)
    BY DEF Recovering, LegSet, ListedLeg
  <2>1. CASE s = r
    BY <1>2, <1>3, <2>1
  <2>2. CASE s # r
    BY <1>1, <1>3, <1>4, <2>2, OtherRetreat
  <2> QED
    BY <2>1, <2>2
<1> QED
  BY <1>3, <1>5 DEF IInv

\* A leg that is listed is asked for, or nothing is expected any more.
LEMMA GetOrderListIInv == ASSUME NEW r \in Commands, IInv, GetOrderList(r) PROVE IInv'
<1> DEFINE rt    == retreat[r]
           found == Numbers({o \in live : o.leg = LegsOf[r][rt.leg]})
           asked == [rt EXCEPT !.at = "cancel", !.request = @ \cup found]
           blind == [rt EXCEPT !.at = "cancel", !.old = {}]
<1>1. PICK change \in {asked, blind} : RetreatStep(r, "list", change)
  BY DEF GetOrderList
<1>2. UNCHANGED <<live, refused>> /\ faults' \in Nat
  BY DEF GetOrderList, Fault, IInv, TypeOK
<1>3. /\ rt \in [at : {"idle", "list", "cancel"}, leg : {1, 2},
                 request : SUBSET (1..placed), old : SUBSET (1..placed)]
      /\ found \subseteq 1..placed
  BY DEF Numbers, IInv, TypeOK, Orders
<1>4. /\ change.at = "cancel" /\ change.leg = rt.leg
      /\ change \in [at : {"idle", "list", "cancel"}, leg : {1, 2},
                     request : SUBSET (1..placed), old : SUBSET (1..placed)]
      /\ \/ change.request = rt.request \cup found /\ change.old = rt.old
         \/ change.request = rt.request /\ change.old = {}
  <2> HIDE DEF found, rt
  <2> QED
    BY <1>3
<1>5. /\ TypeOK' /\ Staged' /\ Gated' /\ Listed' /\ Cleared' /\ Configured' /\ Sent'
      /\ rt.at = "list"
      /\ retreat'[r] = change /\ \A s \in Commands : s # r => retreat'[s] = retreat[s]
  BY <1>1, <1>2, <1>4, RetreatFrame DEF IInv, TypeOK
<1>6. created' = created /\ r \in created
  BY <1>1, <1>5 DEF RetreatStep, taskVars, IInv, Recovering
<1>7. ASSUME NEW o \in live
      PROVE  /\ o.nr \in found => o.leg = LegsOf[r][rt.leg]
             /\ o.leg = LegsOf[r][rt.leg] => o.nr \in found
  <2>1. ASSUME o.nr \in found PROVE o.leg = LegsOf[r][rt.leg]
    <3>1. PICK p \in live : p.leg = LegsOf[r][rt.leg] /\ p.nr = o.nr
      BY <2>1 DEF Numbers
    <3> QED
      BY <3>1 DEF IInv, TypeOK
  <2> QED
    BY <2>1 DEF Numbers
<1>8. LegsOf[r][rt.leg] \in LegSet(r) /\ rt.leg \in {1, 2}
  BY <1>3 DEF LegSet
<1>9. ASSUME NEW o \in live
      PROVE  /\ o.nr \in change.request => o.leg \in LegSet(r)
             /\ o.nr \in change.old =>
                   o.leg \in LegSet(r) /\ (ListedLeg(r, o.leg)' => o.nr \in change.request)
  <2>1. /\ o.nr \in rt.request => o.leg \in LegSet(r)
        /\ o.nr \in rt.old => o.leg \in LegSet(r) /\ (ListedLeg(r, o.leg) => o.nr \in rt.request)
    BY DEF IInv, Recovering
  <2>2. ASSUME ListedLeg(r, o.leg)' PROVE o.leg = LegsOf[r][rt.leg] \/ ListedLeg(r, o.leg)
    BY <1>4, <1>5, <1>8, <2>2 DEF ListedLeg
  <2> HIDE DEF found, rt
  <2> QED
    BY <1>4, <1>7, <1>8, <2>1, <2>2
<1>10. Recovering'
  <2> HIDE DEF found, rt, asked, blind
  <2> SUFFICES ASSUME NEW s \in Commands
               PROVE  /\ retreat'[s].at # "idle" => s \in created'
                      /\ \A o \in live' :
                            /\ o.nr \in retreat'[s].request => retreat'[s].at # "idle" /\ o.leg \in LegSet(s)
                            /\ o.nr \in retreat'[s].old =>
                                  o.leg \in LegSet(s) /\ (ListedLeg(s, o.leg)' => o.nr \in retreat'[s].request)
    BY DEF Recovering, LegSet, ListedLeg
  <2>1. CASE s = r
    BY <1>2, <1>4, <1>5, <1>6, <1>9, <2>1
  <2>2. CASE s # r
    BY <1>2, <1>5, <1>6, <2>2, OtherRetreat
  <2> QED
    BY <2>1, <2>2
<1> QED
  BY <1>5, <1>10 DEF IInv

\* What a recovery goes on with after a request.
LEMMA CandleOutcome ==
    ASSUME NEW r \in Commands, IInv, CandleOrder(r)
    PROVE  /\ CancelBatch(retreat[r].request)
           /\ \E change \in {Idle, NextLeg(retreat[r])} :
                 /\ RetreatStep(r, "cancel", change)
                 /\ change = Idle => faults' # faults \/ retreat[r].leg # 1
BY DEF CandleOrder, NextLeg, Idle

\* The other leg comes next, or the recovery is over.
LEMMA CandleOrderIInv == ASSUME NEW r \in Commands, IInv, CandleOrder(r) PROVE IInv'
<1> DEFINE rt == retreat[r]
<1>1. PICK change \in {Idle, NextLeg(rt)} : RetreatStep(r, "cancel", change)
  BY CandleOutcome
<1>2. /\ live' \subseteq live /\ refused \subseteq refused' /\ refused' \subseteq 1..placed
      /\ faults' \in Nat
  BY CandleOutcome, BatchOutcome
<1>3. rt \in [at : {"idle", "list", "cancel"}, leg : {1, 2},
              request : SUBSET (1..placed), old : SUBSET (1..placed)]
  BY DEF IInv, TypeOK
<1>4. /\ \/ change.at = "idle" /\ change.request = {} /\ change.old = {}
         \/ /\ change.at = "list" /\ rt.leg = 1 /\ change.leg = 2
            /\ change.request = rt.request /\ change.old = rt.old
      /\ change \in [at : {"idle", "list", "cancel"}, leg : {1, 2},
                     request : SUBSET (1..placed), old : SUBSET (1..placed)]
  <2> HIDE DEF rt
  <2>1. change = Idle \/ (rt.leg = 1 /\ change = [rt EXCEPT !.at = "list", !.leg = 2])
    BY DEF NextLeg
  <2>2. CASE change = Idle
    BY <2>2 DEF Idle
  <2>3. CASE rt.leg = 1 /\ change = [rt EXCEPT !.at = "list", !.leg = 2]
    BY <1>3, <2>3
  <2> QED
    BY <2>1, <2>2, <2>3
<1>5. /\ TypeOK' /\ Staged' /\ Gated' /\ Listed' /\ Cleared' /\ Configured' /\ Sent'
      /\ rt.at = "cancel"
      /\ retreat'[r] = change /\ \A s \in Commands : s # r => retreat'[s] = retreat[s]
  BY <1>1, <1>2, <1>4, RetreatFrame
<1>6. created' = created /\ r \in created
  BY <1>1, <1>5 DEF RetreatStep, taskVars, IInv, Recovering
<1>7. ASSUME NEW o \in live
      PROVE  /\ o.nr \in change.request => change.at # "idle" /\ o.leg \in LegSet(r)
             /\ o.nr \in change.old =>
                   o.leg \in LegSet(r) /\ (ListedLeg(r, o.leg)' => o.nr \in change.request)
  <2>1. /\ o.nr \in rt.request => o.leg \in LegSet(r)
        /\ o.nr \in rt.old => o.leg \in LegSet(r) /\ (ListedLeg(r, o.leg) => o.nr \in rt.request)
    BY DEF IInv, Recovering
  <2>2. ASSUME change.at = "list", ListedLeg(r, o.leg)' PROVE ListedLeg(r, o.leg)
    BY <1>4, <1>5, <2>2 DEF ListedLeg
  <2> HIDE DEF rt
  <2> QED
    BY <1>4, <2>1, <2>2
<1>8. Recovering'
  <2> HIDE DEF rt
  <2> SUFFICES ASSUME NEW s \in Commands
               PROVE  /\ retreat'[s].at # "idle" => s \in created'
                      /\ \A o \in live' :
                            /\ o.nr \in retreat'[s].request => retreat'[s].at # "idle" /\ o.leg \in LegSet(s)
                            /\ o.nr \in retreat'[s].old =>
                                  o.leg \in LegSet(s) /\ (ListedLeg(s, o.leg)' => o.nr \in retreat'[s].request)
    BY DEF Recovering, LegSet, ListedLeg
  <2>1. CASE s = r
    BY <1>2, <1>4, <1>5, <1>6, <1>7, <2>1
  <2>2. CASE s # r
    BY <1>2, <1>5, <1>6, <2>2, OtherRetreat
  <2> QED
    BY <2>1, <2>2
<1> QED
  BY <1>5, <1>8 DEF IInv

-----------------------------------------------------------------------------
(* Restart *)

\* A new process has done nothing yet.
LEMMA RestartIInv == IInv /\ Restart => IInv'
<1> SUFFICES ASSUME IInv, Restart PROVE IInv'
  OBVIOUS
<1> USE DEF Restart, bookVars
<1>1. /\ retreat' \in [Commands -> {Idle}] /\ \A r \in Commands : retreat'[r] = Idle
  OBVIOUS
<1>2. retreat' \in [Commands -> [at : {"idle", "list", "cancel"}, leg : {1, 2},
                                 request : SUBSET (1..placed), old : SUBSET (1..placed)]]
  BY <1>1 DEF Idle
<1>3. TypeOK'
  <2>1. /\ books' \in BOOLEAN /\ waiting' \in BOOLEAN /\ networkOk' \in BOOLEAN /\ mgr' \in BOOLEAN
        /\ early' \in BOOLEAN
    OBVIOUS
  <2>2. restarts' \in Nat /\ since' \in 0..placed
    BY DEF IInv, TypeOK
  <2>3. /\ tasks' = {} /\ created' = {} /\ request' = {} /\ proc' = "up" /\ stage' = "init"
        /\ mx' = "none" /\ session' = "none" /\ broker' = "none" /\ client' = "none"
        /\ UNCHANGED <<retreatAll, live, placed, refused, faults>>
    OBVIOUS
  <2> QED
    BY <1>2, <2>1, <2>2, <2>3 DEF IInv, TypeOK, Orders
<1>4. Staged' /\ Gated' /\ Listed' /\ Cleared' /\ Configured' /\ Sent'
  BY DEF Staged, Gated, Listed, Cleared, Configured, Sent, IInv, TypeOK, Orders
<1>5. Recovering'
  BY <1>1 DEF Recovering, Idle
<1> QED
  BY <1>3, <1>4, <1>5 DEF IInv

-----------------------------------------------------------------------------
(* Invariants *)

\* Every step preserves the invariant.
LEMMA NextIInv == IInv /\ [Next]_vars => IInv'
<1> SUFFICES ASSUME IInv, [Next]_vars PROVE IInv'
  OBVIOUS
<1>1. CASE UNCHANGED vars
  <2> USE <1>1 DEF vars, ctrlVars, gateVars, taskVars, bookVars
  <2>1. TypeOK'
    BY DEF IInv, TypeOK, Orders
  <2>2. Staged' /\ Gated' /\ Sent'
    BY DEF IInv, Staged, Gated, Sent, HasClient
  <2> QED
    BY <2>1, <2>2, OrdersKept DEF IInv
<1>2. CASE Next
  <2>1. CASE \E c \in Commands : Task(c)
    BY <2>1, EndTaskIInv, RetreatIInv, NoClientIInv, GetOrderListIInv, CandleOrderIInv, PlaceOrderIInv DEF Task
  <2>2. CASE Broker
    BY <2>2, GateIInv, PrepareIInv DEF Broker
  <2> QED
    BY <1>2, <2>1, <2>2, CtrlIInv, GateIInv, CreateOrderIInv, RestartIInv DEF Next
<1> QED
  BY <1>1, <1>2

\* The invariant holds in every state.
LEMMA Invariance == Spec => []IInv
BY InitIInv, NextIInv, PTL DEF Spec

\* The program is well typed: numbers are of one order, and nobody asks for others.
THEOREM Types == Spec => []TypeOK
<1>1. IInv => TypeOK
  BY DEF IInv
<1> QED
  BY <1>1, Invariance, PTL

\* A task is created before the loop of the manager has set its context only after an
\* order event has come.
THEOREM Contexts == Spec => []TasksHaveContext
<1>1. IInv => TasksHaveContext
  BY DEF IInv, Gated, Staged, TasksHaveContext, HasManager
<1> QED
  BY <1>1, Invariance, PTL

\* With retreat_all_orders, tasks start after the old orders are gone or refused.
THEOREM Fresh == Spec => []FreshStart
<1>1. IInv => FreshStart
  BY DEF IInv, Gated, Cleared, Old, FreshStart
<1> QED
  BY <1>1, Invariance, PTL

-----------------------------------------------------------------------------
(* Action properties *)

\* Orders go only by a request of prepare or of a recovery.
LEMMA Gone ==
    ASSUME IInv, [Next]_vars, NEW o \in live \ live'
    PROVE  \/ CancelAll /\ o.nr \in request
           \/ \E r \in Commands : CandleOrder(r) /\ o.nr \in retreat[r].request
<1> USE DEF bookVars
<1>1. CASE UNCHANGED vars
  BY <1>1 DEF vars
<1>2. CASE CtrlNext /\ UNCHANGED deskVars
  BY <1>2 DEF deskVars
<1>3. CASE RunBroker \/ ListAll \/ Connect \/ Disconnect \/ onOrderBook \/ OnOrderReturn \/ RunManager \/ TakeBook
  BY <1>3 DEF RunBroker, ListAll, Connect, Disconnect, onOrderBook, OnOrderReturn, RunManager, TakeBook
<1>4. CASE CancelAll
  BY <1>4, BatchOutcome DEF CancelAll
<1>5. CASE \E c \in Commands, via \in Vias : CreateOrder(c, via)
  BY <1>5 DEF CreateOrder
<1>6. ASSUME NEW r \in Commands, Task(r)
      PROVE  CandleOrder(r) /\ o.nr \in retreat[r].request
  <2>1. CASE \/ Panics(r) \/ EndTask(r) \/ Retreat(r) \/ NoClient(r) \/ GetOrderList(r)
            \/ \E leg \in Legs : PlaceOrder(r, leg)
    BY <2>1 DEF Panics, EndTask, Retreat, NoClient, GetOrderList, PlaceOrder
  <2>2. CASE CandleOrder(r)
    BY <2>2, CandleOutcome, BatchOutcome
  <2> QED
    BY <1>6, <2>1, <2>2 DEF Task
<1>7. CASE Restart
  BY <1>7 DEF Restart
<1> QED
  BY <1>1, <1>2, <1>3, <1>4, <1>5, <1>6, <1>7 DEF Next, Broker

\* Orders of running tasks fall to those that share an instrument, and to nobody else.
THEOREM Sharers == Spec => OnlySharersCancel
<1>1. ASSUME IInv, [Next]_vars
      PROVE  [\A o \in live \ live' :
                 /\ o.leg \in Underlyings
                 /\ o.task \in tasks /\ o.nr > since =>
                       \E r \in Commands : o \in OpenOn(r) /\ retreat[r].at = "cancel"]_vars
  <2> SUFFICES ASSUME NEW o \in live \ live'
               PROVE  /\ o.leg \in Underlyings
                      /\ o.task \in tasks /\ o.nr > since =>
                            \E r \in Commands : o \in OpenOn(r) /\ retreat[r].at = "cancel"
    OBVIOUS
  <2> USE <1>1
  <2>1. CASE CancelAll /\ o.nr \in request
    BY <2>1 DEF CancelAll, IInv, Gated, Listed
  <2>2. ASSUME NEW r \in Commands, CandleOrder(r), o.nr \in retreat[r].request
        PROVE  /\ o.leg \in Underlyings
               /\ o \in OpenOn(r) /\ retreat[r].at = "cancel"
    <3>1. o.leg \in LegSet(r) /\ r \in created
      BY <2>2 DEF IInv, Recovering
    <3>2. retreat[r].at = "cancel"
      BY <2>2, CandleOutcome DEF RetreatStep
    <3> QED
      BY <3>1, <3>2 DEF IInv, Configured, LegSet, OpenOn
  <2> QED
    BY <1>1, <2>1, <2>2, Gone
<1> QED
  BY <1>1, Invariance, PTL DEF Spec, OnlySharersCancel

\* A recovery without errors leaves of what was open only what was refused, and one
\* without a client only what is not of this process.
THEOREM Clears == Spec => RecoveryClears
<1>1. ASSUME IInv, [Next]_vars
      PROVE  [\A r \in Commands :
                 retreat[r].at # "idle" /\ retreat'[r] = Idle /\ faults' = faults /\ restarts' = restarts =>
                     \A n \in Numbers(live') \cap retreat[r].old :
                         n \in refused' \/ (~HasClient /\ n <= since)]_vars
  <2> SUFFICES ASSUME NEW r \in Commands, retreat[r].at # "idle", retreat'[r] = Idle,
                      faults' = faults, restarts' = restarts,
                      NEW o \in live', o.nr \in retreat[r].old
               PROVE  o.nr \in refused' \/ (~HasClient /\ o.nr <= since)
    BY DEF Numbers
  <2> USE <1>1
  <2>1. CandleOrder(r) \/ NoClient(r)
    <3>1. retreat'[r] # retreat[r]
      BY DEF Idle
    <3>2. CASE UNCHANGED vars
      BY <3>1, <3>2 DEF vars
    <3>3. CASE CtrlNext /\ UNCHANGED deskVars
      BY <3>1, <3>3 DEF deskVars
    <3>4. CASE Broker \/ RunManager \/ TakeBook \/ \E c \in Commands, via \in Vias : CreateOrder(c, via)
      BY <3>1, <3>4 DEF Broker, RunBroker, ListAll, CancelAll, Connect, Disconnect, onOrderBook,
                        OnOrderReturn, RunManager, TakeBook, CreateOrder
    <3>5. ASSUME NEW s \in Commands, Task(s) PROVE CandleOrder(r) \/ NoClient(r)
      <4>1. CASE Panics(s) \/ EndTask(s) \/ \E leg \in Legs : PlaceOrder(s, leg)
        BY <3>1, <4>1 DEF Panics, EndTask, PlaceOrder
      <4>2. CASE Retreat(s) \/ NoClient(s) \/ GetOrderList(s) \/ CandleOrder(s)
        <5>1. PICK from, change : RetreatStep(s, from, change)
          BY <4>2 DEF Retreat, NoClient, GetOrderList, CandleOrder
        <5>2. s = r
          BY <3>1, <5>1 DEF RetreatStep, IInv, TypeOK
        <5>3. ~Retreat(r) /\ ~GetOrderList(r)
          <6>1. retreat'[r].at = "idle"
            BY DEF Idle
          <6>2. ASSUME Retreat(r) PROVE FALSE
            BY <6>2 DEF Retreat, RetreatStep
          <6>3. ASSUME GetOrderList(r) PROVE FALSE
            <7>1. PICK change2 : RetreatStep(r, "list", change2) /\ change2.at = "cancel"
              <8>1. /\ [retreat[r] EXCEPT !.at = "cancel", !.request = @ \cup Numbers({p \in live : p.leg = LegsOf[r][retreat[r].leg]})].at = "cancel"
                    /\ [retreat[r] EXCEPT !.at = "cancel", !.old = {}].at = "cancel"
                BY DEF IInv, TypeOK
              <8> QED
                BY <6>3, <8>1 DEF GetOrderList
            <7>2. retreat'[r] = change2
              BY <7>1 DEF RetreatStep, IInv, TypeOK
            <7> QED
              BY <6>1, <7>1, <7>2
          <6> QED
            BY <6>2, <6>3
        <5> QED
          BY <4>2, <5>2, <5>3
      <4> QED
        BY <3>5, <4>1, <4>2 DEF Task
    <3>6. ~Restart
      BY DEF Restart, IInv, TypeOK
    <3> QED
      BY <1>1, <3>2, <3>3, <3>4, <3>5, <3>6 DEF Next
  <2>2. CASE NoClient(r)
    BY <2>2 DEF NoClient, IInv, Sent
  <2>3. CASE CandleOrder(r)
    <3>1. PICK change \in {Idle, NextLeg(retreat[r])} :
             /\ RetreatStep(r, "cancel", change)
             /\ change = Idle => faults' # faults \/ retreat[r].leg # 1
      BY <2>3, CandleOutcome
    <3>2. retreat'[r] = change /\ retreat[r].at = "cancel"
      BY <3>1 DEF RetreatStep, IInv, TypeOK
    <3>3. retreat[r].leg = 2
      BY <3>1, <3>2 DEF IInv, TypeOK
    <3>4. live' \subseteq live /\ \A p \in live' : p.nr \in retreat[r].request => p.nr \in refused'
      BY <2>3, CandleOutcome, BatchOutcome
    <3>5. o.leg \in LegSet(r) /\ (ListedLeg(r, o.leg) => o.nr \in retreat[r].request)
      BY <3>4 DEF IInv, Recovering
    <3>6. ListedLeg(r, o.leg)
      BY <3>2, <3>3, <3>5 DEF ListedLeg, LegSet
    <3> QED
      BY <3>4, <3>5, <3>6
  <2> QED
    BY <2>1, <2>2, <2>3
<1> QED
  BY <1>1, Invariance, PTL DEF Spec, RecoveryClears
=============================================================================
