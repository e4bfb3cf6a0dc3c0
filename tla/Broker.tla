------------------------------- MODULE Broker -------------------------------
(***************************************************************************)
(* The broker (core/broker.go): its loop keeps a client with a public and  *)
(* a private websocket connection, passes on what comes in over them, and  *)
(* sends orders.  A client is abandoned, not closed, when another replaces *)
(* it: connections of it that work go on delivering.  The exchange's       *)
(* library is external: how connections break, and what a failed request   *)
(* leaves behind, is nondeterministic.                                     *)
(*                                                                         *)
(* While it reconnects, the loop holds b.mtx and passes nothing on;        *)
(* SendOrder, called by the tasks, takes b.mtx for its websocket request.  *)
(* Nothing limits how long that may take: an authentication the exchange   *)
(* does not answer hangs the loop for good (cmd/Goofy/devel-events.md:12). *)
(***************************************************************************)
EXTENDS Integers

CONSTANTS
    Events,         \* order events the exchange pushes
    LegOf,          \* the leg each of them is about: "spot" or "swap"
    Senders,        \* calls of SendOrder
    MaxClients,     \* bound: clients the broker creates
    MaxFaults       \* bound: requests that fail

ASSUME BoundAssumption == MaxClients \in Nat /\ MaxFaults \in Nat
ASSUME LegAssumption   == LegOf \in [Events -> {"spot", "swap"}]

NoClient    == 0
Clients     == 1..MaxClients
Channels    == {"books", "spot", "swap"}
Connections == {"public", "private"}

VARIABLES
    client,         \* b.client
    made,           \* the last client created
    conn,           \* the connections of each client that work
    subs,           \* the channels each client is subscribed to
    loop,           \* is the loop selecting, subscribing or hung, and for which client
    booked,         \* was an order book passed on yet?
    sender,         \* how far each SendOrder is
    pushed,         \* order events the exchange has pushed
    inbox,          \* those a connection has received, to be passed on
    passed,         \* how often each was passed on
    faults,         \* failures so far
    proc,           \* the process
    kept,           \* history: clients replaced with only their private connection left
    halfway         \* history: clients given up half subscribed

clientVars == <<client, made, conn, subs, loop>>
eventVars  == <<booked, pushed, inbox, passed>>
pastVars   == <<kept, halfway>>
vars       == <<clientVars, eventVars, sender, faults, proc, pastVars>>

-----------------------------------------------------------------------------
(* The exchange and its library *)

Alive == proc = "up"

Carrier(channel) == IF channel = "books" THEN "public" ELSE "private"

Listening(c, channel) == channel \in subs[c] /\ Carrier(channel) \in conn[c]

\* A connection of a client breaks, or both do at once.
Disconnect ==
    /\ \E c \in Clients : \E broken \in SUBSET conn[c] \ {{}} :
          conn' = [conn EXCEPT ![c] = @ \ broken]
    /\ UNCHANGED <<client, made, subs, loop, eventVars, sender, faults, proc, pastVars>>

\* Every connection that listens for the event receives it.
PushOrder(e) ==
    /\ e \notin pushed
    /\ pushed' = pushed \cup {e}
    /\ inbox' = inbox \cup {<<c, e>> : c \in {d \in Clients : Listening(d, LegOf[e])}}
    /\ UNCHANGED <<clientVars, booked, passed, sender, faults, proc, pastVars>>

Exchange == Disconnect \/ \E e \in Events : PushOrder(e)

Fault == faults < MaxFaults /\ faults' = faults + 1

-----------------------------------------------------------------------------
(* A tick of the loop *)

\* b.mtx is free and the loop serves its channels.
Selecting == loop = [pc |-> "select", new |-> NoClient]

NeverReleased == UNCHANGED loop

\* b.mtx.Unlock(); continue
Release == loop' = [pc |-> "select", new |-> NoClient]

BrokenAlways == TRUE

BothBroken == ~(client \in Clients /\ conn[client] # {})

Broken == ~(client \in Clients /\ conn[client] = Connections)

HalfBroken == {c \in Clients : conn[c] = {"private"}}

NilOnLoss == NoClient

\* b.client is left as it is until the new client is installed.
UntilThen == client

\* The tick finds the client broken.  initOkexClient makes a new one; the old
\* one, and what it still receives, is left alone.
initOkexClient ==
    /\ Alive
    /\ Selecting
    /\ Broken
    /\ client' = UntilThen
    /\ \/ /\ Fault
          /\ UNCHANGED <<made, loop, kept>>
       \/ /\ made < MaxClients
          /\ made' = made + 1
          /\ loop' = [pc |-> "subscribe", new |-> made + 1]
          /\ kept' = kept \cup HalfBroken
          /\ UNCHANGED faults
    /\ UNCHANGED <<conn, subs, eventVars, sender, proc, halfway>>

TwoChannels == {"books", "spot"}

\* Order books first, then the order events of each leg.
AllChannels == Channels

NextChannel(c) ==
    IF "books" \notin subs[c] THEN "books" ELSE IF "spot" \notin subs[c] THEN "spot" ELSE "swap"

\* The connection of the channel is opened by the first subscription it carries.
Subscribed(c, channel) ==
    /\ conn' = [conn EXCEPT ![c] = @ \cup {Carrier(channel)}]
    /\ subs' = [subs EXCEPT ![c] = @ \cup {channel}]

\* A subscription that fails may have been accepted all the same.
subscribeOkex ==
    /\ Alive
    /\ loop.pc = "subscribe"
    /\ LET c       == loop.new
           channel == NextChannel(c)
           dead    == channel = "swap" /\ "private" \notin conn[c]
       IN  /\ subs[c] # AllChannels
           /\ \/ ~dead /\ Subscribed(c, channel) /\ UNCHANGED <<loop, faults, halfway>>
              \/ /\ IF dead THEN UNCHANGED faults ELSE Fault
                 /\ (~dead /\ Subscribed(c, channel)) \/ UNCHANGED <<conn, subs>>
                 /\ Release
                 /\ halfway' = halfway \cup {c}
    /\ UNCHANGED <<client, made, eventVars, sender, proc, kept>>

\* The first private subscription authenticates the client, and waits for the answer
\* as long as it takes, with b.mtx locked.
AuthHangs ==
    /\ Alive
    /\ loop.pc = "subscribe"
    /\ NextChannel(loop.new) = "spot"
    /\ loop' = [loop EXCEPT !.pc = "hung"]
    /\ UNCHANGED <<client, made, conn, subs, eventVars, sender, faults, proc, pastVars>>

\* b.client = client
Install ==
    /\ Alive
    /\ loop.pc = "subscribe"
    /\ subs[loop.new] = AllChannels
    /\ client' = loop.new
    /\ Release
    /\ UNCHANGED <<made, conn, subs, eventVars, sender, faults, proc, pastVars>>

Tick == initOkexClient \/ subscribeOkex \/ AuthHangs \/ Install

-----------------------------------------------------------------------------
(* What the loop passes on *)

\* An order book, of whatever client: its connection may have broken since.
onOrderBook ==
    /\ Alive
    /\ Selecting
    /\ \E c \in Clients : "books" \in subs[c]
    /\ booked' = TRUE
    /\ UNCHANGED <<clientVars, pushed, inbox, passed, sender, faults, proc, pastVars>>

\* An order event, likewise; nobody looks whether it was passed on before.
onOrderReturn(e) ==
    /\ Alive
    /\ Selecting
    /\ \E c \in Clients : <<c, e>> \in inbox /\ inbox' = inbox \ {<<c, e>>}
    /\ passed' = [passed EXCEPT ![e] = @ + 1]
    /\ UNCHANGED <<clientVars, booked, pushed, sender, faults, proc, pastVars>>

-----------------------------------------------------------------------------
(* SendOrder *)

\* A task exists, and sends orders, once an order book was passed on.  The
\* request goes over the websocket of the client, under b.mtx ...
SendOrder(s) ==
    /\ Alive
    /\ Selecting
    /\ booked
    /\ sender[s] = "idle"
    /\ IF client = NoClient THEN proc' = "panic" /\ UNCHANGED <<sender, faults>>
       ELSE /\ \/ /\ "private" \in conn[client]
                  /\ sender' = [sender EXCEPT ![s] = "sent"]
                  /\ UNCHANGED faults
               \/ /\ IF "private" \in conn[client] THEN Fault ELSE UNCHANGED faults
                  /\ sender' = [sender EXCEPT ![s] = "rest"]
            /\ UNCHANGED proc
    /\ UNCHANGED <<clientVars, eventVars, pastVars>>

\* ... and, when that fails, as a REST request, without b.mtx.
SendRest(s) ==
    /\ Alive
    /\ sender[s] = "rest"
    /\ \/ sender' = [sender EXCEPT ![s] = "sent"] /\ UNCHANGED faults
       \/ sender' = [sender EXCEPT ![s] = "failed"] /\ Fault
    /\ UNCHANGED <<clientVars, eventVars, proc, pastVars>>

-----------------------------------------------------------------------------
(* Specification *)

Init ==
    /\ client = NoClient /\ made = 0
    /\ conn = [c \in Clients |-> {}] /\ subs = [c \in Clients |-> {}]
    /\ loop = [pc |-> "select", new |-> NoClient]
    /\ booked = FALSE /\ pushed = {} /\ inbox = {}
    /\ passed = [e \in Events |-> 0]
    /\ sender = [s \in Senders |-> "idle"]
    /\ faults = 0 /\ proc = "up"
    /\ kept = {} /\ halfway = {}

Next ==
    \/ Exchange
    \/ Tick
    \/ onOrderBook
    \/ \E e \in Events : onOrderReturn(e)
    \/ \E s \in Senders : SendOrder(s) \/ SendRest(s)

Spec == Init /\ [][Next]_vars

\* The loop ticks, and its select serves every channel that keeps waiting.  A
\* request that returns does so in the end; AuthHangs is the one that may not.
Fairness ==
    /\ SF_vars(initOkexClient)
    /\ WF_vars(subscribeOkex)
    /\ WF_vars(Install)
    /\ \A e \in Events : SF_vars(onOrderReturn(e))

FairSpec == Spec /\ Fairness
=============================================================================
