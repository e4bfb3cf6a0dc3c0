---------------------------- MODULE BrokerProps ----------------------------
(* What the broker (core/broker.go) must guarantee. *)
EXTENDS Broker, FiniteSets

\* Every variable keeps its type (broker.go:72-88), and the client in use was
\* fully subscribed when it was installed (379-392): it misses no kind of event.
TypeOK ==
    /\ made \in 0..MaxClients /\ client \in 0..made
    /\ client # NoClient => subs[client] = Channels
    /\ conn \in [Clients -> SUBSET Connections] /\ subs \in [Clients -> SUBSET Channels]
    /\ loop \in [pc : {"select", "subscribe", "hung"}, new : 0..made]
    /\ booked \in BOOLEAN
    /\ sender \in [Senders -> {"idle", "rest", "sent", "failed"}]
    /\ pushed \subseteq Events /\ inbox \subseteq Clients \X pushed
    /\ passed \in [Events -> 0..MaxClients]
    /\ faults \in 0..MaxFaults
    /\ proc \in {"up", "panic"}
    /\ kept \subseteq Clients /\ halfway \subseteq Clients

\* An order is never sent without a client (broker.go:535), unless an earlier
\* client was given up half subscribed (383-386) and its order books let tasks start.
NoClientNeedsHalfway == proc = "panic" => halfway # {}

\* An order event is passed on once (broker.go:405), and once more at most for
\* each client that went on receiving when it was replaced: it had lost only its
\* public connection (366), or was given up half subscribed (383-386).
RepeatsNeedKept == \A e \in Events : passed[e] <= 1 + Cardinality(kept \cup halfway)

Working == client \in Clients /\ conn[client] = Connections

\* An authentication has gone unanswered: no goroutine of the broker gets on.
Hung == loop.pc = "hung"

\* The broker does not stay without a working client (broker.go:364-394) for
\* want of trying: in the end there is one, or no client is left to try, or one
\* hangs in its authentication, for which the code has no way out.
Reconnects == ~Working ~> (Working \/ made = MaxClients \/ Hung \/ ~Alive)

\* A received order event is passed on (broker.go:365-406), although the client that
\* received it may have been replaced, given up half subscribed or lost meanwhile,
\* and the loop may be connecting, as long as that does not hang.
ReceivedIsPassed ==
    \A c \in Clients, e \in Events :
        <<c, e>> \in inbox ~> (<<c, e>> \notin inbox \/ Hung \/ ~Alive)
=============================================================================
