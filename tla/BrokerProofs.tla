---------------------------- MODULE BrokerProofs ----------------------------
(***************************************************************************)
(* The broker, for any number of clients, events and senders.              *)
(*                                                                         *)
(* That a sender finds a client rests on who can deliver a book: only a    *)
(* client that was subscribed to something, and of those the first becomes *)
(* b.client or was given up half subscribed (Subscribers).  How often an   *)
(* event is passed on is counted while it is under way: the copies that    *)
(* wait, and those passed on, are together no more than the clients that   *)
(* listened when it came (Counted), and apart from the client in use, or   *)
(* the new one, those were kept or given up (Listeners).                   *)
(***************************************************************************)
EXTENDS BrokerProps, FiniteSetTheorems, TLAPS

\* The loop is about to make a client, if only because it hangs in it.
Making == loop.pc \in {"subscribe", "hung"}

NewIsClient == Making => loop.new \in Clients

Subscribers ==
    \A c \in Clients : subs[c] # {} =>
        client # NoClient \/ halfway # {} \/ (Making /\ loop.new = c)

BookNeedsClient == booked => client # NoClient \/ halfway # {}

Current == IF Making THEN loop.new ELSE client

Spare == kept \cup halfway

Listeners == \A c \in Clients : "private" \in conn[c] => c \in Spare \cup {Current}

Copies(e) == {c \in Clients : <<c, e>> \in inbox}

Counted ==
    \A e \in Events :
        /\ passed[e] + Cardinality(Copies(e)) <= MaxClients
        /\ passed[e] + Cardinality(Copies(e)) <= 1 + Cardinality(Spare)
        /\ e \notin pushed => passed[e] = 0

IInv == /\ TypeOK /\ NewIsClient /\ Subscribers /\ BookNeedsClient
        /\ NoClientNeedsHalfway /\ Listeners /\ Counted

USE BoundAssumption, LegAssumption DEF Making

-----------------------------------------------------------------------------
(* Finite sets of clients *)

\* Sets of clients are finite, and the larger has more of them.
LEMMA ClientSets ==
    ASSUME NEW S \in SUBSET Clients, NEW T \in SUBSET S
    PROVE  /\ Cardinality(S) \in Nat /\ Cardinality(T) \in Nat
           /\ Cardinality(T) <= Cardinality(S)
           /\ Cardinality(S) <= MaxClients
<1>1. IsFiniteSet(Clients) /\ Cardinality(Clients) <= MaxClients
  BY FS_Interval DEF Clients
<1>2. IsFiniteSet(S) /\ Cardinality(S) <= Cardinality(Clients)
  BY <1>1, FS_Subset
<1>3. IsFiniteSet(T) /\ Cardinality(T) <= Cardinality(S)
  BY <1>2, FS_Subset
<1>4. Cardinality(S) \in Nat /\ Cardinality(T) \in Nat /\ Cardinality(Clients) \in Nat
  BY <1>1, <1>2, <1>3, FS_CardinalityType
<1> QED
  BY <1>1, <1>2, <1>3, <1>4

\* With one more than a set of clients, there is one more at most.
LEMMA OneMore ==
    ASSUME NEW S \in SUBSET Clients, NEW x, NEW T \in SUBSET Clients, T \subseteq S \cup {x}
    PROVE  Cardinality(T) <= 1 + Cardinality(S)
<1>0. IsFiniteSet(Clients)
  BY FS_Interval DEF Clients
<1>1. IsFiniteSet(S) /\ Cardinality(S) \in Nat
  BY <1>0, FS_Subset, FS_CardinalityType
<1>2. IsFiniteSet(S \cup {x}) /\ Cardinality(S \cup {x}) <= 1 + Cardinality(S)
  BY <1>1, FS_AddElement
<1>3. IsFiniteSet(T) /\ Cardinality(T) <= Cardinality(S \cup {x})
  BY <1>2, FS_Subset
<1>4. Cardinality(T) \in Nat /\ Cardinality(S \cup {x}) \in Nat
  BY <1>2, <1>3, FS_CardinalityType
<1> QED
  BY <1>1, <1>2, <1>3, <1>4

\* Waiting copies are of clients.
LEMMA CopiesCount ==
    ASSUME NEW e
    PROVE  /\ Copies(e) \in SUBSET Clients
           /\ Cardinality(Copies(e)) \in Nat
           /\ Cardinality(Copies(e)) <= MaxClients
<1>1. Copies(e) \in SUBSET Clients
  BY DEF Copies
<1> QED
  BY <1>1, ClientSets

\* The counts stay when no event moves and no client is forgotten.
LEMMA CountedKept ==
    ASSUME IInv, UNCHANGED <<pushed, inbox, passed>>, kept \subseteq kept', halfway \subseteq halfway',
           kept' \subseteq Clients, halfway' \subseteq Clients
    PROVE  Counted'
<1>1. Spare \in SUBSET Spare' /\ Spare' \in SUBSET Clients
  BY DEF Spare
<1>2. Cardinality(Spare) <= Cardinality(Spare') /\ Cardinality(Spare) \in Nat /\ Cardinality(Spare') \in Nat
  BY <1>1, ClientSets
<1> SUFFICES ASSUME NEW e \in Events
             PROVE  /\ passed[e] + Cardinality(Copies(e)) <= MaxClients
                    /\ passed[e] + Cardinality(Copies(e)) <= 1 + Cardinality(Spare')
                    /\ e \notin pushed => passed[e] = 0
  BY DEF Counted, Copies
<1>3. passed[e] \in Nat /\ Cardinality(Copies(e)) \in Nat
  BY CopiesCount DEF IInv, TypeOK
<1> QED
  BY <1>2, <1>3 DEF IInv, Counted

-----------------------------------------------------------------------------
(* The initial states *)

\* The initial states satisfy the invariant.
LEMMA InitIInv == Init => IInv
<1> SUFFICES ASSUME Init PROVE IInv
  OBVIOUS
<1>1. TypeOK
  <2>1. passed \in [Events -> 0..MaxClients] /\ faults \in 0..MaxFaults
    BY DEF Init
  <2>2. conn \in [Clients -> SUBSET Connections] /\ subs \in [Clients -> SUBSET Channels]
    BY DEF Init
  <2>3. sender \in [Senders -> {"idle", "rest", "sent", "failed"}]
    BY DEF Init
  <2>4. made \in 0..MaxClients /\ client \in 0..made /\ client = NoClient
    BY DEF Init, NoClient
  <2>5. loop \in [pc : {"select", "subscribe", "hung"}, new : 0..made]
    BY DEF Init, NoClient
  <2>6. /\ inbox \subseteq Clients \X pushed /\ pushed \subseteq Events /\ booked \in BOOLEAN
        /\ proc \in {"up", "panic"} /\ kept \subseteq Clients /\ halfway \subseteq Clients
    BY DEF Init
  <2> QED
    BY <2>1, <2>2, <2>3, <2>4, <2>5, <2>6 DEF TypeOK
<1>2. NewIsClient /\ Subscribers /\ BookNeedsClient /\ NoClientNeedsHalfway /\ Listeners
  BY DEF Init, NewIsClient, Subscribers, BookNeedsClient, NoClientNeedsHalfway, Listeners
<1>3. \A e : Copies(e) = {}
  BY DEF Init, Copies
<1>4. Cardinality({}) = 0 /\ Spare = {}
  BY FS_EmptySet DEF Init, Spare
<1>5. Counted
  <2>1. \A e \in Events : passed[e] = 0
    BY DEF Init
  <2>2. \A e \in Events : Cardinality(Copies(e)) = 0
    BY <1>3, <1>4
  <2>3. Cardinality(Spare) = 0
    BY <1>4
  <2> SUFFICES ASSUME NEW e \in Events
               PROVE  /\ passed[e] + Cardinality(Copies(e)) <= MaxClients
                      /\ passed[e] + Cardinality(Copies(e)) <= 1 + Cardinality(Spare)
    BY <2>1 DEF Counted
  <2>4. passed[e] + Cardinality(Copies(e)) = 0
    BY <2>1, <2>2
  <2> QED
    BY <2>3, <2>4
<1> QED
  BY <1>1, <1>2, <1>5 DEF IInv

-----------------------------------------------------------------------------
(* The exchange *)

\* A connection that breaks listens no more; nothing else changes.
LEMMA DisconnectIInv == IInv /\ Disconnect => IInv'
<1> SUFFICES ASSUME IInv, Disconnect PROVE IInv'
  OBVIOUS
<1>1. conn' \in [Clients -> SUBSET Connections] /\ \A c \in Clients : conn'[c] \subseteq conn[c]
  BY DEF IInv, TypeOK, Disconnect
<1>2. TypeOK'
  BY <1>1 DEF IInv, TypeOK, Disconnect, eventVars, pastVars
<1>3. Listeners'
  BY <1>1 DEF IInv, Listeners, Spare, Current, Disconnect, pastVars
<1>4. /\ NewIsClient' /\ Subscribers' /\ BookNeedsClient' /\ NoClientNeedsHalfway' /\ Counted'
  BY DEF IInv, NewIsClient, Subscribers, BookNeedsClient, NoClientNeedsHalfway, Counted, Copies,
         Spare, Disconnect, eventVars, pastVars
<1> QED
  BY <1>2, <1>3, <1>4 DEF IInv

\* An event reaches the current client and spare ones, each once.
LEMMA PushOrderIInv == ASSUME NEW e \in Events, IInv, PushOrder(e) PROVE IInv'
<1> DEFINE Reached == {d \in Clients : Listening(d, LegOf[e])}
<1> USE DEF PushOrder, clientVars, pastVars
<1>0. /\ e \notin pushed /\ pushed' = pushed \cup {e}
      /\ inbox' = inbox \cup {<<c, e>> : c \in Reached}
  OBVIOUS
<1>1. inbox' \subseteq Clients \X pushed'
  BY <1>0 DEF IInv, TypeOK
<1>2. TypeOK'
  BY <1>0, <1>1 DEF IInv, TypeOK
<1>3. Reached \subseteq Spare \cup {Current}
  <2> SUFFICES ASSUME NEW d \in Reached PROVE d \in Spare \cup {Current}
    OBVIOUS
  <2>1. "private" \in conn[d]
    BY DEF Listening, Carrier
  <2> QED
    BY <2>1 DEF IInv, Listeners
<1>4. Copies(e) = {} /\ Copies(e)' = Reached
  BY <1>0 DEF Copies, IInv, TypeOK
<1>5. Cardinality(Reached) <= 1 + Cardinality(Spare) /\ Cardinality(Reached) <= MaxClients
      /\ Cardinality(Reached) \in Nat /\ Cardinality(Spare) \in Nat
  <2>1. Spare \in SUBSET Clients /\ Reached \in SUBSET Clients
    BY DEF IInv, TypeOK, Spare
  <2> HIDE DEF Reached
  <2> QED
    BY <1>3, <2>1, OneMore, ClientSets
<1>6. ASSUME NEW f \in Events, f # e PROVE Copies(f)' = Copies(f)
  BY <1>0, <1>6 DEF Copies
<1>7. Counted'
  <2> SUFFICES ASSUME NEW f \in Events
               PROVE  /\ passed[f] + Cardinality(Copies(f)') <= MaxClients
                      /\ passed[f] + Cardinality(Copies(f)') <= 1 + Cardinality(Spare)
                      /\ f \notin pushed' => passed[f] = 0
    BY DEF Counted, Spare
  <2>1. CASE f = e
    <3>1. passed[e] = 0 /\ e \in pushed'
      BY <1>0 DEF IInv, Counted
    <3>2. Cardinality(Copies(e)') = Cardinality(Reached)
      BY <1>4
    <3> HIDE DEF Reached
    <3> QED
      BY <1>5, <2>1, <3>1, <3>2
  <2>2. CASE f # e
    BY <1>0, <1>6, <2>2 DEF IInv, Counted
  <2> QED
    BY <2>1, <2>2
<1>8. /\ NewIsClient' /\ Subscribers' /\ BookNeedsClient' /\ NoClientNeedsHalfway' /\ Listeners'
  BY DEF IInv, NewIsClient, Subscribers, BookNeedsClient, NoClientNeedsHalfway, Listeners, Spare,
         Current
<1> QED
  BY <1>2, <1>7, <1>8 DEF IInv

-----------------------------------------------------------------------------
(* A tick of the loop *)

\* A client that is replaced while it listens for orders is kept.
LEMMA initOkexClientIInv == IInv /\ initOkexClient => IInv'
<1> SUFFICES ASSUME IInv, initOkexClient PROVE IInv'
  OBVIOUS
<1> USE DEF initOkexClient, UntilThen, eventVars, Selecting
<1>1. kept \subseteq kept' /\ kept' \subseteq Clients /\ halfway' = halfway
  BY DEF IInv, TypeOK, HalfBroken
<1>2. TypeOK'
  BY <1>1 DEF IInv, TypeOK, Fault
<1>3. Counted'
  BY <1>1, CountedKept DEF IInv, TypeOK
<1>4. NewIsClient'
  BY DEF IInv, TypeOK, NewIsClient, Clients
<1>5. Subscribers' /\ BookNeedsClient' /\ NoClientNeedsHalfway'
  BY DEF IInv, Subscribers, BookNeedsClient, NoClientNeedsHalfway
<1>6. Listeners'
  <2>1. CASE Fault /\ UNCHANGED <<made, loop, kept>>
    BY <2>1 DEF IInv, Listeners, Spare, Current
  <2>2. CASE kept' = kept \cup HalfBroken
    <3> SUFFICES ASSUME NEW c \in Clients, "private" \in conn[c] PROVE c \in Spare'
      BY DEF Listeners
    <3>1. c \in Spare \/ c = client
      BY DEF IInv, Listeners, Current
    <3>2. CASE c = client
      <4>1. conn[c] # Connections /\ conn[c] \subseteq Connections
        BY <3>2 DEF Broken, IInv, TypeOK
      <4>2. conn[c] = {"private"}
        BY <4>1 DEF Connections
      <4> QED
        BY <4>2, <2>2 DEF HalfBroken, Spare
    <3> QED
      BY <3>1, <3>2, <1>1 DEF Spare
  <2> QED
    BY <2>1, <2>2
<1> QED
  BY <1>2, <1>3, <1>4, <1>5, <1>6 DEF IInv

\* A client is subscribed further, or given up.
LEMMA subscribeOkexIInv == IInv /\ subscribeOkex => IInv'
<1> SUFFICES ASSUME IInv, subscribeOkex PROVE IInv'
  OBVIOUS
<1> USE DEF subscribeOkex, eventVars
<1> DEFINE new == loop.new
           ch  == NextChannel(new)
<1>1. new \in Clients /\ loop.pc = "subscribe" /\ ch \in Channels
  BY DEF IInv, NewIsClient, NextChannel, Channels
<1>2. /\ kept' = kept /\ halfway \subseteq halfway' /\ halfway' \subseteq Clients
      /\ client' = client /\ made' = made /\ proc' = proc /\ sender' = sender
  BY <1>1 DEF IInv, TypeOK
<1>3. \/ Subscribed(new, ch)
      \/ UNCHANGED <<conn, subs>>
  OBVIOUS
<1>4. /\ subs' \in [Clients -> SUBSET Channels] /\ conn' \in [Clients -> SUBSET Connections]
      /\ \A c \in Clients : subs[c] \subseteq subs'[c]
      /\ \A c \in Clients : c # new => subs'[c] = subs[c] /\ conn'[c] = conn[c]
  <2>1. CASE Subscribed(new, ch)
    <3>1. Carrier(ch) \in Connections
      BY DEF Carrier, Connections
    <3> HIDE DEF new, ch
    <3> QED
      BY <1>1, <2>1, <3>1 DEF Subscribed, IInv, TypeOK
  <2>2. CASE UNCHANGED <<conn, subs>>
    BY <2>2 DEF IInv, TypeOK
  <2> QED
    BY <1>3, <2>1, <2>2
<1>5. \/ UNCHANGED <<loop, halfway>>
      \/ /\ loop' = [pc |-> "select", new |-> NoClient]
         /\ halfway' = halfway \cup {new}
  BY DEF Release
<1>6. faults' \in 0..MaxFaults
  BY DEF IInv, TypeOK, Fault
<1>7. TypeOK'
  BY <1>1, <1>2, <1>4, <1>5, <1>6 DEF IInv, TypeOK, NoClient, Clients, Channels
<1>8. Counted'
  BY <1>2, CountedKept DEF IInv, TypeOK
<1>9. NewIsClient'
  BY <1>5 DEF IInv, NewIsClient
<1>10. Subscribers'
  BY <1>1, <1>2, <1>4, <1>5 DEF IInv, Subscribers
<1>11. BookNeedsClient' /\ NoClientNeedsHalfway'
  BY <1>2 DEF IInv, BookNeedsClient, NoClientNeedsHalfway
<1>12. Listeners'
  BY <1>1, <1>2, <1>4, <1>5 DEF IInv, Listeners, Spare, Current
<1> QED
  BY <1>7, <1>8, <1>9, <1>10, <1>11, <1>12 DEF IInv

\* Who hangs was about to be subscribed.
LEMMA AuthHangsIInv == IInv /\ AuthHangs => IInv'
<1> SUFFICES ASSUME IInv, AuthHangs PROVE IInv'
  OBVIOUS
<1> USE DEF AuthHangs, eventVars, pastVars
<1>1. loop.pc = "subscribe" /\ loop'.pc = "hung" /\ loop'.new = loop.new
  BY DEF IInv, TypeOK
<1>2. TypeOK'
  BY DEF IInv, TypeOK
<1>3. NewIsClient' /\ Subscribers' /\ BookNeedsClient' /\ NoClientNeedsHalfway' /\ Listeners'
  BY <1>1 DEF IInv, NewIsClient, Subscribers, BookNeedsClient, NoClientNeedsHalfway, Listeners,
              Spare, Current
<1>4. Counted'
  BY CountedKept DEF IInv, TypeOK
<1> QED
  BY <1>2, <1>3, <1>4 DEF IInv

\* The new client takes the place of the current one.
LEMMA InstallIInv == IInv /\ Install => IInv'
<1> SUFFICES ASSUME IInv, Install PROVE IInv'
  OBVIOUS
<1> USE DEF Install, Release, eventVars, pastVars
<1>1. loop.new \in Clients /\ client' = loop.new /\ client' # NoClient
  BY DEF IInv, NewIsClient, Clients, NoClient
<1>2. TypeOK'
  BY <1>1 DEF IInv, TypeOK, AllChannels, NoClient
<1>3. NewIsClient' /\ Subscribers' /\ BookNeedsClient' /\ NoClientNeedsHalfway'
  BY <1>1 DEF IInv, NewIsClient, Subscribers, BookNeedsClient, NoClientNeedsHalfway
<1>4. Listeners'
  BY DEF IInv, Listeners, Spare, Current
<1>5. Counted'
  BY CountedKept DEF IInv, TypeOK
<1> QED
  BY <1>2, <1>3, <1>4, <1>5 DEF IInv

-----------------------------------------------------------------------------
(* What the loop passes on *)

\* Only a client that was subscribed can deliver a book.
LEMMA onOrderBookIInv == IInv /\ onOrderBook => IInv'
<1> SUFFICES ASSUME IInv, onOrderBook PROVE IInv'
  OBVIOUS
<1> USE DEF onOrderBook, clientVars, pastVars
<1>1. TypeOK'
  BY DEF IInv, TypeOK
<1>2. BookNeedsClient'
  BY DEF Selecting, IInv, Subscribers, BookNeedsClient
<1>3. NewIsClient' /\ Subscribers' /\ NoClientNeedsHalfway' /\ Listeners'
  BY DEF IInv, NewIsClient, Subscribers, NoClientNeedsHalfway, Listeners, Spare, Current
<1>4. Counted'
  BY CountedKept DEF IInv, TypeOK
<1> QED
  BY <1>1, <1>2, <1>3, <1>4 DEF IInv

\* An event that is passed on waits no more.
LEMMA onOrderReturnIInv == ASSUME NEW e \in Events, IInv, onOrderReturn(e) PROVE IInv'
<1> USE DEF onOrderReturn, clientVars, pastVars
<1>1. PICK c \in Clients : <<c, e>> \in inbox /\ inbox' = inbox \ {<<c, e>>}
  OBVIOUS
<1>2. /\ c \in Copies(e) /\ Copies(e)' = Copies(e) \ {c}
      /\ \A f \in Events : f # e => Copies(f)' = Copies(f)
  BY <1>1 DEF Copies
<1>3. Cardinality(Copies(e)') = Cardinality(Copies(e)) - 1
  <2>1. IsFiniteSet(Copies(e))
    <3>1. IsFiniteSet(Clients) /\ Copies(e) \in SUBSET Clients
      BY FS_Interval DEF Copies, Clients
    <3> QED
      BY <3>1, FS_Subset
  <2> QED
    BY <1>2, <2>1, FS_RemoveElement
<1>4. Cardinality(Copies(e)) \in Nat /\ Cardinality(Copies(e)') \in Nat /\ passed[e] \in Nat
  <2>1. Copies(e)' \in SUBSET Clients
    BY DEF Copies
  <2> QED
    BY <2>1, CopiesCount, ClientSets DEF IInv, TypeOK
<1>5. /\ passed' \in [Events -> Nat] /\ passed'[e] = passed[e] + 1
      /\ \A f \in Events : f # e => passed'[f] = passed[f]
  BY DEF IInv, TypeOK
<1>6. Counted'
  <2> SUFFICES ASSUME NEW f \in Events
               PROVE  /\ passed'[f] + Cardinality(Copies(f)') <= MaxClients
                      /\ passed'[f] + Cardinality(Copies(f)') <= 1 + Cardinality(Spare)
                      /\ f \notin pushed => passed'[f] = 0
    BY DEF Counted, Spare
  <2>1. CASE f = e
    <3>1. e \in pushed
      BY <1>1 DEF IInv, TypeOK
    <3> QED
      BY <1>3, <1>4, <1>5, <2>1, <3>1 DEF IInv, Counted
  <2>2. CASE f # e
    BY <1>2, <1>5, <2>2 DEF IInv, Counted
  <2> QED
    BY <2>1, <2>2
<1>7. passed' \in [Events -> 0..MaxClients]
  <2>1. passed'[e] <= MaxClients
    BY <1>3, <1>4, <1>5 DEF IInv, Counted
  <2> QED
    BY <1>5, <2>1 DEF IInv, TypeOK
<1>8. TypeOK'
  BY <1>1, <1>7 DEF IInv, TypeOK
<1>9. /\ NewIsClient' /\ Subscribers' /\ BookNeedsClient' /\ NoClientNeedsHalfway' /\ Listeners'
  BY DEF IInv, NewIsClient, Subscribers, BookNeedsClient, NoClientNeedsHalfway, Listeners, Spare,
         Current
<1> QED
  BY <1>6, <1>8, <1>9 DEF IInv

-----------------------------------------------------------------------------
(* SendOrder *)

\* Without a client, a booked sender needs one that was given up.
LEMMA SendIInv ==
    ASSUME NEW s \in Senders, IInv, SendOrder(s) \/ SendRest(s) PROVE IInv'
<1> USE DEF SendOrder, SendRest, clientVars, eventVars, pastVars
<1>1. UNCHANGED <<clientVars, eventVars, pastVars>>
  OBVIOUS
<1>2. /\ sender' \in [Senders -> {"idle", "rest", "sent", "failed"}]
      /\ proc' \in {"up", "panic"} /\ faults' \in 0..MaxFaults
  BY DEF IInv, TypeOK, Fault, Alive
<1>3. TypeOK'
  BY <1>1, <1>2 DEF IInv, TypeOK
<1>4. NoClientNeedsHalfway'
  BY DEF IInv, BookNeedsClient, NoClientNeedsHalfway
<1>5. NewIsClient' /\ Subscribers' /\ BookNeedsClient' /\ Listeners'
  BY <1>1 DEF IInv, NewIsClient, Subscribers, BookNeedsClient, Listeners, Spare, Current
<1>6. Counted'
  BY <1>1, CountedKept DEF IInv, TypeOK
<1> QED
  BY <1>3, <1>4, <1>5, <1>6 DEF IInv

-----------------------------------------------------------------------------
(* Theorems *)

\* Every step preserves the invariant.
LEMMA NextIInv == IInv /\ [Next]_vars => IInv'
<1> SUFFICES ASSUME IInv, [Next]_vars PROVE IInv'
  OBVIOUS
<1>1. CASE Next
  BY <1>1, DisconnectIInv, PushOrderIInv, initOkexClientIInv, subscribeOkexIInv, AuthHangsIInv, InstallIInv,
     onOrderBookIInv, onOrderReturnIInv, SendIInv DEF Next, Exchange, Tick
<1>2. CASE UNCHANGED vars
  BY <1>2 DEF IInv, TypeOK, NewIsClient, Subscribers, BookNeedsClient, NoClientNeedsHalfway,
              Listeners, Current, Counted, Copies, Spare, vars, clientVars, eventVars, pastVars
<1> QED
  BY <1>1, <1>2

\* The invariant holds in every state.
LEMMA Invariance == Spec => []IInv
BY InitIInv, NextIInv, PTL DEF Spec

\* The broker is well typed, and the client in use is subscribed to all channels.
THEOREM Types == Spec => []TypeOK
<1>1. IInv => TypeOK
  BY DEF IInv
<1> QED
  BY <1>1, Invariance, PTL

\* SendOrder dereferences a nil client only when one was given up half subscribed.
THEOREM ClientAtHand == Spec => []NoClientNeedsHalfway
<1>1. IInv => NoClientNeedsHalfway
  BY DEF IInv
<1> QED
  BY <1>1, Invariance, PTL

\* An event is repeated at most once for each client kept or given up.
THEOREM FewRepeats == Spec => []RepeatsNeedKept
<1>1. IInv => RepeatsNeedKept
  <2> SUFFICES ASSUME IInv, NEW e \in Events PROVE passed[e] <= 1 + Cardinality(Spare)
    BY DEF RepeatsNeedKept, Spare
  <2>1. Cardinality(Copies(e)) \in Nat /\ Cardinality(Spare) \in Nat /\ passed[e] \in Nat
    <3>1. Spare \in SUBSET Clients
      BY DEF IInv, TypeOK, Spare
    <3> QED
      BY <3>1, CopiesCount, ClientSets DEF IInv, TypeOK
  <2> QED
    BY <2>1 DEF IInv, Counted
<1> QED
  BY <1>1, Invariance, PTL
=============================================================================
