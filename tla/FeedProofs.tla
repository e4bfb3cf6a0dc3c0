----------------------------- MODULE FeedProofs -----------------------------
(***************************************************************************)
(* The way of an order book, for any number of books, any times and any    *)
(* gap.                                                                    *)
(*                                                                         *)
(* Why the silence of an outage is noticed: the first book from after it   *)
(* that compares its time finds one from before (Stored: what it finds was *)
(* stored by a book that is done, and no such book is from after the       *)
(* silence), unless a book that gave up has stored its own; and that one   *)
(* gave up behind a book from before, one yet to compare, or one for which *)
(* this was settled already.                                               *)
(*                                                                         *)
(* Why a recovery has a reason: the time of a book that is done is there,  *)
(* unless an older one has replaced it (TimeIsKept).                       *)
(***************************************************************************)
EXTENDS FeedProps, TLAPS

Past == {"recover", "lock", "body", "leaving", "done"}

Stored == latest # 0 => latest \in Times /\ at[latest] = "done"

NoticedArePast == \A b \in noticed : at[b] \in Past

\* The time of a book that is done was stored: it is there, or a newer one is, or an
\* older one has replaced it or a newer one.
TimeIsKept ==
    \A b \in Times : at[b] = "done" => b <= latest \/ \E d \in overtaken : d >= b

IInv == TypeOK /\ Stored /\ NoticedArePast /\ TimeIsKept /\ SilenceIsNoticed

USE BoundAssumption, GapAssumption

\* The initial states satisfy the invariant.
LEMMA InitIInv == Init => IInv
<1> SUFFICES ASSUME Init PROVE IInv
  OBVIOUS
<1> USE DEF Init
<1>1. MaxTime \in Nat
  OBVIOUS
<1>2. at \in [Times -> Stages] /\ Inside = {}
  BY DEF Stages, Inside
<1>3. TypeOK
  BY <1>1, <1>2 DEF TypeOK
<1>4. Stored /\ NoticedArePast
  <2>1. Stored
    BY DEF Stored
  <2>2. NoticedArePast
    BY DEF NoticedArePast
  <2> QED
    BY <2>1, <2>2
<1>5. SilenceIsNoticed
  BY DEF SilenceIsNoticed, Passed
<1>6. TimeIsKept
  BY <1>2 DEF TimeIsKept
<1> QED
  BY <1>3, <1>4, <1>5, <1>6 DEF IInv

-----------------------------------------------------------------------------
(* Steps, by the part of the state they touch *)

\* Connections, the loops and the locks.
LEMMA LoopIInv ==
    ASSUME IInv,
           Disconnect \/ StartConnecting \/ Connect \/ AuthHangs \/ RunSlice \/ executeSlice \/ SendOrder
              \/ SendOverWs \/ SendFails \/ SendRest \/ \E b \in Times : Fatal(b)
    PROVE  IInv'
<1> USE DEF Disconnect, StartConnecting, Connect, AuthHangs, RunSlice, executeSlice, SendOrder, SendOverWs,
            SendFails, SendRest, Fatal, RunBecomes, netVars, taskVars, pastVars
<1>1. UNCHANGED <<at, latest, noticed, overtaken, skipped>>
  OBVIOUS
<1>2. conn' \in {"up", "half", "down"} /\ loop' \in {"select", "connect", "hung"} /\ proc' \in {"up", "fatal"}
  BY DEF IInv, TypeOK
<1>3. used' \in [sends : Nat, faults : Nat]
  <2>1. used \in [sends : Nat, faults : Nat]
    BY DEF IInv, TypeOK
  <2> QED
    BY <2>1 DEF Fault
<1>4. /\ run' \in {"select", "slice", "wait", "send", "rest"}
      /\ run' \in {"wait", "send", "rest"} => \A b \in Times : at[b] # "body"
  BY DEF IInv, TypeOK, TaskMtxFree
<1>5. TypeOK'
  BY <1>1, <1>2, <1>3, <1>4 DEF IInv, TypeOK, Inside
<1> QED
  BY <1>1, <1>5 DEF IInv, Stored, NoticedArePast, TimeIsKept, SilenceIsNoticed, AfterSilence,
                    Born, Passed, Noticed, Hidden

\* What holds of the types when one book goes one stage on.
LEMMA BookTypes ==
    ASSUME IInv, NEW b \in Times, NEW from, NEW to \in Stages, Becomes(b, from, to),
           UNCHANGED <<netVars, run, used, proc>>,
           latest' \in 0..MaxTime, noticed' \subseteq Times, overtaken' \subseteq Times,
           skipped' \subseteq [book : Times, behind : 0..MaxTime],
           to \in {"inside", "recover", "lock", "body"} => Inside \subseteq {b},
           to = "body" => TaskMtxFree
    PROVE  /\ TypeOK'
           /\ at[b] = from /\ at'[b] = to /\ \A c \in Times : c # b => at'[c] = at[c]
<1>1. /\ at' \in [Times -> Stages]
      /\ at[b] = from /\ at'[b] = to /\ \A c \in Times : c # b => at'[c] = at[c]
  BY DEF Becomes, IInv, TypeOK
<1>2. \A c, d \in Inside' : c = d
  BY <1>1 DEF Inside, IInv, TypeOK
<1>3. run \in {"wait", "send", "rest"} => \A c \in Times : at'[c] # "body"
  BY <1>1 DEF TaskMtxFree, IInv, TypeOK
<1> QED
  BY <1>1, <1>2, <1>3 DEF IInv, TypeOK, netVars

\* Stages at which neither the comparison nor the store is made.
LEMMA AdvanceIInv ==
    ASSUME IInv, NEW b \in Times,
           onOrderBook(b) \/ RunBook(b) \/ Recover(b) \/ Lock(b) \/ Unlock(b)
    PROVE  IInv'
<1>1. PICK from \in Stages, to \in Stages :
         /\ Becomes(b, from, to)
         /\ from \notin {"none", "done"} /\ to \notin {"none", "done"}
         /\ from \in Past <=> to \in Past
         /\ to \in {"inside", "recover", "lock", "body"} => b \in Inside
         /\ to = "body" => TaskMtxFree
  BY DEF onOrderBook, RunBook, Recover, Lock, Unlock, Becomes, Stages, Past, Inside
<1>2. UNCHANGED <<netVars, latest, run, used, proc, noticed, overtaken, skipped>>
  BY DEF onOrderBook, RunBook, Recover, Lock, Unlock, pastVars
<1>3. to \in {"inside", "recover", "lock", "body"} => Inside \subseteq {b}
  BY <1>1 DEF IInv, TypeOK
<1>4. /\ TypeOK'
      /\ at[b] = from /\ at'[b] = to /\ \A c \in Times : c # b => at'[c] = at[c]
  BY <1>1, <1>2, <1>3, BookTypes DEF IInv, TypeOK
<1>5. Stored' /\ NoticedArePast'
  <2>1. Stored'
    BY <1>1, <1>2, <1>4 DEF IInv, Stored
  <2>2. NoticedArePast'
    BY <1>1, <1>2, <1>4 DEF IInv, TypeOK, NoticedArePast
  <2> QED
    BY <2>1, <2>2
<1>6. Born' = Born /\ \A c \in Times : Passed(c)' = Passed(c)
  BY <1>1, <1>4 DEF Born, Passed, Past
<1>7. SilenceIsNoticed'
  BY <1>2, <1>6 DEF IInv, SilenceIsNoticed, AfterSilence, Born, Noticed, Hidden
<1>8. TimeIsKept'
  BY <1>1, <1>2, <1>4 DEF IInv, TimeIsKept
<1> QED
  BY <1>4, <1>5, <1>7, <1>8 DEF IInv

\* A book that is new has nothing behind it yet.
LEMMA PushIInv == ASSUME IInv, NEW b \in Times, Push(b) PROVE IInv'
<1> USE DEF Push, pastVars
<1>1. /\ at' = [at EXCEPT ![b] = "inbox"] /\ at[b] = "none" /\ \A c \in Born : c < b
      /\ UNCHANGED <<netVars, latest, run, used, proc, noticed, overtaken, skipped>>
  OBVIOUS
<1>2. /\ at' \in [Times -> Stages] /\ at'[b] = "inbox" /\ \A c \in Times : c # b => at'[c] = at[c]
  BY <1>1 DEF IInv, TypeOK, Stages
<1>3. TypeOK'
  BY <1>1, <1>2 DEF IInv, TypeOK, Inside, netVars
<1>4. Stored' /\ NoticedArePast'
  <2>1. Stored'
    BY <1>1, <1>2 DEF IInv, Stored
  <2>2. NoticedArePast'
    BY <1>1, <1>2 DEF IInv, TypeOK, NoticedArePast, Past
  <2> QED
    BY <2>1, <2>2
<1>5. Born' = Born \cup {b} /\ \A c \in Times : Passed(c)' = Passed(c)
  BY <1>1, <1>2 DEF Born, Passed
<1>6. SilenceIsNoticed'
  <2> SUFFICES ASSUME NEW c \in AfterSilence', Passed(c) # {} PROVE Noticed(c) \/ Hidden(c)
    BY <1>1, <1>5 DEF SilenceIsNoticed, Noticed, Hidden, AfterSilence, Born
  <2>1. c \in Times /\ c \in Born'
    BY DEF AfterSilence, Born
  <2>2. CASE c = b
    <3>1. PICK d \in Times : d >= b /\ at[d] \in Past
      BY <2>2 DEF Passed, Past
    <3>2. d \in Born
      BY <3>1 DEF Born, Past
    <3> QED
      BY <1>1, <3>1, <3>2 DEF Times
  <2>3. CASE c # b
    <3>1. c \in AfterSilence
      BY <1>5, <2>1, <2>3 DEF AfterSilence
    <3> QED
      BY <3>1 DEF IInv, SilenceIsNoticed
  <2> QED
    BY <2>2, <2>3
<1>7. TimeIsKept'
  BY <1>1, <1>2 DEF IInv, TimeIsKept
<1> QED
  BY <1>3, <1>4, <1>6, <1>7 DEF IInv

\* A book that gives up hides a silence only behind one that cannot have seen it.
LEMMA TryLockIInv == ASSUME IInv, NEW b \in Times, TryLock(b) PROVE IInv'
<1>1. UNCHANGED <<netVars, latest, run, used, proc, noticed, overtaken>>
  BY DEF TryLock
<1>2. CASE Inside = {} /\ Becomes(b, "started", "inside") /\ UNCHANGED skipped
  <2>1. /\ TypeOK'
        /\ at[b] = "started" /\ at'[b] = "inside" /\ \A c \in Times : c # b => at'[c] = at[c]
    BY <1>1, <1>2, BookTypes DEF IInv, TypeOK, Stages
  <2>2. Stored' /\ NoticedArePast'
    <3>1. Stored'
      BY <1>1, <2>1 DEF IInv, Stored
    <3>2. NoticedArePast'
      BY <1>1, <2>1 DEF IInv, TypeOK, NoticedArePast, Past
    <3> QED
      BY <3>1, <3>2
  <2>3. Born' = Born /\ \A c \in Times : Passed(c)' = Passed(c)
    BY <2>1 DEF Born, Passed
  <2>4. SilenceIsNoticed'
    BY <1>1, <1>2, <2>3 DEF IInv, SilenceIsNoticed, AfterSilence, Born, Noticed, Hidden
  <2>5. TimeIsKept'
    BY <1>1, <2>1 DEF IInv, TimeIsKept
  <2> QED
    BY <2>1, <2>2, <2>4, <2>5 DEF IInv
<1>3. CASE /\ Inside # {} /\ Becomes(b, "started", "leaving")
           /\ skipped' = skipped \cup {[book |-> b, behind |-> Ahead]}
  <2>1. PICK h \in Inside : Ahead = IF at[h] = "inside" THEN 0 ELSE h
    BY <1>3 DEF Ahead
  <2>2. h \in Times /\ Ahead \in 0..MaxTime /\ MaxTime \in Nat
    BY <2>1 DEF Inside, Times
  <2>3. skipped' \subseteq [book : Times, behind : 0..MaxTime]
    BY <1>3, <2>2 DEF IInv, TypeOK
  <2>4. /\ TypeOK'
        /\ at[b] = "started" /\ at'[b] = "leaving" /\ \A c \in Times : c # b => at'[c] = at[c]
    BY <1>1, <1>3, <2>3, BookTypes DEF IInv, TypeOK, Stages
  <2>5. Stored' /\ NoticedArePast'
    <3>1. Stored'
      BY <1>1, <2>4 DEF IInv, Stored
    <3>2. NoticedArePast'
      BY <1>1, <2>4 DEF IInv, TypeOK, NoticedArePast, Past
    <3> QED
      BY <3>1, <3>2
  <2>6. Born' = Born
    BY <2>4 DEF Born
  <2>7. SilenceIsNoticed'
    <3> SUFFICES ASSUME NEW c \in AfterSilence, Passed(c)' # {} PROVE Noticed(c) \/ Hidden(c)'
      BY <1>1, <2>6 DEF SilenceIsNoticed, AfterSilence, Born, Noticed
    <3>1. Hidden(c) => Hidden(c)'
      BY <1>3 DEF Hidden
    <3>2. CASE Passed(c) # {}
      BY <3>1, <3>2 DEF IInv, SilenceIsNoticed
    <3>3. CASE Passed(c) = {}
      <4>1. b >= c
        BY <2>4, <3>3 DEF Passed
      <4>2. Ahead < c
        <5>1. c \in Times /\ c > Gap
          BY DEF AfterSilence, Born
        <5>2. CASE at[h] = "inside"
          BY <2>1, <5>1, <5>2 DEF Times
        <5>3. CASE at[h] # "inside"
          <6>1. h \notin Passed(c) /\ at[h] \in Past
            BY <3>3, <5>3 DEF Inside, Past
          <6> QED
            BY <2>1, <2>2, <5>1, <5>3, <6>1 DEF Passed, Past, Times
        <5> QED
          BY <5>2, <5>3
      <4>3. [book |-> b, behind |-> Ahead] \in skipped'
        BY <1>3
      <4> QED
        BY <4>1, <4>2, <4>3 DEF Hidden
    <3> QED
      BY <3>2, <3>3
  <2>8. TimeIsKept'
    BY <1>1, <2>4 DEF IInv, TimeIsKept
  <2> QED
    BY <2>4, <2>5, <2>7, <2>8 DEF IInv
<1> QED
  BY <1>2, <1>3 DEF TryLock

\* The first book from after a silence to compare its time finds one from before.
LEMMA CompareIInv == ASSUME IInv, NEW b \in Times, Compare(b) PROVE IInv'
<1>1. UNCHANGED <<netVars, latest, run, used, proc, overtaken, skipped>>
  BY DEF Compare
<1>2. PICK to \in {"recover", "lock"} :
         /\ Becomes(b, "inside", to)
         /\ to = "recover" => noticed' = noticed \cup {b}
         /\ to = "lock" => ~LongAgo(b) /\ UNCHANGED noticed
  BY DEF Compare
<1>3. b \in Inside /\ to \in Stages
  BY <1>2 DEF Becomes, Inside, Stages
<1>4. noticed \subseteq noticed' /\ noticed' \subseteq noticed \cup {b}
  BY <1>2
<1>5. /\ TypeOK'
      /\ at[b] = "inside" /\ at'[b] = to /\ \A c \in Times : c # b => at'[c] = at[c]
  BY <1>1, <1>2, <1>3, <1>4, BookTypes DEF IInv, TypeOK
<1>6. Stored' /\ NoticedArePast'
  <2>1. Stored'
    BY <1>1, <1>4, <1>5 DEF IInv, Stored
  <2>2. NoticedArePast'
    BY <1>1, <1>4, <1>5 DEF IInv, TypeOK, NoticedArePast, Past
  <2> QED
    BY <2>1, <2>2
<1>7. Born' = Born
  BY <1>5 DEF Born
<1>8. SilenceIsNoticed'
  <2> SUFFICES ASSUME NEW c \in AfterSilence, Passed(c)' # {} PROVE Noticed(c)' \/ Hidden(c)
    BY <1>1, <1>7 DEF SilenceIsNoticed, AfterSilence, Born, Hidden
  <2>1. Noticed(c) => Noticed(c)'
    BY <1>4 DEF Noticed
  <2>2. CASE Passed(c) # {}
    BY <2>1, <2>2 DEF IInv, SilenceIsNoticed
  <2>3. CASE Passed(c) = {}
    <3>1. b >= c
      BY <1>5, <2>3 DEF Passed
    <3>2. CASE to = "recover"
      BY <1>2, <3>1, <3>2 DEF Noticed
    <3>3. CASE to = "lock"
      <4>1. c \in Times /\ c > Gap /\ \A a \in Born : a < c => c - a > Gap
        BY DEF AfterSilence, Born
      <4>2. b - latest <= Gap /\ latest \in 0..MaxTime
        BY <1>2, <3>3 DEF LongAgo, IInv, TypeOK, Times
      <4>3. latest \in Times /\ at[latest] = "done"
        BY <3>1, <4>1, <4>2 DEF IInv, Stored, Times
      <4>4. latest \in Born
        BY <4>3 DEF Born
      <4>5. latest >= c
        BY <3>1, <4>1, <4>2, <4>3, <4>4 DEF Times
      <4> QED
        BY <2>3, <4>3, <4>5 DEF Passed
    <3> QED
      BY <3>2, <3>3
  <2> QED
    BY <2>2, <2>3
<1>9. TimeIsKept'
  BY <1>1, <1>2, <1>5 DEF IInv, TimeIsKept
<1> QED
  BY <1>5, <1>6, <1>8, <1>9 DEF IInv

\* What is stored is the time of a book that is done.
LEMMA StoreIInv == ASSUME IInv, NEW b \in Times, StoreTime(b) PROVE IInv'
<1>1. /\ Becomes(b, "leaving", "done") /\ latest' = b
      /\ overtaken' = IF latest > b THEN overtaken \cup {latest} ELSE overtaken
      /\ UNCHANGED <<netVars, run, used, proc, noticed, skipped>>
  BY DEF StoreTime, TimeStored
<1>2. /\ TypeOK'
      /\ at[b] = "leaving" /\ at'[b] = "done" /\ \A c \in Times : c # b => at'[c] = at[c]
  <2>1. "done" \in Stages /\ b \in 0..MaxTime /\ overtaken' \subseteq Times
    BY <1>1 DEF Stages, Times, IInv, TypeOK
  <2> QED
    BY <1>1, <2>1, BookTypes DEF IInv, TypeOK
<1>3. Stored' /\ NoticedArePast'
  <2>1. Stored'
    BY <1>1, <1>2 DEF IInv, Stored
  <2>2. NoticedArePast'
    BY <1>1, <1>2 DEF IInv, TypeOK, NoticedArePast, Past
  <2> QED
    BY <2>1, <2>2
<1>4. Born' = Born /\ \A c \in Times : Passed(c)' = Passed(c)
  BY <1>2 DEF Born, Passed
<1>5. SilenceIsNoticed'
  BY <1>1, <1>4 DEF IInv, SilenceIsNoticed, AfterSilence, Born, Noticed, Hidden
<1>6. TimeIsKept'
  <2> SUFFICES ASSUME NEW c \in Times, at'[c] = "done"
               PROVE  c <= b \/ \E d \in overtaken' : d >= c
    BY <1>1 DEF TimeIsKept
  <2>1. latest \in Int /\ overtaken \subseteq overtaken'
    BY <1>1 DEF IInv, TypeOK
  <2>2. CASE c = b
    BY <2>2 DEF Times
  <2>3. CASE c # b
    <3>1. c <= latest \/ \E d \in overtaken : d >= c
      BY <1>2, <2>3 DEF IInv, TimeIsKept
    <3>2. CASE c <= latest /\ latest > b
      <4>1. latest \in overtaken'
        BY <1>1, <3>2
      <4> QED
        BY <2>1, <3>2, <4>1 DEF Times
    <3>3. CASE c <= latest /\ latest <= b
      BY <2>1, <3>3 DEF Times
    <3> QED
      BY <2>1, <3>1, <3>2, <3>3 DEF Times
  <2> QED
    BY <2>2, <2>3
<1> QED
  BY <1>2, <1>3, <1>5, <1>6 DEF IInv

-----------------------------------------------------------------------------
(* Theorems *)

\* Every step preserves the invariant.
LEMMA NextIInv == IInv /\ [Next]_vars => IInv'
<1> SUFFICES ASSUME IInv, [Next]_vars PROVE IInv'
  OBVIOUS
<1>1. CASE UNCHANGED vars
  BY <1>1 DEF IInv, TypeOK, Inside, Stored, NoticedArePast, TimeIsKept, SilenceIsNoticed,
              AfterSilence, Born, Passed, Noticed, Hidden, vars, netVars, taskVars, pastVars
<1>2. CASE Next
  BY <1>2, LoopIInv, AdvanceIInv, PushIInv, TryLockIInv, CompareIInv, StoreIInv
     DEF Next, Exchange, Broker, Run, BookSteps
<1> QED
  BY <1>1, <1>2

\* The invariant holds in every state.
LEMMA Invariance == Spec => []IInv
BY InitIInv, NextIInv, PTL DEF Spec

\* One book at a time is inside, and none while executeSlice holds task.mtx.
THEOREM Types == Spec => []TypeOK
<1>1. IInv => TypeOK
  BY DEF IInv
<1> QED
  BY <1>1, Invariance, PTL

\* No silence is overlooked but by a book that gives up and stores its time.
THEOREM Silence == Spec => []SilenceIsNoticed
<1>1. IInv => SilenceIsNoticed
  BY DEF IInv
<1> QED
  BY <1>1, Invariance, PTL

\* A recovery comes of a silence, of a book whose time is yet to be stored, or of an
\* older time stored over a newer one (order.go:229, 416).
THEOREM Needed == Spec => RecoveryIsNeeded
<1>1. ASSUME IInv, [Next]_vars
      PROVE  [\A c \in Times : Compare(c) /\ at'[c] = "recover" =>
                 \/ \E b \in AfterSilence : latest < b /\ b <= c /\ ~Noticed(b)
                 \/ \E d \in Born : d > latest /\ (at[d] = "leaving" \/ (d < c /\ at[d] # "done"))
                 \/ \E d \in overtaken : d > latest]_vars
  <2> USE <1>1
  <2> SUFFICES ASSUME NEW c \in Times, Compare(c), at'[c] = "recover",
                      \A d \in Born : d > latest => at[d] # "leaving" /\ (d < c => at[d] = "done"),
                      \A d \in overtaken : ~(d > latest)
               PROVE  c \in AfterSilence /\ latest < c /\ c <= c /\ ~Noticed(c)
    OBVIOUS
  <2>0. \A d \in Born : d > latest => at[d] \notin {"leaving", "done"} /\ ~(d < c)
    <3> SUFFICES ASSUME NEW d \in Born, d > latest PROVE at[d] # "done"
      OBVIOUS
    <3>1. \A e \in overtaken : e <= latest /\ e \in Int
      BY DEF IInv, TypeOK, Times
    <3>2. latest \in Int /\ d \in Times /\ d \in Int
      BY DEF IInv, TypeOK, Born, Times
    <3> QED
      BY <3>1, <3>2 DEF IInv, TimeIsKept
  <2>1. at[c] = "inside" /\ c - latest > Gap
    BY DEF Compare, Becomes, LongAgo, IInv, TypeOK
  <2>2. latest \in 0..MaxTime /\ Born \subseteq Times /\ c \in Born
    BY <2>1 DEF IInv, TypeOK, Born
  <2>3. c \in AfterSilence /\ latest < c /\ c <= c
    BY <2>0, <2>1, <2>2 DEF AfterSilence, Times
  <2>4. ASSUME NEW e \in noticed, e >= c PROVE FALSE
    <3>1. e \in Times /\ at[e] \in Past
      BY DEF IInv, TypeOK, NoticedArePast
    <3>2. e \in Born /\ e > latest
      BY <2>2, <2>3, <2>4, <3>1 DEF Born, Past, Times
    <3>3. e \in Inside /\ c \in Inside
      BY <2>0, <2>1, <3>1, <3>2 DEF Past, Inside
    <3> QED
      BY <2>1, <3>1, <3>3 DEF IInv, TypeOK, Past
  <2> QED
    BY <2>3, <2>4 DEF Noticed
<1> QED
  BY <1>1, Invariance, PTL DEF Spec, RecoveryIsNeeded
=============================================================================
