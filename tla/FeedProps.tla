------------------------------ MODULE FeedProps ------------------------------
(* What the way of the order books (core/broker.go, core/order.go) promises. *)
EXTENDS Feed

\* Every variable keeps its type; one book at a time is past TryLock
\* (order.go:223), and the task holds task.mtx (461) only while no book does (276).
TypeOK ==
    /\ conn \in {"up", "half", "down"} /\ loop \in {"select", "connect", "hung"}
    /\ at \in [Times -> Stages]
    /\ latest \in 0..MaxTime
    /\ run \in {"select", "slice", "wait", "send", "rest"}
    /\ used \in [sends : Nat, faults : Nat]
    /\ proc \in {"up", "fatal"}
    /\ noticed \subseteq Times /\ overtaken \subseteq Times
    /\ skipped \subseteq [book : Times, behind : 0..MaxTime]
    /\ \A b, c \in Inside : b = c
    /\ run \in {"wait", "send", "rest"} => \A b \in Times : at[b] # "body"

\* The books that come after a silence longer than the gap.
AfterSilence == {b \in Born : b > Gap /\ \A a \in Born : a < b => b - a > Gap}

\* Books from after the silence before b that are past the comparison.
Passed(b) == {c \in Times : c >= b /\ at[c] \in {"recover", "lock", "body", "leaving", "done"}}

Noticed(b) == \E c \in noticed : c >= b

\* A book from after the silence gave up (order.go:223) behind one from before
\* it, or behind one that had yet to look at latestOrderBookTime (229).
Hidden(b) == \E s \in skipped : s.book >= b /\ s.behind < b

\* The silence of an outage is noticed (order.go:229) before the task acts on any
\* book from after it; only a book that gives up and stores its time all the
\* same (416) can hide it.
SilenceIsNoticed == \A b \in AfterSilence : Passed(b) # {} => Noticed(b) \/ Hidden(b)

\* A recovery, which cancels every order of the task, is started only (order.go:229)
\* because of a silence nobody has noticed, while another book is still to store its
\* time, or after an older time was stored over a newer one (416): as long as books
\* are handled one after the other, each leaves behind the time the next one needs.
RecoveryIsNeeded ==
    [][\A c \in Times : Compare(c) /\ at'[c] = "recover" =>
          \/ \E b \in AfterSilence : latest < b /\ b <= c /\ ~Noticed(b)
          \/ \E d \in Born : d > latest /\ (at[d] = "leaving" \/ (d < c /\ at[d] # "done"))
          \/ \E d \in overtaken : d > latest]_vars

\* The broker waits for an answer to its authentication that does not come, with
\* b.mtx locked (broker.go:365-394, cmd/Goofy/devel-events.md:12).
Hung == loop = "hung"

\* A book gets through to its end (broker.go:119-145, order.go:221-416), although
\* the broker reconnects and the task sends orders meanwhile, each holding a mutex,
\* as long as the reconnection does not hang.
BooksGetThrough == \A b \in Times : at[b] = "inbox" ~> (at[b] = "done" \/ Hung \/ ~Alive)

\* executeSlice returns (order.go:460-511, broker.go:531-552), although it takes
\* b.mtx while it holds task.mtx, and the loop of the broker b.mtx to reconnect, as
\* long as the reconnection does not hang.
SendReturns == run # "select" ~> (run = "select" \/ Hung \/ ~Alive)
=============================================================================
