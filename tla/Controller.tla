----------------------------- MODULE Controller -----------------------------
(***************************************************************************)
(* The start of the program (cmd/Goofy/main.go) and the ways a command can *)
(* come in (core/controller.go): POST /cmd, a websocket at /ws, and a      *)
(* ZeroMQ subscription.  The HTTP server serves from Controller.Init on,   *)
(* before main has given the controller its managers and before Start has  *)
(* given it a context.                                                     *)
(*                                                                         *)
(* A panic ends the process, except in a handler of net/http, whose server *)
(* recovers it.  What a command with both legs and an amount leads to is   *)
(* left to the module that extends this one.                               *)
(***************************************************************************)
EXTENDS Integers

CONSTANT
    MaxFaults       \* bound: requests that fail, connections that break, bad luck

ASSUME FaultsAssumption == MaxFaults \in Nat

VARIABLES
    stage,          \* main: "init", then the controller is "listening", "wired", "started"
    mx,             \* the loop of runMx: "none", "up" or "ended"
    session,        \* a websocket at /ws: "none", "open" or "broken"
    proc,           \* the process: "up", "fatal" (its own doing), or the way in where
                    \* it panicked: "http", "ws", "mx"
    faults          \* faults so far

ctrlVars == <<stage, mx, session>>

Vias  == {"http", "ws", "mx"}
Alive == proc = "up"
Fault == faults < MaxFaults /\ faults' = faults + 1

HasManager == stage \in {"wired", "started"}
HasContext == stage = "started"

-----------------------------------------------------------------------------
(* main and Start *)

\* Init starts the HTTP server; a port that is taken ends the process.
Listen ==
    /\ Alive /\ stage = "init"
    /\ \/ stage' = "listening" /\ UNCHANGED proc
          /\ UNCHANGED faults
       \/ Fault /\ proc' = "fatal" /\ UNCHANGED stage
    /\ UNCHANGED <<mx, session>>

\* main: SetOrderManager.
Wire ==
    /\ Alive /\ stage = "listening"
    /\ stage' = "wired"
    /\ UNCHANGED <<mx, session, proc, faults>>

\* Start keeps the context and starts the goroutines, runMx among them.
Start ==
    /\ Alive /\ stage = "wired"
    /\ stage' = "started" /\ mx' = "up"
    /\ UNCHANGED <<session, proc, faults>>

\* The first failed Recv ends the loop for good.
MxFails ==
    /\ Alive /\ mx = "up"
    /\ Fault
    /\ mx' = "ended"
    /\ UNCHANGED <<stage, session, proc>>

-----------------------------------------------------------------------------
(* The websocket *)

\* A request that cannot be upgraded ends the process.
httpWs ==
    /\ Alive /\ stage # "init" /\ session = "none"
    /\ \/ session' = "open" /\ UNCHANGED <<proc, faults>>
       \/ Fault /\ proc' = "fatal" /\ UNCHANGED session
    /\ UNCHANGED <<stage, mx>>

WsBreaks ==
    /\ Alive /\ session = "open"
    /\ Fault
    /\ session' = "broken"
    /\ UNCHANGED <<stage, mx, proc>>

\* The loop of a session looks at the context before Start has set it, or goes on
\* reading from a connection that is lost, which the library answers with a panic.
WsPanics ==
    /\ Alive
    /\ \/ session # "none" /\ ~HasContext
       \/ session = "broken"
    /\ proc' = "ws"
    /\ UNCHANGED <<ctrlVars, faults>>

-----------------------------------------------------------------------------
(* Commands *)

\* Requests to /cmd have a goroutine each, the other two ways are a loop.
Open(via) ==
    CASE via = "http" -> stage # "init"
      [] via = "ws"   -> session = "open" /\ HasContext
      [] via = "mx"   -> mx = "up"

\* net/http recovers a panic of a handler.
Recovers(via) == via = "http"

\* execCommand dereferences Data, which is nil when a message has none, and then the
\* order manager, which is nil until main has set it.
Panic(via, shape) ==
    /\ Alive /\ Open(via)
    /\ \/ shape = "nodata"
       \/ shape = "order" /\ ~HasManager
    /\ proc' = IF Recovers(via) THEN proc ELSE via
    /\ UNCHANGED <<ctrlVars, faults>>

\* A message with both legs and an amount reaches the order manager.  One without,
\* another message, and what is no JSON, are ignored.
Calls(via) == Alive /\ Open(via) /\ HasManager

-----------------------------------------------------------------------------

CtrlInit ==
    /\ stage = "init" /\ mx = "none" /\ session = "none"
    /\ proc = "up" /\ faults = 0

CtrlNext ==
    \/ Listen \/ Wire \/ Start
    \/ MxFails \/ httpWs \/ WsBreaks \/ WsPanics
    \/ \E via \in Vias, shape \in {"order", "nodata"} : Panic(via, shape)
=============================================================================
