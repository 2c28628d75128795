---------------------------- MODULE RunCoordinator ----------------------------
(***************************************************************************)
(* The session run coordinator (core/src/session/run-coordinator.ts): one  *)
(* execution fiber per key, a doorbell that work rings while the fiber     *)
(* runs, callers that join, wait out or interrupt it.                      *)
(*                                                                         *)
(* JavaScript runs one synchronous block at a time, so each Effect.sync or *)
(* Effect.suspend body of the code is one action and the fiber can be      *)
(* preempted by any caller between two of its own actions.                 *)
(***************************************************************************)
CONSTANTS Keys,     \* the keys (session IDs)
          Fibers,   \* identities for execution fibers, reused once settled
          Calls,    \* identities for calls, each made at most once
          None      \* the JavaScript undefined

Scope == {"steer", "input"}
Exits == {"ok", "failed", "interrupted"}
Ops == {"wake", "run", "interrupt", "awaitIdle"}

ASSUME NoneAssumption == None \notin Keys \cup Fibers \cup Scope \cup Exits \cup Ops

VARIABLES executions,  \* the Map: key -> fiber of its current execution
          fiber,       \* the execution record and program point of each fiber
          call         \* what each call does and how far it is

vars == <<executions, fiber, call>>

-------------------------------------------------------------------------------
(* An Execution and where its fiber stands:                                *)
(*   forked    before the leading yield of start                           *)
(*   starting  in the started hook, which is uninterruptible               *)
(*   draining  in options.drain                                            *)
(*   drained   the drain succeeded, the doorbell is not yet inspected      *)
(*   yielding  the loop took the doorbell and yields before draining again *)
(*   settling  the outcome is decided (owner is undefined), the settled    *)
(*             hook runs                                                   *)
(* interruptionReason is assigned exactly where stopping becomes TRUE, so  *)
(* stopping stands for both.                                               *)
Phases == {"free", "forked", "starting", "draining", "drained", "yielding", "settling"}

Execution ==
  [phase : Phases \ {"free"}, key : Keys, force : BOOLEAN, scope : Scope,
   pendingWake : Scope \cup {None}, stopping : BOOLEAN, exit : Exits \cup {None}]

NoExecution ==
  [phase |-> "free", key |-> None, force |-> FALSE, scope |-> None,
   pendingWake |-> None, stopping |-> FALSE, exit |-> None]

Call ==
  [op : Ops \cup {None}, key : Keys \cup {None},
   state : {"new", "joined", "outwaiting", "retry", "returned"},
   on : Fibers \cup {None}, result : Exits \cup {"stopped", "abandoned", None}]

NewCall == [op |-> None, key |-> None, state |-> "new", on |-> None, result |-> None]

Init ==
  /\ executions = [k \in Keys |-> None]
  /\ fiber = [f \in Fibers |-> NoExecution]
  /\ call = [c \in Calls |-> NewCall]

Live(f) == fiber[f].phase # "free"
Free == {f \in Fibers : ~Live(f)}

-------------------------------------------------------------------------------
NewExecution(k, force, scope) ==
  [NoExecution EXCEPT !.phase = "forked", !.key = k, !.force = force, !.scope = scope]

(* start: a fresh record replaces the map entry and its fiber is forked.   *)
(* fs is the fiber table the new record is added to.                       *)
Start(fs, g, k, force, scope) ==
  /\ executions' = [executions EXCEPT ![k] = g]
  /\ fiber' = [fs EXCEPT ![g] = NewExecution(k, force, scope)]

Returns(c, op, k, result) ==
  call' = [call EXCEPT ![c] = [op |-> op, key |-> k, state |-> "returned",
                               on |-> None, result |-> result]]

Awaits(c, op, k, state, f) ==
  call' = [call EXCEPT ![c] = [op |-> op, key |-> k, state |-> state,
                               on |-> f, result |-> None]]

(* c is about to (re-)evaluate the suspended body of op for k. *)
Evaluates(c, op, k) ==
  \/ call[c].state = "new"
  \/ call[c].state = "retry" /\ call[c].op = op /\ call[c].key = k

(* Coalesced wakes: "input" subsumes "steer". *)
Widen(pending, scope) == IF pending = "input" THEN "input" ELSE scope

(* Mutant: a wake no longer trusts an execution that is stopping. *)
WakeIgnoresStopping(c, k, scope) ==
  /\ call[c].state = "new"
  /\ Returns(c, "wake", k, None)
  /\ IF executions[k] # None /\ ~fiber[executions[k]].stopping
       THEN /\ fiber' = [fiber EXCEPT ![executions[k]].pendingWake = Widen(@, scope)]
            /\ UNCHANGED executions
       ELSE \E g \in Free : Start(fiber, g, k, FALSE, scope)

Wake(c, k, scope) ==
  /\ call[c].state = "new"
  /\ Returns(c, "wake", k, None)
  /\ \/ /\ executions[k] # None
        /\ fiber' = [fiber EXCEPT ![executions[k]].pendingWake = Widen(@, scope)]
        /\ UNCHANGED executions
     \/ /\ executions[k] = None
        /\ \E g \in Free : Start(fiber, g, k, FALSE, scope)

(* A stopping execution refuses joiners: its cleanup is waited out and run *)
(* is evaluated again; any other execution is joined.                      *)
Run(c, k) ==
  /\ Evaluates(c, "run", k)
  /\ \/ /\ executions[k] # None
        /\ Awaits(c, "run", k,
                  IF fiber[executions[k]].stopping THEN "outwaiting" ELSE "joined",
                  executions[k])
        /\ UNCHANGED <<executions, fiber>>
     \/ /\ executions[k] = None
        /\ \E g \in Free :
             Start(fiber, g, k, TRUE, "input") /\ Awaits(c, "run", k, "joined", g)

(* No execution, or one already stopping: a no-op.  In the settlement      *)
(* window only the recorded wake is claimed.  Otherwise the execution is   *)
(* stopped, its doorbell cleared and its fiber interrupted.                *)
Interrupt(c, k) ==
  /\ call[c].state = "new"
  /\ UNCHANGED executions
  /\ LET f == executions[k] IN
     \/ /\ f # None => fiber[f].stopping
        /\ Returns(c, "interrupt", k, None)
        /\ UNCHANGED fiber
     \/ /\ f # None /\ ~fiber[f].stopping /\ fiber[f].phase = "settling"
        /\ fiber' = [fiber EXCEPT ![f].pendingWake = None]
        /\ Returns(c, "interrupt", k, None)
     \/ /\ f # None /\ ~fiber[f].stopping /\ fiber[f].phase # "settling"
        /\ fiber' = [fiber EXCEPT ![f].stopping = TRUE, ![f].pendingWake = None]
        /\ Returns(c, "interrupt", k, "stopped")

AwaitIdle(c, k) ==
  /\ Evaluates(c, "awaitIdle", k)
  /\ IF executions[k] = None
       THEN Returns(c, "awaitIdle", k, "ok")
       ELSE Awaits(c, "awaitIdle", k, "outwaiting", executions[k])
  /\ UNCHANGED <<executions, fiber>>

(* A waiting caller is itself interrupted; the execution is not. *)
Abandon(c) ==
  /\ call[c].state \in {"joined", "outwaiting"}
  /\ call' = [call EXCEPT ![c].state = "returned", ![c].on = None, ![c].result = "abandoned"]
  /\ UNCHANGED <<executions, fiber>>

-------------------------------------------------------------------------------
(* The fiber's own steps. *)

(* After the leading yield the started hook runs uninterruptibly. *)
EnterStarted(f) ==
  /\ fiber[f].phase = "forked" /\ ~fiber[f].stopping
  /\ fiber' = [fiber EXCEPT ![f].phase = "starting"]
  /\ UNCHANGED <<executions, call>>

(* The loop reads execution.scope and calls drain with it. *)
BeginDrain(f) ==
  /\ fiber[f].phase \in {"starting", "yielding"} /\ ~fiber[f].stopping
  /\ fiber' = [fiber EXCEPT ![f].phase = "draining"]
  /\ UNCHANGED <<executions, call>>

DrainSucceeds(f) ==
  /\ fiber[f].phase = "draining"
  /\ fiber' = [fiber EXCEPT ![f].phase = "drained"]
  /\ UNCHANGED <<executions, call>>

(* Mutant: the loop drains again whether or not the doorbell was rung. *)
LoopAgainUnasked(f) ==
  /\ fiber[f].phase = "drained" /\ ~fiber[f].stopping
  /\ fiber' = [fiber EXCEPT ![f].phase = "yielding", ![f].force = FALSE,
                            ![f].scope = fiber[f].pendingWake, ![f].pendingWake = None]
  /\ UNCHANGED <<executions, call>>

(* Mutant: the loop drains again but keeps its scope and its doorbell. *)
LoopAgainKeepsScope(f) ==
  /\ fiber[f].phase = "drained"
  /\ ~fiber[f].stopping /\ fiber[f].pendingWake # None
  /\ fiber' = [fiber EXCEPT ![f].phase = "yielding", ![f].force = FALSE]
  /\ UNCHANGED <<executions, call>>

(* The loop inspects the doorbell: drain again with the scope it holds... *)
LoopAgain(f) ==
  /\ fiber[f].phase = "drained"
  /\ ~fiber[f].stopping /\ fiber[f].pendingWake # None
  /\ fiber' = [fiber EXCEPT ![f].phase = "yielding", ![f].force = FALSE,
                            ![f].scope = fiber[f].pendingWake, ![f].pendingWake = None]
  /\ UNCHANGED <<executions, call>>

(* The first onExit: the owner is forgotten and the settled hook starts. *)
Exit(f, exit) ==
  /\ fiber' = [fiber EXCEPT ![f].phase = "settling", ![f].exit = exit]
  /\ UNCHANGED <<executions, call>>

(* ...or ends the execution. *)
LoopEnds(f) ==
  /\ fiber[f].phase = "drained"
  /\ fiber[f].stopping \/ fiber[f].pendingWake = None
  /\ Exit(f, "ok")

(* The started hook or the drain fails. *)
Fails(f) ==
  /\ fiber[f].phase \in {"starting", "draining"}
  /\ Exit(f, "failed")

(* Fiber.interrupt takes effect wherever the fiber is interruptible. *)
Interrupted(f) ==
  /\ fiber[f].stopping
  /\ fiber[f].phase \in {"forked", "starting", "draining", "drained", "yielding"}
  /\ Exit(f, "interrupted")

(* What resolving done means to a call waiting on it. *)
Resolve(c, exit) ==
  IF call[c].state = "joined"
    THEN [call[c] EXCEPT !.state = "returned", !.on = None, !.result = exit]
    ELSE [call[c] EXCEPT !.state = "retry", !.on = None]

(* Mutant: the map entry is deleted also when a successor was started. *)
SettleDeletesSuccessor(f) ==
  /\ fiber[f].phase = "settling"
  /\ executions' = [executions EXCEPT ![fiber[f].key] = None]
  /\ LET settled == [fiber EXCEPT ![f] = NoExecution]
     IN fiber' = IF fiber[f].pendingWake = None THEN settled
                 ELSE [settled EXCEPT ![CHOOSE g \in Free : TRUE] =
                         NewExecution(fiber[f].key, FALSE, fiber[f].pendingWake)]
  /\ call' = [c \in Calls |->
                IF call[c].on = f THEN Resolve(c, fiber[f].exit) ELSE call[c]]

(* Mutant: the key goes idle whatever the doorbell says. *)
SettleForgetsDoorbell(f) ==
  /\ fiber[f].phase = "settling"
  /\ executions' = [executions EXCEPT ![fiber[f].key] = None]
  /\ fiber' = [fiber EXCEPT ![f] = NoExecution]
  /\ call' = [c \in Calls |->
                IF call[c].on = f THEN Resolve(c, fiber[f].exit) ELSE call[c]]

(* Mutant: done is not resolved when a successor takes over. *)
SettleKeepsWaiters(f) ==
  /\ fiber[f].phase = "settling"
  /\ LET settled == [fiber EXCEPT ![f] = NoExecution]
     IN \/ /\ fiber[f].pendingWake # None
           /\ \E g \in Free :
                Start(settled, g, fiber[f].key, FALSE, fiber[f].pendingWake)
           /\ UNCHANGED call
        \/ /\ fiber[f].pendingWake = None
           /\ executions' = [executions EXCEPT ![fiber[f].key] = None]
           /\ fiber' = settled
           /\ call' = [c \in Calls |->
                         IF call[c].on = f THEN Resolve(c, fiber[f].exit) ELSE call[c]]

(* The second onExit, once the settled hook ended (its own failure replaces *)
(* the exit): a surviving doorbell starts a successor, otherwise the map    *)
(* entry goes; then done resolves with this execution's exit.               *)
Settle(f) ==
  /\ fiber[f].phase = "settling"
  /\ LET e == fiber[f]
         settled == [fiber EXCEPT ![f] = NoExecution]
     IN \/ /\ e.pendingWake # None
           /\ \E g \in Free : Start(settled, g, e.key, FALSE, e.pendingWake)
        \/ /\ e.pendingWake = None
           /\ executions' = [executions EXCEPT ![e.key] = None]
           /\ fiber' = settled
  /\ \E exit \in {fiber[f].exit, "failed"} :
       call' = [c \in Calls |-> IF call[c].on = f THEN Resolve(c, exit) ELSE call[c]]

-------------------------------------------------------------------------------
FiberStep(f) ==
  \/ EnterStarted(f) \/ BeginDrain(f) \/ DrainSucceeds(f) \/ LoopAgain(f)
  \/ LoopEnds(f) \/ Fails(f) \/ Interrupted(f) \/ Settle(f)

CallStep(c, k) ==
  \/ \E scope \in Scope : Wake(c, k, scope)
  \/ Run(c, k) \/ Interrupt(c, k) \/ AwaitIdle(c, k)

Next ==
  \/ \E c \in Calls : Abandon(c) \/ \E k \in Keys : CallStep(c, k)
  \/ \E f \in Fibers : FiberStep(f)

(* The runtime keeps stepping every runnable fiber and every resumed call;  *)
(* drains and hooks end; no caller is obliged to make a call.               *)
Fairness ==
  /\ \A f \in Fibers : WF_vars(FiberStep(f))
  /\ \A c \in Calls : WF_vars(call[c].state = "retry" /\ \E k \in Keys : CallStep(c, k))

Spec == Init /\ [][Next]_vars /\ Fairness

-------------------------------------------------------------------------------
TypeOK ==
  /\ executions \in [Keys -> Fibers \cup {None}]
  /\ fiber \in [Fibers -> Execution \cup {NoExecution}]
  /\ call \in [Calls -> Call]

(* The map and the fibers agree: every fiber that has not settled is the    *)
(* execution its key is mapped to.  A fiber the map forgot would let a wake *)
(* start a second concurrent drain of the same session.                     *)
ExecutionsOwnFibers ==
  /\ \A f \in Fibers : Live(f) => fiber[f].key \in Keys /\ executions[fiber[f].key] = f
  /\ \A k \in Keys : executions[k] # None => Live(executions[k]) /\ fiber[executions[k]].key = k

(* Executions of one key are serialized: two fibers never run for one key.  *)
OneExecutionPerKey ==
  \A f, g \in Fibers : Live(f) /\ Live(g) /\ fiber[f].key = fiber[g].key => f = g

(* Whoever waits on done waits on a fiber that will resolve it: no caller   *)
(* is left behind on a settled execution or on another key's.               *)
WaitersWillBeResolved ==
  \A c \in Calls : call[c].state \in {"joined", "outwaiting"} =>
    call[c].on \in Fibers /\ Live(call[c].on) /\ fiber[call[c].on].key = call[c].key

-------------------------------------------------------------------------------
(* The doorbell's view of a coordinator state.  The started hook and the   *)
(* drain after it are one service: when the hook fails, the failure is the *)
(* answer to the work the execution was started for.                       *)
Unbegun(f) == fiber[f].phase \in {"forked", "yielding"}
Serving(f) == fiber[f].phase \in {"starting", "draining"}

Covers(scope) == IF scope = "input" THEN Scope ELSE IF scope = "steer" THEN {"steer"} ELSE {}

DemandOf(k) ==
  LET f == executions[k] IN
    IF f = None THEN {}
    ELSE Covers(fiber[f].pendingWake)
         \cup (IF Unbegun(f) /\ ~fiber[f].stopping THEN Covers(fiber[f].scope) ELSE {})

ServingOf(k) ==
  LET f == executions[k] IN
    IF f # None /\ Serving(f) THEN fiber[f].scope ELSE None

(* The calls that took effect: a run does when it joins, starts or gives   *)
(* up, and not while it waits for a stopping execution.                    *)
Effective(r) ==
  \/ r.op \in {"wake", "interrupt"}
  \/ r.op = "run" /\ r.state \in {"joined", "returned"}

MadeOf(k) ==
  {<<c, call[c].op>> : c \in {d \in Calls : call[d].key = k /\ Effective(call[d])}}

D == INSTANCE Doorbell WITH Callers <- Calls,
                            demand <- [k \in Keys |-> DemandOf(k)],
                            serving <- [k \in Keys |-> ServingOf(k)],
                            made <- [k \in Keys |-> MadeOf(k)]

(* No wake is lost and none is served too narrowly or out of thin air: the  *)
(* coordinator implements the doorbell, in particular a wake rung between   *)
(* the last drain's end and the idle transition, during cleanup or while    *)
(* the settled hook runs survives, and an interrupted intent does not.      *)
DoorbellSafe == D!Spec

(* Every recorded scope is drained or claimed by an interrupt in the end.   *)
WorkIsAnswered == D!Answered

(* Every run and awaitIdle comes back: a stopping execution is waited out   *)
(* and the call then finds an execution it can join, or none.               *)
CallsReturn ==
  \A c \in Calls : (call[c].state \in {"joined", "outwaiting", "retry"})
                      ~> (call[c].state = "returned")

===============================================================================
