------------------------- MODULE RunCoordinatorProofs -------------------------
(***************************************************************************)
(* What the coordinator guarantees for any set of keys, fibers and calls.  *)
(*                                                                         *)
(* TypeOK is not inductive by itself: a wake writes into the record of the *)
(* execution the map names, and that this record is a live one follows     *)
(* from ExecutionsOwnFibers.  The two are proved together.                 *)
(***************************************************************************)
EXTENDS RunCoordinator, TLAPS

CoordinatorInv == TypeOK /\ ExecutionsOwnFibers

-------------------------------------------------------------------------------
(* Records and calls. *)

LEMMA FreshExecution ==
  ASSUME NEW k \in Keys, NEW force \in BOOLEAN, NEW scope \in Scope
  PROVE  /\ NewExecution(k, force, scope) \in Execution
         /\ NewExecution(k, force, scope).key = k
         /\ NewExecution(k, force, scope).phase = "forked"
         /\ NewExecution(k, force, scope).scope = scope
         /\ NewExecution(k, force, scope).pendingWake = None
         /\ NewExecution(k, force, scope).stopping = FALSE
BY DEF NewExecution, NoExecution, Execution, Phases, Exits

LEMMA LiveIsExecution ==
  ASSUME TypeOK, NEW f \in Fibers, Live(f)
  PROVE  fiber[f] \in Execution
BY DEF TypeOK, Live, NoExecution

LEMMA WidenType ==
  ASSUME NEW pending \in Scope \cup {None}, NEW scope \in Scope
  PROVE  Widen(pending, scope) \in Scope
BY DEF Widen, Scope

LEMMA ReturnsType ==
  ASSUME TypeOK, NEW c \in Calls, NEW k \in Keys,
         NEW op \in Ops,
         NEW result \in Exits \cup {"stopped", "abandoned", None},
         Returns(c, op, k, result)
  PROVE  call' \in [Calls -> Call]
BY DEF TypeOK, Returns, Call, Ops

LEMMA AwaitsType ==
  ASSUME TypeOK, NEW c \in Calls, NEW k \in Keys,
         NEW op \in Ops,
         NEW state \in {"joined", "outwaiting"}, NEW f \in Fibers,
         Awaits(c, op, k, state, f)
  PROVE  call' \in [Calls -> Call]
BY DEF TypeOK, Awaits, Call, Ops

-------------------------------------------------------------------------------
(* The three ways the map and the fiber table change. *)

(* One live record is rewritten without changing its key. *)
LEMMA RewriteExecution ==
  ASSUME CoordinatorInv, NEW f \in Fibers, Live(f),
         NEW e \in Execution, e.key = fiber[f].key,
         fiber' = [fiber EXCEPT ![f] = e], executions' = executions,
         call' \in [Calls -> Call]
  PROVE  CoordinatorInv'
BY DEF CoordinatorInv, TypeOK, ExecutionsOwnFibers, Live, Execution, Phases

(* An idle key gets a fresh execution in a free slot. *)
LEMMA StartWhenIdle ==
  ASSUME CoordinatorInv, NEW k \in Keys, executions[k] = None,
         NEW g \in Free, NEW force \in BOOLEAN, NEW scope \in Scope,
         Start(fiber, g, k, force, scope), call' \in [Calls -> Call]
  PROVE  CoordinatorInv'
<1> DEFINE e == NewExecution(k, force, scope)
<1>1. e \in Execution /\ e.key = k /\ e.phase = "forked"
  BY DEF NewExecution, NoExecution, Execution, Phases, Exits
<1>2. /\ executions' = [executions EXCEPT ![k] = g]
      /\ fiber' = [fiber EXCEPT ![g] = e]
  BY DEF Start
<1>3. g \in Fibers /\ ~Live(g)
  BY DEF Free
<1> HIDE DEF e
<1>4. TypeOK'
  BY <1>1, <1>2, <1>3 DEF CoordinatorInv, TypeOK
<1>5. ExecutionsOwnFibers'
  BY <1>1, <1>2, <1>3, NoneAssumption
  DEF CoordinatorInv, TypeOK, ExecutionsOwnFibers, Live
<1> QED BY <1>4, <1>5 DEF CoordinatorInv

(* A settling execution is replaced by its successor. *)
LEMMA StartSuccessor ==
  ASSUME CoordinatorInv, NEW f \in Fibers, Live(f),
         NEW g \in Free, NEW scope \in Scope,
         Start([fiber EXCEPT ![f] = NoExecution], g, fiber[f].key, FALSE, scope),
         call' \in [Calls -> Call]
  PROVE  CoordinatorInv'
<1> DEFINE k == fiber[f].key
           e == NewExecution(k, FALSE, scope)
<1>0. k \in Keys /\ executions[k] = f
  BY DEF CoordinatorInv, ExecutionsOwnFibers
<1>1. e \in Execution /\ e.key = k /\ e.phase = "forked"
  <2>1. \A j \in Keys : NewExecution(j, FALSE, scope) \in Execution /\ NewExecution(j, FALSE, scope).key = j
                        /\ NewExecution(j, FALSE, scope).phase = "forked"
    BY DEF NewExecution, NoExecution, Execution, Phases
  <2> QED BY <1>0, <2>1
<1>2. /\ executions' = [executions EXCEPT ![k] = g]
      /\ fiber' = [fiber EXCEPT ![f] = NoExecution, ![g] = e]
  <2>1. executions' = [executions EXCEPT ![fiber[f].key] = g]
    BY Zenon DEF Start
  <2>2. fiber' = [[fiber EXCEPT ![f] = NoExecution]
                    EXCEPT ![g] = NewExecution(fiber[f].key, FALSE, scope)]
    BY Zenon DEF Start
  <2> QED BY <2>1, <2>2, Zenon
<1>3. g \in Fibers /\ ~Live(g) /\ g # f
  BY DEF Free
<1>a. NoExecution.phase = "free"
  BY DEF NoExecution
<1> HIDE DEF e, k
<1>4. TypeOK'
  BY <1>0, <1>1, <1>2, <1>3 DEF CoordinatorInv, TypeOK
<1>5. ExecutionsOwnFibers'
  <2>1. ASSUME NEW h \in Fibers, Live(h)'
        PROVE  fiber'[h].key \in Keys /\ executions'[fiber'[h].key] = h
    <3>1. CASE h = g
      BY <3>1, <1>0, <1>1, <1>2, <1>3 DEF CoordinatorInv, TypeOK
    <3>2. CASE h # g
      <4>1. h # f /\ fiber'[h] = fiber[h]
        BY <3>2, <2>1, <1>2, <1>3, <1>a DEF CoordinatorInv, TypeOK, Live
      <4> QED
        BY <4>1, <2>1, <1>0, <1>2 DEF CoordinatorInv, TypeOK, ExecutionsOwnFibers, Live
    <3> QED BY <3>1, <3>2
  <2>2. ASSUME NEW j \in Keys, executions'[j] # None
        PROVE  Live(executions[j])' /\ fiber'[executions'[j]].key = j
    <3>1. CASE j = k
      <4>1. executions'[j] = g
        BY <3>1, <1>0, <1>2 DEF CoordinatorInv, TypeOK
      <4>2. fiber'[g] = e
        BY <1>2, <1>3 DEF CoordinatorInv, TypeOK
      <4> QED BY <4>1, <4>2, <1>1, <3>1 DEF Live
    <3>2. CASE j # k
      <4>1. executions'[j] = executions[j]
        BY <3>2, <1>2 DEF CoordinatorInv, TypeOK
      <4>2. Live(executions[j]) /\ fiber[executions[j]].key = j /\ executions[j] \in Fibers
        BY <2>2, <4>1 DEF CoordinatorInv, TypeOK, ExecutionsOwnFibers
      <4>3. executions[j] # f /\ executions[j] # g
        BY <4>2, <3>2, <1>3 DEF k
      <4>4. fiber'[executions[j]] = fiber[executions[j]]
        BY <4>2, <4>3, <1>2 DEF CoordinatorInv, TypeOK
      <4> QED BY <4>1, <4>2, <4>4 DEF Live
    <3> QED BY <3>1, <3>2
  <2> QED BY <2>1, <2>2 DEF ExecutionsOwnFibers
<1> QED BY <1>4, <1>5 DEF CoordinatorInv

(* A settling execution leaves its key idle. *)
LEMMA GoIdle ==
  ASSUME CoordinatorInv, NEW f \in Fibers, Live(f),
         executions' = [executions EXCEPT ![fiber[f].key] = None],
         fiber' = [fiber EXCEPT ![f] = NoExecution],
         call' \in [Calls -> Call]
  PROVE  CoordinatorInv'
<1>1. TypeOK'
  BY DEF CoordinatorInv, TypeOK
<1>2. ExecutionsOwnFibers'
  BY DEF CoordinatorInv, TypeOK, ExecutionsOwnFibers, Live, NoExecution
<1> QED BY <1>1, <1>2 DEF CoordinatorInv

-------------------------------------------------------------------------------
LEMMA InitInv == Init => CoordinatorInv
BY NoneAssumption
DEF Init, CoordinatorInv, TypeOK, ExecutionsOwnFibers, Live, NoExecution, NewCall, Call

LEMMA WakeInv ==
  ASSUME CoordinatorInv, NEW c \in Calls, NEW k \in Keys, NEW scope \in Scope,
         Wake(c, k, scope)
  PROVE  CoordinatorInv'
<1>1. call' \in [Calls -> Call]
  BY ReturnsType DEF Wake, CoordinatorInv, Ops
<1>2. CASE executions[k] # None
  <2> DEFINE f == executions[k]
             e == [fiber[f] EXCEPT !.pendingWake = Widen(@, scope)]
  <2>1. f \in Fibers /\ Live(f)
    BY <1>2 DEF CoordinatorInv, TypeOK, ExecutionsOwnFibers
  <2>2. fiber[f] \in Execution
    BY <2>1, LiveIsExecution DEF CoordinatorInv
  <2>3. e \in Execution /\ e.key = fiber[f].key
    BY <2>2, WidenType DEF Execution
  <2>4. fiber' = [fiber EXCEPT ![f] = e] /\ executions' = executions
    BY <1>2 DEF Wake
  <2> QED BY <1>1, <2>1, <2>3, <2>4, RewriteExecution
<1>3. CASE executions[k] = None
  BY <1>1, <1>3, StartWhenIdle DEF Wake
<1> QED BY <1>2, <1>3

LEMMA RunInv ==
  ASSUME CoordinatorInv, NEW c \in Calls, NEW k \in Keys, Run(c, k)
  PROVE  CoordinatorInv'
<1>1. CASE executions[k] # None
  <2>1. executions[k] \in Fibers
    BY <1>1 DEF CoordinatorInv, TypeOK
  <2>2. call' \in [Calls -> Call]
    BY <1>1, <2>1, AwaitsType DEF Run, CoordinatorInv, Ops
  <2> QED
    BY <1>1, <2>2 DEF Run, CoordinatorInv, TypeOK, ExecutionsOwnFibers, Live
<1>2. CASE executions[k] = None
  <2>1. PICK g \in Free : Start(fiber, g, k, TRUE, "input") /\ Awaits(c, "run", k, "joined", g)
    BY <1>2 DEF Run
  <2>2. call' \in [Calls -> Call]
    BY <2>1, AwaitsType DEF CoordinatorInv, Free, Ops
  <2> QED BY <1>2, <2>1, <2>2, StartWhenIdle DEF Scope
<1> QED BY <1>1, <1>2

LEMMA InterruptInv ==
  ASSUME CoordinatorInv, NEW c \in Calls, NEW k \in Keys, Interrupt(c, k)
  PROVE  CoordinatorInv'
<1> DEFINE f == executions[k]
<1>1. call' \in [Calls -> Call]
  BY ReturnsType DEF Interrupt, CoordinatorInv, Ops
<1>2. executions' = executions
  BY DEF Interrupt
<1>3. CASE UNCHANGED fiber
  BY <1>1, <1>2, <1>3 DEF CoordinatorInv, TypeOK, ExecutionsOwnFibers, Live
<1>4. CASE f # None
  <2>1. f \in Fibers /\ Live(f)
    BY <1>4 DEF CoordinatorInv, TypeOK, ExecutionsOwnFibers
  <2>2. fiber[f] \in Execution
    BY <2>1, LiveIsExecution DEF CoordinatorInv
  <2>3. ASSUME fiber' = [fiber EXCEPT ![f].pendingWake = None]
        PROVE  CoordinatorInv'
    <3> DEFINE e == [fiber[f] EXCEPT !.pendingWake = None]
    <3>1. e \in Execution /\ e.key = fiber[f].key
      BY <2>2 DEF Execution
    <3> QED BY <1>1, <1>2, <2>1, <2>3, <3>1, RewriteExecution
  <2>4. ASSUME fiber' = [fiber EXCEPT ![f].stopping = TRUE, ![f].pendingWake = None]
        PROVE  CoordinatorInv'
    <3> DEFINE e == [fiber[f] EXCEPT !.stopping = TRUE, !.pendingWake = None]
    <3>1. e \in Execution /\ e.key = fiber[f].key
      BY <2>2 DEF Execution
    <3>2. fiber' = [fiber EXCEPT ![f] = e]
      BY <2>1, <2>2, <2>4 DEF CoordinatorInv, TypeOK, Execution
    <3> QED BY <1>1, <1>2, <2>1, <3>1, <3>2, RewriteExecution
  <2> QED BY <1>3, <2>3, <2>4 DEF Interrupt
<1> QED BY <1>3, <1>4 DEF Interrupt

LEMMA AwaitIdleInv ==
  ASSUME CoordinatorInv, NEW c \in Calls, NEW k \in Keys, AwaitIdle(c, k)
  PROVE  CoordinatorInv'
<1>1. call' \in [Calls -> Call]
  <2>1. CASE executions[k] = None
    BY <2>1, ReturnsType DEF AwaitIdle, CoordinatorInv, Exits, Ops
  <2>2. CASE executions[k] # None
    BY <2>2, AwaitsType DEF AwaitIdle, CoordinatorInv, TypeOK, Ops
  <2> QED BY <2>1, <2>2
<1> QED BY <1>1 DEF AwaitIdle, CoordinatorInv, TypeOK, ExecutionsOwnFibers, Live

LEMMA AbandonInv ==
  ASSUME CoordinatorInv, NEW c \in Calls, Abandon(c)
  PROVE  CoordinatorInv'
<1> DEFINE d == [call[c] EXCEPT !.state = "returned", !.on = None, !.result = "abandoned"]
<1>a. call[c] \in Call /\ d \in Call
  BY DEF CoordinatorInv, TypeOK, Call
<1>b. call' = [call EXCEPT ![c] = d]
  BY <1>a DEF Abandon, CoordinatorInv, TypeOK, Call
<1>1. call' \in [Calls -> Call]
  BY <1>a, <1>b DEF CoordinatorInv, TypeOK
<1> QED BY <1>1 DEF Abandon, CoordinatorInv, TypeOK, ExecutionsOwnFibers, Live

(* Every step of a fiber before its settlement rewrites its own record. *)
LEMMA FiberStepInv ==
  ASSUME CoordinatorInv, NEW f \in Fibers,
         \/ EnterStarted(f) \/ BeginDrain(f) \/ DrainSucceeds(f) \/ LoopAgain(f)
         \/ LoopEnds(f) \/ Fails(f) \/ Interrupted(f)
  PROVE  CoordinatorInv'
<1>1. Live(f) /\ fiber[f] \in Execution
  <2>1. Live(f)
    BY DEF Live, EnterStarted, BeginDrain, DrainSucceeds, LoopAgain, LoopEnds, Fails, Interrupted
  <2> QED BY <2>1, LiveIsExecution DEF CoordinatorInv
<1>2. call' \in [Calls -> Call] /\ executions' = executions
  BY DEF EnterStarted, BeginDrain, DrainSucceeds, LoopAgain, LoopEnds, Fails, Interrupted, Exit,
         CoordinatorInv, TypeOK
<1>3. PICK e \in Execution : e.key = fiber[f].key /\ fiber' = [fiber EXCEPT ![f] = e]
  <2>1. ASSUME NEW phase \in Phases \ {"free"}, fiber' = [fiber EXCEPT ![f].phase = phase]
        PROVE  \E e \in Execution : e.key = fiber[f].key /\ fiber' = [fiber EXCEPT ![f] = e]
    <3> DEFINE e == [fiber[f] EXCEPT !.phase = phase]
    <3>1. e \in Execution /\ e.key = fiber[f].key
      BY <1>1 DEF Execution
    <3> QED BY <2>1, <3>1
  <2>2. CASE EnterStarted(f) \/ BeginDrain(f) \/ DrainSucceeds(f)
    BY <2>1, <2>2 DEF EnterStarted, BeginDrain, DrainSucceeds, Phases
  <2>3. CASE LoopAgain(f)
    <3> DEFINE e == [fiber[f] EXCEPT !.phase = "yielding", !.force = FALSE,
                                     !.scope = fiber[f].pendingWake, !.pendingWake = None]
    <3>1. e \in Execution /\ e.key = fiber[f].key
      BY <1>1, <2>3 DEF LoopAgain, Execution, Phases
    <3>2. fiber' = [fiber EXCEPT ![f] = e]
      BY <1>1, <2>3 DEF LoopAgain, CoordinatorInv, TypeOK, Execution
    <3> QED BY <3>1, <3>2
  <2>4. ASSUME NEW exit \in Exits, Exit(f, exit)
        PROVE  \E e \in Execution : e.key = fiber[f].key /\ fiber' = [fiber EXCEPT ![f] = e]
    <3> DEFINE e == [fiber[f] EXCEPT !.phase = "settling", !.exit = exit]
    <3>1. e \in Execution /\ e.key = fiber[f].key
      BY <1>1 DEF Execution, Phases
    <3>2. fiber' = [fiber EXCEPT ![f] = e]
      BY <1>1, <2>4 DEF Exit, CoordinatorInv, TypeOK, Execution
    <3> QED BY <3>1, <3>2
  <2>5. CASE LoopEnds(f) \/ Fails(f) \/ Interrupted(f)
    BY <2>4, <2>5 DEF LoopEnds, Fails, Interrupted, Exits
  <2> QED BY <2>2, <2>3, <2>5
<1> QED BY <1>1, <1>2, <1>3, RewriteExecution

LEMMA SettleInv ==
  ASSUME CoordinatorInv, NEW f \in Fibers, Settle(f)
  PROVE  CoordinatorInv'
<1>1. Live(f) /\ fiber[f] \in Execution
  BY LiveIsExecution DEF Live, Settle, CoordinatorInv
<1>2. call' \in [Calls -> Call]
  <2>1. PICK exit \in {fiber[f].exit, "failed"} :
          call' = [c \in Calls |-> IF call[c].on = f THEN Resolve(c, exit) ELSE call[c]]
    BY DEF Settle
  <2>2. exit \in Exits \cup {None}
    BY <1>1, <2>1 DEF Execution, Exits
  <2>3. ASSUME NEW c \in Calls PROVE Resolve(c, exit) \in Call /\ call[c] \in Call
    BY <2>2 DEF Resolve, Call, CoordinatorInv, TypeOK
  <2> QED BY <2>1, <2>3
<1>3. CASE fiber[f].pendingWake # None
  <2>1. fiber[f].pendingWake \in Scope
    BY <1>1, <1>3 DEF Execution
  <2>2. PICK g \in Free : Start([fiber EXCEPT ![f] = NoExecution], g, fiber[f].key, FALSE,
                                fiber[f].pendingWake)
    BY <1>3 DEF Settle
  <2> QED BY <1>1, <1>2, <2>1, <2>2, StartSuccessor
<1>4. CASE fiber[f].pendingWake = None
  BY <1>1, <1>2, <1>4, GoIdle DEF Settle
<1> QED BY <1>3, <1>4

LEMMA NextInv == CoordinatorInv /\ [Next]_vars => CoordinatorInv'
<1> SUFFICES ASSUME CoordinatorInv, [Next]_vars PROVE CoordinatorInv'
  OBVIOUS
<1>1. CASE UNCHANGED vars
  BY <1>1 DEF vars, CoordinatorInv, TypeOK, ExecutionsOwnFibers, Live
<1>2. ASSUME NEW c \in Calls, Abandon(c) PROVE CoordinatorInv'
  BY <1>2, AbandonInv
<1>3. ASSUME NEW c \in Calls, NEW k \in Keys, CallStep(c, k) PROVE CoordinatorInv'
  BY <1>3, WakeInv, RunInv, InterruptInv, AwaitIdleInv DEF CallStep
<1>4. ASSUME NEW f \in Fibers, FiberStep(f) PROVE CoordinatorInv'
  BY <1>4, FiberStepInv, SettleInv DEF FiberStep
<1> QED BY <1>1, <1>2, <1>3, <1>4 DEF Next

(* Typing: a live execution always has a key and a scope, a call waits on a *)
(* fiber or on nothing, a decided exit is one of the three.                 *)
THEOREM TypeCorrect == Spec => []TypeOK
<1>1. CoordinatorInv => TypeOK
  BY DEF CoordinatorInv
<1> QED BY <1>1, InitInv, NextInv, PTL DEF Spec

(* The map and the fibers agree in every reachable state: no fiber runs     *)
(* that the coordinator has forgotten (run-coordinator.ts start, settle).   *)
THEOREM MapAgreesWithFibers == Spec => []ExecutionsOwnFibers
<1>1. CoordinatorInv => ExecutionsOwnFibers
  BY DEF CoordinatorInv
<1> QED BY <1>1, InitInv, NextInv, PTL DEF Spec

(* Executions are serialized per key for any number of callers and keys:    *)
(* two drains of one session never overlap.                                 *)
THEOREM SerializedPerKey == Spec => []OneExecutionPerKey
<1>1. CoordinatorInv => OneExecutionPerKey
  BY DEF CoordinatorInv, ExecutionsOwnFibers, OneExecutionPerKey
<1> QED BY <1>1, InitInv, NextInv, PTL DEF Spec

-------------------------------------------------------------------------------
(* Waiters.  Outside Settle, a live fiber stays live and keeps its key.     *)
LiveStaysLive ==
  \A f \in Fibers : Live(f) => Live(f)' /\ fiber'[f].key = fiber[f].key

LEMMA CallStepKeepsLive ==
  ASSUME CoordinatorInv, NEW c \in Calls, NEW k \in Keys, CallStep(c, k)
  PROVE  LiveStaysLive
<1>1. ASSUME NEW g \in Free, NEW e, fiber' = [fiber EXCEPT ![g] = e]
      PROVE  LiveStaysLive
  BY <1>1 DEF Free, LiveStaysLive, Live, CoordinatorInv, TypeOK
<1>2. CASE UNCHANGED fiber
  BY <1>2 DEF LiveStaysLive, Live
<1>3. ASSUME executions[k] # None, NEW e \in Execution,
             e.key = fiber[executions[k]].key, e.phase = fiber[executions[k]].phase,
             fiber' = [fiber EXCEPT ![executions[k]] = e]
      PROVE  LiveStaysLive
  BY <1>3 DEF LiveStaysLive, Live, CoordinatorInv, TypeOK, ExecutionsOwnFibers
<1>4. executions[k] # None => fiber[executions[k]] \in Execution
  BY LiveIsExecution DEF CoordinatorInv, TypeOK, ExecutionsOwnFibers
<1>5. ASSUME NEW scope \in Scope, Wake(c, k, scope) PROVE LiveStaysLive
  <2>1. CASE executions[k] # None
    <3> DEFINE e == [fiber[executions[k]] EXCEPT !.pendingWake = Widen(@, scope)]
    <3>1. e \in Execution /\ e.key = fiber[executions[k]].key
          /\ e.phase = fiber[executions[k]].phase
      BY <1>4, <2>1, WidenType DEF Execution
    <3> QED BY <1>3, <1>5, <2>1, <3>1 DEF Wake
  <2>2. CASE executions[k] = None
    BY <1>1, <1>5, <2>2 DEF Wake, Start
  <2> QED BY <2>1, <2>2
<1>6. CASE Run(c, k)
  BY <1>1, <1>2, <1>6 DEF Run, Start
<1>7. CASE Interrupt(c, k)
  <2>1. CASE executions[k] # None
    <3> DEFINE x == fiber[executions[k]]
               a == [x EXCEPT !.pendingWake = None]
               b == [x EXCEPT !.stopping = TRUE, !.pendingWake = None]
    <3>1. /\ a \in Execution /\ a.key = x.key /\ a.phase = x.phase
          /\ b \in Execution /\ b.key = x.key /\ b.phase = x.phase
      BY <1>4, <2>1 DEF Execution
    <3>2. executions[k] \in Fibers
      BY <2>1 DEF CoordinatorInv, TypeOK
    <3>3. \/ UNCHANGED fiber
          \/ fiber' = [fiber EXCEPT ![executions[k]] = a]
          \/ fiber' = [fiber EXCEPT ![executions[k]] = b]
      BY <1>4, <1>7, <2>1, <3>2 DEF Interrupt, CoordinatorInv, TypeOK, Execution
    <3> QED BY <1>2, <1>3, <2>1, <3>1, <3>3
  <2>2. CASE executions[k] = None
    BY <1>2, <1>7, <2>2 DEF Interrupt
  <2> QED BY <2>1, <2>2
<1>8. CASE AwaitIdle(c, k)
  BY <1>2, <1>8 DEF AwaitIdle
<1> QED BY <1>5, <1>6, <1>7, <1>8 DEF CallStep

Waiting(c) == call[c].state \in {"joined", "outwaiting"}
WellPlaced(c) ==
  call[c].on \in Fibers /\ Live(call[c].on) /\ fiber[call[c].on].key = call[c].key

LEMMA NextWaiters ==
  CoordinatorInv /\ CoordinatorInv' /\ WaitersWillBeResolved /\ [Next]_vars
    => WaitersWillBeResolved'
<1> SUFFICES ASSUME CoordinatorInv, CoordinatorInv', WaitersWillBeResolved, [Next]_vars,
                    NEW w \in Calls, Waiting(w)'
             PROVE  WellPlaced(w)'
  BY DEF WaitersWillBeResolved, Waiting, WellPlaced
<1>1. ASSUME call'[w] = call[w], LiveStaysLive
      PROVE  WellPlaced(w)'
  BY <1>1 DEF WaitersWillBeResolved, Waiting, WellPlaced, LiveStaysLive, Live
<1>2. CASE UNCHANGED vars
  BY <1>2, <1>1 DEF vars, LiveStaysLive, Live
<1>3. ASSUME NEW c \in Calls, Abandon(c) PROVE WellPlaced(w)'
  BY <1>1, <1>3 DEF Abandon, LiveStaysLive, Live, Waiting, CoordinatorInv, TypeOK, Call
<1>4. ASSUME NEW c \in Calls, NEW k \in Keys, CallStep(c, k) PROVE WellPlaced(w)'
  <2>1. LiveStaysLive
    BY <1>4, CallStepKeepsLive
  <2>2. CASE w # c
    BY <1>1, <1>4, <2>1, <2>2
    DEF CallStep, Wake, Run, Interrupt, AwaitIdle, Returns, Awaits, CoordinatorInv, TypeOK
  <2>3. CASE w = c
    <3>1. ASSUME NEW op, NEW result, Returns(c, op, k, result) PROVE WellPlaced(w)'
      BY <2>3, <3>1 DEF Returns, Waiting, CoordinatorInv, TypeOK
    <3>2. ASSUME NEW op, NEW state, executions'[k] # None, Awaits(c, op, k, state, executions'[k])
          PROVE  WellPlaced(w)'
      <4>1. call'[w].on = executions'[k] /\ call'[w].key = k
        BY <2>3, <3>2 DEF Awaits, CoordinatorInv, TypeOK
      <4>2. executions'[k] \in Fibers /\ Live(executions[k])' /\ fiber'[executions'[k]].key = k
        BY <3>2 DEF CoordinatorInv, TypeOK, ExecutionsOwnFibers
      <4> QED BY <4>1, <4>2 DEF WellPlaced, Live
    <3>3. CASE \E scope \in Scope : Wake(c, k, scope)
      BY <3>1, <3>3 DEF Wake
    <3>4. CASE Run(c, k)
      <4>1. CASE executions[k] # None
        BY <3>2, <3>4, <4>1 DEF Run
      <4>2. CASE executions[k] = None
        <5>1. PICK g \in Free : Start(fiber, g, k, TRUE, "input") /\ Awaits(c, "run", k, "joined", g)
          BY <3>4, <4>2 DEF Run
        <5>2. executions'[k] = g /\ g # None
          BY <5>1, NoneAssumption DEF Start, Free, CoordinatorInv, TypeOK
        <5> QED BY <3>2, <5>1, <5>2
      <4> QED BY <4>1, <4>2
    <3>5. CASE Interrupt(c, k)
      BY <3>1, <3>5 DEF Interrupt
    <3>6. CASE AwaitIdle(c, k)
      BY <3>1, <3>2, <3>6 DEF AwaitIdle
    <3> QED BY <1>4, <3>3, <3>4, <3>5, <3>6 DEF CallStep
  <2> QED BY <2>2, <2>3
<1>5. ASSUME NEW f \in Fibers, FiberStep(f) PROVE WellPlaced(w)'
  <2>1. CASE Settle(f)
    <3>1. PICK exit : call' = [c \in Calls |-> IF call[c].on = f THEN Resolve(c, exit) ELSE call[c]]
      BY <2>1 DEF Settle
    <3>2. call[w].on # f /\ call'[w] = call[w]
      <4>1. CASE call[w].on = f
        <5>1. call'[w] = Resolve(w, exit)
          BY <3>1, <4>1
        <5>2. call[w] \in Call
          BY DEF CoordinatorInv, TypeOK
        <5>3. Resolve(w, exit).state \in {"returned", "retry"}
          BY <5>2 DEF Resolve, Call
        <5> QED BY <5>1, <5>3 DEF Waiting
      <4> QED BY <3>1, <4>1
    <3>3. WellPlaced(w)
      BY <3>2 DEF WaitersWillBeResolved, Waiting, WellPlaced
    <3> DEFINE h == call[w].on
    <3>4. h \in Fibers /\ Live(h) /\ h # f /\ fiber[h].key = call[w].key
      BY <3>2, <3>3 DEF WellPlaced
    <3>5. fiber'[h] = fiber[h]
      BY <2>1, <3>4 DEF Settle, Start, Free, CoordinatorInv, TypeOK
    <3> QED BY <3>2, <3>4, <3>5 DEF WellPlaced, Live
  <2>2. CASE ~Settle(f)
    <3>1. call' = call
      BY <1>5, <2>2 DEF FiberStep, EnterStarted, BeginDrain, DrainSucceeds, LoopAgain, LoopEnds,
                        Fails, Interrupted, Exit
    <3>2. fiber[f] \in Execution
      BY <1>5, <2>2, LiveIsExecution
      DEF CoordinatorInv, Live, FiberStep, EnterStarted, BeginDrain, DrainSucceeds, LoopAgain,
          LoopEnds, Fails, Interrupted
    <3>3. LiveStaysLive
      BY <1>5, <2>2, <3>2
      DEF FiberStep, EnterStarted, BeginDrain, DrainSucceeds, LoopAgain, LoopEnds, Fails,
          Interrupted, Exit, LiveStaysLive, Live, CoordinatorInv, TypeOK, Execution
    <3> QED BY <1>1, <3>1, <3>3
  <2> QED BY <2>1, <2>2
<1> QED BY <1>2, <1>3, <1>4, <1>5 DEF Next

(* No call is ever left waiting on a settled execution or another key's:    *)
(* the fiber a run or awaitIdle waits on is one that will resolve done.     *)
THEOREM WaitersHaveLiveFiber == Spec => []WaitersWillBeResolved
<1>1. Init => WaitersWillBeResolved
  BY DEF Init, NewCall, WaitersWillBeResolved
<1> QED BY <1>1, InitInv, NextInv, NextWaiters, PTL DEF Spec

-------------------------------------------------------------------------------
(* Refinement of the doorbell.  A step touches the execution of one key;    *)
(* the demand and the service of every other key are unchanged.             *)
DemandView == [k \in Keys |-> DemandOf(k)]
ServingView == [k \in Keys |-> ServingOf(k)]

OnlyTouches(k) ==
  \A j \in Keys \ {k} :
    /\ executions'[j] = executions[j]
    /\ executions[j] # None => fiber'[executions[j]] = fiber[executions[j]]

LEMMA ViewsElsewhere ==
  ASSUME CoordinatorInv, NEW k \in Keys, OnlyTouches(k)
  PROVE  /\ DemandView' = [DemandView EXCEPT ![k] = DemandOf(k)']
         /\ ServingView' = [ServingView EXCEPT ![k] = ServingOf(k)']
<1>1. ASSUME NEW j \in Keys \ {k}
      PROVE  DemandOf(j)' = DemandOf(j) /\ ServingOf(j)' = ServingOf(j)
  BY DEF OnlyTouches, DemandOf, ServingOf, Unbegun, Serving, Covers
<1> QED BY <1>1 DEF DemandView, ServingView

(* The calls that took effect, and a step in which one more call does. *)
MadeView == [k \in Keys |-> MadeOf(k)]

Makes(k, c, op) ==
  /\ <<c, op>> \notin MadeView[k]
  /\ MadeView' = [MadeView EXCEPT ![k] = MadeView[k] \cup {<<c, op>>}]

(* A call that has not been made has no operation yet. *)
NewIsBlank == \A c \in Calls : call[c].state = "new" => call[c].op = None

LEMMA NextNewIsBlank ==
  CoordinatorInv /\ NewIsBlank /\ [Next]_vars => NewIsBlank'
<1> SUFFICES ASSUME CoordinatorInv, NewIsBlank, [Next]_vars, NEW w \in Calls,
                    call'[w].state = "new"
             PROVE  call'[w].op = None
  BY DEF NewIsBlank
<1>1. CASE UNCHANGED vars
  BY <1>1 DEF vars, NewIsBlank
<1>2. ASSUME NEW c \in Calls, Abandon(c) PROVE call'[w].op = None
  BY <1>2 DEF Abandon, NewIsBlank, CoordinatorInv, TypeOK, Call
<1>3. ASSUME NEW c \in Calls, NEW k \in Keys, CallStep(c, k) PROVE call'[w].op = None
  <2>1. ASSUME NEW op, NEW result, Returns(c, op, k, result) PROVE call'[w].op = None
    BY <2>1 DEF Returns, NewIsBlank, CoordinatorInv, TypeOK
  <2>2. ASSUME NEW op, NEW state \in {"joined", "outwaiting"}, NEW f, Awaits(c, op, k, state, f)
        PROVE  call'[w].op = None
    BY <2>2 DEF Awaits, NewIsBlank, CoordinatorInv, TypeOK
  <2> QED BY <1>3, <2>1, <2>2 DEF CallStep, Wake, Run, Interrupt, AwaitIdle
<1>4. ASSUME NEW f \in Fibers, FiberStep(f) PROVE call'[w].op = None
  <2>1. CASE Settle(f)
    <3>1. PICK exit : call' = [c \in Calls |-> IF call[c].on = f THEN Resolve(c, exit) ELSE call[c]]
      BY <2>1 DEF Settle
    <3>2. call[w] \in Call
      BY DEF CoordinatorInv, TypeOK
    <3>3. Resolve(w, exit).state \in {"returned", "retry"}
      BY <3>2 DEF Resolve, Call
    <3> QED BY <3>1, <3>3 DEF NewIsBlank
  <2>2. CASE ~Settle(f)
    BY <1>4, <2>2
    DEF FiberStep, EnterStarted, BeginDrain, DrainSucceeds, LoopAgain, LoopEnds, Fails,
        Interrupted, Exit, NewIsBlank
  <2> QED BY <2>1, <2>2
<1> QED BY <1>1, <1>2, <1>3, <1>4 DEF Next

(* Only a joined or waiting call is on an execution. *)
OnlyWaitersWait ==
  \A c \in Calls : call[c].on # None => call[c].state \in {"joined", "outwaiting"}

LEMMA NextOnlyWaitersWait ==
  CoordinatorInv /\ OnlyWaitersWait /\ [Next]_vars => OnlyWaitersWait'
<1> SUFFICES ASSUME CoordinatorInv, OnlyWaitersWait, [Next]_vars, NEW w \in Calls,
                    call'[w].on # None
             PROVE  call'[w].state \in {"joined", "outwaiting"}
  BY DEF OnlyWaitersWait
<1> DEFINE Goal == call'[w].state \in {"joined", "outwaiting"}
<1>0. call'[w] = call[w] => Goal
  BY DEF OnlyWaitersWait
<1>1. CASE UNCHANGED vars
  BY <1>0, <1>1 DEF vars
<1>2. ASSUME NEW c \in Calls, Abandon(c) PROVE Goal
  <2>1. CASE w # c
    BY <1>0, <1>2, <2>1 DEF Abandon, CoordinatorInv, TypeOK
  <2>2. CASE w = c
    <3>1. call'[w].on = None
      BY <1>2, <2>2 DEF Abandon, CoordinatorInv, TypeOK, Call
    <3> QED BY <3>1
  <2> QED BY <2>1, <2>2
<1>3. ASSUME NEW c \in Calls, NEW k \in Keys, CallStep(c, k) PROVE Goal
  <2>1. ASSUME NEW op, NEW result, Returns(c, op, k, result) PROVE Goal
    BY <1>0, <2>1 DEF Returns, CoordinatorInv, TypeOK
  <2>2. ASSUME NEW op, NEW state \in {"joined", "outwaiting"}, NEW f, Awaits(c, op, k, state, f)
        PROVE  Goal
    BY <1>0, <2>2 DEF Awaits, CoordinatorInv, TypeOK
  <2> HIDE DEF Goal
  <2> QED BY <1>3, <2>1, <2>2 DEF CallStep, Wake, Run, Interrupt, AwaitIdle
<1>4. ASSUME NEW f \in Fibers, FiberStep(f) PROVE Goal
  <2>1. CASE Settle(f)
    <3>1. PICK exit : call' = [c \in Calls |-> IF call[c].on = f THEN Resolve(c, exit) ELSE call[c]]
      BY <2>1 DEF Settle
    <3>2. call[w] \in Call
      BY DEF CoordinatorInv, TypeOK
    <3>3. Resolve(w, exit).on = None
      BY <3>2 DEF Resolve, Call
    <3> QED BY <1>0, <3>1, <3>3
  <2>2. CASE ~Settle(f)
    <3>1. call' = call
      BY <1>4, <2>2
      DEF FiberStep, EnterStarted, BeginDrain, DrainSucceeds, LoopAgain, LoopEnds, Fails,
          Interrupted, Exit
    <3> QED BY <1>0, <3>1
  <2> QED BY <2>1, <2>2
<1> QED BY <1>1, <1>2, <1>3, <1>4 DEF Next

(* The call of c changes to r. *)
LEMMA MadeAfter ==
  ASSUME CoordinatorInv, NEW c \in Calls, ~Effective(call[c]), NEW r,
         NEW k \in Keys, r.key = k, call' = [call EXCEPT ![c] = r]
  PROVE  /\ Effective(r) => Makes(k, c, r.op)
         /\ ~Effective(r) => MadeView' = MadeView
<1>1. /\ call'[c] = r
      /\ \A d \in Calls \ {c} : call'[d] = call[d]
  BY DEF CoordinatorInv, TypeOK
<1>2. \A j \in Keys : MadeOf(j)' =
        {<<d, call'[d].op>> : d \in {x \in Calls : call'[x].key = j /\ Effective(call'[x])}}
  BY DEF MadeOf, Effective
<1>3. ASSUME NEW j \in Keys \ {k} PROVE MadeOf(j)' = MadeOf(j)
  BY <1>1, <1>2 DEF MadeOf
<1>4. CASE Effective(r)
  <2>1. MadeOf(k)' = MadeOf(k) \cup {<<c, r.op>>}
    BY <1>1, <1>2, <1>4 DEF MadeOf
  <2>2. <<c, r.op>> \notin MadeOf(k)
    BY DEF MadeOf
  <2> QED BY <1>3, <1>4, <2>1, <2>2 DEF Makes, MadeView
<1>5. CASE ~Effective(r)
  <2>1. MadeOf(k)' = MadeOf(k)
    BY <1>1, <1>2, <1>5 DEF MadeOf
  <2> QED BY <1>3, <1>5, <2>1 DEF MadeView
<1> QED BY <1>4, <1>5

LEMMA MadeUnchanged ==
  ASSUME \A c \in Calls : /\ call'[c].op = call[c].op /\ call'[c].key = call[c].key
                          /\ Effective(call'[c]) = Effective(call[c])
  PROVE  MadeView' = MadeView
<1>1. \A j \in Keys : MadeOf(j)' =
        {<<d, call'[d].op>> : d \in {x \in Calls : call'[x].key = j /\ Effective(call'[x])}}
  BY DEF MadeOf, Effective
<1>2. ASSUME NEW j \in Keys PROVE MadeOf(j)' = MadeOf(j)
  BY <1>1 DEF MadeOf
<1> QED BY <1>2 DEF MadeView

(* The doorbell's actions in terms of the views of one key. *)
LEMMA DoorbellStep ==
  ASSUME CoordinatorInv, NEW k \in Keys, OnlyTouches(k),
         \/ \E c \in Calls : \E s \in Scope : \E op \in {"wake", "run"} :
              /\ Makes(k, c, op) /\ (op = "run" => s = "input")
              /\ DemandOf(k)' = DemandOf(k) \cup Covers(s) /\ ServingOf(k)' = ServingOf(k)
         \/ \E c \in Calls : /\ Makes(k, c, "interrupt")
                             /\ DemandOf(k)' = {} /\ ServingOf(k)' = ServingOf(k)
         \/ \E s \in Scope : /\ ServingOf(k) = None /\ s \in DemandOf(k)
                             /\ DemandOf(k)' \subseteq DemandOf(k)
                             /\ DemandOf(k) \ DemandOf(k)' \subseteq Covers(s)
                             /\ ServingOf(k)' = s
                             /\ MadeView' = MadeView
         \/ /\ ServingOf(k) # None /\ ServingOf(k)' = None /\ DemandOf(k)' = DemandOf(k)
            /\ MadeView' = MadeView
         \/ /\ DemandOf(k)' = DemandOf(k) /\ ServingOf(k)' = ServingOf(k)
            /\ MadeView' = MadeView
  PROVE  [D!Next]_(D!doorbellVars)
<1>1. /\ DemandView' = [DemandView EXCEPT ![k] = DemandOf(k)']
      /\ ServingView' = [ServingView EXCEPT ![k] = ServingOf(k)']
      /\ DemandView[k] = DemandOf(k) /\ ServingView[k] = ServingOf(k)
  BY ViewsElsewhere DEF DemandView, ServingView
<1>2. DemandView = [DemandView EXCEPT ![k] = DemandOf(k)]
      /\ ServingView = [ServingView EXCEPT ![k] = ServingOf(k)]
  BY DEF DemandView, ServingView
<1>3. \A s : D!Upto(s) = Covers(s)
  BY DEF D!Upto, Covers, D!Scope, Scope
<1>4. ASSUME NEW c \in Calls, NEW s \in Scope, NEW op \in {"wake", "run"},
             Makes(k, c, op), op = "run" => s = "input",
             DemandOf(k)' = DemandOf(k) \cup Covers(s), ServingOf(k)' = ServingOf(k)
      PROVE  [D!Next]_(D!doorbellVars)
  <2>1. D!Make(k, c, op)
    BY <1>4 DEF Makes, D!Make, MadeView
  <2>2. D!Ring(k, s, c, op)
    BY <1>1, <1>2, <1>3, <1>4, <2>1 DEF D!Ring, DemandView, ServingView
  <2> QED BY <1>4, <2>2 DEF D!Next, D!Scope, Scope
<1>5. ASSUME NEW c \in Calls, Makes(k, c, "interrupt"),
             DemandOf(k)' = {}, ServingOf(k)' = ServingOf(k)
      PROVE  [D!Next]_(D!doorbellVars)
  <2>1. D!Make(k, c, "interrupt")
    BY <1>5 DEF Makes, D!Make, MadeView
  <2>2. D!Claim(k, c)
    BY <1>1, <1>2, <1>5, <2>1 DEF D!Claim, DemandView, ServingView
  <2> QED BY <2>2 DEF D!Next
<1>6. ASSUME NEW s \in Scope, ServingOf(k) = None, s \in DemandOf(k),
             DemandOf(k)' \subseteq DemandOf(k),
             DemandOf(k) \ DemandOf(k)' \subseteq Covers(s),
             ServingOf(k)' = s, MadeView' = MadeView
      PROVE  [D!Next]_(D!doorbellVars)
  <2>1. D!Serve(k, s)
    BY <1>1, <1>3, <1>6 DEF D!Serve, DemandView, ServingView, MadeView
  <2> QED BY <1>6, <2>1 DEF D!Next, D!Scope, Scope
<1>7. CASE /\ ServingOf(k) # None /\ ServingOf(k)' = None /\ DemandOf(k)' = DemandOf(k)
           /\ MadeView' = MadeView
  <2>1. D!Finish(k)
    BY <1>1, <1>2, <1>7 DEF D!Finish, DemandView, ServingView, MadeView
  <2> QED BY <2>1 DEF D!Next
<1>8. CASE /\ DemandOf(k)' = DemandOf(k) /\ ServingOf(k)' = ServingOf(k)
           /\ MadeView' = MadeView
  BY <1>1, <1>2, <1>8 DEF D!doorbellVars, DemandView, ServingView, MadeView
<1>9. CASE \E c \in Calls : \E s \in Scope : \E op \in {"wake", "run"} :
              /\ Makes(k, c, op) /\ (op = "run" => s = "input")
              /\ DemandOf(k)' = DemandOf(k) \cup Covers(s) /\ ServingOf(k)' = ServingOf(k)
  BY <1>4, <1>9, Zenon
<1>10. CASE \E c \in Calls : /\ Makes(k, c, "interrupt")
                             /\ DemandOf(k)' = {} /\ ServingOf(k)' = ServingOf(k)
  BY <1>5, <1>10, Zenon
<1>11. CASE \E s \in Scope : /\ ServingOf(k) = None /\ s \in DemandOf(k)
                             /\ DemandOf(k)' \subseteq DemandOf(k)
                             /\ DemandOf(k) \ DemandOf(k)' \subseteq Covers(s)
                             /\ ServingOf(k)' = s
                             /\ MadeView' = MadeView
  BY <1>6, <1>11, Zenon
<1> QED BY <1>7, <1>8, <1>9, <1>10, <1>11

(* What one execution record contributes to the views. *)
RecordDemand(e) ==
  Covers(e.pendingWake)
    \cup (IF e.phase \in {"forked", "yielding"} /\ ~e.stopping THEN Covers(e.scope) ELSE {})
RecordServing(e) == IF e.phase \in {"starting", "draining"} THEN e.scope ELSE None

LEMMA CoversFacts ==
  /\ Covers(None) = {}
  /\ \A s \in Scope : s \in Covers(s)
  /\ \A p \in Scope \cup {None}, s \in Scope : Covers(Widen(p, s)) = Covers(p) \cup Covers(s)
BY NoneAssumption DEF Covers, Widen, Scope

LEMMA ViewOfMapped ==
  ASSUME NEW k \in Keys, executions[k] # None
  PROVE  /\ DemandOf(k) = RecordDemand(fiber[executions[k]])
         /\ ServingOf(k) = RecordServing(fiber[executions[k]])
BY DEF DemandOf, ServingOf, RecordDemand, RecordServing, Unbegun, Serving

(* A step that rewrites the record of one live execution. *)
LEMMA ViewOfRewrite ==
  ASSUME CoordinatorInv, NEW f \in Fibers, Live(f), NEW k \in Keys, fiber[f].key = k, NEW e,
         fiber' = [fiber EXCEPT ![f] = e], executions' = executions
  PROVE  /\ OnlyTouches(k)
         /\ DemandOf(k) = RecordDemand(fiber[f]) /\ ServingOf(k) = RecordServing(fiber[f])
         /\ DemandOf(k)' = RecordDemand(e) /\ ServingOf(k)' = RecordServing(e)
<1>1. executions[k] = f /\ f # None
  BY NoneAssumption DEF CoordinatorInv, ExecutionsOwnFibers
<1>2. OnlyTouches(k)
  BY <1>1 DEF OnlyTouches, CoordinatorInv, TypeOK, ExecutionsOwnFibers
<1>3. fiber'[f] = e
  BY DEF CoordinatorInv, TypeOK
<1>4. DemandOf(k) = RecordDemand(fiber[f]) /\ ServingOf(k) = RecordServing(fiber[f])
  BY <1>1, ViewOfMapped
<1>5. DemandOf(k)' = RecordDemand(e) /\ ServingOf(k)' = RecordServing(e)
  BY <1>1, <1>3 DEF DemandOf, ServingOf, RecordDemand, RecordServing, Unbegun, Serving
<1> QED BY <1>2, <1>4, <1>5

(* A step that starts an execution for an idle key. *)
LEMMA ViewOfStart ==
  ASSUME CoordinatorInv, NEW k \in Keys, executions[k] = None, NEW g \in Free,
         NEW force \in BOOLEAN, NEW scope \in Scope, Start(fiber, g, k, force, scope)
  PROVE  /\ OnlyTouches(k)
         /\ DemandOf(k) = {} /\ ServingOf(k) = None
         /\ DemandOf(k)' = Covers(scope) /\ ServingOf(k)' = None
<1> DEFINE e == NewExecution(k, force, scope)
<1>1. /\ executions' = [executions EXCEPT ![k] = g]
      /\ fiber' = [fiber EXCEPT ![g] = e]
  BY DEF Start
<1>2. g \in Fibers /\ ~Live(g) /\ g # None
  BY NoneAssumption DEF Free
<1>3. /\ e.phase = "forked" /\ e.scope = scope
      /\ e.pendingWake = None /\ e.stopping = FALSE
  BY DEF NewExecution, NoExecution
<1> HIDE DEF e
<1>4. executions'[k] = g /\ fiber'[g] = e
  BY <1>1, <1>2 DEF CoordinatorInv, TypeOK
<1>5. OnlyTouches(k)
  BY <1>1, <1>2 DEF OnlyTouches, CoordinatorInv, TypeOK, ExecutionsOwnFibers
<1>6. DemandOf(k) = {} /\ ServingOf(k) = None
  BY DEF DemandOf, ServingOf
<1>7. DemandOf(k)' = Covers(scope) /\ ServingOf(k)' = None
  BY <1>2, <1>3, <1>4, CoversFacts DEF DemandOf, ServingOf, Unbegun, Serving
<1> QED BY <1>5, <1>6, <1>7

(* A step that leaves the executions alone. *)
LEMMA ViewsUnchanged ==
  ASSUME UNCHANGED <<executions, fiber>>,
         \/ MadeView' = MadeView
         \/ \E k \in Keys : \E c \in Calls : \E op \in {"run", "interrupt"} : Makes(k, c, op)
  PROVE  [D!Next]_(D!doorbellVars)
<1>1. DemandView' = DemandView /\ ServingView' = ServingView
  BY DEF DemandView, ServingView, DemandOf, ServingOf, Unbegun, Serving
<1>2. CASE MadeView' = MadeView
  BY <1>1, <1>2 DEF D!doorbellVars, DemandView, ServingView, MadeView
<1>3. ASSUME NEW k \in Keys, NEW c \in Calls, NEW op \in {"run", "interrupt"}, Makes(k, c, op)
      PROVE  [D!Next]_(D!doorbellVars)
  <2>1. D!Make(k, c, op)
    BY <1>3 DEF Makes, D!Make, MadeView
  <2>2. D!Join(k, c) \/ D!Ignore(k, c)
    BY <1>1, <1>3, <2>1 DEF D!Join, D!Ignore, DemandView, ServingView
  <2> QED BY <2>2 DEF D!Next
<1> QED BY <1>2, <1>3

LEMMA CallStepRefines ==
  ASSUME CoordinatorInv, NewIsBlank, NEW c \in Calls, NEW k \in Keys, CallStep(c, k)
  PROVE  [D!Next]_(D!doorbellVars)
<1>1. executions[k] # None => /\ executions[k] \in Fibers /\ Live(executions[k])
                              /\ fiber[executions[k]].key = k
                              /\ fiber[executions[k]] \in Execution
  BY LiveIsExecution DEF CoordinatorInv, TypeOK, ExecutionsOwnFibers
<1>r. ASSUME NEW op \in {"wake", "interrupt"}, NEW result, Returns(c, op, k, result),
             call[c].state = "new"
      PROVE  Makes(k, c, op)
  <2> DEFINE r == [op |-> op, key |-> k, state |-> "returned", on |-> None, result |-> result]
  <2>1. call' = [call EXCEPT ![c] = r]
    BY <1>r DEF Returns
  <2>2. ~Effective(call[c])
    BY <1>r, NoneAssumption DEF NewIsBlank, Effective, Ops
  <2>3. r.key = k /\ r.op = op /\ Effective(r)
    BY DEF Effective
  <2> HIDE DEF r
  <2> QED BY <2>1, <2>2, <2>3, MadeAfter
<1>a. ASSUME NEW op \in {"run", "awaitIdle"}, Evaluates(c, op, k)
      PROVE  ~Effective(call[c])
  BY <1>a, NoneAssumption DEF Evaluates, NewIsBlank, Effective, Ops
<1>b. ASSUME NEW state, NEW f, Evaluates(c, "run", k), Awaits(c, "run", k, state, f)
      PROVE  IF state = "joined" THEN Makes(k, c, "run")
             ELSE state = "outwaiting" => MadeView' = MadeView
  <2> DEFINE r == [op |-> "run", key |-> k, state |-> state, on |-> f, result |-> None]
  <2>1. call' = [call EXCEPT ![c] = r]
    BY <1>b DEF Awaits
  <2>2. r.key = k /\ r.op = "run" /\ (Effective(r) <=> state \in {"joined", "returned"})
    BY DEF Effective
  <2> HIDE DEF r
  <2> QED BY <1>a, <1>b, <2>1, <2>2, MadeAfter
<1>2. ASSUME NEW scope \in Scope, Wake(c, k, scope) PROVE [D!Next]_(D!doorbellVars)
  <2>m. Makes(k, c, "wake")
    BY <1>2, <1>r DEF Wake
  <2>1. CASE executions[k] # None
    <3> DEFINE f == executions[k]
               e == [fiber[f] EXCEPT !.pendingWake = Widen(@, scope)]
    <3>1. fiber' = [fiber EXCEPT ![f] = e] /\ executions' = executions
      BY <1>2, <2>1 DEF Wake
    <3>2. /\ OnlyTouches(k)
          /\ DemandOf(k) = RecordDemand(fiber[f]) /\ ServingOf(k) = RecordServing(fiber[f])
          /\ DemandOf(k)' = RecordDemand(e) /\ ServingOf(k)' = RecordServing(e)
      BY <1>1, <2>1, <3>1, ViewOfRewrite
    <3>3. RecordDemand(e) = RecordDemand(fiber[f]) \cup Covers(scope)
      BY <1>1, <2>1, CoversFacts DEF RecordDemand, Execution
    <3>4. RecordServing(e) = RecordServing(fiber[f])
      BY <1>1, <2>1 DEF RecordServing, Execution
    <3> HIDE DEF e, f
    <3> QED BY <2>m, <3>2, <3>3, <3>4, DoorbellStep
  <2>2. CASE executions[k] = None
    <3>1. PICK g \in Free : Start(fiber, g, k, FALSE, scope)
      BY <1>2, <2>2 DEF Wake
    <3> QED BY <2>m, <2>2, <3>1, ViewOfStart, DoorbellStep
  <2> QED BY <2>1, <2>2
<1>3. CASE Run(c, k)
  <2>1. CASE executions[k] # None
    <3>1. UNCHANGED <<executions, fiber>> /\ Evaluates(c, "run", k)
      BY <1>3, <2>1 DEF Run
    <3>2. Makes(k, c, "run") \/ MadeView' = MadeView
      BY <1>3, <1>b, <2>1 DEF Run
    <3> QED BY <3>1, <3>2, ViewsUnchanged
  <2>2. CASE executions[k] = None
    <3>1. PICK g \in Free : Start(fiber, g, k, TRUE, "input") /\ Awaits(c, "run", k, "joined", g)
      BY <1>3, <2>2 DEF Run
    <3>2. "input" \in Scope
      BY DEF Scope
    <3>3. Makes(k, c, "run")
      BY <1>3, <1>b, <3>1 DEF Run
    <3> QED BY <2>2, <3>1, <3>2, <3>3, ViewOfStart, DoorbellStep
  <2> QED BY <2>1, <2>2
<1>4. CASE Interrupt(c, k)
  <2> DEFINE f == executions[k]
  <2>m. Makes(k, c, "interrupt")
    BY <1>4, <1>r DEF Interrupt
  <2>1. CASE UNCHANGED fiber
    BY <1>4, <2>m, <2>1, ViewsUnchanged DEF Interrupt
  <2>2. CASE f # None
    <3>1. ASSUME fiber[f].phase = "settling", fiber' = [fiber EXCEPT ![f].pendingWake = None]
          PROVE  [D!Next]_(D!doorbellVars)
      <4> DEFINE e == [fiber[f] EXCEPT !.pendingWake = None]
      <4>1. fiber' = [fiber EXCEPT ![f] = e] /\ executions' = executions
        BY <1>4, <3>1 DEF Interrupt
      <4>2. /\ OnlyTouches(k)
            /\ ServingOf(k) = RecordServing(fiber[f])
            /\ DemandOf(k)' = RecordDemand(e) /\ ServingOf(k)' = RecordServing(e)
        BY <1>1, <2>2, <4>1, ViewOfRewrite
      <4>3. RecordDemand(e) = {} /\ RecordServing(e) = RecordServing(fiber[f])
        BY <1>1, <2>2, <3>1, CoversFacts DEF RecordDemand, RecordServing, Execution
      <4> HIDE DEF e, f
      <4> QED BY <2>m, <4>2, <4>3, DoorbellStep
    <3>2. ASSUME fiber' = [fiber EXCEPT ![f].stopping = TRUE, ![f].pendingWake = None]
          PROVE  [D!Next]_(D!doorbellVars)
      <4> DEFINE e == [fiber[f] EXCEPT !.stopping = TRUE, !.pendingWake = None]
      <4>1. fiber' = [fiber EXCEPT ![f] = e] /\ executions' = executions
        BY <1>1, <1>4, <2>2, <3>2 DEF Interrupt, CoordinatorInv, TypeOK, Execution
      <4>2. /\ OnlyTouches(k)
            /\ ServingOf(k) = RecordServing(fiber[f])
            /\ DemandOf(k)' = RecordDemand(e) /\ ServingOf(k)' = RecordServing(e)
        BY <1>1, <2>2, <4>1, ViewOfRewrite
      <4>3. RecordDemand(e) = {} /\ RecordServing(e) = RecordServing(fiber[f])
        BY <1>1, <2>2, CoversFacts DEF RecordDemand, RecordServing, Execution
      <4> HIDE DEF e, f
      <4> QED BY <2>m, <4>2, <4>3, DoorbellStep
    <3> QED BY <1>4, <2>1, <2>2, <3>1, <3>2 DEF Interrupt
  <2> QED BY <1>4, <2>1, <2>2 DEF Interrupt
<1>5. CASE AwaitIdle(c, k)
  <2>1. ASSUME NEW r, call' = [call EXCEPT ![c] = r], r.op = "awaitIdle", r.key = k
        PROVE  MadeView' = MadeView
    BY <1>5, <1>a, <2>1, MadeAfter DEF AwaitIdle, Effective
  <2>2. CASE executions[k] = None
    <3> DEFINE r == [op |-> "awaitIdle", key |-> k, state |-> "returned",
                     on |-> None, result |-> "ok"]
    <3>1. call' = [call EXCEPT ![c] = r]
      BY <1>5, <2>2 DEF AwaitIdle, Returns
    <3>2. r.op = "awaitIdle" /\ r.key = k
      OBVIOUS
    <3> HIDE DEF r
    <3>3. MadeView' = MadeView
      BY <2>1, <3>1, <3>2
    <3> QED BY <1>5, <3>3, ViewsUnchanged DEF AwaitIdle
  <2>3. CASE executions[k] # None
    <3> DEFINE r == [op |-> "awaitIdle", key |-> k, state |-> "outwaiting",
                     on |-> executions[k], result |-> None]
    <3>1. call' = [call EXCEPT ![c] = r]
      BY <1>5, <2>3 DEF AwaitIdle, Awaits
    <3>2. r.op = "awaitIdle" /\ r.key = k
      OBVIOUS
    <3> HIDE DEF r
    <3>3. MadeView' = MadeView
      BY <2>1, <3>1, <3>2
    <3> QED BY <1>5, <3>3, ViewsUnchanged DEF AwaitIdle
  <2> QED BY <2>2, <2>3
<1> QED BY <1>2, <1>3, <1>4, <1>5 DEF CallStep

(* A caller that gives up: a joined run changes nothing, one that waited    *)
(* for a stopping execution takes effect by recording nothing.              *)
LEMMA AbandonRefines ==
  ASSUME CoordinatorInv, NEW c \in Calls, Abandon(c)
  PROVE  [D!Next]_(D!doorbellVars)
<1> PICK r : r = [call[c] EXCEPT !.state = "returned", !.on = None, !.result = "abandoned"]
  OBVIOUS
<1>0. call[c] \in Call /\ call[c].state \in {"joined", "outwaiting"}
  BY DEF Abandon, CoordinatorInv, TypeOK
<1>1. call' = [call EXCEPT ![c] = r]
  BY <1>0 DEF Abandon, CoordinatorInv, TypeOK, Call
<1>2. r.op = call[c].op /\ r.key = call[c].key /\ r.state = "returned"
  BY <1>0 DEF Call
<1>3. CASE Effective(call[c]) = Effective(r)
  <2>1. \A d \in Calls : /\ call'[d].op = call[d].op /\ call'[d].key = call[d].key
                         /\ Effective(call'[d]) = Effective(call[d])
    BY <1>1, <1>2, <1>3 DEF CoordinatorInv, TypeOK
  <2> QED BY <2>1, MadeUnchanged, ViewsUnchanged DEF Abandon
<1>4. CASE Effective(call[c]) # Effective(r)
  <2>1. ~Effective(call[c]) /\ Effective(r) /\ r.op = "run"
    BY <1>0, <1>2, <1>4 DEF Effective
  <2>2. CASE r.key \in Keys
    <3>1. PICK k \in Keys : r.key = k
      BY <2>2
    <3>2. Makes(k, c, "run")
      <4>1. Effective(r) => Makes(k, c, r.op)
        BY <1>1, <2>1, <3>1, MadeAfter
      <4> QED BY <2>1, <4>1
    <3> QED BY <3>2, ViewsUnchanged DEF Abandon
  <2>3. CASE r.key \notin Keys
    <3>1. \A j \in Keys : MadeOf(j)' =
            {<<d, call'[d].op>> : d \in {x \in Calls : call'[x].key = j /\ Effective(call'[x])}}
      BY DEF MadeOf, Effective
    <3>2. /\ call'[c] = r
          /\ \A d \in Calls \ {c} : call'[d] = call[d]
      BY <1>1 DEF CoordinatorInv, TypeOK
    <3>3. ASSUME NEW j \in Keys PROVE MadeOf(j)' = MadeOf(j)
      <4>1. \A d \in Calls : call'[d].key = j => call[d] = call'[d]
        BY <2>3, <3>2
      <4>2. \A d \in Calls : call[d].key = j => call[d] = call'[d]
        BY <1>2, <2>3, <3>2
      <4> QED BY <3>1, <4>1, <4>2 DEF MadeOf
    <3>4. MadeView' = MadeView
      BY <3>3 DEF MadeView
    <3> QED BY <3>4, ViewsUnchanged DEF Abandon
  <2> QED BY <2>2, <2>3
<1> QED BY <1>3, <1>4

LEMMA FiberStepRefines ==
  ASSUME CoordinatorInv, NEW f \in Fibers,
         \/ EnterStarted(f) \/ BeginDrain(f) \/ DrainSucceeds(f) \/ LoopAgain(f)
         \/ LoopEnds(f) \/ Fails(f) \/ Interrupted(f)
  PROVE  [D!Next]_(D!doorbellVars)
<1>1. Live(f) /\ fiber[f] \in Execution
  <2>1. Live(f)
    BY DEF Live, EnterStarted, BeginDrain, DrainSucceeds, LoopAgain, LoopEnds, Fails, Interrupted
  <2> QED BY <2>1, LiveIsExecution DEF CoordinatorInv
<1>k. PICK k \in Keys : fiber[f].key = k
  BY <1>1 DEF Execution
<1>2. executions' = executions
  BY DEF EnterStarted, BeginDrain, DrainSucceeds, LoopAgain, LoopEnds, Fails, Interrupted, Exit
<1>m. MadeView' = MadeView
  <2>1. call' = call
    BY DEF EnterStarted, BeginDrain, DrainSucceeds, LoopAgain, LoopEnds, Fails, Interrupted, Exit
  <2> QED BY <2>1, MadeUnchanged
<1>3. fiber[f].scope \in Scope /\ fiber[f].scope # None
  BY <1>1, NoneAssumption DEF Execution
<1>4. ASSUME NEW e, fiber' = [fiber EXCEPT ![f] = e],
             \/ /\ RecordServing(fiber[f]) = None /\ fiber[f].scope \in RecordDemand(fiber[f])
                /\ RecordDemand(e) \subseteq RecordDemand(fiber[f])
                /\ RecordDemand(fiber[f]) \ RecordDemand(e) \subseteq Covers(fiber[f].scope)
                /\ RecordServing(e) = fiber[f].scope
             \/ /\ RecordServing(fiber[f]) # None /\ RecordServing(e) = None
                /\ RecordDemand(e) = RecordDemand(fiber[f])
             \/ /\ RecordServing(e) = RecordServing(fiber[f])
                /\ RecordDemand(e) = RecordDemand(fiber[f])
      PROVE  [D!Next]_(D!doorbellVars)
  <2>1. /\ OnlyTouches(k)
        /\ DemandOf(k) = RecordDemand(fiber[f]) /\ ServingOf(k) = RecordServing(fiber[f])
        /\ DemandOf(k)' = RecordDemand(e) /\ ServingOf(k)' = RecordServing(e)
    BY <1>k, <1>1, <1>2, <1>4, ViewOfRewrite
  <2> QED BY <1>m, <1>3, <1>4, <2>1, DoorbellStep
<1>5. ASSUME NEW phase \in Phases, fiber' = [fiber EXCEPT ![f].phase = phase]
      PROVE  LET e == [fiber[f] EXCEPT !.phase = phase] IN
             /\ fiber' = [fiber EXCEPT ![f] = e]
             /\ e.phase = phase /\ e.scope = fiber[f].scope
             /\ e.pendingWake = fiber[f].pendingWake /\ e.stopping = fiber[f].stopping
  BY <1>1, <1>5 DEF Execution
<1>6. CASE EnterStarted(f)
  <2> DEFINE e == [fiber[f] EXCEPT !.phase = "starting"]
  <2>1. /\ fiber' = [fiber EXCEPT ![f] = e]
        /\ e.phase = "starting" /\ e.scope = fiber[f].scope
        /\ e.pendingWake = fiber[f].pendingWake
    BY <1>5, <1>6 DEF EnterStarted, Phases
  <2> HIDE DEF e
  <2> QED BY <1>3, <1>4, <1>6, <2>1, CoversFacts DEF EnterStarted, RecordDemand, RecordServing
<1>7. CASE BeginDrain(f)
  <2> DEFINE e == [fiber[f] EXCEPT !.phase = "draining"]
  <2>1. /\ fiber' = [fiber EXCEPT ![f] = e]
        /\ e.phase = "draining" /\ e.scope = fiber[f].scope
        /\ e.pendingWake = fiber[f].pendingWake
    BY <1>5, <1>7 DEF BeginDrain, Phases
  <2> HIDE DEF e
  <2> QED BY <1>3, <1>4, <1>7, <2>1, CoversFacts DEF BeginDrain, RecordDemand, RecordServing
<1>8. CASE DrainSucceeds(f)
  <2> DEFINE e == [fiber[f] EXCEPT !.phase = "drained"]
  <2>1. /\ fiber' = [fiber EXCEPT ![f] = e]
        /\ e.phase = "drained" /\ e.pendingWake = fiber[f].pendingWake
    BY <1>5, <1>8 DEF DrainSucceeds, Phases
  <2> HIDE DEF e
  <2> QED BY <1>3, <1>4, <1>8, <2>1 DEF DrainSucceeds, RecordDemand, RecordServing
<1>9. CASE LoopAgain(f)
  <2> DEFINE e == [fiber[f] EXCEPT !.phase = "yielding", !.force = FALSE,
                                   !.scope = fiber[f].pendingWake, !.pendingWake = None]
  <2>1. /\ fiber' = [fiber EXCEPT ![f] = e]
        /\ e.phase = "yielding" /\ e.scope = fiber[f].pendingWake
        /\ e.pendingWake = None /\ e.stopping = fiber[f].stopping
    BY <1>1, <1>9 DEF LoopAgain, CoordinatorInv, TypeOK, Execution
  <2> HIDE DEF e
  <2> QED BY <1>4, <1>9, <2>1, CoversFacts DEF LoopAgain, RecordDemand, RecordServing
<1>10. ASSUME NEW exit \in Exits, Exit(f, exit),
              fiber[f].phase \in {"starting", "draining", "drained"} \/ fiber[f].stopping,
              fiber[f].phase # "settling"
       PROVE  [D!Next]_(D!doorbellVars)
  <2> DEFINE e == [fiber[f] EXCEPT !.phase = "settling", !.exit = exit]
  <2>1. /\ fiber' = [fiber EXCEPT ![f] = e]
        /\ e.phase = "settling" /\ e.pendingWake = fiber[f].pendingWake
    BY <1>1, <1>10 DEF Exit, CoordinatorInv, TypeOK, Execution
  <2> HIDE DEF e
  <2> QED BY <1>3, <1>4, <1>10, <2>1 DEF RecordDemand, RecordServing
<1>11. CASE LoopEnds(f) \/ Fails(f) \/ Interrupted(f)
  BY <1>10, <1>11 DEF LoopEnds, Fails, Interrupted, Exits
<1> QED BY <1>6, <1>7, <1>8, <1>9, <1>11

LEMMA SettleRefines ==
  ASSUME CoordinatorInv, OnlyWaitersWait, NEW f \in Fibers, Settle(f)
  PROVE  [D!Next]_(D!doorbellVars)
<1> PICK k \in Keys : fiber[f].key = k
  BY DEF Settle, Live, CoordinatorInv, ExecutionsOwnFibers
<1> PICK p \in Scope \cup {None} : fiber[f].pendingWake = p
  BY LiveIsExecution DEF Settle, Live, CoordinatorInv, Execution
<1>1. /\ Live(f) /\ fiber[f] \in Execution /\ fiber[f].phase = "settling"
      /\ executions[k] = f /\ f # None
  BY LiveIsExecution, NoneAssumption DEF Live, Settle, CoordinatorInv, ExecutionsOwnFibers
<1>m. MadeView' = MadeView
  <2>1. PICK exit : call' = [c \in Calls |-> IF call[c].on = f THEN Resolve(c, exit) ELSE call[c]]
    BY DEF Settle
  <2>2. ASSUME NEW c \in Calls
        PROVE  /\ call'[c].op = call[c].op /\ call'[c].key = call[c].key
               /\ Effective(call'[c]) = Effective(call[c])
    <3>1. call[c] \in Call
      BY DEF CoordinatorInv, TypeOK
    <3>2. CASE call[c].on # f
      BY <2>1, <3>2
    <3>3. CASE call[c].on = f
      <4>1. call[c].state \in {"joined", "outwaiting"}
        BY <1>1, <3>3 DEF OnlyWaitersWait
      <4>2. call'[c] = Resolve(c, exit)
        BY <2>1, <3>3
      <4>3. /\ Resolve(c, exit).op = call[c].op /\ Resolve(c, exit).key = call[c].key
            /\ Resolve(c, exit).state = IF call[c].state = "joined" THEN "returned" ELSE "retry"
        BY <3>1 DEF Resolve, Call
      <4> QED BY <4>1, <4>2, <4>3 DEF Effective
    <3> QED BY <3>2, <3>3
  <2> QED BY <2>2, MadeUnchanged
<1>2. DemandOf(k) = Covers(p) /\ ServingOf(k) = None
  BY <1>1 DEF DemandOf, ServingOf, Unbegun, Serving
<1>3. CASE p # None
  <2> DEFINE e == NewExecution(k, FALSE, p)
  <2>1. PICK g \in Free : Start([fiber EXCEPT ![f] = NoExecution], g, k, FALSE, p)
    BY <1>3 DEF Settle
  <2>2. g \in Fibers /\ g # f /\ g # None /\ ~Live(g)
    BY <1>1, NoneAssumption DEF Free
  <2>3. /\ e.phase = "forked" /\ e.scope = p
        /\ e.pendingWake = None /\ e.stopping = FALSE
    BY DEF NewExecution, NoExecution
  <2>4. executions' = [executions EXCEPT ![k] = g]
        /\ fiber' = [fiber EXCEPT ![f] = NoExecution, ![g] = e]
    BY <2>1 DEF Start
  <2> HIDE DEF e
  <2>5. executions'[k] = g /\ fiber'[g] = e
    BY <1>1, <2>2, <2>4 DEF CoordinatorInv, TypeOK
  <2>6. OnlyTouches(k)
    BY <1>1, <2>2, <2>4 DEF OnlyTouches, CoordinatorInv, TypeOK, ExecutionsOwnFibers
  <2>7. DemandOf(k)' = Covers(p) /\ ServingOf(k)' = None
    BY <2>2, <2>3, <2>5, CoversFacts DEF DemandOf, ServingOf, Unbegun, Serving
  <2> QED BY <1>m, <1>1, <1>2, <2>6, <2>7, DoorbellStep
<1>4. CASE p = None
  <2>1. executions' = [executions EXCEPT ![k] = None]
        /\ fiber' = [fiber EXCEPT ![f] = NoExecution]
    BY <1>4 DEF Settle
  <2>2. OnlyTouches(k)
    BY <1>1, <2>1 DEF OnlyTouches, CoordinatorInv, TypeOK, ExecutionsOwnFibers
  <2>3. DemandOf(k)' = {} /\ ServingOf(k)' = None
    BY <1>1, <2>1 DEF DemandOf, ServingOf, CoordinatorInv, TypeOK
  <2> QED BY <1>m, <1>1, <1>2, <1>4, <2>2, <2>3, CoversFacts, DoorbellStep
<1> QED BY <1>3, <1>4

LEMMA NextRefines ==
  CoordinatorInv /\ NewIsBlank /\ OnlyWaitersWait /\ [Next]_vars => [D!Next]_(D!doorbellVars)
<1> SUFFICES ASSUME CoordinatorInv, NewIsBlank, OnlyWaitersWait, [Next]_vars
             PROVE  [D!Next]_(D!doorbellVars)
  OBVIOUS
<1>1. CASE UNCHANGED vars
  BY <1>1, MadeUnchanged, ViewsUnchanged DEF vars
<1>2. ASSUME NEW c \in Calls, Abandon(c) PROVE [D!Next]_(D!doorbellVars)
  BY <1>2, AbandonRefines
<1>3. ASSUME NEW c \in Calls, NEW k \in Keys, CallStep(c, k)
      PROVE  [D!Next]_(D!doorbellVars)
  BY <1>3, CallStepRefines
<1>4. ASSUME NEW f \in Fibers, FiberStep(f) PROVE [D!Next]_(D!doorbellVars)
  BY <1>4, FiberStepRefines, SettleRefines DEF FiberStep
<1> QED BY <1>1, <1>2, <1>3, <1>4 DEF Next

(* The coordinator implements the doorbell for any keys, fibers and calls:  *)
(* no wake is lost, none is served too narrowly or without being asked for, *)
(* and only an interrupt claims work, which then never starts a drain.      *)
THEOREM CoordinatorIsDoorbell == Spec => DoorbellSafe
<1>1. Init => D!Init
  BY NoneAssumption DEF Init, D!Init, DemandOf, ServingOf, MadeOf, Effective, NewCall, Ops
<1>2. Init => NewIsBlank /\ OnlyWaitersWait
  BY DEF Init, NewIsBlank, OnlyWaitersWait, NewCall
<1> QED BY <1>1, <1>2, InitInv, NextInv, NextNewIsBlank, NextOnlyWaitersWait, NextRefines, PTL
        DEF Spec, DoorbellSafe, D!Spec
===============================================================================
