------------------------ MODULE SessionExecutionProofs ------------------------
(***************************************************************************)
(* The restart budget and the claim of a turn in flight, for any set of    *)
(* sessions, callers and deaths.                                           *)
(*                                                                         *)
(* resumed <= MaxAttempts is not inductive: a terminal of a concurrent     *)
(* execution resets the counter between the sweep's count and its resume.  *)
(* The resume that is still due must fit (DueFits), and a claim that was   *)
(* taken after the reset belongs to an execution that is still there, so   *)
(* the due resume restarts nothing (FreshClaims).                          *)
(***************************************************************************)
EXTENDS SessionExecution, RunCoordinatorProofs

TableTypes ==
  /\ claimed \in [Keys -> BOOLEAN] /\ owed \in [Keys -> BOOLEAN]
  /\ attempts \in [Keys -> Nat] /\ resumed \in [Keys -> Nat]
  /\ hook \in [Fibers -> {"none", "started", "ended"}]
  /\ sweep \in [listed : BOOLEAN, task : [Keys -> Tasks]]
  /\ process \in {"up", "closing"}
  /\ deaths \in 0..MaxDeaths /\ faults \in 0..MaxFaults

(* A process that serves has interrupted no fiber without a reason. *)
ReasonsAttached ==
  process = "up" => \A f \in Fibers : fiber[f].phase = "settling" => ~ShutDown(f)

Due(k) == sweep.task[k] \in {"noticing", "resuming"}

Counted == \A k \in Keys :
  resumed[k] <= attempts[k] + Unpublished /\ resumed[k] <= MaxAttempts + Unpublished

DueFits == \A k \in Keys : Due(k) =>
  /\ 1 <= MaxAttempts /\ resumed[k] + 1 <= MaxAttempts + Unpublished
  /\ resumed[k] + 1 <= attempts[k] + Unpublished \/ (resumed[k] = 0 /\ attempts[k] = 0)

FreshClaims == \A k \in Keys :
  faults = 0 /\ Due(k) /\ attempts[k] = 0 /\ claimed[k] =>
    executions[k] # None /\ (process = "up" => hook[executions[k]] # "ended")

BudgetInv == Counted /\ DueFits /\ FreshClaims

TurnInv == CoordinatorInv /\ TableTypes /\ ReasonsAttached /\ BudgetInv

-------------------------------------------------------------------------------
(* The coordinator's invariant survives: every step is one of its own, the *)
(* exit of one fiber, or a new process.                                    *)
LEMMA ExitInv ==
  ASSUME CoordinatorInv, NEW f \in Fibers, Live(f), NEW exit \in Exits, Exit(f, exit)
  PROVE  CoordinatorInv'
<1> DEFINE e == [fiber[f] EXCEPT !.phase = "settling", !.exit = exit]
<1>1. fiber[f] \in Execution
  BY LiveIsExecution DEF CoordinatorInv
<1>2. e \in Execution /\ e.key = fiber[f].key
  BY <1>1 DEF Execution, Phases
<1>3. fiber' = [fiber EXCEPT ![f] = e]
  BY <1>1 DEF Exit, CoordinatorInv, TypeOK, Execution
<1>4. executions' = executions /\ call' \in [Calls -> Call]
  BY DEF Exit, CoordinatorInv, TypeOK
<1> QED BY <1>2, <1>3, <1>4, RewriteExecution

LEMMA TurnSteps ==
  ASSUME [TurnNext]_turnVars
  PROVE  [Next]_vars \/ (\E f \in Fibers : ClosedDown(f)) \/ Die
<1>1. ASSUME NEW c \in Callers, NEW k \in Keys, Prompt(c, k) \/ Resume(c, k) \/ Stop(c, k) PROVE Next
  BY <1>1 DEF Next, CallStep, Prompt, Resume, Stop, Callers, Scope
<1>2. ASSUME NEW f \in Fibers, FiberTurn(f) PROVE [Next]_vars \/ ClosedDown(f)
  BY <1>2
  DEF FiberTurn, FiberStep, Next, EnterHook, Started, StartedFails, Drain, DrainMoves, Ends,
      Terminal, TerminalFails, Settles
<1>3. ASSUME SweepTurn PROVE [Next]_vars
  <2>1. ASSUME NEW k \in Keys, SweepResumes(k) PROVE Next
    BY <2>1, SweeperAssumption DEF Next, CallStep, SweepResumes
  <2> QED
    BY <1>3, <2>1 DEF SweepTurn, SweepLists, SweepFails, SweepCounts, SweepExhausts, SweepNotices
<1>4. CASE Close \/ UNCHANGED turnVars
  BY <1>4 DEF Close, turnVars, vars
<1> QED BY <1>1, <1>2, <1>3, <1>4 DEF TurnNext

LEMMA TurnKeepsCoordinator ==
  ASSUME CoordinatorInv, [TurnNext]_turnVars
  PROVE  CoordinatorInv'
<1>1. CASE [Next]_vars
  BY <1>1, NextInv
<1>2. ASSUME NEW f \in Fibers, ClosedDown(f) PROVE CoordinatorInv'
  BY <1>2, ExitInv DEF ClosedDown, Live, Exits
<1>3. CASE Die
  <2>1. CoordinatorInv'
    BY <1>3, NoneAssumption
    DEF Die, CoordinatorInv, TypeOK, ExecutionsOwnFibers, Live, NoExecution, NewCall, Call
  <2> QED BY <2>1
<1> QED BY <1>1, <1>2, <1>3, TurnSteps

-------------------------------------------------------------------------------
(* The tables, the hooks and the sweep keep their types. *)
LEMMA GoesTask ==
  ASSUME TableTypes, NEW k \in Keys, NEW task \in Tasks, Goes(k, task)
  PROVE  /\ sweep' \in [listed : BOOLEAN, task : [Keys -> Tasks]]
         /\ sweep'.task = [sweep.task EXCEPT ![k] = task]
BY DEF Goes, TableTypes

LEMMA GoesAlone ==
  ASSUME TableTypes, NEW k \in Keys, NEW task \in Tasks, Goes(k, task)
  PROVE  /\ sweep'.task[k] = task
         /\ \A j \in Keys \ {k} : sweep'.task[j] = sweep.task[j]
<1>1. sweep'.task = [sweep.task EXCEPT ![k] = task]
  BY GoesTask
<1>2. sweep.task \in [Keys -> Tasks]
  BY DEF TableTypes
<1> QED BY <1>1, <1>2

LEMMA TurnKeepsTypes ==
  ASSUME CoordinatorInv, TableTypes, [TurnNext]_turnVars
  PROVE  TableTypes'
<1> USE BoundsAssumption
<1>1. ASSUME UNCHANGED <<hook, sweep>>, UNCHANGED durable, UNCHANGED runtime, UNCHANGED history
      PROVE  TableTypes'
  BY <1>1 DEF TableTypes, durable, runtime, history
<1>2. ASSUME NEW c \in Callers, NEW k \in Keys, Prompt(c, k) \/ Resume(c, k) \/ Stop(c, k)
      PROVE  TableTypes'
  BY <1>1, <1>2 DEF Prompt, Resume, Stop
<1>3. ASSUME NEW f \in Fibers, FiberTurn(f) PROVE TableTypes'
  <2>1. CASE EnterHook(f) \/ DrainMoves(f) \/ ClosedDown(f)
    BY <1>1, <2>1 DEF EnterHook, DrainMoves, ClosedDown
  <2>2. CASE Drain(f) \/ Ends(f)
    BY <2>2 DEF Drain, Ends, TurnOver, TableTypes, durable, runtime
  <2>3. CASE Started(f)
    BY <2>3 DEF Started, Publishes, Claim, TableTypes, runtime, history
  <2>4. CASE StartedFails(f)
    <3>1. Faulty /\ TurnOver(fiber[f].key)
      BY <2>4 DEF StartedFails
    <3>3. faults' \in 0..MaxFaults
      BY <3>1 DEF Faulty, TableTypes
    <3>4. owed' \in [Keys -> BOOLEAN]
      BY <3>1 DEF TurnOver, TableTypes
    <3>2. UNCHANGED <<hook, sweep, process, deaths, resumed, claimed, attempts>>
      BY <2>4 DEF StartedFails, durable
    <3> QED BY <3>2, <3>3, <3>4 DEF TableTypes
  <2>5. CASE Terminal(f)
    <3>1. UNCHANGED <<sweep, process, deaths, faults, owed>>
      BY <2>5 DEF Terminal, runtime
    <3>2. hook' \in [Fibers -> {"none", "started", "ended"}]
      BY <2>5 DEF Terminal, Publishes, TableTypes
    <3>3. CASE UNCHANGED durable /\ UNCHANGED resumed
      BY <3>1, <3>2, <3>3 DEF TableTypes, durable
    <3>4. CASE Release(fiber[f].key) /\ resumed' = [resumed EXCEPT ![fiber[f].key] = 0]
      <4>1. /\ claimed' \in [Keys -> BOOLEAN]
            /\ attempts' \in [Keys -> Nat] /\ resumed' \in [Keys -> Nat]
        BY <3>4 DEF Release, TableTypes
      <4> QED BY <3>1, <3>2, <4>1 DEF TableTypes
    <3> QED BY <2>5, <3>3, <3>4 DEF Terminal
  <2>6. CASE TerminalFails(f)
    BY <2>6 DEF TerminalFails, Publishes, Faulty, TableTypes, durable, history
  <2>7. CASE Settles(f)
    BY <2>7 DEF Settles, Publishes, TableTypes, durable, runtime, history
  <2> QED BY <1>3, <2>1, <2>2, <2>3, <2>4, <2>5, <2>6, <2>7 DEF FiberTurn
<1>4. CASE SweepTurn
  <2>1. CASE SweepLists
    BY <2>1 DEF SweepLists, TableTypes, Tasks, durable, runtime, history
  <2>2. CASE SweepFails
    <3>1. sweep' \in [listed : BOOLEAN, task : [Keys -> Tasks]]
      BY <2>2 DEF SweepFails, TableTypes, Tasks
    <3>2. faults' \in 0..MaxFaults
      BY <2>2 DEF SweepFails, Faulty, TableTypes
    <3> QED BY <2>2, <3>1, <3>2 DEF SweepFails, TableTypes, durable, history
  <2>3. ASSUME NEW k \in Keys, SweepCounts(k) PROVE TableTypes'
    <3>1. sweep' \in [listed : BOOLEAN, task : [Keys -> Tasks]]
      BY <2>3, GoesTask DEF SweepCounts, Tasks
    <3>2. attempts' \in [Keys -> Nat]
      BY <2>3 DEF SweepCounts, TableTypes
    <3> QED BY <2>3, <3>1, <3>2 DEF SweepCounts, TableTypes, runtime, history
  <2>4. ASSUME NEW k \in Keys, SweepExhausts(k) PROVE TableTypes'
    BY <2>4, GoesTask DEF SweepExhausts, Release, TurnOver, TableTypes, Tasks, runtime
  <2>5. ASSUME NEW k \in Keys, SweepNotices(k) PROVE TableTypes'
    BY <2>5, GoesTask DEF SweepNotices, TableTypes, Tasks, durable, runtime, history
  <2>6. ASSUME NEW k \in Keys, SweepResumes(k) PROVE TableTypes'
    <3>1. sweep' \in [listed : BOOLEAN, task : [Keys -> Tasks]]
      BY <2>6, GoesTask DEF SweepResumes, Tasks
    <3>2. resumed' \in [Keys -> Nat]
      BY <2>6 DEF SweepResumes, TableTypes
    <3> QED BY <2>6, <3>1, <3>2 DEF SweepResumes, TableTypes, durable, runtime
  <2> QED BY <1>4, <2>1, <2>2, <2>3, <2>4, <2>5, <2>6 DEF SweepTurn
<1>5. CASE Close
  BY <1>5 DEF Close, TableTypes, durable, history
<1>6. CASE Die
  <2>1. sweep' \in [listed : BOOLEAN, task : [Keys -> Tasks]]
    BY <1>6 DEF Die, NewSweep, Tasks
  <2>2. deaths' \in 0..MaxDeaths
    BY <1>6 DEF Die, TableTypes
  <2>3. hook' \in [Fibers -> {"none", "started", "ended"}] /\ process' \in {"up", "closing"}
    BY <1>6 DEF Die
  <2> QED BY <1>6, <2>1, <2>2, <2>3 DEF Die, TableTypes, durable, history
<1>7. CASE UNCHANGED turnVars
  BY <1>7 DEF turnVars, TableTypes
<1> QED BY <1>2, <1>3, <1>4, <1>5, <1>6, <1>7 DEF TurnNext

-------------------------------------------------------------------------------
(* Interruptions and their reasons. *)
LEMMA TurnKeepsReasons ==
  ASSUME CoordinatorInv, TableTypes, ReasonsAttached, [TurnNext]_turnVars
  PROVE  ReasonsAttached'
<1>0. ASSUME fiber' = fiber, process' = process \/ process' = "closing"
      PROVE  ReasonsAttached'
  BY <1>0 DEF ReasonsAttached, ShutDown
<1>1. ASSUME NEW k \in Keys, NEW force \in BOOLEAN, NEW scope \in Scope, NEW g \in Free,
             NEW fs, fs = fiber \/ (\E f \in Fibers : fs = [fiber EXCEPT ![f] = NoExecution]),
             Start(fs, g, k, force, scope), process' = process
      PROVE  ReasonsAttached'
  <2>1. NewExecution(k, force, scope).phase = "forked" /\ NoExecution.phase = "free"
    BY DEF NewExecution, NoExecution
  <2>2. fiber' = [fs EXCEPT ![g] = NewExecution(k, force, scope)]
    BY <1>1, Zenon DEF Start
  <2> HIDE DEF NewExecution, NoExecution
  <2>3. ASSUME NEW f \in Fibers
        PROVE  fiber'[f] = fiber[f] \/ fiber'[f].phase \in {"forked", "free"}
    BY <1>1, <2>1, <2>2, <2>3 DEF CoordinatorInv, TypeOK
  <2> QED BY <1>1, <2>3 DEF ReasonsAttached, ShutDown
<1>2. ASSUME NEW f \in Fibers, NEW e, fiber' = [fiber EXCEPT ![f] = e],
             e.phase = "settling" => process = "closing" \/ e.stopping \/ e.exit # "interrupted",
             process' = process
      PROVE  ReasonsAttached'
  BY <1>2 DEF ReasonsAttached, ShutDown, CoordinatorInv, TypeOK
<1>3. ASSUME NEW c \in Calls, NEW k \in Keys, NEW scope \in Scope, Wake(c, k, scope), process' = process
      PROVE  ReasonsAttached'
  <2>1. CASE executions[k] = None
    BY <1>1, <1>3, <2>1 DEF Wake
  <2>2. CASE executions[k] # None
    <3> DEFINE f == executions[k]
               e == [fiber[f] EXCEPT !.pendingWake = Widen(@, scope)]
    <3>1. f \in Fibers /\ fiber[f] \in Execution
      BY <2>2, LiveIsExecution DEF CoordinatorInv, TypeOK, ExecutionsOwnFibers
    <3>2. e.phase = fiber[f].phase /\ e.stopping = fiber[f].stopping /\ e.exit = fiber[f].exit
      BY <3>1 DEF Execution
    <3>3. fiber' = [fiber EXCEPT ![f] = e]
      BY <1>3, <2>2 DEF Wake
    <3> QED
      BY <3>1, <3>2, <3>3, <1>3 DEF ReasonsAttached, ShutDown, CoordinatorInv, TypeOK
  <2> QED BY <2>1, <2>2
<1>4. ASSUME NEW c \in Calls, NEW k \in Keys, Run(c, k), process' = process
      PROVE  ReasonsAttached'
  BY <1>0, <1>1, <1>4 DEF Run, Scope
<1>5. ASSUME NEW c \in Calls, NEW k \in Keys, Interrupt(c, k), process' = process
      PROVE  ReasonsAttached'
  <2> DEFINE f == executions[k]
             a == [fiber[f] EXCEPT !.pendingWake = None]
             b == [fiber[f] EXCEPT !.stopping = TRUE, !.pendingWake = None]
  <2>1. CASE fiber' = fiber
    BY <1>0, <1>5, <2>1
  <2>2. CASE fiber' # fiber
    <3>1. f \in Fibers /\ fiber[f] \in Execution
      BY <1>5, <2>2, LiveIsExecution DEF Interrupt, CoordinatorInv, TypeOK, ExecutionsOwnFibers
    <3>2. /\ a.phase = fiber[f].phase /\ a.stopping = fiber[f].stopping /\ a.exit = fiber[f].exit
          /\ b.phase = fiber[f].phase /\ b.stopping = TRUE
      BY <3>1 DEF Execution
    <3>3. fiber' = [fiber EXCEPT ![f] = a] \/ fiber' = [fiber EXCEPT ![f] = b]
      BY <1>5, <2>2, <3>1 DEF Interrupt, CoordinatorInv, TypeOK, Execution
    <3> QED
      BY <3>1, <3>2, <3>3, <1>5 DEF ReasonsAttached, ShutDown, CoordinatorInv, TypeOK
  <2> QED BY <2>1, <2>2
<1>6. ASSUME NEW c \in Callers, NEW k \in Keys, Prompt(c, k) \/ Resume(c, k) \/ Stop(c, k)
      PROVE  ReasonsAttached'
  BY <1>3, <1>4, <1>5, <1>6 DEF Prompt, Resume, Stop, Callers, Scope, runtime
<1>7. ASSUME NEW f \in Fibers, FiberTurn(f) PROVE ReasonsAttached'
  <2>1. ASSUME NEW exit \in Exits, Live(f), Exit(f, exit), process' = process,
               process = "closing" \/ fiber[f].stopping \/ exit # "interrupted"
        PROVE  ReasonsAttached'
    <3> DEFINE e == [fiber[f] EXCEPT !.phase = "settling", !.exit = exit]
    <3>1. fiber[f] \in Execution
      BY <2>1, LiveIsExecution DEF CoordinatorInv
    <3>2. e.stopping = fiber[f].stopping /\ e.exit = exit
      BY <3>1 DEF Execution
    <3>3. fiber' = [fiber EXCEPT ![f] = e]
      BY <2>1, <3>1 DEF Exit, CoordinatorInv, TypeOK, Execution
    <3> QED BY <1>2, <2>1, <3>2, <3>3
  <2>2. ASSUME NEW phase \in Phases \ {"settling"}, fiber' = [fiber EXCEPT ![f].phase = phase],
               Live(f), process' = process
        PROVE  ReasonsAttached'
    <3> DEFINE e == [fiber[f] EXCEPT !.phase = phase]
    <3>1. e.phase # "settling"
      BY <2>2, LiveIsExecution DEF CoordinatorInv, Execution
    <3> QED BY <1>2, <2>2, <3>1
  <2>3. CASE EnterHook(f) \/ Drain(f) \/ (DrainMoves(f) /\ DrainSucceeds(f))
    BY <2>2, <2>3
    DEF EnterHook, EnterStarted, Drain, BeginDrain, DrainMoves, DrainSucceeds, Phases, Live, runtime
  <2>4. CASE DrainMoves(f) /\ LoopAgain(f)
    <3> DEFINE e == [fiber[f] EXCEPT !.phase = "yielding", !.force = FALSE,
                                     !.scope = fiber[f].pendingWake, !.pendingWake = None]
    <3>1. fiber[f] \in Execution
      BY <2>4, LiveIsExecution DEF LoopAgain, Live, CoordinatorInv
    <3>2. e.phase = "yielding"
      BY <3>1 DEF Execution
    <3>3. fiber' = [fiber EXCEPT ![f] = e]
      BY <2>4, <3>1 DEF LoopAgain, CoordinatorInv, TypeOK, Execution
    <3> QED BY <1>2, <2>4, <3>2, <3>3 DEF DrainMoves, runtime
  <2>5. CASE StartedFails(f) \/ Ends(f)
    <3>1. process' = process
      BY <2>5 DEF StartedFails, Ends, runtime
    <3> QED
      BY <2>1, <2>5, <3>1
      DEF StartedFails, Ends, Fails, LoopEnds, Interrupted, Live, Exits
  <2>6. CASE ClosedDown(f)
    BY <2>1, <2>6 DEF ClosedDown, Live, Exits, runtime
  <2>7. CASE Started(f) \/ Terminal(f) \/ TerminalFails(f)
    BY <1>0, <2>7 DEF Started, Terminal, TerminalFails, vars, runtime
  <2>8. CASE Settles(f)
    <3>1. Live(f) /\ fiber[f] \in Execution /\ process' = process
      BY <2>8, LiveIsExecution DEF Settles, Settle, Live, CoordinatorInv, runtime
    <3>2. fiber[f].key \in Keys /\ fiber[f].pendingWake \in Scope \cup {None}
      BY <3>1 DEF Execution
    <3>3. CASE fiber' = [fiber EXCEPT ![f] = NoExecution]
      BY <1>2, <3>1, <3>3 DEF NoExecution
    <3>4. CASE fiber[f].pendingWake # None
               /\ \E g \in Free : Start([fiber EXCEPT ![f] = NoExecution], g, fiber[f].key, FALSE,
                                        fiber[f].pendingWake)
      BY <1>1, <3>1, <3>2, <3>4
    <3> QED BY <2>8, <3>3, <3>4 DEF Settles, Settle
  <2> QED
    BY <1>7, <2>3, <2>4, <2>5, <2>6, <2>7, <2>8 DEF FiberTurn, DrainMoves
<1>8. CASE SweepTurn
  <2>1. ASSUME NEW k \in Keys, SweepResumes(k) PROVE ReasonsAttached'
    BY <1>4, <2>1, SweeperAssumption DEF SweepResumes, runtime
  <2> QED
    BY <1>0, <1>8, <2>1
    DEF SweepTurn, SweepLists, SweepFails, SweepCounts, SweepExhausts, SweepNotices, vars, runtime
<1>9. CASE Close
  BY <1>0, <1>9 DEF Close, vars
<1>10. CASE Die
  BY <1>10 DEF Die, ReasonsAttached, NoExecution
<1>11. CASE UNCHANGED turnVars
  BY <1>0, <1>11 DEF turnVars
<1> QED BY <1>6, <1>7, <1>8, <1>9, <1>10, <1>11 DEF TurnNext

-------------------------------------------------------------------------------
(* The budget. *)
KeepsExecutions == \A k \in Keys : executions[k] # None => executions'[k] = executions[k]
NoNewDue == \A k \in Keys : sweep'.task[k] \in {"noticing", "resuming"} => Due(k)

LEMMA CallsKeepExecutions ==
  ASSUME CoordinatorInv, NEW c \in Calls, NEW k \in Keys,
         (\E scope \in Scope : Wake(c, k, scope)) \/ Run(c, k) \/ Interrupt(c, k)
  PROVE  KeepsExecutions
BY DEF KeepsExecutions, Wake, Run, Interrupt, Start, CoordinatorInv, TypeOK

(* Nothing the budget counts moves. *)
LEMMA QuietKeepsBudget ==
  ASSUME BudgetInv, UNCHANGED <<claimed, attempts, resumed, faults, hook>>,
         KeepsExecutions, NoNewDue, process' = process \/ process' = "closing"
  PROVE  BudgetInv'
<1>1. Unpublished' = Unpublished
  BY DEF Unpublished
<1>2. Counted'
  BY <1>1 DEF BudgetInv, Counted
<1>3. DueFits'
  BY <1>1 DEF BudgetInv, DueFits, NoNewDue, Due
<1>4. FreshClaims'
  BY DEF BudgetInv, FreshClaims, NoNewDue, Due, KeepsExecutions
<1> QED BY <1>2, <1>3, <1>4 DEF BudgetInv

(* A publication that fails widens the bound by the one it hides. *)
LEMMA FaultKeepsBudget ==
  ASSUME TableTypes, BudgetInv, Faulty, UNCHANGED <<claimed, attempts, resumed>>, NoNewDue
  PROVE  BudgetInv'
<1>1. faults' # 0 /\ Unpublished' = 1 /\ Unpublished \in {0, 1}
  BY DEF Faulty, Unpublished, TableTypes
<1>2. Counted'
  BY <1>1, BoundsAssumption DEF BudgetInv, Counted, TableTypes
<1>3. DueFits'
  <2> SUFFICES ASSUME NEW k \in Keys, Due(k)'
               PROVE  /\ 1 <= MaxAttempts /\ resumed[k] + 1 <= MaxAttempts + 1
                      /\ resumed[k] + 1 <= attempts[k] + 1
    BY <1>1 DEF DueFits
  <2>1. Due(k)
    BY DEF Due, NoNewDue
  <2> QED
    BY <1>1, <2>1, BoundsAssumption DEF BudgetInv, DueFits, TableTypes
<1>4. FreshClaims'
  BY <1>1 DEF FreshClaims
<1> QED BY <1>2, <1>3, <1>4 DEF BudgetInv

LEMMA TerminalKeepsBudget ==
  ASSUME CoordinatorInv, TableTypes, ReasonsAttached, BudgetInv,
         NEW f \in Fibers, Terminal(f)
  PROVE  BudgetInv'
<1> DEFINE l == fiber[f].key
<1>1. l \in Keys /\ executions[l] = f
  BY DEF Terminal, CoordinatorInv, ExecutionsOwnFibers, Live
<1>2. ASSUME NEW k \in Keys, k # l, executions[k] # None
      PROVE  hook'[executions[k]] = hook[executions[k]]
  BY <1>1, <1>2 DEF Terminal, Publishes, CoordinatorInv, TypeOK, ExecutionsOwnFibers, TableTypes
<1>3. /\ executions' = executions /\ process' = process
      /\ faults' = faults /\ Unpublished' = Unpublished /\ sweep' = sweep
      /\ Unpublished \in {0, 1}
  BY DEF Terminal, vars, runtime, Unpublished
<1> HIDE DEF l
<1>4. CASE Release(l) /\ resumed' = [resumed EXCEPT ![l] = 0]
  <2>1. attempts'[l] = 0 /\ resumed'[l] = 0 /\ claimed'[l] = FALSE
    BY <1>1, <1>4 DEF Release, TableTypes
  <2>2. ASSUME NEW k \in Keys, k # l
        PROVE  attempts'[k] = attempts[k] /\ resumed'[k] = resumed[k] /\ claimed'[k] = claimed[k]
    BY <1>1, <1>4, <2>2 DEF Release, TableTypes
  <2>3. Counted'
    BY <1>3, <2>1, <2>2, BoundsAssumption DEF BudgetInv, Counted, TableTypes
  <2>4. DueFits'
    BY <1>3, <2>1, <2>2, BoundsAssumption DEF BudgetInv, DueFits, Due, TableTypes
  <2>5. FreshClaims'
    BY <1>2, <1>3, <2>1, <2>2 DEF BudgetInv, FreshClaims, Due
  <2> QED BY <2>3, <2>4, <2>5 DEF BudgetInv
<1>5. CASE ShutDown(f) /\ UNCHANGED durable /\ UNCHANGED resumed
  <2>1. process # "up"
    BY <1>5 DEF ReasonsAttached, Terminal
  <2>2. Counted' /\ DueFits'
    BY <1>3, <1>5 DEF BudgetInv, Counted, DueFits, Due, durable
  <2>3. FreshClaims'
    BY <1>3, <1>5, <2>1 DEF BudgetInv, FreshClaims, Due, durable
  <2> QED BY <2>2, <2>3 DEF BudgetInv
<1> QED BY <1>4, <1>5 DEF Terminal, l

LEMMA StartedKeepsBudget ==
  ASSUME CoordinatorInv, TableTypes, BudgetInv, NEW f \in Fibers, Started(f)
  PROVE  BudgetInv'
<1> DEFINE l == fiber[f].key
<1>1. l \in Keys /\ executions[l] = f /\ f # None
  BY NoneAssumption DEF Started, CoordinatorInv, ExecutionsOwnFibers, Live
<1>2. ASSUME NEW k \in Keys, k # l
      PROVE  /\ claimed'[k] = claimed[k]
             /\ executions[k] # None => hook'[executions[k]] = hook[executions[k]]
  BY <1>1, <1>2
  DEF Started, Claim, Publishes, CoordinatorInv, TypeOK, ExecutionsOwnFibers, TableTypes
<1>3. /\ UNCHANGED <<executions, process, faults, sweep, attempts, resumed>>
      /\ Unpublished' = Unpublished
  BY DEF Started, Claim, vars, runtime, history, Unpublished
<1>4. hook'[f] = "started"
  BY DEF Started, Publishes, TableTypes
<1> HIDE DEF l
<1>5. Counted' /\ DueFits'
  BY <1>3 DEF BudgetInv, Counted, DueFits, Due
<1>6. FreshClaims'
  BY <1>1, <1>2, <1>3, <1>4 DEF BudgetInv, FreshClaims, Due
<1> QED BY <1>5, <1>6 DEF BudgetInv

(* A session whose claim is fresh does not settle before its terminal. *)
LEMMA SettlesKeepsBudget ==
  ASSUME CoordinatorInv, TableTypes, BudgetInv, NEW f \in Fibers, Settles(f)
  PROVE  BudgetInv'
<1> DEFINE l == fiber[f].key
<1>1. l \in Keys /\ executions[l] = f
  BY DEF Settles, Settle, CoordinatorInv, ExecutionsOwnFibers, Live
<1>2. /\ UNCHANGED <<claimed, attempts, resumed, faults, process, sweep>>
      /\ Unpublished' = Unpublished /\ process = "up" /\ hook[f] = "ended"
  BY DEF Settles, durable, runtime, history, Unpublished
<1>3. ASSUME NEW k \in Keys, k # l, executions[k] # None
      PROVE  executions'[k] = executions[k] /\ hook'[executions[k]] = hook[executions[k]]
  <2>1. executions[k] \in Fibers /\ executions[k] # f
    BY <1>3 DEF CoordinatorInv, TypeOK, ExecutionsOwnFibers
  <2>2. executions'[k] = executions[k]
    BY <1>1, <1>3 DEF Settles, Settle, Start, CoordinatorInv, TypeOK
  <2>3. hook'[executions[k]] = hook[executions[k]]
    BY <2>1 DEF Settles, Publishes, TableTypes
  <2> QED BY <2>2, <2>3
<1> HIDE DEF l
<1>4. Counted' /\ DueFits'
  BY <1>2 DEF BudgetInv, Counted, DueFits, Due
<1>5. FreshClaims'
  BY <1>1, <1>2, <1>3 DEF BudgetInv, FreshClaims, Due
<1> QED BY <1>4, <1>5 DEF BudgetInv

(* The count is durable before the resume that it pays for is due. *)
LEMMA SweepCountsKeepsBudget ==
  ASSUME TableTypes, BudgetInv, NEW l \in Keys, SweepCounts(l)
  PROVE  BudgetInv'
<1> USE BoundsAssumption
<1>1. /\ UNCHANGED <<claimed, resumed, faults, hook, process, executions>>
      /\ Unpublished' = Unpublished /\ Unpublished \in {0, 1}
  BY DEF SweepCounts, vars, runtime, history, Unpublished
<1>2. attempts'[l] = attempts[l] + 1
      /\ \A k \in Keys \ {l} : attempts'[k] = attempts[k]
  BY DEF SweepCounts, TableTypes
<1>3. /\ sweep'.task[l] = IF attempts[l] + 1 > MaxAttempts THEN "exhausting" ELSE "noticing"
      /\ \A k \in Keys \ {l} : sweep'.task[k] = sweep.task[k]
  BY GoesAlone DEF SweepCounts, Tasks
<1>4. Counted'
  BY <1>1, <1>2 DEF BudgetInv, Counted, TableTypes
<1>5. DueFits'
  <2>1. ASSUME Due(l)'
        PROVE  /\ 1 <= MaxAttempts /\ resumed[l] + 1 <= MaxAttempts + Unpublished
               /\ resumed[l] + 1 <= attempts'[l] + Unpublished
    <3>1. attempts[l] + 1 <= MaxAttempts
      BY <1>3, <2>1 DEF Due, TableTypes
    <3>2. resumed[l] <= attempts[l] + Unpublished
      BY DEF BudgetInv, Counted
    <3> QED BY <1>1, <1>2, <3>1, <3>2 DEF TableTypes
  <2>2. ASSUME NEW k \in Keys \ {l}, Due(k)'
        PROVE  /\ 1 <= MaxAttempts /\ resumed[k] + 1 <= MaxAttempts + Unpublished
               /\ \/ resumed[k] + 1 <= attempts'[k] + Unpublished
                  \/ resumed[k] = 0 /\ attempts'[k] = 0
    BY <1>2, <1>3, <2>2 DEF BudgetInv, DueFits, Due
  <2> QED BY <1>1, <2>1, <2>2 DEF DueFits
<1>6. FreshClaims'
  <2>1. attempts'[l] # 0
    BY <1>2 DEF TableTypes
  <2> QED BY <1>1, <1>2, <1>3, <2>1 DEF BudgetInv, FreshClaims, Due
<1> QED BY <1>4, <1>5, <1>6 DEF BudgetInv

LEMMA SweepExhaustsKeepsBudget ==
  ASSUME TableTypes, BudgetInv, NEW l \in Keys, SweepExhausts(l)
  PROVE  BudgetInv'
<1>1. /\ UNCHANGED <<faults, hook, process, executions>>
      /\ Unpublished' = Unpublished /\ Unpublished \in {0, 1}
  BY DEF SweepExhausts, vars, runtime, Unpublished
<1>2. /\ attempts'[l] = 0 /\ resumed'[l] = 0
      /\ \A k \in Keys \ {l} :
           attempts'[k] = attempts[k] /\ resumed'[k] = resumed[k] /\ claimed'[k] = claimed[k]
  BY DEF SweepExhausts, Release, TableTypes
<1>3. /\ sweep'.task[l] = "given up"
      /\ \A k \in Keys \ {l} : sweep'.task[k] = sweep.task[k]
  BY GoesAlone DEF SweepExhausts, Tasks
<1>4. Counted'
  BY <1>1, <1>2, BoundsAssumption DEF BudgetInv, Counted, TableTypes
<1>5. DueFits'
  BY <1>1, <1>2, <1>3 DEF BudgetInv, DueFits, Due
<1>6. FreshClaims'
  BY <1>1, <1>2, <1>3 DEF BudgetInv, FreshClaims, Due
<1> QED BY <1>4, <1>5, <1>6 DEF BudgetInv

LEMMA SweepResumesKeepsBudget ==
  ASSUME CoordinatorInv, TableTypes, BudgetInv, NEW l \in Keys, SweepResumes(l)
  PROVE  BudgetInv'
<1>1. /\ UNCHANGED <<claimed, attempts, faults, hook, process>>
      /\ Unpublished' = Unpublished /\ Unpublished \in {0, 1}
      /\ faults # 0 => Unpublished = 1
  BY DEF SweepResumes, durable, runtime, Unpublished, TableTypes
<1>2. KeepsExecutions
  BY CallsKeepExecutions, SweeperAssumption DEF SweepResumes
<1>3. Due(l) /\ NoNewDue
      /\ (executions[l] = None => sweep'.task[l] = "resumed")
  <2> DEFINE task == IF executions[l] # None /\ fiber[executions[l]].stopping
                       THEN "resuming" ELSE "resumed"
  <2>1. Due(l) /\ task \in Tasks /\ Goes(l, task)
    BY DEF SweepResumes, Due, Tasks
  <2>2. executions[l] = None => task = "resumed"
    OBVIOUS
  <2> HIDE DEF task
  <2>3. sweep'.task[l] = task /\ \A k \in Keys \ {l} : sweep'.task[k] = sweep.task[k]
    BY <2>1, GoesAlone
  <2> QED BY <2>1, <2>2, <2>3 DEF NoNewDue, Due
<1>4. CASE executions[l] = None /\ claimed[l]
  <2>1. resumed'[l] = resumed[l] + 1 /\ \A k \in Keys \ {l} : resumed'[k] = resumed[k]
    BY <1>4 DEF SweepResumes, TableTypes
  <2>2. resumed[l] + 1 <= attempts[l] + Unpublished
        /\ resumed[l] + 1 <= MaxAttempts + Unpublished
    <3>1. CASE resumed[l] = 0 /\ attempts[l] = 0
      <4>1. faults # 0
        BY <1>3, <1>4, <3>1 DEF BudgetInv, FreshClaims
      <4> QED BY <1>1, <1>3, <3>1, <4>1 DEF BudgetInv, DueFits
    <3> QED BY <1>3, <3>1 DEF BudgetInv, DueFits
  <2>3. Counted'
    BY <1>1, <2>1, <2>2 DEF BudgetInv, Counted
  <2>4. DueFits'
    <3> SUFFICES ASSUME NEW k \in Keys, Due(k)'
                 PROVE  k # l /\ Due(k)
      BY <1>1, <2>1 DEF BudgetInv, DueFits
    <3> QED BY <1>3, <1>4 DEF Due, NoNewDue
  <2>5. FreshClaims'
    BY <1>1, <1>2, <1>3 DEF BudgetInv, FreshClaims, NoNewDue, Due, KeepsExecutions
  <2> QED BY <2>3, <2>4, <2>5 DEF BudgetInv
<1>5. CASE ~(executions[l] = None /\ claimed[l])
  BY <1>1, <1>2, <1>3, <1>5, QuietKeepsBudget DEF SweepResumes
<1> QED BY <1>4, <1>5

LEMMA TurnKeepsBudget ==
  ASSUME TurnInv, [TurnNext]_turnVars
  PROVE  BudgetInv'
<1> USE DEF TurnInv
<1>1. ASSUME UNCHANGED <<hook, sweep>>, UNCHANGED durable, UNCHANGED <<faults, resumed>>,
             KeepsExecutions, process' = process \/ process' = "closing"
      PROVE  BudgetInv'
  BY <1>1, QuietKeepsBudget DEF durable, NoNewDue, Due
<1>2. ASSUME NEW c \in Callers, NEW k \in Keys, Prompt(c, k) \/ Resume(c, k) \/ Stop(c, k)
      PROVE  BudgetInv'
  <2>1. KeepsExecutions
    BY <1>2, CallsKeepExecutions DEF Prompt, Resume, Stop, Callers, Scope
  <2> QED BY <1>1, <1>2, <2>1 DEF Prompt, Resume, Stop, runtime, history
<1>3. ASSUME NEW f \in Fibers, FiberTurn(f) PROVE BudgetInv'
  <2>1. CASE EnterHook(f) \/ DrainMoves(f) \/ Drain(f) \/ Ends(f) \/ ClosedDown(f)
    <3>1. executions' = executions
      BY <2>1
      DEF EnterHook, EnterStarted, DrainMoves, DrainSucceeds, LoopAgain, Drain, BeginDrain, Ends,
          LoopEnds, Fails, Interrupted, ClosedDown, Exit
    <3>2. /\ UNCHANGED <<hook, sweep>> /\ UNCHANGED durable
          /\ UNCHANGED <<faults, resumed, process>>
      BY <2>1 DEF EnterHook, DrainMoves, Drain, Ends, ClosedDown, runtime, history
    <3> QED BY <1>1, <3>1, <3>2 DEF KeepsExecutions
  <2>2. CASE StartedFails(f)
    BY <2>2, FaultKeepsBudget DEF StartedFails, durable, NoNewDue, Due
  <2>3. CASE TerminalFails(f)
    BY <2>3, FaultKeepsBudget DEF TerminalFails, durable, history, NoNewDue, Due
  <2> QED
    BY <1>3, <2>1, <2>2, <2>3, StartedKeepsBudget, TerminalKeepsBudget, SettlesKeepsBudget
    DEF FiberTurn
<1>4. CASE SweepTurn
  <2>1. CASE SweepLists
    <3>1. NoNewDue
      BY <2>1 DEF SweepLists, NoNewDue
    <3> QED
      BY <2>1, <3>1, QuietKeepsBudget
      DEF SweepLists, vars, durable, runtime, history, KeepsExecutions
  <2>2. CASE SweepFails
    <3>1. \A k \in Keys : sweep'.task[k] \notin {"exhausting", "noticing"}
                           /\ (sweep'.task[k] = "resuming" => sweep.task[k] = "resuming")
      BY <2>2 DEF SweepFails, TableTypes
    <3>2. NoNewDue
      BY <3>1 DEF NoNewDue, Due
    <3> QED BY <2>2, <3>2, FaultKeepsBudget DEF SweepFails, durable, history
  <2>3. ASSUME NEW k \in Keys, SweepNotices(k) PROVE BudgetInv'
    <3>1. NoNewDue
      <4>1. sweep'.task[k] = "resuming" /\ Due(k)
            /\ \A j \in Keys \ {k} : sweep'.task[j] = sweep.task[j]
        BY <2>3, GoesAlone DEF SweepNotices, Due, Tasks
      <4> QED BY <4>1 DEF NoNewDue, Due
    <3> QED
      BY <2>3, <3>1, QuietKeepsBudget
      DEF SweepNotices, vars, durable, runtime, history, KeepsExecutions
  <2> QED
    BY <1>4, <2>1, <2>2, <2>3, SweepCountsKeepsBudget, SweepExhaustsKeepsBudget,
       SweepResumesKeepsBudget
    DEF SweepTurn
<1>5. CASE Close
  BY <1>1, <1>5 DEF Close, vars, history, KeepsExecutions
<1>6. CASE Die
  <2>1. /\ UNCHANGED <<claimed, attempts, resumed, faults>> /\ Unpublished' = Unpublished
        /\ \A k \in Keys : ~Due(k)'
    BY <1>6 DEF Die, NewSweep, Due, durable, history, Unpublished
  <2> QED BY <2>1 DEF BudgetInv, Counted, DueFits, FreshClaims
<1>7. CASE UNCHANGED turnVars
  BY <1>1, <1>7 DEF turnVars, durable, KeepsExecutions
<1> QED BY <1>2, <1>3, <1>4, <1>5, <1>6, <1>7 DEF TurnNext

-------------------------------------------------------------------------------
(* The claim of a turn in flight.  OwedIsClaimed says nothing of who could *)
(* release the claim: a terminal could, so a decided outcome must already  *)
(* have ended the turn (OverWhenSettling) unless it is a shutdown; an      *)
(* exhausted sweep could, so it must come late (ExhaustsLate).  And a      *)
(* drain is begun only behind a started hook (HooksMatch), whose claim is  *)
(* still held (HeldWhileStarted).                                          *)
HooksMatch == \A f \in Fibers :
  /\ fiber[f].phase \in {"free", "forked"} => hook[f] = "none"
  /\ fiber[f].phase \in {"draining", "drained", "yielding"} => hook[f] = "started"
  /\ hook[f] = "ended" => fiber[f].phase = "settling"

HeldWhileStarted == deaths < MaxAttempts =>
  \A f \in Fibers : Live(f) /\ hook[f] = "started" => claimed[fiber[f].key]

OverWhenSettling == \A f \in Fibers :
  fiber[f].phase = "settling" /\ ~ShutDown(f) => ~owed[fiber[f].key]

TurnClaims == HooksMatch /\ HeldWhileStarted /\ OverWhenSettling /\ OwedIsClaimed

(* One count per process at most. *)
AttemptsBounded == \A k \in Keys :
  /\ attempts[k] <= deaths + 1
  /\ ~sweep.listed \/ sweep.task[k] = "counting" => attempts[k] <= deaths
  /\ sweep.task[k] = "counting" => sweep.listed

ExhaustsLate == \A k \in Keys : sweep.task[k] = "exhausting" => MaxAttempts <= deaths

SweepClaims == AttemptsBounded /\ ExhaustsLate

ClaimInv == TurnInv /\ TurnClaims /\ SweepClaims

(* A step that leaves a fiber's turn where it is, or forks it. *)
SameTurn(f) ==
  /\ fiber'[f].phase = fiber[f].phase /\ fiber'[f].key = fiber[f].key
  /\ fiber'[f].exit = fiber[f].exit
  /\ fiber[f].phase = "settling" => fiber'[f].stopping = fiber[f].stopping

Forks(f) == fiber[f].phase = "free" /\ fiber'[f].phase = "forked"

LEMMA StartForks ==
  ASSUME CoordinatorInv, NEW fs \in [Fibers -> Execution \cup {NoExecution}], NEW g \in Fibers,
         NEW k, NEW force, NEW scope, Start(fs, g, k, force, scope)
  PROVE  fiber'[g].phase = "forked" /\ \A f \in Fibers \ {g} : fiber'[f] = fs[f]
<1>1. NewExecution(k, force, scope).phase = "forked"
  BY DEF NewExecution, NoExecution
<1>2. fiber' = [fs EXCEPT ![g] = NewExecution(k, force, scope)]
  BY Zenon DEF Start
<1> HIDE DEF NewExecution, NoExecution, Execution
<1> QED BY <1>1, <1>2

LEMMA CallsOnlyFork ==
  ASSUME CoordinatorInv, NEW c \in Calls, NEW k \in Keys,
         (\E scope \in Scope : Wake(c, k, scope)) \/ Run(c, k) \/ Interrupt(c, k)
  PROVE  \A f \in Fibers : SameTurn(f) \/ Forks(f)
<1>1. fiber \in [Fibers -> Execution \cup {NoExecution}]
  BY DEF CoordinatorInv, TypeOK
<1>2. CASE fiber' = fiber
  BY <1>2 DEF SameTurn
<1>3. ASSUME NEW g \in Free, NEW force, NEW scope, Start(fiber, g, k, force, scope)
      PROVE  \A f \in Fibers : SameTurn(f) \/ Forks(f)
  <2>1. g \in Fibers /\ fiber[g].phase = "free"
    BY DEF Free, Live
  <2>2. fiber'[g].phase = "forked" /\ \A f \in Fibers \ {g} : fiber'[f] = fiber[f]
    BY <1>1, <1>3, <2>1, StartForks
  <2> QED BY <2>1, <2>2 DEF SameTurn, Forks
<1>4. ASSUME executions[k] # None, NEW e,
             fiber' = [fiber EXCEPT ![executions[k]] = e],
             LET d == fiber[executions[k]]
             IN  /\ e.phase = d.phase /\ e.key = d.key /\ e.exit = d.exit
                 /\ d.phase = "settling" => e.stopping = d.stopping
      PROVE  \A f \in Fibers : SameTurn(f) \/ Forks(f)
  BY <1>1, <1>4 DEF SameTurn
<1> DEFINE f == executions[k]
<1>5. f # None => f \in Fibers /\ fiber[f] \in Execution
  BY LiveIsExecution DEF CoordinatorInv, TypeOK, ExecutionsOwnFibers
<1>6. ASSUME NEW scope \in Scope, Wake(c, k, scope)
      PROVE  \A g \in Fibers : SameTurn(g) \/ Forks(g)
  <2>1. CASE f # None
    <3> DEFINE e == [fiber[f] EXCEPT !.pendingWake = Widen(@, scope)]
    <3>1. /\ e.phase = fiber[f].phase /\ e.key = fiber[f].key
          /\ e.exit = fiber[f].exit /\ e.stopping = fiber[f].stopping
      BY <1>5, <2>1 DEF Execution
    <3>2. fiber' = [fiber EXCEPT ![f] = e]
      BY <1>6, <2>1 DEF Wake
    <3> QED BY <1>4, <2>1, <3>1, <3>2
  <2>2. CASE f = None
    BY <1>3, <1>6, <2>2 DEF Wake
  <2> QED BY <2>1, <2>2
<1>7. CASE Run(c, k)
  BY <1>2, <1>3, <1>7 DEF Run
<1>8. CASE Interrupt(c, k) /\ fiber' # fiber
  <2> DEFINE a == [fiber[f] EXCEPT !.pendingWake = None]
             b == [fiber[f] EXCEPT !.stopping = TRUE, !.pendingWake = None]
  <2>1. f # None
    BY <1>8 DEF Interrupt
  <2>2. /\ a.phase = fiber[f].phase /\ a.key = fiber[f].key
        /\ a.exit = fiber[f].exit /\ a.stopping = fiber[f].stopping
        /\ b.phase = fiber[f].phase /\ b.key = fiber[f].key /\ b.exit = fiber[f].exit
    BY <1>5, <2>1 DEF Execution
  <2>3. \/ fiber' = [fiber EXCEPT ![f] = a]
        \/ fiber' = [fiber EXCEPT ![f] = b] /\ fiber[f].phase # "settling"
    BY <1>1, <1>5, <1>8, <2>1 DEF Interrupt, Execution
  <2> QED BY <1>4, <2>1, <2>2, <2>3
<1> QED BY <1>2, <1>6, <1>7, <1>8

-------------------------------------------------------------------------------
(* No turn moves: calls, the sweep, and a settlement, which frees a fiber. *)
LEMMA QuietKeepsClaims ==
  ASSUME TurnClaims, UNCHANGED <<claimed, owed, deaths>>,
         \A f \in Fibers :
           \/ (SameTurn(f) \/ Forks(f)) /\ hook'[f] = hook[f]
           \/ fiber'[f].phase = "free" /\ hook'[f] = "none"
  PROVE  TurnClaims'
<1>1. HooksMatch'
  BY DEF TurnClaims, HooksMatch, SameTurn, Forks
<1>2. HeldWhileStarted'
  BY DEF TurnClaims, HooksMatch, HeldWhileStarted, Live, SameTurn, Forks
<1>3. OverWhenSettling'
  BY DEF TurnClaims, OverWhenSettling, ShutDown, SameTurn, Forks
<1>4. OwedIsClaimed'
  BY DEF TurnClaims, OwedIsClaimed
<1> QED BY <1>1, <1>2, <1>3, <1>4 DEF TurnClaims

(* One fiber moves, with the tables of its own session. *)
LEMMA FiberKeepsClaims ==
  ASSUME CoordinatorInv, TurnClaims, NEW f \in Fibers, NEW l, Live(f), l = fiber[f].key,
         deaths' = deaths, fiber'[f].key = l, fiber'[f].phase \notin {"free", "forked"},
         \A g \in Fibers \ {f} : fiber'[g] = fiber[g] /\ hook'[g] = hook[g],
         \A k \in Keys \ {l} : claimed'[k] = claimed[k] /\ owed'[k] = owed[k],
         fiber'[f].phase \in {"draining", "drained", "yielding"} => hook'[f] = "started",
         hook'[f] = "ended" => fiber'[f].phase = "settling",
         deaths < MaxAttempts /\ hook'[f] = "started" => claimed'[l],
         fiber'[f].phase = "settling" /\ ~ShutDown(f)' => ~owed'[l],
         deaths < MaxAttempts /\ owed'[l] => claimed'[l]
  PROVE  TurnClaims'
<1>1. \A g \in Fibers \ {f} : Live(g) => fiber[g].key \in Keys \ {l}
  BY DEF CoordinatorInv, ExecutionsOwnFibers
<1>2. HooksMatch'
  BY DEF TurnClaims, HooksMatch
<1>3. HeldWhileStarted'
  BY <1>1 DEF TurnClaims, HeldWhileStarted, Live
<1>4. OverWhenSettling'
  <2> SUFFICES ASSUME NEW g \in Fibers, fiber'[g].phase = "settling", ~ShutDown(g)'
               PROVE  ~owed'[fiber'[g].key]
    BY DEF OverWhenSettling
  <2>1. CASE g = f
    BY <2>1
  <2>2. CASE g # f
    BY <1>1, <2>2 DEF TurnClaims, OverWhenSettling, ShutDown, Live
  <2> QED BY <2>1, <2>2
<1>5. OwedIsClaimed'
  BY DEF TurnClaims, OwedIsClaimed
<1> QED BY <1>2, <1>3, <1>4, <1>5 DEF TurnClaims

(* What a step of a fiber's own makes of its record. *)
LEMMA FiberIsRewritten ==
  ASSUME CoordinatorInv, NEW f \in Fibers, Live(f), NEW e, fiber' = [fiber EXCEPT ![f] = e]
  PROVE  fiber'[f] = e /\ \A g \in Fibers \ {f} : fiber'[g] = fiber[g]
BY DEF CoordinatorInv, TypeOK

LEMMA ExitMoves ==
  ASSUME CoordinatorInv, NEW f \in Fibers, Live(f), NEW exit \in Exits, Exit(f, exit)
  PROVE  /\ fiber'[f].phase = "settling" /\ fiber'[f].key = fiber[f].key
         /\ fiber'[f].exit = exit /\ fiber'[f].stopping = fiber[f].stopping
         /\ \A g \in Fibers \ {f} : fiber'[g] = fiber[g]
<1> DEFINE e == [fiber[f] EXCEPT !.phase = "settling", !.exit = exit]
<1>1. fiber[f] \in Execution
  BY LiveIsExecution DEF CoordinatorInv
<1>2. /\ e.phase = "settling" /\ e.key = fiber[f].key
      /\ e.exit = exit /\ e.stopping = fiber[f].stopping
  BY <1>1 DEF Execution
<1>3. fiber' = [fiber EXCEPT ![f] = e]
  BY <1>1 DEF Exit, CoordinatorInv, TypeOK, Execution
<1> HIDE DEF e
<1> QED BY <1>2, <1>3, FiberIsRewritten

LEMMA PhaseMoves ==
  ASSUME CoordinatorInv, NEW f \in Fibers, Live(f), NEW phase \in Phases,
         fiber' = [fiber EXCEPT ![f].phase = phase]
  PROVE  /\ fiber'[f].phase = phase /\ fiber'[f].key = fiber[f].key
         /\ \A g \in Fibers \ {f} : fiber'[g] = fiber[g]
<1> DEFINE e == [fiber[f] EXCEPT !.phase = phase]
<1>1. e.phase = phase /\ e.key = fiber[f].key
  BY LiveIsExecution DEF CoordinatorInv, Execution
<1>2. fiber' = [fiber EXCEPT ![f] = e]
  OBVIOUS
<1> HIDE DEF e
<1> QED BY <1>1, <1>2, FiberIsRewritten

LEMMA LoopMoves ==
  ASSUME CoordinatorInv, NEW f \in Fibers, LoopAgain(f)
  PROVE  /\ fiber'[f].phase = "yielding" /\ fiber'[f].key = fiber[f].key
         /\ \A g \in Fibers \ {f} : fiber'[g] = fiber[g]
<1> DEFINE e == [fiber[f] EXCEPT !.phase = "yielding", !.force = FALSE,
                                 !.scope = fiber[f].pendingWake, !.pendingWake = None]
<1>1. Live(f) /\ fiber[f] \in Execution
  BY LiveIsExecution DEF LoopAgain, Live, CoordinatorInv
<1>2. e.phase = "yielding" /\ e.key = fiber[f].key
  BY <1>1 DEF Execution
<1>3. fiber' = [fiber EXCEPT ![f] = e]
  BY <1>1 DEF LoopAgain, CoordinatorInv, TypeOK, Execution
<1> HIDE DEF e
<1> QED BY <1>1, <1>2, <1>3, FiberIsRewritten

LEMMA FiberTurnKeepsClaims ==
  ASSUME TurnInv, TurnClaims, NEW f \in Fibers, FiberTurn(f)
  PROVE  TurnClaims'
<1> USE DEF TurnInv
<1> DEFINE l == fiber[f].key
<1>1. Live(f) => /\ l \in Keys /\ fiber[f] \in Execution
                 /\ fiber[f].stopping \in BOOLEAN /\ fiber[f].phase # "free"
  BY LiveIsExecution DEF CoordinatorInv, ExecutionsOwnFibers, Execution, Live
<1>2. /\ claimed \in [Keys -> BOOLEAN] /\ owed \in [Keys -> BOOLEAN]
      /\ hook \in [Fibers -> {"none", "started", "ended"}]
  BY DEF TableTypes
<1>3. hook[f] \in {"none", "started", "ended"}
  BY <1>2
<1>4. /\ fiber[f].phase \in {"draining", "drained", "yielding"} => hook[f] = "started"
      /\ fiber[f].phase \in {"free", "forked"} => hook[f] = "none"
      /\ hook[f] = "ended" => fiber[f].phase = "settling"
  BY DEF TurnClaims, HooksMatch
<1>5. deaths < MaxAttempts /\ Live(f) /\ hook[f] = "started" => claimed[l]
  BY DEF TurnClaims, HeldWhileStarted
<1>6. deaths < MaxAttempts /\ l \in Keys /\ owed[l] => claimed[l]
  BY DEF TurnClaims, OwedIsClaimed
<1>7. fiber[f].phase = "settling" /\ ~ShutDown(f) => ~owed[l]
  BY DEF TurnClaims, OverWhenSettling
<1> HIDE DEF l, TurnClaims
<1>10. CASE EnterHook(f)
  <2>1. Live(f) /\ fiber[f].phase = "forked" /\ UNCHANGED <<hook, claimed, owed, deaths>>
    BY <1>10 DEF EnterHook, EnterStarted, Live, durable, runtime, history
  <2>2. /\ fiber'[f].phase = "starting" /\ fiber'[f].key = l
        /\ \A g \in Fibers \ {f} : fiber'[g] = fiber[g]
    BY <1>10, <2>1, PhaseMoves DEF EnterHook, EnterStarted, Phases, l
  <2> QED BY <1>1, <1>4, <1>6, <2>1, <2>2, FiberKeepsClaims DEF l
<1>11. CASE DrainMoves(f)
  <2>1. /\ Live(f) /\ fiber[f].phase \in {"draining", "drained"}
        /\ UNCHANGED <<hook, claimed, owed, deaths>>
    BY <1>11 DEF DrainMoves, DrainSucceeds, LoopAgain, Live, durable, runtime, history
  <2>2. /\ fiber'[f].phase \in {"drained", "yielding"} /\ fiber'[f].key = l
        /\ \A g \in Fibers \ {f} : fiber'[g] = fiber[g]
    BY <1>11, <2>1, PhaseMoves, LoopMoves DEF DrainMoves, DrainSucceeds, Phases, l
  <2> QED BY <1>1, <1>4, <1>5, <1>6, <2>1, <2>2, FiberKeepsClaims DEF l
<1>12. CASE Drain(f)
  <2>1. /\ Live(f) /\ fiber[f].phase \in {"starting", "yielding"}
        /\ UNCHANGED <<hook, claimed, deaths>> /\ owed' = [owed EXCEPT ![l] = TRUE]
    BY <1>12 DEF Drain, BeginDrain, Live, durable, runtime, l
  <2>2. /\ fiber'[f].phase = "draining" /\ fiber'[f].key = l
        /\ \A g \in Fibers \ {f} : fiber'[g] = fiber[g]
    BY <1>12, <2>1, PhaseMoves DEF Drain, BeginDrain, Phases, l
  <2>3. hook[f] = "started"
    BY <1>4, <1>12, <2>1 DEF Drain, HookIsOver
  <2>4. \A k \in Keys \ {l} : owed'[k] = owed[k]
    BY <1>2, <2>1
  <2> QED BY <1>1, <1>5, <2>1, <2>2, <2>3, <2>4, FiberKeepsClaims DEF l
<1>13. CASE StartedFails(f) \/ Ends(f)
  <2>1. /\ Live(f) /\ UNCHANGED <<hook, claimed, deaths>> /\ owed' = [owed EXCEPT ![l] = FALSE]
        /\ fiber[f].phase # "settling" /\ \E exit \in Exits : Exit(f, exit)
    BY <1>13
    DEF StartedFails, Ends, LoopEnds, Fails, Interrupted, TurnOver, Live, durable, runtime, l, Exits
  <2>2. /\ fiber'[f].phase = "settling" /\ fiber'[f].key = l
        /\ \A g \in Fibers \ {f} : fiber'[g] = fiber[g]
    BY <2>1, ExitMoves DEF l
  <2>3. ~owed'[l] /\ \A k \in Keys \ {l} : owed'[k] = owed[k]
    BY <1>1, <1>2, <2>1
  <2> QED BY <1>1, <1>5, <2>1, <2>2, <2>3, FiberKeepsClaims DEF l
<1>14. CASE ClosedDown(f)
  <2>1. /\ Live(f) /\ UNCHANGED <<hook, claimed, owed, deaths>> /\ ~fiber[f].stopping
        /\ fiber[f].phase # "settling" /\ Exit(f, "interrupted")
    BY <1>14 DEF ClosedDown, Live, durable, runtime, history
  <2>2. /\ fiber'[f].phase = "settling" /\ fiber'[f].key = l
        /\ fiber'[f].exit = "interrupted" /\ fiber'[f].stopping = fiber[f].stopping
        /\ \A g \in Fibers \ {f} : fiber'[g] = fiber[g]
    BY <2>1, ExitMoves DEF l, Exits
  <2>3. ShutDown(f)'
    BY <2>1, <2>2 DEF ShutDown
  <2> QED BY <1>1, <1>5, <1>6, <2>1, <2>2, <2>3, FiberKeepsClaims DEF l
<1>15. CASE Started(f)
  <2>1. /\ Live(f) /\ fiber[f].phase = "starting" /\ UNCHANGED <<fiber, owed, deaths>>
        /\ hook' = [hook EXCEPT ![f] = "started"] /\ claimed' = [claimed EXCEPT ![l] = TRUE]
    BY <1>15 DEF Started, Publishes, Claim, vars, runtime, history, Live, l
  <2>2. hook'[f] = "started" /\ \A g \in Fibers \ {f} : hook'[g] = hook[g]
    BY <1>2, <2>1
  <2>3. claimed'[l] /\ \A k \in Keys \ {l} : claimed'[k] = claimed[k]
    BY <1>1, <1>2, <2>1
  <2> QED BY <1>1, <2>1, <2>2, <2>3, FiberKeepsClaims DEF l
<1>16. CASE Terminal(f) \/ TerminalFails(f)
  <2>1. /\ Live(f) /\ fiber[f].phase = "settling" /\ UNCHANGED <<fiber, owed, deaths>>
        /\ hook' = [hook EXCEPT ![f] = "ended"]
    BY <1>16 DEF Terminal, TerminalFails, Publishes, vars, runtime, history, Live
  <2>2. hook'[f] = "ended" /\ \A g \in Fibers \ {f} : hook'[g] = hook[g]
    BY <1>2, <2>1
  <2>3. ShutDown(f)' <=> ShutDown(f)
    BY <2>1 DEF ShutDown
  <2>4. /\ \A k \in Keys \ {l} : claimed'[k] = claimed[k]
        /\ claimed'[l] = claimed[l] \/ ~ShutDown(f)
    BY <1>1, <1>2, <1>16, <2>1 DEF Terminal, TerminalFails, Release, durable, l
  <2> QED BY <1>1, <1>6, <1>7, <2>1, <2>2, <2>3, <2>4, FiberKeepsClaims DEF l
<1>17. CASE Settles(f)
  <2>1. /\ Live(f) /\ UNCHANGED <<claimed, owed, deaths>> /\ hook' = [hook EXCEPT ![f] = "none"]
        /\ Settle(f)
    BY <1>17 DEF Settles, Settle, Publishes, Live, durable, runtime, history
  <2>2. hook'[f] = "none" /\ \A g \in Fibers \ {f} : hook'[g] = hook[g]
    BY <1>2, <2>1
  <2> DEFINE settled == [fiber EXCEPT ![f] = NoExecution]
  <2>3. /\ settled \in [Fibers -> Execution \cup {NoExecution}] /\ settled[f].phase = "free"
        /\ \A g \in Fibers \ {f} : settled[g] = fiber[g]
    BY DEF CoordinatorInv, TypeOK, NoExecution
  <2>4. CASE fiber' = settled
    BY <2>1, <2>2, <2>3, <2>4, QuietKeepsClaims DEF SameTurn
  <2>5. ASSUME NEW g \in Free, Start(settled, g, fiber[f].key, FALSE, fiber[f].pendingWake)
        PROVE  TurnClaims'
    <3>1. g \in Fibers \ {f} /\ fiber[g].phase = "free"
      BY <2>1 DEF Free, Live
    <3> HIDE DEF settled
    <3>2. fiber'[g].phase = "forked" /\ \A h \in Fibers \ {g} : fiber'[h] = settled[h]
      BY <2>3, <2>5, <3>1, StartForks
    <3> QED BY <2>1, <2>2, <2>3, <3>1, <3>2, QuietKeepsClaims DEF SameTurn, Forks
  <2> QED BY <2>1, <2>4, <2>5 DEF Settle
<1> QED BY <1>10, <1>11, <1>12, <1>13, <1>14, <1>15, <1>16, <1>17 DEF FiberTurn

LEMMA SweepExhaustsLate ==
  ASSUME TurnInv, TurnClaims, SweepClaims, NEW k \in Keys, SweepExhausts(k)
  PROVE  TurnClaims'
<1>1. MaxAttempts <= deaths /\ UNCHANGED <<deaths, fiber, hook>>
  BY DEF SweepExhausts, SweepClaims, ExhaustsLate, vars, runtime
<1>2. ~(deaths < MaxAttempts)
  BY <1>1, BoundsAssumption DEF TurnInv, TableTypes
<1>3. \A l \in Keys : owed'[l] => owed[l]
  BY DEF SweepExhausts, TurnOver, TurnInv, TableTypes
<1>4. \A f \in Fibers : fiber[f].phase = "settling" => fiber[f].key \in Keys
  BY DEF TurnInv, CoordinatorInv, ExecutionsOwnFibers, Live
<1>5. OverWhenSettling'
  BY <1>1, <1>3, <1>4 DEF TurnClaims, OverWhenSettling, ShutDown
<1> QED
  BY <1>1, <1>2, <1>5 DEF TurnClaims, HooksMatch, HeldWhileStarted, OwedIsClaimed

LEMMA TurnKeepsClaims ==
  ASSUME ClaimInv, [TurnNext]_turnVars
  PROVE  TurnClaims'
<1>1. TurnInv /\ TurnClaims /\ SweepClaims /\ CoordinatorInv
  BY DEF ClaimInv, TurnInv
<1>2. ASSUME UNCHANGED <<hook, claimed, owed, deaths>>, fiber' = fiber
      PROVE  TurnClaims'
  BY <1>1, <1>2, QuietKeepsClaims DEF SameTurn
<1>3. ASSUME UNCHANGED <<hook, claimed, owed, deaths>>, NEW c \in Calls, NEW k \in Keys,
             (\E scope \in Scope : Wake(c, k, scope)) \/ Run(c, k) \/ Interrupt(c, k)
      PROVE  TurnClaims'
  BY <1>1, <1>3, CallsOnlyFork, QuietKeepsClaims
<1>4. ASSUME NEW c \in Callers, NEW k \in Keys, Prompt(c, k) \/ Resume(c, k) \/ Stop(c, k)
      PROVE  TurnClaims'
  BY <1>3, <1>4 DEF Prompt, Resume, Stop, Callers, Scope, durable, runtime, history
<1>5. CASE SweepTurn
  <2>1. ASSUME NEW k \in Keys, SweepResumes(k) PROVE TurnClaims'
    BY <1>3, <2>1, SweeperAssumption DEF SweepResumes, durable, runtime
  <2> QED
    BY <1>1, <1>2, <1>5, <2>1, SweepExhaustsLate
    DEF SweepTurn, SweepLists, SweepFails, SweepCounts, SweepNotices,
        vars, durable, runtime, history
<1>6. CASE Close
  BY <1>2, <1>6 DEF Close, vars, durable, history
<1>7. CASE Die
  <2>1. /\ \A f \in Fibers : fiber'[f].phase = "free" /\ hook'[f] = "none"
        /\ UNCHANGED <<claimed, owed>> /\ deaths' = deaths + 1 /\ deaths \in Nat
    BY <1>1, <1>7 DEF Die, NoExecution, durable, history, TurnInv, TableTypes
  <2> QED
    BY <1>1, <2>1, BoundsAssumption
    DEF TurnClaims, HooksMatch, HeldWhileStarted, OverWhenSettling, OwedIsClaimed, Live
<1>8. CASE UNCHANGED turnVars
  BY <1>2, <1>8 DEF turnVars
<1> QED BY <1>1, <1>4, <1>5, <1>6, <1>7, <1>8, FiberTurnKeepsClaims DEF TurnNext

-------------------------------------------------------------------------------
LEMMA TurnKeepsSweep ==
  ASSUME ClaimInv, [TurnNext]_turnVars
  PROVE  SweepClaims'
<1> USE BoundsAssumption
<1>1. /\ TableTypes /\ SweepClaims /\ deaths \in Nat /\ MaxAttempts \in Nat
      /\ attempts \in [Keys -> Nat]
  BY DEF ClaimInv, TurnInv, TableTypes
<1>2. ASSUME UNCHANGED deaths, \A k \in Keys : attempts'[k] = attempts[k] \/ attempts'[k] = 0,
             sweep.listed => sweep'.listed,
             \A k \in Keys : \/ sweep'.task[k] = sweep.task[k]
                             \/ sweep'.task[k] \notin {"counting", "exhausting"}
                             \/ /\ sweep'.task[k] = "counting"
                                /\ ~sweep.listed /\ sweep'.listed
      PROVE  SweepClaims'
  BY <1>1, <1>2 DEF SweepClaims, AttemptsBounded, ExhaustsLate
<1>3. ASSUME UNCHANGED <<sweep, attempts, deaths>> PROVE SweepClaims'
  BY <1>2, <1>3
<1>4. ASSUME NEW c \in Callers, NEW k \in Keys, Prompt(c, k) \/ Resume(c, k) \/ Stop(c, k)
      PROVE  SweepClaims'
  BY <1>3, <1>4 DEF Prompt, Resume, Stop, durable, runtime
<1>5. ASSUME NEW f \in Fibers, FiberTurn(f) PROVE SweepClaims'
  <2>1. CASE Terminal(f)
    BY <1>1, <1>2, <2>1 DEF Terminal, Release, durable, runtime
  <2> QED
    BY <1>3, <1>5, <2>1
    DEF FiberTurn, EnterHook, Started, StartedFails, Drain, DrainMoves, Ends, ClosedDown,
        TerminalFails, Settles, Claim, durable, runtime
<1>6. CASE SweepTurn
  <2>1. CASE SweepLists
    BY <1>2, <2>1 DEF SweepLists, durable, runtime
  <2>2. CASE SweepFails
    <3>1. \A k \in Keys : \/ sweep'.task[k] = sweep.task[k]
                          \/ sweep'.task[k] = "none"
      BY <1>1, <2>2 DEF SweepFails, TableTypes
    <3>2. sweep'.listed = sweep.listed
      BY <1>1, <2>2 DEF SweepFails, TableTypes
    <3> QED BY <1>2, <2>2, <3>1, <3>2 DEF SweepFails, durable
  <2>3. ASSUME NEW k \in Keys, NEW task \in Tasks \ {"counting", "exhausting"}, Goes(k, task),
               UNCHANGED deaths, \A l \in Keys : attempts'[l] = attempts[l] \/ attempts'[l] = 0
        PROVE  SweepClaims'
    <3>1. sweep'.task[k] = task /\ \A l \in Keys \ {k} : sweep'.task[l] = sweep.task[l]
      BY <1>1, <2>3, GoesAlone
    <3>2. sweep'.listed = sweep.listed
      BY <1>1, <2>3 DEF Goes, TableTypes
    <3> QED BY <1>2, <2>3, <3>1, <3>2
  <2>4. ASSUME NEW k \in Keys, SweepExhausts(k) \/ SweepNotices(k) \/ SweepResumes(k)
        PROVE  SweepClaims'
    <3>1. \A l \in Keys : attempts'[l] = attempts[l] \/ attempts'[l] = 0
      BY <1>1, <2>4 DEF SweepExhausts, SweepNotices, SweepResumes, Release, durable
    <3>2. \E task \in Tasks \ {"counting", "exhausting"} : Goes(k, task)
      BY <2>4 DEF SweepExhausts, SweepNotices, SweepResumes, Tasks
    <3>3. UNCHANGED deaths
      BY <2>4 DEF SweepExhausts, SweepNotices, SweepResumes, runtime
    <3> QED BY <2>3, <3>1, <3>2, <3>3
  <2>5. ASSUME NEW k \in Keys, SweepCounts(k) PROVE SweepClaims'
    <3> DEFINE task == IF attempts[k] + 1 > MaxAttempts THEN "exhausting" ELSE "noticing"
    <3>1. task \in Tasks /\ Goes(k, task) /\ sweep.task[k] = "counting" /\ UNCHANGED deaths
      BY <2>5 DEF SweepCounts, Tasks, runtime
    <3>2. attempts'[k] = attempts[k] + 1 /\ \A l \in Keys \ {k} : attempts'[l] = attempts[l]
      BY <1>1, <2>5 DEF SweepCounts
    <3>3. attempts[k] <= deaths /\ attempts[k] \in Nat
      BY <1>1, <3>1 DEF SweepClaims, AttemptsBounded
    <3>4. sweep'.listed = sweep.listed
      BY <1>1, <3>1 DEF Goes, TableTypes
    <3>5. task = "exhausting" => MaxAttempts <= deaths
      BY <1>1, <3>3
    <3>6. task # "counting"
      OBVIOUS
    <3>7. sweep.listed
      BY <1>1, <3>1 DEF SweepClaims, AttemptsBounded
    <3> HIDE DEF task
    <3>8. sweep'.task[k] = task /\ \A l \in Keys \ {k} : sweep'.task[l] = sweep.task[l]
      BY <1>1, <3>1, GoesAlone
    <3> QED
      BY <1>1, <3>1, <3>2, <3>3, <3>4, <3>5, <3>6, <3>7, <3>8
      DEF SweepClaims, AttemptsBounded, ExhaustsLate
  <2> QED BY <1>6, <2>1, <2>2, <2>4, <2>5 DEF SweepTurn
<1>7. CASE Close
  BY <1>3, <1>7 DEF Close, durable
<1>8. CASE Die
  <2>1. /\ attempts' = attempts /\ deaths' = deaths + 1
        /\ \A k \in Keys : sweep'.task[k] = "none"
    BY <1>8 DEF Die, NewSweep, durable
  <2> QED BY <1>1, <2>1 DEF SweepClaims, AttemptsBounded, ExhaustsLate
<1>9. CASE UNCHANGED turnVars
  BY <1>3, <1>9 DEF turnVars
<1> QED BY <1>4, <1>5, <1>6, <1>7, <1>8, <1>9 DEF TurnNext

-------------------------------------------------------------------------------
LEMMA TurnInitInv == TurnInit => TurnInv
<1> SUFFICES ASSUME TurnInit PROVE TurnInv
  OBVIOUS
<1>1. CoordinatorInv
  BY InitInv DEF TurnInit
<1>2. TableTypes
  BY BoundsAssumption DEF TurnInit, NewSweep, TableTypes, Tasks
<1>3. ReasonsAttached
  BY DEF TurnInit, Init, NoExecution, ReasonsAttached
<1>4. BudgetInv
  BY BoundsAssumption
  DEF TurnInit, NewSweep, BudgetInv, Counted, DueFits, FreshClaims, Due, Unpublished
<1> QED BY <1>1, <1>2, <1>3, <1>4 DEF TurnInv

LEMMA TurnNextInv == TurnInv /\ [TurnNext]_turnVars => TurnInv'
<1> SUFFICES ASSUME TurnInv, [TurnNext]_turnVars PROVE TurnInv'
  OBVIOUS
<1> QED
  BY TurnKeepsCoordinator, TurnKeepsTypes, TurnKeepsReasons, TurnKeepsBudget DEF TurnInv

(* Typing of the tables, the hooks and the sweep over the coordinator's,   *)
(* for any number of deaths.                                               *)
THEOREM TurnTypeCorrect == TurnSpec => []TurnTypeOK
<1>1. TurnInv => TurnTypeOK
  BY DEF TurnInv, CoordinatorInv, TableTypes, TurnTypeOK
<1> QED BY <1>1, TurnInitInv, TurnNextInv, PTL DEF TurnSpec

(* A turn is restarted at most maxAttempts times between two terminals     *)
(* (restart.ts prepareResume), whoever prompts, stops or resumes the       *)
(* session meanwhile and wherever the process dies; a lifecycle event that *)
(* could not be published hides one restart at most.                       *)
THEOREM RestartsAreBudgeted == TurnSpec => []BudgetHolds
<1>1. TurnInv => BudgetHolds
  BY DEF TurnInv, BudgetInv, Counted, BudgetHolds
<1> QED BY <1>1, TurnInitInv, TurnNextInv, PTL DEF TurnSpec

LEMMA ClaimsInvariant == TurnSpec => []ClaimInv
<1>1. TurnInit => ClaimInv
  <2> SUFFICES ASSUME TurnInit PROVE ClaimInv
    OBVIOUS
  <2>1. TurnClaims
    BY DEF TurnInit, Init, NoExecution, TurnClaims, HooksMatch, HeldWhileStarted,
           OverWhenSettling, OwedIsClaimed, Live
  <2>2. SweepClaims
    BY DEF TurnInit, NewSweep, SweepClaims, AttemptsBounded, ExhaustsLate
  <2> QED BY <2>1, <2>2, TurnInitInv DEF ClaimInv
<1>2. ClaimInv /\ [TurnNext]_turnVars => ClaimInv'
  <2> SUFFICES ASSUME ClaimInv, [TurnNext]_turnVars PROVE ClaimInv'
    OBVIOUS
  <2> QED BY TurnNextInv, TurnKeepsClaims, TurnKeepsSweep DEF ClaimInv
<1> QED BY <1>1, <1>2, PTL DEF TurnSpec

(* A turn a drain has begun is claimed until it is over (execution.ts      *)
(* started and terminal), through shutdowns, crashes and failed terminals, *)
(* so the next process finds it: until a sweep may have exhausted its      *)
(* budget, which takes MaxAttempts deaths.                                 *)
THEOREM TurnsInFlightAreClaimed == TurnSpec => []OwedIsClaimed
<1>1. ClaimInv => OwedIsClaimed
  BY DEF ClaimInv, TurnClaims
<1> QED BY <1>1, ClaimsInvariant, PTL

-------------------------------------------------------------------------------
(* The safety half of "every claim is released": the liveness property     *)
(* ClaimsAreReleased is TLC's matter, but that somebody still has the      *)
(* claim in hand is an invariant.  While an execution of the session is in *)
(* the map, it has yet to publish its terminal; otherwise the sweep has    *)
(* not listed the claims, or has this one on its list.                     *)
SweepHas(k) == sweep.task[k] \in {"counting", "exhausting", "noticing", "resuming"}
Ended(k) == hook[executions[k]] = "ended"

NoClaimIsForgotten ==
  faults = 0 /\ process = "up" => \A k \in Keys : claimed[k] =>
    IF executions[k] # None THEN ~Ended(k) ELSE sweep.listed => SweepHas(k)

(* The execution goes on, one is started, or the sweep keeps the session.  *)
PassedOn(k) ==
  \/ executions[k] # None /\ executions'[k] = executions[k] /\ (Ended(k)' => Ended(k))
  \/ executions'[k] # None /\ hook'[executions'[k]] = "none"
  \/ executions[k] = None /\ executions'[k] = None
     /\ (sweep'.listed => sweep.listed) /\ (SweepHas(k) => SweepHas(k)')

LEMMA ClaimsPassedOn ==
  ASSUME NoClaimIsForgotten, faults' = 0 => faults = 0, process' = "up" => process = "up",
         \A k \in Keys : (claimed'[k] => claimed[k]) /\ (claimed'[k] => PassedOn(k))
  PROVE  NoClaimIsForgotten'
BY DEF NoClaimIsForgotten, PassedOn, Ended

LEMMA CallsPassOn ==
  ASSUME ClaimInv, UNCHANGED hook, NEW c \in Calls, NEW k \in Keys,
         (\E scope \in Scope : Wake(c, k, scope)) \/ Run(c, k) \/ Interrupt(c, k)
  PROVE  \A j \in Keys : \/ executions'[j] = executions[j]
                         \/ executions'[j] # None /\ hook'[executions'[j]] = "none"
<1>1. executions \in [Keys -> Fibers \cup {None}]
  BY DEF ClaimInv, TurnInv, CoordinatorInv, TypeOK
<1>2. executions' = executions \/ \E g \in Free : executions' = [executions EXCEPT ![k] = g]
  BY DEF Wake, Run, Interrupt, Start
<1>3. \A g \in Free : g # None /\ hook[g] = "none"
  BY NoneAssumption DEF Free, Live, ClaimInv, TurnClaims, HooksMatch
<1> QED BY <1>1, <1>2, <1>3

LEMMA FiberForgetsNothing ==
  ASSUME ClaimInv, NoClaimIsForgotten, NEW f \in Fibers, FiberTurn(f)
  PROVE  NoClaimIsForgotten'
<1> DEFINE l == fiber[f].key
<1>1. Live(f) => l \in Keys /\ executions[l] = f /\ f # None
  BY NoneAssumption DEF ClaimInv, TurnInv, CoordinatorInv, ExecutionsOwnFibers
<1>2. /\ claimed \in [Keys -> BOOLEAN] /\ executions \in [Keys -> Fibers \cup {None}]
      /\ hook \in [Fibers -> {"none", "started", "ended"}]
      /\ \A k \in Keys \ {l} : executions[k] # None => executions[k] \in Fibers \ {f}
  BY DEF ClaimInv, TurnInv, CoordinatorInv, TypeOK, TableTypes, ExecutionsOwnFibers
<1> HIDE DEF l
<1>3. CASE UNCHANGED <<executions, hook, claimed, sweep>>
           /\ (faults' = 0 => faults = 0) /\ process' = process
  BY <1>3 DEF NoClaimIsForgotten, Ended, SweepHas
<1>4. CASE EnterHook(f) \/ Drain(f) \/ DrainMoves(f) \/ Ends(f) \/ ClosedDown(f)
  BY <1>3, <1>4
  DEF EnterHook, Drain, DrainMoves, Ends, ClosedDown, EnterStarted, BeginDrain, DrainSucceeds,
      LoopAgain, LoopEnds, Fails, Interrupted, Exit, durable, runtime, history
<1>5. CASE StartedFails(f) \/ TerminalFails(f)
  <2>1. faults' # 0
    BY <1>5 DEF StartedFails, TerminalFails, Faulty, ClaimInv, TurnInv, TableTypes
  <2> QED BY <2>1 DEF NoClaimIsForgotten
<1>6. ASSUME NEW what \in {"started", "ended"}, Live(f), hook' = [hook EXCEPT ![f] = what],
             UNCHANGED <<executions, sweep, faults, process>>,
             \A k \in Keys \ {l} : claimed'[k] = claimed[k],
             what = "ended" => ~claimed'[l]
      PROVE  NoClaimIsForgotten'
  <2>1. hook'[f] = what /\ \A g \in Fibers \ {f} : hook'[g] = hook[g]
    BY <1>2, <1>6
  <2>2. \A k \in Keys \ {l} : executions[k] # None => hook'[executions[k]] = hook[executions[k]]
    BY <1>2, <2>1
  <2> QED BY <1>1, <1>6, <2>1, <2>2 DEF NoClaimIsForgotten, Ended, SweepHas
<1>7. CASE Started(f)
  BY <1>1, <1>2, <1>6, <1>7 DEF Started, Publishes, Claim, vars, runtime, Live, l
<1>8. CASE Terminal(f)
  <2>1. CASE process = "up"
    <3>1. Live(f) /\ ~ShutDown(f)
      BY <1>8, <2>1 DEF Terminal, Live, ClaimInv, TurnInv, ReasonsAttached
    <3>2. claimed' = [claimed EXCEPT ![l] = FALSE]
      BY <1>8, <3>1 DEF Terminal, Release, l
    <3> QED
      BY <1>1, <1>2, <1>6, <1>8, <3>1, <3>2 DEF Terminal, Publishes, vars, runtime
  <2>2. CASE process # "up"
    BY <1>8, <2>2 DEF Terminal, runtime, NoClaimIsForgotten
  <2> QED BY <2>1, <2>2
<1>9. CASE Settles(f)
  <2>1. /\ Live(f) /\ hook[f] = "ended" /\ process = "up" /\ hook' = [hook EXCEPT ![f] = "none"]
        /\ UNCHANGED <<claimed, sweep, faults, process>>
    BY <1>9 DEF Settles, Settle, Publishes, Live, durable, runtime
  <2>2. faults = 0 => ~claimed[l]
    BY <1>1, <2>1 DEF NoClaimIsForgotten, Ended
  <2>3. \A k \in Keys \ {l} : executions'[k] = executions[k]
    BY <1>1, <1>2, <1>9 DEF Settles, Settle, Start, l
  <2>4. \A g \in Fibers \ {f} : hook'[g] = hook[g]
    BY <1>2, <2>1
  <2>5. \A k \in Keys \ {l} : executions[k] # None => hook'[executions[k]] = hook[executions[k]]
    BY <1>2, <2>4
  <2> QED BY <2>1, <2>2, <2>3, <2>5 DEF NoClaimIsForgotten, Ended, SweepHas
<1> QED BY <1>4, <1>5, <1>7, <1>8, <1>9, <1>1 DEF FiberTurn

LEMMA SweepForgetsNothing ==
  ASSUME ClaimInv, NoClaimIsForgotten, SweepTurn
  PROVE  NoClaimIsForgotten'
<1>1. TableTypes /\ CoordinatorInv
  BY DEF ClaimInv, TurnInv
<1>2. CASE SweepLists
  <2>1. UNCHANGED <<executions, hook, claimed, faults, process>>
    BY <1>2 DEF SweepLists, vars, durable, runtime
  <2>2. \A k \in Keys : claimed[k] /\ executions[k] = None => sweep'.task[k] = "counting"
    BY <1>2 DEF SweepLists
  <2> QED BY <2>1, <2>2 DEF NoClaimIsForgotten, Ended, SweepHas
<1>3. CASE SweepFails
  <2>1. faults' # 0
    BY <1>1, <1>3 DEF SweepFails, Faulty, TableTypes
  <2> QED BY <2>1 DEF NoClaimIsForgotten
<1>4. ASSUME NEW l \in Keys, NEW task \in Tasks, Goes(l, task)
      PROVE  /\ sweep'.listed = sweep.listed /\ sweep'.task[l] = task
             /\ \A k \in Keys \ {l} : sweep'.task[k] = sweep.task[k]
  <2>1. sweep'.listed = sweep.listed
    BY <1>1, <1>4 DEF Goes, TableTypes
  <2> QED BY <1>1, <1>4, <2>1, GoesAlone
<1>5. ASSUME NEW l \in Keys, SweepCounts(l) \/ SweepNotices(l)
      PROVE  NoClaimIsForgotten'
  <2>1. UNCHANGED <<executions, hook, claimed, faults, process>>
    BY <1>5 DEF SweepCounts, SweepNotices, vars, durable, runtime
  <2>2. \E task \in {"exhausting", "noticing", "resuming"} : Goes(l, task)
    BY <1>5 DEF SweepCounts, SweepNotices
  <2>3. /\ sweep'.listed = sweep.listed /\ SweepHas(l)'
        /\ \A k \in Keys \ {l} : sweep'.task[k] = sweep.task[k]
    BY <1>4, <2>2 DEF Tasks, SweepHas
  <2> QED BY <2>1, <2>3 DEF NoClaimIsForgotten, Ended, SweepHas
<1>6. ASSUME NEW l \in Keys, SweepExhausts(l) PROVE NoClaimIsForgotten'
  <2>1. /\ UNCHANGED <<executions, hook, faults, process>> /\ ~claimed'[l]
        /\ \A k \in Keys \ {l} : claimed'[k] = claimed[k]
    BY <1>1, <1>6 DEF SweepExhausts, Release, vars, runtime, TableTypes
  <2>2. /\ sweep'.listed = sweep.listed
        /\ \A k \in Keys \ {l} : sweep'.task[k] = sweep.task[k]
    BY <1>4, <1>6 DEF SweepExhausts, Tasks
  <2> QED BY <2>1, <2>2 DEF NoClaimIsForgotten, Ended, SweepHas
<1>7. ASSUME NEW l \in Keys, SweepResumes(l) PROVE NoClaimIsForgotten'
  <2>1. UNCHANGED <<hook, claimed, faults, process>> /\ Sweeper[l] \in Calls /\ Run(Sweeper[l], l)
    BY <1>7, SweeperAssumption DEF SweepResumes, durable, runtime
  <2>2. \A k \in Keys : \/ executions'[k] = executions[k]
                        \/ executions'[k] # None /\ hook'[executions'[k]] = "none"
    BY <2>1, CallsPassOn
  <2>3. executions'[l] # None
    BY <1>1, <2>1, NoneAssumption DEF Run, Start, Free, CoordinatorInv, TypeOK
  <2>4. /\ sweep'.listed = sweep.listed
        /\ \A k \in Keys \ {l} : sweep'.task[k] = sweep.task[k]
    BY <1>4, <1>7 DEF SweepResumes, Tasks
  <2>5. \A k \in Keys : PassedOn(k)
    BY <2>1, <2>2, <2>3, <2>4 DEF PassedOn, Ended, SweepHas
  <2> QED BY <2>1, <2>5, ClaimsPassedOn
<1> QED BY <1>2, <1>3, <1>5, <1>6, <1>7 DEF SweepTurn

LEMMA TurnForgetsNothing ==
  ASSUME ClaimInv, NoClaimIsForgotten, [TurnNext]_turnVars
  PROVE  NoClaimIsForgotten'
<1>1. ASSUME NEW c \in Callers, NEW k \in Keys, Prompt(c, k) \/ Resume(c, k) \/ Stop(c, k)
      PROVE  NoClaimIsForgotten'
  <2>1. /\ UNCHANGED <<hook, claimed, sweep, faults, process>> /\ c \in Calls
        /\ (\E scope \in Scope : Wake(c, k, scope)) \/ Run(c, k) \/ Interrupt(c, k)
    BY <1>1 DEF Prompt, Resume, Stop, Callers, Scope, durable, runtime
  <2>2. \A j \in Keys : \/ executions'[j] = executions[j]
                        \/ executions'[j] # None /\ hook'[executions'[j]] = "none"
    BY <2>1, CallsPassOn
  <2>3. \A j \in Keys : PassedOn(j)
    BY <2>1, <2>2 DEF PassedOn, Ended, SweepHas
  <2> QED BY <2>1, <2>3, ClaimsPassedOn
<1>2. CASE Close
  BY <1>2 DEF Close, NoClaimIsForgotten
<1>3. CASE Die
  BY <1>3 DEF Die, NewSweep, NoClaimIsForgotten
<1>4. CASE UNCHANGED turnVars
  BY <1>4 DEF turnVars, NoClaimIsForgotten, Ended, SweepHas
<1> QED
  BY <1>1, <1>2, <1>3, <1>4, FiberForgetsNothing, SweepForgetsNothing DEF TurnNext

(* No claim is forgotten (execution.ts terminal, restart.ts                *)
(* resumeSuspendedSessions): while a process serves and no lifecycle event *)
(* was lost, a claimed session has an execution that has yet to publish    *)
(* its terminal, or the sweep of this process has yet to list the claims   *)
(* or has the session on its list.  Whatever the order of prompts, stops,  *)
(* resumes and deaths, a turn is never left claimed with nobody to end it. *)
THEOREM ClaimsAreAttended == TurnSpec => []NoClaimIsForgotten
<1>1. TurnInit => NoClaimIsForgotten
  BY DEF TurnInit, NoClaimIsForgotten
<1>2. ClaimInv /\ NoClaimIsForgotten /\ [TurnNext]_turnVars => NoClaimIsForgotten'
  BY TurnForgetsNothing
<1> QED BY <1>1, <1>2, ClaimsInvariant, PTL DEF TurnSpec

-------------------------------------------------------------------------------
(* Whoever waits in a process that dies is gone with it. *)
LEMMA TurnKeepsWaiters ==
  ASSUME CoordinatorInv, WaitersWillBeResolved, [TurnNext]_turnVars
  PROVE  WaitersWillBeResolved'
<1>1. CASE [Next]_vars
  <2>1. CoordinatorInv'
    BY TurnKeepsCoordinator
  <2> QED BY <1>1, <2>1, NextWaiters
<1>2. ASSUME NEW f \in Fibers, ClosedDown(f) PROVE WaitersWillBeResolved'
  <2>1. Exit(f, "interrupted") /\ Live(f) /\ "interrupted" \in Exits
    BY <1>2 DEF ClosedDown, Live, Exits
  <2>2. /\ fiber'[f].phase = "settling" /\ fiber'[f].key = fiber[f].key
        /\ \A g \in Fibers \ {f} : fiber'[g] = fiber[g]
    BY <2>1, ExitMoves
  <2>3. call' = call
    BY <2>1 DEF Exit
  <2> QED BY <2>2, <2>3 DEF WaitersWillBeResolved, Live
<1>3. CASE Die
  BY <1>3 DEF Die, NewCall, WaitersWillBeResolved
<1> QED BY <1>1, <1>2, <1>3, TurnSteps

(* The coordinator keeps its promises inside the durable shell, across     *)
(* scope closes, deaths and restarts and with the sweep as one more        *)
(* caller: one execution per session at a time, the map agrees with the    *)
(* fibers, and whoever waits will be resolved.                             *)
THEOREM ExecutionKeepsCoordinator ==
  TurnSpec => []OneExecutionPerKey /\ []ExecutionsOwnFibers /\ []WaitersWillBeResolved
<1>1. TurnInit => CoordinatorInv /\ WaitersWillBeResolved
  BY InitInv DEF TurnInit, Init, NewCall, WaitersWillBeResolved
<1>2. CoordinatorInv /\ WaitersWillBeResolved /\ [TurnNext]_turnVars
        => CoordinatorInv' /\ WaitersWillBeResolved'
  BY TurnKeepsCoordinator, TurnKeepsWaiters
<1>3. CoordinatorInv => ExecutionsOwnFibers /\ OneExecutionPerKey
  BY DEF CoordinatorInv, ExecutionsOwnFibers, OneExecutionPerKey
<1> QED BY <1>1, <1>2, <1>3, PTL DEF TurnSpec

(* A scope that is being closed takes up nothing: what was recorded stays  *)
(* or goes with the execution, what was being served ends, and no call is  *)
(* made.                                                                   *)
ClosesDown ==
  /\ process = "closing" /\ MadeView' = MadeView
  /\ \A k \in Keys : DemandOf(k)' \subseteq DemandOf(k) /\ ServingOf(k)' \in {ServingOf(k), None}

(* A new process begins with a doorbell nobody has rung. *)
Restarts == deaths' = deaths + 1 /\ (D!Init)'

LEMMA TurnKeepsDoorbell ==
  ASSUME CoordinatorInv, NewIsBlank, OnlyWaitersWait, [TurnNext]_turnVars
  PROVE  NewIsBlank' /\ OnlyWaitersWait' /\ ([D!Next]_(D!doorbellVars) \/ ClosesDown \/ Restarts)
<1>1. CASE [Next]_vars
  BY <1>1, NextNewIsBlank, NextOnlyWaitersWait, NextRefines
<1>2. ASSUME NEW f \in Fibers, ClosedDown(f)
      PROVE  NewIsBlank' /\ OnlyWaitersWait' /\ ClosesDown
  <2>1. /\ Exit(f, "interrupted") /\ Live(f) /\ "interrupted" \in Exits
        /\ process = "closing" /\ call' = call /\ executions' = executions
    BY <1>2 DEF ClosedDown, Exit, Live, Exits
  <2>2. NewIsBlank' /\ OnlyWaitersWait'
    BY <2>1 DEF NewIsBlank, OnlyWaitersWait
  <2>3. MadeView' = MadeView
    BY <2>1, MadeUnchanged DEF Effective
  <2>4. /\ fiber'[f].phase = "settling" /\ fiber'[f].pendingWake = fiber[f].pendingWake
        /\ \A g \in Fibers \ {f} : fiber'[g] = fiber[g]
    <3>1. fiber'[f].pendingWake = fiber[f].pendingWake
      BY <2>1, LiveIsExecution DEF Exit, CoordinatorInv, TypeOK, Execution
    <3> QED BY <2>1, <3>1, ExitMoves
  <2>5. ASSUME NEW k \in Keys
        PROVE  DemandOf(k)' \subseteq DemandOf(k) /\ ServingOf(k)' \in {ServingOf(k), None}
    <3>1. CASE executions[k] = f
      BY <2>1, <2>4, <3>1 DEF DemandOf, ServingOf, Unbegun, Serving, Covers
    <3>2. CASE executions[k] # f
      <4>1. executions[k] # None => fiber'[executions[k]] = fiber[executions[k]]
        BY <2>4, <3>2 DEF CoordinatorInv, TypeOK
      <4> QED BY <2>1, <4>1 DEF DemandOf, ServingOf, Unbegun, Serving, Covers
    <3> QED BY <3>1, <3>2
  <2> QED BY <2>1, <2>2, <2>3, <2>5 DEF ClosesDown
<1>3. CASE Die
  <2>1. /\ executions' = [k \in Keys |-> None] /\ call' = [c \in Calls |-> NewCall]
        /\ deaths' = deaths + 1
    BY <1>3 DEF Die
  <2>2. NewIsBlank' /\ OnlyWaitersWait'
    BY <2>1 DEF NewIsBlank, OnlyWaitersWait, NewCall
  <2>3. \A k \in Keys : DemandOf(k)' = {} /\ ServingOf(k)' = None /\ MadeOf(k)' = {}
    BY <2>1, NoneAssumption DEF DemandOf, ServingOf, MadeOf, Effective, NewCall, Ops
  <2>4. (D!Init)'
    BY <2>3 DEF D!Init
  <2> QED BY <2>1, <2>2, <2>4 DEF Restarts
<1> QED BY <1>1, <1>2, <1>3, TurnSteps

(* No wake is lost while the process serves: until its scope is closed,    *)
(* the coordinator inside the durable shell takes only steps of the        *)
(* doorbell, whatever the hooks, their failures and the sweep do; the      *)
(* close begins nothing new, and a new process begins with nothing         *)
(* recorded (execution.ts:84, run-coordinator.ts:112).                     *)
THEOREM ExecutionIsDoorbell ==
  TurnSpec => D!Init /\ [][[D!Next]_(D!doorbellVars) \/ ClosesDown \/ Restarts]_turnVars
<1>1. TurnInit => CoordinatorInv /\ NewIsBlank /\ OnlyWaitersWait /\ D!Init
  <2>1. Init => D!Init
    BY NoneAssumption DEF Init, D!Init, DemandOf, ServingOf, MadeOf, Effective, NewCall, Ops
  <2> QED BY <2>1, InitInv DEF TurnInit, Init, NewIsBlank, OnlyWaitersWait, NewCall
<1>2. CoordinatorInv /\ NewIsBlank /\ OnlyWaitersWait /\ [TurnNext]_turnVars =>
        /\ CoordinatorInv' /\ NewIsBlank' /\ OnlyWaitersWait'
        /\ [[D!Next]_(D!doorbellVars) \/ ClosesDown \/ Restarts]_turnVars
  BY TurnKeepsCoordinator, TurnKeepsDoorbell
<1> QED BY <1>1, <1>2, PTL DEF TurnSpec
===============================================================================
