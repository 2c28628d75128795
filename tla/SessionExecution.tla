--------------------------- MODULE SessionExecution ---------------------------
(***************************************************************************)
(* Durable claims and restarts (core/src/session/execution.ts, store.ts    *)
(* and execution/restart.ts) over the run coordinator.                     *)
(*                                                                         *)
(* The started hook claims a session in the transaction of its Started     *)
(* event; the settled hook releases it in the transaction of the terminal  *)
(* event, except after a shutdown.  A new process sweeps the claims nobody *)
(* released and resumes each within a durable budget, while the server is  *)
(* already serving.  Sessions here have no parent and no background jobs.  *)
(***************************************************************************)
EXTENDS RunCoordinator, Naturals

CONSTANTS Sweeper,      \* the call by which the sweep resumes each key
          MaxAttempts,  \* Options.maxAttempts of the restart service
          MaxDeaths,    \* bound: how often the process dies
          MaxFaults     \* bound: how many lifecycle publications fail

ASSUME SweeperAssumption ==
  /\ Sweeper \in [Keys -> Calls]
  /\ \A k, l \in Keys : Sweeper[k] = Sweeper[l] => k = l
ASSUME BoundsAssumption == MaxAttempts \in Nat /\ MaxDeaths \in Nat /\ MaxFaults \in Nat

VARIABLES claimed,   \* table session: time_suspended is set
          attempts,  \* table session: resume_attempts
          hook,      \* what each fiber's lifecycle hooks have published
          sweep,     \* the restart sweep of this process
          process,   \* "up", or "closing" once its scope is being closed
          deaths, faults,
          owed,      \* history: a drain of the key began and its turn is not over
          resumed    \* history: turns the sweep restarted since the last terminal

durable == <<claimed, attempts>>
history == <<owed, resumed>>
runtime == <<process, deaths, faults>>
turnVars == <<executions, fiber, call, claimed, attempts, hook, sweep,
              process, deaths, faults, owed, resumed>>

(* The sweep lists the claims nobody here owns, then prepares and resumes  *)
(* each listed session on its own.                                         *)
Tasks == {"none", "counting", "exhausting", "noticing", "resuming", "resumed", "given up"}
NewSweep == [listed |-> FALSE, task |-> [k \in Keys |-> "none"]]

TurnInit ==
  /\ Init
  /\ claimed = [k \in Keys |-> FALSE]
  /\ attempts = [k \in Keys |-> 0]
  /\ hook = [f \in Fibers |-> "none"]
  /\ sweep = NewSweep
  /\ process = "up" /\ deaths = 0 /\ faults = 0
  /\ owed = [k \in Keys |-> FALSE]
  /\ resumed = [k \in Keys |-> 0]

-------------------------------------------------------------------------------
(* store.claim and store.release, inside the transaction of an event. *)
Claim(k) == claimed' = [claimed EXCEPT ![k] = TRUE] /\ UNCHANGED attempts

Release(k) ==
  /\ claimed' = [claimed EXCEPT ![k] = FALSE]
  /\ attempts' = [attempts EXCEPT ![k] = 0]

TurnOver(k) == owed' = [owed EXCEPT ![k] = FALSE]
Publishes(f, what) == hook' = [hook EXCEPT ![f] = what]
Faulty == faults < MaxFaults /\ faults' = faults + 1

(* terminal: no reason was attached, so the interruption is a shutdown.    *)
ShutDown(f) == fiber[f].exit = "interrupted" /\ ~fiber[f].stopping

-------------------------------------------------------------------------------
(* Callers, while the process serves: prompts wake, clients resume and stop. *)
Callers == Calls \ {Sweeper[k] : k \in Keys}

Prompt(c, k) ==
  /\ process = "up"
  /\ Wake(c, k, "input")
  /\ UNCHANGED <<hook, sweep>> /\ UNCHANGED durable
  /\ UNCHANGED runtime /\ UNCHANGED history

(* execution.resume is coordinator.run, which is evaluated again once a    *)
(* stopping execution is waited out.                                       *)
Resume(c, k) ==
  /\ process = "up"
  /\ Run(c, k)
  /\ UNCHANGED <<hook, sweep>> /\ UNCHANGED durable
  /\ UNCHANGED runtime /\ UNCHANGED history

Stop(c, k) ==
  /\ process = "up"
  /\ Interrupt(c, k)
  /\ UNCHANGED <<hook, sweep>> /\ UNCHANGED durable
  /\ UNCHANGED runtime /\ UNCHANGED history

-------------------------------------------------------------------------------
(* The execution fiber. *)

EnterHook(f) ==
  /\ EnterStarted(f)
  /\ UNCHANGED <<hook, sweep>> /\ UNCHANGED durable
  /\ UNCHANGED runtime /\ UNCHANGED history

(* The started hook commits Execution.Started and the claim together. *)
Started(f) ==
  /\ fiber[f].phase = "starting" /\ hook[f] = "none"
  /\ Publishes(f, "started")
  /\ Claim(fiber[f].key)
  /\ UNCHANGED sweep /\ UNCHANGED vars /\ UNCHANGED runtime /\ UNCHANGED history

(* Its publication fails, and with it the execution. *)
StartedFails(f) ==
  /\ fiber[f].phase = "starting" /\ hook[f] = "none"
  /\ Fails(f)
  /\ Faulty /\ TurnOver(fiber[f].key)
  /\ UNCHANGED <<hook, sweep, process, deaths, resumed>> /\ UNCHANGED durable

(* The hook is over before the fiber drains or can be interrupted. *)
HookIsOver(f) == fiber[f].phase = "starting" => hook[f] = "started"

Drain(f) ==
  /\ HookIsOver(f)
  /\ BeginDrain(f)
  /\ owed' = [owed EXCEPT ![fiber[f].key] = TRUE]
  /\ UNCHANGED <<hook, sweep, resumed>> /\ UNCHANGED durable /\ UNCHANGED runtime

DrainMoves(f) ==
  /\ DrainSucceeds(f) \/ LoopAgain(f)
  /\ UNCHANGED <<hook, sweep>> /\ UNCHANGED durable
  /\ UNCHANGED runtime /\ UNCHANGED history

(* The execution ends: its last drain completed, a drain failed, or a      *)
(* caller's interruption reached it.                                       *)
Ends(f) ==
  /\ LoopEnds(f) \/ (fiber[f].phase = "draining" /\ Fails(f))
     \/ (HookIsOver(f) /\ Interrupted(f))
  /\ TurnOver(fiber[f].key)
  /\ UNCHANGED <<hook, sweep, resumed>> /\ UNCHANGED durable /\ UNCHANGED runtime

(* The scope's close interrupts every fiber and gives no reason. *)
ClosedDown(f) ==
  /\ process = "closing"
  /\ fiber[f].phase \in {"forked", "starting", "draining", "drained", "yielding"}
  /\ HookIsOver(f) /\ ~fiber[f].stopping
  /\ Exit(f, "interrupted")
  /\ UNCHANGED <<hook, sweep>> /\ UNCHANGED durable
  /\ UNCHANGED runtime /\ UNCHANGED history

(* Mutant: every terminal releases the claim. *)
TerminalReleasesAlways(f) ==
  /\ fiber[f].phase = "settling" /\ hook[f] # "ended"
  /\ Publishes(f, "ended")
  /\ Release(fiber[f].key)
  /\ resumed' = [resumed EXCEPT ![fiber[f].key] = 0]
  /\ UNCHANGED sweep /\ UNCHANGED vars /\ UNCHANGED runtime /\ UNCHANGED owed

(* The settled hook: one terminal event, which releases the claim and the  *)
(* budget in its transaction unless the process is being shut down.        *)
Terminal(f) ==
  /\ fiber[f].phase = "settling" /\ hook[f] # "ended"
  /\ Publishes(f, "ended")
  /\ \/ ~ShutDown(f) /\ Release(fiber[f].key) /\ resumed' = [resumed EXCEPT ![fiber[f].key] = 0]
     \/ ShutDown(f) /\ UNCHANGED durable /\ UNCHANGED resumed
  /\ UNCHANGED sweep /\ UNCHANGED vars /\ UNCHANGED runtime /\ UNCHANGED owed

(* The terminal cannot be published: logged, and the claim stays. *)
TerminalFails(f) ==
  /\ fiber[f].phase = "settling" /\ hook[f] # "ended"
  /\ Publishes(f, "ended") /\ Faulty
  /\ UNCHANGED <<sweep, process, deaths>> /\ UNCHANGED durable
  /\ UNCHANGED vars /\ UNCHANGED history

(* Nothing is forked once the scope is closed. *)
Settles(f) ==
  /\ process = "up"
  /\ hook[f] = "ended" /\ Settle(f)
  /\ Publishes(f, "none")
  /\ UNCHANGED sweep /\ UNCHANGED durable /\ UNCHANGED runtime /\ UNCHANGED history

-------------------------------------------------------------------------------
(* The restart sweep: resumeSuspendedSessions and prepareResume. *)

Goes(k, task) == sweep' = [sweep EXCEPT !.task[k] = task]

(* Mutant: the sweep lists nothing that has been resumed before. *)
SweepListsOnce ==
  /\ ~sweep.listed
  /\ sweep' = [listed |-> TRUE,
               task |-> [k \in Keys |->
                 IF claimed[k] /\ executions[k] = None /\ attempts[k] = 0
                   THEN "counting" ELSE "none"]]
  /\ UNCHANGED hook /\ UNCHANGED vars /\ UNCHANGED durable
  /\ UNCHANGED runtime /\ UNCHANGED history

(* The claims without a local execution.  Who is active is asked first;    *)
(* between that and the listing nothing is awaited but the connection,     *)
(* which serves its users in turn, so whoever was idle then has not        *)
(* claimed since: the two reads are one action.                            *)
SweepLists ==
  /\ ~sweep.listed
  /\ sweep' = [listed |-> TRUE,
               task |-> [k \in Keys |->
                 IF claimed[k] /\ executions[k] = None THEN "counting" ELSE "none"]]
  /\ UNCHANGED hook /\ UNCHANGED vars /\ UNCHANGED durable
  /\ UNCHANGED runtime /\ UNCHANGED history

(* Mutant: the budget is checked before this attempt is counted. *)
SweepCountsLate(k) ==
  /\ sweep.task[k] = "counting"
  /\ attempts' = [attempts EXCEPT ![k] = @ + 1]
  /\ Goes(k, IF attempts[k] > MaxAttempts THEN "exhausting" ELSE "noticing")
  /\ UNCHANGED <<hook, claimed>> /\ UNCHANGED vars
  /\ UNCHANGED runtime /\ UNCHANGED history

(* countResume is durable before anything else happens. *)
SweepCounts(k) ==
  /\ sweep.task[k] = "counting"
  /\ attempts' = [attempts EXCEPT ![k] = @ + 1]
  /\ Goes(k, IF attempts[k] + 1 > MaxAttempts THEN "exhausting" ELSE "noticing")
  /\ UNCHANGED <<hook, claimed>> /\ UNCHANGED vars
  /\ UNCHANGED runtime /\ UNCHANGED history

(* Over budget: Execution.Failed and the release, in one transaction. *)
SweepExhausts(k) ==
  /\ sweep.task[k] = "exhausting"
  /\ Goes(k, "given up")
  /\ Release(k) /\ TurnOver(k)
  /\ resumed' = [resumed EXCEPT ![k] = 0]
  /\ UNCHANGED hook /\ UNCHANGED vars /\ UNCHANGED runtime

(* The notice of the restart becomes part of the session's context. *)
SweepNotices(k) ==
  /\ sweep.task[k] = "noticing"
  /\ Goes(k, "resuming")
  /\ UNCHANGED hook /\ UNCHANGED vars /\ UNCHANGED durable
  /\ UNCHANGED runtime /\ UNCHANGED history

(* The resume is forked.  It waits out a stopping execution and then asks  *)
(* again; it restarts a turn when it finds the claim held and nothing      *)
(* running.                                                                *)
SweepResumes(k) ==
  /\ process = "up"
  /\ sweep.task[k] = "resuming"
  /\ Run(Sweeper[k], k)
  /\ Goes(k, IF executions[k] # None /\ fiber[executions[k]].stopping
               THEN "resuming" ELSE "resumed")
  /\ resumed' = IF executions[k] = None /\ claimed[k]
                  THEN [resumed EXCEPT ![k] = @ + 1] ELSE resumed
  /\ UNCHANGED <<hook, owed>> /\ UNCHANGED durable /\ UNCHANGED runtime

(* A publication of the sweep fails: the other preparations are interrupted. *)
SweepFails ==
  /\ \E k \in Keys : sweep.task[k] \in {"exhausting", "noticing"}
  /\ sweep' = [sweep EXCEPT !.task = [k \in Keys |->
       IF @[k] \in {"counting", "exhausting", "noticing"} THEN "none" ELSE @[k]]]
  /\ Faulty
  /\ UNCHANGED <<hook, process, deaths>> /\ UNCHANGED vars
  /\ UNCHANGED durable /\ UNCHANGED history

-------------------------------------------------------------------------------
(* The process. *)

Close ==
  /\ process = "up" /\ deaths < MaxDeaths
  /\ process' = "closing"
  /\ UNCHANGED <<hook, sweep, deaths, faults>> /\ UNCHANGED vars
  /\ UNCHANGED durable /\ UNCHANGED history

(* It dies, cleanly or not, and a new one starts: only the tables survive. *)
Die ==
  /\ deaths < MaxDeaths
  /\ deaths' = deaths + 1
  /\ executions' = [k \in Keys |-> None]
  /\ fiber' = [f \in Fibers |-> NoExecution]
  /\ call' = [c \in Calls |-> NewCall]
  /\ hook' = [f \in Fibers |-> "none"]
  /\ sweep' = NewSweep
  /\ process' = "up"
  /\ UNCHANGED faults /\ UNCHANGED durable /\ UNCHANGED history

-------------------------------------------------------------------------------
FiberTurn(f) ==
  \/ EnterHook(f) \/ Started(f) \/ StartedFails(f) \/ Drain(f) \/ DrainMoves(f)
  \/ Ends(f) \/ ClosedDown(f) \/ Terminal(f) \/ TerminalFails(f) \/ Settles(f)

SweepTurn ==
  \/ SweepLists \/ SweepFails
  \/ \E k \in Keys :
       SweepCounts(k) \/ SweepExhausts(k) \/ SweepNotices(k) \/ SweepResumes(k)

TurnNext ==
  \/ \E c \in Callers, k \in Keys : Prompt(c, k) \/ Resume(c, k) \/ Stop(c, k)
  \/ \E f \in Fibers : FiberTurn(f)
  \/ SweepTurn \/ Close \/ Die

(* The runtime keeps stepping its fibers and the sweep, drains end, and a  *)
(* scope that is being closed ends with its process.                       *)
TurnSpec ==
  /\ TurnInit /\ [][TurnNext]_turnVars
  /\ \A f \in Fibers : WF_turnVars(FiberTurn(f))
  /\ WF_turnVars(SweepTurn)
  /\ WF_turnVars(process = "closing" /\ Die)

-------------------------------------------------------------------------------
(* The coordinator's records keep their types; the budget counter is the   *)
(* only one that grows with the number of deaths.                          *)
TurnTypeOK ==
  /\ TypeOK
  /\ claimed \in [Keys -> BOOLEAN] /\ owed \in [Keys -> BOOLEAN]
  /\ attempts \in [Keys -> Nat] /\ resumed \in [Keys -> Nat]
  /\ hook \in [Fibers -> {"none", "started", "ended"}]
  /\ sweep \in [listed : BOOLEAN, task : [Keys -> Tasks]]
  /\ process \in {"up", "closing"}
  /\ deaths \in 0..MaxDeaths /\ faults \in 0..MaxFaults

(* A turn in flight is claimed (execution.ts:73): whatever happens between *)
(* the first drain and the turn's end, a crash or a shutdown included,     *)
(* leaves the claim a later process finds it by.  The sweep of a process   *)
(* gives a session up only after MaxAttempts deaths; what it does to a     *)
(* turn it then finds running is DrainingIsUntouched's matter.             *)
OwedIsClaimed == deaths < MaxAttempts => \A k \in Keys : owed[k] => claimed[k]

(* Whether a lifecycle event was lost. *)
Unpublished == IF faults > 0 THEN 1 ELSE 0

(* The budget (restart.ts:26-31): between two terminals, the sweep restarts*)
(* a turn at most MaxAttempts times however the process dies; a terminal   *)
(* that could not be published hides at most one of them.                  *)
BudgetHolds == \A k \in Keys : resumed[k] <= MaxAttempts + Unpublished

(* No claim is forgotten: when the process stops dying and no event was    *)
(* lost, every claim is released by a terminal in the end, so an orphaned  *)
(* turn is resumed or given up and never merely left behind.               *)
ClaimsAreReleased == \A k \in Keys : claimed[k] ~> (~claimed[k] \/ faults > 0)

(* session-execution.test.ts:366: "A live local turn holds a claim; the    *)
(* sweep must not count, continue, or terminalize it."                     *)
DrainingIsUntouched ==
  [][\A f \in Fibers :
       fiber[f].phase = "draining" =>
         attempts'[fiber[f].key] = attempts[fiber[f].key]
         /\ claimed'[fiber[f].key] = claimed[fiber[f].key]]_turnVars
===============================================================================
