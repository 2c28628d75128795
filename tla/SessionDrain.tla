----------------------------- MODULE SessionDrain -----------------------------
(***************************************************************************)
(* One Session's drain (core/src/session/runner/llm.ts and the wrapper in  *)
(* session/execution.ts) over its inbox: callers admit an item and then    *)
(* ring, a drain serves what was rung, decides at each boundary what to    *)
(* deliver, and runs model steps until the Session is idle.                *)
(*                                                                         *)
(* The inbox is SessionInbox itself; the run coordinator stands behind its *)
(* abstraction Doorbell, which RunCoordinator is shown to implement. One   *)
(* process lifetime: crashes belong to SessionInbox and are left out.      *)
(***************************************************************************)
EXTENDS SessionInbox

CONSTANTS Session,      \* the key of the Session
          MaxStops,     \* bound on interrupts and failures of a drain
          MaxReloads,   \* bound on closings of the Session's Location
          MaxResumes    \* bound on explicit resumes, at most one

ASSUME DrainAssumption == MaxStops \in Nat /\ MaxReloads \in Nat /\ MaxResumes \in 0..1
\* the n-th interrupt, who resumes, is none of the callers
ASSUME InterruptersAssumption == \A n \in 0..MaxStops : <<n>> \notin Callers

VARIABLES demand, serving, made,  \* the coordinator's promise, see Doorbell
          drain,            \* the runner's drain
          unanswered,       \* a prompt was delivered and no step has begun since
          resumption,       \* how far the one interrupt with resume is
          stops, reloads    \* how often the bounded disturbances happened

(* Who calls the coordinator: the callers of the inbox, the n-th interrupt,*)
(* and Resumer, an explicit resume or the wake of an interrupt with resume.*)
Interrupter(n) == <<n>>
Resumer == Interrupter(0)

D == INSTANCE Doorbell WITH Keys <- {Session},
                            Callers <- Callers \cup {Interrupter(n) : n \in 0..MaxStops}

doorbell == <<demand, serving, made>>
inboxVars == <<tables, lock, call, promoter>>
bounds == <<stops, reloads>>
drainVars == <<inboxVars, doorbell, drain, unanswered, resumption, bounds>>

(* The program points of drain and advanceToStep:                          *)
(*   asleep      no drain                                                  *)
(*   entering    the eager check for eligible input, at its first read     *)
(*   reading     the same check at its second read                         *)
(*   top         the top of advanceToStep                                  *)
(*   boundary    deciding on the next row under the inbox lock             *)
(*   compacting  a delivered compaction runs                               *)
(*   idling      the idle hook, and the look at the inbox after it         *)
(*   preparing, promoting   before and in promote                          *)
(*   ready       input is promoted, the context is loaded                  *)
(*   stepping    runStep                                                   *)
Points == {"asleep", "entering", "reading", "top", "boundary", "compacting", "idling",
           "preparing", "promoting", "ready", "stepping"}

Drain ==
  [at : Points, force : BOOLEAN, continuing : BOOLEAN, entering : BOOLEAN,
   stepped : BOOLEAN, promotable : Scopes \cup {None}, stopping : BOOLEAN]

Asleep ==
  [at |-> "asleep", force |-> FALSE, continuing |-> FALSE, entering |-> FALSE,
   stepped |-> FALSE, promotable |-> None, stopping |-> FALSE]

DrainInit ==
  /\ Init
  /\ D!Init
  /\ drain = Asleep
  /\ unanswered = FALSE
  /\ resumption = "none"
  /\ stops = 0 /\ reloads = 0

-------------------------------------------------------------------------------
(* Callers.                                                                *)

CallerActs(c) ==
  /\ CallerStep(c) \/ \E r \in Requests : Begin(c, r)
  /\ UNCHANGED <<doorbell, drain, unanswered, resumption, bounds>>

(* prompt, synthetic, compact, steerInbox and move end with a wake that a  *)
(* refused request does not reach; cancelInbox and queueInbox never wake.  *)
(* Callers that ask for no wake (resume: false) are not among the requests.*)
Wakes(op) == op \in Types \cup {"steer"}

Woke(c) == <<c, "wake">> \in made[Session]
MayWake(c) == call[c].at = "ok" /\ Wakes(Asked(c).op) /\ ~Woke(c)

(* Mutant: a wake during a drain is taken for served by it. *)
WakeIfAsleep(c) ==
  /\ MayWake(c)
  /\ D!Make(Session, c, "wake")
  /\ demand' = IF drain.at = "asleep" THEN [demand EXCEPT ![Session] = Scopes] ELSE demand
  /\ UNCHANGED serving
  /\ UNCHANGED <<inboxVars, drain, unanswered, resumption, bounds>>

Wake(c) ==
  /\ MayWake(c)
  /\ D!Ring(Session, "input", c, "wake")
  /\ UNCHANGED <<inboxVars, drain, unanswered, resumption, bounds>>

-------------------------------------------------------------------------------
(* The drain.                                                              *)

DrainAt(pc) == drain.at = pc

(* Where a pending interruption takes effect; advanceToStep masks the rest.*)
Interruptible ==
  \/ drain.at \in {"entering", "reading", "compacting", "idling", "preparing",
                   "promoting", "ready", "stepping"}
  \/ /\ DrainAt("boundary") /\ promoter.at = "deliver" /\ promoter.next.type = "move"

Runs(pc) == DrainAt(pc) /\ ~(drain.stopping /\ Interruptible)

Quiet == UNCHANGED <<inboxVars, doorbell, unanswered, resumption, bounds>>

Move(pc) == drain' = [drain EXCEPT !.at = pc]

(* An explicit resume of an idle Session: the drain it starts is forced to *)
(* run a step. Where something is going on it joins, which changes nothing.*)
Resume ==
  /\ DrainAt("asleep") /\ demand[Session] = {}
  /\ MaxResumes = 1
  /\ D!Ring(Session, "input", Resumer, "run")
  /\ drain' = [drain EXCEPT !.force = TRUE]
  /\ UNCHANGED <<inboxVars, unanswered, resumption, bounds>>

(* The coordinator lets a drain of scope s begin. *)
BeginDrain(s) ==
  /\ DrainAt("asleep")
  /\ D!Serve(Session, s)
  /\ drain' = [drain EXCEPT !.at = "entering", !.entering = TRUE, !.promotable = s]
  /\ UNCHANGED <<inboxVars, unanswered, resumption, bounds>>

EndDrain ==
  /\ D!Finish(Session)
  /\ drain' = Asleep

Complete == EndDrain /\ UNCHANGED <<inboxVars, unanswered, resumption, bounds>>

(* Mutant: the new drain promotes steers only, as a turn under way does. *)
ReenterSteering(force) ==
  drain' = [drain EXCEPT !.at = "entering", !.entering = TRUE, !.force = force, !.promotable = "steer",
                         !.stepped = ~drain.continuing /\ drain.stepped]

(* Moved and Reloaded: the wrapper drains again in the Session's Location, *)
(* with the transient state it was handed.                                 *)
Reenter(force) ==
  drain' = [drain EXCEPT !.at = "entering", !.entering = TRUE, !.force = force,
                         !.stepped = ~drain.continuing /\ drain.stepped]

(* nextPromotable(db, sessionID, "input"), read without the lock. *)
CheckSteers ==
  /\ Runs("entering")
  /\ IF drain.force \/ drain.continuing \/ drain.stepped \/ Steers # {}
     THEN Move("top") ELSE Move("reading")
  /\ Quiet

(* Mutant: the eager check looks at queued controls only. *)
CheckQueuedControls ==
  /\ Runs("reading")
  /\ IF \E i \in Queued : Oldest(i, Queued) /\ IsControl(i)
     THEN Move("top") /\ Quiet
     ELSE Complete

CheckQueued ==
  /\ Runs("reading")
  /\ IF \E i \in Queued : /\ Oldest(i, Queued)
                          /\ drain.promotable = "input" \/ IsControl(i)
     THEN Move("top") /\ Quiet
     ELSE Complete

Reload ==
  /\ DrainAt("top")
  /\ reloads < MaxReloads /\ reloads' = reloads + 1
  /\ Reenter(drain.force)
  /\ UNCHANGED <<inboxVars, doorbell, unanswered, resumption, stops>>

Boundary ==
  /\ DrainAt("top")
  /\ StartTask("boundary", IF drain.entering \/ ~drain.continuing THEN "input" ELSE "steer")
  /\ Move("boundary")
  /\ UNCHANGED <<doorbell, unanswered, resumption, bounds>>

(* What the decision leads to. At an idle boundary (nothing, or a queued   *)
(* prompt the scope excludes) the drain completes, through the idle hook   *)
(* if it ran a step and nothing is pending.                                *)
Decided ==
  /\ DrainAt("boundary") /\ promoter.at = "idle" /\ promoter.outcome # "died"
  /\ LET next == promoter.next
         parked == next # None /\ next.delivery = "queue" /\ drain.promotable = "steer"
         idle == ~drain.force /\ ~drain.continuing /\ (next = None \/ parked)
         renewed == ~drain.continuing /\ (next = None \/ next.delivery # "steer")
         here == [drain EXCEPT !.entering = @ \/ renewed]
     IN IF promoter.outcome = "control" /\ next.type = "move"
        THEN Reenter(FALSE) /\ Quiet
        ELSE IF promoter.outcome = "control"
        THEN drain' = [here EXCEPT !.at = "compacting"] /\ Quiet
        ELSE IF idle /\ (next # None \/ ~drain.stepped)
        THEN Complete
        ELSE drain' = [here EXCEPT !.at = IF idle THEN "idling" ELSE "preparing"] /\ Quiet

(* The compaction completed or its failure was recorded. *)
Compacted ==
  /\ Runs("compacting")
  /\ drain' = [drain EXCEPT !.at = "top", !.force = FALSE]
  /\ Quiet

AfterIdleHook ==
  /\ Runs("idling")
  /\ IF Pending = {} THEN Complete ELSE Move("top") /\ Quiet

(* Mutant: queued prompts are promoted while the turn continues. *)
PromoteScopeWide == IF drain.entering \/ drain.continuing THEN drain.promotable ELSE "steer"

PromoteScope == IF drain.entering /\ ~drain.continuing THEN drain.promotable ELSE "steer"

Promote ==
  /\ Runs("preparing")
  /\ StartTask("promote", PromoteScope)
  /\ Move("promoting")
  /\ UNCHANGED <<doorbell, unanswered, resumption, bounds>>

Promoted ==
  /\ Runs("promoting") /\ promoter.at = "idle" /\ promoter.outcome # "died"
  /\ Move(IF promoter.outcome = "control" THEN "top" ELSE "ready")
  /\ Quiet

BeginStep ==
  /\ Runs("ready")
  /\ Move("stepping")
  /\ unanswered' = FALSE
  /\ UNCHANGED <<inboxVars, doorbell, resumption, bounds>>

(* The step ended; the model asked for a continuation or did not. *)
EndStep(more) ==
  /\ Runs("stepping")
  /\ drain' = [drain EXCEPT !.at = "top", !.continuing = more, !.stepped = TRUE,
                            !.force = FALSE, !.entering = FALSE]
  /\ Quiet

(* The runner inside an inbox operation. *)
PromoterActs ==
  /\ drain.at \in {"boundary", "promoting"} /\ ~(drain.stopping /\ Interruptible)
  /\ PromoterStep
  /\ unanswered' = (unanswered \/ \E i \in IDs : message[i] = None /\ message'[i] \in Prompts)
  /\ UNCHANGED <<doorbell, drain, resumption, bounds>>

-------------------------------------------------------------------------------
(* Interruption and failure.                                               *)

(* The drain ends with a failure or an interruption, and gives up whatever *)
(* inbox operation it is in.                                               *)
StopDrain ==
  /\ EndDrain
  /\ InterruptRunner \/ (promoter.at = "idle" /\ UNCHANGED inboxVars)
  /\ UNCHANGED <<unanswered, resumption>>

Interrupted ==
  /\ drain.stopping /\ Interruptible
  /\ StopDrain
  /\ UNCHANGED bounds

Fails ==
  /\ \/ drain.at \in {"entering", "compacting", "preparing", "ready", "stepping"}
     \/ drain.at \in {"boundary", "promoting"} /\ promoter.outcome = "died"
  /\ stops < MaxStops /\ stops' = stops + 1
  /\ StopDrain
  /\ UNCHANGED reloads

(* execution.interrupt: the coordinator stops the drain and claims what    *)
(* was rung, unless the execution is stopping already; with resume, it     *)
(* then looks for work to resume.                                          *)
Interrupt(resume) ==
  /\ stops < MaxStops /\ stops' = stops + 1
  /\ resume => resumption = "none"
  /\ \/ /\ ~drain.stopping
        /\ D!Claim(Session, Interrupter(stops'))
        /\ drain' = IF DrainAt("asleep") THEN Asleep ELSE [drain EXCEPT !.stopping = TRUE]
     \/ /\ drain.stopping \/ DrainAt("asleep")
        /\ D!Ignore(Session, Interrupter(stops'))
        /\ UNCHANGED drain
  /\ resumption' = IF resume THEN "steers" ELSE resumption
  /\ UNCHANGED <<inboxVars, unanswered, reloads>>

(* nextPromotable(db, sessionID, "input") of the interrupt, read by read.  *)
ResumeSteers ==
  /\ resumption = "steers"
  /\ IF Steers # {}
     THEN D!Ring(Session, "steer", Resumer, "wake") /\ resumption' = "rung"
     ELSE UNCHANGED doorbell /\ resumption' = "queued"
  /\ UNCHANGED <<inboxVars, drain, unanswered, bounds>>

ResumeQueued ==
  /\ resumption = "queued"
  /\ IF \E i \in Queued : Oldest(i, Queued) /\ IsControl(i)
     THEN D!Ring(Session, "steer", Resumer, "wake") /\ resumption' = "rung"
     ELSE UNCHANGED doorbell /\ resumption' = "nothing"
  /\ UNCHANGED <<inboxVars, drain, unanswered, bounds>>

-------------------------------------------------------------------------------
DrainStep ==
  \/ \E s \in Scopes : BeginDrain(s)
  \/ CheckSteers \/ CheckQueued \/ Boundary \/ Decided \/ Compacted \/ AfterIdleHook
  \/ Promote \/ Promoted \/ BeginStep \/ \E more \in BOOLEAN : EndStep(more)
  \/ PromoterActs \/ Interrupted \/ ResumeSteers \/ ResumeQueued

DrainNext ==
  \/ \E c \in Callers : CallerActs(c) \/ Wake(c)
  \/ DrainStep
  \/ Resume \/ Reload \/ Fails
  \/ \E resume \in BOOLEAN : Interrupt(resume)

(* The process keeps running its fibers, and the semaphore of the keyed    *)
(* mutex serves its waiters in order, so a waiter that finds the lock free *)
(* again and again gets it.  Requests, closings, failures and interrupts   *)
(* are owed by nobody.                                                     *)
DrainSpec ==
  /\ DrainInit /\ [][DrainNext]_drainVars
  /\ \A c \in Callers :
       WF_drainVars(CallerStep(c) /\ CallerActs(c)) /\ WF_drainVars(Wake(c))
       /\ SF_drainVars(Acquire(c) /\ CallerActs(c))
  /\ WF_drainVars(DrainStep)

-------------------------------------------------------------------------------
(* The drain's own state has its type; the inbox keeps its own.            *)
DrainTypeOK ==
  /\ TypeOK
  /\ D!DoorbellTypeOK
  /\ drain \in Drain
  /\ unanswered \in BOOLEAN
  /\ resumption \in {"none", "steers", "queued", "rung", "nothing"}
  /\ stops \in 0..MaxStops /\ reloads \in 0..MaxReloads

(* No input is stranded: once the Session sleeps with nothing rung, every  *)
(* pending row belongs to a request that has yet to wake it, unless an     *)
(* interrupt or a failure left it behind.                                  *)
NoStrandedInput ==
  (DrainAt("asleep") /\ demand[Session] = {} /\ stops = 0) =>
    \A i \in Pending : \E c \in Callers : MayWake(c) /\ call[c].got = i

(* A queued prompt is delivered only between turns, only by a drain whose  *)
(* scope includes it, and, while nothing failed, only after every prompt   *)
(* delivered before it was taken up by a step.                             *)
QueuedWaits ==
  [][\A i \in IDs :
       (/\ i \in Pending /\ inbox[i].delivery = "queue" /\ inbox[i].type \in Prompts
        /\ message[i] = None /\ message'[i] # None)
       => /\ ~drain.continuing /\ drain.promotable = "input"
          /\ stops = 0 => ~unanswered]_drainVars

(* A steered item whose wake was made is eventually taken by the drain,    *)
(* cancelled or requeued, unless an interrupt or a failure intervenes.     *)
SteersAreTaken ==
  \A c \in Callers :
    (Woke(c) /\ call[c].got \in Steers)
      ~> (call[c].got \notin Steers \/ stops > 0)

(* execution.ts: after an interrupt with resume, a steer row "is either    *)
(* still promotable here or was fully delivered and needs no resumption".  *)
(* If nothing was left to resume, no delivered prompt is without a step.   *)
DeliveredNeedsNoResumption ==
  (resumption = "nothing" /\ DrainAt("asleep") /\ demand[Session] = {}) => ~unanswered
=============================================================================
