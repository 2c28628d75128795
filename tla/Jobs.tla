---------------------------------- MODULE Jobs ----------------------------------
(***************************************************************************)
(* Background jobs: the registry of core/src/job.ts with its durable       *)
(* table, the tools that start, block on and background jobs               *)
(* (tool/plugin/shell.ts, subagent.ts), the observers that report a        *)
(* backgrounded job to the conversation (session/subagent-job.ts,          *)
(* subagent-completion.ts), and the restart sweep's part for jobs          *)
(* (session/execution/restart.ts).                                         *)
(*                                                                         *)
(* A job id may be started again once its job has settled: a generation is *)
(* one started job.  A notification is named after the generation it was   *)
(* made for.                                                               *)
(***************************************************************************)
EXTENDS Integers, FiniteSets

CONSTANTS Shells,          \* job ids of shells: each belongs to one tool call
          Children,        \* job ids of subagents: the child Session's id
          Tools,           \* tool calls of the parent Session
          Exits,           \* how a run may end
          MaxGenerations,  \* bound: how many jobs are started
          MaxDeaths        \* bound: how often the process dies

ASSUME JobsAssumption ==
  /\ Shells \cap Children = {} /\ "none" \notin Shells \cup Children
  /\ Exits \subseteq {"completed", "error"}
  /\ MaxGenerations \in Nat /\ MaxDeaths \in Nat

VARIABLES jobs,     \* the map of job.ts: the current generation of an id, 0 without
          info,     \* the jobs started so far
          row,      \* table job: status by notification, "none" without a row
          told,     \* notices admitted to the conversation, by notification
          tool,     \* the tool calls
          observers, \* the fibers that wait for a job and report it
          sweep,    \* the restart sweep's walk over the table
          life,     \* history: the number of this process
          outcome,  \* history: how a job settled, by notification
          crossed   \* history: notifications the sweep gave to another job than their own,
                    \* or to a child it had already given up on

vars == <<jobs, info, row, told, tool, observers, sweep, life, outcome, crossed>>

Ids == Shells \cup Children
Generations == 1..MaxGenerations
Settled == {"completed", "error", "cancelled"}
Unstarted == [id |-> "none", status |-> "none", backgrounded |-> FALSE, note |-> 0, life |-> 0]
Fresh == [id |-> "none", generation |-> 0, background |-> FALSE, at |-> "idle"]
Nothing == [by |-> "none", status |-> "none"]
Boot == [at |-> "boot", note |-> 0, listed |-> [n \in Generations |-> "none"], skipped |-> {}]

Init ==
  /\ jobs = [i \in Ids |-> 0]
  /\ info = [g \in Generations |-> Unstarted]
  /\ row = [n \in Generations |-> "none"]
  /\ told = [n \in Generations |-> Nothing]
  /\ tool = [t \in Tools |-> Fresh]
  /\ observers = {}
  /\ sweep = Boot
  /\ life = 0
  /\ outcome = [n \in Generations |-> "none"] /\ crossed = {}

Running(i) == jobs[i] # 0 /\ info[jobs[i]].status = "running"
(* A call that has returned needs its id only. *)
Over(call) == [call EXCEPT !.at = "done", !.generation = 0, !.background = FALSE]
Blocks(call, g) == call.at = "blocking" /\ call.generation = g

-------------------------------------------------------------------------------
(* The registry.  Its map and table change together: modifyEffect holds    *)
(* the map's lock while it writes.  Resolving done or backgrounded, in the *)
(* same fiber, moves whoever waits for it.                                 *)

(* Mutant: a job is started over a running one. *)
StartOver(i, note) ==
  \E g \in Generations :
    /\ info[g].status = "none" /\ \A h \in 1..(g - 1) : info[h].status # "none"
    /\ info' = [info EXCEPT ![g] = [id |-> i, status |-> "running", backgrounded |-> FALSE, note |-> note, life |-> life]]
    /\ jobs' = [jobs EXCEPT ![i] = g]

(* start: a running job is joined, anything else is replaced. *)
Start(i, note) ==
  \/ Running(i) /\ UNCHANGED <<jobs, info>>
  \/ /\ ~Running(i)
     /\ \E g \in Generations :
          /\ info[g].status = "none" /\ \A h \in 1..(g - 1) : info[h].status # "none"
          /\ info' = [info EXCEPT ![g] = [id |-> i, status |-> "running", backgrounded |-> FALSE, note |-> note, life |-> life]]
          /\ jobs' = [jobs EXCEPT ![i] = g]

(* Mutant: who observes is forgotten. *)
ResolveBlocked(g, status, calls) ==
  /\ tool' = [t \in Tools |-> IF Blocks(calls[t], g) THEN Over(calls[t]) ELSE calls[t]]
  /\ UNCHANGED observers

(* Deferred done: who blocks on the job and who observes it learn how it   *)
(* settled; calls are the tool calls as they are otherwise left.           *)
Resolve(g, status, calls) ==
  /\ tool' = [t \in Tools |-> IF Blocks(calls[t], g) THEN Over(calls[t]) ELSE calls[t]]
  /\ observers' =
       {IF o.generation = g /\ o.at = "waiting"
          THEN [o EXCEPT !.at = "reporting", !.status = status, !.note = IF @ = 0 THEN info[g].note ELSE @]
          ELSE o : o \in observers}

(* Mutant: how a job settled is only kept in memory. *)
ForgetOutcome(note, status) ==
  /\ UNCHANGED row
  /\ outcome' = IF note = 0 THEN outcome ELSE [outcome EXCEPT ![note] = status]

(* persistBackground of how a job settled, if it has a notification. *)
KeepOutcome(note, status) ==
  /\ row' = IF note = 0 THEN row ELSE [row EXCEPT ![note] = status]
  /\ outcome' = IF note = 0 THEN outcome ELSE [outcome EXCEPT ![note] = status]

(* settle: the run of a job ends.  A run is interrupted only by            *)
(* cancelInternal, which has settled the job by then, or with its process, *)
(* whose observers go before its jobs: that exit is not persisted, and     *)
(* is part of Die.                                                         *)
Settle(g, status) ==
  /\ info[g].status = "running" /\ jobs[info[g].id] = g
  /\ info' = [info EXCEPT ![g].status = status]
  /\ KeepOutcome(info[g].note, status)
  /\ Resolve(g, status, tool)
  /\ UNCHANGED <<jobs, told, sweep, life, crossed>>

(* cancelInternal, with persist. *)
Cancel(i, calls) ==
  \/ ~Running(i) /\ tool' = calls /\ UNCHANGED <<info, row, outcome, observers>>
  \/ /\ Running(i)
     /\ info' = [info EXCEPT ![jobs[i]].status = "cancelled"]
     /\ KeepOutcome(info[jobs[i]].note, "cancelled")
     /\ Resolve(jobs[i], "cancelled", calls)

(* markBackground: the job gets a notification and a row, and lets go of   *)
(* who blocks on it.                                                       *)
NoteOf(g) == IF info[g].note = 0 THEN g ELSE info[g].note
Marked(gs, n) == {g \in gs : NoteOf(g) = n}
Mark(gs, calls) ==
  /\ info' = [g \in Generations |->
       IF g \in gs THEN [info[g] EXCEPT !.backgrounded = TRUE, !.note = NoteOf(g)] ELSE info[g]]
  /\ row' = [n \in Generations |->
       IF Marked(gs, n) = {} THEN row[n] ELSE info[CHOOSE g \in Marked(gs, n) : TRUE].status]
  /\ outcome' = [n \in Generations |->
       IF \E g \in Marked(gs, n) : info[g].status \in Settled
         THEN info[CHOOSE g \in Marked(gs, n) : TRUE].status ELSE outcome[n]]
  /\ tool' = [t \in Tools |->
       IF \E g \in gs : Blocks(calls[t], g) THEN [calls[t] EXCEPT !.at = "released"] ELSE calls[t]]

(* background, also of a job that has settled meanwhile. *)
ToMark(i) == IF jobs[i] = 0 \/ info[jobs[i]].backgrounded THEN {} ELSE {jobs[i]}

(* completeBackground: the row goes, and so does the job unless it runs. *)
Complete(note) ==
  /\ row' = [row EXCEPT ![note] = "none"]
  /\ jobs' = [i \in Ids |->
       IF jobs[i] # 0 /\ info[jobs[i]].note = note /\ ~Running(i) THEN 0 ELSE jobs[i]]

(* A synthetic notice is admitted once under its id. *)
Admit(note, by, status) ==
  told' = IF told[note] # Nothing THEN told
          ELSE [told EXCEPT ![note] = [by |-> by, status |-> status]]

-------------------------------------------------------------------------------
(* Tool calls of the parent. *)

Launch(t, i, background) ==
  /\ tool[t].at = "idle"
  /\ i \in Shells => \A u \in Tools : tool[u].id # i
  /\ Start(i, 0)
  /\ tool' = [tool EXCEPT ![t] = [id |-> i, generation |-> 0, background |-> background, at |-> "started"]]
  /\ UNCHANGED <<row, told, observers, sweep, life, outcome, crossed>>

(* A call in the background; without a job, a subagent's is not observed. *)
Background(t) ==
  LET i == tool[t].id IN
  /\ tool[t].at = "started" /\ tool[t].background
  /\ Mark(ToMark(i), [tool EXCEPT ![t] =
       IF jobs[i] = 0 /\ i \in Children THEN Over(@)
       ELSE [@ EXCEPT !.generation = jobs[i], !.at = "released"]])
  /\ UNCHANGED <<jobs, told, observers, sweep, life, crossed>>

(* block *)
Block(t) ==
  LET g == jobs[tool[t].id] IN
  /\ tool[t].at = "started" /\ ~tool[t].background
  /\ tool' = [tool EXCEPT ![t] =
       IF g = 0 \/ ~Running(tool[t].id) THEN Over(@)
       ELSE [@ EXCEPT !.generation = g, !.at = IF info[g].backgrounded THEN "released" ELSE "blocking"]]
  /\ UNCHANGED <<jobs, info, row, told, observers, sweep, life, outcome, crossed>>

(* wait: for the current job of the id, if it has not settled. *)
Waits(i, key, note) ==
  IF jobs[i] = 0 THEN {}
  ELSE {[key |-> key, id |-> i, generation |-> jobs[i],
         at |-> IF Running(i) THEN "waiting" ELSE "reporting",
         status |-> IF Running(i) THEN "none" ELSE info[jobs[i]].status,
         note |-> IF note = 0 /\ ~Running(i) THEN info[jobs[i]].note ELSE note]}

(* notifyWhenDone; a child's notify keeps one observer per start. *)
Observed(t) == tool[t].id \in Children
               /\ \E o \in observers : o.id = tool[t].id /\ o.key = tool[t].generation
Notify(t) ==
  /\ tool[t].at = "released"
  /\ observers' = IF Observed(t) THEN observers
                  ELSE observers \cup Waits(tool[t].id, tool[t].generation, 0)
  /\ tool' = [tool EXCEPT ![t] = Over(@)]
  /\ UNCHANGED <<jobs, info, row, told, sweep, life, outcome, crossed>>

(* The turn that called the tool is stopped.  While it blocks it cancels   *)
(* the job on its way out; before and after nobody does.                   *)
InterruptTool(t) ==
  /\ tool[t].at \in {"started", "blocking", "released"}
  /\ tool' = [tool EXCEPT ![t] =
       IF @.at = "blocking" THEN [@ EXCEPT !.at = "cancelling", !.generation = 0] ELSE Over(@)]
  /\ UNCHANGED <<jobs, info, row, told, observers, sweep, life, outcome, crossed>>

CancelJob(t) ==
  /\ tool[t].at = "cancelling"
  /\ Cancel(tool[t].id, [tool EXCEPT ![t] = Over(@)])
  /\ UNCHANGED <<jobs, told, sweep, life, crossed>>

-------------------------------------------------------------------------------
(* Users. *)

(* Session.background of the parent: whatever a tool call blocks on.  Who  *)
(* blocks is counted per id: the blocker of a settled job that leaves late *)
(* may take away the count of a later job's, which is then missed.         *)
Blocked == {g \in Generations : \E t \in Tools : Blocks(tool[t], g)}
Continues(g) == \E h \in 1..(g - 1) : info[h].id = info[g].id
BackgroundAll ==
  \E gs \in SUBSET Blocked \ {{}} :
    /\ \A g \in Blocked \ gs : Continues(g)
    /\ Mark(gs, tool)
    /\ UNCHANGED <<jobs, told, observers, sweep, life, crossed>>

(* A stopped child's settled hook cancels the job that runs it. *)
Stop(i) ==
  /\ Cancel(i, tool)
  /\ UNCHANGED <<jobs, told, sweep, life, crossed>>

-------------------------------------------------------------------------------
(* Observers. *)

(* Mutant: the row goes first. *)
ReportLast(o) ==
  /\ o \in observers /\ o.at = "reporting"
  /\ observers' = (observers \ {o}) \cup (IF o.note = 0 THEN {} ELSE {[o EXCEPT !.at = "reported"]})
  /\ IF o.note = 0 THEN UNCHANGED <<jobs, row>> ELSE Complete(o.note)
  /\ UNCHANGED <<info, told, tool, sweep, life, outcome, crossed>>

(* The notice is admitted; one without a notification id is just a notice. *)
Report(o) ==
  /\ o \in observers /\ o.at = "reporting"
  /\ observers' = (observers \ {o}) \cup (IF o.note = 0 THEN {} ELSE {[o EXCEPT !.at = "reported"]})
  /\ IF o.note = 0 THEN UNCHANGED told ELSE Admit(o.note, "observer", o.status)
  /\ UNCHANGED <<jobs, info, row, tool, sweep, life, outcome, crossed>>

Acknowledge(o) ==
  /\ o \in observers /\ o.at = "reported"
  /\ observers' = observers \ {o}
  /\ Complete(o.note)
  /\ UNCHANGED <<info, told, tool, sweep, life, outcome, crossed>>

-------------------------------------------------------------------------------
(* Restarts.  The process takes everything but the table and the inbox     *)
(* with it; its successor sweeps the table beside its own traffic.         *)
Die ==
  /\ life < MaxDeaths /\ life' = life + 1
  /\ jobs' = [i \in Ids |-> 0]
  /\ info' = [g \in Generations |->
       IF info[g].status = "running" THEN [info[g] EXCEPT !.status = "lost"] ELSE info[g]]
  /\ tool' = [t \in Tools |-> IF tool[t].at = "idle" THEN tool[t]
       ELSE Over(tool[t])]
  /\ observers' = {}
  /\ sweep' = Boot
  /\ UNCHANGED <<row, told, outcome, crossed>>

Walks(at, note) == sweep' = [sweep EXCEPT !.at = at, !.note = note]
Unhandled == {n \in Generations : sweep.listed[n] # "none"}
Handles(n) == sweep' = [sweep EXCEPT !.at = "working", !.note = 0, !.listed[n] = "none"]
Job(n) == info[n].id
IsShell(n) == Job(n) \in Shells

(* pendingBackground, read once. *)
SweepLists ==
  /\ sweep.at = "boot"
  /\ sweep' = [sweep EXCEPT !.at = "working", !.listed = row]
  /\ UNCHANGED <<jobs, info, row, told, tool, observers, life, outcome, crossed>>

(* Shells first, then subagents, each in order of creation; a job that     *)
(* runs here is left alone.                                                *)
First(n) == \A m \in Unhandled :
              IF IsShell(n) = IsShell(m) THEN n <= m ELSE IsShell(n)
SweepTakes(n) ==
  /\ sweep.at = "working" /\ n \in Unhandled /\ First(n)
  /\ \/ Running(Job(n)) /\ UNCHANGED crossed
        /\ sweep' = [sweep EXCEPT !.listed[n] = "none", !.skipped = @ \cup {n}]
     \/ ~Running(Job(n)) /\ Walks("taken", n)
        /\ crossed' = IF info[n].life = life THEN crossed \cup {n} ELSE crossed
  /\ UNCHANGED <<jobs, info, row, told, tool, observers, life, outcome>>

(* A child that is running again without a job is left alone, too. *)
SweepFindsActive ==
  /\ sweep.at = "taken" /\ ~IsShell(sweep.note) /\ sweep.listed[sweep.note] = "running"
  /\ sweep' = [sweep EXCEPT !.at = "working", !.note = 0, !.listed[sweep.note] = "none",
                            !.skipped = @ \cup {sweep.note}]
  /\ UNCHANGED <<jobs, info, row, told, tool, observers, life, outcome, crossed>>

(* Mutant: what was running is reported as running. *)
SweepReportsAsListed ==
  LET n == sweep.note  status == sweep.listed[n] IN
  /\ sweep.at = "taken"
  /\ Admit(n, "sweep", IF status # "running" \/ IsShell(n) THEN status ELSE "error")
  /\ Walks("reported", n)
  /\ UNCHANGED <<jobs, info, row, tool, observers, life, outcome, crossed>>

(* A notice of how the job settled.  A shell that was running did not      *)
(* survive; of a child that was, only one whose budget is exhausted is     *)
(* reported here.                                                          *)
SweepReports ==
  LET n == sweep.note  status == sweep.listed[n] IN
  /\ sweep.at = "taken"
  /\ Admit(n, "sweep", IF status # "running" THEN status ELSE IF IsShell(n) THEN "cancelled" ELSE "error")
  /\ Walks("reported", n)
  /\ UNCHANGED <<jobs, info, row, tool, observers, life, outcome, crossed>>

SweepAcknowledges ==
  /\ sweep.at = "reported"
  /\ Complete(sweep.note) /\ Handles(sweep.note)
  /\ UNCHANGED <<info, told, tool, observers, life, outcome, crossed>>

(* A running child is started again under the old notification, or joined  *)
(* if a call has started it meanwhile, ...                                 *)
SweepRestarts ==
  /\ sweep.at = "taken" /\ ~IsShell(sweep.note) /\ sweep.listed[sweep.note] = "running"
  /\ Start(Job(sweep.note), sweep.note)
  /\ sweep' = [sweep EXCEPT !.at = "restarted",
       !.skipped = IF Running(Job(sweep.note)) THEN @ \cup {sweep.note} ELSE @]
  /\ crossed' = IF told[sweep.note] = Nothing THEN crossed ELSE crossed \cup {sweep.note}
  /\ UNCHANGED <<row, told, tool, observers, life, outcome>>

(* ... backgrounded, ...                                                   *)
SweepBackgrounds ==
  /\ sweep.at = "restarted"
  /\ Mark(ToMark(Job(sweep.note)), tool)
  /\ Walks("backgrounded", sweep.note)
  /\ UNCHANGED <<jobs, told, observers, life, crossed>>

(* Mutant: nobody waits for a restarted child. *)
SweepForgets ==
  /\ sweep.at = "backgrounded"
  /\ Handles(sweep.note)
  /\ UNCHANGED <<jobs, info, row, told, tool, observers, life, outcome, crossed>>

(* ... and observed, by a fiber of the sweep's own.                        *)
SweepObserves ==
  /\ sweep.at = "backgrounded"
  /\ observers' = observers \cup Waits(Job(sweep.note), 0, sweep.note)
  /\ crossed' = IF \E o \in Waits(Job(sweep.note), 0, sweep.note) : info[o.generation].note = sweep.note
                  THEN crossed ELSE crossed \cup {sweep.note}
  /\ Handles(sweep.note)
  /\ UNCHANGED <<jobs, info, row, told, tool, life, outcome>>

-------------------------------------------------------------------------------
RunEnds(g) == \E status \in Exits : Settle(g, status)
ToolStep(t) == Background(t) \/ Block(t) \/ Notify(t) \/ CancelJob(t)
ObserverStep(o) == Report(o) \/ Acknowledge(o)
SweepStep ==
  \/ SweepLists \/ SweepReports \/ SweepAcknowledges \/ SweepRestarts \/ SweepBackgrounds
  \/ SweepObserves \/ SweepFindsActive \/ \E n \in Generations : SweepTakes(n)

Next ==
  \/ \E t \in Tools :
       \/ ToolStep(t) \/ InterruptTool(t)
       \/ \E i \in Ids, background \in BOOLEAN : Launch(t, i, background)
  \/ \E g \in Generations : RunEnds(g)
  \/ \E o \in observers : ObserverStep(o)
  \/ BackgroundAll \/ SweepStep \/ Die
  \/ \E i \in Children : Stop(i)

(* A run ends in the end. *)
Fairness == \A g \in Generations : WF_vars(RunEnds(g))
Spec == Init /\ [][Next]_vars /\ Fairness
-------------------------------------------------------------------------------
Statuses == Settled \cup {"none", "running", "lost"}
Notes == 0..MaxGenerations
Told == [by : {"none", "observer", "sweep"}, status : Settled \cup {"none"}]

(* Every table, fiber and history keeps its type; the current job of an id *)
(* is one of that id.                                                      *)
JobsTypeOK ==
  /\ jobs \in [Ids -> Notes]
  /\ info \in [Generations -> [id : Ids \cup {"none"}, status : Statuses,
                               backgrounded : BOOLEAN, note : Notes, life : 0..MaxDeaths]]
  /\ row \in [Generations -> Settled \cup {"none", "running"}]
  /\ told \in [Generations -> Told] /\ outcome \in [Generations -> Settled \cup {"none"}]
  /\ tool \in [Tools -> [id : Ids \cup {"none"}, generation : Notes, background : BOOLEAN,
                         at : {"idle", "started", "blocking", "released", "cancelling", "done"}]]
  /\ observers \subseteq [key : Notes, id : Ids, generation : Generations, note : Notes,
                          at : {"waiting", "reporting", "reported"}, status : Settled \cup {"none"}]
  /\ sweep \in [at : {"boot", "working", "taken", "reported", "restarted", "backgrounded"}, note : Notes,
                listed : [Generations -> Settled \cup {"none", "running"}], skipped : SUBSET Generations]
  /\ crossed \subseteq Generations /\ life \in 0..MaxDeaths
  /\ \A i \in Ids : jobs[i] # 0 => info[jobs[i]].id = i

(* A job that was moved to the background is reported: until its notice is *)
(* admitted the table has it, whatever crashes, settles or restarts it.    *)
Promised(n) == \E g \in Generations : info[g].backgrounded /\ info[g].note = n
NoNoticeIsLost == \A n \in Generations : Promised(n) => told[n] # Nothing \/ row[n] # "none"

(* How a backgrounded job ended is what the conversation is told, also     *)
(* when the process dies in between.  Excepted are notifications that the  *)
(* sweep, which knows jobs by their id, gave to another job: it took a job *)
(* of its own process for left over (RestartsAreTrue), or waits for a      *)
(* later job of the child than the one it restarted.  Excepted is also a   *)
(* child that a sweep gave up on and said so, but whose row it did not     *)
(* live to remove: giving up reset the budget, so the next sweep resumes   *)
(* the child, and what becomes of it has no notice left to tell.           *)
OutcomeIsTold ==
  \A n \in Generations \ crossed :
    told[n] # Nothing /\ outcome[n] # "none" => told[n].status = outcome[n]

(* Whoever waits for a job, to block or to observe, waits for one that can *)
(* still settle: the running, current job of its id.                       *)
WaitersHaveAJob ==
  /\ \A t \in Tools : tool[t].at = "blocking" =>
       Running(tool[t].id) /\ jobs[tool[t].id] = tool[t].generation /\ ~info[tool[t].generation].backgrounded
  /\ \A o \in observers : o.at = "waiting" => Running(o.id) /\ jobs[o.id] = o.generation

(* When the sweep is through, whatever an earlier process left in the      *)
(* table is observed again, was left to a child or job that runs, or, as   *)
(* above, given to another job.                                            *)
SweepIsThorough ==
  sweep.at = "working" /\ Unhandled = {} =>
    \A n \in Generations :
      row[n] # "none" /\ info[n].life < life =>
        n \in sweep.skipped \cup crossed \/ \E o \in observers : o.note = n

(* A call that blocks returns once the job has ended, whoever joins,       *)
(* replaces, backgrounds or cancels the job meanwhile.                     *)
BlockersReturn == \A t \in Tools : tool[t].at = "blocking" ~> tool[t].at # "blocking"

(* Violated.  "preserves locally running background work"                  *)
(* (test/session-execution.test.ts:467): a job of this process is not      *)
(* reported as cancelled or failed by the restart.                         *)
RestartsAreTrue ==
  \A n \in Generations :
    told[n].by = "sweep" /\ outcome[n] # "none" => told[n].status = outcome[n]
===============================================================================
