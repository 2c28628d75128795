# Formal model of the OpenCode session core

This directory holds TLA+ modules about the part of the program that decides
*when a Session's model runs, what it reads and what it waits for*: admission of
input, the run coordinator, the runner's drain, the durable claims by which a
restart finds the turns it has to resume, background jobs, permissions and forms,
and the event bus under all of them (`packages/core/src`). TLC checks them on small
instances; TLAPS proves a part of them for every instance.

    tlc -config RunCoordinator.cfg MCRunCoordinator
    tlapm RunCoordinatorProofs.tla

## 1. Inventory of the system

The repository is a TypeScript program (Effect runtime, one process, one
JavaScript thread, SQLite underneath) with clients around it. Concurrency is
cooperative: a fiber runs until it awaits, so every `yield*` on the database,
the bus, a deferred or a lock is a place where another fiber may run.

| Component | State it keeps | Operations | Talks to | What makes it correct |
|---|---|---|---|---|
| Run coordinator (`run-coordinator.ts`) | map key -> execution (`scope`, `pendingWake`, `stopping`, `owner`, `done`) | run, wake, interrupt, awaitIdle | calls drain and the started/settled hooks | one execution per key; no wake lost; every waiter resolved |
| Session inbox (`inbox.ts`) | table `session_inbox`, message rows, a lock per Session | reconcile, admit, admitCompaction, cancel, steer, queue, nextPromotable, promote | bus (one transaction per event), projector | exactly-once delivery; idempotent admission; delivery order; controls are barriers |
| Runner drain (`runner/llm.ts`, `execution.ts`) | `force`, `continuing`, `entering`, `stepped`, `promotable` | drain, advanceToStep, runStep | inbox, coordinator, compaction, plugins | input is never stranded; queued prompts wait for the turn to end |
| Session operations (`session/session.ts`) | none of its own | prompt, synthetic, compact, cancelInbox, steerInbox, queueInbox, interrupt, resume | inbox, then coordinator.wake | admission precedes the wake |
| Session execution (`execution.ts`, `execution/restart.ts`, `store.ts`) | durable claim per Session, resume counter | started/settled hooks, resumeSuspendedSessions | bus transactions, coordinator | a turn in flight is claimed; restart resumes it a bounded number of times |
| Session move (`move.ts`) | the Session's Location | move | inbox, coordinator | a move is a barrier; recovery does not race a runner |
| Event bus (`bus.ts`) | event log, sequence per aggregate, followers | publish, publishAll, replay, remove, log | projectors, subscribers | log order = notification order; projections in the same transaction |
| Event feed (`server/src/event-feed.ts`) | bounded queue per subscriber | subscribe, offer | bus | ends rather than skips |
| Jobs (`job.ts`, `subagent-*.ts`, `tool/plugin/shell.ts`) | running jobs, their waiters, the job table | start, block, background, wait, cancel | inbox (completion), restart sweep | what was backgrounded is reported, once and truly |
| Permissions, forms (`permission.ts`, `form.ts`) | pending requests with deferreds, saved approvals | ask, reply, cancel, close | bus, tools, shutdown | nobody waits for what cannot be answered; what a card shows can be |
| Step and tool settlement (`runner/step.ts`, `publish-llm-event.ts`, `retry.ts`) | tool calls of the running step | run, settle, retry | bus, tools | each tool call settles once |
| Location lifecycle / activity (`location-*.ts`) | reference counts, closed flags | acquire, release, close | everything scoped to a Location | nothing used after it is closed |
| Shared cache, state registry (`shared-cache.ts`, `state.ts`) | loaded results by key; transforms and the state built from them | get, invalidate; register, rebuild | catalogues, plugins, agents | one load at a time; state = fold of the transforms |
| Revert (`revert.ts`) | staged revert of a Session | stage, clear, commit | bus, snapshots | a prompt commits at most one revert |
| Compaction, context, history (`compaction.ts`, ...) | none (folds of the log) | compact, select, load | model | - |
| Process daemon (Rust), code mode, protocol adapters, HTTP server, UIs | their own | - | - | outside the session core |

Interaction in one line: *a caller commits an item to the inbox and then rings
the coordinator; the coordinator runs drains one at a time; a drain takes items
from the inbox at boundaries, under the inbox lock, and runs model steps.*

Hard behaviours: input arrives at every await of a running drain; an interrupt
lands anywhere the drain does not mask it; retries repeat an admission under the
same id; controls (a compaction, a move) are barriers that prompts must not
cross; the process may die between any two transactions. `PROJECT.json` lists
each of these hazards at its line, and the property that covers it.

## 2. Plan

1. *Coordinator*: `Doorbell` (what a caller is promised), `RunCoordinator`,
   `RunCoordinatorProofs`. Done: checked, proved, refinement included.
2. *Inbox*: `InboxLedger` (what delivery promises), `SessionInbox`,
   `SessionInboxProofs`. Done: checked, proved, refinement included.
3. *Drain*: `SessionDrain` composes `SessionInbox` with `Doorbell`;
   `SessionDrainProofs`. Done: checked; its types, NoStrandedInput and QueuedWaits
   proved, and that it implements the specifications of the two it composes.
4. *Durable claims and restarts*: `SessionExecution` over `execution.ts`,
   `store.ts` and `restart.ts`, with crashes; `SessionExecutionProofs`. Done for
   Sessions without parent: checked, its invariants, the budget and what it keeps of
   the coordinator's promises proved. Left: the composition with the inbox.
5. *Bus*: `Bus` (commit, notify, follow, replay, remove), `BusProofs`. Done: checked,
   its invariants and the order of its live channel proved. The event feed in front
   of it is one bounded offer per subscriber, which a model would only restate.
6. *Requests to the user*: `Permission`, `Form`, `Requests` (both behind the question
   tool and the shutdown), `PermissionProofs`, `RequestsProofs`. Done: checked,
   invariants proved, and that the composition implements both parts.
7. *Jobs*: `Jobs`, the registry with its tools, observers and the sweep's part;
   `JobsProofs`. Done: checked, types and invariants proved.
8. *Steps*: tool settlement and retries within a step. Left: the step is one action of
   `SessionDrain`; its inside is a conversion of the provider's stream.
9. *Lifecycle*: the eviction of idle Locations, `KeyedMutex`, `SessionRevert`. Left:
   outcomes depend on clocks or on file snapshots outside the process.

Theorems wanted beside each: type invariant, main safety invariant, and the
refinement step by step where there is an abstract specification.

## 3. Modules

### Doorbell, RunCoordinator

`Doorbell` has, per key, the *demand* (scopes recorded that no drain has begun to
serve), what is being *served*, and the calls *made*. Ringing adds demand, a drain
begins by taking demand, an interrupt claims it, and each of the three happens
together with the call that asks for it: demand can neither appear nor vanish
silently. Its liveness (`Answered`) says demand is served or claimed.

`RunCoordinator` is `run-coordinator.ts`. `executions` is the `Map`; a record of
`fiber` is one `Execution` together with its forked fiber; `call` holds the calls
of the interface. One action per synchronous block:

| Action | Code |
|---|---|
| Wake, Run, Interrupt, AwaitIdle | the bodies of the four operations, each one synchronous `suspend`/`sync` |
| EnterStarted | the leading yield is over, the started hook runs |
| BeginDrain, DrainSucceeds, LoopAgain, LoopEnds | `loop` |
| Fails, Interrupted, Exit | the fiber's exit reaches the first `onExit`: `owner` is cleared, the settled hook runs |
| Settle | the second `onExit`: successor or deletion, `done` resolved, and what the waiters then do |
| Abandon | a caller that waits in run or awaitIdle is interrupted itself |

`demand` is the pending doorbell plus the scope of an execution whose drain has not
begun; `serving` the scope of the drain that runs; `made` the calls that took effect
(a run that waits for a stopping execution has not yet). Under that mapping
`RunCoordinator` implements `Doorbell`. An interrupt of an execution that is already
stopping leaves what was rung meanwhile (line 145): that is Doorbell's `Ignore`, although
the interface comment (line 17) only says that an interrupt clears the doorbell.

### InboxLedger, SessionInbox

`InboxLedger` knows pending rows, messages and cancellations and says in which
order rows may be delivered: a prompt in its mode's order and never past a
control enqueued before it, a steered compaction first unless a steered move lies
before it, queued rows only in queue order.

`SessionInbox` is `inbox.ts` with the projections of its four events. `inbox` and
`message` are the tables, `seq` the enqueue sequence, `lock` the per-Session lock
of `serialized`, `call` the requests (where each is, between two reads or a read
and a publish), `promoter` the runner's boundary or `promote`. Each database read
and each event transaction is one action; what the code does after a read without
awaiting is in the same action. Prompts and synthetics are admitted without the
lock (`Find`, `FindMessage`, `Publish`, `Refind`); compactions, moves and the
commands take it. `Recover` is the branch of `move.ts` that moves at once.
`Crash` keeps the tables and loses lock, calls and promoter.

A prompt's two reconciliations (before and after its preparation) are one pass: the
second repeats the reads of the first, and any interleaving of the first is one
with an earlier second. Payloads are left out: admission ignores a retry's payload.

### SessionDrain

`SessionDrain` EXTENDS `SessionInbox` and takes the coordinator as `Doorbell`.
`drain.at` are the points of `drain` and `advanceToStep` (see the module), its
other fields the function's variables. `Resume` is an explicit resume of an idle
Session, which forces a step; `BeginDrain` starts what was rung,
`CheckSteers`/`CheckQueued` are the two reads of the eager check, `Boundary` and
`Decided` the locked decision and what follows from it, `Compacted`,
`AfterIdleHook`, `Promote`, `Promoted`, `BeginStep`, `EndStep` the rest of the
loop, `Reload` a closed Location and `Reenter` the wrapper of `execution.ts`.
`Interrupt` is `execution.interrupt`, whose look at the inbox is
`ResumeSteers`/`ResumeQueued`; `Interrupted` takes effect only where the code is
interruptible. `unanswered` is a history variable: a prompt was delivered and no
step has begun since.

### SessionExecution

`SessionExecution` EXTENDS `RunCoordinator` and gives its hooks their contents.
`claimed` and `attempts` are the columns `time_suspended` (null or not) and
`resume_attempts` of the Session's row; `hook` says which lifecycle event a fiber has
published, `sweep` how far the restart sweep is with each Session, `process` whether
the server's scope is being closed. `Die` loses everything but the two columns.

| Action | Code |
|---|---|
| Prompt, Resume, Stop | wake, resume, interrupt of the service, while the process serves |
| EnterHook, Started, StartedFails | the started hook: Execution.Started and `store.claim` in one transaction, or its failure, which fails the execution |
| Drain, DrainMoves, Ends | the coordinator's loop between the hooks |
| ClosedDown | the scope's close interrupts a fiber without a reason, which `terminal` reads as a shutdown |
| Terminal, TerminalFails, Settles | the settled hook: the terminal event with `store.release` unless it is a shutdown's; a publication that fails is logged and the claim stays; then the coordinator settles |
| SweepLists | `execution.active` and `listSuspended` |
| SweepCounts, SweepExhausts, SweepNotices | `prepareResume`: `countResume`, then Execution.Failed with the release, or the restart notice |
| SweepResumes | the forked `execution.resume`, one call (`Sweeper[k]`) per Session |
| SweepFails | a publication of one preparation fails, the others are interrupted with it |
| Close, Die | teardown, and the end of the process and the start of its successor |

Each event of the bus is one transaction with its `commit` callback, so the event and
the column change together. Reading who is active and listing the claims is one
action: between the two the code awaits the database only, and the connection (not
modelled here) serves its users in turn, so the listing precedes the claim of anyone
who was idle. The sweep of a process runs beside its traffic, as
`server/src/process.ts:243-250` forks it.

`owed` and `resumed` are history variables: a drain of the key began and the turn is
not over; how often the sweep has restarted a claimed turn since its last terminal.

### Bus

`Bus` is `bus.ts`: `latest` and `owner` are the table `event_sequence`, `rows` the
table `event`, `lock` the per-aggregate `durableLocks`. An event is its place in the
log. `told`, `untold` and `given` are histories: what the live channel carried, what
it will never carry (a silent replay, or what an interruption cut off), and what each
reader was handed.

| Action | Code |
|---|---|
| Publish, PublishAll, Replay | lock and transaction: sequence checked and moved, rows stored; a commit hook may reserve numbers (forks, imports) |
| ReplayKnown, Claim | a replay of what is stored, or `claim`, only sets the owner |
| Wake | followers of the aggregate are woken |
| Listen, Tell | the listeners, then the live subscribers, event by event, still under the lock |
| Interrupt | the fiber that publishes a single event is interrupted after its transaction; a batch is masked from outside (`bus.ts:559`) |
| ListenerInterrupts | a listener interrupts: `observe` swallows failures only (`bus.ts:489`), so the rest of the notification, and of a batch, is skipped (`test/bus.test.ts:409`) |
| Remove | `remove`, which does not take the lock |
| Open, Target, ReadPage, ReadEnds | `log`: register for wakes, fix the target, read pages, Synced |
| TakeWake, CheckLatest | the follower's loop; wakes coalesce |
| Close, Reopen | the client goes, and comes back with the number of its last event |

### Jobs

`jobs`, `info` are the registry of `job.ts` (a *generation* is one started job, since
an id may be started again), `row` its durable table by notification, `told` the
notices in the conversation, `observers` the fibers of `subagent-job.ts` and
`subagent-completion.ts`, `sweep` the walk of `restart.ts` over the table.

| Action | Code |
|---|---|
| Launch, Background, Block, Notify | the shell and subagent tools: start (or join), background with a notification and a row, block, `notifyWhenDone` |
| InterruptTool, CancelJob, Stop | a stopped turn cancels the job it blocks on; a stopped child cancels the job that runs it |
| Settle | the run ends, the outcome is persisted if there is a notification, waiters learn it |
| BackgroundAll | `Session.background` on whatever blocks |
| Report, Acknowledge | an observer admits the notice, then `completeBackground` |
| SweepLists ... SweepObserves | the list, shells then children, running ones left alone; the rest reported, or restarted, backgrounded and observed |
| Die | everything but the table and the notices is lost |

`crossed` is a history variable: notifications that the sweep, which looks jobs up by
id, gave to another job than the one the row was written for.

### Permission, Form, Requests

`Permission` is `permission.ts`: `pending` the map, `deferred` each request's Deferred,
`asker` the tool calls in `assert` (Assert, Evaluate, Create, Asked, Released), `reply`
the calls of `reply` with what they hold across their awaits (Reply, Tell, Save,
Settle, then Visit and Reevaluate for the walk over the other requests), `closer` the
fiber in `close` (Close, CloseTells, CloseDeclines, CloseFails, CloseEnds). `Form` is
`form.ts`: `form` the cache, `settled` the Deferreds, `hand` whoever is between finding
a form pending and settling it (HandTells, HandSettles, HandFails), whether a person,
the call that takes its own form back or the shutdown. `asked`, `told`, `shown`,
`heard` are what the events told clients. Any publication may fail, up to a bound.

`Requests` composes them: the question tool asks for a permission and then with a form,
a shutdown closes permissions before forms, and the Location's scope closes again what
a failure left.

## 4. Runs

| Run | Question | Bounds |
|---|---|---|
| coordinator | one execution per key, map = fibers, waiters can be resolved; the coordinator implements Doorbell; every wake is answered, every call returns | 1 key, 2 fibers, 3 calls |
| inbox | exactly-once delivery in the ledger's order, one compaction, answers stay true | 2 prompts and both controls, ids reused across types, 3 callers, crashes |
| inbox_retry | *violation*: a retry of a delivered prompt succeeds | 1 id, 2 callers |
| drain_safety | nothing is stranded, queued prompts wait for the turn's end | 2 prompts, 2 callers, 1 stop, 1 explicit resume, 1 reload |
| drain_live | a steered and woken item is taken, every request is answered, the state keeps its types | a steered prompt and a second item of any type, 2 callers, 1 reload |
| drain_resume | *violation*: a delivered prompt needs no resumption | 2 ids, 1 caller, 1 stop |
| execution | a turn in flight is claimed, the sweep restarts it within its budget, every claim is released in the end | 1 key, 2 fibers, 2 callers, 3 deaths, 1 lost event, budget 2 |
| sweep_draining | *violation*: the sweep does not touch a draining turn | 1 key, 2 fibers, 2 callers, 1 death |
| bus | the live channel is ordered and skips only what an interruption or a silent replay excuses, readers miss nothing and catch up, copies have no gap | 1 aggregate, 2 writers, 1 reader, 3 events, 1 removal, pages of 1 |
| jobs | no promised notice is lost, outcomes are told truly, waiters have a job, the sweep is thorough, blockers return | 1 shell, 1 child, 2 tool calls, 3 jobs, 2 deaths |
| jobs_sweep | *violation*: running background work is not reported as lost | 1 shell or child, 1 tool call, no death |
| requests | waiters can be answered, releases were announced, cards are live, approvals grant what they cover | 2 tool calls, 2 users, 2 sessions, 3 resources, 1 fault |

### Findings

- `inbox_retry`: `specs/v2/session.md:9` calls reuse of an inbox id idempotent, also
  after delivery; a retry that loses the race to publish *and* whose item is
  delivered before it looks again is refused (`inbox.ts:213`).
- `drain_resume`: the comment at `execution.ts:160-162` says a delivered steer needs no
  resumption; a prompt delivered by `promote` whose drain is interrupted before the
  step begins is neither pending nor answered.
- `sweep_draining`: a test says "A live local turn holds a claim; the sweep must not
  count, continue, or terminalize it." (`test/session-execution.test.ts:366`). The
  sweep asks once who is active (`restart.ts:248`); a prompt that wakes a listed orphan
  afterwards has its turn counted, noticed or, over budget, failed and unclaimed while
  it drains.
- `jobs_sweep`: a test is named "preserves locally running background work"
  (`test/session-execution.test.ts:467`). The sweep reads the job table once
  (`restart.ts:224`) and asks for each row only whether that job runs *now*: a shell
  that this very process put in the background and that completes before its turn comes
  is reported as cancelled by the restart (`restart.ts:241`), under the notification id
  its real completion would have used.

### Bounds, and why they are enough

- *coordinator*: one key, as no step reads another key's entry (`Doorbell` and the
  proofs have any number); two executions, the least with a successor; three calls, so
  that a wake, a run or an interrupt meets a wait while another is being settled.
- *inbox*: both prompts and both controls in one inbox, so that every pair of kinds is
  ordered against each other; three callers let a retry, a command and a cancellation of
  one id overlap with the runner, and the process die under them.
- *drain_safety*, *drain_live*: two items are the least where one is decided on while
  another arrives. The first has prompts only, with an interrupt or a failure, a
  resume and a reload, which re-enters the drain with the transient state of the old one;
  the second controls and a reload without disturbances, as liveness promises
  nothing after one. Both leave out a third item, for which the proofs stand.
- *execution*: a budget of two and three deaths, so that a sweep counts, resumes, counts
  again and gives up; a caller prompts and another stops meanwhile. OwedIsClaimed is
  promised while deaths are fewer than the budget: a sweep that gives a turn up releases
  its claim whatever became of the turn (`sweep_draining`). One lost event shows the
  one restart that BudgetHolds allows beyond the budget.
- *bus*: NothingIsSkipped excuses what an interruption cuts off, as the code does; every
  other way to lose an event is still open to it. One aggregate, as locks, tables and
  followers are per aggregate; two writers contend for its lock; numbers up to 2 let a
  page, a gap and a reserved number occur, and a removal restarts the numbering. One row
  per page splits every longer read.
- *jobs*: a shell and a child with two tool calls, so that one joins, replaces, blocks on
  or backgrounds what the other started; three jobs allow an id to be used again after
  the restart has started one of its own. The second death comes over what the first
  restart left half done; it is what the last exception of OutcomeIsTold is about: a
  sweep that gives a child up tells so, releases its claim and resets its attempts
  (`restart.ts:86-90`), and removes the row only then (`subagent-completion.ts:45`). If it
  dies in between, the next sweep counts from one, resumes the child under the same
  notification, and how the child ends meets a notice already admitted.
- *requests*: two calls and two people are the least where replies and walks overlap;
  three resources have one that rules allow, one approved for good and one that is not.
  `QuestionsApart` keeps the parts apart where they do not interact: questions are
  asked and forms closed only where rules gave every permission (who gave it makes no
  difference to a form), and publications fail with one form at most.

## 5. Fairness

The runtime keeps scheduling fibers that can run, so each fiber's next step is
weakly fair (`WF`), hooks and drains are assumed to end (a drain that never ends
keeps its waiters waiting, as it should), and nobody is obliged to call, cancel,
interrupt, fail or reload. A waiter of the inbox lock is served in order by the
semaphore, which `SF` on `Acquire` states without modelling the queue. The sweep is a
forked fiber and as fair as the others, and a process whose scope is being closed ends;
nobody is obliged to close it, to die, or to lose an event.

On the bus each publication that began goes on, and so does a reader as long as it has
something to do; nobody is obliged to publish or to read on after an end. In `Jobs` a run
ends in the end (BlockersReturn is about the waiters, which wait for exactly that).
`Requests` has no fairness: nobody is obliged to answer, so that what is shown is that a
waiting call *can* be answered or released.

## 6. Proofs

`RunCoordinatorProofs` (any sets of keys, fibers and calls): TypeOK,
ExecutionsOwnFibers, OneExecutionPerKey, WaitersWillBeResolved, and that the module
implements the safety of `Doorbell`. The inductive invariant is TypeOK with
ExecutionsOwnFibers: without it, a settling fiber could delete another's map entry,
so OneExecutionPerKey alone is not inductive. The refinement proof goes action by
action; `Settle` with a successor and `LoopAgain` stutter there because recorded
demand only changes the place it is kept in. For the calls made it also needs that a
call not yet made has no operation (`NewIsBlank`) and that only waiting calls are on an
execution (`OnlyWaitersWait`), both proved inductive.

`SessionInboxProofs` (any ids, callers and requests): TypeOK, PendingOrDelivered,
OneCompaction, AnswersAreKept, and that the module implements `InboxLedger`. The
invariant of the first four adds: who is at a locked program point
holds the lock (`LockHeld`); while a caller holds the lock after having seen no
compaction, none is pending (`NoneSeen`), which is what the check-then-publish of
`admitCompaction` rests on; an answer names an item (`AnswersNameItems`). Most
actions enqueue nothing, and one lemma about such steps serves them all. For the
refinement, what the runner decided on must still be due when it acts, several steps
later (`BatchIsDue`, `ControlIsDue`): rows that enter meanwhile come behind all others
(`RowsAreOrdered`), a compaction that would have to go first cannot be admitted, and
whoever removes or redelivers a row needs the lock the runner holds. Every step then
admits, cancels, redelivers or delivers in the ledger, or stutters; so a row leaves only
as a message of its type, by a cancellation or as a move, and no message is rewritten
(`ItemsConserved`).

`SessionExecutionProofs` (any keys, fibers, calls, budget, deaths and lost events):
TurnTypeOK, BudgetHolds and OwedIsClaimed. Every step is a step of the coordinator, an exit or a new
process, so the coordinator's invariant carries over. The budget is not inductive
alone: a terminal of an execution that a prompt started can reset the counter after the
sweep has counted and before it resumes. The invariant therefore says that the resume
still due fits (`DueFits`: it was counted, or the turn's counters were reset), and that
without lost events a claim taken after such a reset belongs to an execution that is
still there (`FreshClaims`), so that the due resume joins it and restarts nothing; the
latter needs that an interruption has a reason while the process serves
(`ReasonsAttached`). For OwedIsClaimed the hooks keep step with the coordinator's phases
(`HooksMatch`): from the claim to the terminal event an execution that has started holds
the claim (`HeldWhileStarted`), and one that is settling has ended its turn unless the
process was closing (`OverWhenSettling`). Only a sweep takes a claim away besides, and it
gives up only after as many deaths as the budget has attempts (`ExhaustsLate`), as each
process counts a key once (`AttemptsBounded`).
What ClaimsAreReleased rests on is proved as an invariant: while the process serves and
no event was lost, a claimed Session has an execution that has yet to publish its
terminal, or the sweep has yet to list the claims or has it on its list
(`NoClaimIsForgotten`). Each step of the shell is a step of the coordinator, the close of
a fiber or a death (`TurnSteps`), so the coordinator's promises hold inside it
(`ExecutionKeepsCoordinator`), and until the close it takes only the doorbell's steps
(`ExecutionIsDoorbell`): no hook, failure or sweep makes a wake disappear.

`SessionDrainProofs` (any ids, callers, requests, stops, reloads): DrainTypeOK,
NoStrandedInput, QueuedWaits. In the midst of a drain rows are pending that nobody will
wake the Session for, so the invariant says what the drain still does about them: with
nothing interrupted and no wake of full scope rung, a row is owed a wake by its caller
or a drain of full scope will come to it, which after the look at the steers means that
it is queued (`Guarded`). A decision is what the rows were when it was taken, because
whoever takes or changes rows holds the lock (`RowsHeld`, from `LockHeld` of the inbox);
a prompt that enters without the lock is owed its wake. A delivered prompt is taken up
by a step before the runner is back in the inbox (`Answers`), which gives the last part
of QueuedWaits. That the rows have an oldest needs no well-ordering of their numbers: a
row enters behind all others or leaves, so it is an invariant (`RowsOrdered`).
The drain also implements the specifications of the inbox (`DrainUsesInbox`) and of the
doorbell (`DrainUsesDoorbell`): each of its steps is one of theirs or changes nothing
there, which needs that a drain under way has a scope (`HasScope`). What is proved of the
inbox thus holds under drains, interrupts, failures and reloads (`DrainKeepsLedger`).
`ResumptionLeavesNoSteer` is the interrupt that resumes: once its look at the inbox is
over, a Session asleep with nothing rung has no steered row but those whose callers have
yet to wake it. Its invariant (`ResumeGuarded`) follows the steered rows through the
look: what lies there when it begins is found by it or taken by a drain that passes the
boundary, and what enters during the look is owed a wake by its caller. It is stated for
one interrupt and no failure, since either may stop what the interrupt rang for.

`BusProofs` (any aggregates, writers, readers, pages and batches): BusTypeOK,
NothingIsSkipped, LogIsComplete, CopyHasNoGap, ToldInOrder. The invariant adds: who is
idle holds no lock and who tells has something to tell (`WritersAreBusy`); rows lie in
the numbers given out (`RowsInRange`); what was told precedes what the lock's holder has
yet to tell, whose batch is in order and next (`ToldIsPast`, `BatchInOrder`,
`BatchIsNext`); and a reader of the present log was given exactly the rows up to its
cursor, and claims to be synced only when it owes none (`ReadersAreRight`).
`WakesAreKept` is the safety half of ReadersCatchUp: a follower that waits although the
log has more for it has been woken, or a fiber that committed is about to wake it. Its
invariant (`ReadersAreAlert`) says of every point of a stream what it has already seen:
it registers for wakes before it fixes its target, so no commit falls between the two.

`PermissionProofs` and `RequestsProofs` (any calls, people, sessions, resources and
faults): the types; WaitersArePending, ReleasedWasTold, CardsAreLive, GrantsAreCovered and
PermitsAreGrounded; FormWaitersArePending, EndsAreHeard and FormCardsAreLive. The
invariants add what the fibers hold across their awaits (`AskersHold`, `RepliesHold`,
`HandsHold`): what a reply is about to settle its clients know of; what an approval
settles it covers (`ApprovalsCover`); a request clients know of is let go only after they
are told so (`AnnouncedAreLive`); a form's cache and Deferred settle together
(`SettledTogether`); and the list of whoever closes has everybody still to be let go
(`CloseIsThorough`, `ShutdownHasAll`). A call is permitted by the rules, by a saved
approval, or by a grant that was announced (`GrantsWereTold`, for PermitsAreGrounded).
Each step of `Requests` is one step of each part or changes nothing there
(`PartsAreSteps`), so the composition implements both specifications
(`PermissionsKeepTheirPromises`, `FormsKeepTheirPromises`) and inherits every property
the run checks on it (`RequestsAreSafe`). What only the composition promises needs an
invariant of its own (`TogetherInv`: a call does one thing at a time, its result is
final, forms are closed after permissions): a form exists only where its call was
permitted (`QuestionsNeedAPermission`), and a shutdown that is through leaves no call
waiting for a person (`ShutdownLeavesNobody`).

`JobsProofs` (any shells, children, tool calls, generations and deaths): JobsTypeOK,
NoNoticeIsLost, WaitersHaveAJob, OutcomeIsTold, SweepIsThorough. The invariant says that a job that runs is the current
one of its id (`Registry`), that whoever blocks or waits does so for a running job of the
id it asked for (`CallsOK`, `ObserversOK`: settling and backgrounding release them in the
same step), and that an observer or a sweep that is about to take a row out of the
table has admitted its notice (`ObserversOK`, `SweepOK`).
What the conversation is told needs a second invariant, `ToldInv`, which follows a
notification through several jobs of a child: jobs, table, observers and conversation
agree on how it ended, and while one of its jobs runs it has not (`Agree`); the jobs of
one notification have one id, so at most one runs (`OneId`); what an earlier process left
and the sweep has yet to handle nobody of this process touches, so that the sweep's old
listing of it is still true (`LeftBehind`, `SweepIsPast`); and what it has handled is
skipped, crossed, done with or observed (`Handled`).
The registry gives that an id has one running job at most (`JobsDoNotOverlap`), and the
same invariant two action properties: no step removes a row whose notice is not admitted,
nor rewrites a notice (`RowsOutliveTheirNotice`), and an ended job does not run again, nor
does a job change its id, its notification or leave the background (`JobsAreFinal`).

Assumptions: `None` is no other value, the runner is no caller, requests have the
shape the interface gives them, each key has a sweeper's call of its own, shells are not
children, callers are not the shutdown, the n-th interrupt is none of the inbox's
callers, permissions and forms have the same calls and people, the bounds are natural
numbers; nothing is assumed finite.

Only model-checked: all liveness (WorkIsAnswered, CallsReturn, RequestsReturn,
SteersAreTaken, ClaimsAreReleased, ReadersCatchUp, BlockersReturn): liveness and ENABLED
are out of the prover's reach. For most of them the safety they rest on is proved, that
somebody is left whose fair step brings the answer: CoordinatorIsDoorbell with
WaitersWillBeResolved, NoStrandedInput for SteersAreTaken, NoClaimIsForgotten for
ClaimsAreReleased, NoWakeIsLost for ReadersCatchUp, WaitersHaveAJob for BlockersReturn.

The type invariants of the coordinator and the inbox are checked as part of TurnTypeOK
and DrainTypeOK, whose modules extend theirs, and proved in their own.

## 7. Not modelled, and simplifications

- Interruption of a caller inside an inbox operation is only modelled as the crash
  of everybody. Most Session operations mask it except while input is prepared;
  `compact` (`session.ts:259`) and `move` (`move.ts:119`) do not, between admission and
  wake. For safety such a caller is one that has yet to wake (`MayWake`); for liveness it
  is left out: callers wake in the end, and SteersAreTaken promises woken rows only.
- Callers that ask not to be woken for (`resume: false`), staged reverts (which
  suppress the wake of a synthetic item), several Sessions in one inbox (the tables
  and locks are per Session), payloads, titles, the step counter.
- `SessionDrain` covers one process lifetime; the recovery branch of a move is taken
  without asking whether the coordinator is active, which only adds behaviours.
- `SessionExecution` takes a drain as the coordinator does, without the inbox. Background
  jobs, the recovery of child Sessions and the cancellation of a stopped child's job are
  in `Jobs`; `releaseChildClaims` and the deletion of a Session while it is swept are in
  neither.
- `Bus`: the routing of events to a Location's typed subscribers, event types this build
  does not know, and what the projectors and commit hooks write.
- `Permission`: requests nobody waits for (`ask`), the read-only questions, how rules
  match (a rule allows a resource or does not), rules that change meanwhile, plugins
  that allow, the editing of saved approvals. Two replies may both be announced for one
  request; only one settles it.
- `Form`: forms created without a call that waits, validation, expiry. `create` that races
  a close may end its call with a defect (`form.ts:146`), which the model has.
- `Jobs`: `cancelSession` and the removal of a Session, the eviction of consumed jobs,
  timed waits, image jobs, and the events of `prepareResume` for children. Whether a
  child is active and whether its budget is used up is left open. The map and the table
  change together, as `modifyEffect` holds its lock across the write; a run is
  interrupted only by a cancellation or by the end of the process; `BackgroundAll` may
  leave out any blocker of a job that continues another, the one whose count an earlier
  blocker took away (`job.ts:352`) among them.
- Components listed in section 1 and not in section 3; section 2 says in which
  order they follow.
