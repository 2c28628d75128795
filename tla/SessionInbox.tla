----------------------------- MODULE SessionInbox -----------------------------
(***************************************************************************)
(* One Session's inbox (core/src/session/inbox.ts): durable admission with *)
(* caller-chosen ids, the pending-input commands, and the promotion that   *)
(* turns pending rows into transcript messages at a step boundary.         *)
(*                                                                         *)
(* Every query of the code is awaited, so each read is an action of its    *)
(* own; a published event and its projection commit in one transaction, so *)
(* each publication is one action. Prompts and synthetic inputs are        *)
(* admitted WITHOUT the inbox lock, everything else runs under it.         *)
(***************************************************************************)
EXTENDS Naturals, FiniteSets

CONSTANTS IDs,       \* inbox item ids
          Callers,   \* identities for requests, each made at most once
          Requests,  \* the requests callers may make
          Runner,    \* the runner, as a holder of the inbox lock
          None       \* undefined

Prompts == {"user", "synthetic"}
Controls == {"compaction", "move"}
Types == Prompts \cup Controls
Deliveries == {"steer", "queue"}
Scopes == {"steer", "input"}
Commands == {"cancel", "steer", "queue"}

Request ==
  [op : Types, id : IDs, delivery : Deliveries] \cup [op : Commands, id : IDs]

ASSUME InboxAssumption ==
  /\ Requests \subseteq Request
  /\ None \notin IDs \cup Callers \cup Types \cup Scopes \cup {Runner}
  /\ None \notin [type : Types, delivery : Deliveries, seq : Nat]
  /\ None \notin [id : IDs, type : Types, delivery : Deliveries]
  /\ Runner \notin Callers

VARIABLES inbox,      \* the session_inbox table: id -> row, or None
          message,    \* the types of the session_message rows that have an inbox id
          cancelled,  \* the ids an InboxCancelled event has removed
          seq,        \* the enqueued_seq of the last admission
          lock,       \* holder of the Session's entry of inboxLocks, or None
          call,       \* what each caller asked and how far it is
          promoter    \* the runner inside a boundary decision or a promotion

tables == <<inbox, message, cancelled, seq>>
vars == <<tables, lock, call, promoter>>

-------------------------------------------------------------------------------
Row == [type : Types, delivery : Deliveries, seq : Nat]

CallPoints ==
  {"new", "lock", "exact", "promoted", "pending", "find", "message", "publish",
   "refind", "mutate", "ok", "conflict", "lost"}

Call == [request : Requests \cup {None}, at : CallPoints, got : IDs \cup {None}]

NewCall == [request |-> None, at |-> "new", got |-> None]

(* What a boundary decides on: a snapshot of the row. *)
Promotion == [id : IDs, type : Types, delivery : Deliveries]

(* task is the operation; scope its argument; next the row the boundary    *)
(* decided on; batch the rows a promotion read and has not published, with *)
(* the order it read them in; late whether steers are still to be re-read; *)
(* outcome what the last finished operation returned.                      *)
Promoter ==
  [task : {"boundary", "promote", None},
   at : {"idle", "lock", "steers", "queued", "deliver", "publish"},
   scope : Scopes \cup {None},
   next : Promotion \cup {None},
   batch : SUBSET (IDs \X Nat),
   late : BOOLEAN,
   outcome : {"none", "item", "control", "died", None}]

IdlePromoter ==
  [task |-> None, at |-> "idle", scope |-> None, next |-> None, batch |-> {},
   late |-> FALSE, outcome |-> None]

Init ==
  /\ inbox = [i \in IDs |-> None]
  /\ message = [i \in IDs |-> None]
  /\ cancelled = {}
  /\ seq = 0
  /\ lock = None
  /\ call = [c \in Callers |-> NewCall]
  /\ promoter = IdlePromoter

-------------------------------------------------------------------------------
Pending == {i \in IDs : inbox[i] # None}
Mode(d) == {i \in Pending : inbox[i].delivery = d}
Steers == Mode("steer")
Queued == Mode("queue")
Oldest(i, S) == i \in S /\ \A j \in S : inbox[i].seq <= inbox[j].seq
IsControl(i) == inbox[i].type \in Controls
ControlsIn(S) == {i \in S : IsControl(i)}

(* pendingSteers: a compaction that is the first steered control moves to  *)
(* the front of the steers.                                                *)
CompactFirst(S) ==
  \E k \in S : Oldest(k, ControlsIn(S)) /\ inbox[k].type = "compaction"

Head(i, S) == Oldest(i, IF CompactFirst(S) THEN ControlsIn(S) ELSE S)

(* beforeControl, on the steers in that order. *)
BeforeControl(S) ==
  IF CompactFirst(S) THEN {}
  ELSE {i \in S : \A k \in ControlsIn(S) : inbox[i].seq < inbox[k].seq}

Snapshot(S) == {<<i, inbox[i].seq>> : i \in S}

-------------------------------------------------------------------------------
(* Admission and the pending-input commands.                               *)

Locked(r) == r.op \notin Prompts

(* A move's id is created for it; every other id may be chosen by a client.*)
Fresh(i) ==
  /\ i \notin Pending /\ message[i] = None /\ i \notin cancelled
  /\ \A c \in Callers : call[c].request # None => call[c].request.id # i

Begin(c, r) ==
  /\ call[c].at = "new"
  /\ r.op = "move" => Fresh(r.id)
  /\ call' = [call EXCEPT ![c] = [request |-> r, got |-> None,
                                  at |-> IF Locked(r) THEN "lock" ELSE "find"]]
  /\ UNCHANGED <<tables, lock, promoter>>

At(c, pc) == call[c].at = pc
Asked(c) == call[c].request
Goto(c, pc) == call' = [call EXCEPT ![c].at = pc]

(* Mutant: a conflict under the lock leaves it held. *)
ReplyLeaksLock(c, answer, i) ==
  /\ call' = [call EXCEPT ![c].at = answer, ![c].got = i]
  /\ lock' = IF lock = c /\ answer = "ok" THEN None ELSE lock

(* The call returns, and gives the lock back if it holds it. *)
Reply(c, answer, i) ==
  /\ call' = [call EXCEPT ![c].at = answer, ![c].got = i]
  /\ lock' = IF lock = c THEN None ELSE lock

EntryPoint(r) ==
  IF r.op \in Commands THEN "mutate" ELSE IF r.op = "compaction" THEN "exact" ELSE "find"

(* Mutant: manual compaction is admitted outside the lock. *)
AcquireShared(c) ==
  /\ At(c, "lock")
  /\ IF Asked(c).op = "compaction" THEN UNCHANGED lock ELSE lock = None /\ lock' = c
  /\ Goto(c, EntryPoint(Asked(c)))
  /\ UNCHANGED <<tables, promoter>>

Acquire(c) ==
  /\ At(c, "lock")
  /\ lock = None
  /\ lock' = c
  /\ Goto(c, EntryPoint(Asked(c)))
  /\ UNCHANGED <<tables, promoter>>

(* matches, for a row or a message of type t already holding the id. *)
Matches(c, t) == t = Asked(c).op

(* reconcile, first read: the pending row of the id. *)
Find(c) ==
  /\ At(c, "find")
  /\ LET i == Asked(c).id IN
     IF i \notin Pending
     THEN Goto(c, "message") /\ UNCHANGED lock
     ELSE IF inbox[i].type # "compaction" /\ Matches(c, inbox[i].type)
     THEN Reply(c, "ok", i)
     ELSE Reply(c, "conflict", None)
  /\ UNCHANGED <<tables, promoter>>

(* reconcile, second read: promotedFromMessage. *)
FindMessage(c) ==
  /\ At(c, "message")
  /\ LET i == Asked(c).id IN
     IF message[i] = None
     THEN Goto(c, "publish") /\ UNCHANGED lock
     ELSE IF message[i] \in Prompts /\ Matches(c, message[i])
     THEN Reply(c, "ok", i)
     ELSE Reply(c, "conflict", None)
  /\ UNCHANGED <<tables, promoter>>

Row1(r) == [type |-> r.op, delivery |-> r.delivery, seq |-> seq + 1]

(* Mutant: the projector checks the inbox table only. *)
PublishUnchecked(c) ==
  /\ At(c, "publish")
  /\ LET r == Asked(c) IN
     IF r.id \in Pending
     THEN Goto(c, "refind") /\ UNCHANGED <<tables, lock>>
     ELSE /\ inbox' = [inbox EXCEPT ![r.id] = Row1(r)]
          /\ seq' = seq + 1
          /\ Reply(c, "ok", r.id)
          /\ UNCHANGED <<message, cancelled>>
  /\ UNCHANGED promoter

(* Publish InboxEnqueued. projectAdmitted aborts the transaction when the  *)
(* id has a message or a row; the caller then looks for the row.           *)
Publish(c) ==
  /\ At(c, "publish")
  /\ LET r == Asked(c) IN
     IF r.id \in Pending \/ message[r.id] # None
     THEN Goto(c, "refind") /\ UNCHANGED <<tables, lock>>
     ELSE /\ inbox' = [inbox EXCEPT ![r.id] = Row1(r)]
          /\ seq' = seq + 1
          /\ Reply(c, "ok", r.id)
          /\ UNCHANGED <<message, cancelled>>
  /\ UNCHANGED promoter

(* Mutant: the row found after a conflict is answered without matches. *)
RefindUnmatched(c) ==
  /\ At(c, "refind")
  /\ IF Asked(c).id \in Pending
     THEN Reply(c, "ok", Asked(c).id)
     ELSE Reply(c, "conflict", None)
  /\ UNCHANGED <<tables, promoter>>

Refind(c) ==
  /\ At(c, "refind")
  /\ LET i == Asked(c).id IN
     IF i \in Pending /\ Matches(c, inbox[i].type)
     THEN Reply(c, "ok", i)
     ELSE Reply(c, "conflict", None)
  /\ UNCHANGED <<tables, promoter>>

(* admitCompaction: the row of exactly this id, then its message, then any *)
(* pending compaction, and only then the common admission.                 *)
FindExact(c) ==
  /\ At(c, "exact")
  /\ LET i == Asked(c).id IN
     IF i \notin Pending
     THEN Goto(c, "promoted") /\ UNCHANGED lock
     ELSE IF inbox[i].type = "compaction"
     THEN Reply(c, "ok", i)
     ELSE Reply(c, "conflict", None)
  /\ UNCHANGED <<tables, promoter>>

FindPromoted(c) ==
  /\ At(c, "promoted")
  /\ IF message[Asked(c).id] = None
     THEN Goto(c, "pending") /\ UNCHANGED lock
     ELSE Reply(c, "conflict", None)
  /\ UNCHANGED <<tables, promoter>>

FindPending(c) ==
  /\ At(c, "pending")
  /\ \/ \E i \in Pending : inbox[i].type = "compaction" /\ Reply(c, "ok", i)
     \/ /\ \A i \in Pending : inbox[i].type # "compaction"
        /\ Goto(c, "find") /\ UNCHANGED lock
  /\ UNCHANGED <<tables, promoter>>

(* cancel, steer and queue: one event, whose projector dies unless exactly *)
(* one row of the id is in the delivery mode the command starts from.      *)
From(op) == IF op = "cancel" THEN Deliveries ELSE Deliveries \ {op}

Mutate(c) ==
  /\ At(c, "mutate")
  /\ LET i == Asked(c).id  op == Asked(c).op IN
     IF i \in Pending /\ inbox[i].delivery \in From(op)
     THEN /\ IF op = "cancel"
             THEN /\ inbox' = [inbox EXCEPT ![i] = None]
                  /\ cancelled' = cancelled \cup {i}
             ELSE /\ inbox' = [inbox EXCEPT ![i].delivery = op]
                  /\ UNCHANGED cancelled
          /\ Reply(c, "ok", i)
          /\ UNCHANGED <<message, seq>>
     ELSE Reply(c, "conflict", None) /\ UNCHANGED tables
  /\ UNCHANGED promoter

(* SessionMove.move when the source Location is gone and no execution is   *)
(* active, which this module leaves open: instead of being admitted the    *)
(* move happens at once, in one transaction with the cancellation of every *)
(* move still pending.                                                     *)
Recover(c) ==
  /\ At(c, "find") /\ Asked(c).op = "move"
  /\ LET moves == {i \in Pending : inbox[i].type = "move"} IN
     /\ inbox' = [i \in IDs |-> IF i \in moves THEN None ELSE inbox[i]]
     /\ cancelled' = cancelled \cup moves
  /\ Reply(c, "ok", None)
  /\ UNCHANGED <<message, seq, promoter>>

CallerStep(c) ==
  \/ Acquire(c) \/ Find(c) \/ FindMessage(c) \/ Publish(c) \/ Refind(c)
  \/ FindExact(c) \/ FindPromoted(c) \/ FindPending(c) \/ Mutate(c) \/ Recover(c)

-------------------------------------------------------------------------------
(* The runner's side: nextPromotable and the delivery of a control under   *)
(* one lock (the boundary), and promote.                                   *)

StartTask(task, scope) ==
  /\ promoter.at = "idle"
  /\ promoter' = [IdlePromoter EXCEPT !.task = task, !.scope = scope, !.at = "lock"]
  /\ UNCHANGED <<tables, lock, call>>

AcquireRunner ==
  /\ promoter.at = "lock"
  /\ lock = None
  /\ lock' = Runner
  /\ promoter' = [promoter EXCEPT !.at = "steers"]
  /\ UNCHANGED <<tables, call>>

(* The operation ends: its lock is released and its outcome is known; next *)
(* is the row a boundary decided on.                                       *)
Finish(outcome, next) ==
  /\ promoter' = [IdlePromoter EXCEPT !.next = next, !.outcome = outcome]
  /\ lock' = None

(* The boundary decided on row i: a control is delivered before the lock   *)
(* is released, anything else is only reported.                            *)
Decide(i) ==
  LET next == [id |-> i, type |-> inbox[i].type, delivery |-> inbox[i].delivery] IN
  IF IsControl(i)
  THEN promoter' = [promoter EXCEPT !.at = "deliver", !.next = next] /\ UNCHANGED lock
  ELSE Finish("item", next)

ThenQueued == promoter' = [promoter EXCEPT !.at = "queued"] /\ UNCHANGED lock

BoundarySteers ==
  /\ promoter.at = "steers" /\ promoter.task = "boundary"
  /\ \/ \E i \in Steers : Head(i, Steers) /\ Decide(i)
     \/ Steers = {} /\ promoter.scope = "input" /\ ThenQueued
     \/ Steers = {} /\ promoter.scope = "steer" /\ Finish("none", None)
  /\ UNCHANGED <<tables, call>>

BoundaryQueued ==
  /\ promoter.at = "queued" /\ promoter.task = "boundary"
  /\ \/ \E i \in Queued : Oldest(i, Queued) /\ Decide(i)
     \/ Queued = {} /\ Finish("none", None)
  /\ UNCHANGED <<tables, call>>

(* Mutant: every delivered row, moves included, becomes a message. *)
DeliverEveryRow(i) ==
  /\ inbox' = [inbox EXCEPT ![i] = None]
  /\ message' = [message EXCEPT ![i] = inbox[i].type]
  /\ UNCHANGED <<cancelled, seq>>

(* projectDelivered and the message insert of the same transaction. *)
Deliver(i) ==
  /\ inbox' = [inbox EXCEPT ![i] = None]
  /\ message' = [message EXCEPT ![i] = IF inbox[i].type = "move" THEN @ ELSE inbox[i].type]
  /\ UNCHANGED <<cancelled, seq>>

(* publishAll of InboxDelivered with Compaction.Started or Moved; it dies  *)
(* when the row is gone.                                                   *)
DeliverControl ==
  /\ promoter.at = "deliver"
  /\ IF promoter.next.id \in Pending
     THEN Deliver(promoter.next.id) /\ Finish("control", promoter.next)
     ELSE UNCHANGED tables /\ Finish("died", None)
  /\ UNCHANGED call

StartPublishing(S, late) ==
  /\ promoter' = [promoter EXCEPT !.at = "publish", !.batch = Snapshot(S), !.late = late]
  /\ UNCHANGED lock

(* Mutant: promote looks for a control only where it comes in enqueue order.*)
PromoteOldest ==
  /\ promoter.at = "steers" /\ promoter.task = "promote"
  /\ \/ Steers = {} /\ promoter.scope = "input" /\ ThenQueued
     \/ \E i \in Steers : Oldest(i, Steers) /\ IsControl(i) /\ Finish("control", None)
     \/ /\ IF Steers = {} THEN promoter.scope = "steer"
           ELSE \E i \in Steers : Oldest(i, Steers) /\ ~IsControl(i)
        /\ StartPublishing({i \in Steers : \A k \in ControlsIn(Steers) :
                                inbox[i].seq < inbox[k].seq}, FALSE)
  /\ UNCHANGED <<tables, call>>

PromoteSteers ==
  /\ promoter.at = "steers" /\ promoter.task = "promote"
  /\ \/ Steers = {} /\ promoter.scope = "input" /\ ThenQueued
     \/ \E i \in Steers : Head(i, Steers) /\ IsControl(i) /\ Finish("control", None)
     \/ /\ IF Steers = {} THEN promoter.scope = "steer"
           ELSE \E i \in Steers : Head(i, Steers) /\ ~IsControl(i)
        /\ StartPublishing(BeforeControl(Steers), FALSE)
  /\ UNCHANGED <<tables, call>>

PromoteQueued ==
  /\ promoter.at = "queued" /\ promoter.task = "promote"
  /\ \/ Queued = {} /\ Finish("none", None)
     \/ \E i \in Queued : /\ Oldest(i, Queued)
                          /\ IF IsControl(i) THEN Finish("control", None)
                             ELSE StartPublishing({i}, TRUE)
  /\ UNCHANGED <<tables, call>>

(* Publish InboxDelivered for the next row of the batch, in the order the  *)
(* batch was read. A row that is gone is skipped if its message exists.    *)
PublishNext ==
  /\ promoter.at = "publish"
  /\ \E r \in promoter.batch :
       /\ \A q \in promoter.batch : r[2] <= q[2]
       /\ LET i == r[1] IN
          IF i \in Pending \/ message[i] \in Prompts
          THEN /\ IF i \in Pending THEN Deliver(i) ELSE UNCHANGED tables
               /\ promoter' = [promoter EXCEPT !.batch = @ \ {r}, !.outcome = "item"]
               /\ UNCHANGED lock
          ELSE Finish("died", None) /\ UNCHANGED tables
  /\ UNCHANGED call

(* After the queued row, the steers that arrived meanwhile. *)
PublishLate ==
  /\ promoter.at = "publish" /\ promoter.batch = {} /\ promoter.late
  /\ promoter' = [promoter EXCEPT !.batch = Snapshot(BeforeControl(Steers)),
                                  !.late = FALSE]
  /\ UNCHANGED <<tables, lock, call>>

PublishDone ==
  /\ promoter.at = "publish" /\ promoter.batch = {} /\ ~promoter.late
  /\ Finish(IF promoter.outcome = "item" THEN "item" ELSE "none", None)
  /\ UNCHANGED <<tables, call>>

PromoterStep ==
  \/ AcquireRunner \/ BoundarySteers \/ BoundaryQueued \/ DeliverControl
  \/ PromoteSteers \/ PromoteQueued \/ PublishNext \/ PublishLate \/ PublishDone

(* The execution is interrupted inside a promotion, or before a move that  *)
(* it is about to publish; the rest of the boundary is uninterruptible.    *)
InterruptRunner ==
  /\ \/ promoter.at # "idle" /\ promoter.task = "promote"
     \/ promoter.at = "deliver" /\ promoter.next.type = "move"
  /\ promoter' = [IdlePromoter EXCEPT !.outcome = "died"]
  /\ lock' = IF lock = Runner THEN None ELSE lock
  /\ UNCHANGED <<tables, call>>

(* The process dies: the tables survive, the lock, the callers and the     *)
(* runner do not.                                                          *)
Crash ==
  /\ lock' = None
  /\ promoter' = IdlePromoter
  /\ call' = [c \in Callers |->
                IF call[c].at \in {"new", "ok", "conflict", "lost"} THEN call[c]
                ELSE [call[c] EXCEPT !.at = "lost"]]
  /\ UNCHANGED tables

Next ==
  \/ \E c \in Callers : CallerStep(c) \/ \E r \in Requests : Begin(c, r)
  \/ \E scope \in Scopes, task \in {"boundary", "promote"} : StartTask(task, scope)
  \/ PromoterStep \/ InterruptRunner \/ Crash

Spec == Init /\ [][Next]_vars

-------------------------------------------------------------------------------
(* The inbox and message tables, the lock and every program point have     *)
(* their type.                                                             *)
TypeOK ==
  /\ inbox \in [IDs -> Row \cup {None}]
  /\ message \in [IDs -> (Types \ {"move"}) \cup {None}]
  /\ cancelled \subseteq IDs
  /\ seq \in Nat
  /\ lock \in Callers \cup {Runner, None}
  /\ call \in [Callers -> Call]
  /\ promoter \in Promoter

(* An item is never both pending and in the transcript, so no promotion    *)
(* delivers it twice, however late its retries publish.                    *)
PendingOrDelivered ==
  \A i \in IDs : inbox[i] = None \/ message[i] = None

(* At most one compaction is pending (admitCompaction).                    *)
OneCompaction ==
  \A i, j \in Pending :
    inbox[i].type = "compaction" /\ inbox[j].type = "compaction" => i = j

(* A successful answer is about an item that really was admitted, as the   *)
(* type the caller asked for: it is pending or in the transcript as that,  *)
(* unless somebody cancelled it.                                           *)
Answered(c) == call[c].at = "ok" /\ Asked(c).op \in Types \ {"move"}

Kept(i, t) ==
  \/ i \in Pending /\ inbox[i].type = t
  \/ message[i] = t
  \/ i \in cancelled

AnswersAreKept ==
  \A c \in Callers : Answered(c) => Kept(call[c].got, Asked(c).op)

(* The inbox is the ledger callers are promised: every event is one of the *)
(* ledger's and rows are delivered in their turn.                          *)
Ledger == INSTANCE InboxLedger
LedgerSafe == Ledger!Spec

(* Every request is answered, unless the process dies under it: nobody     *)
(* keeps the per-Session lock.  Checked where it is contended, in the drain*)
RequestsReturn ==
  \A c \in Callers :
    call[c].at # "new" ~> call[c].at \in {"ok", "conflict", "lost"}

(* specs/v2/session.md: reusing a user or synthetic inbox item id is       *)
(* idempotent when the type matches. A prompt whose id was only ever       *)
(* requested as the same type and never cancelled is not refused.          *)
RetryIsIdempotent ==
  \A c \in Callers :
    (Asked(c) # None /\ Asked(c).op \in Prompts /\ Asked(c).id \notin cancelled
     /\ \A d \in Callers : (Asked(d) # None /\ Asked(d).id = Asked(c).id) => Asked(d).op = Asked(c).op)
    => call[c].at # "conflict"
=============================================================================
