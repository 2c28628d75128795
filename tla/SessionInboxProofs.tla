-------------------------- MODULE SessionInboxProofs --------------------------
(***************************************************************************)
(* What a Session's inbox guarantees for any ids, callers and requests.    *)
(*                                                                         *)
(* TypeOK needs to know which request stands at which program point (only  *)
(* an admission reaches publish), hence CallShape; the one-compaction      *)
(* guarantee rests on who holds the lock, hence LockHeld, and on what a    *)
(* compaction's request has seen under it, hence NoneSeen.                 *)
(***************************************************************************)
EXTENDS SessionInbox, TLAPS

Admitting == {"find", "message", "publish", "refind"}
Compacting == {"exact", "promoted", "pending"}

CallShape ==
  \A c \in Callers :
    /\ call[c].at # "new" => Asked(c) \in Requests
    /\ call[c].at \in Admitting => Asked(c).op \in Types
    /\ call[c].at \in Compacting => Asked(c).op = "compaction"
    /\ call[c].at = "mutate" => Asked(c).op \in Commands
    /\ call[c].at = "lock" => Locked(Asked(c))

TypeInv == TypeOK /\ CallShape

(* The program points reached only under the lock. *)
UnderLock(c) ==
  \/ call[c].at \in Compacting \cup {"mutate"}
  \/ call[c].at \in Admitting /\ Asked(c).op \in Controls

LockHeld ==
  /\ \A c \in Callers : UnderLock(c) => lock = c
  /\ promoter.at \notin {"idle", "lock"} => lock = Runner

(* Past its look at the pending rows, a compaction's request knows that no *)
(* compaction is pending.                                                  *)
Looked(c) ==
  call[c].at \in {"find", "message", "publish"} /\ Asked(c).op = "compaction"

NoCompaction == \A i \in Pending : inbox[i].type # "compaction"

NoneSeen == \A c \in Callers : Looked(c) => NoCompaction

AnswersNameItems == \A c \in Callers : Answered(c) => call[c].got \in IDs

InboxInv ==
  /\ TypeInv
  /\ LockHeld
  /\ PendingOrDelivered
  /\ NoneSeen
  /\ OneCompaction
  /\ AnswersNameItems
  /\ AnswersAreKept

-------------------------------------------------------------------------------
(* Requests and calls. *)

LEMMA RequestShape ==
  ASSUME NEW r \in Requests
  PROVE  /\ r.op \in Types \cup Commands
         /\ r.id \in IDs
         /\ r.op \in Types => r.delivery \in Deliveries
BY InboxAssumption DEF Request, Types, Prompts, Controls, Commands

LEMMA GotoType ==
  ASSUME TypeInv, NEW c \in Callers, NEW pc \in CallPoints, Goto(c, pc)
  PROVE  /\ call' \in [Callers -> Call]
         /\ call'[c] = [call[c] EXCEPT !.at = pc]
         /\ \A d \in Callers \ {c} : call'[d] = call[d]
BY DEF TypeInv, TypeOK, Goto, Call

LEMMA ReplyType ==
  ASSUME TypeInv, NEW c \in Callers, NEW answer \in {"ok", "conflict"},
         NEW i \in IDs \cup {None}, Reply(c, answer, i)
  PROVE  /\ call' \in [Callers -> Call]
         /\ call'[c] = [call[c] EXCEPT !.at = answer, !.got = i]
         /\ \A d \in Callers \ {c} : call'[d] = call[d]
         /\ lock' \in Callers \cup {Runner, None}
<1>1. call' = [call EXCEPT ![c] = [call[c] EXCEPT !.at = answer, !.got = i]]
  BY Zenon DEF Reply
<1>2. call \in [Callers -> Call] /\ lock \in Callers \cup {Runner, None}
  BY DEF TypeInv, TypeOK
<1>3. [call[c] EXCEPT !.at = answer, !.got = i] \in Call
  BY <1>2 DEF Call, CallPoints
<1>4. lock' \in Callers \cup {Runner, None}
  BY <1>2 DEF Reply
<1> QED BY <1>1, <1>2, <1>3, <1>4

(* A call of c that moved on, whose new program point fits its request,    *)
(* keeps the shape of all calls.                                           *)
LEMMA ShapeKept ==
  ASSUME TypeInv, NEW c \in Callers, call' \in [Callers -> Call],
         \A d \in Callers \ {c} : call'[d] = call[d],
         call'[c].at # "new" => call'[c].request \in Requests,
         call'[c].at \in Admitting => call'[c].request.op \in Types,
         call'[c].at \in Compacting => call'[c].request.op = "compaction",
         call'[c].at = "mutate" => call'[c].request.op \in Commands,
         call'[c].at = "lock" => Locked(call'[c].request)
  PROVE  CallShape'
BY DEF TypeInv, CallShape, Asked, Locked

-------------------------------------------------------------------------------
(* Typing, action by action. *)

LEMMA BeginType ==
  ASSUME TypeInv, NEW c \in Callers, NEW r \in Requests, Begin(c, r)
  PROVE  TypeInv'
<1> DEFINE pc == IF Locked(r) THEN "lock" ELSE "find"
<1>1. /\ call' \in [Callers -> Call]
      /\ call'[c].at = pc /\ call'[c].request = r
      /\ \A d \in Callers \ {c} : call'[d] = call[d]
  BY DEF TypeInv, TypeOK, Begin, Call, CallPoints
<1>2. pc = "find" => r.op \in Types
  BY DEF Locked, Types
<1>3. CallShape'
  BY <1>1, <1>2, ShapeKept DEF Admitting, Compacting
<1>4. TypeOK'
  BY <1>1 DEF TypeInv, TypeOK, Begin, tables
<1> QED BY <1>3, <1>4 DEF TypeInv

(* An action that moves one call on and leaves the tables alone. *)
LEMMA QuietCallType ==
  ASSUME TypeInv, NEW c \in Callers, UNCHANGED <<tables, promoter>>,
         \/ \E i \in IDs \cup {None}, answer \in {"ok", "conflict"} : Reply(c, answer, i)
         \/ /\ UNCHANGED lock \/ lock' = c
            /\ \E pc \in CallPoints :
                 /\ Goto(c, pc)
                 /\ Asked(c) \in Requests /\ pc \notin {"new", "lock"}
                 /\ pc \in Admitting => Asked(c).op \in Types
                 /\ pc \in Compacting => Asked(c).op = "compaction"
                 /\ pc = "mutate" => Asked(c).op \in Commands,
         call[c].at # "new"
  PROVE  TypeInv'
<1>1. CASE \E i \in IDs \cup {None}, answer \in {"ok", "conflict"} : Reply(c, answer, i)
  <2>1. PICK i \in IDs \cup {None}, answer \in {"ok", "conflict"} : Reply(c, answer, i)
    BY <1>1
  <2>2. /\ call' \in [Callers -> Call]
        /\ call'[c] = [call[c] EXCEPT !.at = answer, !.got = i]
        /\ \A d \in Callers \ {c} : call'[d] = call[d]
        /\ lock' \in Callers \cup {Runner, None}
    BY <2>1, ReplyType
  <2>3. call'[c].at \in {"ok", "conflict"} /\ call'[c].request = Asked(c)
    BY <2>2 DEF TypeInv, TypeOK, Call, Asked
  <2>4. CallShape'
    BY <2>2, <2>3, ShapeKept DEF TypeInv, CallShape, Admitting, Compacting
  <2> QED BY <2>2, <2>4 DEF TypeInv, TypeOK, tables
<1>2. CASE /\ UNCHANGED lock \/ lock' = c
           /\ \E pc \in CallPoints :
                 /\ Goto(c, pc)
                 /\ Asked(c) \in Requests /\ pc \notin {"new", "lock"}
                 /\ pc \in Admitting => Asked(c).op \in Types
                 /\ pc \in Compacting => Asked(c).op = "compaction"
                 /\ pc = "mutate" => Asked(c).op \in Commands
  <2>1. PICK pc \in CallPoints :
                 /\ Goto(c, pc)
                 /\ Asked(c) \in Requests /\ pc \notin {"new", "lock"}
                 /\ pc \in Admitting => Asked(c).op \in Types
                 /\ pc \in Compacting => Asked(c).op = "compaction"
                 /\ pc = "mutate" => Asked(c).op \in Commands
    BY <1>2
  <2>2. /\ call' \in [Callers -> Call]
        /\ call'[c] = [call[c] EXCEPT !.at = pc]
        /\ \A d \in Callers \ {c} : call'[d] = call[d]
    BY <2>1, GotoType
  <2>3. call'[c].at = pc /\ call'[c].request = Asked(c)
    BY <2>2 DEF TypeInv, TypeOK, Call, Asked
  <2>4. CallShape'
    BY <2>1, <2>2, <2>3, ShapeKept
  <2> QED BY <1>2, <2>2, <2>4 DEF TypeInv, TypeOK, tables
<1> QED BY <1>1, <1>2

LEMMA ReadType ==
  ASSUME TypeInv, NEW c \in Callers,
         \/ Acquire(c) \/ Find(c) \/ FindMessage(c) \/ Refind(c)
         \/ FindExact(c) \/ FindPromoted(c) \/ FindPending(c)
  PROVE  TypeInv'
<1>a. call[c].at # "new" => Asked(c) \in Requests
  BY DEF TypeInv, CallShape
<1> USE DEF At, Asked, CallPoints, Admitting, Compacting
<1>1. CASE Acquire(c)
  <2>1. Asked(c) \in Requests /\ Locked(Asked(c))
    BY <1>1 DEF Acquire, TypeInv, CallShape
  <2>2. Asked(c).op \in Types \cup Commands
    BY <2>1, RequestShape
  <2>3. CASE Asked(c).op \in Commands
    BY <1>1, <2>1, <2>3, QuietCallType DEF Acquire, EntryPoint
  <2>4. CASE Asked(c).op \notin Commands
    BY <1>1, <2>1, <2>2, <2>4, QuietCallType DEF Acquire, EntryPoint
  <2> QED BY <2>3, <2>4
<1>2. CASE Find(c)
  <2>1. Asked(c) \in Requests /\ Asked(c).op \in Types /\ Asked(c).id \in IDs
    BY <1>2, RequestShape DEF Find, TypeInv, CallShape
  <2> QED BY <1>2, <2>1, QuietCallType DEF Find
<1>3. CASE FindMessage(c)
  <2>1. Asked(c) \in Requests /\ Asked(c).op \in Types /\ Asked(c).id \in IDs
    BY <1>3, RequestShape DEF FindMessage, TypeInv, CallShape
  <2> QED BY <1>3, <2>1, QuietCallType DEF FindMessage
<1>4. CASE Refind(c)
  <2>1. Asked(c) \in Requests /\ Asked(c).id \in IDs
    BY <1>4, RequestShape DEF Refind, TypeInv, CallShape
  <2> QED BY <1>4, <2>1, QuietCallType DEF Refind
<1>5. CASE FindExact(c)
  <2>1. Asked(c) \in Requests /\ Asked(c).op = "compaction" /\ Asked(c).id \in IDs
    BY <1>5, RequestShape DEF FindExact, TypeInv, CallShape
  <2> QED BY <1>5, <2>1, QuietCallType DEF FindExact
<1>6. CASE FindPromoted(c)
  <2>1. Asked(c) \in Requests /\ Asked(c).op = "compaction"
    BY <1>6, RequestShape DEF FindPromoted, TypeInv, CallShape
  <2> QED BY <1>6, <2>1, QuietCallType DEF FindPromoted
<1>7. CASE FindPending(c)
  <2>1. Asked(c) \in Requests /\ Asked(c).op = "compaction" /\ "compaction" \in Types
    BY <1>7, RequestShape DEF FindPending, TypeInv, CallShape, Types, Controls
  <2> QED BY <1>7, <2>1, QuietCallType DEF FindPending, Pending
<1> QED BY <1>1, <1>2, <1>3, <1>4, <1>5, <1>6, <1>7

LEMMA PublishType ==
  ASSUME TypeInv, NEW c \in Callers, Publish(c)
  PROVE  TypeInv'
<1>1. /\ Asked(c) \in Requests /\ Asked(c).op \in Types
      /\ Asked(c).id \in IDs /\ Asked(c).delivery \in Deliveries
  BY RequestShape DEF Publish, At, TypeInv, CallShape, Admitting
<1>2. CASE Asked(c).id \in Pending \/ message[Asked(c).id] # None
  BY <1>1, <1>2, QuietCallType
  DEF Publish, tables, CallPoints, Admitting, Compacting, At
<1>3. CASE ~(Asked(c).id \in Pending \/ message[Asked(c).id] # None)
  <2>1. Reply(c, "ok", Asked(c).id)
    BY <1>3 DEF Publish
  <2>2. /\ call' \in [Callers -> Call]
        /\ call'[c] = [call[c] EXCEPT !.at = "ok", !.got = Asked(c).id]
        /\ \A d \in Callers \ {c} : call'[d] = call[d]
        /\ lock' \in Callers \cup {Runner, None}
    BY <1>1, <2>1, ReplyType
  <2>3. call'[c].at = "ok" /\ call'[c].request = Asked(c)
    BY <2>2 DEF TypeInv, TypeOK, Call, Asked
  <2>4. CallShape'
    BY <1>1, <2>2, <2>3, ShapeKept DEF Admitting, Compacting
  <2>5. Row1(Asked(c)) \in Row
    BY <1>1 DEF Row1, Row, TypeInv, TypeOK
  <2>6. inbox' \in [IDs -> Row \cup {None}] /\ seq' \in Nat
    BY <1>1, <1>3, <2>5 DEF Publish, TypeInv, TypeOK
  <2> QED BY <1>3, <2>2, <2>4, <2>6 DEF Publish, TypeInv, TypeOK
<1> QED BY <1>2, <1>3

LEMMA MutateType ==
  ASSUME TypeInv, NEW c \in Callers, Mutate(c)
  PROVE  TypeInv'
<1> DEFINE i == Asked(c).id
<1>1. Asked(c) \in Requests /\ Asked(c).op \in Commands /\ i \in IDs
  BY RequestShape DEF Mutate, At, TypeInv, CallShape
<1>2. CASE ~(i \in Pending /\ inbox[i].delivery \in From(Asked(c).op))
  BY <1>1, <1>2, QuietCallType DEF Mutate, tables, At
<1>3. CASE i \in Pending /\ inbox[i].delivery \in From(Asked(c).op)
  <2>1. Reply(c, "ok", i)
    BY <1>3 DEF Mutate
  <2>2. /\ call' \in [Callers -> Call]
        /\ call'[c] = [call[c] EXCEPT !.at = "ok", !.got = i]
        /\ \A d \in Callers \ {c} : call'[d] = call[d]
        /\ lock' \in Callers \cup {Runner, None}
    BY <1>1, <2>1, ReplyType
  <2>3. call'[c].at = "ok" /\ call'[c].request = Asked(c)
    BY <2>2 DEF TypeInv, TypeOK, Call, Asked
  <2>4. CallShape'
    BY <1>1, <2>2, <2>3, ShapeKept DEF Admitting, Compacting
  <2>5. inbox[i] \in Row
    BY <1>1, <1>3 DEF TypeInv, TypeOK, Pending
  <2>6. inbox' \in [IDs -> Row \cup {None}] /\ cancelled' \subseteq IDs
    <3>1. CASE Asked(c).op = "cancel"
      BY <1>1, <1>3, <3>1 DEF Mutate, TypeInv, TypeOK
    <3>2. CASE Asked(c).op # "cancel"
      <4>1. Asked(c).op \in Deliveries
        BY <1>1, <3>2 DEF Commands, Deliveries
      <4>2. [inbox[i] EXCEPT !.delivery = Asked(c).op] \in Row
        BY <2>5, <4>1 DEF Row
      <4> QED BY <1>1, <1>3, <3>2, <4>2 DEF Mutate, TypeInv, TypeOK
    <3> QED BY <3>1, <3>2
  <2>7. UNCHANGED <<message, seq, promoter>>
    BY <1>3 DEF Mutate
  <2> QED BY <2>2, <2>4, <2>6, <2>7 DEF TypeInv, TypeOK
<1> QED BY <1>2, <1>3

LEMMA RecoverType ==
  ASSUME TypeInv, NEW c \in Callers, Recover(c)
  PROVE  TypeInv'
<1>1. Asked(c) \in Requests /\ Reply(c, "ok", None)
  BY DEF Recover, At, TypeInv, CallShape
<1>2. /\ call' \in [Callers -> Call]
      /\ call'[c] = [call[c] EXCEPT !.at = "ok", !.got = None]
      /\ \A d \in Callers \ {c} : call'[d] = call[d]
      /\ lock' \in Callers \cup {Runner, None}
  BY <1>1, ReplyType
<1>3. call'[c].at = "ok" /\ call'[c].request = Asked(c)
  BY <1>2 DEF TypeInv, TypeOK, Call, Asked
<1>4. CallShape'
  BY <1>1, <1>2, <1>3, ShapeKept DEF Admitting, Compacting
<1>5. inbox' \in [IDs -> Row \cup {None}] /\ cancelled' \subseteq IDs
  BY DEF Recover, TypeInv, TypeOK, Pending
<1> QED BY <1>2, <1>4, <1>5 DEF Recover, TypeInv, TypeOK

-------------------------------------------------------------------------------
(* The runner's actions leave every call alone. *)

(* The promoter moved on without touching the tables. *)
LEMMA QuietPromoterType ==
  ASSUME TypeInv, UNCHANGED <<tables, call>>, promoter' \in Promoter,
         lock' \in Callers \cup {Runner, None}
  PROVE  TypeInv'
BY DEF TypeInv, TypeOK, tables, CallShape, Asked

LEMMA FinishType ==
  ASSUME NEW outcome \in {"none", "item", "control", "died"},
         NEW next \in Promotion \cup {None}, Finish(outcome, next)
  PROVE  promoter' \in Promoter /\ lock' = None
BY DEF Finish, IdlePromoter, Promoter

LEMMA DecideType ==
  ASSUME TypeInv, NEW i \in Pending, Decide(i)
  PROVE  promoter' \in Promoter /\ (lock' = lock \/ lock' = None)
<1> DEFINE next == [id |-> i, type |-> inbox[i].type, delivery |-> inbox[i].delivery]
<1>1. next \in Promotion
  BY DEF TypeInv, TypeOK, Pending, Row, Promotion
<1>2. CASE IsControl(i)
  <2>1. /\ promoter' = [promoter EXCEPT !.at = "deliver", !.next = next]
        /\ UNCHANGED lock
    BY <1>2 DEF Decide
  <2>2. promoter \in Promoter
    BY DEF TypeInv, TypeOK
  <2> HIDE DEF next
  <2> QED BY <1>1, <2>1, <2>2 DEF Promoter
<1>3. CASE ~IsControl(i)
  <2>1. Finish("item", next)
    BY <1>3 DEF Decide
  <2> QED BY <1>1, <2>1, FinishType
<1> QED BY <1>2, <1>3

LEMMA StartPublishingType ==
  ASSUME TypeInv, NEW S \in SUBSET Pending, NEW late \in BOOLEAN, StartPublishing(S, late)
  PROVE  promoter' \in Promoter /\ lock' = lock
<1>1. Snapshot(S) \in SUBSET (IDs \X Nat)
  BY DEF Snapshot, TypeInv, TypeOK, Pending, Row
<1> QED BY <1>1 DEF StartPublishing, TypeInv, TypeOK, Promoter

LEMMA DeliverType ==
  ASSUME TypeInv, NEW i \in Pending, Deliver(i)
  PROVE  /\ inbox' \in [IDs -> Row \cup {None}]
         /\ message' \in [IDs -> (Types \ {"move"}) \cup {None}]
         /\ UNCHANGED <<cancelled, seq>>
<1>1. i \in IDs /\ inbox[i] \in Row
  BY DEF Pending, TypeInv, TypeOK
<1> QED BY <1>1 DEF Deliver, TypeInv, TypeOK, Row

LEMMA RunnerQuietType ==
  ASSUME TypeInv,
         \/ AcquireRunner \/ BoundarySteers \/ BoundaryQueued
         \/ PromoteSteers \/ PromoteQueued \/ PublishLate \/ PublishDone
         \/ InterruptRunner
         \/ \E scope \in Scopes, task \in {"boundary", "promote"} : StartTask(task, scope)
  PROVE  TypeInv'
<1>0. promoter \in Promoter /\ lock \in Callers \cup {Runner, None}
  BY DEF TypeInv, TypeOK
<1>1. CASE AcquireRunner
  BY <1>0, <1>1, QuietPromoterType DEF AcquireRunner, Promoter
<1>2. CASE BoundarySteers
  <2>1. UNCHANGED <<tables, call>> /\ Steers \subseteq Pending
    BY <1>2 DEF BoundarySteers, Steers, Mode
  <2>2. CASE \E i \in Steers : Head(i, Steers) /\ Decide(i)
    BY <1>0, <2>1, <2>2, DecideType, QuietPromoterType
  <2>3. CASE ThenQueued
    BY <1>0, <2>1, <2>3, QuietPromoterType DEF ThenQueued, Promoter
  <2>4. CASE Finish("none", None)
    BY <2>1, <2>4, FinishType, QuietPromoterType
  <2> QED BY <1>2, <2>2, <2>3, <2>4 DEF BoundarySteers
<1>3. CASE BoundaryQueued
  <2>1. UNCHANGED <<tables, call>> /\ Queued \subseteq Pending
    BY <1>3 DEF BoundaryQueued, Queued, Mode
  <2>2. CASE \E i \in Queued : Oldest(i, Queued) /\ Decide(i)
    BY <1>0, <2>1, <2>2, DecideType, QuietPromoterType
  <2>3. CASE Finish("none", None)
    BY <2>1, <2>3, FinishType, QuietPromoterType
  <2> QED BY <1>3, <2>2, <2>3 DEF BoundaryQueued
<1>4. CASE PromoteSteers
  <2>1. UNCHANGED <<tables, call>> /\ BeforeControl(Steers) \in SUBSET Pending
    BY <1>4 DEF PromoteSteers, BeforeControl, Steers, Mode
  <2>2. CASE ThenQueued
    BY <1>0, <2>1, <2>2, QuietPromoterType DEF ThenQueued, Promoter
  <2>3. CASE Finish("control", None)
    BY <2>1, <2>3, FinishType, QuietPromoterType
  <2>4. CASE StartPublishing(BeforeControl(Steers), FALSE)
    BY <1>0, <2>1, <2>4, StartPublishingType, QuietPromoterType
  <2> QED BY <1>4, <2>2, <2>3, <2>4 DEF PromoteSteers
<1>5. CASE PromoteQueued
  <2>1. UNCHANGED <<tables, call>> /\ Queued \subseteq Pending
    BY <1>5 DEF PromoteQueued, Queued, Mode
  <2>2. CASE Finish("none", None)
    BY <2>1, <2>2, FinishType, QuietPromoterType
  <2>3. CASE \E i \in Queued : Finish("control", None)
    BY <2>1, <2>3, FinishType, QuietPromoterType
  <2>4. CASE \E i \in Queued : StartPublishing({i}, TRUE)
    BY <1>0, <2>1, <2>4, StartPublishingType, QuietPromoterType
  <2> QED BY <1>5, <2>2, <2>3, <2>4 DEF PromoteQueued
<1>6. CASE PublishLate
  <2>1. BeforeControl(Steers) \in SUBSET Pending
    BY DEF BeforeControl, Steers, Mode
  <2>2. Snapshot(BeforeControl(Steers)) \in SUBSET (IDs \X Nat)
    BY <2>1 DEF Snapshot, TypeInv, TypeOK, Pending, Row
  <2> QED BY <1>0, <1>6, <2>2, QuietPromoterType DEF PublishLate, Promoter
<1>7. CASE PublishDone
  BY <1>7, FinishType, QuietPromoterType DEF PublishDone
<1>8. CASE InterruptRunner
  BY <1>0, <1>8, QuietPromoterType DEF InterruptRunner, IdlePromoter, Promoter
<1>9. CASE \E scope \in Scopes, task \in {"boundary", "promote"} : StartTask(task, scope)
  <2>1. PICK scope \in Scopes, task \in {"boundary", "promote"} : StartTask(task, scope)
    BY <1>9
  <2>2. promoter' = [task |-> task, at |-> "lock", scope |-> scope, next |-> None,
                     batch |-> {}, late |-> FALSE, outcome |-> None]
    BY <2>1 DEF StartTask, IdlePromoter
  <2>3. promoter' \in Promoter
    BY <2>2 DEF Promoter
  <2> QED BY <1>0, <2>1, <2>3, QuietPromoterType DEF StartTask
<1> QED BY <1>1, <1>2, <1>3, <1>4, <1>5, <1>6, <1>7, <1>8, <1>9

LEMMA RunnerDeliverType ==
  ASSUME TypeInv, DeliverControl \/ PublishNext
  PROVE  TypeInv'
<1>0. promoter \in Promoter /\ lock \in Callers \cup {Runner, None}
  BY DEF TypeInv, TypeOK
<1>1. CASE DeliverControl
  <2>1. CASE promoter.next.id \in Pending
    <3>1. Deliver(promoter.next.id) /\ Finish("control", promoter.next) /\ UNCHANGED call
      BY <1>1, <2>1 DEF DeliverControl
    <3>2. promoter.next \in Promotion \cup {None}
      BY <1>0 DEF Promoter
    <3>3. promoter' \in Promoter /\ lock' = None
      BY <3>1, <3>2, FinishType
    <3> QED BY <2>1, <3>1, <3>3, DeliverType DEF TypeInv, TypeOK, CallShape, Asked
  <2>2. CASE promoter.next.id \notin Pending
    BY <1>1, <2>2, FinishType, QuietPromoterType DEF DeliverControl
  <2> QED BY <2>1, <2>2
<1>2. CASE PublishNext
  <2>1. PICK r \in promoter.batch :
          IF r[1] \in Pending \/ message[r[1]] \in Prompts
          THEN /\ IF r[1] \in Pending THEN Deliver(r[1]) ELSE UNCHANGED tables
               /\ promoter' = [promoter EXCEPT !.batch = @ \ {r}, !.outcome = "item"]
               /\ UNCHANGED lock
          ELSE Finish("died", None) /\ UNCHANGED tables
    BY <1>2 DEF PublishNext
  <2>2. UNCHANGED call
    BY <1>2 DEF PublishNext
  <2>3. promoter' \in Promoter /\ lock' \in Callers \cup {Runner, None}
    <3>1. CASE r[1] \in Pending \/ message[r[1]] \in Prompts
      <4>1. promoter.batch \ {r} \in SUBSET (IDs \X Nat)
        BY <1>0 DEF Promoter
      <4>2. /\ promoter' = [promoter EXCEPT !.batch = promoter.batch \ {r}, !.outcome = "item"]
            /\ UNCHANGED lock
        BY <2>1, <3>1
      <4> QED BY <1>0, <4>1, <4>2 DEF Promoter
    <3>2. CASE ~(r[1] \in Pending \/ message[r[1]] \in Prompts)
      BY <2>1, <3>2, FinishType
    <3> QED BY <3>1, <3>2
  <2>4. CASE r[1] \in Pending
    BY <2>1, <2>2, <2>3, <2>4, DeliverType DEF TypeInv, TypeOK, CallShape, Asked
  <2>5. CASE r[1] \notin Pending
    BY <2>1, <2>2, <2>3, <2>5, QuietPromoterType
  <2> QED BY <2>4, <2>5
<1> QED BY <1>1, <1>2

LEMMA CrashType ==
  ASSUME TypeInv, Crash
  PROVE  TypeInv'
<1>1. call' \in [Callers -> Call]
  BY DEF Crash, TypeInv, TypeOK, Call, CallPoints
<1>2. CallShape'
  BY DEF Crash, TypeInv, TypeOK, CallShape, Call, Asked, Admitting, Compacting
<1>3. promoter' \in Promoter /\ lock' = None
  BY DEF Crash, IdlePromoter, Promoter
<1> QED BY <1>1, <1>2, <1>3 DEF Crash, TypeInv, TypeOK, tables

LEMMA InboxTypeInit == Init => TypeInv
BY DEF Init, TypeInv, TypeOK, CallShape, NewCall, Call, CallPoints, IdlePromoter, Promoter,
       Admitting, Compacting

LEMMA InboxTypeNext == TypeInv /\ [Next]_vars => TypeInv'
<1> SUFFICES ASSUME TypeInv, [Next]_vars PROVE TypeInv'
  OBVIOUS
<1>1. ASSUME NEW c \in Callers, CallerStep(c) PROVE TypeInv'
  BY <1>1, ReadType, PublishType, MutateType, RecoverType DEF CallerStep
<1>2. ASSUME NEW c \in Callers, NEW r \in Requests, Begin(c, r) PROVE TypeInv'
  BY <1>2, BeginType
<1>3. CASE PromoterStep
  BY <1>3, RunnerQuietType, RunnerDeliverType DEF PromoterStep
<1>4. CASE \E scope \in Scopes, task \in {"boundary", "promote"} : StartTask(task, scope)
  BY <1>4, RunnerQuietType
<1>5. CASE InterruptRunner
  BY <1>5, RunnerQuietType
<1>6. CASE Crash
  BY <1>6, CrashType
<1>7. CASE UNCHANGED vars
  BY <1>7 DEF vars, tables, TypeInv, TypeOK, CallShape, Asked
<1> QED BY <1>1, <1>2, <1>3, <1>4, <1>5, <1>6, <1>7 DEF Next

(* Every table, program point and lock of the inbox always has its type.   *)
THEOREM InboxTypeCorrect == Spec => []TypeOK
<1>1. Init => TypeInv
  BY InboxTypeInit
<1>2. TypeInv /\ [Next]_vars => TypeInv'
  BY InboxTypeNext
<1>3. TypeInv => TypeOK
  BY DEF TypeInv
<1> QED BY <1>1, <1>2, <1>3, PTL DEF Spec

-------------------------------------------------------------------------------
(* The lock. *)

LEMMA CallerKeepsLock ==
  ASSUME LockHeld, NEW c \in Callers, UNCHANGED promoter,
         \A d \in Callers \ {c} : call'[d] = call[d],
         UnderLock(c)' => lock' = c,
         \/ lock' = lock
         \/ lock = c /\ lock' = None
         \/ lock = None /\ lock' = c
  PROVE  LockHeld'
<1>1. \A d \in Callers \ {c} : UnderLock(d)' = UnderLock(d)
  BY DEF UnderLock, Asked
<1>2. \A d \in Callers \ {c} : UnderLock(d)' => lock' = d
  BY <1>1, InboxAssumption DEF LockHeld
<1>3. promoter.at \notin {"idle", "lock"} => lock' = Runner
  BY InboxAssumption DEF LockHeld
<1> QED BY <1>2, <1>3 DEF LockHeld

LEMMA ReplyKeepsLock ==
  ASSUME TypeInv, LockHeld, NEW c \in Callers, NEW answer \in {"ok", "conflict"},
         NEW i \in IDs \cup {None}, Reply(c, answer, i), UNCHANGED promoter
  PROVE  LockHeld'
<1>0. /\ call' \in [Callers -> Call]
      /\ call'[c] = [call[c] EXCEPT !.at = answer, !.got = i]
      /\ \A d \in Callers \ {c} : call'[d] = call[d]
      /\ lock' \in Callers \cup {Runner, None}
  BY ReplyType
<1>1. call'[c].at = answer
  BY <1>0 DEF TypeInv, TypeOK, Call
<1>2. ~UnderLock(c)'
  BY <1>1 DEF UnderLock, Compacting, Admitting
<1> QED BY <1>0, <1>2, CallerKeepsLock DEF Reply

LEMMA GotoKeepsLock ==
  ASSUME TypeInv, LockHeld, NEW c \in Callers, NEW pc \in CallPoints, Goto(c, pc),
         UNCHANGED <<promoter, lock>>,
         (pc \in Compacting \cup {"mutate"}
            \/ (pc \in Admitting /\ Asked(c).op \in Controls)) => UnderLock(c)
  PROVE  LockHeld'
<1>0. /\ call'[c] = [call[c] EXCEPT !.at = pc]
      /\ \A d \in Callers \ {c} : call'[d] = call[d]
  BY GotoType
<1>1. call'[c].at = pc /\ call'[c].request = Asked(c)
  BY <1>0 DEF TypeInv, TypeOK, Call, Asked
<1>2. UnderLock(c)' => UnderLock(c)
  BY <1>1 DEF UnderLock, Asked
<1> QED BY <1>0, <1>2, CallerKeepsLock DEF LockHeld

LEMMA CallerLock ==
  ASSUME TypeInv, LockHeld, NEW c \in Callers, CallerStep(c)
  PROVE  LockHeld'
<1>0. /\ call[c].at # "new" => Asked(c) \in Requests
      /\ call[c].at # "new" => Asked(c).id \in IDs
      /\ call[c].at \in Compacting => Asked(c).op = "compaction"
  BY RequestShape DEF TypeInv, CallShape
<1> USE DEF At, CallPoints, Compacting, Admitting
<1>1. CASE Acquire(c)
  <2>1. \A d \in Callers \ {c} : call'[d] = call[d]
    BY <1>1 DEF Acquire, Goto, TypeInv, TypeOK
  <2> QED BY <1>1, <2>1, CallerKeepsLock DEF Acquire
<1>2. CASE Find(c)
  <2>1. CASE Goto(c, "message") /\ UNCHANGED lock
    BY <1>2, <2>1, GotoKeepsLock DEF Find, UnderLock
  <2>2. CASE \E i \in IDs \cup {None}, answer \in {"ok", "conflict"} : Reply(c, answer, i)
    BY <1>2, <2>2, ReplyKeepsLock DEF Find
  <2> QED BY <1>0, <1>2, <2>1, <2>2 DEF Find
<1>3. CASE FindMessage(c)
  <2>1. CASE Goto(c, "publish") /\ UNCHANGED lock
    BY <1>3, <2>1, GotoKeepsLock DEF FindMessage, UnderLock
  <2>2. CASE \E i \in IDs \cup {None}, answer \in {"ok", "conflict"} : Reply(c, answer, i)
    BY <1>3, <2>2, ReplyKeepsLock DEF FindMessage
  <2> QED BY <1>0, <1>3, <2>1, <2>2 DEF FindMessage
<1>4. CASE Publish(c)
  <2>1. CASE Goto(c, "refind") /\ UNCHANGED lock
    BY <1>4, <2>1, GotoKeepsLock DEF Publish, UnderLock
  <2>2. CASE \E i \in IDs \cup {None}, answer \in {"ok", "conflict"} : Reply(c, answer, i)
    BY <1>4, <2>2, ReplyKeepsLock DEF Publish
  <2> QED BY <1>0, <1>4, <2>1, <2>2 DEF Publish
<1>5. CASE Refind(c)
  <2>1. \E i \in IDs \cup {None}, answer \in {"ok", "conflict"} : Reply(c, answer, i)
    BY <1>0, <1>5 DEF Refind
  <2> QED BY <1>5, <2>1, ReplyKeepsLock DEF Refind
<1>6. CASE FindExact(c)
  <2>1. CASE Goto(c, "promoted") /\ UNCHANGED lock
    BY <1>6, <2>1, GotoKeepsLock DEF FindExact, UnderLock
  <2>2. CASE \E i \in IDs \cup {None}, answer \in {"ok", "conflict"} : Reply(c, answer, i)
    BY <1>6, <2>2, ReplyKeepsLock DEF FindExact
  <2> QED BY <1>0, <1>6, <2>1, <2>2 DEF FindExact
<1>7. CASE FindPromoted(c)
  <2>1. CASE Goto(c, "pending") /\ UNCHANGED lock
    BY <1>7, <2>1, GotoKeepsLock DEF FindPromoted, UnderLock
  <2>2. CASE Reply(c, "conflict", None)
    BY <1>7, <2>2, ReplyKeepsLock DEF FindPromoted
  <2> QED BY <1>7, <2>1, <2>2 DEF FindPromoted
<1>8. CASE FindPending(c)
  <2>1. CASE Goto(c, "find") /\ UNCHANGED lock
    BY <1>8, <2>1, GotoKeepsLock DEF FindPending, UnderLock
  <2>2. CASE \E i \in Pending : Reply(c, "ok", i)
    BY <1>8, <2>2, ReplyKeepsLock DEF FindPending, Pending
  <2> QED BY <1>8, <2>1, <2>2 DEF FindPending
<1>9. CASE Mutate(c)
  <2>1. \E i \in IDs \cup {None}, answer \in {"ok", "conflict"} : Reply(c, answer, i)
    BY <1>0, <1>9 DEF Mutate
  <2> QED BY <1>9, <2>1, ReplyKeepsLock DEF Mutate
<1>10. CASE Recover(c)
  BY <1>10, ReplyKeepsLock DEF Recover
<1> QED BY <1>1, <1>2, <1>3, <1>4, <1>5, <1>6, <1>7, <1>8, <1>9, <1>10 DEF CallerStep

LEMMA BeginLock ==
  ASSUME TypeInv, LockHeld, NEW c \in Callers, NEW r \in Requests, Begin(c, r)
  PROVE  LockHeld'
<1>1. /\ \A d \in Callers \ {c} : call'[d] = call[d]
      /\ call'[c].request = r
      /\ call'[c].at = IF Locked(r) THEN "lock" ELSE "find"
  BY DEF Begin, TypeInv, TypeOK
<1>2. ~UnderLock(c)'
  BY <1>1 DEF UnderLock, Asked, Compacting, Admitting, Locked, Prompts, Controls
<1> QED BY <1>1, <1>2, CallerKeepsLock DEF Begin

(* The runner's steps: the lock is taken when free, given back only by the *)
(* end of an operation, which holds it.                                    *)
LEMMA RunnerKeepsLock ==
  ASSUME LockHeld,
         \/ UNCHANGED lock
         \/ lock = None /\ lock' = Runner
         \/ lock = Runner /\ lock' = None /\ promoter'.at = "idle",
         promoter'.at \notin {"idle", "lock"} =>
           promoter.at \notin {"idle", "lock"} \/ lock' = Runner,
         \A c \in Callers : UnderLock(c)' => UnderLock(c)
  PROVE  LockHeld'
<1>1. \A c \in Callers : UnderLock(c)' => lock = c /\ lock' = c
  BY InboxAssumption DEF LockHeld
<1>2. promoter'.at \notin {"idle", "lock"} => lock' = Runner
  BY InboxAssumption DEF LockHeld
<1> QED BY <1>1, <1>2 DEF LockHeld

LEMMA RunnerLock ==
  ASSUME TypeInv, LockHeld,
         \/ PromoterStep \/ InterruptRunner
         \/ \E scope \in Scopes, task \in {"boundary", "promote"} : StartTask(task, scope)
  PROVE  LockHeld'
<1>0. UNCHANGED call
  BY DEF PromoterStep, InterruptRunner, StartTask, AcquireRunner, BoundarySteers,
         BoundaryQueued, DeliverControl, PromoteSteers, PromoteQueued, PublishNext,
         PublishLate, PublishDone
<1>a. \A c \in Callers : UnderLock(c)' => UnderLock(c)
  BY <1>0 DEF UnderLock, Asked
<1>b. promoter \in Promoter
  BY DEF TypeInv, TypeOK
<1>1. ASSUME promoter.at \notin {"idle", "lock"},
             NEW outcome, NEW next, Finish(outcome, next)
      PROVE  LockHeld'
  BY <1>1, <1>a, RunnerKeepsLock DEF Finish, IdlePromoter, LockHeld
<1>2. ASSUME promoter.at \notin {"idle", "lock"}, UNCHANGED lock
      PROVE  LockHeld'
  BY <1>2, <1>a, RunnerKeepsLock
<1>3. CASE AcquireRunner
  BY <1>3, <1>a, RunnerKeepsLock DEF AcquireRunner
<1>4. CASE BoundarySteers \/ BoundaryQueued
  BY <1>1, <1>2, <1>4 DEF BoundarySteers, BoundaryQueued, Decide, ThenQueued
<1>5. CASE DeliverControl
  BY <1>1, <1>5 DEF DeliverControl
<1>6. CASE PromoteSteers \/ PromoteQueued
  BY <1>1, <1>2, <1>6 DEF PromoteSteers, PromoteQueued, ThenQueued, StartPublishing
<1>7. CASE PublishNext
  BY <1>1, <1>2, <1>7 DEF PublishNext
<1>8. CASE PublishLate \/ PublishDone
  BY <1>1, <1>2, <1>8 DEF PublishLate, PublishDone
<1>9. CASE InterruptRunner
  BY <1>9, <1>a, RunnerKeepsLock DEF InterruptRunner, IdlePromoter
<1>10. CASE \E scope \in Scopes, task \in {"boundary", "promote"} : StartTask(task, scope)
  BY <1>10, <1>a, RunnerKeepsLock DEF StartTask, IdlePromoter
<1> QED BY <1>3, <1>4, <1>5, <1>6, <1>7, <1>8, <1>9, <1>10 DEF PromoterStep

LEMMA CrashLock ==
  ASSUME TypeInv, Crash
  PROVE  LockHeld'
BY DEF Crash, TypeInv, TypeOK, LockHeld, UnderLock, IdlePromoter, Call, Compacting, Admitting

-------------------------------------------------------------------------------
(* Steps that enqueue nothing: what was pending leaves only for the        *)
(* transcript, by a move, or cancelled.                                    *)

NothingEnters ==
  /\ \A i \in Pending' : i \in Pending /\ inbox'[i].type = inbox[i].type
  /\ \A i \in IDs :
       \/ message'[i] = message[i]
       \/ i \in Pending \ Pending' /\ message'[i] = inbox[i].type
  /\ \A i \in Pending \ Pending' :
       inbox[i].type = "move" \/ message'[i] = inbox[i].type \/ i \in cancelled'
  /\ cancelled \subseteq cancelled'

LEMMA KeptStays ==
  ASSUME InboxInv, NothingEnters, NEW i \in IDs, NEW t \in Types \ {"move"}, Kept(i, t)
  PROVE  Kept(i, t)'
<1>1. CASE i \in Pending /\ inbox[i].type = t
  BY <1>1 DEF NothingEnters, Kept
<1>2. CASE message[i] = t
  <2>1. t # None
    BY InboxAssumption
  <2>2. i \notin Pending
    BY <1>2, <2>1 DEF InboxInv, PendingOrDelivered, Pending
  <2> QED BY <1>2, <2>2 DEF NothingEnters, Kept
<1>3. CASE i \in cancelled
  BY <1>3 DEF NothingEnters, Kept
<1> QED BY <1>1, <1>2, <1>3 DEF Kept

LEMMA WithoutEntry ==
  ASSUME InboxInv, TypeInv', LockHeld', NothingEnters,
         \A c \in Callers : Looked(c)' => NoCompaction,
         \A c \in Callers : Answered(c)' =>
           /\ call'[c].got \in IDs
           /\ Kept(call'[c].got, call'[c].request.op)
  PROVE  InboxInv'
<1>1. PendingOrDelivered'
  <2> SUFFICES ASSUME NEW i \in IDs, inbox'[i] # None PROVE message'[i] = None
    BY DEF PendingOrDelivered
  <2>1. i \in Pending'
    BY DEF Pending
  <2>2. i \in Pending /\ message'[i] = message[i]
    BY <2>1 DEF NothingEnters
  <2> QED BY <2>2 DEF InboxInv, PendingOrDelivered, Pending
<1>2. NoneSeen'
  BY DEF NothingEnters, NoneSeen, NoCompaction
<1>3. OneCompaction'
  BY DEF NothingEnters, InboxInv, OneCompaction
<1>4. AnswersNameItems'
  BY DEF AnswersNameItems
<1>5. AnswersAreKept'
  <2> SUFFICES ASSUME NEW c \in Callers, Answered(c)'
               PROVE  Kept(call[c].got, Asked(c).op)'
    BY DEF AnswersAreKept
  <2>1. PICK i \in IDs, t \in Types \ {"move"} :
          i = call'[c].got /\ t = call'[c].request.op
    BY DEF Answered, Asked
  <2>2. Kept(i, t)'
    BY <2>1, KeptStays
  <2> QED BY <2>1, <2>2 DEF Kept, Asked
<1> QED BY <1>1, <1>2, <1>3, <1>4, <1>5 DEF InboxInv

(* No call was answered or moved on. *)
LEMMA CallsAsBefore ==
  ASSUME InboxInv, TypeInv', LockHeld', NothingEnters, UNCHANGED call
  PROVE  InboxInv'
BY WithoutEntry
DEF InboxInv, NoneSeen, Looked, AnswersNameItems, AnswersAreKept, Answered, Asked

(* Only the call of c moved on. *)
LEMMA OneCallMoved ==
  ASSUME InboxInv, TypeInv', LockHeld', NothingEnters, NEW c \in Callers,
         \A d \in Callers \ {c} : call'[d] = call[d],
         Looked(c)' => NoCompaction,
         Answered(c)' => /\ call'[c].got \in IDs
                         /\ Kept(call'[c].got, call'[c].request.op)
  PROVE  InboxInv'
<1>1. \A d \in Callers : Looked(d)' => NoCompaction
  BY DEF InboxInv, NoneSeen, Looked, Asked
<1>2. \A d \in Callers : Answered(d)' =>
        /\ call'[d].got \in IDs
        /\ Kept(call'[d].got, call'[d].request.op)
  BY DEF InboxInv, AnswersNameItems, AnswersAreKept, Answered, Asked
<1> QED BY <1>1, <1>2, WithoutEntry

LEMMA ReplyKeepsInv ==
  ASSUME InboxInv, TypeInv', LockHeld', NothingEnters, NEW c \in Callers,
         NEW answer \in {"ok", "conflict"}, NEW i \in IDs \cup {None},
         Reply(c, answer, i),
         answer = "ok" /\ Asked(c).op \in Types \ {"move"} =>
           i \in IDs /\ Kept(i, Asked(c).op)
  PROVE  InboxInv'
<1>1. /\ call' \in [Callers -> Call]
      /\ call'[c] = [call[c] EXCEPT !.at = answer, !.got = i]
      /\ \A d \in Callers \ {c} : call'[d] = call[d]
      /\ lock' \in Callers \cup {Runner, None}
  BY ReplyType DEF InboxInv
<1>2. call'[c].at = answer /\ call'[c].got = i /\ call'[c].request = Asked(c)
  BY <1>1 DEF InboxInv, TypeInv, TypeOK, Call, Asked
<1>3. ~Looked(c)'
  BY <1>2 DEF Looked
<1>4. Answered(c)' => answer = "ok" /\ Asked(c).op \in Types \ {"move"}
  BY <1>2 DEF Answered, Asked
<1>5. Answered(c)' => /\ call'[c].got \in IDs
                      /\ Kept(call'[c].got, call'[c].request.op)
  BY <1>2, <1>4
<1> QED BY <1>1, <1>3, <1>5, OneCallMoved

LEMMA GotoKeepsInv ==
  ASSUME InboxInv, TypeInv', LockHeld', UNCHANGED tables, NEW c \in Callers,
         NEW pc \in CallPoints \ {"ok"}, Goto(c, pc),
         pc \in {"find", "message", "publish"} /\ Asked(c).op = "compaction"
           => NoCompaction
  PROVE  InboxInv'
<1>1. /\ call'[c] = [call[c] EXCEPT !.at = pc]
      /\ \A d \in Callers \ {c} : call'[d] = call[d]
  BY GotoType DEF InboxInv
<1>2. call'[c].at = pc /\ call'[c].request = Asked(c)
  BY <1>1 DEF InboxInv, TypeInv, TypeOK, Call, Asked
<1>3. Looked(c)' => NoCompaction
  BY <1>2 DEF Looked, Asked
<1>4. ~Answered(c)'
  BY <1>2 DEF Answered
<1>5. NothingEnters
  BY DEF NothingEnters, Pending, tables
<1> QED BY <1>1, <1>3, <1>4, <1>5, OneCallMoved

-------------------------------------------------------------------------------
(* The callers' steps. *)

LEMMA ReadKeepsInv ==
  ASSUME InboxInv, TypeInv', LockHeld', NEW c \in Callers,
         \/ Acquire(c) \/ Find(c) \/ FindMessage(c) \/ Refind(c)
         \/ FindExact(c) \/ FindPromoted(c) \/ FindPending(c)
  PROVE  InboxInv'
<1>0. /\ call[c].at # "new" => Asked(c) \in Requests /\ Asked(c).id \in IDs
      /\ call[c].at \in Admitting => Asked(c).op \in Types
      /\ call[c].at \in Compacting => Asked(c).op = "compaction"
      /\ Looked(c) => NoCompaction
  BY RequestShape DEF InboxInv, TypeInv, CallShape, NoneSeen
<1>a. UNCHANGED tables
  BY DEF Acquire, Find, FindMessage, Refind, FindExact, FindPromoted, FindPending
<1>b. NothingEnters
  BY <1>a DEF NothingEnters, Pending, tables
<1>c. ASSUME Reply(c, "conflict", None) PROVE InboxInv'
  BY <1>b, <1>c, ReplyKeepsInv
<1>d. ASSUME NEW i \in IDs, Reply(c, "ok", i), Kept(i, Asked(c).op) PROVE InboxInv'
  BY <1>b, <1>d, ReplyKeepsInv
<1> USE DEF At, CallPoints, Admitting, Compacting
<1>1. CASE Acquire(c)
  <2>1. EntryPoint(Asked(c)) = "find" => Asked(c).op # "compaction"
    BY DEF EntryPoint, Commands
  <2>2. EntryPoint(Asked(c)) \in {"mutate", "exact", "find"}
    BY DEF EntryPoint
  <2> QED BY <1>1, <1>a, <2>1, <2>2, GotoKeepsInv DEF Acquire
<1>2. CASE Find(c)
  <2>1. CASE Goto(c, "message")
    BY <1>0, <1>2, <1>a, <2>1, GotoKeepsInv DEF Find, Looked
  <2>2. CASE /\ Asked(c).id \in Pending /\ Matches(c, inbox[Asked(c).id].type)
             /\ Reply(c, "ok", Asked(c).id)
    BY <1>0, <1>2, <1>d, <2>2 DEF Find, Matches, Kept
  <2> QED BY <1>2, <1>c, <2>1, <2>2 DEF Find
<1>3. CASE FindMessage(c)
  <2>1. CASE Goto(c, "publish")
    BY <1>0, <1>3, <1>a, <2>1, GotoKeepsInv DEF FindMessage, Looked
  <2>2. CASE Matches(c, message[Asked(c).id]) /\ Reply(c, "ok", Asked(c).id)
    BY <1>0, <1>3, <1>d, <2>2 DEF FindMessage, Matches, Kept
  <2> QED BY <1>3, <1>c, <2>1, <2>2 DEF FindMessage
<1>4. CASE Refind(c)
  <2>1. CASE /\ Asked(c).id \in Pending /\ Matches(c, inbox[Asked(c).id].type)
             /\ Reply(c, "ok", Asked(c).id)
    BY <1>0, <1>4, <1>d, <2>1 DEF Refind, Matches, Kept
  <2> QED BY <1>4, <1>c, <2>1 DEF Refind
<1>5. CASE FindExact(c)
  <2>1. CASE Goto(c, "promoted")
    BY <1>5, <1>a, <2>1, GotoKeepsInv
  <2>2. CASE /\ Asked(c).id \in Pending /\ inbox[Asked(c).id].type = "compaction"
             /\ Reply(c, "ok", Asked(c).id)
    BY <1>0, <1>5, <1>d, <2>2 DEF FindExact, Kept
  <2> QED BY <1>5, <1>c, <2>1, <2>2 DEF FindExact
<1>6. CASE FindPromoted(c)
  <2>1. CASE Goto(c, "pending")
    BY <1>6, <1>a, <2>1, GotoKeepsInv
  <2> QED BY <1>6, <1>c, <2>1 DEF FindPromoted
<1>7. CASE FindPending(c)
  <2>1. CASE NoCompaction /\ Goto(c, "find")
    BY <1>7, <1>a, <2>1, GotoKeepsInv
  <2>2. CASE \E i \in Pending : inbox[i].type = "compaction" /\ Reply(c, "ok", i)
    BY <1>0, <1>7, <1>d, <2>2 DEF FindPending, Kept, Pending
  <2> QED BY <1>7, <2>1, <2>2 DEF FindPending, NoCompaction
<1> QED BY <1>1, <1>2, <1>3, <1>4, <1>5, <1>6, <1>7

LEMMA BeginKeepsInv ==
  ASSUME InboxInv, TypeInv', LockHeld', NEW c \in Callers, NEW r \in Requests, Begin(c, r)
  PROVE  InboxInv'
<1>1. /\ \A d \in Callers \ {c} : call'[d] = call[d]
      /\ call'[c].request = r
      /\ call'[c].at = IF Locked(r) THEN "lock" ELSE "find"
  BY DEF Begin, InboxInv, TypeInv, TypeOK
<1>2. ~Looked(c)' /\ ~Answered(c)'
  BY <1>1 DEF Looked, Answered, Asked, Locked, Prompts
<1>3. NothingEnters
  BY DEF Begin, NothingEnters, Pending, tables
<1> QED BY <1>1, <1>2, <1>3, OneCallMoved

(* Only a row whose id has neither a row nor a message enters, and a       *)
(* compaction only while its request holds the lock and has seen none.     *)
LEMMA PublishKeepsInv ==
  ASSUME InboxInv, TypeInv', LockHeld', NEW c \in Callers, Publish(c)
  PROVE  InboxInv'
<1> DEFINE i == Asked(c).id
<1>0. /\ Asked(c) \in Requests /\ i \in IDs /\ Asked(c).op \in Types
      /\ call[c].at = "publish"
  BY RequestShape DEF Publish, At, InboxInv, TypeInv, CallShape, Admitting
<1>1. CASE i \in Pending \/ message[i] # None
  <2>1. Goto(c, "refind") /\ UNCHANGED tables
    BY <1>1 DEF Publish
  <2> QED BY <2>1, GotoKeepsInv DEF CallPoints
<1>2. CASE i \notin Pending /\ message[i] = None
  <2>1. /\ inbox' = [inbox EXCEPT ![i] = Row1(Asked(c))]
        /\ UNCHANGED <<message, cancelled, promoter>>
        /\ Reply(c, "ok", i)
    BY <1>2 DEF Publish
  <2>2. /\ call' \in [Callers -> Call]
        /\ call'[c] = [call[c] EXCEPT !.at = "ok", !.got = i]
        /\ \A d \in Callers \ {c} : call'[d] = call[d]
        /\ lock' \in Callers \cup {Runner, None}
    BY <1>0, <2>1, ReplyType DEF InboxInv
  <2>3. call'[c].at = "ok" /\ call'[c].got = i /\ call'[c].request = Asked(c)
    BY <2>2 DEF InboxInv, TypeInv, TypeOK, Call, Asked
  <2>4. /\ inbox'[i].type = Asked(c).op /\ inbox'[i] # None
        /\ \A j \in IDs \ {i} : inbox'[j] = inbox[j]
    <3>1. inbox'[i] = Row1(Asked(c)) /\ \A j \in IDs \ {i} : inbox'[j] = inbox[j]
      BY <1>0, <2>1 DEF InboxInv, TypeInv, TypeOK
    <3>2. Row1(Asked(c)).type = Asked(c).op
      BY DEF Row1
    <3>3. Row1(Asked(c)) # None
      BY <1>0, RequestShape, InboxAssumption DEF Row1, InboxInv, TypeInv, TypeOK
    <3> QED BY <3>1, <3>2, <3>3
  <2>5. Pending' = Pending \cup {i}
    BY <1>0, <2>4 DEF Pending
  <2> HIDE DEF i
  <2>6. Asked(c).op = "compaction" =>
          NoCompaction /\ \A d \in Callers \ {c} : ~Looked(d)
    <3> SUFFICES ASSUME Asked(c).op = "compaction"
                 PROVE  NoCompaction /\ \A d \in Callers \ {c} : ~Looked(d)
      OBVIOUS
    <3>1. \A d \in Callers : Looked(d) => UnderLock(d)
      BY DEF Looked, UnderLock, Admitting, Controls
    <3>2. Looked(c)
      BY <1>0 DEF Looked
    <3> QED BY <3>1, <3>2 DEF InboxInv, LockHeld, NoneSeen
  <2>7. PendingOrDelivered'
    BY <1>2, <2>1, <2>4 DEF InboxInv, PendingOrDelivered
  <2>8. NoneSeen'
    <3> SUFFICES ASSUME NEW d \in Callers, Looked(d)' PROVE NoCompaction'
      BY DEF NoneSeen
    <3>1. d # c /\ Looked(d)
      BY <2>2, <2>3 DEF Looked, Asked
    <3>2. Asked(c).op # "compaction" /\ NoCompaction
      BY <2>6, <3>1 DEF InboxInv, NoneSeen
    <3> QED BY <2>4, <2>5, <3>2 DEF NoCompaction, Pending
  <2>9. OneCompaction'
    BY <2>4, <2>5, <2>6 DEF InboxInv, OneCompaction, NoCompaction, Pending
  <2>10. AnswersNameItems'
    BY <1>0, <2>2, <2>3 DEF InboxInv, AnswersNameItems, Answered, Asked, i
  <2>11. \A j \in IDs, t \in Types : Kept(j, t) => Kept(j, t)'
    BY <1>2, <2>1, <2>4, <2>5 DEF Kept
  <2>12. AnswersAreKept'
    <3> SUFFICES ASSUME NEW d \in Callers, Answered(d)'
                 PROVE  Kept(call[d].got, Asked(d).op)'
      BY DEF AnswersAreKept
    <3>1. CASE d = c
      BY <2>3, <2>4, <2>5, <3>1 DEF Kept, Asked
    <3>2. CASE d # c
      <4>1. Answered(d) /\ call'[d] = call[d]
        BY <2>2, <3>2 DEF Answered, Asked
      <4>2. PICK j \in IDs, t \in Types : j = call[d].got /\ t = Asked(d).op
        BY <4>1 DEF InboxInv, AnswersNameItems, Answered
      <4>3. Kept(j, t)'
        BY <2>11, <4>1, <4>2 DEF InboxInv, AnswersAreKept
      <4> QED BY <4>1, <4>2, <4>3 DEF Kept, Asked
    <3> QED BY <3>1, <3>2
  <2> QED BY <2>7, <2>8, <2>9, <2>10, <2>12 DEF InboxInv
<1> QED BY <1>1, <1>2

LEMMA MutateKeepsInv ==
  ASSUME InboxInv, TypeInv', LockHeld', NEW c \in Callers, Mutate(c)
  PROVE  InboxInv'
<1> DEFINE i == Asked(c).id
<1>0. i \in IDs /\ Asked(c).op \in Commands /\ Asked(c).op \notin Types
  BY RequestShape DEF Mutate, At, InboxInv, TypeInv, CallShape, Commands, Types, Prompts, Controls
<1>1. \E answer \in {"ok", "conflict"}, j \in IDs \cup {None} : Reply(c, answer, j)
  BY <1>0 DEF Mutate
<1>2. NothingEnters
  <2>1. CASE UNCHANGED tables
    BY <2>1 DEF NothingEnters, Pending, tables
  <2>2. CASE /\ i \in Pending /\ inbox' = [inbox EXCEPT ![i] = None]
             /\ cancelled' = cancelled \cup {i} /\ UNCHANGED message
    BY <1>0, <2>2 DEF NothingEnters, Pending, InboxInv, TypeInv, TypeOK
  <2>3. CASE /\ i \in Pending /\ inbox' = [inbox EXCEPT ![i].delivery = Asked(c).op]
             /\ Asked(c).op # "cancel" /\ UNCHANGED <<message, cancelled>>
    <3>1. inbox[i] \in Row /\ inbox[i] # None
      BY <1>0, <2>3 DEF Pending, InboxInv, TypeInv, TypeOK
    <3>2. /\ inbox'[i].type = inbox[i].type
          /\ \A j \in IDs \ {i} : inbox'[j] = inbox[j]
      BY <1>0, <2>3, <3>1 DEF Row, InboxInv, TypeInv, TypeOK
    <3>3. \A j \in Pending' : j \in Pending
      BY <2>3, <3>2 DEF Pending
    <3>4. \A j \in Pending : j # i => j \in Pending'
      BY <3>2 DEF Pending
    <3>5. i \in Pending'
      <4>1. inbox'[i] = [inbox[i] EXCEPT !.delivery = Asked(c).op]
        BY <1>0, <2>3 DEF InboxInv, TypeInv, TypeOK
      <4>2. Asked(c).op \in Deliveries
        BY <1>0, <2>3 DEF Commands, Deliveries
      <4>3. inbox'[i] \in Row
        BY <3>1, <4>1, <4>2 DEF Row
      <4> QED BY <1>0, <4>3, InboxAssumption DEF Row, Pending
    <3> QED BY <2>3, <3>2, <3>3, <3>4, <3>5 DEF NothingEnters
  <2> QED BY <2>1, <2>2, <2>3 DEF Mutate
<1> QED BY <1>0, <1>1, <1>2, ReplyKeepsInv

LEMMA RecoverKeepsInv ==
  ASSUME InboxInv, TypeInv', LockHeld', NEW c \in Callers, Recover(c)
  PROVE  InboxInv'
<1>1. NothingEnters
  BY DEF Recover, NothingEnters, Pending, InboxInv, TypeInv, TypeOK
<1> QED BY <1>1, ReplyKeepsInv DEF Recover

-------------------------------------------------------------------------------
(* The runner's steps and a crash. *)

LEMMA DeliverEntersNothing ==
  ASSUME InboxInv, NEW i \in Pending, Deliver(i)
  PROVE  NothingEnters
<1>1. /\ i \in IDs
      /\ \A j \in IDs : inbox'[j] = IF j = i THEN None ELSE inbox[j]
      /\ \A j \in IDs : message'[j] =
           IF j = i /\ inbox[i].type # "move" THEN inbox[i].type ELSE message[j]
      /\ cancelled' = cancelled
  BY DEF Deliver, Pending, InboxInv, TypeInv, TypeOK
<1>2. Pending' = Pending \ {i}
  BY <1>1 DEF Pending
<1> QED BY <1>1, <1>2 DEF NothingEnters, Pending

LEMMA RunnerKeepsInv ==
  ASSUME InboxInv, TypeInv', LockHeld',
         \/ PromoterStep \/ InterruptRunner
         \/ \E scope \in Scopes, task \in {"boundary", "promote"} : StartTask(task, scope)
  PROVE  InboxInv'
<1>1. UNCHANGED call
  BY DEF PromoterStep, InterruptRunner, StartTask, AcquireRunner, BoundarySteers,
         BoundaryQueued, DeliverControl, PromoteSteers, PromoteQueued, PublishNext,
         PublishLate, PublishDone
<1>2. UNCHANGED tables \/ \E i \in Pending : Deliver(i)
  <2>1. CASE DeliverControl
    BY <2>1 DEF DeliverControl
  <2>2. CASE PublishNext
    BY <2>2 DEF PublishNext
  <2>3. CASE ~DeliverControl /\ ~PublishNext
    BY <2>3 DEF PromoterStep, InterruptRunner, StartTask, AcquireRunner, BoundarySteers,
           BoundaryQueued, PromoteSteers, PromoteQueued, PublishLate, PublishDone
  <2> QED BY <2>1, <2>2, <2>3
<1>3. NothingEnters
  <2>1. CASE UNCHANGED tables
    BY <2>1 DEF NothingEnters, Pending, tables
  <2> QED BY <1>2, <2>1, DeliverEntersNothing
<1> QED BY <1>1, <1>3, CallsAsBefore

LEMMA CrashKeepsInv ==
  ASSUME InboxInv, TypeInv', LockHeld', Crash
  PROVE  InboxInv'
<1>1. NothingEnters
  BY DEF Crash, NothingEnters, Pending, tables
<1>2. \A c \in Callers : call'[c] = call[c] \/ call'[c].at = "lost"
  BY DEF Crash, InboxInv, TypeInv, TypeOK, Call
<1>3. \A c \in Callers : Looked(c)' => NoCompaction
  BY <1>2 DEF Looked, Asked, InboxInv, NoneSeen
<1>4. \A c \in Callers : Answered(c)' => /\ call'[c].got \in IDs
                                        /\ Kept(call'[c].got, call'[c].request.op)
  BY <1>2 DEF Answered, Asked, InboxInv, AnswersNameItems, AnswersAreKept
<1> QED BY <1>1, <1>3, <1>4, WithoutEntry

-------------------------------------------------------------------------------
(* The order of delivery.  That every delivery is in its turn is not       *)
(* inductive: the runner decides on rows at one step and publishes them at *)
(* later ones, while prompts keep being admitted outside the lock.  What   *)
(* it decided on stays due: later rows come behind (RowsAreOrdered), no    *)
(* compaction can come, and whoever could remove or redeliver a row needs  *)
(* the lock the runner holds (LockHeld).                                   *)
RowsAreOrdered ==
  /\ \A i \in Pending : inbox[i].seq <= seq
  /\ \A i, j \in Pending : inbox[i].seq = inbox[j].seq => i = j

ControlIsDue == promoter.at = "deliver" =>
  promoter.next.id \in Pending /\ Ledger!Turn(promoter.next.id)

InBatch(j) == \E r \in promoter.batch : r[1] = j

(* What follows a steered prompt of the batch and is not in it. *)
Follows(j, i) ==
  /\ Ledger!Before(i, j)
  /\ inbox[j].type = "compaction" => Ledger!SteeredMoveBetween(i, j)

SteeredDue(i) ==
  /\ inbox[i].delivery = "steer" /\ inbox[i].type \in Prompts
  /\ \A j \in Steers : ~InBatch(j) => Follows(j, i)

QueuedDue(i) ==
  inbox[i].delivery = "queue" /\ \A j \in Queued \ {i} : Ledger!Before(i, j)

BatchIsDue == promoter.at = "publish" =>
  \A r \in promoter.batch :
    /\ r[1] \in Pending /\ inbox[r[1]].seq = r[2]
    /\ IF promoter.late THEN QueuedDue(r[1]) ELSE SteeredDue(r[1])

OrderInv == RowsAreOrdered /\ ControlIsDue /\ BatchIsDue

LEMMA RowFacts ==
  ASSUME InboxInv, NEW i \in Pending
  PROVE  /\ i \in IDs /\ inbox[i] \in Row /\ inbox[i] # None
         /\ inbox[i].seq \in Nat /\ inbox[i].delivery \in Deliveries
         /\ inbox[i].type \in Prompts \/ inbox[i].type \in Controls
         /\ ~(inbox[i].type \in Prompts /\ inbox[i].type \in Controls)
BY DEF InboxInv, TypeInv, TypeOK, Pending, Row, Types, Prompts, Controls

LEMMA PromoterFacts ==
  ASSUME InboxInv
  PROVE  promoter \in Promoter /\ promoter.batch \in SUBSET (IDs \X Nat)
BY DEF InboxInv, TypeInv, TypeOK, Promoter

(* The table is left alone, or rows leave it. *)
LEMMA RowsAreRemoved ==
  ASSUME RowsAreOrdered, Pending' \subseteq Pending, seq' = seq,
         \A i \in Pending' : inbox'[i].seq = inbox[i].seq
  PROVE  RowsAreOrdered'
BY DEF RowsAreOrdered

LEMMA OrderStays ==
  ASSUME OrderInv, UNCHANGED tables, UNCHANGED promoter
  PROVE  OrderInv'
<1>1. UNCHANGED <<inbox, seq>>
  BY DEF tables
<1>2. RowsAreOrdered'
  BY <1>1 DEF OrderInv, RowsAreOrdered, Pending
<1>3. ControlIsDue'
  BY <1>1 DEF OrderInv, ControlIsDue, Pending, Ledger!Turn, Ledger!PromptTurn, Ledger!ControlTurn,
     Ledger!SteeredMoveBetween, Ledger!Before, Ledger!Mode, Ledger!Pending
<1>4. BatchIsDue'
  BY <1>1 DEF OrderInv, BatchIsDue, QueuedDue, SteeredDue, Follows, InBatch, Steers, Queued, Mode,
     Pending, Ledger!SteeredMoveBetween, Ledger!Before, Ledger!Mode, Ledger!Pending
<1> QED BY <1>2, <1>3, <1>4 DEF OrderInv

(* The runner is not in the middle of a decision. *)
LEMMA OrderAtRest ==
  ASSUME RowsAreOrdered', promoter'.at \notin {"deliver", "publish"}
  PROVE  OrderInv'
BY DEF OrderInv, ControlIsDue, BatchIsDue

LEMMA RestsWithoutLock ==
  ASSUME InboxInv, NEW c \in Callers, UnderLock(c)
  PROVE  promoter.at \notin {"deliver", "publish"}
<1>1. lock = c /\ c # Runner
  BY InboxAssumption DEF InboxInv, LockHeld
<1> QED BY <1>1 DEF InboxInv, LockHeld

-------------------------------------------------------------------------------
(* A row is admitted. *)
LEMMA AdmissionKeepsTurns ==
  ASSUME InboxInv, RowsAreOrdered, NEW i \in IDs, i \notin Pending, NEW row,
         inbox' = [inbox EXCEPT ![i] = row], row # None, row.type \in Prompts, row.seq = seq + 1
  PROVE  /\ \A n \in Pending : Ledger!Turn(n) => Ledger!Turn(n)'
         /\ \A n \in Pending, j \in Pending : Follows(j, n) => Follows(j, n)'
         /\ \A n \in Pending : Follows(i, n)'
<1>1. inbox'[i] = row /\ \A j \in IDs \ {i} : inbox'[j] = inbox[j]
  BY DEF InboxInv, TypeInv, TypeOK
<1>2. Pending' = Pending \cup {i} /\ \A j \in Pending : inbox'[j] = inbox[j]
  BY <1>1 DEF Pending
<1>3. Ledger!Pending = Pending /\ Ledger!Pending' = Pending'
  BY DEF Ledger!Pending, Pending
<1>4. \A j \in Pending : Ledger!Before(j, i)' /\ ~Ledger!Before(i, j)'
  <2> SUFFICES ASSUME NEW j \in Pending
               PROVE  inbox[j].seq < row.seq /\ ~(row.seq < inbox[j].seq)
    BY <1>1, <1>2 DEF Ledger!Before
  <2>1. inbox[j].seq \in Nat /\ seq \in Nat /\ inbox[j].seq <= seq
    BY RowFacts DEF RowsAreOrdered, InboxInv, TypeInv, TypeOK
  <2> QED BY <2>1
<1>5. \A j, n \in Pending : Ledger!Before(j, n)' <=> Ledger!Before(j, n)
  BY <1>2 DEF Ledger!Before
<1>6. \A d \in Deliveries : /\ Ledger!Mode(d) \subseteq Pending
                            /\ Ledger!Mode(d) \subseteq Ledger!Mode(d)'
                            /\ Ledger!Mode(d)' \subseteq Ledger!Mode(d) \cup {i}
  BY <1>2, <1>3 DEF Ledger!Mode
<1>7. row.type # "compaction" /\ row.type \notin Controls
  BY DEF Prompts, Controls
<1>8. \A n, j \in Pending : Ledger!SteeredMoveBetween(n, j) => Ledger!SteeredMoveBetween(n, j)'
  BY <1>2, <1>5, <1>6 DEF Ledger!SteeredMoveBetween, Deliveries
<1>9. ASSUME NEW n \in Pending, Ledger!Turn(n) PROVE Ledger!Turn(n)'
  <2>1. inbox'[n] = inbox[n] /\ n # i
    BY <1>2
  <2>2. CASE inbox[n].delivery = "queue"
    BY <1>4, <1>5, <1>6, <1>9, <2>1, <2>2 DEF Ledger!Turn, Deliveries
  <2>3. CASE inbox[n].delivery # "queue" /\ inbox[n].type \in Ledger!Prompts
    <3>1. Ledger!PromptTurn(n)
      BY <1>9, <2>3 DEF Ledger!Turn
    <3>2. Ledger!PromptTurn(n)'
      <4> SUFFICES ASSUME NEW j \in Ledger!Mode("steer")', j # n
                   PROVE  /\ Ledger!Before(n, j)'
                          /\ inbox'[j].type = "compaction" => Ledger!SteeredMoveBetween(n, j)'
        BY DEF Ledger!PromptTurn
      <4>1. CASE j = i
        BY <1>1, <1>4, <1>7, <4>1
      <4>2. CASE j # i
        BY <1>2, <1>5, <1>6, <1>8, <3>1, <4>2 DEF Ledger!PromptTurn, Deliveries
      <4> QED BY <4>1, <4>2
    <3> QED BY <2>1, <2>3, <3>2 DEF Ledger!Turn, Ledger!Prompts
  <2>4. CASE inbox[n].delivery # "queue" /\ inbox[n].type \notin Ledger!Prompts
    <3>1. Ledger!ControlTurn(n)
      BY <1>9, <2>4 DEF Ledger!Turn
    <3>2. Ledger!ControlTurn(n)'
      BY <1>2, <1>4, <1>5, <1>6, <2>1, <3>1 DEF Ledger!ControlTurn, Ledger!Prompts, Deliveries
    <3> QED BY <2>1, <2>4, <3>2 DEF Ledger!Turn, Ledger!Prompts
  <2> QED BY <2>2, <2>3, <2>4
<1>10. \A n, j \in Pending : Follows(j, n) => Follows(j, n)'
  BY <1>2, <1>5, <1>8 DEF Follows
<1>11. \A n \in Pending : Follows(i, n)'
  BY <1>1, <1>4, <1>7 DEF Follows
<1> QED BY <1>9, <1>10, <1>11

LEMMA AdmissionKeepsOrder ==
  ASSUME InboxInv, OrderInv, NEW i \in IDs, i \notin Pending, NEW row \in Row,
         row.type \in Prompts \/ promoter.at \notin {"deliver", "publish"}, row.seq = seq + 1,
         inbox' = [inbox EXCEPT ![i] = row], seq' = seq + 1, UNCHANGED promoter
  PROVE  OrderInv'
<1>1. seq \in Nat /\ inbox \in [IDs -> Row \cup {None}]
  BY DEF InboxInv, TypeInv, TypeOK
<1>2. row # None
  BY InboxAssumption DEF Row
<1>3. /\ inbox'[i] = row /\ Pending' = Pending \cup {i}
      /\ \A j \in Pending : inbox'[j] = inbox[j]
  BY <1>1, <1>2 DEF Pending
<1>4. \A j \in Pending : inbox[j].seq \in Nat /\ inbox[j].seq <= seq
  BY RowFacts DEF OrderInv, RowsAreOrdered
<1>5. RowsAreOrdered'
  <2>1. \A j \in Pending' : inbox'[j].seq <= seq'
    BY <1>1, <1>3, <1>4
  <2>2. \A j, k \in Pending' : inbox'[j].seq = inbox'[k].seq => j = k
    BY <1>1, <1>3, <1>4 DEF OrderInv, RowsAreOrdered
  <2> QED BY <2>1, <2>2 DEF RowsAreOrdered
<1>6. CASE promoter.at \notin {"deliver", "publish"}
  BY <1>5, <1>6, OrderAtRest
<1>7. CASE row.type \in Prompts
  <2>1. /\ \A n \in Pending : Ledger!Turn(n) => Ledger!Turn(n)'
        /\ \A n \in Pending, j \in Pending : Follows(j, n) => Follows(j, n)'
        /\ \A n \in Pending : Follows(i, n)'
    BY <1>2, <1>7, AdmissionKeepsTurns DEF OrderInv
  <2>2. ControlIsDue'
    BY <1>3, <2>1 DEF OrderInv, ControlIsDue
  <2>3. ASSUME NEW n \in Pending, SteeredDue(n) PROVE SteeredDue(n)'
    <3> SUFFICES ASSUME NEW j \in Steers', ~InBatch(j)' PROVE Follows(j, n)'
      BY <1>3, <2>3 DEF SteeredDue
    <3>1. CASE j = i
      BY <2>1, <3>1
    <3>2. CASE j # i
      <4>1. j \in Steers /\ j \in Pending /\ ~InBatch(j)
        BY <1>3, <3>2 DEF Steers, Mode, InBatch
      <4> QED BY <2>1, <2>3, <4>1 DEF SteeredDue
    <3> QED BY <3>1, <3>2
  <2>4. ASSUME NEW n \in Pending, QueuedDue(n) PROVE QueuedDue(n)'
    <3> SUFFICES ASSUME NEW j \in Queued' \ {n} PROVE Ledger!Before(n, j)'
      BY <1>3, <2>4 DEF QueuedDue
    <3>1. CASE j = i
      BY <2>1, <3>1 DEF Follows
    <3>2. CASE j # i
      BY <1>3, <2>4, <3>2 DEF QueuedDue, Queued, Mode, Ledger!Before
    <3> QED BY <3>1, <3>2
  <2>5. BatchIsDue'
    BY <1>3, <2>3, <2>4 DEF OrderInv, BatchIsDue
  <2> QED BY <1>5, <2>2, <2>5 DEF OrderInv
<1> QED BY <1>6, <1>7

(* What an admission that is not refused puts into the table. *)
LEMMA PublishFacts ==
  ASSUME InboxInv, NEW c \in Callers, Publish(c)
  PROVE  \/ UNCHANGED tables
         \/ \E i \in IDs, row \in Row :
              /\ i \notin Pending /\ message[i] = None
              /\ row.type \in Types /\ row.delivery \in Deliveries /\ row.seq = seq + 1
              /\ row = [type |-> row.type, delivery |-> row.delivery, seq |-> row.seq]
              /\ row.type \in Prompts \/ promoter.at \notin {"deliver", "publish"}
              /\ row.type = "compaction" => NoCompaction
              /\ inbox' = [inbox EXCEPT ![i] = row] /\ seq' = seq + 1
              /\ UNCHANGED <<message, cancelled, promoter>>
<1> DEFINE r == Asked(c)
           i == r.id
           row == Row1(r)
<1>1. /\ r \in Requests /\ i \in IDs /\ r.op \in Types /\ r.delivery \in Deliveries
      /\ call[c].at = "publish" /\ seq \in Nat
  BY RequestShape DEF Publish, At, InboxInv, TypeInv, TypeOK, CallShape, Admitting
<1>2. /\ row.type = r.op /\ row.delivery = r.delivery /\ row.seq = seq + 1 /\ row \in Row
      /\ row = [type |-> row.type, delivery |-> row.delivery, seq |-> row.seq]
  BY <1>1 DEF Row1, Row
<1>3. r.op \in Controls => promoter.at \notin {"deliver", "publish"}
  BY <1>1, RestsWithoutLock DEF UnderLock, Admitting
<1>4. r.op = "compaction" => NoCompaction
  BY <1>1 DEF InboxInv, NoneSeen, Looked
<1>5. CASE i \notin Pending /\ message[i] = None
  <2>1. /\ inbox' = [inbox EXCEPT ![i] = row] /\ seq' = seq + 1
        /\ UNCHANGED <<message, cancelled, promoter>>
    BY <1>5 DEF Publish
  <2> HIDE DEF r, i, row
  <2> QED BY <1>1, <1>2, <1>3, <1>4, <1>5, <2>1 DEF Types
<1> QED BY <1>5 DEF Publish

LEMMA PublishKeepsOrder ==
  ASSUME InboxInv, OrderInv, NEW c \in Callers, Publish(c)
  PROVE  OrderInv'
<1>1. UNCHANGED promoter
  BY DEF Publish
<1> QED BY <1>1, OrderStays, PublishFacts, AdmissionKeepsOrder

(* Rows are cancelled, redelivered, or moved past by a recovered move. *)
LEMMA CommandsKeepOrder ==
  ASSUME InboxInv, OrderInv, NEW c \in Callers, Mutate(c) \/ Recover(c)
  PROVE  OrderInv'
<1>1. promoter.at \notin {"deliver", "publish"} /\ UNCHANGED <<promoter, seq>>
  <2>1. UnderLock(c)
    BY DEF Mutate, Recover, At, UnderLock, Admitting, Controls
  <2>2. UNCHANGED seq
    BY DEF Mutate, Recover, tables
  <2> QED BY <2>1, <2>2, RestsWithoutLock DEF Mutate, Recover
<1>2. Pending' \subseteq Pending /\ \A i \in Pending' : inbox'[i].seq = inbox[i].seq
  <2>1. CASE Recover(c)
    BY <2>1 DEF Recover, Pending
  <2>2. CASE Mutate(c)
    <3> DEFINE i == Asked(c).id
               op == Asked(c).op
    <3>0. inbox \in [IDs -> Row \cup {None}]
      BY DEF InboxInv, TypeInv, TypeOK
    <3>1. CASE UNCHANGED tables
      BY <3>1 DEF tables, Pending
    <3>2. CASE i \in Pending /\ inbox' = [inbox EXCEPT ![i] = None]
      BY <3>0, <3>2 DEF Pending
    <3>3. CASE i \in Pending /\ inbox' = [inbox EXCEPT ![i].delivery = op]
      <4>1. i \in IDs /\ inbox[i] \in Row
        BY <3>3, RowFacts
      <4>2. inbox'[i].seq = inbox[i].seq /\ \A j \in IDs \ {i} : inbox'[j] = inbox[j]
        BY <3>0, <3>3, <4>1 DEF Row
      <4> HIDE DEF i, op
      <4> QED BY <3>3, <4>2 DEF Pending
    <3> QED BY <2>2, <3>1, <3>2, <3>3 DEF Mutate
  <2> QED BY <2>1, <2>2
<1> QED BY <1>1, <1>2, RowsAreRemoved, OrderAtRest DEF OrderInv

-------------------------------------------------------------------------------
(* The runner decides. *)
LEMMA TurnNames ==
  /\ Ledger!Pending = Pending /\ Ledger!Mode("steer") = Steers /\ Ledger!Mode("queue") = Queued
  /\ Ledger!Prompts = Prompts
BY DEF Ledger!Pending, Pending, Ledger!Mode, Mode, Steers, Queued, Ledger!Prompts, Prompts

LEMMA OldestIsBefore ==
  ASSUME InboxInv, RowsAreOrdered, NEW S \in SUBSET Pending, NEW i, Oldest(i, S)
  PROVE  \A j \in S \ {i} : Ledger!Before(i, j) /\ ~Ledger!Before(j, i)
<1> SUFFICES ASSUME NEW j \in S, j # i
             PROVE  inbox[i].seq < inbox[j].seq /\ ~(inbox[j].seq < inbox[i].seq)
  BY DEF Ledger!Before
<1>1. i \in Pending /\ j \in Pending /\ inbox[i].seq <= inbox[j].seq
  BY DEF Oldest
<1>2. inbox[i].seq # inbox[j].seq
  BY <1>1 DEF RowsAreOrdered
<1>3. inbox[i].seq \in Nat /\ inbox[j].seq \in Nat
  BY <1>1, RowFacts
<1> QED BY <1>1, <1>2, <1>3

LEMMA HeadControlIsDue ==
  ASSUME InboxInv, RowsAreOrdered, NEW i, Head(i, Steers), IsControl(i)
  PROVE  i \in Pending /\ Ledger!Turn(i)
<1>1. i \in Steers /\ i \in Pending /\ inbox[i].delivery = "steer"
  BY DEF Head, Oldest, ControlsIn, Steers, Mode
<1>2. inbox[i].type \notin Prompts
  BY <1>1, RowFacts DEF IsControl
<1>3. Steers \subseteq Pending /\ ControlsIn(Steers) \subseteq Steers
  BY DEF Steers, Mode, ControlsIn
<1>4. Ledger!ControlTurn(i)
  <2> SUFFICES ASSUME NEW j \in Steers \ {i}, Ledger!Before(j, i)
               PROVE  inbox[i].type = "compaction" /\ inbox[j].type \in Prompts
    BY TurnNames DEF Ledger!ControlTurn
  <2>1. CASE CompactFirst(Steers)
    <3>1. Oldest(i, ControlsIn(Steers))
      BY <2>1 DEF Head
    <3>2. PICK k \in Steers : Oldest(k, ControlsIn(Steers)) /\ inbox[k].type = "compaction"
      BY <2>1 DEF CompactFirst
    <3>3. k = i
      BY <1>3, <3>1, <3>2, OldestIsBefore DEF Oldest
    <3>4. j \notin ControlsIn(Steers)
      BY <1>3, <3>1, OldestIsBefore
    <3>5. inbox[j].type \in Prompts
      BY <1>3, <3>4, RowFacts DEF ControlsIn, IsControl
    <3> QED BY <3>2, <3>3, <3>5
  <2>2. CASE ~CompactFirst(Steers)
    BY <1>3, <2>2, OldestIsBefore DEF Head
  <2> QED BY <2>1, <2>2
<1> QED BY <1>1, <1>2, <1>4, TurnNames DEF Ledger!Turn

LEMMA OldestQueuedIsDue ==
  ASSUME InboxInv, RowsAreOrdered, NEW i, Oldest(i, Queued)
  PROVE  i \in Pending /\ QueuedDue(i) /\ Ledger!Turn(i)
<1>1. i \in Queued /\ Queued \subseteq Pending /\ inbox[i].delivery = "queue"
  BY DEF Oldest, Queued, Mode
<1>2. \A j \in Queued \ {i} : Ledger!Before(i, j)
  BY <1>1, OldestIsBefore
<1> QED BY <1>1, <1>2, TurnNames DEF QueuedDue, Ledger!Turn

LEMMA BeforeControlIsDue ==
  ASSUME InboxInv, RowsAreOrdered, NEW i \in BeforeControl(Steers)
  PROVE  /\ i \in Pending /\ inbox[i].delivery = "steer" /\ inbox[i].type \in Prompts
         /\ \A j \in Steers \ BeforeControl(Steers) : Follows(j, i)
<1>1. /\ i \in Steers /\ i \in Pending /\ ~CompactFirst(Steers) /\ inbox[i].delivery = "steer"
      /\ \A k \in ControlsIn(Steers) : inbox[i].seq < inbox[k].seq
  BY DEF BeforeControl, Steers, Mode
<1>2. Steers \subseteq Pending /\ ControlsIn(Steers) \subseteq Steers
  BY DEF Steers, Mode, ControlsIn
<1>3. \A j \in Steers : inbox[j].seq \in Nat
  BY <1>2, RowFacts
<1>4. inbox[i].type \in Prompts
  <2>1. i \notin ControlsIn(Steers)
    BY <1>1, <1>3
  <2> QED BY <1>1, <2>1, RowFacts DEF ControlsIn, IsControl
<1>5. ASSUME NEW j \in Steers \ BeforeControl(Steers) PROVE Follows(j, i)
  <2>1. PICK k \in ControlsIn(Steers) : inbox[k].seq <= inbox[j].seq
    BY <1>1, <1>2, <1>3 DEF BeforeControl
  <2>2. Ledger!Before(i, j)
    BY <1>1, <1>2, <1>3, <2>1 DEF Ledger!Before
  <2>3. ASSUME inbox[j].type = "compaction" PROVE Ledger!SteeredMoveBetween(i, j)
    <3>1. j \in ControlsIn(Steers)
      BY <2>3 DEF ControlsIn, IsControl, Controls
    <3>2. PICK m \in ControlsIn(Steers) : inbox[m].seq < inbox[j].seq
      BY <1>1, <1>2, <1>3, <2>3, <3>1 DEF CompactFirst, Oldest
    <3>3. m # j /\ m \in Pending /\ j \in Pending /\ inbox[m].type \in Controls
      BY <1>2, <1>3, <3>2 DEF ControlsIn, IsControl
    <3>4. inbox[m].type = "move"
      BY <2>3, <3>3 DEF InboxInv, OneCompaction, Controls
    <3>5. Ledger!Before(i, m) /\ Ledger!Before(m, j)
      BY <1>1, <3>2 DEF Ledger!Before
    <3> QED BY <1>2, <3>2, <3>4, <3>5, TurnNames DEF Ledger!SteeredMoveBetween
  <2> QED BY <2>2, <2>3 DEF Follows
<1> QED BY <1>1, <1>4, <1>5

(* The runner moves on without touching the tables. *)
LEMMA RunnerMoves ==
  ASSUME OrderInv, UNCHANGED tables,
         promoter'.at = "deliver" =>
           promoter'.next.id \in Pending /\ Ledger!Turn(promoter'.next.id),
         promoter'.at = "publish" =>
           \A r \in promoter'.batch :
             /\ r[1] \in Pending /\ inbox[r[1]].seq = r[2]
             /\ IF promoter'.late THEN QueuedDue(r[1])
                ELSE /\ inbox[r[1]].delivery = "steer" /\ inbox[r[1]].type \in Prompts
                     /\ \A j \in Steers : (\A q \in promoter'.batch : q[1] # j) => Follows(j, r[1])
  PROVE  OrderInv'
<1>1. UNCHANGED <<inbox, seq>>
  BY DEF tables
<1>2. RowsAreOrdered'
  BY <1>1 DEF OrderInv, RowsAreOrdered, Pending
<1>3. ControlIsDue'
  BY <1>1 DEF ControlIsDue, Pending, Ledger!Turn, Ledger!PromptTurn, Ledger!ControlTurn,
     Ledger!SteeredMoveBetween, Ledger!Before, Ledger!Mode, Ledger!Pending
<1>4. /\ Pending' = Pending /\ Steers' = Steers
      /\ \A i, j \in IDs : Follows(j, i)' <=> Follows(j, i)
      /\ \A i \in IDs : QueuedDue(i)' <=> QueuedDue(i)
  BY <1>1 DEF QueuedDue, Follows, Steers, Queued, Mode, Pending,
     Ledger!SteeredMoveBetween, Ledger!Before, Ledger!Mode, Ledger!Pending
<1>5. Pending \subseteq IDs /\ Steers \subseteq IDs
  BY DEF Pending, Steers, Mode
<1>6. BatchIsDue'
  BY <1>1, <1>4, <1>5 DEF BatchIsDue, SteeredDue, InBatch
<1> QED BY <1>2, <1>3, <1>6 DEF OrderInv

LEMMA FinishRests ==
  ASSUME NEW outcome, NEW next, Finish(outcome, next)
  PROVE  promoter'.at = "idle"
BY DEF Finish, IdlePromoter

LEMMA SteersAreRead ==
  ASSUME InboxInv, OrderInv, UNCHANGED tables, promoter'.at = "publish",
         promoter'.batch = Snapshot(BeforeControl(Steers)), promoter'.late = FALSE
  PROVE  OrderInv'
<1>1. ASSUME NEW r \in promoter'.batch
      PROVE  /\ r[1] \in Pending /\ inbox[r[1]].seq = r[2]
             /\ inbox[r[1]].delivery = "steer" /\ inbox[r[1]].type \in Prompts
             /\ \A j \in Steers : (\A q \in promoter'.batch : q[1] # j) => Follows(j, r[1])
  <2>1. r[1] \in BeforeControl(Steers) /\ inbox[r[1]].seq = r[2]
    BY DEF Snapshot
  <2>2. ASSUME NEW j \in Steers, \A q \in promoter'.batch : q[1] # j
        PROVE  j \notin BeforeControl(Steers)
    <3>1. SUFFICES ASSUME j \in BeforeControl(Steers) PROVE FALSE
      OBVIOUS
    <3>2. <<j, inbox[j].seq>> \in promoter'.batch
      BY <3>1 DEF Snapshot
    <3> QED BY <2>2, <3>2
  <2> QED BY <2>1, <2>2, BeforeControlIsDue DEF OrderInv
<1> QED BY <1>1, RunnerMoves

LEMMA DecideKeepsOrder ==
  ASSUME InboxInv, OrderInv, UNCHANGED tables, NEW i \in Pending, Decide(i),
         IsControl(i) => Ledger!Turn(i)
  PROVE  OrderInv'
<1> DEFINE next == [id |-> i, type |-> inbox[i].type, delivery |-> inbox[i].delivery]
<1>1. CASE IsControl(i)
  <2>1. promoter' = [promoter EXCEPT !.at = "deliver", !.next = next]
    BY <1>1 DEF Decide
  <2>2. next.id = i
    OBVIOUS
  <2> HIDE DEF next
  <2>3. promoter'.at = "deliver" /\ promoter'.next = next
    BY <2>1, PromoterFacts DEF Promoter
  <2> QED BY <1>1, <2>2, <2>3, RunnerMoves
<1>2. CASE ~IsControl(i)
  <2>1. promoter'.at = "idle"
    BY <1>2, FinishRests DEF Decide
  <2> QED BY <2>1, RunnerMoves
<1> QED BY <1>1, <1>2

LEMMA DecisionsKeepOrder ==
  ASSUME InboxInv, OrderInv,
         \/ AcquireRunner \/ BoundarySteers \/ BoundaryQueued \/ PromoteSteers \/ PromoteQueued
         \/ PublishLate \/ PublishDone \/ InterruptRunner
         \/ \E scope \in Scopes, task \in {"boundary", "promote"} : StartTask(task, scope)
  PROVE  OrderInv'
<1>0. UNCHANGED tables
  BY DEF AcquireRunner, BoundarySteers, BoundaryQueued, PromoteSteers, PromoteQueued,
         PublishLate, PublishDone, InterruptRunner, StartTask
<1>1. ASSUME promoter'.at \notin {"deliver", "publish"} PROVE OrderInv'
  BY <1>0, <1>1, RunnerMoves
<1>2. ASSUME NEW outcome, NEW next, Finish(outcome, next) PROVE OrderInv'
  BY <1>1, <1>2, FinishRests
<1>3. CASE ThenQueued
  BY <1>1, <1>3, PromoterFacts DEF ThenQueued, Promoter
<1>4. CASE AcquireRunner \/ InterruptRunner
           \/ \E scope \in Scopes, task \in {"boundary", "promote"} : StartTask(task, scope)
  <2>1. promoter'.at \in {"lock", "steers", "idle"}
    BY <1>4, PromoterFacts DEF AcquireRunner, InterruptRunner, StartTask, IdlePromoter, Promoter
  <2> QED BY <1>1, <2>1
<1>5. ASSUME NEW i \in Steers, Head(i, Steers), Decide(i) PROVE OrderInv'
  BY <1>0, <1>5, HeadControlIsDue, DecideKeepsOrder DEF OrderInv, Steers, Mode
<1>6. ASSUME NEW i \in Queued, Oldest(i, Queued), Decide(i) PROVE OrderInv'
  BY <1>0, <1>6, OldestQueuedIsDue, DecideKeepsOrder DEF OrderInv
<1>7. CASE BoundarySteers \/ BoundaryQueued
  BY <1>2, <1>3, <1>5, <1>6, <1>7 DEF BoundarySteers, BoundaryQueued
<1>8. ASSUME NEW S, NEW late \in BOOLEAN, StartPublishing(S, late)
      PROVE  promoter'.at = "publish" /\ promoter'.batch = Snapshot(S) /\ promoter'.late = late
  BY <1>8, PromoterFacts DEF StartPublishing, Promoter
<1>9. CASE PromoteSteers
  <2>1. CASE StartPublishing(BeforeControl(Steers), FALSE)
    BY <1>0, <1>8, <2>1, SteersAreRead
  <2> QED BY <1>2, <1>3, <1>9, <2>1 DEF PromoteSteers
<1>10. CASE PromoteQueued
  <2>1. ASSUME NEW i \in Queued, Oldest(i, Queued), StartPublishing({i}, TRUE) PROVE OrderInv'
    <3>1. promoter'.at = "publish" /\ promoter'.batch = Snapshot({i}) /\ promoter'.late = TRUE
      BY <1>8, <2>1
    <3>2. \A r \in promoter'.batch : r[1] = i /\ inbox[i].seq = r[2]
      BY <3>1 DEF Snapshot
    <3>3. i \in Pending /\ QueuedDue(i)
      BY <2>1, OldestQueuedIsDue DEF OrderInv
    <3> QED BY <1>0, <3>1, <3>2, <3>3, RunnerMoves
  <2> QED BY <1>2, <1>10, <2>1 DEF PromoteQueued
<1>11. CASE PublishLate
  <2>1. /\ promoter'.at = "publish" /\ promoter'.late = FALSE
        /\ promoter'.batch = Snapshot(BeforeControl(Steers))
    BY <1>11, PromoterFacts DEF PublishLate, Promoter
  <2> QED BY <1>0, <2>1, SteersAreRead
<1>12. CASE PublishDone
  BY <1>2, <1>12 DEF PublishDone
<1> QED BY <1>4, <1>7, <1>9, <1>10, <1>11, <1>12

-------------------------------------------------------------------------------
(* The runner delivers. *)
LEMMA DeliverFacts ==
  ASSUME InboxInv, RowsAreOrdered, NEW i \in Pending, Deliver(i)
  PROVE  /\ Pending' = Pending \ {i} /\ \A j \in IDs \ {i} : inbox'[j] = inbox[j]
         /\ RowsAreOrdered'
<1>1. \A j \in IDs : inbox'[j] = IF j = i THEN None ELSE inbox[j]
  BY DEF Deliver, InboxInv, TypeInv, TypeOK
<1>2. Pending' = Pending \ {i} /\ \A j \in IDs \ {i} : inbox'[j] = inbox[j] /\ i \in IDs
  BY <1>1 DEF Pending
<1>3. seq' = seq /\ \A j \in Pending' : inbox'[j].seq = inbox[j].seq
  BY <1>2 DEF Deliver, Pending
<1> QED BY <1>2, <1>3, RowsAreRemoved

LEMMA DeliverControlKeepsOrder ==
  ASSUME InboxInv, OrderInv, DeliverControl
  PROVE  OrderInv'
<1>1. promoter'.at = "idle"
  BY FinishRests DEF DeliverControl
<1>2. CASE promoter.next.id \in Pending
  <2>1. RowsAreOrdered'
    BY <1>2, DeliverFacts DEF DeliverControl, OrderInv
  <2> QED BY <1>1, <2>1, OrderAtRest
<1>3. CASE promoter.next.id \notin Pending
  BY <1>1, <1>3, RunnerMoves DEF DeliverControl
<1> QED BY <1>2, <1>3

(* The rows of a batch are pending until they are published, in order. *)
LEMMA BatchTurn ==
  ASSUME InboxInv, OrderInv, promoter.at = "publish", NEW r \in promoter.batch,
         \A q \in promoter.batch : r[2] <= q[2]
  PROVE  r[1] \in Pending /\ Ledger!Turn(r[1])
<1> DEFINE i == r[1]
<1>1. i \in Pending /\ inbox[i].seq = r[2]
      /\ IF promoter.late THEN QueuedDue(i) ELSE SteeredDue(i)
  BY DEF OrderInv, BatchIsDue
<1>2. CASE promoter.late
  BY <1>1, <1>2, TurnNames DEF QueuedDue, Ledger!Turn
<1>3. CASE ~promoter.late
  <2>1. Ledger!PromptTurn(i)
    <3> SUFFICES ASSUME NEW j \in Steers \ {i}
                 PROVE  /\ Ledger!Before(i, j)
                        /\ inbox[j].type = "compaction" => Ledger!SteeredMoveBetween(i, j)
      BY TurnNames DEF Ledger!PromptTurn
    <3>1. CASE InBatch(j)
      <4>1. PICK q \in promoter.batch : q[1] = j
        BY <3>1 DEF InBatch
      <4>2. j \in Pending /\ inbox[j].seq = q[2] /\ inbox[j].type \in Prompts
        BY <1>3, <4>1 DEF OrderInv, BatchIsDue, SteeredDue
      <4>3. inbox[i].seq # inbox[j].seq
        BY <1>1, <4>2 DEF OrderInv, RowsAreOrdered
      <4>4. inbox[i].seq \in Nat /\ inbox[j].seq \in Nat
        BY <1>1, <4>2, RowFacts
      <4>5. Ledger!Before(i, j)
        BY <1>1, <4>1, <4>2, <4>3, <4>4 DEF Ledger!Before
      <4> QED BY <4>2, <4>5 DEF Prompts
    <3>2. CASE ~InBatch(j)
      BY <1>1, <1>3, <3>2 DEF SteeredDue, Follows
    <3> QED BY <3>1, <3>2
  <2> QED BY <1>1, <1>3, <2>1, TurnNames DEF SteeredDue, Ledger!Turn
<1> QED BY <1>1, <1>2, <1>3

LEMMA PublishNextKeepsOrder ==
  ASSUME InboxInv, OrderInv, PublishNext
  PROVE  OrderInv'
<1>1. PICK r \in promoter.batch :
        /\ \A q \in promoter.batch : r[2] <= q[2]
        /\ r[1] \in Pending => Deliver(r[1])
        /\ r[1] \in Pending \/ message[r[1]] \in Prompts =>
             promoter' = [promoter EXCEPT !.batch = @ \ {r}, !.outcome = "item"]
  BY DEF PublishNext
<1> DEFINE i == r[1]
<1>2. i \in Pending /\ inbox[i].seq = r[2] /\ promoter.at = "publish" /\ Deliver(i)
  BY <1>1 DEF PublishNext, OrderInv, BatchIsDue
<1>3. promoter'.at = "publish" /\ promoter'.batch = promoter.batch \ {r}
      /\ promoter'.late = promoter.late
  BY <1>1, <1>2, PromoterFacts DEF Promoter
<1>4. /\ Pending' = Pending \ {i} /\ \A j \in IDs \ {i} : inbox'[j] = inbox[j]
      /\ RowsAreOrdered' /\ i \in IDs
  BY <1>2, DeliverFacts DEF OrderInv, Pending
<1>5. ASSUME NEW q \in promoter'.batch
      PROVE  /\ q \in promoter.batch /\ q[1] # i /\ q[1] \in Pending /\ inbox[q[1]].seq = q[2]
             /\ q[1] \in IDs
  <2>1. /\ q \in promoter.batch /\ q # r /\ q \in IDs \X Nat /\ r \in IDs \X Nat
    BY <1>3, PromoterFacts
  <2>2. q[1] \in Pending /\ inbox[q[1]].seq = q[2]
    BY <1>2, <2>1 DEF OrderInv, BatchIsDue
  <2>3. q[1] # i
    BY <1>2, <2>1, <2>2
  <2> QED BY <2>1, <2>2, <2>3
<1> HIDE DEF i
<1>6. BatchIsDue'
  <2> SUFFICES ASSUME NEW q \in promoter'.batch
               PROVE  IF promoter'.late THEN QueuedDue(q[1])' ELSE SteeredDue(q[1])'
    BY <1>4, <1>5 DEF BatchIsDue, Pending
  <2> DEFINE k == q[1]
  <2>1. k \in Pending \ {i} /\ k \in IDs /\ inbox'[k] = inbox[k] /\ q \in promoter.batch
    BY <1>4, <1>5
  <2>2. \A j \in Pending \ {i} : inbox'[j] = inbox[j] /\ j \in IDs
    BY <1>4 DEF Pending
  <2>3. CASE promoter.late
    <3>1. QueuedDue(k)
      BY <1>2, <2>1, <2>3 DEF OrderInv, BatchIsDue
    <3>2. inbox'[k].delivery = "queue"
      BY <2>1, <3>1 DEF QueuedDue
    <3>3. \A j \in Queued' \ {k} : Ledger!Before(k, j)'
      BY <1>4, <2>1, <2>2, <3>1 DEF QueuedDue, Queued, Mode, Ledger!Before
    <3> QED BY <1>3, <2>3, <3>2, <3>3 DEF QueuedDue
  <2>4. CASE ~promoter.late
    <3>1. SteeredDue(k)
      BY <1>2, <2>1, <2>4 DEF OrderInv, BatchIsDue
    <3>2. inbox'[k].delivery = "steer" /\ inbox'[k].type \in Prompts
      BY <2>1, <3>1 DEF SteeredDue
    <3>3. inbox[i].type \in Prompts
      BY <1>1, <1>2, <2>4 DEF OrderInv, BatchIsDue, SteeredDue, i
    <3>4. ASSUME NEW j \in Steers', ~InBatch(j)' PROVE Follows(j, k)'
      <4>1. j \in Steers /\ j \in Pending \ {i} /\ inbox'[j] = inbox[j]
        BY <1>4, <2>2, <3>4 DEF Steers, Mode
      <4>2. ~InBatch(j)
        BY <1>3, <3>4, <4>1 DEF InBatch, i
      <4>3. Follows(j, k)
        BY <3>1, <4>1, <4>2 DEF SteeredDue
      <4>4. Ledger!Before(k, j)'
        BY <2>1, <4>1, <4>3 DEF Follows, Ledger!Before
      <4>5. ASSUME Ledger!SteeredMoveBetween(k, j) PROVE Ledger!SteeredMoveBetween(k, j)'
        <5>1. PICK m \in Steers :
                 inbox[m].type = "move" /\ Ledger!Before(k, m) /\ Ledger!Before(m, j)
          BY <4>5, TurnNames DEF Ledger!SteeredMoveBetween
        <5>2. m \in Pending \ {i} /\ inbox'[m] = inbox[m]
          BY <2>2, <3>3, <5>1 DEF Steers, Mode, Prompts
        <5>3. m \in Ledger!Mode("steer")'
          BY <1>4, <5>1, <5>2 DEF Ledger!Mode, Ledger!Pending, Steers, Mode, Pending
        <5>4. Ledger!Before(k, m)' /\ Ledger!Before(m, j)'
          BY <2>1, <4>1, <5>1, <5>2 DEF Ledger!Before
        <5> QED BY <5>1, <5>2, <5>3, <5>4 DEF Ledger!SteeredMoveBetween
      <4> QED BY <4>1, <4>3, <4>4, <4>5 DEF Follows
    <3> QED BY <1>3, <2>4, <3>2, <3>4 DEF SteeredDue
  <2> QED BY <1>3, <2>3, <2>4
<1>7. ControlIsDue'
  BY <1>3 DEF ControlIsDue
<1> QED BY <1>4, <1>6, <1>7 DEF OrderInv

LEMMA OrderNext ==
  ASSUME InboxInv, OrderInv, [Next]_vars
  PROVE  OrderInv'
<1>1. ASSUME NEW c \in Callers, CallerStep(c) PROVE OrderInv'
  <2>1. CASE Mutate(c) \/ Recover(c)
    BY <2>1, CommandsKeepOrder
  <2>2. CASE Publish(c)
    BY <2>2, PublishKeepsOrder
  <2> QED
    BY <1>1, <2>1, <2>2, OrderStays
    DEF CallerStep, Acquire, Find, FindMessage, Refind, FindExact, FindPromoted, FindPending
<1>2. ASSUME NEW c \in Callers, NEW r \in Requests, Begin(c, r) PROVE OrderInv'
  BY <1>2, OrderStays DEF Begin
<1>3. CASE PromoterStep \/ InterruptRunner
           \/ \E scope \in Scopes, task \in {"boundary", "promote"} : StartTask(task, scope)
  BY <1>3, DecisionsKeepOrder, DeliverControlKeepsOrder, PublishNextKeepsOrder DEF PromoterStep
<1>4. CASE Crash
  <2>1. promoter'.at = "idle" /\ UNCHANGED tables
    BY <1>4 DEF Crash, IdlePromoter
  <2> QED BY <2>1, RunnerMoves
<1>5. CASE UNCHANGED vars
  BY <1>5, OrderStays DEF vars
<1> QED BY <1>1, <1>2, <1>3, <1>4, <1>5 DEF Next

-------------------------------------------------------------------------------
(* Every step is the ledger's. *)
LEMMA LedgerStep ==
  ASSUME InboxInv, OrderInv, [Next]_vars
  PROVE  [Ledger!Next]_(Ledger!ledgerVars)
<1>0. inbox \in [IDs -> Row \cup {None}]
  BY DEF InboxInv, TypeInv, TypeOK
<1>1. ASSUME UNCHANGED tables PROVE UNCHANGED Ledger!ledgerVars
  BY <1>1 DEF tables, Ledger!ledgerVars
<1>2. ASSUME NEW i \in Pending, Deliver(i), Ledger!Turn(i) PROVE Ledger!Next
  <2>1. Ledger!Deliver(i)
    BY <1>2, TurnNames DEF Deliver, Ledger!Deliver
  <2> QED BY <2>1, RowFacts DEF Ledger!Next
<1>3. ASSUME NEW S \in SUBSET Pending, S # {}, cancelled' = cancelled \cup S, UNCHANGED message,
             inbox' = [i \in IDs |-> IF i \in S THEN None ELSE inbox[i]]
      PROVE  Ledger!Next
  <2>1. Ledger!Cancel(S) /\ S \in SUBSET IDs
    BY <1>3, TurnNames DEF Ledger!Cancel, Pending
  <2> QED BY <2>1 DEF Ledger!Next
<1>4. ASSUME NEW c \in Callers, Publish(c) PROVE [Ledger!Next]_(Ledger!ledgerVars)
  <2>1. CASE UNCHANGED tables
    BY <1>1, <2>1
  <2>2. ASSUME NEW i \in IDs, NEW row \in Row,
               i \notin Pending, message[i] = None,
               row.type \in Types, row.delivery \in Deliveries, row.seq = seq + 1,
               row = [type |-> row.type, delivery |-> row.delivery, seq |-> row.seq],
               row.type = "compaction" => NoCompaction,
               inbox' = [inbox EXCEPT ![i] = row], UNCHANGED <<message, cancelled>>
        PROVE  Ledger!Next
    <3>1. inbox'[i] = row /\ row # None
      BY <1>0, <2>2, InboxAssumption DEF Row
    <3>2. \A j \in Pending : inbox[j].seq < row.seq
      BY <2>2, RowFacts DEF OrderInv, RowsAreOrdered, InboxInv, TypeInv, TypeOK
    <3>3. Ledger!Admit(i, row.type, row.delivery, inbox'[i].seq)
      BY <2>2, <3>1, <3>2, TurnNames DEF Ledger!Admit, NoCompaction
    <3>4. row.type \in Ledger!Types /\ row.delivery \in Ledger!Deliveries
      BY <2>2 DEF Ledger!Types, Ledger!Prompts, Ledger!Controls, Ledger!Deliveries,
                  Types, Prompts, Controls, Deliveries
    <3> QED BY <2>2, <3>1, <3>3, <3>4, TurnNames DEF Ledger!Next
  <2> QED BY <1>4, <2>1, <2>2, PublishFacts
<1>5. ASSUME NEW c \in Callers, Mutate(c) PROVE [Ledger!Next]_(Ledger!ledgerVars)
  <2> DEFINE i == Asked(c).id
             op == Asked(c).op
  <2>1. i \in IDs /\ op \in Commands
    BY <1>5, RequestShape DEF Mutate, At, InboxInv, TypeInv, CallShape
  <2>2. CASE ~(i \in Pending /\ inbox[i].delivery \in From(op))
    BY <1>1, <1>5, <2>2 DEF Mutate
  <2>3. CASE i \in Pending /\ inbox[i].delivery \in From(op) /\ op = "cancel"
    <3>1. /\ inbox' = [inbox EXCEPT ![i] = None] /\ cancelled' = cancelled \cup {i}
          /\ UNCHANGED message
      BY <1>5, <2>3 DEF Mutate
    <3> HIDE DEF i, op
    <3>2. inbox' = [j \in IDs |-> IF j \in {i} THEN None ELSE inbox[j]]
      BY <1>0, <3>1
    <3> QED BY <1>3, <2>3, <3>1, <3>2
  <2>4. CASE i \in Pending /\ inbox[i].delivery \in From(op) /\ op # "cancel"
    <3>1. /\ inbox' = [inbox EXCEPT ![i].delivery = op] /\ UNCHANGED <<message, cancelled>>
          /\ op \in Deliveries /\ op # inbox[i].delivery
      BY <1>5, <2>1, <2>4 DEF Mutate, From, Commands, Deliveries
    <3> HIDE DEF i, op
    <3>2. Ledger!Redeliver(i)
      BY <2>4, <3>1, TurnNames DEF Ledger!Redeliver, Ledger!Deliveries, Deliveries
    <3> QED BY <2>1, <3>2 DEF Ledger!Next
  <2> QED BY <2>2, <2>3, <2>4
<1>6. ASSUME NEW c \in Callers, Recover(c) PROVE [Ledger!Next]_(Ledger!ledgerVars)
  <2> DEFINE moves == {i \in Pending : inbox[i].type = "move"}
  <2>1. /\ inbox' = [i \in IDs |-> IF i \in moves THEN None ELSE inbox[i]]
        /\ cancelled' = cancelled \cup moves /\ UNCHANGED message
    BY <1>6 DEF Recover
  <2>2. moves \in SUBSET Pending
    OBVIOUS
  <2> HIDE DEF moves
  <2>3. CASE moves = {}
    <3>1. inbox' = inbox
      BY <1>0, <2>1, <2>3
    <3> QED BY <2>1, <2>3, <3>1 DEF Ledger!ledgerVars
  <2>4. CASE moves # {}
    BY <1>3, <2>1, <2>2, <2>4
  <2> QED BY <2>3, <2>4
<1>7. ASSUME NEW c \in Callers, CallerStep(c) PROVE [Ledger!Next]_(Ledger!ledgerVars)
  BY <1>1, <1>4, <1>5, <1>6, <1>7
  DEF CallerStep, Acquire, Find, FindMessage, Refind, FindExact, FindPromoted, FindPending
<1>8. CASE DeliverControl
  BY <1>1, <1>2, <1>8 DEF DeliverControl, OrderInv, ControlIsDue
<1>9. CASE PublishNext
  <2>1. PICK r \in promoter.batch :
          /\ \A q \in promoter.batch : r[2] <= q[2]
          /\ r[1] \in Pending => Deliver(r[1])
    BY <1>9 DEF PublishNext
  <2>2. r[1] \in Pending /\ Ledger!Turn(r[1])
    BY <1>9, <2>1, BatchTurn DEF PublishNext
  <2> QED BY <1>2, <2>1, <2>2
<1>10. CASE UNCHANGED tables
  BY <1>1, <1>10
<1>11. CASE \/ \E c \in Callers, r \in Requests : Begin(c, r)
            \/ \E scope \in Scopes, task \in {"boundary", "promote"} : StartTask(task, scope)
            \/ InterruptRunner \/ Crash \/ UNCHANGED vars
  BY <1>10, <1>11 DEF Begin, StartTask, InterruptRunner, Crash, vars
<1>12. CASE PromoterStep
  BY <1>8, <1>9, <1>10, <1>12
  DEF PromoterStep, AcquireRunner, BoundarySteers, BoundaryQueued, PromoteSteers, PromoteQueued,
      PublishLate, PublishDone
<1> QED BY <1>7, <1>11, <1>12 DEF Next

LEMMA InboxInvInit == Init => InboxInv
<1> SUFFICES ASSUME Init PROVE InboxInv
  OBVIOUS
<1>1. TypeInv
  BY InboxTypeInit
<1>2. Pending = {} /\ \A c \in Callers : call[c] = NewCall
  BY DEF Init, Pending
<1>3. LockHeld
  BY <1>2 DEF Init, LockHeld, UnderLock, NewCall, IdlePromoter, Compacting, Admitting
<1> QED BY <1>1, <1>2, <1>3
        DEF Init, InboxInv, PendingOrDelivered, NoneSeen, Looked, OneCompaction,
            AnswersNameItems, AnswersAreKept, Answered, NewCall

LEMMA InboxInvNext == InboxInv /\ [Next]_vars => InboxInv'
<1> SUFFICES ASSUME InboxInv, [Next]_vars PROVE InboxInv'
  OBVIOUS
<1>0. TypeInv /\ LockHeld /\ TypeInv'
  BY InboxTypeNext DEF InboxInv
<1>1. ASSUME NEW c \in Callers, CallerStep(c) PROVE InboxInv'
  BY <1>0, <1>1, CallerLock, ReadKeepsInv, PublishKeepsInv, MutateKeepsInv, RecoverKeepsInv
  DEF CallerStep
<1>2. ASSUME NEW c \in Callers, NEW r \in Requests, Begin(c, r) PROVE InboxInv'
  BY <1>0, <1>2, BeginLock, BeginKeepsInv
<1>3. CASE PromoterStep
  BY <1>0, <1>3, RunnerLock, RunnerKeepsInv
<1>4. CASE \E scope \in Scopes, task \in {"boundary", "promote"} : StartTask(task, scope)
  BY <1>0, <1>4, RunnerLock, RunnerKeepsInv
<1>5. CASE InterruptRunner
  BY <1>0, <1>5, RunnerLock, RunnerKeepsInv
<1>6. CASE Crash
  BY <1>0, <1>6, CrashLock, CrashKeepsInv
<1>7. CASE UNCHANGED vars
  <2>1. LockHeld' /\ NothingEnters /\ UNCHANGED call
    BY <1>0, <1>7 DEF vars, tables, LockHeld, UnderLock, Asked, NothingEnters, Pending
  <2> QED BY <1>0, <2>1, CallsAsBefore
<1> QED BY <1>1, <1>2, <1>3, <1>4, <1>5, <1>6, <1>7 DEF Next

LEMMA InboxCorrect == Spec => []InboxInv
BY InboxInvInit, InboxInvNext, PTL DEF Spec

(* No item is ever pending and in the transcript at once: an id whose      *)
(* promotion committed cannot be admitted, and so delivered, again, while  *)
(* user and synthetic admissions run outside the lock.                     *)
THEOREM ItemsDeliveredOnce == Spec => []PendingOrDelivered
<1>1. InboxInv => PendingOrDelivered
  BY DEF InboxInv
<1> QED BY <1>1, InboxCorrect, PTL

(* At most one compaction is pending: admitCompaction looks and publishes  *)
(* under one lock, across every await in between.                          *)
THEOREM OneCompactionPending == Spec => []OneCompaction
<1>1. InboxInv => OneCompaction
  BY DEF InboxInv
<1> QED BY <1>1, InboxCorrect, PTL

(* An admission that was answered names an item that is, and stays,        *)
(* pending or in the transcript as what was asked for, or was cancelled.   *)
THEOREM AnswersStay == Spec => []AnswersAreKept
<1>1. InboxInv => AnswersAreKept
  BY DEF InboxInv
<1> QED BY <1>1, InboxCorrect, PTL

(* The inbox implements the ledger: whatever is admitted, redelivered,     *)
(* cancelled or moved past while the runner is between its decision and    *)
(* its publications, and wherever it is interrupted or the process dies,   *)
(* each row leaves by a cancellation or by a delivery in its turn.         *)
THEOREM InboxIsLedger == Spec => LedgerSafe
<1> DEFINE LedgerInv == InboxInv /\ OrderInv
<1>1. Init => LedgerInv /\ Ledger!Init
  <2> SUFFICES ASSUME Init PROVE OrderInv /\ Ledger!Init
    BY InboxInvInit
  <2>1. Pending = {} /\ promoter.at = "idle"
    BY DEF Init, Pending, IdlePromoter
  <2> QED
    BY <2>1 DEF Init, Ledger!Init, OrderInv, RowsAreOrdered, ControlIsDue, BatchIsDue
<1>2. LedgerInv /\ [Next]_vars => LedgerInv'
  BY InboxInvNext, OrderNext
<1>3. LedgerInv /\ [Next]_vars => [Ledger!Next]_(Ledger!ledgerVars)
  BY LedgerStep
<1> HIDE DEF LedgerInv
<1> QED BY <1>1, <1>2, <1>3, PTL DEF Spec, LedgerSafe, Ledger!Spec

-------------------------------------------------------------------------------
(* What the ledger's events do to one item, and with them every step here. *)
ItemsAreConserved == \A i \in IDs :
  /\ message[i] # None => message'[i] = message[i]
  /\ i \in cancelled => i \in cancelled'
  /\ i \in Pending =>
       \/ i \in Pending' /\ inbox'[i].type = inbox[i].type /\ inbox'[i].seq = inbox[i].seq
       \/ i \notin Pending' /\ message'[i] = inbox[i].type
       \/ i \notin Pending' /\ (i \in cancelled' \/ inbox[i].type = "move")

LEMMA LedgerConserves ==
  ASSUME InboxInv, Ledger!Next PROVE ItemsAreConserved
<1>0. /\ inbox \in [IDs -> Row \cup {None}]
      /\ message \in [IDs -> (Types \ {"move"}) \cup {None}]
      /\ \A i \in IDs : inbox[i] = None \/ message[i] = None
  BY DEF InboxInv, TypeInv, TypeOK, PendingOrDelivered
<1>1. ASSUME NEW i \in IDs, NEW t, NEW d, NEW n, i \notin Pending, Ledger!Admit(i, t, d, n)
      PROVE  ItemsAreConserved
  <2>1. UNCHANGED <<message, cancelled>> /\ \A j \in IDs \ {i} : inbox'[j] = inbox[j]
    BY <1>0, <1>1 DEF Ledger!Admit
  <2> QED BY <1>1, <2>1 DEF ItemsAreConserved, Pending
<1>2. ASSUME NEW S \in SUBSET IDs, Ledger!Cancel(S) PROVE ItemsAreConserved
  <2>1. /\ message' = message /\ cancelled' = cancelled \cup S
        /\ \A j \in IDs : inbox'[j] = IF j \in S THEN None ELSE inbox[j]
    BY <1>2 DEF Ledger!Cancel
  <2> QED BY <2>1 DEF ItemsAreConserved, Pending
<1>3. ASSUME NEW i \in IDs, Ledger!Redeliver(i) PROVE ItemsAreConserved
  <2>1. i \in Pending /\ inbox[i] \in Row
    BY <1>0, <1>3, TurnNames DEF Ledger!Redeliver, Pending
  <2>2. PICK d \in Deliveries : inbox' = [inbox EXCEPT ![i].delivery = d]
    BY <1>3 DEF Ledger!Redeliver, Ledger!Deliveries, Deliveries
  <2>3. UNCHANGED <<message, cancelled>>
    BY <1>3 DEF Ledger!Redeliver
  <2> DEFINE row == [inbox[i] EXCEPT !.delivery = d]
  <2>4. row \in Row /\ row.type = inbox[i].type /\ row.seq = inbox[i].seq
    BY <2>1 DEF Row
  <2>5. row # None
    BY <2>4, InboxAssumption DEF Row
  <2> HIDE DEF row
  <2>6. inbox'[i] = row /\ \A j \in IDs \ {i} : inbox'[j] = inbox[j]
    BY <1>0, <2>1, <2>2 DEF row
  <2> QED BY <2>1, <2>3, <2>4, <2>5, <2>6 DEF ItemsAreConserved, Pending
<1>4. ASSUME NEW i \in IDs, Ledger!Deliver(i) PROVE ItemsAreConserved
  <2>1. i \in Pending /\ message[i] = None
    BY <1>0, <1>4, TurnNames DEF Ledger!Deliver, Pending
  <2>2. /\ cancelled' = cancelled /\ inbox'[i] = None
        /\ inbox[i].type # "move" => message'[i] = inbox[i].type
        /\ \A j \in IDs \ {i} : inbox'[j] = inbox[j] /\ message'[j] = message[j]
    BY <1>0, <1>4 DEF Ledger!Deliver
  <2> QED BY <2>1, <2>2 DEF ItemsAreConserved, Pending
<1> QED BY <1>1, <1>2, <1>3, <1>4, TurnNames DEF Ledger!Next

(* Nothing is lost and nothing is rewritten (inbox.ts, projector.ts): a    *)
(* row stays what it was, in its place of the enqueue order, until it      *)
(* leaves as a message of its own type, by a cancellation, or as a move;   *)
(* and a message, once in the transcript, is not written again.            *)
THEOREM ItemsConserved == Spec => [][ItemsAreConserved]_vars
<1>1. InboxInv /\ OrderInv /\ [Next]_vars => [ItemsAreConserved]_vars
  <2> SUFFICES ASSUME InboxInv, OrderInv, [Next]_vars PROVE ItemsAreConserved
    OBVIOUS
  <2>1. CASE UNCHANGED Ledger!ledgerVars
    BY <2>1 DEF Ledger!ledgerVars, ItemsAreConserved, Pending
  <2> QED BY <2>1, LedgerStep, LedgerConserves
<1>2. Init => OrderInv
  <2> SUFFICES ASSUME Init PROVE OrderInv
    OBVIOUS
  <2>1. Pending = {} /\ promoter.at = "idle"
    BY DEF Init, Pending, IdlePromoter
  <2> QED BY <2>1 DEF OrderInv, RowsAreOrdered, ControlIsDue, BatchIsDue
<1>3. InboxInv /\ OrderInv /\ [Next]_vars => OrderInv'
  BY OrderNext
<1> QED BY <1>1, <1>2, <1>3, InboxCorrect, PTL DEF Spec
=============================================================================
