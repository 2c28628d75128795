-------------------------- MODULE SessionDrainProofs --------------------------
(***************************************************************************)
(* What a Session's drain guarantees for any ids, callers, requests and    *)
(* numbers of disturbances.                                                *)
(*                                                                         *)
(* That nothing is stranded is not inductive: in the midst of a drain rows *)
(* are pending that nobody will wake it for.  DrainInv says what the drain *)
(* still does about them: whatever is pending without a wake to come is    *)
(* seen by the drain that runs (Guarded), a queued row also after the      *)
(* drain has looked at the steers; a decision is what the rows were when   *)
(* it was taken, as the lock keeps everybody else away (RowsHeld); and a   *)
(* prompt that was delivered is taken up by a step before the runner comes *)
(* back to the inbox (Answers).                                            *)
(***************************************************************************)
EXTENDS SessionDrain, SessionInboxProofs

DrainTypes ==
  /\ D!DoorbellTypeOK
  /\ drain \in Drain
  /\ unanswered \in BOOLEAN
  /\ resumption \in {"none", "steers", "queued", "rung", "nothing"}
  /\ stops \in 0..MaxStops /\ reloads \in 0..MaxReloads

(* Without an interrupt or a failure nobody but the callers wakes, and     *)
(* only who was answered.                                                  *)
Undisturbed ==
  stops = 0 =>
    /\ ~drain.stopping /\ resumption = "none"
    /\ \A c \in Callers : Woke(c) => call[c].at = "ok"

(* The rows of the inbox have an oldest, whichever of them are looked at.  *)
RowsOrdered ==
  /\ \A i \in Pending : inbox[i].seq <= seq
  /\ \A S \in SUBSET Pending : S # {} => \E i \in S : Oldest(i, S)

(* Where the runner is in the inbox, and what it came for. *)
BoundaryScope == IF drain.entering \/ ~drain.continuing THEN "input" ELSE "steer"
RunnerPlace ==
  /\ promoter.at = "queued" => promoter.scope = "input"
  /\ CASE DrainAt("boundary") ->
            IF promoter.at = "idle"
            THEN \/ promoter.outcome \in {"none", "died"} /\ promoter.next = None
                 \/ promoter.outcome \in {"item", "control"} /\ promoter.next \in Promotion
            ELSE promoter.task = "boundary" /\ promoter.scope = BoundaryScope
       [] DrainAt("promoting") ->
            promoter.at # "idle" => promoter.task = "promote" /\ promoter.scope = PromoteScope
       [] OTHER -> promoter.at = "idle"

(* What the runner decided on or read is still there. *)
RowsHeld ==
  /\ promoter.at = "deliver" =>
       /\ promoter.next \in Promotion /\ promoter.next.id \in Pending
       /\ promoter.next.type \in Controls /\ inbox[promoter.next.id].type = promoter.next.type
       /\ promoter.task = "boundary"
  /\ promoter.at = "publish" =>
       /\ promoter.task = "promote"
       /\ \A r \in promoter.batch :
            /\ r[1] \in Pending /\ r[2] = inbox[r[1]].seq
            /\ inbox[r[1]].delivery = "steer" \/ (promoter.late /\ promoter.scope = "input")
       /\ promoter.late => \A r, q \in promoter.batch : r = q

(* A delivered prompt waits for the step that follows its promotion. *)
Answers ==
  stops = 0 /\ unanswered =>
    \/ DrainAt("ready")
    \/ /\ DrainAt("promoting")
       /\ \/ promoter.at = "publish" /\ (promoter.late => promoter.batch = {})
          \/ promoter.at = "idle" /\ promoter.outcome # "control"

(* Somebody has yet to wake the Session for row i. *)
Owed(i) == \E c \in Callers : MayWake(c) /\ call[c].got = i

(* A drain of full scope will come to row i. *)
WillSee(i) ==
  /\ drain.promotable = "input"
  /\ drain.at # "asleep"
  /\ DrainAt("reading") => inbox[i].delivery = "queue"
  /\ DrainAt("boundary") =>
       /\ promoter.at = "queued" => inbox[i].delivery = "queue"
       /\ promoter.at = "idle" /\ promoter.outcome = "none" => BoundaryScope = "steer"

Guarded ==
  stops = 0 /\ "input" \notin demand[Session] =>
    \A i \in Pending : Owed(i) \/ WillSee(i)

DrainInv ==
  /\ InboxInv
  /\ DrainTypes
  /\ Undisturbed
  /\ RowsOrdered
  /\ RunnerPlace
  /\ RowsHeld
  /\ Answers
  /\ Guarded

-------------------------------------------------------------------------------
(* The rows' order: rows leave, keep their place, or one enters behind all.*)

NoRowEnters ==
  /\ seq' = seq
  /\ \A i \in Pending' : i \in Pending /\ inbox'[i].seq = inbox[i].seq

RowEnters(j) ==
  /\ j \notin Pending /\ inbox'[j].seq = seq + 1 /\ seq' = seq + 1
  /\ \A i \in Pending' \ {j} : i \in Pending /\ inbox'[i].seq = inbox[i].seq

LEMMA RowsOrderedKept ==
  ASSUME TypeOK, TypeOK', RowsOrdered, NoRowEnters \/ \E j \in IDs : RowEnters(j)
  PROVE  RowsOrdered'
<1>0. /\ \A i \in Pending : inbox[i].seq \in Nat
      /\ \A i \in Pending' : inbox'[i].seq \in Nat
      /\ seq \in Nat /\ seq' \in Nat
  BY DEF TypeOK, Pending, Row
<1>1. CASE NoRowEnters
  <2>1. \A i \in Pending' : inbox'[i].seq <= seq'
    BY <1>1 DEF NoRowEnters, RowsOrdered
  <2>2. ASSUME NEW S \in SUBSET Pending', S # {} PROVE \E i \in S : Oldest(i, S)'
    <3>1. S \in SUBSET Pending
      BY <1>1 DEF NoRowEnters
    <3>2. PICK i \in S : Oldest(i, S)
      BY <2>2, <3>1 DEF RowsOrdered
    <3>3. \A j \in S : inbox'[j].seq = inbox[j].seq
      BY <1>1 DEF NoRowEnters
    <3> QED BY <3>2, <3>3 DEF Oldest
  <2> QED BY <2>1, <2>2 DEF RowsOrdered
<1>2. ASSUME NEW j \in IDs, RowEnters(j) PROVE RowsOrdered'
  <2>1. \A i \in Pending' \ {j} : inbox'[i].seq = inbox[i].seq /\ inbox'[i].seq <= seq
    BY <1>2 DEF RowEnters, RowsOrdered
  <2>2. \A i \in Pending' : inbox'[i].seq <= inbox'[j].seq /\ inbox'[i].seq <= seq'
    <3>1. inbox'[j].seq = seq + 1 /\ seq' = seq + 1
      BY <1>2 DEF RowEnters
    <3> QED BY <1>0, <2>1, <3>1
  <2>3. ASSUME NEW S \in SUBSET Pending', S # {} PROVE \E i \in S : Oldest(i, S)'
    <3>1. CASE S \ {j} = {}
      <4>1. j \in S /\ \A i \in S : i = j
        BY <2>3, <3>1
      <4>2. inbox'[j].seq <= inbox'[j].seq
        BY <2>2, <4>1
      <4> QED BY <4>1, <4>2 DEF Oldest
    <3>2. CASE S \ {j} # {}
      <4>1. S \ {j} \in SUBSET Pending
        BY <1>2 DEF RowEnters
      <4>2. PICK i \in S \ {j} : Oldest(i, S \ {j})
        BY <3>2, <4>1 DEF RowsOrdered
      <4>3. \A k \in S \ {j} : inbox'[i].seq <= inbox'[k].seq
        BY <2>1, <4>2 DEF Oldest
      <4>4. j \in S => inbox'[i].seq <= inbox'[j].seq
        BY <2>2
      <4> QED BY <4>3, <4>4 DEF Oldest
    <3> QED BY <3>1, <3>2
  <2> QED BY <2>2, <2>3 DEF RowsOrdered
<1> QED BY <1>1, <1>2

-------------------------------------------------------------------------------
(* What a caller's step does to the rows. *)

(* The call of c is answered with row i, and will wake the Session. *)
WillWake(c, i) == call'[c].at = "ok" /\ Wakes(call'[c].request.op) /\ call'[c].got = i

(* A row is as it was, or stays behind in the queue, or c owes its wake. *)
RowsOwed(c) ==
  \A i \in Pending' :
    \/ WillWake(c, i)
    \/ i \in Pending /\ (inbox'[i] = inbox[i] \/ inbox'[i].delivery = "queue")

RowsUntouched == \A i \in Pending : i \in Pending' /\ inbox'[i] = inbox[i]

CallerEffect(c) ==
  /\ UNCHANGED <<promoter, message>>
  /\ call[c].at # "ok" /\ \A d \in Callers \ {c} : call'[d] = call[d]
  /\ RowsOwed(c)
  /\ lock = Runner => RowsUntouched
  /\ NoRowEnters \/ \E j \in IDs : RowEnters(j)

LEMMA UntouchedTables ==
  ASSUME UNCHANGED tables, NEW c \in Callers
  PROVE  RowsOwed(c) /\ RowsUntouched /\ NoRowEnters
BY DEF tables, RowsOwed, RowsUntouched, NoRowEnters, Pending

LEMMA ReplyMoves ==
  ASSUME TypeInv, NEW c \in Callers, NEW answer \in {"ok", "conflict"},
         NEW i \in IDs \cup {None}, Reply(c, answer, i)
  PROVE  /\ \A d \in Callers \ {c} : call'[d] = call[d]
         /\ call'[c].at = answer /\ call'[c].got = i /\ call'[c].request = call[c].request
<1>1. call \in [Callers -> Call]
  BY DEF TypeInv, TypeOK
<1>2. /\ call'[c] = [[call[c] EXCEPT !.at = answer] EXCEPT !.got = i]
      /\ \A d \in Callers \ {c} : call'[d] = call[d]
  BY <1>1 DEF Reply
<1>3. call[c] \in Call
  BY <1>1
<1> HIDE DEF Reply
<1> QED BY <1>2, <1>3 DEF Call

LEMMA ReadEffect ==
  ASSUME InboxInv, NEW c \in Callers,
         \/ Acquire(c) \/ Find(c) \/ FindMessage(c) \/ Refind(c)
         \/ FindExact(c) \/ FindPromoted(c) \/ FindPending(c)
         \/ \E r \in Requests : Begin(c, r)
  PROVE  CallerEffect(c)
<1> USE DEF At
<1>1. UNCHANGED tables /\ UNCHANGED promoter /\ call[c].at # "ok"
  BY DEF Acquire, Find, FindMessage, Refind, FindExact, FindPromoted, FindPending, Begin
<1>2. \A d \in Callers \ {c} : call'[d] = call[d]
  BY DEF Acquire, Find, FindMessage, Refind, FindExact, FindPromoted, FindPending, Begin,
         Goto, Reply, InboxInv, TypeInv, TypeOK
<1> QED BY <1>1, <1>2, UntouchedTables DEF CallerEffect, tables

LEMMA PublishEffect ==
  ASSUME InboxInv, NEW c \in Callers, Publish(c)
  PROVE  CallerEffect(c)
<1> USE DEF At
<1>1. /\ Asked(c) \in Requests /\ Asked(c).op \in Types /\ Asked(c).id \in IDs
  BY RequestShape DEF Publish, InboxInv, TypeInv, CallShape, Admitting
<1> DEFINE i == Asked(c).id
<1>2. CASE i \in Pending \/ message[i] # None
  <2>1. \A d \in Callers \ {c} : call'[d] = call[d]
    BY <1>2 DEF Publish, Goto, InboxInv, TypeInv, TypeOK
  <2> QED BY <1>2, <2>1, UntouchedTables DEF CallerEffect, tables, Publish
<1>3. CASE ~(i \in Pending \/ message[i] # None)
  <2>1. Reply(c, "ok", i) /\ inbox' = [inbox EXCEPT ![i] = Row1(Asked(c))] /\ seq' = seq + 1
        /\ UNCHANGED <<message, promoter>> /\ call[c].at # "ok"
    BY <1>3 DEF Publish
  <2>2. /\ \A d \in Callers \ {c} : call'[d] = call[d]
        /\ call'[c].at = "ok" /\ call'[c].got = i /\ call'[c].request = call[c].request
    BY <1>1, <2>1, ReplyMoves DEF InboxInv
  <2>3. WillWake(c, i)
    BY <1>1, <2>2 DEF WillWake, Wakes, Asked
  <2>4. /\ inbox'[i] = Row1(Asked(c)) /\ \A j \in IDs \ {i} : inbox'[j] = inbox[j]
    BY <1>1, <2>1 DEF InboxInv, TypeInv, TypeOK
  <2>5. \A j \in Pending' \ {i} : j \in Pending /\ inbox'[j] = inbox[j]
    BY <2>4 DEF Pending
  <2>6. RowsOwed(c)
    BY <2>3, <2>5 DEF RowsOwed
  <2>7. RowsUntouched
    BY <1>3, <2>4 DEF RowsUntouched, Pending
  <2>8. RowEnters(i)
    BY <1>3, <2>1, <2>4, <2>5 DEF RowEnters, Row1
  <2> QED BY <1>1, <2>1, <2>2, <2>6, <2>7, <2>8 DEF CallerEffect
<1> QED BY <1>2, <1>3

LEMMA MutateEffect ==
  ASSUME InboxInv, NEW c \in Callers, Mutate(c)
  PROVE  CallerEffect(c)
<1> USE DEF At
<1> DEFINE i == Asked(c).id
<1>1. Asked(c) \in Requests /\ Asked(c).op \in Commands /\ i \in IDs
  BY RequestShape DEF Mutate, InboxInv, TypeInv, CallShape
<1>2. lock = c /\ lock # Runner
  BY InboxAssumption DEF Mutate, InboxInv, LockHeld, UnderLock
<1>3. CASE ~(i \in Pending /\ inbox[i].delivery \in From(Asked(c).op))
  <2>1. Reply(c, "conflict", None) /\ UNCHANGED <<tables, promoter>> /\ call[c].at # "ok"
    BY <1>3 DEF Mutate
  <2>2. \A d \in Callers \ {c} : call'[d] = call[d]
    BY <2>1, ReplyMoves DEF InboxInv
  <2> QED BY <2>1, <2>2, UntouchedTables DEF CallerEffect, tables
<1>4. CASE i \in Pending /\ inbox[i].delivery \in From(Asked(c).op)
  <2>1. Reply(c, "ok", i) /\ UNCHANGED <<message, seq, promoter>> /\ call[c].at # "ok"
    BY <1>4 DEF Mutate
  <2>2. /\ \A d \in Callers \ {c} : call'[d] = call[d]
        /\ call'[c].at = "ok" /\ call'[c].got = i /\ call'[c].request = call[c].request
    BY <1>1, <2>1, ReplyMoves DEF InboxInv
  <2>3. inbox \in [IDs -> Row \cup {None}]
    BY DEF InboxInv, TypeInv, TypeOK
  <2>4. \A j \in IDs \ {i} : inbox'[j] = inbox[j]
    BY <1>1, <1>4, <2>3 DEF Mutate
  <2>5. CASE Asked(c).op = "cancel"
    <3>1. inbox'[i] = None
      BY <1>1, <1>4, <2>3, <2>5 DEF Mutate
    <3>2. \A j \in Pending' : j \in Pending /\ inbox'[j] = inbox[j]
      BY <2>4, <3>1 DEF Pending
    <3> QED BY <1>2, <2>1, <2>2, <3>2 DEF CallerEffect, RowsOwed, NoRowEnters
  <2>6. CASE Asked(c).op # "cancel"
    <3>1. inbox'[i] = [inbox[i] EXCEPT !.delivery = Asked(c).op] /\ inbox[i] \in Row
      BY <1>1, <1>4, <2>3, <2>6 DEF Mutate, Pending
    <3>2. inbox'[i].seq = inbox[i].seq /\ inbox'[i].delivery = Asked(c).op
      BY <3>1 DEF Row
    <3>3. \A j \in Pending' : j \in Pending /\ (j # i => inbox'[j] = inbox[j])
      BY <1>4, <2>4 DEF Pending
    <3>4. Asked(c).op = "steer" => WillWake(c, i)
      BY <2>2 DEF WillWake, Wakes, Asked
    <3>5. Asked(c).op \in {"steer", "queue"}
      BY <1>1, <2>6 DEF Commands
    <3>6. RowsOwed(c)
      BY <3>2, <3>3, <3>4, <3>5 DEF RowsOwed
    <3>7. NoRowEnters
      BY <2>1, <3>2, <3>3 DEF NoRowEnters
    <3> QED BY <1>2, <2>1, <2>2, <3>6, <3>7 DEF CallerEffect
  <2> QED BY <2>5, <2>6
<1> QED BY <1>3, <1>4

LEMMA RecoverEffect ==
  ASSUME InboxInv, NEW c \in Callers, Recover(c)
  PROVE  CallerEffect(c)
<1> USE DEF At
<1>1. Reply(c, "ok", None) /\ UNCHANGED <<message, seq, promoter>> /\ call[c].at # "ok"
  BY DEF Recover
<1>2. lock = c /\ lock # Runner
  BY InboxAssumption DEF Recover, InboxInv, LockHeld, UnderLock, Admitting, Controls
<1>3. \A d \in Callers \ {c} : call'[d] = call[d]
  BY <1>1, ReplyMoves DEF InboxInv
<1>4. \A j \in Pending' : j \in Pending /\ inbox'[j] = inbox[j]
  BY DEF Recover, Pending
<1> QED BY <1>1, <1>2, <1>3, <1>4 DEF CallerEffect, RowsOwed, NoRowEnters

LEMMA CallerEffects ==
  ASSUME InboxInv, NEW c \in Callers, CallerStep(c) \/ \E r \in Requests : Begin(c, r)
  PROVE  CallerEffect(c)
BY ReadEffect, PublishEffect, MutateEffect, RecoverEffect DEF CallerStep

-------------------------------------------------------------------------------
(* The coordinator's promise keeps its type. *)

Rings == Callers \cup {Interrupter(n) : n \in 0..MaxStops}

LEMMA RingType ==
  ASSUME D!DoorbellTypeOK, NEW s \in Scopes, NEW c \in Rings, NEW op \in {"wake", "run"},
         D!Ring(Session, s, c, op)
  PROVE  /\ D!DoorbellTypeOK'
         /\ s \in demand'[Session]
<1>1. D!Upto(s) \in SUBSET D!Scope /\ s \in D!Upto(s)
  BY DEF D!Upto, D!Scope, Scopes
<1> QED BY <1>1 DEF D!DoorbellTypeOK, D!Ring, D!Make, D!Ops, Rings

LEMMA InterruptType ==
  ASSUME D!DoorbellTypeOK, NEW c \in Rings, D!Claim(Session, c) \/ D!Ignore(Session, c)
  PROVE  D!DoorbellTypeOK'
BY DEF D!DoorbellTypeOK, D!Claim, D!Ignore, D!Make, D!Ops, Rings

LEMMA ServeType ==
  ASSUME D!DoorbellTypeOK, NEW s \in Scopes, D!Serve(Session, s)
  PROVE  D!DoorbellTypeOK' /\ ("input" \notin demand'[Session] => s = "input" \/ "input" \notin demand[Session])
<1>1. PICK left \in SUBSET demand[Session] :
        /\ demand[Session] \ left \subseteq D!Upto(s)
        /\ demand' = [demand EXCEPT ![Session] = left]
  BY DEF D!Serve
<1>2. s = "input" \/ "input" \notin D!Upto(s)
  BY DEF D!Upto
<1>3. serving' = [serving EXCEPT ![Session] = s] /\ UNCHANGED made
  BY DEF D!Serve
<1> QED BY <1>1, <1>2, <1>3 DEF D!DoorbellTypeOK, D!Scope, Scopes

LEMMA FinishServing ==
  ASSUME D!DoorbellTypeOK, D!Finish(Session)
  PROVE  D!DoorbellTypeOK' /\ UNCHANGED <<demand, made>>
BY DEF D!DoorbellTypeOK, D!Finish

-------------------------------------------------------------------------------
(* Typing, action by action. *)

LEMMA QuietTypes ==
  ASSUME DrainTypes, drain' \in Drain, UNCHANGED <<doorbell, unanswered, resumption, bounds>>
  PROVE  DrainTypes'
BY DEF DrainTypes, doorbell, bounds, D!DoorbellTypeOK

LEMMA CompleteTypes ==
  ASSUME DrainTypes, Complete
  PROVE  DrainTypes'
BY FinishServing DEF DrainTypes, Complete, EndDrain, bounds, Asleep, Drain, Points

LEMMA PointsTypes ==
  ASSUME DrainTypes,
         \/ CheckSteers \/ CheckQueued \/ Boundary \/ Decided \/ Compacted \/ AfterIdleHook
         \/ Promote \/ Promoted \/ BeginStep \/ \E more \in BOOLEAN : EndStep(more)
  PROVE  DrainTypes'
<1> USE DEF Quiet
<1>0. drain \in Drain
  BY DEF DrainTypes
<1>m. ASSUME NEW pc \in Points, Move(pc) PROVE drain' \in Drain
  BY <1>0, <1>m DEF Move, Drain
<1>1. CASE CheckSteers
  BY <1>1, <1>m, QuietTypes DEF CheckSteers, Points
<1>2. CASE CheckQueued
  BY <1>2, <1>m, QuietTypes, CompleteTypes DEF CheckQueued, Points
<1>3. CASE Boundary
  BY <1>3, <1>m, QuietTypes DEF Boundary, Points
<1>4. CASE Decided
  <2> DEFINE next == promoter.next
             parked == next # None /\ next.delivery = "queue" /\ drain.promotable = "steer"
             idle == ~drain.force /\ ~drain.continuing /\ (next = None \/ parked)
             renewed == ~drain.continuing /\ (next = None \/ next.delivery # "steer")
             here == [drain EXCEPT !.entering = @ \/ renewed]
  <2>1. here \in Drain
    <3>1. (drain.entering \/ renewed) \in BOOLEAN
      OBVIOUS
    <3> HIDE DEF renewed
    <3> QED BY <1>0, <3>1 DEF Drain
  <2>2. \/ Reenter(FALSE) /\ Quiet
        \/ drain' = [here EXCEPT !.at = "compacting"] /\ Quiet
        \/ Complete
        \/ drain' = [here EXCEPT !.at = IF idle THEN "idling" ELSE "preparing"] /\ Quiet
    BY <1>4 DEF Decided
  <2> HIDE DEF here, idle
  <2>3. CASE Reenter(FALSE) /\ Quiet
    <3>1. (~drain.continuing /\ drain.stepped) \in BOOLEAN
      OBVIOUS
    <3>2. drain' \in Drain
      BY <1>0, <2>3, <3>1 DEF Reenter, Drain, Points
    <3> QED BY <2>3, <3>2, QuietTypes
  <2>4. CASE drain' = [here EXCEPT !.at = "compacting"] /\ Quiet
    <3>1. drain' \in Drain
      BY <2>1, <2>4 DEF Drain, Points
    <3> QED BY <2>4, <3>1, QuietTypes
  <2>5. CASE drain' = [here EXCEPT !.at = IF idle THEN "idling" ELSE "preparing"] /\ Quiet
    <3>1. (IF idle THEN "idling" ELSE "preparing") \in Points
      BY DEF Points
    <3>2. drain' \in Drain
      BY <2>1, <2>5, <3>1 DEF Drain
    <3> QED BY <2>5, <3>2, QuietTypes
  <2> QED BY <2>2, <2>3, <2>4, <2>5, CompleteTypes
<1>5. CASE Compacted
  <2>1. drain' \in Drain
    BY <1>0, <1>5 DEF Compacted, Drain, Points
  <2> QED BY <1>5, <2>1, QuietTypes DEF Compacted
<1>6. CASE AfterIdleHook
  BY <1>6, <1>m, QuietTypes, CompleteTypes DEF AfterIdleHook, Points
<1>7. CASE Promote
  BY <1>7, <1>m, QuietTypes DEF Promote, Points
<1>8. CASE Promoted
  BY <1>8, <1>m, QuietTypes DEF Promoted, Points
<1>9. CASE BeginStep
  <2>1. drain' \in Drain
    BY <1>9, <1>m DEF BeginStep, Points
  <2> QED BY <1>9, <2>1 DEF BeginStep, DrainTypes, doorbell, bounds, D!DoorbellTypeOK
<1>10. ASSUME NEW more \in BOOLEAN, EndStep(more) PROVE DrainTypes'
  <2>1. drain' \in Drain
    BY <1>0, <1>10 DEF EndStep, Drain, Points
  <2> QED BY <1>10, <2>1, QuietTypes DEF EndStep
<1> QED BY <1>1, <1>2, <1>3, <1>4, <1>5, <1>6, <1>7, <1>8, <1>9, <1>10

LEMMA WakeTypes ==
  ASSUME DrainTypes, (\E c \in Callers : Wake(c)) \/ Resume \/ \E s \in Scopes : BeginDrain(s)
  PROVE  DrainTypes'
<1>0. drain \in Drain /\ D!DoorbellTypeOK
  BY DEF DrainTypes
<1>r. Resumer \in Rings
  BY DrainAssumption DEF Resumer, Rings
<1>1. ASSUME NEW c \in Callers, Wake(c) PROVE DrainTypes'
  BY <1>0, <1>1, RingType DEF Wake, DrainTypes, bounds, Rings, Scopes
<1>2. CASE Resume
  <2>1. drain' \in Drain
    BY <1>0, <1>2 DEF Resume, Drain
  <2>2. D!DoorbellTypeOK'
    BY <1>0, <1>2, <1>r, RingType DEF Resume, Scopes
  <2> QED BY <1>2, <2>1, <2>2 DEF Resume, DrainTypes, bounds
<1>3. ASSUME NEW s \in Scopes, BeginDrain(s) PROVE DrainTypes'
  <2>1. drain' \in Drain
    BY <1>0, <1>3 DEF BeginDrain, Drain, Points
  <2>2. D!DoorbellTypeOK'
    BY <1>0, <1>3, ServeType DEF BeginDrain
  <2> QED BY <1>3, <2>1, <2>2 DEF BeginDrain, DrainTypes, bounds
<1> QED BY <1>1, <1>2, <1>3

LEMMA DisturbanceTypes ==
  ASSUME DrainTypes,
         \/ Reload \/ Fails \/ Interrupted \/ ResumeSteers \/ ResumeQueued
         \/ \E resume \in BOOLEAN : Interrupt(resume)
  PROVE  DrainTypes'
<1>0. drain \in Drain /\ D!DoorbellTypeOK
  BY DEF DrainTypes
<1>r. Resumer \in Rings
  BY DrainAssumption DEF Resumer, Rings
<1>s. Asleep \in Drain
  BY DEF Asleep, Drain, Points
<1>1. CASE Reload
  <2>1. (~drain.continuing /\ drain.stepped) \in BOOLEAN
    OBVIOUS
  <2>2. drain' \in Drain
    BY <1>0, <1>1, <2>1 DEF Reload, Reenter, Drain, Points
  <2> QED BY <1>1, <2>2, DrainAssumption DEF Reload, DrainTypes, doorbell, D!DoorbellTypeOK
<1>2. CASE Fails \/ Interrupted
  BY <1>0, <1>2, <1>s, FinishServing, DrainAssumption
  DEF Fails, Interrupted, StopDrain, EndDrain, DrainTypes, bounds
<1>3. CASE ResumeSteers \/ ResumeQueued
  <2>1. D!DoorbellTypeOK'
    <3>1. CASE UNCHANGED doorbell
      BY <1>0, <3>1 DEF doorbell, D!DoorbellTypeOK
    <3>2. CASE D!Ring(Session, "steer", Resumer, "wake")
      BY <1>0, <1>r, <3>2, RingType DEF Scopes
    <3> QED BY <1>3, <3>1, <3>2 DEF ResumeSteers, ResumeQueued
  <2> QED BY <1>3, <2>1 DEF ResumeSteers, ResumeQueued, DrainTypes, bounds
<1>4. ASSUME NEW resume \in BOOLEAN, Interrupt(resume) PROVE DrainTypes'
  <2>1. stops' \in 0..MaxStops
    BY <1>4, DrainAssumption DEF Interrupt, DrainTypes
  <2>2. Interrupter(stops') \in Rings
    BY <2>1 DEF Rings
  <2>3. D!DoorbellTypeOK'
    BY <1>0, <1>4, <2>2, InterruptType DEF Interrupt
  <2>4. drain' \in Drain
    BY <1>0, <1>4, <1>s DEF Interrupt, Drain
  <2>5. resumption' \in {"none", "steers", "queued", "rung", "nothing"}
    BY <1>4 DEF Interrupt, DrainTypes
  <2>6. UNCHANGED <<unanswered, reloads>>
    BY <1>4 DEF Interrupt
  <2> QED BY <2>1, <2>3, <2>4, <2>5, <2>6 DEF DrainTypes
<1> QED BY <1>1, <1>2, <1>3, <1>4

LEMMA InboxActsTypes ==
  ASSUME DrainTypes, PromoterActs \/ \E c \in Callers : CallerActs(c)
  PROVE  DrainTypes'
<1>1. CASE PromoterActs
  <2>1. unanswered' \in BOOLEAN
    BY <1>1 DEF PromoterActs, DrainTypes
  <2> QED BY <1>1, <2>1 DEF PromoterActs, DrainTypes, doorbell, bounds, D!DoorbellTypeOK
<1>2. ASSUME NEW c \in Callers, CallerActs(c) PROVE DrainTypes'
  BY <1>2 DEF CallerActs, DrainTypes, doorbell, bounds, D!DoorbellTypeOK
<1> QED BY <1>1, <1>2

-------------------------------------------------------------------------------
(* Steps that keep the inbox as it is. *)

LEMMA InboxStays ==
  ASSUME InboxInv, UNCHANGED inboxVars
  PROVE  InboxInv'
BY InboxInvNext DEF inboxVars, vars

LEMMA RowsStay ==
  ASSUME RowsOrdered, UNCHANGED tables
  PROVE  RowsOrdered'
BY DEF RowsOrdered, tables, Pending, Oldest

LEMMA HeldStays ==
  ASSUME RowsHeld, UNCHANGED inboxVars
  PROVE  RowsHeld'
BY DEF RowsHeld, inboxVars, tables, Pending

(* The runner is out of the inbox. *)
LEMMA OutOfInbox ==
  ASSUME RowsHeld, promoter.at = "idle", UNCHANGED inboxVars,
         drain'.at \notin {"boundary", "promoting"}
  PROVE  RunnerPlace' /\ RowsHeld'
BY DEF RunnerPlace, RowsHeld, inboxVars, DrainAt

LEMMA UndisturbedStays ==
  ASSUME Undisturbed, UNCHANGED <<call, made, resumption>>, stops' = 0 => stops = 0,
         drain'.stopping => drain.stopping
  PROVE  Undisturbed'
BY DEF Undisturbed, Woke

LEMMA OwedStays ==
  ASSUME UNCHANGED <<call, made>>, NEW i \in IDs, Owed(i)
  PROVE  Owed(i)'
BY DEF Owed, MayWake, Asked, Woke

(* A drain moves on between points at which it sees every row. *)
LEMMA GuardedStays ==
  ASSUME DrainInv, UNCHANGED inboxVars, UNCHANGED <<made, demand, stops>>,
         drain'.at \notin {"asleep", "reading", "boundary"},
         drain'.promotable = drain.promotable
  PROVE  Guarded'
<1> SUFFICES ASSUME stops = 0, "input" \notin demand[Session], NEW i \in Pending
             PROVE  Owed(i)' \/ WillSee(i)'
  BY DEF Guarded, inboxVars, tables, Pending
<1>1. CASE Owed(i)
  BY <1>1, OwedStays DEF Pending, inboxVars
<1>2. CASE WillSee(i)
  BY <1>2 DEF WillSee, DrainAt
<1> QED BY <1>1, <1>2 DEF DrainInv, Guarded

(* A drain that completes has seen every row. *)
LEMMA CompleteInv ==
  ASSUME DrainInv, Complete, promoter.at = "idle",
         stops = 0 => ~unanswered,
         \A i \in Pending : WillSee(i) => Owed(i)
  PROVE  DrainInv'
<1>1. UNCHANGED inboxVars /\ UNCHANGED <<demand, made, unanswered, resumption, stops>> /\ drain' = Asleep
  BY FinishServing DEF Complete, EndDrain, bounds, DrainInv, DrainTypes
<1>2. InboxInv' /\ RowsOrdered' /\ DrainTypes'
  BY <1>1, InboxStays, RowsStay, CompleteTypes DEF DrainInv, inboxVars
<1>3. RunnerPlace' /\ RowsHeld'
  BY <1>1, OutOfInbox DEF DrainInv, Asleep
<1>4. Undisturbed'
  BY <1>1, UndisturbedStays DEF DrainInv, inboxVars, Asleep
<1>5. Answers'
  BY <1>1 DEF Answers
<1>6. Guarded'
  <2> SUFFICES ASSUME stops = 0, "input" \notin demand[Session], NEW i \in Pending
               PROVE  Owed(i)'
    BY <1>1 DEF Guarded, inboxVars, tables, Pending
  <2>1. Owed(i)
    BY DEF DrainInv, Guarded
  <2> QED BY <1>1, <2>1, OwedStays DEF Pending, inboxVars
<1> QED BY <1>2, <1>3, <1>4, <1>5, <1>6 DEF DrainInv

(* A step of the drain outside of the inbox. *)
LEMMA StepInv ==
  ASSUME DrainInv, DrainTypes', UNCHANGED inboxVars,
         UNCHANGED <<made, demand, resumption, stops>>,
         promoter.at = "idle",
         drain'.at \notin {"asleep", "reading", "boundary", "promoting"},
         drain'.promotable = drain.promotable, drain'.stopping = drain.stopping,
         Answers'
  PROVE  DrainInv'
<1>1. InboxInv' /\ RowsOrdered'
  BY InboxStays, RowsStay DEF DrainInv, inboxVars
<1>2. RunnerPlace' /\ RowsHeld'
  BY OutOfInbox DEF DrainInv
<1>3. Undisturbed'
  BY UndisturbedStays DEF DrainInv, inboxVars
<1>4. Guarded'
  BY GuardedStays
<1> QED BY <1>1, <1>2, <1>3, <1>4 DEF DrainInv

-------------------------------------------------------------------------------
(* The drain's steps. *)

(* Away from the promotion, no delivered prompt waits. *)
LEMMA NoneWaits ==
  ASSUME DrainInv, drain.at \notin {"ready", "promoting"}, stops = 0
  PROVE  ~unanswered
BY DEF DrainInv, Answers, DrainAt

LEMMA PlaceIdle ==
  ASSUME DrainInv, drain.at \notin {"boundary", "promoting"}
  PROVE  promoter.at = "idle"
BY DEF DrainInv, RunnerPlace, DrainAt

LEMMA CheckSteersInv ==
  ASSUME DrainInv, CheckSteers
  PROVE  DrainInv'
<1>0. DrainTypes' /\ drain \in Drain
  BY PointsTypes DEF DrainInv, DrainTypes
<1>1. /\ DrainAt("entering") /\ Quiet /\ promoter.at = "idle" /\ UNCHANGED <<inboxVars, made, demand, resumption, stops>>
  BY PlaceIdle DEF CheckSteers, Runs, DrainAt, Quiet, doorbell, bounds
<1>2. Answers'
  BY <1>1, NoneWaits DEF Answers, DrainAt, Quiet, bounds
<1>3. CASE Move("top")
  <2>1. drain'.at = "top" /\ drain'.promotable = drain.promotable /\ drain'.stopping = drain.stopping
    BY <1>0, <1>3 DEF Move, Drain
  <2> QED BY <1>0, <1>1, <1>2, <2>1, StepInv
<1>4. CASE Move("reading") /\ Steers = {}
  <2>1. drain'.at = "reading" /\ drain'.promotable = drain.promotable /\ drain'.stopping = drain.stopping
    BY <1>0, <1>4 DEF Move, Drain
  <2>2. InboxInv' /\ RowsOrdered' /\ RunnerPlace' /\ RowsHeld'
    BY <1>1, <2>1, InboxStays, RowsStay, OutOfInbox DEF DrainInv, inboxVars
  <2>3. Undisturbed'
    BY <1>1, <2>1, UndisturbedStays DEF DrainInv, inboxVars
  <2>4. \A i \in Pending : inbox[i].delivery = "queue"
    BY <1>4 DEF Steers, Mode, Pending, DrainInv, InboxInv, TypeInv, TypeOK, Row, Deliveries
  <2>5. Guarded'
    <3> SUFFICES ASSUME stops = 0, "input" \notin demand[Session], NEW i \in Pending
                 PROVE  Owed(i)' \/ WillSee(i)'
      BY <1>1 DEF Guarded, inboxVars, tables, Pending
    <3>1. CASE Owed(i)
      BY <1>1, <3>1, OwedStays DEF Pending, inboxVars
    <3>2. CASE WillSee(i)
      BY <1>1, <2>1, <2>4, <3>2 DEF WillSee, DrainAt, inboxVars, tables
    <3> QED BY <3>1, <3>2 DEF DrainInv, Guarded
  <2> QED BY <1>0, <1>2, <2>2, <2>3, <2>5 DEF DrainInv
<1> QED BY <1>3, <1>4 DEF CheckSteers

LEMMA CheckQueuedInv ==
  ASSUME DrainInv, CheckQueued
  PROVE  DrainInv'
<1>0. DrainTypes' /\ drain \in Drain
  BY PointsTypes DEF DrainInv, DrainTypes
<1>1. DrainAt("reading") /\ promoter.at = "idle"
  BY PlaceIdle DEF CheckQueued, Runs, DrainAt
<1>n. stops = 0 => ~unanswered
  BY <1>1, NoneWaits DEF DrainAt
<1>2. CASE Move("top") /\ Quiet
  <2>1. drain'.at = "top" /\ drain'.promotable = drain.promotable /\ drain'.stopping = drain.stopping
    BY <1>0, <1>2 DEF Move, Drain
  <2>2. UNCHANGED <<inboxVars, made, demand, resumption, stops>>
    BY <1>2 DEF Quiet, doorbell, bounds
  <2>3. Answers'
    BY <1>2, <1>n DEF Answers, Quiet, bounds
  <2> QED BY <1>0, <1>1, <2>1, <2>2, <2>3, StepInv
<1>3. CASE Complete /\ ~(\E i \in Queued : /\ Oldest(i, Queued)
                                           /\ drain.promotable = "input" \/ IsControl(i))
  <2>1. ASSUME NEW i \in Pending, WillSee(i) PROVE FALSE
    <3>1. i \in Queued /\ drain.promotable = "input"
      BY <1>1, <2>1 DEF WillSee, Queued, Mode
    <3>2. Queued \in SUBSET Pending /\ Queued # {}
      BY <3>1 DEF Queued, Mode
    <3>3. PICK k \in Queued : Oldest(k, Queued)
      BY <3>2 DEF DrainInv, RowsOrdered
    <3> QED BY <1>3, <3>1, <3>3
  <2> QED BY <1>1, <1>3, <1>n, <2>1, CompleteInv
<1> QED BY <1>2, <1>3 DEF CheckQueued

LEMMA StartTaskInv ==
  ASSUME DrainInv, Boundary \/ Promote
  PROVE  DrainInv'
<1>0. DrainTypes' /\ drain \in Drain
  BY PointsTypes DEF DrainInv, DrainTypes
<1>1. /\ drain.at \notin {"ready", "promoting", "boundary", "asleep", "reading"}
      /\ UNCHANGED <<tables, lock, call, made, demand, unanswered, resumption, stops>>
  BY DEF Boundary, Promote, StartTask, Runs, DrainAt, doorbell, bounds
<1>2. /\ promoter'.at = "lock"
      /\ drain'.at = "boundary" => promoter'.task = "boundary" /\ promoter'.scope = BoundaryScope
      /\ drain'.at = "promoting" => promoter'.task = "promote" /\ promoter'.scope = PromoteScope
      /\ drain'.at \in {"boundary", "promoting"}
      /\ drain'.promotable = drain.promotable /\ drain'.stopping = drain.stopping
      /\ drain'.entering = drain.entering /\ drain'.continuing = drain.continuing
  BY <1>0 DEF Boundary, Promote, StartTask, IdlePromoter, Move, Drain, BoundaryScope
<1>3. InboxInv'
  <2>1. BoundaryScope \in Scopes /\ PromoteScope \in Scopes \cup {None}
    BY <1>0 DEF BoundaryScope, PromoteScope, Scopes, Drain
  <2>2. InboxInv /\ StartTask("boundary", BoundaryScope) => InboxInv'
    BY <2>1, InboxInvNext DEF Next
  <2>3. CASE Boundary
    BY <2>2, <2>3 DEF Boundary, BoundaryScope, DrainInv
  <2>4. CASE Promote
    <3>1. TypeInv'
      BY <1>1, <2>1, <2>4 DEF Promote, StartTask, IdlePromoter, DrainInv, InboxInv, TypeInv, TypeOK, CallShape,
             tables, Promoter, Asked
    <3>2. LockHeld' /\ NothingEnters
      BY <1>1, <1>2 DEF LockHeld, UnderLock, Asked, NothingEnters, tables, Pending, DrainInv, InboxInv
    <3> QED BY <1>1, <3>1, <3>2, CallsAsBefore DEF DrainInv
  <2> QED BY <2>3, <2>4
<1>4. RowsOrdered'
  BY <1>1, RowsStay DEF DrainInv
<1>5. RunnerPlace' /\ RowsHeld'
  BY <1>2 DEF RunnerPlace, RowsHeld, DrainAt, BoundaryScope, PromoteScope
<1>6. Undisturbed'
  BY <1>1, <1>2, UndisturbedStays DEF DrainInv
<1>7. Answers'
  BY <1>1, NoneWaits DEF Answers
<1>8. Guarded'
  <2> SUFFICES ASSUME stops = 0, "input" \notin demand[Session], NEW i \in Pending
               PROVE  Owed(i)' \/ WillSee(i)'
    BY <1>1 DEF Guarded, tables, Pending
  <2>1. CASE Owed(i)
    BY <1>1, <2>1, OwedStays DEF Pending
  <2>2. CASE WillSee(i)
    BY <1>2, <2>2 DEF WillSee, DrainAt
  <2> QED BY <2>1, <2>2 DEF DrainInv, Guarded
<1> QED BY <1>0, <1>3, <1>4, <1>5, <1>6, <1>7, <1>8 DEF DrainInv

LEMMA DecidedInv ==
  ASSUME DrainInv, Decided
  PROVE  DrainInv'
<1> DEFINE next == promoter.next
           parked == next # None /\ next.delivery = "queue" /\ drain.promotable = "steer"
           idle == ~drain.force /\ ~drain.continuing /\ (next = None \/ parked)
           renewed == ~drain.continuing /\ (next = None \/ next.delivery # "steer")
           here == [drain EXCEPT !.entering = @ \/ renewed]
<1>0. DrainTypes' /\ drain \in Drain
  BY PointsTypes DEF DrainInv, DrainTypes
<1>1. DrainAt("boundary") /\ promoter.at = "idle" /\ promoter.outcome # "died"
  BY DEF Decided
<1>n. stops = 0 => ~unanswered
  BY <1>1, NoneWaits DEF DrainAt
<1>2. \/ Reenter(FALSE) /\ Quiet
      \/ drain' = [here EXCEPT !.at = "compacting"] /\ Quiet
      \/ Complete /\ idle
      \/ drain' = [here EXCEPT !.at = IF idle THEN "idling" ELSE "preparing"] /\ Quiet
  BY DEF Decided
<1>3. CASE Complete /\ idle
  <2>1. ASSUME NEW i \in Pending, WillSee(i) PROVE FALSE
    <3>1. drain.promotable = "input" /\ next = None /\ ~drain.continuing
      BY <1>3, <2>1 DEF WillSee
    <3>2. promoter.outcome = "none"
      BY <1>1, <3>1, InboxAssumption DEF DrainInv, RunnerPlace, DrainAt, Promotion
    <3>3. BoundaryScope = "steer"
      BY <1>1, <2>1, <3>2 DEF WillSee
    <3> QED BY <3>1, <3>3 DEF BoundaryScope
  <2> QED BY <1>1, <1>3, <1>n, <2>1, CompleteInv
<1>4. CASE Quiet
  <2>1. /\ drain'.at \in {"entering", "compacting", "idling", "preparing"}
        /\ drain'.promotable = drain.promotable /\ drain'.stopping = drain.stopping
    <3>1. CASE Reenter(FALSE)
      BY <1>0, <3>1 DEF Reenter, Drain
    <3>2. /\ here.promotable = drain.promotable /\ here.stopping = drain.stopping
          /\ here = [at |-> here.at, force |-> here.force, continuing |-> here.continuing,
                     entering |-> here.entering, stepped |-> here.stepped,
                     promotable |-> here.promotable, stopping |-> here.stopping]
      BY <1>0 DEF Drain
    <3>3. CASE drain' = [here EXCEPT !.at = "compacting"]
                \/ drain' = [here EXCEPT !.at = IF idle THEN "idling" ELSE "preparing"]
      <4> DEFINE pc == IF idle THEN "idling" ELSE "preparing"
      <4>1. pc \in {"idling", "preparing"}
        OBVIOUS
      <4>2. drain' = [here EXCEPT !.at = "compacting"] \/ drain' = [here EXCEPT !.at = pc]
        BY <3>3
      <4> HIDE DEF here, pc
      <4> QED BY <3>2, <4>1, <4>2
    <3>4. ~Complete
      BY <1>4 DEF Complete, EndDrain, D!Finish, Quiet, doorbell, DrainInv, DrainTypes, D!DoorbellTypeOK
    <3> HIDE DEF here, idle
    <3> QED BY <1>2, <3>1, <3>3, <3>4
  <2>2. UNCHANGED <<inboxVars, made, demand, resumption, stops>>
    BY <1>4 DEF Quiet, doorbell, bounds
  <2>3. Answers'
    BY <1>4, <1>n DEF Answers, Quiet, bounds
  <2> QED BY <1>0, <1>1, <2>1, <2>2, <2>3, StepInv
<1> QED BY <1>2, <1>3, <1>4

LEMMA PlainStepInv ==
  ASSUME DrainInv,
         \/ Compacted \/ AfterIdleHook \/ Promoted \/ BeginStep \/ Reload
         \/ \E more \in BOOLEAN : EndStep(more)
  PROVE  DrainInv'
<1>0. drain \in Drain
  BY DEF DrainInv, DrainTypes
<1>t. DrainTypes'
  BY PointsTypes, DisturbanceTypes DEF DrainInv
<1>1. CASE Complete
  <2>1. DrainAt("idling") /\ Pending = {}
    <3>1. serving' # serving
      BY <1>1 DEF Complete, EndDrain, D!Finish, DrainInv, DrainTypes, D!DoorbellTypeOK
    <3>2. AfterIdleHook
      BY <3>1 DEF Compacted, Promoted, BeginStep, Reload, EndStep, Quiet, doorbell
    <3> QED BY <3>1, <3>2 DEF AfterIdleHook, Runs, Quiet, doorbell
  <2>2. promoter.at = "idle" /\ (stops = 0 => ~unanswered)
    BY <2>1, PlaceIdle, NoneWaits DEF DrainAt
  <2> QED BY <1>1, <2>1, <2>2, CompleteInv
<1>2. CASE ~Complete
  <2>1. UNCHANGED <<inboxVars, made, demand, resumption, stops>>
    BY <1>2 DEF Compacted, AfterIdleHook, Promoted, BeginStep, Reload, EndStep, Quiet, doorbell, bounds
  <2>2. promoter.at = "idle"
    BY PlaceIdle DEF Compacted, AfterIdleHook, Promoted, BeginStep, Reload, EndStep, Runs, DrainAt
  <2>3. /\ drain'.at \notin {"asleep", "reading", "boundary", "promoting"}
        /\ drain'.promotable = drain.promotable /\ drain'.stopping = drain.stopping
    BY <1>0, <1>2 DEF Compacted, AfterIdleHook, Promoted, BeginStep, Reload, EndStep, Reenter, Move, Drain
  <2>4. Answers'
    <3>1. CASE Promoted
      <4>1. drain'.at = IF promoter.outcome = "control" THEN "top" ELSE "ready"
        BY <1>0, <3>1 DEF Promoted, Move, Drain
      <4> QED BY <2>1, <3>1, <4>1 DEF Promoted, Runs, DrainInv, Answers, DrainAt, Quiet
    <3>2. CASE BeginStep
      BY <3>2 DEF BeginStep, Answers
    <3>3. CASE ~Promoted /\ ~BeginStep
      <4>1. drain.at \notin {"ready", "promoting"} /\ unanswered' = unanswered
        BY <1>2, <3>3 DEF Compacted, AfterIdleHook, Reload, EndStep, Runs, DrainAt, Quiet
      <4> QED BY <2>1, <4>1, NoneWaits DEF Answers
    <3> QED BY <3>1, <3>2, <3>3
  <2> QED BY <1>t, <2>1, <2>2, <2>3, <2>4, StepInv
<1> QED BY <1>1, <1>2

-------------------------------------------------------------------------------
(* Callers, and what the coordinator lets begin. *)

LEMMA CallerActsInv ==
  ASSUME DrainInv, NEW c \in Callers, CallerActs(c)
  PROVE  DrainInv'
<1>1. /\ CallerEffect(c)
      /\ UNCHANGED <<demand, made, drain, unanswered, resumption, stops>>
  BY CallerEffects DEF CallerActs, DrainInv, doorbell, bounds
<1>2. InboxInv' /\ DrainTypes'
  BY InboxInvNext, InboxActsTypes DEF CallerActs, Next, DrainInv
<1>3. RowsOrdered'
  BY <1>1, <1>2, RowsOrderedKept DEF CallerEffect, DrainInv, InboxInv, TypeInv
<1>4. RunnerPlace' /\ Answers'
  BY <1>1 DEF CallerEffect, DrainInv, RunnerPlace, Answers, DrainAt, BoundaryScope, PromoteScope
<1>5. RowsHeld'
  <2>1. promoter.at \in {"deliver", "publish"} => RowsUntouched
    BY <1>1 DEF CallerEffect, DrainInv, InboxInv, LockHeld
  <2> QED BY <1>1, <2>1 DEF CallerEffect, DrainInv, RowsHeld, RowsUntouched
<1>6. stops = 0 => ~Woke(c)
  BY <1>1 DEF CallerEffect, DrainInv, Undisturbed
<1>7. Undisturbed'
  <2>1. ASSUME stops = 0, NEW d \in Callers, Woke(d) PROVE call'[d].at = "ok"
    BY <1>1, <1>6, <2>1 DEF CallerEffect, DrainInv, Undisturbed
  <2> QED BY <1>1, <2>1 DEF DrainInv, Undisturbed, Woke
<1>8. Guarded'
  <2> SUFFICES ASSUME stops = 0, "input" \notin demand[Session], NEW i \in Pending'
               PROVE  Owed(i)' \/ WillSee(i)'
    BY <1>1 DEF Guarded
  <2>1. CASE WillWake(c, i)
    BY <1>1, <1>6, <2>1 DEF WillWake, Owed, MayWake, Woke, Asked
  <2>2. CASE i \in Pending /\ (inbox'[i] = inbox[i] \/ inbox'[i].delivery = "queue")
    <3>1. CASE Owed(i)
      <4>1. PICK d \in Callers : MayWake(d) /\ call[d].got = i
        BY <3>1 DEF Owed
      <4>2. call'[d] = call[d]
        BY <1>1, <4>1 DEF CallerEffect, MayWake
      <4> QED BY <1>1, <4>1, <4>2 DEF Owed, MayWake, Woke, Asked
    <3>2. CASE WillSee(i)
      BY <1>1, <2>2, <3>2 DEF CallerEffect, WillSee, DrainAt, BoundaryScope
    <3> QED BY <2>2, <3>1, <3>2 DEF DrainInv, Guarded
  <2> QED BY <1>1, <2>1, <2>2 DEF CallerEffect, RowsOwed
<1> QED BY <1>2, <1>3, <1>4, <1>5, <1>7, <1>8 DEF DrainInv

LEMMA WakeInv ==
  ASSUME DrainInv, (\E c \in Callers : Wake(c)) \/ Resume
  PROVE  DrainInv'
<1>1. UNCHANGED inboxVars /\ UNCHANGED <<unanswered, resumption, stops>> /\ "input" \in demand'[Session]
  <2>1. D!DoorbellTypeOK /\ Resumer \in Rings
    BY DrainAssumption DEF DrainInv, DrainTypes, Resumer, Rings
  <2> QED BY <2>1, RingType DEF Wake, Resume, bounds, Rings, Scopes
<1>2. InboxInv' /\ RowsOrdered' /\ RowsHeld' /\ DrainTypes'
  BY <1>1, InboxStays, RowsStay, HeldStays, WakeTypes DEF DrainInv, inboxVars
<1>3. /\ drain'.at = drain.at /\ drain'.entering = drain.entering /\ drain'.continuing = drain.continuing
      /\ drain'.promotable = drain.promotable /\ drain'.stopping = drain.stopping
  BY DEF Wake, Resume, DrainInv, DrainTypes, Drain
<1>4. RunnerPlace' /\ Answers'
  BY <1>1, <1>3 DEF DrainInv, RunnerPlace, Answers, DrainAt, BoundaryScope, PromoteScope, inboxVars
<1>5. Guarded'
  BY <1>1 DEF Guarded
<1>6. Undisturbed'
  <2>1. ASSUME NEW d \in Callers, Woke(d)' PROVE Woke(d) \/ call[d].at = "ok"
    <3>0. made \in [{Session} -> SUBSET (Rings \X D!Ops)]
      BY DEF DrainInv, DrainTypes, D!DoorbellTypeOK, Rings
    <3>1. CASE Resume
      BY <2>1, <3>0, <3>1 DEF Resume, Woke, D!Ring, D!Make
    <3>2. ASSUME NEW c \in Callers, Wake(c) PROVE Woke(d) \/ call[d].at = "ok"
      BY <2>1, <3>0, <3>2 DEF Wake, MayWake, Woke, D!Ring, D!Make
    <3> QED BY <3>1, <3>2
  <2> QED BY <1>1, <1>3, <2>1 DEF DrainInv, Undisturbed, inboxVars
<1> QED BY <1>2, <1>4, <1>5, <1>6 DEF DrainInv

LEMMA BeginDrainInv ==
  ASSUME DrainInv, NEW s \in Scopes, BeginDrain(s)
  PROVE  DrainInv'
<1>1. /\ DrainAt("asleep") /\ UNCHANGED inboxVars /\ UNCHANGED <<made, unanswered, resumption, stops>>
      /\ "input" \notin demand'[Session] => s = "input" \/ "input" \notin demand[Session]
  BY ServeType DEF BeginDrain, bounds, DrainInv, DrainTypes, D!Serve
<1>2. /\ drain'.at = "entering" /\ drain'.promotable = s /\ drain'.stopping = drain.stopping
  BY DEF BeginDrain, DrainInv, DrainTypes, Drain
<1>3. promoter.at = "idle"
  BY <1>1, PlaceIdle DEF DrainAt
<1>4. InboxInv' /\ RowsOrdered' /\ DrainTypes'
  BY <1>1, InboxStays, RowsStay, WakeTypes DEF DrainInv, inboxVars
<1>5. RunnerPlace' /\ RowsHeld'
  BY <1>1, <1>2, <1>3, OutOfInbox DEF DrainInv
<1>6. Undisturbed'
  BY <1>1, <1>2, UndisturbedStays DEF DrainInv, inboxVars
<1>7. Answers'
  BY <1>1, NoneWaits DEF Answers, DrainAt
<1>8. Guarded'
  <2> SUFFICES ASSUME stops = 0, "input" \notin demand'[Session], NEW i \in Pending
               PROVE  Owed(i)' \/ WillSee(i)'
    BY <1>1 DEF Guarded, inboxVars, tables, Pending
  <2>1. CASE s = "input"
    BY <1>2, <2>1 DEF WillSee, DrainAt
  <2>2. CASE s # "input"
    <3>1. Owed(i)
      BY <1>1, <2>2 DEF DrainInv, Guarded, WillSee, DrainAt
    <3> QED BY <1>1, <3>1, OwedStays DEF Pending, inboxVars
  <2> QED BY <2>1, <2>2
<1> QED BY <1>4, <1>5, <1>6, <1>7, <1>8 DEF DrainInv

-------------------------------------------------------------------------------
(* Interrupts and failures: what is pending may be left behind.            *)

LEMMA StopInv ==
  ASSUME DrainInv, Fails \/ Interrupted
  PROVE  DrainInv'
<1>1. StopDrain /\ stops' # 0
  BY DrainAssumption DEF Fails, Interrupted, bounds, DrainInv, DrainTypes, Undisturbed
<1>2. UNCHANGED <<tables, call>> /\ promoter'.at = "idle" /\ drain' = Asleep
  BY <1>1 DEF StopDrain, EndDrain, InterruptRunner, IdlePromoter, inboxVars
<1>3. promoter'.at = "idle" /\ drain'.at = "asleep"
  BY <1>2 DEF Asleep
<1>4. InboxInv'
  BY <1>1, InboxInvNext DEF StopDrain, inboxVars, vars, Next, DrainInv
<1>7. InboxInv' /\ RowsOrdered' /\ DrainTypes'
  BY <1>2, <1>4, RowsStay, DisturbanceTypes DEF DrainInv
<1>8. RunnerPlace' /\ RowsHeld'
  BY <1>3 DEF RunnerPlace, RowsHeld, DrainAt
<1> QED BY <1>1, <1>7, <1>8 DEF DrainInv, Undisturbed, Answers, Guarded

LEMMA InterruptInv ==
  ASSUME DrainInv,
         \/ ResumeSteers \/ ResumeQueued
         \/ \E resume \in BOOLEAN : Interrupt(resume)
  PROVE  DrainInv'
<1>1. UNCHANGED inboxVars /\ stops' # 0
  <2>1. ASSUME NEW resume \in BOOLEAN, Interrupt(resume) PROVE UNCHANGED inboxVars /\ stops' # 0
    BY <2>1, DrainAssumption DEF Interrupt, DrainInv, DrainTypes
  <2>2. CASE ResumeSteers \/ ResumeQueued
    BY <2>2 DEF ResumeSteers, ResumeQueued, bounds, DrainInv, Undisturbed
  <2> QED BY <2>1, <2>2
<1>2. /\ drain'.at = drain.at
      /\ drain'.at # "asleep" =>
           /\ drain'.entering = drain.entering /\ drain'.continuing = drain.continuing
           /\ drain'.promotable = drain.promotable
  BY DEF ResumeSteers, ResumeQueued, Interrupt, DrainInv, DrainTypes, Drain, DrainAt, Asleep
<1>3. InboxInv' /\ RowsOrdered' /\ RowsHeld' /\ DrainTypes'
  BY <1>1, InboxStays, RowsStay, HeldStays, DisturbanceTypes DEF DrainInv, inboxVars
<1>4. RunnerPlace'
  BY <1>1, <1>2 DEF DrainInv, RunnerPlace, DrainAt, BoundaryScope, PromoteScope, inboxVars
<1> QED BY <1>1, <1>3, <1>4 DEF DrainInv, Undisturbed, Answers, Guarded

-------------------------------------------------------------------------------
(* The runner in the inbox. *)

(* Rows leave, and the rest stays as it is. *)
RowsLeave == seq' = seq /\ \A i \in Pending' : i \in Pending /\ inbox'[i] = inbox[i]

(* At a boundary, the drain does not lose sight of the rows it would come to. *)
KeepsSight ==
  \A i \in Pending' :
    WillSee(i) /\ DrainAt("boundary") =>
      /\ promoter'.at = "queued" => inbox'[i].delivery = "queue"
      /\ promoter'.at = "idle" /\ promoter'.outcome = "none" => BoundaryScope = "steer"

LEMMA PromoterKeeps ==
  ASSUME DrainInv, PromoterActs, RowsLeave, KeepsSight, RunnerPlace', RowsHeld', Answers'
  PROVE  DrainInv'
<1>1. UNCHANGED <<call, demand, made, drain, resumption, stops>> /\ PromoterStep
  BY DEF PromoterActs, doorbell, bounds, PromoterStep, AcquireRunner, BoundarySteers,
         BoundaryQueued, DeliverControl, PromoteSteers, PromoteQueued, PublishNext,
         PublishLate, PublishDone
<1>2. InboxInv' /\ DrainTypes'
  BY <1>1, InboxInvNext, InboxActsTypes DEF Next, DrainInv
<1>3. RowsOrdered'
  BY <1>2, RowsOrderedKept DEF RowsLeave, NoRowEnters, DrainInv, InboxInv, TypeInv
<1>4. Undisturbed'
  BY <1>1, UndisturbedStays DEF DrainInv
<1>5. Guarded'
  <2> SUFFICES ASSUME stops = 0, "input" \notin demand[Session], NEW i \in Pending'
               PROVE  Owed(i)' \/ WillSee(i)'
    BY <1>1 DEF Guarded
  <2>1. i \in Pending /\ i \in IDs
    BY DEF RowsLeave, Pending
  <2>2. CASE Owed(i)
    BY <1>1, <2>1, <2>2, OwedStays
  <2>3. CASE WillSee(i)
    <3>1. drain.at # "reading"
      BY DEF PromoterActs
    <3> QED BY <1>1, <2>3, <3>1 DEF WillSee, KeepsSight, DrainAt, BoundaryScope
  <2> QED BY <2>1, <2>2, <2>3 DEF DrainInv, Guarded
<1> QED BY <1>2, <1>3, <1>4, <1>5 DEF DrainInv

(* Until the promotion publishes, no delivered prompt waits. *)
LEMMA NothingYet ==
  ASSUME DrainInv, PromoterActs, promoter.at \notin {"idle", "publish"},
         \A i \in IDs : message'[i] \in Prompts => message'[i] = message[i]
  PROVE  Answers'
<1>1. stops = 0 => ~unanswered
  BY DEF DrainInv, Answers, DrainAt, PromoterActs
<1>2. unanswered' = unanswered /\ stops' = stops
  <2>1. None \notin Prompts
    BY InboxAssumption DEF Types
  <2> QED BY <2>1 DEF PromoterActs, bounds, DrainInv, DrainTypes
<1> QED BY <1>1, <1>2 DEF Answers

LEMMA Places ==
  ASSUME DrainInv, PromoterActs, promoter.at # "idle"
  PROVE  /\ promoter.task = "boundary" => DrainAt("boundary") /\ promoter.scope = BoundaryScope
         /\ promoter.task = "promote" => DrainAt("promoting") /\ promoter.scope = PromoteScope
         /\ UNCHANGED drain
BY DEF DrainInv, RunnerPlace, PromoterActs, DrainAt

LEMMA ReadRows ==
  ASSUME UNCHANGED tables
  PROVE  RowsLeave /\ \A i \in IDs : message'[i] = message[i]
BY DEF RowsLeave, tables, Pending

LEMMA AcquireRunnerInv ==
  ASSUME DrainInv, PromoterActs, AcquireRunner
  PROVE  DrainInv'
<1>1. /\ promoter'.at = "steers" /\ promoter'.task = promoter.task /\ promoter'.scope = promoter.scope
      /\ UNCHANGED tables /\ promoter.at = "lock"
  BY DEF AcquireRunner, DrainInv, InboxInv, TypeInv, TypeOK, Promoter
<1>2. RunnerPlace' /\ RowsHeld' /\ KeepsSight
  BY <1>1, Places DEF PromoterActs, DrainInv, RunnerPlace, RowsHeld, KeepsSight, DrainAt, BoundaryScope, PromoteScope
<1>3. Answers' /\ RowsLeave
  BY <1>1, NothingYet, ReadRows
<1> QED BY <1>2, <1>3, PromoterKeeps

(* The boundary decides on a row it read. *)
LEMMA DecideInv ==
  ASSUME DrainInv, PromoterActs, promoter.task = "boundary",
         promoter.at \in {"steers", "queued"}, UNCHANGED tables,
         NEW i \in Pending, Decide(i)
  PROVE  DrainInv'
<1> DEFINE next == [id |-> i, type |-> inbox[i].type, delivery |-> inbox[i].delivery]
<1>0. /\ promoter \in Promoter /\ i \in IDs /\ inbox[i] \in Row
      /\ DrainAt("boundary") /\ promoter.scope = BoundaryScope /\ UNCHANGED drain
  BY Places DEF DrainInv, InboxInv, TypeInv, TypeOK, Pending
<1>1. next \in Promotion /\ next.id = i /\ next.type = inbox[i].type
  BY <1>0 DEF Row, Promotion
<1>2. CASE IsControl(i)
  <2>1. promoter' = [promoter EXCEPT !.at = "deliver", !.next = next]
    BY <1>2 DEF Decide
  <2> HIDE DEF next
  <2>2. /\ promoter'.at = "deliver" /\ promoter'.next = next
        /\ promoter'.task = promoter.task /\ promoter'.scope = promoter.scope
    BY <1>0, <2>1 DEF Promoter
  <2>3. i \in Pending' /\ inbox' = inbox
    BY DEF tables, Pending
  <2>4. RunnerPlace' /\ RowsHeld' /\ KeepsSight
    BY <1>0, <1>1, <1>2, <2>2, <2>3
    DEF RunnerPlace, RowsHeld, KeepsSight, DrainAt, BoundaryScope, IsControl
  <2> QED BY <2>4, NothingYet, ReadRows, PromoterKeeps
<1>3. CASE ~IsControl(i)
  <2>1. Finish("item", next)
    BY <1>3 DEF Decide
  <2> HIDE DEF next
  <2>2. promoter'.at = "idle" /\ promoter'.next = next /\ promoter'.outcome = "item"
    BY <2>1 DEF Finish, IdlePromoter
  <2>3. RunnerPlace' /\ RowsHeld' /\ KeepsSight
    BY <1>0, <1>1, <2>2 DEF RunnerPlace, RowsHeld, KeepsSight, DrainAt
  <2> QED BY <2>3, NothingYet, ReadRows, PromoterKeeps
<1> QED BY <1>2, <1>3

LEMMA BoundaryInv ==
  ASSUME DrainInv, PromoterActs, BoundarySteers \/ BoundaryQueued
  PROVE  DrainInv'
<1>0. /\ promoter \in Promoter /\ promoter.at \in {"steers", "queued"} /\ promoter.task = "boundary"
      /\ UNCHANGED tables
  BY DEF BoundarySteers, BoundaryQueued, DrainInv, InboxInv, TypeInv, TypeOK
<1>1. DrainAt("boundary") /\ promoter.scope = BoundaryScope /\ UNCHANGED drain
  BY <1>0, Places
<1>a. Answers' /\ RowsLeave
  BY <1>0, NothingYet, ReadRows
<1>2. CASE BoundarySteers
  <2>1. CASE \E i \in Steers : Head(i, Steers) /\ Decide(i)
    BY <1>0, <2>1, DecideInv DEF Steers, Mode
  <2>2. CASE Steers = {} /\ promoter.scope = "input" /\ ThenQueued
    <3>1. promoter'.at = "queued" /\ promoter'.task = promoter.task /\ promoter'.scope = promoter.scope
      BY <1>0, <2>2 DEF ThenQueued, Promoter
    <3>2. \A i \in Pending' : inbox'[i].delivery = "queue"
      BY <1>0, <2>2 DEF tables, Steers, Mode, Pending, DrainInv, InboxInv, TypeInv, TypeOK, Row, Deliveries
    <3>3. RunnerPlace' /\ RowsHeld' /\ KeepsSight
      BY <1>0, <1>1, <2>2, <3>1, <3>2 DEF RunnerPlace, RowsHeld, KeepsSight, DrainAt, BoundaryScope
    <3> QED BY <1>a, <3>3, PromoterKeeps
  <2>3. CASE promoter.scope = "steer" /\ Finish("none", None)
    <3>1. promoter'.at = "idle" /\ promoter'.next = None /\ promoter'.outcome = "none"
      BY <2>3 DEF Finish, IdlePromoter
    <3>2. RunnerPlace' /\ RowsHeld' /\ KeepsSight
      BY <1>1, <2>3, <3>1 DEF RunnerPlace, RowsHeld, KeepsSight, DrainAt
    <3> QED BY <1>a, <3>2, PromoterKeeps
  <2> QED BY <1>2, <2>1, <2>2, <2>3 DEF BoundarySteers
<1>3. CASE BoundaryQueued
  <2>1. CASE \E i \in Queued : Oldest(i, Queued) /\ Decide(i)
    BY <1>0, <2>1, DecideInv DEF Queued, Mode
  <2>2. CASE Queued = {} /\ Finish("none", None)
    <3>1. promoter'.at = "idle" /\ promoter'.next = None /\ promoter'.outcome = "none"
      BY <2>2 DEF Finish, IdlePromoter
    <3>2. \A i \in Pending : inbox[i].delivery # "queue"
      BY <2>2 DEF Queued, Mode
    <3>3. KeepsSight
      BY <1>3, <1>a, <3>2 DEF BoundaryQueued, KeepsSight, WillSee, RowsLeave
    <3>4. RunnerPlace' /\ RowsHeld'
      BY <1>1, <3>1 DEF RunnerPlace, RowsHeld, DrainAt
    <3> QED BY <1>a, <3>3, <3>4, PromoterKeeps
  <2> QED BY <1>3, <2>1, <2>2 DEF BoundaryQueued
<1> QED BY <1>2, <1>3

(* What a delivery takes away. *)
LEMMA DeliverRows ==
  ASSUME TypeOK, NEW i \in Pending, Deliver(i)
  PROVE  /\ RowsLeave
         /\ \A j \in Pending \ {i} : j \in Pending' /\ inbox'[j] = inbox[j]
         /\ \A j \in IDs : message'[j] = message[j] \/ (j = i /\ message'[j] = inbox[i].type)
<1>1. i \in IDs /\ inbox'[i] = None /\ \A j \in IDs \ {i} : inbox'[j] = inbox[j]
  BY DEF Deliver, TypeOK, Pending
<1>2. \A j \in IDs : message'[j] = message[j] \/ (j = i /\ message'[j] = inbox[i].type)
  BY <1>1 DEF Deliver, TypeOK
<1> QED BY <1>1, <1>2 DEF RowsLeave, Pending, Deliver

LEMMA DeliverControlInv ==
  ASSUME DrainInv, PromoterActs, DeliverControl
  PROVE  DrainInv'
<1> DEFINE i == promoter.next.id
<1>1. /\ promoter.at = "deliver" /\ promoter.next \in Promotion /\ i \in Pending
      /\ inbox[i].type \in Controls /\ promoter.task = "boundary"
  BY DEF DeliverControl, DrainInv, RowsHeld
<1>2. Deliver(i) /\ Finish("control", promoter.next)
  BY <1>1 DEF DeliverControl
<1>3. DrainAt("boundary") /\ UNCHANGED drain
  BY <1>1, Places
<1>4. RowsLeave /\ \A j \in IDs : message'[j] = message[j] \/ message'[j] \in Controls
  BY <1>1, <1>2, DeliverRows DEF DrainInv, InboxInv, TypeInv
<1>5. Answers'
  BY <1>1, <1>4, NothingYet DEF Prompts, Controls
<1>6. promoter'.at = "idle" /\ promoter'.next = promoter.next /\ promoter'.outcome = "control"
  BY <1>2 DEF Finish, IdlePromoter
<1>7. RunnerPlace' /\ RowsHeld' /\ KeepsSight
  BY <1>1, <1>3, <1>6 DEF RunnerPlace, RowsHeld, KeepsSight, DrainAt
<1> QED BY <1>4, <1>5, <1>7, PromoterKeeps

LEMMA SnapshotRows ==
  ASSUME NEW S, NEW r \in Snapshot(S)
  PROVE  r[1] \in S /\ r[2] = inbox[r[1]].seq
BY DEF Snapshot

(* A promotion begins to publish rows it read. *)
LEMMA PublishingInv ==
  ASSUME DrainInv, PromoterActs, promoter.task = "promote",
         promoter.at \in {"steers", "queued"}, UNCHANGED tables,
         NEW S \in SUBSET Pending, NEW late \in BOOLEAN, StartPublishing(S, late),
         \/ ~late /\ S \subseteq Steers
         \/ late /\ promoter.scope = "input" /\ \E i \in Pending : S = {i}
  PROVE  DrainInv'
<1>0. /\ promoter \in Promoter
      /\ DrainAt("promoting") /\ promoter.scope = PromoteScope /\ UNCHANGED drain
  BY Places DEF DrainInv, InboxInv, TypeInv, TypeOK
<1>1. /\ promoter'.at = "publish" /\ promoter'.batch = Snapshot(S) /\ promoter'.late = late
      /\ promoter'.task = promoter.task /\ promoter'.scope = promoter.scope
  <2>1. promoter' = [promoter EXCEPT !.at = "publish", !.batch = Snapshot(S), !.late = late]
    BY DEF StartPublishing
  <2> QED BY <1>0, <2>1 DEF Promoter
<1>2. RowsHeld'
  <2>1. \A r \in Snapshot(S) : r[1] \in S /\ r[2] = inbox[r[1]].seq
    BY SnapshotRows
  <2>2. S \subseteq Pending' /\ inbox' = inbox
    BY DEF tables, Pending
  <2>3. late => \A r, q \in Snapshot(S) : r = q
    BY DEF Snapshot
  <2>4. \A r \in Snapshot(S) :
           inbox[r[1]].delivery = "steer" \/ (late /\ promoter.scope = "input")
    BY <2>1 DEF Steers, Mode
  <2>5. \A r \in promoter'.batch :
           /\ r[1] \in Pending' /\ r[2] = inbox'[r[1]].seq
           /\ inbox'[r[1]].delivery = "steer" \/ (promoter'.late /\ promoter'.scope = "input")
    BY <1>1, <2>1, <2>2, <2>4
  <2> QED BY <1>1, <2>3, <2>5 DEF RowsHeld
<1>3. RunnerPlace' /\ KeepsSight
  BY <1>0, <1>1 DEF RunnerPlace, KeepsSight, DrainAt, PromoteScope
<1> QED BY <1>2, <1>3, NothingYet, ReadRows, PromoterKeeps

LEMMA PromoteReadsInv ==
  ASSUME DrainInv, PromoterActs, PromoteSteers \/ PromoteQueued
  PROVE  DrainInv'
<1>0. /\ promoter \in Promoter /\ promoter.at \in {"steers", "queued"} /\ promoter.task = "promote"
      /\ UNCHANGED tables /\ Steers \subseteq Pending /\ Queued \subseteq Pending
  BY DEF PromoteSteers, PromoteQueued, DrainInv, InboxInv, TypeInv, TypeOK, Steers, Queued, Mode
<1>1. DrainAt("promoting") /\ promoter.scope = PromoteScope /\ UNCHANGED drain
  BY <1>0, Places
<1>a. Answers' /\ RowsLeave
  BY <1>0, NothingYet, ReadRows
<1>2. ASSUME NEW outcome, Finish(outcome, None) PROVE DrainInv'
  <2>1. promoter'.at = "idle"
    BY <1>2 DEF Finish, IdlePromoter
  <2>2. RunnerPlace' /\ RowsHeld' /\ KeepsSight
    BY <1>1, <2>1 DEF RunnerPlace, RowsHeld, KeepsSight, DrainAt
  <2> QED BY <1>a, <2>2, PromoterKeeps
<1>3. CASE ThenQueued /\ promoter.scope = "input"
  <2>1. promoter'.at = "queued" /\ promoter'.task = promoter.task /\ promoter'.scope = promoter.scope
    BY <1>0, <1>3 DEF ThenQueued, Promoter
  <2>2. RunnerPlace' /\ RowsHeld' /\ KeepsSight
    BY <1>0, <1>1, <1>3, <2>1 DEF RunnerPlace, RowsHeld, KeepsSight, DrainAt, PromoteScope
  <2> QED BY <1>a, <2>2, PromoterKeeps
<1>4. CASE StartPublishing(BeforeControl(Steers), FALSE)
  <2>1. BeforeControl(Steers) \subseteq Steers
    BY DEF BeforeControl
  <2> QED BY <1>0, <1>4, <2>1, PublishingInv
<1>5. CASE PromoteSteers
  BY <1>2, <1>3, <1>4, <1>5 DEF PromoteSteers
<1>6. CASE PromoteQueued
  <2>1. promoter.scope = "input"
    BY <1>6 DEF PromoteQueued, DrainInv, RunnerPlace
  <2>2. ASSUME NEW i \in Queued, StartPublishing({i}, TRUE) PROVE DrainInv'
    <3>1. i \in Pending /\ {i} \in SUBSET Pending
      BY <1>0
    <3> QED BY <1>0, <2>1, <2>2, <3>1, PublishingInv
  <2> QED BY <1>2, <1>6, <2>2 DEF PromoteQueued
<1> QED BY <1>5, <1>6

LEMMA PublishNextInv ==
  ASSUME DrainInv, PromoterActs, PublishNext
  PROVE  DrainInv'
<1>0. /\ promoter \in Promoter /\ promoter.at = "publish" /\ promoter.task = "promote"
      /\ DrainAt("promoting") /\ promoter.scope = PromoteScope /\ UNCHANGED drain
  BY Places DEF PublishNext, DrainInv, InboxInv, TypeInv, TypeOK, RowsHeld
<1>1. PICK r \in promoter.batch :
        /\ r[1] \in Pending /\ Deliver(r[1])
        /\ promoter' = [promoter EXCEPT !.batch = @ \ {r}, !.outcome = "item"]
  BY <1>0 DEF PublishNext, DrainInv, RowsHeld
<1>2. /\ promoter'.at = "publish" /\ promoter'.batch = promoter.batch \ {r}
      /\ promoter'.late = promoter.late
      /\ promoter'.task = promoter.task /\ promoter'.scope = promoter.scope
  BY <1>0, <1>1 DEF Promoter
<1>3. RowsLeave /\ \A j \in Pending \ {r[1]} : j \in Pending' /\ inbox'[j] = inbox[j]
  BY <1>1, DeliverRows DEF DrainInv, InboxInv, TypeInv
<1>4. \A q \in promoter.batch \ {r} : q[1] # r[1]
  <2>1. \A q \in promoter.batch : q[2] = inbox[q[1]].seq /\ q = <<q[1], q[2]>>
    BY <1>0 DEF DrainInv, RowsHeld, Promoter
  <2> QED BY <2>1
<1>5. RowsHeld'
  BY <1>0, <1>2, <1>3, <1>4 DEF DrainInv, RowsHeld
<1>6. RunnerPlace' /\ KeepsSight
  BY <1>0, <1>2 DEF RunnerPlace, KeepsSight, DrainAt, PromoteScope
<1>7. Answers'
  BY <1>0, <1>2 DEF Answers, DrainAt, DrainInv, RowsHeld
<1> QED BY <1>3, <1>5, <1>6, <1>7, PromoterKeeps

LEMMA PublishEndInv ==
  ASSUME DrainInv, PromoterActs, PublishLate \/ PublishDone
  PROVE  DrainInv'
<1>0. /\ promoter \in Promoter /\ promoter.at = "publish" /\ promoter.task = "promote"
      /\ DrainAt("promoting") /\ promoter.scope = PromoteScope
      /\ UNCHANGED drain /\ UNCHANGED tables
  BY Places DEF PublishLate, PublishDone, DrainInv, InboxInv, TypeInv, TypeOK, RowsHeld
<1>1. RowsLeave
  BY <1>0, ReadRows
<1>2. CASE PublishLate
  <2> DEFINE S == BeforeControl(Steers)
  <2>1. /\ promoter'.at = "publish" /\ promoter'.batch = Snapshot(S) /\ ~promoter'.late
        /\ promoter'.task = promoter.task /\ promoter'.scope = promoter.scope
    BY <1>0, <1>2 DEF PublishLate, Promoter
  <2>2. S \subseteq Steers
    BY DEF BeforeControl
  <2>3. \A q \in Snapshot(S) : q[1] \in Steers /\ q[2] = inbox[q[1]].seq
    BY <2>2, SnapshotRows
  <2>4. Pending' = Pending /\ inbox' = inbox
    BY <1>0 DEF tables, Pending
  <2> HIDE DEF S
  <2>5. RowsHeld'
    BY <1>0, <2>1, <2>3, <2>4 DEF RowsHeld, Steers, Mode
  <2>6. RunnerPlace' /\ KeepsSight /\ Answers'
    BY <1>0, <2>1 DEF RunnerPlace, KeepsSight, Answers, DrainAt, PromoteScope
  <2> QED BY <1>1, <2>5, <2>6, PromoterKeeps
<1>3. CASE PublishDone
  <2>1. promoter'.at = "idle" /\ promoter'.outcome # "control"
    BY <1>3 DEF PublishDone, Finish, IdlePromoter
  <2>2. RunnerPlace' /\ RowsHeld' /\ KeepsSight /\ Answers'
    BY <1>0, <2>1 DEF RunnerPlace, RowsHeld, KeepsSight, Answers, DrainAt
  <2> QED BY <1>1, <2>2, PromoterKeeps
<1> QED BY <1>2, <1>3

LEMMA PromoterActsInv ==
  ASSUME DrainInv, PromoterActs
  PROVE  DrainInv'
BY AcquireRunnerInv, BoundaryInv, DeliverControlInv, PromoteReadsInv, PublishNextInv, PublishEndInv
DEF PromoterActs, PromoterStep

-------------------------------------------------------------------------------
LEMMA DrainInvInit == DrainInit => DrainInv
<1> SUFFICES ASSUME DrainInit PROVE DrainInv
  OBVIOUS
<1>1. InboxInv
  BY InboxInvInit DEF DrainInit
<1>2. Pending = {} /\ promoter = IdlePromoter /\ drain = Asleep
  BY DEF DrainInit, Init, Pending
<1>3. DrainTypes
  <2>1. D!DoorbellTypeOK
    BY DEF DrainInit, D!Init, D!DoorbellTypeOK
  <2>2. drain \in Drain
    BY <1>2 DEF Asleep, Drain, Points
  <2>3. stops \in 0..MaxStops /\ reloads \in 0..MaxReloads
    BY DrainAssumption DEF DrainInit
  <2>4. unanswered \in BOOLEAN /\ resumption = "none"
    BY DEF DrainInit
  <2> QED BY <2>1, <2>2, <2>3, <2>4 DEF DrainTypes
<1>4. Undisturbed
  BY <1>2 DEF DrainInit, D!Init, Undisturbed, Woke, Asleep
<1>5. RowsOrdered
  BY <1>2 DEF RowsOrdered
<1>6. RunnerPlace /\ RowsHeld
  BY <1>2 DEF RunnerPlace, RowsHeld, DrainAt, Asleep, IdlePromoter
<1>7. Answers /\ Guarded
  BY <1>2 DEF DrainInit, Answers, Guarded
<1> QED BY <1>1, <1>3, <1>4, <1>5, <1>6, <1>7 DEF DrainInv

LEMMA DrainStutter ==
  ASSUME DrainInv, UNCHANGED drainVars
  PROVE  DrainInv'
<1>1. UNCHANGED <<inbox, message, cancelled, seq, lock, call, promoter>>
      /\ UNCHANGED <<demand, serving, made, drain, unanswered, resumption, stops, reloads>>
  BY DEF drainVars, inboxVars, tables, doorbell, bounds
<1>2. InboxInv' /\ RowsOrdered' /\ RowsHeld'
  BY <1>1, InboxStays, RowsStay, HeldStays DEF DrainInv, inboxVars, tables
<1>3. DrainTypes' /\ Undisturbed' /\ Answers'
  BY <1>1 DEF DrainInv, DrainTypes, D!DoorbellTypeOK, Undisturbed, Woke, Answers, DrainAt
<1>4. RunnerPlace'
  BY <1>1 DEF DrainInv, RunnerPlace, DrainAt, BoundaryScope, PromoteScope
<1>5. Guarded'
  BY <1>1 DEF DrainInv, Guarded, Pending, Owed, MayWake, Woke, Asked, WillSee, DrainAt, BoundaryScope
<1> QED BY <1>2, <1>3, <1>4, <1>5 DEF DrainInv

LEMMA DrainInvNext == DrainInv /\ [DrainNext]_drainVars => DrainInv'
<1> SUFFICES ASSUME DrainInv, [DrainNext]_drainVars PROVE DrainInv'
  OBVIOUS
<1>1. ASSUME NEW c \in Callers, CallerActs(c) \/ Wake(c) PROVE DrainInv'
  BY <1>1, CallerActsInv, WakeInv
<1>2. CASE DrainStep
  <2>1. CASE \/ CheckSteers \/ CheckQueued \/ Boundary \/ Promote \/ Decided
    BY <2>1, CheckSteersInv, CheckQueuedInv, StartTaskInv, DecidedInv
  <2>2. CASE \/ Compacted \/ AfterIdleHook \/ Promoted \/ BeginStep
             \/ \E more \in BOOLEAN : EndStep(more)
    BY <2>2, PlainStepInv
  <2>3. CASE PromoterActs \/ Interrupted \/ ResumeSteers \/ ResumeQueued
    BY <2>3, PromoterActsInv, StopInv, InterruptInv
  <2> QED BY <1>2, <2>1, <2>2, <2>3, BeginDrainInv DEF DrainStep
<1>3. CASE Resume \/ Reload \/ Fails
  BY <1>3, WakeInv, PlainStepInv, StopInv
<1>4. CASE \E resume \in BOOLEAN : Interrupt(resume)
  BY <1>4, InterruptInv
<1> QED BY <1>1, <1>2, <1>3, <1>4, DrainStutter DEF DrainNext

(* Every state of a Session's drain satisfies the invariant. *)
THEOREM DrainCorrect == DrainSpec => []DrainInv
BY DrainInvInit, DrainInvNext, PTL DEF DrainSpec

(* The inbox, the doorbell and the drain keep their types, whatever is     *)
(* requested, interrupted or fails.                                        *)
THEOREM DrainTypeCorrect == DrainSpec => []DrainTypeOK
<1>1. DrainInv => DrainTypeOK
  BY DEF DrainInv, InboxInv, TypeInv, DrainTypes, DrainTypeOK
<1> QED BY <1>1, DrainCorrect, PTL

(* Once the Session sleeps with nothing rung, every pending row belongs to *)
(* a request that has yet to wake it (llm.ts:230, execution.ts:76).        *)
THEOREM NothingIsStranded == DrainSpec => []NoStrandedInput
<1>1. DrainInv => NoStrandedInput
  BY DEF DrainInv, Guarded, Owed, WillSee, DrainAt, NoStrandedInput
<1> QED BY <1>1, DrainCorrect, PTL

(* Only the runner writes messages, and what it takes from the queue it    *)
(* takes between turns.                                                    *)
LEMMA QueuedDelivery ==
  ASSUME DrainInv, [DrainNext]_drainVars, NEW i \in IDs,
         i \in Pending, inbox[i].delivery = "queue", inbox[i].type \in Prompts,
         message[i] = None, message'[i] # None
  PROVE  ~drain.continuing /\ drain.promotable = "input" /\ (stops = 0 => ~unanswered)
<1>1. PromoterActs
  <2> SUFFICES ASSUME ~PromoterActs PROVE message' = message
    OBVIOUS
  <2>1. ASSUME NEW c \in Callers, CallerActs(c) PROVE message' = message
    BY <2>1, CallerEffects DEF CallerActs, CallerEffect, DrainInv
  <2>2. ASSUME NEW c \in Callers, Wake(c) PROVE message' = message
    BY <2>2 DEF Wake, inboxVars, tables
  <2>3. CASE DrainStep
    BY <2>3 DEF DrainStep, BeginDrain, CheckSteers, CheckQueued, Boundary, Decided, Compacted,
       AfterIdleHook, Promote, Promoted, BeginStep, EndStep, Interrupted, ResumeSteers, ResumeQueued,
       Quiet, Complete, StartTask, StopDrain, InterruptRunner, inboxVars, tables
  <2>4. CASE Resume \/ Reload \/ Fails \/ \E resume \in BOOLEAN : Interrupt(resume)
    BY <2>4 DEF Resume, Reload, Fails, Interrupt, StopDrain, InterruptRunner, inboxVars, tables
  <2>5. CASE UNCHANGED drainVars
    BY <2>5 DEF drainVars, inboxVars, tables
  <2> QED BY <2>1, <2>2, <2>3, <2>4, <2>5 DEF DrainNext
<1>2. CASE DeliverControl
  <2>1. promoter.next.id \in Pending /\ inbox[promoter.next.id].type \in Controls /\ Deliver(promoter.next.id)
    BY <1>2 DEF DeliverControl, DrainInv, RowsHeld
  <2>2. promoter.next.id = i
    BY <2>1, DeliverRows DEF DrainInv, InboxInv, TypeInv
  <2> QED BY <2>1, <2>2 DEF Prompts, Controls
<1>3. CASE PublishNext
  <2>1. PICK r \in promoter.batch : r[1] \in Pending /\ Deliver(r[1])
    BY <1>3 DEF PublishNext, DrainInv, RowsHeld
  <2>2. r[1] = i
    BY <2>1, DeliverRows DEF DrainInv, InboxInv, TypeInv
  <2>3. promoter.at = "publish" /\ promoter.late /\ promoter.scope = "input" /\ promoter.task = "promote"
    BY <1>3, <2>1, <2>2 DEF PublishNext, DrainInv, RowsHeld
  <2>4. DrainAt("promoting") /\ PromoteScope = "input"
    BY <1>1, <2>3, Places
  <2>5. stops = 0 => ~unanswered
    BY <2>1, <2>3, <2>4 DEF DrainInv, Answers, DrainAt
  <2> QED BY <2>4, <2>5 DEF PromoteScope
<1>4. CASE ~DeliverControl /\ ~PublishNext
  BY <1>1, <1>4 DEF PromoterActs, PromoterStep, AcquireRunner, BoundarySteers, BoundaryQueued,
     PromoteSteers, PromoteQueued, PublishLate, PublishDone, tables
<1> QED BY <1>2, <1>3, <1>4

(* A queued prompt is delivered only between turns, by a drain whose scope *)
(* includes it, and after every prompt delivered before it was taken up by *)
(* a step (inbox.ts:470, llm.ts:185).                                      *)
THEOREM QueuedPromptsWait == DrainSpec => QueuedWaits
<1>1. DrainInv /\ [DrainNext]_drainVars =>
        [\A i \in IDs :
           (/\ i \in Pending /\ inbox[i].delivery = "queue" /\ inbox[i].type \in Prompts
            /\ message[i] = None /\ message'[i] # None)
           => /\ ~drain.continuing /\ drain.promotable = "input"
              /\ stops = 0 => ~unanswered]_drainVars
  BY QueuedDelivery
<1> QED BY <1>1, DrainCorrect, PTL DEF DrainSpec, QueuedWaits

-------------------------------------------------------------------------------
(* The drain between its two parts: what it does to the inbox is an        *)
(* operation of the inbox, and what it does to the coordinator one of the  *)
(* doorbell.                                                               *)

(* A drain has the scope it was begun with.                                *)
HasScope == drain.at # "asleep" => drain.promotable \in Scopes

LEMMA ScopeStays == DrainTypes /\ HasScope /\ [DrainNext]_drainVars => HasScope'
<1> SUFFICES ASSUME DrainTypes, HasScope, [DrainNext]_drainVars PROVE HasScope'
  OBVIOUS
<1>1. ASSUME drain'.promotable = drain.promotable, drain.at # "asleep" PROVE HasScope'
  BY <1>1 DEF HasScope
<1>2. CASE EndDrain \/ drain' = Asleep
  BY <1>2 DEF EndDrain, Asleep, HasScope
<1>3. CASE UNCHANGED drain
  BY <1>3 DEF HasScope
<1>4. ASSUME NEW s \in Scopes, BeginDrain(s) PROVE HasScope'
  BY <1>4 DEF BeginDrain, DrainTypes, Drain, HasScope
<1>5. CASE CheckSteers \/ CheckQueued \/ Compacted \/ AfterIdleHook \/ Promote \/ Promoted \/ BeginStep \/ Boundary
           \/ Reload \/ \E more \in BOOLEAN : EndStep(more)
  <2>1. EndDrain \/ (drain.at # "asleep" /\ drain'.promotable = drain.promotable)
    BY <1>5 DEF CheckSteers, CheckQueued, Compacted, AfterIdleHook, Promote, Promoted, BeginStep, Boundary, Reload,
       Reenter, EndStep, Complete, Move, Runs, DrainAt, DrainTypes, Drain
  <2> QED BY <1>1, <1>2, <2>1
<1>6. CASE Decided
  <2>1. EndDrain \/ (drain.at # "asleep" /\ drain'.promotable = drain.promotable)
    BY <1>6 DEF Decided, Reenter, Complete, DrainAt, DrainTypes, Drain
  <2> QED BY <1>1, <1>2, <2>1
<1>7. CASE Fails \/ Interrupted
  BY <1>2, <1>7 DEF Fails, Interrupted, StopDrain
<1>8. CASE Resume \/ \E resume \in BOOLEAN : Interrupt(resume)
  BY <1>8 DEF Resume, Interrupt, DrainAt, DrainTypes, Drain, Asleep, HasScope
<1>9. CASE UNCHANGED drainVars \/ PromoterActs \/ ResumeSteers \/ ResumeQueued
           \/ \E c \in Callers : CallerActs(c) \/ Wake(c)
  BY <1>3, <1>9 DEF drainVars, PromoterActs, ResumeSteers, ResumeQueued, CallerActs, Wake
<1> QED BY <1>4, <1>5, <1>6, <1>7, <1>8, <1>9 DEF DrainNext, DrainStep

LEMMA PartsOfDrain ==
  ASSUME DrainInv, HasScope, [DrainNext]_drainVars
  PROVE  [Next]_vars /\ [D!Next]_(D!doorbellVars)
<1> DEFINE Goal == [Next]_vars /\ [D!Next]_(D!doorbellVars)
<1> USE DEF D!doorbellVars, doorbell
<1>0. ASSUME UNCHANGED inboxVars PROVE [Next]_vars
  BY <1>0 DEF inboxVars, vars
<1>1. ASSUME NEW c \in Callers, CallerActs(c) PROVE Goal
  BY <1>1 DEF CallerActs, Next
<1>2. ASSUME NEW c \in Callers, Wake(c) PROVE Goal
  BY <1>0, <1>2 DEF Wake, D!Next, D!Scope
<1>3. ASSUME NEW s \in Scopes, BeginDrain(s) PROVE Goal
  BY <1>0, <1>3 DEF BeginDrain, Scopes, D!Next, D!Scope
<1>4. ASSUME EndDrain, UNCHANGED inboxVars PROVE Goal
  BY <1>0, <1>4 DEF EndDrain, D!Next
<1>5. CASE CheckSteers \/ CheckQueued \/ Decided \/ Compacted \/ AfterIdleHook \/ Promoted \/ BeginStep
           \/ Reload \/ \E more \in BOOLEAN : EndStep(more)
  <2>1. UNCHANGED inboxVars /\ (UNCHANGED doorbell \/ EndDrain)
    BY <1>5 DEF CheckSteers, CheckQueued, Decided, Compacted, AfterIdleHook, Promoted, BeginStep, Reload, EndStep,
       Quiet, Complete
  <2> QED BY <1>0, <1>4, <2>1
<1>6. CASE Boundary \/ Promote
  <2>1. UNCHANGED doorbell
    BY <1>6 DEF Boundary, Promote
  <2>2. CASE Boundary
    BY <2>1, <2>2 DEF Boundary, Next, Scopes
  <2>3. CASE Promote
    <3>1. PromoteScope \in Scopes
      BY <2>3 DEF Promote, PromoteScope, HasScope, Runs, DrainAt, Scopes
    <3> QED BY <2>1, <2>3, <3>1 DEF Promote, Next
  <2> QED BY <1>6, <2>2, <2>3
<1>7. CASE PromoterActs
  BY <1>7 DEF PromoterActs, Next
<1>8. CASE Fails \/ Interrupted
  <2>1. D!Finish(Session) /\ (InterruptRunner \/ UNCHANGED inboxVars)
    BY <1>8 DEF Fails, Interrupted, StopDrain, EndDrain
  <2> QED BY <1>0, <2>1 DEF Next, D!Next
<1>9. CASE Resume \/ ResumeSteers \/ ResumeQueued
  <2>1. Resumer \in Rings
    BY DrainAssumption DEF Rings, Resumer
  <2>2. UNCHANGED inboxVars
    BY <1>9 DEF Resume, ResumeSteers, ResumeQueued
  <2>3. D!Ring(Session, "input", Resumer, "run") \/ D!Ring(Session, "steer", Resumer, "wake") \/ UNCHANGED doorbell
    BY <1>9 DEF Resume, ResumeSteers, ResumeQueued
  <2> QED BY <1>0, <2>1, <2>2, <2>3 DEF Rings, D!Next, D!Scope
<1>10. ASSUME NEW resume \in BOOLEAN, Interrupt(resume) PROVE Goal
  <2>1. Interrupter(stops') \in Rings
    BY <1>10, DrainAssumption DEF Interrupt, Rings, DrainInv, DrainTypes
  <2>2. UNCHANGED inboxVars /\ (D!Claim(Session, Interrupter(stops')) \/ D!Ignore(Session, Interrupter(stops')))
    BY <1>10 DEF Interrupt
  <2> QED BY <1>0, <2>1, <2>2 DEF Rings, D!Next
<1>11. CASE UNCHANGED drainVars
  BY <1>0, <1>11 DEF drainVars
<1> QED BY <1>1, <1>2, <1>3, <1>5, <1>6, <1>7, <1>8, <1>9, <1>10, <1>11 DEF DrainNext, DrainStep

LEMMA DrainHasScope == DrainSpec => []HasScope
<1>1. DrainInit => HasScope
  BY DEF DrainInit, Asleep, HasScope
<1>2. DrainInv => DrainTypes
  BY DEF DrainInv
<1> QED BY <1>1, <1>2, ScopeStays, DrainCorrect, PTL DEF DrainSpec

(* The runner's drain uses the inbox as the inbox expects it: one boundary *)
(* or promotion at a time, and given up only where InterruptRunner may     *)
(* give it up, whatever interrupts, failures and reloads do                *)
(* (runner/llm.ts:82, execution.ts:84).                                    *)
THEOREM DrainUsesInbox == DrainSpec => Spec
<1>1. DrainInit => Init
  BY DEF DrainInit
<1>2. DrainInv /\ HasScope /\ [DrainNext]_drainVars => [Next]_vars
  BY PartsOfDrain
<1> QED BY <1>1, <1>2, DrainCorrect, DrainHasScope, PTL DEF DrainSpec, Spec

(* The same of the coordinator it rings.                                   *)
THEOREM DrainUsesDoorbell == DrainSpec => D!Spec
<1>1. DrainInit => D!Init
  BY DEF DrainInit
<1>2. DrainInv /\ HasScope /\ [DrainNext]_drainVars => [D!Next]_(D!doorbellVars)
  BY PartsOfDrain
<1> QED BY <1>1, <1>2, DrainCorrect, DrainHasScope, PTL DEF DrainSpec, D!Spec

(* With drains, interrupts, failures and resumptions the inbox is still    *)
(* the ledger its callers are promised.                                    *)
THEOREM DrainKeepsLedger ==
  DrainSpec => /\ LedgerSafe /\ [][ItemsAreConserved]_vars
               /\ []PendingOrDelivered /\ []OneCompaction /\ []AnswersAreKept
<1> QED
  BY DrainUsesInbox, InboxIsLedger, ItemsConserved, ItemsDeliveredOnce, OneCompactionPending,
     AnswersStay, PTL
-------------------------------------------------------------------------------
(* The interrupt with resume.  Between its claim of what was rung and its  *)
(* look at the inbox anybody may admit, steer and wake; the drain it stops *)
(* may go on for a while, and the drain it rings for has steer scope only. *)

(* While nothing else is interrupted or fails, the Session does not sleep  *)
(* on a steer: once the interrupt has looked, and nothing is rung, every   *)
(* steered row belongs to a request that has yet to wake the Session.      *)
ResumptionIsThorough ==
  (stops = 1 /\ resumption \in {"rung", "nothing"} /\ DrainAt("asleep") /\ demand[Session] = {})
    => \A i \in Steers : Owed(i)

WokeAnswered == \A c \in Callers : Woke(c) => call[c].at = "ok"
SleepsCalmly == DrainAt("asleep") => ~drain.stopping

(* A drain of any scope will come to the steers. *)
SeesSteers ==
  /\ drain.at \notin {"asleep", "reading"} /\ ~drain.stopping
  /\ DrainAt("boundary") =>
       /\ promoter.at # "queued"
       /\ promoter.at = "idle" =>
            \/ promoter.outcome \in {"control", "died"}
            \/ promoter.outcome = "item" /\ promoter.next.delivery = "steer"

Resumed == stops = 1 /\ resumption \notin {"none", "steers"} /\ demand[Session] = {}
ResumeGuarded == Resumed => SeesSteers \/ \A i \in Steers : Owed(i)

ResumeInv == WokeAnswered /\ SleepsCalmly /\ ResumeGuarded

(* Most steps: no call moves, no row becomes a steer, the drain keeps sight.*)
LEMMA ResumeGuardStays ==
  ASSUME DrainInv, ResumeGuarded, UNCHANGED <<call, made>>,
         Resumed' => Resumed,
         Resumed /\ SeesSteers => SeesSteers' \/ Steers' = {},
         Steers' \subseteq Steers
  PROVE  ResumeGuarded'
<1> SUFFICES ASSUME Resumed', ~SeesSteers', NEW i \in Steers' PROVE Owed(i)'
  BY DEF ResumeGuarded
<1>1. Owed(i) /\ i \in IDs
  BY DEF ResumeGuarded, Steers, Mode, Pending
<1> QED BY <1>1, OwedStays

LEMMA SteersStay == ASSUME UNCHANGED tables PROVE Steers' = Steers
BY DEF tables, Steers, Mode, Pending

LEMMA WokeStays ==
  ASSUME WokeAnswered, UNCHANGED <<call, made>> PROVE WokeAnswered'
BY DEF WokeAnswered, Woke

LEMMA CallerActsResume ==
  ASSUME DrainInv, ResumeInv, NEW c \in Callers, CallerActs(c)
  PROVE  ResumeInv'
<1>1. CallerEffect(c) /\ UNCHANGED <<demand, made, drain, resumption, stops>>
  BY CallerEffects DEF CallerActs, DrainInv, doorbell, bounds
<1>2. ~Woke(c)
  BY <1>1 DEF CallerEffect, ResumeInv, WokeAnswered
<1>3. WokeAnswered'
  <2> SUFFICES ASSUME NEW d \in Callers, Woke(d) PROVE call'[d].at = "ok"
    BY <1>1 DEF WokeAnswered, Woke
  <2> QED BY <1>1, <1>2 DEF CallerEffect, ResumeInv, WokeAnswered
<1>4. SleepsCalmly'
  BY <1>1 DEF ResumeInv, SleepsCalmly, DrainAt
<1>5. ResumeGuarded'
  <2> SUFFICES ASSUME Resumed', ~SeesSteers', NEW i \in Steers' PROVE Owed(i)'
    BY DEF ResumeGuarded
  <2>0. Resumed /\ ~SeesSteers /\ i \in Pending' /\ inbox'[i].delivery = "steer"
    BY <1>1 DEF Resumed, SeesSteers, CallerEffect, DrainAt, Steers, Mode
  <2>1. CASE WillWake(c, i)
    BY <1>1, <1>2, <2>1 DEF WillWake, Owed, MayWake, Woke, Asked
  <2>2. CASE ~WillWake(c, i)
    <3>1. i \in Steers
      BY <1>1, <2>0, <2>2 DEF CallerEffect, RowsOwed, Steers, Mode
    <3>2. PICK d \in Callers : MayWake(d) /\ call[d].got = i
      BY <2>0, <3>1 DEF ResumeInv, ResumeGuarded, Owed
    <3>3. call'[d] = call[d]
      BY <1>1, <3>2 DEF CallerEffect, MayWake
    <3> QED BY <1>1, <3>2, <3>3 DEF Owed, MayWake, Woke, Asked
  <2> QED BY <2>1, <2>2
<1> QED BY <1>3, <1>4, <1>5 DEF ResumeInv

(* Whoever rings leaves something rung. *)
LEMMA RingsResume ==
  ASSUME DrainInv, ResumeInv, NEW s \in Scopes, NEW c \in Rings, NEW op \in {"wake", "run"},
         D!Ring(Session, s, c, op), UNCHANGED inboxVars,
         drain'.at = drain.at, drain'.stopping = drain.stopping,
         c \in Callers => call[c].at = "ok"
  PROVE  ResumeInv'
<1>1. s \in demand'[Session]
  BY RingType DEF DrainInv, DrainTypes
<1>2. ResumeGuarded'
  BY <1>1 DEF ResumeGuarded, Resumed
<1>3. made \in [{Session} -> SUBSET (Rings \X D!Ops)]
  BY DEF DrainInv, DrainTypes, D!DoorbellTypeOK, Rings
<1>4. made'[Session] = made[Session] \cup {<<c, op>>} /\ call' = call
  BY <1>3 DEF D!Ring, D!Make, inboxVars
<1>5. WokeAnswered'
  BY <1>4 DEF ResumeInv, WokeAnswered, Woke
<1>6. SleepsCalmly'
  BY DEF ResumeInv, SleepsCalmly, DrainAt
<1> QED BY <1>2, <1>5, <1>6 DEF ResumeInv

LEMMA ResumerRings == Resumer \in Rings /\ Resumer \notin Callers
BY DrainAssumption, InterruptersAssumption DEF Resumer, Interrupter, Rings

LEMMA WakeResume ==
  ASSUME DrainInv, ResumeInv, (\E c \in Callers : Wake(c)) \/ Resume
  PROVE  ResumeInv'
<1>0. drain \in Drain
  BY DEF DrainInv, DrainTypes
<1>1. CASE Resume
  <2>1. drain'.at = drain.at /\ drain'.stopping = drain.stopping
    BY <1>0, <1>1 DEF Resume, Drain
  <2> QED BY <1>1, <2>1, ResumerRings, RingsResume DEF Resume, Scopes
<1>2. ASSUME NEW c \in Callers, Wake(c) PROVE ResumeInv'
  BY <1>2, RingsResume DEF Wake, MayWake, Scopes, Rings
<1> QED BY <1>1, <1>2

LEMMA ResumptionResume ==
  ASSUME DrainInv, ResumeInv, ResumeSteers \/ ResumeQueued
  PROVE  ResumeInv'
<1>0. UNCHANGED inboxVars /\ UNCHANGED drain /\ UNCHANGED stops
  BY DEF ResumeSteers, ResumeQueued, bounds
<1>1. CASE D!Ring(Session, "steer", Resumer, "wake")
  BY <1>0, <1>1, ResumerRings, RingsResume DEF Scopes
<1>2. CASE UNCHANGED doorbell
  <2>1. WokeAnswered' /\ SleepsCalmly'
    BY <1>0, <1>2, WokeStays DEF ResumeInv, SleepsCalmly, DrainAt, doorbell, inboxVars
  <2>2. CASE ResumeSteers
    <3>1. Steers = {}
      BY <1>2, <2>2, RingType, ResumerRings
      DEF ResumeSteers, doorbell, D!Ring, D!Make, DrainInv, DrainTypes, D!DoorbellTypeOK
    <3>2. Steers' = {}
      BY <1>0, <3>1, SteersStay DEF inboxVars
    <3> QED BY <2>1, <3>2 DEF ResumeInv, ResumeGuarded
  <2>3. CASE ResumeQueued
    <3>1. Resumed' => Resumed
      BY <1>0, <1>2, <2>3 DEF Resumed, ResumeQueued, doorbell
    <3>2. SeesSteers' = SeesSteers
      BY <1>0 DEF SeesSteers, DrainAt, inboxVars
    <3>3. Steers' = Steers
      BY <1>0, SteersStay DEF inboxVars
    <3>4. ResumeGuarded'
      BY <1>0, <1>2, <3>1, <3>2, <3>3, ResumeGuardStays DEF ResumeInv, doorbell, inboxVars
    <3> QED BY <2>1, <3>4 DEF ResumeInv
  <2> QED BY <2>2, <2>3
<1> QED BY <1>1, <1>2 DEF ResumeSteers, ResumeQueued

LEMMA BeginDrainResume ==
  ASSUME DrainInv, ResumeInv, NEW s \in Scopes, BeginDrain(s)
  PROVE  ResumeInv'
<1>1. UNCHANGED <<call, made>> /\ drain'.at = "entering" /\ ~drain'.stopping
  BY DEF BeginDrain, D!Serve, inboxVars, DrainInv, DrainTypes, Drain, ResumeInv, SleepsCalmly
<1>2. SeesSteers'
  BY <1>1 DEF SeesSteers, DrainAt
<1> QED
  BY <1>1, <1>2, WokeStays DEF ResumeInv, SleepsCalmly, ResumeGuarded, DrainAt

(* Failures and interrupts: another disturbance, or the end of a drain that*)
(* was stopping and saw nothing.                                           *)
LEMMA DisturbedResume ==
  ASSUME DrainInv, ResumeInv,
         Fails \/ Interrupted \/ \E resume \in BOOLEAN : Interrupt(resume)
  PROVE  ResumeInv'
<1>0. DrainTypes /\ Undisturbed
  BY DEF DrainInv
<1>1. CASE Fails \/ Interrupted
  <2>1. /\ D!Finish(Session) /\ drain' = Asleep /\ UNCHANGED <<tables, call, resumption>>
        /\ stops' = stops \/ stops' = stops + 1
        /\ Interrupted => stops' = stops /\ drain.stopping
    BY <1>1
    DEF Fails, Interrupted, StopDrain, EndDrain, InterruptRunner, inboxVars, bounds
  <2>2. UNCHANGED <<demand, made>>
    BY <1>0, <2>1, FinishServing DEF DrainTypes
  <2>3. WokeAnswered' /\ SleepsCalmly'
    BY <2>1, <2>2, WokeStays DEF ResumeInv, SleepsCalmly, Asleep
  <2>4. CASE Interrupted
    <3>1. ~SeesSteers /\ (Resumed' => Resumed)
      BY <2>1, <2>2, <2>4 DEF SeesSteers, Resumed
    <3>2. ResumeGuarded'
      BY <2>1, <2>2, <3>1, SteersStay, ResumeGuardStays DEF ResumeInv
    <3> QED BY <2>3, <3>2 DEF ResumeInv
  <2>5. CASE Fails
    <3>1. stops' = stops + 1 /\ stops \in Nat
      BY <1>0, <2>5 DEF Fails, DrainTypes
    <3>2. ~Resumed'
      BY <1>0, <2>1, <3>1 DEF Resumed, Undisturbed
    <3> QED BY <2>3, <3>2 DEF ResumeInv, ResumeGuarded
  <2> QED BY <1>1, <2>4, <2>5
<1>2. ASSUME NEW resume \in BOOLEAN, Interrupt(resume) PROVE ResumeInv'
  <2>1. /\ stops' = stops + 1 /\ stops \in Nat /\ stops' \in 0..MaxStops
        /\ resumption' = IF resume THEN "steers" ELSE resumption
        /\ UNCHANGED inboxVars
    BY <1>0, <1>2, DrainAssumption DEF Interrupt, DrainTypes
  <2>2. ~Resumed'
    BY <1>0, <2>1 DEF Resumed, Undisturbed
  <2>3. SleepsCalmly'
    BY <1>0, <1>2 DEF Interrupt, ResumeInv, SleepsCalmly, DrainAt, Asleep, DrainTypes, Drain
  <2>4. WokeAnswered'
    <3>1. made \in [{Session} -> SUBSET (Rings \X D!Ops)]
      BY <1>0 DEF DrainTypes, D!DoorbellTypeOK, Rings
    <3>2. made'[Session] = made[Session] \cup {<<Interrupter(stops'), "interrupt">>}
      BY <1>2, <3>1 DEF Interrupt, D!Claim, D!Ignore, D!Make
    <3>3. \A c \in Callers : Woke(c)' => Woke(c)
      BY <3>2 DEF Woke
    <3> QED BY <2>1, <3>3 DEF ResumeInv, WokeAnswered, inboxVars
  <2> QED BY <2>2, <2>3, <2>4 DEF ResumeInv, ResumeGuarded
<1> QED BY <1>1, <1>2

(* The drain's own steps: it completes only when nothing is pending, or    *)
(* after a look that found no steer.                                       *)
LEMMA PointsResume ==
  ASSUME DrainInv, ResumeInv,
         \/ CheckSteers \/ CheckQueued \/ Boundary \/ Decided \/ Compacted \/ AfterIdleHook
         \/ Promote \/ Promoted \/ BeginStep \/ Reload \/ \E more \in BOOLEAN : EndStep(more)
  PROVE  ResumeInv'
<1>0. drain \in Drain /\ DrainTypes
  BY DEF DrainInv, DrainTypes
<1>1. ASSUME Complete, SeesSteers => Steers = {} PROVE ResumeInv'
  <2>1. UNCHANGED inboxVars /\ UNCHANGED <<demand, made, resumption, stops>> /\ drain' = Asleep
    BY <1>0, <1>1, FinishServing DEF Complete, EndDrain, bounds, DrainTypes
  <2>2. WokeAnswered' /\ SleepsCalmly'
    BY <2>1, WokeStays DEF ResumeInv, SleepsCalmly, Asleep, inboxVars
  <2>3. Steers' = Steers /\ (Resumed' => Resumed)
    BY <2>1, SteersStay DEF inboxVars, Resumed
  <2>4. ResumeGuarded'
    BY <1>1, <2>1, <2>3, ResumeGuardStays DEF ResumeInv, inboxVars
  <2> QED BY <2>2, <2>4 DEF ResumeInv
<1>2. ASSUME UNCHANGED <<tables, call, made, demand, resumption, stops>>,
             drain'.at # "asleep", drain'.stopping = drain.stopping,
             SeesSteers => SeesSteers' \/ Steers = {}
      PROVE  ResumeInv'
  <2>1. WokeAnswered' /\ SleepsCalmly'
    BY <1>2, WokeStays DEF ResumeInv, SleepsCalmly, DrainAt
  <2>2. Steers' = Steers /\ (Resumed' => Resumed)
    BY <1>2, SteersStay DEF Resumed
  <2>3. ResumeGuarded'
    BY <1>2, <2>2, ResumeGuardStays DEF ResumeInv
  <2> QED BY <2>1, <2>3 DEF ResumeInv
<1>3. ASSUME Quiet, drain'.at \notin {"asleep", "reading", "boundary"},
             drain'.stopping = drain.stopping
      PROVE  ResumeInv'
  BY <1>2, <1>3 DEF Quiet, inboxVars, doorbell, bounds, SeesSteers, DrainAt
<1>4. ASSUME NEW pc, Move(pc) PROVE drain'.at = pc /\ drain'.stopping = drain.stopping
  BY <1>0, <1>4 DEF Move, Drain
<1>5. CASE CheckSteers
  <2>1. CASE Move("top") /\ Quiet
    BY <1>3, <1>4, <2>1
  <2>2. CASE Move("reading") /\ Quiet /\ Steers = {}
    BY <1>2, <1>4, <2>2 DEF Quiet, inboxVars, doorbell, bounds
  <2> QED BY <1>5, <2>1, <2>2 DEF CheckSteers
<1>6. CASE CheckQueued
  <2>1. ~SeesSteers
    BY <1>6 DEF CheckQueued, Runs, DrainAt, SeesSteers
  <2> QED BY <1>1, <1>3, <1>4, <1>6, <2>1 DEF CheckQueued
<1>7. CASE AfterIdleHook
  <2>1. Pending = {} => Steers = {}
    BY DEF Steers, Mode
  <2> QED BY <1>1, <1>3, <1>4, <1>7, <2>1 DEF AfterIdleHook
<1>8. CASE Boundary \/ Promote
  <2>1. /\ UNCHANGED <<tables, call, made, demand, resumption, stops>>
        /\ promoter'.at = "lock" /\ drain'.at \in {"boundary", "promoting"}
        /\ drain'.stopping = drain.stopping
    BY <1>0, <1>8 DEF Boundary, Promote, StartTask, IdlePromoter, Move, Drain, doorbell, bounds
  <2> QED BY <1>2, <2>1 DEF SeesSteers, DrainAt
<1>9. CASE Compacted \/ \E more \in BOOLEAN : EndStep(more)
  <2>1. drain'.at = "top" /\ drain'.stopping = drain.stopping
    BY <1>0, <1>9 DEF Compacted, EndStep, Drain
  <2> QED BY <1>3, <1>9, <2>1 DEF Compacted, EndStep
<1>10. CASE Promoted
  <2>1. drain'.at \in {"top", "ready"} /\ drain'.stopping = drain.stopping
    BY <1>0, <1>10 DEF Promoted, Move, Drain
  <2> QED BY <1>3, <1>10, <2>1 DEF Promoted
<1>11. CASE BeginStep \/ Reload
  <2>1. /\ drain'.at \notin {"asleep", "reading", "boundary"} /\ drain'.stopping = drain.stopping
        /\ UNCHANGED <<tables, call, made, demand, resumption, stops, promoter>>
    BY <1>0, <1>11
    DEF BeginStep, Reload, Reenter, Move, Drain, inboxVars, doorbell, bounds
  <2> QED BY <1>2, <2>1 DEF SeesSteers, DrainAt
<1>12. CASE Decided
  <2> DEFINE next == promoter.next
             parked == next # None /\ next.delivery = "queue" /\ drain.promotable = "steer"
             idle == ~drain.force /\ ~drain.continuing /\ (next = None \/ parked)
             renewed == ~drain.continuing /\ (next = None \/ next.delivery # "steer")
             here == [drain EXCEPT !.entering = @ \/ renewed]
  <2>1. DrainAt("boundary") /\ promoter.at = "idle" /\ promoter.outcome # "died"
    BY <1>12 DEF Decided
  <2>2. \/ Reenter(FALSE) /\ Quiet
        \/ drain' = [here EXCEPT !.at = "compacting"] /\ Quiet
        \/ Complete /\ idle /\ promoter.outcome # "control"
        \/ drain' = [here EXCEPT !.at = IF idle THEN "idling" ELSE "preparing"] /\ Quiet
    <3>1. promoter.outcome = "control" =>
            \/ Reenter(FALSE) /\ Quiet
            \/ drain' = [here EXCEPT !.at = "compacting"] /\ Quiet
      BY <1>12 DEF Decided
    <3>2. promoter.outcome # "control" =>
            \/ Complete /\ idle
            \/ drain' = [here EXCEPT !.at = IF idle THEN "idling" ELSE "preparing"] /\ Quiet
      BY <1>12 DEF Decided
    <3> QED BY <3>1, <3>2
  <2>3. CASE Complete /\ idle /\ promoter.outcome # "control"
    <3>1. next = None => promoter.outcome = "none"
      BY <2>1, InboxAssumption DEF DrainInv, RunnerPlace, DrainAt, Promotion
    <3>2. ~SeesSteers
      BY <2>1, <2>3, <3>1, InboxAssumption DEF SeesSteers, DrainAt
    <3> QED BY <1>1, <2>3, <3>2
  <2>4. CASE Quiet
    <3>0. ~Complete
      BY <2>4 DEF Complete, EndDrain, D!Finish, Quiet, doorbell, DrainInv, DrainTypes,
                  D!DoorbellTypeOK
    <3>1. /\ drain'.at \in {"entering", "compacting", "idling", "preparing"}
          /\ drain'.stopping = drain.stopping
      <4>1. CASE Reenter(FALSE)
        BY <1>0, <4>1 DEF Reenter, Drain
      <4>2. /\ here.stopping = drain.stopping
            /\ here = [at |-> here.at, force |-> here.force, continuing |-> here.continuing,
                       entering |-> here.entering, stepped |-> here.stepped,
                       promotable |-> here.promotable, stopping |-> here.stopping]
        BY <1>0 DEF Drain
      <4>3. CASE \/ drain' = [here EXCEPT !.at = "compacting"]
                 \/ drain' = [here EXCEPT !.at = IF idle THEN "idling" ELSE "preparing"]
        <5> DEFINE pc == IF idle THEN "idling" ELSE "preparing"
        <5>1. pc \in {"idling", "preparing"}
          OBVIOUS
        <5>2. drain' = [here EXCEPT !.at = "compacting"] \/ drain' = [here EXCEPT !.at = pc]
          BY <4>3
        <5> HIDE DEF here, pc
        <5> QED BY <4>2, <5>1, <5>2
      <4> HIDE DEF here, idle
      <4> QED BY <2>2, <3>0, <4>1, <4>3
    <3> QED BY <1>3, <2>4, <3>1
  <2> HIDE DEF here, idle
  <2> QED BY <2>2, <2>3, <2>4
<1> QED BY <1>5, <1>6, <1>7, <1>8, <1>9, <1>10, <1>11, <1>12

(* In the inbox the runner looks at the steers first. *)
LEMMA PromoterResume ==
  ASSUME DrainInv, ResumeInv, PromoterActs
  PROVE  ResumeInv'
<1>0. promoter \in Promoter
  BY DEF DrainInv, InboxInv, TypeInv, TypeOK
<1>1. /\ UNCHANGED <<call, demand, made, drain, resumption, stops>>
      /\ drain.at \in {"boundary", "promoting"}
  BY DEF PromoterActs, doorbell, bounds, PromoterStep, AcquireRunner, BoundarySteers,
         BoundaryQueued, DeliverControl, PromoteSteers, PromoteQueued, PublishNext,
         PublishLate, PublishDone
<1>2. WokeAnswered' /\ SleepsCalmly'
  BY <1>1, WokeStays DEF ResumeInv, SleepsCalmly, DrainAt
<1>3. Resumed' => Resumed
  BY <1>1 DEF Resumed
<1>4. Steers' \subseteq Steers
  <2>1. ASSUME UNCHANGED tables PROVE Steers' \subseteq Steers
    BY <2>1, SteersStay
  <2>2. ASSUME NEW i \in Pending, Deliver(i) PROVE Steers' \subseteq Steers
    BY <2>2, DeliverRows DEF DrainInv, InboxInv, TypeInv, RowsLeave, Steers, Mode
  <2>3. UNCHANGED tables \/ \E i \in Pending : Deliver(i)
    BY DEF PromoterActs, PromoterStep, AcquireRunner, BoundarySteers, BoundaryQueued,
           DeliverControl, PromoteSteers, PromoteQueued, PublishNext, PublishLate, PublishDone, tables
  <2> QED BY <2>1, <2>2, <2>3
<1>5. SeesSteers => SeesSteers' \/ Steers' = {}
  <2> SUFFICES ASSUME SeesSteers, DrainAt("boundary"), Steers # {}
               PROVE  SeesSteers'
    BY <1>1, <1>4 DEF SeesSteers, DrainAt
  <2>0. promoter.at # "idle" /\ promoter.task = "boundary" /\ promoter.at # "queued"
    BY <1>1 DEF PromoterActs, PromoterStep, AcquireRunner, BoundarySteers, BoundaryQueued,
       DeliverControl, PromoteSteers, PromoteQueued, PublishNext, PublishLate, PublishDone,
       DrainInv, RunnerPlace, SeesSteers, DrainAt
  <2>1. CASE AcquireRunner
    BY <1>0, <1>1, <2>1 DEF AcquireRunner, Promoter, SeesSteers, DrainAt
  <2>2. CASE BoundarySteers
    <3>1. PICK i \in Steers : Decide(i)
      BY <2>2 DEF BoundarySteers
    <3>2. inbox[i].delivery = "steer"
      BY DEF Steers, Mode
    <3> DEFINE next == [id |-> i, type |-> inbox[i].type, delivery |-> inbox[i].delivery]
    <3>3. CASE IsControl(i)
      <4>1. promoter' = [promoter EXCEPT !.at = "deliver", !.next = next]
        BY <3>1, <3>3 DEF Decide
      <4>2. promoter'.at = "deliver"
        BY <1>0, <4>1 DEF Promoter
      <4> QED BY <1>1, <4>2 DEF SeesSteers, DrainAt
    <3>4. CASE ~IsControl(i)
      <4>1. promoter'.at = "idle" /\ promoter'.outcome = "item" /\ promoter'.next = next
        BY <3>1, <3>4 DEF Decide, Finish, IdlePromoter
      <4>2. next.delivery = "steer"
        BY <3>2
      <4> QED BY <1>1, <4>1, <4>2 DEF SeesSteers, DrainAt
    <3> QED BY <3>3, <3>4
  <2>3. CASE DeliverControl
    <3>1. promoter'.outcome \in {"control", "died"} /\ promoter'.at = "idle"
      BY <2>3 DEF DeliverControl, Finish, IdlePromoter
    <3> QED BY <1>1, <3>1 DEF SeesSteers, DrainAt
  <2>4. PromoterStep /\ ~PublishNext /\ ~PublishLate /\ ~PublishDone
    BY <2>0 DEF PromoterActs, PublishNext, PublishLate, PublishDone, DrainInv, RowsHeld
  <2> QED
    BY <2>0, <2>1, <2>2, <2>3, <2>4
    DEF PromoterStep, BoundaryQueued, PromoteSteers, PromoteQueued
<1>6. ResumeGuarded'
  BY <1>1, <1>3, <1>4, <1>5, ResumeGuardStays DEF ResumeInv
<1> QED BY <1>2, <1>6 DEF ResumeInv

LEMMA ResumeInvNext == DrainInv /\ ResumeInv /\ [DrainNext]_drainVars => ResumeInv'
<1> SUFFICES ASSUME DrainInv, ResumeInv, [DrainNext]_drainVars PROVE ResumeInv'
  OBVIOUS
<1>1. ASSUME NEW c \in Callers, CallerActs(c) \/ Wake(c) PROVE ResumeInv'
  BY <1>1, CallerActsResume, WakeResume
<1>2. CASE DrainStep \/ Reload
  BY <1>2, BeginDrainResume, PointsResume, PromoterResume, DisturbedResume, ResumptionResume
  DEF DrainStep
<1>3. CASE Resume
  BY <1>3, WakeResume
<1>4. CASE Fails \/ \E resume \in BOOLEAN : Interrupt(resume)
  BY <1>4, DisturbedResume
<1>5. CASE UNCHANGED drainVars
  <2>1. UNCHANGED <<tables, call, made, demand, drain, promoter, resumption, stops>>
    BY <1>5 DEF drainVars, inboxVars, doorbell, bounds
  <2>2. WokeAnswered' /\ SleepsCalmly'
    BY <2>1, WokeStays DEF ResumeInv, SleepsCalmly, DrainAt
  <2>3. Steers' = Steers /\ (Resumed' => Resumed) /\ (SeesSteers => SeesSteers')
    BY <2>1, SteersStay DEF Resumed, SeesSteers, DrainAt
  <2>4. ResumeGuarded'
    BY <2>1, <2>3, ResumeGuardStays DEF ResumeInv
  <2> QED BY <2>2, <2>4 DEF ResumeInv
<1> QED BY <1>1, <1>2, <1>3, <1>4, <1>5 DEF DrainNext

(* After an interrupt with resume no steered input is left behind          *)
(* (execution.ts:76): what entered before its look at the inbox is seen by *)
(* it or by the drain it rings for, and what enters later rings itself.    *)
THEOREM ResumptionLeavesNoSteer == DrainSpec => []ResumptionIsThorough
<1>1. DrainInit => ResumeInv
  BY DEF DrainInit, D!Init, Asleep, ResumeInv, WokeAnswered, Woke, SleepsCalmly, ResumeGuarded, Resumed
<1>2. DrainInv /\ ResumeInv /\ [DrainNext]_drainVars => ResumeInv'
  BY ResumeInvNext
<1>3. ResumeInv => ResumptionIsThorough
  BY DEF ResumeInv, ResumeGuarded, Resumed, SeesSteers, DrainAt, ResumptionIsThorough
<1> QED BY <1>1, <1>2, <1>3, DrainCorrect, PTL DEF DrainSpec
====
