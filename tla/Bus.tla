---------------------------------- MODULE Bus ----------------------------------
(***************************************************************************)
(* The event bus (core/src/bus.ts): durable events committed one aggregate *)
(* at a time and told to listeners and live subscribers; the durable log   *)
(* that readers replay and follow; replays of another process's log.       *)
(*                                                                         *)
(* An event is its place in the log: how often the aggregate had been      *)
(* removed, its sequence number, and the process it comes from.  Payloads, *)
(* projections, event types this build does not know and the Location an   *)
(* event is routed to are left out.                                        *)
(***************************************************************************)
EXTENDS Integers, Sequences, FiniteSets

CONSTANTS Aggregates, Writers, Readers,
          Origins,      \* processes whose logs are replayed here
          Reserved,     \* how many sequence numbers a commit hook reserves
          BatchSizes,   \* how many events publishAll is given
          Persist,      \* Options.persist
          PageSize,     \* Options.logReadPageSize
          MaxEvents,    \* bound: the largest sequence number, one less per removal
          MaxRemovals,  \* bound: how often an aggregate is removed
          None

ASSUME BusAssumption ==
  /\ Reserved \subseteq Nat /\ BatchSizes \subseteq Nat \ {0}
  /\ Persist \in BOOLEAN /\ PageSize \in Nat \ {0}
  /\ MaxEvents \in Nat /\ MaxRemovals \in Nat
  /\ None \notin Origins /\ None \notin Writers /\ None \notin Aggregates

VARIABLES latest,  \* table event_sequence: seq, -1 without a row
          owner,   \* table event_sequence: owner_id
          rows,    \* table event
          lock,    \* durableLocks: who publishes on the aggregate
          writer,  \* the fibers that publish and replay
          reader,  \* the streams of log
          epoch,   \* history: how often the aggregate was removed
          told,    \* history: what the live channel carried
          untold,  \* history: committed, but never to be told
          given    \* history: what each reader was given

tables == <<latest, owner, rows, epoch>>
busVars == <<latest, owner, rows, lock, writer, reader, epoch, told, untold, given>>

Event(a, seq, origin) == [epoch |-> epoch[a], seq |-> seq, origin |-> origin]

Idle == [agg |-> None, whole |-> FALSE, phase |-> "idle", batch |-> <<>>]
NewReader(a) == [agg |-> a, follow |-> FALSE, phase |-> "closed",
                 sequence |-> -1, through |-> -1, woken |-> FALSE, epoch |-> 0]

BusInit ==
  /\ latest = [a \in Aggregates |-> -1]
  /\ owner = [a \in Aggregates |-> None]
  /\ rows = [a \in Aggregates |-> {}]
  /\ lock = [a \in Aggregates |-> None]
  /\ writer = [w \in Writers |-> Idle]
  /\ reader \in [Readers -> {NewReader(a) : a \in Aggregates}]
  /\ epoch = [a \in Aggregates |-> 0]
  /\ told = [a \in Aggregates |-> {}]
  /\ untold = [a \in Aggregates |-> {}]
  /\ given = [r \in Readers |-> {}]

-------------------------------------------------------------------------------
(* Writers.  withLock(aggregate) is taken up to and including the          *)
(* notification; before the transaction it only keeps others waiting, so   *)
(* taking it and the transaction are one action, and a transaction that    *)
(* rolls back is none.                                                     *)

Goes(w, phase) == writer' = [writer EXCEPT ![w].phase = phase]

(* The writer is done, whatever became of it; withLock lets go. *)
Returns(w) ==
  /\ writer' = [writer EXCEPT ![w] = Idle]
  /\ lock' = [a \in Aggregates |-> IF lock[a] = w THEN None ELSE lock[a]]

Elements(events) == {events[i] : i \in DOMAIN events}

(* The transaction: projectors and commit hooks run, the sequence number   *)
(* moves on, the rows are stored.                                          *)
Stores(w, a, events, last, whole, notify) ==
  /\ writer[w].phase = "idle" /\ lock[a] = None
  /\ last <= MaxEvents - epoch[a]
  /\ lock' = [lock EXCEPT ![a] = w]
  /\ writer' = [writer EXCEPT ![w] = [agg |-> a, whole |-> whole, phase |-> "committed",
                                      batch |-> IF notify THEN events ELSE <<>>]]
  /\ latest' = [latest EXCEPT ![a] = last]
  /\ rows' = IF Persist THEN [rows EXCEPT ![a] = @ \cup Elements(events)] ELSE rows
  /\ untold' = IF notify THEN untold ELSE [untold EXCEPT ![a] = @ \cup Elements(events)]
  /\ UNCHANGED <<reader, epoch, told, given>>

(* A commit hook may reserve sequence numbers after its event's, for what  *)
(* a fork or an import copies.                                             *)
Publish(w, a, reserved) ==
  /\ Stores(w, a, <<Event(a, latest[a] + 1, None)>>, latest[a] + 1 + reserved, FALSE, TRUE)
  /\ UNCHANGED owner

PublishAll(w, a, n) ==
  /\ Stores(w, a, [i \in 1..n |-> Event(a, latest[a] + i, None)], latest[a] + n, TRUE, TRUE)
  /\ UNCHANGED owner

Owns(a, as) == owner' = [owner EXCEPT ![a] = IF @ = None THEN as ELSE @]

(* Mutant: a replay may leave a gap. *)
ReplayLater(w, a, seq, origin, as, notify) ==
  /\ owner[a] \in {None, as} /\ seq > latest[a]
  /\ Stores(w, a, <<Event(a, seq, origin)>>, seq, FALSE, notify)
  /\ Owns(a, as)

(* A replayed event is stored at its own sequence number, which must be    *)
(* the next one, unless the aggregate is owned and the replay is not its   *)
(* owner's.                                                                *)
Replay(w, a, seq, origin, as, notify) ==
  /\ owner[a] \in {None, as} /\ seq = latest[a] + 1
  /\ Stores(w, a, <<Event(a, seq, origin)>>, seq, FALSE, notify)
  /\ Owns(a, as)

(* A replay of the very event stored there only claims an unowned log; any *)
(* other is refused.                                                       *)
ReplayKnown(a, seq, origin) ==
  /\ lock[a] = None /\ owner[a] = None
  /\ Event(a, seq, origin) \in rows[a]
  /\ Owns(a, origin)
  /\ UNCHANGED <<latest, rows, lock, writer, reader, epoch, told, untold, given>>

(* Mutant: the lock only protects the transaction. *)
WakeUnlocks(w) ==
  /\ writer[w].phase = "committed"
  /\ reader' = [r \in Readers |->
       [reader[r] EXCEPT !.woken =
          @ \/ (reader[r].follow /\ reader[r].phase # "closed" /\ reader[r].agg = writer[w].agg)]]
  /\ IF writer[w].batch = <<>> THEN Returns(w)
     ELSE Goes(w, "listeners") /\ lock' = [lock EXCEPT ![writer[w].agg] = None]
  /\ UNCHANGED <<told, untold, given>> /\ UNCHANGED tables

(* After the transaction, the readers of the aggregate are woken; nothing  *)
(* interrupts the writer in between.                                       *)
Wake(w) ==
  /\ writer[w].phase = "committed"
  /\ reader' = [r \in Readers |->
       [reader[r] EXCEPT !.woken =
          @ \/ (reader[r].follow /\ reader[r].phase # "closed" /\ reader[r].agg = writer[w].agg)]]
  /\ IF writer[w].batch = <<>> THEN Returns(w) ELSE Goes(w, "listeners") /\ UNCHANGED lock
  /\ UNCHANGED <<told, untold, given>> /\ UNCHANGED tables

(* The listeners run one after another; a failure of one is only logged    *)
(* (a listener that interrupts is ListenerInterrupts).                     *)
Listen(w) ==
  /\ writer[w].phase = "listeners"
  /\ Goes(w, "live")
  /\ UNCHANGED <<lock, reader, told, untold, given>> /\ UNCHANGED tables

(* Then the live subscribers, wildcard and typed, and the next event.      *)
Tell(w) ==
  LET rest == Tail(writer[w].batch) IN
  /\ writer[w].phase = "live"
  /\ told' = [told EXCEPT ![writer[w].agg] = @ \cup {Head(writer[w].batch)}]
  /\ IF rest = <<>> THEN Returns(w)
     ELSE /\ writer' = [writer EXCEPT ![w].phase = "listeners", ![w].batch = rest]
          /\ UNCHANGED lock
  /\ UNCHANGED <<reader, untold, given>> /\ UNCHANGED tables

(* History: the event at hand and what follows it is never to be told. *)
Excused(w) == untold' = [untold EXCEPT ![writer[w].agg] = @ \cup Elements(writer[w].batch)]

(* Mutant: a batch can be interrupted between its events. *)
InterruptAny(w) ==
  /\ writer[w].phase \in {"listeners", "live"}
  /\ IF writer[w].whole THEN UNCHANGED untold ELSE Excused(w)
  /\ Returns(w)
  /\ UNCHANGED <<reader, told, given>> /\ UNCHANGED tables

(* The fiber that publishes is interrupted.  The transaction cannot be,    *)
(* nor a batch from outside; the notification of a single event can:       *)
(* nobody tells the rest of the live channel.                              *)
Interrupt(w) ==
  /\ writer[w].phase \in {"listeners", "live"} /\ ~writer[w].whole
  /\ Excused(w) /\ Returns(w)
  /\ UNCHANGED <<reader, told, given>> /\ UNCHANGED tables

(* A listener interrupts: observe lets that pass, so the later listeners   *)
(* and the live channel miss the event, and the rest of a batch with it.   *)
ListenerInterrupts(w) ==
  /\ writer[w].phase = "listeners"
  /\ Excused(w) /\ Returns(w)
  /\ UNCHANGED <<reader, told, given>> /\ UNCHANGED tables

(* remove does not take the lock.  The histories begin anew. *)
Remove(a) ==
  /\ epoch[a] < MaxRemovals
  /\ latest' = [latest EXCEPT ![a] = -1]
  /\ owner' = [owner EXCEPT ![a] = None]
  /\ rows' = [rows EXCEPT ![a] = {}]
  /\ epoch' = [epoch EXCEPT ![a] = @ + 1]
  /\ told' = [told EXCEPT ![a] = {}] /\ untold' = [untold EXCEPT ![a] = {}]
  /\ given' = [r \in Readers |-> IF reader[r].agg = a THEN {} ELSE given[r]]
  /\ UNCHANGED <<lock, writer, reader>>

(* claim, likewise; it creates no row. *)
Claim(a, origin) ==
  /\ latest[a] >= 0
  /\ owner' = [owner EXCEPT ![a] = origin]
  /\ UNCHANGED <<latest, rows, lock, writer, reader, epoch, told, untold, given>>

-------------------------------------------------------------------------------
(* Readers of the log. *)

Follows(r, phase) == reader' = [reader EXCEPT ![r].phase = phase]
SameLog(r) == reader[r].epoch = epoch[reader[r].agg]

(* log.  One that follows registers for wakes before it reads anything.    *)
OpenAt(r, a, follow, after) ==
  /\ reader[r].phase = "closed"
  /\ reader' = [reader EXCEPT ![r] =
       [NewReader(a) EXCEPT !.follow = follow, !.phase = "opened", !.epoch = epoch[a],
                            !.sequence = after]]
  /\ UNCHANGED <<lock, writer, told, untold>> /\ UNCHANGED tables

Open(r, a, follow) ==
  /\ OpenAt(r, a, follow, -1)
  /\ given' = [given EXCEPT ![r] = {}]

(* A client that was cut off asks for what comes after its last event.     *)
Reopen(r, follow) ==
  /\ OpenAt(r, reader[r].agg, follow, reader[r].sequence)
  /\ SameLog(r) /\ reader[r].sequence >= 0
  /\ UNCHANGED given

(* How far the history goes. *)
Target(r) ==
  /\ reader[r].phase = "opened"
  /\ reader' = [reader EXCEPT ![r].phase = "replaying",
                              ![r].through = latest[reader[r].agg]]
  /\ UNCHANGED <<lock, writer, told, untold, given>> /\ UNCHANGED tables

Unread(r) == {e \in rows[reader[r].agg] : reader[r].sequence < e.seq /\ e.seq <= reader[r].through}
Upto(r, last) == {e \in Unread(r) : e.seq <= last.seq}
Reads(r) == reader[r].phase \in {"replaying", "reading"}

(* Mutant: after a full page the stream continues at its target. *)
ReadOnePage(r) ==
  /\ Reads(r)
  /\ \E last \in Unread(r) :
       /\ \/ Cardinality(Upto(r, last)) = PageSize
          \/ Cardinality(Upto(r, last)) < PageSize /\ Upto(r, last) = Unread(r)
       /\ given' = [given EXCEPT ![r] = @ \cup Upto(r, last)]
       /\ reader' = [reader EXCEPT ![r].sequence = reader[r].through]
  /\ UNCHANGED <<lock, writer, told, untold>> /\ UNCHANGED tables

(* readAfter: the first rows after the cursor and up to the target, at     *)
(* most a page of them.                                                    *)
ReadPage(r) ==
  /\ Reads(r)
  /\ \E last \in Unread(r) :
       /\ \/ Cardinality(Upto(r, last)) = PageSize
          \/ Cardinality(Upto(r, last)) < PageSize /\ Upto(r, last) = Unread(r)
       /\ given' = [given EXCEPT ![r] = @ \cup Upto(r, last)]
       /\ reader' = [reader EXCEPT ![r].sequence = last.seq]
  /\ UNCHANGED <<lock, writer, told, untold>> /\ UNCHANGED tables

(* Mutant: the reader registers for wakes once the replay is over. *)
RegistersAfterReplay(r) ==
  /\ Reads(r) /\ Unread(r) = {}
  /\ reader' = [reader EXCEPT ![r].phase = IF @ = "replaying" /\ ~reader[r].follow THEN "synced" ELSE "live",
                              ![r].woken = @ /\ reader[r].phase = "reading"]
  /\ UNCHANGED <<lock, writer, told, untold, given>> /\ UNCHANGED tables

(* Nothing is left up to the target: the replay ends with its Synced       *)
(* marker and the stream with it unless it follows; a live read goes back  *)
(* to waiting.                                                             *)
ReadEnds(r) ==
  /\ Reads(r) /\ Unread(r) = {}
  /\ Follows(r, IF reader[r].follow THEN "live" ELSE "synced")
  /\ UNCHANGED <<lock, writer, told, untold, given>> /\ UNCHANGED tables

(* A wake is taken; wakes that arrive meanwhile coalesce into one. *)
TakeWake(r) ==
  /\ reader[r].phase = "live" /\ reader[r].woken
  /\ reader' = [reader EXCEPT ![r].phase = "woken", ![r].woken = FALSE]
  /\ UNCHANGED <<lock, writer, told, untold, given>> /\ UNCHANGED tables

CheckLatest(r) ==
  /\ reader[r].phase = "woken"
  /\ LET target == latest[reader[r].agg] IN
       reader' = IF target > reader[r].sequence
                   THEN [reader EXCEPT ![r].phase = "reading", ![r].through = target]
                   ELSE [reader EXCEPT ![r].phase = "live"]
  /\ UNCHANGED <<lock, writer, told, untold, given>> /\ UNCHANGED tables

(* The client goes away. *)
Close(r) ==
  /\ reader[r].phase # "closed"
  /\ reader' = [reader EXCEPT ![r] =
       IF SameLog(r) THEN [NewReader(@.agg) EXCEPT !.sequence = reader[r].sequence,
                                                   !.epoch = reader[r].epoch]
       ELSE NewReader(@.agg)]
  /\ UNCHANGED <<lock, writer, told, untold, given>> /\ UNCHANGED tables

-------------------------------------------------------------------------------
Commit(w, a) ==
  \/ \E n \in Reserved : Publish(w, a, n)
  \/ \E n \in BatchSizes : PublishAll(w, a, n)
  \/ \E seq \in 0..MaxEvents, origin \in Origins, notify \in BOOLEAN :
       \E as \in {None, origin} : Replay(w, a, seq, origin, as, notify)

WriterStep(w) == Wake(w) \/ Listen(w) \/ Tell(w)

ReaderStep(r) == Target(r) \/ ReadPage(r) \/ ReadEnds(r) \/ TakeWake(r) \/ CheckLatest(r)

BusNext ==
  \/ \E w \in Writers :
       WriterStep(w) \/ Interrupt(w) \/ ListenerInterrupts(w) \/ \E a \in Aggregates : Commit(w, a)
  \/ \E a \in Aggregates :
       \/ Remove(a)
       \/ \E origin \in Origins : Claim(a, origin) \/ \E seq \in 0..MaxEvents : ReplayKnown(a, seq, origin)
  \/ \E r \in Readers :
       \/ ReaderStep(r) \/ Close(r)
       \/ \E follow \in BOOLEAN : Reopen(r, follow) \/ \E a \in Aggregates : Open(r, a, follow)

BusFair == (\A w \in Writers : WF_busVars(WriterStep(w))) /\ \A r \in Readers : WF_busVars(ReaderStep(r))
BusSpec == BusInit /\ [][BusNext]_busVars /\ BusFair
-------------------------------------------------------------------------------
Phases == {"idle", "committed", "listeners", "live"}
Events == [epoch : 0..MaxRemovals, seq : -1..MaxEvents, origin : Origins \cup {None}]
Readings == {"closed", "opened", "replaying", "synced", "live", "woken", "reading"}

(* The tables, the locks and every fiber and stream keep their types; who  *)
(* has committed on an aggregate holds its lock until it has told it.      *)
BusTypeOK ==
  /\ latest \in [Aggregates -> -1..MaxEvents]
  /\ owner \in [Aggregates -> Origins \cup {None}]
  /\ rows \in [Aggregates -> SUBSET Events]
  /\ lock \in [Aggregates -> Writers \cup {None}]
  /\ writer \in [Writers -> [agg : Aggregates \cup {None}, whole : BOOLEAN,
                              phase : Phases, batch : Seq(Events)]]
  /\ reader \in [Readers -> [agg : Aggregates, follow : BOOLEAN, phase : Readings,
                             sequence : -1..MaxEvents,
                             through : -1..MaxEvents, woken : BOOLEAN, epoch : 0..MaxRemovals]]
  /\ epoch \in [Aggregates -> 0..MaxRemovals]
  /\ told \in [Aggregates -> SUBSET Events] /\ untold \in [Aggregates -> SUBSET Events]
  /\ given \in [Readers -> SUBSET Events]
  /\ \A a \in Aggregates, w \in Writers : lock[a] = w <=> writer[w].agg = a

(* The live channel (bus.ts:134) carries the durable events of an aggregate*)
(* in the order of the log, each once, however many fibers publish, replay *)
(* and remove it at the same time.                                         *)
Before(d, e) == d.epoch < e.epoch \/ (d.epoch = e.epoch /\ d.seq < e.seq)
ToldInOrder ==
  [][\A a \in Aggregates : \A e \in told'[a] \ told[a], d \in told[a] : Before(d, e)]_busVars

(* Whatever is in the log has been told, is about to be told by the fiber  *)
(* that holds the lock, or is excused: a replay that was not to be told, a *)
(* single event whose publisher was interrupted, or an event at which a    *)
(* listener interrupted (bus.ts:489), with what followed it in its batch.  *)
(* No listener that fails, no interruption of a batch from outside and no  *)
(* removal beside the lock costs anybody a durable event.                  *)
BeingTold(a) == UNION {Elements(writer[w].batch) : w \in {v \in Writers : lock[a] = v}}
NothingIsSkipped ==
  \A a \in Aggregates : rows[a] \subseteq told[a] \cup untold[a] \cup BeingTold(a)

(* The log is read in order and without gaps (bus.ts:161): unless the      *)
(* aggregate was removed, a reader that reached some sequence number has   *)
(* been given every event up to it, across pages, wakes and reconnections; *)
(* and when it is told that it is synced, everything up to the target.     *)
LogIsComplete ==
  \A r \in Readers : SameLog(r) =>
    /\ given[r] = {e \in rows[reader[r].agg] : e.seq <= reader[r].sequence}
    /\ reader[r].phase \in {"synced", "live", "woken"} => Unread(r) = {}

(* A log that only replays wrote is the beginning of the log it copies,    *)
(* however they are lost, repeated or reordered (bus.ts:373).              *)
CopyHasNoGap ==
  Persist => \A a \in Aggregates :
    (\A e \in rows[a] : e.origin # None) =>
      rows[a] = {} \/ {e.seq : e \in rows[a]} = 0..latest[a]

(* A reader that follows does not stay behind: a commit between its        *)
(* registration, its target and its pages wakes it, and it is given what   *)
(* it lacks (bus.ts:854).                                                  *)
Behind(r) ==
  /\ reader[r].follow /\ SameLog(r)
  /\ \E e \in rows[reader[r].agg] : e.seq > reader[r].sequence
ReadersCatchUp == \A r \in Readers : Behind(r) ~> ~Behind(r)
===============================================================================
