------------------------------- MODULE BusProofs -------------------------------
(***************************************************************************)
(* Proofs about Bus, for any number of aggregates, writers, readers,       *)
(* events and removals.                                                    *)
(***************************************************************************)
EXTENDS Bus, TLAPS

Publishers == [agg : Aggregates \cup {None}, whole : BOOLEAN, phase : Phases, batch : Seq(Events)]
Streams == [agg : Aggregates, follow : BOOLEAN, phase : Readings, sequence : -1..MaxEvents,
            through : -1..MaxEvents, woken : BOOLEAN, epoch : 0..MaxRemovals]

(* Who is idle holds no lock; who tells has something to tell.             *)
WritersAreBusy ==
  \A w \in Writers :
    /\ writer[w].phase = "idle" <=> writer[w].agg = None
    /\ writer[w].phase \in {"listeners", "live"} => writer[w].batch # <<>>

(* The log reaches no further than the sequence number of its aggregate,   *)
(* and an empty one has not begun.                                         *)
RowsInRange ==
  \A a \in Aggregates :
    /\ \A e \in rows[a] : 0 <= e.seq /\ e.seq <= latest[a]
    /\ Persist /\ rows[a] = {} => latest[a] = -1

(* A stream of the present log is not ahead of it, was given all of it up  *)
(* to its cursor, and owes nothing where it claims to be synced.           *)
ReadRight(stream, events) ==
  /\ stream.epoch <= epoch[stream.agg]
  /\ stream.epoch = epoch[stream.agg] =>
       /\ stream.sequence <= latest[stream.agg] /\ stream.through <= latest[stream.agg]
       /\ events = {e \in rows[stream.agg] : e.seq <= stream.sequence}
       /\ stream.phase \in {"synced", "live", "woken"} =>
            \A e \in rows[stream.agg] : ~(stream.sequence < e.seq /\ e.seq <= stream.through)
ReadersAreRight == \A r \in Readers : ReadRight(reader[r], given[r])

(* Nothing is told that was not committed; what waits to be told is in     *)
(* order, and after everything that was.                                   *)
Past(a, e) == e.epoch < epoch[a] \/ (e.epoch = epoch[a] /\ e.seq <= latest[a])
ToldIsPast == \A a \in Aggregates : \A d \in told[a] : Past(a, d)
BatchInOrder ==
  \A w \in Writers : \A i, j \in DOMAIN writer[w].batch :
    i < j => Before(writer[w].batch[i], writer[w].batch[j])
BatchIsNext ==
  \A w \in Writers, a \in Aggregates : writer[w].agg = a =>
    \A i \in DOMAIN writer[w].batch :
      /\ Past(a, writer[w].batch[i])
      /\ \A d \in told[a] : Before(d, writer[w].batch[i])

BusInv ==
  /\ BusTypeOK /\ WritersAreBusy /\ RowsInRange /\ ReadersAreRight
  /\ ToldIsPast /\ BatchInOrder /\ BatchIsNext
  /\ NothingIsSkipped /\ CopyHasNoGap

USE BusAssumption

LEMMA BusInitInv == BusInit => BusInv
<1> SUFFICES ASSUME BusInit PROVE BusInv
  OBVIOUS
<1> USE DEF BusInit
<1>1. BusTypeOK
  <2>1. Idle \in Publishers
    BY DEF Idle, Publishers, Phases
  <2>2. \A a \in Aggregates : NewReader(a) \in Streams
    BY DEF NewReader, Streams, Readings
  <2>3. writer \in [Writers -> Publishers] /\ reader \in [Readers -> Streams]
    BY <2>1, <2>2
  <2>4. \A a \in Aggregates, w \in Writers : lock[a] = w <=> writer[w].agg = a
    BY DEF Idle
  <2>5. /\ latest \in [Aggregates -> -1..MaxEvents] /\ owner \in [Aggregates -> Origins \cup {None}]
        /\ rows \in [Aggregates -> SUBSET Events] /\ lock \in [Aggregates -> Writers \cup {None}]
        /\ epoch \in [Aggregates -> 0..MaxRemovals]
        /\ told \in [Aggregates -> SUBSET Events] /\ untold \in [Aggregates -> SUBSET Events]
        /\ given \in [Readers -> SUBSET Events]
    OBVIOUS
  <2> QED BY <2>3, <2>4, <2>5 DEF BusTypeOK, Publishers, Streams
<1>2. ReadersAreRight
  <2> SUFFICES ASSUME NEW r \in Readers PROVE ReadRight(reader[r], given[r])
    BY DEF ReadersAreRight
  <2>1. PICK a \in Aggregates : reader[r] = NewReader(a)
    OBVIOUS
  <2> QED BY <2>1 DEF ReadRight, NewReader
<1>3. WritersAreBusy /\ RowsInRange /\ ToldIsPast /\ BatchInOrder /\ BatchIsNext
  BY DEF WritersAreBusy, RowsInRange, ToldIsPast, BatchInOrder, BatchIsNext, Idle
<1>4. NothingIsSkipped /\ CopyHasNoGap
  BY DEF NothingIsSkipped, CopyHasNoGap
<1> QED BY <1>1, <1>2, <1>3, <1>4 DEF BusInv

-------------------------------------------------------------------------------
(* A step of one stream: everything but the stream stays, and so does the  *)
(* invariant if the stream is right.                                       *)
LEMMA StreamInv ==
  ASSUME BusInv, NEW r \in Readers, NEW stream \in Streams, NEW events \in SUBSET Events,
         reader' = [reader EXCEPT ![r] = stream], given' = [given EXCEPT ![r] = events],
         UNCHANGED <<lock, writer, told, untold>>, UNCHANGED tables,
         ReadRight(stream, events)
  PROVE  BusInv'
<1> USE DEF tables
<1>1. BusTypeOK'
  <2>1. reader' \in [Readers -> Streams] /\ given' \in [Readers -> SUBSET Events]
    BY DEF BusInv, BusTypeOK, Streams
  <2> QED BY <2>1 DEF BusInv, BusTypeOK, Streams
<1>2. ReadersAreRight'
  <2> SUFFICES ASSUME NEW q \in Readers PROVE ReadRight(reader[q], given[q])'
    BY DEF ReadersAreRight
  <2>1. reader \in [Readers -> Streams] /\ given \in [Readers -> SUBSET Events]
    BY DEF BusInv, BusTypeOK, Streams
  <2>2. CASE q = r
    BY <2>1, <2>2 DEF ReadRight
  <2>3. CASE q # r
    BY <2>1, <2>3 DEF ReadRight, BusInv, ReadersAreRight
  <2> QED BY <2>2, <2>3
<1>3. (WritersAreBusy /\ RowsInRange /\ ToldIsPast /\ BatchInOrder /\ BatchIsNext)'
  BY DEF BusInv, WritersAreBusy, RowsInRange, ToldIsPast, BatchInOrder, BatchIsNext, Past, Before
<1>4. NothingIsSkipped'
  BY DEF BusInv, NothingIsSkipped, BeingTold, Elements
<1>5. CopyHasNoGap'
  BY DEF BusInv, CopyHasNoGap
<1> QED BY <1>1, <1>2, <1>3, <1>4, <1>5 DEF BusInv

(* What is known of a stream before it moves. *)
LEMMA StreamFacts ==
  ASSUME BusInv, NEW r \in Readers
  PROVE  /\ reader[r] \in Streams /\ given[r] \in SUBSET Events /\ reader[r].agg \in Aggregates
         /\ reader \in [Readers -> Streams] /\ given \in [Readers -> SUBSET Events]
         /\ ReadRight(reader[r], given[r])
         /\ given = [given EXCEPT ![r] = given[r]]
         /\ \A a \in Aggregates : /\ epoch[a] \in 0..MaxRemovals /\ latest[a] \in -1..MaxEvents
                                  /\ rows[a] \subseteq Events
                                  /\ \A e \in rows[a] : 0 <= e.seq /\ e.seq <= latest[a] /\ e.seq \in Int
<1>1. reader \in [Readers -> Streams] /\ given \in [Readers -> SUBSET Events]
  BY DEF BusInv, BusTypeOK, Streams
<1>2. \A a \in Aggregates : /\ epoch[a] \in 0..MaxRemovals /\ latest[a] \in -1..MaxEvents
                            /\ rows[a] \subseteq Events
  BY DEF BusInv, BusTypeOK
<1>3. \A e \in Events : e.seq \in Int
  BY DEF Events
<1>4. ReadRight(reader[r], given[r])
  BY DEF BusInv, ReadersAreRight
<1>5. reader[r].agg \in Aggregates
  BY <1>1 DEF Streams
<1> QED BY <1>1, <1>2, <1>3, <1>4, <1>5 DEF BusInv, RowsInRange

LEMMA OpenAtInv ==
  ASSUME BusInv, NEW r \in Readers, NEW a \in Aggregates, NEW follow \in BOOLEAN
  PROVE  /\ Open(r, a, follow) => BusInv'
         /\ Reopen(r, follow) => BusInv'
<1> USE DEF OpenAt, NewReader
<1>1. ASSUME Open(r, a, follow) PROVE BusInv'
  <2> DEFINE stream == [NewReader(a) EXCEPT !.follow = follow, !.phase = "opened", !.epoch = epoch[a],
                                            !.sequence = -1]
  <2>1. stream \in Streams
    <3> DEFINE s1 == [NewReader(a) EXCEPT !.follow = follow]
               s2 == [s1 EXCEPT !.phase = "opened"]
               s3 == [s2 EXCEPT !.epoch = epoch[a]]
    <3>1. /\ epoch[a] \in 0..MaxRemovals /\ -1 \in -1..MaxEvents /\ a \in Aggregates
          /\ -1 \in -1..MaxEvents /\ 0 \in 0..MaxRemovals
      BY StreamFacts DEF Streams
    <3>2. NewReader(a) \in Streams
      BY <3>1 DEF Streams, Readings
    <3>3. s1 \in Streams
      BY <3>2 DEF Streams
    <3>4. stream = [s3 EXCEPT !.sequence = -1]
      OBVIOUS
    <3> HIDE DEF s1, stream
    <3>5. s2 \in Streams
      BY <3>3 DEF Streams, Readings
    <3> HIDE DEF s2
    <3>6. s3 \in Streams
      BY <3>1, <3>5 DEF Streams
    <3> HIDE DEF s3
    <3> QED BY <3>1, <3>4, <3>6 DEF Streams
  <2>2. reader' = [reader EXCEPT ![r] = stream] /\ given' = [given EXCEPT ![r] = {}]
    BY <1>1 DEF Open
  <2>3. ReadRight(stream, {})
    <3>1. /\ stream.agg = a /\ stream.epoch = epoch[a] /\ stream.sequence = -1 /\ stream.through = -1
          /\ stream.phase = "opened"
      OBVIOUS
    <3>2. {e \in rows[a] : e.seq <= -1} = {}
      BY StreamFacts
    <3> QED BY <3>1, <3>2, StreamFacts DEF ReadRight
  <2> HIDE DEF stream
  <2> QED BY <2>1, <2>2, <2>3, <1>1, StreamInv DEF Open
<1>2. ASSUME Reopen(r, follow) PROVE BusInv'
  <2> DEFINE b == reader[r].agg
  <2> DEFINE stream == [NewReader(b) EXCEPT !.follow = follow, !.phase = "opened", !.epoch = epoch[b],
                                            !.sequence = reader[r].sequence]
  <2>1. stream \in Streams
    <3> DEFINE s1 == [NewReader(b) EXCEPT !.follow = follow]
               s2 == [s1 EXCEPT !.phase = "opened"]
               s3 == [s2 EXCEPT !.epoch = epoch[b]]
    <3>1. /\ epoch[b] \in 0..MaxRemovals /\ reader[r].sequence \in -1..MaxEvents /\ b \in Aggregates
          /\ -1 \in -1..MaxEvents /\ 0 \in 0..MaxRemovals
      BY StreamFacts DEF Streams
    <3>2. NewReader(b) \in Streams
      BY <3>1 DEF Streams, Readings
    <3>3. s1 \in Streams
      BY <3>2 DEF Streams
    <3>4. stream = [s3 EXCEPT !.sequence = reader[r].sequence]
      OBVIOUS
    <3> HIDE DEF s1, stream
    <3>5. s2 \in Streams
      BY <3>3 DEF Streams, Readings
    <3> HIDE DEF s2
    <3>6. s3 \in Streams
      BY <3>1, <3>5 DEF Streams
    <3> HIDE DEF s3
    <3> QED BY <3>1, <3>4, <3>6 DEF Streams
  <2>2. reader' = [reader EXCEPT ![r] = stream] /\ given' = [given EXCEPT ![r] = given[r]]
    BY <1>2, StreamFacts DEF Reopen
  <2>3. ReadRight(stream, given[r])
    <3>1. /\ stream.agg = b /\ stream.epoch = epoch[b] /\ stream.sequence = reader[r].sequence
          /\ stream.through = -1 /\ stream.phase = "opened" /\ reader[r].epoch = epoch[b]
      BY <1>2 DEF Reopen, SameLog
    <3> QED BY <3>1, StreamFacts DEF ReadRight
  <2> HIDE DEF stream
  <2> QED BY <2>1, <2>2, <2>3, <1>2, StreamFacts, StreamInv DEF Reopen
<1> QED BY <1>1, <1>2

LEMMA TargetInv == ASSUME BusInv, NEW r \in Readers, Target(r) PROVE BusInv'
<1> DEFINE stream == [reader[r] EXCEPT !.phase = "replaying", !.through = latest[reader[r].agg]]
<1>1. stream \in Streams
  <2> DEFINE half == [reader[r] EXCEPT !.phase = "replaying"]
  <2>1. latest[reader[r].agg] \in -1..MaxEvents /\ reader[r] \in Streams
    BY StreamFacts
  <2>2. half \in Streams
    BY <2>1 DEF Streams, Readings
  <2>3. stream = [half EXCEPT !.through = latest[reader[r].agg]]
    OBVIOUS
  <2> HIDE DEF stream, half
  <2> QED BY <2>1, <2>2, <2>3 DEF Streams
<1>2. reader' = [reader EXCEPT ![r] = stream] /\ given' = [given EXCEPT ![r] = given[r]]
  BY StreamFacts DEF Target
<1>3. /\ stream.agg = reader[r].agg /\ stream.epoch = reader[r].epoch
      /\ stream.sequence = reader[r].sequence /\ stream.through = latest[reader[r].agg]
      /\ stream.phase = "replaying"
  BY StreamFacts DEF Streams
<1> HIDE DEF stream
<1>4. ReadRight(stream, given[r])
  BY <1>3, StreamFacts DEF ReadRight
<1> QED BY <1>1, <1>2, <1>4, StreamFacts, StreamInv DEF Target

LEMMA ReadPageInv == ASSUME BusInv, NEW r \in Readers, ReadPage(r) PROVE BusInv'
<1>1. PICK last \in Unread(r) :
        /\ given' = [given EXCEPT ![r] = @ \cup Upto(r, last)]
        /\ reader' = [reader EXCEPT ![r].sequence = last.seq]
  BY DEF ReadPage
<1> DEFINE stream == [reader[r] EXCEPT !.sequence = last.seq]
           events == given[r] \cup Upto(r, last)
<1>2. last \in Events /\ last.seq \in -1..MaxEvents /\ last \in rows[reader[r].agg]
      /\ reader[r].sequence < last.seq /\ last.seq <= reader[r].through
  BY StreamFacts DEF Unread, Events
<1>3. stream \in Streams /\ events \in SUBSET Events
  BY <1>2, StreamFacts DEF Streams, Upto, Unread
<1>4. reader' = [reader EXCEPT ![r] = stream] /\ given' = [given EXCEPT ![r] = events]
  BY <1>1, StreamFacts
<1>5. /\ stream.agg = reader[r].agg /\ stream.epoch = reader[r].epoch
      /\ stream.sequence = last.seq /\ stream.through = reader[r].through
      /\ stream.phase = reader[r].phase /\ reader[r].phase \in {"replaying", "reading"}
  BY StreamFacts DEF Streams, ReadPage, Reads
<1>6. reader[r].epoch = epoch[reader[r].agg] => events = {e \in rows[reader[r].agg] : e.seq <= last.seq}
  <2> SUFFICES ASSUME reader[r].epoch = epoch[reader[r].agg]
               PROVE  events = {e \in rows[reader[r].agg] : e.seq <= last.seq}
    OBVIOUS
  <2>1. given[r] = {e \in rows[reader[r].agg] : e.seq <= reader[r].sequence}
    BY StreamFacts DEF ReadRight
  <2>2. Upto(r, last) = {e \in rows[reader[r].agg] : reader[r].sequence < e.seq /\ e.seq <= last.seq}
    BY <1>2, StreamFacts DEF Upto, Unread, Streams
  <2>3. reader[r].sequence \in Int
    BY StreamFacts DEF Streams
  <2> QED BY <2>1, <2>2, <2>3, <1>2, StreamFacts
<1> HIDE DEF stream, events
<1>7. ReadRight(stream, events)
  BY <1>2, <1>5, <1>6, StreamFacts DEF ReadRight
<1> QED BY <1>3, <1>4, <1>7, StreamInv DEF ReadPage

LEMMA ReadEndsInv == ASSUME BusInv, NEW r \in Readers, ReadEnds(r) PROVE BusInv'
<1> DEFINE phase == IF reader[r].follow THEN "live" ELSE "synced"
           stream == [reader[r] EXCEPT !.phase = phase]
<1>1. stream \in Streams
  BY StreamFacts DEF Streams, Readings
<1>2. reader' = [reader EXCEPT ![r] = stream] /\ given' = [given EXCEPT ![r] = given[r]]
  BY StreamFacts DEF ReadEnds, Follows
<1>3. /\ stream.agg = reader[r].agg /\ stream.epoch = reader[r].epoch
      /\ stream.sequence = reader[r].sequence /\ stream.through = reader[r].through
  BY StreamFacts DEF Streams
<1>4. \A e \in rows[reader[r].agg] : ~(reader[r].sequence < e.seq /\ e.seq <= reader[r].through)
  BY DEF ReadEnds, Unread
<1> HIDE DEF stream
<1>5. ReadRight(stream, given[r])
  BY <1>3, <1>4, StreamFacts DEF ReadRight
<1> QED BY <1>1, <1>2, <1>5, StreamFacts, StreamInv DEF ReadEnds

LEMMA TakeWakeInv == ASSUME BusInv, NEW r \in Readers, TakeWake(r) PROVE BusInv'
<1> DEFINE stream == [reader[r] EXCEPT !.phase = "woken", !.woken = FALSE]
<1>1. stream \in Streams
  BY StreamFacts DEF Streams, Readings
<1>2. reader' = [reader EXCEPT ![r] = stream] /\ given' = [given EXCEPT ![r] = given[r]]
  BY StreamFacts DEF TakeWake
<1>3. /\ stream.agg = reader[r].agg /\ stream.epoch = reader[r].epoch
      /\ stream.sequence = reader[r].sequence /\ stream.through = reader[r].through
      /\ reader[r].phase = "live"
  BY StreamFacts DEF Streams, TakeWake
<1> HIDE DEF stream
<1>4. ReadRight(stream, given[r])
  BY <1>3, StreamFacts DEF ReadRight
<1> QED BY <1>1, <1>2, <1>4, StreamFacts, StreamInv DEF TakeWake

LEMMA CheckLatestInv == ASSUME BusInv, NEW r \in Readers, CheckLatest(r) PROVE BusInv'
<1> DEFINE target == latest[reader[r].agg]
           stream == IF target > reader[r].sequence
                       THEN [reader[r] EXCEPT !.phase = "reading", !.through = target]
                       ELSE [reader[r] EXCEPT !.phase = "live"]
<1>1. stream \in Streams
  <2>1. reader[r] \in Streams /\ target \in -1..MaxEvents
    BY StreamFacts
  <2>2. /\ [reader[r] EXCEPT !.phase = "reading", !.through = target] \in Streams
        /\ [reader[r] EXCEPT !.phase = "live"] \in Streams
    BY <2>1 DEF Streams, Readings
  <2> QED BY <2>2
<1>2. reader' = [reader EXCEPT ![r] = stream] /\ given' = [given EXCEPT ![r] = given[r]]
  BY StreamFacts DEF CheckLatest
<1>3. /\ stream.agg = reader[r].agg /\ stream.epoch = reader[r].epoch
      /\ stream.sequence = reader[r].sequence /\ reader[r].phase = "woken"
      /\ \/ stream.through = target /\ stream.phase = "reading"
         \/ stream.through = reader[r].through /\ stream.phase = "live"
  BY StreamFacts DEF Streams, CheckLatest
<1> HIDE DEF stream
<1>4. ReadRight(stream, given[r])
  BY <1>3, StreamFacts DEF ReadRight
<1> QED BY <1>1, <1>2, <1>4, StreamFacts, StreamInv DEF CheckLatest

LEMMA CloseInv == ASSUME BusInv, NEW r \in Readers, Close(r) PROVE BusInv'
<1> DEFINE a == reader[r].agg
           stream == IF SameLog(r)
                       THEN [NewReader(a) EXCEPT !.sequence = reader[r].sequence, !.epoch = reader[r].epoch]
                       ELSE NewReader(a)
<1>1. stream \in Streams
  <2>1. reader[r] \in Streams /\ a \in Aggregates /\ -1 \in -1..MaxEvents /\ 0 \in 0..MaxRemovals
    BY StreamFacts
  <2>2. NewReader(a) \in Streams
    BY <2>1 DEF Streams, Readings, NewReader
  <2>3. [agg |-> a, follow |-> FALSE, phase |-> "closed", sequence |-> reader[r].sequence,
         through |-> -1, woken |-> FALSE, epoch |-> reader[r].epoch] \in Streams
    BY <2>1 DEF Streams, Readings
  <2> QED BY <2>2, <2>3 DEF NewReader
<1>2. reader' = [reader EXCEPT ![r] = stream] /\ given' = [given EXCEPT ![r] = given[r]]
  BY StreamFacts DEF Close
<1>3. /\ stream.agg = a /\ stream.through = -1 /\ stream.phase = "closed"
      /\ \/ SameLog(r) /\ stream.sequence = reader[r].sequence /\ stream.epoch = reader[r].epoch
         \/ ~SameLog(r) /\ stream.epoch = 0
  BY DEF NewReader
<1>4. ~SameLog(r) => 0 < epoch[a]
  BY StreamFacts DEF ReadRight, SameLog, Streams
<1> HIDE DEF stream
<1>5. ReadRight(stream, given[r])
  BY <1>3, <1>4, StreamFacts DEF ReadRight, SameLog
<1> QED BY <1>1, <1>2, <1>5, StreamFacts, StreamInv DEF Close

-------------------------------------------------------------------------------
LEMMA WriterFacts ==
  ASSUME BusInv
  PROVE  /\ writer \in [Writers -> Publishers] /\ lock \in [Aggregates -> Writers \cup {None}]
         /\ \A a \in Aggregates, w \in Writers : lock[a] = w <=> writer[w].agg = a
         /\ \A w \in Writers : writer[w].batch \in Seq(Events)
         /\ epoch \in [Aggregates -> 0..MaxRemovals] /\ latest \in [Aggregates -> -1..MaxEvents]
         /\ rows \in [Aggregates -> SUBSET Events] /\ told \in [Aggregates -> SUBSET Events]
         /\ untold \in [Aggregates -> SUBSET Events] /\ given \in [Readers -> SUBSET Events]
         /\ reader \in [Readers -> Streams]
         /\ \A e \in Events : e.seq \in Int /\ e.epoch \in Int
<1>1. \A e \in Events : e.seq \in Int /\ e.epoch \in Int
  BY DEF Events
<1>2. writer \in [Writers -> Publishers] /\ reader \in [Readers -> Streams]
  BY DEF BusInv, BusTypeOK, Publishers, Streams
<1>3. \A w \in Writers : writer[w].batch \in Seq(Events)
  BY <1>2 DEF Publishers
<1> QED BY <1>1, <1>2, <1>3 DEF BusInv, BusTypeOK

(* The transaction, whoever publishes: what it stores lies beyond the log. *)
LEMMA StoresInv ==
  ASSUME BusInv, NEW w \in Writers, NEW a \in Aggregates, NEW events \in Seq(Events),
         NEW last \in Int, NEW whole \in BOOLEAN, NEW notify \in BOOLEAN,
         Stores(w, a, events, last, whole, notify), owner' \in [Aggregates -> Origins \cup {None}],
         events # <<>>, latest[a] < last,
         \A i \in DOMAIN events :
           events[i].epoch = epoch[a] /\ latest[a] < events[i].seq /\ events[i].seq <= last,
         \A i, j \in DOMAIN events : i < j => events[i].seq < events[j].seq,
         \/ \E i \in DOMAIN events : events[i].origin = None
         \/ \E e \in Events : Elements(events) = {e} /\ e.seq = last /\ last = latest[a] + 1
  PROVE  BusInv'
<1> DEFINE batch == IF notify THEN events ELSE <<>>
           now == [agg |-> a, whole |-> whole, phase |-> "committed", batch |-> batch]
<1>1. /\ writer' = [writer EXCEPT ![w] = now] /\ lock' = [lock EXCEPT ![a] = w]
      /\ latest' = [latest EXCEPT ![a] = last]
      /\ lock[a] = None /\ writer[w].phase = "idle" /\ last <= MaxEvents - epoch[a]
      /\ UNCHANGED <<reader, epoch, told, given>>
  BY DEF Stores
<1>2. now \in Publishers /\ now.agg = a /\ now.phase = "committed" /\ now.batch = batch
  <2>1. batch \in Seq(Events)
    OBVIOUS
  <2> HIDE DEF batch
  <2> QED BY <2>1 DEF Publishers, Phases
<1>3. \A i \in DOMAIN batch : batch[i] \in Events
  <2>1. \A i \in DOMAIN events : events[i] \in Events
    OBVIOUS
  <2> QED BY <2>1
<1>4. /\ \A i \in DOMAIN batch :
           batch[i].epoch = epoch[a] /\ latest[a] < batch[i].seq /\ batch[i].seq <= last
      /\ \A i, j \in DOMAIN batch : i < j => batch[i].seq < batch[j].seq
  OBVIOUS
<1>5. Elements(events) \subseteq Events /\ Elements(events) # {}
      /\ \A e \in Elements(events) : e.epoch = epoch[a] /\ latest[a] < e.seq /\ e.seq <= last
  BY DEF Elements
<1>6. rows' = (IF Persist THEN [rows EXCEPT ![a] = @ \cup Elements(events)] ELSE rows)
      /\ untold' = (IF notify THEN untold ELSE [untold EXCEPT ![a] = @ \cup Elements(events)])
      /\ Elements(batch) = IF notify THEN Elements(events) ELSE {}
  BY DEF Stores, Elements
<1> HIDE DEF batch, now
<1>7. \A v \in Writers : v # w => writer'[v] = writer[v] /\ writer[v].agg # a
  BY <1>1, WriterFacts
<1>8. \A b \in Aggregates : b # a => /\ rows'[b] = rows[b] /\ latest'[b] = latest[b]
                                     /\ untold'[b] = untold[b] /\ lock'[b] = lock[b]
  BY <1>1, <1>6, WriterFacts
<1>9. /\ rows[a] \subseteq rows'[a] /\ rows'[a] \subseteq rows[a] \cup Elements(events)
      /\ Persist => rows'[a] = rows[a] \cup Elements(events)
      /\ latest'[a] = last /\ lock'[a] = w /\ untold[a] \subseteq untold'[a]
      /\ writer'[w] = now /\ writer[w].agg = None
      /\ epoch' = epoch /\ told' = told /\ reader' = reader /\ given' = given
  BY <1>1, <1>6, WriterFacts DEF BusInv, WritersAreBusy
<1>10. BusTypeOK'
  <2>1. writer' \in [Writers -> Publishers] /\ lock' \in [Aggregates -> Writers \cup {None}]
    BY <1>1, <1>2, WriterFacts
  <2>2. last \in -1..MaxEvents
    BY <1>1, WriterFacts
  <2>3. latest' \in [Aggregates -> -1..MaxEvents]
    BY <1>1, <2>2, WriterFacts
  <2>4. rows' \in [Aggregates -> SUBSET Events] /\ untold' \in [Aggregates -> SUBSET Events]
    BY <1>5, <1>6, WriterFacts
  <2>5. ASSUME NEW b \in Aggregates, NEW v \in Writers PROVE lock'[b] = v <=> writer'[v].agg = b
    <3>1. lock[b] = v <=> writer[v].agg = b
      BY WriterFacts
    <3>2. CASE b = a
      BY <3>2, <1>2, <1>7, <1>9
    <3>3. CASE b # a
      BY <3>1, <3>3, <1>2, <1>7, <1>8, <1>9
    <3> QED BY <3>2, <3>3
  <2>6. /\ reader' \in [Readers -> Streams] /\ epoch' \in [Aggregates -> 0..MaxRemovals]
        /\ told' \in [Aggregates -> SUBSET Events] /\ given' \in [Readers -> SUBSET Events]
    BY <1>9, WriterFacts
  <2> QED BY <2>1, <2>3, <2>4, <2>5, <2>6 DEF BusTypeOK, Publishers, Streams
<1>11. WritersAreBusy'
  BY <1>2, <1>7, <1>9 DEF BusInv, WritersAreBusy
<1>12. RowsInRange'
  <2> SUFFICES ASSUME NEW b \in Aggregates
               PROVE  /\ \A e \in rows'[b] : 0 <= e.seq /\ e.seq <= latest'[b]
                      /\ Persist /\ rows'[b] = {} => latest'[b] = -1
    BY DEF RowsInRange
  <2>1. CASE b = a
    <3>1. \A e \in rows[a] : 0 <= e.seq /\ e.seq <= latest[a] /\ e.seq \in Int
      BY WriterFacts DEF BusInv, RowsInRange
    <3>2. \A e \in Elements(events) : 0 <= e.seq /\ e.seq <= last
      BY <1>5, WriterFacts
    <3> QED BY <2>1, <3>1, <3>2, <1>5, <1>9, WriterFacts
  <2>2. CASE b # a
    BY <2>2, <1>8 DEF BusInv, RowsInRange
  <2> QED BY <2>1, <2>2
<1>13. ReadersAreRight'
  <2> SUFFICES ASSUME NEW r \in Readers PROVE ReadRight(reader[r], given[r])'
    BY DEF ReadersAreRight
  <2> DEFINE stream == reader[r]
  <2>1. ReadRight(stream, given[r]) /\ stream \in Streams
    BY WriterFacts DEF BusInv, ReadersAreRight
  <2>2. stream.agg \in Aggregates /\ stream.sequence \in Int /\ stream.through \in Int
    BY <2>1 DEF Streams
  <2>3. reader'[r] = stream /\ given'[r] = given[r]
    BY <1>9
  <2> HIDE DEF stream
  <2>4. CASE stream.agg # a
    BY <2>1, <2>2, <2>3, <2>4, <1>8, <1>9 DEF ReadRight
  <2>5. CASE stream.agg = a
    <3>1. CASE stream.epoch # epoch[a]
      BY <2>1, <2>3, <2>5, <3>1, <1>9 DEF ReadRight
    <3>2. CASE stream.epoch = epoch[a]
      <4>1. stream.sequence <= latest[a] /\ stream.through <= latest[a] /\ latest[a] \in Int
        BY <2>1, <2>5, <3>2, WriterFacts DEF ReadRight
      <4>2. \A e \in Elements(events) : ~(e.seq <= stream.sequence) /\ ~(e.seq <= stream.through)
        <5> SUFFICES ASSUME NEW e \in Elements(events)
                     PROVE  ~(e.seq <= stream.sequence) /\ ~(e.seq <= stream.through)
          OBVIOUS
        <5>1. latest[a] < e.seq /\ e \in Events
          BY <1>5
        <5>2. e.seq \in Int
          BY <5>1, WriterFacts
        <5> QED BY <4>1, <2>2, <5>1, <5>2
      <4>3. {e \in rows'[a] : e.seq <= stream.sequence} = {e \in rows[a] : e.seq <= stream.sequence}
        BY <4>2, <1>9
      <4>4. stream.sequence <= last /\ stream.through <= last
        BY <4>1, <2>2
      <4>5. stream.phase \in {"synced", "live", "woken"} =>
              \A e \in rows'[a] : ~(stream.sequence < e.seq /\ e.seq <= stream.through)
        BY <4>2, <2>1, <2>5, <3>2, <1>9 DEF ReadRight
      <4> QED BY <4>3, <4>4, <4>5, <2>1, <2>3, <2>5, <3>2, <1>9 DEF ReadRight
    <3> QED BY <3>1, <3>2
  <2> QED BY <2>4, <2>5
<1>14. ToldIsPast'
  <2> SUFFICES ASSUME NEW b \in Aggregates, NEW d \in told[b] PROVE Past(b, d)'
    BY <1>9 DEF ToldIsPast
  <2>1. Past(b, d) /\ d \in Events
    BY WriterFacts DEF BusInv, ToldIsPast
  <2>2. d.seq \in Int /\ latest[b] \in Int
    BY <2>1, WriterFacts
  <2>3. latest[b] <= latest'[b]
    BY <2>2, <1>8, <1>9
  <2>4. latest'[b] \in Int
    BY <2>2, <1>8, <1>9
  <2> QED BY <2>1, <2>2, <2>3, <2>4, <1>9 DEF Past
<1>15. BatchInOrder'
  <2> SUFFICES ASSUME NEW v \in Writers, NEW i \in DOMAIN writer'[v].batch,
                      NEW j \in DOMAIN writer'[v].batch, i < j
               PROVE  Before(writer'[v].batch[i], writer'[v].batch[j])
    BY DEF BatchInOrder, Before
  <2>1. CASE v = w
    BY <2>1, <1>2, <1>4, <1>9 DEF Before
  <2>2. CASE v # w
    BY <2>2, <1>7 DEF BusInv, BatchInOrder
  <2> QED BY <2>1, <2>2
<1>16. BatchIsNext'
  <2> SUFFICES ASSUME NEW v \in Writers, NEW b \in Aggregates, writer'[v].agg = b,
                      NEW i \in DOMAIN writer'[v].batch
               PROVE  /\ Past(b, writer[v].batch[i])'
                      /\ \A d \in told[b] : Before(d, writer'[v].batch[i])
    BY <1>9 DEF BatchIsNext, Before
  <2>1. CASE v = w
    <3>1. b = a /\ writer'[v].batch = batch
      BY <2>1, <1>2, <1>9
    <3>2. Past(b, writer[v].batch[i])'
      BY <3>1, <1>4, <1>9 DEF Past
    <3>3. ASSUME NEW d \in told[b] PROVE Before(d, batch[i])
      <4>1. Past(a, d) /\ d \in Events
        BY <3>1, <3>3, WriterFacts DEF BusInv, ToldIsPast
      <4> QED BY <4>1, <3>1, <1>3, <1>4, WriterFacts DEF Past, Before
    <3> QED BY <3>1, <3>2, <3>3
  <2>2. CASE v # w
    <3>1. writer'[v] = writer[v] /\ b # a
      BY <2>2, <1>7
    <3>2. Past(b, writer[v].batch[i]) /\ \A d \in told[b] : Before(d, writer[v].batch[i])
      BY <3>1 DEF BusInv, BatchIsNext
    <3>3. latest'[b] = latest[b] /\ epoch' = epoch
      BY <3>1, <1>8, <1>9
    <3> QED BY <3>1, <3>2, <3>3 DEF Past
  <2> QED BY <2>1, <2>2
<1>17. NothingIsSkipped'
  <2> SUFFICES ASSUME NEW b \in Aggregates, NEW e \in rows'[b]
               PROVE  e \in told'[b] \cup untold'[b] \cup BeingTold(b)'
    BY DEF NothingIsSkipped
  <2>1. CASE b = a
    <3>1. CASE e \in rows[a]
      <4>1. BeingTold(a) = {}
        BY <1>1 DEF BeingTold
      <4> QED BY <2>1, <3>1, <4>1, <1>9 DEF BusInv, NothingIsSkipped
    <3>2. CASE e \in Elements(events)
      <4>1. CASE notify
        <5>1. e \in Elements(writer'[w].batch)
          BY <3>2, <4>1, <1>2, <1>6, <1>9
        <5> QED BY <2>1, <5>1, <1>9 DEF BeingTold
      <4>2. CASE ~notify
        BY <2>1, <3>2, <4>2, <1>6, WriterFacts
      <4> QED BY <4>1, <4>2
    <3> QED BY <2>1, <3>1, <3>2, <1>9
  <2>2. CASE b # a
    <3>1. e \in told[b] \cup untold[b] \cup BeingTold(b)
      BY <2>2, <1>8 DEF BusInv, NothingIsSkipped
    <3>2. ASSUME e \in BeingTold(b) PROVE e \in BeingTold(b)'
      <4>1. PICK v \in Writers : lock[b] = v /\ e \in Elements(writer[v].batch)
        BY <3>2 DEF BeingTold
      <4>2. v # w
        BY <4>1, <1>9, WriterFacts
      <4>3. lock'[b] = v /\ writer'[v] = writer[v]
        BY <4>1, <4>2, <2>2, <1>7, <1>8
      <4> QED BY <4>1, <4>3 DEF BeingTold
    <3> QED BY <3>1, <3>2, <2>2, <1>8, <1>9
  <2> QED BY <2>1, <2>2
<1>18. CopyHasNoGap'
  <2> SUFFICES ASSUME Persist, NEW b \in Aggregates, \A e \in rows'[b] : e.origin # None
               PROVE  rows'[b] = {} \/ {e.seq : e \in rows'[b]} = 0..latest'[b]
    BY DEF CopyHasNoGap
  <2>1. CASE b = a
    <3>1. rows'[a] = rows[a] \cup Elements(events)
      BY <1>9
    <3>2. PICK e \in Events : Elements(events) = {e} /\ e.seq = last /\ last = latest[a] + 1
      BY <2>1, <3>1 DEF Elements
    <3>3. {d.seq : d \in rows'[a]} = {d.seq : d \in rows[a]} \cup {last}
      BY <3>1, <3>2
    <3>4. {d.seq : d \in rows[a]} = 0..latest[a]
      <4>1. CASE rows[a] = {}
        <5>1. latest[a] = -1
          BY <4>1 DEF BusInv, RowsInRange
        <5>2. 0..latest[a] = {}
          BY <5>1
        <5> QED BY <4>1, <5>2
      <4>2. CASE rows[a] # {}
        BY <2>1, <3>1, <4>2 DEF BusInv, CopyHasNoGap
      <4> QED BY <4>1, <4>2
    <3>5. 0..last = 0..latest[a] \cup {last}
      BY <3>2, WriterFacts
    <3> QED BY <2>1, <3>3, <3>4, <3>5, <1>9
  <2>2. CASE b # a
    BY <2>2, <1>8 DEF BusInv, CopyHasNoGap
  <2> QED BY <2>1, <2>2
<1> QED BY <1>10, <1>11, <1>12, <1>13, <1>14, <1>15, <1>16, <1>17, <1>18 DEF BusInv

LEMMA EventTypes ==
  ASSUME BusInv, NEW a \in Aggregates, NEW seq \in Int, NEW origin \in Origins \cup {None},
         latest[a] < seq, seq <= MaxEvents - epoch[a]
  PROVE  /\ Event(a, seq, origin) \in Events
         /\ Event(a, seq, origin).epoch = epoch[a] /\ Event(a, seq, origin).seq = seq
         /\ Event(a, seq, origin).origin = origin
<1>1. epoch[a] \in 0..MaxRemovals /\ latest[a] \in -1..MaxEvents
  BY WriterFacts
<1>2. seq \in -1..MaxEvents
  BY <1>1
<1> QED BY <1>1, <1>2 DEF Event, Events

LEMMA PublishInv ==
  ASSUME BusInv, NEW w \in Writers, NEW a \in Aggregates, NEW n \in Reserved, Publish(w, a, n)
  PROVE  BusInv'
<1> DEFINE e == Event(a, latest[a] + 1, None)
           last == latest[a] + 1 + n
<1>1. /\ latest[a] \in Int /\ n \in Nat /\ last \in Int /\ latest[a] < last /\ latest[a] + 1 <= last
      /\ epoch[a] \in Int
  <2>1. latest[a] \in -1..MaxEvents /\ epoch[a] \in 0..MaxRemovals
    BY WriterFacts
  <2>2. n \in Nat
    OBVIOUS
  <2> QED BY <2>1, <2>2
<1>2. Stores(w, a, <<e>>, last, FALSE, TRUE)
  BY DEF Publish
<1>3. last <= MaxEvents - epoch[a]
  BY <1>2 DEF Stores
<1>4. e \in Events /\ e.epoch = epoch[a] /\ e.seq = latest[a] + 1 /\ e.origin = None
  BY <1>1, <1>3, EventTypes
<1>5. owner' \in [Aggregates -> Origins \cup {None}]
  BY DEF Publish, BusInv, BusTypeOK
<1> HIDE DEF e, last
<1>6. <<e>> \in Seq(Events) /\ <<e>> # <<>> /\ DOMAIN <<e>> = {1} /\ <<e>>[1] = e
  BY <1>4
<1>7. \A i \in DOMAIN <<e>> :
        <<e>>[i].epoch = epoch[a] /\ latest[a] < <<e>>[i].seq /\ <<e>>[i].seq <= last
  BY <1>1, <1>4, <1>6
<1>8. \A i, j \in DOMAIN <<e>> : i < j => <<e>>[i].seq < <<e>>[j].seq
  BY <1>6
<1>9. \E i \in DOMAIN <<e>> : <<e>>[i].origin = None
  BY <1>4, <1>6
<1> QED BY <1>1, <1>2, <1>5, <1>6, <1>7, <1>8, <1>9, StoresInv

LEMMA PublishAllInv ==
  ASSUME BusInv, NEW w \in Writers, NEW a \in Aggregates, NEW n \in BatchSizes, PublishAll(w, a, n)
  PROVE  BusInv'
<1> DEFINE events == [i \in 1..n |-> Event(a, latest[a] + i, None)]
           last == latest[a] + n
<1>1. /\ latest[a] \in Int /\ n \in Nat \ {0} /\ last \in Int /\ latest[a] < last /\ epoch[a] \in Int
  BY WriterFacts
<1>2. Stores(w, a, events, last, TRUE, TRUE)
  BY DEF PublishAll
<1>3. last <= MaxEvents - epoch[a]
  BY <1>2 DEF Stores
<1>4. \A i \in 1..n : /\ events[i] \in Events /\ events[i].epoch = epoch[a]
                      /\ events[i].seq = latest[a] + i /\ events[i].origin = None
  <2> SUFFICES ASSUME NEW i \in 1..n
               PROVE  /\ Event(a, latest[a] + i, None) \in Events
                      /\ Event(a, latest[a] + i, None).epoch = epoch[a]
                      /\ Event(a, latest[a] + i, None).seq = latest[a] + i
                      /\ Event(a, latest[a] + i, None).origin = None
    OBVIOUS
  <2>1. latest[a] + i \in Int /\ latest[a] < latest[a] + i /\ latest[a] + i <= MaxEvents - epoch[a]
    BY <1>1, <1>3
  <2> QED BY <2>1, EventTypes
<1>5. owner' \in [Aggregates -> Origins \cup {None}]
  BY DEF PublishAll, BusInv, BusTypeOK
<1>6. events \in Seq(Events) /\ DOMAIN events = 1..n /\ 1 \in 1..n
  <2>1. DOMAIN events = 1..n /\ 1 \in 1..n /\ n \in Nat
    BY <1>1
  <2>2. events \in [1..n -> Events]
    BY <1>4
  <2> HIDE DEF events
  <2> QED BY <2>1, <2>2
<1> HIDE DEF events, last
<1>7. \A i \in DOMAIN events :
        events[i].epoch = epoch[a] /\ latest[a] < events[i].seq /\ events[i].seq <= last
  BY <1>1, <1>4, <1>6 DEF last
<1>8. \A i, j \in DOMAIN events : i < j => events[i].seq < events[j].seq
  BY <1>1, <1>4, <1>6
<1>9. \E i \in DOMAIN events : events[i].origin = None
  BY <1>4, <1>6
<1>10. events # <<>>
  BY <1>6
<1> QED BY <1>1, <1>2, <1>5, <1>6, <1>7, <1>8, <1>9, <1>10, StoresInv

LEMMA OwnsTypes ==
  ASSUME BusInv, NEW a \in Aggregates, NEW as \in Origins \cup {None}, Owns(a, as)
  PROVE  owner' \in [Aggregates -> Origins \cup {None}]
<1>1. owner \in [Aggregates -> Origins \cup {None}]
  BY DEF BusInv, BusTypeOK
<1>2. \E o \in Origins \cup {None} : owner' = [owner EXCEPT ![a] = o]
  <2>1. CASE owner[a] = None
    BY <1>1, <2>1 DEF Owns
  <2>2. CASE owner[a] # None
    BY <1>1, <2>2 DEF Owns
  <2> QED BY <2>1, <2>2
<1> QED BY <1>1, <1>2

LEMMA ReplayInv ==
  ASSUME BusInv, NEW w \in Writers, NEW a \in Aggregates, NEW seq \in 0..MaxEvents,
         NEW origin \in Origins, NEW as \in {None, origin}, NEW notify \in BOOLEAN,
         Replay(w, a, seq, origin, as, notify)
  PROVE  BusInv'
<1> DEFINE e == Event(a, seq, origin)
<1>1. latest[a] \in Int /\ seq \in Int /\ seq = latest[a] + 1 /\ latest[a] < seq
  BY WriterFacts DEF Replay
<1>2. Stores(w, a, <<e>>, seq, FALSE, notify) /\ Owns(a, as)
  BY DEF Replay
<1>3. seq <= MaxEvents - epoch[a]
  BY <1>2 DEF Stores
<1>4. e \in Events /\ e.epoch = epoch[a] /\ e.seq = seq
  BY <1>1, <1>3, EventTypes
<1>5. owner' \in [Aggregates -> Origins \cup {None}]
  BY <1>2, OwnsTypes
<1> HIDE DEF e
<1>6. <<e>> \in Seq(Events) /\ <<e>> # <<>> /\ DOMAIN <<e>> = {1} /\ <<e>>[1] = e
  BY <1>4
<1>7. \A i \in DOMAIN <<e>> :
        <<e>>[i].epoch = epoch[a] /\ latest[a] < <<e>>[i].seq /\ <<e>>[i].seq <= seq
  BY <1>1, <1>4, <1>6
<1>8. \A i, j \in DOMAIN <<e>> : i < j => <<e>>[i].seq < <<e>>[j].seq
  BY <1>6
<1>9. Elements(<<e>>) = {e}
  BY <1>6 DEF Elements
<1>10. \E d \in Events : Elements(<<e>>) = {d} /\ d.seq = seq /\ seq = latest[a] + 1
  BY <1>1, <1>4, <1>9
<1>11. \/ \E i \in DOMAIN <<e>> : <<e>>[i].origin = None
       \/ \E d \in Events : Elements(<<e>>) = {d} /\ d.seq = seq /\ seq = latest[a] + 1
  BY <1>10
<1>12. CASE notify = TRUE
  <2>1. Stores(w, a, <<e>>, seq, FALSE, TRUE)
    BY <1>2, <1>12
  <2> QED BY <2>1, <1>1, <1>5, <1>6, <1>7, <1>8, <1>11, StoresInv
<1>13. CASE notify = FALSE
  <2>1. Stores(w, a, <<e>>, seq, FALSE, FALSE)
    BY <1>2, <1>13
  <2> QED BY <2>1, <1>1, <1>5, <1>6, <1>7, <1>8, <1>11, StoresInv
<1> QED BY <1>12, <1>13

(* Who owns an aggregate matters to nothing else. *)
LEMMA OwnerInv ==
  ASSUME BusInv, owner' \in [Aggregates -> Origins \cup {None}],
         UNCHANGED <<latest, rows, lock, writer, reader, epoch, told, untold, given>>
  PROVE  BusInv'
<1>1. BusTypeOK'
  BY DEF BusInv, BusTypeOK
<1>2. (WritersAreBusy /\ RowsInRange /\ ToldIsPast /\ BatchInOrder /\ BatchIsNext)'
  BY DEF BusInv, WritersAreBusy, RowsInRange, ToldIsPast, BatchInOrder, BatchIsNext, Past, Before
<1>3. ReadersAreRight'
  BY DEF BusInv, ReadersAreRight, ReadRight
<1>4. NothingIsSkipped' /\ CopyHasNoGap'
  BY DEF BusInv, NothingIsSkipped, BeingTold, Elements, CopyHasNoGap
<1> QED BY <1>1, <1>2, <1>3, <1>4 DEF BusInv

LEMMA ClaimInv ==
  ASSUME BusInv, NEW a \in Aggregates, NEW origin \in Origins
  PROVE  /\ Claim(a, origin) => BusInv'
         /\ \A seq \in 0..MaxEvents : ReplayKnown(a, seq, origin) => BusInv'
<1>1. ASSUME Claim(a, origin) PROVE BusInv'
  <2>1. owner' \in [Aggregates -> Origins \cup {None}]
    BY <1>1 DEF Claim, BusInv, BusTypeOK
  <2> QED BY <2>1, <1>1, OwnerInv DEF Claim
<1>2. ASSUME NEW seq \in 0..MaxEvents, ReplayKnown(a, seq, origin) PROVE BusInv'
  <2>1. owner' \in [Aggregates -> Origins \cup {None}]
    BY <1>2, OwnsTypes DEF ReplayKnown
  <2> QED BY <2>1, <1>2, OwnerInv DEF ReplayKnown
<1> QED BY <1>1, <1>2

-------------------------------------------------------------------------------
(* A writer that has committed goes on or returns: what it still has to    *)
(* tell shrinks, and what was told grows.                                  *)
LEMMA TellingInv ==
  ASSUME BusInv, NEW w \in Writers, NEW a \in Aggregates, writer[w].agg = a,
         NEW next \in Publishers, writer' = [writer EXCEPT ![w] = next],
         \/ next.agg = a /\ next.phase # "idle" /\ next.batch # <<>> /\ lock' = lock
         \/ next.agg = None /\ next.phase = "idle" /\ next.batch = <<>> /\ lock' = [lock EXCEPT ![a] = None],
         \A i \in DOMAIN next.batch :
           Past(a, next.batch[i]) /\ \A d \in told'[a] : Before(d, next.batch[i]),
         \A i, j \in DOMAIN next.batch : i < j => Before(next.batch[i], next.batch[j]),
         told' \in [Aggregates -> SUBSET Events], untold' \in [Aggregates -> SUBSET Events],
         \A b \in Aggregates : untold[b] \subseteq untold'[b] /\ (b # a => told'[b] = told[b]),
         told[a] \subseteq told'[a], \A d \in told'[a] : Past(a, d),
         Elements(writer[w].batch) \subseteq told'[a] \cup untold'[a] \cup Elements(next.batch),
         reader' \in [Readers -> Streams], ReadersAreRight',
         UNCHANGED given, UNCHANGED tables
  PROVE  BusInv'
<1> USE DEF tables
<1>1. \A v \in Writers : v # w => writer'[v] = writer[v] /\ writer[v].agg # a
  BY WriterFacts
<1>2. writer'[w] = next /\ lock[a] = w /\ lock'[a] = (IF next.agg = a THEN w ELSE None)
      /\ \A b \in Aggregates : b # a => lock'[b] = lock[b]
  BY WriterFacts
<1>3. BusTypeOK'
  <2>1. writer' \in [Writers -> Publishers] /\ lock' \in [Aggregates -> Writers \cup {None}]
    <3>1. writer' \in [Writers -> Publishers]
      BY WriterFacts
    <3>2. CASE lock' = lock
      BY <3>1, <3>2, WriterFacts
    <3>3. CASE lock' = [lock EXCEPT ![a] = None]
      BY <3>1, <3>3, WriterFacts
    <3> QED BY <3>2, <3>3
  <2>2. ASSUME NEW b \in Aggregates, NEW v \in Writers PROVE lock'[b] = v <=> writer'[v].agg = b
    <3>1. lock[b] = v <=> writer[v].agg = b
      BY WriterFacts
    <3>2. CASE b = a
      BY <3>2, <1>1, <1>2
    <3>3. CASE b # a
      BY <3>1, <3>3, <1>1, <1>2
    <3> QED BY <3>2, <3>3
  <2> QED BY <2>1, <2>2 DEF BusInv, BusTypeOK, Publishers, Streams
<1>4. WritersAreBusy'
  BY <1>1, <1>2 DEF BusInv, WritersAreBusy
<1>5. RowsInRange' /\ CopyHasNoGap'
  BY DEF BusInv, RowsInRange, CopyHasNoGap
<1>6. ToldIsPast'
  <2> SUFFICES ASSUME NEW b \in Aggregates, NEW d \in told'[b] PROVE Past(b, d)
    BY DEF ToldIsPast, Past
  <2> QED BY DEF BusInv, ToldIsPast
<1>7. BatchInOrder'
  <2> SUFFICES ASSUME NEW v \in Writers, NEW i \in DOMAIN writer'[v].batch,
                      NEW j \in DOMAIN writer'[v].batch, i < j
               PROVE  Before(writer'[v].batch[i], writer'[v].batch[j])
    BY DEF BatchInOrder, Before
  <2>1. CASE v = w
    BY <2>1, <1>2
  <2>2. CASE v # w
    BY <2>2, <1>1 DEF BusInv, BatchInOrder
  <2> QED BY <2>1, <2>2
<1>8. BatchIsNext'
  <2> SUFFICES ASSUME NEW v \in Writers, NEW b \in Aggregates, writer'[v].agg = b,
                      NEW i \in DOMAIN writer'[v].batch
               PROVE  /\ Past(b, writer'[v].batch[i])
                      /\ \A d \in told'[b] : Before(d, writer'[v].batch[i])
    BY DEF BatchIsNext, Before, Past
  <2>1. CASE v = w
    BY <2>1, <1>2
  <2>2. CASE v # w
    <3>1. writer'[v] = writer[v] /\ b # a
      BY <1>1, <2>2
    <3>2. told'[b] = told[b]
      BY <3>1
    <3> QED BY <3>1, <3>2 DEF BusInv, BatchIsNext
  <2> QED BY <2>1, <2>2
<1>9. NothingIsSkipped'
  <2> SUFFICES ASSUME NEW b \in Aggregates, NEW e \in rows[b]
               PROVE  e \in told'[b] \cup untold'[b] \cup BeingTold(b)'
    BY DEF NothingIsSkipped
  <2>1. e \in told[b] \cup untold[b] \cup BeingTold(b)
    BY DEF BusInv, NothingIsSkipped
  <2>2. told[b] \subseteq told'[b] /\ untold[b] \subseteq untold'[b]
    OBVIOUS
  <2>3. ASSUME e \in BeingTold(b) PROVE e \in told'[b] \cup untold'[b] \cup BeingTold(b)'
    <3>1. PICK v \in Writers : lock[b] = v /\ e \in Elements(writer[v].batch)
      BY <2>3 DEF BeingTold
    <3>2. CASE v # w
      <4>1. lock'[b] = v /\ writer'[v] = writer[v]
        BY <3>1, <3>2, <1>1, <1>2
      <4> QED BY <3>1, <4>1 DEF BeingTold
    <3>3. CASE v = w
      <4>1. b = a
        BY <3>1, <3>3, WriterFacts
      <4>2. CASE e \in Elements(next.batch)
        <5>1. next.agg = a
          BY <4>2 DEF Elements
        <5>2. lock'[b] = w /\ e \in Elements(writer'[w].batch)
          BY <4>1, <4>2, <5>1, <1>2
        <5> QED BY <5>2 DEF BeingTold
      <4> QED BY <3>1, <3>3, <4>1, <4>2
    <3> QED BY <3>2, <3>3
  <2> QED BY <2>1, <2>2, <2>3
<1> QED BY <1>3, <1>4, <1>5, <1>6, <1>7, <1>8, <1>9 DEF BusInv

LEMMA IdleTypes == Idle \in Publishers /\ Idle.agg = None /\ Idle.batch = <<>>
BY DEF Idle, Publishers, Phases

LEMMA ReturnsUnlocks ==
  ASSUME BusInv, NEW w \in Writers, NEW a \in Aggregates, writer[w].agg = a, Returns(w)
  PROVE  writer' = [writer EXCEPT ![w] = Idle] /\ lock' = [lock EXCEPT ![a] = None]
<1>1. \A b \in Aggregates : lock[b] = w <=> b = a
  BY WriterFacts
<1>2. \A b \in Aggregates : lock'[b] = [lock EXCEPT ![a] = None][b]
  BY <1>1, WriterFacts DEF Returns
<1> QED BY <1>2, WriterFacts DEF Returns

LEMMA BusyFacts ==
  ASSUME BusInv, NEW w \in Writers, writer[w].phase # "idle"
  PROVE  /\ writer[w].agg \in Aggregates
         /\ \A i \in DOMAIN writer[w].batch :
              /\ Past(writer[w].agg, writer[w].batch[i])
              /\ \A d \in told[writer[w].agg] : Before(d, writer[w].batch[i])
         /\ \A i, j \in DOMAIN writer[w].batch :
              i < j => Before(writer[w].batch[i], writer[w].batch[j])
<1>1. writer[w].agg \in Aggregates
  BY WriterFacts DEF BusInv, WritersAreBusy, Publishers
<1> QED BY <1>1 DEF BusInv, BatchIsNext, BatchInOrder

(* A writer that only moves on to the next point. *)
LEMMA GoesInv ==
  ASSUME BusInv, NEW w \in Writers, writer[w].phase # "idle", writer[w].batch # <<>>,
         NEW phase \in {"listeners", "live"}, Goes(w, phase), lock' = lock,
         reader' \in [Readers -> Streams], ReadersAreRight',
         UNCHANGED <<told, untold, given>>, UNCHANGED tables
  PROVE  BusInv'
<1> DEFINE next == [writer[w] EXCEPT !.phase = phase]
           a == writer[w].agg
<1>1. writer[w] \in Publishers /\ a \in Aggregates
  BY WriterFacts, BusyFacts
<1>2. /\ next \in Publishers /\ next.agg = a /\ next.phase # "idle" /\ next.batch = writer[w].batch
      /\ writer' = [writer EXCEPT ![w] = next]
  BY <1>1 DEF Publishers, Phases, Goes
<1> HIDE DEF next
<1>3. /\ \A i \in DOMAIN next.batch :
           Past(a, next.batch[i]) /\ \A d \in told'[a] : Before(d, next.batch[i])
      /\ \A i, j \in DOMAIN next.batch : i < j => Before(next.batch[i], next.batch[j])
  BY <1>2, BusyFacts
<1>4. /\ told' \in [Aggregates -> SUBSET Events] /\ untold' \in [Aggregates -> SUBSET Events]
      /\ \A b \in Aggregates : untold[b] \subseteq untold'[b] /\ (b # a => told'[b] = told[b])
      /\ told[a] \subseteq told'[a]
  BY WriterFacts
<1>5. \A d \in told'[a] : Past(a, d)
  BY <1>1 DEF BusInv, ToldIsPast
<1>6. Elements(writer[w].batch) \subseteq told'[a] \cup untold'[a] \cup Elements(next.batch)
  BY <1>2
<1>7. writer[w].agg = a /\ UNCHANGED given
  OBVIOUS
<1> HIDE DEF a
<1> QED BY <1>1, <1>2, <1>3, <1>4, <1>5, <1>6, <1>7, TellingInv

(* A writer that returns with everything told, or excused. *)
LEMMA ReturnsInv ==
  ASSUME BusInv, NEW w \in Writers, writer[w].phase # "idle", Returns(w),
         told' \in [Aggregates -> SUBSET Events], untold' \in [Aggregates -> SUBSET Events],
         \A b \in Aggregates : untold[b] \subseteq untold'[b] /\ (b # writer[w].agg => told'[b] = told[b]),
         told[writer[w].agg] \subseteq told'[writer[w].agg],
         \A d \in told'[writer[w].agg] : Past(writer[w].agg, d),
         Elements(writer[w].batch) \subseteq told'[writer[w].agg] \cup untold'[writer[w].agg],
         reader' \in [Readers -> Streams], ReadersAreRight',
         UNCHANGED given, UNCHANGED tables
  PROVE  BusInv'
<1>1. writer[w].agg \in Aggregates
  BY BusyFacts
<1>2. writer' = [writer EXCEPT ![w] = Idle] /\ lock' = [lock EXCEPT ![writer[w].agg] = None]
  BY <1>1, ReturnsUnlocks
<1>3. Idle \in Publishers /\ Idle.agg = None /\ Idle.batch = <<>> /\ Idle.phase = "idle"
  BY IdleTypes DEF Idle
<1>4. /\ \A i \in DOMAIN Idle.batch :
           /\ Past(writer[w].agg, Idle.batch[i])
           /\ \A d \in told'[writer[w].agg] : Before(d, Idle.batch[i])
      /\ \A i, j \in DOMAIN Idle.batch : i < j => Before(Idle.batch[i], Idle.batch[j])
  BY <1>3
<1>5. Elements(writer[w].batch)
        \subseteq told'[writer[w].agg] \cup untold'[writer[w].agg] \cup Elements(Idle.batch)
  OBVIOUS
<1> QED BY <1>1, <1>2, <1>3, <1>4, <1>5, TellingInv

LEMMA WakeInv == ASSUME BusInv, NEW w \in Writers, Wake(w) PROVE BusInv'
<1>1. /\ reader' \in [Readers -> Streams]
      /\ \A r \in Readers : /\ reader'[r].agg = reader[r].agg /\ reader'[r].epoch = reader[r].epoch
                            /\ reader'[r].sequence = reader[r].sequence
                            /\ reader'[r].through = reader[r].through /\ reader'[r].phase = reader[r].phase
  <2> DEFINE woken(r) == reader[r].woken
                         \/ (reader[r].follow /\ reader[r].phase # "closed" /\ reader[r].agg = writer[w].agg)
             stream(r) == [reader[r] EXCEPT !.woken = woken(r)]
  <2>1. reader' = [r \in Readers |-> stream(r)]
    BY DEF Wake
  <2>2. ASSUME NEW r \in Readers
        PROVE  /\ stream(r) \in Streams
               /\ stream(r).agg = reader[r].agg /\ stream(r).epoch = reader[r].epoch
               /\ stream(r).sequence = reader[r].sequence
               /\ stream(r).through = reader[r].through /\ stream(r).phase = reader[r].phase
    <3>1. reader[r] \in Streams
      BY WriterFacts
    <3>2. woken(r) \in BOOLEAN
      BY <3>1 DEF Streams
    <3> HIDE DEF woken
    <3> QED BY <3>1, <3>2 DEF Streams
  <2> HIDE DEF stream
  <2> QED BY <2>1, <2>2
<1>2. ReadersAreRight'
  <2> SUFFICES ASSUME NEW r \in Readers PROVE ReadRight(reader[r], given[r])'
    BY DEF ReadersAreRight
  <2> QED BY <1>1 DEF Wake, tables, BusInv, ReadersAreRight, ReadRight
<1>3. writer[w].phase = "committed" /\ UNCHANGED <<told, untold, given>> /\ UNCHANGED tables
  BY DEF Wake
<1>4. CASE writer[w].batch = <<>>
  <2>1. Returns(w)
    BY <1>4 DEF Wake
  <2>2. Elements(writer[w].batch) = {}
    BY <1>4 DEF Elements
  <2>3. writer[w].agg \in Aggregates
    BY <1>3, BusyFacts
  <2>4. \A d \in told'[writer[w].agg] : Past(writer[w].agg, d)
    BY <1>3, <2>3 DEF BusInv, ToldIsPast
  <2>5. told' \in [Aggregates -> SUBSET Events] /\ untold' \in [Aggregates -> SUBSET Events]
    BY <1>3, WriterFacts
  <2> QED BY <1>1, <1>2, <1>3, <2>1, <2>2, <2>4, <2>5, ReturnsInv
<1>5. CASE writer[w].batch # <<>>
  BY <1>1, <1>2, <1>3, <1>5, GoesInv DEF Wake
<1> QED BY <1>4, <1>5

LEMMA ListenInv == ASSUME BusInv, NEW w \in Writers, Listen(w) PROVE BusInv'
<1>1. writer[w].phase = "listeners" /\ writer[w].batch # <<>>
  BY DEF Listen, BusInv, WritersAreBusy
<1>2. reader' \in [Readers -> Streams] /\ ReadersAreRight'
  <2>1. ReadersAreRight'
    BY DEF Listen, tables, BusInv, ReadersAreRight, ReadRight
  <2> QED BY <2>1, WriterFacts DEF Listen
<1> QED BY <1>1, <1>2, GoesInv DEF Listen

LEMMA TellInv == ASSUME BusInv, NEW w \in Writers, Tell(w) PROVE BusInv'
<1> DEFINE a == writer[w].agg
           batch == writer[w].batch
           rest == Tail(batch)
           e == Head(batch)
<1>1. /\ writer[w].phase = "live" /\ batch # <<>> /\ batch \in Seq(Events) /\ a \in Aggregates
      /\ told' = [told EXCEPT ![a] = @ \cup {e}]
      /\ UNCHANGED <<reader, untold, given>> /\ UNCHANGED tables
  BY WriterFacts, BusyFacts DEF Tell, BusInv, WritersAreBusy
<1>2. /\ e \in Events /\ rest \in Seq(Events) /\ e = batch[1] /\ 1 \in DOMAIN batch
      /\ \A i \in DOMAIN rest : i + 1 \in DOMAIN batch /\ rest[i] = batch[i + 1] /\ 1 < i + 1
      /\ \A i \in DOMAIN batch : i # 1 => i - 1 \in DOMAIN rest /\ rest[i - 1] = batch[i]
  BY <1>1
<1>3. reader' \in [Readers -> Streams] /\ ReadersAreRight'
  <2>1. ReadersAreRight'
    BY <1>1 DEF tables, BusInv, ReadersAreRight, ReadRight
  <2> QED BY <2>1, <1>1, WriterFacts
<1>4. /\ \A i \in DOMAIN batch : Past(a, batch[i]) /\ \A d \in told[a] : Before(d, batch[i])
      /\ \A i, j \in DOMAIN batch : i < j => Before(batch[i], batch[j])
  BY <1>1, BusyFacts
<1>5. /\ told' \in [Aggregates -> SUBSET Events] /\ untold' \in [Aggregates -> SUBSET Events]
      /\ \A b \in Aggregates : untold[b] \subseteq untold'[b] /\ (b # a => told'[b] = told[b])
      /\ told'[a] = told[a] \cup {e}
  BY <1>1, <1>2, WriterFacts
<1>6. \A d \in told'[a] : Past(a, d)
  BY <1>1, <1>2, <1>4, <1>5 DEF BusInv, ToldIsPast
<1>7. Elements(batch) \subseteq {e} \cup Elements(rest)
  <2> SUFFICES ASSUME NEW i \in DOMAIN batch PROVE batch[i] = e \/ batch[i] \in Elements(rest)
    BY DEF Elements
  <2> HIDE DEF batch, rest, e
  <2>1. CASE i = 1
    BY <2>1, <1>2
  <2>2. CASE i # 1
    <3>1. i - 1 \in DOMAIN rest /\ rest[i - 1] = batch[i]
      BY <2>2, <1>2
    <3> QED BY <3>1 DEF Elements
  <2> QED BY <2>1, <2>2
<1>8. CASE rest = <<>>
  <2>1. Returns(w)
    BY <1>8 DEF Tell
  <2>2. Elements(batch) \subseteq told'[a] \cup untold'[a]
    BY <1>5, <1>7, <1>8 DEF Elements
  <2> QED BY <1>1, <1>3, <1>5, <1>6, <2>1, <2>2, ReturnsInv
<1>9. CASE rest # <<>>
  <2> DEFINE half == [writer[w] EXCEPT !.phase = "listeners"]
             next == [half EXCEPT !.batch = rest]
  <2>1. writer[w] \in Publishers
    BY WriterFacts
  <2>2. half \in Publishers /\ half.agg = a /\ half.phase = "listeners"
    BY <2>1 DEF Publishers, Phases
  <2>3. writer' = [writer EXCEPT ![w] = next] /\ lock' = lock
    BY <1>9 DEF Tell
  <2> HIDE DEF half
  <2>4. next \in Publishers /\ next.agg = a /\ next.phase = "listeners" /\ next.batch = rest
    BY <2>2, <1>2 DEF Publishers
  <2> HIDE DEF next
  <2>5. /\ \A i \in DOMAIN rest : Past(a, rest[i]) /\ \A d \in told'[a] : Before(d, rest[i])
        /\ \A i, j \in DOMAIN rest : i < j => Before(rest[i], rest[j])
    <3>1. ASSUME NEW i \in DOMAIN rest
          PROVE  Past(a, rest[i]) /\ \A d \in told'[a] : Before(d, rest[i])
      <4>1. i + 1 \in DOMAIN batch /\ rest[i] = batch[i + 1] /\ 1 < i + 1
        BY <1>2
      <4> HIDE DEF rest, batch
      <4> QED BY <4>1, <1>2, <1>4, <1>5
    <3>2. ASSUME NEW i \in DOMAIN rest, NEW j \in DOMAIN rest, i < j PROVE Before(rest[i], rest[j])
      <4>1. i \in Int /\ j \in Int
        BY <1>2
      <4>2. i + 1 \in DOMAIN batch /\ rest[i] = batch[i + 1]
            /\ j + 1 \in DOMAIN batch /\ rest[j] = batch[j + 1] /\ i + 1 < j + 1
        BY <4>1, <3>2, <1>2
      <4> HIDE DEF rest, batch
      <4> QED BY <4>2, <1>4
    <3> QED BY <3>1, <3>2
  <2>6. Elements(batch) \subseteq told'[a] \cup untold'[a] \cup Elements(next.batch)
    BY <1>5, <1>7, <2>4
  <2> HIDE DEF rest
  <2> QED BY <1>1, <1>3, <1>5, <1>6, <1>9, <2>3, <2>4, <2>5, <2>6, TellingInv
<1> QED BY <1>8, <1>9

LEMMA InterruptInv ==
  ASSUME BusInv, NEW w \in Writers, Interrupt(w) \/ ListenerInterrupts(w)
  PROVE  BusInv'
<1> DEFINE a == writer[w].agg
<1>1. /\ writer[w].phase # "idle" /\ a \in Aggregates /\ Returns(w)
      /\ untold' = [untold EXCEPT ![a] = @ \cup Elements(writer[w].batch)]
      /\ UNCHANGED <<reader, told, given>> /\ UNCHANGED tables
  BY BusyFacts DEF Interrupt, ListenerInterrupts, Excused
<1>2. Elements(writer[w].batch) \subseteq Events
  BY WriterFacts DEF Elements
<1>3. /\ told' \in [Aggregates -> SUBSET Events] /\ untold' \in [Aggregates -> SUBSET Events]
      /\ \A b \in Aggregates : untold[b] \subseteq untold'[b] /\ (b # a => told'[b] = told[b])
      /\ told[a] \subseteq told'[a] /\ Elements(writer[w].batch) \subseteq told'[a] \cup untold'[a]
  BY <1>1, <1>2, WriterFacts
<1>4. \A d \in told'[a] : Past(a, d)
  BY <1>1 DEF BusInv, ToldIsPast
<1>5. reader' \in [Readers -> Streams] /\ ReadersAreRight'
  <2>1. ReadersAreRight'
    BY <1>1 DEF tables, BusInv, ReadersAreRight, ReadRight
  <2> QED BY <2>1, <1>1, WriterFacts
<1> QED BY <1>1, <1>3, <1>4, <1>5, ReturnsInv

LEMMA RemoveInv == ASSUME BusInv, NEW a \in Aggregates, Remove(a) PROVE BusInv'
<1>1. /\ latest' = [latest EXCEPT ![a] = -1] /\ owner' = [owner EXCEPT ![a] = None]
      /\ rows' = [rows EXCEPT ![a] = {}] /\ epoch' = [epoch EXCEPT ![a] = @ + 1]
      /\ told' = [told EXCEPT ![a] = {}] /\ untold' = [untold EXCEPT ![a] = {}]
      /\ given' = [r \in Readers |-> IF reader[r].agg = a THEN {} ELSE given[r]]
      /\ UNCHANGED <<lock, writer, reader>> /\ epoch[a] < MaxRemovals
  BY DEF Remove
<1>2. /\ latest'[a] = -1 /\ rows'[a] = {} /\ told'[a] = {} /\ untold'[a] = {}
      /\ epoch'[a] = epoch[a] + 1 /\ epoch[a] \in Nat
      /\ \A b \in Aggregates : b # a => /\ latest'[b] = latest[b] /\ rows'[b] = rows[b]
                                        /\ told'[b] = told[b] /\ untold'[b] = untold[b]
                                        /\ epoch'[b] = epoch[b]
  BY <1>1, WriterFacts
<1>3. BusTypeOK'
  <2>1. epoch[a] + 1 \in 0..MaxRemovals
    BY <1>1, WriterFacts
  <2>2. epoch' \in [Aggregates -> 0..MaxRemovals]
    BY <2>1, <1>1, WriterFacts
  <2>3. latest' \in [Aggregates -> -1..MaxEvents] /\ owner' \in [Aggregates -> Origins \cup {None}]
    BY <1>1 DEF BusInv, BusTypeOK
  <2>4. /\ rows' \in [Aggregates -> SUBSET Events] /\ told' \in [Aggregates -> SUBSET Events]
        /\ untold' \in [Aggregates -> SUBSET Events] /\ given' \in [Readers -> SUBSET Events]
    BY <1>1, WriterFacts
  <2> QED BY <1>1, <2>2, <2>3, <2>4 DEF BusInv, BusTypeOK
<1>4. WritersAreBusy' /\ BatchInOrder'
  BY <1>1 DEF BusInv, WritersAreBusy, BatchInOrder, Before
<1>5. RowsInRange' /\ CopyHasNoGap'
  BY <1>2 DEF BusInv, RowsInRange, CopyHasNoGap
<1>6. ReadersAreRight'
  <2> SUFFICES ASSUME NEW r \in Readers PROVE ReadRight(reader[r], given[r])'
    BY DEF ReadersAreRight
  <2>1. ReadRight(reader[r], given[r]) /\ reader[r] \in Streams
    BY WriterFacts DEF BusInv, ReadersAreRight
  <2>2. reader[r].agg \in Aggregates /\ reader[r].epoch \in Int
    BY <2>1 DEF Streams
  <2>3. CASE reader[r].agg = a
    BY <2>1, <2>2, <2>3, <1>1, <1>2 DEF ReadRight
  <2>4. CASE reader[r].agg # a
    <3>1. reader'[r] = reader[r] /\ given'[r] = given[r]
      BY <2>4, <1>1
    <3> QED BY <2>1, <2>2, <2>4, <3>1, <1>2 DEF ReadRight
  <2> QED BY <2>3, <2>4
<1>7. ToldIsPast'
  BY <1>2 DEF BusInv, ToldIsPast, Past
<1>8. BatchIsNext'
  <2> SUFFICES ASSUME NEW w \in Writers, NEW b \in Aggregates, writer[w].agg = b,
                      NEW i \in DOMAIN writer[w].batch
               PROVE  /\ Past(b, writer[w].batch[i])'
                      /\ \A d \in told'[b] : Before(d, writer[w].batch[i])
    BY <1>1 DEF BatchIsNext, Before
  <2>1. Past(b, writer[w].batch[i]) /\ \A d \in told[b] : Before(d, writer[w].batch[i])
    BY DEF BusInv, BatchIsNext
  <2>2. CASE b # a
    BY <2>1, <2>2, <1>1, <1>2 DEF Past
  <2>3. CASE b = a
    <3>1. writer[w].batch[i] \in Events
      BY WriterFacts
    <3>2. writer[w].batch[i].epoch \in Int
      BY <3>1, WriterFacts
    <3>3. writer[w].batch[i].epoch < epoch'[a]
      BY <2>1, <2>3, <3>2, <1>2 DEF Past
    <3> QED BY <2>3, <3>3, <1>1, <1>2 DEF Past
  <2> QED BY <2>2, <2>3
<1>9. NothingIsSkipped'
  BY <1>1, <1>2 DEF BusInv, NothingIsSkipped, BeingTold
<1> QED BY <1>3, <1>4, <1>5, <1>6, <1>7, <1>8, <1>9 DEF BusInv

-------------------------------------------------------------------------------
LEMMA StutterInv == ASSUME BusInv, UNCHANGED busVars PROVE BusInv'
<1>1. owner' \in [Aggregates -> Origins \cup {None}]
  BY DEF busVars, BusInv, BusTypeOK
<1> QED BY <1>1, OwnerInv DEF busVars

LEMMA BusStepInv == ASSUME BusInv, [BusNext]_busVars PROVE BusInv'
<1>1. ASSUME NEW w \in Writers, WriterStep(w) PROVE BusInv'
  BY <1>1, WakeInv, ListenInv, TellInv DEF WriterStep
<1>2. ASSUME NEW w \in Writers, NEW a \in Aggregates, Commit(w, a) PROVE BusInv'
  <2>1. ASSUME NEW n \in Reserved, Publish(w, a, n) PROVE BusInv'
    BY <2>1, PublishInv
  <2>2. ASSUME NEW n \in BatchSizes, PublishAll(w, a, n) PROVE BusInv'
    BY <2>2, PublishAllInv
  <2>3. ASSUME NEW seq \in 0..MaxEvents, NEW origin \in Origins, NEW notify \in BOOLEAN,
               NEW as \in {None, origin}, Replay(w, a, seq, origin, as, notify)
        PROVE  BusInv'
    <3>1. CASE notify = TRUE
      <4>1. Replay(w, a, seq, origin, as, TRUE)
        BY <2>3, <3>1
      <4> QED BY <4>1, ReplayInv
    <3>2. CASE notify = FALSE
      <4>1. Replay(w, a, seq, origin, as, FALSE)
        BY <2>3, <3>2
      <4> QED BY <4>1, ReplayInv
    <3> QED BY <3>1, <3>2
  <2> QED BY <1>2, <2>1, <2>2, <2>3 DEF Commit
<1>3. ASSUME NEW a \in Aggregates, NEW origin \in Origins,
             Claim(a, origin) \/ \E seq \in 0..MaxEvents : ReplayKnown(a, seq, origin)
      PROVE  BusInv'
  BY <1>3, ClaimInv
<1>4. ASSUME NEW r \in Readers, ReaderStep(r) \/ Close(r) PROVE BusInv'
  BY <1>4, TargetInv, ReadPageInv, ReadEndsInv, TakeWakeInv, CheckLatestInv, CloseInv DEF ReaderStep
<1>5. ASSUME NEW r \in Readers, NEW follow \in BOOLEAN,
             Reopen(r, follow) \/ \E a \in Aggregates : Open(r, a, follow)
      PROVE  BusInv'
  <2>1. reader[r].agg \in Aggregates
    BY StreamFacts
  <2> QED BY <1>5, <2>1, OpenAtInv
<1> QED BY <1>1, <1>2, <1>3, <1>4, <1>5, InterruptInv, RemoveInv, StutterInv DEF BusNext

(* Every state the bus reaches satisfies the invariant. *)
THEOREM BusInvariant == BusSpec => []BusInv
<1>1. BusInit => BusInv
  BY BusInitInv
<1>2. BusInv /\ [BusNext]_busVars => BusInv'
  BY BusStepInv
<1> QED BY <1>1, <1>2, PTL DEF BusSpec

(* The tables, locks, writers and streams of the bus keep their types, and *)
(* a lock is held by exactly the fiber that has committed under it.        *)
THEOREM BusTypes == BusSpec => []BusTypeOK
<1>1. BusInv => BusTypeOK
  BY DEF BusInv
<1> QED BY <1>1, BusInvariant, PTL

(* The log read by a stream is in order and without gaps, across pages,    *)
(* wakes, reconnections and however many fibers publish (bus.ts:161).      *)
THEOREM ReadersMissNothing == BusSpec => []LogIsComplete
<1>1. BusInv => LogIsComplete
  <2> SUFFICES ASSUME BusInv, NEW r \in Readers, SameLog(r)
               PROVE  /\ given[r] = {e \in rows[reader[r].agg] : e.seq <= reader[r].sequence}
                      /\ reader[r].phase \in {"synced", "live", "woken"} => Unread(r) = {}
    BY DEF LogIsComplete
  <2>1. ReadRight(reader[r], given[r])
    BY DEF BusInv, ReadersAreRight
  <2> QED BY <2>1 DEF ReadRight, SameLog, Unread
<1> QED BY <1>1, BusInvariant, PTL

(* Whatever is in the log is told, about to be told by the holder of the   *)
(* lock, or excused by one of three things: a silent replay, the           *)
(* interruption of the publisher of a single event, or a listener that     *)
(* interrupts (bus.ts:489), which takes the rest of a batch with it.       *)
THEOREM CommittedIsTold == BusSpec => []NothingIsSkipped
<1>1. BusInv => NothingIsSkipped
  BY DEF BusInv
<1> QED BY <1>1, BusInvariant, PTL

(* A log that only replays wrote has no gap (bus.ts:373).                  *)
THEOREM CopiesAreBeginnings == BusSpec => []CopyHasNoGap
<1>1. BusInv => CopyHasNoGap
  BY DEF BusInv
<1> QED BY <1>1, BusInvariant, PTL

(* Of all steps only Tell adds to what was told, and what it adds comes    *)
(* after everything told before.                                           *)
LEMMA OnlyTellTells ==
  ASSUME BusInv, [BusNext]_busVars, NEW a \in Aggregates, NEW e \in told'[a] \ told[a], NEW d \in told[a]
  PROVE  Before(d, e)
<1>1. ASSUME told' = told PROVE FALSE
  BY <1>1
<1>2. ASSUME NEW w \in Writers, Tell(w) PROVE Before(d, e)
  <2>1. /\ writer[w].phase = "live" /\ writer[w].batch # <<>> /\ writer[w].batch \in Seq(Events)
        /\ told' = [told EXCEPT ![writer[w].agg] = @ \cup {Head(writer[w].batch)}]
    BY <1>2, WriterFacts DEF Tell, BusInv, WritersAreBusy
  <2>2. writer[w].agg = a /\ e = Head(writer[w].batch)
    BY <2>1, WriterFacts
  <2>3. 1 \in DOMAIN writer[w].batch /\ Head(writer[w].batch) = writer[w].batch[1]
    BY <2>1
  <2> QED BY <2>1, <2>2, <2>3 DEF BusInv, BatchIsNext
<1>3. ASSUME NEW b \in Aggregates, Remove(b) PROVE FALSE
  BY <1>3, WriterFacts DEF Remove
<1>4. ASSUME NEW w \in Writers, NEW b \in Aggregates, Commit(w, b) PROVE told' = told
  BY <1>4 DEF Commit, Publish, PublishAll, Replay, Stores
<1>5. ASSUME NEW w \in Writers, Wake(w) \/ Listen(w) \/ Interrupt(w) \/ ListenerInterrupts(w)
      PROVE  told' = told
  BY <1>5 DEF Wake, Listen, Interrupt, ListenerInterrupts
<1>6. ASSUME NEW r \in Readers, ReaderStep(r) \/ Close(r) PROVE told' = told
  BY <1>6 DEF ReaderStep, Target, ReadPage, ReadEnds, TakeWake, CheckLatest, Close
<1>7. ASSUME NEW r \in Readers, NEW follow \in BOOLEAN,
             Reopen(r, follow) \/ \E b \in Aggregates : Open(r, b, follow)
      PROVE  told' = told
  BY <1>7 DEF Reopen, Open, OpenAt
<1>8. ASSUME NEW b \in Aggregates, NEW origin \in Origins,
             Claim(b, origin) \/ \E seq \in 0..MaxEvents : ReplayKnown(b, seq, origin)
      PROVE  told' = told
  BY <1>8 DEF Claim, ReplayKnown
<1>9. ASSUME UNCHANGED busVars PROVE told' = told
  BY <1>9 DEF busVars
<1> QED BY <1>1, <1>2, <1>3, <1>4, <1>5, <1>6, <1>7, <1>8, <1>9 DEF BusNext, WriterStep

(* The live channel carries the durable events of an aggregate in the      *)
(* order of the log, however many fibers publish it (bus.ts:134).          *)
THEOREM ChannelIsOrdered == BusSpec => ToldInOrder
<1>1. BusInv /\ [BusNext]_busVars =>
        [\A a \in Aggregates : \A e \in told'[a] \ told[a], d \in told[a] : Before(d, e)]_busVars
  BY OnlyTellTells
<1> QED BY <1>1, BusInvariant, PTL DEF BusSpec, ToldInOrder
-------------------------------------------------------------------------------
(* Wakes.  Between a reader's look at the log and its wait for the next    *)
(* wake anybody may commit.                                                *)

(* A commit whose readers are yet to be woken. *)
WakeComing(a) == \E w \in Writers : writer[w].phase = "committed" /\ writer[w].agg = a

(* No wake is lost: a reader that follows and waits, though the log has    *)
(* more for it, has been woken or is about to be.                          *)
NoWakeIsLost ==
  \A r \in Readers : Behind(r) /\ reader[r].phase = "live" =>
    reader[r].woken \/ WakeComing(reader[r].agg)

(* What a stream has yet to look at will wake it. *)
Alert(stream) ==
  stream.follow /\ stream.epoch = epoch[stream.agg] =>
    \/ stream.woken \/ WakeComing(stream.agg)
    \/ stream.phase \in {"closed", "opened", "woken"}
    \/ \A e \in rows[stream.agg] :
         e.seq <= IF stream.phase = "live" THEN stream.sequence ELSE stream.through
ReadersAreAlert == \A r \in Readers : Alert(reader[r])

(* A step of one stream. *)
LEMMA StreamAlert ==
  ASSUME BusInv, ReadersAreAlert, NEW r \in Readers, NEW stream,
         reader' = [reader EXCEPT ![r] = stream], UNCHANGED <<writer, epoch, rows>>,
         Alert(stream)
  PROVE  ReadersAreAlert'
<1> SUFFICES ASSUME NEW q \in Readers PROVE Alert(reader[q])'
  BY DEF ReadersAreAlert
<1>1. reader'[q] = IF q = r THEN stream ELSE reader[q]
  BY StreamFacts
<1>2. Alert(reader'[q])
  BY <1>1 DEF ReadersAreAlert
<1> QED BY <1>2 DEF Alert, WakeComing

LEMMA ReaderStepAlert ==
  ASSUME BusInv, ReadersAreAlert, NEW r \in Readers,
         \/ ReaderStep(r) \/ Close(r)
         \/ \E follow \in BOOLEAN : Reopen(r, follow) \/ \E a \in Aggregates : Open(r, a, follow)
  PROVE  ReadersAreAlert'
<1> DEFINE s == reader[r]
<1>1. /\ s \in Streams /\ s.agg \in Aggregates /\ Alert(s)
      /\ s.sequence \in Int /\ s.through \in Int /\ latest[s.agg] \in -1..MaxEvents
      /\ \A e \in rows[s.agg] : e.seq <= latest[s.agg] /\ e.seq \in Int
  BY StreamFacts DEF ReadersAreAlert, Streams
<1>2. CASE Target(r)
  <2> DEFINE next == [s EXCEPT !.phase = "replaying", !.through = latest[s.agg]]
  <2>1. next.agg = s.agg /\ next.phase = "replaying" /\ next.through = latest[s.agg]
    BY <1>1 DEF Streams, Readings
  <2>2. reader' = [reader EXCEPT ![r] = next] /\ UNCHANGED <<writer, epoch, rows>>
    BY <1>2 DEF Target, tables
  <2> HIDE DEF next
  <2>3. Alert(next)
    BY <1>1, <2>1 DEF Alert
  <2> HIDE DEF s
  <2> QED BY <2>1, <2>2, <2>3, StreamAlert
<1>3. CASE ReadPage(r)
  <2>1. PICK last \in Unread(r) : reader' = [reader EXCEPT ![r].sequence = last.seq]
    BY <1>3 DEF ReadPage
  <2> DEFINE next == [s EXCEPT !.sequence = last.seq]
  <2>2. last.seq \in -1..MaxEvents
    BY <1>1, <2>1, StreamFacts DEF Unread, Events
  <2>3. /\ next.agg = s.agg /\ next.phase = s.phase /\ next.through = s.through
        /\ next.follow = s.follow /\ next.epoch = s.epoch /\ next.woken = s.woken
    BY <1>1, <2>2 DEF Streams
  <2>4. s.phase \in {"replaying", "reading"} /\ UNCHANGED <<writer, epoch, rows>>
        /\ reader' = [reader EXCEPT ![r] = next]
    BY <1>3, <2>1 DEF ReadPage, Reads, tables
  <2> HIDE DEF next
  <2>5. Alert(next)
    BY <1>1, <2>3, <2>4 DEF Alert
  <2> HIDE DEF s
  <2> QED BY <2>3, <2>4, <2>5, StreamAlert
<1>4. CASE ReadEnds(r)
  <2> DEFINE pc == IF s.follow THEN "live" ELSE "synced"
             next == [s EXCEPT !.phase = pc]
  <2>1. pc \in Readings /\ (s.follow => pc = "live")
    BY DEF Readings
  <2>2. s.phase \in {"replaying", "reading"} /\ UNCHANGED <<writer, epoch, rows>>
        /\ reader' = [reader EXCEPT ![r] = next] /\ Unread(r) = {}
    BY <1>4 DEF ReadEnds, Follows, Reads, tables
  <2> HIDE DEF pc
  <2>3. /\ next.agg = s.agg /\ next.phase = pc /\ next.sequence = s.sequence
        /\ next.follow = s.follow /\ next.epoch = s.epoch /\ next.woken = s.woken
    BY <1>1, <2>1 DEF Streams
  <2> HIDE DEF next
  <2>4. \A e \in rows[s.agg] : e.seq <= s.through => e.seq <= s.sequence
    BY <1>1, <2>2 DEF Unread
  <2>5. Alert(next)
    BY <1>1, <2>1, <2>2, <2>3, <2>4 DEF Alert
  <2> HIDE DEF s
  <2> QED BY <2>2, <2>3, <2>5, StreamAlert
<1>5. CASE TakeWake(r)
  <2> DEFINE half == [s EXCEPT !.phase = "woken"]
             next == [half EXCEPT !.woken = FALSE]
  <2>1. half \in Streams /\ half.phase = "woken"
    BY <1>1 DEF Streams, Readings
  <2>2. reader' = [reader EXCEPT ![r] = next] /\ UNCHANGED <<writer, epoch, rows>>
    BY <1>5 DEF TakeWake, tables
  <2> HIDE DEF half
  <2>3. next.phase = "woken"
    BY <2>1 DEF Streams
  <2> HIDE DEF next
  <2>4. Alert(next)
    BY <2>3 DEF Alert
  <2> HIDE DEF s
  <2> QED BY <2>2, <2>3, <2>4, StreamAlert
<1>6. CASE CheckLatest(r)
  <2>0. UNCHANGED <<writer, epoch, rows>>
    BY <1>6 DEF CheckLatest, tables
  <2>1. CASE latest[s.agg] > s.sequence
    <3> DEFINE next == [s EXCEPT !.phase = "reading", !.through = latest[s.agg]]
    <3>1. next.agg = s.agg /\ next.phase = "reading" /\ next.through = latest[s.agg]
      BY <1>1 DEF Streams, Readings
    <3>2. reader' = [reader EXCEPT ![r] = next]
      BY <1>6, <2>1 DEF CheckLatest
    <3> HIDE DEF next
    <3>3. Alert(next)
      BY <1>1, <3>1 DEF Alert
    <3> HIDE DEF s
    <3> QED BY <2>0, <3>1, <3>2, <3>3, StreamAlert
  <2>2. CASE ~(latest[s.agg] > s.sequence)
    <3> DEFINE next == [s EXCEPT !.phase = "live"]
    <3>1. next.agg = s.agg /\ next.phase = "live" /\ next.sequence = s.sequence
      BY <1>1 DEF Streams, Readings
    <3>2. reader' = [reader EXCEPT ![r] = next]
      BY <1>6, <2>2 DEF CheckLatest
    <3> HIDE DEF next
    <3>3. Alert(next)
      BY <1>1, <2>2, <3>1 DEF Alert
    <3> HIDE DEF s
    <3> QED BY <2>0, <3>1, <3>2, <3>3, StreamAlert
  <2> QED BY <2>1, <2>2
<1>7. CASE \E follow \in BOOLEAN : Reopen(r, follow) \/ \E a \in Aggregates : Open(r, a, follow)
  <2>1. PICK follow \in BOOLEAN, a \in Aggregates, after \in -1..MaxEvents : OpenAt(r, a, follow, after)
    <3>1. s.sequence \in -1..MaxEvents /\ -1 \in -1..MaxEvents
      BY <1>1 DEF Streams
    <3> QED BY <1>1, <1>7, <3>1 DEF Reopen, Open
  <2> DEFINE next == [NewReader(a) EXCEPT !.follow = follow, !.phase = "opened", !.epoch = epoch[a],
                                          !.sequence = after]
  <2>2. next.phase = "opened"
    BY DEF NewReader
  <2>3. reader' = [reader EXCEPT ![r] = next] /\ UNCHANGED <<writer, epoch, rows>>
    BY <2>1 DEF OpenAt, tables
  <2> HIDE DEF next
  <2>4. Alert(next)
    BY <2>2 DEF Alert
  <2> QED BY <2>2, <2>3, <2>4, StreamAlert
<1>8. CASE Close(r)
  <2> DEFINE next == IF SameLog(r)
                       THEN [NewReader(s.agg) EXCEPT !.sequence = s.sequence, !.epoch = s.epoch]
                       ELSE NewReader(s.agg)
  <2>1. next.phase = "closed"
    BY DEF NewReader
  <2>2. reader' = [reader EXCEPT ![r] = next] /\ UNCHANGED <<writer, epoch, rows>>
    BY <1>8 DEF Close, tables
  <2> HIDE DEF next
  <2>3. Alert(next)
    BY <2>1 DEF Alert
  <2> HIDE DEF s
  <2> QED BY <2>1, <2>2, <2>3, StreamAlert
<1> QED BY <1>2, <1>3, <1>4, <1>5, <1>6, <1>7, <1>8 DEF ReaderStep

(* A step that only changes rows under a wake, or makes a log anew. *)
LEMMA WakesStay ==
  ASSUME BusInv, ReadersAreAlert, reader' = reader,
         \A a \in Aggregates :
           \/ WakeComing(a)'
           \/ rows'[a] = {}
           \/ rows'[a] = rows[a] /\ epoch'[a] = epoch[a] /\ ~WakeComing(a)
  PROVE  ReadersAreAlert'
<1> SUFFICES ASSUME NEW r \in Readers PROVE Alert(reader[r])'
  BY DEF ReadersAreAlert
<1>1. reader[r].agg \in Aggregates /\ Alert(reader[r])
  BY StreamFacts DEF ReadersAreAlert
<1> QED BY <1>1 DEF Alert

(* A writer that was not about to wake anybody. *)
LEMMA WriterAlert ==
  ASSUME BusInv, ReadersAreAlert, NEW w \in Writers, NEW next, writer[w].phase # "committed",
         writer' = [writer EXCEPT ![w] = next], reader' = reader, epoch' = epoch,
         \A a \in Aggregates : rows'[a] = rows[a] \/ (next.phase = "committed" /\ next.agg = a)
  PROVE  ReadersAreAlert'
<1>1. \A v \in Writers : writer'[v] = IF v = w THEN next ELSE writer[v]
  BY WriterFacts
<1>2. ASSUME NEW a \in Aggregates, WakeComing(a) PROVE WakeComing(a)'
  BY <1>1, <1>2 DEF WakeComing
<1>3. ASSUME NEW a \in Aggregates, rows'[a] # rows[a] PROVE WakeComing(a)'
  BY <1>1, <1>3 DEF WakeComing
<1> QED BY <1>2, <1>3, WakesStay

LEMMA StoresAlert ==
  ASSUME BusInv, ReadersAreAlert, NEW w \in Writers, NEW a \in Aggregates, NEW events, NEW last,
         NEW whole, NEW notify, Stores(w, a, events, last, whole, notify)
  PROVE  ReadersAreAlert'
<1> DEFINE next == [agg |-> a, whole |-> whole, phase |-> "committed",
                    batch |-> IF notify THEN events ELSE <<>>]
<1>1. /\ writer[w].phase # "committed" /\ writer' = [writer EXCEPT ![w] = next]
      /\ next.phase = "committed" /\ next.agg = a /\ UNCHANGED <<reader, epoch>>
  BY DEF Stores
<1>2. \A b \in Aggregates : b # a => rows'[b] = rows[b]
  BY WriterFacts DEF Stores
<1> HIDE DEF next
<1> QED BY <1>1, <1>2, WriterAlert

LEMMA WakeAlert ==
  ASSUME BusInv, ReadersAreAlert, NEW w \in Writers, Wake(w)
  PROVE  ReadersAreAlert'
<1>0. writer[w].phase = "committed" /\ writer[w].agg \in Aggregates /\ UNCHANGED tables
  BY BusyFacts DEF Wake
<1>1. \A v \in Writers : v # w => writer'[v] = writer[v]
  BY WriterFacts DEF Wake, Returns, Goes
<1> SUFFICES ASSUME NEW r \in Readers PROVE Alert(reader[r])'
  BY DEF ReadersAreAlert
<1> DEFINE s == reader[r]
           woken == s.woken \/ (s.follow /\ s.phase # "closed" /\ s.agg = writer[w].agg)
           next == [s EXCEPT !.woken = woken]
<1>2. s \in Streams /\ s.agg \in Aggregates /\ Alert(s)
  BY StreamFacts DEF ReadersAreAlert
<1>3. reader'[r] = next
  BY DEF Wake
<1>4. /\ next.agg = s.agg /\ next.follow = s.follow /\ next.epoch = s.epoch /\ next.phase = s.phase
      /\ next.sequence = s.sequence /\ next.through = s.through /\ next.woken = woken
  BY <1>2 DEF Streams
<1>5. s.agg # writer[w].agg /\ WakeComing(s.agg) => WakeComing(s.agg)'
  BY <1>0, <1>1, <1>3, <1>4 DEF WakeComing
<1>6. epoch' = epoch /\ rows' = rows
  BY <1>0 DEF tables
<1> HIDE DEF next
<1>7. CASE s.agg = writer[w].agg
  BY <1>3, <1>4, <1>7 DEF Alert
<1>8. CASE s.agg # writer[w].agg
  <2>1. WakeComing(reader[r].agg)' <=> WakeComing(s.agg)'
    BY <1>3, <1>4
  <2> QED BY <1>2, <1>3, <1>4, <1>5, <1>6, <1>8, <2>1 DEF Alert
<1> QED BY <1>7, <1>8

LEMMA AlertNext ==
  ASSUME BusInv, ReadersAreAlert, [BusNext]_busVars
  PROVE  ReadersAreAlert'
<1>1. ASSUME NEW w \in Writers, Listen(w) \/ Tell(w) \/ Interrupt(w) \/ ListenerInterrupts(w)
      PROVE  ReadersAreAlert'
  <2>1. writer[w].phase \in {"listeners", "live"} /\ UNCHANGED reader /\ UNCHANGED <<epoch, rows>>
    BY <1>1 DEF Listen, Tell, Interrupt, ListenerInterrupts, tables
  <2>2. PICK next : writer' = [writer EXCEPT ![w] = next]
    BY <1>1 DEF Listen, Tell, Interrupt, ListenerInterrupts, Goes, Returns
  <2> QED BY <2>1, <2>2, WriterAlert
<1>2. ASSUME NEW w \in Writers, NEW a \in Aggregates, Commit(w, a) PROVE ReadersAreAlert'
  BY <1>2, StoresAlert DEF Commit, Publish, PublishAll, Replay
<1>3. ASSUME NEW a \in Aggregates, NEW origin \in Origins,
             Claim(a, origin) \/ \E seq \in 0..MaxEvents : ReplayKnown(a, seq, origin)
      PROVE  ReadersAreAlert'
  <2>1. UNCHANGED <<writer, reader, epoch, rows>>
    BY <1>3 DEF Claim, ReplayKnown
  <2> QED BY <2>1 DEF ReadersAreAlert, Alert, WakeComing
<1>4. ASSUME NEW a \in Aggregates, Remove(a) PROVE ReadersAreAlert'
  <2>1. UNCHANGED <<writer, reader>> /\ rows' = [rows EXCEPT ![a] = {}]
        /\ epoch' = [epoch EXCEPT ![a] = @ + 1]
    BY <1>4 DEF Remove
  <2>2. \A b \in Aggregates : IF b = a THEN rows'[b] = {} ELSE rows'[b] = rows[b] /\ epoch'[b] = epoch[b]
    BY <2>1, WriterFacts
  <2>3. \A b \in Aggregates : WakeComing(b)' <=> WakeComing(b)
    BY <2>1 DEF WakeComing
  <2> QED BY <2>1, <2>2, <2>3, WakesStay
<1>5. CASE UNCHANGED busVars
  BY <1>5 DEF busVars, ReadersAreAlert, Alert, WakeComing
<1> QED BY <1>1, <1>2, <1>3, <1>4, <1>5, WakeAlert, ReaderStepAlert DEF BusNext, WriterStep

(* A reader that follows and waits while the log has more for it has been  *)
(* woken, or the fiber that committed is about to wake it, however its     *)
(* registration, its target and its pages meet commits and removals        *)
(* (bus.ts:854): ReadersCatchUp as far as it is a matter of safety.        *)
THEOREM WakesAreKept == BusSpec => []NoWakeIsLost
<1>1. BusInit => ReadersAreAlert
  BY DEF BusInit, ReadersAreAlert, Alert, NewReader
<1>2. BusInv /\ ReadersAreAlert /\ [BusNext]_busVars => ReadersAreAlert'
  BY AlertNext
<1>3. BusInv /\ ReadersAreAlert => NoWakeIsLost
  <2> SUFFICES ASSUME BusInv, ReadersAreAlert, NEW r \in Readers, Behind(r), reader[r].phase = "live"
               PROVE  reader[r].woken \/ WakeComing(reader[r].agg)
    BY DEF NoWakeIsLost
  <2>1. Alert(reader[r]) /\ reader[r] \in Streams
        /\ \A e \in rows[reader[r].agg] : e.seq \in Int
    BY StreamFacts DEF ReadersAreAlert
  <2> QED BY <2>1 DEF Behind, SameLog, Alert, Streams
<1> QED BY <1>1, <1>2, <1>3, BusInvariant, PTL DEF BusSpec
===============================================================================
