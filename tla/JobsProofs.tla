------------------------------- MODULE JobsProofs -------------------------------
(***************************************************************************)
(* Proofs about Jobs, for any number of shells, children, tool calls, jobs *)
(* and deaths of the process.                                              *)
(***************************************************************************)
EXTENDS Jobs, TLAPS

Started(g) == info[g].id \in Ids
JobInfo == [id : Ids \cup {"none"}, status : Statuses, backgrounded : BOOLEAN, note : Notes,
            life : 0..MaxDeaths]
Call == [id : Ids \cup {"none"}, generation : Notes, background : BOOLEAN,
         at : {"idle", "started", "blocking", "released", "cancelling", "done"}]
Observer == [key : Notes, id : Ids, generation : Generations, note : Notes,
             at : {"waiting", "reporting", "reported"}, status : Settled \cup {"none"}]
Walk == [at : {"boot", "working", "taken", "reported", "restarted", "backgrounded"}, note : Notes,
         listed : [Generations -> Settled \cup {"none", "running"}], skipped : SUBSET Generations]

(* A started job has an id and a status; one that runs is the current job  *)
(* of its id, and the current job of an id did not get lost.  Notes are    *)
(* those of started jobs.                                                  *)
Registry ==
  /\ jobs \in [Ids -> Notes] /\ info \in [Generations -> JobInfo]
  /\ \A i \in Ids : jobs[i] # 0 =>
       info[jobs[i]].id = i /\ info[jobs[i]].status \in Settled \cup {"running"}
  /\ \A g \in Generations :
       /\ Started(g) <=> info[g].status # "none"
       /\ ~Started(g) => ~info[g].backgrounded /\ info[g].note = 0
       /\ info[g].status = "running" => jobs[info[g].id] = g
       /\ info[g].note # 0 => Started(info[g].note)

Table ==
  /\ row \in [Generations -> Settled \cup {"none", "running"}]
  /\ outcome \in [Generations -> Settled \cup {"none"}]
  /\ \A n \in Generations : row[n] # "none" => Started(n)

Conversation == told \in [Generations -> Told] /\ NoNoticeIsLost

(* Whoever blocks on a job, or waits to report it, waits for a running one.*)
Unreleased(call) ==
  /\ call.generation \in Generations /\ info[call.generation].status = "running"
  /\ info[call.generation].id = call.id /\ ~info[call.generation].backgrounded
CallsOK ==
  /\ tool \in [Tools -> Call]
  /\ \A t \in Tools : /\ tool[t].at # "idle" => tool[t].id \in Ids
                      /\ tool[t].at = "blocking" => Unreleased(tool[t])

Unsettled(o) == info[o.generation].status = "running" /\ info[o.generation].id = o.id
ObserversOK ==
  /\ observers \subseteq Observer
  /\ \A o \in observers : /\ o.at = "waiting" => Unsettled(o)
                          /\ o.at = "reported" => o.note # 0 /\ told[o.note] # Nothing

SweepOK ==
  /\ sweep \in Walk /\ life \in 0..MaxDeaths /\ crossed \subseteq Generations
  /\ \A n \in Generations : sweep.listed[n] # "none" => Started(n)
  /\ sweep.at \in {"taken", "reported", "restarted", "backgrounded"} =>
       sweep.note \in Generations /\ sweep.listed[sweep.note] # "none"
  /\ sweep.at = "reported" => told[sweep.note] # Nothing

JobsInv == Registry /\ Table /\ Conversation /\ CallsOK /\ ObserversOK /\ SweepOK

USE JobsAssumption DEF Generations, Notes

LEMMA JobsInitInv == Init => JobsInv
<1> SUFFICES ASSUME Init PROVE JobsInv
  OBVIOUS
<1> USE DEF Init
<1>1. "none" \notin Ids
  BY DEF Ids
<1>2. Registry
  <2>1. Unstarted \in JobInfo /\ Unstarted.id = "none" /\ Unstarted.status = "none"
        /\ Unstarted.backgrounded = FALSE /\ Unstarted.note = 0
    BY DEF Unstarted, JobInfo, Statuses
  <2>2. \A g \in Generations : info[g] = Unstarted
    OBVIOUS
  <2>3. \A i \in Ids : jobs[i] = 0
    OBVIOUS
  <2> QED BY <1>1, <2>1, <2>2, <2>3 DEF Registry, Started
<1>3. Table /\ Conversation
  <2>1. Nothing \in Told
    BY DEF Nothing, Told
  <2>2. \A n \in Generations : ~Promised(n)
    BY DEF Promised, Unstarted
  <2> QED BY <2>1, <2>2 DEF Table, Conversation, NoNoticeIsLost
<1>4. CallsOK
  <2>1. Fresh \in Call /\ Fresh.at = "idle"
    BY DEF Fresh, Call
  <2> QED BY <2>1 DEF CallsOK
<1>5. ObserversOK
  BY DEF ObserversOK
<1>6. SweepOK
  <2>1. Boot \in Walk /\ Boot.at = "boot" /\ \A n \in Generations : Boot.listed[n] = "none"
    BY DEF Boot, Walk
  <2> QED BY <2>1 DEF SweepOK
<1> QED BY <1>2, <1>3, <1>4, <1>5, <1>6 DEF JobsInv

-------------------------------------------------------------------------------
(* What steps of one part leave of the others. *)

(* Started jobs stay started. *)
StaysStarted == \A g \in Generations : Started(g) => info'[g].id = info[g].id
(* Jobs that run and are waited for still run, and are not released. *)
StillRuns(g) == info'[g].status = "running" /\ info'[g].id = info[g].id
StillBlocks(g) == StillRuns(g) /\ info'[g].backgrounded = info[g].backgrounded
NoPromise == \A g \in Generations :
  info'[g].backgrounded /\ info'[g].note # 0 => info[g].backgrounded /\ info[g].note = info'[g].note

LEMMA TableStays == ASSUME JobsInv, StaysStarted, UNCHANGED <<row, outcome>> PROVE Table'
BY DEF JobsInv, Table, StaysStarted, Started

LEMMA ConversationStays ==
  ASSUME JobsInv, NoPromise, told' = told,
         \A n \in Generations : row[n] # "none" => row'[n] # "none"
  PROVE  Conversation'
<1> SUFFICES ASSUME NEW n \in Generations, Promised(n)' PROVE told'[n] # Nothing \/ row'[n] # "none"
  BY DEF JobsInv, Conversation, NoNoticeIsLost
<1>1. Promised(n)
  BY DEF Promised, NoPromise
<1> QED BY <1>1 DEF JobsInv, Conversation, NoNoticeIsLost

LEMMA CallsStay ==
  ASSUME JobsInv, tool' = tool,
         \A t \in Tools : tool[t].at = "blocking" => StillBlocks(tool[t].generation)
  PROVE  CallsOK'
BY DEF JobsInv, CallsOK, Unreleased, StillBlocks, StillRuns

LEMMA ObserversStay ==
  ASSUME JobsInv, observers' = observers, told' = told,
         \A o \in observers : o.at = "waiting" => StillRuns(o.generation)
  PROVE  ObserversOK'
BY DEF JobsInv, ObserversOK, Unsettled, StillRuns

LEMMA SweepStays ==
  ASSUME JobsInv, StaysStarted, told' = told, UNCHANGED <<sweep, life, crossed>>
  PROVE  SweepOK'
BY DEF JobsInv, SweepOK, StaysStarted, Started

(* A step that leaves the registry leaves all this. *)
LEMMA NothingStarts ==
  ASSUME JobsInv, info' = info
  PROVE  /\ StaysStarted /\ NoPromise
         /\ \A t \in Tools : tool[t].at = "blocking" => StillBlocks(tool[t].generation)
         /\ \A o \in observers : o.at = "waiting" => StillRuns(o.generation)
BY DEF JobsInv, CallsOK, ObserversOK, Unreleased, Unsettled, StaysStarted, NoPromise, StillBlocks, StillRuns

(* A call that has returned. *)
LEMMA OverIsDone ==
  ASSUME NEW call \in Call
  PROVE  Over(call) \in Call /\ Over(call).id = call.id /\ Over(call).at = "done"
<1>1. 0 \in Notes
  OBVIOUS
<1> QED BY <1>1 DEF Over, Call

-------------------------------------------------------------------------------
(* start: whatever was started stays as it was. *)
LEMMA StartInv ==
  ASSUME JobsInv, NEW i \in Ids, NEW note \in Notes, note # 0 => Started(note), Start(i, note)
  PROVE  /\ Registry'
         /\ \A g \in Generations : Started(g) => info'[g] = info[g]
         /\ StaysStarted /\ NoPromise
         /\ \A g \in Generations : Started(g) => Started(g)'
         /\ \A t \in Tools : tool[t].at = "blocking" => StillBlocks(tool[t].generation)
         /\ \A o \in observers : o.at = "waiting" => StillRuns(o.generation)
<1>1. CASE UNCHANGED <<jobs, info>>
  <2>1. Registry'
    BY <1>1 DEF JobsInv, Registry, Started
  <2> QED BY <1>1, <2>1, NothingStarts DEF Started
<1>2. ASSUME ~Running(i), NEW g \in Generations, info[g].status = "none",
             info' = [info EXCEPT ![g] = [id |-> i, status |-> "running", backgrounded |-> FALSE,
                                          note |-> note, life |-> life]],
             jobs' = [jobs EXCEPT ![i] = g]
      PROVE  /\ Registry'
             /\ \A h \in Generations : Started(h) => info'[h] = info[h]
             /\ NoPromise
  <2> DEFINE new == [id |-> i, status |-> "running", backgrounded |-> FALSE, note |-> note, life |-> life]
  <2>1. new \in JobInfo /\ new.id = i /\ new.status = "running" /\ new.backgrounded = FALSE
        /\ new.note = note
    BY DEF JobInfo, Statuses, JobsInv, SweepOK
  <2>2. info' = [info EXCEPT ![g] = new]
    BY <1>2
  <2> HIDE DEF new
  <2>3. jobs \in [Ids -> Notes] /\ info \in [Generations -> JobInfo] /\ ~Started(g)
    BY <1>2 DEF JobsInv, Registry
  <2>4. info'[g] = new /\ \A h \in Generations : h # g => info'[h] = info[h]
    BY <2>2, <2>3
  <2>5. jobs'[i] = g /\ \A j \in Ids : j # i => jobs'[j] = jobs[j]
    BY <1>2, <2>3
  <2>6. \A h \in Generations : Started(h) => info'[h] = info[h]
    BY <2>3, <2>4
  <2>7. jobs' \in [Ids -> Notes] /\ info' \in [Generations -> JobInfo]
    <3>1. info' \in [Generations -> JobInfo]
      BY <2>1, <2>2, <2>3
    <3>2. jobs' \in [Ids -> Notes]
      BY <1>2, <2>3
    <3> QED BY <3>1, <3>2
  <2>8. \A j \in Ids : jobs'[j] # 0 =>
          info'[jobs'[j]].id = j /\ info'[jobs'[j]].status \in Settled \cup {"running"}
    <3> SUFFICES ASSUME NEW j \in Ids, jobs'[j] # 0
                 PROVE  info'[jobs'[j]].id = j /\ info'[jobs'[j]].status \in Settled \cup {"running"}
      OBVIOUS
    <3>1. CASE j = i
      BY <3>1, <2>1, <2>4, <2>5
    <3>2. CASE j # i
      <4>1. jobs'[j] = jobs[j] /\ jobs[j] \in Generations
        BY <3>2, <2>3, <2>5
      <4>2. info[jobs[j]].id = j /\ info[jobs[j]].status \in Settled \cup {"running"}
        BY <4>1 DEF JobsInv, Registry
      <4>3. info'[jobs[j]] = info[jobs[j]]
        BY <4>1, <4>2, <2>6 DEF Started
      <4> QED BY <4>1, <4>2, <4>3
    <3> QED BY <3>1, <3>2
  <2>9. ASSUME NEW h \in Generations
        PROVE  /\ Started(h)' <=> info'[h].status # "none"
               /\ ~Started(h)' => ~info'[h].backgrounded /\ info'[h].note = 0
               /\ info'[h].status = "running" => jobs'[info'[h].id] = h
               /\ info'[h].note # 0 => Started(info[h].note)'
    <3>1. \A n \in Generations : Started(n) => Started(n)'
      BY <2>6 DEF Started
    <3>2. CASE h = g
      <4>1. note # 0 => Started(note)'
        BY <3>1
      <4> QED BY <3>2, <4>1, <2>1, <2>4, <2>5 DEF Started
    <3>3. CASE h # g
      <4>1. info'[h] = info[h] /\ info[h] \in JobInfo
        BY <3>3, <2>3, <2>4
      <4>2. info[h].status = "running" => jobs[info[h].id] = h /\ info[h].id \in Ids
        BY DEF JobsInv, Registry, Started
      <4>3. info[h].status = "running" => info[h].id # i
        BY <1>2, <4>2 DEF Running
      <4>4. info[h].note # 0 => info[h].note \in Generations /\ Started(info[h].note)
        BY <4>1 DEF JobsInv, Registry, JobInfo
      <4> QED BY <3>1, <4>1, <4>2, <4>3, <4>4, <2>5 DEF JobsInv, Registry, Started
    <3> QED BY <3>2, <3>3
  <2>10. Registry'
    BY <2>7, <2>8, <2>9 DEF Registry
  <2>11. NoPromise
    BY <2>1, <2>4 DEF NoPromise
  <2> QED BY <2>6, <2>10, <2>11
<1>3. /\ Registry'
      /\ \A g \in Generations : Started(g) => info'[g] = info[g]
      /\ NoPromise
  BY <1>1, <1>2, NothingStarts DEF Start, JobsInv, Registry, Started
<1>4. \A t \in Tools : tool[t].at = "blocking" => StillBlocks(tool[t].generation)
  <2> SUFFICES ASSUME NEW t \in Tools, tool[t].at = "blocking" PROVE StillBlocks(tool[t].generation)
    OBVIOUS
  <2>1. Unreleased(tool[t]) /\ tool[t].id \in Ids
    BY DEF JobsInv, CallsOK
  <2> QED BY <2>1, <1>3 DEF Unreleased, Started, StillBlocks, StillRuns
<1>5. \A o \in observers : o.at = "waiting" => StillRuns(o.generation)
  <2> SUFFICES ASSUME NEW o \in observers, o.at = "waiting" PROVE StillRuns(o.generation)
    OBVIOUS
  <2>1. Unsettled(o) /\ o.id \in Ids /\ o.generation \in Generations
    BY DEF JobsInv, ObserversOK, Observer
  <2> QED BY <2>1, <1>3 DEF Unsettled, Started, StillRuns
<1> QED BY <1>3, <1>4, <1>5 DEF StaysStarted, Started

-------------------------------------------------------------------------------
(* Tool calls as an action otherwise leaves them. *)
CallsShape(calls) ==
  /\ calls \in [Tools -> Call]
  /\ \A t \in Tools : /\ calls[t].at # "idle" => calls[t].id \in Ids
                      /\ calls[t].at = "blocking" => Unreleased(calls[t])

LEMMA ToolsHaveShape == ASSUME JobsInv PROVE CallsShape(tool)
BY DEF JobsInv, CallsOK, CallsShape

(* A running job settles: its table row and everybody who waits follow.    *)
LEMMA SettlesInv ==
  ASSUME JobsInv, NEW g \in Generations, NEW status \in Settled, NEW calls, CallsShape(calls),
         info[g].status = "running",
         info' = [info EXCEPT ![g].status = status], KeepOutcome(info[g].note, status),
         Resolve(g, status, calls), UNCHANGED <<jobs, told, sweep, life, crossed>>
  PROVE  JobsInv'
<1>1. /\ info \in [Generations -> JobInfo] /\ info[g] \in JobInfo /\ Started(g)
      /\ info[g].note # 0 => info[g].note \in Generations /\ Started(info[g].note)
  BY DEF JobsInv, Registry, JobInfo
<1> DEFINE new == [info[g] EXCEPT !.status = status]
<1>2. /\ new \in JobInfo /\ new.id = info[g].id /\ new.backgrounded = info[g].backgrounded
      /\ new.note = info[g].note /\ new.status = status
  BY <1>1 DEF JobInfo, Statuses
<1>3. info' = [info EXCEPT ![g] = new]
  BY <1>1
<1> HIDE DEF new
<1>4. info'[g] = new /\ \A h \in Generations : h # g => info'[h] = info[h]
  BY <1>1, <1>3
<1>5. StaysStarted /\ NoPromise /\ \A h \in Generations : Started(h) => Started(h)'
  BY <1>2, <1>4 DEF StaysStarted, NoPromise, Started
<1>6. Registry'
  <2>1. info' \in [Generations -> JobInfo]
    BY <1>1, <1>2, <1>3
  <2>2. \A i \in Ids : jobs'[i] # 0 =>
          info'[jobs'[i]].id = i /\ info'[jobs'[i]].status \in Settled \cup {"running"}
    <3> SUFFICES ASSUME NEW i \in Ids, jobs[i] # 0
                 PROVE  info'[jobs[i]].id = i /\ info'[jobs[i]].status \in Settled \cup {"running"}
      OBVIOUS
    <3>1. jobs[i] \in Generations /\ info[jobs[i]].id = i /\ info[jobs[i]].status \in Settled \cup {"running"}
      BY DEF JobsInv, Registry
    <3> QED BY <3>1, <1>2, <1>4
  <2>3. ASSUME NEW h \in Generations
        PROVE  /\ Started(h)' <=> info'[h].status # "none"
               /\ ~Started(h)' => ~info'[h].backgrounded /\ info'[h].note = 0
               /\ info'[h].status = "running" => jobs'[info'[h].id] = h
               /\ info'[h].note # 0 => Started(info[h].note)'
    <3>1. CASE h = g
      BY <3>1, <1>1, <1>2, <1>4, <1>5 DEF Started, Settled
    <3>2. CASE h # g
      <4>1. info'[h] = info[h] /\ info[h] \in JobInfo
        BY <3>2, <1>1, <1>4
      <4>2. info[h].note # 0 => info[h].note \in Generations /\ Started(info[h].note)
        BY <4>1 DEF JobsInv, Registry, JobInfo
      <4> QED BY <4>1, <4>2, <1>5 DEF JobsInv, Registry, Started
    <3> QED BY <3>1, <3>2
  <2> QED BY <2>1, <2>2, <2>3 DEF JobsInv, Registry
<1>7. Table' /\ \A n \in Generations : row[n] # "none" => row'[n] # "none"
  <2>1. CASE info[g].note = 0
    BY <2>1, <1>5 DEF KeepOutcome, JobsInv, Table
  <2>2. CASE info[g].note # 0
    <3>1. row' = [row EXCEPT ![info[g].note] = status] /\ outcome' = [outcome EXCEPT ![info[g].note] = status]
      BY <2>2 DEF KeepOutcome
    <3>2. status # "none" /\ info[g].note \in Generations /\ Started(info[g].note)'
      BY <2>2, <1>1, <1>5 DEF Settled
    <3> QED BY <3>1, <3>2, <1>5 DEF JobsInv, Table
  <2> QED BY <2>1, <2>2
<1>8. Conversation'
  BY <1>5, <1>7, ConversationStays
<1>9. CallsOK'
  <2> SUFFICES ASSUME NEW t \in Tools
               PROVE  /\ tool' = [u \in Tools |-> tool'[u]]
                      /\ tool'[t] \in Call /\ (tool'[t].at # "idle" => tool'[t].id \in Ids)
                      /\ tool'[t].at = "blocking" => Unreleased(tool[t])'
    BY DEF CallsOK, Resolve
  <2>0. tool' = [u \in Tools |-> tool'[u]]
    BY DEF Resolve
  <2>1. CASE Blocks(calls[t], g)
    <3>1. tool'[t] = Over(calls[t]) /\ calls[t] \in Call
      BY <2>1 DEF Resolve, CallsShape
    <3>2. tool'[t] \in Call /\ tool'[t].at = "done" /\ tool'[t].id = calls[t].id
      BY <3>1, OverIsDone
    <3>3. calls[t].id \in Ids
      BY <2>1 DEF Blocks, CallsShape
    <3> QED BY <2>0, <3>2, <3>3
  <2>2. CASE ~Blocks(calls[t], g)
    <3>1. tool'[t] = calls[t] /\ calls[t] \in Call
      BY <2>2 DEF Resolve, CallsShape
    <3>2. calls[t].at = "blocking" => calls[t].generation # g /\ Unreleased(calls[t])
      BY <2>2 DEF Blocks, CallsShape
    <3>3. calls[t].at = "blocking" => info'[calls[t].generation] = info[calls[t].generation]
      BY <3>2, <1>4 DEF Unreleased
    <3> QED BY <2>0, <3>1, <3>2, <3>3 DEF CallsShape, Unreleased
  <2> QED BY <2>1, <2>2
<1>10. ObserversOK'
  <2> SUFFICES ASSUME NEW p \in observers'
               PROVE  /\ p \in Observer /\ (p.at = "waiting" => Unsettled(p)')
                      /\ p.at = "reported" => p.note # 0 /\ told[p.note] # Nothing
    BY DEF ObserversOK
  <2>1. PICK o \in observers :
          p = IF o.generation = g /\ o.at = "waiting"
                THEN [o EXCEPT !.at = "reporting", !.status = status, !.note = IF @ = 0 THEN info[g].note ELSE @]
                ELSE o
    BY DEF Resolve
  <2>2. /\ o \in Observer /\ (o.at = "waiting" => Unsettled(o))
        /\ o.at = "reported" => o.note # 0 /\ told[o.note] # Nothing
    BY DEF JobsInv, ObserversOK
  <2>3. CASE o.generation = g /\ o.at = "waiting"
    <3> DEFINE p1 == [o EXCEPT !.at = "reporting"]
               p2 == [p1 EXCEPT !.status = status]
               note == IF o.note = 0 THEN info[g].note ELSE o.note
               p3 == [p2 EXCEPT !.note = note]
    <3>1. p1 \in Observer /\ p1.at = "reporting" /\ p1.note = o.note
      BY <2>2 DEF Observer
    <3>2. p = [p2 EXCEPT !.note = IF o.note = 0 THEN info[g].note ELSE o.note]
      BY <2>1, <2>2, <2>3 DEF Observer
    <3> HIDE DEF p1
    <3>3. p2 \in Observer /\ p2.at = "reporting" /\ p2.note = o.note
      BY <3>1 DEF Observer
    <3> HIDE DEF p2
    <3>4. note \in Notes
      BY <1>1, <2>2 DEF JobInfo, Observer
    <3>5. p = p3
      BY <3>2
    <3> HIDE DEF note
    <3>6. p3 \in Observer /\ p3.at = "reporting"
      BY <3>3, <3>4 DEF Observer
    <3> QED BY <3>5, <3>6
  <2>4. CASE ~(o.generation = g /\ o.at = "waiting")
    <3>1. p = o
      BY <2>1, <2>4
    <3>2. o.at = "waiting" => o.generation # g /\ o.generation \in Generations
      BY <2>2, <2>4 DEF Observer
    <3> QED BY <2>2, <3>1, <3>2, <1>4 DEF Unsettled
  <2> QED BY <2>3, <2>4
<1>11. SweepOK'
  BY <1>5, SweepStays
<1> QED BY <1>6, <1>7, <1>8, <1>9, <1>10, <1>11 DEF JobsInv

(* A change of the tool calls alone. *)
LEMMA CallsInv ==
  ASSUME JobsInv, NEW calls, CallsShape(calls), tool' = calls,
         UNCHANGED <<jobs, info, row, told, observers, sweep, life, outcome, crossed>>
  PROVE  JobsInv'
<1>1. StaysStarted /\ NoPromise /\ \A o \in observers : o.at = "waiting" => StillRuns(o.generation)
  BY NothingStarts
<1>2. Registry'
  BY DEF JobsInv, Registry, Started
<1>3. CallsOK'
  BY DEF CallsOK, CallsShape, Unreleased
<1> QED BY <1>1, <1>2, <1>3, TableStays, ConversationStays, ObserversStay, SweepStays DEF JobsInv

LEMMA CancelInv ==
  ASSUME JobsInv, NEW i \in Ids, NEW calls, CallsShape(calls), Cancel(i, calls),
         UNCHANGED <<jobs, told, sweep, life, crossed>>
  PROVE  JobsInv'
<1>1. CASE ~Running(i)
  BY <1>1, CallsInv DEF Cancel
<1>2. CASE Running(i)
  <2>1. jobs[i] \in Generations /\ info[jobs[i]].status = "running" /\ "cancelled" \in Settled
    BY <1>2 DEF Running, JobsInv, Registry, Settled
  <2> QED BY <1>2, <2>1, SettlesInv DEF Cancel
<1> QED BY <1>1, <1>2

(* markBackground: those marked get a notification and a row.              *)
LEMMA MarkInv ==
  ASSUME JobsInv, NEW gs \in SUBSET Generations, NEW calls, CallsShape(calls), Mark(gs, calls),
         \A g \in gs : info[g].status \in Settled \cup {"running"},
         (\A g \in gs : info[g].status = "running") \/ (\A g, h \in gs : g = h),
         UNCHANGED <<jobs, told, observers, life, crossed>>,
         StaysStarted => SweepOK'
  PROVE  JobsInv'
<1>0. info \in [Generations -> JobInfo]
  BY DEF JobsInv, Registry
<1>1. \A g \in Generations :
        /\ NoteOf(g) \in Generations /\ (info[g].note # 0 => NoteOf(g) = info[g].note)
        /\ Started(g) => Started(NoteOf(g))
  BY <1>0 DEF NoteOf, JobInfo, JobsInv, Registry
<1>2. \A g \in gs : Started(g)
  BY DEF JobsInv, Registry, Settled
<1>3. \A g \in gs : /\ info'[g] \in JobInfo /\ info'[g].id = info[g].id /\ info'[g].backgrounded = TRUE
                    /\ info'[g].note = NoteOf(g) /\ info'[g].status = info[g].status
  <2> SUFFICES ASSUME NEW g \in gs
               PROVE  /\ info'[g] \in JobInfo /\ info'[g].id = info[g].id /\ info'[g].backgrounded = TRUE
                      /\ info'[g].note = NoteOf(g) /\ info'[g].status = info[g].status
    OBVIOUS
  <2> DEFINE half == [info[g] EXCEPT !.backgrounded = TRUE]
             new == [half EXCEPT !.note = NoteOf(g)]
  <2>1. info'[g] = new
    BY DEF Mark
  <2>2. half \in JobInfo /\ half.id = info[g].id /\ half.backgrounded = TRUE /\ half.status = info[g].status
    <3>1. info[g] \in JobInfo
      BY <1>0
    <3>2. half \in JobInfo
      BY <3>1 DEF JobInfo
    <3> QED BY <3>1, <3>2 DEF JobInfo
  <2> HIDE DEF half
  <2>3. NoteOf(g) \in Notes
    <3>1. NoteOf(g) \in Generations
      BY <1>1
    <3> QED BY <3>1, JobsAssumption
  <2>4. /\ new \in JobInfo /\ new.id = info[g].id /\ new.backgrounded = TRUE
        /\ new.note = NoteOf(g) /\ new.status = info[g].status
    BY <2>2, <2>3 DEF JobInfo
  <2> QED BY <2>1, <2>4
<1>4. \A g \in Generations : g \notin gs => info'[g] = info[g]
  BY DEF Mark
<1>5. StaysStarted /\ (\A g \in Generations : Started(g) => Started(g)')
      /\ \A g \in Generations : info'[g].id = info[g].id /\ info'[g].status = info[g].status
  BY <1>3, <1>4 DEF StaysStarted, Started
<1>6. Registry'
  <2>1. info' \in [Generations -> JobInfo]
    <3>1. \A g \in Generations : info'[g] \in JobInfo
      BY <1>0, <1>3, <1>4
    <3>2. info' = [g \in Generations |-> info'[g]]
      BY DEF Mark
    <3> QED BY <3>1, <3>2
  <2>2. ASSUME NEW h \in Generations
        PROVE  /\ Started(h)' <=> info'[h].status # "none"
               /\ ~Started(h)' => ~info'[h].backgrounded /\ info'[h].note = 0
               /\ info'[h].status = "running" => jobs'[info'[h].id] = h
               /\ info'[h].note # 0 => Started(info[h].note)'
    <3>1. CASE h \in gs
      <4>1. Started(h) /\ Started(h)' /\ info[h].status # "none"
        BY <3>1, <1>2, <1>5 DEF JobsInv, Registry
      <4>2. info'[h].note = NoteOf(h) /\ NoteOf(h) \in Generations /\ info'[NoteOf(h)].id \in Ids
        BY <3>1, <4>1, <1>1, <1>3, <1>5 DEF Started
      <4>3. info'[h].status = info[h].status /\ info'[h].id = info[h].id
        BY <1>5
      <4>4. info'[h].status = "running" => jobs'[info'[h].id] = h
        BY <4>3 DEF JobsInv, Registry
      <4>5. NoteOf(h) # 0
        BY <4>2
      <4>6. info'[h].note # 0 => Started(info[h].note)'
        BY <4>2 DEF Started
      <4>7. Started(h)' <=> info'[h].status # "none"
        BY <4>1, <4>3
      <4> QED BY <4>1, <4>4, <4>6, <4>7
    <3>2. CASE h \notin gs
      <4>1. info'[h] = info[h] /\ info[h] \in JobInfo
        BY <3>2, <1>0, <1>4
      <4>2. info[h].note # 0 => info[h].note \in Generations /\ Started(info[h].note)
        BY <4>1 DEF JobsInv, Registry, JobInfo
      <4> QED BY <4>1, <4>2, <1>5 DEF JobsInv, Registry, Started
    <3> QED BY <3>1, <3>2
  <2>3. \A i \in Ids : jobs'[i] # 0 =>
          info'[jobs'[i]].id = i /\ info'[jobs'[i]].status \in Settled \cup {"running"}
    <3> SUFFICES ASSUME NEW i \in Ids, jobs[i] # 0
                 PROVE  info'[jobs[i]].id = i /\ info'[jobs[i]].status \in Settled \cup {"running"}
      OBVIOUS
    <3>1. jobs[i] \in Generations /\ info[jobs[i]].id = i /\ info[jobs[i]].status \in Settled \cup {"running"}
      BY DEF JobsInv, Registry
    <3> QED BY <3>1, <1>5
  <2> QED BY <2>1, <2>2, <2>3 DEF JobsInv, Registry
<1>7. \A n \in Generations :
        \/ Marked(gs, n) = {} /\ row'[n] = row[n]
        \/ \E g \in gs : NoteOf(g) = n /\ row'[n] = info[g].status
  <2> SUFFICES ASSUME NEW n \in Generations, Marked(gs, n) # {}
               PROVE  \E g \in gs : NoteOf(g) = n /\ row'[n] = info[g].status
    BY DEF Mark
  <2> DEFINE c == CHOOSE g \in Marked(gs, n) : TRUE
  <2>1. c \in Marked(gs, n)
    OBVIOUS
  <2>2. row'[n] = info[c].status
    BY DEF Mark
  <2> QED BY <2>1, <2>2 DEF Marked
<1>8. Table'
  <2>1. row' \in [Generations -> Settled \cup {"none", "running"}]
    <3>1. \A n \in Generations : row'[n] \in Settled \cup {"none", "running"}
      BY <1>7 DEF JobsInv, Table
    <3> DEFINE value(n) == IF Marked(gs, n) = {} THEN row[n]
                           ELSE info[CHOOSE g \in Marked(gs, n) : TRUE].status
    <3>2. row' = [n \in Generations |-> value(n)]
      BY DEF Mark
    <3> HIDE DEF value
    <3> QED BY <3>1, <3>2
  <2>2. outcome' \in [Generations -> Settled \cup {"none"}]
    <3>1. \A n \in Generations : outcome'[n] \in Settled \cup {"none"}
      <4> SUFFICES ASSUME NEW n \in Generations PROVE outcome'[n] \in Settled \cup {"none"}
        OBVIOUS
      <4> DEFINE c == CHOOSE g \in Marked(gs, n) : TRUE
      <4>1. CASE \E g \in Marked(gs, n) : info[g].status \in Settled
        <5>1. c \in Marked(gs, n)
          BY <4>1
        <5>2. outcome'[n] = info[c].status
          BY <4>1 DEF Mark
        <5>3. PICK g \in Marked(gs, n) : info[g].status \in Settled
          BY <4>1
        <5>4. g \in gs /\ c \in gs /\ info[g].status # "running"
          BY <5>1, <5>3 DEF Marked, Settled
        <5>5. c = g
          BY <5>4
        <5> QED BY <5>2, <5>3, <5>5
      <4>2. CASE ~\E g \in Marked(gs, n) : info[g].status \in Settled
        BY <4>2 DEF Mark, JobsInv, Table
      <4> QED BY <4>1, <4>2
    <3> DEFINE value(n) == IF \E g \in Marked(gs, n) : info[g].status \in Settled
                             THEN info[CHOOSE g \in Marked(gs, n) : TRUE].status ELSE outcome[n]
    <3>2. outcome' = [n \in Generations |-> value(n)]
      BY DEF Mark
    <3> HIDE DEF value
    <3> QED BY <3>1, <3>2
  <2>3. ASSUME NEW n \in Generations, row'[n] # "none" PROVE Started(n)'
    <3>1. Started(n)
      BY <2>3, <1>1, <1>2, <1>7 DEF JobsInv, Table
    <3> QED BY <3>1, <1>5
  <2> QED BY <2>1, <2>2, <2>3 DEF Table
<1>9. Conversation'
  <2> SUFFICES ASSUME NEW n \in Generations, Promised(n)' PROVE told[n] # Nothing \/ row'[n] # "none"
    BY DEF JobsInv, Conversation, NoNoticeIsLost
  <2>1. PICK g \in Generations : info'[g].backgrounded /\ info'[g].note = n
    BY DEF Promised
  <2>2. CASE Marked(gs, n) # {}
    BY <2>2, <1>7 DEF Settled
  <2>3. CASE Marked(gs, n) = {}
    <3>1. g \notin gs
      BY <2>1, <2>3, <1>3 DEF Marked
    <3>2. Promised(n)
      BY <2>1, <3>1, <1>4 DEF Promised
    <3>3. row'[n] = row[n]
      BY <2>3, <1>7 DEF Marked
    <3> QED BY <3>2, <3>3 DEF JobsInv, Conversation, NoNoticeIsLost
  <2> QED BY <2>2, <2>3
<1>10. CallsOK'
  <2>0. tool' = [u \in Tools |-> tool'[u]]
    BY DEF Mark
  <2> SUFFICES ASSUME NEW t \in Tools
               PROVE  /\ tool'[t] \in Call /\ (tool'[t].at # "idle" => tool'[t].id \in Ids)
                      /\ tool'[t].at = "blocking" => Unreleased(tool[t])'
    BY <2>0 DEF CallsOK
  <2>1. CASE \E g \in gs : Blocks(calls[t], g)
    <3>1. tool'[t] = [calls[t] EXCEPT !.at = "released"] /\ calls[t] \in Call
      BY <2>1 DEF Mark, CallsShape
    <3>2. tool'[t] \in Call /\ tool'[t].at = "released" /\ tool'[t].id = calls[t].id
      BY <3>1 DEF Call
    <3>3. calls[t].id \in Ids
      BY <2>1 DEF Blocks, CallsShape
    <3> QED BY <3>2, <3>3
  <2>2. CASE ~\E g \in gs : Blocks(calls[t], g)
    <3>1. tool'[t] = calls[t] /\ calls[t] \in Call
      BY <2>2 DEF Mark, CallsShape
    <3>2. calls[t].at = "blocking" => calls[t].generation \notin gs /\ Unreleased(calls[t])
      BY <2>2 DEF Blocks, CallsShape
    <3>3. calls[t].at = "blocking" => info'[calls[t].generation] = info[calls[t].generation]
      BY <3>2, <1>4 DEF Unreleased
    <3> QED BY <3>1, <3>2, <3>3 DEF CallsShape, Unreleased
  <2> QED BY <2>1, <2>2
<1>11. ObserversOK'
  <2>1. \A o \in observers : o.at = "waiting" => StillRuns(o.generation)
    BY <1>5 DEF JobsInv, ObserversOK, Observer, Unsettled, StillRuns
  <2> QED BY <2>1, ObserversStay
<1> QED BY <1>5, <1>6, <1>8, <1>9, <1>10, <1>11 DEF JobsInv

(* What is marked is the current job of an id. *)
LEMMA ToMarkFacts ==
  ASSUME JobsInv, NEW i \in Ids
  PROVE  /\ ToMark(i) \in SUBSET Generations
         /\ \A g \in ToMark(i) : info[g].status \in Settled \cup {"running"}
         /\ \A g, h \in ToMark(i) : g = h
BY DEF ToMark, JobsInv, Registry

(* completeBackground: what is acknowledged has been told.                 *)
LEMMA CompleteInv ==
  ASSUME JobsInv, NEW note \in Generations, told[note] # Nothing, Complete(note),
         NEW left \in SUBSET observers, observers' = left,
         UNCHANGED <<info, told, tool, life, outcome, crossed>>, SweepOK'
  PROVE  JobsInv'
<1>1. /\ row' = [row EXCEPT ![note] = "none"]
      /\ jobs' = [i \in Ids |-> IF jobs[i] # 0 /\ info[jobs[i]].note = note /\ ~Running(i) THEN 0 ELSE jobs[i]]
  BY DEF Complete
<1>2. Registry'
  <2>1. jobs' \in [Ids -> Notes] /\ \A i \in Ids : jobs'[i] = 0 \/ jobs'[i] = jobs[i]
    BY <1>1 DEF JobsInv, Registry
  <2>2. ASSUME NEW g \in Generations, info[g].status = "running" PROVE jobs'[info[g].id] = g
    <3>1. jobs[info[g].id] = g /\ info[g].id \in Ids
      BY <2>2 DEF JobsInv, Registry, Started
    <3>2. Running(info[g].id)
      BY <2>2, <3>1 DEF Running
    <3> QED BY <3>1, <3>2, <1>1
  <2> QED BY <2>1, <2>2 DEF JobsInv, Registry, Started
<1>3. Table'
  BY <1>1 DEF JobsInv, Table, Started
<1>4. Conversation'
  <2> SUFFICES ASSUME NEW n \in Generations, Promised(n) PROVE told[n] # Nothing \/ row'[n] # "none"
    BY DEF JobsInv, Conversation, NoNoticeIsLost, Promised
  <2> QED BY <1>1 DEF JobsInv, Conversation, NoNoticeIsLost, Table
<1>5. CallsOK'
  BY DEF JobsInv, CallsOK, Unreleased
<1>6. ObserversOK'
  BY DEF JobsInv, ObserversOK, Unsettled
<1> QED BY <1>2, <1>3, <1>4, <1>5, <1>6 DEF JobsInv

-------------------------------------------------------------------------------
(* Tool calls. *)
LEMMA CallChanges ==
  ASSUME JobsInv, NEW t \in Tools, NEW call \in Call, call.id \in Ids,
         call.at = "blocking" => Unreleased(call)
  PROVE  CallsShape([tool EXCEPT ![t] = call])
BY DEF JobsInv, CallsOK, CallsShape

LEMMA CallFacts == ASSUME JobsInv, NEW t \in Tools PROVE tool \in [Tools -> Call] /\ tool[t] \in Call
BY DEF JobsInv, CallsOK

(* A call that returns. *)
LEMMA CallReturns ==
  ASSUME JobsInv, NEW t \in Tools, tool[t].at # "idle"
  PROVE  CallsShape([tool EXCEPT ![t] = Over(@)]) /\ tool[t].id \in Ids
<1>1. Over(tool[t]) \in Call /\ Over(tool[t]).id = tool[t].id /\ Over(tool[t]).at = "done"
  BY CallFacts, OverIsDone
<1>2. tool[t].id \in Ids
  BY DEF JobsInv, CallsOK
<1> QED BY <1>1, <1>2, CallChanges

LEMMA LaunchInv ==
  ASSUME JobsInv, NEW t \in Tools, NEW i \in Ids, NEW background \in BOOLEAN, Launch(t, i, background)
  PROVE  JobsInv'
<1> DEFINE call == [id |-> i, generation |-> 0, background |-> background, at |-> "started"]
<1>1. call \in Call /\ call.id = i /\ call.at = "started"
  BY DEF Call
<1>2. /\ Start(i, 0) /\ tool' = [tool EXCEPT ![t] = call]
      /\ UNCHANGED <<row, told, observers, sweep, life, outcome, crossed>>
  BY DEF Launch
<1> HIDE DEF call
<1>3. 0 \in Notes
  OBVIOUS
<1>4. /\ Registry'
      /\ StaysStarted /\ NoPromise
      /\ \A u \in Tools : tool[u].at = "blocking" => StillBlocks(tool[u].generation)
      /\ \A o \in observers : o.at = "waiting" => StillRuns(o.generation)
  BY <1>2, <1>3, StartInv
<1>5. CallsOK'
  BY <1>1, <1>2, <1>4 DEF JobsInv, CallsOK, Unreleased, StillBlocks, StillRuns
<1> QED BY <1>2, <1>4, <1>5, TableStays, ConversationStays, ObserversStay, SweepStays DEF JobsInv

LEMMA BackgroundInv == ASSUME JobsInv, NEW t \in Tools, Background(t) PROVE JobsInv'
<1> DEFINE i == tool[t].id
           call == IF jobs[i] = 0 /\ i \in Children THEN Over(tool[t])
                   ELSE [tool[t] EXCEPT !.generation = jobs[i], !.at = "released"]
<1>1. i \in Ids /\ tool[t] \in Call /\ jobs[i] \in Notes
  BY CallFacts DEF Background, JobsInv, CallsOK, Registry
<1>2. /\ Mark(ToMark(i), [tool EXCEPT ![t] = call])
      /\ UNCHANGED <<jobs, told, observers, sweep, life, crossed>>
  BY DEF Background
<1>3. call \in Call /\ call.id = i /\ call.at # "blocking"
  <2>1. CASE call = Over(tool[t])
    BY <1>1, <2>1, OverIsDone
  <2>2. CASE call = [tool[t] EXCEPT !.generation = jobs[i], !.at = "released"]
    BY <1>1, <2>2 DEF Call
  <2> QED BY <2>1, <2>2
<1> HIDE DEF call
<1>4. CallsShape([tool EXCEPT ![t] = call])
  BY <1>1, <1>3, CallChanges
<1>5. StaysStarted => SweepOK'
  BY <1>2, SweepStays
<1> QED BY <1>1, <1>2, <1>4, <1>5, ToMarkFacts, MarkInv

LEMMA BlockInv == ASSUME JobsInv, NEW t \in Tools, Block(t) PROVE JobsInv'
<1> DEFINE i == tool[t].id
           g == jobs[i]
           at == IF info[g].backgrounded THEN "released" ELSE "blocking"
           call == IF g = 0 \/ ~Running(i) THEN Over(tool[t])
                   ELSE [tool[t] EXCEPT !.generation = g, !.at = at]
<1>1. i \in Ids /\ tool[t] \in Call /\ g \in Notes
  BY CallFacts DEF Block, JobsInv, CallsOK, Registry
<1>2. /\ tool' = [tool EXCEPT ![t] = call]
      /\ UNCHANGED <<jobs, info, row, told, observers, sweep, life, outcome, crossed>>
  BY DEF Block
<1>3. call \in Call /\ call.id = i /\ (call.at = "blocking" => Unreleased(call))
  <2>1. CASE g = 0 \/ ~Running(i)
    BY <1>1, <2>1, OverIsDone
  <2>2. CASE g # 0 /\ Running(i)
    <3>1. at \in {"released", "blocking"} /\ (at = "blocking" => ~info[g].backgrounded)
      OBVIOUS
    <3>2. call = [tool[t] EXCEPT !.generation = g, !.at = at]
      BY <2>2
    <3> HIDE DEF at, call
    <3>3. call \in Call /\ call.id = i /\ call.at = at /\ call.generation = g
      BY <1>1, <3>1, <3>2 DEF Call
    <3> QED BY <1>1, <2>2, <3>1, <3>3 DEF Unreleased, Running, JobsInv, Registry
  <2> QED BY <2>1, <2>2
<1> HIDE DEF call
<1>4. CallsShape([tool EXCEPT ![t] = call])
  BY <1>1, <1>3, CallChanges
<1> QED BY <1>2, <1>4, CallsInv

LEMMA InterruptToolInv == ASSUME JobsInv, NEW t \in Tools, InterruptTool(t) PROVE JobsInv'
<1> DEFINE call == IF tool[t].at = "blocking" THEN [tool[t] EXCEPT !.at = "cancelling", !.generation = 0]
                   ELSE Over(tool[t])
<1>1. tool' = [tool EXCEPT ![t] = call] /\ tool[t].id \in Ids
      /\ UNCHANGED <<jobs, info, row, told, observers, sweep, life, outcome, crossed>>
  BY DEF InterruptTool, JobsInv, CallsOK
<1>2. call \in Call /\ call.id = tool[t].id /\ call.at # "blocking"
  <2>1. CASE tool[t].at = "blocking"
    <3>1. 0 \in Notes
      OBVIOUS
    <3> QED BY <2>1, <3>1, CallFacts DEF Call
  <2>2. CASE tool[t].at # "blocking"
    BY <2>2, CallFacts, OverIsDone
  <2> QED BY <2>1, <2>2
<1> HIDE DEF call
<1>3. CallsShape([tool EXCEPT ![t] = call])
  BY <1>1, <1>2, CallChanges
<1> QED BY <1>1, <1>3, CallsInv

LEMMA CancelJobInv == ASSUME JobsInv, NEW t \in Tools, CancelJob(t) PROVE JobsInv'
<1>1. CallsShape([tool EXCEPT ![t] = Over(@)]) /\ tool[t].id \in Ids
  BY CallReturns DEF CancelJob
<1> QED BY <1>1, CancelInv DEF CancelJob

-------------------------------------------------------------------------------
(* Observers. *)
LEMMA WaitsFacts ==
  ASSUME JobsInv, NEW i \in Ids, NEW key \in Notes, NEW note \in Notes, NEW o \in Waits(i, key, note)
  PROVE  /\ o \in Observer /\ o.at # "reported"
         /\ o.at = "waiting" => Unsettled(o)
<1>1. jobs[i] # 0 /\ jobs[i] \in Generations /\ info[jobs[i]].id = i
      /\ info[jobs[i]].status \in Settled \cup {"running"} /\ info[jobs[i]].note \in Notes
  BY DEF Waits, JobsInv, Registry, JobInfo
<1>2. o = [key |-> key, id |-> i, generation |-> jobs[i],
           at |-> IF Running(i) THEN "waiting" ELSE "reporting",
           status |-> IF Running(i) THEN "none" ELSE info[jobs[i]].status,
           note |-> IF note = 0 /\ ~Running(i) THEN info[jobs[i]].note ELSE note]
  BY <1>1 DEF Waits
<1>3. CASE Running(i)
  BY <1>1, <1>2, <1>3 DEF Observer, Unsettled, Running
<1>4. CASE ~Running(i)
  <2>1. info[jobs[i]].status \in Settled
    BY <1>1, <1>4 DEF Running
  <2> QED BY <1>1, <1>2, <1>4, <2>1 DEF Observer, Unsettled
<1> QED BY <1>3, <1>4

LEMMA ObserversJoin ==
  ASSUME JobsInv, NEW new \in SUBSET Observer, observers' = observers \cup new,
         \A o \in new : o.at # "reported" /\ (o.at = "waiting" => Unsettled(o)),
         UNCHANGED <<jobs, info, row, told, outcome>>, CallsOK', SweepOK'
  PROVE  JobsInv'
<1>1. StaysStarted /\ NoPromise
  BY NothingStarts
<1>2. Registry'
  BY DEF JobsInv, Registry, Started
<1>3. ObserversOK'
  BY DEF JobsInv, ObserversOK, Unsettled
<1> QED BY <1>1, <1>2, <1>3, TableStays, ConversationStays DEF JobsInv

LEMMA NotifyInv == ASSUME JobsInv, NEW t \in Tools, Notify(t) PROVE JobsInv'
<1>1. tool[t].id \in Ids /\ tool[t].generation \in Notes
  BY CallFacts DEF Notify, JobsInv, CallsOK, Call
<1>2. CallsOK'
  <2>1. CallsShape([tool EXCEPT ![t] = Over(@)])
    BY CallReturns DEF Notify
  <2> QED BY <2>1 DEF Notify, CallsOK, CallsShape, Unreleased
<1>3. SweepOK'
  <2>1. StaysStarted
    BY NothingStarts DEF Notify
  <2> QED BY <2>1, SweepStays DEF Notify
<1> DEFINE new == IF Observed(t) THEN {} ELSE Waits(tool[t].id, tool[t].generation, 0)
<1>4. new \in SUBSET Observer /\ \A o \in new : o.at # "reported" /\ (o.at = "waiting" => Unsettled(o))
  BY <1>1, WaitsFacts
<1>5. observers' = observers \cup new /\ UNCHANGED <<jobs, info, row, told, outcome>>
  BY DEF Notify
<1> HIDE DEF new
<1> QED BY <1>2, <1>3, <1>4, <1>5, ObserversJoin

LEMMA ReportInv == ASSUME JobsInv, NEW o \in observers, Report(o) PROVE JobsInv'
<1>1. o \in Observer
  BY DEF JobsInv, ObserversOK
<1>2. /\ told' \in [Generations -> Told]
      /\ \A n \in Generations : told[n] # Nothing => told'[n] # Nothing
      /\ o.note # 0 => told'[o.note] # Nothing
  <2>1. CASE o.note = 0
    BY <2>1 DEF Report, JobsInv, Conversation
  <2>2. CASE o.note # 0
    <3> DEFINE notice == [by |-> "observer", status |-> o.status]
    <3>1. notice \in Told /\ notice # Nothing
      BY <1>1 DEF Told, Nothing, Observer
    <3>2. told' = IF told[o.note] # Nothing THEN told ELSE [told EXCEPT ![o.note] = notice]
      BY <2>2 DEF Report, Admit
    <3> HIDE DEF notice
    <3>3. o.note \in Generations
      BY <1>1, <2>2 DEF Observer
    <3> QED BY <3>1, <3>2, <3>3 DEF JobsInv, Conversation
  <2> QED BY <2>1, <2>2
<1>3. Conversation'
  BY <1>2 DEF Report, JobsInv, Conversation, NoNoticeIsLost, Promised
<1>4. ObserversOK'
  <2> DEFINE new == IF o.note = 0 THEN {} ELSE {[o EXCEPT !.at = "reported"]}
  <2>1. \A p \in new : p \in Observer /\ p.at = "reported" /\ p.note # 0 /\ told'[p.note] # Nothing
    <3>1. [o EXCEPT !.at = "reported"] \in Observer /\ [o EXCEPT !.at = "reported"].at = "reported"
          /\ [o EXCEPT !.at = "reported"].note = o.note
      BY <1>1 DEF Observer
    <3> QED BY <3>1, <1>2
  <2>2. observers' = (observers \ {o}) \cup new /\ info' = info
    BY DEF Report
  <2> HIDE DEF new
  <2>3. \A p \in observers : /\ p \in Observer /\ (p.at = "waiting" => Unsettled(p))
                             /\ p.at = "reported" => p.note # 0 /\ told'[p.note] # Nothing
    BY <1>2 DEF JobsInv, ObserversOK, Observer
  <2> QED BY <2>1, <2>2, <2>3 DEF ObserversOK, Unsettled
<1>5. SweepOK'
  BY <1>2 DEF Report, JobsInv, SweepOK, Started
<1>6. Registry' /\ Table' /\ CallsOK'
  BY DEF Report, JobsInv, Registry, Table, CallsOK, Unreleased, Started
<1> QED BY <1>3, <1>4, <1>5, <1>6 DEF JobsInv

LEMMA AcknowledgeInv == ASSUME JobsInv, NEW o \in observers, Acknowledge(o) PROVE JobsInv'
<1>1. o.note \in Generations /\ told[o.note] # Nothing
  BY DEF Acknowledge, JobsInv, ObserversOK, Observer
<1>2. observers \ {o} \in SUBSET observers /\ observers' = observers \ {o}
  BY DEF Acknowledge
<1>3. SweepOK'
  BY DEF Acknowledge, JobsInv, SweepOK, Started
<1> QED BY <1>1, <1>2, <1>3, CompleteInv DEF Acknowledge

-------------------------------------------------------------------------------
(* Users, runs and the process. *)
LEMMA RunEndsInv == ASSUME JobsInv, NEW g \in Generations, RunEnds(g) PROVE JobsInv'
<1>1. PICK status \in Exits : Settle(g, status)
  BY DEF RunEnds
<1>2. status \in Settled
  BY DEF Settled
<1> QED BY <1>1, <1>2, ToolsHaveShape, SettlesInv DEF Settle

LEMMA StopInv == ASSUME JobsInv, NEW i \in Children, Stop(i) PROVE JobsInv'
<1>1. i \in Ids
  BY DEF Ids
<1> QED BY <1>1, ToolsHaveShape, CancelInv DEF Stop

LEMMA BackgroundAllInv == ASSUME JobsInv, BackgroundAll PROVE JobsInv'
<1>1. PICK gs \in SUBSET Blocked \ {{}} :
        Mark(gs, tool) /\ UNCHANGED <<jobs, told, observers, sweep, life, crossed>>
  BY DEF BackgroundAll
<1>2. gs \in SUBSET Generations /\ \A g \in gs : info[g].status = "running"
  BY DEF Blocked, Blocks, JobsInv, CallsOK, Unreleased
<1>3. StaysStarted => SweepOK'
  BY <1>1, SweepStays
<1> QED BY <1>1, <1>2, <1>3, ToolsHaveShape, MarkInv

LEMMA DieInv == ASSUME JobsInv, Die PROVE JobsInv'
<1>1. /\ jobs' = [i \in Ids |-> 0]
      /\ info' = [g \in Generations |->
           IF info[g].status = "running" THEN [info[g] EXCEPT !.status = "lost"] ELSE info[g]]
      /\ tool' = [t \in Tools |-> IF tool[t].at = "idle" THEN tool[t] ELSE Over(tool[t])]
      /\ observers' = {} /\ sweep' = Boot /\ life < MaxDeaths /\ life' = life + 1
      /\ UNCHANGED <<row, told, outcome, crossed>>
  BY DEF Die
<1>2. info \in [Generations -> JobInfo] /\ tool \in [Tools -> Call] /\ life \in 0..MaxDeaths
  BY DEF JobsInv, Registry, CallsOK, SweepOK
<1>3. \A g \in Generations :
        /\ info'[g] \in JobInfo /\ info'[g].id = info[g].id
        /\ info'[g].backgrounded = info[g].backgrounded /\ info'[g].note = info[g].note
        /\ info'[g].status = IF info[g].status = "running" THEN "lost" ELSE info[g].status
  <2> SUFFICES ASSUME NEW g \in Generations
               PROVE  /\ info'[g] \in JobInfo /\ info'[g].id = info[g].id
                      /\ info'[g].backgrounded = info[g].backgrounded /\ info'[g].note = info[g].note
                      /\ info'[g].status = IF info[g].status = "running" THEN "lost" ELSE info[g].status
    OBVIOUS
  <2>1. CASE info[g].status = "running"
    <3>1. info'[g] = [info[g] EXCEPT !.status = "lost"] /\ info[g] \in JobInfo
      BY <1>1, <1>2, <2>1
    <3> QED BY <2>1, <3>1 DEF JobInfo, Statuses
  <2>2. CASE info[g].status # "running"
    BY <1>1, <1>2, <2>2
  <2> QED BY <2>1, <2>2
<1>4. Registry'
  <2>1. info' \in [Generations -> JobInfo]
    <3>1. info' = [g \in Generations |-> info'[g]]
      BY <1>1
    <3> QED BY <1>3, <3>1
  <2>2. jobs' \in [Ids -> Notes] /\ \A i \in Ids : jobs'[i] = 0
    BY <1>1
  <2>3. ASSUME NEW h \in Generations
        PROVE  /\ Started(h)' <=> info'[h].status # "none"
               /\ ~Started(h)' => ~info'[h].backgrounded /\ info'[h].note = 0
               /\ info'[h].status # "running"
               /\ info'[h].note # 0 => Started(info[h].note)'
    <3>1. info[h].note # 0 => info[h].note \in Generations /\ Started(info[h].note)
      BY <1>2 DEF JobsInv, Registry, JobInfo
    <3> QED BY <3>1, <1>3 DEF JobsInv, Registry, Started
  <2> QED BY <2>1, <2>2, <2>3 DEF Registry
<1>5. StaysStarted /\ NoPromise
  BY <1>3 DEF StaysStarted, NoPromise
<1>6. Table' /\ Conversation'
  BY <1>1, <1>5, TableStays, ConversationStays
<1>7. CallsOK'
  <2>1. ASSUME NEW t \in Tools
        PROVE  tool'[t] \in Call /\ tool'[t].id = tool[t].id /\ tool'[t].at \in {"idle", "done"}
               /\ (tool'[t].at = "idle" <=> tool[t].at = "idle")
    <3>1. CASE tool[t].at = "idle"
      BY <1>1, <1>2, <3>1
    <3>2. CASE tool[t].at # "idle"
      <4>1. tool'[t] = Over(tool[t]) /\ tool[t] \in Call
        BY <1>1, <1>2, <3>2
      <4> QED BY <3>2, <4>1, OverIsDone
    <3> QED BY <3>1, <3>2
  <2>2. tool' = [t \in Tools |-> tool'[t]]
    BY <1>1
  <2>3. tool' \in [Tools -> Call]
    BY <2>1, <2>2
  <2> QED BY <2>1, <2>3 DEF JobsInv, CallsOK
<1>8. ObserversOK'
  BY <1>1 DEF ObserversOK
<1>9. SweepOK'
  <2>1. Boot \in Walk /\ Boot.at = "boot" /\ \A n \in Generations : Boot.listed[n] = "none"
    BY DEF Boot, Walk
  <2>2. life' \in 0..MaxDeaths /\ crossed' \subseteq Generations /\ sweep' = Boot
    BY <1>1, <1>2 DEF JobsInv, SweepOK
  <2> QED BY <2>1, <2>2 DEF SweepOK
<1> QED BY <1>4, <1>6, <1>7, <1>8, <1>9 DEF JobsInv

-------------------------------------------------------------------------------
(* The sweep. *)
LEMMA SweepFacts ==
  ASSUME JobsInv
  PROVE  /\ sweep \in Walk /\ sweep.listed \in [Generations -> Settled \cup {"none", "running"}]
         /\ life \in 0..MaxDeaths /\ crossed \subseteq Generations
         /\ sweep.at \in {"taken", "reported", "restarted", "backgrounded"} =>
              /\ sweep.note \in Generations /\ sweep.listed[sweep.note] # "none"
              /\ Started(sweep.note) /\ Job(sweep.note) \in Ids
         /\ \A n \in Generations : sweep.listed[n] # "none" => Started(n)
BY DEF JobsInv, SweepOK, Walk, Started, Job

LEMMA SweepMoves ==
  ASSUME JobsInv, UNCHANGED <<jobs, info, row, told, tool, observers, life, outcome>>, SweepOK'
  PROVE  JobsInv'
<1>1. Registry' /\ CallsOK'
  BY DEF JobsInv, Registry, CallsOK, Unreleased, Started
<1> QED BY <1>1, NothingStarts, TableStays, ConversationStays, ObserversStay DEF JobsInv

(* The points of the walk at which it handles a note. *)
LEMMA WalksTypes ==
  ASSUME JobsInv, NEW n \in Generations, sweep.listed[n] # "none",
         NEW at \in {"taken", "reported", "restarted", "backgrounded"}, Walks(at, n)
  PROVE  /\ sweep' \in Walk /\ sweep'.at = at /\ sweep'.note = n /\ sweep'.listed = sweep.listed
<1> DEFINE half == [sweep EXCEPT !.at = at]
<1>1. half \in Walk /\ half.at = at /\ half.listed = sweep.listed
  BY SweepFacts DEF Walk
<1>2. sweep' = [half EXCEPT !.note = n]
  BY DEF Walks
<1> HIDE DEF half
<1> QED BY <1>1, <1>2 DEF Walk

(* ... and the points between two notes. *)
LEMMA WorkingTypes ==
  ASSUME JobsInv, NEW n \in Generations, NEW note \in Notes, NEW skipped \in SUBSET Generations,
         sweep' = [at |-> "working", note |-> note, listed |-> [sweep.listed EXCEPT ![n] = "none"],
                   skipped |-> skipped],
         UNCHANGED <<life, crossed>>, StaysStarted
  PROVE  SweepOK'
<1>1. [sweep.listed EXCEPT ![n] = "none"] \in [Generations -> Settled \cup {"none", "running"}]
  BY SweepFacts
<1>2. sweep' \in Walk
  BY <1>1 DEF Walk
<1>3. \A m \in Generations : sweep'.listed[m] # "none" => sweep.listed[m] # "none"
  BY SweepFacts
<1>4. \A m \in Generations : Started(m) => Started(m)'
  BY DEF StaysStarted, Started
<1> QED BY <1>2, <1>3, <1>4, SweepFacts DEF SweepOK

LEMMA SweepRecord ==
  ASSUME JobsInv
  PROVE  sweep = [at |-> sweep.at, note |-> sweep.note, listed |-> sweep.listed, skipped |-> sweep.skipped]
         /\ sweep.note \in Notes /\ sweep.skipped \in SUBSET Generations
BY SweepFacts DEF Walk

LEMMA SweepListsInv == ASSUME JobsInv, SweepLists PROVE JobsInv'
<1> DEFINE half == [sweep EXCEPT !.at = "working"]
<1>1. half \in Walk /\ half.at = "working"
  BY SweepFacts DEF Walk
<1>2. sweep' = [half EXCEPT !.listed = row]
  BY DEF SweepLists
<1> HIDE DEF half
<1>3. sweep' \in Walk /\ sweep'.at = "working" /\ sweep'.listed = row
  BY <1>1, <1>2 DEF Walk, JobsInv, Table
<1>4. SweepOK'
  BY <1>3 DEF SweepLists, JobsInv, SweepOK, Table, Started
<1> QED BY <1>4, SweepMoves DEF SweepLists

LEMMA SweepTakesInv == ASSUME JobsInv, NEW n \in Generations, SweepTakes(n) PROVE JobsInv'
<1>0. sweep.listed[n] # "none" /\ StaysStarted
  BY NothingStarts DEF SweepTakes, Unhandled
<1>1. crossed' \subseteq Generations
  BY SweepFacts DEF SweepTakes
<1>2. CASE Running(Job(n)) /\ UNCHANGED crossed
           /\ sweep' = [sweep EXCEPT !.listed[n] = "none", !.skipped = @ \cup {n}]
  <2>1. sweep' = [at |-> "working", note |-> sweep.note, listed |-> [sweep.listed EXCEPT ![n] = "none"],
                  skipped |-> sweep.skipped \cup {n}]
    BY <1>2, SweepRecord DEF SweepTakes
  <2>2. SweepOK'
    <3>1. /\ sweep.note \in Notes /\ sweep.skipped \cup {n} \in SUBSET Generations
          /\ UNCHANGED <<life, crossed>>
      BY <1>2, SweepRecord DEF SweepTakes
    <3> QED BY <1>0, <2>1, <3>1, WorkingTypes
  <2> QED BY <2>2, SweepMoves DEF SweepTakes
<1>3. CASE Walks("taken", n)
  <2>1. SweepOK'
    BY <1>0, <1>1, <1>3, WalksTypes DEF SweepTakes, JobsInv, SweepOK, Started
  <2> QED BY <2>1, SweepMoves DEF SweepTakes
<1> QED BY <1>2, <1>3 DEF SweepTakes

LEMMA SweepFindsActiveInv == ASSUME JobsInv, SweepFindsActive PROVE JobsInv'
<1> DEFINE n == sweep.note
<1>1. n \in Generations /\ StaysStarted
  BY SweepFacts, NothingStarts DEF SweepFindsActive
<1>2. sweep' = [at |-> "working", note |-> 0, listed |-> [sweep.listed EXCEPT ![n] = "none"],
                skipped |-> sweep.skipped \cup {n}]
  BY SweepRecord DEF SweepFindsActive
<1>3. SweepOK'
  <2>1. 0 \in Notes /\ sweep.skipped \cup {n} \in SUBSET Generations /\ UNCHANGED <<life, crossed>>
    BY <1>1, SweepRecord DEF SweepFindsActive
  <2> QED BY <1>1, <1>2, <2>1, WorkingTypes
<1> QED BY <1>3, SweepMoves DEF SweepFindsActive

LEMMA SweepReportsInv == ASSUME JobsInv, SweepReports PROVE JobsInv'
<1> DEFINE n == sweep.note
           status == sweep.listed[n]
           as == IF status # "running" THEN status ELSE IF IsShell(n) THEN "cancelled" ELSE "error"
           notice == [by |-> "sweep", status |-> as]
<1>1. n \in Generations /\ status \in Settled \cup {"running"}
  BY SweepFacts DEF SweepReports
<1>2. notice \in Told /\ notice # Nothing
  BY <1>1 DEF Told, Nothing, Settled
<1>3. told' = IF told[n] # Nothing THEN told ELSE [told EXCEPT ![n] = notice]
  BY DEF SweepReports, Admit
<1> HIDE DEF notice
<1>4. /\ told' \in [Generations -> Told] /\ told'[n] # Nothing
      /\ \A m \in Generations : told[m] # Nothing => told'[m] # Nothing
  BY <1>1, <1>2, <1>3 DEF JobsInv, Conversation
<1>5. Conversation'
  BY <1>4 DEF SweepReports, JobsInv, Conversation, NoNoticeIsLost, Promised
<1>6. ObserversOK'
  BY <1>4 DEF SweepReports, JobsInv, ObserversOK, Observer, Unsettled
<1>7. SweepOK'
  <2>1. sweep.listed[n] # "none" /\ Walks("reported", n)
    BY SweepFacts DEF SweepReports
  <2>2. sweep' \in Walk /\ sweep'.at = "reported" /\ sweep'.note = n /\ sweep'.listed = sweep.listed
    BY <1>1, <2>1, WalksTypes
  <2> QED BY <1>1, <1>4, <2>1, <2>2, SweepFacts DEF SweepReports, SweepOK, Started
<1>8. Registry' /\ Table' /\ CallsOK'
  BY DEF SweepReports, JobsInv, Registry, Table, CallsOK, Unreleased, Started
<1> QED BY <1>5, <1>6, <1>7, <1>8 DEF JobsInv

LEMMA SweepAcknowledgesInv == ASSUME JobsInv, SweepAcknowledges PROVE JobsInv'
<1> DEFINE n == sweep.note
<1>1. n \in Generations /\ told[n] # Nothing /\ StaysStarted
  BY SweepFacts, NothingStarts DEF SweepAcknowledges, JobsInv, SweepOK
<1>2. sweep' = [at |-> "working", note |-> 0, listed |-> [sweep.listed EXCEPT ![n] = "none"],
                skipped |-> sweep.skipped]
  BY SweepRecord DEF SweepAcknowledges, Handles
<1>3. SweepOK'
  BY <1>1, <1>2, SweepRecord, WorkingTypes DEF SweepAcknowledges
<1>4. observers \in SUBSET observers /\ observers' = observers
  BY DEF SweepAcknowledges
<1> QED BY <1>1, <1>3, <1>4, CompleteInv DEF SweepAcknowledges

LEMMA SweepRestartsInv == ASSUME JobsInv, SweepRestarts PROVE JobsInv'
<1> DEFINE n == sweep.note
           skipped == IF Running(Job(n)) THEN sweep.skipped \cup {n} ELSE sweep.skipped
<1>1. n \in Generations /\ Started(n) /\ Job(n) \in Ids /\ n \in Notes /\ sweep.listed[n] # "none"
  BY SweepFacts DEF SweepRestarts
<1>2. /\ Start(Job(n), n) /\ UNCHANGED <<row, told, tool, observers, life, outcome>>
      /\ crossed' \subseteq Generations
  BY <1>1, SweepFacts DEF SweepRestarts
<1>3. /\ Registry'
      /\ \A g \in Generations : Started(g) => Started(g)'
      /\ StaysStarted /\ NoPromise
      /\ \A u \in Tools : tool[u].at = "blocking" => StillBlocks(tool[u].generation)
      /\ \A o \in observers : o.at = "waiting" => StillRuns(o.generation)
  BY <1>1, <1>2, StartInv
<1>4. SweepOK'
  <2>1. sweep' = [at |-> "restarted", note |-> n, listed |-> sweep.listed, skipped |-> skipped]
    BY SweepRecord DEF SweepRestarts
  <2>2. skipped \in SUBSET Generations
    BY <1>1, SweepRecord
  <2> HIDE DEF skipped
  <2>3. sweep' \in Walk
    BY <1>1, <2>1, <2>2, SweepFacts DEF Walk
  <2> QED BY <1>1, <1>2, <1>3, <2>1, <2>3, SweepFacts DEF SweepOK
<1> QED BY <1>2, <1>3, <1>4, TableStays, ConversationStays, CallsStay, ObserversStay DEF JobsInv

LEMMA SweepBackgroundsInv == ASSUME JobsInv, SweepBackgrounds PROVE JobsInv'
<1> DEFINE n == sweep.note
<1>1. n \in Generations /\ Job(n) \in Ids /\ sweep.listed[n] # "none" /\ Walks("backgrounded", n)
  BY SweepFacts DEF SweepBackgrounds
<1>2. sweep' \in Walk /\ sweep'.at = "backgrounded" /\ sweep'.note = n /\ sweep'.listed = sweep.listed
  BY <1>1, WalksTypes
<1>3. StaysStarted => SweepOK'
  BY <1>1, <1>2, SweepFacts DEF SweepBackgrounds, SweepOK, StaysStarted, Started
<1> QED BY <1>1, <1>3, ToolsHaveShape, ToMarkFacts, MarkInv DEF SweepBackgrounds

LEMMA SweepObservesInv == ASSUME JobsInv, SweepObserves PROVE JobsInv'
<1> DEFINE n == sweep.note
           new == Waits(Job(n), 0, n)
<1>1. n \in Generations /\ Job(n) \in Ids /\ n \in Notes /\ 0 \in Notes /\ StaysStarted
  BY SweepFacts, NothingStarts DEF SweepObserves
<1>2. new \in SUBSET Observer /\ \A o \in new : o.at # "reported" /\ (o.at = "waiting" => Unsettled(o))
  BY <1>1, WaitsFacts
<1>3. crossed' \subseteq Generations
  BY <1>1, SweepFacts DEF SweepObserves
<1>4. sweep' = [at |-> "working", note |-> 0, listed |-> [sweep.listed EXCEPT ![n] = "none"],
                skipped |-> sweep.skipped]
  BY SweepRecord DEF SweepObserves, Handles
<1>5. SweepOK'
  <2>1. [sweep.listed EXCEPT ![n] = "none"] \in [Generations -> Settled \cup {"none", "running"}]
    BY SweepFacts
  <2>2. sweep' \in Walk
    BY <1>4, <2>1, SweepRecord DEF Walk
  <2>3. \A m \in Generations : sweep'.listed[m] # "none" => Started(m)'
    BY <1>4, SweepFacts DEF SweepObserves, Started
  <2> QED BY <1>3, <1>4, <2>2, <2>3, SweepFacts DEF SweepObserves, SweepOK
<1>6. observers' = observers \cup new /\ UNCHANGED <<jobs, info, row, told, outcome>>
  BY DEF SweepObserves
<1>7. CallsOK'
  BY DEF SweepObserves, JobsInv, CallsOK, Unreleased
<1> HIDE DEF new
<1> QED BY <1>2, <1>5, <1>6, <1>7, ObserversJoin

-------------------------------------------------------------------------------
LEMMA JobsStepInv == ASSUME JobsInv, [Next]_vars PROVE JobsInv'
<1>1. ASSUME NEW t \in Tools, ToolStep(t) \/ InterruptTool(t) PROVE JobsInv'
  BY <1>1, BackgroundInv, BlockInv, NotifyInv, CancelJobInv, InterruptToolInv DEF ToolStep
<1>2. ASSUME NEW t \in Tools, NEW i \in Ids, NEW background \in BOOLEAN, Launch(t, i, background)
      PROVE  JobsInv'
  <2>1. CASE background = TRUE
    BY <1>2, <2>1, LaunchInv
  <2>2. CASE background = FALSE
    BY <1>2, <2>2, LaunchInv
  <2> QED BY <2>1, <2>2
<1>3. ASSUME NEW o \in observers, ObserverStep(o) PROVE JobsInv'
  BY <1>3, ReportInv, AcknowledgeInv DEF ObserverStep
<1>4. ASSUME SweepStep PROVE JobsInv'
  BY <1>4, SweepListsInv, SweepReportsInv, SweepAcknowledgesInv, SweepRestartsInv, SweepBackgroundsInv,
     SweepObservesInv, SweepFindsActiveInv, SweepTakesInv DEF SweepStep
<1>5. ASSUME UNCHANGED vars PROVE JobsInv'
  <2>1. CallsShape(tool) /\ tool' = tool
    BY <1>5, ToolsHaveShape DEF vars
  <2> QED BY <1>5, <2>1, CallsInv DEF vars
<1> QED BY <1>1, <1>2, <1>3, <1>4, <1>5, RunEndsInv, BackgroundAllInv, DieInv, StopInv DEF Next

(* Every state that jobs, tools, observers and sweep reach satisfies the   *)
(* invariant.                                                              *)
THEOREM JobsInvariant == Spec => []JobsInv
<1>1. Init => JobsInv
  BY JobsInitInv
<1>2. JobsInv /\ [Next]_vars => JobsInv'
  BY JobsStepInv
<1> QED BY <1>1, <1>2, PTL DEF Spec

(* Registry, table, calls, observers and sweep keep their types.           *)
THEOREM JobsTypes == Spec => []JobsTypeOK
<1>1. JobsInv => JobsTypeOK
  BY DEF JobsInv, Registry, Table, Conversation, CallsOK, ObserversOK, SweepOK, JobsTypeOK,
         JobInfo, Call, Observer, Walk
<1> QED BY <1>1, JobsInvariant, PTL

(* A backgrounded job whose notice is not yet admitted is in the table: a  *)
(* restart finds it, whenever the process dies (job.ts, restart.ts).       *)
THEOREM NoticesSurvive == Spec => []NoNoticeIsLost
<1>1. JobsInv => NoNoticeIsLost
  BY DEF JobsInv, Conversation
<1> QED BY <1>1, JobsInvariant, PTL

(* Whoever blocks on a job, or waits to report it, waits for the running   *)
(* job of that id, so that its end wakes them.                             *)
THEOREM NobodyWaitsForNothing == Spec => []WaitersHaveAJob
<1>1. JobsInv => WaitersHaveAJob
  <2> SUFFICES ASSUME JobsInv PROVE WaitersHaveAJob
    OBVIOUS
  <2>1. \A g \in Generations : info[g].status = "running" =>
          jobs[info[g].id] = g /\ g # 0 /\ info[jobs[info[g].id]].status = "running"
    BY DEF JobsInv, Registry
  <2>2. ASSUME NEW t \in Tools, tool[t].at = "blocking"
        PROVE  Running(tool[t].id) /\ jobs[tool[t].id] = tool[t].generation
               /\ ~info[tool[t].generation].backgrounded
    BY <2>1, <2>2 DEF JobsInv, CallsOK, Unreleased, Running
  <2>3. ASSUME NEW o \in observers, o.at = "waiting" PROVE Running(o.id) /\ jobs[o.id] = o.generation
    BY <2>1, <2>3 DEF JobsInv, ObserversOK, Observer, Unsettled, Running
  <2> QED BY <2>2, <2>3 DEF WaitersHaveAJob
<1> QED BY <1>1, JobsInvariant, PTL
-------------------------------------------------------------------------------
(***************************************************************************)
(* What the conversation is told.  A notification belongs to the job it is *)
(* named after and to those a sweep starts for it.                         *)
(***************************************************************************)

(* A job of this process. *)
Here(g) == info[g].life = life

Lives ==
  /\ \A g \in Generations : info[g].life <= life /\ (info[g].status = "running" => Here(g))
  /\ \A i \in Ids : jobs[i] # 0 => Here(jobs[i])

(* A notification the job it is named after does not have is nobody's.     *)
KnownByJob(n) ==
  info[n].note # n =>
    /\ row[n] = "none" /\ told[n] = Nothing /\ outcome[n] = "none" /\ sweep.listed[n] = "none"
    /\ \A g \in Generations : info[g].note # n
    /\ \A o \in observers : o.note # n

(* Jobs of one notification have one id; one that has it and is not in the *)
(* background is about to be put there by the sweep that started it.       *)
OneId(g) ==
  info[g].note # 0 =>
    /\ info[info[g].note].id = info[g].id
    /\ jobs[info[g].id] = g /\ ~info[g].backgrounded => sweep.at = "restarted" /\ sweep.note = info[g].note

(* What the sweep is yet to handle of earlier processes nobody touches.    *)
Awaits(n) ==
  \/ sweep.at = "boot"
  \/ sweep.listed[n] # "none" /\ ~(sweep.at \in {"restarted", "backgrounded"} /\ sweep.note = n)
LeftBehind(n) == Awaits(n) =>
  /\ \A g \in Generations \ {n} : Here(g) => info[g].note # n
  /\ ~Here(n) => /\ \A o \in observers : o.note # n
                 /\ sweep.at # "boot" => row[n] = sweep.listed[n]
SweepIsPast ==
  sweep.at \notin {"boot", "working"} /\ sweep.note \notin crossed => ~Here(sweep.note)

(* Jobs, table, observers and conversation agree on how it ended; while a  *)
(* job runs, it has not.                                                   *)
Unended(n) == outcome[n] = "none" /\ told[n] = Nothing /\ row[n] # "none"
JobsAgree(n) ==
  \A g \in Generations : info[g].note = n =>
    /\ info[g].status \in Settled => outcome[n] = info[g].status
    /\ info[g].status = "running" => Unended(n)
RowAgrees(n) ==
  /\ row[n] \in Settled => outcome[n] = row[n]
  /\ row[n] = "running" => outcome[n] = "none"
ObserversAgree(n) ==
  \A o \in observers : o.note = n =>
    IF o.at = "waiting" THEN info[o.generation].note = n
    ELSE o.status # "none" /\ outcome[n] = o.status
ToldAgrees(n) == told[n] # Nothing /\ outcome[n] # "none" => told[n].status = outcome[n]
Agree(n) == JobsAgree(n) /\ RowAgrees(n) /\ ObserversAgree(n) /\ ToldAgrees(n)

(* What the sweep has handled is skipped, crossed, done with or observed.  *)
Handled(n) ==
  sweep.at # "boot" /\ n \notin crossed \cup sweep.skipped
  /\ ~Here(n) /\ row[n] # "none" /\ sweep.listed[n] = "none" => \E o \in observers : o.note = n

NoteInv(n) ==
  /\ KnownByJob(n) /\ OneId(n) /\ LeftBehind(n) /\ Handled(n)
  /\ n \notin crossed => Agree(n)
ToldInv == Lives /\ SweepIsPast /\ \A n \in Generations : NoteInv(n)

LEMMA ToldInitInv == Init => ToldInv
<1> SUFFICES ASSUME Init PROVE ToldInv
  OBVIOUS
<1> USE DEF Init
<1>1. Unstarted.note = 0 /\ Unstarted.life = 0 /\ Unstarted.status = "none"
  BY DEF Unstarted
<1>2. Boot.at = "boot" /\ \A n \in Generations : Boot.listed[n] = "none"
  BY DEF Boot
<1>3. Lives /\ SweepIsPast
  BY <1>1, <1>2 DEF Lives, SweepIsPast, Here
<1>4. ASSUME NEW n \in Generations PROVE NoteInv(n)
  BY <1>1, <1>2 DEF NoteInv, KnownByJob, OneId, LeftBehind, Handled, Agree, JobsAgree, RowAgrees,
     ObserversAgree, ToldAgrees, Settled, Here
<1> QED BY <1>3, <1>4 DEF ToldInv

(* A change of the tool calls alone. *)
LEMMA CallsTold ==
  ASSUME ToldInv, UNCHANGED <<jobs, info, row, told, observers, sweep, life, outcome, crossed>>
  PROVE  ToldInv'
BY DEF ToldInv, Lives, SweepIsPast, NoteInv, KnownByJob, OneId, LeftBehind, Awaits, Handled, Agree, JobsAgree,
   Unended, RowAgrees, ObserversAgree, ToldAgrees, Here

(* Running jobs of one notification are one. *)
LEMMA OneRuns ==
  ASSUME JobsInv, ToldInv, NEW g \in Generations, NEW h \in Generations,
         info[g].status = "running", info[h].status = "running", info[g].note # 0, info[h].note = info[g].note
  PROVE  g = h
<1>1. info[g].id = info[h].id
  BY DEF ToldInv, NoteInv, OneId
<1> QED BY <1>1 DEF JobsInv, Registry

(* Notes and lives are numbers. *)
LEMMA InfoFacts ==
  ASSUME JobsInv, NEW g \in Generations
  PROVE  /\ info \in [Generations -> JobInfo] /\ info[g] \in JobInfo /\ info[g].note \in Notes
         /\ info[g].life \in Nat /\ life \in Nat
         /\ info[g].note # 0 => info[g].note \in Generations
BY DEF JobsInv, Registry, SweepOK, JobInfo

(* A running job settles. *)
LEMMA SettlesTold ==
  ASSUME JobsInv, ToldInv, NEW g \in Generations, NEW status \in Settled, NEW calls,
         info[g].status = "running",
         info' = [info EXCEPT ![g].status = status], KeepOutcome(info[g].note, status),
         Resolve(g, status, calls), UNCHANGED <<jobs, told, sweep, life, crossed>>
  PROVE  ToldInv'
<1> DEFINE m == info[g].note
<1>1. \A h \in Generations :
        /\ info'[h].id = info[h].id /\ info'[h].note = info[h].note /\ info'[h].life = info[h].life
        /\ info'[h].backgrounded = info[h].backgrounded
        /\ info'[h].status = IF h = g THEN status ELSE info[h].status
  BY InfoFacts DEF JobInfo
<1>2. \A n \in Generations :
        /\ row'[n] = IF n = m THEN status ELSE row[n]
        /\ outcome'[n] = IF n = m THEN status ELSE outcome[n]
  BY DEF KeepOutcome, JobsInv, Table
<1>3. \A p \in observers' : \E o \in observers :
        \/ p = o /\ ~(o.generation = g /\ o.at = "waiting")
        \/ /\ o.generation = g /\ o.at = "waiting" /\ p.generation = g /\ p.at = "reporting"
           /\ p.status = status /\ p.note = IF o.note = 0 THEN m ELSE o.note
  <2> SUFFICES ASSUME NEW p \in observers'
               PROVE  \E o \in observers :
                 \/ p = o /\ ~(o.generation = g /\ o.at = "waiting")
                 \/ /\ o.generation = g /\ o.at = "waiting" /\ p.generation = g /\ p.at = "reporting"
                    /\ p.status = status /\ p.note = IF o.note = 0 THEN m ELSE o.note
    OBVIOUS
  <2>1. PICK o \in observers :
          p = IF o.generation = g /\ o.at = "waiting"
                THEN [o EXCEPT !.at = "reporting", !.status = status, !.note = IF @ = 0 THEN info[g].note ELSE @]
                ELSE o
    BY DEF Resolve
  <2>2. o \in Observer
    BY DEF JobsInv, ObserversOK
  <2>3. CASE o.generation = g /\ o.at = "waiting"
    <3>1. p = [o EXCEPT !.at = "reporting", !.status = status, !.note = IF @ = 0 THEN info[g].note ELSE @]
      BY <2>1, <2>3
    <3>2. /\ p.generation = g /\ p.at = "reporting"
          /\ p.status = status /\ p.note = IF o.note = 0 THEN m ELSE o.note
      BY <2>2, <2>3, <3>1 DEF Observer
    <3> QED BY <2>3, <3>2
  <2>4. CASE ~(o.generation = g /\ o.at = "waiting")
    <3>1. p = o
      BY <2>1, <2>4
    <3> QED BY <2>4, <3>1
  <2> QED BY <2>3, <2>4
<1>4. \A o \in observers : o.note # 0 => \E p \in observers' : p.note = o.note
  <2> SUFFICES ASSUME NEW o \in observers, o.note # 0 PROVE \E p \in observers' : p.note = o.note
    OBVIOUS
  <2>1. CASE o.generation = g /\ o.at = "waiting"
    <3> DEFINE p == [o EXCEPT !.at = "reporting", !.status = status, !.note = IF @ = 0 THEN info[g].note ELSE @]
    <3>1. p \in observers'
      BY <2>1 DEF Resolve
    <3>2. p.note = o.note
      BY DEF JobsInv, ObserversOK, Observer
    <3> QED BY <3>1, <3>2
  <2>2. CASE ~(o.generation = g /\ o.at = "waiting")
    BY <2>2 DEF Resolve
  <2> QED BY <2>1, <2>2
<1>5. Here(g)
  BY DEF ToldInv, Lives
<1>6. Lives' /\ SweepIsPast'
  <2>1. \A i \in Ids : jobs[i] # 0 => jobs[i] \in Generations
    BY DEF JobsInv, Registry
  <2>2. sweep.at \notin {"boot", "working"} => sweep.note \in Generations
    BY DEF JobsInv, SweepOK, Walk
  <2> QED BY <1>1, <2>1, <2>2 DEF ToldInv, Lives, SweepIsPast, Here, Settled
<1>7. ASSUME NEW n \in Generations PROVE NoteInv(n)'
  <2> HIDE DEF m
  <2>0. NoteInv(n)
    BY DEF ToldInv
  <2>1. KnownByJob(n)'
    <3>1. info[n].note # n => n # m
      BY <2>0 DEF NoteInv, KnownByJob, m
    <3> QED BY <2>0, <3>1, <1>1, <1>2, <1>3 DEF NoteInv, KnownByJob
  <2>2. OneId(n)'
    BY <2>0, <1>1, InfoFacts DEF NoteInv, OneId
  <2>3. LeftBehind(n)'
    <3> SUFFICES ASSUME Awaits(n) PROVE LeftBehind(n)'
      BY DEF LeftBehind, Awaits
    <3>1. ~Here(n) => n # m
      BY <2>0, <1>5 DEF NoteInv, LeftBehind, m
    <3> QED BY <2>0, <3>1, <1>1, <1>2, <1>3 DEF NoteInv, LeftBehind, Here
  <2>4. n \notin crossed /\ n = m => Unended(n)
    BY <2>0 DEF NoteInv, Agree, JobsAgree, m
  <2>5. Handled(n)'
    <3>1. n \notin crossed /\ row'[n] # "none" => row[n] # "none"
      BY <1>2, <2>4 DEF Unended
    <3> QED BY <2>0, <3>1, <1>1, <1>4 DEF NoteInv, Handled, Here
  <2>6. ASSUME n \notin crossed, n # m PROVE Agree(n)'
    <3>1. Agree(n)
      BY <2>0, <2>6 DEF NoteInv
    <3>2. JobsAgree(n)'
      BY <3>1, <2>6, <1>1, <1>2 DEF Agree, JobsAgree, Unended, m
    <3>3. RowAgrees(n)' /\ ToldAgrees(n)'
      BY <3>1, <2>6, <1>2 DEF Agree, RowAgrees, ToldAgrees
    <3>4. ObserversAgree(n)'
      <4> SUFFICES ASSUME NEW p \in observers', p.note = n
                   PROVE  IF p.at = "waiting" THEN info'[p.generation].note = n
                          ELSE p.status # "none" /\ outcome'[n] = p.status
        BY DEF ObserversAgree
      <4>1. PICK o \in observers :
              \/ p = o /\ ~(o.generation = g /\ o.at = "waiting")
              \/ /\ o.generation = g /\ o.at = "waiting" /\ p.generation = g /\ p.at = "reporting"
                 /\ p.status = status /\ p.note = IF o.note = 0 THEN m ELSE o.note
        BY <1>3
      <4>2. o.generation \in Generations
        BY DEF JobsInv, ObserversOK, Observer
      <4>3. CASE p = o
        BY <4>2, <4>3, <3>1, <2>6, <1>1, <1>2 DEF Agree, ObserversAgree
      <4>4. CASE o.generation = g /\ o.at = "waiting" /\ p.note = IF o.note = 0 THEN m ELSE o.note
        BY <4>4, <3>1, <2>6 DEF Agree, ObserversAgree, m
      <4> QED BY <4>1, <4>3, <4>4
    <3> QED BY <3>2, <3>3, <3>4 DEF Agree
  <2>7. ASSUME n \notin crossed, n = m PROVE Agree(n)'
    <3>1. Agree(n) /\ Unended(n) /\ outcome'[n] = status /\ row'[n] = status /\ status # "none"
      BY <2>0, <2>4, <2>7, <1>2 DEF NoteInv, Settled
    <3>2. JobsAgree(n)'
      <4> SUFFICES ASSUME NEW h \in Generations, info[h].note = n
                   PROVE  /\ info'[h].status \in Settled => outcome'[n] = info'[h].status
                          /\ info'[h].status # "running"
        BY <1>1 DEF JobsAgree
      <4>1. CASE h = g
        BY <4>1, <3>1, <1>1 DEF Settled
      <4>2. CASE h # g
        <5>1. info[h].status # "running"
          BY <4>2, <2>7, OneRuns DEF m
        <5>2. info[h].status \notin Settled
          BY <3>1 DEF Agree, JobsAgree, Unended, Settled
        <5> QED BY <5>1, <5>2, <4>2, <1>1
      <4> QED BY <4>1, <4>2
    <3>3. RowAgrees(n)' /\ ToldAgrees(n)'
      BY <3>1 DEF RowAgrees, ToldAgrees, Unended, Settled
    <3>4. ObserversAgree(n)'
      <4> SUFFICES ASSUME NEW p \in observers', p.note = n
                   PROVE  IF p.at = "waiting" THEN info'[p.generation].note = n
                          ELSE p.status # "none" /\ outcome'[n] = p.status
        BY DEF ObserversAgree
      <4>1. PICK o \in observers :
              \/ p = o /\ ~(o.generation = g /\ o.at = "waiting")
              \/ p.at = "reporting" /\ p.status = status
        BY <1>3
      <4>2. o.generation \in Generations
        BY DEF JobsInv, ObserversOK, Observer
      <4>3. CASE p = o
        BY <4>2, <4>3, <3>1, <1>1 DEF Agree, ObserversAgree, Unended
      <4> QED BY <4>1, <4>3, <3>1
    <3> QED BY <3>2, <3>3, <3>4 DEF Agree
  <2>8. n \notin crossed' => Agree(n)'
    BY <2>6, <2>7
  <2> QED BY <2>1, <2>2, <2>3, <2>5, <2>8 DEF NoteInv
<1> QED BY <1>6, <1>7 DEF ToldInv

(* Nothing but the steps of the sweep, observers and tools: no job changes. *)
LEMMA CancelTold ==
  ASSUME JobsInv, ToldInv, NEW i \in Ids, NEW calls, Cancel(i, calls),
         UNCHANGED <<jobs, told, sweep, life, crossed>>
  PROVE  ToldInv'
<1>1. CASE ~Running(i)
  BY <1>1, CallsTold DEF Cancel
<1>2. CASE Running(i)
  <2>1. jobs[i] \in Generations /\ info[jobs[i]].status = "running" /\ "cancelled" \in Settled
    BY <1>2 DEF Running, JobsInv, Registry, Settled
  <2> QED BY <1>2, <2>1, SettlesTold DEF Cancel
<1> QED BY <1>1, <1>2

-------------------------------------------------------------------------------
(* A job is started: joined, or given a number that is not in use.         *)
LEMMA StartFacts ==
  ASSUME JobsInv, NEW i \in Ids, NEW note \in Notes, Start(i, note)
  PROVE  \/ Running(i) /\ UNCHANGED <<jobs, info>>
         \/ /\ ~Running(i)
            /\ \E g \in Generations :
                 /\ info[g].note = 0 /\ info[g].status = "none"
                 /\ info'[g] = [id |-> i, status |-> "running", backgrounded |-> FALSE,
                                note |-> note, life |-> life]
                 /\ \A h \in Generations \ {g} : info'[h] = info[h]
                 /\ jobs'[i] = g /\ \A j \in Ids \ {i} : jobs'[j] = jobs[j]
<1> SUFFICES ASSUME ~Running(i), NEW g \in Generations, info[g].status = "none",
                    info' = [info EXCEPT ![g] = [id |-> i, status |-> "running", backgrounded |-> FALSE,
                                                 note |-> note, life |-> life]],
                    jobs' = [jobs EXCEPT ![i] = g]
             PROVE  /\ info[g].note = 0
                    /\ info'[g] = [id |-> i, status |-> "running", backgrounded |-> FALSE,
                                   note |-> note, life |-> life]
                    /\ \A h \in Generations \ {g} : info'[h] = info[h]
                    /\ jobs'[i] = g /\ \A j \in Ids \ {i} : jobs'[j] = jobs[j]
  BY DEF Start
<1>1. info[g].note = 0 /\ jobs \in [Ids -> Notes] /\ info \in [Generations -> JobInfo]
  BY DEF JobsInv, Registry
<1> QED BY <1>1

LEMMA StartLives ==
  ASSUME JobsInv, ToldInv, NEW i \in Ids, NEW note, NEW g \in Generations, info[g].note = 0,
         info'[g] = [id |-> i, status |-> "running", backgrounded |-> FALSE, note |-> note, life |-> life],
         \A h \in Generations \ {g} : info'[h] = info[h],
         jobs'[i] = g, \A j \in Ids \ {i} : jobs'[j] = jobs[j], life' = life
  PROVE  /\ Lives'
         /\ row[g] = "none" /\ told[g] = Nothing /\ outcome[g] = "none" /\ sweep.listed[g] = "none"
         /\ \A n \in Generations : info[n].note # g
         /\ \A o \in observers : o.note # g
         /\ \A n \in Generations : info[n].note # 0 => info[n].note \in Generations \ {g}
<1>1. /\ row[g] = "none" /\ told[g] = Nothing /\ outcome[g] = "none" /\ sweep.listed[g] = "none"
      /\ \A n \in Generations : info[n].note # g
      /\ \A o \in observers : o.note # g
  BY DEF ToldInv, NoteInv, KnownByJob
<1>2. life \in Nat /\ \A j \in Ids : jobs[j] # 0 => jobs[j] \in Generations
  BY InfoFacts DEF JobsInv, Registry
<1>3. Lives'
  BY <1>2 DEF ToldInv, Lives, Here
<1> QED BY <1>1, <1>3, InfoFacts

LEMMA LaunchTold ==
  ASSUME JobsInv, ToldInv, NEW t \in Tools, NEW i \in Ids, NEW background \in BOOLEAN, Launch(t, i, background)
  PROVE  ToldInv'
<1>1. 0 \in Notes /\ Start(i, 0) /\ UNCHANGED <<row, told, observers, sweep, life, outcome, crossed>>
  BY DEF Launch
<1>2. CASE UNCHANGED <<jobs, info>>
  BY <1>1, <1>2, CallsTold
<1>3. ASSUME NEW g \in Generations, info[g].note = 0, info[g].status = "none",
             info'[g] = [id |-> i, status |-> "running", backgrounded |-> FALSE, note |-> 0, life |-> life],
             \A h \in Generations \ {g} : info'[h] = info[h],
             jobs'[i] = g, \A j \in Ids \ {i} : jobs'[j] = jobs[j]
      PROVE  ToldInv'
  <2>1. /\ Lives'
        /\ row[g] = "none" /\ told[g] = Nothing /\ outcome[g] = "none" /\ sweep.listed[g] = "none"
        /\ \A n \in Generations : info[n].note # g
        /\ \A o \in observers : o.note # g
        /\ \A n \in Generations : info[n].note # 0 => info[n].note \in Generations \ {g}
    BY <1>1, <1>3, StartLives
  <2>2. SweepIsPast'
    <3>1. sweep.at \notin {"boot", "working"} => sweep.note \in Generations /\ sweep.note # g
      BY <2>1 DEF JobsInv, SweepOK, Walk
    <3> QED BY <3>1, <1>1, <1>3 DEF ToldInv, SweepIsPast, Here
  <2>3. ASSUME NEW n \in Generations PROVE NoteInv(n)'
    <3>0. NoteInv(n)
      BY DEF ToldInv
    <3>1. KnownByJob(n)'
      BY <3>0, <2>1, <1>1, <1>3 DEF NoteInv, KnownByJob
    <3>2. OneId(n)'
      <4>1. CASE n = g
        BY <4>1, <1>3 DEF OneId
      <4>2. CASE n # g /\ info[n].note # 0
        <5>1. info'[n] = info[n] /\ info'[info[n].note] = info[info[n].note] /\ info[n].id \in Ids
          BY <4>2, <2>1, <1>3 DEF JobsInv, Registry, Started
        <5> QED BY <4>2, <5>1, <3>0, <1>1, <1>3 DEF NoteInv, OneId
      <4> QED BY <4>1, <4>2, <1>3 DEF OneId
    <3>3. LeftBehind(n)' /\ Handled(n)'
      BY <3>0, <2>1, <1>1, <1>3 DEF NoteInv, LeftBehind, Awaits, Handled, Here
    <3>4. ASSUME n \notin crossed PROVE Agree(n)'
      <4>1. Agree(n)
        BY <3>0, <3>4 DEF NoteInv
      <4>2. JobsAgree(n)'
        BY <4>1, <1>1, <1>3 DEF Agree, JobsAgree, Unended
      <4>3. RowAgrees(n)' /\ ToldAgrees(n)'
        BY <4>1, <1>1 DEF Agree, RowAgrees, ToldAgrees
      <4>4. ObserversAgree(n)'
        <5> SUFFICES ASSUME NEW o \in observers, o.note = n
                     PROVE  IF o.at = "waiting" THEN info'[o.generation].note = n
                            ELSE o.status # "none" /\ outcome[n] = o.status
          BY <1>1 DEF ObserversAgree
        <5>1. o.generation \in Generations
          BY DEF JobsInv, ObserversOK, Observer
        <5>2. o.at = "waiting" => o.generation # g
          BY <4>1, <1>3 DEF Agree, ObserversAgree
        <5> QED BY <4>1, <5>1, <5>2, <1>3 DEF Agree, ObserversAgree
      <4> QED BY <4>2, <4>3, <4>4 DEF Agree
    <3> QED BY <3>1, <3>2, <3>3, <3>4, <1>1 DEF NoteInv
  <2> QED BY <2>1, <2>2, <2>3 DEF ToldInv
<1> QED BY <1>1, <1>2, <1>3, StartFacts

LEMMA SweepRestartsTold == ASSUME JobsInv, ToldInv, SweepRestarts PROVE ToldInv'
<1> DEFINE m == sweep.note
           i == Job(m)
<1>1. m \in Generations /\ i \in Ids /\ m \in Notes /\ sweep.listed[m] = "running" /\ sweep.at = "taken"
  BY SweepFacts DEF SweepRestarts
<1>2. /\ Start(i, m) /\ UNCHANGED <<row, told, observers, life, outcome>>
      /\ crossed' = IF told[m] = Nothing THEN crossed ELSE crossed \cup {m}
  BY DEF SweepRestarts
<1>3. /\ sweep'.at = "restarted" /\ sweep'.note = m /\ sweep'.listed = sweep.listed
      /\ sweep'.skipped = IF Running(i) THEN sweep.skipped \cup {m} ELSE sweep.skipped
  BY SweepRecord DEF SweepRestarts
<1>4. info[m].note = m
  BY <1>1 DEF ToldInv, NoteInv, KnownByJob
<1>5. m \notin crossed' => m \notin crossed /\ ~Here(m) /\ Unended(m)
  <2> SUFFICES ASSUME m \notin crossed, told[m] = Nothing PROVE ~Here(m) /\ Unended(m)
    BY <1>2
  <2>1. ~Here(m)
    BY <1>1 DEF ToldInv, SweepIsPast
  <2>2. row[m] = "running"
    BY <1>1, <2>1 DEF ToldInv, NoteInv, LeftBehind, Awaits
  <2> QED BY <2>1, <2>2, <1>1 DEF ToldInv, NoteInv, Agree, RowAgrees, Unended
<1> HIDE DEF m, i
<1>6. ASSUME NEW n \in Generations PROVE LeftBehind(n) /\ (Awaits(n)' => Awaits(n) /\ n # m)
  BY <1>1, <1>3 DEF ToldInv, NoteInv, Awaits
<1>7. CASE Running(i) /\ UNCHANGED <<jobs, info>>
  <2>1. Lives' /\ SweepIsPast'
    BY <1>2, <1>3, <1>5, <1>7 DEF ToldInv, Lives, SweepIsPast, Here
  <2>2. ASSUME NEW n \in Generations PROVE NoteInv(n)'
    <3>0. NoteInv(n)
      BY DEF ToldInv
    <3>1. KnownByJob(n)' /\ OneId(n)'
      BY <3>0, <1>1, <1>2, <1>3, <1>7 DEF NoteInv, KnownByJob, OneId
    <3>2. LeftBehind(n)'
      BY <1>1, <1>2, <1>3, <1>6, <1>7 DEF LeftBehind, Here
    <3>3. Handled(n)'
      BY <3>0, <1>1, <1>2, <1>3, <1>7 DEF NoteInv, Handled, Here
    <3>4. n \notin crossed' => Agree(n)'
      BY <3>0, <1>2, <1>7 DEF NoteInv, Agree, JobsAgree, Unended, RowAgrees, ObserversAgree, ToldAgrees
    <3> QED BY <3>1, <3>2, <3>3, <3>4 DEF NoteInv
  <2> QED BY <2>1, <2>2 DEF ToldInv
<1>8. ASSUME ~Running(i), NEW g \in Generations, info[g].note = 0, info[g].status = "none",
             info'[g] = [id |-> i, status |-> "running", backgrounded |-> FALSE, note |-> m, life |-> life],
             \A h \in Generations \ {g} : info'[h] = info[h],
             jobs'[i] = g, \A j \in Ids \ {i} : jobs'[j] = jobs[j]
      PROVE  ToldInv'
  <2>1. /\ Lives'
        /\ row[g] = "none" /\ told[g] = Nothing /\ outcome[g] = "none" /\ sweep.listed[g] = "none"
        /\ \A n \in Generations : info[n].note # g
        /\ \A o \in observers : o.note # g
        /\ \A n \in Generations : info[n].note # 0 => info[n].note \in Generations \ {g}
    BY <1>1, <1>2, <1>8, StartLives
  <2>2. m # g /\ info'[m] = info[m] /\ m # 0
    BY <1>1, <1>4, <1>8
  <2>3. SweepIsPast'
    BY <1>2, <1>3, <1>5, <2>2 DEF SweepIsPast, Here
  <2>4. ASSUME NEW n \in Generations PROVE NoteInv(n)'
    <3>0. NoteInv(n)
      BY DEF ToldInv
    <3>1. KnownByJob(n)'
      BY <3>0, <2>1, <2>2, <1>1, <1>2, <1>3, <1>4, <1>8 DEF NoteInv, KnownByJob
    <3>2. OneId(n)'
      <4>1. CASE n = g
        <5>1. info'[n].note = m /\ info'[n].id = i /\ info'[m].id = i
          BY <4>1, <2>2, <1>8 DEF i, Job
        <5> QED BY <5>1, <1>3 DEF OneId
      <4>2. CASE n # g /\ info[n].note # 0
        <5>1. info'[n] = info[n] /\ info'[info[n].note] = info[info[n].note] /\ info[n].id \in Ids
          BY <4>2, <2>1, <1>8 DEF JobsInv, Registry, Started
        <5> QED BY <4>2, <5>1, <3>0, <1>1, <1>8 DEF NoteInv, OneId
      <4> QED BY <4>1, <4>2, <1>8 DEF OneId
    <3>3. LeftBehind(n)'
      BY <2>1, <1>1, <1>2, <1>3, <1>6, <1>8 DEF LeftBehind, Here
    <3>4. Handled(n)'
      BY <3>0, <2>1, <1>1, <1>2, <1>3, <1>8 DEF NoteInv, Handled, Here
    <3>5. ASSUME n \notin crossed' PROVE Agree(n)'
      <4>1. Agree(n) /\ (n = m => Unended(n))
        BY <3>0, <3>5, <1>2, <1>5 DEF NoteInv
      <4>2. JobsAgree(n)'
        <5> SUFFICES ASSUME NEW h \in Generations, info'[h].note = n
                     PROVE  /\ info'[h].status \in Settled => outcome'[n] = info'[h].status
                            /\ info'[h].status = "running" => Unended(n)'
          BY DEF JobsAgree
        <5>1. CASE h = g
          BY <5>1, <4>1, <1>2, <1>8 DEF Unended, Settled
        <5>2. CASE h # g
          BY <5>2, <4>1, <1>2, <1>8 DEF Agree, JobsAgree, Unended
        <5> QED BY <5>1, <5>2
      <4>3. RowAgrees(n)' /\ ToldAgrees(n)'
        BY <4>1, <1>2 DEF Agree, RowAgrees, ToldAgrees
      <4>4. ObserversAgree(n)'
        <5> SUFFICES ASSUME NEW o \in observers, o.note = n
                     PROVE  IF o.at = "waiting" THEN info'[o.generation].note = n
                            ELSE o.status # "none" /\ outcome[n] = o.status
          BY <1>2 DEF ObserversAgree
        <5>1. o.generation \in Generations
          BY DEF JobsInv, ObserversOK, Observer
        <5>2. o.at = "waiting" => o.generation # g
          BY <4>1, <1>8 DEF Agree, ObserversAgree
        <5> QED BY <4>1, <5>1, <5>2, <1>8 DEF Agree, ObserversAgree
      <4> QED BY <4>2, <4>3, <4>4 DEF Agree
    <3> QED BY <3>1, <3>2, <3>3, <3>4, <3>5 DEF NoteInv
  <2> QED BY <2>1, <2>3, <2>4 DEF ToldInv
<1> QED BY <1>1, <1>2, <1>7, <1>8, StartFacts

-------------------------------------------------------------------------------
(* Jobs are put in the background. *)
LEMMA MarkFacts ==
  ASSUME JobsInv, NEW gs \in SUBSET Generations, NEW calls, Mark(gs, calls),
         \A g \in gs : info[g].status \in Settled \cup {"running"},
         (\A g \in gs : info[g].status = "running") \/ (\A g, h \in gs : g = h)
  PROVE  /\ \A g \in Generations :
              /\ info'[g].id = info[g].id /\ info'[g].status = info[g].status /\ info'[g].life = info[g].life
              /\ info'[g].note = (IF g \in gs THEN NoteOf(g) ELSE info[g].note)
              /\ (info'[g].backgrounded <=> g \in gs \/ info[g].backgrounded)
         /\ \A n \in Generations :
              \/ row'[n] = row[n] /\ outcome'[n] = outcome[n] /\ \A g \in gs : NoteOf(g) # n
              \/ \E g \in gs : /\ NoteOf(g) = n /\ row'[n] = info[g].status
                               /\ outcome'[n] = IF info[g].status \in Settled THEN info[g].status ELSE outcome[n]
<1>1. ASSUME NEW g \in Generations
      PROVE  /\ info'[g].id = info[g].id /\ info'[g].status = info[g].status /\ info'[g].life = info[g].life
             /\ info'[g].note = (IF g \in gs THEN NoteOf(g) ELSE info[g].note)
             /\ (info'[g].backgrounded <=> g \in gs \/ info[g].backgrounded)
  <2>1. CASE g \in gs
    <3>1. info'[g] = [info[g] EXCEPT !.backgrounded = TRUE, !.note = NoteOf(g)] /\ info[g] \in JobInfo
      BY <2>1, InfoFacts DEF Mark
    <3> QED BY <2>1, <3>1 DEF JobInfo
  <2>2. CASE g \notin gs
    <3>1. info'[g] = info[g]
      BY <2>2 DEF Mark
    <3> QED BY <2>2, <3>1
  <2> QED BY <2>1, <2>2
<1>2. ASSUME NEW n \in Generations
      PROVE  \/ row'[n] = row[n] /\ outcome'[n] = outcome[n] /\ \A g \in gs : NoteOf(g) # n
             \/ \E g \in gs : /\ NoteOf(g) = n /\ row'[n] = info[g].status
                              /\ outcome'[n] = IF info[g].status \in Settled THEN info[g].status ELSE outcome[n]
  <2>1. CASE Marked(gs, n) = {}
    BY <2>1 DEF Mark, Marked
  <2>2. CASE Marked(gs, n) # {}
    <3> DEFINE c == CHOOSE g \in Marked(gs, n) : TRUE
    <3>1. c \in gs /\ NoteOf(c) = n
      BY <2>2 DEF Marked
    <3>2. row'[n] = info[c].status
      BY <2>2 DEF Mark
    <3>3. outcome'[n] = IF \E g \in Marked(gs, n) : info[g].status \in Settled THEN info[c].status ELSE outcome[n]
      BY DEF Mark
    <3> HIDE DEF c
    <3>4. (\E g \in Marked(gs, n) : info[g].status \in Settled) <=> info[c].status \in Settled
      BY <3>1 DEF Marked, Settled
    <3> QED BY <3>1, <3>2, <3>3, <3>4
  <2> QED BY <2>1, <2>2
<1> QED BY <1>1, <1>2

LEMMA MarkTold ==
  ASSUME JobsInv, ToldInv, NEW gs \in SUBSET Generations, NEW calls, Mark(gs, calls),
         \A g \in gs : info[g].status \in Settled \cup {"running"},
         (\A g \in gs : info[g].status = "running") \/ (\A g, h \in gs : g = h),
         \A g \in gs : ~info[g].backgrounded /\ info[g].id \in Ids /\ jobs[info[g].id] = g,
         UNCHANGED <<jobs, told, observers, life, crossed>>,
         sweep'.note = sweep.note, sweep'.listed = sweep.listed, sweep'.skipped = sweep.skipped,
         \/ sweep'.at = sweep.at
         \/ sweep.at = "restarted" /\ sweep'.at = "backgrounded" /\ gs = ToMark(Job(sweep.note))
  PROVE  ToldInv'
<1>1. \A g \in Generations :
        /\ info'[g].id = info[g].id /\ info'[g].status = info[g].status /\ info'[g].life = info[g].life
        /\ info'[g].note = (IF g \in gs THEN NoteOf(g) ELSE info[g].note)
        /\ (info'[g].backgrounded <=> g \in gs \/ info[g].backgrounded)
  BY MarkFacts
<1>2. \A n \in Generations :
        \/ row'[n] = row[n] /\ outcome'[n] = outcome[n] /\ \A g \in gs : NoteOf(g) # n
        \/ \E g \in gs : /\ NoteOf(g) = n /\ row'[n] = info[g].status
                         /\ outcome'[n] = IF info[g].status \in Settled THEN info[g].status ELSE outcome[n]
  BY MarkFacts
<1>3. \A g \in gs : Here(g)
  BY DEF ToldInv, Lives
<1>4. \A g \in Generations : NoteOf(g) = IF info[g].note = 0 THEN g ELSE info[g].note
  BY DEF NoteOf
<1>5. Lives' /\ SweepIsPast'
  <2>1. \A i \in Ids : jobs[i] # 0 => jobs[i] \in Generations
    BY DEF JobsInv, Registry
  <2>2. sweep.at \notin {"boot", "working"} => sweep.note \in Generations
    BY DEF JobsInv, SweepOK, Walk
  <2> QED BY <1>1, <2>1, <2>2 DEF ToldInv, Lives, SweepIsPast, Here
<1>6. ASSUME NEW n \in Generations PROVE NoteInv(n)'
  <2>0. NoteInv(n)
    BY DEF ToldInv
  <2>1. ASSUME NEW g \in gs, NoteOf(g) = n, ~Here(n) PROVE g # n /\ info[g].note = n
    BY <2>1, <1>3, <1>4
  <2>2. KnownByJob(n)'
    <3> SUFFICES ASSUME info'[n].note # n PROVE KnownByJob(n)'
      BY DEF KnownByJob
    <3>1. info[n].note # n /\ \A g \in gs : NoteOf(g) # n
      BY <1>1, <1>4, <2>0 DEF NoteInv, KnownByJob
    <3> QED BY <3>1, <2>0, <1>1, <1>2 DEF NoteInv, KnownByJob
  <2>3. OneId(n)'
    <3> SUFFICES ASSUME info'[n].note # 0
                 PROVE  /\ info'[info'[n].note].id = info'[n].id
                        /\ jobs[info'[n].id] = n /\ ~info'[n].backgrounded =>
                             sweep'.at = "restarted" /\ sweep'.note = info'[n].note
      BY DEF OneId
    <3>1. CASE n \in gs
      <4>1. info'[n].backgrounded /\ info'[n].note = NoteOf(n)
        BY <3>1, <1>1
      <4>2. NoteOf(n) \in Generations /\ info[NoteOf(n)].id = info[n].id
        BY <2>0, <1>4, InfoFacts DEF NoteInv, OneId
      <4> QED BY <4>1, <4>2, <1>1
    <3>2. CASE n \notin gs
      <4>1. info'[n].note = info[n].note /\ info[n].note \in Generations
            /\ (info'[n].backgrounded <=> info[n].backgrounded)
        <5>1. info'[n].note = info[n].note /\ (info'[n].backgrounded <=> info[n].backgrounded)
          BY <3>2, <1>1
        <5> QED BY <5>1, InfoFacts
      <4>2. info[info[n].note].id = info[n].id /\ info'[info[n].note].id = info[n].id /\ info'[n].id = info[n].id
        BY <4>1, <2>0, <1>1 DEF NoteInv, OneId
      <4>3. ASSUME jobs[info[n].id] = n, ~info[n].backgrounded
            PROVE  sweep'.at = "restarted" /\ sweep'.note = info[n].note
        <5>1. sweep.at = "restarted" /\ sweep.note = info[n].note
          BY <4>1, <4>3, <2>0 DEF NoteInv, OneId
        <5>2. gs # ToMark(Job(sweep.note))
          <6>1. Job(sweep.note) = info[n].id
            BY <4>2, <5>1 DEF Job
          <6>2. n \in ToMark(info[n].id)
            BY <4>3 DEF ToMark
          <6> QED BY <3>2, <6>1, <6>2
        <5> QED BY <5>1, <5>2
      <4> QED BY <4>1, <4>2, <4>3
    <3> QED BY <3>1, <3>2
  <2>4. LeftBehind(n)'
    <3> SUFFICES ASSUME Awaits(n)' PROVE LeftBehind(n)'
      BY DEF LeftBehind
    <3>1. Awaits(n)
      BY DEF Awaits
    <3>2. \A g \in Generations \ {n} : Here(g) => info[g].note # n
      BY <3>1, <2>0 DEF NoteInv, LeftBehind
    <3>3. \A g \in Generations \ {n} : Here(g)' => info'[g].note # n
      BY <3>2, <1>1, <1>4 DEF Here
    <3>4. ~Here(n) => row'[n] = row[n]
      BY <3>2, <2>1, <1>2, <1>3
    <3> QED BY <3>1, <3>3, <3>4, <2>0, <1>1 DEF NoteInv, LeftBehind, Here
  <2>5. Handled(n)'
    <3> SUFFICES ASSUME sweep.at # "boot", n \notin crossed \cup sweep.skipped, ~Here(n), row'[n] # "none",
                        sweep.listed[n] = "none"
                 PROVE  \E o \in observers : o.note = n
      BY <1>1 DEF Handled, Here
    <3>1. ASSUME NEW g \in gs, NoteOf(g) = n PROVE FALSE
      <4>1. info[g].note = n
        BY <3>1, <2>1
      <4>2. sweep.at = "restarted" /\ sweep.note = n
        BY <4>1 DEF ToldInv, NoteInv, OneId
      <4> QED BY <4>2, SweepFacts
    <3> QED BY <3>1, <2>0, <1>2 DEF NoteInv, Handled
  <2>6. ASSUME n \notin crossed PROVE Agree(n)'
    <3>1. Agree(n)
      BY <2>0, <2>6 DEF NoteInv
    <3>2. CASE info[n].note = n
      <4>1. \A g \in Generations : info'[g].note = n <=> info[g].note = n
        BY <3>2, <1>1, <1>4
      <4>2. outcome'[n] = outcome[n]
            /\ (row'[n] = row[n] \/ \E g \in Generations : info[g].note = n /\ row'[n] = info[g].status
                                                           /\ info[g].status \in Settled \cup {"running"})
        BY <3>1, <3>2, <1>2, <1>4 DEF Agree, JobsAgree
      <4>3. JobsAgree(n)'
        BY <3>1, <4>1, <4>2, <1>1 DEF Agree, JobsAgree, Unended, Settled
      <4>4. RowAgrees(n)'
        BY <3>1, <4>2 DEF Agree, RowAgrees, JobsAgree, Unended
      <4>5. ObserversAgree(n)' /\ ToldAgrees(n)'
        BY <3>1, <4>1, <4>2 DEF Agree, ObserversAgree, ToldAgrees, JobsInv, ObserversOK, Observer
      <4> QED BY <4>3, <4>4, <4>5 DEF Agree
    <3>3. CASE info[n].note # n
      <4>1. /\ row[n] = "none" /\ told[n] = Nothing /\ outcome[n] = "none"
            /\ \A g \in Generations : info[g].note # n
            /\ \A o \in observers : o.note # n
        BY <3>3, <2>0 DEF NoteInv, KnownByJob
      <4>2. \A g \in Generations : info'[g].note = n => g = n /\ n \in gs
        BY <4>1, <1>1, <1>4
      <4>3. \/ row'[n] = row[n] /\ outcome'[n] = outcome[n] /\ ~(n \in gs /\ NoteOf(n) = n)
            \/ /\ row'[n] = info[n].status /\ info[n].status \in Settled \cup {"running"}
               /\ outcome'[n] = IF info[n].status \in Settled THEN info[n].status ELSE outcome[n]
        BY <4>1, <1>2, <1>4
      <4>4. JobsAgree(n)'
        BY <4>1, <4>2, <4>3, <1>1 DEF JobsAgree, Unended, Settled
      <4>5. RowAgrees(n)'
        BY <4>1, <4>3 DEF RowAgrees, Settled
      <4>6. ObserversAgree(n)' /\ ToldAgrees(n)'
        BY <4>1 DEF ObserversAgree, ToldAgrees
      <4> QED BY <4>4, <4>5, <4>6 DEF Agree
    <3> QED BY <3>2, <3>3
  <2> QED BY <2>2, <2>3, <2>4, <2>5, <2>6 DEF NoteInv
<1> QED BY <1>5, <1>6 DEF ToldInv

LEMMA ToMarkIsCurrent ==
  ASSUME JobsInv, NEW i \in Ids
  PROVE  \A g \in ToMark(i) : ~info[g].backgrounded /\ info[g].id \in Ids /\ jobs[info[g].id] = g
BY DEF ToMark, JobsInv, Registry

LEMMA BackgroundTold == ASSUME JobsInv, ToldInv, NEW t \in Tools, Background(t) PROVE ToldInv'
<1>1. tool[t].id \in Ids
  BY DEF Background, JobsInv, CallsOK
<1>2. \E calls : Mark(ToMark(tool[t].id), calls)
  BY DEF Background
<1> QED BY <1>1, <1>2, ToMarkFacts, ToMarkIsCurrent, MarkTold DEF Background

LEMMA BackgroundAllTold == ASSUME JobsInv, ToldInv, BackgroundAll PROVE ToldInv'
<1>1. PICK gs \in SUBSET Blocked \ {{}} :
        Mark(gs, tool) /\ UNCHANGED <<jobs, told, observers, sweep, life, crossed>>
  BY DEF BackgroundAll
<1>2. gs \in SUBSET Generations /\ \A g \in gs : info[g].status = "running" /\ ~info[g].backgrounded
  BY DEF Blocked, Blocks, JobsInv, CallsOK, Unreleased
<1>3. ASSUME NEW g \in gs PROVE info[g].id \in Ids /\ jobs[info[g].id] = g
  <2>1. g \in Generations /\ info[g].status = "running" /\ info[g].status # "none"
    BY <1>2
  <2> QED BY <2>1 DEF JobsInv, Registry, Started
<1> QED BY <1>1, <1>2, <1>3, MarkTold

LEMMA SweepBackgroundsTold == ASSUME JobsInv, ToldInv, SweepBackgrounds PROVE ToldInv'
<1>1. sweep.note \in Generations /\ Job(sweep.note) \in Ids /\ sweep.at = "restarted"
  BY SweepFacts DEF SweepBackgrounds
<1>2. /\ sweep'.at = "backgrounded" /\ sweep'.note = sweep.note
      /\ sweep'.listed = sweep.listed /\ sweep'.skipped = sweep.skipped
  BY SweepRecord DEF SweepBackgrounds, Walks
<1> QED BY <1>1, <1>2, ToMarkFacts, ToMarkIsCurrent, MarkTold DEF SweepBackgrounds

-------------------------------------------------------------------------------
(* Observers come and go. *)
LEMMA WaitsTold ==
  ASSUME JobsInv, ToldInv, NEW i \in Ids, NEW key, NEW note \in Notes, NEW o \in Waits(i, key, note)
  PROVE  /\ o.generation \in Generations /\ Here(o.generation)
         /\ note # 0 => o.note = note
         /\ note = 0 /\ o.note # 0 => o.at = "reporting" /\ o.note = info[o.generation].note
         /\ o.at = "reporting" => o.status \in Settled /\ info[o.generation].status = o.status
<1>1. jobs[i] # 0 /\ jobs[i] \in Generations /\ info[jobs[i]].status \in Settled \cup {"running"}
  BY DEF Waits, JobsInv, Registry
<1>2. o = [key |-> key, id |-> i, generation |-> jobs[i],
           at |-> IF Running(i) THEN "waiting" ELSE "reporting",
           status |-> IF Running(i) THEN "none" ELSE info[jobs[i]].status,
           note |-> IF note = 0 /\ ~Running(i) THEN info[jobs[i]].note ELSE note]
  BY <1>1 DEF Waits
<1>3. Here(jobs[i])
  BY <1>1 DEF ToldInv, Lives
<1>4. CASE Running(i)
  BY <1>1, <1>2, <1>3, <1>4
<1>5. CASE ~Running(i)
  <2>1. info[jobs[i]].status \in Settled
    BY <1>1, <1>5 DEF Running
  <2> QED BY <1>1, <1>2, <1>3, <1>5, <2>1
<1> QED BY <1>4, <1>5

LEMMA NotifyTold == ASSUME JobsInv, ToldInv, NEW t \in Tools, Notify(t) PROVE ToldInv'
<1> DEFINE new == IF Observed(t) THEN {} ELSE Waits(tool[t].id, tool[t].generation, 0)
<1>1. tool[t].id \in Ids /\ 0 \in Notes
  BY DEF Notify, JobsInv, CallsOK
<1>2. \A o \in new : /\ o.generation \in Generations /\ Here(o.generation)
                     /\ o.note # 0 => o.at = "reporting" /\ o.note = info[o.generation].note
                     /\ o.at = "reporting" => o.status \in Settled /\ info[o.generation].status = o.status
  BY <1>1, WaitsTold
<1>3. observers' = observers \cup new /\ UNCHANGED <<jobs, info, row, told, sweep, life, outcome, crossed>>
  BY DEF Notify
<1> HIDE DEF new
<1>4. Lives' /\ SweepIsPast'
  BY <1>3 DEF ToldInv, Lives, SweepIsPast, Here
<1>5. ASSUME NEW n \in Generations PROVE NoteInv(n)'
  <2>0. NoteInv(n)
    BY DEF ToldInv
  <2>1. KnownByJob(n)'
    BY <2>0, <1>2, <1>3 DEF NoteInv, KnownByJob
  <2>2. OneId(n)' /\ Handled(n)'
    BY <2>0, <1>3 DEF NoteInv, OneId, Handled, Here
  <2>3. LeftBehind(n)'
    <3>1. Awaits(n) /\ ~Here(n) => \A o \in new : o.note # n
      BY <2>0, <1>2 DEF NoteInv, LeftBehind
    <3> QED BY <2>0, <3>1, <1>3 DEF NoteInv, LeftBehind, Awaits, Here
  <2>4. ASSUME n \notin crossed PROVE Agree(n)'
    <3>1. Agree(n)
      BY <2>0, <2>4 DEF NoteInv
    <3>2. \A o \in new : o.note = n => o.at = "reporting" /\ o.status # "none" /\ outcome[n] = o.status
      BY <3>1, <1>2 DEF Agree, JobsAgree, Settled
    <3> QED BY <3>1, <3>2, <1>3 DEF Agree, JobsAgree, Unended, RowAgrees, ObserversAgree, ToldAgrees
  <2> QED BY <2>1, <2>2, <2>3, <2>4, <1>3 DEF NoteInv
<1> QED BY <1>4, <1>5 DEF ToldInv

LEMMA SweepObservesTold == ASSUME JobsInv, ToldInv, SweepObserves PROVE ToldInv'
<1> DEFINE m == sweep.note
           new == Waits(Job(m), 0, m)
<1>1. m \in Generations /\ Job(m) \in Ids /\ m \in Notes /\ sweep.listed[m] # "none" /\ sweep.at = "backgrounded"
  BY SweepFacts DEF SweepObserves
<1>2. \A o \in new : /\ o.generation \in Generations /\ o.note = m
                     /\ o.at = "reporting" => o.status \in Settled /\ info[o.generation].status = o.status
  BY <1>1, WaitsTold
<1>3. \A o, p \in new : o = p
  BY DEF Waits
<1>4. /\ observers' = observers \cup new /\ UNCHANGED <<jobs, info, row, told, life, outcome>>
      /\ crossed' = IF \E o \in new : info[o.generation].note = m THEN crossed ELSE crossed \cup {m}
  BY DEF SweepObserves
<1>5. \A o \in new : o.at = "waiting" \/ o.at = "reporting"
  BY <1>1, WaitsFacts DEF Waits
<1>6. /\ sweep'.at = "working" /\ sweep'.listed = [sweep.listed EXCEPT ![m] = "none"]
      /\ sweep'.skipped = sweep.skipped
  BY SweepRecord DEF SweepObserves, Handles
<1>7. info[m].note = m
  BY <1>1 DEF ToldInv, NoteInv, KnownByJob
<1> HIDE DEF new, m
<1>8. Lives' /\ SweepIsPast'
  BY <1>4, <1>6 DEF ToldInv, Lives, SweepIsPast, Here
<1>9. ASSUME NEW n \in Generations PROVE NoteInv(n)'
  <2>0. NoteInv(n) /\ (sweep'.listed[n] = IF n = m THEN "none" ELSE sweep.listed[n])
    BY <1>6, SweepFacts DEF ToldInv
  <2>1. KnownByJob(n)' /\ OneId(n)'
    BY <2>0, <1>1, <1>2, <1>4, <1>7 DEF NoteInv, KnownByJob, OneId
  <2>2. LeftBehind(n)'
    <3>1. Awaits(n)' => Awaits(n) /\ n # m
      BY <2>0, <1>6 DEF Awaits, m
    <3> QED BY <2>0, <3>1, <1>1, <1>2, <1>4 DEF NoteInv, LeftBehind, Here
  <2>3. Handled(n)'
    <3>1. CASE n = m
      BY <3>1, <1>2, <1>4 DEF Handled
    <3>2. CASE n # m
      BY <3>2, <2>0, <1>1, <1>4, <1>6 DEF NoteInv, Handled, Here
    <3> QED BY <3>1, <3>2
  <2>4. ASSUME n \notin crossed' PROVE Agree(n)'
    <3>1. Agree(n)
      BY <2>0, <2>4, <1>4 DEF NoteInv
    <3>2. ASSUME NEW o \in new, o.note = n
          PROVE  IF o.at = "waiting" THEN info[o.generation].note = n
                 ELSE o.status # "none" /\ outcome[n] = o.status
      <4>1. n = m /\ info[o.generation].note = n
        BY <2>4, <3>2, <1>2, <1>3, <1>4
      <4> QED BY <3>1, <4>1, <1>2, <1>5 DEF Agree, JobsAgree, Settled
    <3>3. ObserversAgree(n)'
      BY <3>1, <3>2, <1>4 DEF Agree, ObserversAgree
    <3> QED BY <3>1, <3>3, <1>4 DEF Agree, JobsAgree, Unended, RowAgrees, ToldAgrees
  <2> QED BY <2>1, <2>2, <2>3, <2>4 DEF NoteInv
<1> QED BY <1>8, <1>9 DEF ToldInv

LEMMA ReportTold == ASSUME JobsInv, ToldInv, NEW o \in observers, Report(o) PROVE ToldInv'
<1>1. o \in Observer /\ o.at = "reporting" /\ UNCHANGED <<jobs, info, row, sweep, life, outcome, crossed>>
  BY DEF Report, JobsInv, ObserversOK
<1> DEFINE p == [o EXCEPT !.at = "reported"]
<1>2. p.note = o.note /\ p.status = o.status /\ p.at = "reported"
  BY <1>1 DEF Observer
<1>3. observers' = (observers \ {o}) \cup (IF o.note = 0 THEN {} ELSE {p})
  BY DEF Report
<1> HIDE DEF p
<1>4. \A n \in Generations : \/ told'[n] = told[n]
                             \/ n = o.note /\ told[n] = Nothing /\ told'[n].status = o.status
  BY DEF Report, Admit, JobsInv, Conversation
<1>5. Lives' /\ SweepIsPast'
  BY <1>1 DEF ToldInv, Lives, SweepIsPast, Here
<1>6. ASSUME NEW n \in Generations PROVE NoteInv(n)'
  <2>0. NoteInv(n)
    BY DEF ToldInv
  <2>1. \A q \in observers' : q.note = n => \E r \in observers : r.note = n
    BY <1>2, <1>3
  <2>2. \A q \in observers : q.note = n => \E r \in observers' : r.note = n
    BY <1>2, <1>3
  <2>3. KnownByJob(n)'
    BY <2>0, <2>1, <1>1, <1>4 DEF NoteInv, KnownByJob
  <2>4. OneId(n)' /\ LeftBehind(n)' /\ Handled(n)'
    BY <2>0, <2>1, <2>2, <1>1 DEF NoteInv, OneId, LeftBehind, Awaits, Handled, Here
  <2>5. ASSUME n \notin crossed PROVE Agree(n)'
    <3>1. Agree(n)
      BY <2>0, <2>5 DEF NoteInv
    <3>2. n = o.note => o.status # "none" /\ outcome[n] = o.status
      BY <3>1, <1>1 DEF Agree, ObserversAgree
    <3>3. JobsAgree(n)' /\ RowAgrees(n)'
      BY <3>1, <3>2, <1>1, <1>4 DEF Agree, JobsAgree, Unended, RowAgrees
    <3>4. ObserversAgree(n)'
      BY <3>1, <3>2, <1>1, <1>2, <1>3 DEF Agree, ObserversAgree
    <3>5. ToldAgrees(n)'
      BY <3>1, <3>2, <1>1, <1>4 DEF Agree, ToldAgrees
    <3> QED BY <3>3, <3>4, <3>5 DEF Agree
  <2> QED BY <2>3, <2>4, <2>5, <1>1 DEF NoteInv
<1> QED BY <1>5, <1>6 DEF ToldInv

(* completeBackground takes a row and lets go of a settled job.            *)
LEMMA CompleteFacts ==
  ASSUME JobsInv, NEW note \in Generations, Complete(note)
  PROVE  /\ \A n \in Generations : row'[n] = IF n = note THEN "none" ELSE row[n]
         /\ \A i \in Ids : jobs'[i] = 0 \/ jobs'[i] = jobs[i]
BY DEF Complete, JobsInv, Table

LEMMA AcknowledgeTold == ASSUME JobsInv, ToldInv, NEW o \in observers, Acknowledge(o) PROVE ToldInv'
<1>1. /\ o.note \in Generations /\ o.at = "reported" /\ observers' = observers \ {o}
      /\ UNCHANGED <<info, told, sweep, life, outcome, crossed>>
  BY DEF Acknowledge, JobsInv, ObserversOK, Observer
<1>2. /\ \A n \in Generations : row'[n] = IF n = o.note THEN "none" ELSE row[n]
      /\ \A i \in Ids : jobs'[i] = 0 \/ jobs'[i] = jobs[i]
  BY <1>1, CompleteFacts DEF Acknowledge
<1>3. Lives' /\ SweepIsPast'
  BY <1>1, <1>2 DEF ToldInv, Lives, SweepIsPast, Here
<1>4. ASSUME NEW n \in Generations PROVE NoteInv(n)'
  <2>0. NoteInv(n)
    BY DEF ToldInv
  <2>1. KnownByJob(n)'
    BY <2>0, <1>1, <1>2 DEF NoteInv, KnownByJob
  <2>2. OneId(n)'
    <3>1. info[n].note # 0 => info[n].id \in Ids
      BY DEF JobsInv, Registry, Started
    <3> QED BY <2>0, <3>1, <1>1, <1>2 DEF NoteInv, OneId
  <2>3. LeftBehind(n)'
    BY <2>0, <1>1, <1>2 DEF NoteInv, LeftBehind, Awaits, Here
  <2>4. Handled(n)'
    BY <2>0, <1>1, <1>2 DEF NoteInv, Handled, Here
  <2>5. ASSUME n \notin crossed PROVE Agree(n)'
    <3>1. Agree(n)
      BY <2>0, <2>5 DEF NoteInv
    <3>2. n = o.note => outcome[n] # "none"
      BY <3>1, <1>1 DEF Agree, ObserversAgree
    <3>3. JobsAgree(n)'
      BY <3>1, <3>2, <1>1, <1>2 DEF Agree, JobsAgree, Unended
    <3>4. RowAgrees(n)' /\ ObserversAgree(n)' /\ ToldAgrees(n)'
      BY <3>1, <1>1, <1>2 DEF Agree, RowAgrees, ObserversAgree, ToldAgrees, Settled
    <3> QED BY <3>3, <3>4 DEF Agree
  <2> QED BY <2>1, <2>2, <2>3, <2>4, <2>5, <1>1 DEF NoteInv
<1> QED BY <1>3, <1>4 DEF ToldInv

-------------------------------------------------------------------------------
(* A move of the sweep alone. *)
LEMMA SweepMovesTold ==
  ASSUME JobsInv, ToldInv, UNCHANGED <<jobs, info, row, told, observers, life, outcome>>,
         sweep.at # "restarted", crossed \subseteq crossed', SweepIsPast',
         \A n \in Generations :
           /\ sweep'.listed[n] # "none" => sweep.listed[n] # "none" \/ row[n] # "none"
           /\ LeftBehind(n)' /\ Handled(n)'
  PROVE  ToldInv'
<1>1. Lives'
  BY DEF ToldInv, Lives, Here
<1>2. ASSUME NEW n \in Generations PROVE NoteInv(n)'
  <2>0. NoteInv(n)
    BY DEF ToldInv
  <2>1. KnownByJob(n)' /\ OneId(n)'
    BY <2>0 DEF NoteInv, KnownByJob, OneId
  <2>2. n \notin crossed' => Agree(n)'
    BY <2>0 DEF NoteInv, Agree, JobsAgree, Unended, RowAgrees, ObserversAgree, ToldAgrees
  <2> QED BY <2>1, <2>2 DEF NoteInv
<1> QED BY <1>1, <1>2 DEF ToldInv

LEMMA SweepListsTold == ASSUME JobsInv, ToldInv, SweepLists PROVE ToldInv'
<1>1. sweep.at = "boot" /\ UNCHANGED <<jobs, info, row, told, observers, life, outcome, crossed>>
  BY DEF SweepLists
<1>2. sweep'.at = "working" /\ sweep'.listed = row
  BY SweepRecord DEF SweepLists
<1>3. ASSUME NEW n \in Generations PROVE LeftBehind(n)' /\ Handled(n)'
  <2>1. LeftBehind(n)
    BY DEF ToldInv, NoteInv
  <2> QED BY <2>1, <1>1, <1>2 DEF LeftBehind, Awaits, Handled, Here
<1>4. SweepIsPast'
  BY <1>2 DEF SweepIsPast
<1> QED BY <1>1, <1>2, <1>3, <1>4, SweepMovesTold

(* A job of the table is left to whoever runs it. *)
LEMMA SweepSkipsTold ==
  ASSUME JobsInv, ToldInv, NEW n \in Generations, sweep.at \in {"working", "taken"},
         sweep'.at = "working", sweep'.listed = [sweep.listed EXCEPT ![n] = "none"],
         sweep'.skipped = sweep.skipped \cup {n},
         UNCHANGED <<jobs, info, row, told, observers, life, outcome, crossed>>
  PROVE  ToldInv'
<1>1. \A m \in Generations : sweep'.listed[m] = IF m = n THEN "none" ELSE sweep.listed[m]
  BY SweepFacts
<1>2. ASSUME NEW m \in Generations PROVE LeftBehind(m)' /\ Handled(m)'
  <2>1. NoteInv(m)
    BY DEF ToldInv
  <2>2. LeftBehind(m)'
    BY <2>1, <1>1 DEF NoteInv, LeftBehind, Awaits, Here
  <2>3. Handled(m)'
    BY <2>1, <1>1 DEF NoteInv, Handled, Here
  <2> QED BY <2>2, <2>3
<1>3. SweepIsPast'
  BY DEF SweepIsPast
<1> QED BY <1>1, <1>2, <1>3, SweepMovesTold

LEMMA SweepTakesTold == ASSUME JobsInv, ToldInv, NEW n \in Generations, SweepTakes(n) PROVE ToldInv'
<1>1. sweep.at = "working" /\ UNCHANGED <<jobs, info, row, told, observers, life, outcome>>
  BY DEF SweepTakes
<1>2. CASE crossed' = crossed /\ sweep' = [sweep EXCEPT !.listed[n] = "none", !.skipped = @ \cup {n}]
  <2>1. /\ sweep'.at = "working" /\ sweep'.listed = [sweep.listed EXCEPT ![n] = "none"]
        /\ sweep'.skipped = sweep.skipped \cup {n}
    BY <1>1, <1>2, SweepRecord
  <2> QED BY <1>1, <1>2, <2>1, SweepSkipsTold
<1>3. CASE Walks("taken", n) /\ crossed' = IF info[n].life = life THEN crossed \cup {n} ELSE crossed
  <2>1. /\ sweep'.at = "taken" /\ sweep'.note = n /\ sweep'.listed = sweep.listed
        /\ sweep'.skipped = sweep.skipped
    BY <1>3, SweepRecord DEF Walks
  <2>2. SweepIsPast' /\ crossed \subseteq crossed'
    BY <1>1, <1>3, <2>1 DEF SweepIsPast, Here
  <2>3. ASSUME NEW m \in Generations PROVE LeftBehind(m)' /\ Handled(m)'
    <3>1. NoteInv(m)
      BY DEF ToldInv
    <3> QED BY <3>1, <1>1, <2>1, <2>2 DEF NoteInv, LeftBehind, Awaits, Handled, Here
  <2> QED BY <1>1, <2>1, <2>2, <2>3, SweepMovesTold
<1> QED BY <1>2, <1>3 DEF SweepTakes

LEMMA SweepFindsActiveTold == ASSUME JobsInv, ToldInv, SweepFindsActive PROVE ToldInv'
<1> DEFINE m == sweep.note
<1>1. sweep.at = "taken" /\ m \in Generations
      /\ UNCHANGED <<jobs, info, row, told, observers, life, outcome, crossed>>
  BY SweepFacts DEF SweepFindsActive
<1>2. /\ sweep'.at = "working" /\ sweep'.listed = [sweep.listed EXCEPT ![m] = "none"]
      /\ sweep'.skipped = sweep.skipped \cup {m}
  BY SweepRecord DEF SweepFindsActive
<1> HIDE DEF m
<1> QED BY <1>1, <1>2, SweepSkipsTold

(* What is left behind has settled as the table says, or not at all: that  *)
(* is what the sweep reports.                                              *)
LEMMA SweepReportsTold == ASSUME JobsInv, ToldInv, SweepReports PROVE ToldInv'
<1> DEFINE m == sweep.note
<1>1. /\ sweep.at = "taken" /\ m \in Generations
      /\ sweep.listed[m] \in Settled \cup {"running"}
      /\ UNCHANGED <<jobs, info, row, observers, life, outcome, crossed>>
  BY SweepFacts DEF SweepReports
<1>2. /\ sweep'.at = "reported" /\ sweep'.note = m /\ sweep'.listed = sweep.listed
      /\ sweep'.skipped = sweep.skipped
  BY SweepRecord DEF SweepReports, Walks
<1>3. \A n \in Generations :
        \/ told'[n] = told[n]
        \/ n = m /\ told[n] = Nothing
           /\ (sweep.listed[m] # "running" => told'[n].status = sweep.listed[m])
  <2>1. CASE told[m] # Nothing
    BY <2>1 DEF SweepReports, Admit
  <2>2. CASE told[m] = Nothing
    <3>1. PICK s : told' = [told EXCEPT ![m] = [by |-> "sweep", status |-> s]]
                   /\ (sweep.listed[m] # "running" => s = sweep.listed[m])
      <4> DEFINE s == IF sweep.listed[m] # "running" THEN sweep.listed[m]
                      ELSE IF IsShell(m) THEN "cancelled" ELSE "error"
      <4>1. told' = [told EXCEPT ![m] = [by |-> "sweep", status |-> s]]
        BY <2>2 DEF SweepReports, Admit
      <4> QED BY <4>1
    <3> QED BY <2>2, <3>1, <1>1 DEF JobsInv, Conversation
  <2> QED BY <2>1, <2>2
<1>4. sweep.listed[m] # "none"
  BY <1>1 DEF Settled
<1>5. info[m].note = m
  BY <1>1, <1>4 DEF ToldInv, NoteInv, KnownByJob
<1>6. ASSUME m \notin crossed
      PROVE  ~Here(m) /\ row[m] = sweep.listed[m] /\ \A g \in Generations : info[g].note = m => info[g].status # "running"
  <2>1. ~Here(m) /\ Awaits(m) /\ LeftBehind(m)
    BY <1>1, <1>4, <1>6 DEF ToldInv, SweepIsPast, NoteInv, Awaits
  <2>2. row[m] = sweep.listed[m]
    BY <2>1, <1>1 DEF LeftBehind
  <2>3. ASSUME NEW g \in Generations, info[g].note = m PROVE info[g].status # "running"
    BY <2>1, <2>3 DEF ToldInv, Lives, LeftBehind
  <2> QED BY <2>1, <2>2, <2>3
<1> HIDE DEF m
<1>7. Lives' /\ SweepIsPast'
  BY <1>1, <1>2, <1>6 DEF ToldInv, Lives, SweepIsPast, Here
<1>8. ASSUME NEW n \in Generations PROVE NoteInv(n)'
  <2>0. NoteInv(n)
    BY DEF ToldInv
  <2>1. KnownByJob(n)' /\ OneId(n)'
    BY <2>0, <1>1, <1>2, <1>3, <1>5 DEF NoteInv, KnownByJob, OneId
  <2>2. LeftBehind(n)' /\ Handled(n)'
    BY <2>0, <1>1, <1>2 DEF NoteInv, LeftBehind, Awaits, Handled, Here
  <2>3. ASSUME n \notin crossed PROVE Agree(n)'
    <3>1. Agree(n)
      BY <2>0, <2>3 DEF NoteInv
    <3>2. JobsAgree(n)'
      BY <3>1, <2>3, <1>1, <1>3, <1>6 DEF Agree, JobsAgree, Unended
    <3>3. RowAgrees(n)' /\ ObserversAgree(n)'
      BY <3>1, <1>1 DEF Agree, RowAgrees, ObserversAgree
    <3>4. ToldAgrees(n)'
      BY <3>1, <2>3, <1>1, <1>3, <1>6 DEF Agree, RowAgrees, ToldAgrees
    <3> QED BY <3>2, <3>3, <3>4 DEF Agree
  <2> QED BY <2>1, <2>2, <2>3, <1>1 DEF NoteInv
<1> QED BY <1>7, <1>8 DEF ToldInv

LEMMA SweepAcknowledgesTold == ASSUME JobsInv, ToldInv, SweepAcknowledges PROVE ToldInv'
<1> DEFINE m == sweep.note
<1>1. /\ sweep.at = "reported" /\ m \in Generations /\ sweep.listed[m] # "none" /\ told[m] # Nothing
      /\ UNCHANGED <<info, told, observers, life, outcome, crossed>>
  BY SweepFacts DEF SweepAcknowledges, JobsInv, SweepOK
<1>2. /\ \A n \in Generations : row'[n] = IF n = m THEN "none" ELSE row[n]
      /\ \A i \in Ids : jobs'[i] = 0 \/ jobs'[i] = jobs[i]
  BY <1>1, CompleteFacts DEF SweepAcknowledges
<1>3. /\ sweep'.at = "working" /\ sweep'.skipped = sweep.skipped
      /\ \A n \in Generations : sweep'.listed[n] = IF n = m THEN "none" ELSE sweep.listed[n]
  BY SweepRecord, SweepFacts DEF SweepAcknowledges, Handles
<1> HIDE DEF m
<1>4. Lives' /\ SweepIsPast'
  BY <1>1, <1>2, <1>3 DEF ToldInv, Lives, SweepIsPast, Here
<1>5. ASSUME NEW n \in Generations PROVE NoteInv(n)'
  <2>0. NoteInv(n)
    BY DEF ToldInv
  <2>1. KnownByJob(n)'
    BY <2>0, <1>1, <1>2, <1>3 DEF NoteInv, KnownByJob
  <2>2. OneId(n)'
    <3>1. info[n].note # 0 => info[n].id \in Ids
      BY DEF JobsInv, Registry, Started
    <3> QED BY <2>0, <3>1, <1>1, <1>2 DEF NoteInv, OneId
  <2>3. LeftBehind(n)' /\ Handled(n)'
    BY <2>0, <1>1, <1>2, <1>3 DEF NoteInv, LeftBehind, Awaits, Handled, Here
  <2>4. ASSUME n \notin crossed PROVE Agree(n)'
    <3>1. Agree(n)
      BY <2>0, <2>4 DEF NoteInv
    <3>2. JobsAgree(n)'
      BY <3>1, <1>1, <1>2 DEF Agree, JobsAgree, Unended
    <3>3. RowAgrees(n)' /\ ObserversAgree(n)' /\ ToldAgrees(n)'
      BY <3>1, <1>1, <1>2 DEF Agree, RowAgrees, ObserversAgree, ToldAgrees, Settled
    <3> QED BY <3>2, <3>3 DEF Agree
  <2> QED BY <2>1, <2>2, <2>3, <2>4, <1>1 DEF NoteInv
<1> QED BY <1>4, <1>5 DEF ToldInv

(* The process dies: what it ran is lost, and nobody is left to report it. *)
LEMMA DieTold == ASSUME JobsInv, ToldInv, Die PROVE ToldInv'
<1>1. /\ life' = life + 1 /\ observers' = {} /\ \A i \in Ids : jobs'[i] = 0
      /\ UNCHANGED <<row, told, outcome, crossed>>
  BY DEF Die
<1>2. sweep'.at = "boot" /\ \A n \in Generations : sweep'.listed[n] = "none"
  BY DEF Die, Boot
<1>3. \A g \in Generations :
        /\ info'[g].id = info[g].id /\ info'[g].note = info[g].note /\ info'[g].life = info[g].life
        /\ info'[g].status = IF info[g].status = "running" THEN "lost" ELSE info[g].status
  BY InfoFacts DEF Die, JobInfo
<1>4. \A g \in Generations : info'[g].life < life'
  BY <1>1, <1>3, InfoFacts DEF ToldInv, Lives
<1>5. \A g \in Generations : info'[g].life # life' /\ info'[g].life <= life'
  BY <1>1, <1>3, <1>4, InfoFacts
<1>6. Lives' /\ SweepIsPast'
  BY <1>1, <1>2, <1>3, <1>5 DEF Lives, SweepIsPast, Here
<1>7. ASSUME NEW n \in Generations PROVE NoteInv(n)'
  <2>0. NoteInv(n)
    BY DEF ToldInv
  <2>1. KnownByJob(n)'
    BY <2>0, <1>1, <1>2, <1>3 DEF NoteInv, KnownByJob
  <2>2. OneId(n)'
    <3>1. info[n].note # 0 => info[n].id \in Ids /\ info[n].note \in Generations
      BY InfoFacts DEF JobsInv, Registry, Started
    <3> QED BY <2>0, <3>1, <1>1, <1>3 DEF NoteInv, OneId
  <2>3. LeftBehind(n)' /\ Handled(n)'
    BY <1>1, <1>2, <1>5 DEF LeftBehind, Handled, Here
  <2>4. n \notin crossed => Agree(n)'
    BY <2>0, <1>1, <1>3 DEF NoteInv, Agree, JobsAgree, RowAgrees, ObserversAgree, ToldAgrees, Settled
  <2> QED BY <2>1, <2>2, <2>3, <2>4, <1>1 DEF NoteInv
<1> QED BY <1>6, <1>7 DEF ToldInv

-------------------------------------------------------------------------------
LEMMA RunEndsTold == ASSUME JobsInv, ToldInv, NEW g \in Generations, RunEnds(g) PROVE ToldInv'
<1>1. PICK status \in Exits : Settle(g, status)
  BY DEF RunEnds
<1>2. status \in Settled
  BY DEF Settled
<1> QED BY <1>1, <1>2, SettlesTold DEF Settle

LEMMA ToolStepTold == ASSUME JobsInv, ToldInv, NEW t \in Tools, ToolStep(t) \/ InterruptTool(t) PROVE ToldInv'
<1>1. CASE Background(t)
  BY <1>1, BackgroundTold
<1>2. CASE Block(t) \/ InterruptTool(t)
  <2>1. UNCHANGED <<jobs, info, row, told, observers, sweep, life, outcome, crossed>>
    BY <1>2 DEF Block, InterruptTool
  <2> QED BY <2>1, CallsTold
<1>3. CASE Notify(t)
  BY <1>3, NotifyTold
<1>4. CASE CancelJob(t)
  <2>1. tool[t].id \in Ids /\ UNCHANGED <<jobs, told, sweep, life, crossed>>
        /\ Cancel(tool[t].id, [tool EXCEPT ![t] = Over(@)])
    BY <1>4 DEF CancelJob, JobsInv, CallsOK
  <2> QED BY <2>1, CancelTold
<1> QED BY <1>1, <1>2, <1>3, <1>4 DEF ToolStep

LEMMA ToldStepInv == ASSUME JobsInv, ToldInv, [Next]_vars PROVE ToldInv'
<1>1. ASSUME NEW t \in Tools, ToolStep(t) \/ InterruptTool(t) PROVE ToldInv'
  BY <1>1, ToolStepTold
<1>2. ASSUME NEW t \in Tools, NEW i \in Ids, NEW background \in BOOLEAN, Launch(t, i, background)
      PROVE  ToldInv'
  <2>1. CASE background = TRUE
    BY <1>2, <2>1, LaunchTold
  <2>2. CASE background = FALSE
    BY <1>2, <2>2, LaunchTold
  <2> QED BY <2>1, <2>2
<1>3. ASSUME NEW o \in observers, ObserverStep(o) PROVE ToldInv'
  BY <1>3, ReportTold, AcknowledgeTold DEF ObserverStep
<1>4. ASSUME SweepStep PROVE ToldInv'
  BY <1>4, SweepListsTold, SweepReportsTold, SweepAcknowledgesTold, SweepRestartsTold, SweepBackgroundsTold,
     SweepObservesTold, SweepFindsActiveTold, SweepTakesTold DEF SweepStep
<1>5. ASSUME NEW i \in Children, Stop(i) PROVE ToldInv'
  BY <1>5, CancelTold DEF Stop, Ids
<1>6. ASSUME UNCHANGED vars PROVE ToldInv'
  BY <1>6, CallsTold DEF vars
<1> QED BY <1>1, <1>2, <1>3, <1>4, <1>5, <1>6, RunEndsTold, BackgroundAllTold, DieTold DEF Next

(* Registry, table, observers, sweep and conversation agree on how each    *)
(* job ended.                                                              *)
THEOREM ToldInvariant == Spec => [](JobsInv /\ ToldInv)
<1>1. Init => JobsInv /\ ToldInv
  BY JobsInitInv, ToldInitInv
<1>2. JobsInv /\ ToldInv /\ [Next]_vars => JobsInv' /\ ToldInv'
  BY JobsStepInv, ToldStepInv
<1> QED BY <1>1, <1>2, PTL DEF Spec

(* The conversation is told how a backgrounded job ended, whether its own  *)
(* process or a later one tells it, but for what the sweep crossed.        *)
THEOREM OutcomesAreTold == Spec => []OutcomeIsTold
<1>1. ToldInv => OutcomeIsTold
  BY DEF ToldInv, NoteInv, Agree, ToldAgrees, OutcomeIsTold
<1> QED BY <1>1, ToldInvariant, PTL

(* When the sweep is through, each job an earlier process left in the      *)
(* table is observed, left to who runs it, or crossed.                     *)
THEOREM NothingIsLeftBehind == Spec => []SweepIsThorough
<1>1. JobsInv /\ ToldInv => SweepIsThorough
  <2> SUFFICES ASSUME JobsInv, ToldInv, sweep.at = "working", Unhandled = {},
                      NEW n \in Generations, row[n] # "none", info[n].life < life
               PROVE  n \in sweep.skipped \cup crossed \/ \E o \in observers : o.note = n
    BY DEF SweepIsThorough
  <2>1. sweep.listed[n] = "none" /\ Handled(n)
    BY DEF Unhandled, ToldInv, NoteInv
  <2>2. ~Here(n)
    BY InfoFacts DEF Here
  <2> QED BY <2>1, <2>2 DEF Handled
<1> QED BY <1>1, ToldInvariant, PTL
-------------------------------------------------------------------------------
(* At most one job of an id runs: a start that finds one joins it.         *)
OneRunPerId ==
  \A g, h \in Generations :
    info[g].status = "running" /\ info[h].status = "running" /\ info[g].id = info[h].id => g = h

(* What the table has of a job stays until the notice of it is admitted,   *)
(* and what the conversation was told of it is never told otherwise.       *)
NoticesAreKept ==
  \A n \in Generations :
    /\ row[n] # "none" /\ row'[n] = "none" => told[n] # Nothing
    /\ told[n] # Nothing => told'[n] = told[n]

(* A job ends once, by settling or with its process, stays the job of its  *)
(* id, and once in the background stays there, under one notification.     *)
JobsEndOnce ==
  \A g \in Generations : info[g].status # "none" =>
    /\ info'[g].id = info[g].id /\ info'[g].life = info[g].life
    /\ info[g].status # "running" => info'[g].status = info[g].status
    /\ \/ info'[g].status \in {info[g].status} \cup Settled
       \/ info'[g].status = "lost" /\ life' # life
    /\ info[g].note # 0 => info'[g].note = info[g].note
    /\ info[g].backgrounded => info'[g].backgrounded

(* Steps that leave jobs, table and conversation. *)
LEMMA NothingHappens ==
  ASSUME UNCHANGED <<info, row, told, life>> PROVE NoticesAreKept /\ JobsEndOnce
BY DEF NoticesAreKept, JobsEndOnce

LEMMA SettleKeeps ==
  ASSUME JobsInv, NEW g \in Generations, NEW status \in Settled, info[g].status = "running",
         info' = [info EXCEPT ![g].status = status], KeepOutcome(info[g].note, status),
         UNCHANGED <<told, life>>
  PROVE  NoticesAreKept /\ JobsEndOnce
<1>1. info \in [Generations -> JobInfo] /\ info[g] \in JobInfo
  BY InfoFacts
<1>2. /\ info'[g].id = info[g].id /\ info'[g].life = info[g].life /\ info'[g].note = info[g].note
      /\ info'[g].backgrounded = info[g].backgrounded /\ info'[g].status = status
      /\ \A h \in Generations : h # g => info'[h] = info[h]
  BY <1>1 DEF JobInfo
<1>3. JobsEndOnce
  BY <1>2 DEF JobsEndOnce, Settled
<1>4. \A n \in Generations : row'[n] \in {row[n], status}
  BY InfoFacts DEF KeepOutcome, JobsInv, Table
<1> QED BY <1>3, <1>4 DEF NoticesAreKept, Settled

LEMMA CancelKeeps ==
  ASSUME JobsInv, NEW i \in Ids, NEW calls, Cancel(i, calls), UNCHANGED <<told, life>>
  PROVE  NoticesAreKept /\ JobsEndOnce
<1>1. CASE ~Running(i)
  BY <1>1, NothingHappens DEF Cancel
<1>2. CASE Running(i)
  <2>1. jobs[i] \in Generations /\ info[jobs[i]].status = "running" /\ "cancelled" \in Settled
    BY <1>2 DEF Running, JobsInv, Registry, Settled
  <2> QED BY <1>2, <2>1, SettleKeeps DEF Cancel
<1> QED BY <1>1, <1>2

LEMMA StartKeeps ==
  ASSUME JobsInv, NEW i \in Ids, NEW note \in Notes, Start(i, note), UNCHANGED <<row, told, life>>
  PROVE  NoticesAreKept /\ JobsEndOnce
<1>1. CASE UNCHANGED info
  BY <1>1, NothingHappens
<1>2. CASE info' # info
  <2>1. PICK g \in Generations :
          info[g].status = "none" /\ \A h \in Generations \ {g} : info'[h] = info[h]
    BY <1>2, StartFacts
  <2> QED BY <2>1 DEF NoticesAreKept, JobsEndOnce
<1> QED BY <1>1, <1>2

LEMMA MarkKeeps ==
  ASSUME JobsInv, NEW gs \in SUBSET Generations, NEW calls, Mark(gs, calls),
         \A g \in gs : info[g].status \in Settled \cup {"running"},
         (\A g \in gs : info[g].status = "running") \/ (\A g, h \in gs : g = h),
         UNCHANGED <<told, life>>
  PROVE  NoticesAreKept /\ JobsEndOnce
<1>1. \A g \in Generations :
        /\ info'[g].id = info[g].id /\ info'[g].status = info[g].status /\ info'[g].life = info[g].life
        /\ info[g].note # 0 => info'[g].note = info[g].note
        /\ info[g].backgrounded => info'[g].backgrounded
  BY MarkFacts DEF NoteOf
<1>2. \A n \in Generations : row'[n] = row[n] \/ row'[n] # "none"
  BY MarkFacts DEF Settled
<1> QED BY <1>1, <1>2 DEF NoticesAreKept, JobsEndOnce

LEMMA CompleteKeeps ==
  ASSUME JobsInv, NEW note \in Generations, told[note] # Nothing, Complete(note),
         UNCHANGED <<info, told, life>>
  PROVE  NoticesAreKept /\ JobsEndOnce
BY CompleteFacts DEF NoticesAreKept, JobsEndOnce

LEMMA AdmitKeeps ==
  ASSUME JobsInv, NEW note \in Generations, NEW by, NEW status, Admit(note, by, status),
         UNCHANGED <<info, row, life>>
  PROVE  NoticesAreKept /\ JobsEndOnce
<1>1. \A n \in Generations : told[n] # Nothing => told'[n] = told[n]
  BY DEF Admit, JobsInv, Conversation
<1> QED BY <1>1 DEF NoticesAreKept, JobsEndOnce

LEMMA DieKeeps == ASSUME JobsInv, Die PROVE NoticesAreKept /\ JobsEndOnce
<1>1. life' # life /\ UNCHANGED <<row, told>>
  BY DEF Die, JobsInv, SweepOK
<1>2. ASSUME NEW g \in Generations
      PROVE  /\ info'[g].id = info[g].id /\ info'[g].life = info[g].life
             /\ info'[g].note = info[g].note /\ info'[g].backgrounded = info[g].backgrounded
             /\ info'[g].status = IF info[g].status = "running" THEN "lost" ELSE info[g].status
  <2>1. info[g] \in JobInfo
    BY InfoFacts
  <2>2. info'[g] = IF info[g].status = "running" THEN [info[g] EXCEPT !.status = "lost"] ELSE info[g]
    BY DEF Die
  <2> QED BY <2>1, <2>2 DEF JobInfo
<1> QED BY <1>1, <1>2 DEF NoticesAreKept, JobsEndOnce

LEMMA JobsKeepNext ==
  ASSUME JobsInv, [Next]_vars PROVE NoticesAreKept /\ JobsEndOnce
<1> DEFINE Kept == NoticesAreKept /\ JobsEndOnce
<1>1. ASSUME NEW t \in Tools, ToolStep(t) \/ InterruptTool(t) PROVE Kept
  <2>1. CASE Background(t)
    <3>1. tool[t].id \in Ids /\ UNCHANGED <<told, life>> /\ \E calls : Mark(ToMark(tool[t].id), calls)
      BY <2>1 DEF Background, JobsInv, CallsOK
    <3> QED BY <3>1, ToMarkFacts, MarkKeeps
  <2>2. CASE Block(t) \/ InterruptTool(t) \/ Notify(t)
    <3>1. UNCHANGED <<info, row, told, life>>
      BY <2>2 DEF Block, InterruptTool, Notify
    <3> QED BY <3>1, NothingHappens
  <2>3. CASE CancelJob(t)
    <3>1. tool[t].id \in Ids
      BY <2>3 DEF CancelJob, JobsInv, CallsOK
    <3> QED BY <2>3, <3>1, CancelKeeps DEF CancelJob
  <2> QED BY <1>1, <2>1, <2>2, <2>3 DEF ToolStep
<1>2. ASSUME NEW t \in Tools, NEW i \in Ids, NEW background \in BOOLEAN, Launch(t, i, background)
      PROVE  Kept
  <2>1. Start(i, 0) /\ 0 \in Notes /\ UNCHANGED <<row, told, life>>
    BY <1>2 DEF Launch
  <2> QED BY <2>1, StartKeeps
<1>3. ASSUME NEW g \in Generations, RunEnds(g) PROVE Kept
  <2>1. PICK status \in Exits : Settle(g, status)
    BY <1>3 DEF RunEnds
  <2>2. status \in Settled
    BY DEF Settled
  <2> QED BY <2>1, <2>2, SettleKeeps DEF Settle
<1>4. ASSUME NEW o \in observers, ObserverStep(o) PROVE Kept
  <2>0. o.note \in Notes
    BY DEF JobsInv, ObserversOK, Observer
  <2>1. CASE Report(o)
    <3>1. CASE o.note = 0
      BY <2>1, <3>1, NothingHappens DEF Report
    <3>2. CASE o.note # 0
      <4>1. o.note \in Generations /\ Admit(o.note, "observer", o.status) /\ UNCHANGED <<info, row, life>>
        BY <2>0, <2>1, <3>2 DEF Report
      <4> QED BY <4>1, AdmitKeeps
    <3> QED BY <3>1, <3>2
  <2>2. CASE Acknowledge(o)
    <3>1. o.note \in Generations /\ told[o.note] # Nothing
      BY <2>0, <2>2 DEF Acknowledge, JobsInv, ObserversOK
    <3> QED BY <2>2, <3>1, CompleteKeeps DEF Acknowledge
  <2> QED BY <1>4, <2>1, <2>2 DEF ObserverStep
<1>5. ASSUME BackgroundAll PROVE Kept
  <2>1. PICK gs \in SUBSET Blocked \ {{}} : Mark(gs, tool) /\ UNCHANGED <<told, life>>
    BY <1>5 DEF BackgroundAll
  <2>2. gs \in SUBSET Generations /\ \A g \in gs : info[g].status = "running"
    BY DEF Blocked, Blocks, JobsInv, CallsOK, Unreleased
  <2> QED BY <2>1, <2>2, MarkKeeps
<1>6. ASSUME SweepStep PROVE Kept
  <2>1. CASE SweepLists \/ SweepObserves \/ SweepFindsActive \/ \E n \in Generations : SweepTakes(n)
    <3>1. UNCHANGED <<info, row, told, life>>
      BY <2>1 DEF SweepLists, SweepObserves, SweepFindsActive, SweepTakes
    <3> QED BY <3>1, NothingHappens
  <2>2. CASE SweepReports
    <3>1. sweep.note \in Generations /\ UNCHANGED <<info, row, life>>
          /\ \E status : Admit(sweep.note, "sweep", status)
      BY <2>2, SweepFacts DEF SweepReports
    <3> QED BY <3>1, AdmitKeeps
  <2>3. CASE SweepAcknowledges
    <3>1. sweep.note \in Generations /\ told[sweep.note] # Nothing
      BY <2>3 DEF SweepAcknowledges, JobsInv, SweepOK
    <3> QED BY <2>3, <3>1, CompleteKeeps DEF SweepAcknowledges
  <2>4. CASE SweepRestarts
    <3>1. Job(sweep.note) \in Ids /\ sweep.note \in Notes
      BY <2>4, SweepFacts DEF SweepRestarts
    <3> QED BY <2>4, <3>1, StartKeeps DEF SweepRestarts
  <2>5. CASE SweepBackgrounds
    <3>1. Job(sweep.note) \in Ids
      BY <2>5, SweepFacts DEF SweepBackgrounds
    <3> QED BY <2>5, <3>1, ToMarkFacts, MarkKeeps DEF SweepBackgrounds
  <2> QED BY <1>6, <2>1, <2>2, <2>3, <2>4, <2>5 DEF SweepStep
<1>7. ASSUME NEW i \in Children, Stop(i) PROVE Kept
  BY <1>7, CancelKeeps DEF Stop, Ids
<1>8. ASSUME UNCHANGED vars PROVE Kept
  BY <1>8, NothingHappens DEF vars
<1> HIDE DEF Kept
<1>9. Kept
  BY <1>1, <1>2, <1>3, <1>4, <1>5, <1>6, <1>7, <1>8, DieKeeps DEF Next, Kept
<1> QED BY <1>9 DEF Kept

(* However calls, restarts and observers meet, an id has at most one       *)
(* running job (job.ts:284).                                               *)
THEOREM JobsDoNotOverlap == Spec => []OneRunPerId
<1>1. JobsInv => OneRunPerId
  BY DEF JobsInv, Registry, OneRunPerId
<1> QED BY <1>1, JobsInvariant, PTL

(* A row goes only once its notice is admitted, whoever removes it: the    *)
(* observer or the sweep, in this process or the next; a notice is never   *)
(* rewritten (job.ts:523).                                                 *)
THEOREM RowsOutliveTheirNotice == Spec => [][NoticesAreKept]_vars
<1>1. JobsInv /\ [Next]_vars => [NoticesAreKept]_vars
  BY JobsKeepNext
<1> QED BY <1>1, JobsInvariant, PTL DEF Spec

(* A job ends once and is not moved to another id, life or notification,   *)
(* nor out of the background.                                              *)
THEOREM JobsAreFinal == Spec => [][JobsEndOnce]_vars
<1>1. JobsInv /\ [Next]_vars => [JobsEndOnce]_vars
  BY JobsKeepNext
<1> QED BY <1>1, JobsInvariant, PTL DEF Spec
================================================================================
