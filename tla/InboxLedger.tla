----------------------------- MODULE InboxLedger -----------------------------
(***************************************************************************)
(* What a Session's inbox promises, without locks, callers or partial      *)
(* promotions: each item is pending or delivered, never both; it is        *)
(* delivered as what it was admitted as; and it leaves the inbox only at   *)
(* its turn or by an explicit cancellation.                                *)
(***************************************************************************)
EXTENDS Naturals

CONSTANTS IDs, None

Prompts == {"user", "synthetic"}
Controls == {"compaction", "move"}
Types == Prompts \cup Controls
Deliveries == {"steer", "queue"}

VARIABLES inbox,      \* the pending row of each id: type, delivery and enqueue order, or None
          message,    \* the type of the transcript message each id has, or None
          cancelled   \* the ids some cancellation removed

ledgerVars == <<inbox, message, cancelled>>

Pending == {i \in IDs : inbox[i] # None}
Mode(d) == {i \in Pending : inbox[i].delivery = d}
Before(j, i) == inbox[j].seq < inbox[i].seq

Init ==
  /\ inbox = [i \in IDs |-> None]
  /\ message = [i \in IDs |-> None]
  /\ cancelled = {}

(* An id is admitted only if it is neither pending nor in the transcript,  *)
(* and behind everything pending.                                          *)
Admit(i, t, d, n) ==
  /\ i \notin Pending
  /\ message[i] = None
  /\ t = "compaction" => \A j \in Pending : inbox[j].type # "compaction"
  /\ \A j \in Pending : inbox[j].seq < n
  /\ inbox' = [inbox EXCEPT ![i] = [type |-> t, delivery |-> d, seq |-> n]]
  /\ UNCHANGED <<message, cancelled>>

Cancel(S) ==
  /\ S # {} /\ S \subseteq Pending
  /\ inbox' = [i \in IDs |-> IF i \in S THEN None ELSE inbox[i]]
  /\ cancelled' = cancelled \cup S
  /\ UNCHANGED message

(* A change of delivery keeps the item's place in the enqueue order. *)
Redeliver(i) ==
  /\ i \in Pending
  /\ \E d \in Deliveries \ {inbox[i].delivery} :
       inbox' = [inbox EXCEPT ![i].delivery = d]
  /\ UNCHANGED <<message, cancelled>>

(* The turn of each kind of item. A steered prompt waits for every earlier *)
(* steer, and for a steered compaction behind it with no steered move      *)
(* between; a steered control waits for every earlier steered control, and *)
(* a move for the prompts too; a queued item waits for earlier queued ones.*)
SteeredMoveBetween(i, j) ==
  \E k \in Mode("steer") : inbox[k].type = "move" /\ Before(i, k) /\ Before(k, j)

PromptTurn(i) ==
  \A j \in Mode("steer") \ {i} :
    /\ Before(i, j)
    /\ inbox[j].type = "compaction" => SteeredMoveBetween(i, j)

ControlTurn(i) ==
  \A j \in Mode("steer") \ {i} :
    Before(j, i) => inbox[i].type = "compaction" /\ inbox[j].type \in Prompts

Turn(i) ==
  IF inbox[i].delivery = "queue" THEN \A j \in Mode("queue") \ {i} : Before(i, j)
  ELSE IF inbox[i].type \in Prompts THEN PromptTurn(i)
  ELSE ControlTurn(i)

Deliver(i) ==
  /\ i \in Pending
  /\ Turn(i)
  /\ message' = [message EXCEPT ![i] = IF inbox[i].type = "move" THEN @ ELSE inbox[i].type]
  /\ inbox' = [inbox EXCEPT ![i] = None]
  /\ UNCHANGED cancelled

Next ==
  \/ \E i \in IDs, t \in Types, d \in Deliveries :
       /\ i \notin Pending
       /\ inbox'[i] # None
       /\ Admit(i, t, d, inbox'[i].seq)
  \/ \E S \in SUBSET IDs : Cancel(S)
  \/ \E i \in IDs : Redeliver(i) \/ Deliver(i)

Spec == Init /\ [][Next]_ledgerVars
=============================================================================
