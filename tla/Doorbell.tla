------------------------------- MODULE Doorbell -------------------------------
(***************************************************************************)
(* What the run coordinator promises its callers, without fibers, maps or  *)
(* settlement windows: work recorded for a key is demand, a drain serves   *)
(* the demand its scope covers, an interrupt claims what is recorded, and  *)
(* nothing else makes demand appear or disappear.                          *)
(***************************************************************************)
CONSTANTS Keys,     \* the session IDs work is recorded for
          Callers,  \* identities for calls, each made at most once
          None      \* no drain in progress

Scope == {"steer", "input"}
Ops == {"wake", "run", "interrupt"}

(* "input" subsumes "steer": a drain of scope s serves every scope in it. *)
Upto(s) == IF s = "input" THEN Scope ELSE IF s = "steer" THEN {"steer"} ELSE {}

VARIABLES demand,   \* demand[k]: the scopes recorded for k that no drain has begun to serve
          serving,  \* serving[k]: the scope of the drain in progress for k, or None
          made      \* made[k]: the calls that have taken effect on k

doorbellVars == <<demand, serving, made>>

DoorbellTypeOK ==
  /\ demand \in [Keys -> SUBSET Scope]
  /\ serving \in [Keys -> Scope \cup {None}]
  /\ made \in [Keys -> SUBSET (Callers \X Ops)]

Init ==
  /\ demand = [k \in Keys |-> {}]
  /\ serving = [k \in Keys |-> None]
  /\ made = [k \in Keys |-> {}]

(* A call takes effect once: nothing is recorded or claimed twice for it.  *)
Make(k, c, op) ==
  /\ <<c, op>> \notin made[k]
  /\ made' = [made EXCEPT ![k] = @ \cup {<<c, op>>}]

(* A wake, or a run that finds the key idle, records work of scope s. *)
Ring(k, s, c, op) ==
  /\ Make(k, c, op)
  /\ demand' = [demand EXCEPT ![k] = @ \cup Upto(s)]
  /\ UNCHANGED serving

(* A run joins what is going on, or gives up waiting to, and records nothing.*)
Join(k, c) == Make(k, c, "run") /\ UNCHANGED <<demand, serving>>

(* An interrupt claims everything recorded so far. *)
Claim(k, c) ==
  /\ Make(k, c, "interrupt")
  /\ demand' = [demand EXCEPT ![k] = {}]
  /\ UNCHANGED serving

(* An interrupt of what is idle or already stopping claims nothing. *)
Ignore(k, c) == Make(k, c, "interrupt") /\ UNCHANGED <<demand, serving>>

(* A drain of scope s begins; it may take only what its scope covers. *)
Serve(k, s) ==
  /\ serving[k] = None
  /\ s \in demand[k]
  /\ \E left \in SUBSET demand[k] :
       /\ demand[k] \ left \subseteq Upto(s)
       /\ demand' = [demand EXCEPT ![k] = left]
  /\ serving' = [serving EXCEPT ![k] = s]
  /\ UNCHANGED made

(* The drain ends: completed, failed or interrupted. *)
Finish(k) ==
  /\ serving[k] # None
  /\ serving' = [serving EXCEPT ![k] = None]
  /\ UNCHANGED <<demand, made>>

Next ==
  \E k \in Keys :
    \/ \E c \in Callers :
         \/ \E s \in Scope : Ring(k, s, c, "wake")
         \/ Ring(k, "input", c, "run")
         \/ Join(k, c) \/ Claim(k, c) \/ Ignore(k, c)
    \/ \E s \in Scope : Serve(k, s)
    \/ Finish(k)

Spec == Init /\ [][Next]_doorbellVars

(* Recorded work is eventually being served by a drain wide enough for it, *)
(* unless an interrupt claims it first.                                    *)
Answered ==
  \A k \in Keys : \A s \in Scope :
    (s \in demand[k]) ~> (s \notin demand[k] \/ s \in Upto(serving[k]))
===============================================================================
