---------------------------------- MODULE Form ----------------------------------
(***************************************************************************)
(* Forms of one Location (core/src/form.ts): tool calls that ask and wait, *)
(* people who answer or cancel, and the Location's close.                  *)
(*                                                                         *)
(* A form is named after the call that asks it, and fields, answers and    *)
(* their validation are left out: an invalid answer changes nothing.  So   *)
(* are forms nobody waits for (create alone).                              *)
(***************************************************************************)
EXTENDS Naturals, FiniteSets

CONSTANTS Calls,         \* tool calls
          Users,         \* calls of reply and cancel under way
          MaxFormFaults  \* bound: how many publications fail

ASSUME FormAssumption ==
  /\ MaxFormFaults \in Nat /\ "shutdown" \notin Calls \cup Users /\ Calls \cap Users = {}

VARIABLES form,         \* the state of each form in the cache
          settled,      \* its Deferred: "none" until completed
          call,         \* where the asking call is, or what became of it
          hand,         \* who is settling which form
          formsClosed,  \* close has begun
          formCloser,   \* the fiber that closes, and the forms it has to cancel
          shown,        \* what clients were told: forms created, ...
          heard,        \* ... and the ends of each
          formFaults

formVars == <<form, settled, call, hand, formsClosed, formCloser, shown, heard, formFaults>>

FormEnds == {"answered", "cancelled"}
(* Users, calls that take their own form back, and the shutdown cancel alike. *)
Hands == Users \cup Calls \cup {"shutdown"}
Free == [at |-> "free", form |-> "none", kind |-> "none"]

FormInit ==
  /\ form = [c \in Calls |-> "none"] /\ settled = [c \in Calls |-> "none"]
  /\ call = [c \in Calls |-> "idle"] /\ hand = [h \in Hands |-> Free]
  /\ formsClosed = FALSE /\ formCloser = [at |-> "open", items |-> {}]
  /\ shown = {} /\ heard = [c \in Calls |-> {}] /\ formFaults = 0

FormFault == formFaults < MaxFormFaults /\ formFaults' = formFaults + 1

-------------------------------------------------------------------------------
(* reply and cancel, in whoever's hand: only a pending form, looked up     *)
(* once; the event is published, and then the form is settled.             *)

Holds(h, c, kind) == hand' = [hand EXCEPT ![h] = [at |-> "telling", form |-> c, kind |-> kind]]

Take(h, c, kind) == hand[h].at = "free" /\ form[c] = "pending" /\ Holds(h, c, kind)

(* Mutant: the form is settled without a word to the clients. *)
HandTellsNobody(h) ==
  /\ hand[h].at = "telling" /\ hand' = [hand EXCEPT ![h].at = "told"]
  /\ UNCHANGED <<form, settled, call, formsClosed, formCloser, shown, heard, formFaults>>

HandTells(h) ==
  /\ hand[h].at = "telling"
  /\ heard' = [heard EXCEPT ![hand[h].form] = @ \cup {hand[h].kind}]
  /\ hand' = [hand EXCEPT ![h].at = "told"]
  /\ UNCHANGED <<form, settled, call, formsClosed, formCloser, shown, formFaults>>

(* Mutant: the cache is left as it was. *)
HandCompletes(h) ==
  LET c == hand[h].form IN
  /\ hand[h].at = "told"
  /\ settled' = IF settled[c] = "none" THEN [settled EXCEPT ![c] = hand[h].kind] ELSE settled
  /\ hand' = [hand EXCEPT ![h] = Free]
  /\ UNCHANGED <<form, call, formsClosed, formCloser, shown, heard, formFaults>>

(* The Deferred keeps its first completion, the cache the last state. *)
HandSettles(h) ==
  LET c == hand[h].form IN
  /\ hand[h].at = "told"
  /\ form' = [form EXCEPT ![c] = hand[h].kind]
  /\ settled' = IF settled[c] = "none" THEN [settled EXCEPT ![c] = hand[h].kind] ELSE settled
  /\ hand' = [hand EXCEPT ![h] = Free]
  /\ UNCHANGED <<call, formsClosed, formCloser, shown, heard, formFaults>>

UserTakes(u, c, kind) ==
  Take(u, c, kind) /\ UNCHANGED <<form, settled, call, formsClosed, formCloser, shown, heard, formFaults>>

(* A failing publication leaves the form; it ends the call of a tool and   *)
(* of the shutdown.                                                        *)
HandFails(h) ==
  /\ hand[h].at = "telling" /\ FormFault
  /\ hand' = [hand EXCEPT ![h] = Free]
  /\ call' = IF h \in Calls THEN [call EXCEPT ![h] = IF @ = "refusing" THEN "died" ELSE @] ELSE call
  /\ formCloser' = IF h = "shutdown" THEN [at |-> "failed", items |-> {}] ELSE formCloser
  /\ UNCHANGED <<form, settled, formsClosed, shown, heard>>

-------------------------------------------------------------------------------
(* ask *)

(* The form is pending before anybody is told of it. *)
Ask(c) ==
  /\ call[c] = "idle"
  /\ form' = [form EXCEPT ![c] = "pending"] /\ call' = [call EXCEPT ![c] = "creating"]
  /\ UNCHANGED <<settled, hand, formsClosed, formCloser, shown, heard, formFaults>>

(* Mutant: create does not ask whether the Location is closed. *)
CreatedAnyway(c) ==
  /\ call[c] = "creating" /\ shown' = shown \cup {c} /\ call' = [call EXCEPT ![c] = "waiting"]
  /\ UNCHANGED <<form, settled, hand, formsClosed, formCloser, heard, formFaults>>

(* Created is out.  After a close the call cancels the form itself, and    *)
(* dies (orDie) if somebody has settled it meanwhile.                      *)
Created(c) ==
  /\ call[c] = "creating" /\ shown' = shown \cup {c}
  /\ IF ~formsClosed THEN call' = [call EXCEPT ![c] = "waiting"] /\ UNCHANGED hand
     ELSE IF form[c] = "pending" THEN call' = [call EXCEPT ![c] = "refusing"] /\ Holds(c, c, "cancelled")
     ELSE call' = [call EXCEPT ![c] = "died"] /\ UNCHANGED hand
  /\ UNCHANGED <<form, settled, formsClosed, formCloser, heard, formFaults>>

CreatedFails(c) ==
  /\ call[c] = "creating" /\ FormFault
  /\ form' = [form EXCEPT ![c] = "none"] /\ call' = [call EXCEPT ![c] = "died"]
  /\ UNCHANGED <<settled, hand, formsClosed, formCloser, shown, heard>>

Returns(c) ==
  /\ call[c] \in {"waiting", "refusing"} /\ hand[c].at = "free" /\ settled[c] # "none"
  /\ call' = [call EXCEPT ![c] = settled[c]]
  /\ UNCHANGED <<form, settled, hand, formsClosed, formCloser, shown, heard, formFaults>>

(* Mutant: the form of a stopped turn is forgotten. *)
InterruptQuietly(c) ==
  /\ call[c] = "waiting" /\ call' = [call EXCEPT ![c] = "interrupted"]
  /\ form' = [form EXCEPT ![c] = "cancelled"]
  /\ UNCHANGED <<settled, hand, formsClosed, formCloser, shown, heard, formFaults>>

(* The turn is stopped: the form is cancelled on the way out. *)
InterruptCall(c) ==
  /\ call[c] = "waiting" /\ call' = [call EXCEPT ![c] = "interrupted"]
  /\ IF form[c] = "pending" THEN Holds(c, c, "cancelled") ELSE UNCHANGED hand
  /\ UNCHANGED <<form, settled, formsClosed, formCloser, shown, heard, formFaults>>

-------------------------------------------------------------------------------
(* close *)

FormsClose ==
  /\ formCloser.at \in {"open", "failed"}
  /\ formsClosed' = TRUE
  /\ formCloser' = [at |-> "closing", items |-> {c \in Calls : form[c] = "pending"}]
  /\ UNCHANGED <<form, settled, call, hand, shown, heard, formFaults>>

(* A form that was settled meanwhile is passed over. *)
FormsCloseTakes(c) ==
  /\ formCloser.at = "closing" /\ c \in formCloser.items /\ hand["shutdown"].at = "free"
  /\ formCloser' = [formCloser EXCEPT !.items = @ \ {c}]
  /\ IF form[c] = "pending" THEN Holds("shutdown", c, "cancelled") ELSE UNCHANGED hand
  /\ UNCHANGED <<form, settled, call, formsClosed, shown, heard, formFaults>>

FormsCloseEnds ==
  /\ formCloser.at = "closing" /\ formCloser.items = {} /\ hand["shutdown"].at = "free"
  /\ formCloser' = [formCloser EXCEPT !.at = "closed"]
  /\ UNCHANGED <<form, settled, call, hand, formsClosed, shown, heard, formFaults>>

-------------------------------------------------------------------------------
CallStep(c) == Created(c) \/ CreatedFails(c) \/ Returns(c) \/ InterruptCall(c)
HandStep(h) == HandTells(h) \/ HandSettles(h) \/ HandFails(h)
FormsCloseStep == FormsCloseEnds \/ \E c \in Calls : FormsCloseTakes(c)

FormNext ==
  \/ \E c \in Calls : Ask(c) \/ CallStep(c)
  \/ \E h \in Hands : HandStep(h)
  \/ \E u \in Users, c \in Calls, kind \in FormEnds : UserTakes(u, c, kind)
  \/ FormsClose \/ FormsCloseStep

FormSpec == FormInit /\ [][FormNext]_formVars
-------------------------------------------------------------------------------
(* Every map, fiber and history keeps its type, and a form has an end in   *)
(* the cache once its Deferred is completed.                               *)
FormTypeOK ==
  /\ form \in [Calls -> {"none", "pending"} \cup FormEnds] /\ settled \in [Calls -> {"none"} \cup FormEnds]
  /\ call \in [Calls -> {"idle", "creating", "waiting", "refusing", "interrupted", "died"} \cup FormEnds]
  /\ hand \in [Hands -> [at : {"free", "telling", "told"}, form : Calls \cup {"none"},
                         kind : FormEnds \cup {"none"}]]
  /\ formsClosed \in BOOLEAN
  /\ formCloser \in [at : {"open", "closing", "failed", "closed"}, items : SUBSET Calls]
  /\ shown \subseteq Calls /\ heard \in [Calls -> SUBSET FormEnds] /\ formFaults \in 0..MaxFormFaults
  /\ \A c \in Calls : settled[c] # "none" => form[c] \in FormEnds \/ call[c] = "died"

(* A call that waits without an end can still get one: its form is         *)
(* pending, whoever answers, cancels or closes meanwhile; and once the     *)
(* close is through, nobody waits so.                                      *)
FormWaitersArePending ==
  \A c \in Calls :
    call[c] = "waiting" /\ settled[c] = "none" => form[c] = "pending" /\ formCloser.at # "closed"

(* What a call returns with was announced to the clients before. *)
EndsAreHeard == \A c \in Calls : call[c] \in FormEnds => call[c] \in heard[c]

(* A form that clients show can be answered: it was created, no end was    *)
(* announced, so it is pending.  Once the close is through, one is shown   *)
(* only while its own call takes it back, unless a publication has failed: *)
(* a call or a close that could not announce the end leaves its form.      *)
FormCardsAreLive ==
  \A c \in shown : heard[c] = {} =>
    form[c] = "pending" /\ (formFaults = 0 /\ formCloser.at = "closed" => hand[c].form = c)
===============================================================================
