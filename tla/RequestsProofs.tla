----------------------------- MODULE RequestsProofs -----------------------------
(***************************************************************************)
(* Proofs about Form, and about Permission and Form together, for any      *)
(* number of calls, users, sessions, resources and failures.               *)
(***************************************************************************)
EXTENDS Requests, PermissionProofs

(* Nothing precedes the asking, and only a failed publication undoes it. *)
FormsBegin ==
  \A c \in Calls :
    /\ call[c] = "idle" => form[c] = "none" /\ settled[c] = "none"
    /\ form[c] = "none" => call[c] = "idle" \/ (call[c] = "died" /\ formFaults > 0)

(* A busy hand holds a form that was asked, with the end it has announced. *)
HandsHold ==
  \A h \in Hands :
    hand[h].at # "free" =>
      /\ hand[h].form \in Calls /\ hand[h].kind \in FormEnds
      /\ call[hand[h].form] # "idle"
      /\ hand[h].at = "told" => hand[h].kind \in heard[hand[h].form]

(* The cache and the Deferred of a form settle together, as announced, and *)
(* a call returns with nothing else.                                       *)
SettledTogether ==
  \A c \in Calls :
    /\ call[c] \in FormEnds => call[c] = settled[c]
    /\ form[c] \in FormEnds => settled[c] # "none"
    /\ settled[c] # "none" => settled[c] \in heard[c]

(* What the close still has to do: every call that waits is on its list or *)
(* in its hand; and so is every pending form, or its own call takes it     *)
(* back.                                                                   *)
InShutdown(c) == hand["shutdown"].at # "free" /\ hand["shutdown"].form = c
ShutdownHasAll ==
  /\ formCloser.at # "open" \/ hand["shutdown"].at # "free" => formsClosed
  /\ \A c \in Calls :
       /\ call[c] = "waiting" /\ settled[c] = "none" =>
            /\ formCloser.at = "closing" => c \in formCloser.items \/ InShutdown(c)
            /\ formCloser.at # "closed"
       /\ formFaults = 0 /\ c \in shown /\ form[c] = "pending" /\ hand[c].form # c =>
            /\ formCloser.at = "closing" => c \in formCloser.items \/ InShutdown(c)
            /\ formCloser.at # "closed"

ShownWereCreated == \A c \in shown : call[c] \notin {"idle", "creating"} /\ form[c] # "none"

FormInv == FormTypeOK /\ FormsBegin /\ HandsHold /\ SettledTogether /\ ShutdownHasAll /\ ShownWereCreated

USE DEF FormEnds

LEMMA FormInitInv == FormInit => FormInv
<1> SUFFICES ASSUME FormInit PROVE FormInv
  OBVIOUS
<1> USE FormAssumption DEF FormInit, Hands, Free
<1>1. FormTypeOK
  <2>1. hand \in [Hands -> [at : {"free", "telling", "told"}, form : Calls \cup {"none"},
                           kind : FormEnds \cup {"none"}]]
    OBVIOUS
  <2>2. formCloser \in [at : {"open", "closing", "failed", "closed"}, items : SUBSET Calls]
    OBVIOUS
  <2>3. heard \in [Calls -> SUBSET FormEnds] /\ formFaults \in 0..MaxFormFaults
    OBVIOUS
  <2> QED BY <2>1, <2>2, <2>3 DEF FormTypeOK
<1>2. FormsBegin /\ HandsHold /\ SettledTogether /\ ShutdownHasAll /\ ShownWereCreated
  BY DEF FormsBegin, HandsHold, SettledTogether, ShutdownHasAll, ShownWereCreated
<1> QED BY <1>1, <1>2 DEF FormInv

LEMMA HoldsKeepsTypes ==
  ASSUME FormTypeOK, NEW c \in Calls, Holds(c, c, "cancelled")
  PROVE  hand' \in [Hands -> [at : {"free", "telling", "told"}, form : Calls \cup {"none"},
                             kind : FormEnds \cup {"none"}]]
<1> DEFINE held == [at |-> "telling", form |-> c, kind |-> "cancelled"]
<1>1. held \in [at : {"free", "telling", "told"}, form : Calls \cup {"none"}, kind : FormEnds \cup {"none"}]
  OBVIOUS
<1>2. hand' = [hand EXCEPT ![c] = held]
  BY DEF Holds
<1> HIDE DEF held
<1> QED BY <1>1, <1>2 DEF FormTypeOK

LEMMA AskInv ==
  ASSUME FormInv, NEW c \in Calls, Ask(c)
  PROVE  FormInv'
<1> USE DEF FormInv, Hands
<1>1. FormTypeOK'
  BY FormAssumption DEF Ask, FormTypeOK, FormsBegin, HandsHold, SettledTogether, ShutdownHasAll, ShownWereCreated
<1>2. FormsBegin'
  BY FormAssumption DEF Ask, FormTypeOK, FormsBegin, HandsHold, SettledTogether, ShutdownHasAll, ShownWereCreated
<1>3. HandsHold'
  BY FormAssumption DEF Ask, FormTypeOK, FormsBegin, HandsHold, SettledTogether, ShutdownHasAll, ShownWereCreated
<1>4. SettledTogether'
  BY FormAssumption DEF Ask, FormTypeOK, FormsBegin, HandsHold, SettledTogether, ShutdownHasAll, ShownWereCreated
<1>5. ShutdownHasAll'
  BY FormAssumption DEF Ask, FormTypeOK, FormsBegin, HandsHold, SettledTogether, ShutdownHasAll, ShownWereCreated,
     InShutdown
<1>6. ShownWereCreated'
  BY FormAssumption DEF Ask, FormTypeOK, FormsBegin, HandsHold, SettledTogether, ShutdownHasAll, ShownWereCreated
<1> QED BY <1>1, <1>2, <1>3, <1>4, <1>5, <1>6

LEMMA FormCreatedInv ==
  ASSUME FormInv, NEW c \in Calls, Created(c)
  PROVE  FormInv'
<1> USE DEF FormInv, Hands
<1>1. FormTypeOK'
  <2>1. call' \in [Calls -> {"idle", "creating", "waiting", "refusing", "interrupted", "died"} \cup FormEnds]
    BY DEF Created, FormTypeOK
  <2>2. hand' \in [Hands -> [at : {"free", "telling", "told"}, form : Calls \cup {"none"},
                            kind : FormEnds \cup {"none"}]]
    <3>1. hand' = hand \/ Holds(c, c, "cancelled")
      BY DEF Created
    <3> QED BY <3>1, HoldsKeepsTypes DEF FormTypeOK
  <2>3. \A b \in Calls : settled'[b] # "none" => form'[b] \in FormEnds \/ call'[b] = "died"
    BY DEF Created, FormTypeOK
  <2> QED BY <2>1, <2>2, <2>3 DEF Created, FormTypeOK
<1>2. FormsBegin'
  BY FormAssumption DEF Created, Holds, FormTypeOK, FormsBegin, HandsHold, SettledTogether, ShutdownHasAll,
     ShownWereCreated
<1>3. HandsHold'
  <2>1. hand' = hand \/ Holds(c, c, "cancelled")
    BY DEF Created
  <2>2. heard' = heard /\ \A b \in Calls : call[b] # "idle" => call'[b] # "idle"
    BY DEF Created, FormTypeOK
  <2>3. call[c] # "idle" /\ "cancelled" \in FormEnds
    BY DEF Created
  <2> QED BY <2>1, <2>2, <2>3 DEF Holds, FormTypeOK, HandsHold
<1>4. SettledTogether'
  BY FormAssumption DEF Created, Holds, FormTypeOK, FormsBegin, HandsHold, SettledTogether, ShutdownHasAll,
     ShownWereCreated
<1>5. ShutdownHasAll'
  BY FormAssumption DEF Created, Holds, FormTypeOK, FormsBegin, HandsHold, SettledTogether, ShutdownHasAll,
     ShownWereCreated, InShutdown
<1>6. ShownWereCreated'
  BY FormAssumption DEF Created, Holds, FormTypeOK, FormsBegin, HandsHold, SettledTogether, ShutdownHasAll,
     ShownWereCreated
<1> QED BY <1>1, <1>2, <1>3, <1>4, <1>5, <1>6

LEMMA CreatedFailsInv ==
  ASSUME FormInv, NEW c \in Calls, CreatedFails(c)
  PROVE  FormInv'
<1> USE DEF FormInv, Hands
<1>1. FormTypeOK'
  BY FormAssumption DEF CreatedFails, FormFault, FormTypeOK, FormsBegin, HandsHold, SettledTogether,
     ShutdownHasAll, ShownWereCreated
<1>2. FormsBegin'
  BY FormAssumption DEF CreatedFails, FormFault, FormTypeOK, FormsBegin, HandsHold, SettledTogether,
     ShutdownHasAll, ShownWereCreated
<1>3. HandsHold'
  BY FormAssumption DEF CreatedFails, FormFault, FormTypeOK, FormsBegin, HandsHold, SettledTogether,
     ShutdownHasAll, ShownWereCreated
<1>4. SettledTogether'
  BY FormAssumption DEF CreatedFails, FormFault, FormTypeOK, FormsBegin, HandsHold, SettledTogether,
     ShutdownHasAll, ShownWereCreated
<1>5. ShutdownHasAll'
  BY FormAssumption DEF CreatedFails, FormFault, FormTypeOK, FormsBegin, HandsHold, SettledTogether,
     ShutdownHasAll, ShownWereCreated, InShutdown
<1>6. ShownWereCreated'
  BY FormAssumption DEF CreatedFails, FormFault, FormTypeOK, FormsBegin, HandsHold, SettledTogether,
     ShutdownHasAll, ShownWereCreated
<1> QED BY <1>1, <1>2, <1>3, <1>4, <1>5, <1>6

LEMMA ReturnsInv ==
  ASSUME FormInv, NEW c \in Calls, Returns(c)
  PROVE  FormInv'
<1> USE DEF FormInv, Hands
<1>1. FormTypeOK'
  BY FormAssumption DEF Returns, FormTypeOK, FormsBegin, HandsHold, SettledTogether, ShutdownHasAll, ShownWereCreated
<1>2. FormsBegin'
  BY FormAssumption DEF Returns, FormTypeOK, FormsBegin, HandsHold, SettledTogether, ShutdownHasAll, ShownWereCreated
<1>3. HandsHold'
  BY FormAssumption DEF Returns, FormTypeOK, FormsBegin, HandsHold, SettledTogether, ShutdownHasAll, ShownWereCreated
<1>4. SettledTogether'
  BY FormAssumption DEF Returns, FormTypeOK, FormsBegin, HandsHold, SettledTogether, ShutdownHasAll, ShownWereCreated
<1>5. ShutdownHasAll'
  BY FormAssumption DEF Returns, FormTypeOK, FormsBegin, HandsHold, SettledTogether, ShutdownHasAll,
     ShownWereCreated, InShutdown
<1>6. ShownWereCreated'
  BY FormAssumption DEF Returns, FormTypeOK, FormsBegin, HandsHold, SettledTogether, ShutdownHasAll, ShownWereCreated
<1> QED BY <1>1, <1>2, <1>3, <1>4, <1>5, <1>6

LEMMA InterruptCallInv ==
  ASSUME FormInv, NEW c \in Calls, InterruptCall(c)
  PROVE  FormInv'
<1> USE DEF FormInv, Hands
<1>1. FormTypeOK'
  <2>1. call' \in [Calls -> {"idle", "creating", "waiting", "refusing", "interrupted", "died"} \cup FormEnds]
    BY DEF InterruptCall, FormTypeOK
  <2>2. hand' \in [Hands -> [at : {"free", "telling", "told"}, form : Calls \cup {"none"},
                            kind : FormEnds \cup {"none"}]]
    <3>1. hand' = hand \/ Holds(c, c, "cancelled")
      BY DEF InterruptCall
    <3> QED BY <3>1, HoldsKeepsTypes DEF FormTypeOK
  <2>3. \A b \in Calls : settled'[b] # "none" => form'[b] \in FormEnds \/ call'[b] = "died"
    BY DEF InterruptCall, FormTypeOK
  <2> QED BY <2>1, <2>2, <2>3 DEF InterruptCall, FormTypeOK
<1>2. FormsBegin'
  BY FormAssumption DEF InterruptCall, Holds, FormTypeOK, FormsBegin, HandsHold, SettledTogether, ShutdownHasAll,
     ShownWereCreated
<1>3. HandsHold'
  <2>1. \A b \in Calls : call[b] # "idle" => call'[b] # "idle"
    BY DEF InterruptCall, FormTypeOK
  <2>2. heard' = heard /\ (hand' = hand \/ Holds(c, c, "cancelled"))
    BY DEF InterruptCall
  <2>3. CASE hand' = hand
    BY <2>1, <2>2, <2>3 DEF HandsHold
  <2>4. CASE Holds(c, c, "cancelled")
    <3>1. \A h \in Hands \ {c} : hand'[h] = hand[h]
      BY <2>4 DEF Holds, FormTypeOK
    <3>2. hand'[c] = [at |-> "telling", form |-> c, kind |-> "cancelled"] /\ call[c] # "idle"
      BY <2>4 DEF Holds, FormTypeOK, InterruptCall
    <3> QED BY <2>1, <2>2, <3>1, <3>2 DEF HandsHold, FormEnds
  <2> QED BY <2>2, <2>3, <2>4
<1>4. SettledTogether'
  BY FormAssumption DEF InterruptCall, Holds, FormTypeOK, FormsBegin, HandsHold, SettledTogether, ShutdownHasAll,
     ShownWereCreated
<1>5. ShutdownHasAll'
  <2>1. /\ UNCHANGED <<form, settled, formsClosed, formCloser, shown, formFaults>>
        /\ \A b \in Calls : call'[b] = "waiting" => call[b] = "waiting"
    BY DEF InterruptCall, FormTypeOK
  <2>2. /\ \A h \in Hands \ {c} : hand'[h] = hand[h]
        /\ form[c] = "pending" => hand'[c].form = c
    BY DEF InterruptCall, Holds, FormTypeOK
  <2>3. "shutdown" \in Hands \ {c} /\ Calls \subseteq Hands
    BY FormAssumption
  <2>4. hand'["shutdown"] = hand["shutdown"] /\ \A b \in Calls : InShutdown(b)' <=> InShutdown(b)
    BY <2>2, <2>3 DEF InShutdown
  <2> QED BY <2>1, <2>2, <2>3, <2>4 DEF ShutdownHasAll
<1>6. ShownWereCreated'
  BY FormAssumption DEF InterruptCall, Holds, FormTypeOK, FormsBegin, HandsHold, SettledTogether, ShutdownHasAll,
     ShownWereCreated
<1> QED BY <1>1, <1>2, <1>3, <1>4, <1>5, <1>6

LEMMA UserTakesInv ==
  ASSUME FormInv, NEW u \in Users, NEW c \in Calls, NEW kind \in FormEnds, UserTakes(u, c, kind)
  PROVE  FormInv'
<1> USE DEF FormInv, Hands
<1>1. FormTypeOK'
  BY FormAssumption DEF UserTakes, Take, Holds, FormTypeOK, FormsBegin, HandsHold, SettledTogether, ShutdownHasAll,
     ShownWereCreated
<1>2. FormsBegin'
  BY FormAssumption DEF UserTakes, Take, Holds, FormTypeOK, FormsBegin, HandsHold, SettledTogether, ShutdownHasAll,
     ShownWereCreated
<1>3. HandsHold'
  BY FormAssumption DEF UserTakes, Take, Holds, FormTypeOK, FormsBegin, HandsHold, SettledTogether, ShutdownHasAll,
     ShownWereCreated
<1>4. SettledTogether'
  BY FormAssumption DEF UserTakes, Take, Holds, FormTypeOK, FormsBegin, HandsHold, SettledTogether, ShutdownHasAll,
     ShownWereCreated
<1>5. ShutdownHasAll'
  BY FormAssumption DEF UserTakes, Take, Holds, FormTypeOK, FormsBegin, HandsHold, SettledTogether, ShutdownHasAll,
     ShownWereCreated, InShutdown
<1>6. ShownWereCreated'
  BY FormAssumption DEF UserTakes, Take, Holds, FormTypeOK, FormsBegin, HandsHold, SettledTogether, ShutdownHasAll,
     ShownWereCreated
<1> QED BY <1>1, <1>2, <1>3, <1>4, <1>5, <1>6

LEMMA HandTellsInv ==
  ASSUME FormInv, NEW h \in Hands, HandTells(h)
  PROVE  FormInv'
<1> USE DEF FormInv, Hands
<1>1. FormTypeOK'
  BY FormAssumption DEF HandTells, FormTypeOK, FormsBegin, HandsHold, SettledTogether, ShutdownHasAll,
     ShownWereCreated
<1>2. FormsBegin'
  BY FormAssumption DEF HandTells, FormTypeOK, FormsBegin, HandsHold, SettledTogether, ShutdownHasAll,
     ShownWereCreated
<1>3. HandsHold'
  BY FormAssumption DEF HandTells, FormTypeOK, FormsBegin, HandsHold, SettledTogether, ShutdownHasAll,
     ShownWereCreated
<1>4. SettledTogether'
  BY FormAssumption DEF HandTells, FormTypeOK, FormsBegin, HandsHold, SettledTogether, ShutdownHasAll,
     ShownWereCreated
<1>5. ShutdownHasAll'
  BY FormAssumption DEF HandTells, FormTypeOK, FormsBegin, HandsHold, SettledTogether, ShutdownHasAll,
     ShownWereCreated, InShutdown
<1>6. ShownWereCreated'
  BY FormAssumption DEF HandTells, FormTypeOK, FormsBegin, HandsHold, SettledTogether, ShutdownHasAll,
     ShownWereCreated
<1> QED BY <1>1, <1>2, <1>3, <1>4, <1>5, <1>6

LEMMA HandSettlesInv ==
  ASSUME FormInv, NEW h \in Hands, HandSettles(h)
  PROVE  FormInv'
<1> USE DEF FormInv, Hands
<1>1. FormTypeOK'
  BY FormAssumption DEF HandSettles, Free, FormTypeOK, FormsBegin, HandsHold, SettledTogether, ShutdownHasAll,
     ShownWereCreated
<1>2. FormsBegin'
  BY FormAssumption DEF HandSettles, Free, FormTypeOK, FormsBegin, HandsHold, SettledTogether, ShutdownHasAll,
     ShownWereCreated
<1>3. HandsHold'
  BY FormAssumption DEF HandSettles, Free, FormTypeOK, FormsBegin, HandsHold, SettledTogether, ShutdownHasAll,
     ShownWereCreated
<1>4. SettledTogether'
  BY FormAssumption DEF HandSettles, Free, FormTypeOK, FormsBegin, HandsHold, SettledTogether, ShutdownHasAll,
     ShownWereCreated
<1>5. ShutdownHasAll'
  BY FormAssumption DEF HandSettles, Free, FormTypeOK, FormsBegin, HandsHold, SettledTogether, ShutdownHasAll,
     ShownWereCreated, InShutdown
<1>6. ShownWereCreated'
  BY FormAssumption DEF HandSettles, Free, FormTypeOK, FormsBegin, HandsHold, SettledTogether, ShutdownHasAll,
     ShownWereCreated
<1> QED BY <1>1, <1>2, <1>3, <1>4, <1>5, <1>6

LEMMA HandFailsInv ==
  ASSUME FormInv, NEW h \in Hands, HandFails(h)
  PROVE  FormInv'
<1> USE DEF FormInv, Hands
<1>1. FormTypeOK'
  BY FormAssumption DEF HandFails, FormFault, Free, FormTypeOK, FormsBegin, HandsHold, SettledTogether,
     ShutdownHasAll, ShownWereCreated
<1>2. FormsBegin'
  BY FormAssumption DEF HandFails, FormFault, Free, FormTypeOK, FormsBegin, HandsHold, SettledTogether,
     ShutdownHasAll, ShownWereCreated
<1>3. HandsHold'
  BY FormAssumption DEF HandFails, FormFault, Free, FormTypeOK, FormsBegin, HandsHold, SettledTogether,
     ShutdownHasAll, ShownWereCreated
<1>4. SettledTogether'
  BY FormAssumption DEF HandFails, FormFault, Free, FormTypeOK, FormsBegin, HandsHold, SettledTogether,
     ShutdownHasAll, ShownWereCreated
<1>5. ShutdownHasAll'
  <2>1. formFaults' # 0
    BY FormAssumption DEF HandFails, FormFault, FormTypeOK
  <2>2. ASSUME NEW c \in Calls, call'[c] = "waiting", settled'[c] = "none", formCloser' = formCloser
        PROVE  call[c] = "waiting" /\ settled[c] = "none"
    BY <2>2, FormAssumption DEF HandFails, FormTypeOK
  <2>3. CASE h = "shutdown"
    <3>1. formsClosed' /\ formCloser'.at = "failed"
      BY <2>3 DEF HandFails, ShutdownHasAll
    <3> QED BY <2>1, <3>1 DEF ShutdownHasAll
  <2>4. CASE h # "shutdown"
    <3>1. formCloser' = formCloser /\ formsClosed' = formsClosed /\ hand'["shutdown"] = hand["shutdown"]
      BY <2>4 DEF HandFails, FormTypeOK
    <3> QED BY <2>1, <2>2, <3>1 DEF ShutdownHasAll, InShutdown
  <2> QED BY <2>3, <2>4
<1>6. ShownWereCreated'
  BY FormAssumption DEF HandFails, FormFault, Free, FormTypeOK, FormsBegin, HandsHold, SettledTogether,
     ShutdownHasAll, ShownWereCreated
<1> QED BY <1>1, <1>2, <1>3, <1>4, <1>5, <1>6

LEMMA FormsCloseInv ==
  ASSUME FormInv, FormsClose
  PROVE  FormInv'
<1> USE DEF FormInv, Hands
<1>1. FormTypeOK'
  BY FormAssumption DEF FormsClose, FormTypeOK, FormsBegin, HandsHold, SettledTogether, ShutdownHasAll,
     ShownWereCreated
<1>2. FormsBegin'
  BY FormAssumption DEF FormsClose, FormTypeOK, FormsBegin, HandsHold, SettledTogether, ShutdownHasAll,
     ShownWereCreated
<1>3. HandsHold'
  BY FormAssumption DEF FormsClose, FormTypeOK, FormsBegin, HandsHold, SettledTogether, ShutdownHasAll,
     ShownWereCreated
<1>4. SettledTogether'
  BY FormAssumption DEF FormsClose, FormTypeOK, FormsBegin, HandsHold, SettledTogether, ShutdownHasAll,
     ShownWereCreated
<1>5. ShutdownHasAll'
  BY FormAssumption DEF FormsClose, FormTypeOK, FormsBegin, HandsHold, SettledTogether, ShutdownHasAll,
     ShownWereCreated, InShutdown
<1>6. ShownWereCreated'
  BY FormAssumption DEF FormsClose, FormTypeOK, FormsBegin, HandsHold, SettledTogether, ShutdownHasAll,
     ShownWereCreated
<1> QED BY <1>1, <1>2, <1>3, <1>4, <1>5, <1>6

LEMMA FormsCloseTakesInv ==
  ASSUME FormInv, NEW c \in Calls, FormsCloseTakes(c)
  PROVE  FormInv'
<1> USE DEF FormInv, Hands
<1>1. FormTypeOK'
  BY FormAssumption DEF FormsCloseTakes, Holds, FormTypeOK, FormsBegin, HandsHold, SettledTogether, ShutdownHasAll,
     ShownWereCreated
<1>2. FormsBegin'
  BY FormAssumption DEF FormsCloseTakes, Holds, FormTypeOK, FormsBegin, HandsHold, SettledTogether, ShutdownHasAll,
     ShownWereCreated
<1>3. HandsHold'
  BY FormAssumption DEF FormsCloseTakes, Holds, FormTypeOK, FormsBegin, HandsHold, SettledTogether, ShutdownHasAll,
     ShownWereCreated
<1>4. SettledTogether'
  BY FormAssumption DEF FormsCloseTakes, Holds, FormTypeOK, FormsBegin, HandsHold, SettledTogether, ShutdownHasAll,
     ShownWereCreated
<1>5. ShutdownHasAll'
  BY FormAssumption DEF FormsCloseTakes, Holds, FormTypeOK, FormsBegin, HandsHold, SettledTogether, ShutdownHasAll,
     ShownWereCreated, InShutdown
<1>6. ShownWereCreated'
  BY FormAssumption DEF FormsCloseTakes, Holds, FormTypeOK, FormsBegin, HandsHold, SettledTogether, ShutdownHasAll,
     ShownWereCreated
<1> QED BY <1>1, <1>2, <1>3, <1>4, <1>5, <1>6

LEMMA FormsCloseEndsInv ==
  ASSUME FormInv, FormsCloseEnds
  PROVE  FormInv'
<1> USE DEF FormInv, Hands
<1>1. FormTypeOK'
  BY FormAssumption DEF FormsCloseEnds, FormTypeOK, FormsBegin, HandsHold, SettledTogether, ShutdownHasAll,
     ShownWereCreated
<1>2. FormsBegin'
  BY FormAssumption DEF FormsCloseEnds, FormTypeOK, FormsBegin, HandsHold, SettledTogether, ShutdownHasAll,
     ShownWereCreated
<1>3. HandsHold'
  BY FormAssumption DEF FormsCloseEnds, FormTypeOK, FormsBegin, HandsHold, SettledTogether, ShutdownHasAll,
     ShownWereCreated
<1>4. SettledTogether'
  BY FormAssumption DEF FormsCloseEnds, FormTypeOK, FormsBegin, HandsHold, SettledTogether, ShutdownHasAll,
     ShownWereCreated
<1>5. ShutdownHasAll'
  BY FormAssumption DEF FormsCloseEnds, FormTypeOK, FormsBegin, HandsHold, SettledTogether, ShutdownHasAll,
     ShownWereCreated, InShutdown
<1>6. ShownWereCreated'
  BY FormAssumption DEF FormsCloseEnds, FormTypeOK, FormsBegin, HandsHold, SettledTogether, ShutdownHasAll,
     ShownWereCreated
<1> QED BY <1>1, <1>2, <1>3, <1>4, <1>5, <1>6

LEMMA FormStepInv == FormInv /\ [FormNext]_formVars => FormInv'
<1> SUFFICES ASSUME FormInv, [FormNext]_formVars PROVE FormInv'
  OBVIOUS
<1>1. CASE UNCHANGED formVars
  BY <1>1 DEF formVars, FormInv, FormTypeOK, FormsBegin, HandsHold, SettledTogether, ShutdownHasAll,
     ShownWereCreated, InShutdown
<1>2. ASSUME NEW c \in Calls, Ask(c) \/ CallStep(c) PROVE FormInv'
  BY <1>2, AskInv, FormCreatedInv, CreatedFailsInv, ReturnsInv, InterruptCallInv DEF CallStep
<1>3. ASSUME NEW h \in Hands, HandStep(h) PROVE FormInv'
  BY <1>3, HandTellsInv, HandSettlesInv, HandFailsInv DEF HandStep
<1>4. ASSUME NEW u \in Users, NEW c \in Calls, NEW kind \in FormEnds, UserTakes(u, c, kind) PROVE FormInv'
  BY <1>4, UserTakesInv
<1>5. CASE FormsClose \/ FormsCloseStep
  BY <1>5, FormsCloseInv, FormsCloseTakesInv, FormsCloseEndsInv DEF FormsCloseStep
<1> QED BY <1>1, <1>2, <1>3, <1>4, <1>5 DEF FormNext

-------------------------------------------------------------------------------
(* Every reachable state satisfies the invariant. *)
THEOREM FormInvariant == FormSpec => []FormInv
<1> QED BY FormInitInv, FormStepInv, PTL DEF FormSpec

(* Every map, fiber and history of the forms keeps its type, and the cache *)
(* has an end where the Deferred has one: form.ts:193, 194, 209, 210.      *)
THEOREM FormTypes == FormSpec => []FormTypeOK
<1>1. FormInv => FormTypeOK
  BY DEF FormInv
<1> QED BY <1>1, FormInvariant, PTL

(* A call that waits for a form can still get its end, and after the close *)
(* nobody waits: no order of answers, cancellations, stopped turns, failing*)
(* publications and closing strands a question (form.ts:146, 199, 215).    *)
THEOREM NoQuestionWaitsInVain == FormSpec => []FormWaitersArePending
<1>1. FormInv => FormWaitersArePending
  BY DEF FormInv, FormTypeOK, FormsBegin, SettledTogether, ShutdownHasAll, FormWaitersArePending
<1> QED BY <1>1, FormInvariant, PTL

(* What a question returns with was announced to every client before, by   *)
(* whoever settled it first (form.ts:188, 208).                            *)
THEOREM EndsWereAnnounced == FormSpec => []EndsAreHeard
<1>1. FormInv => EndsAreHeard
  BY DEF FormInv, SettledTogether, EndsAreHeard
<1> QED BY <1>1, FormInvariant, PTL

(* Every form that clients show can be answered until its end is           *)
(* announced; without failing publications, only forms that their own      *)
(* calls are taking back are shown after the close (form.ts:146, 220).     *)
THEOREM FormsCanBeAnswered == FormSpec => []FormCardsAreLive
<1>1. FormInv => FormCardsAreLive
  BY DEF FormInv, FormTypeOK, FormsBegin, SettledTogether, ShutdownHasAll, ShownWereCreated, FormCardsAreLive
<1> QED BY <1>1, FormInvariant, PTL

-------------------------------------------------------------------------------
(* Permissions and forms together: each keeps its own promises, ...        *)

LEMMA PartsAreSteps ==
  /\ [RequestsNext]_requestsVars => [PermissionNext]_permissionVars
  /\ [RequestsNext]_requestsVars => [FormNext]_formVars
<1> SUFFICES ASSUME [RequestsNext]_requestsVars PROVE [PermissionNext]_permissionVars /\ [FormNext]_formVars
  OBVIOUS
<1>1. CASE UNCHANGED requestsVars
  BY <1>1 DEF requestsVars
<1>2. CASE PermissionPart
  BY <1>2 DEF PermissionPart
<1>3. CASE FormPart
  <2>1. UNCHANGED permissionVars
    BY <1>3 DEF FormPart
  <2>2. "shutdown" \in Hands /\ Users \subseteq Hands /\ Calls \subseteq Hands
    BY DEF Hands
  <2>3. FormNext
    BY <1>3, <2>2 DEF FormPart, FormNext, Question, UserPart, ShutdownForms
  <2> QED BY <2>1, <2>3
<1> QED BY <1>1, <1>2, <1>3 DEF RequestsNext

(* The question tool and the shutdown use permissions as any tool call     *)
(* does, and nothing that forms do disturbs them: whatever is proved of    *)
(* permission.ts alone holds of both.                                      *)
THEOREM PermissionsKeepTheirPromises == RequestsSpec => PermissionSpec
<1>1. RequestsInit => PermissionInit
  BY DEF RequestsInit
<1> QED BY <1>1, PartsAreSteps, PTL DEF RequestsSpec, PermissionSpec

(* The same of form.ts: the permission in front of a question and the      *)
(* order of the shutdown only restrict when forms are asked and closed.    *)
THEOREM FormsKeepTheirPromises == RequestsSpec => FormSpec
<1>1. RequestsInit => FormInit
  BY DEF RequestsInit
<1> QED BY <1>1, PartsAreSteps, PTL DEF RequestsSpec, FormSpec

(* Of both together: what a tool call or a user does at one of them it     *)
(* does at one at a time, and the shutdown closes permissions first.       *)
ResultsAreFinal == \A a \in Askers : asker[a].result # "none" => asker[a].at = "done"
OneThingAtATime ==
  /\ \A c \in Calls : call[c] # "idle" => asker[c].result = "permitted"
  /\ \A u \in Users : hand[u].at # "free" => reply[u].at \in {"idle", "done"}
ShutdownInOrder == formsClosed => closed
TogetherInv == ResultsAreFinal /\ OneThingAtATime /\ ShutdownInOrder

(* A tool call that has its result is past every step of assert. *)
LEMMA ResultsStay ==
  ASSUME PermissionTypeOK, ResultsAreFinal, [PermissionNext]_permissionVars
  PROVE  ResultsAreFinal' /\ \A a \in Askers : asker[a].result # "none" => asker'[a] = asker[a]
<1> USE DEF PermissionTypeOK, ToolCall, ResultsAreFinal
<1>1. CASE UNCHANGED permissionVars
  BY <1>1 DEF permissionVars
<1>2. ASSUME NEW b \in Askers, NEW result, Ends(b, result), asker[b].at # "done"
      PROVE  ResultsAreFinal' /\ \A a \in Askers : asker[a].result # "none" => asker'[a] = asker[a]
  BY <1>2 DEF Ends, NewAsker
<1>3. ASSUME NEW b \in Askers, NEW at, asker[b].at # "done", asker' = [asker EXCEPT ![b].at = at]
      PROVE  ResultsAreFinal' /\ \A a \in Askers : asker[a].result # "none" => asker'[a] = asker[a]
  BY <1>3
<1>4. ASSUME NEW b \in Askers, AskerStep(b) \/ AskedFails(b) \/ InterruptAsker(b)
      PROVE  ResultsAreFinal' /\ \A a \in Askers : asker[a].result # "none" => asker'[a] = asker[a]
  <2>1. asker[b].at # "done"
    BY <1>4 DEF AskerStep, Evaluate, Create, Asked, Released, AskedFails, InterruptAsker
  <2>2. (\E result : Ends(b, result)) \/ \E at : asker' = [asker EXCEPT ![b].at = at]
    BY <1>4 DEF AskerStep, Evaluate, Create, Asked, Released, AskedFails, InterruptAsker
  <2> QED BY <2>1, <2>2, <1>2, <1>3
<1>5. ASSUME NEW b \in Askers, NEW s \in Sessions, NEW r \in Resources, Assert(b, s, r)
      PROVE  ResultsAreFinal' /\ \A a \in Askers : asker[a].result # "none" => asker'[a] = asker[a]
  <2>1. asker[b].at # "done"
    BY <1>5 DEF Assert
  <2>2. CASE asker' = [asker EXCEPT ![b] = [at |-> "evaluating", session |-> s, resource |-> r, result |-> "none"]]
    BY <2>1, <2>2
  <2> QED BY <1>5, <2>1, <2>2, <1>2 DEF Assert
<1>6. ASSUME NEW u \in Replies,
             ReplyStep(u) \/ TellFails(u) \/ \E b \in Askers, kind \in Kinds : Reply(u, b, kind)
      PROVE  UNCHANGED asker
  BY <1>6 DEF ReplyStep, Tell, Save, Settle, Reevaluate, WalkEnds, Visit, TellFails, Reply
<1>7. ASSUME Close \/ CloserStep \/ \E b \in Askers : CloseFails(b) PROVE UNCHANGED asker
  BY <1>7 DEF Close, CloserStep, CloseDeclines, CloseEnds, CloseTells, CloseFails
<1> QED BY <1>1, <1>4, <1>5, <1>6, <1>7 DEF PermissionNext

LEMMA TogetherStep ==
  PermissionInv /\ FormInv /\ TogetherInv /\ [RequestsNext]_requestsVars => TogetherInv'
<1> SUFFICES ASSUME PermissionInv, FormInv, TogetherInv, [RequestsNext]_requestsVars PROVE TogetherInv'
  OBVIOUS
<1> USE RequestsAssumption
<1>1. PermissionTypeOK /\ FormTypeOK /\ [PermissionNext]_permissionVars
  BY PartsAreSteps DEF PermissionInv, FormInv
<1>2. ResultsAreFinal' /\ \A a \in Askers : asker[a].result # "none" => asker'[a] = asker[a]
  BY <1>1, ResultsStay DEF TogetherInv
<1>3. closed => closed'
  BY <1>1 DEF PermissionNext, permissionVars, AskerStep, ReplyStep, CloserStep, Evaluate, Create, Asked, AskedFails,
     Released, InterruptAsker, Assert, Reply, Tell, TellFails, Save, Settle, Visit, Reevaluate, WalkEnds,
     Close, CloseTells, CloseDeclines, CloseFails, CloseEnds
<1>4. CASE UNCHANGED requestsVars
  BY <1>2, <1>4 DEF requestsVars, permissionVars, formVars, TogetherInv, OneThingAtATime, ShutdownInOrder
<1>5. CASE PermissionPart
  <2>1. OneThingAtATime'
    BY <1>2, <1>5 DEF PermissionPart, formVars, TogetherInv, OneThingAtATime
  <2>2. ShutdownInOrder'
    BY <1>3, <1>5 DEF PermissionPart, formVars, TogetherInv, ShutdownInOrder
  <2> QED BY <1>2, <2>1, <2>2 DEF TogetherInv
<1>6. CASE FormPart
  <2>1. UNCHANGED <<asker, reply, closed>>
    BY <1>6 DEF FormPart, permissionVars
  <2>2. \A c \in Calls : call'[c] # "idle" => call[c] # "idle" \/ asker[c].result = "permitted"
    <3>1. ASSUME NEW d \in Calls, Question(d) PROVE \A c \in Calls : call'[c] # call[c] => asker[c].result = "permitted"
      BY <1>1, <3>1 DEF FormTypeOK, Question, Ask
    <3>2. ASSUME NEW d \in Calls, CallStep(d) PROVE \A c \in Calls : call'[c] # call[c] => call[c] # "idle"
      BY <1>1, <3>2 DEF FormTypeOK, CallStep, Created, CreatedFails, Returns, InterruptCall
    <3>3. ASSUME NEW h \in Hands, HandStep(h) PROVE \A c \in Calls : call'[c] # call[c] => call[c] # "idle"
      BY <1>1, <3>3 DEF FormTypeOK, HandStep, HandTells, HandSettles, HandFails
    <3>4. ASSUME NEW u \in Users, UserPart(u) PROVE \A c \in Calls : call'[c] # call[c] => call[c] # "idle"
      <4>1. CASE HandStep(u)
        BY <3>3, <4>1 DEF Hands
      <4> QED BY <3>4, <4>1 DEF UserPart, UserTakes
    <3>5. CASE ShutdownForms \/ FormsCloseStep
      BY <3>5 DEF ShutdownForms, FormsClose, FormsCloseStep, FormsCloseTakes, FormsCloseEnds
    <3>6. Calls \subseteq Hands /\ "shutdown" \in Hands
      BY DEF Hands
    <3> QED BY <1>6, <3>1, <3>2, <3>3, <3>4, <3>5, <3>6 DEF FormPart
  <2>3. ASSUME NEW u \in Users, hand'[u].at # "free" PROVE hand[u].at # "free" \/ reply[u].at \in {"idle", "done"}
    <3> USE <2>3, FormAssumption DEF FormTypeOK, Holds, Free, Hands
    <3>1. ASSUME NEW c \in Calls, Question(c) \/ CallStep(c) PROVE hand'[u] = hand[u]
      BY <1>1, <3>1 DEF Question, Ask, CallStep, Created, CreatedFails, Returns, InterruptCall
    <3>2. ASSUME NEW h \in Hands, HandStep(h) PROVE hand[u].at # "free"
      BY <1>1, <3>2 DEF HandStep, HandTells, HandSettles, HandFails
    <3>3. ASSUME NEW v \in Users, UserPart(v) PROVE hand[u].at # "free" \/ reply[u].at \in {"idle", "done"}
      <4>1. reply[v].at \in {"idle", "done"}
        BY <3>3 DEF UserPart
      <4>2. CASE HandStep(v)
        BY <3>2, <4>2
      <4>3. CASE ~HandStep(v)
        <5>1. PICK c \in Calls, kind \in FormEnds : Holds(v, c, kind)
          BY <3>3, <4>3 DEF UserPart, UserTakes, Take
        <5> QED BY <1>1, <4>1, <5>1
      <4> QED BY <4>2, <4>3
    <3>4. CASE ShutdownForms \/ FormsCloseStep
      BY <1>1, <3>4 DEF ShutdownForms, FormsClose, FormsCloseStep, FormsCloseTakes, FormsCloseEnds
    <3> QED BY <1>6, <3>1, <3>2, <3>3, <3>4 DEF FormPart
  <2>4. formsClosed' => formsClosed \/ closer.at \in {"closed", "failed"}
    BY <1>6 DEF FormPart, Question, Ask, CallStep, Created, CreatedFails, Returns, InterruptCall, HandStep, HandTells,
       HandSettles, HandFails, UserPart, UserTakes, ShutdownForms, FormsClose, FormsCloseStep, FormsCloseTakes,
       FormsCloseEnds
  <2>5. closer.at # "open" => closed
    BY DEF PermissionInv, CloseIsThorough
  <2> QED BY <1>2, <2>1, <2>2, <2>3, <2>4, <2>5 DEF TogetherInv, OneThingAtATime, ShutdownInOrder
<1> QED BY <1>4, <1>5, <1>6 DEF RequestsNext

THEOREM TogetherInvariant == RequestsSpec => [](PermissionInv /\ FormInv /\ TogetherInv)
<1>1. RequestsInit => TogetherInv
  BY RequestsAssumption DEF RequestsInit, PermissionInit, FormInit, TogetherInv, ResultsAreFinal, OneThingAtATime,
     ShutdownInOrder, NewAsker, NewReply, Free, Hands
<1>2. RequestsSpec => []PermissionInv /\ []FormInv
  BY PermissionsKeepTheirPromises, FormsKeepTheirPromises, PermissionInvariant, FormInvariant, PTL
<1> QED BY <1>1, <1>2, TogetherStep, PTL DEF RequestsSpec

(* A question is put to people only once its permission is given, and no   *)
(* interrupt, reply or close takes the permission back under it; whatever  *)
(* form is shown belongs to such a tool call (tool/plugin/question.ts:63). *)
QuestionsWerePermitted ==
  \A c \in Calls : c \in shown \/ form[c] # "none" => asker[c].at = "done" /\ asker[c].result = "permitted"

THEOREM QuestionsNeedAPermission == RequestsSpec => []QuestionsWerePermitted
<1>1. PermissionInv /\ FormInv /\ TogetherInv => QuestionsWerePermitted
  BY RequestsAssumption DEF FormInv, FormsBegin, ShownWereCreated, TogetherInv, ResultsAreFinal, OneThingAtATime,
     QuestionsWerePermitted
<1> QED BY <1>1, TogetherInvariant, PTL

(* Once the shutdown is through with permissions and forms, no tool call of*)
(* the Location waits for a person: neither for a permission nor for an    *)
(* answer, whatever it asked before, meanwhile or afterwards               *)
(* (location-lifecycle.ts:63).                                             *)
NobodyIsLeft ==
  closer.at = "closed" /\ formCloser.at = "closed" =>
    \A c \in Calls : ~Unanswered(c) /\ (call[c] = "waiting" => settled[c] # "none")

THEOREM ShutdownLeavesNobody == RequestsSpec => []NobodyIsLeft
<1>1. PermissionInv /\ FormInv => NobodyIsLeft
  BY RequestsAssumption DEF PermissionInv, WaitersArePending, FormInv, ShutdownHasAll, NobodyIsLeft
<1> QED BY <1>1, TogetherInvariant, PTL

(* Everything that is checked of permissions and of forms alone holds of   *)
(* them behind the question tool and the shutdown.                         *)
THEOREM RequestsAreSafe ==
  RequestsSpec =>
    /\ [](PermissionTypeOK /\ WaitersArePending /\ ReleasedWasTold /\ CardsAreLive)
    /\ [](FormTypeOK /\ FormWaitersArePending /\ EndsAreHeard /\ FormCardsAreLive)
    /\ GrantsAreCovered /\ PermitsAreGrounded
<1> QED BY PermissionsKeepTheirPromises, FormsKeepTheirPromises, PermissionTypes, NobodyWaitsInVain,
           ReleasesWereAnnounced, CardsCanBeAnswered, ApprovalsGrantWhatTheyCover, NothingElseIsPermitted,
           FormTypes, NoQuestionWaitsInVain, EndsWereAnnounced, FormsCanBeAnswered, PTL
===============================================================================
