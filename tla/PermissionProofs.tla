---------------------------- MODULE PermissionProofs ----------------------------
(***************************************************************************)
(* Proofs about Permission, for any number of tool calls, replies, sessions*)
(* and resources.                                                          *)
(***************************************************************************)
EXTENDS Permission, TLAPS

(* Whoever asks, asks for something, and nobody settles what is not asked. *)
Early == {"idle", "evaluating", "evaluated"}
AskersHold ==
  \A a \in Askers :
    /\ asker[a].at \notin {"idle", "done"} => asker[a].resource \in Resources
    /\ asker[a].at \in Early => deferred[a] = "none" /\ a \notin closer.items

(* A reply has a request in hand, and while it settles it clients know. *)
InHand == {"telling", "told", "saved", "evaluating"}
RepliesHold ==
  \A u \in Replies :
    /\ reply[u].at \notin {"idle", "done"} => reply[u].kind \in Kinds
    /\ reply[u].at \in InHand => reply[u].item \in Askers /\ asker[reply[u].item].at \notin Early
    /\ reply[u].at \in {"told", "saved"} => Outcome(reply[u].kind) \in told[reply[u].item]

(* What an approval for good settles, it covers. *)
ApprovalsCover ==
  \A u \in Replies :
    reply[u].kind = "always" =>
      /\ reply[u].at \in {"telling", "told"} /\ reply[u].walks => Covered(reply[u].resource)
      /\ reply[u].at = "saved" => Covered(reply[u].resource)
      /\ reply[u].at \in {"telling", "told"} => reply[u].resource \in Resources

(* The close has on its list whoever it has still to let go, and whatever  *)
(* clients have not been told of.                                          *)
Closing == closer.at \in {"closing", "told"}
CloseIsThorough ==
  /\ closer.at # "open" => closed
  /\ closer.at = "told" =>
       closer.item \in closer.items /\ closer.item \in Askers /\ "declined" \in told[closer.item]
  /\ \A a \in Askers :
       Closing => (Unanswered(a) => a \in closer.items)
                  /\ (faults = 0 /\ a \in pending => a \in closer.items \/ told[a] # {})

(* Of the requests that clients know of, or are being told of: nobody lets *)
(* go of one, or settles it, before clients are told so.                   *)
AnnouncedAreLive ==
  \A a \in Askers :
    /\ a \in asked => asker[a].at \in {"waiting", "done"}
    /\ faults = 0 /\ Announced(a) /\ told[a] = {} =>
         deferred[a] = "none" /\ (a \in pending \/ asker[a].result = "interrupted")

PermissionInv ==
  /\ PermissionTypeOK /\ WaitersArePending /\ ReleasedWasTold
  /\ AskersHold /\ RepliesHold /\ ApprovalsCover /\ CloseIsThorough /\ AnnouncedAreLive

USE DEF Kinds, Outcome

LEMMA PermissionInitInv == PermissionInit => PermissionInv
<1> SUFFICES ASSUME PermissionInit PROVE PermissionInv
  OBVIOUS
<1> USE PermissionAssumption DEF PermissionInit, NewAsker, NewReply
<1>1. PermissionTypeOK
  <2>1. NewAsker \in ToolCall
    BY DEF ToolCall
  <2>2. NewReply \in ReplyCall
    BY DEF ReplyCall
  <2>3. closer \in Closer
    BY DEF Closer
  <2>4. asker \in [Askers -> ToolCall] /\ reply \in [Replies -> ReplyCall]
    BY <2>1, <2>2
  <2>5. deferred \in [Askers -> {"none", "granted", "declined"}] /\ told \in [Askers -> SUBSET {"granted", "declined"}]
    OBVIOUS
  <2>6. faults \in 0..MaxFaults
    OBVIOUS
  <2> QED BY <2>3, <2>4, <2>5, <2>6 DEF PermissionTypeOK
<1>2. WaitersArePending
  BY DEF WaitersArePending, Unanswered
<1>3. ReleasedWasTold
  BY DEF ReleasedWasTold
<1>4. AskersHold
  BY DEF AskersHold, Early
<1>5. RepliesHold
  BY DEF RepliesHold, InHand
<1>6. ApprovalsCover
  BY DEF ApprovalsCover, Covered
<1>7. CloseIsThorough
  BY DEF CloseIsThorough, Closing, Unanswered
<1>8. AnnouncedAreLive
  BY DEF AnnouncedAreLive, Announced
<1> QED BY <1>1, <1>2, <1>3, <1>4, <1>5, <1>6, <1>7, <1>8 DEF PermissionInv

(* One record changes at a time. *)
LEMMA ToolCallChanges ==
  ASSUME asker \in [Askers -> ToolCall], NEW a \in Askers, NEW call \in ToolCall, asker' = [asker EXCEPT ![a] = call]
  PROVE  asker' \in [Askers -> ToolCall]
  OBVIOUS

LEMMA ReplyCallChanges ==
  ASSUME reply \in [Replies -> ReplyCall], NEW u \in Replies, NEW call \in ReplyCall,
         reply' = [reply EXCEPT ![u] = call]
  PROVE  reply' \in [Replies -> ReplyCall]
  OBVIOUS

LEMMA EndsTypes ==
  ASSUME asker \in [Askers -> ToolCall], NEW a \in Askers,
         NEW result \in {"permitted", "refused", "interrupted"}, Ends(a, result)
  PROVE  asker' \in [Askers -> ToolCall]
<1>1. [NewAsker EXCEPT !.at = "done", !.result = result] \in ToolCall
  BY DEF NewAsker, ToolCall
<1> QED BY <1>1, ToolCallChanges DEF Ends

LEMMA WalkingTypes ==
  ASSUME NEW u \in Replies, reply[u] \in ReplyCall
  PROVE  Walking(u) \in ReplyCall
  BY DEF Walking, ReplyCall

LEMMA VisitTypes ==
  ASSUME reply \in [Replies -> ReplyCall], asker \in [Askers -> ToolCall],
         NEW u \in Replies, NEW b \in Askers, Visit(u, b)
  PROVE  reply' \in [Replies -> ReplyCall]
<1> DEFINE taken == [reply[u] EXCEPT !.at = "telling", !.item = b]
<1> DEFINE weighed == [reply[u] EXCEPT !.at = "evaluating", !.item = b, !.resource = asker[b].resource,
                                       !.visited = reply[u].visited \cup {b}]
<1>1. taken \in ReplyCall
  BY DEF ReplyCall
<1>2. weighed \in ReplyCall
  <2>1. asker[b].resource \in Resources \cup {"none"} /\ reply[u].visited \cup {b} \in SUBSET Askers
    BY DEF ReplyCall, ToolCall
  <2> DEFINE held == [reply[u] EXCEPT !.at = "evaluating", !.item = b]
  <2>2. held \in ReplyCall
    BY DEF ReplyCall
  <2>3. weighed = [held EXCEPT !.resource = asker[b].resource, !.visited = reply[u].visited \cup {b}]
    OBVIOUS
  <2> HIDE DEF held
  <2> QED BY <2>1, <2>2, <2>3 DEF ReplyCall
<1>3. CASE reply[u].kind = "reject"
  <2>1. reply' = [reply EXCEPT ![u] = taken]
    BY <1>3 DEF Visit
  <2> HIDE DEF taken
  <2> QED BY <1>1, <2>1, ReplyCallChanges
<1>4. CASE reply[u].kind # "reject"
  <2>1. reply' = [reply EXCEPT ![u] = weighed]
    BY <1>4 DEF Visit
  <2> HIDE DEF weighed
  <2> QED BY <1>2, <2>1, ReplyCallChanges
<1> QED BY <1>3, <1>4

LEMMA EndsInv ==
  ASSUME PermissionInv, NEW a \in Askers, NEW result \in {"permitted", "refused", "interrupted"}, Ends(a, result),
         pending' = pending \ {a}, UNCHANGED <<deferred, reply, saved, closed, closer, asked, told>>,
         faults' \in {faults, faults + 1}, faults' <= MaxFaults,
         faults' = 0 /\ Announced(a) => result = "interrupted" \/ told[a] # {}
  PROVE  PermissionInv'
<1> USE PermissionAssumption DEF PermissionInv
<1>a. asker' \in [Askers -> ToolCall]
  BY EndsTypes DEF PermissionTypeOK
<1>b. asker'[a].at = "done" /\ asker'[a].result = result
  BY DEF Ends, NewAsker, PermissionTypeOK
<1>c. \A b \in Askers \ {a} : asker'[b] = asker[b]
  BY DEF Ends, PermissionTypeOK
<1>d. faults' \in 0..MaxFaults /\ (faults' = 0 => faults = 0)
  BY DEF PermissionTypeOK
<1>1. PermissionTypeOK'
  BY <1>a, <1>b, <1>c, <1>d DEF PermissionTypeOK
<1>2. WaitersArePending'
  BY <1>b, <1>c DEF WaitersArePending, Unanswered
<1>3. ReleasedWasTold'
  BY <1>b, <1>c, <1>d DEF ReleasedWasTold, Announced
<1>4. AskersHold'
  BY <1>b, <1>c DEF AskersHold, Early
<1>5. RepliesHold'
  BY <1>b, <1>c DEF RepliesHold, InHand, Early
<1>6. ApprovalsCover'
  BY DEF ApprovalsCover, Covered
<1>7. CloseIsThorough'
  BY <1>b, <1>c, <1>d DEF CloseIsThorough, Closing, Unanswered
<1>8. AnnouncedAreLive'
  BY <1>b, <1>c, <1>d DEF AnnouncedAreLive, Announced
<1> QED BY <1>1, <1>2, <1>3, <1>4, <1>5, <1>6, <1>7, <1>8

(* A tool call that asks nobody yet moves on. *)
LEMMA MovesInv ==
  ASSUME PermissionInv, NEW a \in Askers, a \notin pending, ~Announced(a),
         NEW call \in ToolCall, call.at \in {"evaluating", "evaluated"}, call.resource \in Resources,
         asker[a].at \in Early,
         asker' = [asker EXCEPT ![a] = call],
         UNCHANGED <<pending, deferred, reply, saved, closed, closer, asked, told, faults>>
  PROVE  PermissionInv'
<1> USE PermissionAssumption DEF PermissionInv
<1>a. asker' \in [Askers -> ToolCall] /\ asker'[a] = call /\ \A b \in Askers \ {a} : asker'[b] = asker[b]
  BY DEF PermissionTypeOK
<1>1. PermissionTypeOK'
  BY <1>a DEF PermissionTypeOK
<1>2. WaitersArePending'
  BY <1>a DEF WaitersArePending, Unanswered
<1>3. ReleasedWasTold'
  BY <1>a DEF ReleasedWasTold, Announced
<1>4. AskersHold'
  BY <1>a DEF AskersHold, Early
<1>5. RepliesHold'
  BY <1>a DEF RepliesHold, InHand, Early
<1>6. ApprovalsCover'
  BY DEF ApprovalsCover, Covered
<1>7. CloseIsThorough'
  BY <1>a DEF CloseIsThorough, Closing, Unanswered
<1>8. AnnouncedAreLive'
  BY <1>a DEF AnnouncedAreLive, Announced
<1> QED BY <1>1, <1>2, <1>3, <1>4, <1>5, <1>6, <1>7, <1>8

LEMMA AssertInv ==
  ASSUME PermissionInv, NEW a \in Askers, NEW s \in Sessions, NEW r \in Resources, Assert(a, s, r)
  PROVE  PermissionInv'
<1> USE PermissionAssumption DEF PermissionInv
<1>1. a \notin pending /\ ~Announced(a) /\ asker[a].at \in Early
  BY DEF Assert, PermissionTypeOK, AnnouncedAreLive, Announced, Early
<1>2. CASE closed
  BY <1>1, <1>2, EndsInv DEF Assert, PermissionTypeOK
<1>3. CASE ~closed
  <2> DEFINE began == [at |-> "evaluating", session |-> s, resource |-> r, result |-> "none"]
  <2>1. began \in ToolCall /\ began.at = "evaluating" /\ began.resource = r
    BY DEF ToolCall
  <2>2. asker' = [asker EXCEPT ![a] = began]
    BY <1>3 DEF Assert
  <2> HIDE DEF began
  <2> QED BY <1>1, <2>1, <2>2, MovesInv DEF Assert
<1> QED BY <1>2, <1>3

LEMMA EvaluateInv ==
  ASSUME PermissionInv, NEW a \in Askers, Evaluate(a)
  PROVE  PermissionInv'
<1> USE PermissionAssumption DEF PermissionInv
<1>1. a \notin pending /\ ~Announced(a) /\ asker[a].at \in Early
  BY DEF Evaluate, PermissionTypeOK, AnnouncedAreLive, Announced, Early
<1>2. CASE Ends(a, "permitted") \/ Ends(a, "refused")
  BY <1>1, <1>2, EndsInv DEF Evaluate, PermissionTypeOK
<1>3. CASE asker' = [asker EXCEPT ![a].at = "evaluated"]
  <2> DEFINE known == [asker[a] EXCEPT !.at = "evaluated"]
  <2>1. known \in ToolCall /\ known.at = "evaluated" /\ known.resource \in Resources
    BY DEF Evaluate, PermissionTypeOK, AskersHold, ToolCall
  <2>2. asker' = [asker EXCEPT ![a] = known]
    BY <1>3 DEF PermissionTypeOK
  <2> HIDE DEF known
  <2> QED BY <1>1, <2>1, <2>2, MovesInv DEF Evaluate
<1> QED BY <1>2, <1>3 DEF Evaluate

LEMMA CreatedInv ==
  ASSUME PermissionInv, NEW a \in Askers, a \notin asked,
         asker' \in [Askers -> ToolCall], asker'[a].resource \in Resources,
         \A b \in Askers \ {a} : asker'[b] = asker[b] /\ deferred'[b] = deferred[b],
         deferred' \in [Askers -> {"none", "granted", "declined"}],
         deferred'[a] = "granted" => deferred[a] = "granted",
         \/ asker'[a].at = "waiting" /\ closed /\ deferred'[a] # "none" /\ pending' = pending /\ a \notin pending
         \/ asker'[a].at = "asking" /\ closer.at = "open" /\ deferred' = deferred /\ pending' = pending \cup {a},
         asker'[a].at = "asking" => deferred[a] = "none",
         UNCHANGED <<reply, saved, closed, closer, asked, told, faults>>
  PROVE  PermissionInv'
<1> USE PermissionAssumption DEF PermissionInv
<1>1. PermissionTypeOK'
  BY DEF PermissionTypeOK
<1>2. WaitersArePending'
  BY DEF WaitersArePending, Unanswered
<1>3. ReleasedWasTold'
  BY DEF ReleasedWasTold, Announced, PermissionTypeOK
<1>4. AskersHold'
  BY DEF AskersHold, Early
<1>5. RepliesHold'
  BY DEF RepliesHold, InHand, Early
<1>6. ApprovalsCover'
  BY DEF ApprovalsCover, Covered
<1>7. CloseIsThorough'
  BY DEF CloseIsThorough, Closing, Unanswered
<1>8. AnnouncedAreLive'
  BY DEF AnnouncedAreLive, Announced
<1> QED BY <1>1, <1>2, <1>3, <1>4, <1>5, <1>6, <1>7, <1>8

LEMMA CreateInv ==
  ASSUME PermissionInv, NEW a \in Askers, Create(a)
  PROVE  PermissionInv'
<1> USE PermissionAssumption DEF PermissionInv
<1> DEFINE next == [asker[a] EXCEPT !.at = IF closed THEN "waiting" ELSE "asking"]
<1>a. /\ asker' = [asker EXCEPT ![a] = next]
      /\ next \in ToolCall /\ next.at = (IF closed THEN "waiting" ELSE "asking")
      /\ next.resource = asker[a].resource /\ next.resource \in Resources
  BY DEF Create, PermissionTypeOK, ToolCall, AskersHold
<1> HIDE DEF next
<1>b. /\ asker' \in [Askers -> ToolCall] /\ asker'[a] = next
      /\ \A b \in Askers \ {a} : asker'[b] = asker[b]
  BY <1>a DEF PermissionTypeOK
<1>c. a \notin pending /\ a \notin asked /\ deferred[a] = "none"
  BY DEF Create, PermissionTypeOK, AnnouncedAreLive, AskersHold, Early
<1>d. CASE closed
  <2>1. deferred' = Completed(a, "declined") /\ UNCHANGED pending
    BY <1>d DEF Create
  <2>2. /\ deferred' \in [Askers -> {"none", "granted", "declined"}] /\ deferred'[a] # "none"
        /\ \A b \in Askers \ {a} : deferred'[b] = deferred[b]
        /\ deferred'[a] = "granted" => deferred[a] = "granted"
    BY <2>1 DEF Completed, PermissionTypeOK
  <2> QED BY <1>a, <1>b, <1>c, <1>d, <2>1, <2>2, CreatedInv DEF Create
<1>e. CASE ~closed
  <2>1. UNCHANGED deferred /\ pending' = pending \cup {a} /\ closer.at = "open"
    BY <1>e DEF Create, CloseIsThorough, PermissionTypeOK
  <2> QED BY <1>a, <1>b, <1>c, <1>e, <2>1, CreatedInv DEF Create, PermissionTypeOK
<1> QED BY <1>d, <1>e

LEMMA AskedInv ==
  ASSUME PermissionInv, NEW a \in Askers, Asked(a)
  PROVE  PermissionInv'
<1> USE PermissionAssumption DEF PermissionInv, Asked
<1>1. PermissionTypeOK'
  <2>1. pending' \subseteq Askers /\ deferred' \in [Askers -> {"none", "granted", "declined"}]
    BY DEF PermissionTypeOK, AskersHold, RepliesHold, ApprovalsCover, CloseIsThorough
  <2>2. asker' \in [Askers -> ToolCall]
    <3> DEFINE next == [asker[a] EXCEPT !.at = "waiting"]
    <3>1. next \in ToolCall
      BY DEF PermissionTypeOK, ToolCall
    <3>2. asker' = [asker EXCEPT ![a] = next]
      BY DEF PermissionTypeOK
    <3> HIDE DEF next
    <3> QED BY <3>1, <3>2, ToolCallChanges DEF PermissionTypeOK
  <2>3. reply' \in [Replies -> ReplyCall]
    BY DEF PermissionTypeOK, AskersHold, RepliesHold, ApprovalsCover, CloseIsThorough
  <2>4. closer' \in Closer
    BY DEF PermissionTypeOK, AskersHold, RepliesHold, ApprovalsCover, CloseIsThorough
  <2>5. /\ saved' \subseteq Resources /\ closed' \in BOOLEAN
       /\ asked' \subseteq Askers /\ told' \in [Askers -> SUBSET {"granted", "declined"}] /\ faults' \in 0..MaxFaults
    BY DEF PermissionTypeOK, AskersHold, RepliesHold, ApprovalsCover, CloseIsThorough
  <2>6. \A b \in pending' : asker'[b].at \in {"asking", "waiting"}
    BY DEF PermissionTypeOK, AskersHold, RepliesHold, ApprovalsCover, CloseIsThorough
  <2> QED BY <2>1, <2>2, <2>3, <2>4, <2>5, <2>6 DEF PermissionTypeOK
<1>2. WaitersArePending'
  BY DEF WaitersArePending, RepliesHold, CloseIsThorough, PermissionTypeOK, Unanswered, InHand, Closing
<1>3. ReleasedWasTold'
  BY DEF ReleasedWasTold, RepliesHold, CloseIsThorough, AnnouncedAreLive, PermissionTypeOK, InHand, Closing, Unanswered, Announced
<1>4. AskersHold'
  BY DEF AskersHold, RepliesHold, CloseIsThorough, PermissionTypeOK, Early, InHand
<1>5. RepliesHold'
  BY DEF RepliesHold, AskersHold, PermissionTypeOK, InHand, Early
<1>6. ApprovalsCover'
  BY DEF ApprovalsCover, AskersHold, PermissionTypeOK, Covered
<1>7. CloseIsThorough'
  BY DEF CloseIsThorough, WaitersArePending, RepliesHold, AnnouncedAreLive, PermissionTypeOK, Closing, Unanswered, InHand, Announced
<1>8. AnnouncedAreLive'
  BY DEF AnnouncedAreLive, ReleasedWasTold, RepliesHold, CloseIsThorough, WaitersArePending, PermissionTypeOK, Announced, InHand, Closing, Unanswered
<1> QED BY <1>1, <1>2, <1>3, <1>4, <1>5, <1>6, <1>7, <1>8

LEMMA AskedFailsInv ==
  ASSUME PermissionInv, NEW a \in Askers, AskedFails(a)
  PROVE  PermissionInv'
<1>1. faults' = faults + 1 /\ faults' <= MaxFaults /\ faults' # 0
  BY PermissionAssumption DEF AskedFails, Fault, PermissionInv, PermissionTypeOK
<1> QED BY <1>1, EndsInv DEF AskedFails

LEMMA ReleasedInv ==
  ASSUME PermissionInv, NEW a \in Askers, Released(a)
  PROVE  PermissionInv'
<1>1. faults' = 0 /\ Announced(a) => told[a] # {}
  BY DEF Released, PermissionInv, AnnouncedAreLive
<1>2. Ends(a, "permitted") \/ Ends(a, "refused")
  BY DEF Released
<1>3. faults' = faults /\ faults' <= MaxFaults
  BY PermissionAssumption DEF Released, PermissionInv, PermissionTypeOK
<1> QED BY <1>1, <1>2, <1>3, EndsInv DEF Released

LEMMA InterruptInv ==
  ASSUME PermissionInv, NEW a \in Askers, InterruptAsker(a)
  PROVE  PermissionInv'
<1>1. faults' = faults /\ faults' <= MaxFaults
  BY PermissionAssumption DEF InterruptAsker, PermissionInv, PermissionTypeOK
<1> QED BY <1>1, EndsInv DEF InterruptAsker

LEMMA ReplyInv ==
  ASSUME PermissionInv, NEW u \in Replies, NEW a \in Askers, NEW kind \in Kinds, Reply(u, a, kind)
  PROVE  PermissionInv'
<1> USE PermissionAssumption DEF PermissionInv, Reply, Takes, NewReply
<1>1. PermissionTypeOK'
  <2>1. pending' \subseteq Askers /\ deferred' \in [Askers -> {"none", "granted", "declined"}]
    BY DEF PermissionTypeOK, AskersHold, RepliesHold, ApprovalsCover, CloseIsThorough
  <2>2. asker' \in [Askers -> ToolCall]
    BY DEF PermissionTypeOK, AskersHold, RepliesHold, ApprovalsCover, CloseIsThorough
  <2>3. reply' \in [Replies -> ReplyCall]
    <3> DEFINE next == [NewReply EXCEPT !.at = "telling", !.kind = kind, !.item = a,
                                      !.resource = IF kind = "always" THEN asker[a].resource ELSE "none",
                                      !.session = IF kind = "reject" THEN asker[a].session ELSE "none"]
    <3>1. next \in ReplyCall
      BY DEF PermissionTypeOK, ReplyCall, ToolCall
    <3>2. reply' = [reply EXCEPT ![u] = next]
      BY DEF PermissionTypeOK
    <3> HIDE DEF next
    <3> QED BY <3>1, <3>2, ReplyCallChanges DEF PermissionTypeOK
  <2>4. closer' \in Closer
    BY DEF PermissionTypeOK, AskersHold, RepliesHold, ApprovalsCover, CloseIsThorough
  <2>5. /\ saved' \subseteq Resources /\ closed' \in BOOLEAN
       /\ asked' \subseteq Askers /\ told' \in [Askers -> SUBSET {"granted", "declined"}] /\ faults' \in 0..MaxFaults
    BY DEF PermissionTypeOK, AskersHold, RepliesHold, ApprovalsCover, CloseIsThorough
  <2>6. \A b \in pending' : asker'[b].at \in {"asking", "waiting"}
    BY DEF PermissionTypeOK, AskersHold, RepliesHold, ApprovalsCover, CloseIsThorough
  <2> QED BY <2>1, <2>2, <2>3, <2>4, <2>5, <2>6 DEF PermissionTypeOK
<1>2. WaitersArePending'
  BY DEF WaitersArePending, RepliesHold, CloseIsThorough, PermissionTypeOK, Unanswered, InHand, Closing
<1>3. ReleasedWasTold'
  BY DEF ReleasedWasTold, RepliesHold, CloseIsThorough, AnnouncedAreLive, PermissionTypeOK, InHand, Closing, Unanswered, Announced
<1>4. AskersHold'
  BY DEF AskersHold, RepliesHold, CloseIsThorough, PermissionTypeOK, Early, InHand
<1>5. RepliesHold'
  BY DEF RepliesHold, AskersHold, PermissionTypeOK, InHand, Early
<1>6. ApprovalsCover'
  BY DEF ApprovalsCover, AskersHold, PermissionTypeOK, Covered
<1>7. CloseIsThorough'
  BY DEF CloseIsThorough, WaitersArePending, RepliesHold, AnnouncedAreLive, PermissionTypeOK, Closing, Unanswered, InHand, Announced
<1>8. AnnouncedAreLive'
  BY DEF AnnouncedAreLive, ReleasedWasTold, RepliesHold, CloseIsThorough, WaitersArePending, PermissionTypeOK, Announced, InHand, Closing, Unanswered
<1> QED BY <1>1, <1>2, <1>3, <1>4, <1>5, <1>6, <1>7, <1>8

LEMMA TellInv ==
  ASSUME PermissionInv, NEW u \in Replies, Tell(u)
  PROVE  PermissionInv'
<1> USE PermissionAssumption DEF PermissionInv, Tell, Tells
<1>1. PermissionTypeOK'
  <2>1. pending' \subseteq Askers /\ deferred' \in [Askers -> {"none", "granted", "declined"}]
    BY DEF PermissionTypeOK, AskersHold, RepliesHold, ApprovalsCover, CloseIsThorough
  <2>2. asker' \in [Askers -> ToolCall]
    BY DEF PermissionTypeOK, AskersHold, RepliesHold, ApprovalsCover, CloseIsThorough
  <2>3. reply' \in [Replies -> ReplyCall]
    <3> DEFINE next == [reply[u] EXCEPT !.at = "told"]
    <3>1. next \in ReplyCall
      BY DEF PermissionTypeOK, ReplyCall
    <3>2. reply' = [reply EXCEPT ![u] = next]
      BY DEF PermissionTypeOK
    <3> HIDE DEF next
    <3> QED BY <3>1, <3>2, ReplyCallChanges DEF PermissionTypeOK
  <2>4. closer' \in Closer
    BY DEF PermissionTypeOK, AskersHold, RepliesHold, ApprovalsCover, CloseIsThorough
  <2>5. /\ saved' \subseteq Resources /\ closed' \in BOOLEAN
       /\ asked' \subseteq Askers /\ told' \in [Askers -> SUBSET {"granted", "declined"}] /\ faults' \in 0..MaxFaults
    BY DEF PermissionTypeOK, AskersHold, RepliesHold, ApprovalsCover, CloseIsThorough
  <2>6. \A b \in pending' : asker'[b].at \in {"asking", "waiting"}
    BY DEF PermissionTypeOK, AskersHold, RepliesHold, ApprovalsCover, CloseIsThorough
  <2> QED BY <2>1, <2>2, <2>3, <2>4, <2>5, <2>6 DEF PermissionTypeOK
<1>2. WaitersArePending'
  BY DEF WaitersArePending, RepliesHold, CloseIsThorough, PermissionTypeOK, Unanswered, InHand, Closing
<1>3. ReleasedWasTold'
  BY DEF ReleasedWasTold, RepliesHold, CloseIsThorough, AnnouncedAreLive, PermissionTypeOK, InHand, Closing, Unanswered, Announced
<1>4. AskersHold'
  BY DEF AskersHold, RepliesHold, CloseIsThorough, PermissionTypeOK, Early, InHand
<1>5. RepliesHold'
  BY DEF RepliesHold, AskersHold, PermissionTypeOK, InHand, Early
<1>6. ApprovalsCover'
  BY DEF ApprovalsCover, AskersHold, PermissionTypeOK, Covered
<1>7. CloseIsThorough'
  BY DEF CloseIsThorough, WaitersArePending, RepliesHold, AnnouncedAreLive, PermissionTypeOK, Closing, Unanswered, InHand, Announced
<1>8. AnnouncedAreLive'
  BY DEF AnnouncedAreLive, ReleasedWasTold, RepliesHold, CloseIsThorough, WaitersArePending, PermissionTypeOK, Announced, InHand, Closing, Unanswered
<1> QED BY <1>1, <1>2, <1>3, <1>4, <1>5, <1>6, <1>7, <1>8

LEMMA TellFailsInv ==
  ASSUME PermissionInv, NEW u \in Replies, TellFails(u)
  PROVE  PermissionInv'
<1> USE PermissionAssumption DEF PermissionInv, TellFails, Fault, Done, NewReply
<1>1. PermissionTypeOK'
  <2>1. pending' \subseteq Askers /\ deferred' \in [Askers -> {"none", "granted", "declined"}]
    BY DEF PermissionTypeOK, AskersHold, RepliesHold, ApprovalsCover, CloseIsThorough
  <2>2. asker' \in [Askers -> ToolCall]
    BY DEF PermissionTypeOK, AskersHold, RepliesHold, ApprovalsCover, CloseIsThorough
  <2>3. reply' \in [Replies -> ReplyCall]
    <3> DEFINE next == Done
    <3>1. next \in ReplyCall
      BY DEF PermissionTypeOK, ReplyCall
    <3>2. reply' = [reply EXCEPT ![u] = next]
      BY DEF PermissionTypeOK
    <3> HIDE DEF next
    <3> QED BY <3>1, <3>2, ReplyCallChanges DEF PermissionTypeOK
  <2>4. closer' \in Closer
    BY DEF PermissionTypeOK, AskersHold, RepliesHold, ApprovalsCover, CloseIsThorough
  <2>5. /\ saved' \subseteq Resources /\ closed' \in BOOLEAN
       /\ asked' \subseteq Askers /\ told' \in [Askers -> SUBSET {"granted", "declined"}] /\ faults' \in 0..MaxFaults
    BY DEF PermissionTypeOK, AskersHold, RepliesHold, ApprovalsCover, CloseIsThorough
  <2>6. \A b \in pending' : asker'[b].at \in {"asking", "waiting"}
    BY DEF PermissionTypeOK, AskersHold, RepliesHold, ApprovalsCover, CloseIsThorough
  <2> QED BY <2>1, <2>2, <2>3, <2>4, <2>5, <2>6 DEF PermissionTypeOK
<1>2. WaitersArePending'
  BY DEF WaitersArePending, RepliesHold, CloseIsThorough, PermissionTypeOK, Unanswered, InHand, Closing
<1>3. ReleasedWasTold'
  BY DEF ReleasedWasTold, RepliesHold, CloseIsThorough, AnnouncedAreLive, PermissionTypeOK, InHand, Closing, Unanswered, Announced
<1>4. AskersHold'
  BY DEF AskersHold, RepliesHold, CloseIsThorough, PermissionTypeOK, Early, InHand
<1>5. RepliesHold'
  BY DEF RepliesHold, AskersHold, PermissionTypeOK, InHand, Early
<1>6. ApprovalsCover'
  BY DEF ApprovalsCover, AskersHold, PermissionTypeOK, Covered
<1>7. CloseIsThorough'
  BY DEF CloseIsThorough, WaitersArePending, RepliesHold, AnnouncedAreLive, PermissionTypeOK, Closing, Unanswered, InHand, Announced
<1>8. AnnouncedAreLive'
  BY DEF AnnouncedAreLive, ReleasedWasTold, RepliesHold, CloseIsThorough, WaitersArePending, PermissionTypeOK, Announced, InHand, Closing, Unanswered
<1> QED BY <1>1, <1>2, <1>3, <1>4, <1>5, <1>6, <1>7, <1>8

LEMMA SaveInv ==
  ASSUME PermissionInv, NEW u \in Replies, Save(u)
  PROVE  PermissionInv'
<1> USE PermissionAssumption DEF PermissionInv, Save, ToSave
<1>1. PermissionTypeOK'
  <2>1. pending' \subseteq Askers /\ deferred' \in [Askers -> {"none", "granted", "declined"}]
    BY DEF PermissionTypeOK, AskersHold, RepliesHold, ApprovalsCover, CloseIsThorough
  <2>2. asker' \in [Askers -> ToolCall]
    BY DEF PermissionTypeOK, AskersHold, RepliesHold, ApprovalsCover, CloseIsThorough
  <2>3. reply' \in [Replies -> ReplyCall]
    <3> DEFINE next == [reply[u] EXCEPT !.at = "saved", !.walks = TRUE]
    <3>1. next \in ReplyCall
      BY DEF PermissionTypeOK, ReplyCall
    <3>2. reply' = [reply EXCEPT ![u] = next]
      BY DEF PermissionTypeOK
    <3> HIDE DEF next
    <3> QED BY <3>1, <3>2, ReplyCallChanges DEF PermissionTypeOK
  <2>4. closer' \in Closer
    BY DEF PermissionTypeOK, AskersHold, RepliesHold, ApprovalsCover, CloseIsThorough
  <2>5. /\ saved' \subseteq Resources /\ closed' \in BOOLEAN
       /\ asked' \subseteq Askers /\ told' \in [Askers -> SUBSET {"granted", "declined"}] /\ faults' \in 0..MaxFaults
    BY DEF PermissionTypeOK, AskersHold, RepliesHold, ApprovalsCover, CloseIsThorough
  <2>6. \A b \in pending' : asker'[b].at \in {"asking", "waiting"}
    BY DEF PermissionTypeOK, AskersHold, RepliesHold, ApprovalsCover, CloseIsThorough
  <2> QED BY <2>1, <2>2, <2>3, <2>4, <2>5, <2>6 DEF PermissionTypeOK
<1>2. WaitersArePending'
  BY DEF WaitersArePending, RepliesHold, CloseIsThorough, PermissionTypeOK, Unanswered, InHand, Closing
<1>3. ReleasedWasTold'
  BY DEF ReleasedWasTold, RepliesHold, CloseIsThorough, AnnouncedAreLive, PermissionTypeOK, InHand, Closing, Unanswered, Announced
<1>4. AskersHold'
  BY DEF AskersHold, RepliesHold, CloseIsThorough, PermissionTypeOK, Early, InHand
<1>5. RepliesHold'
  BY DEF RepliesHold, AskersHold, PermissionTypeOK, InHand, Early
<1>6. ApprovalsCover'
  BY DEF ApprovalsCover, AskersHold, PermissionTypeOK, Covered
<1>7. CloseIsThorough'
  BY DEF CloseIsThorough, WaitersArePending, RepliesHold, AnnouncedAreLive, PermissionTypeOK, Closing, Unanswered, InHand, Announced
<1>8. AnnouncedAreLive'
  BY DEF AnnouncedAreLive, ReleasedWasTold, RepliesHold, CloseIsThorough, WaitersArePending, PermissionTypeOK, Announced, InHand, Closing, Unanswered
<1> QED BY <1>1, <1>2, <1>3, <1>4, <1>5, <1>6, <1>7, <1>8

LEMMA SettleInv ==
  ASSUME PermissionInv, NEW u \in Replies, Settle(u)
  PROVE  PermissionInv'
<1> USE PermissionAssumption DEF PermissionInv, Settle, ToSave, Completed, Walking, Done, NewReply
<1>1. PermissionTypeOK'
  <2>1. pending' \subseteq Askers /\ deferred' \in [Askers -> {"none", "granted", "declined"}]
    BY DEF PermissionTypeOK, AskersHold, RepliesHold, ApprovalsCover, CloseIsThorough
  <2>2. asker' \in [Askers -> ToolCall]
    BY DEF PermissionTypeOK, AskersHold, RepliesHold, ApprovalsCover, CloseIsThorough
  <2>3. reply' \in [Replies -> ReplyCall]
    <3>1. Done \in ReplyCall /\ Walking(u) \in ReplyCall
      <4>1. Done \in ReplyCall
        BY DEF ReplyCall
      <4>2. Walking(u) \in ReplyCall
        BY WalkingTypes DEF PermissionTypeOK
      <4> QED BY <4>1, <4>2
    <3>2. reply' = [reply EXCEPT ![u] = Done] \/ reply' = [reply EXCEPT ![u] = Walking(u)]
      BY DEF PermissionTypeOK
    <3> QED BY <3>1, <3>2, ReplyCallChanges DEF PermissionTypeOK
  <2>4. closer' \in Closer
    BY DEF PermissionTypeOK, AskersHold, RepliesHold, ApprovalsCover, CloseIsThorough
  <2>5. /\ saved' \subseteq Resources /\ closed' \in BOOLEAN
       /\ asked' \subseteq Askers /\ told' \in [Askers -> SUBSET {"granted", "declined"}] /\ faults' \in 0..MaxFaults
    BY DEF PermissionTypeOK, AskersHold, RepliesHold, ApprovalsCover, CloseIsThorough
  <2>6. \A b \in pending' : asker'[b].at \in {"asking", "waiting"}
    BY DEF PermissionTypeOK, AskersHold, RepliesHold, ApprovalsCover, CloseIsThorough
  <2> QED BY <2>1, <2>2, <2>3, <2>4, <2>5, <2>6 DEF PermissionTypeOK
<1>2. WaitersArePending'
  BY DEF WaitersArePending, RepliesHold, CloseIsThorough, PermissionTypeOK, Unanswered, InHand, Closing
<1>3. ReleasedWasTold'
  BY DEF ReleasedWasTold, RepliesHold, CloseIsThorough, AnnouncedAreLive, PermissionTypeOK, InHand, Closing, Unanswered, Announced
<1>4. AskersHold'
  BY DEF AskersHold, RepliesHold, CloseIsThorough, PermissionTypeOK, Early, InHand
<1>5. RepliesHold'
  BY DEF RepliesHold, AskersHold, PermissionTypeOK, InHand, Early
<1>6. ApprovalsCover'
  BY DEF ApprovalsCover, AskersHold, PermissionTypeOK, Covered
<1>7. CloseIsThorough'
  BY DEF CloseIsThorough, WaitersArePending, RepliesHold, AnnouncedAreLive, PermissionTypeOK, Closing, Unanswered, InHand, Announced
<1>8. AnnouncedAreLive'
  BY DEF AnnouncedAreLive, ReleasedWasTold, RepliesHold, CloseIsThorough, WaitersArePending, PermissionTypeOK, Announced, InHand, Closing, Unanswered
<1> QED BY <1>1, <1>2, <1>3, <1>4, <1>5, <1>6, <1>7, <1>8

LEMMA VisitInv ==
  ASSUME PermissionInv, NEW u \in Replies, NEW b \in Askers, Visit(u, b)
  PROVE  PermissionInv'
<1> USE PermissionAssumption DEF PermissionInv, Visit, Left
<1>1. PermissionTypeOK'
  <2>1. pending' \subseteq Askers /\ deferred' \in [Askers -> {"none", "granted", "declined"}]
    BY DEF PermissionTypeOK, AskersHold, RepliesHold, ApprovalsCover, CloseIsThorough
  <2>2. asker' \in [Askers -> ToolCall]
    BY DEF PermissionTypeOK, AskersHold, RepliesHold, ApprovalsCover, CloseIsThorough
  <2>3. reply' \in [Replies -> ReplyCall]
    BY VisitTypes DEF PermissionTypeOK
  <2>4. closer' \in Closer
    BY DEF PermissionTypeOK, AskersHold, RepliesHold, ApprovalsCover, CloseIsThorough
  <2>5. /\ saved' \subseteq Resources /\ closed' \in BOOLEAN
       /\ asked' \subseteq Askers /\ told' \in [Askers -> SUBSET {"granted", "declined"}] /\ faults' \in 0..MaxFaults
    BY DEF PermissionTypeOK, AskersHold, RepliesHold, ApprovalsCover, CloseIsThorough
  <2>6. \A a \in pending' : asker'[a].at \in {"asking", "waiting"}
    BY DEF PermissionTypeOK, AskersHold, RepliesHold, ApprovalsCover, CloseIsThorough
  <2> QED BY <2>1, <2>2, <2>3, <2>4, <2>5, <2>6 DEF PermissionTypeOK
<1>2. WaitersArePending'
  BY DEF WaitersArePending, RepliesHold, CloseIsThorough, PermissionTypeOK, Unanswered, InHand, Closing
<1>3. ReleasedWasTold'
  BY DEF ReleasedWasTold, RepliesHold, CloseIsThorough, AnnouncedAreLive, PermissionTypeOK, InHand, Closing, Unanswered, Announced
<1>4. AskersHold'
  BY DEF AskersHold, RepliesHold, CloseIsThorough, PermissionTypeOK, Early, InHand
<1>5. RepliesHold'
  <2>1. reply'[u].at \in {"telling", "evaluating"} /\ reply'[u].item = b /\ reply'[u].kind = reply[u].kind
    BY DEF PermissionTypeOK, ReplyCall
  <2>2. \A v \in Replies \ {u} : reply'[v] = reply[v]
    BY DEF PermissionTypeOK
  <2>3. reply[u].kind \in Kinds /\ asker[b].at \notin Early
    BY DEF RepliesHold, PermissionTypeOK, Early
  <2> QED BY <2>1, <2>2, <2>3 DEF RepliesHold, InHand
<1>6. ApprovalsCover'
  BY DEF ApprovalsCover, AskersHold, PermissionTypeOK, Covered
<1>7. CloseIsThorough'
  BY DEF CloseIsThorough, WaitersArePending, RepliesHold, AnnouncedAreLive, PermissionTypeOK, Closing, Unanswered, InHand, Announced
<1>8. AnnouncedAreLive'
  BY DEF AnnouncedAreLive, ReleasedWasTold, RepliesHold, CloseIsThorough, WaitersArePending, PermissionTypeOK, Announced, InHand, Closing, Unanswered
<1> QED BY <1>1, <1>2, <1>3, <1>4, <1>5, <1>6, <1>7, <1>8

LEMMA ReevaluateInv ==
  ASSUME PermissionInv, NEW u \in Replies, Reevaluate(u)
  PROVE  PermissionInv'
<1> USE PermissionAssumption DEF PermissionInv, Reevaluate, Effects, Walking
<1>1. PermissionTypeOK'
  <2>1. pending' \subseteq Askers /\ deferred' \in [Askers -> {"none", "granted", "declined"}]
    BY DEF PermissionTypeOK, AskersHold, RepliesHold, ApprovalsCover, CloseIsThorough
  <2>2. asker' \in [Askers -> ToolCall]
    BY DEF PermissionTypeOK, AskersHold, RepliesHold, ApprovalsCover, CloseIsThorough
  <2>3. reply' \in [Replies -> ReplyCall]
    <3> DEFINE granted == [reply[u] EXCEPT !.at = "telling"]
    <3>1. granted \in ReplyCall
      BY DEF PermissionTypeOK, ReplyCall
    <3>2. Walking(u) \in ReplyCall
      BY WalkingTypes DEF PermissionTypeOK
    <3>3. reply' = [reply EXCEPT ![u] = granted] \/ reply' = [reply EXCEPT ![u] = Walking(u)]
      BY DEF PermissionTypeOK
    <3> HIDE DEF granted
    <3> QED BY <3>1, <3>2, <3>3, ReplyCallChanges DEF PermissionTypeOK
  <2>4. closer' \in Closer
    BY DEF PermissionTypeOK, AskersHold, RepliesHold, ApprovalsCover, CloseIsThorough
  <2>5. /\ saved' \subseteq Resources /\ closed' \in BOOLEAN
       /\ asked' \subseteq Askers /\ told' \in [Askers -> SUBSET {"granted", "declined"}] /\ faults' \in 0..MaxFaults
    BY DEF PermissionTypeOK, AskersHold, RepliesHold, ApprovalsCover, CloseIsThorough
  <2>6. \A b \in pending' : asker'[b].at \in {"asking", "waiting"}
    BY DEF PermissionTypeOK, AskersHold, RepliesHold, ApprovalsCover, CloseIsThorough
  <2> QED BY <2>1, <2>2, <2>3, <2>4, <2>5, <2>6 DEF PermissionTypeOK
<1>2. WaitersArePending'
  BY DEF WaitersArePending, RepliesHold, CloseIsThorough, PermissionTypeOK, Unanswered, InHand, Closing
<1>3. ReleasedWasTold'
  BY DEF ReleasedWasTold, RepliesHold, CloseIsThorough, AnnouncedAreLive, PermissionTypeOK, InHand, Closing, Unanswered, Announced
<1>4. AskersHold'
  BY DEF AskersHold, RepliesHold, CloseIsThorough, PermissionTypeOK, Early, InHand
<1>5. RepliesHold'
  BY DEF RepliesHold, AskersHold, PermissionTypeOK, InHand, Early
<1>6. ApprovalsCover'
  BY DEF ApprovalsCover, AskersHold, PermissionTypeOK, Covered
<1>7. CloseIsThorough'
  BY DEF CloseIsThorough, WaitersArePending, RepliesHold, AnnouncedAreLive, PermissionTypeOK, Closing, Unanswered, InHand, Announced
<1>8. AnnouncedAreLive'
  BY DEF AnnouncedAreLive, ReleasedWasTold, RepliesHold, CloseIsThorough, WaitersArePending, PermissionTypeOK, Announced, InHand, Closing, Unanswered
<1> QED BY <1>1, <1>2, <1>3, <1>4, <1>5, <1>6, <1>7, <1>8

LEMMA WalkEndsInv ==
  ASSUME PermissionInv, NEW u \in Replies, WalkEnds(u)
  PROVE  PermissionInv'
<1> USE PermissionAssumption DEF PermissionInv, WalkEnds, Done, NewReply
<1>1. PermissionTypeOK'
  <2>1. pending' \subseteq Askers /\ deferred' \in [Askers -> {"none", "granted", "declined"}]
    BY DEF PermissionTypeOK, AskersHold, RepliesHold, ApprovalsCover, CloseIsThorough
  <2>2. asker' \in [Askers -> ToolCall]
    BY DEF PermissionTypeOK, AskersHold, RepliesHold, ApprovalsCover, CloseIsThorough
  <2>3. reply' \in [Replies -> ReplyCall]
    <3> DEFINE next == Done
    <3>1. next \in ReplyCall
      BY DEF PermissionTypeOK, ReplyCall
    <3>2. reply' = [reply EXCEPT ![u] = next]
      BY DEF PermissionTypeOK
    <3> HIDE DEF next
    <3> QED BY <3>1, <3>2, ReplyCallChanges DEF PermissionTypeOK
  <2>4. closer' \in Closer
    BY DEF PermissionTypeOK, AskersHold, RepliesHold, ApprovalsCover, CloseIsThorough
  <2>5. /\ saved' \subseteq Resources /\ closed' \in BOOLEAN
       /\ asked' \subseteq Askers /\ told' \in [Askers -> SUBSET {"granted", "declined"}] /\ faults' \in 0..MaxFaults
    BY DEF PermissionTypeOK, AskersHold, RepliesHold, ApprovalsCover, CloseIsThorough
  <2>6. \A b \in pending' : asker'[b].at \in {"asking", "waiting"}
    BY DEF PermissionTypeOK, AskersHold, RepliesHold, ApprovalsCover, CloseIsThorough
  <2> QED BY <2>1, <2>2, <2>3, <2>4, <2>5, <2>6 DEF PermissionTypeOK
<1>2. WaitersArePending'
  BY DEF WaitersArePending, RepliesHold, CloseIsThorough, PermissionTypeOK, Unanswered, InHand, Closing
<1>3. ReleasedWasTold'
  BY DEF ReleasedWasTold, RepliesHold, CloseIsThorough, AnnouncedAreLive, PermissionTypeOK, InHand, Closing, Unanswered, Announced
<1>4. AskersHold'
  BY DEF AskersHold, RepliesHold, CloseIsThorough, PermissionTypeOK, Early, InHand
<1>5. RepliesHold'
  BY DEF RepliesHold, AskersHold, PermissionTypeOK, InHand, Early
<1>6. ApprovalsCover'
  BY DEF ApprovalsCover, AskersHold, PermissionTypeOK, Covered
<1>7. CloseIsThorough'
  BY DEF CloseIsThorough, WaitersArePending, RepliesHold, AnnouncedAreLive, PermissionTypeOK, Closing, Unanswered, InHand, Announced
<1>8. AnnouncedAreLive'
  BY DEF AnnouncedAreLive, ReleasedWasTold, RepliesHold, CloseIsThorough, WaitersArePending, PermissionTypeOK, Announced, InHand, Closing, Unanswered
<1> QED BY <1>1, <1>2, <1>3, <1>4, <1>5, <1>6, <1>7, <1>8

LEMMA CloseInv ==
  ASSUME PermissionInv, Close
  PROVE  PermissionInv'
<1> USE PermissionAssumption DEF PermissionInv, Close
<1>1. PermissionTypeOK'
  <2>1. pending' \subseteq Askers /\ deferred' \in [Askers -> {"none", "granted", "declined"}]
    BY DEF PermissionTypeOK, AskersHold, RepliesHold, ApprovalsCover, CloseIsThorough
  <2>2. asker' \in [Askers -> ToolCall]
    BY DEF PermissionTypeOK, AskersHold, RepliesHold, ApprovalsCover, CloseIsThorough
  <2>3. reply' \in [Replies -> ReplyCall]
    BY DEF PermissionTypeOK, AskersHold, RepliesHold, ApprovalsCover, CloseIsThorough
  <2>4. closer' \in Closer
    BY DEF PermissionTypeOK, CloseIsThorough, Closer
  <2>5. /\ saved' \subseteq Resources /\ closed' \in BOOLEAN
       /\ asked' \subseteq Askers /\ told' \in [Askers -> SUBSET {"granted", "declined"}] /\ faults' \in 0..MaxFaults
    BY DEF PermissionTypeOK, AskersHold, RepliesHold, ApprovalsCover, CloseIsThorough
  <2>6. \A b \in pending' : asker'[b].at \in {"asking", "waiting"}
    BY DEF PermissionTypeOK, AskersHold, RepliesHold, ApprovalsCover, CloseIsThorough
  <2> QED BY <2>1, <2>2, <2>3, <2>4, <2>5, <2>6 DEF PermissionTypeOK
<1>2. WaitersArePending'
  BY DEF WaitersArePending, RepliesHold, CloseIsThorough, PermissionTypeOK, Unanswered, InHand, Closing
<1>3. ReleasedWasTold'
  BY DEF ReleasedWasTold, RepliesHold, CloseIsThorough, AnnouncedAreLive, PermissionTypeOK, InHand, Closing, Unanswered, Announced
<1>4. AskersHold'
  BY DEF AskersHold, RepliesHold, CloseIsThorough, PermissionTypeOK, Early, InHand
<1>5. RepliesHold'
  BY DEF RepliesHold, AskersHold, PermissionTypeOK, InHand, Early
<1>6. ApprovalsCover'
  BY DEF ApprovalsCover, AskersHold, PermissionTypeOK, Covered
<1>7. CloseIsThorough'
  BY DEF CloseIsThorough, WaitersArePending, RepliesHold, AnnouncedAreLive, PermissionTypeOK, Closing, Unanswered, InHand, Announced
<1>8. AnnouncedAreLive'
  BY DEF AnnouncedAreLive, ReleasedWasTold, RepliesHold, CloseIsThorough, WaitersArePending, PermissionTypeOK, Announced, InHand, Closing, Unanswered
<1> QED BY <1>1, <1>2, <1>3, <1>4, <1>5, <1>6, <1>7, <1>8

LEMMA CloseTellsInv ==
  ASSUME PermissionInv, NEW a \in Askers, CloseTells(a)
  PROVE  PermissionInv'
<1> USE PermissionAssumption DEF PermissionInv, CloseTells, Tells
<1>1. PermissionTypeOK'
  <2>1. pending' \subseteq Askers /\ deferred' \in [Askers -> {"none", "granted", "declined"}]
    BY DEF PermissionTypeOK, AskersHold, RepliesHold, ApprovalsCover, CloseIsThorough
  <2>2. asker' \in [Askers -> ToolCall]
    BY DEF PermissionTypeOK, AskersHold, RepliesHold, ApprovalsCover, CloseIsThorough
  <2>3. reply' \in [Replies -> ReplyCall]
    BY DEF PermissionTypeOK, AskersHold, RepliesHold, ApprovalsCover, CloseIsThorough
  <2>4. closer' \in Closer
    BY DEF PermissionTypeOK, CloseIsThorough, Closer
  <2>5. /\ saved' \subseteq Resources /\ closed' \in BOOLEAN
       /\ asked' \subseteq Askers /\ told' \in [Askers -> SUBSET {"granted", "declined"}] /\ faults' \in 0..MaxFaults
    BY DEF PermissionTypeOK, AskersHold, RepliesHold, ApprovalsCover, CloseIsThorough
  <2>6. \A b \in pending' : asker'[b].at \in {"asking", "waiting"}
    BY DEF PermissionTypeOK, AskersHold, RepliesHold, ApprovalsCover, CloseIsThorough
  <2> QED BY <2>1, <2>2, <2>3, <2>4, <2>5, <2>6 DEF PermissionTypeOK
<1>2. WaitersArePending'
  BY DEF WaitersArePending, RepliesHold, CloseIsThorough, PermissionTypeOK, Unanswered, InHand, Closing
<1>3. ReleasedWasTold'
  BY DEF ReleasedWasTold, RepliesHold, CloseIsThorough, AnnouncedAreLive, PermissionTypeOK, InHand, Closing, Unanswered, Announced
<1>4. AskersHold'
  BY DEF AskersHold, RepliesHold, CloseIsThorough, PermissionTypeOK, Early, InHand
<1>5. RepliesHold'
  BY DEF RepliesHold, AskersHold, PermissionTypeOK, InHand, Early
<1>6. ApprovalsCover'
  BY DEF ApprovalsCover, AskersHold, PermissionTypeOK, Covered
<1>7. CloseIsThorough'
  BY DEF CloseIsThorough, WaitersArePending, RepliesHold, AnnouncedAreLive, PermissionTypeOK, Closing, Unanswered, InHand, Announced
<1>8. AnnouncedAreLive'
  BY DEF AnnouncedAreLive, ReleasedWasTold, RepliesHold, CloseIsThorough, WaitersArePending, PermissionTypeOK, Announced, InHand, Closing, Unanswered
<1> QED BY <1>1, <1>2, <1>3, <1>4, <1>5, <1>6, <1>7, <1>8

LEMMA CloseDeclinesInv ==
  ASSUME PermissionInv, CloseDeclines
  PROVE  PermissionInv'
<1> USE PermissionAssumption DEF PermissionInv, CloseDeclines, Completed
<1>1. PermissionTypeOK'
  <2>1. pending' \subseteq Askers /\ deferred' \in [Askers -> {"none", "granted", "declined"}]
    BY DEF PermissionTypeOK, AskersHold, RepliesHold, ApprovalsCover, CloseIsThorough
  <2>2. asker' \in [Askers -> ToolCall]
    BY DEF PermissionTypeOK, AskersHold, RepliesHold, ApprovalsCover, CloseIsThorough
  <2>3. reply' \in [Replies -> ReplyCall]
    BY DEF PermissionTypeOK, AskersHold, RepliesHold, ApprovalsCover, CloseIsThorough
  <2>4. closer' \in Closer
    BY DEF PermissionTypeOK, CloseIsThorough, Closer
  <2>5. /\ saved' \subseteq Resources /\ closed' \in BOOLEAN
       /\ asked' \subseteq Askers /\ told' \in [Askers -> SUBSET {"granted", "declined"}] /\ faults' \in 0..MaxFaults
    BY DEF PermissionTypeOK, AskersHold, RepliesHold, ApprovalsCover, CloseIsThorough
  <2>6. \A b \in pending' : asker'[b].at \in {"asking", "waiting"}
    BY DEF PermissionTypeOK, AskersHold, RepliesHold, ApprovalsCover, CloseIsThorough
  <2> QED BY <2>1, <2>2, <2>3, <2>4, <2>5, <2>6 DEF PermissionTypeOK
<1>2. WaitersArePending'
  BY DEF WaitersArePending, RepliesHold, CloseIsThorough, PermissionTypeOK, Unanswered, InHand, Closing
<1>3. ReleasedWasTold'
  BY DEF ReleasedWasTold, RepliesHold, CloseIsThorough, AnnouncedAreLive, PermissionTypeOK, InHand, Closing, Unanswered, Announced
<1>4. AskersHold'
  BY DEF AskersHold, RepliesHold, CloseIsThorough, PermissionTypeOK, Early, InHand
<1>5. RepliesHold'
  BY DEF RepliesHold, AskersHold, PermissionTypeOK, InHand, Early
<1>6. ApprovalsCover'
  BY DEF ApprovalsCover, AskersHold, PermissionTypeOK, Covered
<1>7. CloseIsThorough'
  BY DEF CloseIsThorough, WaitersArePending, RepliesHold, AnnouncedAreLive, PermissionTypeOK, Closing, Unanswered, InHand, Announced
<1>8. AnnouncedAreLive'
  BY DEF AnnouncedAreLive, ReleasedWasTold, RepliesHold, CloseIsThorough, WaitersArePending, PermissionTypeOK, Announced, InHand, Closing, Unanswered
<1> QED BY <1>1, <1>2, <1>3, <1>4, <1>5, <1>6, <1>7, <1>8

LEMMA CloseFailsInv ==
  ASSUME PermissionInv, NEW a \in Askers, CloseFails(a)
  PROVE  PermissionInv'
<1> USE PermissionAssumption DEF PermissionInv, CloseFails, Completed, Fault
<1>1. PermissionTypeOK'
  <2>1. pending' \subseteq Askers /\ deferred' \in [Askers -> {"none", "granted", "declined"}]
    BY DEF PermissionTypeOK, AskersHold, RepliesHold, ApprovalsCover, CloseIsThorough
  <2>2. asker' \in [Askers -> ToolCall]
    BY DEF PermissionTypeOK, AskersHold, RepliesHold, ApprovalsCover, CloseIsThorough
  <2>3. reply' \in [Replies -> ReplyCall]
    BY DEF PermissionTypeOK, AskersHold, RepliesHold, ApprovalsCover, CloseIsThorough
  <2>4. closer' \in Closer
    BY DEF PermissionTypeOK, CloseIsThorough, Closer
  <2>5. /\ saved' \subseteq Resources /\ closed' \in BOOLEAN
       /\ asked' \subseteq Askers /\ told' \in [Askers -> SUBSET {"granted", "declined"}] /\ faults' \in 0..MaxFaults
    BY DEF PermissionTypeOK, AskersHold, RepliesHold, ApprovalsCover, CloseIsThorough
  <2>6. \A b \in pending' : asker'[b].at \in {"asking", "waiting"}
    BY DEF PermissionTypeOK, AskersHold, RepliesHold, ApprovalsCover, CloseIsThorough
  <2> QED BY <2>1, <2>2, <2>3, <2>4, <2>5, <2>6 DEF PermissionTypeOK
<1>2. WaitersArePending'
  BY DEF WaitersArePending, RepliesHold, CloseIsThorough, PermissionTypeOK, Unanswered, InHand, Closing
<1>3. ReleasedWasTold'
  BY DEF ReleasedWasTold, RepliesHold, CloseIsThorough, AnnouncedAreLive, PermissionTypeOK, InHand, Closing, Unanswered, Announced
<1>4. AskersHold'
  BY DEF AskersHold, RepliesHold, CloseIsThorough, PermissionTypeOK, Early, InHand
<1>5. RepliesHold'
  BY DEF RepliesHold, AskersHold, PermissionTypeOK, InHand, Early
<1>6. ApprovalsCover'
  BY DEF ApprovalsCover, AskersHold, PermissionTypeOK, Covered
<1>7. CloseIsThorough'
  BY DEF CloseIsThorough, WaitersArePending, RepliesHold, AnnouncedAreLive, PermissionTypeOK, Closing, Unanswered, InHand, Announced
<1>8. AnnouncedAreLive'
  BY DEF AnnouncedAreLive, ReleasedWasTold, RepliesHold, CloseIsThorough, WaitersArePending, PermissionTypeOK, Announced, InHand, Closing, Unanswered
<1> QED BY <1>1, <1>2, <1>3, <1>4, <1>5, <1>6, <1>7, <1>8

LEMMA CloseEndsInv ==
  ASSUME PermissionInv, CloseEnds
  PROVE  PermissionInv'
<1> USE PermissionAssumption DEF PermissionInv, CloseEnds
<1>1. PermissionTypeOK'
  <2>1. pending' \subseteq Askers /\ deferred' \in [Askers -> {"none", "granted", "declined"}]
    BY DEF PermissionTypeOK, AskersHold, RepliesHold, ApprovalsCover, CloseIsThorough
  <2>2. asker' \in [Askers -> ToolCall]
    BY DEF PermissionTypeOK, AskersHold, RepliesHold, ApprovalsCover, CloseIsThorough
  <2>3. reply' \in [Replies -> ReplyCall]
    BY DEF PermissionTypeOK, AskersHold, RepliesHold, ApprovalsCover, CloseIsThorough
  <2>4. closer' \in Closer
    BY DEF PermissionTypeOK, CloseIsThorough, Closer
  <2>5. /\ saved' \subseteq Resources /\ closed' \in BOOLEAN
       /\ asked' \subseteq Askers /\ told' \in [Askers -> SUBSET {"granted", "declined"}] /\ faults' \in 0..MaxFaults
    BY DEF PermissionTypeOK, AskersHold, RepliesHold, ApprovalsCover, CloseIsThorough
  <2>6. \A b \in pending' : asker'[b].at \in {"asking", "waiting"}
    BY DEF PermissionTypeOK, AskersHold, RepliesHold, ApprovalsCover, CloseIsThorough
  <2> QED BY <2>1, <2>2, <2>3, <2>4, <2>5, <2>6 DEF PermissionTypeOK
<1>2. WaitersArePending'
  BY DEF WaitersArePending, RepliesHold, CloseIsThorough, PermissionTypeOK, Unanswered, InHand, Closing
<1>3. ReleasedWasTold'
  BY DEF ReleasedWasTold, RepliesHold, CloseIsThorough, AnnouncedAreLive, PermissionTypeOK, InHand, Closing, Unanswered, Announced
<1>4. AskersHold'
  BY DEF AskersHold, RepliesHold, CloseIsThorough, PermissionTypeOK, Early, InHand
<1>5. RepliesHold'
  BY DEF RepliesHold, AskersHold, PermissionTypeOK, InHand, Early
<1>6. ApprovalsCover'
  BY DEF ApprovalsCover, AskersHold, PermissionTypeOK, Covered
<1>7. CloseIsThorough'
  BY DEF CloseIsThorough, WaitersArePending, RepliesHold, AnnouncedAreLive, PermissionTypeOK, Closing, Unanswered, InHand, Announced
<1>8. AnnouncedAreLive'
  BY DEF AnnouncedAreLive, ReleasedWasTold, RepliesHold, CloseIsThorough, WaitersArePending, PermissionTypeOK, Announced, InHand, Closing, Unanswered
<1> QED BY <1>1, <1>2, <1>3, <1>4, <1>5, <1>6, <1>7, <1>8

LEMMA PermissionStepInv == PermissionInv /\ [PermissionNext]_permissionVars => PermissionInv'
<1> SUFFICES ASSUME PermissionInv, [PermissionNext]_permissionVars PROVE PermissionInv'
  OBVIOUS
<1>1. CASE UNCHANGED permissionVars
  BY <1>1 DEF permissionVars, PermissionInv, PermissionTypeOK, WaitersArePending, Unanswered, ReleasedWasTold,
     AskersHold, RepliesHold, ApprovalsCover, Covered, CloseIsThorough, Closing, AnnouncedAreLive, Announced
<1>2. ASSUME NEW a \in Askers, AskerStep(a) \/ AskedFails(a) \/ InterruptAsker(a) PROVE PermissionInv'
  BY <1>2, EvaluateInv, CreateInv, AskedInv, ReleasedInv, AskedFailsInv, InterruptInv DEF AskerStep
<1>3. ASSUME NEW a \in Askers, NEW s \in Sessions, NEW r \in Resources, Assert(a, s, r) PROVE PermissionInv'
  BY <1>3, AssertInv
<1>4. ASSUME NEW u \in Replies, ReplyStep(u) \/ TellFails(u) PROVE PermissionInv'
  BY <1>4, TellInv, SaveInv, SettleInv, ReevaluateInv, WalkEndsInv, VisitInv, TellFailsInv DEF ReplyStep
<1>5. ASSUME NEW u \in Replies, NEW a \in Askers, NEW kind \in Kinds, Reply(u, a, kind) PROVE PermissionInv'
  BY <1>5, ReplyInv
<1>6. ASSUME Close \/ CloserStep \/ \E a \in Askers : CloseFails(a) PROVE PermissionInv'
  BY <1>6, CloseInv, CloseDeclinesInv, CloseEndsInv, CloseTellsInv, CloseFailsInv DEF CloserStep
<1> QED BY <1>1, <1>2, <1>3, <1>4, <1>5, <1>6 DEF PermissionNext

-------------------------------------------------------------------------------
(* Every reachable state satisfies the invariant. *)
THEOREM PermissionInvariant == PermissionSpec => []PermissionInv
<1> QED BY PermissionInitInv, PermissionStepInv, PTL DEF PermissionSpec

(* Every map, fiber and history keeps its type, and nobody's request stays *)
(* in the map when its tool call is over (permission.ts:243, 281).         *)
THEOREM PermissionTypes == PermissionSpec => []PermissionTypeOK
<1>1. PermissionInv => PermissionTypeOK
  BY DEF PermissionInv
<1> QED BY <1>1, PermissionInvariant, PTL

(* A tool call that waits for a reply can still get one, and after the     *)
(* close nobody waits: no order of replies, walks, stopped turns, failing  *)
(* publications and closing strands a tool call (permission.ts:144, 234,   *)
(* 323, 351).                                                              *)
THEOREM NobodyWaitsInVain == PermissionSpec => []WaitersArePending
<1>1. PermissionInv => WaitersArePending
  BY DEF PermissionInv
<1> QED BY <1>1, PermissionInvariant, PTL

(* Without failing publications, what releases a tool call was announced   *)
(* before: the grant or decline by its own reply or a neighbour's          *)
(* (permission.ts:311, 325, 356), and the decline by the close             *)
(* (permission.ts:146) of every request that clients were asked about.     *)
THEOREM ReleasesWereAnnounced == PermissionSpec => []ReleasedWasTold
<1>1. PermissionInv => ReleasedWasTold
  BY DEF PermissionInv
<1> QED BY <1>1, PermissionInvariant, PTL

(* Without failing publications, a request that clients show can be        *)
(* answered until its reply is announced, unless its turn was stopped.     *)
THEOREM CardsCanBeAnswered == PermissionSpec => []CardsAreLive
<1>1. PermissionInv => CardsAreLive
  BY DEF PermissionInv, PermissionTypeOK, AnnouncedAreLive, Announced, CardsAreLive
<1> QED BY <1>1, PermissionInvariant, PTL

(* An approval for good grants other requests only when it is saved and    *)
(* covers them: permission.ts:340, 351.                                    *)
THEOREM ApprovalsGrantWhatTheyCover == PermissionSpec => GrantsAreCovered
<1>1. PermissionInv => [\A u \in Replies : Settle(u) /\ reply[u].kind = "always" => Covered(reply[u].resource)]_permissionVars
  BY DEF PermissionInv, ApprovalsCover, Settle, ToSave
<1> QED BY <1>1, PermissionInvariant, PTL DEF GrantsAreCovered

(* A grant is announced before it counts, whatever publication fails. *)
GrantsWereTold == \A a \in Askers : deferred[a] = "granted" => "granted" \in told[a]

(* Only a reply that settles a request completes it, to the advantage of   *)
(* its tool call, and only those who tell add to what clients were told.   *)
LEMMA GrantsComeFromReplies ==
  ASSUME PermissionTypeOK, [PermissionNext]_permissionVars, NEW a \in Askers
  PROVE  /\ told[a] \subseteq told'[a]
         /\ deferred[a] # "granted" /\ deferred'[a] = "granted" =>
              \E u \in Replies : Settle(u) /\ reply[u].item = a /\ reply[u].kind # "reject"
<1> USE DEF PermissionTypeOK
<1> DEFINE Quiet == UNCHANGED told /\ UNCHANGED deferred
<1> SUFFICES \/ Quiet
             \/ \E u \in Replies : Settle(u)
             \/ \E b, kind : Tells(b, kind) /\ UNCHANGED deferred
             \/ UNCHANGED told /\ \E b : deferred' = Completed(b, "declined")
  BY DEF Settle, Tells, Completed
<1>1. CASE UNCHANGED permissionVars
  BY <1>1 DEF permissionVars
<1>2. ASSUME NEW b \in Askers, AskerStep(b) \/ AskedFails(b) \/ InterruptAsker(b) PROVE Quiet \/ (UNCHANGED told /\ deferred' = Completed(b, "declined"))
  BY <1>2 DEF AskerStep, Evaluate, Create, Asked, Released, AskedFails, InterruptAsker
<1>3. ASSUME NEW b \in Askers, NEW s \in Sessions, NEW r \in Resources, Assert(b, s, r) PROVE Quiet
  BY <1>3 DEF Assert
<1>4. ASSUME NEW u \in Replies, NEW b \in Askers, NEW kind \in Kinds, Reply(u, b, kind) PROVE Quiet
  BY <1>4 DEF Reply
<1>5. ASSUME NEW u \in Replies, Tell(u) PROVE Tells(reply[u].item, reply[u].kind) /\ UNCHANGED deferred
  BY <1>5 DEF Tell
<1>6. ASSUME NEW u \in Replies, Save(u) \/ Reevaluate(u) \/ WalkEnds(u) \/ TellFails(u) PROVE Quiet
  BY <1>6 DEF Save, Reevaluate, WalkEnds, TellFails
<1>7. ASSUME NEW u \in Replies, NEW b \in Askers, Visit(u, b) PROVE Quiet
  BY <1>7 DEF Visit
<1>8. ASSUME Close \/ CloseEnds PROVE Quiet
  BY <1>8 DEF Close, CloseEnds
<1>9. ASSUME CloseDeclines \/ \E b \in Askers : CloseFails(b) PROVE UNCHANGED told /\ \E b : deferred' = Completed(b, "declined")
  BY <1>9 DEF CloseDeclines, CloseFails
<1>10. ASSUME NEW b \in Askers, CloseTells(b) PROVE Tells(b, "reject") /\ UNCHANGED deferred
  BY <1>10 DEF CloseTells
<1> HIDE DEF Quiet
<1>11. ASSUME NEW b \in Askers, AskerStep(b) \/ AskedFails(b) \/ InterruptAsker(b)
                                \/ \E s \in Sessions, r \in Resources : Assert(b, s, r)
       PROVE  Quiet \/ (UNCHANGED told /\ deferred' = Completed(b, "declined"))
  BY <1>2, <1>3, <1>11
<1>12. ASSUME NEW u \in Replies, ReplyStep(u) \/ TellFails(u) \/ \E b \in Askers, kind \in Kinds : Reply(u, b, kind)
       PROVE  Quiet \/ Settle(u) \/ (Tells(reply[u].item, reply[u].kind) /\ UNCHANGED deferred)
  BY <1>4, <1>5, <1>6, <1>7, <1>12 DEF ReplyStep
<1>13. ASSUME Close \/ CloserStep \/ \E b \in Askers : CloseFails(b)
       PROVE  \/ Quiet
              \/ UNCHANGED told /\ \E b : deferred' = Completed(b, "declined")
              \/ \E b \in Askers : Tells(b, "reject") /\ UNCHANGED deferred
  BY <1>8, <1>9, <1>10, <1>13 DEF CloserStep
<1> QED BY <1>1, <1>11, <1>12, <1>13 DEF PermissionNext, Quiet

LEMMA GrantsStep == PermissionInv /\ GrantsWereTold /\ [PermissionNext]_permissionVars => GrantsWereTold'
<1> SUFFICES ASSUME PermissionInv, GrantsWereTold, [PermissionNext]_permissionVars,
                    NEW a \in Askers, deferred'[a] = "granted"
             PROVE  "granted" \in told'[a]
  BY DEF GrantsWereTold
<1>1. PermissionTypeOK
  BY DEF PermissionInv
<1>2. CASE deferred[a] = "granted"
  BY <1>1, <1>2, GrantsComeFromReplies DEF GrantsWereTold
<1>3. CASE deferred[a] # "granted"
  <2>1. PICK u \in Replies : Settle(u) /\ reply[u].item = a /\ reply[u].kind # "reject"
    BY <1>1, <1>3, GrantsComeFromReplies
  <2>2. "granted" \in told[a]
    BY <2>1 DEF Settle, ToSave, PermissionInv, RepliesHold
  <2> QED BY <1>1, <2>2, GrantsComeFromReplies
<1> QED BY <1>2, <1>3

(* Only these two let a tool call go ahead. *)
LEMMA PermitsComeFrom ==
  ASSUME PermissionTypeOK, [PermissionNext]_permissionVars, NEW a \in Askers,
         asker'[a].result = "permitted", asker[a].result # "permitted"
  PROVE  Evaluate(a) \/ Released(a)
<1> USE DEF PermissionTypeOK, ToolCall
<1>1. CASE UNCHANGED permissionVars
  BY <1>1 DEF permissionVars
<1>2. ASSUME NEW b \in Askers, AskerStep(b) PROVE Evaluate(a) \/ Released(a)
  <2>1. CASE Create(b) \/ Asked(b)
    BY <2>1 DEF Create, Asked
  <2>2. CASE Evaluate(b) \/ Released(b)
    BY <2>2 DEF Evaluate, Released, Ends
  <2> QED BY <1>2, <2>1, <2>2 DEF AskerStep
<1>3. ASSUME NEW b \in Askers, AskedFails(b) \/ InterruptAsker(b) PROVE FALSE
  <2>1. PICK result \in {"refused", "interrupted"} : Ends(b, result)
    BY <1>3 DEF AskedFails, InterruptAsker
  <2> QED BY <2>1 DEF Ends, NewAsker
<1>4. ASSUME NEW b \in Askers, NEW s \in Sessions, NEW r \in Resources, Assert(b, s, r) PROVE FALSE
  <2>1. CASE Ends(b, "refused")
    BY <2>1 DEF Ends, NewAsker
  <2>2. CASE asker' = [asker EXCEPT ![b] = [at |-> "evaluating", session |-> s, resource |-> r, result |-> "none"]]
    BY <2>2
  <2> QED BY <1>4, <2>1, <2>2 DEF Assert
<1>5. ASSUME NEW u \in Replies,
             ReplyStep(u) \/ TellFails(u) \/ \E b \in Askers, kind \in Kinds : Reply(u, b, kind)
      PROVE  UNCHANGED asker
  BY <1>5 DEF ReplyStep, Tell, Save, Settle, Reevaluate, WalkEnds, Visit, TellFails, Reply
<1>6. ASSUME Close \/ CloserStep \/ \E b \in Askers : CloseFails(b) PROVE UNCHANGED asker
  BY <1>6 DEF Close, CloserStep, CloseDeclines, CloseEnds, CloseTells, CloseFails
<1> QED BY <1>1, <1>2, <1>3, <1>4, <1>5, <1>6 DEF PermissionNext

(* A tool call goes ahead only with what the rules or a saved approval     *)
(* cover, or what somebody has granted, and clients were told so: no order *)
(* of replies, walks, failing publications and closing permits anything    *)
(* else (permission.ts:166, 257, 326).                                     *)
PermitsAreGrounded ==
  [][\A a \in Askers :
       asker'[a].result = "permitted" /\ asker[a].result # "permitted" =>
         Covered(asker[a].resource) \/ "granted" \in told[a]]_permissionVars

THEOREM NothingElseIsPermitted == PermissionSpec => PermitsAreGrounded
<1> DEFINE Grounded == \A a \in Askers :
             asker'[a].result = "permitted" /\ asker[a].result # "permitted" =>
               Covered(asker[a].resource) \/ "granted" \in told[a]
<1>1. PermissionInit => GrantsWereTold
  BY DEF PermissionInit, GrantsWereTold
<1>2. PermissionSpec => []GrantsWereTold
  BY <1>1, GrantsStep, PermissionInvariant, PTL DEF PermissionSpec
<1>3. PermissionInv /\ GrantsWereTold /\ [PermissionNext]_permissionVars => [Grounded]_permissionVars
  <2> SUFFICES ASSUME PermissionInv, GrantsWereTold, [PermissionNext]_permissionVars, NEW a \in Askers,
                      asker'[a].result = "permitted", asker[a].result # "permitted"
               PROVE  Covered(asker[a].resource) \/ "granted" \in told[a]
    OBVIOUS
  <2>1. Evaluate(a) \/ Released(a)
    BY PermitsComeFrom DEF PermissionInv
  <2>2. CASE Evaluate(a)
    <3>1. PICK effect \in Effects(asker[a].resource) :
            IF effect = "ask" THEN asker' = [asker EXCEPT ![a].at = "evaluated"]
            ELSE Ends(a, IF effect = "allow" THEN "permitted" ELSE "refused")
      BY <2>2 DEF Evaluate
    <3>2. effect = "ask" => asker'[a].result = asker[a].result
      BY <3>1 DEF PermissionInv, PermissionTypeOK, ToolCall
    <3>3. ASSUME effect \notin {"ask", "allow"} PROVE asker'[a].result = "refused"
      <4>1. Ends(a, "refused")
        BY <3>1, <3>3
      <4>2. asker \in [Askers -> ToolCall]
        BY DEF PermissionInv, PermissionTypeOK
      <4> QED BY <4>1, <4>2 DEF Ends, NewAsker
    <3> QED BY <3>2, <3>3 DEF Effects
  <2>3. CASE Released(a)
    BY <2>3 DEF PermissionInv, PermissionTypeOK, GrantsWereTold, Released, Ends, NewAsker
  <2> QED BY <2>1, <2>2, <2>3
<1> HIDE DEF Grounded
<1>4. PermissionSpec => [][Grounded]_permissionVars
  BY <1>2, <1>3, PermissionInvariant, PTL DEF PermissionSpec
<1> QED BY <1>4 DEF PermitsAreGrounded, Grounded
===============================================================================
