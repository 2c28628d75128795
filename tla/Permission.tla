------------------------------- MODULE Permission -------------------------------
(***************************************************************************)
(* Permission requests of one Location (core/src/permission.ts): tool      *)
(* calls that ask and wait, replies of users that settle them and, with    *)
(* "reject" or "always", others beside them, and the Location's close.     *)
(*                                                                         *)
(* A request is named after the tool call that makes it.  A rejection with *)
(* feedback differs only in what the tool call is told; requests nobody    *)
(* waits for (ask), messages and metadata are left out; "always" without   *)
(* anything to save is a "once".                                           *)
(***************************************************************************)
EXTENDS Naturals, FiniteSets

CONSTANTS Askers,      \* tool calls
          Replies,     \* reply calls: each replies once
          Sessions, Resources,
          Allowed,     \* resources the configured rules allow
          MaxFaults    \* bound: how many publications fail

ASSUME PermissionAssumption ==
  /\ MaxFaults \in Nat /\ Allowed \subseteq Resources /\ "none" \notin Askers

VARIABLES pending,   \* the map pending: requests that can be answered
          deferred,  \* their Deferred: "none" until completed
          asker,     \* the tool calls in assert
          reply,     \* the calls of reply
          saved,     \* resources with a saved approval
          closed,    \* close has begun
          closer,    \* the fiber that closes, and what it has still to settle
          asked,     \* what clients were told: requests asked, ...
          told,      \* ... and the replies to each
          faults

permissionVars == <<pending, deferred, asker, reply, saved, closed, closer, asked, told, faults>>

Kinds == {"once", "always", "reject"}
NewAsker == [at |-> "idle", session |-> "none", resource |-> "none", result |-> "none"]
(* A reply keeps the request in its hand, and the Session of the first. *)
NewReply ==
  [at |-> "idle", kind |-> "none", item |-> "none", resource |-> "none", session |-> "none",
   walks |-> FALSE, visited |-> {}]
Done == [NewReply EXCEPT !.at = "done"]

PermissionInit ==
  /\ pending = {} /\ deferred = [a \in Askers |-> "none"]
  /\ asker = [a \in Askers |-> NewAsker]
  /\ reply = [u \in Replies |-> NewReply]
  /\ saved = {} /\ closed = FALSE /\ closer = [at |-> "open", item |-> "none", items |-> {}]
  /\ asked = {} /\ told = [a \in Askers |-> {}] /\ faults = 0

(* A Deferred keeps its first completion. *)
Completed(a, outcome) == IF deferred[a] = "none" THEN [deferred EXCEPT ![a] = outcome] ELSE deferred
Outcome(kind) == IF kind = "reject" THEN "declined" ELSE "granted"
Tells(a, kind) == told' = [told EXCEPT ![a] = @ \cup {Outcome(kind)}]

(* A failing listener of the bus fails the publication of these events. *)
Fault == faults < MaxFaults /\ faults' = faults + 1

-------------------------------------------------------------------------------
(* assert *)

Ends(a, result) == asker' = [asker EXCEPT ![a] = [NewAsker EXCEPT !.at = "done", !.result = result]]

Assert(a, session, resource) ==
  /\ asker[a].at = "idle"
  /\ IF closed THEN Ends(a, "refused")
     ELSE asker' = [asker EXCEPT ![a] = [at |-> "evaluating", session |-> session, resource |-> resource,
                                         result |-> "none"]]
  /\ UNCHANGED <<pending, deferred, reply, saved, closed, closer, asked, told, faults>>

(* evaluateInput: the rules, or a plugin's hook, may deny; a saved         *)
(* approval is worth as much as a rule that allows.  Only "ask" has a      *)
(* request created, some time after it is known, ...                       *)
Covered(resource) == resource \in Allowed \cup saved
Effects(resource) == {"deny", IF Covered(resource) THEN "allow" ELSE "ask"}

Evaluate(a) ==
  /\ asker[a].at = "evaluating"
  /\ \E effect \in Effects(asker[a].resource) :
       IF effect = "ask" THEN asker' = [asker EXCEPT ![a].at = "evaluated"]
       ELSE Ends(a, IF effect = "allow" THEN "permitted" ELSE "refused")
  /\ UNCHANGED <<pending, deferred, reply, saved, closed, closer, asked, told, faults>>

(* Mutant: create does not ask whether the Location is closed. *)
CreateAnyway(a) ==
  /\ asker[a].at = "evaluated"
  /\ pending' = pending \cup {a} /\ asker' = [asker EXCEPT ![a].at = "asking"]
  /\ UNCHANGED <<deferred, reply, saved, closed, closer, asked, told, faults>>

(* ... and after a close it is declined at birth.                          *)
Create(a) ==
  /\ asker[a].at = "evaluated"
  /\ IF closed
       THEN /\ deferred' = Completed(a, "declined") /\ UNCHANGED pending
            /\ asker' = [asker EXCEPT ![a].at = "waiting"]
       ELSE /\ pending' = pending \cup {a} /\ UNCHANGED deferred
            /\ asker' = [asker EXCEPT ![a].at = "asking"]
  /\ UNCHANGED <<reply, saved, closed, closer, asked, told, faults>>

Asked(a) ==
  /\ asker[a].at = "asking"
  /\ asked' = asked \cup {a} /\ asker' = [asker EXCEPT ![a].at = "waiting"]
  /\ UNCHANGED <<pending, deferred, reply, saved, closed, closer, told, faults>>

(* Mutant: a request nobody was told of stays in the map. *)
AskedFailsKeeps(a) ==
  /\ asker[a].at = "asking" /\ Fault /\ Ends(a, "refused")
  /\ UNCHANGED <<pending, deferred, reply, saved, closed, closer, asked, told>>

AskedFails(a) ==
  /\ asker[a].at = "asking" /\ Fault
  /\ pending' = pending \ {a} /\ Ends(a, "refused")
  /\ UNCHANGED <<deferred, reply, saved, closed, closer, asked, told>>

Released(a) ==
  /\ asker[a].at = "waiting" /\ deferred[a] # "none"
  /\ pending' = pending \ {a} /\ Ends(a, IF deferred[a] = "granted" THEN "permitted" ELSE "refused")
  /\ UNCHANGED <<deferred, reply, saved, closed, closer, asked, told, faults>>

(* The turn is stopped: the request goes without a word to the clients.    *)
InterruptAsker(a) ==
  /\ asker[a].at \in {"evaluating", "evaluated", "waiting"}
  /\ pending' = pending \ {a} /\ Ends(a, "interrupted")
  /\ UNCHANGED <<deferred, reply, saved, closed, closer, asked, told, faults>>

-------------------------------------------------------------------------------
(* reply.  It is not interruptible; other fibers run wherever it awaits.   *)

Takes(u, a, kind) ==
  reply' = [reply EXCEPT ![u] =
              [NewReply EXCEPT !.at = "telling", !.kind = kind, !.item = a,
                               !.resource = IF kind = "always" THEN asker[a].resource ELSE "none",
                               !.session = IF kind = "reject" THEN asker[a].session ELSE "none"]]

(* Mutant: the request is taken out of the map before anybody is told. *)
ReplyTakes(u, a, kind) ==
  /\ reply[u].at = "idle" /\ a \in pending /\ Takes(u, a, kind)
  /\ pending' = pending \ {a}
  /\ UNCHANGED <<deferred, asker, saved, closed, closer, asked, told, faults>>

Reply(u, a, kind) ==
  /\ reply[u].at = "idle" /\ a \in pending /\ Takes(u, a, kind)
  /\ UNCHANGED <<pending, deferred, asker, saved, closed, closer, asked, told, faults>>

Tell(u) ==
  /\ reply[u].at = "telling"
  /\ Tells(reply[u].item, reply[u].kind)
  /\ reply' = [reply EXCEPT ![u].at = "told"]
  /\ UNCHANGED <<pending, deferred, asker, saved, closed, closer, asked, faults>>

(* The reply fails, and leaves the rest of its walk as it is. *)
TellFails(u) ==
  /\ reply[u].at = "telling" /\ Fault
  /\ reply' = [reply EXCEPT ![u] = Done]
  /\ UNCHANGED <<pending, deferred, asker, saved, closed, closer, asked, told>>

ToSave(u) == reply[u].kind = "always" /\ ~reply[u].walks

Save(u) ==
  /\ reply[u].at = "told" /\ ToSave(u)
  /\ saved' = saved \cup {reply[u].resource}
  /\ reply' = [reply EXCEPT ![u].at = "saved", ![u].walks = TRUE]
  /\ UNCHANGED <<pending, deferred, asker, closed, closer, asked, told, faults>>

(* The request is settled; a rejection and a saved approval go on to walk  *)
(* the map, which may change meanwhile.                                    *)
Walking(u) == [reply[u] EXCEPT !.at = "walking", !.item = "none", !.resource = "none", !.walks = TRUE]

Settle(u) ==
  /\ reply[u].at = "saved" \/ (reply[u].at = "told" /\ ~ToSave(u))
  /\ deferred' = Completed(reply[u].item, Outcome(reply[u].kind))
  /\ pending' = pending \ {reply[u].item}
  /\ reply' = [reply EXCEPT ![u] = IF reply[u].kind = "once" THEN Done ELSE Walking(u)]
  /\ UNCHANGED <<asker, saved, closed, closer, asked, told, faults>>

(* A rejection takes the requests of the same Session, a saved approval    *)
(* has every request evaluated anew.                                       *)
Left(u) ==
  {b \in pending \ reply[u].visited :
     reply[u].kind = "reject" => asker[b].session = reply[u].session}

(* Mutant: whatever is pending is approved with it. *)
VisitApproves(u, b) ==
  /\ reply[u].at = "walking" /\ b \in Left(u)
  /\ reply' = [reply EXCEPT ![u].at = "telling", ![u].item = b, ![u].resource = asker[b].resource,
                            ![u].visited = @ \cup {b}]
  /\ UNCHANGED <<pending, deferred, asker, saved, closed, closer, asked, told, faults>>

Visit(u, b) ==
  /\ reply[u].at = "walking" /\ b \in Left(u)
  /\ reply' = [reply EXCEPT ![u] =
                  IF reply[u].kind = "reject" THEN [@ EXCEPT !.at = "telling", !.item = b]
                  ELSE [@ EXCEPT !.at = "evaluating", !.item = b, !.resource = asker[b].resource,
                                 !.visited = reply[u].visited \cup {b}]]
  /\ UNCHANGED <<pending, deferred, asker, saved, closed, closer, asked, told, faults>>

(* Mutant: what an approval covers is granted without a word. *)
ReevaluateQuietly(u) ==
  /\ reply[u].at = "evaluating"
  /\ \E effect \in Effects(reply[u].resource) :
       reply' = [reply EXCEPT ![u] = IF effect = "allow" THEN [@ EXCEPT !.at = "saved"] ELSE Walking(u)]
  /\ UNCHANGED <<pending, deferred, asker, saved, closed, closer, asked, told, faults>>

Reevaluate(u) ==
  /\ reply[u].at = "evaluating"
  /\ \E effect \in Effects(reply[u].resource) :
       reply' = [reply EXCEPT ![u] = IF effect = "allow" THEN [@ EXCEPT !.at = "telling"] ELSE Walking(u)]
  /\ UNCHANGED <<pending, deferred, asker, saved, closed, closer, asked, told, faults>>

WalkEnds(u) ==
  /\ reply[u].at = "walking" /\ Left(u) = {}
  /\ reply' = [reply EXCEPT ![u] = Done]
  /\ UNCHANGED <<pending, deferred, asker, saved, closed, closer, asked, told, faults>>

-------------------------------------------------------------------------------
(* close: by the Location's shutdown, and once more by its scope.          *)

Close ==
  /\ closer.at \in {"open", "failed"}
  /\ closed' = TRUE /\ closer' = [at |-> "closing", item |-> "none", items |-> pending]
  /\ UNCHANGED <<pending, deferred, asker, reply, saved, asked, told, faults>>

(* Mutant: the clients are not told. *)
CloseQuietly(a) ==
  /\ closer.at = "closing" /\ a \in closer.items
  /\ closer' = [closer EXCEPT !.at = "told", !.item = a]
  /\ UNCHANGED <<pending, deferred, asker, reply, saved, closed, asked, told, faults>>

CloseTells(a) ==
  /\ closer.at = "closing" /\ a \in closer.items
  /\ Tells(a, "reject") /\ closer' = [closer EXCEPT !.at = "told", !.item = a]
  /\ UNCHANGED <<pending, deferred, asker, reply, saved, closed, asked, faults>>

CloseDeclines ==
  /\ closer.at = "told"
  /\ deferred' = Completed(closer.item, "declined")
  /\ closer' = [at |-> "closing", item |-> "none", items |-> closer.items \ {closer.item}]
  /\ UNCHANGED <<pending, asker, reply, saved, closed, asked, told, faults>>

(* The request is declined all the same, and those after it are left.      *)
CloseFails(a) ==
  /\ closer.at = "closing" /\ a \in closer.items /\ Fault
  /\ deferred' = Completed(a, "declined") /\ closer' = [at |-> "failed", item |-> "none", items |-> {}]
  /\ UNCHANGED <<pending, asker, reply, saved, closed, asked, told>>

CloseEnds ==
  /\ closer.at = "closing" /\ closer.items = {}
  /\ pending' = {} /\ closer' = [closer EXCEPT !.at = "closed"]
  /\ UNCHANGED <<deferred, asker, reply, saved, closed, asked, told, faults>>

-------------------------------------------------------------------------------
AskerStep(a) == Evaluate(a) \/ Create(a) \/ Asked(a) \/ Released(a)
ReplyStep(u) ==
  Tell(u) \/ Save(u) \/ Settle(u) \/ Reevaluate(u) \/ WalkEnds(u) \/ \E b \in Askers : Visit(u, b)
CloserStep == CloseDeclines \/ CloseEnds \/ \E a \in Askers : CloseTells(a)

PermissionNext ==
  \/ \E a \in Askers :
       \/ AskerStep(a) \/ AskedFails(a) \/ InterruptAsker(a)
       \/ \E s \in Sessions, r \in Resources : Assert(a, s, r)
  \/ \E u \in Replies : ReplyStep(u) \/ TellFails(u) \/ \E a \in Askers, kind \in Kinds : Reply(u, a, kind)
  \/ Close \/ CloserStep \/ \E a \in Askers : CloseFails(a)

PermissionSpec == PermissionInit /\ [][PermissionNext]_permissionVars
-------------------------------------------------------------------------------
ToolCall ==
  [at : {"idle", "evaluating", "evaluated", "asking", "waiting", "done"},
   session : Sessions \cup {"none"}, resource : Resources \cup {"none"},
   result : {"none", "permitted", "refused", "interrupted"}]
ReplyCall ==
  [at : {"idle", "telling", "told", "saved", "walking", "evaluating", "done"},
   kind : Kinds \cup {"none"}, item : Askers \cup {"none"},
   resource : Resources \cup {"none"}, session : Sessions \cup {"none"},
   walks : BOOLEAN, visited : SUBSET Askers]
Closer == [at : {"open", "closing", "told", "failed", "closed"}, item : Askers \cup {"none"}, items : SUBSET Askers]

(* Every map, fiber and history keeps its type, and a pending request is   *)
(* one that a tool call still waits for.                                   *)
PermissionTypeOK ==
  /\ pending \subseteq Askers /\ deferred \in [Askers -> {"none", "granted", "declined"}]
  /\ asker \in [Askers -> ToolCall] /\ reply \in [Replies -> ReplyCall] /\ closer \in Closer
  /\ saved \subseteq Resources /\ closed \in BOOLEAN
  /\ asked \subseteq Askers /\ told \in [Askers -> SUBSET {"granted", "declined"}] /\ faults \in 0..MaxFaults
  /\ \A a \in pending : asker[a].at \in {"asking", "waiting"}

(* A tool call that waits without an answer can still be answered: its     *)
(* request is in the map, whoever replies, walks or closes meanwhile; and  *)
(* once the close is through, nobody waits so, nor will.                   *)
Unanswered(a) == asker[a].at \in {"asking", "waiting"} /\ deferred[a] = "none"
WaitersArePending ==
  \A a \in Askers : Unanswered(a) => a \in pending /\ closer.at # "closed"

(* A request the clients know of, or are about to.                         *)
Announced(a) == a \in asked \/ asker[a].at = "asking"

(* What a tool call is released with, by the reply to its request, by a    *)
(* neighbour's or by the close (permission.ts:146), was announced to the   *)
(* clients before.  Excepted is a request created after the close, which   *)
(* nobody was asked; nothing is said once a publication has failed.        *)
ReleasedWasTold ==
  faults = 0 =>
    \A a \in Askers :
      /\ deferred[a] = "granted" => "granted" \in told[a]
      /\ deferred[a] = "declined" => "declined" \in told[a] \/ ~Announced(a)

(* A request that clients show can be answered: it was asked, no reply was *)
(* announced, so it is in the map, unless its tool call was interrupted.   *)
(* Nothing is said once a publication has failed: who was asked and then   *)
(* declined by a failed close may be shown on.                             *)
CardsAreLive ==
  \A a \in asked :
    told[a] = {} => a \in pending \/ asker[a].result = "interrupted" \/ faults > 0

(* An approval for good grants a request, the one replied to or another,   *)
(* only once it is saved and covers it.                                    *)
GrantsAreCovered ==
  [][\A u \in Replies :
       Settle(u) /\ reply[u].kind = "always" => Covered(reply[u].resource)]_permissionVars
===============================================================================
