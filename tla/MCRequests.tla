------------------------------- MODULE MCRequests -------------------------------
EXTENDS Requests

LOCAL T == INSTANCE TLC

RequestsSymmetry ==
  T!Permutations(Replies) \cup T!Permutations(Sessions) \cup T!Permutations(Askers)
    \cup T!Permutations(Resources \ Allowed)

(* Bounds: questions are asked, and forms closed, only where rules, not    *)
(* people, gave every permission (how it was given makes no difference to  *)
(* a form), and publications fail with one form at most.                   *)
FormsUntouched == formCloser.at = "open" /\ \A c \in Calls : call[c] = "idle"
QuestionsApart ==
  \/ FormsUntouched
  \/ /\ closer.at \in {"open", "closed"} /\ faults = 0 /\ \A u \in Replies : reply[u].at = "idle"
     /\ \A a \in Askers : asker[a].at \in {"idle", "done"} /\ asker[a].result \in {"none", "permitted"}
     /\ formFaults = 0 \/ \E c \in Calls : call[c] = "idle"
===============================================================================
