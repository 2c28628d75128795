---------------------------- MODULE MCSessionInbox ----------------------------
(* Instances of SessionInbox for TLC. *)
EXTENDS SessionInbox, TLC

Enqueue(ops, ids, deliveries) == [op : ops, id : ids, delivery : deliveries]
Command(ops, ids) == [op : ops, id : ids]

CONSTANTS p, q, compaction, move

(* Two prompts and both controls in any enqueue order, one prompt and the  *)
(* compaction changing their delivery while they are pending; and an id    *)
(* that is retried, cancelled and enqueued again under another type.       *)
InboxRequests ==
  Enqueue({"user"}, {p}, {"steer"}) \cup Enqueue({"user"}, {q}, Deliveries)
  \cup Enqueue({"compaction"}, {compaction}, Deliveries)
  \cup Enqueue({"move"}, {move}, {"steer"})
  \cup Command({"steer"}, {q, compaction})
  \cup Enqueue({"compaction"}, {p}, {"steer"}) \cup Command({"cancel"}, {p})

(* Retries of one prompt while the runner promotes it. *)
RetryRequests == Enqueue({"user"}, IDs, Deliveries)

CallersAlike == Permutations(Callers)
=============================================================================
