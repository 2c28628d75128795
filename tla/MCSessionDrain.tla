---------------------------- MODULE MCSessionDrain ----------------------------
(* Instances of SessionDrain for TLC. *)
EXTENDS SessionDrain, TLC

CONSTANTS p, q

Enqueue(ops, ids, deliveries) == [op : ops, id : ids, delivery : deliveries]
Command(ops, ids) == [op : ops, id : ids]

(* A steered prompt, and an item that may be any control or a queued prompt*)
(* and may be steered while it waits.                                      *)
MixedRequests ==
  Enqueue({"user"}, {p}, {"steer"}) \cup Enqueue({"user"} \cup Controls, {q}, {"queue"})
  \cup Enqueue(Controls, {q}, {"steer"}) \cup Command({"steer"}, {q})

(* Two prompts in either mode. *)
PromptRequests == Enqueue({"user"}, {p, q}, Deliveries)

CallersAlike == Permutations(Callers)
=============================================================================
