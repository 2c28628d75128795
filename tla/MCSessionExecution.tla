-------------------------- MODULE MCSessionExecution --------------------------
(* Instances of SessionExecution for TLC. *)
EXTENDS SessionExecution, TLC

CONSTANTS k1, s1

(* The call by which the sweep resumes the session. *)
OneSweeper == k1 :> s1
===============================================================================
