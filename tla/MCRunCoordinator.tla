--------------------------- MODULE MCRunCoordinator ---------------------------
(* The finite instance of RunCoordinator for TLC; the sets are in the .cfg. *)
EXTENDS RunCoordinator, TLC
===============================================================================
