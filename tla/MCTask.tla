--------------------------------- MODULE MCTask ---------------------------------
(* The instance of Task for TLC. *)
EXTENDS Task
=============================================================================
