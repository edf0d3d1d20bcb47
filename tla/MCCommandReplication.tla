----------------------- MODULE MCCommandReplication -------------------------
(* The instance of CommandReplication that TLC checks. *)
EXTENDS CommandReplication
=============================================================================
