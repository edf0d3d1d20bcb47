----------------------------- MODULE MCFailover -----------------------------
(* The instances of Failover that TLC checks: hosts p and s. *)
EXTENDS Failover

CONSTANTS p, s

TwoHosts == {p, s}
MainPrograms ==
  [h \in TwoHosts |-> IF h = p THEN "PrimaryServer" ELSE "SecondaryServer"]

\* project_config.sh copies PrimaryServer.jar for both machines.
Deployed == [h \in TwoHosts |-> "PrimaryServer"]
=============================================================================
