----------------------------- MODULE MCSessions -----------------------------
(* The instances of Sessions that TLC checks. *)
EXTENDS Sessions, TLC

CONSTANTS c1, c2

TwoConns == {c1, c2}
OneConn == {c1}
AnyOrder == Permutations(TwoConns)
=============================================================================
