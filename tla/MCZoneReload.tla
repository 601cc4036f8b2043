---------------------------- MODULE MCZoneReload ----------------------------
(* Instances of ZoneReload: aliases that lead from one zone to another,    *)
(* and aliases that lead back into their own zone.                         *)
EXTENDS ZoneReload, TLC

CONSTANTS a, b, q1, q2

Onwards == (a :> {b}) @@ (b :> {})
BackHere == a :> {a}
=============================================================================
