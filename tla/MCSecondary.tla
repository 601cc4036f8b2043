---------------------------- MODULE MCSecondary ----------------------------
(* Instances of Secondary; the serials start at the wrap-around.           *)
EXTENDS Secondary, TLC

CONSTANTS m1, m2

OneMaster == <<m1>>
TwoMasters == <<m1, m2>>
SomeFaults == (m1 :> {"down"}) @@ (m2 :> {"down", "refused"})
AllFaults == m1 :> {"down", "refused"}
=============================================================================
