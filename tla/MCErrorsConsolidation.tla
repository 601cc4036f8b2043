----------------------- MODULE MCErrorsConsolidation -----------------------
(* Three requests, two patterns: two requests can arm a timer for the same *)
(* pattern while the third uses the other one.                             *)
EXTENDS ErrorsConsolidation

CONSTANTS r1, r2, r3

MCRequests == {r1, r2, r3}
=============================================================================
