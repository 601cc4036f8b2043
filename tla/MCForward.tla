----------------------------- MODULE MCForward -----------------------------
(* The instances of Forward: upstreams, requests, goroutines are model     *)
(* values; requests and goroutines are interchangeable.                    *)
EXTENDS Forward, TLC

CONSTANTS u1, u2

OneProxy == <<u1>>
TwoProxies == <<u1, u2>>
Symmetry == Permutations(Requests) \union Permutations(Goroutines)
=============================================================================
