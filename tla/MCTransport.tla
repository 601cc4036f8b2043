---------------------------- MODULE MCTransport ----------------------------
(* Instances of Transport: clients and connections are interchangeable.    *)
EXTENDS Transport, TLC

Symmetry == Permutations(Clients) \union Permutations(Conns)
=============================================================================
