---------------------------- MODULE MCCacheShard ----------------------------
(* Instances of CacheShard: keys and goroutines are interchangeable.       *)
EXTENDS CacheShard, TLC

Symmetry == Permutations(Keys) \union Permutations(Adders)
=============================================================================
