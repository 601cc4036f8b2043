----------------------------- MODULE CacheShard -----------------------------
(***************************************************************************)
(* One shard of plugin/pkg/cache: a map with random eviction.  Add takes   *)
(* the shard's lock up to four times (Len, the choice of a victim, its     *)
(* removal, the insertion), and goroutines interleave between them.  Only  *)
(* the keys matter here; an element is overwritten in place.               *)
(***************************************************************************)
EXTENDS Integers, FiniteSets

CONSTANTS
    Keys,        \* keys that fall into this shard
    Adders,      \* goroutines that call Add
    size,        \* shard.size
    MaxSurplus   \* bound: beyond this surplus only one Add runs at a time

ASSUME KeysAssumption == IsFiniteSet(Keys)
ASSUME AddersAssumption == IsFiniteSet(Adders) /\ Adders # {}
ASSUME SizeAssumption == size \in Nat \ {0}
ASSUME BoundAssumption == MaxSurplus \in Nat

VARIABLES
    items,     \* the keys of shard.items
    pc,        \* pc[a]: where Add of goroutine a is
    key,       \* key[a]: the key a adds
    victim,    \* victim[a]: the key a chose to evict
    surplus    \* history: evictions that found their victim gone

vars == <<items, pc, key, victim, surplus>>

Init ==
    /\ items = {}
    /\ pc = [a \in Adders |-> "idle"]
    /\ key \in [Adders -> Keys]
    /\ victim \in [Adders -> Keys]
    /\ surplus = 0

(* The goroutines about to remove k. *)
Pickers(k) == {a \in Adders : pc[a] = "remove" /\ victim[a] = k}

-----------------------------------------------------------------------------
(* Add is called and reads Len. *)
AddAtSize(a, k) ==
    /\ pc[a] = "idle"
    /\ surplus > MaxSurplus => \A b \in Adders : pc[b] = "idle"
    /\ key' = [key EXCEPT ![a] = k]
    /\ pc' = [pc EXCEPT ![a] = IF Cardinality(items) > size THEN "evict" ELSE "insert"]
    /\ UNCHANGED <<items, victim, surplus>>

Add(a, k) ==
    /\ pc[a] = "idle"
    /\ surplus > MaxSurplus => \A b \in Adders : pc[b] = "idle"
    /\ key' = [key EXCEPT ![a] = k]
    /\ pc' = [pc EXCEPT ![a] = IF Cardinality(items) + 1 > size THEN "evict" ELSE "insert"]
    /\ UNCHANGED <<items, victim, surplus>>

(* Evict chooses any key under the read lock. *)
EvictPickUnchecked(a) ==
    /\ pc[a] = "evict"
    /\ \E k \in IF items = {} THEN {0} ELSE items : victim' = [victim EXCEPT ![a] = k]
    /\ pc' = [pc EXCEPT ![a] = "remove"]
    /\ UNCHANGED <<items, key, surplus>>

EvictPick(a) ==
    /\ pc[a] = "evict"
    /\ \/ /\ items = {}
          /\ pc' = [pc EXCEPT ![a] = "insert"]
          /\ UNCHANGED victim
       \/ \E k \in items :
             /\ victim' = [victim EXCEPT ![a] = k]
             /\ pc' = [pc EXCEPT ![a] = "remove"]
    /\ UNCHANGED <<items, key, surplus>>

(* Evict removes it; if it is gone already, this does nothing.  The other  *)
(* goroutines that chose the same key will find it gone.                   *)
EvictRemove(a) ==
    LET k == victim[a] IN
    /\ pc[a] = "remove"
    /\ items' = items \ {k}
    /\ surplus' = IF k \in items THEN surplus + Cardinality(Pickers(k)) - 1 ELSE surplus
    /\ pc' = [pc EXCEPT ![a] = "insert"]
    /\ UNCHANGED <<key, victim>>

Insert(a) ==
    /\ pc[a] = "insert"
    /\ items' = items \union {key[a]}
    /\ pc' = [pc EXCEPT ![a] = "idle"]
    /\ UNCHANGED <<key, victim, surplus>>

(* Cache.Remove, called from outside. *)
Remove(k) ==
    /\ k \in items
    /\ items' = items \ {k}
    /\ surplus' = IF Pickers(k) = {} THEN surplus ELSE surplus + Cardinality(Pickers(k)) - 1
    /\ UNCHANGED <<pc, key, victim>>

Next ==
    \/ \E a \in Adders : (\E k \in Keys : Add(a, k)) \/ EvictPick(a) \/ EvictRemove(a) \/ Insert(a)
    \/ \E k \in Keys : Remove(k)

Spec == Init /\ [][Next]_vars

-----------------------------------------------------------------------------
(* Every variable has its type. *)
TypeOK ==
    /\ items \subseteq Keys
    /\ pc \in [Adders -> {"idle", "evict", "remove", "insert"}]
    /\ key \in [Adders -> Keys]
    /\ victim \in [Adders -> Keys]
    /\ surplus \in Nat

(* The shard outgrows its size by at most one element for each concurrent  *)
(* Add but one, and one for each eviction that found its victim gone ("we  *)
(* don't care", cache.go): Add never evicts more than one element, so what *)
(* a lost race adds is never taken back.                                   *)
SizeBound == Cardinality(items) <= size + Cardinality(Adders) - 1 + surplus

(* With one goroutine adding, the shard keeps its size even while another  *)
(* one removes.                                                            *)
SoloBound == Cardinality(Adders) = 1 => Cardinality(items) <= size
=============================================================================
