-------------------------- MODULE CacheShardProofs --------------------------
(***************************************************************************)
(* Proofs, for any keys, goroutines and size, of the bounds on what a      *)
(* shard of plugin/pkg/cache holds.                                        *)
(***************************************************************************)
EXTENDS CacheShard, FiniteSetTheorems, TLAPS

(* The goroutines that will insert an element without taking one out: past *)
(* the eviction, or about to evict a key that is gone.                     *)
Owed == {a \in Adders : pc[a] = "insert" \/ (pc[a] = "remove" /\ victim[a] \notin items)}

(* What is in the shard and what will come on top of it stay bounded.      *)
OwedBound == Cardinality(items) + Cardinality(Owed) <= size + Cardinality(Adders) - 1 + surplus

SoloSurplus == Cardinality(Adders) = 1 => surplus = 0

IndInv == TypeOK /\ OwedBound /\ SoloSurplus

-----------------------------------------------------------------------------
(* The sets counted are finite. *)
LEMMA Finite ==
    ASSUME TypeOK
    PROVE  /\ IsFiniteSet(items) /\ Cardinality(items) \in Nat
           /\ IsFiniteSet(Owed) /\ Cardinality(Owed) \in Nat /\ Cardinality(Owed) <= Cardinality(Adders)
           /\ Cardinality(Adders) \in Nat \ {0}
           /\ \A k : IsFiniteSet(Pickers(k)) /\ Cardinality(Pickers(k)) \in Nat
<1>1. IsFiniteSet(items) /\ Cardinality(items) \in Nat
  BY KeysAssumption, FS_Subset, FS_CardinalityType DEF TypeOK
<1>2. IsFiniteSet(Owed) /\ Cardinality(Owed) \in Nat /\ Cardinality(Owed) <= Cardinality(Adders)
  <2>1. Owed \in SUBSET Adders
    BY DEF Owed
  <2>2. QED
    BY <2>1, AddersAssumption, FS_Subset, FS_CardinalityType
<1>3. Cardinality(Adders) \in Nat \ {0}
  BY AddersAssumption, FS_EmptySet, FS_CardinalityType
<1>4. ASSUME NEW k PROVE IsFiniteSet(Pickers(k)) /\ Cardinality(Pickers(k)) \in Nat
  <2>1. Pickers(k) \in SUBSET Adders
    BY DEF Pickers
  <2>2. QED
    BY <2>1, AddersAssumption, FS_Subset, FS_CardinalityType
<1>5. QED
  BY <1>1, <1>2, <1>3, <1>4

(* With one goroutine no key has two pickers. *)
LEMMA SoloPicker ==
    ASSUME TypeOK, Cardinality(Adders) = 1, NEW k, Pickers(k) # {}
    PROVE  Cardinality(Pickers(k)) = 1
<1>1. PICK x : Adders = {x}
  BY AddersAssumption, FS_Singleton
<1>2. Pickers(k) = {x}
  BY <1>1 DEF Pickers
<1>3. QED
  BY <1>2, FS_Singleton

(* Taking k out makes its pickers owe an element each. *)
LEMMA OwedAfterRemoval ==
    ASSUME TypeOK, TypeOK', NEW k \in items, items' = items \ {k}, victim' = victim,
           \A a \in Adders : pc'[a] = pc[a] \/ (a \in Pickers(k) /\ pc'[a] = "insert")
    PROVE  /\ Cardinality(items') = Cardinality(items) - 1
           /\ Cardinality(Owed') = Cardinality(Owed) + Cardinality(Pickers(k))
<1>1. Owed' = Owed \union Pickers(k)
  BY DEF Owed, Pickers
<1>2. Owed \intersect Pickers(k) = {}
  BY DEF Owed, Pickers
<1>3. Cardinality(Owed \union Pickers(k)) = Cardinality(Owed) + Cardinality(Pickers(k))
  <2>1. Cardinality(Owed \union Pickers(k)) = Cardinality(Owed) + Cardinality(Pickers(k)) - Cardinality(Owed \intersect Pickers(k))
    BY Finite, FS_Union
  <2>2. QED
    BY <2>1, <1>2, Finite, FS_EmptySet
<1>4. QED
  BY <1>1, <1>3, Finite, FS_RemoveElement

-----------------------------------------------------------------------------
LEMMA TypeStep == TypeOK /\ [Next]_vars => TypeOK'
<1> SUFFICES ASSUME TypeOK, [Next]_vars PROVE TypeOK'
  OBVIOUS
<1> USE DEF TypeOK
<1>1. ASSUME NEW a \in Adders, NEW k \in Keys, Add(a, k) PROVE TypeOK'
  BY <1>1 DEF Add
<1>2. ASSUME NEW a \in Adders, EvictPick(a) PROVE TypeOK'
  BY <1>2 DEF EvictPick
<1>3. ASSUME NEW a \in Adders, EvictRemove(a) PROVE TypeOK'
  <2>1. Cardinality(Pickers(victim[a])) \in Nat \ {0}
    <3>1. a \in Pickers(victim[a])
      BY <1>3 DEF EvictRemove, Pickers
    <3>2. IsFiniteSet(Pickers(victim[a])) /\ Cardinality(Pickers(victim[a])) \in Nat
      BY Finite
    <3>3. QED
      BY <3>1, <3>2, FS_EmptySet
  <2>2. surplus' \in Nat
    BY <1>3, <2>1 DEF EvictRemove
  <2>3. QED
    BY <1>3, <2>2 DEF EvictRemove
<1>4. ASSUME NEW a \in Adders, Insert(a) PROVE TypeOK'
  BY <1>4 DEF Insert
<1>5. ASSUME NEW k \in Keys, Remove(k) PROVE TypeOK'
  <2>1. Pickers(k) # {} => Cardinality(Pickers(k)) \in Nat \ {0}
    BY Finite, FS_EmptySet
  <2>2. surplus' \in Nat
    BY <1>5, <2>1 DEF Remove
  <2>3. QED
    BY <1>5, <2>2 DEF Remove
<1>6. CASE UNCHANGED vars
  BY <1>6 DEF vars
<1>7. QED
  BY <1>1, <1>2, <1>3, <1>4, <1>5, <1>6 DEF Next

LEMMA InitInv == Init => IndInv
<1> SUFFICES ASSUME Init PROVE IndInv
  OBVIOUS
<1>1. TypeOK
  BY DEF Init, TypeOK
<1>2. Owed = {} /\ items = {}
  BY DEF Init, Owed
<1>3. QED
  BY <1>1, <1>2, Finite, FS_EmptySet, SizeAssumption DEF Init, IndInv, OwedBound, SoloSurplus

LEMMA BoundStep == IndInv /\ [Next]_vars => OwedBound' /\ SoloSurplus'
<1> SUFFICES ASSUME IndInv, [Next]_vars PROVE OwedBound' /\ SoloSurplus'
  OBVIOUS
<1>0. TypeOK /\ TypeOK' /\ surplus \in Nat /\ size \in Nat \ {0}
  BY TypeStep, SizeAssumption DEF IndInv, TypeOK
<1>f. /\ Cardinality(items) \in Nat /\ Cardinality(items') \in Nat
      /\ Cardinality(Owed) \in Nat /\ Cardinality(Owed') \in Nat
      /\ Cardinality(Owed') <= Cardinality(Adders) /\ Cardinality(Adders) \in Nat \ {0}
  <2>1. Cardinality(items') \in Nat
    BY <1>0, KeysAssumption, FS_Subset, FS_CardinalityType DEF TypeOK
  <2>2. Owed' \in SUBSET Adders
    BY DEF Owed
  <2>3. Cardinality(Owed') \in Nat /\ Cardinality(Owed') <= Cardinality(Adders)
    BY <2>2, AddersAssumption, FS_Subset, FS_CardinalityType
  <2>4. QED
    BY <1>0, <2>1, <2>3, Finite
<1>s. ASSUME Owed' \subseteq Owed, items' = items, surplus' = surplus PROVE OwedBound' /\ SoloSurplus'
  <2>1. Cardinality(Owed') <= Cardinality(Owed)
    BY <1>s, <1>0, Finite, FS_Subset
  <2>2. QED
    BY <1>s, <2>1, <1>f, <1>0 DEF IndInv, OwedBound, SoloSurplus
<1>1. ASSUME NEW a \in Adders, NEW k \in Keys, Add(a, k) PROVE OwedBound' /\ SoloSurplus'
  <2>1. CASE Cardinality(items) + 1 > size
    <3>1. Owed' = Owed
      BY <1>1, <2>1, <1>0 DEF Add, Owed, TypeOK
    <3>2. QED
      BY <1>1, <3>1, <1>s DEF Add
  <2>2. CASE ~(Cardinality(items) + 1 > size)
    <3>1. items' = items /\ surplus' = surplus
      BY <1>1 DEF Add
    <3>2. QED
      BY <2>2, <3>1, <1>f, <1>0 DEF IndInv, OwedBound, SoloSurplus
  <2>3. QED
    BY <2>1, <2>2
<1>2. ASSUME NEW a \in Adders, EvictPick(a) PROVE OwedBound' /\ SoloSurplus'
  <2>1. items' = items /\ surplus' = surplus
    BY <1>2 DEF EvictPick
  <2>2. CASE items = {}
    <3>1. Cardinality(items') = 0
      BY <2>1, <2>2, FS_EmptySet
    <3>2. QED
      BY <2>1, <3>1, <1>f, <1>0 DEF IndInv, OwedBound, SoloSurplus
  <2>3. CASE items # {}
    <3>1. Owed' = Owed
      BY <1>2, <2>3, <1>0 DEF EvictPick, Owed, TypeOK
    <3>2. QED
      BY <2>1, <3>1, <1>s
  <2>4. QED
    BY <2>2, <2>3
<1>3. ASSUME NEW a \in Adders, EvictRemove(a) PROVE OwedBound' /\ SoloSurplus'
  <2> DEFINE k == victim[a]
  <2>1. CASE k \notin items
    <3>1. items' = items /\ surplus' = surplus
      BY <1>3, <2>1 DEF EvictRemove
    <3>2. Owed' = Owed
      BY <1>3, <2>1, <3>1, <1>0 DEF EvictRemove, Owed, TypeOK
    <3>3. QED
      BY <3>1, <3>2, <1>s
  <2>2. CASE k \in items
    <3>1. a \in Pickers(k)
      BY <1>3 DEF EvictRemove, Pickers
    <3>2. /\ Cardinality(items') = Cardinality(items) - 1
          /\ Cardinality(Owed') = Cardinality(Owed) + Cardinality(Pickers(k))
      BY <1>0, <1>3, <2>2, <3>1, OwedAfterRemoval DEF EvictRemove, TypeOK
    <3>3. surplus' = surplus + Cardinality(Pickers(k)) - 1
      BY <1>3, <2>2 DEF EvictRemove
    <3>4. Cardinality(Pickers(k)) \in Nat /\ (Cardinality(Adders) = 1 => Cardinality(Pickers(k)) = 1)
      BY <1>0, <3>1, Finite, SoloPicker
    <3> HIDE DEF k
    <3>5. QED
      BY <3>2, <3>3, <3>4, <1>f, <1>0 DEF IndInv, OwedBound, SoloSurplus
  <2>3. QED
    BY <2>1, <2>2
<1>4. ASSUME NEW a \in Adders, Insert(a) PROVE OwedBound' /\ SoloSurplus'
  <2>1. a \in Owed /\ surplus' = surplus
    BY <1>4 DEF Insert, Owed
  <2>2. Owed' \in SUBSET (Owed \ {a})
    BY <1>4, <1>0 DEF Insert, Owed, TypeOK
  <2>3. Cardinality(Owed') <= Cardinality(Owed) - 1
    <3>1. IsFiniteSet(Owed \ {a}) /\ Cardinality(Owed \ {a}) = Cardinality(Owed) - 1
      BY <2>1, <1>0, Finite, FS_RemoveElement
    <3>2. QED
      BY <2>2, <3>1, FS_Subset
  <2>4. Cardinality(items') <= Cardinality(items) + 1
    <3>1. Cardinality(items') = IF key[a] \in items THEN Cardinality(items) ELSE Cardinality(items) + 1
      BY <1>4, <1>0, Finite, FS_AddElement DEF Insert
    <3>2. QED
      BY <3>1, <1>f
  <2>5. QED
    BY <2>1, <2>3, <2>4, <1>f, <1>0 DEF IndInv, OwedBound, SoloSurplus
<1>5. ASSUME NEW k \in Keys, Remove(k) PROVE OwedBound' /\ SoloSurplus'
  <2>1. /\ Cardinality(items') = Cardinality(items) - 1
        /\ Cardinality(Owed') = Cardinality(Owed) + Cardinality(Pickers(k))
    BY <1>0, <1>5, OwedAfterRemoval DEF Remove
  <2>2. CASE Pickers(k) = {}
    <3>1. Cardinality(Pickers(k)) = 0 /\ surplus' = surplus
      BY <1>5, <2>2, FS_EmptySet DEF Remove
    <3>2. QED
      BY <2>1, <3>1, <1>f, <1>0 DEF IndInv, OwedBound, SoloSurplus
  <2>3. CASE Pickers(k) # {}
    <3>1. surplus' = surplus + Cardinality(Pickers(k)) - 1
      BY <1>5, <2>3 DEF Remove
    <3>2. Cardinality(Pickers(k)) \in Nat /\ (Cardinality(Adders) = 1 => Cardinality(Pickers(k)) = 1)
      BY <1>0, <2>3, Finite, SoloPicker
    <3>3. QED
      BY <2>1, <3>1, <3>2, <1>f, <1>0 DEF IndInv, OwedBound, SoloSurplus
  <2>4. QED
    BY <2>2, <2>3
<1>6. CASE UNCHANGED vars
  <2>1. Owed' = Owed /\ items' = items /\ surplus' = surplus
    BY <1>6 DEF vars, Owed
  <2>2. QED
    BY <2>1, <1>s
<1>7. QED
  BY <1>1, <1>2, <1>3, <1>4, <1>5, <1>6 DEF Next

(* The inductive invariant holds of every behaviour. *)
THEOREM Invariance == Spec => []IndInv
<1>1. IndInv /\ [Next]_vars => IndInv'
  BY TypeStep, BoundStep DEF IndInv
<1>2. QED
  BY <1>1, InitInv, PTL DEF Spec

(* The variables of a shard keep their types. *)
THEOREM TypeCorrect == Spec => []TypeOK
<1>1. IndInv => TypeOK
  BY DEF IndInv
<1>2. QED
  BY <1>1, Invariance, PTL

(* shard.Add: whatever the interleaving, the shard outgrows its size only  *)
(* by the concurrent Adds and the evictions lost to a race.                *)
THEOREM ShardSizeBound == Spec => []SizeBound
<1>1. IndInv => SizeBound
  BY Finite, SizeAssumption DEF IndInv, TypeOK, OwedBound, SizeBound
<1>2. QED
  BY <1>1, Invariance, PTL

(* shard.Add: with a single goroutine adding, the shard keeps its size.    *)
THEOREM ShardSoloBound == Spec => []SoloBound
<1>1. IndInv => SoloBound
  BY Finite, SizeAssumption DEF IndInv, TypeOK, OwedBound, SoloSurplus, SoloBound
<1>2. QED
  BY <1>1, Invariance, PTL
=============================================================================
