--------------------------- MODULE ZoneReloadProofs ---------------------------
(* Proofs about ZoneReload, for any zones, upstreams, queries and depth.   *)
EXTENDS ZoneReload, TLAPS

Out == {"none", "RLock"}

(* Readers of zone z are not disturbed: they lock, or it is not reloaded. *)
Guarded(z) == z \notin Reloads \ Locks

(* Where the reload goroutine is says what the lock is, how old the copy   *)
(* of the file is that it has read, and whether Apex and Tree agree.       *)
ReloadOK(z) ==
    /\ z \notin Reloads => reload[z] = "stopped"
    /\ mu[z] = "held" <=> reload[z] \in {"Tree", "Unlock"}
    /\ notified[z] <= tree[z] /\ tree[z] <= apex[z] /\ apex[z] <= file[z].version
    /\ read[z].version <= file[z].version
    /\ reload[z] \in {"SOASerialIfDefined", "Parse", "Apex"} => apex[z] <= read[z].version
    /\ reload[z] \in {"Tree", "Unlock", "Notify"} => apex[z] = read[z].version
    /\ reload[z] # "Tree" => apex[z] = tree[z]

ReloadInv == \A z \in Zones : ReloadOK(z)

(* What the reader inside a lock has seen is what the zone still has: no   *)
(* writer holds the lock meanwhile.  The lookups below the innermost one   *)
(* wait for it, with their read locks.                                     *)
FrameOK(q, l) ==
    /\ l < level[q] => frame[q][l].at = "upstream"
    /\ frame[q][l].at \in Out => frame[q][l].seen = {}
    /\ frame[q][l].at \notin Out /\ Guarded(frame[q][l].zone) =>
          mu[frame[q][l].zone] # "held" /\ frame[q][l].seen \subseteq {tree[frame[q][l].zone]}

FrameInv == \A q \in Queries, l \in Levels : FrameOK(q, l)

IndInv == TypeOK /\ ReloadInv /\ FrameInv

(* The bounds of the numbers. *)
LEMMA Bounds ==
    /\ 0 \in Versions /\ Versions \subseteq Nat
    /\ 1 \in Levels /\ Levels \subseteq Nat
    /\ \A l \in Levels : MayReenter(l) => l + 1 \in Levels
    /\ \A l \in Levels : l > 1 => l - 1 \in Levels
    /\ \A l \in 0..(maxreentries + 1) : l > 0 => l \in Levels
    /\ \A l \in Levels : l \in 0..(maxreentries + 1)
    /\ \A v \in Versions : v < MaxEdits => v + 1 \in Versions
  BY ZoneAssumption DEF Versions, Levels, MayReenter

(* Frames as the actions make them are frames. *)
LEMMA IdleIsFrame == Idle \in Frame
  <1>1. (CHOOSE y \in Zones : TRUE) \in Zones
    BY ZoneAssumption
  <1> QED BY <1>1 DEF Idle, Frame, Steps

LEMMA BeginIsFrame == ASSUME NEW z \in Zones, NEW op \in {"Lookup", "All"} PROVE Begin(z, op) \in Frame
  BY DEF Begin, Frame, Steps

LEMMA StepIsFrame ==
    ASSUME NEW f \in Frame, NEW at \in Steps, NEW v \in SUBSET Versions
    PROVE  [f EXCEPT !.at = at, !.seen = f.seen \cup v] \in Frame
  BY DEF Frame

(* The initial states. *)
LEMMA InitInv == Init => IndInv
  <1> SUFFICES ASSUME Init PROVE IndInv
    OBVIOUS
  <1>1. NoFile \in File /\ [version |-> 0, serial |-> FirstSerial, state |-> "good"] \in File
    BY Bounds, ZoneAssumption DEF NoFile, File
  <1>2. TypeOK
    <2>1. file \in [Zones -> File] /\ read \in [Zones -> File]
      BY <1>1 DEF Init
    <2>2. frame \in [Queries -> [Levels -> Frame]]
      BY IdleIsFrame DEF Init
    <2>3. level \in [Queries -> 0..(maxreentries + 1)]
      BY ZoneAssumption DEF Init
    <2> QED BY <2>1, <2>2, <2>3, Bounds, ZoneAssumption DEF Init, TypeOK, ReloadSteps, NoSerial
  <1>3. ReloadInv
    BY ZoneAssumption DEF Init, ReloadInv, ReloadOK, NoFile
  <1>4. FrameInv
    BY Bounds DEF Init, FrameInv, FrameOK, Idle, Out
  <1> QED BY <1>2, <1>3, <1>4 DEF IndInv

(* Steps of the reload goroutine of a zone; the frames stay as they are. *)
LEMMA ReloadStep ==
    ASSUME IndInv, NEW z \in Zones, ReloadNext(z) \/ OnShutdown(z)
    PROVE  IndInv'
  <1>0. NoFile \in File /\ NoSerial \in Serials
    BY Bounds, ZoneAssumption DEF NoFile, NoSerial, File
  <1> USE DEF IndInv
  <1>f. ASSUME NEW f \in File PROVE f.version \in Versions /\ f.serial \in Serials
    BY DEF File
  <1>n. NoFile.version = 0
    BY DEF NoFile
  <1>1. CASE Tick(z)
    <2>1. TypeOK'
      BY <1>1, <1>0, <1>f DEF Tick, TypeOK, ReloadSteps, zoneVars, queryVars
    <2>2. ReloadInv'
      BY <1>1, <1>f, <1>n, Bounds DEF Tick, TypeOK, ReloadInv, ReloadOK, MayLock, zoneVars
    <2>3. FrameInv'
      BY <1>1 DEF Tick, TypeOK, FrameInv, FrameOK, ReloadInv, ReloadOK, MayLock, NoReaders, Holds, Guarded, Out, Frame, zoneVars, queryVars
    <2> QED BY <2>1, <2>2, <2>3
  <1>2. CASE ReadFileName(z)
    <2>1. TypeOK'
      BY <1>2, <1>0, <1>f DEF ReadFileName, TypeOK, ReloadSteps, zoneVars, queryVars
    <2>2. ReloadInv'
      BY <1>2, <1>f, <1>n, Bounds DEF ReadFileName, TypeOK, ReloadInv, ReloadOK, MayLock, zoneVars
    <2>3. FrameInv'
      BY <1>2 DEF ReadFileName, TypeOK, FrameInv, FrameOK, ReloadInv, ReloadOK, MayLock, NoReaders, Holds, Guarded, Out, Frame, zoneVars, queryVars
    <2> QED BY <2>1, <2>2, <2>3
  <1>3. CASE Open(z)
    <2>1. TypeOK'
      BY <1>3, <1>0, <1>f DEF Open, TypeOK, ReloadSteps, zoneVars, queryVars
    <2>2. ReloadInv'
      <3> SUFFICES ASSUME NEW y \in Zones PROVE ReloadOK(y)'
        BY DEF ReloadInv
      <3>1. ReloadOK(y) /\ ReloadOK(z)
        BY DEF ReloadInv
      <3>2. y = z => read'[y] = file[z]
        BY <1>3 DEF Open, TypeOK
      <3>3. y # z => read'[y] = read[y]
        BY <1>3 DEF Open, TypeOK
      <3>4. /\ apex[y] \in Nat /\ tree[y] \in Nat /\ notified[y] \in Nat
            /\ file[y].version \in Nat /\ read[y].version \in Nat
        BY <1>f, Bounds DEF TypeOK
      <3>5. CASE y = z
        BY <1>3, <3>1, <3>2, <3>4, <3>5, <1>n DEF Open, ReloadOK, zoneVars, TypeOK
      <3>6. CASE y # z
        BY <1>3, <3>1, <3>3, <3>4, <3>6 DEF Open, ReloadOK, zoneVars, TypeOK
      <3> QED BY <3>5, <3>6
    <2>3. FrameInv'
      BY <1>3 DEF Open, TypeOK, FrameInv, FrameOK, ReloadInv, ReloadOK, MayLock, NoReaders, Holds, Guarded, Out, Frame, zoneVars, queryVars
    <2> QED BY <2>1, <2>2, <2>3
  <1>4. CASE OpenFails(z)
    <2>1. TypeOK'
      BY <1>4, <1>0, <1>f DEF OpenFails, TypeOK, ReloadSteps, zoneVars, queryVars
    <2>2. ReloadInv'
      BY <1>4, <1>f, <1>n, Bounds DEF OpenFails, TypeOK, ReloadInv, ReloadOK, MayLock, zoneVars
    <2>3. FrameInv'
      BY <1>4 DEF OpenFails, TypeOK, FrameInv, FrameOK, ReloadInv, ReloadOK, MayLock, NoReaders, Holds, Guarded, Out, Frame, zoneVars, queryVars
    <2> QED BY <2>1, <2>2, <2>3
  <1>5. CASE SOASerialIfDefined(z)
    <2>1. TypeOK'
      BY <1>5, <1>0, <1>f DEF SOASerialIfDefined, TypeOK, ReloadSteps, zoneVars, queryVars
    <2>2. ReloadInv'
      BY <1>5, <1>f, <1>n, Bounds DEF SOASerialIfDefined, TypeOK, ReloadInv, ReloadOK, MayLock, zoneVars
    <2>3. FrameInv'
      BY <1>5 DEF SOASerialIfDefined, TypeOK, FrameInv, FrameOK, ReloadInv, ReloadOK, MayLock, NoReaders, Holds, Guarded, Out, Frame, zoneVars, queryVars
    <2> QED BY <2>1, <2>2, <2>3
  <1>6. CASE Parse(z)
    <2>1. TypeOK'
      BY <1>6, <1>0, <1>f DEF Parse, TypeOK, ReloadSteps, zoneVars, queryVars
    <2>2. ReloadInv'
      BY <1>6, <1>f, <1>n, Bounds DEF Parse, TypeOK, ReloadInv, ReloadOK, MayLock, zoneVars
    <2>3. FrameInv'
      BY <1>6 DEF Parse, TypeOK, FrameInv, FrameOK, ReloadInv, ReloadOK, MayLock, NoReaders, Holds, Guarded, Out, Frame, zoneVars, queryVars
    <2> QED BY <2>1, <2>2, <2>3
  <1>7. CASE ParseFails(z)
    <2>1. TypeOK'
      BY <1>7, <1>0, <1>f DEF ParseFails, TypeOK, ReloadSteps, zoneVars, queryVars
    <2>2. ReloadInv'
      <3> SUFFICES ASSUME NEW y \in Zones PROVE ReloadOK(y)'
        BY DEF ReloadInv
      <3>1. ReloadOK(y) /\ ReloadOK(z)
        BY DEF ReloadInv
      <3>2. y = z => read'[y] = NoFile
        BY <1>7 DEF ParseFails, TypeOK
      <3>3. y # z => read'[y] = read[y]
        BY <1>7 DEF ParseFails, TypeOK
      <3>4. /\ apex[y] \in Nat /\ tree[y] \in Nat /\ notified[y] \in Nat
            /\ file[y].version \in Nat /\ read[y].version \in Nat
        BY <1>f, Bounds DEF TypeOK
      <3>5. CASE y = z
        BY <1>7, <3>1, <3>2, <3>4, <3>5, <1>n DEF ParseFails, ReloadOK, zoneVars, TypeOK
      <3>6. CASE y # z
        BY <1>7, <3>1, <3>3, <3>4, <3>6 DEF ParseFails, ReloadOK, zoneVars, TypeOK
      <3> QED BY <3>5, <3>6
    <2>3. FrameInv'
      BY <1>7 DEF ParseFails, TypeOK, FrameInv, FrameOK, ReloadInv, ReloadOK, MayLock, NoReaders, Holds, Guarded, Out, Frame, zoneVars, queryVars
    <2> QED BY <2>1, <2>2, <2>3
  <1>8. CASE SetApex(z)
    <2>1. TypeOK'
      BY <1>8, <1>0, <1>f DEF SetApex, TypeOK, ReloadSteps, zoneVars, queryVars
    <2>2. ReloadInv'
      BY <1>8, <1>f, <1>n, Bounds DEF SetApex, TypeOK, ReloadInv, ReloadOK, MayLock, zoneVars
    <2>3. FrameInv'
      BY <1>8 DEF SetApex, TypeOK, FrameInv, FrameOK, ReloadInv, ReloadOK, MayLock, NoReaders, Holds, Guarded, Out, Frame, zoneVars, queryVars
    <2> QED BY <2>1, <2>2, <2>3
  <1>9. CASE SetTree(z)
    <2>1. TypeOK'
      BY <1>9, <1>0, <1>f DEF SetTree, TypeOK, ReloadSteps, zoneVars, queryVars
    <2>2. ReloadInv'
      <3> SUFFICES ASSUME NEW y \in Zones PROVE ReloadOK(y)'
        BY DEF ReloadInv
      <3>1. ReloadOK(y) /\ ReloadOK(z)
        BY DEF ReloadInv
      <3>2. /\ y = z => tree'[y] = read[z].version /\ reload'[y] = "Unlock"
            /\ y # z => tree'[y] = tree[y] /\ reload'[y] = reload[y]
        BY <1>9 DEF SetTree, TypeOK
      <3>3. UNCHANGED <<file, apex, mu, read, notified>>
        BY <1>9 DEF SetTree
      <3>4. /\ apex[y] \in Nat /\ tree[y] \in Nat /\ notified[y] \in Nat
            /\ file[y].version \in Nat /\ read[y].version \in Nat
        BY <1>f, Bounds DEF TypeOK
      <3>5. CASE y = z
        BY <1>9, <3>1, <3>2, <3>3, <3>4, <3>5 DEF SetTree, ReloadOK
      <3>6. CASE y # z
        BY <3>1, <3>2, <3>3, <3>6 DEF ReloadOK
      <3> QED BY <3>5, <3>6
    <2>3. FrameInv'
      BY <1>9 DEF SetTree, TypeOK, FrameInv, FrameOK, ReloadInv, ReloadOK, MayLock, NoReaders, Holds, Guarded, Out, Frame, zoneVars, queryVars
    <2> QED BY <2>1, <2>2, <2>3
  <1>10. CASE Unlock(z)
    <2>1. TypeOK'
      BY <1>10, <1>0, <1>f DEF Unlock, TypeOK, ReloadSteps, zoneVars, queryVars
    <2>2. ReloadInv'
      BY <1>10, <1>f, <1>n, Bounds DEF Unlock, TypeOK, ReloadInv, ReloadOK, MayLock, zoneVars
    <2>3. FrameInv'
      BY <1>10 DEF Unlock, TypeOK, FrameInv, FrameOK, ReloadInv, ReloadOK, MayLock, NoReaders, Holds, Guarded, Out, Frame, zoneVars, queryVars
    <2> QED BY <2>1, <2>2, <2>3
  <1>11. CASE Notify(z)
    <2>1. TypeOK'
      BY <1>11, <1>0, <1>f DEF Notify, TypeOK, ReloadSteps, zoneVars, queryVars
    <2>2. ReloadInv'
      <3> SUFFICES ASSUME NEW y \in Zones PROVE ReloadOK(y)'
        BY DEF ReloadInv
      <3>1. ReloadOK(y) /\ ReloadOK(z)
        BY DEF ReloadInv
      <3>2. y = z => read'[y] = NoFile
        BY <1>11 DEF Notify, TypeOK
      <3>3. y # z => read'[y] = read[y]
        BY <1>11 DEF Notify, TypeOK
      <3>4. /\ apex[y] \in Nat /\ tree[y] \in Nat /\ notified[y] \in Nat
            /\ file[y].version \in Nat /\ read[y].version \in Nat
        BY <1>f, Bounds DEF TypeOK
      <3>5. CASE y = z
        BY <1>11, <3>1, <3>2, <3>4, <3>5, <1>n DEF Notify, ReloadOK, zoneVars, TypeOK
      <3>6. CASE y # z
        BY <1>11, <3>1, <3>3, <3>4, <3>6 DEF Notify, ReloadOK, zoneVars, TypeOK
      <3> QED BY <3>5, <3>6
    <2>3. FrameInv'
      BY <1>11 DEF Notify, TypeOK, FrameInv, FrameOK, ReloadInv, ReloadOK, MayLock, NoReaders, Holds, Guarded, Out, Frame, zoneVars, queryVars
    <2> QED BY <2>1, <2>2, <2>3
  <1>12. CASE OnShutdown(z)
    <2>1. TypeOK'
      BY <1>12, <1>0, <1>f DEF OnShutdown, TypeOK, ReloadSteps, zoneVars, queryVars
    <2>2. ReloadInv'
      BY <1>12, <1>f, <1>n, Bounds DEF OnShutdown, TypeOK, ReloadInv, ReloadOK, MayLock, zoneVars
    <2>3. FrameInv'
      BY <1>12 DEF OnShutdown, TypeOK, FrameInv, FrameOK, ReloadInv, ReloadOK, MayLock, NoReaders, Holds, Guarded, Out, Frame, zoneVars, queryVars
    <2> QED BY <2>1, <2>2, <2>3
  <1> QED BY <1>1, <1>2, <1>3, <1>4, <1>5, <1>6, <1>7, <1>8, <1>9, <1>10, <1>11, <1>12 DEF ReloadNext

(* A step of a lookup that stays at its level, with a version v seen. *)
LEMMA ProceedStep ==
    ASSUME IndInv, NEW q \in Queries, level[q] > 0,
           NEW at \in Steps \ Out, NEW v \in SUBSET Versions, Proceed(q, at, v),
           Guarded(Top(q).zone) => mu[Top(q).zone] # "held" /\ v \subseteq {tree[Top(q).zone]},
           UNCHANGED <<file, zoneVars, reloadVars, level, closing>>
    PROVE  IndInv'
  <1>1. level[q] \in Levels /\ Top(q) \in Frame
    BY Bounds DEF IndInv, TypeOK, Top
  <1> DEFINE f == [Top(q) EXCEPT !.at = at, !.seen = Top(q).seen \cup v]
  <1>2. f \in Frame /\ f.at = at /\ f.zone = Top(q).zone /\ f.seen = Top(q).seen \cup v
    BY <1>1, StepIsFrame DEF Frame
  <1>3. frame' = [frame EXCEPT ![q][level[q]] = f]
    BY DEF Proceed
  <1>4. Guarded(Top(q).zone) => Top(q).seen \subseteq {tree[Top(q).zone]}
    BY <1>1 DEF IndInv, FrameInv, FrameOK, Top
  <1> HIDE DEF f
  <1>5. TypeOK'
    BY <1>1, <1>2, <1>3 DEF IndInv, TypeOK, zoneVars, reloadVars
  <1>6. ReloadInv'
    BY DEF IndInv, ReloadInv, ReloadOK, zoneVars, reloadVars
  <1>7. FrameInv'
    <2> SUFFICES ASSUME NEW p \in Queries, NEW l \in Levels PROVE FrameOK(p, l)'
      BY DEF FrameInv
    <2>1. FrameOK(p, l)
      BY DEF IndInv, FrameInv
    <2>2. CASE p = q /\ l = level[q]
      <3>1. frame'[p][l] = f
        BY <1>1, <1>3, <2>2 DEF IndInv, TypeOK
      <3>2. UNCHANGED <<mu, tree, level>>
        BY DEF zoneVars, reloadVars
      <3>3. at \notin Out /\ ~(l < level[q])
        BY <1>1, <2>2, Bounds
      <3> QED BY <1>2, <1>4, <2>2, <3>1, <3>2, <3>3 DEF FrameOK
    <2>3. CASE ~(p = q /\ l = level[q])
      <3>1. frame'[p][l] = frame[p][l]
        BY <1>1, <1>3, <2>3 DEF IndInv, TypeOK
      <3> QED BY <2>1, <3>1 DEF FrameOK, zoneVars, reloadVars
    <2> QED BY <2>2, <2>3
  <1> QED BY <1>5, <1>6, <1>7 DEF IndInv

(* What is known of the innermost lookup of a query and of its zone. *)
LEMMA TopFacts ==
    ASSUME IndInv, NEW q \in Queries, level[q] > 0
    PROVE  /\ level[q] \in Levels /\ Top(q) \in Frame /\ Top(q).zone \in Zones
           /\ tree[Top(q).zone] \in Versions /\ apex[Top(q).zone] \in Versions
           /\ Top(q).at \notin Out /\ Guarded(Top(q).zone) =>
                 mu[Top(q).zone] # "held" /\ Top(q).seen \subseteq {tree[Top(q).zone]}
           /\ MayRLock(Top(q).zone) /\ Guarded(Top(q).zone) => mu[Top(q).zone] # "held"
           /\ mu[Top(q).zone] # "held" => apex[Top(q).zone] = tree[Top(q).zone]
  <1>1. level[q] \in Levels /\ Top(q) \in Frame /\ Top(q).zone \in Zones
    BY Bounds DEF IndInv, TypeOK, Top, Frame
  <1>2. FrameOK(q, level[q]) /\ ReloadOK(Top(q).zone)
    BY <1>1 DEF IndInv, FrameInv, ReloadInv
  <1> QED BY <1>1, <1>2 DEF FrameOK, ReloadOK, MayRLock, Guarded, Top, IndInv, TypeOK

(* Steps of a query that stay at one level. *)
LEMMA LookupStep ==
    ASSUME IndInv, NEW q \in Queries,
           \/ RLock(q) \/ ReadTree(q) \/ AskUpstream(q)
           \/ UpstreamReplies(q) \/ TooDeep(q) \/ ReadApex(q)
    PROVE  IndInv'
  <1> DEFINE z == Top(q).zone
  <1>0. level[q] > 0
    BY DEF RLock, ReadTree, AskUpstream, UpstreamReplies, TooDeep, ReadApex, At
  <1>1. /\ tree[z] \in Versions /\ apex[z] \in Versions
        /\ {tree[z]} \in SUBSET Versions /\ {apex[z]} \in SUBSET Versions /\ {} \in SUBSET Versions
    BY <1>0, TopFacts
  <1>2. Guarded(z) => mu[z] # "held" /\ apex[z] = tree[z]
    BY <1>0, TopFacts DEF RLock, ReadTree, AskUpstream, UpstreamReplies, TooDeep, ReadApex, At, Out
  <1>3. PICK at \in {"tree", "upstream", "apex", "return"}, v \in {{}, {tree[z]}, {apex[z]}} : Proceed(q, at, v)
    BY DEF RLock, ReadTree, AskUpstream, UpstreamReplies, TooDeep, ReadApex
  <1>4. at \in Steps \ Out /\ v \in SUBSET Versions /\ (Guarded(z) => v \subseteq {tree[z]})
    BY <1>1, <1>2, <1>3 DEF Steps, Out
  <1>5. UNCHANGED <<file, zoneVars, reloadVars, level, closing>>
    BY DEF RLock, ReadTree, AskUpstream, UpstreamReplies, TooDeep, ReadApex
  <1> QED BY <1>0, <1>2, <1>3, <1>4, <1>5, ProceedStep

(* A query starts, or ends. *)
LEMMA AskStep ==
    ASSUME IndInv, NEW q \in Queries, NEW z \in Zones, NEW op \in {"Lookup", "All"},
           Ask(q, z, op) \/ Reply(q)
    PROVE  IndInv'
  <1>1. PICK f \in {Begin(z, op), Idle} :
            /\ frame' = [frame EXCEPT ![q][1] = f]
            /\ level' \in {[level EXCEPT ![q] = 0], [level EXCEPT ![q] = 1]}
    BY DEF Ask, Reply
  <1>2. f \in Frame /\ f.at \in Out /\ f.seen = {}
    <2>1. Begin(z, op).at = "RLock" /\ Begin(z, op).seen = {}
      BY DEF Begin
    <2>2. Idle.at = "none" /\ Idle.seen = {}
      BY DEF Idle
    <2> QED BY <1>1, <2>1, <2>2, BeginIsFrame, IdleIsFrame DEF Out
  <1>3. UNCHANGED <<file, zoneVars, reloadVars, closing>>
    BY DEF Ask, Reply
  <1>4. level' \in [Queries -> 0..(maxreentries + 1)] /\ frame' \in [Queries -> [Levels -> Frame]]
    BY <1>1, <1>2, Bounds, ZoneAssumption, SMTT(60) DEF IndInv, TypeOK
  <1>5. TypeOK' /\ ReloadInv'
    BY <1>3, <1>4 DEF IndInv, TypeOK, ReloadInv, ReloadOK, zoneVars, reloadVars
  <1>6. ASSUME NEW p \in Queries, NEW l \in Levels PROVE FrameOK(p, l)'
    <2>1. FrameOK(p, l) /\ UNCHANGED <<mu, tree>>
      BY <1>3 DEF IndInv, FrameInv, zoneVars, reloadVars
    <2>2. CASE p = q
      <3>1. ~(l < level'[p])
        BY <1>1, <2>2 DEF IndInv, TypeOK, Levels
      <3>2. frame'[p][l] = IF l = 1 THEN f ELSE frame[p][l]
        BY <1>1, <2>2, Bounds DEF IndInv, TypeOK
      <3> QED BY <1>2, <2>1, <3>1, <3>2 DEF FrameOK
    <2>3. CASE p # q
      <3>1. frame'[p][l] = frame[p][l] /\ level'[p] = level[p]
        BY <1>1, <2>3 DEF IndInv, TypeOK
      <3> QED BY <2>1, <3>1 DEF FrameOK
    <2> QED BY <2>2, <2>3
  <1> QED BY <1>5, <1>6 DEF IndInv, FrameInv

(* A lookup starts one inside it. *)
LEMMA AskSelfStep ==
    ASSUME IndInv, NEW q \in Queries, NEW w \in Zones, AskSelf(q, w)
    PROVE  IndInv'
  <1> DEFINE k == level[q]
             z == Top(q).zone
             f == [Top(q) EXCEPT !.at = "upstream", !.seen = Top(q).seen \cup {tree[z]}]
             g == Begin(w, "Lookup")
  <1>0. k > 0 /\ Top(q).at \notin Out
    BY DEF AskSelf, At, Out
  <1>1. k \in Levels /\ k + 1 \in Levels
    BY <1>0, TopFacts, Bounds DEF AskSelf
  <1>2. /\ f \in Frame /\ f.at = "upstream" /\ f.zone = z
        /\ Guarded(z) => mu[z] # "held" /\ f.seen \subseteq {tree[z]}
    <2>1. Top(q) \in Frame /\ "upstream" \in Steps /\ {tree[z]} \in SUBSET Versions
      BY <1>0, TopFacts DEF Steps
    <2>2. f \in Frame
      BY <2>1, StepIsFrame
    <2>3. f.at = "upstream" /\ f.zone = z /\ f.seen = Top(q).seen \cup {tree[z]}
      BY <2>1 DEF Frame
    <2> QED BY <1>0, <2>2, <2>3, TopFacts
  <1>3. g \in Frame /\ g.at = "RLock" /\ g.seen = {}
    BY BeginIsFrame DEF Begin
  <1>4. frame' = [frame EXCEPT ![q][k] = f, ![q][k + 1] = g] /\ level' = [level EXCEPT ![q] = k + 1]
    BY DEF AskSelf
  <1>5. UNCHANGED <<file, zoneVars, reloadVars, closing>>
    BY DEF AskSelf
  <1> HIDE DEF f, g
  <1>6. level' \in [Queries -> 0..(maxreentries + 1)] /\ frame' \in [Queries -> [Levels -> Frame]]
    BY <1>1, <1>2, <1>3, <1>4, Bounds DEF IndInv, TypeOK
  <1>7. TypeOK' /\ ReloadInv'
    BY <1>5, <1>6 DEF IndInv, TypeOK, ReloadInv, ReloadOK, zoneVars, reloadVars
  <1>8. ASSUME NEW p \in Queries, NEW l \in Levels PROVE FrameOK(p, l)'
    <2>1. FrameOK(p, l) /\ UNCHANGED <<mu, tree>> /\ k \in Nat /\ l \in Nat
      BY <1>1, <1>5, Bounds DEF IndInv, FrameInv, zoneVars, reloadVars
    <2>2. CASE p = q
      <3>1. frame'[p][l] = IF l = k + 1 THEN g ELSE IF l = k THEN f ELSE frame[p][l]
        BY <1>1, <1>4, <2>2, Bounds DEF IndInv, TypeOK
      <3>2. level'[p] = k + 1
        BY <1>4, <2>2 DEF IndInv, TypeOK
      <3>3. CASE l = k + 1
        <4>1. frame'[p][l] = g /\ ~(l < level'[p])
          BY <2>1, <3>1, <3>2, <3>3
        <4> QED BY <1>3, <4>1 DEF FrameOK, Guarded, Out
      <3>4. CASE l = k
        <4>1. frame'[p][l] = f
          BY <2>1, <3>1, <3>4
        <4> QED BY <1>2, <2>1, <4>1 DEF FrameOK, Guarded, Out
      <3>5. CASE l # k /\ l # k + 1
        <4>1. frame'[p][l] = frame[p][l] /\ (l < level'[p] => l < level[p])
          BY <2>1, <2>2, <3>1, <3>2, <3>5
        <4> QED BY <2>1, <4>1 DEF FrameOK, Guarded
      <3> QED BY <3>3, <3>4, <3>5
    <2>3. CASE p # q
      <3>1. frame'[p][l] = frame[p][l] /\ level'[p] = level[p]
        BY <1>4, <2>3 DEF IndInv, TypeOK
      <3> QED BY <2>1, <3>1 DEF FrameOK
    <2> QED BY <2>2, <2>3
  <1> QED BY <1>7, <1>8 DEF IndInv, FrameInv

(* The innermost lookup gives its answer to the one around it. *)
LEMMA ReturnStep ==
    ASSUME IndInv, NEW q \in Queries, Return(q)
    PROVE  IndInv'
  <1> DEFINE k == level[q]
             f == [frame[q][k - 1] EXCEPT !.at = "apex"]
  <1>1. k \in Levels /\ k - 1 \in Levels /\ k \in Nat /\ k > 1
    BY TopFacts, Bounds DEF Return, At
  <1>2. frame[q][k - 1] \in Frame /\ FrameOK(q, k - 1)
    BY <1>1 DEF IndInv, TypeOK, FrameInv
  <1>3. /\ f \in Frame /\ f.at = "apex" /\ f.zone = frame[q][k - 1].zone
        /\ Guarded(f.zone) => mu[f.zone] # "held" /\ f.seen \subseteq {tree[f.zone]}
    <2>1. f \in Frame /\ f.at = "apex" /\ f.zone = frame[q][k - 1].zone /\ f.seen = frame[q][k - 1].seen
      BY <1>2 DEF Frame, Steps
    <2>2. frame[q][k - 1].at \notin Out
      BY <1>1, <1>2, SMTT(60) DEF FrameOK, Out
    <2> QED BY <1>2, <2>1, <2>2 DEF FrameOK
  <1>4. frame' = [frame EXCEPT ![q][k] = Idle, ![q][k - 1] = f] /\ level' = [level EXCEPT ![q] = k - 1]
    BY <1>1 DEF Return, IndInv, TypeOK
  <1>5. UNCHANGED <<file, zoneVars, reloadVars, closing>>
    BY DEF Return
  <1>6. Idle.at = "none" /\ Idle.seen = {} /\ Idle \in Frame
    BY IdleIsFrame DEF Idle
  <1> HIDE DEF f
  <1>7. level' \in [Queries -> 0..(maxreentries + 1)] /\ frame' \in [Queries -> [Levels -> Frame]]
    BY <1>1, <1>3, <1>4, <1>6, Bounds DEF IndInv, TypeOK
  <1>8. TypeOK' /\ ReloadInv'
    BY <1>5, <1>7 DEF IndInv, TypeOK, ReloadInv, ReloadOK, zoneVars, reloadVars
  <1>9. ASSUME NEW p \in Queries, NEW l \in Levels PROVE FrameOK(p, l)'
    <2>1. FrameOK(p, l) /\ UNCHANGED <<mu, tree>> /\ l \in Nat
      BY <1>5, Bounds DEF IndInv, FrameInv, zoneVars, reloadVars
    <2>2. CASE p = q
      <3>1. frame'[p][l] = IF l = k - 1 THEN f ELSE IF l = k THEN Idle ELSE frame[p][l]
        BY <1>1, <1>4, <2>2, Bounds DEF IndInv, TypeOK
      <3>2. level'[p] = k - 1
        BY <1>4, <2>2 DEF IndInv, TypeOK
      <3>3. CASE l = k - 1
        <4>1. frame'[p][l] = f /\ ~(l < level'[p])
          BY <1>1, <2>1, <3>1, <3>2, <3>3
        <4> QED BY <1>3, <2>1, <4>1 DEF FrameOK, Guarded, Out
      <3>4. CASE l = k
        <4>1. frame'[p][l] = Idle /\ ~(l < level'[p])
          BY <1>1, <2>1, <3>1, <3>2, <3>4
        <4> QED BY <1>6, <4>1 DEF FrameOK, Guarded, Out
      <3>5. CASE l # k /\ l # k - 1
        <4>1. frame'[p][l] = frame[p][l] /\ (l < level'[p] => l < level[p])
          BY <1>1, <2>1, <2>2, <3>1, <3>2, <3>5
        <4> QED BY <2>1, <4>1 DEF FrameOK, Guarded
      <3> QED BY <3>3, <3>4, <3>5
    <2>3. CASE p # q
      <3>1. frame'[p][l] = frame[p][l] /\ level'[p] = level[p]
        BY <1>4, <2>3 DEF IndInv, TypeOK
      <3> QED BY <2>1, <3>1 DEF FrameOK
    <2> QED BY <2>2, <2>3
  <1> QED BY <1>8, <1>9 DEF IndInv, FrameInv

(* Zones, goroutines and queries stay as they are. *)
LEMMA SameStep ==
    ASSUME IndInv, UNCHANGED <<file, zoneVars, reloadVars, queryVars>>, closing' \in BOOLEAN
    PROVE  IndInv'
  <1>1. UNCHANGED <<file, apex, tree, serial, reload, mu, read, known, notified, level, frame>>
    BY DEF zoneVars, reloadVars, queryVars
  <1>2. TypeOK'
    BY <1>1 DEF IndInv, TypeOK
  <1>3. ReloadInv'
    BY <1>1 DEF IndInv, ReloadInv, ReloadOK
  <1>4. ASSUME NEW q \in Queries, NEW l \in Levels PROVE FrameOK(q, l)'
    BY <1>1 DEF IndInv, FrameInv, FrameOK, Guarded
  <1> QED BY <1>2, <1>3, <1>4 DEF IndInv, FrameInv

(* A zone file is replaced. *)
LEMMA EditStep ==
    ASSUME IndInv, NEW z \in Zones, NEW s \in Serials, NEW state \in {"good", "bad", "missing"},
           Edit(z, s, state)
    PROVE  IndInv'
  <1> DEFINE f == [version |-> file[z].version + 1, serial |-> s, state |-> state]
  <1>1. file[z].version \in Versions /\ f \in File /\ f.version = file[z].version + 1
    BY Bounds DEF Edit, IndInv, TypeOK, File
  <1>2. file' = [file EXCEPT ![z] = f] /\ UNCHANGED <<zoneVars, reloadVars, queryVars, closing>>
    BY DEF Edit
  <1> HIDE DEF f
  <1>3. TypeOK'
    BY <1>1, <1>2 DEF IndInv, TypeOK, zoneVars, reloadVars, queryVars
  <1>4. FrameInv'
    BY <1>2 DEF IndInv, FrameInv, FrameOK, zoneVars, reloadVars, queryVars
  <1>5. ASSUME NEW y \in Zones PROVE ReloadOK(y)'
    <2>1. ReloadOK(y) /\ UNCHANGED <<reload, mu, notified, tree, apex, read>>
      BY <1>2 DEF IndInv, ReloadInv, zoneVars, reloadVars
    <2>2. apex[y] \in Nat /\ read[y].version \in Nat /\ file[y].version \in Nat
      BY Bounds DEF IndInv, TypeOK, File
    <2>3. file'[y].version \in Nat /\ file[y].version <= file'[y].version
      <3>1. CASE y = z
        BY <1>1, <1>2, <2>2, <3>1, SMTT(60) DEF IndInv, TypeOK
      <3>2. CASE y # z
        BY <1>2, <2>2, <3>2, SMTT(60) DEF IndInv, TypeOK
      <3> QED BY <3>1, <3>2
    <2>4. apex[y] <= file'[y].version /\ read[y].version <= file'[y].version
      BY <2>1, <2>2, <2>3, SMTT(60) DEF ReloadOK
    <2> QED BY <2>1, <2>4 DEF ReloadOK
  <1> QED BY <1>3, <1>4, <1>5 DEF IndInv, ReloadInv

(* Every step. *)
LEMMA NextInv == IndInv /\ [Next]_vars => IndInv'
  <1> SUFFICES ASSUME IndInv, [Next]_vars PROVE IndInv'
    OBVIOUS
  <1>1. ASSUME NEW z \in Zones, ReloadNext(z) \/ OnShutdown(z) PROVE IndInv'
    BY <1>1, ReloadStep
  <1>2. ASSUME NEW q \in Queries, QueryNext(q) PROVE IndInv'
    <2>1. CASE Reply(q)
      <3>1. PICK z \in Zones : TRUE
        BY ZoneAssumption
      <3> QED BY <2>1, <3>1, AskStep
    <2>2. CASE Return(q)
      BY <2>2, ReturnStep
    <2>3. CASE \E w \in Zones : AskSelf(q, w)
      BY <2>3, AskSelfStep
    <2> QED BY <1>2, <2>1, <2>2, <2>3, LookupStep DEF QueryNext
  <1>3. ASSUME NEW q \in Queries, NEW z \in Zones, NEW op \in {"Lookup", "All"}, Ask(q, z, op) PROVE IndInv'
    BY <1>3, AskStep
  <1>4. ASSUME NEW z \in Edited, NEW s \in Serials, NEW state \in {"good", "bad", "missing"}, Edit(z, s, state)
        PROVE  IndInv'
    BY <1>4, EditStep, ZoneAssumption
  <1>5. CASE Shutdown
    BY <1>5, SameStep DEF Shutdown
  <1>6. CASE UNCHANGED vars
    <2>1. UNCHANGED <<file, zoneVars, reloadVars, queryVars>> /\ closing' \in BOOLEAN
      BY <1>6 DEF vars, zoneVars, reloadVars, queryVars, IndInv, TypeOK
    <2> QED BY <2>1, SameStep
  <1> QED BY <1>1, <1>2, <1>3, <1>4, <1>5, <1>6 DEF Next

THEOREM Invariance == Spec => []IndInv
  BY InitInv, NextInv, PTL DEF Spec

(* The types, and with them the server's limit on lookups inside lookups:  *)
(* no query is ever deeper than incrementDepthAndCheck allows.             *)
THEOREM TypeCorrect == Spec => []TypeOK
  <1>1. IndInv => TypeOK
    BY DEF IndInv
  <1> QED BY <1>1, Invariance, PTL

(* A lookup or a transfer reads one version of a zone, whatever reloads,   *)
(* re-entrant lookups and slow upstreams come in between, unless the       *)
(* zone's interval is negative.                                            *)
THEOREM ReadersSeeOneVersion == Spec => []OneVersion
  <1>1. IndInv => OneVersion
    <2> SUFFICES ASSUME IndInv, NEW q \in Queries, NEW l \in Levels, NEW v \in Versions, NEW w \in Versions,
                        frame[q][l].zone \notin Reloads \ Locks,
                        v \in frame[q][l].seen, w \in frame[q][l].seen
                 PROVE  v = w
      BY DEF OneVersion
    <2>1. FrameOK(q, l)
      BY DEF IndInv, FrameInv
    <2> QED BY <2>1 DEF FrameOK, Guarded
  <1> QED BY <1>1, Invariance, PTL

(* Notify comes after the swap of Apex and Tree. *)
THEOREM NotifyAfterSwap == Spec => []NotifiedIsServed
  <1>1. IndInv => NotifiedIsServed
    <2> SUFFICES ASSUME IndInv, NEW z \in Zones PROVE notified[z] <= apex[z] /\ notified[z] <= tree[z]
      BY DEF NotifiedIsServed
    <2>1. notified[z] \in Nat /\ apex[z] \in Nat /\ tree[z] \in Nat /\ ReloadOK(z)
      BY Bounds DEF IndInv, TypeOK, ReloadInv
    <2> QED BY <2>1, SMTT(60) DEF ReloadOK
  <1> QED BY <1>1, Invariance, PTL
===============================================================================
