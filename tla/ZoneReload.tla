------------------------------ MODULE ZoneReload ------------------------------
(* Zones that are reloaded while they are served: plugin/file reload.go,   *)
(* shutdown.go and the locking of lookup.go and zone.go, with the lookups  *)
(* that Upstream sends back to the server itself.                          *)
(*                                                                         *)
(* A zone's reload goroutine and the goroutines of the queries share the   *)
(* zone's reloadMu, a sync.RWMutex: Lock waits for the readers inside and, *)
(* from the moment it waits, keeps new readers out.  A query that resolves *)
(* an alias keeps the read lock of its zone while the server looks up the  *)
(* target, one level deeper, perhaps in the same zone.                     *)
(*                                                                         *)
(* A zone file is replaced as a whole; its contents are a version, which   *)
(* has a serial.  Apex and Tree are two fields, read and assigned apart.   *)
EXTENDS Naturals, FiniteSets

CONSTANTS
    Zones,         \* the zones of the file plugin
    Reloads,       \* those whose ReloadInterval is not 0: they are reloaded
    Locks,         \* those of them where it is positive: their readers lock
    Self,          \* those whose Upstream is the server itself
    Targets,       \* [Zones -> SUBSET Zones]: where the aliases of a zone may lead
    Queries,       \* goroutines that serve a query
    Serials,       \* SOA serials
    FirstSerial,   \* the one that the zones are loaded with
    maxreentries,  \* the server's limit of that name: 10 in the source
    Edited,        \* bound: the zones whose files are replaced
    MaxEdits       \* bound: how often a zone file is replaced

ASSUME ZoneAssumption ==
    /\ Zones # {} /\ Reloads \subseteq Zones /\ Locks \subseteq Reloads
    /\ Self \subseteq Zones /\ Edited \subseteq Reloads
    /\ Targets \in [Zones -> SUBSET Zones]
    /\ maxreentries \in Nat /\ MaxEdits \in Nat
    /\ FirstSerial \in Serials

VARIABLES
    file,          \* the zone file of each zone: version, serial and state
    apex, tree,    \* Zone.Apex and Zone.Tree: the version they come from
    serial,        \* the serial in Zone.Apex
    reload,        \* where the zone's reload goroutine is
    mu,            \* Zone.reloadMu, as far as writers are concerned
    read,          \* zone of the reload goroutine: what it read of the file
    known,         \* serial of the reload goroutine, to compare with
    notified,      \* the version of the last Notify
    level,         \* per query: how many lookups are going on, one inside the other
    frame,         \* per query and level: the lookup going on there
    closing        \* the instance is being shut down

vars == <<file, apex, tree, serial, reload, mu, read, known, notified, level, frame, closing>>

zoneVars == <<apex, tree, serial>>
reloadVars == <<reload, mu, read, known, notified>>
queryVars == <<level, frame>>

Versions == 0..MaxEdits
File == [version : Versions, serial : Serials, state : {"good", "bad", "missing"}]

ReloadSteps == {"idle", "File", "Open", "SOASerialIfDefined", "Parse",
                "Apex", "Tree", "Unlock", "Notify", "stopped"}

(* What read and known are while they are not in scope. *)
NoFile == [version |-> 0, serial |-> FirstSerial, state |-> "missing"]
NoSerial == FirstSerial

Levels == 1..(maxreentries + 1)
Steps == {"none", "RLock", "tree", "upstream", "apex", "return"}
Frame == [at : Steps, zone : Zones, op : {"Lookup", "All"}, seen : SUBSET Versions]

(***************************************************************************)
(* The lock                                                                *)
(***************************************************************************)

HoldsUnlessAsking(q, l, z) ==
    z \in Locks /\ frame[q][l].at \notin {"none", "RLock", "upstream"} /\ frame[q][l].zone = z

(* The lookup at level l of q has the read lock of z: until it returns. *)
Holds(q, l, z) == z \in Locks /\ frame[q][l].at \notin {"none", "RLock"} /\ frame[q][l].zone = z

NoReaders(z) == \A q \in Queries, l \in Levels : ~Holds(q, l, z)

MayRLockBeforeWaiting(z) == z \notin Locks \/ mu[z] # "held"

(* RLock returns: no writer holds the lock, and none waits for it.  A zone *)
(* whose interval is not positive takes no lock.                           *)
MayRLock(z) == z \notin Locks \/ mu[z] = "free"

(* Lock returns: the readers that were inside have left. *)
MayLock(z) == mu[z] = "waiting" /\ NoReaders(z)

(***************************************************************************)
(* The reload goroutine                                                    *)
(***************************************************************************)

(* A tick with the interval reached; File asks for the lock. *)
Tick(z) ==
    /\ reload[z] = "idle"
    /\ reload' = [reload EXCEPT ![z] = "File"] /\ mu' = [mu EXCEPT ![z] = "waiting"]
    /\ UNCHANGED <<file, zoneVars, read, known, notified, queryVars, closing>>

ReadFileName(z) ==
    /\ reload[z] = "File" /\ MayLock(z)
    /\ reload' = [reload EXCEPT ![z] = "Open"] /\ mu' = [mu EXCEPT ![z] = "free"]
    /\ UNCHANGED <<file, zoneVars, read, known, notified, queryVars, closing>>

(* A file that is open keeps its contents when another takes its place. *)
Open(z) ==
    /\ reload[z] = "Open" /\ file[z].state # "missing"
    /\ read' = [read EXCEPT ![z] = file[z]]
    /\ reload' = [reload EXCEPT ![z] = "SOASerialIfDefined"]
    /\ mu' = [mu EXCEPT ![z] = "waiting"]
    /\ UNCHANGED <<file, zoneVars, known, notified, queryVars, closing>>

OpenRetries(z) == reload[z] = "Open" /\ file[z].state = "missing" /\ UNCHANGED vars

OpenFails(z) ==
    /\ reload[z] = "Open" /\ file[z].state = "missing"
    /\ reload' = [reload EXCEPT ![z] = "idle"]
    /\ UNCHANGED <<file, zoneVars, mu, read, known, notified, queryVars, closing>>

SOASerialIfDefined(z) ==
    /\ reload[z] = "SOASerialIfDefined" /\ MayLock(z)
    /\ known' = [known EXCEPT ![z] = serial[z]]
    /\ reload' = [reload EXCEPT ![z] = "Parse"] /\ mu' = [mu EXCEPT ![z] = "free"]
    /\ UNCHANGED <<file, zoneVars, read, notified, queryVars, closing>>

ParseNotifies(z) ==
    /\ reload[z] = "Parse"
    /\ read[z].state = "good" /\ read[z].serial # known[z]
    /\ reload' = [reload EXCEPT ![z] = "Apex"] /\ mu' = [mu EXCEPT ![z] = "waiting"]
    /\ notified' = [notified EXCEPT ![z] = read[z].version]
    /\ UNCHANGED <<file, zoneVars, read, known, queryVars, closing>>

(* Parse gives a new zone: the file has no error and another serial. *)
Parse(z) ==
    /\ reload[z] = "Parse"
    /\ read[z].state = "good" /\ read[z].serial # known[z]
    /\ reload' = [reload EXCEPT ![z] = "Apex"] /\ mu' = [mu EXCEPT ![z] = "waiting"]
    /\ UNCHANGED <<file, zoneVars, read, known, notified, queryVars, closing>>

ParseFails(z) ==
    /\ reload[z] = "Parse"
    /\ read[z].state # "good" \/ read[z].serial = known[z]
    /\ reload' = [reload EXCEPT ![z] = "idle"]
    /\ read' = [read EXCEPT ![z] = NoFile] /\ known' = [known EXCEPT ![z] = NoSerial]
    /\ UNCHANGED <<file, zoneVars, mu, notified, queryVars, closing>>

SetApex(z) ==
    /\ reload[z] = "Apex" /\ MayLock(z)
    /\ apex' = [apex EXCEPT ![z] = read[z].version]
    /\ serial' = [serial EXCEPT ![z] = read[z].serial]
    /\ reload' = [reload EXCEPT ![z] = "Tree"] /\ mu' = [mu EXCEPT ![z] = "held"]
    /\ UNCHANGED <<file, tree, read, known, notified, queryVars, closing>>

SetTree(z) ==
    /\ reload[z] = "Tree"
    /\ tree' = [tree EXCEPT ![z] = read[z].version]
    /\ reload' = [reload EXCEPT ![z] = "Unlock"]
    /\ UNCHANGED <<file, apex, serial, mu, read, known, notified, queryVars, closing>>

Unlock(z) ==
    /\ reload[z] = "Unlock"
    /\ reload' = [reload EXCEPT ![z] = "Notify"] /\ mu' = [mu EXCEPT ![z] = "free"]
    /\ UNCHANGED <<file, zoneVars, read, known, notified, queryVars, closing>>

Notify(z) ==
    /\ reload[z] = "Notify"
    /\ notified' = [notified EXCEPT ![z] = read[z].version]
    /\ reload' = [reload EXCEPT ![z] = "idle"]
    /\ read' = [read EXCEPT ![z] = NoFile] /\ known' = [known EXCEPT ![z] = NoSerial]
    /\ UNCHANGED <<file, zoneVars, mu, queryVars, closing>>

(***************************************************************************)
(* Queries: ServeDNS of file, Lookup, All and the server's re-entry        *)
(***************************************************************************)

Idle == [at |-> "none", zone |-> CHOOSE z \in Zones : TRUE, op |-> "Lookup", seen |-> {}]
Begin(z, op) == [at |-> "RLock", zone |-> z, op |-> op, seen |-> {}]

Top(q) == frame[q][level[q]]

(* The lookup of q that is going on takes a step, after reading version v. *)
Proceed(q, at, v) ==
    frame' = [frame EXCEPT ![q][level[q]] =
                 [Top(q) EXCEPT !.at = at, !.seen = Top(q).seen \cup v]]

At(q, step) == level[q] > 0 /\ Top(q).at = step

Ask(q, z, op) ==
    /\ level[q] = 0
    /\ level' = [level EXCEPT ![q] = 1]
    /\ frame' = [frame EXCEPT ![q][1] = Begin(z, op)]
    /\ UNCHANGED <<file, zoneVars, reloadVars, closing>>

(* RLock returns, and Lookup reads the SOA record first, All the tree. *)
RLock(q) ==
    /\ At(q, "RLock") /\ MayRLock(Top(q).zone)
    /\ IF Top(q).op = "Lookup"
       THEN Proceed(q, "tree", {apex[Top(q).zone]})
       ELSE Proceed(q, "apex", {tree[Top(q).zone]})
    /\ UNCHANGED <<file, zoneVars, reloadVars, level, closing>>

(* incrementDepthAndCheck: a lookup at level l may start one inside it. *)
MayReenter(l) == l <= maxreentries

(* The records are in the tree, or there are none. *)
ReadTree(q) ==
    /\ At(q, "tree")
    /\ Proceed(q, "apex", {tree[Top(q).zone]})
    /\ UNCHANGED <<file, zoneVars, reloadVars, level, closing>>

(* externalLookup of an alias that some other server or plugin knows. *)
AskUpstream(q) ==
    /\ At(q, "tree")
    /\ Top(q).zone \in Self => MayReenter(level[q])
    /\ Proceed(q, "upstream", {tree[Top(q).zone]})
    /\ UNCHANGED <<file, zoneVars, reloadVars, level, closing>>

(* The lookup of q waits for an answer from outside, not for one inside it. *)
UpstreamReplies(q) ==
    /\ At(q, "upstream")
    /\ Proceed(q, "apex", {})
    /\ UNCHANGED <<file, zoneVars, reloadVars, level, closing>>

(* externalLookup of an alias that leads to zone w of the server itself. *)
AskSelf(q, w) ==
    /\ At(q, "tree")
    /\ Top(q).zone \in Self /\ w \in Targets[Top(q).zone]
    /\ MayReenter(level[q])
    /\ level' = [level EXCEPT ![q] = level[q] + 1]
    /\ frame' = [frame EXCEPT
           ![q][level[q]] = [Top(q) EXCEPT !.at = "upstream",
                                           !.seen = Top(q).seen \cup {tree[Top(q).zone]}],
           ![q][level[q] + 1] = Begin(w, "Lookup")]
    /\ UNCHANGED <<file, zoneVars, reloadVars, closing>>

TooDeepGoesOn(q) ==
    /\ At(q, "tree")
    /\ Top(q).zone \in Self /\ ~MayReenter(level[q])
    /\ level' = [level EXCEPT ![q] = level[q] + 1]
    /\ Proceed(q, "upstream", {tree[Top(q).zone]})
    /\ UNCHANGED <<file, zoneVars, reloadVars, closing>>

(* The limit: the server refuses any lookup of its own that is deeper. *)
TooDeep(q) ==
    /\ At(q, "tree")
    /\ Top(q).zone \in Self /\ ~MayReenter(level[q])
    /\ Proceed(q, "apex", {tree[Top(q).zone]})
    /\ UNCHANGED <<file, zoneVars, reloadVars, level, closing>>

(* The records of the apex are added last; then RUnlock. *)
ReadApex(q) ==
    /\ At(q, "apex")
    /\ Proceed(q, "return", {apex[Top(q).zone]})
    /\ UNCHANGED <<file, zoneVars, reloadVars, level, closing>>

ReturnAndRedo(q) ==
    /\ At(q, "return") /\ level[q] > 1
    /\ level' = [level EXCEPT ![q] = level[q] - 1]
    /\ frame' = [frame EXCEPT ![q][level[q]] = Idle,
                             ![q][level[q] - 1] = [frame[q][level[q] - 1] EXCEPT !.at = "tree"]]
    /\ UNCHANGED <<file, zoneVars, reloadVars, closing>>

Return(q) ==
    /\ At(q, "return") /\ level[q] > 1
    /\ level' = [level EXCEPT ![q] = level[q] - 1]
    /\ frame' = [frame EXCEPT ![q][level[q]] = Idle,
                             ![q][level[q] - 1] = [frame[q][level[q] - 1] EXCEPT !.at = "apex"]]
    /\ UNCHANGED <<file, zoneVars, reloadVars, closing>>

Reply(q) ==
    /\ At(q, "return") /\ level[q] = 1
    /\ level' = [level EXCEPT ![q] = 0]
    /\ frame' = [frame EXCEPT ![q][1] = Idle]
    /\ UNCHANGED <<file, zoneVars, reloadVars, closing>>

(***************************************************************************)
(* The zone files, and the shutdown of the instance                        *)
(***************************************************************************)

(* A zone file is replaced or removed; the serial is that of a good one. *)
Edit(z, s, state) ==
    /\ file[z].version < MaxEdits
    /\ state # "good" => s = NoSerial
    /\ file' = [file EXCEPT ![z] = [version |-> file[z].version + 1, serial |-> s, state |-> state]]
    /\ UNCHANGED <<zoneVars, reloadVars, queryVars, closing>>

Shutdown ==
    /\ ~closing /\ closing' = TRUE
    /\ UNCHANGED <<file, zoneVars, reloadVars, queryVars>>

(* The send on reloadShutdown, which the goroutine takes between reloads;  *)
(* there is none for an interval that is not positive.                     *)
OnShutdown(z) ==
    /\ closing /\ z \in Locks /\ reload[z] = "idle"
    /\ reload' = [reload EXCEPT ![z] = "stopped"]
    /\ UNCHANGED <<file, zoneVars, mu, read, known, notified, queryVars, closing>>

(***************************************************************************)
(* The specification                                                       *)
(***************************************************************************)

(* The zones are loaded, secondaries are notified and the goroutines run. *)
Init ==
    /\ serial = [z \in Zones |-> FirstSerial]
    /\ file = [z \in Zones |-> [version |-> 0, serial |-> FirstSerial, state |-> "good"]]
    /\ apex = [z \in Zones |-> 0] /\ tree = apex /\ notified = apex
    /\ reload = [z \in Zones |-> IF z \in Reloads THEN "idle" ELSE "stopped"]
    /\ mu = [z \in Zones |-> "free"]
    /\ read = [z \in Zones |-> NoFile] /\ known = [z \in Zones |-> NoSerial]
    /\ level = [q \in Queries |-> 0]
    /\ frame = [q \in Queries |-> [l \in Levels |-> Idle]]
    /\ closing = FALSE

ReloadNext(z) ==
    \/ Tick(z) \/ ReadFileName(z) \/ Open(z) \/ OpenFails(z) \/ SOASerialIfDefined(z)
    \/ Parse(z) \/ ParseFails(z) \/ SetApex(z) \/ SetTree(z) \/ Unlock(z) \/ Notify(z)

QueryNext(q) ==
    \/ RLock(q) \/ ReadTree(q) \/ AskUpstream(q) \/ UpstreamReplies(q)
    \/ \E w \in Zones : AskSelf(q, w)
    \/ TooDeep(q) \/ ReadApex(q) \/ Return(q) \/ Reply(q)

Next ==
    \/ \E z \in Zones : ReloadNext(z) \/ OnShutdown(z)
    \/ \E q \in Queries : QueryNext(q)
    \/ \E q \in Queries, z \in Zones, op \in {"Lookup", "All"} : Ask(q, z, op)
    \/ \E z \in Edited, s \in Serials, state \in {"good", "bad", "missing"} : Edit(z, s, state)
    \/ Shutdown

(* Goroutines run, ticks come, and an upstream answers or times out.  What *)
(* a lock releases it gives to those that wait: Unlock lets the readers in *)
(* that wait before another Lock returns.  A goroutine that waits in its   *)
(* select while a send is pending takes it: select has no favourite.  Each *)
(* zone gets one send, so strong fairness of all is that of each.          *)
Fairness ==
    /\ \A z \in Zones : WF_vars(ReloadNext(z))
    /\ SF_vars(\E z \in Zones : OnShutdown(z))
    /\ \A q \in Queries : SF_vars(QueryNext(q))

Spec == Init /\ [][Next]_vars /\ Fairness

(***************************************************************************)
(* Properties                                                              *)
(***************************************************************************)

(* Every variable has its type; no query is deeper than maxreentries.      *)
TypeOK ==
    /\ file \in [Zones -> File] /\ read \in [Zones -> File]
    /\ apex \in [Zones -> Versions] /\ tree \in [Zones -> Versions]
    /\ serial \in [Zones -> Serials] /\ known \in [Zones -> Serials]
    /\ reload \in [Zones -> ReloadSteps]
    /\ mu \in [Zones -> {"free", "waiting", "held"}]
    /\ notified \in [Zones -> Versions]
    /\ level \in [Queries -> 0..(maxreentries + 1)]
    /\ frame \in [Queries -> [Levels -> Frame]]
    /\ closing \in BOOLEAN

(* What a lookup or an outgoing transfer reads of a zone, its apex at the  *)
(* start, its tree, and its apex again at the end, however long an         *)
(* upstream takes in between, comes from one version of the zone file.     *)
(* Zones with a negative interval are reloaded without their readers'      *)
(* locks, and left out.                                                    *)
OneVersion == \A q \in Queries, l \in Levels, v, w \in Versions :
    /\ frame[q][l].zone \notin Reloads \ Locks
    /\ v \in frame[q][l].seen /\ w \in frame[q][l].seen
    => v = w

(* When secondaries are notified of a version the zone has it: a transfer  *)
(* that one of them asks for cannot get an older one.                      *)
NotifiedIsServed == \A z \in Zones : notified[z] <= apex[z] /\ notified[z] <= tree[z]

(* A good zone file with another serial is served in the end, unless it is *)
(* replaced again or the instance is shut down: no stream of queries keeps *)
(* the reload out.                                                         *)
FileServed == \A z \in Reloads :
    []<>(file[z].serial = serial[z] \/ file[z].state # "good" \/ closing)

(* Every query and every transfer gets its answer, also one that waits for *)
(* the lock of a zone an alias leads to, with the lock of the alias's own  *)
(* zone taken and reloads waiting for either.  This is for zones whose     *)
(* aliases do not lead in a circle: otherwise queries and reloads may wait *)
(* for each other.                                                         *)
QueriesFinish == \A q \in Queries : []<>(level[q] = 0)

(* OnShutdown returns for every zone it has a goroutine to stop of: none   *)
(* is stuck in a reload.                                                   *)
ShutdownFinishes == []<>(closing => \A z \in Locks : reload[z] = "stopped")
===============================================================================
