----------------------------- MODULE Secondary -----------------------------
(***************************************************************************)
(* A secondary zone of the file plugin (secondary.go, notify.go, file.go)  *)
(* as the secondary plugin starts it: one goroutine makes the first        *)
(* transfer and then runs Update; each NOTIFY from a master makes the      *)
(* goroutine that serves it check and transfer too.  Nothing orders these. *)
(* A version of the zone is known by its serial and has Parts envelopes of *)
(* records, the first of which holds the SOA record.                       *)
(***************************************************************************)
EXTENDS Integers, Sequences, SequencesExt

CONSTANTS
    TransferFrom,  \* the masters, in the order they are tried
    Peers,         \* hosts a NOTIFY may come from
    Notifies,      \* goroutines in File.ServeDNS for a NOTIFY
    Updater,       \* the goroutine of startup and Zone.Update
    Faults,        \* Faults[m]: the ways master m may fail
    Parts,         \* envelopes of a transfer
    SerialMod,     \* number of serials, 2^32 in the code
    FirstSerial,   \* the masters' serial at startup
    MaxPublish,    \* bound: new versions the masters may get
    None           \* no SOA record

Masters == Range(TransferFrom)
Actors == Notifies \union {Updater}
Serials == 0 .. SerialMod - 1
Statuses(m) == {"up"} \union Faults[m]
Records == Serials \X (1 .. Parts)

ASSUME MastersAssumption == TransferFrom \in Seq(Masters) /\ Len(TransferFrom) > 0
ASSUME FaultsAssumption == Faults \in [Masters -> SUBSET {"down", "refused"}]
ASSUME PartsAssumption == Parts \in Nat \ {0}
ASSUME SerialAssumption == SerialMod \in Nat \ {0} /\ SerialMod % 2 = 0 /\ FirstSerial \in Serials
ASSUME BoundAssumption == MaxPublish \in Nat
ASSUME NamesAssumption == Updater \notin Notifies /\ None \notin Serials

VARIABLES
    soa,           \* serial of z.Apex.SOA, or None
    tree,          \* the records of z.Tree
    expired,       \* *z.Expired
    retryActive,   \* Update's local of that name
    job,           \* job[a]: what goroutine a is doing in shouldTransfer and TransferIn
    serial,        \* serial[m]: the version master m serves
    status,        \* status[m]: "up", "down" (no connection) or "refused" (another rcode)
    published,     \* versions published so far
    left,          \* history: what transfers that broke off had left in the z1 that went live
    overlapped     \* history: two calls of TransferIn ran at once

zone == <<soa, tree, left, expired>>
world == <<serial, status, published>>
vars == <<soa, tree, left, expired, retryActive, job, serial, status, published, overlapped>>

(* A call of TransferIn that is about to try the first master.  why is who *)
(* called; i the master's index, err that Err is not nil, ver and part the *)
(* transfer in progress, soa and tree the content of z1, and left what the *)
(* masters tried before left there.                                        *)
Transfer(why) ==
    [why |-> why, pc |-> "axfr", i |-> 1, err |-> FALSE, ver |-> None, part |-> 0,
     soa |-> None, tree |-> {}, left |-> {}]

Check(why) == [Transfer(why) EXCEPT !.pc = "soa"]
At(why, pc) == [Transfer(why) EXCEPT !.pc = pc]

Init ==
    /\ soa = None /\ tree = {} /\ left = {} /\ expired = FALSE
    /\ retryActive = FALSE
    /\ job = [a \in Actors |-> IF a = Updater THEN Transfer("startup") ELSE At("notify", "idle")]
    /\ serial = [m \in Masters |-> FirstSerial]
    /\ status \in [Masters -> {"up", "down", "refused"}] /\ \A m \in Masters : status[m] \in Statuses(m)
    /\ published = 0 /\ overlapped = FALSE

-----------------------------------------------------------------------------
(* Serial arithmetic of RFC 1982. *)
MaxSerialIncrement == SerialMod \div 2 - 1

lessPlain(a, b) == a < b

less(a, b) == IF a < b THEN b - a <= MaxSerialIncrement ELSE a - b > MaxSerialIncrement

(* What follows a call for goroutine a: the NOTIFY is served, the startup  *)
(* goes on to Update, Update goes back to its select.                      *)
Return(a) ==
    LET why == job[a].why IN
    job' = [job EXCEPT ![a] = At(why, CASE why = "notify" -> "idle" [] why = "startup" -> "wait" [] OTHER -> "select")]

(* Update: "no errors, stop timers and restart". *)
NoErrors(a) == retryActive' = IF job[a].why \in {"refresh", "retry"} THEN FALSE ELSE retryActive

(* An error of the refresh starts the retries; one of a retry leaves them. *)
ErrorsIgnored(a) == UNCHANGED retryActive

Errors(a) == retryActive' = IF job[a].why = "refresh" THEN TRUE ELSE retryActive

-----------------------------------------------------------------------------
(* shouldTransfer asks the next master, which is not reachable or answers  *)
(* with an error code or without a SOA record; the latter leaves Err nil.  *)
AskFails(a) ==
    /\ job[a].pc = "soa" /\ job[a].i <= Len(TransferFrom)
    /\ status[TransferFrom[job[a].i]] # "up"
    /\ job' = [job EXCEPT ![a] = [job[a] EXCEPT !.i = job[a].i + 1, !.err = status[TransferFrom[job[a].i]] = "down"]]
    /\ UNCHANGED <<zone, retryActive, world, overlapped>>

InTransfer(b) == job[b].pc \in {"axfr", "recv", "tree", "apex", "live"}

(* shouldTransfer gets a master's serial and compares. *)
AskAnswered(a) ==
    LET m == TransferFrom[job[a].i] IN
    /\ job[a].pc = "soa" /\ job[a].i <= Len(TransferFrom)
    /\ status[m] = "up"
    /\ IF soa = None \/ less(soa, serial[m])
       THEN /\ job' = [job EXCEPT ![a] = Transfer(job[a].why)]
            /\ overlapped' = (overlapped \/ \E b \in Actors : InTransfer(b))
            /\ UNCHANGED retryActive
       ELSE Return(a) /\ NoErrors(a) /\ UNCHANGED overlapped
    /\ UNCHANGED <<zone, world>>

(* shouldTransfer got no serial: it returns false and the last Err. *)
AskedAll(a) ==
    /\ job[a].pc = "soa" /\ job[a].i > Len(TransferFrom)
    /\ Return(a)
    /\ IF job[a].err THEN Errors(a) ELSE NoErrors(a)
    /\ UNCHANGED <<zone, world, overlapped>>

-----------------------------------------------------------------------------
(* TransferIn starts a transfer with the next master, or fails to. *)
Setup(a) ==
    LET m == TransferFrom[job[a].i] IN
    /\ job[a].pc = "axfr" /\ job[a].i <= Len(TransferFrom)
    /\ job' = [job EXCEPT ![a] = IF status[m] = "up"
                                 THEN [job[a] EXCEPT !.pc = "recv", !.ver = serial[m]]
                                 ELSE [job[a] EXCEPT !.i = job[a].i + 1, !.err = TRUE]]
    /\ UNCHANGED <<zone, retryActive, world, overlapped>>

(* An envelope arrives; after the last one Err is nil and the loop ends. *)
ReceiveOneMore(a) ==
    LET j == job[a]
        z1 == [j EXCEPT !.soa = j.ver, !.tree = j.tree \union {<<j.ver, j.part + 1>>}]
    IN
    /\ j.pc = "recv"
    /\ job' = [job EXCEPT ![a] = IF j.part < Parts
                                 THEN [z1 EXCEPT !.part = j.part + 1]
                                 ELSE [At(j.why, "tree") EXCEPT !.soa = z1.soa, !.tree = z1.tree, !.left = j.left]]
    /\ UNCHANGED <<zone, retryActive, world, overlapped>>

ReceiveFirstSOA(a) ==
    LET j == job[a]
        z1 == [j EXCEPT !.soa = IF j.soa = None THEN j.ver ELSE j.soa, !.tree = j.tree \union {<<j.ver, j.part + 1>>}]
    IN
    /\ j.pc = "recv"
    /\ job' = [job EXCEPT ![a] = IF j.part + 1 < Parts
                                 THEN [z1 EXCEPT !.part = j.part + 1]
                                 ELSE [At(j.why, "tree") EXCEPT !.soa = z1.soa, !.tree = z1.tree, !.left = j.left]]
    /\ UNCHANGED <<zone, retryActive, world, overlapped>>

Receive(a) ==
    LET j == job[a]
        z1 == [j EXCEPT !.soa = j.ver, !.tree = j.tree \union {<<j.ver, j.part + 1>>}]
    IN
    /\ j.pc = "recv"
    /\ job' = [job EXCEPT ![a] = IF j.part + 1 < Parts
                                 THEN [z1 EXCEPT !.part = j.part + 1]
                                 ELSE [At(j.why, "tree") EXCEPT !.soa = z1.soa, !.tree = z1.tree, !.left = j.left]]
    /\ UNCHANGED <<zone, retryActive, world, overlapped>>

(* The transfer breaks off or a record is refused: TransferIn goes on to   *)
(* the next master with the z1 it has.                                     *)
BrokenErrLost(a) ==
    /\ job[a].pc = "recv" /\ status[TransferFrom[job[a].i]] # "up"
    /\ job' = [job EXCEPT ![a] = [job[a] EXCEPT !.pc = "axfr", !.i = job[a].i + 1, !.ver = None, !.part = 0,
                                                   !.left = job[a].tree]]
    /\ UNCHANGED <<zone, retryActive, world, overlapped>>

Broken(a) ==
    /\ job[a].pc = "recv" /\ status[TransferFrom[job[a].i]] # "up"
    /\ job' = [job EXCEPT ![a] = [job[a] EXCEPT !.pc = "axfr", !.i = job[a].i + 1, !.err = TRUE, !.ver = None, !.part = 0,
                                                   !.left = job[a].tree]]
    /\ UNCHANGED <<zone, retryActive, world, overlapped>>

(* All masters are tried: TransferIn returns Err, or installs z1 if Err is *)
(* nil.                                                                    *)
TriedAll(a) ==
    /\ job[a].pc = "axfr" /\ job[a].i > Len(TransferFrom)
    /\ IF job[a].err THEN Return(a) /\ Errors(a)
                     ELSE job' = [job EXCEPT ![a] = [job[a] EXCEPT !.pc = "tree"]] /\ UNCHANGED retryActive
    /\ UNCHANGED <<zone, world, overlapped>>

(* TransferIn sets the zone live, field by field and without a lock. *)
SetTree(a) ==
    /\ job[a].pc = "tree"
    /\ tree' = job[a].tree /\ left' = job[a].left
    /\ job' = [job EXCEPT ![a] = [job[a] EXCEPT !.pc = "apex", !.tree = {}, !.left = {}]]
    /\ UNCHANGED <<soa, expired, retryActive, world, overlapped>>

SetApex(a) ==
    /\ job[a].pc = "apex"
    /\ soa' = job[a].soa
    /\ job' = [job EXCEPT ![a] = [job[a] EXCEPT !.pc = "live", !.soa = None]]
    /\ UNCHANGED <<tree, left, expired, retryActive, world, overlapped>>

SetExpired(a) ==
    /\ job[a].pc = "live"
    /\ expired' = FALSE
    /\ Return(a) /\ NoErrors(a)
    /\ UNCHANGED <<soa, tree, left, world, overlapped>>

CallStep(a) ==
    \/ AskFails(a) \/ AskAnswered(a) \/ AskedAll(a)
    \/ Setup(a) \/ Receive(a) \/ Broken(a) \/ TriedAll(a)
    \/ SetTree(a) \/ SetApex(a) \/ SetExpired(a)

-----------------------------------------------------------------------------
(* Update waits for the zone to have a SOA record. *)
Appear ==
    /\ job[Updater].pc = "wait" /\ soa # None
    /\ job' = [job EXCEPT ![Updater] = [job[Updater] EXCEPT !.pc = "select"]]
    /\ UNCHANGED <<zone, retryActive, world, overlapped>>

(* The tickers of Update's select. *)
RefreshTick ==
    /\ job[Updater].pc = "select"
    /\ job' = [job EXCEPT ![Updater] = Check("refresh")]
    /\ UNCHANGED <<zone, retryActive, world, overlapped>>

RetryTick ==
    /\ job[Updater].pc = "select" /\ retryActive
    /\ job' = [job EXCEPT ![Updater] = Check("retry")]
    /\ UNCHANGED <<zone, retryActive, world, overlapped>>

ExpireTick ==
    /\ job[Updater].pc = "select" /\ retryActive
    /\ expired' = TRUE
    /\ UNCHANGED <<soa, tree, left, retryActive, job, world, overlapped>>

(* ServeDNS gets a NOTIFY; one that is not from a master is dropped. *)
isNotify(peer) == peer \in Masters

Notify(n) ==
    /\ job[n].pc = "idle"
    /\ \E peer \in Peers : isNotify(peer)
    /\ job' = [job EXCEPT ![n] = Check("notify")]
    /\ UNCHANGED <<zone, retryActive, world, overlapped>>

-----------------------------------------------------------------------------
(* The masters: they get new versions, and come and go. *)
Publish(m) ==
    /\ published < MaxPublish
    /\ published' = published + 1
    /\ serial' = [serial EXCEPT ![m] = (@ + 1) % SerialMod]
    /\ UNCHANGED <<zone, retryActive, job, status, overlapped>>

Flip(m) ==
    /\ \E s \in Statuses(m) \ {status[m]} : status' = [status EXCEPT ![m] = s]
    /\ UNCHANGED <<zone, retryActive, job, serial, published, overlapped>>

UpdateStep == Appear \/ RefreshTick \/ RetryTick \/ ExpireTick

Next ==
    \/ \E a \in Actors : CallStep(a)
    \/ UpdateStep
    \/ \E n \in Notifies : Notify(n)
    \/ \E m \in Masters : Publish(m) \/ Flip(m)

Spec == Init /\ [][Next]_vars

(* A call runs on, Update sees the zone appear, and every ticker that has  *)
(* fired waits in its channel until select picks it (SF).  Masters need    *)
(* neither come back nor send a NOTIFY.                                    *)
FairSpec ==
    /\ Spec
    /\ \A a \in Actors : WF_vars(CallStep(a))
    /\ WF_vars(Appear) /\ SF_vars(RefreshTick) /\ SF_vars(RetryTick) /\ SF_vars(ExpireTick)

-----------------------------------------------------------------------------
Jobs == [why : {"startup", "refresh", "retry", "notify"},
         pc : {"idle", "wait", "select", "soa", "axfr", "recv", "tree", "apex", "live"},
         i : 1 .. Len(TransferFrom) + 1, err : BOOLEAN, ver : Serials \union {None}, part : 0 .. Parts,
         soa : Serials \union {None}, tree : SUBSET Records, left : SUBSET Records]

(* Every variable has its type. *)
TypeOK ==
    /\ soa \in Serials \union {None} /\ tree \subseteq Records /\ left \subseteq Records /\ expired \in BOOLEAN
    /\ retryActive \in BOOLEAN
    /\ job \in [Actors -> Jobs]
    /\ serial \in [Masters -> Serials]
    /\ status \in [Masters -> {"up", "down", "refused"}]
    /\ published \in 0 .. MaxPublish /\ overlapped \in BOOLEAN

Version(v) == {v} \X (1 .. Parts)

(* The zone is not being set live. *)
Settled == \A a \in Actors : job[a].pc \notin {"apex", "live"}

(* What TransferIn sets live is one complete version and nothing else but  *)
(* what the transfers that broke off in the same call left in z1, which    *)
(* the next master's records are added to: an incomplete version is never  *)
(* live on its own, whatever breaks and whichever goroutines transfer at   *)
(* once.                                                                   *)
LiveIsComplete == tree = {} \/ \E v \in Serials : tree = Version(v) \union left

(* The zone answers with the serial of data it has: once TransferIn is     *)
(* done, the tree is the version the SOA record names, never the one of a  *)
(* master that broke off, with nothing else but that master's leftovers,   *)
(* unless Update and a NOTIFY, or two of those, have been transferring at  *)
(* once.                                                                   *)
DataForSOA == Settled /\ ~overlapped /\ soa # None => tree = Version(soa) \union left

(* b is at most half the serials ahead of a. *)
Newer(a, b) == (b - a) % SerialMod \in 1 .. MaxSerialIncrement

(* A zone that has been loaded follows its first master: if in the end the *)
(* masters answer, the zone's serial catches up, over a wrap-around too.   *)
(* It need not be served: a zone that expired while the masters were away  *)
(* stays expired until a newer version is transferred.                     *)
Converges ==
    <>[](\A m \in Masters : status[m] = "up")
        => <>[](soa # None => ~Newer(soa, serial[TransferFrom[1]]))

(* "If the zone failed to transfer before the expire, the zone will be     *)
(* marked expired": so it is when the masters stay out of reach.           *)
UnreachableExpires ==
    <>[](\A m \in Masters : status[m] = "down") => <>[](soa # None => expired)

(* The same when the masters answer, but only with errors: "If that fails  *)
(* (for all server) it will retry every retry interval".                   *)
FailingExpires ==
    <>[](\A m \in Masters : status[m] # "up") => <>[](soa # None => expired)
=============================================================================
