-------------------------- MODULE SecondaryProofs --------------------------
(***************************************************************************)
(* Proofs about Secondary, for any masters, any number of NOTIFYs at once, *)
(* any size of a zone and any width of the serials.                        *)
(***************************************************************************)
EXTENDS Secondary, TLAPS

(* What a goroutine in TransferIn has: while it goes from master to master *)
(* Err is set, z1 holds the envelopes received of the current version and  *)
(* what broken transfers left, and what it sets live is complete.          *)
JobOK(j) ==
    /\ j.pc = "axfr" => (j.i = 1 \/ j.err) /\ j.part = 0 /\ j.tree = j.left
    /\ j.pc = "recv" => /\ j.i <= Len(TransferFrom) /\ j.ver \in Serials /\ j.part < Parts
                        /\ j.tree = ({j.ver} \X (1 .. j.part)) \union j.left
    /\ j.pc = "tree" => j.soa \in Serials /\ j.tree = Version(j.soa) \union j.left
    /\ j.pc = "apex" => j.soa \in Serials

JobsOK == \A a \in Actors : JobOK(job[a])

(* Unless transfers overlapped only one goroutine is in TransferIn, and    *)
(* the data of the zone is that of its SOA record, or of the one about to  *)
(* be set.                                                                 *)
OneTransfer == ~overlapped => \A a, b \in Actors : InTransfer(a) /\ InTransfer(b) => a = b

ApexData ==
    ~overlapped =>
        /\ \A a \in Actors : job[a].pc = "apex" => tree = Version(job[a].soa) \union left
        /\ (\A a \in Actors : job[a].pc # "apex") /\ soa # None => tree = Version(soa) \union left

IndInv == TypeOK /\ JobsOK /\ LiveIsComplete /\ OneTransfer /\ ApexData

-----------------------------------------------------------------------------
(* Of two different serials one is less than the other, and not both: two  *)
(* servers never each take the other's zone for newer (less in             *)
(* secondary.go), whatever the width.                                      *)
THEOREM LessIsTotal ==
    \A a, b \in Serials : a # b => (less(a, b) <=> ~less(b, a))
BY SerialAssumption DEF Serials, less, MaxSerialIncrement

-----------------------------------------------------------------------------
Whys == {"startup", "refresh", "retry", "notify"}
Pcs == {"idle", "wait", "select", "soa", "axfr", "recv", "tree", "apex", "live"}
Resting == {"idle", "wait", "select", "soa", "axfr"}

LEMMA Constants ==
    /\ 1 \in 1 .. Len(TransferFrom) + 1 /\ 0 \in 0 .. Parts /\ Len(TransferFrom) \in Nat
    /\ \A k \in 1 .. Len(TransferFrom) : TransferFrom[k] \in Masters
    /\ Updater \in Actors /\ Notifies \subseteq Actors
<1>1. Len(TransferFrom) \in Nat /\ \A k \in 1 .. Len(TransferFrom) : TransferFrom[k] \in Masters
  BY MastersAssumption
<1>2. QED
  BY <1>1, PartsAssumption DEF Actors

(* A call that has just begun, and one that has returned. *)
LEMMA AtType ==
    ASSUME NEW why \in Whys, NEW pc \in Pcs
    PROVE  /\ At(why, pc) \in Jobs
           /\ At(why, pc).pc = pc /\ At(why, pc).i = 1 /\ At(why, pc).why = why
           /\ At(why, pc).part = 0 /\ At(why, pc).tree = {} /\ At(why, pc).left = {}
<1>1. Transfer(why) \in Jobs
  BY Constants, ZenonT(60) DEF Transfer, Jobs, Whys
<1>2. At(why, pc) \in Jobs
  BY <1>1, ZenonT(60) DEF At, Jobs, Pcs
<1>3. /\ At(why, pc).pc = pc /\ At(why, pc).i = 1 /\ At(why, pc).why = why
      /\ At(why, pc).part = 0 /\ At(why, pc).tree = {} /\ At(why, pc).left = {}
  BY ZenonT(60) DEF At, Transfer
<1>4. QED
  BY <1>2, <1>3

LEMMA AtOK ==
    ASSUME NEW why \in Whys, NEW pc \in Resting
    PROVE  At(why, pc) \in Jobs /\ JobOK(At(why, pc)) /\ At(why, pc).pc = pc
<1>1. pc \in Pcs /\ pc \notin {"recv", "tree", "apex"}
  BY DEF Resting, Pcs
<1>2. /\ At(why, pc) \in Jobs
      /\ At(why, pc).pc = pc /\ At(why, pc).i = 1 /\ At(why, pc).why = why
      /\ At(why, pc).part = 0 /\ At(why, pc).tree = {} /\ At(why, pc).left = {}
  BY <1>1, AtType, ZenonT(60)
<1>3. At(why, pc).tree = At(why, pc).left
  BY <1>2, ZenonT(60)
<1>4. JobOK(At(why, pc))
  BY <1>1, <1>2, <1>3, ZenonT(60) DEF JobOK
<1>5. QED
  BY <1>2, <1>4

LEMMA TransferOK ==
    ASSUME NEW why \in Whys
    PROVE  Transfer(why) \in Jobs /\ JobOK(Transfer(why)) /\ Transfer(why).pc = "axfr"
<1>1. Transfer(why) \in Jobs
  BY Constants, ZenonT(60) DEF Transfer, Jobs, Whys
<1>2. Transfer(why).pc = "axfr" /\ Transfer(why).i = 1 /\ Transfer(why).part = 0
      /\ Transfer(why).tree = Transfer(why).left
  BY ZenonT(60) DEF Transfer
<1>3. QED
  BY <1>1, <1>2 DEF JobOK

LEMMA CheckOK ==
    ASSUME NEW why \in Whys
    PROVE  Check(why) \in Jobs /\ JobOK(Check(why)) /\ Check(why).pc = "soa"
<1>1. Check(why) = At(why, "soa")
  BY DEF Check, At
<1>2. "soa" \in Resting
  BY DEF Resting
<1>3. QED
  BY <1>1, <1>2, AtOK

LEMMA JobFields ==
    ASSUME TypeOK, NEW a \in Actors
    PROVE  /\ job[a] \in Jobs /\ job[a].why \in Whys /\ job[a].pc \in Pcs
           /\ job[a].i \in 1 .. Len(TransferFrom) + 1 /\ job[a].err \in BOOLEAN
           /\ job[a].ver \in Serials \union {None} /\ job[a].part \in 0 .. Parts
           /\ job[a].soa \in Serials \union {None} /\ job[a].tree \in SUBSET Records
           /\ job[a].left \in SUBSET Records
<1>1. job[a] \in Jobs
  BY DEF TypeOK
<1>2. QED
  BY <1>1, ZenonT(60) DEF Jobs, Whys, Pcs

-----------------------------------------------------------------------------
(* A step of goroutine a that leaves the live zone's data alone. *)
LEMMA LocalStep ==
    ASSUME IndInv, NEW a \in Actors, NEW j \in Jobs, JobOK(j),
           job' = [job EXCEPT ![a] = j],
           job[a].pc # "apex", j.pc # "apex",
           UNCHANGED <<soa, tree, left, serial, status, published>>,
           retryActive' \in BOOLEAN, expired' \in BOOLEAN, overlapped' \in BOOLEAN,
           overlapped => overlapped',
           j.pc \in {"axfr", "recv", "tree", "apex", "live"} =>
               InTransfer(a) \/ overlapped' \/ \A b \in Actors : ~InTransfer(b)
    PROVE  IndInv'
<1>1. job'[a] = j /\ \A b \in Actors \ {a} : job'[b] = job[b]
  BY DEF IndInv, TypeOK
<1>2. TypeOK'
  BY DEF IndInv, TypeOK
<1>3. JobsOK'
  BY <1>1 DEF IndInv, JobsOK, JobOK
<1>4. LiveIsComplete'
  BY DEF IndInv, LiveIsComplete
<1>5. OneTransfer'
  BY <1>1 DEF IndInv, OneTransfer, InTransfer
<1>6. ApexData'
  BY <1>1 DEF IndInv, ApexData
<1>7. QED
  BY <1>2, <1>3, <1>4, <1>5, <1>6 DEF IndInv

LEMMA ReturnStep ==
    ASSUME IndInv, NEW a \in Actors, Return(a), job[a].pc # "apex",
           UNCHANGED <<soa, tree, left, serial, status, published, overlapped>>,
           retryActive' \in BOOLEAN, expired' \in BOOLEAN
    PROVE  IndInv'
<1>1. PICK pc \in {"idle", "wait", "select"} : job' = [job EXCEPT ![a] = At(job[a].why, pc)]
  BY DEF Return
<1>2. pc \in Resting /\ pc \notin {"axfr", "recv", "tree", "apex", "live"}
  BY DEF Resting
<1>3. job[a].why \in Whys
  BY JobFields DEF IndInv
<1>4. /\ At(job[a].why, pc) \in Jobs /\ JobOK(At(job[a].why, pc))
      /\ At(job[a].why, pc).pc = pc
  BY <1>2, <1>3, AtOK
<1>5. overlapped' \in BOOLEAN /\ (overlapped => overlapped')
  BY DEF IndInv, TypeOK
<1>6. QED
  BY <1>1, <1>2, <1>4, <1>5, LocalStep

LEMMA RetryType ==
    ASSUME TypeOK, NEW a \in Actors, NoErrors(a) \/ Errors(a)
    PROVE  retryActive' \in BOOLEAN
BY DEF TypeOK, NoErrors, Errors

LEMMA SameType ==
    ASSUME IndInv, UNCHANGED <<retryActive, expired, overlapped>>
    PROVE  /\ retryActive' \in BOOLEAN /\ expired' \in BOOLEAN /\ overlapped' \in BOOLEAN
           /\ overlapped => overlapped'
BY DEF IndInv, TypeOK

-----------------------------------------------------------------------------
LEMMA AskStep ==
    ASSUME IndInv, NEW a \in Actors, AskFails(a) \/ AskAnswered(a) \/ AskedAll(a)
    PROVE  IndInv'
<1>0. TypeOK
  BY DEF IndInv
<1>1. CASE AskFails(a)
  <2> DEFINE e == status[TransferFrom[job[a].i]] = "down"
             j == [job[a] EXCEPT !.i = job[a].i + 1, !.err = e]
  <2>1. job' = [job EXCEPT ![a] = j] /\ job[a].pc = "soa"
    BY <1>1 DEF AskFails
  <2>2. job[a].i + 1 \in 1 .. Len(TransferFrom) + 1
    BY <1>0, <1>1, JobFields, Constants DEF AskFails
  <2>3. j \in Jobs
    BY <1>0, <2>2, JobFields, ZenonT(60) DEF Jobs
  <2>4. j.pc = "soa"
    BY <1>0, <2>1, JobFields, ZenonT(60) DEF Jobs
  <2>5. JobOK(j)
    BY <2>4 DEF JobOK
  <2>6. UNCHANGED <<soa, tree, left, serial, status, published, retryActive, expired, overlapped>>
    BY <1>1 DEF AskFails, zone, world
  <2>7. QED
    BY <2>1, <2>3, <2>4, <2>5, <2>6, SameType, LocalStep
<1>2. CASE AskAnswered(a)
  <2>0. job[a].pc = "soa" /\ UNCHANGED <<soa, tree, left, expired, serial, status, published>>
    BY <1>2 DEF AskAnswered, zone, world
  <2>1. CASE job' = [job EXCEPT ![a] = Transfer(job[a].why)]
             /\ overlapped' = (overlapped \/ \E b \in Actors : InTransfer(b))
             /\ UNCHANGED retryActive
    <3>1. Transfer(job[a].why) \in Jobs /\ JobOK(Transfer(job[a].why)) /\ Transfer(job[a].why).pc = "axfr"
      BY <1>0, JobFields, TransferOK
    <3>2. overlapped' \in BOOLEAN
      BY <2>1, ZenonT(60)
    <3>3. (overlapped => overlapped') /\ (overlapped' \/ \A b \in Actors : ~InTransfer(b))
      BY <2>1, ZenonT(60)
    <3>4. retryActive' \in BOOLEAN /\ expired' \in BOOLEAN
      BY <1>0, <2>0, <2>1 DEF TypeOK
    <3>5. QED
      BY <2>0, <2>1, <3>1, <3>2, <3>3, <3>4, LocalStep
  <2>2. CASE Return(a) /\ NoErrors(a) /\ UNCHANGED overlapped
    <3>1. retryActive' \in BOOLEAN /\ expired' \in BOOLEAN
      BY <1>0, <2>0, <2>2, RetryType DEF TypeOK
    <3>2. QED
      BY <2>0, <2>2, <3>1, ReturnStep
  <2>3. QED
    BY <1>2, <2>1, <2>2 DEF AskAnswered
<1>3. CASE AskedAll(a)
  <2>1. retryActive' \in BOOLEAN
    BY <1>0, <1>3, RetryType DEF AskedAll
  <2>2. expired' \in BOOLEAN
    BY <1>0, <1>3 DEF AskedAll, zone, TypeOK
  <2>3. QED
    BY <1>3, <2>1, <2>2, ReturnStep DEF AskedAll, zone, world
<1>4. QED
  BY <1>1, <1>2, <1>3

-----------------------------------------------------------------------------
LEMMA SetupStep ==
    ASSUME IndInv, NEW a \in Actors, Setup(a)
    PROVE  IndInv'
<1> DEFINE m == TransferFrom[job[a].i]
           j1 == [job[a] EXCEPT !.pc = "recv", !.ver = serial[m]]
           j2 == [job[a] EXCEPT !.i = job[a].i + 1, !.err = TRUE]
<1>0. TypeOK /\ JobOK(job[a]) /\ job[a] \in Jobs /\ job[a].pc = "axfr" /\ InTransfer(a)
  BY JobFields DEF IndInv, JobsOK, Setup, InTransfer
<1>1. job[a].i <= Len(TransferFrom) /\ job[a].i + 1 \in 1 .. Len(TransferFrom) + 1 /\ m \in Masters
  BY <1>0, JobFields, Constants DEF Setup
<1>2. UNCHANGED <<soa, tree, left, serial, status, published, retryActive, expired, overlapped>>
  BY DEF Setup, zone, world
<1>3. CASE job' = [job EXCEPT ![a] = j1]
  <2>0. serial[m] \in Serials /\ "recv" \in Pcs
    BY <1>0, <1>1 DEF TypeOK, Pcs
  <2>1. j1 \in Jobs
    BY <1>0, <2>0, ZenonT(60) DEF Jobs, Pcs
  <2>2. j1.pc = "recv" /\ j1.ver = serial[m] /\ j1.part = job[a].part /\ j1.i = job[a].i
        /\ j1.tree = job[a].tree /\ j1.left = job[a].left
    BY <1>0, ZenonT(60) DEF Jobs
  <2>3. j1.part = 0 /\ j1.tree = j1.left
    BY <1>0, <2>2 DEF JobOK
  <2>4. j1.tree = ({j1.ver} \X (1 .. j1.part)) \union j1.left
    BY <2>3
  <2>5. JobOK(j1)
    BY <1>1, <2>0, <2>2, <2>3, <2>4, PartsAssumption DEF JobOK
  <2>6. QED
    BY <1>0, <1>2, <1>3, <2>1, <2>2, <2>5, SameType, LocalStep
<1>4. CASE job' = [job EXCEPT ![a] = j2]
  <2>1. j2 \in Jobs
    BY <1>0, <1>1, ZenonT(60) DEF Jobs
  <2>2. j2.pc = "axfr" /\ j2.err /\ j2.part = job[a].part
        /\ j2.tree = job[a].tree /\ j2.left = job[a].left
    BY <1>0, ZenonT(60) DEF Jobs
  <2>3. JobOK(j2)
    BY <1>0, <2>2 DEF JobOK
  <2>4. QED
    BY <1>0, <1>2, <1>4, <2>1, <2>2, <2>3, SameType, LocalStep
<1>5. QED
  BY <1>3, <1>4, ZenonT(60) DEF Setup

LEMMA ReceiveStep ==
    ASSUME IndInv, NEW a \in Actors, Receive(a)
    PROVE  IndInv'
<1> DEFINE j == job[a]
           t == j.tree \union {<<j.ver, j.part + 1>>}
           z1 == [j EXCEPT !.soa = j.ver, !.tree = t]
           more == [z1 EXCEPT !.part = j.part + 1]
           last == [At(j.why, "tree") EXCEPT !.soa = z1.soa, !.tree = z1.tree, !.left = j.left]
<1>0. TypeOK /\ JobOK(j) /\ j \in Jobs /\ j.pc = "recv" /\ InTransfer(a)
  BY JobFields DEF IndInv, JobsOK, Receive, InTransfer
<1>1. j.ver \in Serials /\ j.part \in Nat /\ j.part + 1 \in 1 .. Parts
      /\ j.tree = ({j.ver} \X (1 .. j.part)) \union j.left
  BY <1>0, JobFields, PartsAssumption DEF JobOK
<1>2. t \in SUBSET Records
  BY <1>0, <1>1, JobFields DEF Records
<1>3. t = ({j.ver} \X (1 .. j.part + 1)) \union j.left
  <2>1. 1 .. j.part + 1 = (1 .. j.part) \union {j.part + 1}
    BY <1>1
  <2>2. {j.ver} \X (1 .. j.part + 1) = ({j.ver} \X (1 .. j.part)) \union {<<j.ver, j.part + 1>>}
    BY <2>1
  <2>3. QED
    BY <1>1, <2>2
<1>4. z1 \in Jobs /\ z1.soa = j.ver /\ z1.tree = t /\ z1.pc = "recv" /\ z1.ver = j.ver /\ z1.i = j.i
      /\ z1.left = j.left
  BY <1>0, <1>1, <1>2, ZenonT(60) DEF Jobs
<1>5. UNCHANGED <<soa, tree, left, serial, status, published, retryActive, expired, overlapped>>
  BY DEF Receive, zone, world
<1>6. CASE j.part + 1 < Parts
  <2>1. job' = [job EXCEPT ![a] = more]
    BY <1>6 DEF Receive
  <2>2. j.part + 1 \in 0 .. Parts
    BY <1>1, PartsAssumption
  <2>3. more \in Jobs /\ more.pc = "recv" /\ more.ver = j.ver /\ more.part = j.part + 1
        /\ more.tree = t /\ more.i = j.i /\ more.left = j.left
    BY <1>4, <2>2, ZenonT(60) DEF Jobs
  <2>4. JobOK(more)
    BY <1>0, <1>1, <1>3, <1>6, <2>3 DEF JobOK
  <2>5. QED
    BY <1>0, <1>5, <2>1, <2>3, <2>4, SameType, LocalStep
<1>7. CASE ~(j.part + 1 < Parts)
  <2>1. job' = [job EXCEPT ![a] = last]
    BY <1>7 DEF Receive
  <2>2. "tree" \in Pcs /\ j.why \in Whys
    BY <1>0, JobFields DEF Pcs
  <2>3. At(j.why, "tree") \in Jobs /\ At(j.why, "tree").pc = "tree"
    BY <2>2, AtType
  <2>4. last \in Jobs /\ last.pc = "tree" /\ last.soa = j.ver /\ last.tree = t /\ last.left = j.left
    BY <1>0, <1>1, <1>2, <1>4, <2>3, JobFields, ZenonT(60) DEF Jobs
  <2>5. j.part + 1 = Parts
    BY <1>1, <1>7, PartsAssumption
  <2>6. JobOK(last)
    BY <1>1, <1>3, <2>4, <2>5 DEF JobOK, Version
  <2>7. QED
    BY <1>0, <1>5, <2>1, <2>4, <2>6, SameType, LocalStep
<1>8. QED
  BY <1>6, <1>7

LEMMA BrokenStep ==
    ASSUME IndInv, NEW a \in Actors, Broken(a)
    PROVE  IndInv'
<1> DEFINE j == [job[a] EXCEPT !.pc = "axfr", !.i = job[a].i + 1, !.err = TRUE, !.ver = None, !.part = 0,
                            !.left = job[a].tree]
<1>0. /\ TypeOK /\ job[a] \in Jobs /\ job[a].pc = "recv" /\ InTransfer(a) /\ job' = [job EXCEPT ![a] = j]
      /\ job[a].tree \in SUBSET Records
  BY JobFields DEF IndInv, Broken, InTransfer
<1>1. UNCHANGED <<soa, tree, left, serial, status, published, retryActive, expired, overlapped>>
  BY DEF Broken, zone, world
<1>2. job[a].i + 1 \in 1 .. Len(TransferFrom) + 1
  BY <1>0, JobFields, Constants DEF IndInv, JobsOK, JobOK
<1>3. j \in Jobs
  BY <1>0, <1>2, Constants, ZenonT(60) DEF Jobs
<1>4. j.pc = "axfr" /\ j.err /\ j.part = 0 /\ j.tree = j.left
  BY <1>0, ZenonT(60) DEF Jobs
<1>5. JobOK(j)
  BY <1>4 DEF JobOK
<1>6. QED
  BY <1>0, <1>1, <1>3, <1>4, <1>5, SameType, LocalStep

(* All masters failed, so Err is set. *)
LEMMA TriedAllStep ==
    ASSUME IndInv, NEW a \in Actors, TriedAll(a)
    PROVE  IndInv'
<1>1. TypeOK /\ job[a].pc = "axfr" /\ UNCHANGED <<soa, tree, left, expired, serial, status, published, overlapped>>
  BY DEF IndInv, TriedAll, zone, world
<1>2. job[a].err
  BY MastersAssumption, Constants DEF IndInv, JobsOK, JobOK, TriedAll
<1>3. Return(a) /\ Errors(a)
  BY <1>2 DEF TriedAll
<1>4. retryActive' \in BOOLEAN /\ expired' \in BOOLEAN
  BY <1>1, <1>3, RetryType DEF TypeOK
<1>5. QED
  BY <1>1, <1>3, <1>4, ReturnStep

-----------------------------------------------------------------------------
(* Setting the zone live. *)
LEMMA SetTreeStep ==
    ASSUME IndInv, NEW a \in Actors, SetTree(a)
    PROVE  IndInv'
<1> DEFINE j == [job[a] EXCEPT !.pc = "apex", !.tree = {}, !.left = {}]
<1>0. TypeOK /\ job[a] \in Jobs /\ job[a].pc = "tree" /\ InTransfer(a) /\ tree' = job[a].tree /\ left' = job[a].left
      /\ job' = [job EXCEPT ![a] = j] /\ job[a].tree \in SUBSET Records /\ job[a].left \in SUBSET Records
      /\ UNCHANGED <<soa, expired, retryActive, serial, status, published, overlapped>>
  BY JobFields DEF IndInv, SetTree, InTransfer, world
<1>1. job[a].soa \in Serials /\ job[a].tree = Version(job[a].soa) \union job[a].left
  BY <1>0 DEF IndInv, JobsOK, JobOK
<1>2. j \in Jobs
  BY <1>0, ZenonT(60) DEF Jobs, Records
<1>3. j.pc = "apex" /\ j.soa = job[a].soa
  BY <1>0, ZenonT(60) DEF Jobs
<1>4. job'[a] = j /\ \A b \in Actors \ {a} : job'[b] = job[b]
  BY <1>0 DEF TypeOK
<1>5. TypeOK'
  BY <1>0, <1>2 DEF TypeOK
<1>6. JobsOK'
  <2>1. JobOK(j)
    BY <1>1, <1>3, ZenonT(60) DEF JobOK
  <2>2. \A b \in Actors : JobOK(job[b])
    BY DEF IndInv, JobsOK
  <2>3. \A b \in Actors : JobOK(job'[b])
    BY <1>4, <2>1, <2>2, ZenonT(60)
  <2>4. QED
    BY <2>3, ZenonT(60) DEF JobsOK, JobOK, Version
<1>7. LiveIsComplete'
  BY <1>0, <1>1 DEF LiveIsComplete
<1>8. OneTransfer'
  BY <1>0, <1>4 DEF IndInv, OneTransfer, InTransfer
<1>9. ApexData'
  <2> SUFFICES ASSUME ~overlapped PROVE ApexData'
    BY <1>0 DEF ApexData
  <2>1. \A b \in Actors : job'[b].pc = "apex" => b = a
    BY <1>0, <1>4 DEF IndInv, OneTransfer, InTransfer
  <2>2. tree' = Version(job[a].soa) \union left'
    BY <1>0, <1>1, ZenonT(60)
  <2>3. \A b \in Actors : job'[b].pc = "apex" => tree' = Version(job'[b].soa) \union left'
    BY <1>3, <1>4, <2>1, <2>2, ZenonT(60)
  <2>4. job'[a].pc = "apex"
    BY <1>3, <1>4, ZenonT(60)
  <2>5. QED
    BY <2>3, <2>4, ZenonT(60) DEF ApexData, Version
<1>10. QED
  BY <1>5, <1>6, <1>7, <1>8, <1>9 DEF IndInv

LEMMA SetApexStep ==
    ASSUME IndInv, NEW a \in Actors, SetApex(a)
    PROVE  IndInv'
<1> DEFINE j == [job[a] EXCEPT !.pc = "live", !.soa = None]
<1>0. TypeOK /\ job[a] \in Jobs /\ job[a].pc = "apex" /\ InTransfer(a) /\ soa' = job[a].soa
      /\ job' = [job EXCEPT ![a] = j] /\ job[a].soa \in Serials \union {None}
      /\ UNCHANGED <<tree, left, expired, retryActive, serial, status, published, overlapped>>
  BY JobFields DEF IndInv, SetApex, InTransfer, world
<1>2. j \in Jobs
  BY <1>0, ZenonT(60) DEF Jobs
<1>3. j.pc = "live"
  BY <1>0, ZenonT(60) DEF Jobs
<1>4. job'[a] = j /\ \A b \in Actors \ {a} : job'[b] = job[b]
  BY <1>0 DEF TypeOK
<1>5. TypeOK'
  BY <1>0, <1>2 DEF TypeOK
<1>6. JobsOK'
  <2>1. JobOK(j)
    BY <1>3, ZenonT(60) DEF JobOK
  <2>2. \A b \in Actors : JobOK(job[b])
    BY DEF IndInv, JobsOK
  <2>3. \A b \in Actors : JobOK(job'[b])
    BY <1>4, <2>1, <2>2, ZenonT(60)
  <2>4. QED
    BY <2>3, ZenonT(60) DEF JobsOK, JobOK, Version
<1>7. LiveIsComplete'
  BY <1>0 DEF IndInv, LiveIsComplete
<1>8. OneTransfer'
  BY <1>0, <1>4 DEF IndInv, OneTransfer, InTransfer
<1>9. ApexData'
  BY <1>0, <1>3, <1>4 DEF IndInv, ApexData, OneTransfer, InTransfer
<1>10. QED
  BY <1>5, <1>6, <1>7, <1>8, <1>9 DEF IndInv

LEMMA SetExpiredStep ==
    ASSUME IndInv, NEW a \in Actors, SetExpired(a)
    PROVE  IndInv'
<1>1. TypeOK /\ job[a].pc = "live" /\ Return(a) /\ NoErrors(a) /\ expired' \in BOOLEAN
      /\ UNCHANGED <<soa, tree, left, serial, status, published, overlapped>>
  BY DEF IndInv, SetExpired, world
<1>2. QED
  BY <1>1, RetryType, ReturnStep

-----------------------------------------------------------------------------
(* Update and NOTIFY begin a check. *)
LEMMA BeginStep ==
    ASSUME IndInv, UpdateStep \/ \E n \in Notifies : Notify(n)
    PROVE  IndInv'
<1>0. TypeOK /\ Updater \in Actors /\ Notifies \subseteq Actors
  BY Constants DEF IndInv
<1>1. ASSUME NEW a \in Actors, NEW why \in Whys, job[a].pc \in {"select", "idle"},
             job' = [job EXCEPT ![a] = Check(why)],
             UNCHANGED <<zone, retryActive, world, overlapped>>
      PROVE  IndInv'
  <2>1. UNCHANGED <<soa, tree, left, serial, status, published, retryActive, expired, overlapped>>
    BY <1>1 DEF zone, world
  <2>2. QED
    BY <1>1, <2>1, CheckOK, SameType, LocalStep
<1>2. CASE Appear
  <2> DEFINE j == [job[Updater] EXCEPT !.pc = "select"]
  <2>1. job' = [job EXCEPT ![Updater] = j] /\ job[Updater].pc = "wait" /\ job[Updater] \in Jobs
    BY <1>0, <1>2, JobFields DEF Appear
  <2>2. j \in Jobs /\ j.pc = "select"
    BY <2>1, ZenonT(60) DEF Jobs
  <2>3. JobOK(j)
    BY <2>2 DEF JobOK
  <2>4. UNCHANGED <<soa, tree, left, serial, status, published, retryActive, expired, overlapped>>
    BY <1>2 DEF Appear, zone, world
  <2>5. QED
    BY <1>0, <2>1, <2>2, <2>3, <2>4, SameType, LocalStep
<1>3. CASE RefreshTick
  BY <1>0, <1>1, <1>3 DEF RefreshTick, Whys
<1>4. CASE RetryTick
  BY <1>0, <1>1, <1>4 DEF RetryTick, Whys
<1>5. CASE ExpireTick
  BY <1>5 DEF ExpireTick, world, IndInv, TypeOK, JobsOK, LiveIsComplete, OneTransfer, InTransfer, ApexData
<1>6. CASE \E n \in Notifies : Notify(n)
  BY <1>0, <1>1, <1>6 DEF Notify, Whys
<1>7. QED
  BY <1>2, <1>3, <1>4, <1>5, <1>6 DEF UpdateStep

-----------------------------------------------------------------------------
(* The masters, and a stuttering step. *)
LEMMA MasterStep ==
    ASSUME IndInv, NEW m \in Masters, Publish(m) \/ Flip(m)
    PROVE  IndInv'
<1>1. UNCHANGED <<soa, tree, left, expired, retryActive, job, overlapped>>
  BY DEF Publish, Flip, zone
<1>2. TypeOK'
  <2>1. CASE Publish(m)
    <3>1. (serial[m] + 1) % SerialMod \in Serials
      BY SerialAssumption DEF IndInv, TypeOK, Serials
    <3>2. published' \in 0 .. MaxPublish
      BY <2>1, BoundAssumption DEF IndInv, TypeOK, Publish
    <3>3. QED
      BY <1>1, <2>1, <3>1, <3>2 DEF IndInv, TypeOK, Publish
  <2>2. CASE Flip(m)
    <3>1. \A s \in Statuses(m) : s \in {"up", "down", "refused"}
      BY FaultsAssumption DEF Statuses
    <3>2. QED
      BY <1>1, <2>2, <3>1 DEF IndInv, TypeOK, Flip
  <2>3. QED
    BY <2>1, <2>2
<1>3. QED
  BY <1>1, <1>2 DEF IndInv, JobsOK, LiveIsComplete, OneTransfer, InTransfer, ApexData

LEMMA StutterStep ==
    ASSUME IndInv, UNCHANGED vars
    PROVE  IndInv'
BY DEF IndInv, vars, TypeOK, JobsOK, LiveIsComplete, OneTransfer, InTransfer, ApexData

LEMMA NextInv == IndInv /\ [Next]_vars => IndInv'
<1> SUFFICES ASSUME IndInv, [Next]_vars PROVE IndInv'
  OBVIOUS
<1>1. ASSUME NEW a \in Actors, CallStep(a) PROVE IndInv'
  BY <1>1, AskStep, SetupStep, ReceiveStep, BrokenStep, TriedAllStep, SetTreeStep, SetApexStep, SetExpiredStep
     DEF CallStep
<1>2. QED
  BY <1>1, BeginStep, MasterStep, StutterStep DEF Next

LEMMA InitInv == Init => IndInv
<1> SUFFICES ASSUME Init PROVE IndInv
  OBVIOUS
<1>1. ASSUME NEW a \in Actors
      PROVE  job[a] \in Jobs /\ JobOK(job[a]) /\ job[a].pc # "apex" /\ (InTransfer(a) => a = Updater)
  <2>1. CASE a = Updater
    <3>1. job[a] = Transfer("startup") /\ "startup" \in Whys
      BY <2>1 DEF Init, Whys
    <3>2. QED
      BY <2>1, <3>1, TransferOK
  <2>2. CASE a # Updater
    <3>1. job[a] = At("notify", "idle") /\ "notify" \in Whys /\ "idle" \in Resting
      BY <2>2 DEF Init, Whys, Resting
    <3>2. QED
      BY <3>1, AtOK DEF InTransfer
  <2>3. QED
    BY <2>1, <2>2
<1>2. job \in [Actors -> Jobs]
  <2>1. job = [a \in Actors |-> job[a]]
    BY DEF Init
  <2>2. QED
    BY <1>1, <2>1
<1>3. TypeOK
  <2>1. published \in 0 .. MaxPublish
    BY BoundAssumption DEF Init
  <2>2. serial \in [Masters -> Serials]
    BY SerialAssumption, ZenonT(60) DEF Init
  <2>3. expired \in BOOLEAN /\ retryActive \in BOOLEAN /\ overlapped \in BOOLEAN
    BY ZenonT(60) DEF Init
  <2>4. QED
    BY <1>2, <2>1, <2>2, <2>3, ZenonT(60) DEF Init, TypeOK
<1>4. QED
  BY <1>1, <1>3 DEF Init, IndInv, JobsOK, LiveIsComplete, OneTransfer, ApexData

-----------------------------------------------------------------------------
(* The inductive invariant of a secondary zone holds in every state of     *)
(* every behaviour of startup, Update and the NOTIFYs.                     *)
THEOREM Invariance == Spec => []IndInv
BY InitInv, NextInv, PTL DEF Spec

(* Every variable always has its type; in particular no index runs past    *)
(* the list of masters (TransferIn, shouldTransfer).                       *)
THEOREM TypeCorrect == Spec => []TypeOK
<1>1. IndInv => TypeOK
  BY DEF IndInv
<1>2. QED
  BY <1>1, Invariance, PTL

(* TransferIn only ever sets live one complete version of the zone, with   *)
(* no other records than those that transfers which broke off in the same  *)
(* call left in z1: for any zone size, any masters and any number of       *)
(* goroutines transferring at once.                                        *)
THEOREM LiveTreeIsComplete == Spec => []LiveIsComplete
<1>1. IndInv => LiveIsComplete
  BY DEF IndInv
<1>2. QED
  BY <1>1, Invariance, PTL

(* Without overlapping transfers the tree is the version that the zone's   *)
(* SOA record names and what broken transfers left, whichever masters fail *)
(* meanwhile.                                                              *)
THEOREM SOANamesData == Spec => []DataForSOA
<1>1. IndInv => DataForSOA
  BY DEF IndInv, DataForSOA, ApexData, Settled
<1>2. QED
  BY <1>1, Invariance, PTL
=============================================================================
