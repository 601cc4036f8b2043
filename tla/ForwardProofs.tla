--------------------------- MODULE ForwardProofs ---------------------------
(***************************************************************************)
(* Proofs about Forward, for every list of upstreams, every number of      *)
(* requests and every width of the counters: type correctness, at most one *)
(* health check in flight, and no failed upstream left without a probe.    *)
(***************************************************************************)
EXTENDS Forward, TLAPS

(* An idle probe has no goroutine, and a probe is marked stopped only by   *)
(* the shutdown.                                                           *)
ProbeConsistent ==
    \A u \in Upstreams :
        /\ inprogress[u] = "idle" => \A g \in Goroutines : prober[u][g] = "none"
        /\ inprogress[u] = "stop" => u \in stopped

ProbeInv == ProbeConsistent /\ OneCheckInFlight /\ FailedUpstreamIsProbed
IndInv == TypeOK /\ ProbeInv

-----------------------------------------------------------------------------
(* What Policy.List returns is a list of upstreams, and the counter keeps  *)
(* its width.                                                              *)
LEMMA ListType ==
    ASSUME TypeOK, NEW l, List(l)
    PROVE  l \in [1 .. N -> Upstreams] /\ robin' \in 0 .. RobinMod - 1
<1>1. robin' \in 0 .. RobinMod - 1
  BY CountersAssumption DEF TypeOK, List
<1>2. Proxies \in [1 .. N -> Upstreams] /\ N \in Nat \ {0}
  BY ProxiesAssumption
<1>3. RobinList(robin' % N) \in [1 .. N -> Upstreams]
  <2> DEFINE k == robin' % N
  <2>1. k \in 0 .. N - 1
    <3>1. robin' \in Nat
      BY <1>1, CountersAssumption
    <3>2. \A a \in Nat, b \in Nat \ {0} : a % b \in 0 .. b - 1
      OBVIOUS
    <3>3. QED
      BY <3>1, <3>2, <1>2
  <2>2. ASSUME NEW j \in 1 .. N
        PROVE  (IF j = 1 THEN Proxies[k + 1] ELSE IF j <= k + 1 THEN Proxies[j - 1] ELSE Proxies[j]) \in Upstreams
    <3> HIDE DEF k
    <3>1. CASE j = 1
      BY <2>1, <1>2, <3>1
    <3>2. CASE j # 1 /\ j <= k + 1
      <4>1. j - 1 \in 1 .. N
        BY <2>1, <1>2, <3>2
      <4>2. QED
        BY <4>1, <1>2, <3>2
    <3>3. CASE j # 1 /\ ~(j <= k + 1)
      BY <1>2, <3>3
    <3>4. QED
      BY <3>1, <3>2, <3>3
  <2>3. QED
    BY <2>2 DEF RobinList
<1>4. l \in [1 .. N -> Upstreams]
  <2>1. policy \in {"random", "round_robin", "sequential"}
    BY PoliciesAssumption DEF TypeOK
  <2>2. QED
    BY <2>1, <1>2, <1>3 DEF List, ListsAfter, RandomLists
<1>5. QED
  BY <1>1, <1>4

(* The updates of a request's local variables keep their types. *)
LEMMA RewoundType ==
    ASSUME NEW q \in RequestType, q.serve \/ q.i <= N
    PROVE  Rewound(q) \in RequestType /\ Rewound(q).i \in 1 .. N
<1>1. 1 \in Nat \ {0} /\ 0 \in Nat /\ 1 \in 1 .. N /\ N \in Nat
  BY ProxiesAssumption
<1>2. CASE q.i > N
  <2>1. Rewound(q) = [q EXCEPT !.i = 1, !.fails = 0, !.seenDown = {}, !.tried = {}]
    BY <1>2 DEF Rewound
  <2>2. Rewound(q) \in RequestType
    BY <2>1, <1>1, ZenonT(60) DEF RequestType
  <2>3. Rewound(q).i = 1
    BY <2>1, ZenonT(60) DEF RequestType
  <2>4. QED
    BY <2>2, <2>3, <1>1
<1>3. CASE ~(q.i > N)
  <2>1. q.i \in Nat \ {0}
    BY ZenonT(60) DEF RequestType
  <2>2. q.i \in 1 .. N
    BY <2>1, <1>1, <1>3
  <2>3. QED
    BY <2>2, <1>3 DEF Rewound
<1>4. QED
  BY <1>2, <1>3

LEMMA CountDownType ==
    ASSUME NEW q \in RequestType, q.i \in 1 .. N
    PROVE  CountDown(q) \in RequestType /\ CountDown(q).i = q.i /\ CountDown(q).list = q.list
<1>1. q.fails \in Nat /\ q.seenDown \in SUBSET Upstreams /\ q.list \in [1 .. N -> Upstreams]
  BY ZenonT(60) DEF RequestType
<1>2. q.fails + 1 \in Nat /\ q.seenDown \union {q.list[q.i]} \in SUBSET Upstreams
  <2>1. q.list[q.i] \in Upstreams
    BY <1>1
  <2>2. QED
    BY <1>1, <2>1
<1>3. CountDown(q) \in RequestType
  BY <1>2, ZenonT(60) DEF CountDown, RequestType
<1>4. CountDown(q).i = q.i
  BY ZenonT(60) DEF CountDown, RequestType
<1>5. CountDown(q).list = q.list
  BY ZenonT(60) DEF CountDown, RequestType
<1>6. QED
  BY <1>3, <1>4, <1>5

LEMMA ConnectingType ==
    ASSUME NEW q \in RequestType, NEW u \in Upstreams
    PROVE  Connecting(q, u) \in RequestType
<1>1. q.i \in Nat \ {0} /\ q.tried \in SUBSET Upstreams
  BY ZenonT(60) DEF RequestType
<1>2. q.i + 1 \in Nat \ {0} /\ q.tried \union {u} \in SUBSET Upstreams
  BY <1>1
<1>3. QED
  BY <1>2, OptionsAssumption, ZenonT(60) DEF Connecting, RequestType

(* A step of one request that keeps the type of its record and changes     *)
(* nothing else but robin, cached and the probe keeps the type.            *)
LEMMA RequestStepType ==
    ASSUME TypeOK, NEW r \in Requests, NEW q \in RequestType,
           req' = [req EXCEPT ![r] = q],
           UNCHANGED <<policy, fails, stopped, alive>>,
           robin' \in 0 .. RobinMod - 1,
           cached' \in [Upstreams -> Nat],
           inprogress' \in [Upstreams -> {"idle", "active", "stop"}],
           prober' \in [Upstreams -> [Goroutines -> {"none", "check", "sleep", "finish"}]]
    PROVE  TypeOK'
BY DEF TypeOK

LEMMA DoType ==
    ASSUME TypeOK, NEW u \in Upstreams, Do(u)
    PROVE  /\ inprogress' \in [Upstreams -> {"idle", "active", "stop"}]
           /\ prober' \in [Upstreams -> [Goroutines -> {"none", "check", "sleep", "finish"}]]
BY SMTT(60) DEF TypeOK, Do

LEMMA TypeStep ==
    ASSUME TypeOK, [Next]_vars
    PROVE  TypeOK'
<1>0. ASSUME NEW r \in Requests
      PROVE  /\ req[r] \in RequestType
             /\ req[r].cur \in Upstreams /\ req[r].i \in Nat \ {0} /\ req[r].fails \in Nat
  <2>1. req[r] \in RequestType
    BY DEF TypeOK
  <2>2. QED
    BY <2>1, ZenonT(60) DEF RequestType
<1>1. ASSUME NEW r \in Requests, Start(r) PROVE TypeOK'
  <2>1. PICK serve \in BOOLEAN, tcp \in BOOLEAN, l \in [1 .. N -> Upstreams] :
          /\ List(l)
          /\ req' = [req EXCEPT ![r] = [req[r] EXCEPT !.pc = "loop", !.serve = serve,
                                         !.tcp = tcp /\ ~PreferUDP, !.list = l]]
    BY <1>1, ZenonT(60) DEF Start
  <2>2. (tcp /\ ~PreferUDP) \in BOOLEAN
    OBVIOUS
  <2>3. [req[r] EXCEPT !.pc = "loop", !.serve = serve, !.tcp = tcp /\ ~PreferUDP, !.list = l] \in RequestType
    BY <1>0, <2>2, ZenonT(60) DEF RequestType
  <2>4. robin' \in 0 .. RobinMod - 1
    BY <2>1, ListType
  <2>5. QED
    BY <1>1, <2>1, <2>3, <2>4, RequestStepType DEF Start, TypeOK
<1>2. ASSUME NEW r \in Requests, LoopsOn(req[r])
      PROVE  /\ Rewound(req[r]) \in RequestType
             /\ Rewound(req[r]).i \in 1 .. N
             /\ Rewound(req[r]).list[Rewound(req[r]).i] \in Upstreams
  <2>1. req[r].serve \/ req[r].i <= N
    BY <1>2, ZenonT(60) DEF LoopsOn
  <2>2. Rewound(req[r]) \in RequestType /\ Rewound(req[r]).i \in 1 .. N
    BY <2>1, <1>0, RewoundType
  <2>3. Rewound(req[r]).list \in [1 .. N -> Upstreams]
    BY <2>2, ZenonT(60) DEF RequestType
  <2>4. QED
    BY <2>2, <2>3
<1>3. ASSUME NEW r \in Requests, PickUp(r) PROVE TypeOK'
  BY <1>2, <1>3, ConnectingType, RequestStepType DEF PickUp, TypeOK
<1>4. ASSUME NEW r \in Requests, SkipDown(r) PROVE TypeOK'
  <2> DEFINE c == CountDown(Rewound(req[r]))
  <2>1. c \in RequestType
    BY <1>2, <1>4, CountDownType DEF SkipDown
  <2>2. c.i + 1 \in Nat \ {0}
    <3>1. c.i \in Nat \ {0}
      BY <2>1, ZenonT(60) DEF RequestType
    <3>2. QED
      BY <3>1
  <2>3. [c EXCEPT !.i = c.i + 1] \in RequestType
    BY <2>1, <2>2, ZenonT(60) DEF RequestType
  <2>4. QED
    BY <1>4, <2>3, RequestStepType DEF SkipDown, TypeOK
<1>5. ASSUME NEW r \in Requests, PickAnyway(r) PROVE TypeOK'
  <2> DEFINE c == CountDown(Rewound(req[r]))
  <2>1. c \in RequestType
    BY <1>2, <1>5, CountDownType DEF PickAnyway
  <2>2. PICK l \in [1 .. N -> Upstreams] :
          /\ IF c.serve THEN l \in RandomLists /\ UNCHANGED robin ELSE List(l)
          /\ req' = [req EXCEPT ![r] = Connecting(c, l[1])]
    BY <1>5, ZenonT(60) DEF PickAnyway
  <2>3. l[1] \in Upstreams
    BY ProxiesAssumption
  <2>4. robin' \in 0 .. RobinMod - 1
    BY <2>2, ListType DEF TypeOK
  <2>5. QED
    BY <1>5, <2>1, <2>2, <2>3, <2>4, ConnectingType, RequestStepType DEF PickAnyway, TypeOK
<1>6. ASSUME NEW r \in Requests, Dial(r) PROVE TypeOK'
  <2> DEFINE reuse == UsesTCP(req[r]) /\ cached[req[r].cur] > 0
  <2>1. [req[r] EXCEPT !.pc = "exchange", !.reused = reuse] \in RequestType
    BY <1>0, ZenonT(60) DEF RequestType
  <2>2. cached' \in [Upstreams -> Nat]
    BY <1>0, <1>6 DEF Dial, TypeOK
  <2>3. QED
    BY <1>6, <2>1, <2>2, RequestStepType DEF Dial, TypeOK
<1>7. ASSUME NEW r \in Requests, Answer(r) PROVE TypeOK'
  <2>1. [req[r] EXCEPT !.pc = "replied", !.upstreamErr = FALSE] \in RequestType
    BY <1>0, ZenonT(60) DEF RequestType
  <2>2. cached' \in [Upstreams -> Nat]
    BY <1>0, <1>7 DEF Answer, TypeOK
  <2>3. QED
    BY <1>7, <2>1, <2>2, RequestStepType DEF Answer, TypeOK
<1>8. ASSUME NEW r \in Requests, Truncated(r) PROVE TypeOK'
  <2>1. /\ [req[r] EXCEPT !.pc = "connect", !.forceTCP = TRUE] \in RequestType
        /\ [req[r] EXCEPT !.pc = "replied", !.upstreamErr = FALSE] \in RequestType
    BY <1>0, ZenonT(60) DEF RequestType
  <2>2. QED
    BY <1>8, <2>1, RequestStepType DEF Truncated, TypeOK
<1>9. ASSUME NEW r \in Requests, CachedClosed(r) PROVE TypeOK'
  <2>1. [req[r] EXCEPT !.pc = "connect"] \in RequestType
    BY <1>0, ZenonT(60) DEF RequestType
  <2>2. QED
    BY <1>9, <2>1, RequestStepType DEF CachedClosed, TypeOK
<1>10. ASSUME NEW r \in Requests, Fail(r) PROVE TypeOK'
  <2> DEFINE pc2 == IF req[r].fails < N THEN "loop" ELSE "failed"
  <2>1. [req[r] EXCEPT !.upstreamErr = TRUE, !.pc = pc2] \in RequestType
    BY <1>0, ZenonT(60) DEF RequestType
  <2>2. /\ inprogress' \in [Upstreams -> {"idle", "active", "stop"}]
        /\ prober' \in [Upstreams -> [Goroutines -> {"none", "check", "sleep", "finish"}]]
    BY <1>0, <1>10, DoType DEF Fail, TypeOK
  <2>3. QED
    BY <1>10, <2>1, <2>2, RequestStepType DEF Fail, TypeOK
<1>11. ASSUME NEW r \in Requests, GiveUp(r) PROVE TypeOK'
  <2>1. [req[r] EXCEPT !.pc = "failed"] \in RequestType
    BY <1>0, ZenonT(60) DEF RequestType
  <2>2. QED
    BY <1>11, <2>1, RequestStepType DEF GiveUp, TypeOK
<1>12. ASSUME NEW r \in Requests, Deadline(r) PROVE TypeOK'
  <2>1. [req[r] EXCEPT !.late = TRUE] \in RequestType
    BY <1>0, ZenonT(60) DEF RequestType
  <2>2. QED
    BY <1>12, <2>1, RequestStepType DEF Deadline, TypeOK
<1>13. ASSUME NEW u \in Upstreams, NEW g \in Goroutines, Check(u, g) PROVE TypeOK'
  <2>1. fails' \in [Upstreams -> 0 .. FailsMod - 1]
    <3>1. (fails[u] + 1) % FailsMod \in 0 .. FailsMod - 1 /\ 0 \in 0 .. FailsMod - 1
      BY CountersAssumption DEF TypeOK
    <3>2. QED
      BY <1>13, <3>1 DEF Check, TypeOK
  <2>2. prober' \in [Upstreams -> [Goroutines -> {"none", "check", "sleep", "finish"}]]
    <3>1. PICK x \in {"sleep", "finish"} : prober' = [prober EXCEPT ![u][g] = x]
      BY <1>13, ZenonT(60) DEF Check
    <3>2. QED
      BY <3>1 DEF TypeOK
  <2>3. QED
    BY <1>13, <2>1, <2>2 DEF Check, TypeOK
<1>14. ASSUME NEW u \in Upstreams, NEW g \in Goroutines, Wake(u, g) PROVE TypeOK'
  BY <1>14 DEF Wake, TypeOK
<1>15. ASSUME NEW u \in Upstreams, NEW g \in Goroutines, Finish(u, g) PROVE TypeOK'
  BY <1>15 DEF Finish, TypeOK
<1>16. ASSUME NEW u \in Upstreams, Stop(u) \/ Flip(u) \/ Expire(u) PROVE TypeOK'
  <2>1. CASE Stop(u)
    BY <2>1 DEF Stop, TypeOK
  <2>2. CASE Flip(u)
    <3>1. alive' \in [Upstreams -> BOOLEAN]
      BY <2>2, ZenonT(60) DEF Flip, TypeOK
    <3>2. QED
      BY <2>2, <3>1, ZenonT(60) DEF Flip, TypeOK
  <2>3. CASE Expire(u)
    BY <2>3 DEF Expire, TypeOK
  <2>4. QED
    BY <1>16, <2>1, <2>2, <2>3
<1>17. CASE UNCHANGED vars
  BY <1>17 DEF vars, TypeOK
<1>18. QED
  BY <1>1, <1>3, <1>4, <1>5, <1>6, <1>7, <1>8, <1>9, <1>10, <1>11, <1>12, <1>13, <1>14, <1>15, <1>16, <1>17
     DEF Next, RequestStep, ProbeStep

-----------------------------------------------------------------------------
LEMMA InitInv == Init => IndInv
<1> SUFFICES ASSUME Init PROVE IndInv
  OBVIOUS
<1>1. NewRequest \in RequestType
  <2>1. Proxies \in [1 .. N -> Upstreams] /\ Proxies[1] \in Upstreams /\ 1 \in Nat \ {0} /\ 0 \in Nat
    BY ProxiesAssumption
  <2>2. QED
    BY <2>1, ZenonT(60) DEF NewRequest, RequestType
<1>2. 0 \in 0 .. RobinMod - 1 /\ 0 \in 0 .. FailsMod - 1
  BY CountersAssumption
<1>3. TypeOK
  BY <1>1, <1>2 DEF Init, TypeOK
<1>4. ProbeInv
  BY DEF Init, ProbeInv, ProbeConsistent, OneCheckInFlight, FailedUpstreamIsProbed
<1>5. QED
  BY <1>3, <1>4 DEF IndInv

(* Do starts a goroutine only for an idle probe, which has none. *)
LEMMA DoInv ==
    ASSUME TypeOK, ProbeInv, NEW u \in Upstreams, Do(u), UNCHANGED <<fails, stopped>>
    PROVE  ProbeInv'
<1>1. CASE inprogress[u] # "idle"
  BY <1>1 DEF Do, ProbeInv, ProbeConsistent, OneCheckInFlight, FailedUpstreamIsProbed
<1>2. CASE inprogress[u] = "idle"
  <2>1. PICK g \in Goroutines :
          /\ inprogress' = [inprogress EXCEPT ![u] = "active"]
          /\ prober' = [prober EXCEPT ![u][g] = "check"]
    BY <1>2 DEF Do
  <2>2. \A h \in Goroutines : prober[u][h] = "none"
    BY <1>2 DEF ProbeInv, ProbeConsistent
  <2>3. ProbeConsistent'
    BY <2>1 DEF TypeOK, ProbeInv, ProbeConsistent
  <2>4. OneCheckInFlight'
    BY <2>1, <2>2 DEF TypeOK, ProbeInv, OneCheckInFlight
  <2>5. FailedUpstreamIsProbed'
    BY <2>1 DEF TypeOK, ProbeInv, FailedUpstreamIsProbed
  <2>6. QED
    BY <2>3, <2>4, <2>5 DEF ProbeInv
<1>3. QED
  BY <1>1, <1>2

LEMMA ProbeStepInv ==
    ASSUME IndInv, [Next]_vars
    PROVE  ProbeInv'
<1> USE DEF IndInv
<1>1. ASSUME UNCHANGED <<fails, inprogress, prober, stopped>> PROVE ProbeInv'
  BY <1>1 DEF ProbeInv, ProbeConsistent, OneCheckInFlight, FailedUpstreamIsProbed
<1>2. ASSUME NEW r \in Requests, Fail(r) PROVE ProbeInv'
  <2>1. req[r].cur \in Upstreams
    BY ZenonT(60) DEF TypeOK, RequestType
  <2>2. QED
    BY <1>1, <1>2, <2>1, DoInv DEF Fail
<1>3. ASSUME NEW u \in Upstreams, NEW g \in Goroutines, Check(u, g) PROVE ProbeInv'
  <2>0. PICK x \in {"sleep", "finish"}, n \in {0, (fails[u] + 1) % FailsMod} :
          /\ prober' = [prober EXCEPT ![u][g] = x]
          /\ fails' = [fails EXCEPT ![u] = n]
          /\ x = "finish" => n = 0
    <3>1. CASE alive[u]
      BY <1>3, <3>1, ZenonT(60) DEF Check
    <3>2. CASE ~alive[u]
      BY <1>3, <3>2, ZenonT(60) DEF Check
    <3>3. QED
      BY <3>1, <3>2
  <2>1. prober[u][g] = "check" /\ UNCHANGED <<inprogress, stopped>>
    BY <1>3 DEF Check
  <2>2. ProbeConsistent'
    BY <2>0, <2>1 DEF TypeOK, ProbeInv, ProbeConsistent
  <2>3. OneCheckInFlight'
    BY <2>0, <2>1 DEF TypeOK, ProbeInv, OneCheckInFlight
  <2>4. FailedUpstreamIsProbed'
    BY <2>0, <2>1 DEF TypeOK, ProbeInv, FailedUpstreamIsProbed
  <2>5. QED
    BY <2>2, <2>3, <2>4 DEF ProbeInv
<1>4. ASSUME NEW u \in Upstreams, NEW g \in Goroutines, Wake(u, g) PROVE ProbeInv'
  <2>1. ProbeConsistent'
    BY <1>4 DEF Wake, TypeOK, ProbeInv, ProbeConsistent
  <2>2. OneCheckInFlight'
    BY <1>4 DEF Wake, TypeOK, ProbeInv, OneCheckInFlight
  <2>3. FailedUpstreamIsProbed'
    BY <1>4 DEF Wake, TypeOK, ProbeInv, ProbeConsistent, FailedUpstreamIsProbed
  <2>4. QED
    BY <2>1, <2>2, <2>3 DEF ProbeInv
<1>5. ASSUME NEW u \in Upstreams, NEW g \in Goroutines, Finish(u, g) PROVE ProbeInv'
  <2>1. ProbeConsistent'
    BY <1>5 DEF Finish, TypeOK, ProbeInv, ProbeConsistent, OneCheckInFlight
  <2>2. OneCheckInFlight'
    BY <1>5 DEF Finish, TypeOK, ProbeInv, OneCheckInFlight
  <2>3. FailedUpstreamIsProbed'
    BY <1>5 DEF Finish, TypeOK, ProbeInv, OneCheckInFlight, FailedUpstreamIsProbed
  <2>4. QED
    BY <2>1, <2>2, <2>3 DEF ProbeInv
<1>6. ASSUME NEW u \in Upstreams, Stop(u) PROVE ProbeInv'
  BY <1>6 DEF Stop, TypeOK, ProbeInv, ProbeConsistent, OneCheckInFlight, FailedUpstreamIsProbed
<1>7. QED
  <2>1. ASSUME NEW r \in Requests,
               \/ Start(r) \/ PickUp(r) \/ SkipDown(r) \/ PickAnyway(r) \/ Dial(r) \/ Answer(r)
               \/ Truncated(r) \/ CachedClosed(r) \/ GiveUp(r) \/ Deadline(r)
        PROVE  UNCHANGED <<fails, inprogress, prober, stopped>>
    BY <2>1 DEF Start, PickUp, SkipDown, PickAnyway, Dial, Answer, Truncated, CachedClosed, GiveUp, Deadline
  <2>2. ASSUME NEW u \in Upstreams, Flip(u) \/ Expire(u)
        PROVE  UNCHANGED <<fails, inprogress, prober, stopped>>
    BY <2>2 DEF Flip, Expire
  <2>3. CASE UNCHANGED vars
    BY <1>1, <2>3 DEF vars
  <2>4. QED
    BY <1>1, <1>2, <1>3, <1>4, <1>5, <1>6, <2>1, <2>2, <2>3 DEF Next, RequestStep, ProbeStep

(* The inductive invariant holds of every behaviour. *)
THEOREM Invariance == Spec => []IndInv
<1>1. IndInv /\ [Next]_vars => IndInv'
  BY TypeStep, ProbeStepInv DEF IndInv
<1>2. QED
  BY <1>1, InitInv, PTL DEF Spec

(* Every variable of the forward plugin's model keeps its type; the fails  *)
(* and round-robin counters keep their width.                              *)
THEOREM TypeCorrect == Spec => []TypeOK
<1>1. IndInv => TypeOK
  BY DEF IndInv
<1>2. QED
  BY <1>1, Invariance, PTL

(* up.go: at most one health check of an upstream is in flight, for any    *)
(* number of requests, upstreams and goroutines.                           *)
THEOREM AtMostOneCheck == Spec => []OneCheckInFlight
<1>1. IndInv => OneCheckInFlight
  BY DEF IndInv, ProbeInv
<1>2. QED
  BY <1>1, Invariance, PTL

(* proxy.go, up.go: an upstream with failed checks has a probe at work     *)
(* until its probe is stopped.                                             *)
THEOREM FailedIsProbed == Spec => []FailedUpstreamIsProbed
<1>1. IndInv => FailedUpstreamIsProbed
  BY DEF IndInv, ProbeInv
<1>2. QED
  BY <1>1, Invariance, PTL
=============================================================================
