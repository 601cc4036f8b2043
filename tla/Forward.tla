------------------------------ MODULE Forward ------------------------------
(***************************************************************************)
(* The forward plugin: requests that walk a list of upstream proxies until *)
(* one answers or the deadline passes (forward.go, lookup.go, policy.go),  *)
(* the in-band health check that an error kicks off (proxy.go, health.go)  *)
(* and the probe that runs it (plugin/pkg/up/up.go).                       *)
(*                                                                         *)
(* Connect is reduced to its outcome.  The pool of persistent connections  *)
(* has a module of its own (Transport); here cached[u] is the number of    *)
(* pooled TCP connections to u, because each retry after ErrCachedClosed   *)
(* uses one up.                                                            *)
(***************************************************************************)
EXTENDS Integers, Sequences, FiniteSets, Functions

CONSTANTS
    Proxies,     \* Forward.proxies, a sequence of upstreams
    Requests,    \* calls of ServeDNS and of Lookup
    Goroutines,  \* goroutines a probe could start
    Policies,    \* the configured policies
    MaxFails,    \* Forward.maxfails
    FailsMod,    \* Proxy.fails is an integer modulo this
    RobinMod,    \* roundRobin.robin is an integer modulo this
    ForceTCP,    \* options.forceTCP
    PreferUDP    \* options.preferUDP

N == Len(Proxies)
Upstreams == {Proxies[k] : k \in 1 .. N}
Positions == 1 .. N

ASSUME ProxiesAssumption == Proxies \in [1 .. N -> Upstreams] /\ N \in Nat \ {0} /\ IsInjective(Proxies)
ASSUME PoliciesAssumption == Policies \subseteq {"random", "round_robin", "sequential"}
ASSUME CountersAssumption == MaxFails \in Nat /\ FailsMod \in Nat \ {0} /\ RobinMod \in Nat \ {0}
ASSUME OptionsAssumption == ForceTCP \in BOOLEAN /\ PreferUDP \in BOOLEAN

VARIABLES
    req,         \* req[r]: the local variables of request r
    policy,      \* Forward.p
    robin,       \* roundRobin.robin
    fails,       \* fails[u]: Proxy.fails
    inprogress,  \* inprogress[u]: Probe.inprogress
    prober,      \* prober[u][g]: where goroutine g of u's probe is
    stopped,     \* the upstreams whose probe was stopped
    cached,      \* cached[u]: pooled TCP connections to u
    alive        \* alive[u]: u answers health checks

vars == <<req, policy, robin, fails, inprogress, prober, stopped, cached, alive>>

-----------------------------------------------------------------------------
(* A request's local variables.  serve tells ServeDNS from Lookup, tcp is  *)
(* the protocol its next Connect uses, late is whether its deadline has    *)
(* passed.  seenDown and tried record the upstreams found down and the     *)
(* ones connected to since the request last started at the head of list.   *)
NewRequest ==
    [pc |-> "start", serve |-> TRUE, tcp |-> FALSE, forceTCP |-> FALSE, list |-> Proxies,
     i |-> 1, fails |-> 0, cur |-> Proxies[1], reused |-> FALSE, upstreamErr |-> FALSE,
     late |-> FALSE, seenDown |-> {}, tried |-> {}]

Init ==
    /\ req = [r \in Requests |-> NewRequest]
    /\ policy \in Policies
    /\ robin = 0
    /\ fails = [u \in Upstreams |-> 0]
    /\ inprogress = [u \in Upstreams |-> "idle"]
    /\ prober = [u \in Upstreams |-> [g \in Goroutines |-> "none"]]
    /\ stopped = {}
    /\ cached = [u \in Upstreams |-> 0]
    /\ alive \in [Upstreams -> BOOLEAN]

(* Policy.List: the lists each policy may return, given the value robin    *)
(* has after the call.                                                     *)
RandomLists == {l \in [1 .. N -> Upstreams] : IsInjective(l)}

RobinList(k) ==
    [j \in 1 .. N |-> IF j = 1 THEN Proxies[k + 1] ELSE IF j <= k + 1 THEN Proxies[j - 1] ELSE Proxies[j]]

ListsAfter(rb) ==
    CASE policy = "random" -> RandomLists
      [] policy = "round_robin" -> {RobinList(rb % N)}
      [] policy = "sequential" -> {Proxies}

List(l) ==
    /\ robin' = IF policy = "round_robin" THEN (robin + 1) % RobinMod ELSE robin
    /\ l \in ListsAfter(robin')

(* Proxy.Down *)
Down(u) == MaxFails # 0 /\ fails[u] > MaxFails

-----------------------------------------------------------------------------
(* Probe.Do, called by Proxy.Healthcheck: start a goroutine unless one is  *)
(* running or the probe was stopped.                                       *)
DoUnlessStopped(u) ==
    IF inprogress[u] = "stop"
    THEN UNCHANGED <<inprogress, prober>>
    ELSE \E g \in Goroutines :
            /\ prober[u][g] = "none"
            /\ inprogress' = [inprogress EXCEPT ![u] = "active"]
            /\ prober' = [prober EXCEPT ![u][g] = "check"]

Do(u) ==
    IF inprogress[u] # "idle"
    THEN UNCHANGED <<inprogress, prober>>
    ELSE \E g \in Goroutines :
            /\ prober[u][g] = "none"
            /\ inprogress' = [inprogress EXCEPT ![u] = "active"]
            /\ prober' = [prober EXCEPT ![u][g] = "check"]

(* The goroutine's call of dnsHc.Check. *)
CheckNeverDone(u, g) ==
    /\ prober[u][g] = "check"
    /\ IF alive[u]
       THEN prober' = [prober EXCEPT ![u][g] = "sleep"] /\ UNCHANGED fails
       ELSE /\ fails' = [fails EXCEPT ![u] = (@ + 1) % FailsMod]
            /\ prober' = [prober EXCEPT ![u][g] = "sleep"]
    /\ UNCHANGED <<req, policy, robin, inprogress, stopped, cached, alive>>

Check(u, g) ==
    /\ prober[u][g] = "check"
    /\ IF alive[u]
       THEN /\ fails' = [fails EXCEPT ![u] = 0]
            /\ prober' = [prober EXCEPT ![u][g] = "finish"]
       ELSE /\ fails' = [fails EXCEPT ![u] = (@ + 1) % FailsMod]
            /\ prober' = [prober EXCEPT ![u][g] = "sleep"]
    /\ UNCHANGED <<req, policy, robin, inprogress, stopped, cached, alive>>

(* It wakes from its sleep and ends if the probe was stopped meanwhile. *)
WakeGiveUp(u, g) ==
    /\ prober[u][g] = "sleep"
    /\ prober' = [prober EXCEPT ![u][g] = "none"]
    /\ UNCHANGED <<req, policy, robin, fails, inprogress, stopped, cached, alive>>

Wake(u, g) ==
    /\ prober[u][g] = "sleep"
    /\ prober' = [prober EXCEPT ![u][g] = IF inprogress[u] = "stop" THEN "none" ELSE "check"]
    /\ UNCHANGED <<req, policy, robin, fails, inprogress, stopped, cached, alive>>

(* It found the upstream healthy and makes way for the next probe. *)
Finish(u, g) ==
    /\ prober[u][g] = "finish"
    /\ inprogress' = [inprogress EXCEPT ![u] = "idle"]
    /\ prober' = [prober EXCEPT ![u][g] = "none"]
    /\ UNCHANGED <<req, policy, robin, fails, stopped, cached, alive>>

(* Proxy.close, which OnShutdown calls for every proxy while requests and  *)
(* probes are still running.                                               *)
Stop(u) ==
    /\ u \notin stopped
    /\ stopped' = stopped \union {u}
    /\ inprogress' = [inprogress EXCEPT ![u] = "stop"]
    /\ UNCHANGED <<req, policy, robin, fails, prober, cached, alive>>

-----------------------------------------------------------------------------
(* A request arrives: a query that match accepts (ServeDNS hands the       *)
(* others to the next plugin), or a lookup of another plugin               *)
(* (Forward.Forward).                                                      *)
Start(r) ==
    /\ req[r].pc = "start"
    /\ \E serve \in BOOLEAN, tcp \in BOOLEAN, l \in [1 .. N -> Upstreams] :
          /\ List(l)
          /\ req' = [req EXCEPT ![r] = [@ EXCEPT !.pc = "loop", !.serve = serve,
                                                 !.tcp = tcp /\ ~PreferUDP, !.list = l]]
    /\ UNCHANGED <<policy, fails, inprogress, prober, stopped, cached, alive>>

(* At the end of the list ServeDNS starts over. *)
RewoundKeepFails(q) ==
    IF q.i > N THEN [q EXCEPT !.i = 1, !.seenDown = {}, !.tried = {}] ELSE q

Rewound(q) ==
    IF q.i > N THEN [q EXCEPT !.i = 1, !.fails = 0, !.seenDown = {}, !.tried = {}] ELSE q

(* The loop goes on: before the deadline in ServeDNS, to the end of the    *)
(* list in Forward.                                                        *)
LoopsOn(q) == q.pc = "loop" /\ IF q.serve THEN ~q.late ELSE q.i <= N

Connecting(q, u) ==
    [q EXCEPT !.pc = "connect", !.i = @ + 1, !.cur = u, !.forceTCP = ForceTCP, !.tried = @ \union {u}]

PickUp(r) ==
    LET q == Rewound(req[r]) IN
    /\ LoopsOn(req[r])
    /\ ~Down(q.list[q.i])
    /\ req' = [req EXCEPT ![r] = Connecting(q, q.list[q.i])]
    /\ UNCHANGED <<policy, robin, fails, inprogress, prober, stopped, cached, alive>>

CountDown(q) == [q EXCEPT !.fails = @ + 1, !.seenDown = @ \union {q.list[q.i]}]

SkipDown(r) ==
    LET q == CountDown(Rewound(req[r])) IN
    /\ LoopsOn(req[r])
    /\ Down(q.list[q.i])
    /\ q.fails < N
    /\ req' = [req EXCEPT ![r] = [q EXCEPT !.i = @ + 1]]
    /\ UNCHANGED <<policy, robin, fails, inprogress, prober, stopped, cached, alive>>

(* All proxies are down: ServeDNS takes a random one, Forward the head of  *)
(* a new list of the policy.                                               *)
PickAnyway(r) ==
    LET q == CountDown(Rewound(req[r])) IN
    /\ LoopsOn(req[r])
    /\ Down(q.list[q.i])
    /\ q.fails >= N
    /\ \E l \in [1 .. N -> Upstreams] :
          /\ IF q.serve THEN l \in RandomLists /\ UNCHANGED robin ELSE List(l)
          /\ req' = [req EXCEPT ![r] = Connecting(q, l[1])]
    /\ UNCHANGED <<policy, fails, inprogress, prober, stopped, cached, alive>>

-----------------------------------------------------------------------------
(* Connect, first half: Dial takes a pooled connection if there is one.    *)
UsesTCP(q) == q.tcp \/ q.forceTCP

DialEmptyPool(r) ==
    LET q == req[r]
        reuse == UsesTCP(q)
    IN
    /\ q.pc = "connect"
    /\ req' = [req EXCEPT ![r] = [@ EXCEPT !.pc = "exchange", !.reused = reuse]]
    /\ cached' = IF reuse THEN [cached EXCEPT ![q.cur] = @ - 1] ELSE cached
    /\ UNCHANGED <<policy, robin, fails, inprogress, prober, stopped, alive>>

Dial(r) ==
    LET q == req[r]
        reuse == UsesTCP(q) /\ cached[q.cur] > 0
    IN
    /\ q.pc = "connect"
    /\ req' = [req EXCEPT ![r] = [@ EXCEPT !.pc = "exchange", !.reused = reuse]]
    /\ cached' = IF reuse THEN [cached EXCEPT ![q.cur] = @ - 1] ELSE cached
    /\ UNCHANGED <<policy, robin, fails, inprogress, prober, stopped, alive>>

(* Connect, second half.  An answer: the connection is yielded to the pool *)
(* and the client gets the reply, or FORMERR if the reply does not match.  *)
Answer(r) ==
    LET q == req[r] IN
    /\ q.pc = "exchange"
    /\ req' = [req EXCEPT ![r] = [@ EXCEPT !.pc = "replied", !.upstreamErr = FALSE]]
    /\ cached' = IF UsesTCP(q) THEN [cached EXCEPT ![q.cur] = @ + 1] ELSE cached
    /\ UNCHANGED <<policy, robin, fails, inprogress, prober, stopped, alive>>

(* A truncated answer: ServeDNS retries once over TCP if prefer_udp is     *)
(* set; otherwise truncated() turns what there is into a reply.            *)
TruncatedAlwaysRetry(r) ==
    LET q == req[r] IN
    /\ q.pc = "exchange"
    /\ IF q.serve /\ PreferUDP
       THEN req' = [req EXCEPT ![r] = [@ EXCEPT !.pc = "connect", !.forceTCP = TRUE]]
       ELSE req' = [req EXCEPT ![r] = [@ EXCEPT !.pc = "replied", !.upstreamErr = FALSE]]
    /\ UNCHANGED <<policy, robin, fails, inprogress, prober, stopped, cached, alive>>

Truncated(r) ==
    LET q == req[r] IN
    /\ q.pc = "exchange"
    /\ IF q.serve /\ ~q.forceTCP /\ PreferUDP
       THEN req' = [req EXCEPT ![r] = [@ EXCEPT !.pc = "connect", !.forceTCP = TRUE]]
       ELSE req' = [req EXCEPT ![r] = [@ EXCEPT !.pc = "replied", !.upstreamErr = FALSE]]
    /\ UNCHANGED <<policy, robin, fails, inprogress, prober, stopped, cached, alive>>

(* ErrCachedClosed: ServeDNS connects again, to the same proxy. *)
CachedClosed(r) ==
    LET q == req[r] IN
    /\ q.pc = "exchange" /\ q.reused /\ q.serve
    /\ req' = [req EXCEPT ![r] = [@ EXCEPT !.pc = "connect"]]
    /\ UNCHANGED <<policy, robin, fails, inprogress, prober, stopped, cached, alive>>

(* Any other error, and in Forward ErrCachedClosed too: ServeDNS kicks off *)
(* a health check; both go on with the list unless all proxies were down.  *)
FailNoRetry(r) ==
    LET q == req[r] IN
    /\ q.pc = "exchange"
    /\ req' = [req EXCEPT ![r] = [@ EXCEPT !.upstreamErr = TRUE, !.pc = "failed"]]
    /\ IF q.serve /\ MaxFails # 0 THEN Do(q.cur) ELSE UNCHANGED <<inprogress, prober>>
    /\ UNCHANGED <<policy, robin, fails, stopped, cached, alive>>

Fail(r) ==
    LET q == req[r] IN
    /\ q.pc = "exchange"
    /\ req' = [req EXCEPT ![r] = [@ EXCEPT !.upstreamErr = TRUE, !.pc = IF q.fails < N THEN "loop" ELSE "failed"]]
    /\ IF q.serve /\ MaxFails # 0 THEN Do(q.cur) ELSE UNCHANGED <<inprogress, prober>>
    /\ UNCHANGED <<policy, robin, fails, stopped, cached, alive>>

(* The loop ends without an answer: SERVFAIL with upstreamErr, or with     *)
(* ErrNoHealthy if that is nil.                                            *)
GiveUp(r) ==
    /\ req[r].pc = "loop" /\ ~LoopsOn(req[r])
    /\ req' = [req EXCEPT ![r] = [@ EXCEPT !.pc = "failed"]]
    /\ UNCHANGED <<policy, robin, fails, inprogress, prober, stopped, cached, alive>>

Ended(r) == req[r].pc \in {"replied", "failed"}

-----------------------------------------------------------------------------
(* The environment: time passes the deadline of a query, an upstream dies  *)
(* or comes back, the pool drops connections.                              *)
Deadline(r) ==
    /\ req[r].pc # "start" /\ ~Ended(r) /\ req[r].serve /\ ~req[r].late
    /\ req' = [req EXCEPT ![r] = [@ EXCEPT !.late = TRUE]]
    /\ UNCHANGED <<policy, robin, fails, inprogress, prober, stopped, cached, alive>>

Flip(u) ==
    /\ alive' = [alive EXCEPT ![u] = ~@]
    /\ UNCHANGED <<req, policy, robin, fails, inprogress, prober, stopped, cached>>

(* cleanup drops the pooled connections that are too old, and perhaps all. *)
Expire(u) ==
    /\ \E good \in 0 .. cached[u] - 1 : cached' = [cached EXCEPT ![u] = good]
    /\ UNCHANGED <<req, policy, robin, fails, inprogress, prober, stopped, alive>>

RequestStep(r) ==
    \/ PickUp(r) \/ SkipDown(r) \/ PickAnyway(r) \/ Dial(r) \/ Answer(r)
    \/ Truncated(r) \/ CachedClosed(r) \/ Fail(r) \/ GiveUp(r)

ProbeStep(u, g) == Check(u, g) \/ Wake(u, g) \/ Finish(u, g)

Next ==
    \/ \E r \in Requests : Start(r) \/ RequestStep(r) \/ Deadline(r)
    \/ \E u \in Upstreams, g \in Goroutines : ProbeStep(u, g)
    \/ \E u \in Upstreams : Stop(u) \/ Flip(u) \/ Expire(u)

Spec == Init /\ [][Next]_vars

(* Goroutines are scheduled, time passes, and Connect is bounded by the    *)
(* dial and read timeouts.  No fairness for arrivals, shutdown, upstreams. *)
FairSpec ==
    /\ Spec
    /\ \A r \in Requests : WF_vars(RequestStep(r)) /\ WF_vars(Deadline(r))
    /\ \A u \in Upstreams, g \in Goroutines : WF_vars(ProbeStep(u, g))

-----------------------------------------------------------------------------
RequestType ==
    [pc : {"start", "loop", "connect", "exchange", "replied", "failed"},
     serve : BOOLEAN, tcp : BOOLEAN, forceTCP : BOOLEAN, list : [1 .. N -> Upstreams],
     i : Nat \ {0}, fails : Nat, cur : Upstreams, reused : BOOLEAN, upstreamErr : BOOLEAN,
     late : BOOLEAN, seenDown : SUBSET Upstreams, tried : SUBSET Upstreams]

(* Every variable has its type; fails and robin keep their width. *)
TypeOK ==
    /\ req \in [Requests -> RequestType]
    /\ policy \in Policies
    /\ robin \in 0 .. RobinMod - 1
    /\ fails \in [Upstreams -> 0 .. FailsMod - 1]
    /\ inprogress \in [Upstreams -> {"idle", "active", "stop"}]
    /\ prober \in [Upstreams -> [Goroutines -> {"none", "check", "sleep", "finish"}]]
    /\ stopped \subseteq Upstreams
    /\ cached \in [Upstreams -> Nat]
    /\ alive \in [Upstreams -> BOOLEAN]

(* up.go: "there is always a maximum of 1 checks in flight", whatever the  *)
(* interleaving of the requests that report errors, the running probe and  *)
(* the shutdown.                                                           *)
OneCheckInFlight ==
    \A u \in Upstreams : \A g, h \in Goroutines :
        prober[u][g] # "none" /\ prober[u][h] # "none" => g = h

(* An upstream with failed checks is never forgotten: until the shutdown a *)
(* probe is at work that can clear its count, so that Down cannot become   *)
(* permanent (up.go and dnsHc.Check).                                      *)
FailedUpstreamIsProbed ==
    \A u \in Upstreams \ stopped :
        fails[u] > 0 => \E g \in Goroutines : prober[u][g] \in {"check", "sleep"}

(* A request connects to an upstream it has found down only when it found  *)
(* every upstream down in the same pass over its list (ServeDNS and        *)
(* Forward, "All upstream proxies are dead").                              *)
DownOnlyIfAllDown ==
    \A r \in Requests : req[r].pc \in {"connect", "exchange"} =>
        req[r].cur \notin req[r].seenDown \/ req[r].seenDown = Upstreams

(* A request that fails has a reason.  A query's deadline passed, or it    *)
(* found all upstreams down and its last attempt failed.  A lookup reports *)
(* the error of an attempt, having tried every upstream it did not find    *)
(* down.                                                                   *)
FailureJustified ==
    \A r \in Requests : req[r].pc = "failed" =>
        IF req[r].serve
        THEN req[r].late \/ (req[r].upstreamErr /\ req[r].seenDown = Upstreams)
        ELSE req[r].upstreamErr /\ req[r].seenDown \union req[r].tried = Upstreams

(* An upstream that stays reachable while its probe is not stopped ends up *)
(* with no failed checks, and so not down, for good.                       *)
Recovers ==
    \A u \in Upstreams : <>[](alive[u] /\ u \notin stopped) => <>[](fails[u] = 0)

(* Every request that started is answered or fails: the retries inside one *)
(* Connect loop, which do not look at the deadline, come to an end.        *)
EveryRequestEnds ==
    \A r \in Requests : (req[r].pc # "start") ~> Ended(r)

(* up.go: "Stop stops the probing."  proxy.go: "close stops the health     *)
(* checking goroutine."  No probe starts after the stop.                   *)
StopIsFinal ==
    [][\A u \in stopped, g \in Goroutines :
            prober[u][g] = "none" => prober'[u][g] = "none"]_vars
=============================================================================
