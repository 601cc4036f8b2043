# A TLA+ model of CoreDNS

This directory holds TLA+ specifications of the concurrent and the algorithmic
parts of CoreDNS, TLC configurations that check them on small instances, and
TLAPS proofs of the most important invariants for every instance. Every
definition is translated from the Go source; `PROJECT.json` ("map") names the
lines each one stands for.

- [1. The system](#1-the-system)
- [2. Modules and their correspondence to the code](#2-modules-and-their-correspondence-to-the-code)
- [3. Runs](#3-runs)
- [4. Fairness](#4-fairness)
- [5. Proofs](#5-proofs)
- [6. Disagreements between code and documentation](#6-disagreements-between-code-and-documentation)
- [7. What is not modelled](#7-what-is-not-modelled)
- [8. Plan](#8-plan)

To check a run: `tlc -config MCX.cfg MCX` (the second configuration of a module
is given with the module's name, e.g. `tlc -config MCForwardLists.cfg
MCForward`). To check the proofs of a module: `tlapm XProofs.tla`.

## 1. The system

CoreDNS is a DNS server made of plugins. For every listening address a
`dnsserver.Server` holds the zones of its server blocks and, per zone, a chain of
plugins. A query picks the longest matching zone and walks the chain; a plugin
answers, or changes the query or the writer and calls the next one. Every query
runs in a goroutine of its own, so whatever a plugin keeps is shared by queries.
Around the queries there are goroutines that live as long as the configuration
does: reloads of zone files, zone transfers, health probes, connection pools,
tickers. caddy (a library) starts, restarts and stops all of it.

| Part | State that outlives a query | Who touches it | What is hard |
|---|---|---|---|
| `core/dnsserver` | zones, listeners, re-entry depth in the context | listeners, caddy | routing, one reply per query, queries in progress at a stop |
| `forward` | failure count and probe per upstream, round-robin counter | queries, probes, shutdown | error reports racing the probe, retries within a deadline, all upstreams down |
| `forward` connection pool | stacks of idle connections per protocol | manager goroutine, queries | three unbuffered channels shared by all queries, expiry |
| `cache`, `pkg/cache` | two caches of shards, items with hit counts | queries, prefetches | locks taken and released inside one `Add`, items shared by pointer |
| `errors` | count and timer per pattern | queries, timers, shutdown | lock-free hand-over of a count between five parties |
| `file` zone data | red-black tree, apex records | parser, transfers, queries | tree balance, lookup order, wildcards, delegations |
| `file` reload | the same, replaced under an RWMutex | reload goroutine, queries that re-enter the server, shutdown | lock held across a lookup sent back to the server |
| `file`/`secondary` transfers | tree, SOA, `Expired` | `Update`, goroutines of NOTIFYs | partial transfers, serial arithmetic, expiry |
| `auto` | map of zones | walker, queries, zones' reloads | zones that come and go |
| `kubernetes`, `pkg/watch` | indexes of objects, watched names | informers, queries, gRPC streams | unsynchronised map, blocking channel |
| `proxy`, `pkg/healthcheck` | failures that time out, `OkUntil` | queries, probes | counters that are decremented later |
| `route53`, `clouddns`, `hosts` | zones or names copied periodically | updater, queries | lock held across a lookup |
| `reload`, `health`, `metrics`, `dnstap`, `loop` | goroutines with channels | caddy's restart and shutdown | a failed restart, a send nobody receives |
| `dnssec`, `pkg/singleflight` | signature cache, calls in flight | queries | one computation for many callers |
| `rewrite`, `template`, `autopath`, `loadbalance`, `federation`, `metadata` ... | none, or configuration only | queries | pure functions of the message |

The properties that make the modelled parts correct:

- **forward**: a failed upstream is always being probed and comes back when it is
  reachable; an upstream known to be down is used only as a last resort; every
  request ends, and fails only for a reason.
- **connection pool**: an open connection belongs to exactly one party; what the
  manager sends on the shared channel reaches the one that asked; expired
  connections, and only those, are closed.
- **cache**: what comes from the cache is live and within its limits, but for the
  time its query was held up; a prefetch hands the hits on to the new item; a
  shard outgrows its size only by the races its comments accept.
- **errors**: each error counted is logged exactly once, shutdown or not.
- **zone data**: the tree stays sorted and balanced; an answer, a referral, a
  denial and an alias chain are what the zone file says.
- **reload**: no reader mixes two versions; secondaries hear of a version after
  it is served; reloads, queries and shutdown do not block each other, unless
  aliases lead in a circle.
- **transfers**: what goes live is a complete version, with nothing added but what
  transfers that broke off before it left in the same `z1`; the zone follows its
  master across a wrap of the serial and expires when it cannot be refreshed.

## 2. Modules and their correspondence to the code

A step of a module is what the code does atomically: one critical section, one
atomic operation, one send and its receive on an unbuffered channel, one exchange
with the network. Local variables that live across two such steps are state.
Operators whose names end in a deviation (`DialOldest`, `MayRLockBeforeWaiting`, ...)
stand next to the definition they deviate from; they are not used by the
specifications. They describe plausible mistakes, and `PROJECT.json` ("mutants")
records which property notices each of them.

**`ErrorsConsolidation`** (`plugin/errors/errors.go`). `count`, `ptimer` and
`stopFlag` are the fields of that name; `timer` is the state of the timer a
request armed. `ServeDNS` = `NextReturned` and the steps of `inc` (`IncCheckStop`,
`IncAdd`, `IncArm`, `IncSetTimer`, `IncRecheck`, `IncCancel`, `IncLog`);
`AfterFunc` = `Fire`, `Callback`; `stop` = `StopBegin`, `StopLoad`, `StopCancel`,
`StopLog`. `logged` and `direct` record what the two loggers were given.

**`Forward`** (`plugin/forward` without its pool, `plugin/pkg/up`). `req[r]` holds
the local variables of `ServeDNS` or of `Forward`/`Lookup`: the list that the
policy returned, the index, the number of upstreams found down, the last error,
the deadline. `Start`, `PickUp`, `SkipDown`, `PickAnyway`, `Dial`, `Answer`,
`Truncated`, `CachedClosed`, `Fail` and `GiveUp` are the branches of the loop;
`Do`, `Check`, `Wake`, `Finish` and `Stop` are the probe. `Flip` (an upstream
comes and goes) and `Expire` (pooled connections age) are the environment.
`fails` and `robin` are counters modulo `FailsMod` and `RobinMod`.

**`Transport`** (`persistent.go`, `connect.go`). `conns` are the stacks of the
pool, with the age of each connection; `manager` is where `connManager` is;
`client[k]` is one call of `Connect`. The sends on `dial`, `ret` and `yield` are
`Dial`, `Ret`, `Yield`; `Ret` may be received by any goroutine that waits, because
the channel is shared. `Cleanup`, `Stop` and `CloseConn` are `cleanup` and
`closeConns`. `Forward` sees of this module only how many connections are pooled.

**`CacheShard`** (`plugin/pkg/cache`). `Add` is four steps because it takes the
lock four times: `Add` (Len), `EvictPick`, `EvictRemove`, `Insert`. `surplus` is a
history variable: evictions that found their victim gone.

**`Cache`** (`plugin/cache`, `pkg/response`, `MinimalTTL`). One question; items
live in a heap because queries and prefetches share them by pointer. `ServeDNS`,
`GetDenial`, `GetSuccess`, `Update` (the frequency), `Decide` (prefetch or not),
`WriteMsg`; of a prefetch `PrefetchWrite`, the two `Get`s of `exists`
(`ExistsDenial`, `ExistsSuccess`), `PrefetchHits` and `PrefetchReset`, each with a
lock of its own. `Tick` may come between any two steps: a query keeps the time it
noted at its start. `Evict` is what `CacheShard` may do to the entry. `Typify`,
`MinimalTTL` and `computeTTL` are operators.

**`Secondary`** (`secondary.go`, `notify.go`, the NOTIFY branch of `file.go`, the
`secondary` plugin). `job[a]` is what goroutine `a` does inside `shouldTransfer`
(`AskFails`, `AskAnswered`, `AskedAll`) and `TransferIn` (`Setup`, `Receive`,
`Broken`, `TriedAll`, `SetTree`, `SetApex`, `SetExpired`: the three assignments
are separate steps, as no lock joins them). `RefreshTick`, `RetryTick` and
`ExpireTick` are the branches of `Update`'s select. Serials are numbers modulo
`SerialMod`, and `less` is the code's comparison. `left` is a history variable:
the records in the live tree that come from transfers which broke off.

**`ZoneTree`**, **`ZoneLookup`**, **`FileZone`** (`plugin/file/tree`, `lookup.go`,
`closest.go`, `wildcard.go`, `dname.go`, `zone.go`, `Parse`). The first two are
operators: the left-leaning red-black tree with `insert`, `search`, `floor` and
`ceil`, and `Lookup` with everything it calls. A name is a sequence of labels; a
label is a number, its place in the order in which `less` has labels. `Text` is
the label as the code has it, escapes included, and `LabelAssumption` states that
the numbers are in the order of `Compared`, the bytes that `less` compares: with
the dot, and as `doDDD` leaves them. A record is its owner, type, covered type and
data. `FileZone` reads a zone file record by record (`ParseRR`,
`ParseFails`, `ParseDone`); its invariants ask every query at every state.
Their reference is the set of records in the file, SOA and NS of the apex
included, not the tree; for denials it is the canonical order of RFC 4034 over the
octets of the labels (`Octets`, `Canonical`), not `less`. Where the code is known
to differ the property names the exception (`OnlyApex`, `DotDecides`; section 6).

**`ZoneReload`** (`reload.go`, `shutdown.go`, the locking of `lookup.go`, `All` for
transfers, `upstream.go`, the re-entry limit of `server.go`). Zone data is reduced
to the version of the file it comes from; `Apex` and `Tree` are two variables
assigned in two steps, and `Unlock` and `Notify` are steps of their own. `Reloads`
are the zones whose interval is not 0 (the test of `Reload`), `Locks` those where
it is positive (the test of `Lookup` and `OnShutdown`). `mu` is an RWMutex with Go's writer preference: from the
moment `Lock` waits, new readers wait too. `frame[q][l]` is the lookup that query
`q` runs at level `l`: `AskSelf` starts level `l + 1` with the read lock of level
`l` still held, `TooDeep` is the limit `maxreentries`.

The modules compose as the code does: `Forward` with the effect of `Transport` on
a request (reuse, `ErrCachedClosed`), `Cache` with that of `CacheShard` (eviction),
`FileZone` with `ZoneLookup` over `ZoneTree`, and `ZoneReload` runs queries,
reloads, upstream lookups and shutdown together.

## 3. Runs

| Run | Instance | Shows |
|---|---|---|
| `errors_consolidation` | 3 requests, 2 patterns, `stop` | every counted error is logged once, always has a reporter, and is logged in the end |
| `forward` | 1 upstream, 2 requests, probe, shutdown | a failed upstream is probed; a reachable one recovers; every request ends |
| `forward_lists` | 2 upstreams, 3 policies, 1 request, 2 probe goroutines | one check in flight; a down upstream only when all are down; failures have a reason |
| `forward_stop_final` | 1 upstream, 1 request | *violation*, see section 6 |
| `transport` | 2 requests, 2 connections, 2 protocols, expiry after 2 ticks | one owner per connection, replies reach their asker, exactly the expired are dropped, every `Connect` returns |
| `cache_shard` | 5 keys, 3 goroutines, size 1 | how far a shard outgrows its size |
| `cache` | 2 queries with prefetch, 14 kinds of answers, 3 seconds | cached answers are live; a prefetch's copy of the hits reaches the item it stored or a newer one |
| `secondary` | 2 masters, 1 NOTIFY, 2 envelopes, 8 serials from 7 | a complete version and known leftovers go live; SOA and data agree; follows the master over the wrap; expires |
| `secondary_refused` | 1 master | *violation*, see section 6 |
| `zone` | 11 groups of records, every choice of up to four, two of them in every order; 5 names in every order; 16 names, 5 types, with and without DO | tree balance; answers, referrals, name errors, denials and alias chains |
| `zone_reload` | 2 zones, both reloaded and locked, aliases from `a` to `b`, 2 queries, 1 level of re-entry, 1 new file of `a` | one version per reader; NOTIFY after the swap; everything ends |
| `zone_reload_self` | 1 zone, 1 query | *violation*, see section 6 |

Why the bounds are enough for the interesting cases:

- Two requests and a probe are what `FailedUpstreamIsProbed` needs: one request
  starts the probe, the other reports an error while it ends. The probe can only
  have one goroutine (`OneCheckInFlight`, checked with two and proved for any
  number), so `forward` has one. `FailsMod = 3` lets the failure counter wrap.
- Two connections of two protocols give stacks of two, so that the order within a
  stack and the mixing of protocols both matter; an age of 2 has a connection that
  is older than another but not expired.
- Three adders and size 1 make two goroutines pick one victim while a third has
  passed its check; the guard on `surplus` stops the counter, not the race.
- The TTL limits of `cache` lie inside, at and outside the TTLs of the messages
  and the three seconds reach the longest expiry and hold up a query past it; three
  items let a prefetch store its answer while another query stores or updates one.
  Two answers from the cache are what two prefetches at once need.
- Serial 7 of 8 wraps with the first published version; two envelopes can break
  off between them, so that the next master's transfer goes live with a leftover;
  the second master may answer with an error while the first does not answer at
  all.
- The files of `zone` contain each feature `Lookup` branches on, alone and with
  up to three others (empty non-terminals, a delegation with glue, a DNAME, a
  wildcard with and without an alias, a loop of aliases, an NSEC chain, a refused
  type, labels that the dot puts out of order), and five names in every order are
  enough for every rotation and colour flip of `insert`. The names asked for reach
  each exception of the properties: without it the run fails.
- One level of re-entry and two locked zones make a query hold the lock of `a` and
  wait for that of `b` while the reloads of both wait for either, and `TooDeep`
  end the lookup in `b`. Only the file of `a` is replaced (`Edited`): the reload
  goroutine of `b` asks for its lock at every tick all the same.

`errors_consolidation` does not check deadlock: when all requests have returned
and nobody shuts the server down, nothing is left to do. The other passing runs
do.

## 4. Fairness

| Module | Assumed | Because |
|---|---|---|
| `ErrorsConsolidation` | weak, for each request, each timer, and a `stop` that has begun | goroutines are scheduled and timers fire; nobody is obliged to shut down |
| `Forward` | weak, for each request's steps, its deadline and each probe | `Connect` is bounded by the dial and read timeouts, time passes, `time.Sleep` ends; nothing is assumed of arrivals, upstreams or shutdown |
| `Transport` | weak for time, `closeConns` and a request's own steps; strong for `cleanup` and for a send to the manager | the manager's `select` chooses at random among the ready channels, so a sender or a ticker that keeps being ready is not passed over for ever |
| `Secondary` | weak for a call in progress and for `Update`'s wait; strong for each ticker | a tick waits in its channel until the `select` takes it; masters need neither come back nor send a NOTIFY |
| `ZoneReload` | weak for each reload goroutine; strong for the shutdown's sends and for each query | the `select` of the reload goroutine has no favourite; `RWMutex.Unlock` lets the waiting readers in before another `Lock` returns; an upstream answers or times out |

The liveness properties are `CountsGetLogged`, `Recovers`, `EveryRequestEnds`,
`ExpiredGetsClosed`, `ConnectReturns`, `Converges`, `UnreachableExpires`,
`FileServed`, `QueriesFinish` and `ShutdownFinishes`. `Recovers`, `Converges`
and `UnreachableExpires` have the condition on the environment in the formula.
`QueriesFinish` is checked for aliases that lead from one locked zone to another. It
fails when they lead back to the same zone (section 6), and likewise in a circle of
zones: one query has the lock of `a` and waits for that of `b`, another the reverse,
and the two reloads keep both out.

## 5. Proofs

All theorems but `LessIsTotal`, which is plain arithmetic, have the form
`Spec => []Inv`, proved from an inductive invariant
`IndInv` by `Init => IndInv`, `IndInv /\ [Next]_vars => IndInv'` (one step per
action) and `IndInv => Inv`. They hold for every value of the constants that
satisfies the named assumptions of the component's module.

| Module | Theorems | Inductive invariant, and why the property alone is not enough |
|---|---|---|
| `ErrorsConsolidationProofs` | `TypeCorrect`, `ErrorsAccounted`, `ErrorsNotStranded` | adds `TimersConsistent`: the timer that `ptimer[p]` or `stop` holds was armed for `p`. Otherwise `stop` could cancel a timer of one pattern and log another. The accounting is a statement on cardinalities: counting moves one request into a finite set and adds one to the count, and swapping moves the count to the log |
| `ForwardProofs` | `TypeCorrect`, `AtMostOneCheck`, `FailedIsProbed` | adds `ProbeConsistent`: an idle probe has no goroutine and only the shutdown marks it stopped. Then `Do` starts a goroutine only where there is none |
| `CacheShardProofs` | `TypeCorrect`, `ShardSizeBound`, `ShardSoloBound` | strengthens the bound to the elements plus the goroutines that will insert without evicting (`Owed`); a goroutine that removes a victim several have chosen turns the others into such |
| `SecondaryProofs` | `TypeCorrect`, `LiveTreeIsComplete`, `SOANamesData`, `LessIsTotal` | adds `JobsOK`: what `z1` of a goroutine is made of, part by part what it has received and what broken transfers left, and that it sets live only what is complete; `OneTransfer` and `ApexData` follow the two assignments of a transfer that no other overlaps |
| `ZoneReloadProofs` | `TypeCorrect`, `ReadersSeeOneVersion`, `NotifyAfterSwap` | `ReloadOK` ties the lock and the order `notified <= tree <= apex <= file` to the place of the reload goroutine; `FrameOK` says that a reader inside the lock has seen only what the zone still has. Zones of `Reloads` that are not of `Locks` are left out of `OneVersion` |

Assumptions: `Requests` of `ErrorsConsolidation`, `Keys` and `Adders` of
`CacheShard` are finite; counts, sizes and moduli are natural numbers (positive
where zero makes no sense); the serial space is even; `None`, `NoTimer` are not
members of the sets they complete. TLC evaluates all of them on the instances.

Only model-checked: the liveness properties, which need fairness; everything
about `FileZone`, whose operators are recursive over the tree; the invariants of
`Transport` and `Cache`; `DownOnlyIfAllDown` and `FailureJustified` of `Forward`;
the action property `OnlyExpiredDropped`.

## 6. Disagreements between code and documentation

Three runs are expected to find a violation.

1. `forward_stop_final`: `up.go` says "Stop stops the probing", but a check that
   is in flight during `Stop` and succeeds afterwards sets `inprogress` back to
   idle, and the next error starts a probe again (`StopIsFinal`).
2. `secondary_refused`: the comment on `Update` says that a zone that fails to
   transfer is retried and expires. `shouldTransfer` returns no error when every
   master answers with an error code, so such a zone neither retries nor expires
   (`FailingExpires`). With unreachable masters it does (`UnreachableExpires`).
3. `zone_reload_self`: `plugin/file/README.md` says that CNAMEs are resolved
   against CoreDNS itself when no address is given. A lookup of an alias whose
   target is in the zone but not in its tree (a name that only a wildcard covers,
   say) takes the zone's read lock twice; a reload that asks for the lock in
   between makes both wait for ever (`QueriesFinish`).

Seen in the source while modelling, kept as the code has it, and not a run of
their own:

- `ClosestEncloser` goes on with an offset into the name before it cut it, so
  levels are skipped and the encloser it finds is not the closest (against
  `closest.go:9`); a denial then has the NSEC of another wildcard. `DenialCovers`
  asks for the wildcard's NSEC where the closest encloser is the origin.
- `less` compares labels with their dot, so `a` sorts after `a-`, against the
  canonical order that `less.go:11` names. `DenialCovers` leaves out zones with such
  labels (`DotDecides`).
- The apex of a zone with only SOA and NS records is not in the tree, and gets a
  name error for other types although `lookup.go:88` says "Apex will always be
  found". This is the exception `OnlyApex` of `NameErrorIsRight`.
- A wildcard also answers for names below an empty non-terminal next to it.
- A transfer that breaks off leaves its records in `z1`, and they go live with the
  next master's complete transfer, in the same call of `TransferIn`. `left` records
  them; `LiveIsComplete` and `DataForSOA` say that nothing else is added.
- Only `TransferIn` resets `Expired`: a zone that expired stays so when its masters
  come back with the serial it has. `Converges` is about the serial.
- `exists` takes a denial of any age, so the hits of a prefetch go to it and not to
  the success just stored, against the comment at `handler.go:46`. This is the
  exception of `CopyReachesNewItem`.
- With a negative reload interval the reload goroutine runs (`reload.go:13` asks for
  0 only), but lookups take no lock and `OnShutdown` does not stop it.
- `Parse` is given the serial 0 at startup, so a file whose serial is 0 counts as
  unchanged; given -1 it never notes that it has seen a SOA record, and fails.
- One reader is parsed for all origins of a `file` directive, so the second origin
  finds an empty file. The settings of a directive are stored inside the loop over
  its block: without a block the default reload interval is not stored.
- The socket gauge of the pool is not set on every path.
- When a secondary's first transfer fails nothing tries again until a NOTIFY;
  a transfer made by a NOTIFY does not reset the timers of `Update`.

## 7. What is not modelled

`PROJECT.json` ("components") lists every part with the reason. In short:

- the text of log lines, metrics and the Corefile parsers (`setup.go`), except for
  the settings they produce, which are constants;
- wire formats and cryptography: a message is what the code branches on;
- libraries: caddy, miekg/dns, client-go, the etcd and cloud SDKs. What the source
  relies on (Go's RWMutex, select, timers) is modelled from its use;
- data races on slices that answers share with a zone (`lookup.go:292`): answers
  are values in the model;
- `Delete` and its helpers of the zone tree, which nothing calls;
- the parts of section 8 that are still to come.

## 8. Plan

Done: the modules of section 2, in the order errors, forward, pool, cache,
transfers, zone data, reload.

Next, most important first:

1. **`Server`** (`core/dnsserver`, `plugin.go`, `normalize.go`): choice of the
   zone, the chain as an abstract handler that replies or returns a code, the
   fallback reply of the server, re-entry, `Stop` with queries in progress. An
   abstract specification "every query gets exactly one reply" with the server as
   its refinement; a theorem that at most one reply is written. `ZoneReload`'s
   re-entry is then an instance of it.
2. **`Lifecycle`** (`reload`, `health`, `metrics`, `dnstap`, `loop` over caddy's
   restart and shutdown, external): what a failed restart leaves behind, sends
   that nobody receives, what is lost at quit. Hazards: `reload/setup.go:82`,
   `health.go:68`, `loop/setup.go:57`, `dnstapio/io.go:100`.
3. **`AutoZones`** (`auto`): walks, queries, removed zones and their reload
   goroutines, composed with the goroutine of `ZoneReload`.
4. **`KubernetesWatch`** (`kubernetes` controller, `pkg/watch`): informers, the
   unsynchronised map, the unbuffered channel, streams and `Stop`.
5. **`HealthCheck`** (`proxy`, `pkg/healthcheck`): failures that time out, the
   policies, the probe; and **`CopiedZones`** (`route53`, `clouddns`): updates
   against lookups that re-enter the server.
6. **Pure operators**, checked against references over enumerated inputs in one
   run: `Scrub` and `Size` of `request`, `roundRobin` of `loadbalance`, the name
   rules of `rewrite`, `autopath`'s search list, the grouping of server blocks,
   `Zones.Matches`, the merge of `hosts`, `singleflight`.
7. **Proofs**: `OneOwner` and `ReplyReachesAsker` of `Transport`,
   `DownOnlyIfAllDown` and `FailureJustified` of `Forward`, `CopyReachesNewItem` and
   `CachedAnswerIsLive` of `Cache`, the refinement of `Server`.
