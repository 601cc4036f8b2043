------------------------------- MODULE Cache -------------------------------
(***************************************************************************)
(* The cache plugin for one question (name, type, DO bit): lookups, the    *)
(* response writer that stores what the next plugin answers, and prefetch. *)
(* Eviction, which CacheShard models, may drop the entry at any time.      *)
(* Items are shared by pointer, so they live in a heap.                    *)
(***************************************************************************)
EXTENDS Integers, Sequences, FiniteSets, FiniteSetsExt

CONSTANTS
    Queries,                 \* goroutines that run ServeDNS; each may start one prefetch
    Messages,                \* the answers the next plugin may write
    MinimalDefaultTTL, MaximumDefaultTTL,
    minpttl, pttl, minnttl, nttl,   \* limits on the TTL of items
    prefetch, duration, percentage, \* the prefetch settings
    MaxNow, MaxItems, MaxServed,    \* bounds: time, items stored, answers from the cache
    None

VARIABLES
    now,       \* the time
    items,     \* the items stored so far, a sequence
    pcache, ncache,   \* what the caches hold for the question: an item or None
    query,     \* query[q]: [pc, now, item] of a ServeDNS
    reply,     \* the last answer, if it is from the cache: its TTL and cache, the age of
               \* its item and for how long its query had been held up
    fetch,     \* fetch[q]: q's prefetch goroutine, the item it is for, and of its copy the
               \* item exists found and the hits; new is history: the item it stored
    served     \* the number of answers from the cache

vars == <<now, items, pcache, ncache, query, reply, fetch, served>>

NoQuery == [pc |-> "idle", now |-> 0, item |-> None]
NoReply == [cached |-> FALSE, ttl |-> 0, denial |-> FALSE, age |-> 0, delay |-> 0]
NoFetch == [pc |-> "idle", now |-> 0, item |-> None, new |-> None, found |-> None, hits |-> 0]

Init ==
    /\ now = 0 /\ items = <<>> /\ pcache = None /\ ncache = None
    /\ query = [q \in Queries |-> NoQuery]
    /\ reply = NoReply
    /\ fetch = [q \in Queries |-> NoFetch]
    /\ served = 0

-----------------------------------------------------------------------------
(* response.Typify.  A message is reduced to what Typify, MinimalTTL and   *)
(* WriteMsg look at: rrs are the TTLs of all records that are not OPT,     *)
(* badsig is an RRSIG out of its validity period in an answer with DO.     *)
Typify(m) ==
    CASE m.opcode = "update" -> "Update"
      [] m.opcode = "notify" \/ m.xfr -> "Meta"
      [] OTHER ->
            IF m.badsig THEN "OtherError"
            ELSE IF m.answer /\ m.rcode = "success" THEN "NoError"
            ELSE IF m.soa /\ m.rcode = "success" THEN "NoData"
            ELSE IF m.soa /\ m.rcode = "nxdomain" THEN "NameError"
            ELSE IF m.ns /\ m.rcode = "success" THEN "Delegation"
            ELSE IF m.rcode = "success" THEN "NoError"
            ELSE "OtherError"

Denial == {"NameError", "NoData"}
Success == {"NoError", "Delegation"}

(* dnsutil.MinimalTTL *)
MinimalTTL(m, mt) ==
    IF mt \notin {"NoError", "NameError", "NoData"} \/ m.rrs = {}
    THEN MinimalDefaultTTL
    ELSE Min(m.rrs \union {MaximumDefaultTTL})

computeTTL(ttl, least, most) == Min({Max({ttl, least}), most})

Duration(m) ==
    LET mt == Typify(m) IN
    IF mt \in Denial
    THEN computeTTL(MinimalTTL(m, mt), minnttl, nttl)
    ELSE computeTTL(MinimalTTL(m, mt), minpttl, pttl)

(* key and the conditions around set in WriteMsg *)
CacheableNoTTL(m) ==
    ~m.truncated /\ Typify(m) \notin {"OtherError", "Meta", "Update"} /\ m.match

Cacheable(m) ==
    /\ ~m.truncated /\ Typify(m) \notin {"OtherError", "Meta", "Update"}
    /\ Duration(m) > 0 /\ m.match

(* newItem: the frequency starts at the zero time. *)
NewItem(m) ==
    [denial |-> Typify(m) \in Denial, origTTL |-> Duration(m), stored |-> now, hits |-> 0, last |-> -duration - 1]

(* item.ttl *)
TTL(i, t) == items[i].origTTL - (t - items[i].stored)

(* ResponseWriter.set stores by the type; errors and unknown types are not *)
(* stored, whatever key said of them.                                      *)
Stores(m) == Cacheable(m) /\ Typify(m) \in Success \union Denial

set(m) ==
    /\ items' = IF Stores(m) THEN Append(items, NewItem(m)) ELSE items
    /\ pcache' = IF Stores(m) /\ Typify(m) \in Success THEN Len(items) + 1 ELSE pcache
    /\ ncache' = IF Stores(m) /\ Typify(m) \in Denial THEN Len(items) + 1 ELSE ncache

-----------------------------------------------------------------------------
(* The bounds leave room for another query, which stores one item, on a    *)
(* miss or by a prefetch, and serves at most one answer from the cache.    *)
Active == {q \in Queries : query[q].pc # "idle" \/ fetch[q].pc # "idle"}
Room == Len(items) + Cardinality(Active) < MaxItems /\ served + Cardinality(Active) < MaxServed

(* ServeDNS starts: it notes the time. *)
ServeDNS(q) ==
    /\ q \notin Active /\ Room
    /\ query' = [query EXCEPT ![q] = [pc |-> "get", now |-> now, item |-> None]]
    /\ UNCHANGED <<now, items, pcache, ncache, reply, fetch, served>>

(* Cache.get looks in the denial cache, then in the other one; a live item *)
(* is written to the client.                                               *)
Live(i, t) == i # None /\ TTL(i, t) > 0

Hit(q, i) ==
    /\ query' = [query EXCEPT ![q] = IF prefetch > 0 THEN [@ EXCEPT !.pc = "update", !.item = i] ELSE NoQuery]
    /\ reply' = [cached |-> TRUE, ttl |-> TTL(i, query[q].now), denial |-> items[i].denial,
                 age |-> now - items[i].stored, delay |-> now - query[q].now]
    /\ served' = served + 1

GetDenial(q) ==
    /\ query[q].pc = "get"
    /\ IF Live(ncache, query[q].now)
       THEN Hit(q, ncache)
       ELSE query' = [query EXCEPT ![q].pc = "getp"] /\ UNCHANGED <<reply, served>>
    /\ UNCHANGED <<now, items, pcache, ncache, fetch>>

GetSuccessExpired(q) ==
    /\ query[q].pc = "getp"
    /\ IF pcache # None /\ TTL(pcache, query[q].now) >= 0
       THEN Hit(q, pcache)
       ELSE query' = [query EXCEPT ![q] = [NoQuery EXCEPT !.pc = "miss"]] /\ UNCHANGED <<reply, served>>
    /\ UNCHANGED <<now, items, pcache, ncache, fetch>>

GetSuccess(q) ==
    /\ query[q].pc = "getp"
    /\ IF Live(pcache, query[q].now)
       THEN Hit(q, pcache)
       ELSE query' = [query EXCEPT ![q] = [NoQuery EXCEPT !.pc = "miss"]] /\ UNCHANGED <<reply, served>>
    /\ UNCHANGED <<now, items, pcache, ncache, fetch>>

(* Freq.Update *)
Update(q) ==
    LET i == query[q].item
        t == query[q].now IN
    /\ query[q].pc = "update"
    /\ items' = [items EXCEPT ![i].hits = IF items[i].last < t - duration THEN 1 ELSE @ + 1, ![i].last = t]
    /\ query' = [query EXCEPT ![q].pc = "decide"]
    /\ UNCHANGED <<now, pcache, ncache, reply, fetch, served>>

(* A popular item close to its end is fetched again in the background. *)
Threshold(i) == (percentage * items[i].origTTL + 99) \div 100

Decide(q) ==
    LET i == query[q].item IN
    /\ query[q].pc = "decide"
    /\ fetch' = IF items[i].hits >= prefetch /\ TTL(i, query[q].now) <= Threshold(i)
                THEN [fetch EXCEPT ![q] = [NoFetch EXCEPT !.pc = "next", !.now = query[q].now, !.item = i]]
                ELSE fetch
    /\ query' = [query EXCEPT ![q] = NoQuery]
    /\ UNCHANGED <<now, items, pcache, ncache, reply, served>>

(* The next plugin answers a miss: WriteMsg stores the message and writes  *)
(* it to the client.                                                       *)
WriteMsg(q) ==
    /\ query[q].pc = "miss"
    /\ \E m \in Messages : set(m)
    /\ reply' = NoReply
    /\ query' = [query EXCEPT ![q] = NoQuery]
    /\ UNCHANGED <<now, fetch, served>>

(* The prefetch gets its answer, or none. *)
PrefetchWrite(q) ==
    /\ fetch[q].pc = "next"
    /\ \/ \E m \in Messages :
             set(m) /\ fetch' = [fetch EXCEPT ![q].pc = "existsn", ![q].new = IF Stores(m) THEN Len(items) + 1 ELSE None]
       \/ fetch' = [fetch EXCEPT ![q].pc = "existsn"] /\ UNCHANGED <<items, pcache, ncache>>
    /\ UNCHANGED <<now, query, reply, served>>

(* Cache.exists, which does not look at the TTL: one Get of the denial     *)
(* cache and, if that has nothing, one of the other.                       *)
Found(q, i) == fetch' = [fetch EXCEPT ![q].pc = "hits", ![q].found = i]

ExistsSkipDenial(q) ==
    /\ fetch[q].pc = "existsn"
    /\ fetch' = [fetch EXCEPT ![q].pc = "existsp"]
    /\ UNCHANGED <<now, items, pcache, ncache, query, reply, served>>

ExistsDenial(q) ==
    /\ fetch[q].pc = "existsn"
    /\ IF ncache # None THEN Found(q, ncache) ELSE fetch' = [fetch EXCEPT ![q].pc = "existsp"]
    /\ UNCHANGED <<now, items, pcache, ncache, query, reply, served>>

ExistsSuccess(q) ==
    /\ fetch[q].pc = "existsp"
    /\ IF pcache # None THEN Found(q, pcache) ELSE fetch' = [fetch EXCEPT ![q] = NoFetch]
    /\ UNCHANGED <<now, items, pcache, ncache, query, reply, served>>

(* Freq.Hits of the old item, then Freq.Reset of the one that was found,   *)
(* each under the lock of its own item.                                    *)
PrefetchHits(q) ==
    /\ fetch[q].pc = "hits"
    /\ fetch' = [fetch EXCEPT ![q].pc = "reset", ![q].item = None, ![q].hits = items[fetch[q].item].hits]
    /\ UNCHANGED <<now, items, pcache, ncache, query, reply, served>>

PrefetchReset(q) ==
    /\ fetch[q].pc = "reset"
    /\ items' = [items EXCEPT ![fetch[q].found].last = fetch[q].now, ![fetch[q].found].hits = fetch[q].hits]
    /\ fetch' = [fetch EXCEPT ![q] = NoFetch]
    /\ UNCHANGED <<now, pcache, ncache, query, reply, served>>

(* Another question's Add evicts the entry. *)
Evict ==
    /\ \/ ncache # None /\ ncache' = None /\ UNCHANGED pcache
       \/ pcache # None /\ pcache' = None /\ UNCHANGED ncache
    /\ UNCHANGED <<now, items, query, reply, fetch, served>>

(* A second passes, between any two steps: a goroutine may be held up      *)
(* after it noted the time, and writing to the client may block.           *)
Tick ==
    /\ now < MaxNow
    /\ now' = now + 1
    /\ UNCHANGED <<items, pcache, ncache, query, reply, fetch, served>>

(* Nothing is left to do within the bounds. *)
Done == Active = {} /\ ~Room /\ UNCHANGED vars

Next ==
    \/ \E q \in Queries : \/ ServeDNS(q) \/ GetDenial(q) \/ GetSuccess(q) \/ Update(q) \/ Decide(q)
                          \/ WriteMsg(q) \/ PrefetchWrite(q) \/ ExistsDenial(q) \/ ExistsSuccess(q)
                          \/ PrefetchHits(q) \/ PrefetchReset(q)
    \/ Evict \/ Tick \/ Done

Spec == Init /\ [][Next]_vars

-----------------------------------------------------------------------------
ItemIds == 1 .. Len(items)

(* Every variable has its type. *)
TypeOK ==
    /\ now \in 0 .. MaxNow
    /\ items \in Seq([denial : BOOLEAN, origTTL : Nat \ {0}, stored : 0 .. MaxNow,
                      hits : Nat, last : Int])
    /\ pcache \in ItemIds \union {None} /\ ncache \in ItemIds \union {None}
    /\ query \in [Queries -> [pc : {"idle", "get", "getp", "update", "decide", "miss"}, now : 0 .. MaxNow,
                              item : ItemIds \union {None}]]
    /\ fetch \in [Queries -> [pc : {"idle", "next", "existsn", "existsp", "hits", "reset"}, now : 0 .. MaxNow,
                              item : ItemIds \union {None}, new : ItemIds \union {None},
                              found : ItemIds \union {None}, hits : Nat]]
    /\ served \in Nat

(* An answer from the cache has a TTL of at least one second.  The time is *)
(* noted before the lookup and items are stored meanwhile, so the TTL may  *)
(* exceed the maximum for a denial or a success, and the item may be older *)
(* than that, but only by the time for which the query itself was held up. *)
CachedAnswerIsLive ==
    LET most == IF reply.denial THEN nttl ELSE pttl IN
    reply.cached => /\ reply.ttl \in 1 .. most + reply.delay
                    /\ reply.age < most + reply.delay

(* A prefetch copies the frequency to the item it stored, or to a newer    *)
(* one, as long as its item is cached; other queries, prefetches and       *)
(* evictions may come between the write, the two lookups and the copy.     *)
(* The exception is a denial, however old, in the way of a new success:    *)
(* exists takes it without a look at its TTL (handler.go:83).              *)
CopyReachesNewItem ==
    \A q \in Queries :
        LET f == fetch[q] IN
        f.found # None /\ f.new \in {pcache, ncache} \ {None}
            => \/ f.found >= f.new
               \/ items[f.found].denial /\ ~items[f.new].denial
=============================================================================
