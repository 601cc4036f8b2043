----------------------------- MODULE Transport -----------------------------
(***************************************************************************)
(* The forward plugin's pool of persistent connections to one upstream     *)
(* (persistent.go) and its users (Dial and Connect in connect.go).  The    *)
(* manager goroutine owns the pool; requests meet it on the unbuffered     *)
(* channels dial, ret and yield, so a send and its receive are one step.   *)
(* Time is the age of the pooled connections, in ticks, up to Expire.      *)
(***************************************************************************)
EXTENDS Integers, Sequences, FiniteSets, SequencesExt, FiniteSetsExt

CONSTANTS
    Clients,   \* goroutines that call Connect
    Conns,     \* connections; a closed one may be opened again as a new one
    Protos,    \* {"udp", "tcp"}, or {"tcp-tls"} if tlsConfig is set
    Expire,    \* Transport.expire, in ticks
    None       \* the nil connection

ASSUME ExpireAssumption == Expire \in Nat \ {0}
ASSUME NoneAssumption == None \notin Conns

VARIABLES
    conns,     \* conns[p]: Transport.conns, stacks of [c, age], oldest first
    manager,   \* where the manager is: "select", "reply" or "done"
    reply,     \* what it is about to send on ret
    client,    \* client[k]: [pc, proto, conn, cached] of a call of Connect
    closing,   \* the batches being closed by goroutines of closeConns
    proto,     \* proto[c]: the network of connection c
    open,      \* the connections not closed on our side
    gauge      \* SocketGauge

vars == <<conns, manager, reply, client, closing, proto, open, gauge>>

Idle == [pc |-> "idle", proto |-> "none", conn |-> None, cached |-> FALSE]

Init ==
    /\ conns = [p \in Protos |-> <<>>]
    /\ manager = "select" /\ reply = None
    /\ client = [k \in Clients |-> Idle]
    /\ closing = {}
    /\ proto = [c \in Conns |-> "none"]
    /\ open = {}
    /\ gauge = 0

(* Transport.len *)
len == MapThenSumSet(LAMBDA p : Len(conns[p]), Protos)

CloseLater(stack) == closing \union {{e.c : e \in Range(stack)}}

-----------------------------------------------------------------------------
(* Connect calls Dial, which is about to send on t.dial. *)
Connect(k) ==
    /\ client[k].pc = "idle" /\ manager # "done"
    /\ \E p \in Protos : client' = [client EXCEPT ![k] = [@ EXCEPT !.pc = "dial", !.proto = p]]
    /\ UNCHANGED <<conns, manager, reply, closing, proto, open, gauge>>

(* connManager receives from t.dial: it takes the last connection if that  *)
(* has not expired, and clears the stack if it has.                        *)
DialOldest(k) ==
    LET p == client[k].proto
        stack == conns[p]
        top == Head(stack)
    IN
    /\ manager = "select" /\ client[k].pc = "dial"
    /\ manager' = "reply"
    /\ client' = [client EXCEPT ![k].pc = "wait"]
    /\ \/ /\ stack # <<>> /\ top.age < Expire
          /\ conns' = [conns EXCEPT ![p] = Tail(@)]
          /\ reply' = top.c
          /\ UNCHANGED <<closing, gauge>>
       \/ /\ stack # <<>> /\ top.age >= Expire
          /\ conns' = [conns EXCEPT ![p] = <<>>]
          /\ closing' = CloseLater(stack)
          /\ reply' = None
          /\ gauge' = len'
       \/ /\ stack = <<>>
          /\ reply' = None
          /\ gauge' = len
          /\ UNCHANGED <<conns, closing>>
    /\ UNCHANGED <<proto, open>>

DialGaugeLow(k) ==
    LET p == client[k].proto
        stack == conns[p]
        top == Last(stack)
    IN
    /\ manager = "select" /\ client[k].pc = "dial"
    /\ manager' = "reply"
    /\ client' = [client EXCEPT ![k].pc = "wait"]
    /\ \/ /\ stack # <<>> /\ top.age < Expire
          /\ conns' = [conns EXCEPT ![p] = Front(@)]
          /\ reply' = top.c
          /\ UNCHANGED <<closing, gauge>>
       \/ /\ stack # <<>> /\ top.age >= Expire
          /\ conns' = [conns EXCEPT ![p] = <<>>]
          /\ closing' = CloseLater(stack)
          /\ reply' = None
          /\ gauge' = len'
       \/ /\ stack = <<>>
          /\ reply' = None
          /\ gauge' = len - 1
          /\ UNCHANGED <<conns, closing>>
    /\ UNCHANGED <<proto, open>>

DialNoNilReply(k) ==
    LET p == client[k].proto
        stack == conns[p]
        top == Last(stack)
    IN
    /\ manager = "select" /\ client[k].pc = "dial"
    /\ client' = [client EXCEPT ![k].pc = "wait"]
    /\ \/ /\ stack # <<>> /\ top.age < Expire
          /\ conns' = [conns EXCEPT ![p] = Front(@)]
          /\ reply' = top.c /\ manager' = "reply"
          /\ UNCHANGED <<closing, gauge>>
       \/ /\ stack # <<>> /\ top.age >= Expire
          /\ conns' = [conns EXCEPT ![p] = <<>>]
          /\ closing' = CloseLater(stack)
          /\ reply' = None /\ manager' = "select"
          /\ gauge' = len'
       \/ /\ stack = <<>>
          /\ reply' = None /\ manager' = "select"
          /\ gauge' = len
          /\ UNCHANGED <<conns, closing>>
    /\ UNCHANGED <<proto, open>>

Dial(k) ==
    LET p == client[k].proto
        stack == conns[p]
        top == Last(stack)
    IN
    /\ manager = "select" /\ client[k].pc = "dial"
    /\ manager' = "reply"
    /\ client' = [client EXCEPT ![k].pc = "wait"]
    /\ \/ /\ stack # <<>> /\ top.age < Expire
          /\ conns' = [conns EXCEPT ![p] = Front(@)]
          /\ reply' = top.c
          /\ UNCHANGED <<closing, gauge>>
       \/ /\ stack # <<>> /\ top.age >= Expire
          /\ conns' = [conns EXCEPT ![p] = <<>>]
          /\ closing' = CloseLater(stack)
          /\ reply' = None
          /\ gauge' = len'
       \/ /\ stack = <<>>
          /\ reply' = None
          /\ gauge' = len
          /\ UNCHANGED <<conns, closing>>
    /\ UNCHANGED <<proto, open>>

(* The manager sends on t.ret; any goroutine receiving there may get it. *)
RetRedial(k) ==
    /\ manager = "reply" /\ client[k].pc = "wait"
    /\ manager' = "select" /\ reply' = None
    /\ client' = [client EXCEPT ![k].pc = IF reply = None THEN "dial" ELSE "exchange",
                                ![k].conn = reply, ![k].cached = reply # None]
    /\ UNCHANGED <<conns, closing, proto, open, gauge>>

Ret(k) ==
    /\ manager = "reply" /\ client[k].pc = "wait"
    /\ manager' = "select" /\ reply' = None
    /\ client' = [client EXCEPT ![k].pc = IF reply = None THEN "dialing" ELSE "exchange",
                                ![k].conn = reply, ![k].cached = reply # None]
    /\ UNCHANGED <<conns, closing, proto, open, gauge>>

(* Dial opens a new connection, or fails. *)
DialNew(k) ==
    /\ client[k].pc = "dialing"
    /\ \/ \E c \in Conns \ open :
             /\ client' = [client EXCEPT ![k].pc = "exchange", ![k].conn = c]
             /\ proto' = [proto EXCEPT ![c] = client[k].proto]
             /\ open' = open \union {c}
       \/ client' = [client EXCEPT ![k] = Idle] /\ UNCHANGED <<proto, open>>
    /\ UNCHANGED <<conns, manager, reply, closing, gauge>>

(* The write or the read fails: Connect closes the connection. *)
ExchangeFailed(k) ==
    /\ client[k].pc = "exchange"
    /\ open' = open \ {client[k].conn}
    /\ client' = [client EXCEPT ![k] = Idle]
    /\ UNCHANGED <<conns, manager, reply, closing, proto, gauge>>

(* The upstream answers: Connect is about to send on t.yield. *)
Exchanged(k) ==
    /\ client[k].pc = "exchange"
    /\ client' = [client EXCEPT ![k].pc = "yield"]
    /\ UNCHANGED <<conns, manager, reply, closing, proto, open, gauge>>

(* connManager receives from t.yield. *)
Yield(k) ==
    LET c == client[k].conn IN
    /\ manager = "select" /\ client[k].pc = "yield"
    /\ conns' = [conns EXCEPT ![proto[c]] = Append(@, [c |-> c, age |-> 0])]
    /\ gauge' = len + 1
    /\ client' = [client EXCEPT ![k] = Idle]
    /\ UNCHANGED <<manager, reply, closing, proto, open>>

-----------------------------------------------------------------------------
(* sort.Search over a stack, by bisection: where the connections younger   *)
(* than Expire begin, if the stack is sorted by age.                       *)
Search(stack) ==
    LET bisect[i \in 1 .. Len(stack) + 1, j \in 1 .. Len(stack) + 1] ==
            LET h == (i + j) \div 2 IN
            IF i >= j THEN i
            ELSE IF stack[h].age < Expire THEN bisect[i, h] ELSE bisect[h + 1, j]
    IN bisect[1, Len(stack) + 1]

(* cleanup(false), on the manager's ticker; one goroutine per protocol     *)
(* closes what expired.                                                    *)
StaleUDP(p) == p = "udp" /\ conns[p] # <<>> /\ Head(conns[p]).age >= Expire

Stale(p) == conns[p] # <<>> /\ Head(conns[p]).age >= Expire

CleanupForgets ==
    /\ manager = "select"
    /\ \E p \in Protos : Stale(p)
    /\ conns' = [p \in Protos |-> IF Stale(p) THEN SubSeq(conns[p], Search(conns[p]), Len(conns[p])) ELSE conns[p]]
    /\ UNCHANGED <<manager, reply, client, closing, proto, open, gauge>>

Cleanup ==
    /\ manager = "select"
    /\ \E p \in Protos : Stale(p)
    /\ conns' = [p \in Protos |-> IF Stale(p) THEN SubSeq(conns[p], Search(conns[p]), Len(conns[p])) ELSE conns[p]]
    /\ closing' = closing \union
         {{e.c : e \in Range(SubSeq(conns[p], 1, Search(conns[p]) - 1))} : p \in {q \in Protos : Stale(q)}}
    /\ UNCHANGED <<manager, reply, client, proto, open, gauge>>

(* Transport.Stop runs as the Proxy's finalizer, so no request can reach   *)
(* the transport any more: cleanup(true), and the manager returns.         *)
Stop ==
    /\ manager = "select" /\ \A k \in Clients : client[k].pc = "idle"
    /\ manager' = "done"
    /\ conns' = [p \in Protos |-> <<>>]
    /\ closing' = closing \union {{e.c : e \in Range(conns[p])} : p \in {q \in Protos : conns[q] # <<>>}}
    /\ UNCHANGED <<reply, client, proto, open, gauge>>

(* closeConns closes one connection of its batch. *)
CloseConn(c) ==
    /\ \E b \in closing :
          /\ c \in b
          /\ closing' = (closing \ {b}) \union ({b \ {c}} \ {{}})
    /\ open' = open \ {c}
    /\ UNCHANGED <<conns, manager, reply, client, proto, gauge>>

Tick ==
    /\ \E p \in Protos : \E e \in Range(conns[p]) : e.age < Expire
    /\ conns' = [p \in Protos |-> [i \in DOMAIN conns[p] |-> [conns[p][i] EXCEPT !.age = Min({@ + 1, Expire})]]]
    /\ UNCHANGED <<manager, reply, client, closing, proto, open, gauge>>

(* After Stop the transport is done. *)
Terminated == manager = "done" /\ closing = {} /\ UNCHANGED vars

ClientStep(k) == Ret(k) \/ DialNew(k) \/ ExchangeFailed(k) \/ Exchanged(k) \/ Dial(k) \/ Yield(k)

Next ==
    \/ \E k \in Clients : Connect(k) \/ ClientStep(k)
    \/ Cleanup \/ Stop \/ Tick \/ Terminated
    \/ \E c \in Conns : CloseConn(c)

Spec == Init /\ [][Next]_vars

(* Time passes, the ticker fires and goroutines are scheduled; select      *)
(* picks a ready channel at random, so that none starves (SF).             *)
FairSpec ==
    /\ Spec
    /\ WF_vars(Tick) /\ SF_vars(Cleanup) /\ \A c \in Conns : WF_vars(CloseConn(c))
    /\ \A k \in Clients : SF_vars(Dial(k)) /\ SF_vars(Yield(k))
    /\ \A k \in Clients : WF_vars(Ret(k) \/ DialNew(k) \/ ExchangeFailed(k) \/ Exchanged(k))

-----------------------------------------------------------------------------
(* Every variable has its type. *)
TypeOK ==
    /\ conns \in [Protos -> Seq([c : Conns, age : 0 .. Expire])]
    /\ manager \in {"select", "reply", "done"} /\ reply \in Conns \union {None}
    /\ client \in [Clients -> [pc : {"idle", "dial", "wait", "dialing", "exchange", "yield"},
                               proto : Protos \union {"none"}, conn : Conns \union {None}, cached : BOOLEAN]]
    /\ closing \subseteq SUBSET Conns
    /\ proto \in [Conns -> Protos \union {"none"}]
    /\ open \subseteq Conns
    /\ gauge \in Nat

(* The places a connection is in: a position of a stack, the manager's     *)
(* hand, a request, a batch to close.                                      *)
Places(c) ==
    Cardinality({<<p, i>> \in Protos \X (1 .. Cardinality(Conns)) : i \in DOMAIN conns[p] /\ conns[p][i].c = c})
    + (IF reply = c THEN 1 ELSE 0)
    + Cardinality({k \in Clients : client[k].conn = c})
    + Cardinality({b \in closing : c \in b})

(* A connection that is open is in exactly one place and a closed one in   *)
(* none: no two requests share one, none is used or pooled after closeConns*)
(* got it ("not reachable from transport methods anymore"), none leaks.    *)
OneOwner == \A c \in Conns : Places(c) = IF c \in open THEN 1 ELSE 0

(* What the manager sends on the shared channel ret reaches the request it *)
(* is for: while it replies exactly one goroutine receives there, and that *)
(* one asked for the connection's protocol.                                *)
ReplyReachesAsker ==
    LET waiting == {k \in Clients : client[k].pc = "wait"} IN
    /\ Cardinality(waiting) = (IF manager = "reply" THEN 1 ELSE 0)
    /\ reply # None => \A k \in waiting : client[k].proto = proto[reply]

(* cleanup and the clearing of an expired stack take away every expired    *)
(* connection of a protocol and no other one: the binary search and Dial's *)
(* look at the last connection only are right because "connections in      *)
(* stack are sorted by used".  Only Dial takes a live one, for a request.  *)
OnlyExpiredDropped ==
    [][\A p \in Protos :
          LET gone == {e \in Range(conns[p]) : \A f \in Range(conns'[p]) : f.c # e.c}
              dropped == {e \in gone : reply' # e.c}
          IN manager' # "done" /\ dropped # {} =>
                /\ \A e \in dropped : e.age = Expire
                /\ \A f \in Range(conns'[p]) : f.age < Expire]_vars

(* A connection that has expired in the pool is closed in the end. *)
ExpiredGetsClosed ==
    \A c \in Conns : (\E p \in Protos : \E e \in Range(conns[p]) : e.c = c /\ e.age = Expire) ~> (c \notin open)

(* Every Connect comes back, whatever the others do. *)
ConnectReturns == \A k \in Clients : (client[k].pc # "idle") ~> (client[k].pc = "idle")
=============================================================================
