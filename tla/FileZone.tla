------------------------------ MODULE FileZone ------------------------------
(***************************************************************************)
(* A zone of the file plugin: Parse reads the records of a zone file and   *)
(* inserts them one by one; then the zone answers queries.                 *)
(***************************************************************************)
EXTENDS ZoneLookup

CONSTANTS
    Origin,        \* the zone's name
    Files,         \* zone files: sequences of records
    LoadedSerials, \* what Parse may be given: 0 at startup, a serial or -1 at a reload
    QNames,        \* names at or below the origin that are asked for
    QTypes,        \* types that are asked for
    Octets         \* Octets[l]: the bytes of label l in a message

VARIABLES
    todo,          \* records of the file that are still to be read
    z,             \* the zone
    serial,        \* Parse's argument of that name
    seenSOA,       \* Parse's local of that name
    parsed,        \* "reading", "ok" or "failed"
    file           \* history: the records of the file

vars == <<todo, z, serial, seenSOA, parsed, file>>

NewZone == [origin |-> Origin, soa |-> <<>>, ns |-> <<>>, sigsoa |-> <<>>, signs |-> <<>>, tree |-> Nil]

Init ==
    /\ todo \in Files /\ file = todo
    /\ serial \in LoadedSerials /\ seenSOA = FALSE
    /\ z = NewZone /\ parsed = "reading"

-----------------------------------------------------------------------------
(* Zone.Insert: the SOA record, the apex NS records and their signatures   *)
(* are kept apart, everything else goes to the tree.                       *)
AtApex(rr) == rr.name = Origin

Refused(rr) == rr.type \in {"NSEC3", "NSEC3PARAM"}

InsertNSAnywhere(zone, rr) ==
    CASE rr.type = "NS" -> [zone EXCEPT !.ns = Append(zone.ns, rr)]
      [] rr.type = "SOA" -> [zone EXCEPT !.soa = <<rr>>]
      [] rr.covers = "SOA" -> [zone EXCEPT !.sigsoa = Append(zone.sigsoa, rr)]
      [] rr.covers = "NS" /\ AtApex(rr) -> [zone EXCEPT !.signs = Append(zone.signs, rr)]
      [] OTHER -> [zone EXCEPT !.tree = Insert(zone.tree, rr)]

InsertRR(zone, rr) ==
    CASE rr.type = "NS" /\ AtApex(rr) -> [zone EXCEPT !.ns = Append(zone.ns, rr)]
      [] rr.type = "SOA" -> [zone EXCEPT !.soa = <<rr>>]
      [] rr.covers = "SOA" -> [zone EXCEPT !.sigsoa = Append(zone.sigsoa, rr)]
      [] rr.covers = "NS" /\ AtApex(rr) -> [zone EXCEPT !.signs = Append(zone.signs, rr)]
      [] OTHER -> [zone EXCEPT !.tree = Insert(zone.tree, rr)]

(* Parse has not seen the serial yet: rr is the record that has it. *)
FirstSOA(rr) == ~seenSOA /\ serial >= 0 /\ rr.type = "SOA"
NoChange(rr) == FirstSOA(rr) /\ rr.data = <<serial>>

ParseRR ==
    /\ parsed = "reading" /\ todo # <<>> /\ ~NoChange(Head(todo)) /\ ~Refused(Head(todo))
    /\ z' = InsertRR(z, Head(todo))
    /\ seenSOA' = (seenSOA \/ FirstSOA(Head(todo)))
    /\ todo' = Tail(todo)
    /\ UNCHANGED <<serial, parsed, file>>

ParseFails ==
    /\ parsed = "reading"
    /\ IF todo = <<>> THEN ~seenSOA ELSE NoChange(Head(todo)) \/ Refused(Head(todo))
    /\ parsed' = "failed" /\ z' = NewZone
    /\ UNCHANGED <<todo, serial, seenSOA, file>>

ParseDone ==
    /\ parsed = "reading" /\ todo = <<>> /\ seenSOA
    /\ parsed' = "ok"
    /\ UNCHANGED <<todo, z, serial, seenSOA, file>>

Served == parsed # "reading" /\ UNCHANGED vars

Next == ParseRR \/ ParseFails \/ ParseDone \/ Served

Spec == Init /\ [][Next]_vars

-----------------------------------------------------------------------------
(* What the file says, independent of the tree. *)
Records == Range(file)
Owners == {rr.name : rr \in Records}
RRset(name, type) == {rr \in Records : rr.name = name /\ rr.type = type}
Sub(name) == {n \in Owners : IsSubDomain(name, n)}

(* The longest name at or above q that exists: it, or one below it, has    *)
(* records.                                                                *)
Closest(q) ==
    LET above == {n \in {SubSeq(q, i, Len(q)) : i \in 1 .. Len(q)} : Sub(n) # {}} IN
    CHOOSE n \in above : \A m \in above : Len(m) <= Len(n)

(* Names at which what is below belongs to someone else. *)
Cuts == {rr.name : rr \in {r \in Records : r.type = "NS" /\ ~AtApex(r)}}
Dnames == {rr.name : rr \in {r \in Records : r.type = "DNAME"}}

(* Records the zone is authoritative for. *)
Hidden(q, type) ==
    \/ \E c \in Cuts : IsSubDomain(c, q) /\ ~(type = "DS" /\ c = q)
    \/ \E d \in Dnames : IsSubDomain(d, q) /\ d # q

(* The queries that are looked at. *)
Live == parsed = "ok"
Question == QNames \X (QTypes \ {"SOA"}) \X BOOLEAN
Ask(q) == Lookup(z, q[1], q[2], q[3])

(* The zone and what is left to read have their types. *)
RRs == UNION {Range(f) : f \in Files}
TypeOK ==
    /\ parsed \in {"reading", "ok", "failed"} /\ serial \in LoadedSerials /\ seenSOA \in BOOLEAN
    /\ file \in Files /\ IsSuffix(todo, file)
    /\ z.origin = Origin /\ Len(z.soa) <= 1
    /\ Range(z.soa) \subseteq {rr \in RRs : rr.type = "SOA"}
    /\ Range(z.ns) \subseteq {rr \in RRs : rr.type = "NS" /\ AtApex(rr)}
    /\ Range(z.sigsoa) \subseteq {rr \in RRs : rr.covers = "SOA"}
    /\ Range(z.signs) \subseteq {rr \in RRs : rr.covers = "NS" /\ AtApex(rr)}

-----------------------------------------------------------------------------
RECURSIVE Black(_)
Black(n) == IF n = Nil THEN {0} ELSE {h + (IF n.color = "black" THEN 1 ELSE 0) : h \in Black(n.left) \union Black(n.right)}

RECURSIVE LeansLeft(_)
LeansLeft(n) ==
    n # Nil => /\ color(n.right) = "black" /\ ~(n.color = "red" /\ color(n.left) = "red")
               /\ LeansLeft(n.left) /\ LeansLeft(n.right)

(* Whatever the order of the records in the file, insert keeps the tree    *)
(* sorted and balanced: every path has as many black nodes, red nodes lean *)
(* left and never follow each other.                                       *)
TreeBalanced ==
    LET es == All(z.tree) IN
    /\ \A i, k \in DOMAIN es : i < k => less(es[i].name, es[k].name) < 0
    /\ Cardinality(Black(z.tree)) = 1
    /\ LeansLeft(z.tree)

(* Nothing in the file gets lost: a record of a name that is not hidden by *)
(* a delegation or a DNAME is in the answer of Lookup to its name and type *)
(* (a name with a CNAME has nothing else), and nothing else of that type   *)
(* and name is.                                                            *)
AnswersFromFile ==
    Live => \A q \in Question :
        LET r == Ask(q) IN
        ~Hidden(q[1], q[2]) /\ RRset(q[1], q[2]) # {} /\ (q[2] = "CNAME" \/ RRset(q[1], "CNAME") = {})
            => /\ r.result = "Success"
               /\ {rr \in Range(r.answer) : rr.type = q[2]} = RRset(q[1], q[2])

(* A referral is given for everything at or below a delegation, unless a   *)
(* DNAME or another delegation is above it: its NS records, no answer, and *)
(* as glue only addresses of name servers below it.                        *)
ReferralIsRight ==
    Live => \A q \in Question :
        LET r == Ask(q)
            above == {c \in Cuts \union Dnames : IsSubDomain(c, q[1]) /\ ~(c \in Dnames \ Cuts /\ c = q[1])
                                                 /\ ~(c \in Cuts /\ q[2] = "DS" /\ c = q[1])}
            top == CHOOSE c \in above : \A d \in above : Len(c) <= Len(d)
        IN  IF above # {} /\ ~(top \in Dnames /\ top # q[1])
            THEN /\ r.result = "Delegation" /\ r.answer = <<>>
                 /\ {rr \in Range(r.ns) : rr.type = "NS"} = RRset(top, "NS")
                 /\ \A rr \in Range(r.extra) : IsSubDomain(top, rr.name) /\ rr.name \in {n.data : n \in RRset(top, "NS")}
            ELSE r.result # "Delegation"

(* The zone has nothing but what Insert keeps out of the tree. *)
OnlyApex == \A rr \in Records : AtApex(rr) /\ (rr.type \in {"SOA", "NS"} \/ rr.covers \in {"SOA", "NS"})

(* A name error is never given for a name that has records or has some     *)
(* below it, that a wildcard below its closest encloser covers, or that is *)
(* at or below a delegation or a DNAME.  The one exception is the apex of  *)
(* a zone with no other records than its SOA and NS: a comment of Lookup   *)
(* says that the apex will always be found, but these are not in the tree. *)
NameErrorIsRight ==
    Live => \A q \in {q1 \in Question : q1[3]} :
        Ask(q).result = "NameError" =>
            /\ Sub(q[1]) = {} \/ (q[1] = Origin /\ OnlyApex)
            /\ <<Star>> \o Closest(q[1]) \notin Owners
            /\ \A d \in Cuts \union Dnames : ~IsSubDomain(d, q[1])

(* RFC 4034, 6.1: names are sorted by their labels from the right, labels  *)
(* as octets, and the absence of an octet or a label comes first.          *)
OctetsFromRight(n) == [i \in DOMAIN n |-> Octets[n[Len(n) - i + 1]]]

Canonical(m, n) ==
    LET s == OctetsFromRight(m)
        t == OctetsFromRight(n)
    IN  \/ IsStrictPrefix(s, t)
        \/ \E i \in DOMAIN s \cap DOMAIN t : ByteLess(s[i], t[i]) /\ SubSeq(s, 1, i - 1) = SubSeq(t, 1, i - 1)

(* Labels one of which goes on with a byte before the dot where the other  *)
(* ends: less compares that byte with the dot, against its comment.        *)
DotDecides(l, m) == \E s, t \in {Octets[l], Octets[m]} : IsStrictPrefix(s, t) /\ t[Len(s) + 1] < Dot

LastBefore(n) ==
    LET before == {m \in Owners : Canonical(m, n)} IN
    CHOOSE m \in before : \A k \in before : m = k \/ Canonical(k, m)

(* The NSEC records with a name error are those that prove it: that of the *)
(* last name before the one asked for, in canonical order, and that of the *)
(* last name before the wildcard which would have covered it, if these     *)
(* names have one.  This is for zones with no labels that DotDecides, and  *)
(* the wildcard's is for names whose closest encloser is the origin:       *)
(* ClosestEncloser goes on with an offset into the name it has cut, and    *)
(* misses most others.                                                     *)
DenialCovers ==
    Live => \A q \in {q1 \in Question : q1[3]} :
        LET r == Ask(q)
            nsec == {rr.name : rr \in {r1 \in Range(r.ns) : r1.type = "NSEC"}}
            labels == UNION {Range(n) : n \in Owners \union {q[1]}}
            denied == {q[1]} \union (IF Closest(q[1]) = Origin /\ RRset(Origin, "NSEC") # {} THEN {<<Star>> \o Origin} ELSE {})
        IN  r.result = "NameError" /\ ~(\E l, m \in labels : DotDecides(l, m))
                => \A n \in denied : n # Origin /\ RRset(LastBefore(n), "NSEC") # {} => LastBefore(n) \in nsec

(* An answer is a chain: it starts at the name asked for, with its DNAME   *)
(* record, if any, before it; each alias is followed by its target's       *)
(* records; and a loop of aliases is cut off.                              *)
ChainFollows ==
    Live => \A q \in Question :
        LET r == Ask(q)
            plain == SelectSeq(r.answer, LAMBDA rr : rr.type \notin {"RRSIG", "DNAME"})
        IN  /\ plain # <<>> => plain[1].name = q[1]
            /\ \A i \in 1 .. Len(plain) - 1 :
                  plain[i + 1].name = (IF plain[i].type = "CNAME" THEN plain[i].data ELSE plain[i].name)
            /\ Len(plain) <= maxChain + 4
=============================================================================
