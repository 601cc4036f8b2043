----------------------------- MODULE ZoneLookup -----------------------------
(***************************************************************************)
(* How the file plugin answers a query from a zone (lookup.go, zone.go,    *)
(* closest.go, wildcard.go and dname.go of plugin/file), as operators.     *)
(* A zone is a record of its origin, the apex records soa, ns, sigsoa and  *)
(* signs, each a sequence, and the root of its tree.                       *)
(***************************************************************************)
EXTENDS ZoneTree, FiniteSetsExt

CONSTANT Resolvable    \* names Upstream.Lookup can resolve

maxChain == 8

IsSubDomain(parent, child) == IsSuffix(parent, child)

soa(z, do) == IF do THEN z.soa \o z.sigsoa ELSE z.soa
ns(z, do) == IF do THEN z.ns \o z.signs ELSE z.ns

signatureForSubType(rrs, subtype) == SelectSeq(rrs, LAMBDA rr : rr.covers = subtype)

(* The signatures of a type, if they are asked for. *)
sigs(elem, type, do) == IF do THEN signatureForSubType(Types(elem, "RRSIG"), type) ELSE <<>>

typeFromElem(elem, type, do) == Types(elem, type) \o sigs(elem, type, do)

(* The same, but no signatures if there is nothing that they sign. *)
existing(elem, type, do) == IF Types(elem, type) = <<>> THEN <<>> ELSE typeFromElem(elem, type, do)

-----------------------------------------------------------------------------
(* The addresses of a name, with their signatures. *)
searchGlue(z, name, do) ==
    LET elem == search(z.tree, name) IN
    IF elem = Nil THEN <<>> ELSE typeFromElem(elem, "A", do) \o typeFromElem(elem, "AAAA", do)

Glue(z, nsrrs, do) ==
    FlattenSeq([i \in DOMAIN nsrrs |->
        IF nsrrs[i].type = "NS" /\ IsSubDomain(nsrrs[i].name, nsrrs[i].data)
        THEN searchGlue(z, nsrrs[i].data, do) ELSE <<>>])

(* Additional section processing for MX and SRV. *)
additional(z, answer, do) ==
    FlattenSeq([i \in DOMAIN answer |->
        IF answer[i].type \in {"MX", "SRV"} /\ IsSubDomain(z.origin, answer[i].data)
        THEN LET elem == search(z.tree, answer[i].data)
             IN  IF elem = Nil THEN <<>> ELSE existing(elem, "A", do) \o existing(elem, "AAAA", do)
        ELSE <<>>])

-----------------------------------------------------------------------------
externalLookup(target, qtype) ==
    IF target \in Resolvable THEN <<[name |-> target, type |-> qtype, covers |-> "", data |-> target]>> ELSE <<>>

(* From the element of a CNAME's target on: more CNAMEs, up to maxChain of *)
(* them, then the records asked for.                                       *)
RECURSIVE Redo(_, _, _, _, _, _)
Redo(z, elem, qtype, do, rrs, i) ==
    LET cname == Types(elem, "CNAME")
        rrs1 == rrs \o cname \o sigs(elem, "CNAME", do)
        next == search(z.tree, cname[1].data)
    IN
    IF cname = <<>> THEN rrs \o existing(elem, qtype, do)
    ELSE IF next = Nil THEN rrs1 \o externalLookup(cname[1].data, qtype)
    ELSE IF i + 1 > maxChain THEN rrs1
    ELSE Redo(z, next, qtype, do, rrs1, i + 1)

additionalProcessing(z, elem, qtype, do, cname) ==
    LET rrs == cname \o sigs(elem, "CNAME", do)
        target == search(z.tree, rrs[1].data)
    IN  IF target = Nil THEN rrs \o externalLookup(rrs[1].data, qtype) ELSE Redo(z, target, qtype, do, rrs, 0)

(* RFC 6672 substitution of a DNAME record for a name below its owner. *)
synthesizeCNAME(qname, dname) ==
    [name |-> qname, type |-> "CNAME", covers |-> "",
     data |-> SubSeq(qname, 1, Len(qname) - Len(dname.name)) \o dname.data]

-----------------------------------------------------------------------------
(* The origin and i more labels of qname. *)
nameFromRight(z, qname, i) == SubSeq(qname, Len(qname) - Len(z.origin) - i + 1, Len(qname))

replaceWithAsteriskLabel(qname) == IF Len(qname) <= 1 THEN <<>> ELSE <<Star>> \o Tail(qname)

(* The offset of label k, and of the first label after byte offset off.    *)
Offset(qname, k) == FoldFunction(LAMBDA l, sum : sum + Len(Text[l]) + 1, 0, SubSeq(qname, 1, k - 1))

NextLabel(qname, off) ==
    LET after == {k \in 2 .. Len(qname) : Offset(qname, k) > off} IN
    IF after = {} THEN [k |-> 0, off |-> 0, end |-> TRUE] ELSE [k |-> Min(after), off |-> Offset(qname, Min(after)), end |-> FALSE]

RECURSIVE Encloser(_, _, _)
Encloser(z, qname, label) ==
    LET elem == search(z.tree, qname)
        rest == SubSeq(qname, label.k, Len(qname))
    IN  IF label.end THEN search(z.tree, z.origin)
        ELSE IF elem # Nil THEN elem
        ELSE Encloser(z, rest, NextLabel(rest, label.off))

ClosestEncloser(z, qname) == Encloser(z, qname, NextLabel(qname, 0))

-----------------------------------------------------------------------------
Reply(result, answer, auth, extra) == [result |-> result, answer |-> answer, ns |-> auth, extra |-> extra]

(* The levels of the loop of Lookup at which it returns: those of a DNAME  *)
(* above qname, and of a delegation, except when its own DS is asked for.  *)
dnameAt(elem, qname) == Types(elem, "DNAME") # <<>> /\ IsSubDomain(elem.name, qname) /\ qname # elem.name
delegationAtName(elem, qname, qtype) == Types(elem, "NS") # <<>> /\ elem.name = qname /\ qtype # "DS"
delegationAt(elem, qname, qtype) == Types(elem, "NS") # <<>> /\ ~(qtype = "DS" /\ elem.name = qname)

(* Lookup finds all of qname. *)
FoundName(z, elem, qname, qtype, do) ==
    LET rrs == TypesAs(elem, qtype, qname) IN
    IF Types(elem, "CNAME") # <<>> /\ qtype # "CNAME"
    THEN Reply("Success", additionalProcessing(z, elem, qtype, do, Types(elem, "CNAME")), ns(z, do), <<>>)
    ELSE IF rrs = <<>>
    THEN Reply("NoData", <<>>, soa(z, do) \o (IF do THEN typeFromElem(elem, "NSEC", do) ELSE <<>>), <<>>)
    ELSE Reply("Success", rrs \o sigs(elem, qtype, do), ns(z, do), additional(z, rrs, do))

(* Lookup finds a wildcard for qname. *)
FoundWildcard(z, wild, qname, qtype, do) ==
    LET rrs == TypesAs(wild, qtype, qname)
        deny == floor(z.tree, qname)
    IN
    IF Types(wild, "CNAME") # <<>>
    THEN Reply("Success", additionalProcessing(z, wild, qtype, do, TypesAs(wild, "CNAME", qname)), ns(z, do), <<>>)
    ELSE IF rrs = <<>>
    THEN Reply("Success", <<>>, soa(z, do) \o (IF do THEN typeFromElem(wild, "NSEC", do) ELSE <<>>), <<>>)
    ELSE Reply("Success",
               rrs \o (IF do THEN signatureForSubType(TypesAs(wild, "RRSIG", qname), qtype) ELSE <<>>),
               ns(z, do) \o (IF do /\ deny # Nil THEN typeFromElem(deny, "NSEC", do) ELSE <<>>), <<>>)

(* Lookup finds nothing: a name error, unless a longer name exists. *)
NotFound(z, qname, do) ==
    LET next == ceil(z.tree, qname)
        result == IF next # Nil /\ IsSubDomain(qname, next.name) THEN "Success" ELSE "NameError"
        deny == floor(z.tree, qname)
        ce == ClosestEncloser(z, qname)
        ss == IF ce = Nil THEN Nil ELSE floor(z.tree, <<Star>> \o ce.name)
        denyWild == result = "NameError" /\ ss # Nil /\ ss.name # deny.name
    IN  Reply(result, <<>>,
              soa(z, do) \o (IF do /\ deny # Nil
                             THEN typeFromElem(deny, "NSEC", do) \o
                                  (IF denyWild THEN typeFromElem(ss, "NSEC", do) ELSE <<>>)
                             ELSE <<>>), <<>>)

(* The deepest wildcard found at a level where the name is missing. *)
wildElem(z, qname) ==
    LET parts(i) == nameFromRight(z, qname, i)
        levels == {i \in 0 .. Len(qname) - Len(z.origin) :
                      search(z.tree, parts(i)) = Nil /\ search(z.tree, replaceWithAsteriskLabel(parts(i))) # Nil}
    IN  IF levels = {} THEN Nil ELSE search(z.tree, replaceWithAsteriskLabel(parts(Max(levels))))

Lookup(z, qname, qtype, do) ==
    LET at(i) == search(z.tree, nameFromRight(z, qname, i))
        stops == {i \in 0 .. Len(qname) - Len(z.origin) :
                     at(i) # Nil /\ (dnameAt(at(i), qname) \/ delegationAt(at(i), qname, qtype))}
        elem == at(Min(stops))
        dnamerrs == Types(elem, "DNAME")
        nsrrs == Types(elem, "NS")
        full == search(z.tree, qname)
        wild == wildElem(z, qname)
    IN
    CASE z.soa = <<>> -> Reply("ServerFailure", <<>>, <<>>, <<>>)
      [] z.soa # <<>> /\ qtype = "SOA" -> Reply("Success", soa(z, do), ns(z, do), <<>>)
      [] z.soa # <<>> /\ qtype = "NS" /\ qname = z.origin -> Reply("Success", ns(z, do), <<>>, Glue(z, ns(z, do), do))
      [] OTHER ->
         IF stops # {} /\ dnameAt(elem, qname)
         THEN Reply("Success",
                    dnamerrs \o sigs(elem, "DNAME", do) \o
                        additionalProcessing(z, elem, qtype, do, <<synthesizeCNAME(qname, dnamerrs[1])>>),
                    ns(z, do), <<>>)
         ELSE IF stops # {}
         THEN Reply("Delegation", <<>>, nsrrs \o (IF do THEN typeFromElem(elem, "DS", do) ELSE <<>>), Glue(z, nsrrs, do))
         ELSE IF full # Nil THEN FoundName(z, full, qname, qtype, do)
         ELSE IF wild # Nil THEN FoundWildcard(z, wild, qname, qtype, do)
         ELSE NotFound(z, qname, do)
=============================================================================
