----------------------------- MODULE MCFileZone -----------------------------
(***************************************************************************)
(* FileZone for model checking: the zone "o" from every choice of up to    *)
(* four groups of records, one or two of them in every order.              *)
(***************************************************************************)
EXTENDS FileZone

(* "*", "a-", "a", "b", "c", "o", "x" and "\200". *)
MCText == <<<<42>>, <<97, 45>>, <<97>>, <<98>>, <<99>>, <<111>>, <<120>>, <<92, 50, 48, 48>>>>
MCOctets == [MCText EXCEPT ![8] = <<200>>]

ad == 2
a == 3
b == 4
c == 5
o == 6
x == 7
high == 8

R(name, type, data) == [name |-> name, type |-> type, covers |-> "", data |-> data]
Sig(name, type) == [name |-> name, type |-> "RRSIG", covers |-> type, data |-> <<>>]
Nsec(name) == R(name, "NSEC", <<>>)

MCOrigin == <<o>>
Outside == <<x>>

MCApex == <<R(<<o>>, "SOA", <<1>>), R(<<o>>, "NS", <<a, o>>), Sig(<<o>>, "SOA"), Sig(<<o>>, "NS")>>

Groups == {
    <<R(<<o>>, "MX", <<a, o>>), Nsec(<<o>>)>>,
    <<R(<<a, o>>, "A", <<1>>), R(<<a, o>>, "A", <<2>>), Sig(<<a, o>>, "A"), Nsec(<<a, o>>)>>,
    <<R(<<b, o>>, "NS", <<a, b, o>>), R(<<b, o>>, "DS", <<>>), R(<<a, b, o>>, "A", <<1>>)>>,
    <<R(<<b, o>>, "DNAME", <<a, o>>)>>,
    <<R(<<Star, o>>, "A", <<3>>), Nsec(<<Star, o>>), Sig(<<Star, o>>, "A")>>,
    <<R(<<Star, a, o>>, "CNAME", <<c, o>>)>>,
    <<R(<<c, o>>, "CNAME", <<a, o>>), Sig(<<c, o>>, "CNAME")>>,
    <<R(<<c, a, o>>, "CNAME", <<c, b, o>>), R(<<c, b, o>>, "CNAME", <<c, a, o>>)>>,
    <<R(<<b, c, a, o>>, "A", <<4>>), Nsec(<<b, c, a, o>>)>>,
    <<R(<<ad, o>>, "A", <<1>>), Nsec(<<ad, o>>)>>,
    <<R(<<c, o>>, "NSEC3", <<>>)>> }

GroupFiles ==
    {MCApex \o FlattenSeq(s) : s \in UNION {SetToSeqs(S) : S \in UNION {kSubset(k, Groups) : k \in 0 .. 2}}}
    \union {MCApex \o FlattenSeq(SetToSeq(S)) : S \in kSubset(3, Groups) \union kSubset(4, Groups)}

(* For the tree: five names, in every order; a file without a SOA, and one  *)
(* with two, as a transfer has.                                            *)
Plain == {R(n, "A", <<1>>) : n \in {<<a, o>>, <<high, o>>, <<ad, o>>, <<Star, b, o>>, <<b, c, a, o>>}}
PlainFiles == {<<Head(MCApex)>> \o s : s \in SetToSeqs(Plain)}

MCFiles == GroupFiles \union PlainFiles \union {<<R(<<a, o>>, "A", <<1>>)>>, MCApex \o <<Head(MCApex)>>}

MCQNames == {<<o>>, <<a, o>>, <<b, o>>, <<c, o>>, <<Star, o>>, <<a, a, o>>, <<c, a, o>>, <<a, b, o>>, <<c, b, o>>,
             <<a, c, o>>, <<b, c, a, o>>, <<a, c, a, o>>, <<c, a, b, o>>,
             <<ad, o>>, <<b, ad, o>>, <<c, c, a, o>>}
MCQTypes == {"A", "NS", "DS", "CNAME", "MX"}
MCLoadedSerials == {-1, 0, 1}
MCResolvable == {Outside}
=============================================================================
