------------------------------ MODULE ZoneTree ------------------------------
(***************************************************************************)
(* The left-leaning red-black tree that holds a zone of the file plugin    *)
(* (plugin/file/tree, in its bu23 mode), as operators.                     *)
(*                                                                         *)
(* A name is the sequence of its labels, the leftmost first, lower-cased   *)
(* and without the root.  A label is a number that stands for a text: its  *)
(* place in the order in which less compares labels.  Star is "*".  A      *)
(* record has an owner name, a type, the type it covers (for RRSIG) and    *)
(* its data, a name.                                                       *)
(***************************************************************************)
EXTENDS Integers, Sequences, SequencesExt, TLC

CONSTANTS
    Nil,           \* a nil *Node or *Elem
    Text           \* the labels: their bytes as a string has them, escapes included

Star == 1
Dot == 46
Backslash == 92

-----------------------------------------------------------------------------
(* Bytes as bytes.Compare orders them. *)
ByteLess(s, t) ==
    \/ IsStrictPrefix(s, t)
    \/ \E i \in DOMAIN s \cap DOMAIN t : s[i] < t[i] /\ SubSeq(s, 1, i - 1) = SubSeq(t, 1, i - 1)

isDigit(d) == d \in 48 .. 57
dddToByte(s) == ((s[2] - 48) * 100 + (s[3] - 48) * 10 + s[4] - 48) % 256

(* From index i on the escapes in the first lb bytes become bytes; what    *)
(* follows moves up, and the end of s stays behind.                        *)
RECURSIVE doDDD(_, _, _)
doDDD(s, i, lb) ==
    IF i > lb THEN s
    ELSE IF i + 3 <= lb /\ s[i] = Backslash /\ \A k \in 1 .. 3 : isDigit(s[i + k])
    THEN doDDD([k \in DOMAIN s |-> IF k = i THEN dddToByte(SubSeq(s, i, lb))
                                   ELSE IF i < k /\ k <= lb - 3 THEN s[k + 3] ELSE s[k]], i + 1, lb - 3)
    ELSE doDDD(s, i + 1, lb)

(* What less compares of a label, which has its dot. *)
Compared(l) == doDDD(Append(Text[l], Dot), 1, Len(Text[l]) + 1)

ASSUME LabelAssumption ==
    /\ Text[Star] = <<42>>
    /\ \A l, m \in DOMAIN Text : l < m <=> ByteLess(Compared(l), Compared(m))

(* The order of names: label by label from the right, a name that has run  *)
(* out of labels first.                                                    *)
LabelFromRight(n, i) == IF i > Len(n) THEN 0 ELSE n[Len(n) - i + 1]

RECURSIVE lessFrom(_, _, _)
lessFrom(a, b, i) ==
    LET diff == LabelFromRight(a, i) - LabelFromRight(b, i) IN
    IF diff # 0 \/ (i > Len(a) /\ i > Len(b)) THEN diff ELSE lessFrom(a, b, i + 1)

less(a, b) == lessFrom(a, b, 1)

(* How name compares to the element's name. *)
Less(e, name) == less(name, e.name)

-----------------------------------------------------------------------------
(* Elements: the records of one name, by type. *)
newElem(rr) == [name |-> rr.name, m |-> rr.type :> <<rr>>]

Types(e, type) == IF type \in DOMAIN e.m THEN e.m[type] ELSE <<>>

TypesNoCopy(e, type, qname) == Types(e, type)

(* The same records, copied and with another owner. *)
TypesAs(e, type, qname) == [i \in DOMAIN Types(e, type) |-> [Types(e, type)[i] EXCEPT !.name = qname]]

(* Only the data of these types is compared. *)
equalRdata(a, b) == a.type \in {"A", "AAAA", "MX"} /\ a.data = b.data

ElemReplace(e, rr) == [e EXCEPT !.m = (rr.type :> <<rr>>) @@ e.m]

ElemInsert(e, rr) ==
    IF \E i \in DOMAIN Types(e, rr.type) : equalRdata(Types(e, rr.type)[i], rr) THEN e
    ELSE [e EXCEPT !.m = (rr.type :> Append(Types(e, rr.type), rr)) @@ e.m]

-----------------------------------------------------------------------------
(* Nodes. *)
color(n) == IF n = Nil THEN "black" ELSE n.color

rotateLeft(n) ==
    [n.right EXCEPT !.left = [n EXCEPT !.right = n.right.left, !.color = "red"], !.color = n.color]

rotateRight(n) ==
    [n.left EXCEPT !.right = [n EXCEPT !.left = n.left.right, !.color = "red"], !.color = n.color]

Other(c) == IF c = "red" THEN "black" ELSE "red"

flipColors(n) ==
    [n EXCEPT !.color = Other(n.color),
              !.left = [n.left EXCEPT !.color = Other(n.left.color)],
              !.right = [n.right EXCEPT !.color = Other(n.right.color)]]

(* What insert does to a node on its way up. *)
leanLeft(n) == IF color(n.right) = "red" /\ color(n.left) = "black" THEN rotateLeft(n) ELSE n

split4(n) ==
    LET n1 == IF color(n.left) = "red" /\ color(n.left.left) = "red" THEN rotateRight(n) ELSE n
    IN  IF color(n1.left) = "red" /\ color(n1.right) = "red" THEN flipColors(n1) ELSE n1

rebalanceNoRotate(n) == split4(n)

rebalance(n) == split4(leanLeft(n))

RECURSIVE insert(_, _)
insert(n, rr) ==
    IF n = Nil THEN [elem |-> newElem(rr), left |-> Nil, right |-> Nil, color |-> "red"]
    ELSE LET c == Less(n.elem, rr.name) IN
         rebalance(CASE c = 0 -> [n EXCEPT !.elem = ElemInsert(n.elem, rr)]
                     [] c < 0 -> [n EXCEPT !.left = insert(n.left, rr)]
                     [] c > 0 -> [n EXCEPT !.right = insert(n.right, rr)])

Insert(root, rr) == [insert(root, rr) EXCEPT !.color = "black"]

-----------------------------------------------------------------------------
(* Searches; they return an element, or Nil if there is none. *)
RECURSIVE search(_, _)
search(n, qname) ==
    IF n = Nil THEN Nil
    ELSE LET c == Less(n.elem, qname) IN
         CASE c = 0 -> n.elem
           [] c < 0 -> search(n.left, qname)
           [] c > 0 -> search(n.right, qname)

(* The greatest element that is not after qname (Prev). *)
floorNoRight(n, qname) == IF n = Nil \/ Less(n.elem, qname) < 0 THEN Nil ELSE n.elem

RECURSIVE floor(_, _)
floor(n, qname) ==
    IF n = Nil THEN Nil
    ELSE LET c == Less(n.elem, qname) IN
         CASE c = 0 -> n.elem
           [] c < 0 -> floor(n.left, qname)
           [] c > 0 -> LET r == floor(n.right, qname) IN IF r # Nil THEN r ELSE n.elem

(* The smallest element that is not before qname (Next). *)
RECURSIVE ceilNoLeft(_, _)
ceilNoLeft(n, qname) ==
    IF n = Nil THEN Nil
    ELSE LET c == Less(n.elem, qname) IN
         CASE c = 0 -> n.elem
           [] c > 0 -> ceilNoLeft(n.right, qname)
           [] c < 0 -> n.elem

RECURSIVE ceil(_, _)
ceil(n, qname) ==
    IF n = Nil THEN Nil
    ELSE LET c == Less(n.elem, qname) IN
         CASE c = 0 -> n.elem
           [] c > 0 -> ceil(n.right, qname)
           [] c < 0 -> LET l == ceil(n.left, qname) IN IF l # Nil THEN l ELSE n.elem

(* All elements in order. *)
RECURSIVE All(_)
All(n) == IF n = Nil THEN <<>> ELSE All(n.left) \o <<n.elem>> \o All(n.right)
=============================================================================
