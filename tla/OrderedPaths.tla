---------------------------- MODULE OrderedPaths ----------------------------
(***************************************************************************)
(* Lemmas about sequences of numbers that flow through a pipeline: what a  *)
(* stage holds is a segment of the path, an item moves from the head of a  *)
(* segment to the end of the one before it, enters at the end of the path, *)
(* or is taken out of it.  Both players are proved with them.              *)
(***************************************************************************)
EXTENDS Naturals, Sequences, SequencesExt, SequenceTheorems, TLAPS

Ascending(p) == \A i, j \in DOMAIN p : i < j => p[i] < p[j]

(* The first n items are on the path, in their order, or out of it.        *)
Accounted(p, out, n) ==
    /\ Ascending(p)
    /\ ToSet(p) \cup out = 1..n
    /\ ToSet(p) \cap out = {}

(* The path q is what p becomes when the items of L are taken out.         *)
Loses(p, q, L) ==
    /\ ToSet(p) = ToSet(q) \cup L
    /\ Ascending(p) => Ascending(q) /\ ToSet(q) \cap L = {}

LEMMA Short ==
    ASSUME NEW x
    PROVE  ToSet(<<>>) = {} /\ ToSet(<<x>>) = {x}
<1>1. ToSet(<<x>>) = {x}
  BY DEF ToSet
<1>2. ToSet(<<>>) = {}
  BY DEF ToSet
<1> QED
  BY <1>1, <1>2

LEMMA ElementsAreNat == ASSUME NEW p \in Seq(Nat) PROVE ToSet(p) \subseteq Nat
BY DEF ToSet

LEMMA Single ==
    ASSUME NEW p \in Seq(Nat), p # <<>>, Len(p) <= 1
    PROVE  p = <<Head(p)>> /\ Head(p) \in Nat /\ ToSet(p) = {Head(p)} /\ Len(p) = 1
<1>1. Len(p) \in Nat /\ Len(p) # 0
  OBVIOUS
<1>2. \A n \in Nat : n # 0 /\ n <= 1 => n = 1
  OBVIOUS
<1>3. Len(p) = 1
  BY <1>1, <1>2, Zenon
<1> QED
  BY <1>3 DEF ToSet

LEMMA HeadAndTail ==
    ASSUME NEW p \in Seq(Nat), p # <<>>
    PROVE  /\ p = <<Head(p)>> \o Tail(p)
           /\ Head(p) \in Nat /\ Head(p) \in ToSet(p) /\ Tail(p) \in Seq(Nat)
           /\ Len(Tail(p)) = Len(p) - 1
<1>1. p = <<Head(p)>> \o Tail(p)
  OBVIOUS
<1>2. Head(p) \in Nat /\ Head(p) \in ToSet(p)
  BY DEF ToSet
<1> QED
  BY <1>1, <1>2

LEMMA AppendIsConcatOfOne ==
    ASSUME NEW p \in Seq(Nat), NEW x \in Nat
    PROVE  Append(p, x) = p \o <<x>> /\ Append(p, x) \in Seq(Nat)
<1>1. Append(p, x) \in Seq(Nat) /\ <<x>> \in Seq(Nat)
  OBVIOUS
<1>2. Append(p, x) = p \o <<x>>
  BY AppendIsConcat
<1> QED
  BY <1>1, <1>2

LEMMA Associative ==
    \A a, b, c \in Seq(Nat) : (a \o b) \o c = a \o (b \o c)
<1> SUFFICES ASSUME NEW a \in Seq(Nat), NEW b \in Seq(Nat), NEW c \in Seq(Nat)
             PROVE  (a \o b) \o c = a \o (b \o c)
  OBVIOUS
<1> QED
  BY ConcatAssociative

LEMMA ConcatElements ==
    ASSUME NEW a \in Seq(Nat), NEW b \in Seq(Nat)
    PROVE  ToSet(a \o b) = ToSet(a) \cup ToSet(b)
<1>1. ToSet(a \o b) \subseteq ToSet(a) \cup ToSet(b)
  BY DEF ToSet
<1>2. ToSet(a) \subseteq ToSet(a \o b)
  BY DEF ToSet
<1>3. ToSet(b) \subseteq ToSet(a \o b)
  <2> SUFFICES ASSUME NEW j \in DOMAIN b PROVE b[j] \in ToSet(a \o b)
    BY DEF ToSet
  <2>1. j + Len(a) \in DOMAIN (a \o b) /\ (a \o b)[j + Len(a)] = b[j]
    OBVIOUS
  <2> QED
    BY <2>1 DEF ToSet
<1> QED
  BY <1>1, <1>2, <1>3

LEMMA ConcatAscending ==
    ASSUME NEW a \in Seq(Nat), NEW b \in Seq(Nat)
    PROVE  Ascending(a \o b) <=>
               /\ Ascending(a) /\ Ascending(b)
               /\ \A x \in ToSet(a), y \in ToSet(b) : x < y
<1> DEFINE c == a \o b
<1>0. /\ \A i \in DOMAIN a : i \in DOMAIN c /\ c[i] = a[i]
      /\ \A i \in DOMAIN b : i + Len(a) \in DOMAIN c /\ c[i + Len(a)] = b[i]
      /\ DOMAIN a = 1..Len(a) /\ DOMAIN b = 1..Len(b) /\ DOMAIN c = 1..(Len(a) + Len(b))
      /\ Len(a) \in Nat /\ Len(b) \in Nat
      /\ \A i \in DOMAIN c : i > Len(a) => i - Len(a) \in DOMAIN b /\ c[i] = b[i - Len(a)]
  OBVIOUS
<1> HIDE DEF c
<1>1. ASSUME Ascending(c)
      PROVE  /\ Ascending(a) /\ Ascending(b)
             /\ \A x \in ToSet(a), y \in ToSet(b) : x < y
  <2>1. Ascending(a)
    BY <1>0, <1>1 DEF Ascending
  <2>2. ASSUME NEW i \in DOMAIN b, NEW j \in DOMAIN b, i < j
        PROVE  b[i] < b[j]
    <3>1. i + Len(a) < j + Len(a)
      BY <1>0, <2>2
    <3> QED
      BY <1>0, <1>1, <3>1 DEF Ascending
  <2>3. ASSUME NEW i \in DOMAIN a, NEW j \in DOMAIN b
        PROVE  a[i] < b[j]
    <3>1. i < j + Len(a)
      BY <1>0
    <3> QED
      BY <1>0, <1>1, <3>1 DEF Ascending
  <2> QED
    BY <2>1, <2>2, <2>3 DEF Ascending, ToSet
<1>2. ASSUME Ascending(a), Ascending(b), \A x \in ToSet(a), y \in ToSet(b) : x < y
      PROVE  Ascending(c)
  <2> SUFFICES ASSUME NEW i \in DOMAIN c, NEW j \in DOMAIN c, i < j
               PROVE  c[i] < c[j]
    BY DEF Ascending
  <2>1. CASE j <= Len(a)
    BY <1>0, <1>2, <2>1 DEF Ascending
  <2>2. CASE i > Len(a)
    <3>1. i - Len(a) < j - Len(a) /\ j > Len(a)
      BY <1>0, <2>2
    <3> QED
      BY <1>0, <1>2, <2>2, <3>1 DEF Ascending
  <2>3. CASE i <= Len(a) /\ j > Len(a)
    <3>1. i \in DOMAIN a /\ j - Len(a) \in DOMAIN b
      BY <1>0, <2>3
    <3>2. a[i] \in ToSet(a) /\ b[j - Len(a)] \in ToSet(b)
      BY <3>1 DEF ToSet
    <3> QED
      BY <1>0, <1>2, <2>3, <3>1, <3>2
  <2> QED
    BY <1>0, <2>1, <2>2, <2>3
<1> QED
  BY <1>1, <1>2 DEF c

(* An item moves between neighbouring segments: the path is the same.      *)
LEMMA MoveHead ==
    ASSUME NEW a \in Seq(Nat), NEW q \in Seq(Nat), q # <<>>
    PROVE  (a \o <<>>) \o q = (a \o <<Head(q)>>) \o Tail(q)
OBVIOUS

LEMMA MoveLast ==
    ASSUME NEW a \in Seq(Nat), NEW q \in Seq(Nat), NEW x \in Nat
    PROVE  (a \o q) \o <<x>> = (a \o Append(q, x)) \o <<>>
<1>1. <<x>> \in Seq(Nat) /\ Append(q, x) = q \o <<x>> /\ a \o (q \o <<x>>) \in Seq(Nat)
  BY AppendIsConcatOfOne
<1> QED
  BY <1>1, ConcatAssociative, ConcatEmptySeq

(* A segment is taken out, at the end of a path or inside it.              *)
LEMMA LosesSegment ==
    ASSUME NEW a \in Seq(Nat), NEW b \in Seq(Nat)
    PROVE  Loses(a \o b, a, ToSet(b))
<1>1. ASSUME Ascending(a \o b), NEW x \in ToSet(a), NEW y \in ToSet(b)
      PROVE  x # y
  BY <1>1, ConcatAscending, ElementsAreNat
<1> QED
  BY <1>1, ConcatElements, ConcatAscending DEF Loses

LEMMA LosesInside ==
    ASSUME NEW p \in Seq(Nat), NEW q \in Seq(Nat), NEW L, NEW c \in Seq(Nat), Loses(p, q, L)
    PROVE  Loses(p \o c, q \o c, L)
<1>1. ToSet(p \o c) = ToSet(q \o c) \cup L
  BY ConcatElements DEF Loses
<1>2. ASSUME Ascending(p \o c)
      PROVE  Ascending(q \o c) /\ ToSet(q \o c) \cap L = {}
  <2>1. /\ Ascending(p) /\ Ascending(c)
        /\ \A x \in ToSet(p), y \in ToSet(c) : x < y
    BY <1>2, ConcatAscending
  <2>2. Ascending(q \o c)
    BY <2>1, ConcatAscending DEF Loses
  <2>3. \A x \in ToSet(p), y \in ToSet(c) : x # y
    BY <2>1, ElementsAreNat
  <2> QED
    BY <2>1, <2>2, <2>3, ConcatElements DEF Loses
<1> QED
  BY <1>1, <1>2 DEF Loses

LEMMA LosesHead ==
    ASSUME NEW a \in Seq(Nat), NEW q \in Seq(Nat), q # <<>>
    PROVE  Loses(a \o q, a \o Tail(q), {Head(q)})
<1>1. <<Head(q)>> \in Seq(Nat) /\ Tail(q) \in Seq(Nat)
  BY HeadAndTail
<1>2. a \o q = (a \o <<Head(q)>>) \o Tail(q)
  OBVIOUS
<1>3. Loses(a \o <<Head(q)>>, a, {Head(q)})
  BY <1>1, LosesSegment, Short
<1>4. a \o <<Head(q)>> \in Seq(Nat)
  BY <1>1
<1>5. Loses((a \o <<Head(q)>>) \o Tail(q), a \o Tail(q), {Head(q)})
  BY <1>1, <1>3, <1>4, LosesInside
<1> QED
  BY <1>2, <1>5

LEMMA LosesTwice ==
    ASSUME NEW p, NEW q, NEW r, NEW L, NEW M, Loses(p, q, L), Loses(q, r, M)
    PROVE  Loses(p, r, L \cup M)
BY DEF Loses

LEMMA LosesNothing == ASSUME NEW p PROVE Loses(p, p, {})
BY DEF Loses

(* What that does to the account.                                          *)
LEMMA AccountLoses ==
    ASSUME NEW p, NEW q, NEW L, NEW out, NEW n, Loses(p, q, L), Accounted(p, out, n)
    PROVE  Accounted(q, out \cup L, n)
BY DEF Loses, Accounted

LEMMA AccountGrows ==
    ASSUME NEW p \in Seq(Nat), NEW out, NEW n \in Nat, Accounted(p, out, n)
    PROVE  Accounted(p \o <<n + 1>>, out, n + 1)
<1>1. <<n + 1>> \in Seq(Nat) /\ ToSet(<<n + 1>>) = {n + 1}
  BY Short
<1>2. 1..(n + 1) = 1..n \cup {n + 1}
  OBVIOUS
<1>3. \A x \in 1..n : x < n + 1
  OBVIOUS
<1>4. ToSet(p \o <<n + 1>>) = ToSet(p) \cup {n + 1}
  BY <1>1, ConcatElements
<1>5. Ascending(<<n + 1>>)
  BY DEF Ascending
<1>6. Ascending(p \o <<n + 1>>)
  BY <1>1, <1>3, <1>5, ConcatAscending DEF Accounted
<1>7. n + 1 \notin 1..n
  OBVIOUS
<1> QED
  BY <1>2, <1>4, <1>6, <1>7 DEF Accounted

LEMMA AccountDrops ==
    ASSUME NEW p, NEW out, NEW n \in Nat, Accounted(p, out, n)
    PROVE  Accounted(p, out \cup {n + 1}, n + 1)
<1>1. 1..(n + 1) = 1..n \cup {n + 1} /\ n + 1 \notin 1..n
  OBVIOUS
<1> QED
  BY <1>1 DEF Accounted
=============================================================================
