--------------------------- MODULE ConstraintsProofs ---------------------------
(* What Constraints checks on a few numbers holds of all: versions are        *)
(* totally ordered, atoms mean what they promise, a reported conflict is one, *)
(* and one is overlooked only in a hole between the versions.                 *)
EXTENDS Constraints, SequenceTheorems, WellFoundedInduction, TLAPS

-----------------------------------------------------------------------------
(* The order of keys.                                                         *)

\* A set of natural numbers that is not empty has a least one.
LEMMA LeastNatural ==
    ASSUME NEW T \in SUBSET Nat, T # {}
    PROVE  \E x \in T : \A y \in T : x <= y
<1> DEFINE R == OpToRel(<, Nat)
<1>1. IsWellFoundedOn(R, Nat)
  BY NatLessThanWellFounded
<1>2. \A x, y \in Nat : y < x => <<y, x>> \in R
  BY DEF OpToRel
<1> HIDE DEF R
<1>3. PICK x \in T : \A y \in T : ~(<<y, x>> \in R)
  BY <1>1, WFMin
<1>4. \A y \in T : ~(y < x)
  BY <1>2, <1>3
<1> QED
  BY <1>4

LEMMA LessIrreflexive ==
    ASSUME NEW a \in Seq(Int) PROVE ~Less(a, a)
BY DEF Less

LEMMA LessAsymmetric ==
    ASSUME NEW a \in Seq(Int), NEW b \in Seq(Int), Less(a, b)
    PROVE  ~Less(b, a)
<1> SUFFICES ASSUME Less(b, a) PROVE FALSE
  OBVIOUS
<1>1. PICK i \in DOMAIN b :
        /\ \A j \in 1 .. i - 1 : j \in DOMAIN a /\ a[j] = b[j]
        /\ i \in DOMAIN a => a[i] < b[i]
  BY DEF Less
<1>2. PICK k \in DOMAIN a :
        /\ \A j \in 1 .. k - 1 : j \in DOMAIN b /\ b[j] = a[j]
        /\ k \in DOMAIN b => b[k] < a[k]
  BY DEF Less
<1>3. /\ i \in Nat /\ k \in Nat /\ 1 <= i /\ 1 <= k
      /\ b[i] \in Int /\ a[k] \in Int
  OBVIOUS
<1>4. CASE i < k
  <2>1. i \in 1 .. k - 1 /\ i \in DOMAIN a
    BY <1>3, <1>4
  <2> QED
    BY <1>1, <1>2, <1>3, <2>1
<1>5. CASE k < i
  <2>1. k \in 1 .. i - 1 /\ k \in DOMAIN b
    BY <1>3, <1>5
  <2> QED
    BY <1>1, <1>2, <1>3, <2>1
<1>6. CASE i = k
  BY <1>1, <1>2, <1>6
<1> QED
  BY <1>3, <1>4, <1>5, <1>6

LEMMA LessTransitive ==
    ASSUME NEW a \in Seq(Int), NEW b \in Seq(Int), NEW c \in Seq(Int),
           Less(a, b), Less(b, c)
    PROVE  Less(a, c)
<1>1. PICK i \in DOMAIN b :
        /\ \A j \in 1 .. i - 1 : j \in DOMAIN a /\ a[j] = b[j]
        /\ i \in DOMAIN a => a[i] < b[i]
  BY DEF Less
<1>2. PICK k \in DOMAIN c :
        /\ \A j \in 1 .. k - 1 : j \in DOMAIN b /\ b[j] = c[j]
        /\ k \in DOMAIN b => b[k] < c[k]
  BY DEF Less
<1>3. i \in Nat /\ k \in Nat /\ 1 <= i /\ 1 <= k /\ b[i] \in Int /\ c[k] \in Int
  OBVIOUS
<1>4. CASE i < k
  <2>1. i \in 1 .. k - 1 /\ i \in DOMAIN c
    BY <1>3, <1>4
  <2>2. i \in DOMAIN a => a[i] < c[i]
    BY <1>1, <1>2, <2>1
  <2>3. \A j \in 1 .. i - 1 : j \in DOMAIN a /\ a[j] = c[j]
    BY <1>1, <1>2, <1>3, <1>4
  <2> QED
    BY <2>1, <2>2, <2>3 DEF Less
<1>5. CASE k < i
  <2>1. k \in 1 .. i - 1 /\ k \in DOMAIN b
    BY <1>3, <1>5
  <2>2. k \in DOMAIN a => a[k] < c[k]
    BY <1>1, <1>2, <2>1
  <2>3. \A j \in 1 .. k - 1 : j \in DOMAIN a /\ a[j] = c[j]
    <3>1. \A j \in 1 .. k - 1 : j \in 1 .. i - 1
      BY <1>3, <1>5
    <3> QED
      BY <1>1, <1>2, <3>1, Zenon
  <2> QED
    BY <2>2, <2>3 DEF Less
<1>6. CASE i = k
  <2>1. k \in DOMAIN a => a[k] < c[k]
    <3> SUFFICES ASSUME k \in DOMAIN a PROVE a[k] < c[k]
      OBVIOUS
    <3>1. a[k] < b[k] /\ b[k] < c[k] /\ a[k] \in Int
      BY <1>1, <1>2, <1>6
    <3> QED
      BY <1>3, <1>6, <3>1
  <2>2. \A j \in 1 .. k - 1 : j \in DOMAIN a /\ a[j] = c[j]
    BY <1>1, <1>2, <1>6
  <2> QED
    BY <2>1, <2>2 DEF Less
<1> QED
  BY <1>3, <1>4, <1>5, <1>6

\* The first place where two keys differ decides.
LEMMA LessTotal ==
    ASSUME NEW a \in Seq(Int), NEW b \in Seq(Int), a # b
    PROVE  Less(a, b) \/ Less(b, a)
<1> DEFINE Same(i) == i \in DOMAIN a /\ i \in DOMAIN b /\ a[i] = b[i]
           D == {i \in DOMAIN a \cup DOMAIN b : ~Same(i)}
<1>1. D \subseteq Nat
  OBVIOUS
<1>2. D # {}
  <2> SUFFICES ASSUME D = {} PROVE a = b
    OBVIOUS
  <2>1. \A i \in DOMAIN a \cup DOMAIN b : Same(i)
    OBVIOUS
  <2>2. DOMAIN a = DOMAIN b /\ \A i \in DOMAIN a : a[i] = b[i]
    BY <2>1
  <2> QED
    BY <2>2
<1>3. PICK m \in D : \A i \in D : m <= i
  BY <1>1, <1>2, LeastNatural
<1>4. m \in DOMAIN a \cup DOMAIN b /\ ~Same(m) /\ m \in Nat /\ m >= 1
  OBVIOUS
<1>5. \A j \in 1 .. m - 1 : Same(j)
  <2> SUFFICES ASSUME NEW j \in 1 .. m - 1 PROVE Same(j)
    OBVIOUS
  <2>1. j \in DOMAIN a \cup DOMAIN b
    BY <1>4
  <2>2. j \notin D
    BY <1>3, <1>4
  <2> QED
    BY <2>1, <2>2
<1>6. CASE m \in DOMAIN a /\ m \in DOMAIN b
  <2>1. a[m] \in Int /\ b[m] \in Int /\ a[m] # b[m]
    BY <1>4, <1>6
  <2>2. a[m] < b[m] \/ b[m] < a[m]
    BY <2>1
  <2> QED
    BY <1>5, <1>6, <2>2 DEF Less
<1>7. CASE m \in DOMAIN a /\ m \notin DOMAIN b
  BY <1>5, <1>7 DEF Less
<1>8. CASE m \notin DOMAIN a /\ m \in DOMAIN b
  BY <1>5, <1>8 DEF Less
<1> QED
  BY <1>4, <1>6, <1>7, <1>8

-----------------------------------------------------------------------------
(* The order of versions.                                                     *)

\* The numbers of a version, up to two above all that are written.
Component == 0 .. Top + 2
Number4 == [1..4 -> Component]

LEMMA TopFacts ==
    Top \in Nat /\ Top \in Numbers /\ \A n \in Numbers : n \in 0..Top
<1>1. Top \in Numbers /\ \A m \in Numbers : m <= Top
  BY NumbersAssumption DEF Top
<1> QED
  BY <1>1, NumbersAssumption

LEMMA PaddedFacts ==
    ASSUME NEW n \in 1..4, NEW S \in SUBSET Nat, NEW s \in [1..n -> S]
    PROVE  /\ Len(s) = n /\ s \in Seq(S)
           /\ Padded(s) \in [1..4 -> S \cup {0}]
           /\ \A i \in 1..n : Padded(s)[i] = s[i]
           /\ \A i \in n + 1 .. 4 : Padded(s)[i] = 0
<1>1. s \in Seq(S) /\ Len(s) = n
  OBVIOUS
<1> QED
  BY <1>1 DEF Padded

LEMMA PaddedAt ==
    ASSUME NEW n \in 1..4, NEW S, NEW s \in [1..n -> S], NEW i \in 1..4
    PROVE  Padded(s)[i] = IF i <= n THEN s[i] ELSE 0
<1>1. Len(s) = n
  OBVIOUS
<1> QED
  BY <1>1 DEF Padded

LEMMA VersionFields ==
    ASSUME NEW v \in Versions
    PROVE  /\ v.components \in Number4
           /\ v.stability \in Stabilities
           /\ v.qualifier \in Seq(Nat)
           /\ v.stability = Dev => v.qualifier = <<>>
           /\ v = [components |-> v.components, stability |-> v.stability,
                   qualifier |-> v.qualifier]
<1>1. /\ v.stability \in Stabilities /\ v.qualifier \in Qualifiers
      /\ v.stability = Dev => v.qualifier = <<>>
      /\ v = [components |-> v.components, stability |-> v.stability,
              qualifier |-> v.qualifier]
  BY DEF Versions
<1>0. PICK n \in 1..Parts :
        \E s \in [1..n -> 0 .. Top + 2] : v.components = Padded(s)
  BY Zenon DEF Versions
<1>2. PICK s \in [1..n -> 0 .. Top + 2] : v.components = Padded(s)
  BY <1>0
<1>3. n \in 1..4 /\ Component \in SUBSET Nat /\ Component \cup {0} = Component
  BY NumbersAssumption, TopFacts DEF Component
<1>4. v.components \in Number4
  <2>1. s \in [1..n -> Component]
    BY DEF Component
  <2>2. Padded(s) \in [1..4 -> Component \cup {0}]
    BY <1>3, <2>1, PaddedFacts, Zenon
  <2> QED
    BY <1>2, <1>3, <2>2, Zenon DEF Number4
<1> QED
  BY <1>1, <1>4, SuffixAssumption

LEMMA Extensional ==
    ASSUME NEW S, NEW T, NEW f \in [S -> T], NEW g \in [S -> T],
           \A x \in S : f[x] = g[x]
    PROVE  f = g
OBVIOUS

LEMMA Tuple ==
    ASSUME NEW n \in Nat, NEW S, NEW f \in [1..n -> S]
    PROVE  f \in Seq(S) /\ Len(f) = n
OBVIOUS

LEMMA KeyFacts ==
    ASSUME NEW v \in Versions
    PROVE  /\ Key(v) \in Seq(Int)
           /\ DOMAIN Key(v) = 1 .. 5 + Len(v.qualifier)
           /\ \A i \in 1..4 : Key(v)[i] = v.components[i]
           /\ Key(v)[5] = v.stability
           /\ \A i \in DOMAIN v.qualifier : Key(v)[5 + i] = v.qualifier[i]
<1> DEFINE c == v.components s == <<v.stability>> q == v.qualifier
<1>1. c \in Seq(Int) /\ Len(c) = 4
  <2>1. c \in [1..4 -> Int]
    BY VersionFields, TopFacts DEF Number4, Component
  <2> HIDE DEF c
  <2> QED
    BY <2>1, Tuple
<1>2. s \in Seq(Int) /\ Len(s) = 1 /\ s[1] = v.stability
  BY VersionFields DEF Stabilities, Dev, Patch
<1>3. q \in Seq(Int)
  BY VersionFields
<1> HIDE DEF c, s, q
<1>4. /\ c \o s \in Seq(Int) /\ Len(c \o s) = 5
      /\ \A i \in 1..4 : (c \o s)[i] = c[i]
      /\ (c \o s)[5] = v.stability
  <2>1. /\ c \o s \in Seq(Int) /\ Len(c \o s) = Len(c) + Len(s)
        /\ \A i \in 1 .. Len(c) + Len(s) :
             (c \o s)[i] = IF i <= Len(c) THEN c[i] ELSE s[i - Len(c)]
    BY <1>1, <1>2, ConcatProperties, Zenon
  <2> QED
    BY <1>1, <1>2, <2>1
<1>5. /\ (c \o s) \o q \in Seq(Int)
      /\ Len((c \o s) \o q) = 5 + Len(q)
      /\ \A i \in 1..5 : ((c \o s) \o q)[i] = (c \o s)[i]
      /\ \A i \in DOMAIN q : ((c \o s) \o q)[5 + i] = q[i]
  <2> DEFINE d == c \o s
  <2>1. d \in Seq(Int) /\ Len(d) = 5
    BY <1>4
  <2> HIDE DEF d
  <2>0. /\ d \o q \in Seq(Int) /\ Len(d \o q) = Len(d) + Len(q)
        /\ \A i \in 1 .. Len(d) + Len(q) :
             (d \o q)[i] = IF i <= Len(d) THEN d[i] ELSE q[i - Len(d)]
    BY <1>3, <2>1, ConcatProperties, Zenon
  <2>2. /\ d \o q \in Seq(Int) /\ Len(d \o q) = 5 + Len(q)
        /\ \A i \in 1 .. 5 + Len(q) :
             (d \o q)[i] = IF i <= 5 THEN d[i] ELSE q[i - 5]
    BY <2>0, <2>1
  <2>3. \A i \in DOMAIN q : (d \o q)[5 + i] = q[i]
    <3> SUFFICES ASSUME NEW i \in DOMAIN q PROVE (d \o q)[5 + i] = q[i]
      OBVIOUS
    <3>1. 5 + i \in 1 .. 5 + Len(q) /\ ~(5 + i <= 5) /\ (5 + i) - 5 = i
      BY <1>3
    <3> QED
      BY <2>2, <3>1
  <2>4. \A i \in 1..5 : (d \o q)[i] = d[i]
    BY <1>3, <2>2
  <2> QED
    BY <2>2, <2>3, <2>4 DEF d
<1>6. Key(v) = (c \o s) \o q
  BY Zenon DEF Key, c, s, q
<1>7. DOMAIN Key(v) = 1 .. 5 + Len(q)
  BY <1>5, <1>6
<1>8. \A i \in 1..4 : Key(v)[i] = c[i]
  BY <1>4, <1>5, <1>6
<1>9. Key(v)[5] = v.stability
  BY <1>4, <1>5, <1>6
<1> QED
  BY <1>5, <1>6, <1>7, <1>8, <1>9, Zenon DEF c, q

\* A key determines its version.
LEMMA KeyInjective ==
    ASSUME NEW v \in Versions, NEW w \in Versions, Key(v) = Key(w)
    PROVE  v = w
<1>1. v.components = w.components
  <2>1. \A i \in 1..4 : v.components[i] = w.components[i]
    BY KeyFacts
  <2>2. /\ v.components \in [1..4 -> Component]
        /\ w.components \in [1..4 -> Component]
    BY VersionFields, Zenon DEF Number4
  <2> DEFINE c == v.components d == w.components
  <2>3. c \in [1..4 -> Component] /\ d \in [1..4 -> Component]
    BY <2>2
  <2>4. \A i \in 1..4 : c[i] = d[i]
    BY <2>1
  <2> HIDE DEF c, d
  <2>5. c = d
    BY <2>3, <2>4, Extensional
  <2> QED
    BY <2>5 DEF c, d
<1>2. v.stability = w.stability
  BY KeyFacts
<1>3. v.qualifier = w.qualifier
  <2>1. v.qualifier \in Seq(Nat) /\ w.qualifier \in Seq(Nat)
    BY VersionFields
  <2>2. 1 .. 5 + Len(v.qualifier) = 1 .. 5 + Len(w.qualifier)
    BY KeyFacts
  <2>3. Len(v.qualifier) = Len(w.qualifier)
    BY <2>1, <2>2
  <2>0. /\ DOMAIN v.qualifier = 1 .. Len(v.qualifier)
        /\ DOMAIN v.qualifier = DOMAIN w.qualifier
    BY <2>1, <2>3
  <2>4. ASSUME NEW i \in 1 .. Len(v.qualifier)
        PROVE  v.qualifier[i] = w.qualifier[i]
    <3>1. i \in DOMAIN v.qualifier /\ i \in DOMAIN w.qualifier
      BY <2>0
    <3>2. Key(v)[5 + i] = v.qualifier[i]
      BY <3>1, KeyFacts
    <3>3. Key(w)[5 + i] = w.qualifier[i]
      BY <3>1, KeyFacts
    <3> QED
      BY <3>2, <3>3
  <2> QED
    BY <2>1, <2>3, <2>4, SeqEqual, Zenon
<1> QED
  BY <1>1, <1>2, <1>3, VersionFields

\* What Compare returns, by the order of the keys.
LEMMA CompareFacts ==
    ASSUME NEW v \in Versions, NEW w \in Versions
    PROVE  /\ Compare(v, w) \in -1..1
           /\ Compare(v, w) < 0 <=> Less(Key(v), Key(w))
           /\ Compare(v, w) > 0 <=> Less(Key(w), Key(v))
           /\ Compare(v, w) = 0 <=> v = w
<1>1. Key(v) \in Seq(Int) /\ Key(w) \in Seq(Int)
  BY KeyFacts
<1>2. CASE Less(Key(v), Key(w))
  <2>1. ~Less(Key(w), Key(v)) /\ v # w
    BY <1>1, <1>2, LessAsymmetric, LessIrreflexive
  <2> QED
    BY <1>2, <2>1 DEF Compare
<1>3. CASE ~Less(Key(v), Key(w)) /\ Less(Key(w), Key(v))
  <2>1. v # w
    BY <1>3
  <2> QED
    BY <1>3, <2>1 DEF Compare
<1>4. CASE ~Less(Key(v), Key(w)) /\ ~Less(Key(w), Key(v))
  <2>1. v = w
    BY <1>1, <1>4, LessTotal, KeyInjective
  <2> QED
    BY <1>4, <2>1 DEF Compare
<1> QED
  BY <1>2, <1>3, <1>4

Total(S) == Solve!TotalOrder(S)

\* Version.Compare orders all versions totally, whatever their numbers and
\* qualifiers are: what predicatesHaveSolution takes for granted.
THEOREM VersionsTotallyOrdered == Total(Versions)
<1>1. ASSUME NEW v \in Versions, NEW w \in Versions
      PROVE  /\ Compare(v, w) \in Int
             /\ Compare(v, w) = 0 <=> v = w
             /\ Compare(v, w) < 0 <=> Compare(w, v) > 0
  BY CompareFacts
<1>2. ASSUME NEW u \in Versions, NEW v \in Versions, NEW w \in Versions,
             Compare(u, v) < 0, Compare(v, w) < 0
      PROVE  Compare(u, w) < 0
  <2>1. Less(Key(u), Key(v)) /\ Less(Key(v), Key(w))
    BY <1>2, CompareFacts
  <2>2. Less(Key(u), Key(w))
    BY <2>1, KeyFacts, LessTransitive
  <2> QED
    BY <2>2, CompareFacts
<1> QED
  BY <1>1, <1>2, Zenon DEF Total, Solve!TotalOrder

-----------------------------------------------------------------------------
(* The versions that predicates name.                                         *)

\* No qualifier, and numbers up to one above all that are written.
Named ==
    {v \in Versions :
        v.qualifier = <<>> /\ \A i \in 1..4 : v.components[i] <= Top + 1}
Plain(c, stability) ==
    [components |-> c, qualifier |-> <<>>, stability |-> stability]

LEMMA PartsFacts ==
    ASSUME NEW n \in 1..Parts PROVE n \in 1..4 /\ n \in Nat
BY NumbersAssumption

LEMMA WrittenFacts ==
    ASSUME NEW w \in Written
    PROVE  /\ Len(w.parts) \in 1..Parts
           /\ w.parts \in [1 .. Len(w.parts) -> Numbers]
           /\ w.modifier \in Stabilities \cup {None}
<1>1. w.modifier \in Modifiers
  BY DEF Written
<1>2. PICK n \in 1..Parts : w.parts \in [1..n -> Numbers]
  BY Zenon DEF Written
<1>3. Len(w.parts) = n
  BY <1>2, NumbersAssumption, Tuple
<1> QED
  BY <1>1, <1>2, <1>3, SuffixAssumption

LEMMA PlainNamed ==
    ASSUME NEW n \in 1..Parts, NEW s \in [1..n -> 0 .. Top + 1],
           NEW stability \in Stabilities
    PROVE  Plain(Padded(s), stability) \in Named
<1> DEFINE c == Padded(s) v == Plain(c, stability)
<1>1. n \in 1..4 /\ 0 .. Top + 1 \in SUBSET Nat
  BY NumbersAssumption, TopFacts
<1>2. c \in [1..4 -> 0 .. Top + 1 \cup {0}]
  BY <1>1, PaddedFacts, Zenon
<1>3. \A i \in 1..4 : c[i] <= Top + 1
  BY <1>2, TopFacts
<1>4. s \in [1..n -> 0 .. Top + 2]
  BY TopFacts
<1>5. \E m \in 1..Parts : \E t \in [1..m -> 0 .. Top + 2] : c = Padded(t)
  BY <1>4
<1> HIDE DEF c
<1>6. v.components = c /\ v.qualifier = <<>> /\ v.stability = stability
  BY DEF Plain
<1>7. v \in [components : {Padded(t) : t \in UNION {[1..m -> 0 .. Top + 2] : m \in 1..Parts}},
              stability : Stabilities, qualifier : Qualifiers]
  <2>1. c \in {Padded(t) : t \in UNION {[1..m -> 0 .. Top + 2] : m \in 1..Parts}}
    BY <1>5, Zenon
  <2> QED
    BY <2>1, SuffixAssumption DEF Plain
<1>8. v \in Versions
  BY <1>6, <1>7, Zenon DEF Versions
<1> QED
  BY <1>3, <1>6, <1>8, Zenon DEF Named, c

LEMMA NamedFacts ==
    ASSUME NEW v \in Named
    PROVE  /\ v \in Versions
           /\ v.components \in Number4
           /\ \A i \in 1..4 : v.components[i] <= Top + 1
           /\ v.stability \in Stabilities
           /\ v = Plain(v.components, v.stability)
<1>1. v \in Versions
  BY DEF Named
<1> QED
  BY <1>1, VersionFields DEF Named, Plain

\* Another stability leaves the name one.
LEMMA NamedWith ==
    ASSUME NEW v \in Named, NEW stability \in Stabilities
    PROVE  /\ [v EXCEPT !.stability = stability] = Plain(v.components, stability)
           /\ Plain(v.components, stability) \in Named
<1>1. v = Plain(v.components, v.stability)
  BY NamedFacts
<1>2. [v EXCEPT !.stability = stability] = Plain(v.components, stability)
  BY <1>1 DEF Plain
<1>3. PICK n \in 1..Parts :
        \E s \in [1..n -> 0 .. Top + 2] : v.components = Padded(s)
  BY Zenon DEF Named, Versions
<1>4. PICK s \in [1..n -> 0 .. Top + 2] : v.components = Padded(s)
  BY <1>3
<1>5. n \in 1..4 /\ Component \in SUBSET Nat /\ s \in [1..n -> Component]
  BY NumbersAssumption, TopFacts DEF Component
<1>6. ASSUME NEW i \in 1..n PROVE Padded(s)[i] = s[i]
  <2>1. i \in 1..4 /\ i <= n
    BY <1>5
  <2> QED
    BY <1>5, <2>1, PaddedAt
<1>7. s \in [1..n -> 0 .. Top + 1]
  <2> SUFFICES ASSUME NEW i \in 1..n PROVE s[i] \in 0 .. Top + 1
    OBVIOUS
  <2>1. s[i] \in 0 .. Top + 2
    OBVIOUS
  <2>2. i \in 1..4
    BY <1>5
  <2>3. s[i] <= Top + 1
    BY <1>4, <1>6, <2>2, NamedFacts
  <2> QED
    BY <2>1, <2>3, TopFacts
<1> QED
  BY <1>2, <1>4, <1>7, PlainNamed

LEMMA PlainAsDev ==
    ASSUME NEW c, NEW stability
    PROVE  AsDev(Plain(c, stability)) = Plain(c, Dev)
<1> DEFINE v == Plain(c, stability)
           d == [v EXCEPT !.stability = Dev]
<1>1. d = Plain(c, Dev)
  BY DEF Plain
<1>2. AsDev(v) = [d EXCEPT !.qualifier = <<>>]
  BY Zenon DEF AsDev
<1> HIDE DEF d
<1>3. [d EXCEPT !.qualifier = <<>>] = Plain(c, Dev)
  BY <1>1 DEF Plain
<1> QED
  BY <1>2, <1>3

LEMMA AsDevFacts ==
    ASSUME NEW v \in Named
    PROVE  AsDev(v) \in Named /\ AsDev(v) = Plain(v.components, Dev)
<1>1. v = Plain(v.components, v.stability)
  BY NamedFacts
<1>2. AsDev(v) = Plain(v.components, Dev)
  BY <1>1, PlainAsDev, Zenon
<1>3. Dev \in Stabilities
  BY DEF Stabilities, Dev, Patch
<1> QED
  BY <1>2, <1>3, NamedWith

LEMMA NormalizedFacts ==
    ASSUME NEW w \in Written
    PROVE  /\ Normalized(w) \in Named
           /\ Normalized(w).components = Padded(w.parts)
           /\ Normalized(w).qualifier = <<>>
           /\ Normalized(w).stability =
                IF w.modifier = None THEN Stable ELSE w.modifier
<1> DEFINE st == IF w.modifier = None THEN Stable ELSE w.modifier
<1>1. st \in Stabilities
  BY WrittenFacts DEF Stabilities, Dev, Patch, Stable
<1>2. Numbers \subseteq 0 .. Top + 1
  BY TopFacts
<1>3. w.parts \in [1 .. Len(w.parts) -> 0 .. Top + 1]
  BY <1>2, WrittenFacts
<1>4. Len(w.parts) \in 1..Parts
  BY WrittenFacts
<1>5. Plain(Padded(w.parts), st) \in Named
  BY <1>1, <1>3, <1>4, PlainNamed
<1>6. Normalized(w) = Plain(Padded(w.parts), st)
  BY Zenon DEF Normalized, Plain
<1> QED
  BY <1>5, <1>6 DEF Plain

LEMMA LowestFacts ==
    ASSUME NEW w \in Written
    PROVE  /\ Lowest(w) \in Named
           /\ Lowest(w) = Plain(Padded(w.parts),
                                IF w.modifier = None THEN Dev ELSE w.modifier)
<1>1. CASE w.modifier = None
  BY <1>1, NormalizedFacts, AsDevFacts, Zenon DEF Lowest
<1>2. CASE w.modifier # None
  BY <1>2, NormalizedFacts, NamedFacts, Zenon DEF Lowest
<1> QED
  BY <1>1, <1>2

\* The first version after all that begin with the first p numbers.
Incremented(c, p) ==
    [i \in 1..4 |-> IF i < p THEN c[i] ELSE IF i = p THEN c[i] + 1 ELSE 0]

LEMMA Next1Plain ==
    ASSUME NEW n \in 1..Parts, NEW parts \in [1..n -> Numbers], NEW p \in 1..n,
           NEW stability
    PROVE  /\ Next1(Plain(Padded(parts), stability), p)
                = Plain(Incremented(Padded(parts), p), Dev)
           /\ Next1(Plain(Padded(parts), stability), p) \in Named
<1> DEFINE c == Padded(parts)
           s == [i \in 1..p |-> IF i < p THEN c[i] ELSE c[i] + 1]
<1>1. n \in 1..4 /\ n \in Nat
  BY PartsFacts
<1>2. ASSUME NEW i \in 1..n PROVE c[i] \in 0..Top
  <2>1. i \in 1..4 /\ i <= n
    BY <1>1
  <2>2. c[i] = parts[i] /\ parts[i] \in Numbers
    BY <1>1, <2>1, PaddedAt
  <2> QED
    BY <2>2, TopFacts
<1> HIDE DEF c
<1>4. p \in 1..Parts /\ p \in 1..4 /\ p \in Nat /\ Top \in Nat
  BY <1>1, NumbersAssumption, TopFacts
<1>5. s \in [1..p -> 0 .. Top + 1]
  <2> SUFFICES ASSUME NEW i \in 1..p PROVE s[i] \in 0 .. Top + 1
    OBVIOUS
  <2>1. i \in 1..n
    BY <1>1
  <2> QED
    BY <1>2, <1>4, <2>1
<1>6. Padded(s) = Incremented(c, p)
  <2>1. Len(s) = p
    BY <1>4, <1>5, Tuple
  <2> QED
    BY <1>4, <2>1 DEF Padded, Incremented
<1>7. Plain(Padded(s), Dev) \in Named
  <2>1. Dev \in Stabilities
    BY DEF Dev, Stabilities, Patch
  <2> QED
    BY <1>4, <1>5, <2>1, PlainNamed
<1>8. Next1(Plain(c, stability), p) = Plain(Incremented(c, p), Dev)
  <2> DEFINE d == Plain(c, stability)
  <2> DEFINE e == [d EXCEPT !.components = Incremented(d.components, p)]
  <2>1. d.components = c
    BY DEF Plain
  <2>2. Next1(d, p) = AsDev(e)
    BY Zenon DEF Next1, Incremented
  <2>3. e = Plain(Incremented(c, p), stability)
    BY <2>1 DEF Plain
  <2> QED
    BY <2>2, <2>3, PlainAsDev, Zenon
<1> QED
  BY <1>6, <1>7, <1>8 DEF c

LEMMA Next1Facts ==
    ASSUME NEW w \in Written, NEW p \in 1 .. Len(w.parts)
    PROVE  /\ Next1(Normalized(w), p) \in Named
           /\ Next1(Normalized(w), p) =
                Plain(Incremented(Padded(w.parts), p), Dev)
<1>1. Len(w.parts) \in 1..Parts /\ w.parts \in [1 .. Len(w.parts) -> Numbers]
  BY WrittenFacts
<1>2. Normalized(w) = Plain(Padded(w.parts), Normalized(w).stability)
  BY NormalizedFacts, NamedFacts
<1> QED
  BY <1>1, <1>2, Next1Plain

-----------------------------------------------------------------------------
(* The intersection, with the theorems about it.                              *)

P == INSTANCE IntersectionProofs WITH Version <- Versions, Points <- Named

LEMMA Instantiated ==
    /\ Named \subseteq Versions /\ P!TotalOrder(Versions)
    /\ None \notin [version : Named, inclusive : BOOLEAN] \cup BOOLEAN
<1>1. Named \subseteq Versions
  BY DEF Named
<1>2. P!TotalOrder(Versions)
  BY VersionsTotallyOrdered DEF Total, Solve!TotalOrder, P!TotalOrder
<1>3. [version : Named, inclusive : BOOLEAN]
        \subseteq [version : Versions, inclusive : BOOLEAN]
  BY <1>1
<1> QED
  BY <1>1, <1>2, <1>3, NoneAssumption

LEMMA AtomFacts ==
    ASSUME NEW atom \in Atoms
    PROVE  /\ atom.kind \in Comparisons \cup {"^", "~", "-", "*", "@"}
           /\ atom.kind \in Comparisons => atom.low \in Written /\ atom.flag \in Flags
           /\ atom.kind \in {"^", "~"} => atom.low \in Written
           /\ atom.kind = "-" => atom.low \in Written /\ atom.high \in Written
           /\ atom.kind = "*" =>
                \/ atom.parts = <<>>
                \/ /\ Len(atom.parts) \in 1..3 /\ Len(atom.parts) \in 1..Parts
                   /\ atom.parts \in [1 .. Len(atom.parts) -> Numbers]
<1> DEFINE short == 1 .. (IF Parts < 3 THEN Parts ELSE 3)
           S == {<<>>} \cup UNION {[1..n -> Numbers] : n \in short}
<1>1. CASE atom \in [kind : Comparisons, low : Written, flag : Flags]
  BY <1>1 DEF Comparisons
<1>2. CASE atom \in [kind : {"^", "~"}, low : Written]
  BY <1>2 DEF Comparisons
<1>3. CASE atom \in [kind : {"-"}, low : Written, high : Written]
  BY <1>3 DEF Comparisons
<1>4. CASE atom \in [kind : {"*"}, parts : S]
  <2>1. atom.kind = "*" /\ atom.parts \in S
    BY <1>4
  <2>2. CASE atom.parts = <<>>
    BY <2>1, <2>2 DEF Comparisons
  <2>3. CASE atom.parts # <<>>
    <3>1. PICK n \in short : atom.parts \in [1..n -> Numbers]
      BY <2>1, <2>3, Zenon
    <3>2. n \in 1..3 /\ n \in 1..Parts
      BY NumbersAssumption
    <3>3. Len(atom.parts) = n
      BY <3>1, <3>2, Tuple
    <3> QED
      BY <2>1, <3>1, <3>2, <3>3 DEF Comparisons
  <2> QED
    BY <2>2, <2>3
<1>5. CASE atom \in [kind : {"@"}]
  BY <1>5 DEF Comparisons
<1> QED
  BY <1>1, <1>2, <1>3, <1>4, <1>5, Zenon DEF Atoms

LEMMA BetweenType ==
    ASSUME NEW low \in Named, NEW high \in Named,
           NEW o \in {"<", "<="}
    PROVE  <<[op |-> ">=", version |-> low], [op |-> o, version |-> high]>>
             \in Seq(P!Predicate)
<1>1. /\ [op |-> ">=", version |-> low] \in P!Predicate
      /\ [op |-> o, version |-> high] \in P!Predicate
  BY DEF P!Predicate, P!Operators
<1> QED
  BY <1>1

\* Where the range of a caret ends.
CaretPosition(w) ==
    IF w.parts[1] # 0 \/ Len(w.parts) = 1 THEN 1
    ELSE IF w.parts[2] # 0 \/ Len(w.parts) = 2 THEN 2 ELSE 3
TildePosition(w) == IF Len(w.parts) = 1 THEN 1 ELSE Len(w.parts) - 1

LEMMA Positions ==
    ASSUME NEW w \in Written
    PROVE  /\ CaretPosition(w) \in 1 .. Len(w.parts)
           /\ TildePosition(w) \in 1 .. Len(w.parts)
           /\ CaretPosition(w) \in 1..3 /\ TildePosition(w) \in 1..3
           /\ Caret(w) = Between(Lowest(w), Next1(Normalized(w), CaretPosition(w)))
           /\ Tilde(w) = Between(Lowest(w), Next1(Normalized(w), TildePosition(w)))
<1> DEFINE n == Len(w.parts)
<1>1. n \in 1..4
  BY WrittenFacts, PartsFacts, Zenon
<1> HIDE DEF n
<1>2. /\ CaretPosition(w) \in 1..n /\ CaretPosition(w) \in 1..3
      /\ TildePosition(w) \in 1..n /\ TildePosition(w) \in 1..3
  <2>1. TildePosition(w) = IF n = 1 THEN 1 ELSE n - 1
    BY DEF TildePosition, n
  <2>2. \/ CaretPosition(w) = 1
        \/ n # 1 /\ CaretPosition(w) = 2
        \/ n # 1 /\ n # 2 /\ CaretPosition(w) = 3
    BY DEF CaretPosition, n
  <2> QED
    BY <1>1, <2>1, <2>2
<1>3. /\ Caret(w) = Between(Lowest(w), Next1(Normalized(w), CaretPosition(w)))
      /\ Tilde(w) = Between(Lowest(w), Next1(Normalized(w), TildePosition(w)))
  BY Zenon DEF Caret, Tilde, CaretPosition, TildePosition
<1> QED
  BY <1>2, <1>3 DEF n

\* The version of a wildcard, written out.
Stem(parts) == [parts |-> parts, modifier |-> None]

LEMMA StemWritten ==
    ASSUME NEW n \in 1..Parts, NEW parts \in [1..n -> Numbers]
    PROVE  /\ AsDev(Normalized(Stem(parts))) = Plain(Padded(parts), Dev)
           /\ AsDev(Normalized(Stem(parts))) \in Named
<1>1. n \in 1..4 /\ n \in Nat
  BY PartsFacts
<1>2. Numbers \subseteq 0 .. Top + 1
  BY TopFacts
<1>3. parts \in [1..n -> 0 .. Top + 1]
  BY <1>2
<1>4. Dev \in Stabilities
  BY DEF Stabilities, Dev, Patch
<1>5. Plain(Padded(parts), Dev) \in Named
  BY <1>3, <1>4, PlainNamed
<1>6. Normalized(Stem(parts)) = Plain(Padded(parts), Stable)
  BY DEF Normalized, Stem, Plain
<1> QED
  BY <1>5, <1>6, PlainAsDev

LEMMA StemNext ==
    ASSUME NEW n \in 1..Parts, NEW parts \in [1..n -> Numbers], NEW p \in 1..n
    PROVE  /\ Next1(AsDev(Normalized(Stem(parts))), p)
                = Plain(Incremented(Padded(parts), p), Dev)
           /\ Next1(AsDev(Normalized(Stem(parts))), p) \in Named
BY StemWritten, Next1Plain

LEMMA ComparisonType ==
    ASSUME NEW o \in Comparisons, NEW w \in Written, NEW flag \in Flags
    PROVE  Comparison(o, w, flag) \in Seq(P!Predicate)
<1> DEFINE v == Normalized(w)
           n == IF flag \notin {None, Stable} /\ o # "=" /\ v.stability = Stable
                  THEN [v EXCEPT !.stability = flag]
                ELSE IF o \in {"<", ">="} /\ w.modifier = None THEN AsDev(v)
                ELSE v
<1>1. v \in Named
  BY NormalizedFacts
<1>2. flag \notin {None, Stable} => flag \in Stabilities
  BY SuffixAssumption
<1> HIDE DEF v
<1>3. n \in Named
  BY <1>1, <1>2, NamedWith, AsDevFacts
<1>4. Comparison(o, w, flag) = <<[op |-> o, version |-> n]>>
  BY Zenon DEF Comparison, v
<1> HIDE DEF n
<1>5. [op |-> o, version |-> n] \in P!Predicate
  BY <1>3 DEF P!Predicate, P!Operators, Comparisons
<1> QED
  BY <1>4, <1>5

\* An atom is parsed into predicates that name plain versions.
LEMMA PredicatesType ==
    ASSUME NEW atom \in Atoms PROVE Predicates(atom) \in Seq(P!Predicate)
<1>1. CASE atom.kind \in Comparisons
  <2>1. Predicates(atom) = Comparison(atom.kind, atom.low, atom.flag)
    BY <1>1 DEF Predicates, Comparisons
  <2> QED
    BY <1>1, <2>1, AtomFacts, ComparisonType
<1>2. CASE atom.kind \in {"^", "~"}
  <2>1. atom.low \in Written
    BY <1>2, AtomFacts
  <2>2. Predicates(atom) \in {Caret(atom.low), Tilde(atom.low)}
    BY <1>2 DEF Predicates, Comparisons
  <2>3. ASSUME NEW p \in 1 .. Len(atom.low.parts)
        PROVE  Between(Lowest(atom.low), Next1(Normalized(atom.low), p))
                 \in Seq(P!Predicate)
    BY <2>1, LowestFacts, Next1Facts, BetweenType DEF Between
  <2> QED
    BY <2>1, <2>2, <2>3, Positions
<1>3. CASE atom.kind = "-"
  <2>1. atom.low \in Written /\ atom.high \in Written
    BY <1>3, AtomFacts
  <2>2. Predicates(atom) = Hyphen(atom.low, atom.high)
    BY <1>3 DEF Predicates, Comparisons
  <2>3. Len(atom.high.parts) \in 1 .. Len(atom.high.parts)
    BY <2>1, WrittenFacts, PartsFacts
  <2>4. /\ Lowest(atom.low) \in Named
        /\ Normalized(atom.high) \in Named
        /\ Next1(Normalized(atom.high), Len(atom.high.parts)) \in Named
    BY <2>1, <2>3, LowestFacts, NormalizedFacts, Next1Facts
  <2>5. /\ Between(Lowest(atom.low), Next1(Normalized(atom.high), Len(atom.high.parts)))
              \in Seq(P!Predicate)
        /\ <<[op |-> ">=", version |-> Lowest(atom.low)],
             [op |-> "<=", version |-> Normalized(atom.high)]>>
              \in Seq(P!Predicate)
    BY <2>4, BetweenType DEF Between
  <2> QED
    BY <2>2, <2>5, Zenon DEF Hyphen
<1>4. CASE atom.kind = "*"
  <2>1. Predicates(atom) = Wildcard(atom.parts)
    BY <1>4 DEF Predicates, Comparisons
  <2>2. CASE atom.parts = <<>>
    BY <2>1, <2>2 DEF Wildcard
  <2>3. CASE atom.parts # <<>>
    <3> DEFINE n == Len(atom.parts)
    <3>1. n \in 1..Parts /\ atom.parts \in [1..n -> Numbers] /\ n \in 1..n
      BY <1>4, <2>3, AtomFacts, PartsFacts
    <3>2. Wildcard(atom.parts) =
            Between(AsDev(Normalized(Stem(atom.parts))),
                    Next1(AsDev(Normalized(Stem(atom.parts))), n))
      BY <2>3, Zenon DEF Wildcard, Stem
    <3> QED
      BY <2>1, <3>1, <3>2, StemWritten, StemNext, BetweenType DEF Between
  <2> QED
    BY <2>2, <2>3
<1>5. CASE atom.kind = "@"
  BY <1>5 DEF Predicates, Comparisons
<1> QED
  BY <1>1, <1>2, <1>3, <1>4, <1>5, AtomFacts

LEMMA FlattenType ==
    ASSUME NEW c \in Constraint, NEW i \in DOMAIN c
    PROVE  Flatten(c[i]) \in Seq(P!Predicate)
<1>1. c[i] \in Seq(Atoms) /\ Len(c[i]) \in 1..2
  BY DEF Constraint
<1>2. c[i][1] \in Atoms /\ (Len(c[i]) = 2 => c[i][2] \in Atoms)
  BY <1>1
<1>3. /\ Predicates(c[i][1]) \in Seq(P!Predicate)
      /\ (IF Len(c[i]) = 2 THEN Predicates(c[i][2]) ELSE <<>>) \in Seq(P!Predicate)
  BY <1>2, PredicatesType
<1> QED
  BY <1>3, ConcatProperties, Zenon DEF Flatten

-----------------------------------------------------------------------------
(* Pairs of groups.                                                           *)

Holds(v, list) == \A j \in DOMAIN list : P!Satisfies(v, list[j])
Common(v, p) == Holds(v, Flatten(left[p[1]])) /\ Holds(v, Flatten(right[p[2]]))
Excludes(p) == \A v \in Versions : ~Common(v, p)

LEMMA ConcatHolds ==
    ASSUME NEW S, NEW s \in Seq(S), NEW t \in Seq(S), NEW v
    PROVE  Holds(v, s \o t) <=> Holds(v, s) /\ Holds(v, t)
<1>1. /\ s \o t \in Seq(S) /\ Len(s \o t) = Len(s) + Len(t)
      /\ \A i \in 1 .. Len(s) + Len(t) :
           (s \o t)[i] = IF i <= Len(s) THEN s[i] ELSE t[i - Len(s)]
  BY ConcatProperties, Zenon
<1>2. /\ DOMAIN (s \o t) = 1 .. Len(s) + Len(t)
      /\ DOMAIN s = 1 .. Len(s) /\ DOMAIN t = 1 .. Len(t)
      /\ Len(s) \in Nat /\ Len(t) \in Nat
  BY <1>1
<1>3. ASSUME Holds(v, s \o t) PROVE Holds(v, s) /\ Holds(v, t)
  <2>1. ASSUME NEW j \in DOMAIN s PROVE P!Satisfies(v, s[j])
    <3>1. j \in DOMAIN (s \o t) /\ (s \o t)[j] = s[j]
      BY <1>1, <1>2
    <3> QED
      BY <1>3, <3>1, Zenon DEF Holds
  <2>2. ASSUME NEW j \in DOMAIN t PROVE P!Satisfies(v, t[j])
    <3>1. Len(s) + j \in DOMAIN (s \o t) /\ (s \o t)[Len(s) + j] = t[j]
      BY <1>1, <1>2
    <3> QED
      BY <1>3, <3>1, Zenon DEF Holds
  <2> QED
    BY <2>1, <2>2 DEF Holds
<1>4. ASSUME Holds(v, s), Holds(v, t), NEW i \in DOMAIN (s \o t)
      PROVE  P!Satisfies(v, (s \o t)[i])
  <2>1. CASE i <= Len(s)
    <3>1. i \in DOMAIN s /\ (s \o t)[i] = s[i]
      BY <1>1, <1>2, <2>1
    <3> QED
      BY <1>4, <3>1, Zenon DEF Holds
  <2>2. CASE ~(i <= Len(s))
    <3>1. i - Len(s) \in DOMAIN t /\ (s \o t)[i] = t[i - Len(s)]
      BY <1>1, <1>2, <2>2
    <3> QED
      BY <1>4, <3>1, Zenon DEF Holds
  <2> QED
    BY <2>1, <2>2
<1> QED
  BY <1>3, <1>4 DEF Holds

\* Constraint.Matches says that all predicates of some group hold.
LEMMA MatchingMeans ==
    ASSUME NEW c, NEW v
    PROVE  v \in Matching(c) <=>
             v \in Versions /\ \E i \in DOMAIN c : Holds(v, Flatten(c[i]))
<1> DEFINE lists == [i \in DOMAIN c |-> Flatten(c[i])]
<1>1. \A p : P!Satisfies(v, p) <=> Solve!Satisfies(v, p)
  BY Zenon DEF P!Satisfies, P!PredicateMatches, Solve!Satisfies,
               Solve!PredicateMatches
<1>2. v \in Matching(c) <=>
        v \in Versions /\ \E i \in DOMAIN lists : \A j \in DOMAIN lists[i] :
            Solve!Satisfies(v, lists[i][j])
  BY Zenon DEF Matching
<1>3. DOMAIN lists = DOMAIN c /\ \A i \in DOMAIN c : lists[i] = Flatten(c[i])
  OBVIOUS
<1> HIDE DEF lists
<1>4. ASSUME NEW i \in DOMAIN c
      PROVE  (\A j \in DOMAIN lists[i] : Solve!Satisfies(v, lists[i][j]))
               <=> Holds(v, Flatten(c[i]))
  <2>1. lists[i] = Flatten(c[i])
    BY <1>3
  <2> QED
    BY <1>1, <2>1, Zenon DEF Holds
<1> QED
  BY <1>2, <1>3, <1>4, Zenon

LEMMA PairFacts ==
    ASSUME left \in Constraint, right \in Constraint
    PROVE  /\ Pairs \subseteq Nat \X Nat /\ Pairs # {}
           /\ \A p \in Pairs : p[1] \in DOMAIN left /\ p[2] \in DOMAIN right
<1>1. /\ DOMAIN left = 1 .. Len(left) /\ Len(left) \in Nat /\ Len(left) # 0
      /\ DOMAIN right = 1 .. Len(right) /\ Len(right) \in Nat /\ Len(right) # 0
  BY DEF Constraint
<1>2. 1 \in DOMAIN left /\ 1 \in DOMAIN right
  BY <1>1
<1>3. <<1, 1>> \in Pairs
  BY <1>2 DEF Pairs
<1>4. DOMAIN left \subseteq Nat /\ DOMAIN right \subseteq Nat
  BY <1>1
<1> QED
  BY <1>3, <1>4 DEF Pairs

\* The loops visit the pairs in the order of First and After.
LEMMA FirstFacts ==
    ASSUME left \in Constraint, right \in Constraint,
           NEW S \in SUBSET Pairs, S # {}
    PROVE  First(S) \in S /\ \A q \in S : q = First(S) \/ q \in After(First(S))
<1>1. S \subseteq Nat \X Nat
  BY PairFacts
<1> DEFINE Rows == {p[1] : p \in S}
<1>2. Rows \subseteq Nat /\ Rows # {}
  BY <1>1
<1>3. PICK row \in Rows : \A r \in Rows : row <= r
  BY <1>2, LeastNatural
<1> DEFINE Columns == {p[2] : p \in {q \in S : q[1] = row}}
<1>4. Columns \subseteq Nat /\ Columns # {}
  BY <1>1
<1>5. PICK column \in Columns : \A c \in Columns : column <= c
  BY <1>4, LeastNatural
<1>6. PICK p \in S : p[1] = row /\ p[2] = column
  OBVIOUS
<1>7. ASSUME NEW q \in S PROVE p = q \/ q \in After(p)
  <2>1. /\ q[1] \in Nat /\ q[2] \in Nat /\ q = <<q[1], q[2]>>
        /\ p[1] \in Nat /\ p[2] \in Nat /\ p = <<p[1], p[2]>>
    BY <1>1
  <2>2. p[1] <= q[1]
    BY <1>3, <1>6
  <2>3. p[1] = q[1] => p[2] <= q[2]
    BY <1>5, <1>6
  <2>4. \/ q[1] > p[1] \/ (q[1] = p[1] /\ q[2] > p[2])
        \/ q[1] = p[1] /\ q[2] = p[2]
    BY <2>1, <2>2, <2>3
  <2>5. CASE q[1] = p[1] /\ q[2] = p[2]
    BY <2>1, <2>5
  <2>6. CASE q[1] > p[1] \/ (q[1] = p[1] /\ q[2] > p[2])
    BY <2>6 DEF After
  <2> QED
    BY <2>4, <2>5, <2>6
<1>8. First(S) \in S /\ \A q \in S : First(S) = q \/ q \in After(First(S))
  <2>1. \E x \in S : \A q \in S : x = q \/ q \in After(x)
    BY <1>7
  <2> QED
    BY <2>1, Zenon DEF First
<1> QED
  BY <1>8

-----------------------------------------------------------------------------
(* The invariant of Intersects: pairs before the one in the loop have no      *)
(* version in common.                                                         *)

TypeOK ==
    /\ left \in Constraint /\ right \in Constraint
    /\ pair \in Pairs \cup {None}
    /\ result \in BOOLEAN \cup {None}
LoopPart == P!Inv /\ P!Exact
FreshPart == pair = None => answer = None /\ result = None
JoinedPart ==
    pair # None =>
        predicates = Flatten(left[pair[1]]) \o Flatten(right[pair[2]])
DonePart ==
    pair # None =>
        \A q \in Pairs : q = pair \/ q \in After(pair) \/ Excludes(q)
FailedPart == result = FALSE => \A q \in Pairs : Excludes(q)
IInv ==
    TypeOK /\ LoopPart /\ FreshPart /\ JoinedPart /\ DonePart /\ FailedPart

LEMMA SameLoop == Solve!Next => P!Next
BY Zenon DEF Solve!Next, Solve!Decide, Solve!Scan, Solve!Conclude,
             Solve!Equality, Solve!Satisfies, Solve!PredicateMatches,
             Solve!TighterLower, Solve!TighterUpper, Solve!Nonempty,
             P!Next, P!Decide, P!Scan, P!Conclude, P!Equality, P!Satisfies,
             P!PredicateMatches, P!TighterLower, P!TighterUpper, P!Nonempty

\* The loop of predicatesHaveSolution, and steps that leave it alone.
LEMMA LoopKept ==
    ASSUME LoopPart, [P!Next]_loopVars PROVE LoopPart'
<1>1. P!Inv /\ P!Exact
  BY DEF LoopPart
<1>2. P!TypeOK
  BY <1>1 DEF P!Inv
<1>3. [P!Next]_(P!vars)
  BY DEF loopVars, P!vars
<1>4. P!TypeOK'
  BY <1>2, <1>3, Instantiated, P!NextType, P!VersionAssumption, P!NoneAssumption
<1>5. P!Inv'
  BY <1>1, <1>3, <1>4, Instantiated, P!NextInv, P!VersionAssumption,
     P!NoneAssumption
<1>6. P!Exact'
  BY <1>1, <1>2, <1>3, Instantiated, P!NextExactly, P!VersionAssumption,
     P!NoneAssumption
<1> QED
  BY <1>5, <1>6 DEF LoopPart

\* A new list of predicates starts it.
LEMMA LoopBegun ==
    ASSUME NEW list \in Seq(P!Predicate), predicates' = list, index' = 1,
           lower' = None, upper' = None, excluded' = {}, answer' = None
    PROVE  LoopPart'
<1>1. P!TypeOK'
  BY DEF P!TypeOK, P!Bound
<1>2. P!Collected'
  BY DEF P!Collected, P!Above, P!Below
<1>3. P!NoFalseConflict'
  BY NoneAssumption DEF P!NoFalseConflict
<1>4. P!Exact'
  <2>1. 1 .. index' - 1 = {}
    OBVIOUS
  <2> QED
    BY <2>1, Zenon DEF P!Exact
<1> QED
  BY <1>1, <1>2, <1>3, <1>4 DEF LoopPart, P!Inv

LEMMA EnterKeeps ==
    ASSUME TypeOK, NEW p \in Pairs, Enter(p), UNCHANGED <<left, right, result>>,
           result = None
    PROVE  /\ TypeOK' /\ LoopPart' /\ FreshPart' /\ JoinedPart' /\ FailedPart'
           /\ pair' = p
<1>1. p[1] \in DOMAIN left /\ p[2] \in DOMAIN right
  BY PairFacts DEF TypeOK
<1>2. Flatten(left[p[1]]) \in Seq(P!Predicate) /\ Flatten(right[p[2]]) \in Seq(P!Predicate)
  BY <1>1, FlattenType DEF TypeOK
<1>3. Flatten(left[p[1]]) \o Flatten(right[p[2]]) \in Seq(P!Predicate)
  BY <1>2, ConcatProperties, Zenon
<1>4. LoopPart'
  BY <1>3, LoopBegun, Zenon DEF Enter
<1>5. TypeOK' /\ pair' = p
  BY DEF Enter, TypeOK, Pairs
<1>6. FreshPart' /\ JoinedPart'
  BY Zenon DEF Enter, FreshPart, JoinedPart
<1>7. FailedPart'
  BY NoneAssumption DEF FailedPart
<1> QED
  BY <1>4, <1>5, <1>6, <1>7

LEMMA InitInv == ASSUME Init PROVE IInv
<1>1. TypeOK
  <2>1. PICK c \in Cases : left = c[1] /\ right = c[2]
    BY DEF Init
  <2>2. c \in Constraint \X Constraint
    BY CasesAssumption
  <2> QED
    BY <2>1, <2>2 DEF Init, TypeOK
<1>2. /\ predicates = <<>> /\ index = 1 /\ lower = None /\ upper = None
      /\ excluded = {} /\ answer = None
  BY DEF Init, Solve!Begin
<1>3. LoopPart
  <2>1. P!TypeOK
    BY <1>2 DEF P!TypeOK, P!Bound
  <2>2. P!Collected
    BY <1>2 DEF P!Collected, P!Above, P!Below
  <2>3. P!NoFalseConflict
    BY <1>2, NoneAssumption DEF P!NoFalseConflict
  <2>4. 1 .. index - 1 = {}
    BY <1>2
  <2>5. P!Exact
    BY <2>4, Zenon DEF P!Exact
  <2> QED
    BY <2>1, <2>2, <2>3, <2>5 DEF LoopPart, P!Inv
<1>4. FreshPart /\ JoinedPart /\ DonePart
  BY <1>2 DEF Init, FreshPart, JoinedPart, DonePart
<1>5. FailedPart
  BY NoneAssumption DEF Init, FailedPart
<1> QED
  BY <1>1, <1>3, <1>4, <1>5 DEF IInv

\* The answer FALSE excludes the pair in the loop.
LEMMA FalseExcludes ==
    ASSUME TypeOK, LoopPart, JoinedPart, pair # None, answer = FALSE
    PROVE  Excludes(pair)
<1> SUFFICES ASSUME NEW v \in Versions, Common(v, pair) PROVE FALSE
  BY DEF Excludes
<1>1. pair \in Pairs
  BY DEF TypeOK
<1>2. pair[1] \in DOMAIN left /\ pair[2] \in DOMAIN right
  BY <1>1, PairFacts DEF TypeOK
<1>3. /\ Flatten(left[pair[1]]) \in Seq(P!Predicate)
      /\ Flatten(right[pair[2]]) \in Seq(P!Predicate)
  BY <1>2, FlattenType DEF TypeOK
<1>4. Holds(v, predicates)
  <2> DEFINE l == Flatten(left[pair[1]]) r == Flatten(right[pair[2]])
  <2>1. predicates = l \o r
    BY DEF JoinedPart
  <2>2. Holds(v, l) /\ Holds(v, r)
    BY DEF Common
  <2>3. l \in Seq(P!Predicate) /\ r \in Seq(P!Predicate)
    BY <1>3
  <2> HIDE DEF l, r
  <2>4. Holds(v, l \o r)
    BY <2>2, <2>3, ConcatHolds
  <2> QED
    BY <2>1, <2>4
<1>5. P!Solution(v)
  BY <1>4, Zenon DEF P!Solution, Holds
<1>6. ~P!Solution(v)
  BY DEF LoopPart, P!Inv, P!NoFalseConflict
<1> QED
  BY <1>5, <1>6

LEMMA NextInv == ASSUME IInv, [Next]_vars PROVE IInv'
<1>1. TypeOK /\ LoopPart /\ FreshPart /\ JoinedPart /\ DonePart /\ FailedPart
  BY DEF IInv
<1>2. CASE Start
  <2>1. First(Pairs) \in Pairs
        /\ \A q \in Pairs : q = First(Pairs) \/ q \in After(First(Pairs))
    BY <1>1, PairFacts, FirstFacts DEF TypeOK
  <2>2. /\ Enter(First(Pairs)) /\ result = None
        /\ UNCHANGED <<left, right, result>>
    BY <1>2 DEF Start
  <2>3. /\ TypeOK' /\ LoopPart' /\ FreshPart' /\ JoinedPart' /\ FailedPart'
        /\ pair' = First(Pairs)
    BY <1>1, <2>1, <2>2, EnterKeeps
  <2>4. Pairs' = Pairs
    BY <2>2 DEF Pairs
  <2>5. \A q \in Pairs : q = pair' \/ q \in After(pair)'
    BY <2>1, <2>3, <2>4 DEF After
  <2>6. DonePart'
    BY <2>4, <2>5, Zenon DEF DonePart
  <2> QED
    BY <2>3, <2>6 DEF IInv
<1>3. CASE Loop
  <2>1. P!Next /\ pair # None /\ UNCHANGED <<left, right, pair, result>>
    BY <1>3, SameLoop DEF Loop
  <2>2. LoopPart'
    BY <1>1, <2>1, LoopKept
  <2>3. predicates' = predicates
    BY <2>1 DEF P!Next, P!Decide, P!Scan, P!Conclude
  <2>4. TypeOK' /\ FreshPart' /\ JoinedPart'
    BY <1>1, <2>1, <2>3 DEF TypeOK, Pairs, FreshPart, JoinedPart
  <2>5. DonePart' /\ FailedPart'
    BY <1>1, <2>1 DEF DonePart, FailedPart, Pairs, After, Excludes, Common
  <2> QED
    BY <2>2, <2>4, <2>5 DEF IInv
<1>4. ASSUME UNCHANGED <<left, right, pair, loopVars>>
      PROVE  LoopPart' /\ JoinedPart' /\ DonePart' /\ Pairs' = Pairs
  <2>1. LoopPart'
    BY <1>1, <1>4, LoopKept
  <2>2. JoinedPart' /\ DonePart' /\ Pairs' = Pairs
    BY <1>1, <1>4
       DEF loopVars, JoinedPart, DonePart, Pairs, After, Excludes, Common
  <2> QED
    BY <2>1, <2>2
<1>5. CASE Found
  <2>1. UNCHANGED <<left, right, pair, loopVars>> /\ result' = TRUE /\ answer = TRUE
    BY <1>5 DEF Found
  <2>2. pair # None
    BY <1>1, <2>1, NoneAssumption DEF FreshPart
  <2>3. TypeOK' /\ FreshPart' /\ FailedPart'
    BY <1>1, <1>4, <2>1, <2>2 DEF TypeOK, FreshPart, FailedPart
  <2> QED
    BY <1>4, <2>1, <2>3 DEF IInv
<1>6. CASE NextPair
  <2> DEFINE p == First(After(pair))
  <2>1. /\ answer = FALSE /\ result = None /\ After(pair) # {} /\ Enter(p)
        /\ UNCHANGED <<left, right, result>>
    BY <1>6 DEF NextPair
  <2>2. pair # None
    BY <1>1, <2>1, NoneAssumption DEF FreshPart
  <2>3. After(pair) \in SUBSET Pairs
    BY DEF After
  <2>4. p \in After(pair) /\ \A q \in After(pair) : q = p \/ q \in After(p)
    BY <1>1, <2>1, <2>3, FirstFacts DEF TypeOK
  <2> HIDE DEF p
  <2>5. /\ TypeOK' /\ LoopPart' /\ FreshPart' /\ JoinedPart' /\ FailedPart'
        /\ pair' = p
    BY <1>1, <2>1, <2>3, <2>4, EnterKeeps
  <2>6. Excludes(pair)
    BY <1>1, <2>1, <2>2, FalseExcludes
  <2>7. \A q \in Pairs : q = p \/ q \in After(p) \/ Excludes(q)
    BY <1>1, <2>2, <2>4, <2>6 DEF DonePart
  <2>8. Pairs' = Pairs /\ After(pair)' = After(p)
    BY <2>1, <2>5 DEF Pairs, After
  <2>9. \A q : Excludes(q)' <=> Excludes(q)
    BY <2>1, Zenon DEF Excludes, Common
  <2>10. DonePart'
    BY <2>5, <2>7, <2>8, <2>9, Zenon DEF DonePart
  <2> QED
    BY <2>5, <2>10 DEF IInv
<1>7. CASE NotFound
  <2>1. /\ UNCHANGED <<left, right, pair, loopVars>> /\ result' = FALSE
        /\ answer = FALSE /\ After(pair) = {}
    BY <1>7 DEF NotFound
  <2>2. pair # None
    BY <1>1, <2>1, NoneAssumption DEF FreshPart
  <2>3. Excludes(pair)
    BY <1>1, <2>1, <2>2, FalseExcludes
  <2>4. \A q \in Pairs : Excludes(q)
    BY <1>1, <2>1, <2>2, <2>3 DEF DonePart
  <2>5. \A q : Excludes(q)' <=> Excludes(q)
    BY <2>1, Zenon DEF Excludes, Common
  <2>6. FailedPart'
    BY <1>4, <2>1, <2>4, <2>5, Zenon DEF FailedPart
  <2>7. TypeOK' /\ FreshPart'
    BY <1>1, <1>4, <2>1, <2>2 DEF TypeOK, FreshPart
  <2> QED
    BY <1>4, <2>1, <2>6, <2>7 DEF IInv
<1>8. CASE UNCHANGED vars
  <2>1. UNCHANGED <<left, right, pair, loopVars>> /\ UNCHANGED <<result, answer>>
    BY <1>8 DEF vars, loopVars
  <2>2. TypeOK' /\ FreshPart'
    BY <1>1, <1>4, <2>1 DEF TypeOK, FreshPart
  <2>3. FailedPart'
    BY <1>1, <1>4, <2>1 DEF FailedPart, Excludes, Common
  <2> QED
    BY <1>4, <2>1, <2>2, <2>3 DEF IInv
<1> QED
  BY <1>2, <1>3, <1>5, <1>6, <1>7, <1>8 DEF Next

LEMMA Invariant == Spec => []IInv
<1>1. Init => IInv
  BY InitInv
<1>2. IInv /\ [Next]_vars => IInv'
  BY NextInv
<1> QED
  BY <1>1, <1>2, PTL DEF Spec

\* Intersects visits a pair of groups in every iteration of its two loops; the
\* types of what it keeps, of the predicates a group stands for too.
THEOREM TypeCorrect == Spec => [](TypeOK /\ P!TypeOK)
<1>1. IInv => TypeOK /\ P!TypeOK
  BY DEF IInv, LoopPart, P!Inv
<1> QED
  BY <1>1, Invariant, PTL

\* Constraint.Intersects reports a conflict only when no version matches both
\* constraints, for all constraints over all numbers.
THEOREM ConflictsReal == Spec => []NeverFalseConflict
<1>1. ASSUME IInv PROVE NeverFalseConflict
  <2> SUFFICES ASSUME result = FALSE, NEW v \in Matching(left),
                      v \in Matching(right)
               PROVE  FALSE
    BY Zenon DEF NeverFalseConflict
  <2>1. PICK i \in DOMAIN left : v \in Versions /\ Holds(v, Flatten(left[i]))
    BY MatchingMeans
  <2>2. PICK k \in DOMAIN right : Holds(v, Flatten(right[k]))
    BY MatchingMeans
  <2>3. <<i, k>> \in Pairs /\ <<i, k>>[1] = i /\ <<i, k>>[2] = k
    BY DEF Pairs
  <2>4. Common(v, <<i, k>>)
    BY <2>1, <2>2, <2>3 DEF Common
  <2>5. Excludes(<<i, k>>)
    BY <1>1, <2>3 DEF IInv, FailedPart
  <2> QED
    BY <2>1, <2>4, <2>5 DEF Excludes
<1> QED
  BY <1>1, Invariant, PTL

-----------------------------------------------------------------------------
(* Overlooked conflicts. Versions that no predicate names lie beyond the      *)
(* highest numbers, and directly after every version that is not a dev one.   *)

LEMMA Beyond ==
    \E v \in Versions : v \notin Named /\ \A w \in Named : Compare(w, v) < 0
<1> DEFINE s == [i \in 1..1 |-> Top + 2]
           v == Plain(Padded(s), Patch)
<1>1. s \in [1..1 -> 0 .. Top + 2] /\ 1 \in 1..Parts
  BY TopFacts, NumbersAssumption
<1>2. Padded(s) \in {Padded(t) : t \in UNION {[1..m -> 0 .. Top + 2] : m \in 1..Parts}}
  BY <1>1, Zenon
<1>3. Padded(s)[1] = Top + 2
  BY <1>1, PaddedAt
<1> HIDE DEF s
<1>4. Patch \in Stabilities /\ Patch # Dev
  BY DEF Stabilities, Patch, Dev
<1>5. v \in Versions
  BY <1>2, <1>4, SuffixAssumption DEF Versions, Plain
<1>6. v.components[1] = Top + 2
  BY <1>3 DEF Plain
<1>7. v \notin Named
  BY <1>6, TopFacts DEF Named
<1>8. ASSUME NEW w \in Named PROVE Compare(w, v) < 0
  <2>1. w \in Versions /\ w.components[1] <= Top + 1
    BY NamedFacts
  <2>2. w.components[1] \in Nat
    BY NamedFacts, TopFacts DEF Number4, Component
  <2>3. Key(w)[1] < Key(v)[1]
    BY <1>5, <1>6, <2>1, <2>2, KeyFacts, TopFacts
  <2>4. 1 \in DOMAIN Key(v)
    BY <1>5, KeyFacts, VersionFields
  <2>5. Less(Key(w), Key(v))
    BY <2>3, <2>4 DEF Less
  <2> QED
    BY <1>5, <2>1, <2>5, CompareFacts
<1> QED
  BY <1>5, <1>7, <1>8

LEMMA KeyDomain ==
    ASSUME NEW v \in Versions
    PROVE  /\ \A j \in 1..5 : j \in DOMAIN Key(v)
           /\ v.qualifier = <<>> => DOMAIN Key(v) = 1..5
           /\ v.qualifier # <<>> => 6 \in DOMAIN Key(v)
<1> DEFINE q == v.qualifier n == Len(q)
<1>1. q \in Seq(Nat)
  BY VersionFields
<1>2. DOMAIN Key(v) = 1 .. 5 + n
  BY KeyFacts
<1> HIDE DEF q
<1>3. n \in Nat /\ (q = <<>> => n = 0) /\ (q # <<>> => n # 0)
  BY <1>1
<1> HIDE DEF n
<1>4. /\ \A j \in 1..5 : j \in DOMAIN Key(v)
      /\ n = 0 => DOMAIN Key(v) = 1..5
      /\ n # 0 => 6 \in DOMAIN Key(v)
  BY <1>2, <1>3
<1> QED
  BY <1>3, <1>4 DEF q

\* With a qualifier, of the same stability or a higher one: directly after x,
\* or at least before all that have higher numbers.
LEMMA Qualified ==
    ASSUME NEW x \in Named, NEW stability \in Stabilities, stability # Dev,
           x.stability <= stability
    PROVE  \E v \in Versions :
             /\ v \notin Named /\ Compare(x, v) < 0
             /\ v.components = x.components /\ v.stability = stability
<1>1. PICK q \in Qualifiers : q # <<>>
  BY SuffixAssumption
<1> DEFINE v == [components |-> x.components, qualifier |-> q,
                 stability |-> stability]
<1>2. x.components \in {Padded(s) : s \in UNION {[1..n -> 0 .. Top + 2] : n \in 1..Parts}}
  BY Zenon DEF Named, Versions
<1>3. v \in Versions
  BY <1>2 DEF Versions
<1>4. v.components = x.components /\ v.stability = stability /\ v.qualifier = q
  OBVIOUS
<1> HIDE DEF v
<1>5. v \notin Named
  BY <1>1, <1>4 DEF Named
<1>6. /\ DOMAIN Key(x) = 1..5
      /\ \A i \in 1..6 : i \in DOMAIN Key(v)
      /\ \A i \in 1..4 : Key(x)[i] = Key(v)[i]
      /\ Key(x)[5] = x.stability /\ Key(v)[5] = stability
  <2>1. x \in Versions /\ x.qualifier = <<>>
    BY DEF Named
  <2>2. DOMAIN Key(x) = 1..5
    BY <2>1, KeyDomain
  <2>3. \A i \in 1..6 : i \in DOMAIN Key(v)
    <3>1. 6 \in DOMAIN Key(v) /\ \A i \in 1..5 : i \in DOMAIN Key(v)
      BY <1>1, <1>3, <1>4, KeyDomain
    <3> QED
      BY <3>1
  <2>4. \A i \in 1..4 : Key(x)[i] = Key(v)[i]
    <3>1. \A i \in 1..4 : Key(x)[i] = x.components[i]
      BY <2>1, KeyFacts
    <3>2. \A i \in 1..4 : Key(v)[i] = v.components[i]
      BY <1>3, KeyFacts
    <3> QED
      BY <1>4, <3>1, <3>2
  <2>5. Key(x)[5] = x.stability /\ Key(v)[5] = stability
    BY <1>3, <1>4, <2>1, KeyFacts
  <2> QED
    BY <2>2, <2>3, <2>4, <2>5
<1>7. x.stability \in Int /\ stability \in Int
  BY NamedFacts DEF Stabilities, Dev, Patch
<1>8. Less(Key(x), Key(v))
  <2>1. CASE x.stability < stability
    <3>1. /\ 5 \in DOMAIN Key(v)
          /\ \A j \in 1 .. 5 - 1 : j \in DOMAIN Key(x) /\ Key(x)[j] = Key(v)[j]
          /\ Key(x)[5] < Key(v)[5]
      BY <1>6, <2>1
    <3> QED
      BY <3>1, Zenon DEF Less
  <2>2. CASE x.stability = stability
    <3>1. /\ 6 \in DOMAIN Key(v) /\ 6 \notin DOMAIN Key(x)
          /\ \A j \in 1 .. 6 - 1 : j \in DOMAIN Key(x) /\ Key(x)[j] = Key(v)[j]
      BY <1>6, <2>2
    <3> QED
      BY <3>1, Zenon DEF Less
  <2> QED
    BY <1>7, <2>1, <2>2
<1>9. Compare(x, v) < 0
  BY <1>3, <1>8, CompareFacts DEF Named
<1> QED
  BY <1>3, <1>4, <1>5, <1>9

\* Where a predicate's version is decided: within the first five places.
LEMMA NamedLess ==
    ASSUME NEW x \in Versions, NEW y \in Named, Compare(x, y) < 0
    PROVE  \/ \E i \in 1..4 :
                /\ \A j \in 1 .. i - 1 : x.components[j] = y.components[j]
                /\ x.components[i] < y.components[i]
           \/ x.components = y.components /\ x.stability < y.stability
<1>1. y \in Versions /\ y.qualifier = <<>>
  BY DEF Named
<1>2. Less(Key(x), Key(y))
  BY <1>1, CompareFacts
<1>3. PICK i \in DOMAIN Key(y) :
        /\ \A j \in 1 .. i - 1 : j \in DOMAIN Key(x) /\ Key(x)[j] = Key(y)[j]
        /\ i \in DOMAIN Key(x) => Key(x)[i] < Key(y)[i]
  BY <1>2 DEF Less
<1>4. DOMAIN Key(y) = 1..5
  BY <1>1, KeyDomain
<1>5. i \in DOMAIN Key(x)
  BY <1>4, KeyDomain
<1>k. /\ \A j \in 1..4 : Key(x)[j] = x.components[j] /\ Key(y)[j] = y.components[j]
      /\ Key(x)[5] = x.stability /\ Key(y)[5] = y.stability
  <2>1. \A j \in 1..4 : Key(x)[j] = x.components[j]
    BY KeyFacts
  <2>2. \A j \in 1..4 : Key(y)[j] = y.components[j]
    BY <1>1, KeyFacts
  <2>3. Key(x)[5] = x.stability /\ Key(y)[5] = y.stability
    BY <1>1, KeyFacts
  <2> QED
    BY <2>1, <2>2, <2>3
<1>6. CASE i \in 1..4
  <2>1. \A j \in 1 .. i - 1 : x.components[j] = y.components[j]
    <3>1. \A j \in 1 .. i - 1 : j \in 1..4
      BY <1>6
    <3> QED
      BY <1>3, <1>k, <3>1
  <2>2. x.components[i] < y.components[i]
    BY <1>3, <1>5, <1>6, <1>k
  <2> QED
    BY <1>6, <2>1, <2>2
<1>7. CASE i = 5
  <2>1. \A j \in 1..4 : x.components[j] = y.components[j]
    BY <1>3, <1>7, <1>k
  <2>2. x.components \in Number4 /\ y.components \in Number4
    BY <1>1, VersionFields
  <2> DEFINE c == x.components d == y.components
  <2>3. c \in [1..4 -> Component] /\ d \in [1..4 -> Component]
    BY <2>2 DEF Number4
  <2>4. \A j \in 1..4 : c[j] = d[j]
    BY <2>1
  <2> HIDE DEF c, d
  <2>5. c = d
    BY <2>3, <2>4, Extensional
  <2>6. x.stability < y.stability
    BY <1>3, <1>5, <1>7, <1>k
  <2> QED
    BY <2>5, <2>6 DEF c, d
<1> QED
  BY <1>4, <1>6, <1>7

\* And the other way around.
LEMMA ComponentsLess ==
    ASSUME NEW x \in Versions, NEW y \in Versions,
           \/ \E i \in 1..4 :
                /\ \A j \in 1 .. i - 1 : x.components[j] = y.components[j]
                /\ x.components[i] < y.components[i]
           \/ x.components = y.components /\ x.stability < y.stability
    PROVE  Compare(x, y) < 0
<1>1. /\ \A j \in 1..5 : j \in DOMAIN Key(x) /\ j \in DOMAIN Key(y)
      /\ \A j \in 1..4 : Key(x)[j] = x.components[j] /\ Key(y)[j] = y.components[j]
      /\ Key(x)[5] = x.stability /\ Key(y)[5] = y.stability
  <2>1. \A j \in 1..5 : j \in DOMAIN Key(x) /\ j \in DOMAIN Key(y)
    BY KeyDomain
  <2>2. \A j \in 1..4 : Key(x)[j] = x.components[j]
    BY KeyFacts
  <2>3. \A j \in 1..4 : Key(y)[j] = y.components[j]
    BY KeyFacts
  <2>4. Key(x)[5] = x.stability /\ Key(y)[5] = y.stability
    BY KeyFacts
  <2> QED
    BY <2>1, <2>2, <2>3, <2>4
<1>2. ASSUME NEW i \in 1..4,
             \A j \in 1 .. i - 1 : x.components[j] = y.components[j],
             x.components[i] < y.components[i]
      PROVE  Less(Key(x), Key(y))
  <2>1. i \in DOMAIN Key(y) /\ Key(x)[i] < Key(y)[i]
    BY <1>1, <1>2
  <2>2. \A j \in 1 .. i - 1 : j \in DOMAIN Key(x) /\ Key(x)[j] = Key(y)[j]
    BY <1>1, <1>2
  <2> QED
    BY <2>1, <2>2 DEF Less
<1>3. ASSUME x.components = y.components, x.stability < y.stability
      PROVE  Less(Key(x), Key(y))
  <2>1. 5 \in DOMAIN Key(y) /\ Key(x)[5] < Key(y)[5]
    BY <1>1, <1>3
  <2>2. \A j \in 1 .. 5 - 1 : j \in DOMAIN Key(x) /\ Key(x)[j] = Key(y)[j]
    BY <1>1, <1>3
  <2> QED
    BY <2>1, <2>2 DEF Less
<1> QED
  BY <1>2, <1>3, CompareFacts

\* Between two named versions with another between there is one without a name.
LEMMA BetweenNamed ==
    ASSUME NEW l \in Named, NEW u \in Named, NEW v \in Versions,
           Compare(l, v) < 0, Compare(v, u) < 0
    PROVE  \E w \in Versions :
             w \notin Named /\ Compare(l, w) < 0 /\ Compare(w, u) < 0
<1>1. CASE v \notin Named
  BY <1>1
<1>2. CASE v \in Named /\ v.stability # Dev
  <2>1. v.stability \in Stabilities /\ v.stability <= v.stability
    BY <1>2, NamedFacts DEF Stabilities, Dev, Patch
  <2>2. PICK w \in Versions :
          /\ w \notin Named /\ Compare(v, w) < 0
          /\ w.components = v.components /\ w.stability = v.stability
    BY <1>2, <2>1, Qualified
  <2>3. Compare(w, u) < 0
    <3>1. u \in Versions
      BY DEF Named
    <3> QED
      BY <2>2, <3>1, NamedLess, ComponentsLess
  <2>4. Compare(l, w) < 0
    BY <2>2, VersionsTotallyOrdered DEF Total, Solve!TotalOrder, Named
  <2> QED
    BY <2>2, <2>3, <2>4
<1>3. CASE v \in Named /\ v.stability = Dev
  <2>1. Patch \in Stabilities /\ Patch # Dev /\ l.stability <= Patch
        /\ ~(l.stability < Dev)
    BY NamedFacts DEF Stabilities, Dev, Patch
  <2>2. PICK w \in Versions :
          /\ w \notin Named /\ Compare(l, w) < 0
          /\ w.components = l.components /\ w.stability = Patch
    BY <2>1, Qualified
  <2>3. l \in Versions /\ u \in Versions
    BY DEF Named
  <2>4. \E i \in 1..4 :
          /\ \A j \in 1 .. i - 1 : l.components[j] = v.components[j]
          /\ l.components[i] < v.components[i]
    BY <1>3, <2>1, <2>3, NamedLess
  <2>5. Compare(w, v) < 0
    BY <2>2, <2>4, ComponentsLess
  <2>6. Compare(w, u) < 0
    BY <2>3, <2>5, VersionsTotallyOrdered DEF Total, Solve!TotalOrder
  <2> QED
    BY <2>2, <2>6
<1> QED
  BY <1>1, <1>2, <1>3

\* Bounds that leave something leave a version, unless there is a hole.
LEMMA NonemptyOrHole ==
    ASSUME LoopPart, P!Nonempty, ~Hole
    PROVE  \E v \in Versions :
             P!Above(v, lower) /\ P!Below(v, upper) /\ v \notin excluded
<1> DEFINE l == lower.version u == upper.version
<1>1. lower \in P!Bound /\ upper \in P!Bound /\ excluded \subseteq Named
  BY DEF LoopPart, P!Inv, P!TypeOK
<1>2. /\ lower # None => l \in Named /\ lower.inclusive \in BOOLEAN
      /\ upper # None => u \in Named /\ upper.inclusive \in BOOLEAN
  BY <1>1 DEF P!Bound
<1>3. ASSUME NEW v \in Versions, lower # None => Compare(l, v) < 0
      PROVE  P!Above(v, lower)
  <2>1. lower # None => Compare(v, l) > 0 /\ Compare(v, l) \in Int
    BY <1>2, <1>3, VersionsTotallyOrdered DEF Total, Solve!TotalOrder, Named
  <2> QED
    BY <1>2, <2>1 DEF P!Above
<1>4. ASSUME NEW v \in Versions, upper # None => Compare(v, u) < 0
      PROVE  P!Below(v, upper)
  <2>1. upper # None => Compare(v, u) \in Int
    BY <1>2, VersionsTotallyOrdered DEF Total, Solve!TotalOrder, Named
  <2> QED
    BY <1>2, <1>4, <2>1 DEF P!Below
<1>n. P!Nonempty
  OBVIOUS
<1>h. /\ ~(lower = None /\ upper # None)
      /\ lower # None /\ upper # None /\ Compare(l, u) < 0 =>
           \E v \in Versions : Compare(l, v) < 0 /\ Compare(v, u) < 0
  BY Zenon DEF Hole
<1>5. CASE upper = None
  <2>1. PICK v \in Versions :
          v \notin Named /\ \A w \in Named : Compare(w, v) < 0
    BY Beyond
  <2> QED
    BY <1>1, <1>2, <1>3, <1>4, <1>5, <2>1
<1>6. CASE lower # None /\ upper # None /\ Compare(l, u) < 0
  <2>1. PICK v \in Versions : Compare(l, v) < 0 /\ Compare(v, u) < 0
    BY <1>6, <1>h
  <2>2. PICK w \in Versions :
          w \notin Named /\ Compare(l, w) < 0 /\ Compare(w, u) < 0
    BY <1>2, <1>6, <2>1, BetweenNamed
  <2> QED
    BY <1>1, <1>3, <1>4, <2>2
<1>7. CASE lower # None /\ upper # None /\ ~(Compare(l, u) < 0)
  <2>1. /\ Compare(l, u) = 0 /\ lower.inclusive /\ upper.inclusive
        /\ \A e \in excluded : Compare(l, e) # 0
    BY <1>n, <1>7, Zenon DEF P!Nonempty
  <2>2. l \in Versions /\ u \in Versions
    BY <1>2, <1>7 DEF Named
  <2>3. l = u /\ Compare(l, l) = 0
    BY <2>1, <2>2, CompareFacts
  <2>4. l \notin excluded
    BY <2>1, <2>3
  <2>5. P!Above(l, lower) /\ P!Below(l, upper)
    BY <2>1, <2>3 DEF P!Above, P!Below
  <2> QED
    BY <2>2, <2>4, <2>5
<1> QED
  BY <1>5, <1>6, <1>7, <1>h

AnsweredPart == answer = TRUE => Hole \/ \E v \in Versions : P!Solution(v)
FoundPart == result = TRUE => answer = TRUE
HInv == IInv /\ AnsweredPart /\ FoundPart

\* The answer TRUE has a version, unless there is a hole.
LEMMA LoopAnswers ==
    ASSUME LoopPart, AnsweredPart, P!Next PROVE AnsweredPart'
<1>1. CASE P!Decide
  <2>1. PICK i \in DOMAIN predicates :
          answer' = \A j \in DOMAIN predicates :
                        P!Satisfies(predicates[i].version, predicates[j])
    BY <1>1, Zenon DEF P!Decide
  <2>2. predicates[i].version \in Versions
    <3>1. predicates[i] \in P!Predicate
      BY DEF LoopPart, P!Inv, P!TypeOK
    <3> QED
      BY <3>1 DEF P!Predicate, Named
  <2>3. answer' = TRUE => \E v \in Versions : P!Solution(v)
    BY <2>1, <2>2, Zenon DEF P!Solution
  <2>4. predicates' = predicates
    BY <1>1 DEF P!Decide
  <2> QED
    BY <2>3, <2>4, Zenon DEF AnsweredPart, P!Solution
<1>2. CASE P!Scan
  <2>1. answer' # TRUE
    BY <1>2, NoneAssumption DEF P!Scan
  <2> QED
    BY <2>1 DEF AnsweredPart
<1>3. CASE P!Conclude
  <2>1. /\ answer' = P!Nonempty /\ predicates' = predicates
        /\ lower' = lower /\ upper' = upper
        /\ index = Len(predicates) + 1
        /\ \A i \in DOMAIN predicates : predicates[i].op # "="
    BY <1>3, Zenon DEF P!Conclude
  <2>2. DOMAIN predicates = 1 .. index - 1
    BY <2>1 DEF LoopPart, P!Inv, P!TypeOK
  <2>3. ASSUME P!Nonempty, ~Hole PROVE \E v \in Versions : P!Solution(v)
    <3>1. PICK v \in Versions :
            P!Above(v, lower) /\ P!Below(v, upper) /\ v \notin excluded
      BY <2>3, NonemptyOrHole
    <3>2. P!Exact
      BY DEF LoopPart
    <3>3. \A i \in 1 .. index - 1 : P!Satisfies(v, predicates[i])
      BY <2>1, <3>1, <3>2, Zenon DEF P!Exact
    <3> QED
      BY <2>2, <3>3, Zenon DEF P!Solution
  <2>4. answer' = TRUE => P!Nonempty
    BY <2>1
  <2>5. Hole' = Hole
    BY <2>1, Zenon DEF Hole
  <2> QED
    BY <2>1, <2>3, <2>4, <2>5, Zenon DEF AnsweredPart, P!Solution
<1> QED
  BY <1>1, <1>2, <1>3 DEF P!Next

LEMMA NextHInv == ASSUME HInv, [Next]_vars PROVE HInv'
<1>1. IInv /\ LoopPart /\ FreshPart /\ AnsweredPart /\ FoundPart
  BY DEF HInv, IInv
<1>2. IInv'
  BY <1>1, NextInv
<1>3. ASSUME answer' = None, result' = None PROVE AnsweredPart' /\ FoundPart'
  BY <1>3, NoneAssumption DEF AnsweredPart, FoundPart
<1>4. CASE Start \/ NextPair
  BY <1>2, <1>3, <1>4 DEF Start, NextPair, Enter, HInv
<1>5. CASE Loop
  <2>1. P!Next /\ result' = result
    BY <1>5, SameLoop DEF Loop
  <2>2. AnsweredPart'
    BY <1>1, <2>1, LoopAnswers
  <2>3. answer = None
    BY <2>1 DEF P!Next, P!Decide, P!Scan, P!Conclude
  <2>4. FoundPart'
    BY <1>1, <2>1, <2>3, NoneAssumption DEF FoundPart
  <2> QED
    BY <1>2, <2>2, <2>4 DEF HInv
<1>6. ASSUME UNCHANGED loopVars PROVE AnsweredPart'
  BY <1>1, <1>6 DEF loopVars, AnsweredPart, Hole, P!Solution
<1>7. CASE Found \/ NotFound
  <2>1. UNCHANGED loopVars
    BY <1>7 DEF Found, NotFound
  <2>2. FoundPart'
    BY <1>7 DEF Found, NotFound, FoundPart, loopVars
  <2> QED
    BY <1>2, <1>6, <2>1, <2>2 DEF HInv
<1>8. CASE UNCHANGED vars
  <2>1. UNCHANGED loopVars /\ UNCHANGED <<result, answer>>
    BY <1>8 DEF vars, loopVars
  <2>2. FoundPart'
    BY <1>1, <2>1 DEF FoundPart
  <2> QED
    BY <1>2, <1>6, <2>1, <2>2 DEF HInv
<1> QED
  BY <1>4, <1>5, <1>7, <1>8 DEF Next

\* A conflict that Intersects overlooks is one in a hole: the bounds of the
\* pair do not meet, and yet no version lies between them. For all
\* constraints over all numbers.
THEOREM OverlookedInHoles == Spec => []ConflictsOverlookedInHoles
<1>1. Init => HInv
  <2> SUFFICES ASSUME Init PROVE HInv
    OBVIOUS
  <2>1. answer = None /\ result = None
    BY DEF Init, Solve!Begin
  <2> QED
    BY <2>1, InitInv, NoneAssumption DEF HInv, AnsweredPart, FoundPart
<1>2. HInv /\ [Next]_vars => HInv'
  BY NextHInv
<1>3. ASSUME HInv PROVE ConflictsOverlookedInHoles
  <2> SUFFICES ASSUME result = TRUE, ~Hole
               PROVE  Matching(left) \cap Matching(right) # {}
    BY Zenon DEF ConflictsOverlookedInHoles
  <2>1. TypeOK /\ LoopPart /\ JoinedPart /\ FreshPart
    BY <1>3 DEF HInv, IInv
  <2>2. PICK v \in Versions : P!Solution(v)
    BY <1>3 DEF HInv, AnsweredPart, FoundPart
  <2>3. pair # None
    BY <2>1, NoneAssumption DEF FreshPart
  <2>4. pair[1] \in DOMAIN left /\ pair[2] \in DOMAIN right
    BY <2>1, <2>3, PairFacts DEF TypeOK
  <2> DEFINE s == Flatten(left[pair[1]]) t == Flatten(right[pair[2]])
  <2>5. s \in Seq(P!Predicate) /\ t \in Seq(P!Predicate)
    BY <2>1, <2>4, FlattenType DEF TypeOK
  <2>6. predicates = s \o t
    BY <2>1, <2>3 DEF JoinedPart
  <2> HIDE DEF s, t
  <2>7. Holds(v, s \o t)
    BY <2>2, <2>6, Zenon DEF P!Solution, Holds
  <2>8. Holds(v, s) /\ Holds(v, t)
    BY <2>5, <2>7, ConcatHolds
  <2>9. v \in Matching(left) /\ v \in Matching(right)
    BY <2>4, <2>8, MatchingMeans, Zenon DEF s, t
  <2> QED
    BY <2>9
<1> QED
  BY <1>1, <1>2, <1>3, PTL DEF Spec

-----------------------------------------------------------------------------
(* What atoms mean.                                                           *)

\* The order of four numbers.
Less4(a, b) ==
    \/ a[1] < b[1]
    \/ a[1] = b[1] /\ a[2] < b[2]
    \/ a[1] = b[1] /\ a[2] = b[2] /\ a[3] < b[3]
    \/ a[1] = b[1] /\ a[2] = b[2] /\ a[3] = b[3] /\ a[4] < b[4]

LEMMA FirstDifference ==
    ASSUME NEW a \in [1..4 -> Nat], NEW b \in [1..4 -> Nat]
    PROVE  /\ Less(a, b) <=> Less4(a, b)
           /\ (\E i \in 1..4 : (\A j \in 1 .. i - 1 : a[j] = b[j]) /\ a[i] < b[i])
                <=> Less4(a, b)
<1>1. /\ 1 .. 1 - 1 = {} /\ 1 .. 2 - 1 = {1} /\ 1 .. 3 - 1 = {1, 2}
      /\ 1 .. 4 - 1 = {1, 2, 3} /\ 1..4 = {1, 2, 3, 4}
  OBVIOUS
<1>2. (\E i \in 1..4 : (\A j \in 1 .. i - 1 : a[j] = b[j]) /\ a[i] < b[i])
        <=> Less4(a, b)
  BY <1>1 DEF Less4
<1>3. ASSUME NEW i \in 1..4
      PROVE  i \in DOMAIN a /\ \A j \in 1 .. i - 1 : j \in DOMAIN a
  OBVIOUS
<1>4. DOMAIN b = 1..4
  OBVIOUS
<1>5. Less(a, b) <=>
        \E i \in 1..4 : (\A j \in 1 .. i - 1 : a[j] = b[j]) /\ a[i] < b[i]
  BY <1>3, <1>4, Zenon DEF Less
<1> QED
  BY <1>2, <1>5

LEMMA Components ==
    ASSUME NEW v \in Versions PROVE v.components \in [1..4 -> Nat]
BY VersionFields, TopFacts DEF Number4, Component

\* Against a dev version only the numbers count.
LEMMA DevBound ==
    ASSUME NEW v \in Versions, NEW c, Plain(c, Dev) \in Named
    PROVE  Compare(v, Plain(c, Dev)) < 0 <=> Less4(v.components, c)
<1> DEFINE n == Plain(c, Dev)
<1>1. n.components = c /\ n.stability = Dev
  BY DEF Plain
<1>2. n \in Named /\ n \in Versions
  BY DEF Named
<1> HIDE DEF n
<1>3. v.components \in [1..4 -> Nat] /\ c \in [1..4 -> Nat]
  BY <1>1, <1>2, Components
<1>4. ~(v.stability < Dev)
  BY VersionFields DEF Stabilities, Dev, Patch
<1>5. Compare(v, n) < 0 <=>
        \E i \in 1..4 : (\A j \in 1 .. i - 1 : v.components[j] = c[j])
                       /\ v.components[i] < c[i]
  BY <1>1, <1>2, <1>4, NamedLess, ComponentsLess
<1> QED
  BY <1>3, <1>5, FirstDifference DEF n

LEMMA LowestMeans ==
    ASSUME NEW v \in Versions, NEW w \in Written
    PROVE  /\ Compare(v, Lowest(w)) >= 0 <=> AtLeast(v, w)
           /\ AtLeast(v, w) => ~Less4(v.components, Padded(w.parts))
<1> DEFINE c == Padded(w.parts)
<1>1. Lowest(w) \in Named /\ Lowest(w) \in Versions
  BY LowestFacts DEF Named
<1>2. Compare(v, Lowest(w)) \in Int
  BY <1>1, CompareFacts
<1>3. Lowest(w).components = c
  BY LowestFacts DEF Plain
<1>4. v.components \in [1..4 -> Nat] /\ c \in [1..4 -> Nat]
  BY <1>1, <1>3, Components
<1>5. CASE w.modifier = None
  <2>1. Lowest(w) = Plain(c, Dev)
    BY <1>5, LowestFacts
  <2>2. Compare(v, Lowest(w)) < 0 <=> Less4(v.components, c)
    BY <1>1, <2>1, DevBound
  <2>3. AtLeast(v, w) <=> ~Less4(v.components, c)
    BY <1>4, <1>5, FirstDifference DEF AtLeast
  <2> QED
    BY <1>2, <2>2, <2>3
<1>6. CASE w.modifier # None
  <2>1. AtLeast(v, w) <=> Compare(v, Lowest(w)) >= 0
    BY <1>6 DEF AtLeast, Lowest
  <2>2. ASSUME Less4(v.components, c) PROVE Compare(v, Lowest(w)) < 0
    <3>1. \E i \in 1..4 : (\A j \in 1 .. i - 1 : v.components[j] = c[j])
                         /\ v.components[i] < c[i]
      BY <1>4, <2>2, FirstDifference
    <3> QED
      BY <1>1, <1>3, <3>1, ComponentsLess
  <2> QED
    BY <1>2, <2>1, <2>2
<1> QED
  BY <1>5, <1>6

\* An incremented prefix above: together with the lower end, the prefix.
LEMMA PrefixRange ==
    ASSUME NEW c \in [1..4 -> Nat], NEW d \in [1..4 -> Nat], NEW p \in 1..3
    PROVE  /\ ~Less4(d, c) =>
                (Less4(d, Incremented(c, p)) <=> \A i \in 1..p : d[i] = c[i])
           /\ (\A i \in p + 1 .. 4 : c[i] = 0) /\ (\A i \in 1..p : d[i] = c[i])
                => ~Less4(d, c)
<1> DEFINE e == Incremented(c, p)
<1>1. /\ c[1] \in Nat /\ c[2] \in Nat /\ c[3] \in Nat /\ c[4] \in Nat
      /\ d[1] \in Nat /\ d[2] \in Nat /\ d[3] \in Nat /\ d[4] \in Nat
  OBVIOUS
<1>2. CASE p = 1
  <2>1. e[1] = c[1] + 1 /\ e[2] = 0 /\ e[3] = 0 /\ e[4] = 0
    BY <1>2 DEF Incremented
  <2>2. (\A i \in 1..p : d[i] = c[i]) <=> d[1] = c[1]
    BY <1>2
  <2>3. (\A i \in p + 1 .. 4 : c[i] = 0) => c[2] = 0 /\ c[3] = 0 /\ c[4] = 0
    BY <1>2
  <2> HIDE DEF e
  <2>4. ~Less4(d, c) => (Less4(d, e) <=> d[1] = c[1])
    BY <1>1, <2>1 DEF Less4
  <2> QED
    BY <1>1, <2>2, <2>3, <2>4 DEF Less4, e
<1>3. CASE p = 2
  <2>1. e[1] = c[1] /\ e[2] = c[2] + 1 /\ e[3] = 0 /\ e[4] = 0
    BY <1>3 DEF Incremented
  <2>2. (\A i \in 1..p : d[i] = c[i]) <=> d[1] = c[1] /\ d[2] = c[2]
    BY <1>3
  <2>3. (\A i \in p + 1 .. 4 : c[i] = 0) => c[3] = 0 /\ c[4] = 0
    BY <1>3
  <2> HIDE DEF e
  <2>4. ~Less4(d, c) => (Less4(d, e) <=> d[1] = c[1] /\ d[2] = c[2])
    BY <1>1, <2>1 DEF Less4
  <2> QED
    BY <1>1, <2>2, <2>3, <2>4 DEF Less4, e
<1>4. CASE p = 3
  <2>1. e[1] = c[1] /\ e[2] = c[2] /\ e[3] = c[3] + 1 /\ e[4] = 0
    BY <1>4 DEF Incremented
  <2>2. (\A i \in 1..p : d[i] = c[i]) <=> d[1] = c[1] /\ d[2] = c[2] /\ d[3] = c[3]
    BY <1>4
  <2>3. (\A i \in p + 1 .. 4 : c[i] = 0) => c[4] = 0
    BY <1>4
  <2> HIDE DEF e
  <2>4. ~Less4(d, c) => (Less4(d, e) <=> d[1] = c[1] /\ d[2] = c[2] /\ d[3] = c[3])
    BY <1>1, <2>1 DEF Less4
  <2> QED
    BY <1>1, <2>2, <2>3, <2>4 DEF Less4, e
<1> QED
  BY <1>2, <1>3, <1>4

\* An incremented prefix alone: no larger prefix.
LEMMA PrefixAbove ==
    ASSUME NEW c \in [1..4 -> Nat], NEW d \in [1..4 -> Nat], NEW p \in 1..2
    PROVE  Less4(d, Incremented(c, p))
             <=> ~Less(SubSeq(c, 1, p), SubSeq(d, 1, p))
<1> DEFINE e == Incremented(c, p)
<1>1. /\ c[1] \in Nat /\ c[2] \in Nat
      /\ d[1] \in Nat /\ d[2] \in Nat /\ d[3] \in Nat /\ d[4] \in Nat
  OBVIOUS
<1>2. /\ c \in Seq(Nat) /\ Len(c) = 4 /\ d \in Seq(Nat) /\ Len(d) = 4
  BY Tuple
<1>3. /\ DOMAIN SubSeq(c, 1, p) = 1..p /\ DOMAIN SubSeq(d, 1, p) = 1..p
      /\ \A i \in 1..p : SubSeq(c, 1, p)[i] = c[i] /\ SubSeq(d, 1, p)[i] = d[i]
  BY <1>2
<1>4. CASE p = 1
  <2>1. e[1] = c[1] + 1 /\ e[2] = 0 /\ e[3] = 0 /\ e[4] = 0
    BY <1>4 DEF Incremented
  <2>2. 1..p = {1} /\ 1 .. 1 - 1 = {}
    BY <1>4
  <2>3. Less(SubSeq(c, 1, p), SubSeq(d, 1, p)) <=> c[1] < d[1]
    BY <1>3, <2>2 DEF Less
  <2> HIDE DEF e
  <2>4. Less4(d, e) <=> ~(c[1] < d[1])
    BY <1>1, <2>1 DEF Less4
  <2> QED
    BY <2>3, <2>4 DEF e
<1>5. CASE p = 2
  <2>1. e[1] = c[1] /\ e[2] = c[2] + 1 /\ e[3] = 0 /\ e[4] = 0
    BY <1>5 DEF Incremented
  <2>2. 1..p = {1, 2} /\ 1 .. 1 - 1 = {} /\ 1 .. 2 - 1 = {1}
    BY <1>5
  <2>3. Less(SubSeq(c, 1, p), SubSeq(d, 1, p))
          <=> c[1] < d[1] \/ (c[1] = d[1] /\ c[2] < d[2])
    BY <1>3, <2>2 DEF Less
  <2> HIDE DEF e
  <2>4. Less4(d, e) <=> ~(c[1] < d[1] \/ (c[1] = d[1] /\ c[2] < d[2]))
    BY <1>1, <2>1 DEF Less4
  <2> QED
    BY <2>3, <2>4 DEF e
<1> QED
  BY <1>4, <1>5

\* The versions of one atom.
LEMMA MatchingAtom ==
    ASSUME NEW atom \in Atoms, NEW v \in Versions
    PROVE  v \in Matching(<<<<atom>>>>) <=> Holds(v, Predicates(atom))
<1> DEFINE c == <<<<atom>>>>
<1>1. DOMAIN c = {1} /\ c[1] = <<atom>> /\ Len(<<atom>>) = 1 /\ <<atom>>[1] = atom
  OBVIOUS
<1> HIDE DEF c
<1>2. Flatten(c[1]) = Predicates(atom) \o <<>>
  BY <1>1 DEF Flatten
<1>3. Predicates(atom) \o <<>> = Predicates(atom)
  BY PredicatesType, ConcatEmptySeq, Zenon
<1>4. v \in Matching(c) <=> \E i \in {1} : Holds(v, Flatten(c[i]))
  BY <1>1, MatchingMeans, Zenon
<1>5. v \in Matching(c) <=> Holds(v, Predicates(atom))
  BY <1>2, <1>3, <1>4
<1> QED
  BY <1>5 DEF c

LEMMA TwoHold ==
    ASSUME NEW v \in Versions, NEW low \in Named, NEW high \in Named
    PROVE  /\ Holds(v, Between(low, high))
                <=> Compare(v, low) >= 0 /\ Compare(v, high) < 0
           /\ Holds(v, <<[op |-> ">=", version |-> low],
                        [op |-> "<=", version |-> high]>>)
                <=> Compare(v, low) >= 0 /\ Compare(v, high) <= 0
<1>1. ASSUME NEW o \in {"<", "<="}
      PROVE  Holds(v, <<[op |-> ">=", version |-> low], [op |-> o, version |-> high]>>)
               <=> /\ P!PredicateMatches(">=", Compare(v, low))
                   /\ P!PredicateMatches(o, Compare(v, high))
  <2> DEFINE list == <<[op |-> ">=", version |-> low], [op |-> o, version |-> high]>>
  <2>1. DOMAIN list = {1, 2}
    OBVIOUS
  <2>2. /\ list[1].op = ">=" /\ list[1].version = low
        /\ list[2].op = o /\ list[2].version = high
    OBVIOUS
  <2> HIDE DEF list
  <2>3. Holds(v, list) <=> P!Satisfies(v, list[1]) /\ P!Satisfies(v, list[2])
    BY <2>1 DEF Holds
  <2>4. Holds(v, list) <=> /\ P!PredicateMatches(">=", Compare(v, low))
                           /\ P!PredicateMatches(o, Compare(v, high))
    BY <2>2, <2>3, Zenon DEF P!Satisfies
  <2> QED
    BY <2>4 DEF list
<1>2. \A k : /\ P!PredicateMatches(">=", k) <=> k >= 0
             /\ P!PredicateMatches("<", k) <=> k < 0
             /\ P!PredicateMatches("<=", k) <=> k <= 0
  BY DEF P!PredicateMatches
<1> QED
  BY <1>1, <1>2 DEF Between

LEMMA CaretSignificant ==
    ASSUME NEW w \in Written PROVE Significant(w.parts) = CaretPosition(w)
<1> DEFINE n == Len(w.parts)
           last == IF n < 3 THEN n ELSE 3
           nonzero == {i \in 1..last : w.parts[i] # 0}
           position == CaretPosition(w)
<1>1. n \in 1..4
  BY WrittenFacts, PartsFacts, Zenon
<1>2. /\ position = 1 => w.parts[1] # 0 \/ n = 1
      /\ position = 2 => n # 1 /\ w.parts[1] = 0 /\ (w.parts[2] # 0 \/ n = 2)
      /\ position = 3 => n # 1 /\ n # 2 /\ w.parts[1] = 0 /\ w.parts[2] = 0
      /\ position \in 1..3
  BY DEF CaretPosition
<1> HIDE DEF n, position
<1>3. last \in 1..3 /\ (n = 1 => last = 1) /\ (n = 2 => last = 2)
      /\ (n # 1 /\ n # 2 => last = 3)
  BY <1>1
<1>4. position \in nonzero \cup {last} /\ \A j \in nonzero : position <= j
  BY <1>2, <1>3
<1>5. ASSUME NEW i \in nonzero \cup {last}, \A j \in nonzero : i <= j
      PROVE  i = position
  BY <1>2, <1>3, <1>5
<1>6. Significant(w.parts)
        = CHOOSE i \in nonzero \cup {last} : \A j \in nonzero : i <= j
  BY Zenon DEF Significant, n
<1> HIDE DEF nonzero, last
<1>7. (CHOOSE i \in nonzero \cup {last} : \A j \in nonzero : i <= j) = position
  BY <1>4, <1>5
<1> QED
  BY <1>6, <1>7 DEF position

\* From a written version to the end of a prefix of it.
LEMMA PrefixOf ==
    ASSUME NEW v \in Versions, NEW w \in Written, NEW p \in 1 .. Len(w.parts),
           p \in 1..3
    PROVE  Holds(v, Between(Lowest(w), Next1(Normalized(w), p)))
             <=> AtLeast(v, w) /\ SamePrefix(v, w.parts, p)
<1> DEFINE c == Padded(w.parts) high == Next1(Normalized(w), p)
<1>1. /\ Lowest(w) \in Named /\ high \in Named
      /\ high = Plain(Incremented(c, p), Dev)
  BY LowestFacts, Next1Facts
<1>2. v.components \in [1..4 -> Nat] /\ c \in [1..4 -> Nat]
  <2>1. Normalized(w).components = c /\ Normalized(w) \in Versions
    BY NormalizedFacts DEF Named
  <2> QED
    BY <2>1, Components
<1> HIDE DEF high
<1>3. Holds(v, Between(Lowest(w), high))
        <=> Compare(v, Lowest(w)) >= 0 /\ Compare(v, high) < 0
  BY <1>1, TwoHold
<1>4. Compare(v, high) < 0 <=> Less4(v.components, Incremented(c, p))
  BY <1>1, DevBound
<1>5. ~Less4(v.components, c) =>
        (Less4(v.components, Incremented(c, p)) <=> SamePrefix(v, w.parts, p))
  BY <1>2, PrefixRange DEF SamePrefix
<1>6. /\ Compare(v, Lowest(w)) >= 0 <=> AtLeast(v, w)
      /\ AtLeast(v, w) => ~Less4(v.components, c)
  BY LowestMeans
<1> QED
  BY <1>3, <1>4, <1>5, <1>6, Zenon DEF high

LEMMA HyphenMeans ==
    ASSUME NEW v \in Versions, NEW w \in Written, NEW end \in Written
    PROVE  Holds(v, Hyphen(w, end)) <=>
             /\ AtLeast(v, w)
             /\ IF Len(end.parts) < 3 /\ end.modifier = None
                  THEN NumbersAtMost(v, end.parts, Len(end.parts))
                  ELSE Compare(v, Normalized(end)) <= 0
<1> DEFINE n == Len(end.parts)
<1>1. n \in 1..4 /\ n \in 1..n
  <2>1. n \in 1..4
    BY WrittenFacts, PartsFacts, Zenon
  <2> QED
    BY <2>1
<1>2. Compare(v, Lowest(w)) >= 0 <=> AtLeast(v, w)
  BY LowestMeans
<1>3. Lowest(w) \in Named /\ Normalized(end) \in Named
  BY LowestFacts, NormalizedFacts
<1>4. CASE n < 3 /\ end.modifier = None
  <2> DEFINE c == Padded(end.parts) high == Next1(Normalized(end), n)
  <2>1. high \in Named /\ high = Plain(Incremented(c, n), Dev)
    BY <1>1, Next1Facts
  <2>2. v.components \in [1..4 -> Nat] /\ c \in [1..4 -> Nat]
    <3>1. Normalized(end).components = c /\ Normalized(end) \in Versions
      BY NormalizedFacts DEF Named
    <3> QED
      BY <3>1, Components
  <2>3. n \in 1..2
    BY <1>1, <1>4
  <2>4. Compare(v, high) < 0 <=> Less4(v.components, Incremented(c, n))
    BY <2>1, DevBound
  <2>5. Less4(v.components, Incremented(c, n)) <=> NumbersAtMost(v, end.parts, n)
    BY <2>2, <2>3, PrefixAbove DEF NumbersAtMost
  <2>6. Holds(v, Between(Lowest(w), high))
          <=> Compare(v, Lowest(w)) >= 0 /\ Compare(v, high) < 0
    BY <1>3, <2>1, TwoHold
  <2>7. Hyphen(w, end) = Between(Lowest(w), high)
    BY <1>4, Zenon DEF Hyphen
  <2> QED
    BY <1>2, <1>4, <2>4, <2>5, <2>6, <2>7, Zenon
<1>5. CASE ~(n < 3 /\ end.modifier = None)
  <2>1. Hyphen(w, end) = <<[op |-> ">=", version |-> Lowest(w)],
                           [op |-> "<=", version |-> Normalized(end)]>>
    BY <1>5, Zenon DEF Hyphen
  <2>2. Holds(v, Hyphen(w, end)) <=>
          Compare(v, Lowest(w)) >= 0 /\ Compare(v, Normalized(end)) <= 0
    BY <1>3, <2>1, TwoHold
  <2> QED
    BY <1>2, <1>5, <2>2, Zenon
<1> QED
  BY <1>4, <1>5

LEMMA WildcardMeans ==
    ASSUME NEW v \in Versions, NEW n \in 1..3, n \in 1..Parts,
           NEW parts \in [1..n -> Numbers]
    PROVE  Holds(v, Wildcard(parts)) <=> SamePrefix(v, parts, n)
<1> DEFINE c == Padded(parts) low == AsDev(Normalized(Stem(parts)))
           high == Next1(low, n)
<1>1. Len(parts) = n /\ parts # <<>> /\ n \in 1..n
  BY Tuple
<1>2. /\ low \in Named /\ low = Plain(c, Dev)
      /\ high \in Named /\ high = Plain(Incremented(c, n), Dev)
  BY <1>1, StemWritten, StemNext
<1>3. v.components \in [1..4 -> Nat] /\ c \in [1..4 -> Nat]
  <2>1. low.components = c /\ low \in Versions
    BY <1>2 DEF Plain, Named
  <2> QED
    BY <2>1, Components
<1>4. \A i \in n + 1 .. 4 : c[i] = 0
  <2> SUFFICES ASSUME NEW i \in n + 1 .. 4 PROVE c[i] = 0
    OBVIOUS
  <2>1. n \in 1..4 /\ i \in 1..4 /\ ~(i <= n)
    OBVIOUS
  <2> QED
    BY <2>1, PaddedAt
<1>5. Wildcard(parts) = Between(low, high)
  BY <1>1, Zenon DEF Wildcard, Stem
<1> HIDE DEF low, high
<1>6. Holds(v, Between(low, high)) <=> Compare(v, low) >= 0 /\ Compare(v, high) < 0
  BY <1>2, TwoHold
<1>7. /\ Compare(v, low) < 0 <=> Less4(v.components, c)
      /\ Compare(v, high) < 0 <=> Less4(v.components, Incremented(c, n))
  BY <1>2, DevBound
<1>8. Compare(v, low) \in Int
  BY <1>2, CompareFacts DEF Named
<1>9. Compare(v, low) >= 0 <=> ~Less4(v.components, c)
  BY <1>7, <1>8
<1>10. /\ ~Less4(v.components, c) =>
            (Less4(v.components, Incremented(c, n)) <=> SamePrefix(v, parts, n))
       /\ SamePrefix(v, parts, n) => ~Less4(v.components, c)
  BY <1>3, <1>4, PrefixRange DEF SamePrefix
<1> QED
  BY <1>5, <1>6, <1>7, <1>9, <1>10, Zenon

LEMMA RangesMean ==
    ASSUME NEW atom \in Atoms PROVE RangeMeansPrefix(atom)
<1> SUFFICES ASSUME atom.kind \notin Comparisons, NEW v \in Versions
             PROVE  Holds(v, Predicates(atom)) <=> Means(v, atom)
  <2>1. \A v \in Versions :
          v \in Matching(<<<<atom>>>>) <=> Holds(v, Predicates(atom))
    BY MatchingAtom
  <2>2. Matching(<<<<atom>>>>) \subseteq Versions
    BY MatchingMeans
  <2>3. (\A v \in Versions : Holds(v, Predicates(atom)) <=> Means(v, atom))
          => Matching(<<<<atom>>>>) = {v \in Versions : Means(v, atom)}
    BY <2>1, <2>2
  <2> QED
    BY <2>3, Zenon DEF RangeMeansPrefix
<1>1. CASE atom.kind = "^"
  <2>1. atom.low \in Written
    BY <1>1, AtomFacts
  <2>2. Predicates(atom) = Caret(atom.low)
    BY <1>1 DEF Predicates, Comparisons
  <2>3. Means(v, atom) <=> /\ AtLeast(v, atom.low)
                           /\ SamePrefix(v, atom.low.parts, Significant(atom.low.parts))
    BY <1>1 DEF Means
  <2> QED
    BY <2>1, <2>2, <2>3, Positions, PrefixOf, CaretSignificant
<1>2. CASE atom.kind = "~"
  <2>1. atom.low \in Written
    BY <1>2, AtomFacts
  <2>2. Predicates(atom) = Tilde(atom.low)
    BY <1>2 DEF Predicates, Comparisons
  <2>3. Means(v, atom) <=> /\ AtLeast(v, atom.low)
                           /\ SamePrefix(v, atom.low.parts, TildePosition(atom.low))
    BY <1>2 DEF Means, TildePosition
  <2> QED
    BY <2>1, <2>2, <2>3, Positions, PrefixOf
<1>3. CASE atom.kind = "-"
  <2>1. atom.low \in Written /\ atom.high \in Written
    BY <1>3, AtomFacts
  <2>2. Predicates(atom) = Hyphen(atom.low, atom.high)
    BY <1>3 DEF Predicates, Comparisons
  <2>3. Means(v, atom) <=>
          /\ AtLeast(v, atom.low)
          /\ IF Len(atom.high.parts) < 3 /\ atom.high.modifier = None
               THEN NumbersAtMost(v, atom.high.parts, Len(atom.high.parts))
               ELSE Compare(v, Normalized(atom.high)) <= 0
    BY <1>3 DEF Means
  <2> QED
    BY <2>1, <2>2, <2>3, HyphenMeans, Zenon
<1>4. CASE atom.kind = "*"
  <2>1. Predicates(atom) = Wildcard(atom.parts)
    BY <1>4 DEF Predicates, Comparisons
  <2>2. Means(v, atom) <=> SamePrefix(v, atom.parts, Len(atom.parts))
    BY <1>4 DEF Means
  <2>3. CASE atom.parts = <<>>
    <3>1. Predicates(atom) = <<>> /\ DOMAIN <<>> = {}
      BY <2>1, <2>3 DEF Wildcard
    <3>2. 1 .. Len(atom.parts) = {}
      BY <2>3
    <3> QED
      BY <2>2, <3>1, <3>2 DEF Holds, SamePrefix
  <2>4. CASE atom.parts # <<>>
    <3>1. /\ Len(atom.parts) \in 1..3 /\ Len(atom.parts) \in 1..Parts
          /\ atom.parts \in [1 .. Len(atom.parts) -> Numbers]
      BY <1>4, <2>4, AtomFacts
    <3> QED
      BY <2>1, <2>2, <3>1, WildcardMeans
  <2> QED
    BY <2>3, <2>4
<1>5. CASE atom.kind = "@"
  <2>1. Predicates(atom) = <<>> /\ DOMAIN <<>> = {} /\ Means(v, atom)
    BY <1>5 DEF Predicates, Means, Comparisons
  <2> QED
    BY <2>1 DEF Holds
<1> QED
  BY <1>1, <1>2, <1>3, <1>4, <1>5, AtomFacts

LEMMA SplitsByOne ==
    ASSUME NEW o \in Comparisons, NEW k \in Int
    PROVE  /\ Opposite[o] \in Comparisons
           /\ P!PredicateMatches(Opposite[o], k) <=> ~P!PredicateMatches(o, k)
           /\ Opposite[o] \in {"=", "!="} <=> o \in {"=", "!="}
           /\ Opposite[o] \in {"<", ">="} <=> o \in {"<", ">="}
<1>1. CASE o = "="
  <2>1. Opposite[o] = "!="
    BY <1>1 DEF Opposite, Comparisons
  <2> QED
    BY <1>1, <2>1 DEF P!PredicateMatches, Comparisons
<1>2. CASE o = "!="
  <2>1. Opposite[o] = "="
    BY <1>2 DEF Opposite, Comparisons
  <2> QED
    BY <1>2, <2>1 DEF P!PredicateMatches, Comparisons
<1>3. CASE o = "<"
  <2>1. Opposite[o] = ">="
    BY <1>3 DEF Opposite, Comparisons
  <2> QED
    BY <1>3, <2>1 DEF P!PredicateMatches, Comparisons
<1>4. CASE o = ">="
  <2>1. Opposite[o] = "<"
    BY <1>4 DEF Opposite, Comparisons
  <2> QED
    BY <1>4, <2>1 DEF P!PredicateMatches, Comparisons
<1>5. CASE o = "<="
  <2>1. Opposite[o] = ">"
    BY <1>5 DEF Opposite, Comparisons
  <2> QED
    BY <1>5, <2>1 DEF P!PredicateMatches, Comparisons
<1>6. CASE o = ">"
  <2>1. Opposite[o] = "<="
    BY <1>6 DEF Opposite, Comparisons
  <2> QED
    BY <1>6, <2>1 DEF P!PredicateMatches, Comparisons
<1> QED
  BY <1>1, <1>2, <1>3, <1>4, <1>5, <1>6 DEF Comparisons

\* The version that a comparison is made with.
Compared(o, w, flag) ==
    LET v == Normalized(w) IN
    IF flag \notin {None, Stable} /\ o # "=" /\ v.stability = Stable
      THEN [v EXCEPT !.stability = flag]
    ELSE IF o \in {"<", ">="} /\ w.modifier = None THEN AsDev(v)
    ELSE v

LEMMA ComparisonHolds ==
    ASSUME NEW o \in Comparisons, NEW w \in Written, NEW flag \in Flags, NEW v
    PROVE  /\ Compared(o, w, flag) \in Named
           /\ Holds(v, Comparison(o, w, flag)) <=>
                P!PredicateMatches(o, Compare(v, Compared(o, w, flag)))
<1> DEFINE n == Compared(o, w, flag)
<1>1. Comparison(o, w, flag) = <<[op |-> o, version |-> n]>>
  BY Zenon DEF Comparison, Compared
<1>2. n \in Named
  <2>1. flag \notin {None, Stable} => flag \in Stabilities
    BY SuffixAssumption
  <2>2. Normalized(w) \in Named
    BY NormalizedFacts
  <2> QED
    BY <2>1, <2>2, NamedWith, AsDevFacts DEF Compared
<1> HIDE DEF n
<1> DEFINE list == <<[op |-> o, version |-> n]>>
<1>3. DOMAIN list = {1} /\ list[1].op = o /\ list[1].version = n
  OBVIOUS
<1> HIDE DEF list
<1>4. Holds(v, list) <=> P!Satisfies(v, list[1])
  BY <1>3 DEF Holds
<1>5. Holds(v, list) <=> P!PredicateMatches(o, Compare(v, n))
  BY <1>3, <1>4, Zenon DEF P!Satisfies
<1> QED
  BY <1>1, <1>2, <1>5 DEF list, n

LEMMA ComparisonsSplit ==
    ASSUME NEW atom \in Atoms PROVE ComparisonSplits(atom)
<1> SUFFICES ASSUME atom.kind \in Comparisons,
                    atom.kind \in {"=", "!="} => atom.flag \in {None, Stable}
             PROVE  Matching(<<<<[atom EXCEPT !.kind = Opposite[@]]>>>>)
                      = Versions \ Matching(<<<<atom>>>>)
  BY Zenon DEF ComparisonSplits
<1> DEFINE o == atom.kind w == atom.low flag == atom.flag
           other == [atom EXCEPT !.kind = Opposite[@]]
<1>1. w \in Written /\ flag \in Flags /\ o \in Comparisons
  BY AtomFacts
<1>2. atom \in [kind : Comparisons, low : Written, flag : Flags]
  BY DEF Atoms, Comparisons
<1>3. Opposite[o] \in Comparisons
  BY <1>1, SplitsByOne
<1>4. /\ other \in [kind : Comparisons, low : Written, flag : Flags]
      /\ other.kind = Opposite[o] /\ other.low = w /\ other.flag = flag
  BY <1>2, <1>3
<1>5. other \in Atoms
  BY <1>4, Zenon DEF Atoms
<1> HIDE DEF other
<1>6. /\ Predicates(atom) = Comparison(o, w, flag)
      /\ Predicates(other) = Comparison(Opposite[o], w, flag)
  <2>1. ASSUME NEW a \in Atoms, a.kind \in Comparisons
        PROVE  Predicates(a) = Comparison(a.kind, a.low, a.flag)
    BY <2>1 DEF Predicates, Comparisons
  <2> QED
    BY <1>3, <1>4, <1>5, <2>1
<1>7. Compared(Opposite[o], w, flag) = Compared(o, w, flag)
  <2>1. /\ Opposite[o] \in {"=", "!="} <=> o \in {"=", "!="}
        /\ Opposite[o] \in {"<", ">="} <=> o \in {"<", ">="}
    BY <1>1, SplitsByOne
  <2>2. CASE o \in {"=", "!="}
    BY <2>1, <2>2 DEF Compared
  <2>3. CASE o \notin {"=", "!="}
    BY <2>1, <2>3 DEF Compared
  <2> QED
    BY <2>2, <2>3
<1>8. ASSUME NEW v \in Versions
      PROVE  v \in Matching(<<<<other>>>>) <=> v \notin Matching(<<<<atom>>>>)
  <2> DEFINE n == Compared(o, w, flag)
  <2>1. n \in Versions
    BY <1>1, ComparisonHolds DEF Named
  <2>2. Compare(v, n) \in Int
    BY <2>1, CompareFacts
  <2>3. /\ Holds(v, Predicates(atom)) <=> P!PredicateMatches(o, Compare(v, n))
        /\ Holds(v, Predicates(other)) <=> P!PredicateMatches(Opposite[o], Compare(v, n))
    BY <1>1, <1>3, <1>6, <1>7, ComparisonHolds
  <2>4. P!PredicateMatches(Opposite[o], Compare(v, n))
          <=> ~P!PredicateMatches(o, Compare(v, n))
    BY <1>1, <2>2, SplitsByOne
  <2>5. /\ v \in Matching(<<<<atom>>>>) <=> Holds(v, Predicates(atom))
        /\ v \in Matching(<<<<other>>>>) <=> Holds(v, Predicates(other))
    BY <1>5, MatchingAtom
  <2> QED
    BY <2>3, <2>4, <2>5, Zenon
<1>9. Matching(<<<<other>>>>) \subseteq Versions
  BY MatchingMeans
<1> QED
  BY <1>8, <1>9 DEF other

\* The parse functions of constraints.go turn every atom, of any numbers and
\* with any stability, into bounds that allow exactly the versions it means.
THEOREM AtomsRight == Spec => []AtomsMeanVersions
<1>1. ASSUME IInv, NEW i \in DOMAIN left, NEW j \in DOMAIN left[i]
      PROVE  RangeMeansPrefix(left[i][j]) /\ ComparisonSplits(left[i][j])
  <2>1. left[i] \in Seq(Atoms)
    BY <1>1 DEF IInv, TypeOK, Constraint
  <2>2. left[i][j] \in Atoms
    BY <2>1
  <2> QED
    BY <2>2, RangesMean, ComparisonsSplit, Zenon
<1>2. IInv => AtomsMeanVersions
  BY <1>1, Zenon DEF AtomsMeanVersions
<1> QED
  BY <1>2, Invariant, PTL
================================================================================
