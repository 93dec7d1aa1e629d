---------------------------- MODULE AnalysisProofs ----------------------------
(***************************************************************************)
(* Proofs about the planner and the analysis, for any projects, options,   *)
(* machines, releases and versions.  The plan of an analysis is always     *)
(* Build of what has been observed; so the theorems follow from what Build *)
(* does for observations like those the providers make.                    *)
(***************************************************************************)
EXTENDS Analysis, FiniteSetTheorems, WellFoundedInduction, TLAPS

-----------------------------------------------------------------------------
(***************************************************************************)
(* Sorting.                                                                *)
(***************************************************************************)

\* Of two elements one is before the other, and that transitively.
Orders(before, S) ==
    /\ \A a, b \in S : a # b => (<<a, b>> \in before <=> <<b, a>> \notin before)
    /\ \A a, b, c \in S : a # b /\ b # c /\ <<a, b>> \in before /\ <<b, c>> \in before
           => <<a, c>> \in before

(***************************************************************************)
(* Fewer elements are before an element than before a later one.           *)
(***************************************************************************)
LEMMA BeforeGrows ==
  ASSUME NEW S, IsFiniteSet(S), NEW R, Orders(R, S),
         NEW a \in S, NEW b \in S, a # b, <<a, b>> \in R
  PROVE  /\ Cardinality(Before(S, R, a)) \in Nat
         /\ Cardinality(Before(S, R, b)) \in Nat
         /\ Cardinality(Before(S, R, a)) < Cardinality(Before(S, R, b))
         /\ Cardinality(Before(S, R, b)) < Cardinality(S)
<1> DEFINE A == Before(S, R, a)
           B == Before(S, R, b)
<1>1. A \in SUBSET S /\ B \in SUBSET (S \ {b}) /\ a \notin A /\ a \in B
  BY DEF Before
<1>2. A \subseteq B \ {a}
  BY DEF Before, Orders
<1>3. IsFiniteSet(S \ {b}) /\ Cardinality(S \ {b}) = Cardinality(S) - 1
  BY FS_RemoveElement
<1> HIDE DEF A, B
<1>4. IsFiniteSet(A) /\ IsFiniteSet(B) /\ Cardinality(B) <= Cardinality(S) - 1
  BY <1>1, <1>3, FS_Subset
<1>5. IsFiniteSet(B \ {a}) /\ Cardinality(B \ {a}) = Cardinality(B) - 1
  BY <1>1, <1>4, FS_RemoveElement
<1>6. Cardinality(A) <= Cardinality(B \ {a})
  BY <1>2, <1>5, FS_Subset
<1>7. Cardinality(A) \in Nat /\ Cardinality(B) \in Nat /\ Cardinality(S) \in Nat
  BY <1>4, FS_CardinalityType
<1>8. QED
  BY <1>4, <1>5, <1>6, <1>7 DEF A, B

(***************************************************************************)
(* Every position has an element: the numbers of elements before an        *)
(* element are an injection into as many numbers as there are elements.    *)
(***************************************************************************)
LEMMA PositionTaken ==
  ASSUME NEW S, IsFiniteSet(S), NEW R, Orders(R, S),
         NEW i \in 1 .. Cardinality(S)
  PROVE  \E a \in S : Cardinality(Before(S, R, a)) = i - 1
<1> DEFINE n == Cardinality(S)
           f == [a \in S |-> Cardinality(Before(S, R, a))]
<1>1. n \in Nat
  BY FS_CardinalityType
<1>2. \A a \in S : f[a] \in 0 .. n - 1
  <2> SUFFICES ASSUME NEW a \in S PROVE f[a] \in 0 .. n - 1
    OBVIOUS
  <2>1. Before(S, R, a) \in SUBSET (S \ {a})
    BY DEF Before
  <2>2. IsFiniteSet(S \ {a}) /\ Cardinality(S \ {a}) = n - 1
    BY FS_RemoveElement
  <2>3. /\ IsFiniteSet(Before(S, R, a))
        /\ Cardinality(Before(S, R, a)) <= n - 1
    BY <2>1, <2>2, FS_Subset
  <2>4. Cardinality(Before(S, R, a)) \in Nat
    BY <2>3, FS_CardinalityType
  <2>5. QED
    BY <1>1, <2>3, <2>4
<1>3. \A a, b \in S : f[a] = f[b] => a = b
  <2> SUFFICES ASSUME NEW a \in S, NEW b \in S, a # b PROVE f[a] # f[b]
    OBVIOUS
  <2>1. CASE <<a, b>> \in R
    BY <2>1, BeforeGrows
  <2>2. CASE <<b, a>> \in R
    BY <2>2, BeforeGrows
  <2>3. QED
    BY <2>1, <2>2 DEF Orders
<1>4. f \in Injection(S, 0 .. n - 1)
  BY <1>2, <1>3 DEF Injection, IsInjective
<1>5. IsFiniteSet(0 .. n - 1) /\ Cardinality(0 .. n - 1) = n
  <2>1. 0 \in Int /\ n - 1 \in Int
    BY <1>1
  <2>2. /\ IsFiniteSet(0 .. n - 1)
        /\ Cardinality(0 .. n - 1) = IF 0 > n - 1 THEN 0 ELSE (n - 1) - 0 + 1
    BY <2>1, FS_Interval
  <2>3. QED
    BY <1>1, <2>2
<1>6. f \in Surjection(S, 0 .. n - 1)
  BY <1>4, <1>5, FS_Injection
<1>7. i - 1 \in 0 .. n - 1
  BY <1>1
<1>8. \E a \in S : f[a] = i - 1
  BY <1>6, <1>7 DEF Surjection
<1>9. QED
  BY <1>8

(***************************************************************************)
(* A finite set sorted by an order: each element has one position, and     *)
(* the order is that of the positions.                                     *)
(***************************************************************************)
LEMMA SortedRight ==
  ASSUME NEW S, IsFiniteSet(S), NEW R, Orders(R, S)
  PROVE  /\ Sorted(S, R) \in Seq(S)
         /\ DOMAIN Sorted(S, R) = 1 .. Cardinality(S)
         /\ Len(Sorted(S, R)) = Cardinality(S)
         /\ ToSet(Sorted(S, R)) = S
         /\ \A i, j \in DOMAIN Sorted(S, R) : i < j =>
                /\ Sorted(S, R)[i] # Sorted(S, R)[j]
                /\ <<Sorted(S, R)[i], Sorted(S, R)[j]>> \in R
<1> DEFINE n == Cardinality(S)
           s == Sorted(S, R)
           count(a) == Cardinality(Before(S, R, a))
<1>1. n \in Nat
  BY FS_CardinalityType
<1>2. \A i \in 1 .. n : s[i] \in S /\ count(s[i]) = i - 1
  <2> SUFFICES ASSUME NEW i \in 1 .. n PROVE s[i] \in S /\ count(s[i]) = i - 1
    OBVIOUS
  <2>1. \E a \in S : count(a) = i - 1
    BY PositionTaken
  <2>2. s[i] = CHOOSE a \in S : count(a) = i - 1
    BY DEF Sorted
  <2>3. QED
    BY <2>1, <2>2
<1>3. s = [i \in 1 .. n |-> s[i]]
  BY DEF Sorted
<1>4. s \in [1 .. n -> S]
  BY <1>2, <1>3
<1>5. s \in Seq(S) /\ DOMAIN s = 1 .. n /\ Len(s) = n
  BY <1>1, <1>4
<1>6. S \subseteq ToSet(s)
  <2> SUFFICES ASSUME NEW a \in S PROVE \E i \in 1 .. n : s[i] = a
    BY <1>5 DEF ToSet
  <2>1. \A b \in S : count(a) = count(b) => a = b
    <3> SUFFICES ASSUME NEW b \in S, a # b PROVE count(a) # count(b)
      OBVIOUS
    <3>1. CASE <<a, b>> \in R
      BY <3>1, BeforeGrows
    <3>2. CASE <<b, a>> \in R
      BY <3>2, BeforeGrows
    <3>3. QED
      BY <3>1, <3>2 DEF Orders
  <2>2. Before(S, R, a) \in SUBSET (S \ {a})
    BY DEF Before
  <2>3. IsFiniteSet(S \ {a}) /\ Cardinality(S \ {a}) = n - 1
    BY FS_RemoveElement
  <2>4. IsFiniteSet(Before(S, R, a)) /\ count(a) <= n - 1
    BY <2>2, <2>3, FS_Subset
  <2>5. count(a) \in Nat
    BY <2>4, FS_CardinalityType
  <2>6. count(a) + 1 \in 1 .. n
    BY <1>1, <2>4, <2>5
  <2>7. s[count(a) + 1] \in S /\ count(s[count(a) + 1]) = count(a)
    BY <1>2, <2>5, <2>6
  <2>8. QED
    BY <2>1, <2>6, <2>7
<1>7. ToSet(s) \subseteq S
  BY <1>2, <1>5 DEF ToSet
<1>8. ASSUME NEW i \in 1 .. n, NEW j \in 1 .. n, i < j
      PROVE  s[i] # s[j] /\ <<s[i], s[j]>> \in R
  <2>1. /\ s[i] \in S /\ s[j] \in S
        /\ count(s[i]) = i - 1 /\ count(s[j]) = j - 1
    BY <1>2
  <2>2. s[i] # s[j]
    BY <1>1, <1>8, <2>1
  <2>3. ASSUME <<s[j], s[i]>> \in R PROVE FALSE
    <3>1. count(s[j]) < count(s[i])
      BY <2>1, <2>2, <2>3, BeforeGrows
    <3>2. QED
      BY <1>1, <1>8, <2>1, <3>1
  <2>4. QED
    BY <2>1, <2>2, <2>3 DEF Orders
<1>9. QED
  BY <1>5, <1>6, <1>7, <1>8

(***************************************************************************)
(* A nonempty set of positions has a first one, so what is chosen first is *)
(* chosen.                                                                 *)
(***************************************************************************)
LEMMA FirstChosen ==
  ASSUME NEW s, NEW chosen \in SUBSET Nat, chosen # {}
  PROVE  \E i \in chosen : First(s, chosen) = s[i]
<1> DEFINE R == OpToRel(<, Nat)
<1>1. IsWellFoundedOn(R, Nat)
  BY NatLessThanWellFounded
<1>2. \A i, j \in Nat : j < i => <<j, i>> \in R
  BY DEF OpToRel
<1> HIDE DEF R
<1>3. PICK i \in chosen : \A j \in chosen : ~(<<j, i>> \in R)
  BY <1>1, WFMin
<1>4. \A j \in chosen : ~(j < i)
  BY <1>2, <1>3
<1>5. \A j \in chosen : i <= j
  BY <1>4
<1>6. QED
  BY <1>5 DEF First

-----------------------------------------------------------------------------
(***************************************************************************)
(* Observations.                                                           *)
(***************************************************************************)

\* At most two Composers, of different sources.
Few(composers) ==
    /\ composers \in Seq(ComposerObservation) /\ Len(composers) <= 2
    /\ \A j, k \in DOMAIN composers : j # k => composers[j].source # composers[k].source
WellObserved(o) == o \in ProviderObservation /\ Few(o.composer)

(***************************************************************************)
(* The order in which Composers are preferred orders those of different    *)
(* sources.                                                                *)
(***************************************************************************)
LEMMA MeritOrders ==
  ASSUME NEW f, NEW S \in SUBSET ComposerObservation,
         \A c, d \in S : c # d => c.source # d.source
  PROVE  Orders(ByMerit(f, S), S)
<1> DEFINE P(c) == SourcePriority(c.source)
           B(c, d) == \/ Fits(f, c) /\ ~Fits(f, d)
                      \/ (Fits(f, c) <=> Fits(f, d)) /\ P(c) < P(d)
<1>1. \A c, d \in S : c # d => (P(c) < P(d) <=> ~(P(d) < P(c)))
  BY DEF ComposerObservation, SourcePriority
<1>2. \A c, d, e \in S : P(c) < P(d) /\ P(d) < P(e) => P(c) < P(e)
  BY DEF ComposerObservation, SourcePriority
<1>3. \A c, d \in S : c # d => (Better(f, c, d) <=> B(c, d))
  BY DEF Better
<1>4. \A c, d \in S : <<c, d>> \in ByMerit(f, S) <=> c # d /\ B(c, d)
  BY <1>3 DEF ByMerit
<1> HIDE DEF P
<1>5. \A c, d \in S : c # d => (B(c, d) <=> ~B(d, c))
  BY <1>1
<1>6. \A c, d, e \in S : c # d /\ d # e /\ B(c, d) /\ B(d, e) => c # e /\ B(c, e)
  BY <1>1, <1>2
<1> HIDE DEF B
<1>7. QED
  BY <1>4, <1>5, <1>6 DEF Orders

(***************************************************************************)
(* The Composers of an observation form a finite set of different sources. *)
(***************************************************************************)
LEMMA FewSet ==
  ASSUME NEW s, Few(s)
  PROVE  /\ ToSet(s) \in SUBSET ComposerObservation
         /\ IsFiniteSet(ToSet(s))
         /\ \A c, d \in ToSet(s) : c # d => c.source # d.source
         /\ Cardinality(ToSet(s)) <= 2
         /\ Cardinality(ToSet(s)) = 0 <=> s = <<>>
<1>1. ToSet(s) \in SUBSET ComposerObservation
  BY DEF Few, ToSet
<1>2. \A c, d \in ToSet(s) : c # d => c.source # d.source
  BY DEF Few, ToSet
<1>3. CASE s = <<>>
  <2>1. ToSet(s) = {}
    BY <1>3 DEF ToSet
  <2>2. QED
    BY <1>3, <2>1, FS_EmptySet
<1>4. CASE s # <<>>
  <2>1. 1 \in DOMAIN s /\ DOMAIN s \subseteq {1, 2}
    BY <1>4 DEF Few
  <2>2. ToSet(s) \subseteq {s[1]} \cup {s[2]} /\ s[1] \in ToSet(s)
    BY <2>1 DEF ToSet
  <2>3. IsFiniteSet({s[1]}) /\ Cardinality({s[1]}) = 1
    BY FS_Singleton
  <2>4. /\ IsFiniteSet({s[1]} \cup {s[2]})
        /\ Cardinality({s[1]} \cup {s[2]}) <= 2
    BY <2>3, FS_AddElement
  <2>5. IsFiniteSet(ToSet(s)) /\ Cardinality(ToSet(s)) <= Cardinality({s[1]} \cup {s[2]})
    BY <2>2, <2>4, FS_Subset
  <2>6. /\ Cardinality(ToSet(s)) \in Nat /\ Cardinality({s[1]} \cup {s[2]}) \in Nat
        /\ Cardinality(ToSet(s)) # 0
    BY <2>2, <2>4, <2>5, FS_CardinalityType, FS_EmptySet
  <2>7. QED
    BY <1>1, <1>2, <1>4, <2>4, <2>5, <2>6
<1>5. QED
  BY <1>3, <1>4

(***************************************************************************)
(* normalizeProviderObservation keeps all but the order of the Composers,  *)
(* and puts one first that is better than the others.                      *)
(***************************************************************************)
LEMMA NormalizeRight ==
  ASSUME NEW f, NEW o, WellObserved(o)
  PROVE  LET n == Normalize(f, o) IN
         /\ WellObserved(n)
         /\ n = [o EXCEPT !.composer = n.composer]
         /\ ToSet(n.composer) = ToSet(o.composer)
         /\ n.composer = <<>> <=> o.composer = <<>>
         /\ n.composer # <<>> =>
                /\ n.composer[1] \in ToSet(o.composer)
                /\ \A c \in ToSet(o.composer) \ {n.composer[1]} :
                       Better(f, n.composer[1], c)
<1> DEFINE n == Normalize(f, o)
           S == ToSet(o.composer)
           R == ByMerit(f, S)
<1>1. n = [o EXCEPT !.composer = Sorted(S, R)]
  BY DEF Normalize
<1>2. o \in ProviderObservation /\ Few(o.composer)
  BY DEF WellObserved
<1>3. /\ S \in SUBSET ComposerObservation /\ IsFiniteSet(S)
      /\ \A c, d \in S : c # d => c.source # d.source
      /\ Cardinality(S) <= 2 /\ (Cardinality(S) = 0 <=> o.composer = <<>>)
  BY <1>2, FewSet
<1> HIDE DEF n, S
<1>4. n.composer = Sorted(S, R) /\ n = [o EXCEPT !.composer = n.composer]
  BY <1>1, <1>2 DEF ProviderObservation
<1>5. Orders(R, S)
  BY <1>3, MeritOrders
<1>6. \A p \in R : Better(f, p[1], p[2])
  BY DEF ByMerit
<1> HIDE DEF R
<1>7. /\ n.composer \in Seq(S)
      /\ DOMAIN n.composer = 1 .. Cardinality(S)
      /\ Len(n.composer) = Cardinality(S)
      /\ ToSet(n.composer) = S
      /\ \A i, j \in DOMAIN n.composer : i < j =>
             /\ n.composer[i] # n.composer[j]
             /\ <<n.composer[i], n.composer[j]>> \in R
  BY <1>3, <1>4, <1>5, SortedRight
<1>8. Cardinality(S) \in Nat
  BY <1>3, FS_CardinalityType
<1>9. n.composer \in Seq(ComposerObservation)
  BY <1>3, <1>7
<1>10. Few(n.composer)
  <2>1. \A j \in DOMAIN n.composer : j \in Int /\ n.composer[j] \in S
    BY <1>7, <1>8
  <2>2. \A j, k \in DOMAIN n.composer : j # k => j < k \/ k < j
    BY <2>1
  <2>3. \A j, k \in DOMAIN n.composer :
            j # k => n.composer[j] # n.composer[k]
    BY <1>7, <2>2
  <2>4. QED
    BY <1>3, <1>7, <1>9, <2>1, <2>3 DEF Few
<1>11. n \in ProviderObservation
  BY <1>2, <1>4, <1>9 DEF ProviderObservation
<1>12. n.composer = <<>> <=> o.composer = <<>>
  BY <1>3, <1>7, <1>8
<1>13. ASSUME n.composer # <<>>
       PROVE  /\ n.composer[1] \in S
              /\ \A c \in S \ {n.composer[1]} : Better(f, n.composer[1], c)
  <2>1. 1 \in DOMAIN n.composer
    BY <1>7, <1>8, <1>13
  <2>2. n.composer[1] \in S
    BY <1>7, <2>1
  <2>3. ASSUME NEW c \in S, c # n.composer[1] PROVE Better(f, n.composer[1], c)
    <3>1. PICK j \in DOMAIN n.composer : n.composer[j] = c
      BY <1>7 DEF ToSet
    <3>2. 1 < j
      BY <1>7, <1>8, <2>3, <3>1
    <3>3. <<n.composer[1], c>> \in R
      BY <1>7, <2>1, <3>1, <3>2
    <3>4. QED
      BY <1>6, <3>3
  <2>4. QED
    BY <2>2, <2>3
<1>14. QED
  BY <1>4, <1>7, <1>10, <1>11, <1>12, <1>13 DEF n, S, WellObserved

-----------------------------------------------------------------------------
(***************************************************************************)
(* Selection.                                                              *)
(***************************************************************************)

\* One observation of each of two providers.
Inspected(observed) ==
    /\ DOMAIN observed = {1, 2}
    /\ \A i \in {1, 2} : WellObserved(observed[i])
    /\ observed[1].provider # observed[2].provider

(***************************************************************************)
(* What is admitted are normalized observations, at most one per provider. *)
(***************************************************************************)
LEMMA AdmittedRight ==
  ASSUME NEW q, Inspected(q.observations)
  PROVE  /\ IsFiniteSet(Admitted(q))
         /\ \A n \in Admitted(q) :
                /\ WellObserved(n)
                /\ \E i \in {1, 2} :
                       /\ n = Normalize(q.facts, q.observations[i])
                       /\ n.provider = q.observations[i].provider
         /\ \A m, n \in Admitted(q) : m.provider = n.provider => m = n
<1> DEFINE N(i) == Normalize(q.facts, q.observations[i])
<1>1. \A i \in {1, 2} : /\ WellObserved(N(i))
                         /\ N(i).provider = q.observations[i].provider
  <2> SUFFICES ASSUME NEW i \in {1, 2}
               PROVE  /\ WellObserved(N(i))
                      /\ N(i).provider = q.observations[i].provider
    OBVIOUS
  <2>1. WellObserved(q.observations[i])
    BY DEF Inspected
  <2>2. /\ WellObserved(N(i))
        /\ N(i) = [q.observations[i] EXCEPT !.composer = N(i).composer]
    BY <2>1, NormalizeRight
  <2> HIDE DEF N
  <2>3. QED
    BY <2>1, <2>2 DEF WellObserved, ProviderObservation
<1>2. \A n \in Admitted(q) : \E i \in {1, 2} : n = N(i)
  BY DEF Admitted, Inspected, ToSet
<1> HIDE DEF N
<1>3. Admitted(q) \subseteq {N(1)} \cup {N(2)}
  BY <1>2
<1>4. IsFiniteSet({N(1)} \cup {N(2)})
  BY FS_Singleton, FS_AddElement
<1>5. IsFiniteSet(Admitted(q))
  BY <1>3, <1>4, FS_Subset
<1>6. \A m, n \in Admitted(q) : m.provider = n.provider => m = n
  BY <1>1, <1>2 DEF Inspected
<1>7. QED
  BY <1>1, <1>2, <1>5, <1>6 DEF N

(***************************************************************************)
(* The candidates are what is admitted, each once.                         *)
(***************************************************************************)
LEMMA CandidatesRight ==
  ASSUME NEW q, Inspected(q.observations)
  PROVE  LET c == Candidates(q) IN
         /\ ToSet(c) = Admitted(q)
         /\ c = <<>> <=> Admitted(q) = {}
         /\ Len(c) = 1 <=> Cardinality(Admitted(q)) = 1
         /\ Len(c) = 1 => Admitted(q) = {c[1]}
<1> DEFINE A == Admitted(q)
           R == ByName(A)
           c == Candidates(q)
<1>1. /\ IsFiniteSet(A)
      /\ \A n \in A : n.provider \in {"ddev", "native"}
      /\ \A m, n \in A : m.provider = n.provider => m = n
  BY AdmittedRight DEF WellObserved, ProviderObservation, ToSet, Providers
<1>2. c = Sorted(A, R)
  BY DEF Candidates
<1> HIDE DEF A, c
<1>3. Orders(R, A)
  BY <1>1 DEF Orders, ByName
<1> HIDE DEF R
<1>4. /\ c \in Seq(A) /\ DOMAIN c = 1 .. Cardinality(A)
      /\ Len(c) = Cardinality(A) /\ ToSet(c) = A
  BY <1>1, <1>2, <1>3, SortedRight
<1>5. Cardinality(A) \in Nat /\ (Cardinality(A) = 0 <=> A = {})
  BY <1>1, FS_CardinalityType, FS_EmptySet
<1>6. c = <<>> <=> A = {}
  BY <1>4, <1>5
<1>7. Len(c) = 1 => A = {c[1]}
  BY <1>4 DEF ToSet
<1>8. QED
  BY <1>4, <1>6, <1>7 DEF A, c

(***************************************************************************)
(* A wish that is granted first is one that is granted.                    *)
(***************************************************************************)
Granted(q) ==
    {i \in DOMAIN Wishes(q) : Wishes(q)[i].name \in {o.provider : o \in Admitted(q)}}
Wish(q) == First(Wishes(q), Granted(q))

LEMMA WishesPositions == ASSUME NEW q PROVE Granted(q) \in SUBSET Nat
BY DEF Granted, Wishes

LEMMA WishGranted ==
  ASSUME NEW q, Granted(q) # {}
  PROVE  \E o \in Admitted(q) : o.provider = Wish(q).name
<1>1. PICK i \in Granted(q) : Wish(q) = Wishes(q)[i]
  BY WishesPositions, FirstChosen DEF Wish
<1>2. QED
  BY <1>1 DEF Granted

(***************************************************************************)
(* Whose wish counts first, then the best, then the only one.              *)
(***************************************************************************)
Able(q) == {o \in Admitted(q) : Eligible(q.facts, o)}
BestOf(q) ==
    {o \in Able(q) : \A p \in Able(q) \ {o} : ~AsGood(Rated(q.facts, p), Rated(q.facts, o))}

LEMMA SelectCases ==
  ASSUME NEW q, Inspected(q.observations)
  PROVE  LET o == SelectProvider(q).observation IN
         /\ Granted(q) # {} => o \in Admitted(q) /\ o.provider = Wish(q).name
         /\ Granted(q) = {} =>
              IF q.provider # None \/ Admitted(q) = {} THEN o = None
              ELSE IF Cardinality(Admitted(q)) = 1 THEN o \in Admitted(q)
              ELSE IF BestOf(q) = {} THEN o = None
              ELSE o \in BestOf(q)
<1> DEFINE c == Candidates(q)
           o == SelectProvider(q).observation
<1>1. /\ ToSet(c) = Admitted(q)
      /\ c = <<>> <=> Admitted(q) = {}
      /\ Len(c) = 1 <=> Cardinality(Admitted(q)) = 1
      /\ Len(c) = 1 => Admitted(q) = {c[1]}
  BY CandidatesRight
<1>2. Best(q.facts, c) = BestOf(q)
  BY <1>1 DEF Best, BestOf, Able
<1>3. SelectProvider(q) = Select(q, c)
  BY DEF SelectProvider
<1> HIDE DEF c
<1>4. CASE Granted(q) # {}
  <2>1. o = CHOOSE n \in Admitted(q) : n.provider = Wish(q).name
    BY <1>1, <1>3, <1>4 DEF Select, Granted, Wish
  <2>2. QED
    BY <1>4, <2>1, WishGranted
<1>5. CASE Granted(q) = {}
  <2>1. o = IF q.provider # None \/ c = <<>> THEN None
            ELSE IF Len(c) = 1 THEN c[1]
            ELSE IF BestOf(q) = {} THEN None
            ELSE CHOOSE n \in BestOf(q) : TRUE
    BY <1>1, <1>2, <1>3, <1>5 DEF Select, Granted
  <2>2. QED
    BY <1>1, <1>5, <2>1
<1>6. QED
  BY <1>4, <1>5

(***************************************************************************)
(* What is selected has been admitted.                                     *)
(***************************************************************************)
LEMMA SelectedAdmitted ==
  ASSUME NEW q, Inspected(q.observations), SelectProvider(q).observation # None
  PROVE  SelectProvider(q).observation \in Admitted(q)
BY SelectCases DEF BestOf, Able

-----------------------------------------------------------------------------
(***************************************************************************)
(* Requirements.                                                           *)
(***************************************************************************)

\* The first Composer of an observation is one of them.
LEMMA FirstComposer ==
  ASSUME NEW o, WellObserved(o), o.composer # <<>>
  PROVE  /\ o.composer[1] \in ToSet(o.composer)
         /\ o.composer[1] \in ComposerObservation
BY DEF WellObserved, Few, ToSet

(***************************************************************************)
(* A PHP requirement that blocks nothing has a value: a version that was   *)
(* observed, or one to be prepared, and that all sources accept.           *)
(***************************************************************************)
LEMMA PhpResolved ==
  ASSUME NEW f, NEW o, o \in ProviderObservation,
         Resolution(f, "php", o).status \notin BlockedStatus
  PROVE  /\ Resolution(f, "php", o).value # None
         /\ Satisfied(Group(f, "php"), Resolution(f, "php", o).value)
         /\ ~Unparsable(Group(f, "php"))
<1> DEFINE group == Group(f, "php")
           value == ObservedValue("php", group, o)
           target == PreparationTarget("php", group, o)
<1>1. target # None => Satisfied(group, target)
  <2>1. \/ target = None
        \/ LET fitting == {i \in DOMAIN Supported : Satisfied(group, Supported[i])}
           IN fitting # {} /\ target = First(Supported, fitting)
    BY DEF PreparationTarget
  <2>2. DOMAIN Supported \in SUBSET Nat
    BY PlannerAssumption
  <2>3. QED
    BY <2>1, <2>2, FirstChosen
<1> HIDE DEF group, value, target
<1>2. Resolution(f, "php", o) =
        LET Is(status, selected) == [status |-> status, value |-> selected] IN
        CASE Unparsable(group) -> Is("invalid", None)
          [] ~Unparsable(group) /\ Conflicting(group) -> Is("conflict", None)
          [] OTHER ->
               IF value # None /\ Satisfied(group, value)
                 THEN Is(IF value \in Legacy THEN "legacy" ELSE "satisfied", value)
               ELSE IF target # None THEN Is("action_required", target)
               ELSE IF value = None THEN Is("unavailable", None)
               ELSE Is("incompatible", value)
  BY DEF Resolution, Optional, group, value, target
<1>3. QED
  BY <1>1, <1>2 DEF BlockedStatus, group

(***************************************************************************)
(* No provider installs a Composer: a requirement on it blocks unless the  *)
(* preferred Composer that was observed satisfies it.                      *)
(***************************************************************************)
LEMMA ComposerResolved ==
  ASSUME NEW f, NEW o, o \in ProviderObservation
  PROVE  LET group == Group(f, "composer")
             status == Resolution(f, "composer", o).status IN
         /\ status \notin BlockedStatus =>
              status = "satisfied" /\ o.composer # <<>>
         /\ status = "satisfied" <=>
              /\ ~Unparsable(group) /\ ~Conflicting(group)
              /\ o.composer # <<>> /\ o.composer[1].version # None
              /\ Satisfied(group, o.composer[1].version)
<1> DEFINE group == Group(f, "composer")
           value == ObservedValue("composer", group, o)
           target == PreparationTarget("composer", group, o)
<1>1. target = None
  BY DEF PreparationTarget, ProviderObservation
<1>2. o # None
  BY NoneAssumption
<1>3. value = IF o.composer = <<>> THEN None ELSE o.composer[1].version
  BY <1>2 DEF ObservedValue
<1> HIDE DEF group, value, target
<1>4. Resolution(f, "composer", o) =
        LET Is(status, selected) == [status |-> status, value |-> selected] IN
        CASE Unparsable(group) -> Is("invalid", None)
          [] ~Unparsable(group) /\ Conflicting(group) -> Is("conflict", None)
          [] OTHER ->
               IF value # None /\ Satisfied(group, value)
                 THEN Is("satisfied", value)
               ELSE IF value = None THEN Is("unavailable", None)
               ELSE Is("incompatible", value)
  BY <1>1 DEF Resolution, Optional, group, value, target
<1>5. QED
  BY <1>3, <1>4 DEF BlockedStatus, group

(***************************************************************************)
(* No Composer reports a plugin API, so a requirement on it blocks.        *)
(***************************************************************************)
NoPluginApi(o) == \A c \in ToSet(o.composer) : c.pluginApi = None

LEMMA PluginBlocks ==
  ASSUME NEW f, NEW o, WellObserved(o), NoPluginApi(o)
  PROVE  Resolution(f, "plugin", o).status \in BlockedStatus
<1> DEFINE group == Group(f, "plugin")
           value == ObservedValue("plugin", group, o)
           target == PreparationTarget("plugin", group, o)
<1>1. target = None
  BY DEF PreparationTarget, ProviderObservation, WellObserved
<1>2. o # None
  BY NoneAssumption DEF WellObserved
<1>3. value = None
  BY <1>2, FirstComposer DEF ObservedValue, NoPluginApi
<1> HIDE DEF group, value, target
<1>4. Resolution(f, "plugin", o) =
        LET Is(status, selected) == [status |-> status, value |-> selected] IN
        CASE Unparsable(group) -> Is("invalid", None)
          [] ~Unparsable(group) /\ Conflicting(group) -> Is("conflict", None)
          [] OTHER -> Is("unavailable", None)
  BY <1>1, <1>3 DEF Resolution, Optional, group, value, target
<1>5. QED
  BY <1>4 DEF BlockedStatus

(***************************************************************************)
(* A resolution that blocks is an error of the plan.                       *)
(***************************************************************************)
LEMMA BlockedIsError ==
  ASSUME NEW r, NEW n \in DOMAIN r, ~Blocking(RequirementDiagnostics(r))
  PROVE  r[n].status \notin BlockedStatus
<1> SUFFICES ASSUME r[n].status \in BlockedStatus PROVE FALSE
  OBVIOUS
<1>1. Error(r[n].status) \in RequirementDiagnostics(r)
  BY DEF RequirementDiagnostics
<1>2. Error(r[n].status).severity = "error"
  BY DEF Error
<1>3. QED
  BY <1>1, <1>2 DEF Blocking

-----------------------------------------------------------------------------
(***************************************************************************)
(* A further Composer.                                                     *)
(***************************************************************************)

(***************************************************************************)
(* If the preferred Composer is compatible, it still is when there are     *)
(* more to choose from.                                                    *)
(***************************************************************************)
LEMMA ChoiceKept ==
  ASSUME NEW f, NEW a, NEW b, WellObserved(a), WellObserved(b),
         ToSet(a.composer) \subseteq ToSet(b.composer),
         Normalize(f, a).composer # <<>>, Fits(f, Normalize(f, a).composer[1])
  PROVE  /\ Normalize(f, b).composer # <<>>
         /\ Fits(f, Normalize(f, b).composer[1])
<1> DEFINE m == Normalize(f, a)
           n == Normalize(f, b)
<1>1. a.composer # <<>> /\ m.composer[1] \in ToSet(a.composer)
  BY NormalizeRight
<1>2. b.composer # <<>>
  <2>1. ToSet(<<>>) = {}
    BY DEF ToSet
  <2>2. QED
    BY <1>1, <2>1
<1>3. /\ n.composer # <<>>
      /\ \A c \in ToSet(b.composer) \ {n.composer[1]} : Better(f, n.composer[1], c)
  BY <1>2, NormalizeRight
<1> HIDE DEF m, n
<1>4. n.composer[1] = m.composer[1] \/ Better(f, n.composer[1], m.composer[1])
  BY <1>1, <1>3
<1>5. Fits(f, n.composer[1])
  BY <1>4 DEF Better, m
<1>6. QED
  BY <1>3, <1>5 DEF n

(***************************************************************************)
(* Diagnostics and score of the requirements depend on their status alone. *)
(***************************************************************************)
LEMMA ByStatus ==
  ASSUME NEW r, NEW t, DOMAIN r = DOMAIN t,
         \A n \in DOMAIN r : r[n].status = t[n].status
  PROVE  /\ RequirementDiagnostics(r) = RequirementDiagnostics(t)
         /\ Statuses(r) = Statuses(t)
BY DEF RequirementDiagnostics, Statuses

(***************************************************************************)
(* A provider that is eligible stays so, as highly rated as before, when   *)
(* it gets a Composer and the preferred one stays compatible.              *)
(***************************************************************************)
LEMMA EligibleKept ==
  ASSUME NEW f, NEW o, NEW p, WellObserved(o), WellObserved(p),
         p = [o EXCEPT !.composer = p.composer],
         NoPluginApi(o), NoPluginApi(p),
         o.composer # <<>> /\ Fits(f, o.composer[1])
             => p.composer # <<>> /\ Fits(f, p.composer[1]),
         Eligible(f, o)
  PROVE  Eligible(f, p) /\ Rated(f, p) = Rated(f, o)
<1> DEFINE G == Groups(f)
           ro == Resolutions(f, o)
           rp == Resolutions(f, p)
<1>1. /\ o \in ProviderObservation /\ p \in ProviderObservation
      /\ o # None /\ p # None
  BY NoneAssumption DEF WellObserved
<1>2. /\ p.php = o.php /\ p.ext = o.ext /\ p.installs = o.installs
      /\ p.state = o.state /\ p.diagnostics = o.diagnostics
  BY <1>1 DEF ProviderObservation
<1>3. G \subseteq {"php", "ext", "composer", "plugin"}
  BY DEF Groups, Names
<1>4. /\ DOMAIN ro = G /\ DOMAIN rp = G
      /\ \A n \in G : ro[n] = Resolution(f, n, o) /\ rp[n] = Resolution(f, n, p)
  BY DEF Resolutions
<1>5. /\ ~Fails(f, o) /\ ~Blocking(RequirementDiagnostics(ro))
      /\ ~Blocking(o.diagnostics)
  BY DEF Eligible
<1> HIDE DEF ro, rp
<1>6. \A n \in G : Resolution(f, n, o).status \notin BlockedStatus
  BY <1>4, <1>5, BlockedIsError
<1>7. "plugin" \notin G
  BY <1>6, PluginBlocks
<1>8. ASSUME NEW n \in {"php", "ext"}
      PROVE  /\ ObservedValue(n, Group(f, n), p) = ObservedValue(n, Group(f, n), o)
             /\ Resolution(f, n, p) = Resolution(f, n, o)
  <2>1. ObservedValue(n, Group(f, n), p) = ObservedValue(n, Group(f, n), o)
    BY <1>1, <1>2 DEF ObservedValue
  <2>2. PreparationTarget(n, Group(f, n), p) = PreparationTarget(n, Group(f, n), o)
    BY <1>1, <1>2 DEF PreparationTarget
  <2>3. QED
    BY <2>1, <2>2 DEF Resolution
<1>9. ASSUME "composer" \in G
      PROVE  /\ Resolution(f, "composer", o).status = "satisfied"
             /\ Resolution(f, "composer", p).status = "satisfied"
             /\ ObservedValue("composer", Group(f, "composer"), p) # Odd
  <2> DEFINE group == Group(f, "composer")
  <2>1. /\ Resolution(f, "composer", o).status = "satisfied"
        /\ ~Unparsable(group) /\ ~Conflicting(group)
        /\ o.composer # <<>> /\ Satisfied(group, o.composer[1].version)
    BY <1>1, <1>6, <1>9, ComposerResolved
  <2>2. ObservedValue("composer", group, o) # Odd
    BY <1>5, <1>9, <2>1 DEF Fails
  <2>3. o.composer[1].version # Odd
    BY <1>1, <2>1, <2>2 DEF ObservedValue
  <2>4. p.composer # <<>> /\ Fits(f, p.composer[1])
    BY <2>1, <2>3 DEF Fits
  <2>5. group # {}
    BY <1>9 DEF Groups
  <2>6. p.composer[1].version # Odd /\ Satisfied(group, p.composer[1].version)
    BY <2>4, <2>5 DEF Fits
  <2>7. p.composer[1].version # None
    BY <2>4, FirstComposer DEF ComposerObservation
  <2>8. Resolution(f, "composer", p).status = "satisfied"
    BY <1>1, <2>1, <2>4, <2>6, <2>7, ComposerResolved
  <2>9. ObservedValue("composer", group, p) = p.composer[1].version
    BY <1>1, <2>4 DEF ObservedValue
  <2>10. QED
    BY <2>1, <2>6, <2>8, <2>9
<1>10. \A n \in G : rp[n].status = ro[n].status
  BY <1>3, <1>4, <1>7, <1>8, <1>9
<1>11. /\ RequirementDiagnostics(rp) = RequirementDiagnostics(ro)
       /\ Statuses(rp) = Statuses(ro)
  BY <1>4, <1>10, ByStatus
<1>12. ~Fails(f, p)
  <2>1. \A n \in G : ObservedValue(n, Group(f, n), p) = Odd
                      => n \in {"php", "ext"}
    BY <1>3, <1>7, <1>9
  <2>2. QED
    BY <1>5, <1>8, <2>1 DEF Fails
<1>13. Eligible(f, p)
  BY <1>2, <1>5, <1>11, <1>12 DEF Eligible, ro, rp
<1>14. Rated(f, p) = Rated(f, o)
  BY <1>2, <1>11 DEF Rated, ro, rp
<1>15. QED
  BY <1>13, <1>14

(***************************************************************************)
(* Of two providers one is as good as the other.                           *)
(***************************************************************************)
LEMMA ScoreType ==
  ASSUME NEW f, NEW o
  PROVE  Score(Statuses(Resolutions(f, o))) \in Nat
<1> DEFINE statuses == Statuses(Resolutions(f, o))
           Of(set) == {n \in DOMAIN statuses : statuses[n] \in set}
<1>1. DOMAIN statuses = Groups(f)
  BY DEF Statuses, Resolutions
<1>2. Groups(f) \subseteq {"php", "ext", "composer", "plugin"}
  BY DEF Groups, Names
<1>3. IsFiniteSet({"php", "ext", "composer", "plugin"})
  <2>1. IsFiniteSet({"plugin"})
    BY FS_Singleton
  <2>2. IsFiniteSet({"plugin"} \cup {"composer"})
    BY <2>1, FS_AddElement
  <2>3. IsFiniteSet({"plugin"} \cup {"composer"} \cup {"ext"})
    BY <2>2, FS_AddElement
  <2>4. IsFiniteSet({"plugin"} \cup {"composer"} \cup {"ext"} \cup {"php"})
    BY <2>3, FS_AddElement
  <2>5. {"plugin"} \cup {"composer"} \cup {"ext"} \cup {"php"}
          = {"php", "ext", "composer", "plugin"}
    OBVIOUS
  <2>6. QED
    BY <2>4, <2>5
<1>4. IsFiniteSet(Groups(f))
  BY <1>2, <1>3, FS_Subset
<1> HIDE DEF statuses
<1>5. ASSUME NEW set PROVE Cardinality(Of(set)) \in Nat
  <2>1. Of(set) \in SUBSET Groups(f)
    BY <1>1
  <2>2. QED
    BY <1>4, <2>1, FS_Subset, FS_CardinalityType
<1>6. /\ Cardinality(Of({"satisfied", "legacy", "optional_missing"})) \in Nat
      /\ Cardinality(Of({"action_required"})) \in Nat
  BY <1>5
<1>7. Score(statuses) = 2 * Cardinality(Of({"satisfied", "legacy", "optional_missing"}))
                          + Cardinality(Of({"action_required"}))
  BY DEF Score
<1>8. QED
  BY <1>6, <1>7 DEF statuses

LEMMA GoodTotal ==
  ASSUME NEW f, NEW o, NEW p
  PROVE  AsGood(Rated(f, o), Rated(f, p)) \/ AsGood(Rated(f, p), Rated(f, o))
<1>1. /\ Rated(f, o).score \in Nat /\ Rated(f, p).score \in Nat
      /\ Rated(f, o).readiness \in Nat /\ Rated(f, p).readiness \in Nat
  BY ScoreType DEF Rated, Readiness
<1>2. QED
  BY <1>1 DEF AsGood

\* The observations that Candidates normalizes.
Permitted(q) ==
    {i \in {1, 2} :
        /\ q.observations[i].available
        /\ q.observations[i].provider \notin q.facts.denied
        /\ q.facts.allowed # {} => q.observations[i].provider \in q.facts.allowed}

LEMMA AdmittedPermitted ==
  ASSUME NEW q, Inspected(q.observations)
  PROVE  Admitted(q) = {Normalize(q.facts, q.observations[i]) : i \in Permitted(q)}
BY DEF Admitted, Permitted, Inspected, ToSet

LEMMA NormalizeKeeps ==
  ASSUME NEW f, NEW o, WellObserved(o)
  PROVE  LET n == Normalize(f, o) IN
         n \in ProviderObservation /\ n # None /\ n.provider = o.provider
BY NormalizeRight, NoneAssumption DEF WellObserved, ProviderObservation

(***************************************************************************)
(* The selected provider gets a further Composer: it stays selected.       *)
(***************************************************************************)
LEMMA SelectionKept ==
  ASSUME NEW q, NEW r, NEW k \in {1, 2},
         Inspected(q.observations), Inspected(r.observations),
         r.facts = q.facts, r.provider = q.provider,
         r.previous = q.previous, r.default = q.default,
         \A i \in {1, 2} \ {k} : r.observations[i] = q.observations[i],
         r.observations[k] = [q.observations[k] EXCEPT
                                 !.composer = r.observations[k].composer],
         ToSet(q.observations[k].composer) \subseteq ToSet(r.observations[k].composer),
         NoPluginApi(q.observations[k]), NoPluginApi(r.observations[k]),
         SelectProvider(q).observation # None,
         SelectProvider(q).observation.provider = q.observations[k].provider
  PROVE  /\ SelectProvider(r).observation # None
         /\ SelectProvider(r).observation.provider
              = SelectProvider(q).observation.provider
<1> DEFINE f == q.facts
           a == q.observations[k]
           b == r.observations[k]
           m == Normalize(f, a)
           n == Normalize(f, b)
           A == Admitted(q)
           B == Admitted(r)
           o == SelectProvider(q).observation
           p == SelectProvider(r).observation
<1>1. /\ WellObserved(a) /\ WellObserved(b)
      /\ b.provider = a.provider /\ b.available = a.available
  BY DEF Inspected, WellObserved, ProviderObservation
<1>2. /\ m \in ProviderObservation /\ m # None /\ m.provider = a.provider
      /\ n \in ProviderObservation /\ n # None /\ n.provider = a.provider
  BY <1>1, NormalizeKeeps
<1>3. /\ A = {Normalize(f, q.observations[i]) : i \in Permitted(q)}
      /\ B = {Normalize(f, r.observations[i]) : i \in Permitted(q)}
  <2>1. Permitted(r) = Permitted(q)
    BY <1>1 DEF Permitted
  <2>2. QED
    BY <2>1, AdmittedPermitted
<1>4. \A i \in {1, 2} :
         /\ i # k => Normalize(f, r.observations[i]) = Normalize(f, q.observations[i])
         /\ Normalize(f, q.observations[i]).provider = q.observations[i].provider
         /\ Normalize(f, r.observations[i]).provider = q.observations[i].provider
  BY <1>1, NormalizeKeeps DEF Inspected
<1>5. {x.provider : x \in A} = {x.provider : x \in B}
  BY <1>3, <1>4 DEF Permitted
<1>6. \A x \in B : x # None /\ x \in ProviderObservation
  BY AdmittedRight, NoneAssumption DEF WellObserved
<1>7. /\ \A x \in A : x.provider = a.provider => x = m
      /\ \A x \in B : x.provider = a.provider => x = n
      /\ \A x \in A : x.provider # a.provider => x \in B
      /\ \A x \in B : x.provider # a.provider => x \in A
      /\ m \in A <=> n \in B
  BY <1>2, <1>3, <1>4 DEF Inspected, Permitted
<1>8. Granted(r) = Granted(q) /\ Wish(r) = Wish(q)
  <2>1. Wishes(r) = Wishes(q)
    BY DEF Wishes
  <2>2. QED
    BY <1>5, <2>1 DEF Granted, Wish
<1>9. (A = {} <=> B = {}) /\ (Cardinality(A) = 1 <=> Cardinality(B) = 1)
  <2>1. IsFiniteSet(A) /\ IsFiniteSet(B)
    BY AdmittedRight
  <2>2. /\ \A x, y \in A : x.provider = y.provider => x = y
        /\ \A x, y \in B : x.provider = y.provider => x = y
    BY AdmittedRight
  <2> HIDE DEF A, B
  <2>3. /\ Cardinality(A) = 1 <=> \E x : A = {x}
        /\ Cardinality(B) = 1 <=> \E x : B = {x}
    BY <2>1, FS_Singleton
  <2>4. (\E x : A = {x}) <=> (\E x \in A : \A y \in A : y.provider = x.provider)
    <3>1. ASSUME NEW x, A = {x} PROVE \E y \in A : \A z \in A : z.provider = y.provider
      BY <3>1
    <3>2. ASSUME NEW x \in A, \A z \in A : z.provider = x.provider PROVE A = {x}
      BY <2>2, <3>2
    <3>3. QED
      BY <3>1, <3>2
  <2>5. (\E x : B = {x}) <=> (\E x \in B : \A y \in B : y.provider = x.provider)
    <3>1. ASSUME NEW x, B = {x} PROVE \E y \in B : \A z \in B : z.provider = y.provider
      BY <3>1
    <3>2. ASSUME NEW x \in B, \A z \in B : z.provider = x.provider PROVE B = {x}
      BY <2>2, <3>2
    <3>3. QED
      BY <3>1, <3>2
  <2>6. (\E x \in A : \A y \in A : y.provider = x.provider)
          <=> (\E x \in B : \A y \in B : y.provider = x.provider)
    <3>1. /\ \A x \in A : \E y \in B : y.provider = x.provider
          /\ \A x \in B : \E y \in A : y.provider = x.provider
      BY <1>5
    <3>2. QED
      BY <3>1
  <2>7. A = {} <=> B = {}
    BY <1>5
  <2>8. QED
    BY <2>3, <2>4, <2>5, <2>6, <2>7
<1> HIDE DEF m, n, A, B, o, p
<1>10. CASE Granted(q) # {}
  <2>1. o.provider = Wish(q).name
    BY <1>10, SelectCases DEF o
  <2>2. p \in B /\ p.provider = Wish(q).name
    BY <1>8, <1>10, SelectCases DEF p, B
  <2>3. QED
    BY <1>6, <2>1, <2>2 DEF o, p
<1>11. CASE Granted(q) = {}
  <2>1. /\ q.provider = None /\ A # {}
        /\ Cardinality(A) = 1 => o \in A
        /\ Cardinality(A) # 1 => BestOf(q) # {} /\ o \in BestOf(q)
    BY <1>11, SelectCases DEF o, A
  <2>2. o \in A /\ o.provider = a.provider /\ o = m
    BY <1>7, <2>1 DEF o, A, BestOf, Able
  <2>3. n \in B
    BY <1>7, <2>2
  <2>4. CASE Cardinality(A) = 1
    <3>1. p \in B
      BY <1>8, <1>9, <1>11, <2>1, <2>4, SelectCases DEF p, B
    <3>2. \A x, y \in B : x = y
      <4>1. IsFiniteSet(B) /\ Cardinality(B) = 1
        BY <1>9, <2>4, AdmittedRight DEF B
      <4>2. \E x : B = {x}
        BY <4>1, FS_Singleton
      <4>3. QED
        BY <4>2
    <3>3. p = n
      BY <2>3, <3>1, <3>2
    <3>4. QED
      BY <1>2, <2>2, <3>3 DEF o, p
  <2>5. CASE Cardinality(A) # 1
    <3>1. /\ Eligible(f, m)
          /\ \A x \in A : Eligible(f, x) /\ x # m => ~AsGood(Rated(f, x), Rated(f, m))
      BY <2>1, <2>2, <2>5 DEF BestOf, Able, A
    <3>2. Eligible(f, n) /\ Rated(f, n) = Rated(f, m)
      <4>1. /\ WellObserved(m) /\ ToSet(m.composer) = ToSet(a.composer)
            /\ m = [a EXCEPT !.composer = m.composer]
        BY <1>1, NormalizeRight DEF m
      <4>2. /\ WellObserved(n) /\ ToSet(n.composer) = ToSet(b.composer)
            /\ n = [b EXCEPT !.composer = n.composer]
        BY <1>1, NormalizeRight DEF n
      <4>3. n = [m EXCEPT !.composer = n.composer]
        BY <1>1, <4>1, <4>2 DEF WellObserved, ProviderObservation
      <4>4. NoPluginApi(m) /\ NoPluginApi(n)
        BY <4>1, <4>2 DEF NoPluginApi
      <4>5. m.composer # <<>> /\ Fits(f, m.composer[1])
              => n.composer # <<>> /\ Fits(f, n.composer[1])
        BY <1>1, ChoiceKept DEF m, n
      <4>6. QED
        BY <3>1, <4>1, <4>2, <4>3, <4>4, <4>5, EligibleKept
    <3>3. \A x \in B : Eligible(f, x) /\ x # n => ~AsGood(Rated(f, x), Rated(f, n))
      BY <1>2, <1>7, <3>1, <3>2
    <3>4. n \in BestOf(r)
      BY <2>3, <3>2, <3>3 DEF BestOf, Able, B
    <3>5. p \in BestOf(r)
      BY <1>8, <1>9, <1>11, <2>1, <2>5, <3>4, SelectCases DEF p, A, B
    <3>6. p = n
      <4>1. SUFFICES ASSUME p # n PROVE FALSE
        OBVIOUS
      <4>2. /\ ~AsGood(Rated(f, p), Rated(f, n))
            /\ ~AsGood(Rated(f, n), Rated(f, p))
        BY <3>4, <3>5, <4>1 DEF BestOf
      <4>3. QED
        BY <4>2, GoodTotal
    <3>7. QED
      BY <1>2, <2>2, <3>6 DEF o, p
  <2>6. QED
    BY <2>4, <2>5
<1>12. QED
  BY <1>10, <1>11

-----------------------------------------------------------------------------
(***************************************************************************)
(* Actions.                                                                *)
(***************************************************************************)

Configuring == Action("prepare_provider", "configure", "project_mutation", "none")
Starting == Action("prepare_provider", "start", "provider_mutation", "required")
ProviderActions == {Configuring, Starting}

Kinds == {"prepare_provider", "prepare_runtime", "prepare_extension",
          "prepare_composer", "install_dependencies", "verify_platform",
          "record_state"}
Precedes(a, b) ==
    \/ Phase(a.kind) < Phase(b.kind)
    \/ Phase(a.kind) = Phase(b.kind) /\ InputKey(a) < InputKey(b)
IsAction(a) ==
    /\ a = [kind |-> a.kind, step |-> a.step, effect |-> a.effect,
            network |-> a.network, trust |-> a.trust, after |-> a.after]
    /\ a.kind \in Kinds
    /\ a.kind = "prepare_provider" => a.step \in {"configure", "start"}

(***************************************************************************)
(* Actions that differ are ordered by their phases, and within that of the *)
(* provider by their inputs.                                               *)
(***************************************************************************)
LEMMA PhasesOrder ==
  ASSUME NEW S, \A a \in S : IsAction(a),
         \A a, b \in S : /\ a.kind = b.kind
                         /\ a.kind = "prepare_provider" => a.step = b.step
                         => a = b
  PROVE  Orders(ByPhase(S), S)
<1>1. \A a \in S : Phase(a.kind) \in Nat /\ InputKey(a) \in {1, 2}
  BY DEF IsAction, Kinds, Phase, InputKey
<1>2. \A a, b \in S : Phase(a.kind) = Phase(b.kind) => a.kind = b.kind
  BY DEF IsAction, Kinds, Phase
<1>3. \A a, b \in S : a.kind = b.kind /\ InputKey(a) = InputKey(b) => a = b
  BY DEF IsAction, InputKey
<1>4. \A a, b \in S : a # b => (Precedes(a, b) <=> ~Precedes(b, a))
  BY <1>1, <1>2, <1>3 DEF Precedes
<1>5. \A a, b, c \in S : Precedes(a, b) /\ Precedes(b, c) => Precedes(a, c)
  BY <1>1 DEF Precedes
<1>6. \A a, b \in S : <<a, b>> \in ByPhase(S) <=> Precedes(a, b)
  BY DEF ByPhase, Precedes
<1>7. QED
  BY <1>4, <1>5, <1>6 DEF Orders

\* Its place in the plan is all that an action gets.
LEMMA AfterKept ==
  ASSUME NEW a, IsAction(a), NEW x
  PROVE  LET b == [a EXCEPT !.after = x] IN
         /\ IsAction(b) /\ b.after = x
         /\ b.kind = a.kind /\ b.step = a.step /\ b.network = a.network
<1> DEFINE b == [a EXCEPT !.after = x]
<1>1. PICK k, t, e, n, u, v : a = [kind |-> k, step |-> t, effect |-> e,
                                   network |-> n, trust |-> u, after |-> v]
  BY DEF IsAction
<1>2. b = [kind |-> k, step |-> t, effect |-> e,
           network |-> n, trust |-> u, after |-> x]
  BY <1>1
<1>3. QED
  BY <1>1, <1>2 DEF IsAction

(***************************************************************************)
(* The actions of a plan: sorted by phase, each after the one before it,   *)
(* among them one installation, with the preferred Composer.               *)
(***************************************************************************)
LEMMA ActionsRight ==
  ASSUME NEW d, NEW o, NEW given, ToSet(given) \subseteq ProviderActions
  PROVE  LET s == CompatibleActions(d, o, given) IN
         /\ \E n \in Nat : DOMAIN s = 1 .. n
         /\ \A i \in DOMAIN s : IsAction(s[i]) /\ s[i].after = {i - 1} \ {0}
         /\ \A i, j \in DOMAIN s : i < j => Precedes(s[i], s[j])
         /\ \E i \in DOMAIN s : s[i].kind = "install_dependencies"
         /\ \A i \in DOMAIN s : s[i].kind = "install_dependencies" =>
                /\ s[i].step = IF o.composer = <<>> THEN None ELSE o.composer[1]
                /\ s[i].network = "required"
<1> DEFINE composer == IF o.composer = <<>> THEN None ELSE o.composer[1]
           required == {n \in DOMAIN d.requirements :
                           d.requirements[n].status = "action_required"}
           Runtime(n) == Action("prepare_runtime", d.requirements[n].value,
                                "provider_mutation", "required")
           Extension(n) == Action("prepare_extension", d.requirements[n].value,
                                  "provider_mutation", "required")
           tool == Action("prepare_composer", composer, "cache_mutation",
                          IF composer.cached THEN "none" ELSE "required")
           prepared == {Runtime(n) : n \in required \cap {"php"}}
                       \cup {Extension(n) : n \in required \cap {"ext"}}
                       \cup (IF composer # None /\ composer.source = "managed"
                               THEN {tool} ELSE {})
           install == [Action("install_dependencies", composer,
                              "project_code_execution", "required")
                          EXCEPT !.trust = ActionTrust(d.trust)]
           verify == Action("verify_platform", None, "read", "none")
           record == Action("record_state", None, "local_state_mutation", "none")
           L == ToSet(given) \cup prepared \cup {install, verify, record}
           sorted == Sorted(L, ByPhase(L))
           s == CompatibleActions(d, o, given)
           All == {Configuring} \cup {Starting} \cup {Runtime("php")}
                  \cup {Extension("ext")} \cup {tool} \cup {install}
                  \cup {verify} \cup {record}
<1>1. s = [i \in DOMAIN sorted |-> [sorted[i] EXCEPT !.after = {i - 1} \ {0}]]
  BY DEF CompatibleActions
<1>2. L \subseteq All /\ install \in L
  BY DEF ProviderActions
<1>3. \A a \in All : IsAction(a)
  BY DEF Action, Configuring, Starting, IsAction, Kinds
<1>4. \A a, b \in All : /\ a.kind = b.kind
                        /\ a.kind = "prepare_provider" => a.step = b.step
                        => a = b
  <2>1. /\ Configuring.kind = "prepare_provider" /\ Configuring.step = "configure"
        /\ Starting.kind = "prepare_provider" /\ Starting.step = "start"
        /\ Runtime("php").kind = "prepare_runtime"
        /\ Extension("ext").kind = "prepare_extension"
        /\ tool.kind = "prepare_composer"
        /\ install.kind = "install_dependencies"
        /\ verify.kind = "verify_platform" /\ record.kind = "record_state"
    BY DEF Action, Configuring, Starting
  <2> HIDE DEF Runtime, Extension, tool, install, verify, record
  <2>2. QED
    BY <2>1
<1>5. /\ install.kind = "install_dependencies" /\ install.step = composer
      /\ install.network = "required"
      /\ \A a \in All : a.kind = "install_dependencies" => a = install
  BY DEF Action, Configuring, Starting
<1>6. IsFiniteSet(All)
  <2> HIDE DEF Runtime, Extension, tool, install, verify, record
  <2>1. \A S, x : IsFiniteSet(S) => IsFiniteSet(S \cup {x})
    BY FS_AddElement
  <2>2. IsFiniteSet({Configuring})
    BY FS_Singleton
  <2>3. IsFiniteSet({Configuring} \cup {Starting} \cup {Runtime("php")}
                    \cup {Extension("ext")})
    BY <2>1, <2>2
  <2>4. QED
    BY <2>1, <2>3
<1> HIDE DEF composer, install, L, All, sorted, s
<1>7. IsFiniteSet(L)
  BY <1>2, <1>6, FS_Subset
<1>8. Orders(ByPhase(L), L)
  BY <1>2, <1>3, <1>4, PhasesOrder
<1>9. /\ DOMAIN sorted = 1 .. Cardinality(L) /\ ToSet(sorted) = L
      /\ \A i, j \in DOMAIN sorted : i < j => <<sorted[i], sorted[j]>> \in ByPhase(L)
  BY <1>7, <1>8, SortedRight DEF sorted
<1>10. Cardinality(L) \in Nat
  BY <1>7, FS_CardinalityType
<1>11. \A i \in DOMAIN sorted : sorted[i] \in L /\ IsAction(sorted[i])
  BY <1>2, <1>3, <1>9 DEF ToSet
<1>12. \A i \in DOMAIN sorted :
          /\ IsAction(s[i]) /\ s[i].after = {i - 1} \ {0}
          /\ s[i].kind = sorted[i].kind /\ s[i].step = sorted[i].step
          /\ s[i].network = sorted[i].network
  BY <1>1, <1>11, AfterKept
<1>13. DOMAIN s = DOMAIN sorted
  BY <1>1
<1>14. ASSUME NEW i \in DOMAIN s, NEW j \in DOMAIN s, i < j
       PROVE  Precedes(s[i], s[j])
  <2>1. Precedes(sorted[i], sorted[j])
    BY <1>9, <1>13, <1>14 DEF ByPhase, Precedes
  <2>2. QED
    BY <1>12, <1>13, <2>1 DEF Precedes, InputKey
<1>15. \E i \in DOMAIN s : s[i].kind = "install_dependencies"
  <2>1. PICK i \in DOMAIN sorted : sorted[i] = install
    BY <1>2, <1>9 DEF ToSet
  <2>2. QED
    BY <1>5, <1>12, <1>13, <2>1
<1>16. ASSUME NEW i \in DOMAIN s, s[i].kind = "install_dependencies"
       PROVE  s[i].step = composer /\ s[i].network = "required"
  <2>1. sorted[i] = install
    BY <1>2, <1>5, <1>11, <1>12, <1>13, <1>16
  <2>2. QED
    BY <1>5, <1>12, <1>13, <2>1
<1>17. QED
  BY <1>9, <1>10, <1>12, <1>13, <1>14, <1>15, <1>16 DEF s, composer

-----------------------------------------------------------------------------
(***************************************************************************)
(* Plans.                                                                  *)
(***************************************************************************)

Chosen(q) == SelectProvider(q).observation
\* The actions a provider gave, if it is the one that is chosen.
Taken(q) ==
    IF Chosen(q) # None /\ q.providerPlan.provider = Chosen(q).provider
      THEN q.providerPlan ELSE NoPlan
DraftOf(q) == Draft(q.facts, SelectProvider(q), Taken(q))

(***************************************************************************)
(* A plan is the draft for the chosen provider, with the actions for it    *)
(* unless there are errors.                                                *)
(***************************************************************************)
LEMMA BuildCases ==
  ASSUME NEW q, Build(q) # None
  PROVE  /\ ~Fails(q.facts, Chosen(q))
         /\ Build(q).provider = IF Chosen(q) = None THEN None ELSE Chosen(q).provider
         /\ Build(q).requirements = DraftOf(q).requirements
         /\ Build(q).trust = DraftOf(q).trust
         /\ \/ Build(q).actions = <<>>
            \/ /\ Chosen(q) # None /\ ~Blocking(DraftOf(q).diagnostics)
               /\ Build(q).actions
                    = CompatibleActions(DraftOf(q), Chosen(q), Taken(q).actions)
               /\ ~Blocking(ActionPolicy(q.options, Build(q).actions, q.facts))
<1> DEFINE d == DraftOf(q)
           actions == CompatibleActions(d, Chosen(q), Taken(q).actions)
           policy == ActionPolicy(q.options, actions, q.facts)
<1>1. Build(q) = BuildWith(q, SelectProvider(q), Taken(q), d)
  BY DEF Build, BuildFor, Taken, DraftOf, Chosen
<1>2. /\ d.provider = IF Chosen(q) = None THEN None ELSE Chosen(q).provider
      /\ d.actions = <<>>
      /\ d = [provider |-> d.provider, reason |-> d.reason,
              requirements |-> d.requirements, trust |-> d.trust,
              actions |-> d.actions, diagnostics |-> d.diagnostics]
  BY DEF DraftOf, Draft, Chosen
<1> HIDE DEF d, actions
<1>3. ~Fails(q.facts, Chosen(q))
  BY <1>1 DEF BuildWith, Chosen
<1>4. \/ Build(q) = d
      \/ /\ Chosen(q) # None /\ ~Blocking(d.diagnostics)
         /\ Build(q) = Complete(d, actions, policy)
  BY <1>1, <1>3 DEF BuildWith, WithActions, Chosen, actions
<1>5. LET c == Complete(d, actions, policy) IN
      /\ c.provider = d.provider /\ c.requirements = d.requirements
      /\ c.trust = d.trust
      /\ c.actions = IF Blocking(policy) THEN <<>> ELSE actions
  <2>1. PICK p, r, t, u, a, e : d = [provider |-> p, reason |-> r,
              requirements |-> t, trust |-> u, actions |-> a, diagnostics |-> e]
    BY <1>2
  <2> HIDE DEF policy
  <2>2. Complete(d, actions, policy)
          = [provider |-> p, reason |-> r, requirements |-> t, trust |-> u,
             actions |-> IF Blocking(policy) THEN <<>> ELSE actions,
             diagnostics |-> e \cup policy]
    <3>1. /\ d.diagnostics = e
          /\ [d EXCEPT !.diagnostics = e \cup policy]
               = [provider |-> p, reason |-> r, requirements |-> t, trust |-> u,
                  actions |-> a, diagnostics |-> e \cup policy]
      BY <2>1
    <3>2. Complete(d, actions, policy)
            = [[d EXCEPT !.diagnostics = e \cup policy]
                  EXCEPT !.actions = IF Blocking(policy) THEN <<>> ELSE actions]
      BY <2>1, <3>1 DEF Complete
    <3>3. QED
      BY <3>1, <3>2
  <2>3. QED
    BY <2>1, <2>2
<1>6. \/ Build(q).actions = <<>>
      \/ /\ Chosen(q) # None /\ ~Blocking(d.diagnostics)
         /\ Build(q).actions = actions
         /\ ~Blocking(ActionPolicy(q.options, Build(q).actions, q.facts))
  <2>1. CASE Build(q) = d
    BY <1>2, <2>1
  <2>2. CASE /\ Chosen(q) # None /\ ~Blocking(d.diagnostics)
             /\ Build(q) = Complete(d, actions, policy)
    BY <1>5, <2>2
  <2>3. QED
    BY <1>4, <2>1, <2>2
<1> HIDE DEF policy
<1>7. QED
  BY <1>2, <1>3, <1>4, <1>5, <1>6 DEF d, actions

(***************************************************************************)
(* A plan with actions: nothing blocks, the trust is for the preferred     *)
(* Composer, and the actions are right.                                    *)
(***************************************************************************)
LEMMA PlanWithActions ==
  ASSUME NEW q, Inspected(q.observations),
         ToSet(q.providerPlan.actions) \subseteq ProviderActions,
         Build(q) # None, Build(q).actions # <<>>
  PROVE  /\ Chosen(q) \in Admitted(q) /\ WellObserved(Chosen(q))
         /\ Build(q).requirements = Resolutions(q.facts, Chosen(q))
         /\ \A n \in Groups(q.facts) :
               Resolution(q.facts, n, Chosen(q)).status \notin BlockedStatus
         /\ Build(q).trust = Trust(q.facts, Chosen(q))
         /\ \E d, given : /\ ToSet(given) \subseteq ProviderActions
                          /\ Build(q).actions = CompatibleActions(d, Chosen(q), given)
         /\ ~Blocking(ActionPolicy(q.options, Build(q).actions, q.facts))
<1> DEFINE d == DraftOf(q)
           o == Chosen(q)
           r == Resolutions(q.facts, o)
<1>1. /\ o # None /\ ~Blocking(d.diagnostics)
      /\ Build(q).actions = CompatibleActions(d, o, Taken(q).actions)
      /\ Build(q).requirements = d.requirements /\ Build(q).trust = d.trust
      /\ ~Blocking(ActionPolicy(q.options, Build(q).actions, q.facts))
  BY BuildCases
<1>2. o \in Admitted(q) /\ WellObserved(o)
  BY <1>1, SelectedAdmitted, AdmittedRight DEF Chosen
<1>3. /\ d.trust = Trust(q.facts, o)
      /\ d.requirements = IF Error("provider_ambiguous") \in SelectProvider(q).diagnostics
                            THEN WithoutProvider(r) ELSE r
      /\ SelectProvider(q).diagnostics \subseteq d.diagnostics
      /\ RequirementDiagnostics(d.requirements) \subseteq d.diagnostics
  BY <1>1 DEF DraftOf, Draft, Chosen
<1>4. Error("provider_ambiguous") \notin SelectProvider(q).diagnostics
  BY <1>1, <1>3 DEF Blocking, Error
<1>5. d.requirements = r /\ ~Blocking(RequirementDiagnostics(r))
  BY <1>1, <1>3, <1>4 DEF Blocking
<1>6. \A n \in Groups(q.facts) : Resolution(q.facts, n, o).status \notin BlockedStatus
  <2>1. /\ DOMAIN r = Groups(q.facts)
        /\ \A n \in Groups(q.facts) : r[n] = Resolution(q.facts, n, o)
    BY DEF Resolutions
  <2> HIDE DEF r, o
  <2>2. QED
    BY <1>5, <2>1, BlockedIsError
<1>7. ToSet(Taken(q).actions) \subseteq ProviderActions
  BY DEF Taken, NoPlan, ToSet
<1>8. QED
  BY <1>1, <1>2, <1>3, <1>5, <1>6, <1>7

(***************************************************************************)
(* Every requirement is a set of versions, negated or not.                 *)
(***************************************************************************)
LEMMA GroupType ==
  ASSUME NEW f \in ProjectFacts, NEW n \in {"php", "composer"},
         NEW r \in Group(f, n)
  PROVE  r.conflict \in BOOLEAN
<1>1. f.requires \in [Names -> SUBSET [allows : {Invalid} \cup SUBSET Versions,
                                       conflict : BOOLEAN]]
  BY DEF ProjectFacts
<1>2. \A s \in f.requires[n] : s.conflict \in BOOLEAN
  BY <1>1 DEF Names
<1>3. \A c : \A s \in Given(c) : s.conflict = FALSE
  BY DEF Given, Positive
<1>4. QED
  BY <1>2, <1>3 DEF Group

(***************************************************************************)
(* Build reads what was observed, not the order of it.                     *)
(***************************************************************************)
Turned(observed) ==
    [i \in DOMAIN observed |->
        [Reverse(observed)[i] EXCEPT !.composer = Reverse(@)]]

LEMMA TwoLong ==
  ASSUME NEW n \in Nat, 1 .. n = {1, 2} PROVE n = 2
<1>1. /\ 2 \in {1, 2} /\ 3 \notin {1, 2}
  OBVIOUS
<1>2. 2 \in 1 .. n /\ ~(3 \in 1 .. n)
  BY <1>1
<1>3. 2 <= n /\ ~(3 <= n)
  BY <1>2
<1>4. QED
  BY <1>3

LEMMA NormalizeTurned ==
  ASSUME NEW f, NEW o \in ProviderObservation
  PROVE  Normalize(f, [o EXCEPT !.composer = Reverse(@)]) = Normalize(f, o)
<1> DEFINE t == [o EXCEPT !.composer = Reverse(@)]
<1>1. t.composer = Reverse(o.composer)
  BY DEF ProviderObservation
<1>2. ToSet(Reverse(o.composer)) = ToSet(o.composer)
  <2>1. o.composer \in Seq(ComposerObservation)
    BY DEF ProviderObservation
  <2> DEFINE c == o.composer
  <2> HIDE DEF c
  <2>2. c \in Seq(ComposerObservation)
    BY <2>1 DEF c
  <2>3. /\ DOMAIN Reverse(c) = DOMAIN c
        /\ \A i \in DOMAIN c : Reverse(c)[i] = c[Len(c) - i + 1]
    BY <2>2 DEF Reverse
  <2>4. \A i \in DOMAIN c : /\ Len(c) - i + 1 \in DOMAIN c
                            /\ Len(c) - (Len(c) - i + 1) + 1 = i
    BY <2>2
  <2>5. QED
    BY <2>3, <2>4 DEF ToSet, c
<1> DEFINE sort(S) == Sorted(S, ByMerit(f, S))
<1>3. Normalize(f, o) = [o EXCEPT !.composer = sort(ToSet(o.composer))]
  BY DEF Normalize
<1>4. Normalize(f, t) = [t EXCEPT !.composer = sort(ToSet(t.composer))]
  BY DEF Normalize
<1> HIDE DEF sort
<1>5. [t EXCEPT !.composer = sort(ToSet(o.composer))]
        = [o EXCEPT !.composer = sort(ToSet(o.composer))]
  OBVIOUS
<1>6. QED
  BY <1>1, <1>2, <1>3, <1>4, <1>5

LEMMA BuildTurned ==
  ASSUME NEW q, NEW r, Inspected(q.observations), q.observations \in Seq(ProviderObservation),
         r = [q EXCEPT !.observations = Turned(q.observations)],
         q = [facts |-> q.facts, options |-> q.options, provider |-> q.provider,
              previous |-> q.previous, default |-> q.default,
              observations |-> q.observations, providerPlan |-> q.providerPlan]
  PROVE  Build(r) = Build(q)
<1> DEFINE a == q.observations
           b == Turned(a)
<1>1. /\ r.facts = q.facts /\ r.options = q.options /\ r.provider = q.provider
      /\ r.previous = q.previous /\ r.default = q.default
      /\ r.providerPlan = q.providerPlan /\ r.observations = b
  <2>1. PICK f, o, p, w, e, s, v :
          q = [facts |-> f, options |-> o, provider |-> p, previous |-> w,
               default |-> e, observations |-> s, providerPlan |-> v]
    OBVIOUS
  <2>2. r = [facts |-> f, options |-> o, provider |-> p, previous |-> w,
             default |-> e, observations |-> b, providerPlan |-> v]
    BY <2>1
  <2>3. QED
    BY <2>1, <2>2
<1>2. /\ DOMAIN b = {1, 2}
      /\ b[1] = [a[2] EXCEPT !.composer = Reverse(@)]
      /\ b[2] = [a[1] EXCEPT !.composer = Reverse(@)]
  <2>1. DOMAIN a = {1, 2} /\ a \in Seq(ProviderObservation)
    BY DEF Inspected
  <2>2. Len(a) = 2
    <3>1. DOMAIN a = 1 .. Len(a) /\ Len(a) \in Nat
      BY <2>1
    <3>2. QED
      BY <2>1, <3>1, TwoLong
  <2>3. Reverse(a)[1] = a[2] /\ Reverse(a)[2] = a[1]
    BY <2>1, <2>2 DEF Reverse
  <2>4. QED
    BY <2>1, <2>3 DEF Turned
<1>3. /\ a[1] \in ProviderObservation /\ a[2] \in ProviderObservation
  BY DEF Inspected, WellObserved
<1>4. /\ b[1].provider = a[2].provider /\ b[1].available = a[2].available
      /\ b[2].provider = a[1].provider /\ b[2].available = a[1].available
  BY <1>2, <1>3 DEF ProviderObservation
<1>5. /\ Normalize(q.facts, b[1]) = Normalize(q.facts, a[2])
      /\ Normalize(q.facts, b[2]) = Normalize(q.facts, a[1])
  BY <1>2, <1>3, NormalizeTurned
<1>6. ToSet(a) = {a[1], a[2]} /\ ToSet(b) = {b[1], b[2]}
  BY <1>2 DEF ToSet, Inspected
<1> HIDE DEF b
<1>7. Admitted(r) = Admitted(q)
  BY <1>1, <1>4, <1>5, <1>6 DEF Admitted
<1>8. SelectProvider(r) = SelectProvider(q)
  <2>1. Candidates(r) = Candidates(q)
    BY <1>7 DEF Candidates
  <2>2. Wishes(r) = Wishes(q)
    BY <1>1 DEF Wishes
  <2>3. QED
    BY <1>1, <2>1, <2>2 DEF SelectProvider, Select
<1>9. QED
  BY <1>1, <1>8 DEF Build, BuildFor, BuildWith, WithActions

-----------------------------------------------------------------------------
(***************************************************************************)
(* The analysis.                                                           *)
(***************************************************************************)

\* What Inspect returns: one Composer at most, and none that is managed.
Unmanaged(o) ==
    Len(o.composer) <= 1 /\ \A c \in ToSet(o.composer) : c.source # "managed"

TypePart ==
    /\ facts \in Projects /\ options \in Requests
    /\ machine \in [native : Natives, ddev : Ddevs]
    /\ at \in {"ddev", "native", "composer", "provider", "done", "failed"}

\* What has been observed at each step.
ObservedPart ==
    /\ at = "ddev" => observations = <<>>
    /\ at = "native" => observations = <<ObservedDdev(machine.ddev)>>
    /\ at \in {"composer", "provider", "done"} =>
        /\ observations \in Seq(ProviderObservation) /\ Inspected(observations)
        /\ \A i \in {1, 2} : NoPluginApi(observations[i])
    /\ at = "composer" => \A i \in {1, 2} : Unmanaged(observations[i])
    /\ Len(observations) <= 2

\* The plan is Build of it, with the actions of a provider at the end only.
PlanPart ==
    /\ at \in {"ddev", "native", "failed"} => plan = None
    /\ at \in {"composer", "provider", "done"} =>
        plan # None /\ plan = Build(Request(observations, providerPlan))
    /\ at \in {"ddev", "native", "composer", "provider"} => providerPlan = NoPlan
    /\ ToSet(providerPlan.actions) \subseteq ProviderActions

IInv == TypePart /\ ObservedPart /\ PlanPart

(***************************************************************************)
(* Inspect makes well-formed observations.                                 *)
(***************************************************************************)
LEMMA ComposerOfRight ==
  ASSUME NEW version \in Reported, NEW source \in {"provider", "system"}
  PROVE  LET s == ComposerOf(version, source) IN
         /\ Few(s) /\ Len(s) <= 1
         /\ \A c \in ToSet(s) : c.source # "managed" /\ c.pluginApi = None
<1> DEFINE s == ComposerOf(version, source)
<1>1. CASE version = None
  <2>1. s = <<>>
    BY <1>1 DEF ComposerOf
  <2>2. QED
    BY <2>1 DEF Few, ToSet
<1>2. CASE version # None
  <2> DEFINE c == Composer(version, source)
  <2>1. s = <<c>>
    BY <1>2 DEF ComposerOf
  <2>2. c \in ComposerObservation /\ c.source = source /\ c.pluginApi = None
    BY <1>2 DEF Composer, ComposerObservation, Reported
  <2> HIDE DEF c, s
  <2>3. QED
    BY <2>1, <2>2 DEF Few, ToSet, s
<1>3. QED
  BY <1>1, <1>2

LEMMA NoComposer == Few(<<>>) /\ ToSet(<<>>) = {} /\ Len(<<>>) = 0
BY DEF Few, ToSet

\* An observation from its parts.
Observed(name, available, state, installs, php, ext, tool, diagnostics) ==
    [provider |-> name, available |-> available, state |-> state,
     installs |-> installs, php |-> php, ext |-> ext, composer |-> tool,
     diagnostics |-> diagnostics]

LEMMA ProvidersSet == ToSet(Providers) = {"ddev", "native"}
BY DEF Providers, ToSet

LEMMA ObservationRight ==
  ASSUME NEW o \in ProviderObservation, Few(o.composer), Len(o.composer) <= 1,
         \A c \in ToSet(o.composer) : c.source # "managed" /\ c.pluginApi = None
  PROVE  WellObserved(o) /\ NoPluginApi(o) /\ Unmanaged(o)
BY DEF WellObserved, NoPluginApi, Unmanaged

LEMMA DdevObserved ==
  ASSUME NEW ddev \in Ddevs
  PROVE  LET o == ObservedDdev(ddev) IN
         /\ WellObserved(o) /\ NoPluginApi(o) /\ Unmanaged(o)
         /\ o.provider = "ddev"
<1>0. PICK o : o = ObservedDdev(ddev)
  OBVIOUS
<1> DEFINE tool == ComposerOf(ddev.composer, "provider")
           Right == /\ o \in ProviderObservation /\ o.provider = "ddev"
                    /\ o.composer \in {<<>>, tool}
<1>1. /\ ddev.installed \in BOOLEAN /\ ddev.configured \in BOOLEAN
      /\ ddev.status \in {"running", "stopped", "other"}
      /\ ddev.php \in Reported /\ ddev.ext \in Reported \cup {Unversioned}
      /\ ddev.composer \in Reported
  BY AnalysisAssumption
<1>2. /\ Few(tool) /\ Len(tool) <= 1
      /\ \A c \in ToSet(tool) : c.source # "managed" /\ c.pluginApi = None
  BY <1>1, ComposerOfRight
<1> HIDE DEF tool
<1>3. None \in Reported
  BY DEF Reported
<1>4. /\ {Warning("not_found")} \in SUBSET ProviderDiagnostic
      /\ {Warning("config_missing")} \in SUBSET ProviderDiagnostic
      /\ {Warning("stopped")} \in SUBSET ProviderDiagnostic
      /\ {Error("state_unsupported")} \in SUBSET ProviderDiagnostic
  BY DEF Warning, Error, ProviderDiagnostic
<1>5. tool \in Seq(ComposerObservation) /\ <<>> \in Seq(ComposerObservation)
  BY <1>2 DEF Few
<1>6. Right
  <2>1. CASE ~ddev.installed
    <3>1. o = Observed("ddev", FALSE, "unavailable", {}, None, None, <<>>, {Warning("not_found")})
      BY <1>0, <2>1 DEF ObservedDdev, Observation, Observed
    <3>2. QED
      BY <3>1, <1>1, <1>3, <1>4, <1>5, ProvidersSet
      DEF Observed, ProviderObservation
  <2>2. CASE ddev.installed /\ ~ddev.configured
    <3>1. o = Observed("ddev", TRUE, "unconfigured", {"php", "ext"}, None, None, <<>>,
                       {Warning("config_missing")})
      BY <1>0, <2>2 DEF ObservedDdev, Observation, Observed
    <3>2. QED
      BY <3>1, <1>1, <1>3, <1>4, <1>5, ProvidersSet
      DEF Observed, ProviderObservation
  <2>3. CASE ddev.installed /\ ddev.configured /\ ddev.status = "running"
    <3>1. o = Observed("ddev", TRUE, "running", {"php", "ext"}, ddev.php, ddev.ext, tool, {})
      BY <1>0, <2>3 DEF ObservedDdev, Observation, Observed, tool
    <3>2. QED
      BY <3>1, <1>1, <1>3, <1>4, <1>5, ProvidersSet
      DEF Observed, ProviderObservation
  <2>4. CASE ddev.installed /\ ddev.configured /\ ddev.status = "stopped"
    <3>1. o = Observed("ddev", TRUE, "stopped", {"php", "ext"}, ddev.php, None, <<>>,
                       {Warning("stopped")})
      BY <1>0, <2>4 DEF ObservedDdev, Observation, Observed
    <3>2. QED
      BY <3>1, <1>1, <1>3, <1>4, <1>5, ProvidersSet
      DEF Observed, ProviderObservation
  <2>5. CASE ddev.installed /\ ddev.configured /\ ddev.status = "other"
    <3>1. o = Observed("ddev", TRUE, "degraded", {"php", "ext"}, ddev.php, None, <<>>,
                       {Error("state_unsupported")})
      BY <1>0, <2>5 DEF ObservedDdev, Observation, Observed
    <3>2. QED
      BY <3>1, <1>1, <1>3, <1>4, <1>5, ProvidersSet
      DEF Observed, ProviderObservation
  <2>6. QED
    BY <1>1, <2>1, <2>2, <2>3, <2>4, <2>5
<1>7. /\ Few(o.composer) /\ Len(o.composer) <= 1
       /\ \A c \in ToSet(o.composer) : c.source # "managed" /\ c.pluginApi = None
  BY <1>2, <1>6, NoComposer
<1>8. WellObserved(o) /\ NoPluginApi(o) /\ Unmanaged(o)
  BY <1>6, <1>7, ObservationRight
<1>9. QED
  BY <1>0, <1>6, <1>8

LEMMA NativeObserved ==
  ASSUME NEW native \in Natives
  PROVE  LET o == ObservedNative(native) IN
         /\ WellObserved(o) /\ NoPluginApi(o) /\ Unmanaged(o)
         /\ o.provider = "native"
<1> DEFINE o == ObservedNative(native)
           tool == ComposerOf(native.composer, "system")
           missing == (IF native.php = None THEN {Error("php_not_found")} ELSE {})
                      \cup (IF native.composer = None
                              THEN {Error("composer_not_found")} ELSE {})
           basic == Observation("native")
<1>1. /\ native.php \in Reported /\ native.ext \in Reported \cup {Unversioned}
      /\ native.composer \in Reported
  BY AnalysisAssumption
<1>2. /\ Few(tool) /\ Len(tool) <= 1
      /\ \A c \in ToSet(tool) : c.source # "managed" /\ c.pluginApi = None
  BY <1>1, ComposerOfRight
<1>3. missing \in SUBSET ProviderDiagnostic
  BY DEF Error, ProviderDiagnostic
<1>4. o = [basic EXCEPT !.php = native.php, !.ext = native.ext,
                        !.composer = tool, !.diagnostics = missing]
  BY DEF ObservedNative
<1>5. basic = [provider |-> "native", available |-> TRUE, state |-> None,
               installs |-> {}, php |-> None, ext |-> None, composer |-> <<>>,
               diagnostics |-> {}]
  BY DEF Observation
<1> HIDE DEF o, tool, missing, basic
<1>6. o = Observed("native", TRUE, None, {}, native.php, native.ext, tool, missing)
  BY <1>4, <1>5 DEF Observed
<1>7. o \in ProviderObservation /\ o.provider = "native" /\ o.composer = tool
  BY <1>1, <1>2, <1>3, <1>6, ProvidersSet DEF Observed, ProviderObservation, Few
<1>8. WellObserved(o) /\ NoPluginApi(o) /\ Unmanaged(o)
  BY <1>2, <1>7, ObservationRight
<1>9. QED
  BY <1>7, <1>8 DEF o

(***************************************************************************)
(* The initial state, and every step, keep the invariant.                  *)
(***************************************************************************)
\* What the current plan is Build of.
Asked == Request(observations, providerPlan)

LEMMA AskedFields ==
  ASSUME NEW s, NEW p
  PROVE  LET q == Request(s, p) IN
         /\ q.facts = facts /\ q.options = options /\ q.provider = options.provider
         /\ q.previous = None /\ q.default = None
         /\ q.observations = s /\ q.providerPlan = p
         /\ q = [facts |-> q.facts, options |-> q.options, provider |-> q.provider,
                 previous |-> q.previous, default |-> q.default,
                 observations |-> q.observations, providerPlan |-> q.providerPlan]
BY DEF Request

\* The provider of a plan is one that was observed.
LEMMA SelectedRight ==
  ASSUME IInv, at \in {"composer", "provider"}, plan.provider # None
  PROVE  /\ Selected \in {1, 2}
         /\ observations[Selected].provider = plan.provider
         /\ Chosen(Asked) # None /\ Chosen(Asked).provider = plan.provider
<1>1. /\ plan # None /\ plan = Build(Asked) /\ Inspected(observations)
      /\ Asked.observations = observations
  BY AskedFields DEF IInv, PlanPart, ObservedPart, Asked
<1>2. Chosen(Asked) # None /\ Chosen(Asked).provider = plan.provider
  BY <1>1, BuildCases
<1>3. Chosen(Asked) \in Admitted(Asked)
  BY <1>1, <1>2, SelectedAdmitted DEF Chosen
<1>4. \E i \in {1, 2} : Chosen(Asked).provider = observations[i].provider
  BY <1>1, <1>3, AdmittedRight
<1>5. DOMAIN observations = {1, 2}
  BY <1>1 DEF Inspected
<1>6. QED
  BY <1>2, <1>4, <1>5 DEF Selected

LEMMA InitIInv == Init => IInv
<1> SUFFICES ASSUME Init PROVE IInv
  OBVIOUS
<1>1. TypePart
  BY DEF Init, TypePart
<1>2. ObservedPart
  BY DEF Init, ObservedPart
<1>3. PlanPart
  BY DEF Init, PlanPart, NoPlan, ToSet
<1>4. QED
  BY <1>1, <1>2, <1>3 DEF IInv

LEMMA InspectDdevIInv == IInv /\ InspectDdev => IInv'
<1> SUFFICES ASSUME IInv, InspectDdev PROVE IInv'
  OBVIOUS
<1>1. TypePart'
  BY DEF IInv, TypePart, InspectDdev
<1>2. ObservedPart'
  BY DEF IInv, ObservedPart, InspectDdev
<1>3. PlanPart'
  BY DEF IInv, PlanPart, InspectDdev
<1>4. QED
  BY <1>1, <1>2, <1>3 DEF IInv

LEMMA OneOfTwo ==
  ASSUME NEW n \in Nat, n <= 1, NEW i \in 1 .. n + 1, NEW j \in 1 .. n + 1, i < j
  PROVE  i = 1 /\ j = 2 /\ n = 1
OBVIOUS

LEMMA TwoObserved ==
  ASSUME NEW S, NEW a \in S, NEW b \in S
  PROVE  LET s == Append(<<a>>, b) IN
         /\ s \in Seq(S) /\ Len(s) = 2 /\ DOMAIN s = {1, 2}
         /\ s[1] = a /\ s[2] = b
<1>1. <<a>> \in Seq(S) /\ Len(<<a>>) = 1 /\ <<a>>[1] = a
  OBVIOUS
<1> DEFINE t == <<a>>
<1> HIDE DEF t
<1>2. /\ Append(t, b) \in Seq(S) /\ Len(Append(t, b)) = 2
      /\ Append(t, b)[1] = a /\ Append(t, b)[2] = b
  BY <1>1 DEF t
<1>3. QED
  BY <1>2 DEF t

LEMMA InspectNativeIInv == IInv /\ InspectNative => IInv'
<1> SUFFICES ASSUME IInv, InspectNative PROVE IInv'
  OBVIOUS
<1> DEFINE d == ObservedDdev(machine.ddev)
           n == ObservedNative(machine.native)
<1>1. at = "native" /\ observations = <<d>> /\ providerPlan = NoPlan
  BY DEF IInv, InspectNative, ObservedPart, PlanPart
<1>2. /\ at' \in {"composer", "failed"} /\ observations' = Append(observations, n)
      /\ plan' = Build(Request(observations', NoPlan))
      /\ at' = "failed" <=> plan' = None
      /\ UNCHANGED <<facts, options, machine, providerPlan, release>>
  BY DEF InspectNative, Rebuilt
<1>3. machine.native \in Natives /\ machine.ddev \in Ddevs
  BY DEF IInv, TypePart
<1>4. /\ WellObserved(d) /\ NoPluginApi(d) /\ Unmanaged(d) /\ d.provider = "ddev"
      /\ WellObserved(n) /\ NoPluginApi(n) /\ Unmanaged(n) /\ n.provider = "native"
  BY <1>3, DdevObserved, NativeObserved
<1> HIDE DEF d, n
<1>5. /\ observations' \in Seq(ProviderObservation) /\ Len(observations') = 2
      /\ DOMAIN observations' = {1, 2}
      /\ observations'[1] = d /\ observations'[2] = n
  BY <1>1, <1>2, <1>4, TwoObserved DEF WellObserved
<1>6. TypePart'
  BY <1>2 DEF IInv, TypePart
<1>7. ObservedPart'
  <2>1. Inspected(observations') /\ observations' \in Seq(ProviderObservation)
    BY <1>4, <1>5 DEF Inspected, WellObserved
  <2>2. \A i \in {1, 2} : NoPluginApi(observations'[i]) /\ Unmanaged(observations'[i])
    BY <1>4, <1>5
  <2>3. Len(observations') <= 2
    BY <1>5
  <2>4. QED
    BY <1>2, <2>1, <2>2, <2>3 DEF ObservedPart
<1>8. PlanPart'
  <2>1. Request(observations', NoPlan) = Request(observations, providerPlan)'
    BY <1>1, <1>2 DEF Request
  <2>2. ToSet(providerPlan'.actions) \subseteq ProviderActions
    BY <1>2 DEF IInv, PlanPart
  <2>3. QED
    BY <1>1, <1>2, <2>1, <2>2 DEF PlanPart
<1>9. QED
  BY <1>6, <1>7, <1>8 DEF IInv

LEMMA SkipComposerIInv == IInv /\ SkipComposer => IInv'
<1> SUFFICES ASSUME IInv, SkipComposer PROVE IInv'
  OBVIOUS
<1>1. TypePart'
  BY DEF IInv, TypePart, SkipComposer
<1>2. ObservedPart'
  BY DEF IInv, ObservedPart, SkipComposer
<1>3. PlanPart'
  <2>1. Request(observations, providerPlan)' = Request(observations, providerPlan)
    BY DEF SkipComposer, Request
  <2>2. QED
    BY <2>1 DEF IInv, PlanPart, SkipComposer
<1>4. QED
  BY <1>1, <1>2, <1>3 DEF IInv

(***************************************************************************)
(* The managed Composer is added to what the selected provider has, which  *)
(* stays well-formed: it is the only managed one.                          *)
(***************************************************************************)
LEMMA ComposerAdded ==
  ASSUME IInv, ResolveComposer
  PROVE  /\ Selected \in {1, 2} /\ plan.provider # None
         /\ observations' \in Seq(ProviderObservation) /\ Inspected(observations')
         /\ Len(observations') <= 2
         /\ \A i \in {1, 2} : NoPluginApi(observations'[i])
         /\ \A i \in {1, 2} \ {Selected} : observations'[i] = observations[i]
         /\ observations'[Selected] = [observations[Selected] EXCEPT
                !.composer = observations'[Selected].composer]
         /\ ToSet(observations[Selected].composer)
              \subseteq ToSet(observations'[Selected].composer)
<1> DEFINE k == Selected
           o == observations[k]
           s == o.composer
           t == Append(s, release')
           p == [o EXCEPT !.composer = t]
<1>1. at = "composer" /\ plan.provider # None
  BY DEF ResolveComposer, NeedsManagedComposer
<1>2. k \in {1, 2}
  BY <1>1, SelectedRight
<1>3. /\ observations \in Seq(ProviderObservation) /\ Inspected(observations)
      /\ \A i \in {1, 2} : NoPluginApi(observations[i]) /\ Unmanaged(observations[i])
  BY <1>1 DEF IInv, ObservedPart
<1>4. /\ release' \in ComposerObservation
      /\ release'.source = "managed" /\ release'.pluginApi = None
  <2>1. PICK version \in Allowed, cached \in BOOLEAN :
          release' = [Composer(version, "managed") EXCEPT !.cached = cached]
    BY DEF ResolveComposer
  <2>2. Allowed \subseteq Versions
    BY AnalysisAssumption DEF Allowed
  <2>3. version \in Versions /\ version # None
    BY <2>2, PlannerAssumption
  <2>4. release' = [version |-> version, source |-> "managed",
                    cached |-> cached, pluginApi |-> None]
    BY <2>1 DEF Composer
  <2>5. version \in Reported \ {None} /\ None \in Reported
    BY <2>3 DEF Reported
  <2>6. QED
    BY <2>4, <2>5 DEF ComposerObservation
<1>5. /\ o \in ProviderObservation /\ Few(s) /\ Len(s) <= 1
      /\ s \in Seq(ComposerObservation)
      /\ \A c \in ToSet(s) : c.source # "managed" /\ c.pluginApi = None
  BY <1>2, <1>3 DEF Inspected, WellObserved, Few, Unmanaged, NoPluginApi
<1>6. /\ t \in Seq(ComposerObservation) /\ Len(t) <= 2
      /\ \A j \in DOMAIN t : t[j] = release' \/ (j \in DOMAIN s /\ t[j] = s[j])
      /\ \A j \in DOMAIN s : j \in DOMAIN t /\ t[j] = s[j]
      /\ DOMAIN t = 1 .. Len(s) + 1 /\ t[Len(s) + 1] = release'
  <2> HIDE DEF s
  <2>1. Len(s) \in Nat /\ DOMAIN s = 1 .. Len(s)
    BY <1>5
  <2>2. QED
    BY <1>4, <1>5, <2>1
<1>7. observations' = [observations EXCEPT ![k].composer = t]
  BY DEF ResolveComposer
<1>8. DOMAIN observations = {1, 2}
  BY <1>3 DEF Inspected
<1>9. /\ observations' = [observations EXCEPT ![k] = p]
      /\ DOMAIN observations' = {1, 2} /\ observations'[k] = p
      /\ \A i \in {1, 2} \ {k} : observations'[i] = observations[i]
  BY <1>2, <1>7, <1>8
<1>10. /\ p \in ProviderObservation /\ p.composer = t /\ p.provider = o.provider
  BY <1>5, <1>6 DEF ProviderObservation
<1> HIDE DEF k, o, s, t, p
<1>11. Few(t)
  <2>1. \A i, j \in DOMAIN t : i # j => t[i].source # t[j].source
    <3> SUFFICES ASSUME NEW i \in DOMAIN t, NEW j \in DOMAIN t, i < j
                 PROVE  t[i].source # t[j].source
      BY <1>6
    <3>1. i = 1 /\ j = 2 /\ Len(s) = 1
      <4>1. Len(s) \in Nat /\ Len(s) <= 1
        BY <1>5
      <4>2. i \in 1 .. Len(s) + 1 /\ j \in 1 .. Len(s) + 1
        BY <1>6
      <4>3. QED
        BY <4>1, <4>2, OneOfTwo
    <3>2. 1 \in DOMAIN s /\ t[i] = s[1] /\ t[j] = release'
      BY <1>5, <1>6, <3>1
    <3>3. s[1].source # "managed"
      BY <1>5, <3>2 DEF ToSet
    <3>4. QED
      BY <1>4, <3>2, <3>3
  <2>2. QED
    BY <1>6, <2>1 DEF Few
<1>12. NoPluginApi(p)
  BY <1>4, <1>5, <1>6, <1>10 DEF NoPluginApi, ToSet
<1>13. ToSet(s) \subseteq ToSet(t)
  BY <1>6 DEF ToSet
<1>14. Inspected(observations')
  <2>1. WellObserved(p)
    BY <1>10, <1>11 DEF WellObserved
  <2>2. QED
    BY <1>2, <1>3, <1>9, <1>10, <2>1 DEF Inspected, o
<1>15. observations' \in Seq(ProviderObservation) /\ Len(observations') <= 2
  <2>1. Len(observations) = 2
    BY <1>3, <1>8, TwoLong
  <2> DEFINE added == [observations EXCEPT ![k] = p]
  <2>2. k \in 1 .. Len(observations)
    BY <1>2, <2>1
  <2>3. added \in Seq(ProviderObservation) /\ Len(added) = Len(observations)
    BY <1>3, <1>10, <2>2
  <2>4. observations' = added
    BY <1>9
  <2> HIDE DEF added
  <2>5. added \in Seq(ProviderObservation) /\ Len(added) <= 2
    BY <2>1, <2>3
  <2>6. QED
    BY <2>4, <2>5, Zenon
<1>16. \A i \in {1, 2} : NoPluginApi(observations'[i])
  BY <1>3, <1>9, <1>12
<1>17. QED
  BY <1>1, <1>2, <1>9, <1>10, <1>13, <1>14, <1>15, <1>16 DEF k, o, s, p

LEMMA ResolveComposerIInv == IInv /\ ResolveComposer => IInv'
<1> SUFFICES ASSUME IInv, ResolveComposer PROVE IInv'
  OBVIOUS
<1>1. at = "composer" /\ providerPlan = NoPlan
  BY DEF IInv, PlanPart, ResolveComposer
<1>2. /\ at' \in {"provider", "failed"}
      /\ plan' = Build(Request(observations', NoPlan))
      /\ at' = "failed" <=> plan' = None
      /\ UNCHANGED <<facts, options, machine, providerPlan>>
  BY DEF ResolveComposer, Rebuilt
<1>3. TypePart'
  BY <1>2 DEF IInv, TypePart
<1>4. ObservedPart'
  BY <1>2, ComposerAdded DEF ObservedPart
<1>5. PlanPart'
  <2>1. Request(observations', NoPlan) = Request(observations, providerPlan)'
    BY <1>1, <1>2 DEF Request
  <2>2. ToSet(providerPlan'.actions) \subseteq ProviderActions
    BY <1>2 DEF IInv, PlanPart
  <2>3. QED
    BY <1>1, <1>2, <2>1, <2>2 DEF PlanPart
<1>6. QED
  BY <1>3, <1>4, <1>5 DEF IInv

LEMMA PlanProviderIInv == IInv /\ PlanProvider => IInv'
<1> SUFFICES ASSUME IInv, PlanProvider PROVE IInv'
  OBVIOUS
<1>1. /\ at = "provider" /\ at' \in {"done", "failed"}
      /\ plan' = Build(Request(observations, providerPlan'))
      /\ at' = "failed" <=> plan' = None
      /\ UNCHANGED <<facts, options, machine, observations, release>>
  BY DEF PlanProvider, Rebuilt
<1>2. TypePart'
  BY <1>1 DEF IInv, TypePart
<1>3. ObservedPart'
  BY <1>1 DEF IInv, ObservedPart
<1>4. ToSet(providerPlan'.actions) \subseteq ProviderActions
  <2>1. providerPlan'.actions \in {<<>>, <<Configuring, Starting>>, <<Starting>>}
    BY DEF PlanProvider, ProviderPlan, DdevActions, Configuring, Starting
  <2>2. QED
    BY <2>1 DEF ToSet, ProviderActions
<1>5. PlanPart'
  <2>1. Request(observations, providerPlan') = Request(observations, providerPlan)'
    BY <1>1 DEF Request
  <2>2. QED
    BY <1>1, <1>4, <2>1 DEF PlanPart
<1>6. QED
  BY <1>2, <1>3, <1>5 DEF IInv

LEMMA SkipProviderIInv == IInv /\ SkipProvider => IInv'
<1> SUFFICES ASSUME IInv, SkipProvider PROVE IInv'
  OBVIOUS
<1>1. TypePart'
  BY DEF IInv, TypePart, SkipProvider
<1>2. ObservedPart'
  BY DEF IInv, ObservedPart, SkipProvider
<1>3. PlanPart'
  <2>1. Request(observations, providerPlan)' = Request(observations, providerPlan)
    BY DEF SkipProvider, Request
  <2>2. QED
    BY <2>1 DEF IInv, PlanPart, SkipProvider
<1>4. QED
  BY <1>1, <1>2, <1>3 DEF IInv

LEMMA FailIInv == IInv /\ Fail => IInv'
<1> SUFFICES ASSUME IInv, Fail PROVE IInv'
  OBVIOUS
<1>1. TypePart'
  BY DEF IInv, TypePart, Fail
<1>2. ObservedPart'
  BY DEF IInv, ObservedPart, Fail
<1>3. PlanPart'
  BY DEF IInv, PlanPart, Fail
<1>4. QED
  BY <1>1, <1>2, <1>3 DEF IInv

LEMMA StutterIInv == IInv /\ UNCHANGED vars => IInv'
<1> SUFFICES ASSUME IInv, UNCHANGED vars PROVE IInv'
  OBVIOUS
<1>1. Request(observations, providerPlan)' = Request(observations, providerPlan)
  BY DEF vars, Request
<1>2. QED
  BY <1>1 DEF vars, IInv, TypePart, ObservedPart, PlanPart

LEMMA AlwaysIInv == Spec => []IInv
<1>1. IInv /\ [Next]_vars => IInv'
  BY InspectDdevIInv, InspectNativeIInv, SkipComposerIInv, ResolveComposerIInv,
     PlanProviderIInv, SkipProviderIInv, FailIInv, StutterIInv DEF Next
<1>2. QED
  BY <1>1, InitIInv, PTL DEF Spec

-----------------------------------------------------------------------------
(***************************************************************************)
(* The plans of an analysis.                                               *)
(***************************************************************************)

LEMMA PlanIsBuild ==
  ASSUME IInv, plan # None
  PROVE  /\ at \in {"composer", "provider", "done"} /\ plan = Build(Asked)
         /\ Inspected(Asked.observations)
         /\ observations \in Seq(ProviderObservation)
         /\ ToSet(Asked.providerPlan.actions) \subseteq ProviderActions
         /\ Asked.facts = facts /\ facts \in ProjectFacts
<1>1. at \in {"composer", "provider", "done"}
  BY DEF IInv, TypePart, PlanPart
<1>2. QED
  BY <1>1, AskedFields, AnalysisAssumption
     DEF IInv, TypePart, ObservedPart, PlanPart, Asked

LEMMA PlanActions ==
  ASSUME IInv, plan # None, plan.actions # <<>>
  PROVE  /\ \E n \in Nat : DOMAIN plan.actions = 1 .. n
         /\ \A i \in DOMAIN plan.actions :
                /\ IsAction(plan.actions[i])
                /\ plan.actions[i].after = {i - 1} \ {0}
         /\ \A i, j \in DOMAIN plan.actions :
                i < j => Precedes(plan.actions[i], plan.actions[j])
         /\ Installation.step = IF Chosen(Asked).composer = <<>> THEN None
                                ELSE Chosen(Asked).composer[1]
<1>1. PICK d, given :
         /\ ToSet(given) \subseteq ProviderActions
         /\ plan.actions = CompatibleActions(d, Chosen(Asked), given)
  BY PlanIsBuild, PlanWithActions
<1> DEFINE s == plan.actions
<1>2. /\ \E n \in Nat : DOMAIN s = 1 .. n
      /\ \A i \in DOMAIN s : IsAction(s[i]) /\ s[i].after = {i - 1} \ {0}
      /\ \A i, j \in DOMAIN s : i < j => Precedes(s[i], s[j])
      /\ \E i \in DOMAIN s : s[i].kind = "install_dependencies"
      /\ \A i \in DOMAIN s : s[i].kind = "install_dependencies" =>
             s[i].step = IF Chosen(Asked).composer = <<>> THEN None
                         ELSE Chosen(Asked).composer[1]
  BY <1>1, ActionsRight
<1>3. Installation.step = IF Chosen(Asked).composer = <<>> THEN None
                          ELSE Chosen(Asked).composer[1]
  BY <1>2 DEF Installation
<1>4. QED
  BY <1>2, <1>3

(***************************************************************************)
(* Type correctness: a plan is for a provider that was inspected, and its  *)
(* actions are ordered after earlier ones (compatibleActions).             *)
(***************************************************************************)
LEMMA TypeFollows == IInv => TypeOK
<1> SUFFICES ASSUME IInv PROVE TypeOK
  OBVIOUS
<1>1. /\ at \in {"ddev", "native", "composer", "provider", "done", "failed"}
      /\ Len(observations) <= 2
      /\ at \in {"composer", "provider", "done"} => plan # None
  BY DEF IInv, TypePart, ObservedPart, PlanPart
<1>2. ASSUME plan # None PROVE plan.provider \in {None} \cup ToSet(Providers)
  <2>1. CASE Chosen(Asked) = None
    BY <1>2, <2>1, PlanIsBuild, BuildCases
  <2>2. CASE Chosen(Asked) # None
    <3>1. Chosen(Asked) \in Admitted(Asked)
      BY <1>2, <2>2, PlanIsBuild, SelectedAdmitted DEF Chosen
    <3>2. WellObserved(Chosen(Asked))
      BY <1>2, <3>1, PlanIsBuild, AdmittedRight
    <3>3. Chosen(Asked).provider \in ToSet(Providers)
      BY <3>2 DEF WellObserved, ProviderObservation
    <3>4. plan.provider = Chosen(Asked).provider
      BY <1>2, <2>2, PlanIsBuild, BuildCases
    <3>5. QED
      BY <3>3, <3>4
  <2>3. QED
    BY <2>1, <2>2
<1>3. ASSUME plan # None, NEW i \in DOMAIN plan.actions
      PROVE  plan.actions[i].after \subseteq 1 .. i - 1
  <2>1. plan.actions # <<>>
    BY <1>3
  <2>2. i \in Nat /\ i >= 1 /\ plan.actions[i].after = {i - 1} \ {0}
    <3>1. PICK n \in Nat : DOMAIN plan.actions = 1 .. n
      BY <1>3, <2>1, PlanActions
    <3>2. plan.actions[i].after = {i - 1} \ {0}
      BY <1>3, <2>1, PlanActions
    <3>3. QED
      BY <1>3, <3>1, <3>2
  <2>3. QED
    BY <2>2
<1>4. QED
  BY <1>1, <1>2, <1>3 DEF TypeOK

THEOREM TypeCorrect == Spec => []TypeOK
BY AlwaysIInv, TypeFollows, PTL

(***************************************************************************)
(* Build sorts what it is given: turned observations, with turned          *)
(* Composers, give the same plan and so the digest that was approved.      *)
(***************************************************************************)
LEMMA OrderFollows == IInv => OrderIrrelevant
<1> SUFFICES ASSUME IInv, plan # None
             PROVE  Build(Request(Turned(observations), providerPlan)) = plan
  BY DEF OrderIrrelevant, Turned
<1>1. /\ Asked.observations = observations
      /\ Asked = [facts |-> Asked.facts, options |-> Asked.options,
                  provider |-> Asked.provider, previous |-> Asked.previous,
                  default |-> Asked.default, observations |-> Asked.observations,
                  providerPlan |-> Asked.providerPlan]
  BY AskedFields DEF Asked
<1>2. Request(Turned(observations), providerPlan)
        = [Asked EXCEPT !.observations = Turned(observations)]
  BY DEF Asked, Request
<1>3. QED
  BY <1>1, <1>2, PlanIsBuild, BuildTurned

THEOREM OrderDoesNotMatter == Spec => []OrderIrrelevant
BY AlwaysIInv, OrderFollows, PTL

(***************************************************************************)
(* The PHP of a plan with actions, and the Composer it executes, meet      *)
(* every requirement of the project (requirementDiagnostics).              *)
(***************************************************************************)
LEMMA RequirementsFollow == IInv => RequirementsMet
<1> DEFINE Meets(name, version) ==
             \A r \in Group(facts, name) :
                 IF r.conflict THEN version \notin r.allows
                 ELSE version \in r.allows
           o == Chosen(Asked)
<1> SUFFICES ASSUME IInv, Concluded
             PROVE  /\ Group(facts, "php") # {} =>
                         PhpVersion # None /\ Meets("php", PhpVersion)
                    /\ Group(facts, "composer") # {} =>
                         /\ Installation.step # None
                         /\ Meets("composer", Installation.step.version)
  BY DEF RequirementsMet
<1>1. plan # None /\ plan.actions # <<>>
  BY DEF Concluded, IInv, PlanPart
<1>2. /\ WellObserved(o) /\ facts \in ProjectFacts
      /\ plan.requirements = Resolutions(facts, o)
      /\ \A n \in Groups(facts) : Resolution(facts, n, o).status \notin BlockedStatus
  <2>1. /\ Build(Asked) # None /\ Build(Asked).actions # <<>>
        /\ Asked.facts = facts /\ plan = Build(Asked)
    BY <1>1, PlanIsBuild
  <2>2. QED
    BY <1>1, <2>1, PlanIsBuild, PlanWithActions
<1>3. Installation.step = IF o.composer = <<>> THEN None ELSE o.composer[1]
  BY <1>1, PlanActions
<1> HIDE DEF o
<1>4. \A n \in {"php", "composer"} : \A v :
          Satisfied(Group(facts, n), v) => Meets(n, v)
  BY <1>2, GroupType DEF Satisfied
<1>5. o \in ProviderObservation
  BY <1>2 DEF WellObserved
<1>6. ASSUME Group(facts, "php") # {}
      PROVE  PhpVersion # None /\ Satisfied(Group(facts, "php"), PhpVersion)
  <2>1. "php" \in Groups(facts)
    BY <1>6 DEF Groups, Names
  <2>2. PhpVersion = Resolution(facts, "php", o).value
    BY <1>2, <2>1 DEF PhpVersion, Resolutions
  <2>3. QED
    BY <1>2, <1>5, <2>1, <2>2, PhpResolved
<1>7. ASSUME Group(facts, "composer") # {}
      PROVE  /\ Installation.step # None
             /\ Satisfied(Group(facts, "composer"), Installation.step.version)
  <2>1. "composer" \in Groups(facts)
    BY <1>7 DEF Groups, Names
  <2>2. o.composer # <<>> /\ Satisfied(Group(facts, "composer"), o.composer[1].version)
    BY <1>2, <1>5, <2>1, ComposerResolved
  <2>3. o.composer[1] # None
    BY <1>2, <2>2, FirstComposer, NoneAssumption
  <2>4. QED
    BY <1>3, <2>2, <2>3
<1>8. QED
  BY <1>4, <1>6, <1>7

THEOREM RequirementsSatisfied == Spec => []RequirementsMet
BY AlwaysIInv, RequirementsFollow, PTL

(***************************************************************************)
(* Sorting by phase puts preparation before use (compatibleActions).       *)
(***************************************************************************)
LEMMA PreparedFollows == IInv => PreparedBeforeUse
<1> SUFFICES ASSUME IInv, at = "done",
                    NEW i \in DOMAIN plan.actions, NEW j \in DOMAIN plan.actions
             PROVE  LET later == plan.actions[i]
                        earlier == plan.actions[j] IN
                    (\/ /\ later.kind = "prepare_provider" /\ later.step = "start"
                        /\ earlier.kind = "prepare_provider"
                        /\ earlier.step = "configure"
                     \/ /\ later.kind \in {"prepare_runtime", "prepare_extension"}
                        /\ earlier.kind = "prepare_provider"
                     \/ /\ later.kind = "prepare_extension"
                        /\ earlier.kind = "prepare_runtime"
                     \/ /\ later.kind = "install_dependencies"
                        /\ earlier.kind \in {"prepare_provider", "prepare_runtime",
                                             "prepare_extension", "prepare_composer"}
                     \/ /\ later.kind = "verify_platform"
                        /\ earlier.kind = "install_dependencies"
                     \/ /\ later.kind = "record_state"
                        /\ earlier.kind = "verify_platform")
                    => j < i
  BY DEF PreparedBeforeUse
<1> DEFINE later == plan.actions[i]
           earlier == plan.actions[j]
<1>1. plan # None /\ plan.actions # <<>>
  BY DEF IInv, PlanPart
<1>2. i \in Nat /\ j \in Nat
  BY <1>1, PlanActions
<1>3. i < j => Precedes(later, earlier)
  BY <1>1, PlanActions
<1>4. i = j => later = earlier
  OBVIOUS
<1>5. i < j \/ i = j \/ j < i
  BY <1>2
<1> HIDE DEF later, earlier
<1>6. QED
  BY <1>3, <1>4, <1>5 DEF Precedes, Phase, InputKey, later, earlier

THEOREM PreparationFirst == Spec => []PreparedBeforeUse
BY AlwaysIInv, PreparedFollows, PTL

(***************************************************************************)
(* What --trust approves is the Composer that the installation executes    *)
(* (composerTrustRequirements, compatibleActions).                         *)
(***************************************************************************)
LEMMA TrustFollows == IInv => TrustNamesComposer
<1> SUFFICES ASSUME IInv, Concluded, NEW t \in plan.trust
             PROVE  t.fingerprint = Installation.step
  BY DEF TrustNamesComposer
<1> DEFINE o == Chosen(Asked)
<1>1. plan # None /\ plan.actions # <<>>
  BY DEF Concluded, IInv, PlanPart
<1>2. plan.trust = Trust(facts, o)
  <2>1. /\ Build(Asked) # None /\ Build(Asked).actions # <<>>
        /\ Asked.facts = facts /\ plan = Build(Asked)
    BY <1>1, PlanIsBuild
  <2>2. QED
    BY <1>1, <2>1, PlanIsBuild, PlanWithActions
<1>3. Installation.step = IF o.composer = <<>> THEN None ELSE o.composer[1]
  BY <1>1, PlanActions
<1> HIDE DEF o
<1>4. QED
  BY <1>2, <1>3 DEF Trust, Trusted

THEOREM TrustForExecuted == Spec => []TrustNamesComposer
BY AlwaysIInv, TrustFollows, PTL

(***************************************************************************)
(* No step of the analysis changes the provider of its plan: the actions   *)
(* that ddev.Plan gives and the managed Composer are for the provider that *)
(* the last Build selects.                                                 *)
(***************************************************************************)
LEMMA ResolveKeeps ==
  ASSUME IInv, ResolveComposer, plan' # None
  PROVE  plan'.provider = plan.provider
<1> DEFINE q == Asked
           r == Request(observations', NoPlan)
           k == Selected
<1>1. /\ at = "composer" /\ plan.provider # None /\ plan' = Build(r)
  BY DEF ResolveComposer, NeedsManagedComposer, Rebuilt
<1>2. /\ Chosen(q) # None /\ Chosen(q).provider = plan.provider
      /\ observations[k].provider = plan.provider
  BY <1>1, SelectedRight
<1>3. /\ q.observations = observations /\ r.observations = observations'
      /\ r.facts = q.facts /\ r.provider = q.provider
      /\ r.previous = q.previous /\ r.default = q.default
  BY AskedFields DEF Asked
<1>4. /\ Inspected(observations) /\ \A i \in {1, 2} : NoPluginApi(observations[i])
  BY <1>1 DEF IInv, ObservedPart
<1>5. /\ k \in {1, 2} /\ Inspected(observations')
      /\ \A i \in {1, 2} : NoPluginApi(observations'[i])
      /\ \A i \in {1, 2} \ {k} : observations'[i] = observations[i]
      /\ observations'[k] = [observations[k] EXCEPT
             !.composer = observations'[k].composer]
      /\ ToSet(observations[k].composer) \subseteq ToSet(observations'[k].composer)
  BY ComposerAdded
<1> HIDE DEF q, r, k
<1>6. /\ SelectProvider(r).observation # None
      /\ SelectProvider(r).observation.provider = SelectProvider(q).observation.provider
  <2>1. /\ Inspected(q.observations) /\ Inspected(r.observations)
        /\ NoPluginApi(q.observations[k]) /\ NoPluginApi(r.observations[k])
    BY <1>3, <1>4, <1>5
  <2>2. \A i \in {1, 2} \ {k} : r.observations[i] = q.observations[i]
    BY <1>3, <1>5
  <2>3. /\ r.observations[k] = [q.observations[k] EXCEPT
               !.composer = r.observations[k].composer]
        /\ ToSet(q.observations[k].composer) \subseteq ToSet(r.observations[k].composer)
    BY <1>3, <1>5
  <2>4. /\ SelectProvider(q).observation # None
        /\ SelectProvider(q).observation.provider = q.observations[k].provider
    BY <1>2, <1>3 DEF Chosen
  <2>5. /\ k \in {1, 2} /\ r.facts = q.facts /\ r.provider = q.provider
        /\ r.previous = q.previous /\ r.default = q.default
    BY <1>3, <1>5
  <2>6. QED
    BY <2>1, <2>2, <2>3, <2>4, <2>5, SelectionKept, ZenonT(60)
<1>7. plan'.provider = Chosen(r).provider
  BY <1>1, <1>6, BuildCases DEF Chosen
<1>8. QED
  BY <1>2, <1>6, <1>7 DEF Chosen

LEMMA PlanKeeps ==
  ASSUME IInv, PlanProvider, plan' # None
  PROVE  plan'.provider = plan.provider
<1> DEFINE q == Asked
           r == Request(observations, providerPlan')
<1>1. at = "provider" /\ plan.provider # None /\ plan' = Build(r)
  BY DEF PlanProvider, Rebuilt
<1>2. Chosen(q) # None /\ Chosen(q).provider = plan.provider
  BY <1>1, SelectedRight
<1>3. /\ q.observations = r.observations
      /\ r.facts = q.facts /\ r.provider = q.provider
      /\ r.previous = q.previous /\ r.default = q.default
  BY AskedFields DEF Asked
<1> HIDE DEF q, r
<1>4. Chosen(r) = Chosen(q)
  BY <1>3 DEF Chosen, SelectProvider, Select, Candidates, Admitted, Wishes
<1>5. plan'.provider = Chosen(r).provider
  BY <1>1, <1>2, <1>4, BuildCases
<1>6. QED
  BY <1>2, <1>4, <1>5

THEOREM ProviderKept == Spec => ProviderStable
<1>1. IInv /\ [Next]_vars =>
        [plan # None /\ plan.provider # None
          => plan' = None \/ plan'.provider = plan.provider]_vars
  <2> SUFFICES ASSUME IInv, Next, plan # None, plan.provider # None, plan' # None
               PROVE  plan'.provider = plan.provider
    BY DEF vars
  <2>1. CASE InspectDdev \/ InspectNative
    BY <2>1 DEF IInv, PlanPart, InspectDdev, InspectNative
  <2>2. CASE SkipComposer \/ SkipProvider
    BY <2>2 DEF SkipComposer, SkipProvider
  <2>3. CASE ResolveComposer
    BY <2>3, ResolveKeeps
  <2>4. CASE PlanProvider
    BY <2>4, PlanKeeps
  <2>5. CASE Fail
    BY <2>5 DEF Fail
  <2>6. QED
    BY <2>1, <2>2, <2>3, <2>4, <2>5 DEF Next
<1>2. QED
  BY <1>1, AlwaysIInv, PTL DEF Spec, ProviderStable

-----------------------------------------------------------------------------
(***************************************************************************)
(* Two disagreements: plans that never have actions.                       *)
(***************************************************************************)

(***************************************************************************)
(* The installation of dependencies requires the network, whatever is in   *)
(* the caches, so that actionPolicyDiagnostics blocks every offline plan   *)
(* (compatibleActions): nothing is ever installed offline.                 *)
(***************************************************************************)
NothingOffline == plan # None /\ options.offline => plan.actions = <<>>

LEMMA OfflineFollows == IInv => NothingOffline
<1> SUFFICES ASSUME IInv, plan # None, options.offline, plan.actions # <<>>
             PROVE  FALSE
  BY DEF NothingOffline
<1>1. /\ ~Blocking(ActionPolicy(options, plan.actions, facts))
      /\ \E d, given : /\ ToSet(given) \subseteq ProviderActions
                       /\ plan.actions = CompatibleActions(d, Chosen(Asked), given)
  <2>1. Asked.options = options
    BY AskedFields DEF Asked
  <2>2. QED
    BY <2>1, PlanIsBuild, PlanWithActions
<1>2. PICK i \in DOMAIN plan.actions : plan.actions[i].network = "required"
  BY <1>1, ActionsRight
<1>3. Error("offline_network_required")
        \in ActionPolicy(options, plan.actions, facts)
  BY <1>2 DEF ActionPolicy
<1>4. QED
  BY <1>1, <1>3 DEF Blocking, Error

THEOREM OfflineInstallsNothing == Spec => []NothingOffline
BY AlwaysIInv, OfflineFollows, PTL

(***************************************************************************)
(* Inspect and Manager.Observation leave a Composer's plugin API version   *)
(* open, so that resolveRequirement finds no value for a requirement on    *)
(* it, nor can a provider prepare one: such a project gets no actions.     *)
(***************************************************************************)
NothingForPluginApi ==
    plan # None /\ Group(facts, "plugin") # {} => plan.actions = <<>>

LEMMA PluginFollows == IInv => NothingForPluginApi
<1> SUFFICES ASSUME IInv, plan # None, Group(facts, "plugin") # {},
                    plan.actions # <<>>
             PROVE  FALSE
  BY DEF NothingForPluginApi
<1> DEFINE q == Asked
           o == Chosen(q)
<1>1. /\ q.facts = facts /\ q.observations = observations
      /\ Inspected(q.observations) /\ \A i \in {1, 2} : NoPluginApi(observations[i])
  BY PlanIsBuild, AskedFields DEF IInv, ObservedPart, Asked
<1>2. /\ o \in Admitted(q) /\ WellObserved(o)
      /\ \A n \in Groups(facts) : Resolution(facts, n, o).status \notin BlockedStatus
  BY <1>1, PlanIsBuild, PlanWithActions
<1> HIDE DEF q, o
<1>3. PICK i \in {1, 2} : o = Normalize(facts, observations[i])
  BY <1>1, <1>2, AdmittedRight
<1>4. NoPluginApi(o)
  <2>1. WellObserved(observations[i])
    BY <1>1 DEF Inspected
  <2>2. ToSet(o.composer) = ToSet(observations[i].composer)
    BY <1>3, <2>1, NormalizeRight
  <2>3. QED
    BY <1>1, <2>2 DEF NoPluginApi
<1>5. "plugin" \in Groups(facts)
  BY DEF Groups, Names
<1>6. QED
  BY <1>2, <1>4, <1>5, PluginBlocks

THEOREM PluginApiBlocks == Spec => []NothingForPluginApi
BY AlwaysIInv, PluginFollows, PTL

===============================================================================
