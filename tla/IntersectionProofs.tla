-------------------------- MODULE IntersectionProofs --------------------------
(* A conflict that predicatesHaveSolution reports is one, whatever the       *)
(* versions and the predicates are.                                          *)
EXTENDS Intersection, TLAPS

\* Respecting a bound.
Above(v, bound) ==
    bound # None =>
        IF bound.inclusive THEN Compare(v, bound.version) >= 0
        ELSE Compare(v, bound.version) > 0
Below(v, bound) ==
    bound # None =>
        IF bound.inclusive THEN Compare(v, bound.version) <= 0
        ELSE Compare(v, bound.version) < 0

\* A solution respects what has been collected.
Collected ==
    \A v \in Version : Solution(v) =>
        Above(v, lower) /\ Below(v, upper) /\ v \notin excluded

LEMMA OrderFacts ==
    ASSUME NEW u \in Version, NEW v \in Version, NEW w \in Version
    PROVE  /\ Compare(u, v) \in Int
           /\ Compare(u, v) = 0 <=> u = v
           /\ Compare(u, v) < 0 <=> Compare(v, u) > 0
           /\ Compare(u, v) < 0 /\ Compare(v, w) < 0 => Compare(u, w) < 0
BY VersionAssumption DEF TotalOrder

LEMMA BoundFields ==
    ASSUME NEW b \in Bound, b # None
    PROVE  b.version \in Points /\ b.inclusive \in BOOLEAN
BY DEF Bound

LEMMA NewBound ==
    ASSUME NEW v \in Points, NEW i \in BOOLEAN
    PROVE  /\ [version |-> v, inclusive |-> i] \in Bound
           /\ [version |-> v, inclusive |-> i] # None
           /\ [version |-> v, inclusive |-> i].version = v
           /\ [version |-> v, inclusive |-> i].inclusive = i
<1>1. [version |-> v, inclusive |-> i] \in [version : Points, inclusive : BOOLEAN]
  BY Zenon
<1> QED
  BY <1>1, NoneAssumption, Zenon DEF Bound

LEMMA TighterType ==
    ASSUME NEW b \in Bound, NEW v \in Points, NEW i \in BOOLEAN
    PROVE  TighterLower(b, v, i) \in Bound /\ TighterUpper(b, v, i) \in Bound
<1>1. [version |-> v, inclusive |-> i] \in Bound
  BY NewBound
<1>2. CASE b = None
  BY <1>1, <1>2, Zenon DEF TighterLower, TighterUpper
<1>3. CASE b # None
  <2>1. (b.inclusive /\ i) \in BOOLEAN
    BY Zenon
  <2>2. [version |-> v, inclusive |-> b.inclusive /\ i] \in Bound
    BY <2>1, NewBound, Zenon
  <2> QED
    BY <1>1, <1>3, <2>2, Zenon DEF TighterLower, TighterUpper
<1> QED
  BY <1>2, <1>3

\* A version that respects a bound and satisfies one more predicate respects
\* the tightened bound.
LEMMA TighterLowerKept ==
    ASSUME NEW b \in Bound, NEW v \in Version, NEW w \in Points,
           NEW i \in BOOLEAN, Above(v, b),
           IF i THEN Compare(v, w) >= 0 ELSE Compare(v, w) > 0
    PROVE  Above(v, TighterLower(b, w, i))
<1>1. Above(v, [version |-> w, inclusive |-> i])
  BY NewBound DEF Above
<1>2. CASE b = None
  BY <1>1, <1>2, Zenon DEF TighterLower
<1>3. CASE b # None
  <2>1. ASSUME Compare(w, b.version) = 0
        PROVE  Above(v, [version |-> w, inclusive |-> b.inclusive /\ i])
    <3>1. b.inclusive \in BOOLEAN /\ b.version \in Points
      BY <1>3, BoundFields
    <3>2. w = b.version
      BY <2>1, <3>1, OrderFacts, VersionAssumption
    <3>3. IF b.inclusive THEN Compare(v, w) >= 0 ELSE Compare(v, w) > 0
      BY <1>3, <3>2 DEF Above
    <3>4. IF b.inclusive /\ i THEN Compare(v, w) >= 0 ELSE Compare(v, w) > 0
      BY <3>1, <3>3
    <3>5. (b.inclusive /\ i) \in BOOLEAN
      BY Zenon
    <3> DEFINE k == b.inclusive /\ i
    <3>6. k \in BOOLEAN /\ IF k THEN Compare(v, w) >= 0 ELSE Compare(v, w) > 0
      BY <3>4, <3>5, Zenon
    <3> HIDE DEF k
    <3>7. Above(v, [version |-> w, inclusive |-> k])
      BY <3>6, NewBound DEF Above
    <3> QED
      BY <3>7 DEF k
  <2> QED
    BY <1>1, <1>3, <2>1, Zenon DEF TighterLower
<1> QED
  BY <1>2, <1>3

LEMMA TighterUpperKept ==
    ASSUME NEW b \in Bound, NEW v \in Version, NEW w \in Points,
           NEW i \in BOOLEAN, Below(v, b),
           IF i THEN Compare(v, w) <= 0 ELSE Compare(v, w) < 0
    PROVE  Below(v, TighterUpper(b, w, i))
<1>1. Below(v, [version |-> w, inclusive |-> i])
  BY NewBound DEF Below
<1>2. CASE b = None
  BY <1>1, <1>2, Zenon DEF TighterUpper
<1>3. CASE b # None
  <2>1. ASSUME Compare(w, b.version) = 0
        PROVE  Below(v, [version |-> w, inclusive |-> b.inclusive /\ i])
    <3>1. b.inclusive \in BOOLEAN /\ b.version \in Points
      BY <1>3, BoundFields
    <3>2. w = b.version
      BY <2>1, <3>1, OrderFacts, VersionAssumption
    <3>3. IF b.inclusive THEN Compare(v, w) <= 0 ELSE Compare(v, w) < 0
      BY <1>3, <3>2 DEF Below
    <3>4. IF b.inclusive /\ i THEN Compare(v, w) <= 0 ELSE Compare(v, w) < 0
      BY <3>1, <3>3
    <3>5. (b.inclusive /\ i) \in BOOLEAN
      BY Zenon
    <3> DEFINE k == b.inclusive /\ i
    <3>6. k \in BOOLEAN /\ IF k THEN Compare(v, w) <= 0 ELSE Compare(v, w) < 0
      BY <3>4, <3>5, Zenon
    <3> HIDE DEF k
    <3>7. Below(v, [version |-> w, inclusive |-> k])
      BY <3>6, NewBound DEF Below
    <3> QED
      BY <3>7 DEF k
  <2> QED
    BY <1>1, <1>3, <2>1, Zenon DEF TighterUpper
<1> QED
  BY <1>2, <1>3

\* Every step keeps the types.
LEMMA NextType == ASSUME TypeOK, [Next]_vars PROVE TypeOK'
<1>1. CASE Decide
  BY <1>1 DEF Decide, TypeOK
<1>2. CASE Scan
  <2>1. predicates[index] \in Predicate
    BY <1>2 DEF Scan, TypeOK
  <2>2. predicates[index].version \in Points
    BY <2>1 DEF Predicate
  <2>3. lower' \in Bound
    BY <1>2, <2>2, TighterType, Zenon DEF Scan, TypeOK
  <2>4. upper' \in Bound
    BY <1>2, <2>2, TighterType, Zenon DEF Scan, TypeOK
  <2>5. excluded' \subseteq Points
    BY <1>2, <2>2 DEF Scan, TypeOK
  <2>6. index' \in 1 .. Len(predicates') + 1
    BY <1>2 DEF Scan, TypeOK
  <2>7. predicates' \in Seq(Predicate) /\ answer' \in BOOLEAN \cup {None}
    BY <1>2 DEF Scan, TypeOK
  <2> QED
    BY <2>3, <2>4, <2>5, <2>6, <2>7 DEF TypeOK
<1>3. CASE Conclude
  <2>1. Nonempty \in BOOLEAN
    BY DEF Nonempty
  <2> QED
    BY <1>3, <2>1 DEF Conclude, TypeOK
<1>4. CASE UNCHANGED vars
  BY <1>4 DEF vars, TypeOK
<1> QED
  BY <1>1, <1>2, <1>3, <1>4 DEF Next

\* predicatesHaveSolution keeps the types of what it collects.
THEOREM TypeCorrect == Spec => []TypeOK
<1>1. Init => TypeOK
  BY DEF Init, Begin, TypeOK, Bound
<1>2. TypeOK /\ [Next]_vars => TypeOK'
  BY NextType
<1> QED
  BY <1>1, <1>2, PTL DEF Spec

\* What Scan collects is still respected by every solution.
LEMMA ScanCollects ==
    ASSUME TypeOK, Collected, Scan PROVE Collected'
<1> SUFFICES ASSUME NEW v \in Version, Solution(v)
             PROVE  /\ Above(v, lower') /\ Below(v, upper')
                    /\ v \notin excluded'
  BY DEF Scan, Collected, Solution
<1>1. Above(v, lower) /\ Below(v, upper) /\ v \notin excluded
  BY DEF Collected
<1> DEFINE p == predicates[index]
<1>2. p \in Predicate /\ index \in DOMAIN predicates
  BY DEF Scan, TypeOK
<1>3. p.op \in Operators /\ p.version \in Points
  BY <1>2 DEF Predicate
<1>4. PredicateMatches(p.op, Compare(v, p.version))
  BY <1>2 DEF Solution, Satisfies
<1>5. v \in Version /\ p.version \in Version
  BY <1>3, VersionAssumption
<1>6. Compare(v, p.version) \in Int
  BY <1>5, OrderFacts
<1>t. lower \in Bound /\ upper \in Bound
  BY DEF TypeOK
<1>s. /\ lower' = IF p.op \in {">", ">="}
                    THEN TighterLower(lower, p.version, p.op = ">=") ELSE lower
      /\ upper' = IF p.op \in {"<", "<="}
                    THEN TighterUpper(upper, p.version, p.op = "<=") ELSE upper
      /\ excluded' = IF p.op = "!=" THEN excluded \cup {p.version} ELSE excluded
  BY Zenon DEF Scan
<1> HIDE DEF p
<1>7. Above(v, lower')
  <2>1. CASE p.op = ">"
    <3>1. Compare(v, p.version) > 0 /\ (p.op = ">=") = FALSE
      BY <1>4, <2>1 DEF PredicateMatches
    <3> QED
      BY <1>1, <1>3, <1>5, <1>s, <1>t, <2>1, <3>1, TighterLowerKept
  <2>2. CASE p.op = ">="
    <3>1. Compare(v, p.version) >= 0 /\ (p.op = ">=") = TRUE
      BY <1>4, <2>2 DEF PredicateMatches
    <3> QED
      BY <1>1, <1>3, <1>5, <1>s, <1>t, <2>2, <3>1, TighterLowerKept
  <2>3. CASE p.op \notin {">", ">="}
    BY <1>1, <1>s, <2>3
  <2> QED
    BY <2>1, <2>2, <2>3
<1>8. Below(v, upper')
  <2>1. CASE p.op = "<"
    <3>1. Compare(v, p.version) < 0 /\ (p.op = "<=") = FALSE
      BY <1>4, <2>1 DEF PredicateMatches
    <3> QED
      BY <1>1, <1>3, <1>5, <1>s, <1>t, <2>1, <3>1, TighterUpperKept
  <2>2. CASE p.op = "<="
    <3>1. Compare(v, p.version) <= 0 /\ (p.op = "<=") = TRUE
      BY <1>4, <2>2 DEF PredicateMatches
    <3> QED
      BY <1>1, <1>3, <1>5, <1>s, <1>t, <2>2, <3>1, TighterUpperKept
  <2>3. CASE p.op \notin {"<", "<="}
    BY <1>1, <1>s, <2>3
  <2> QED
    BY <2>1, <2>2, <2>3
<1>9. v \notin excluded'
  <2>1. CASE p.op = "!="
    <3>1. Compare(v, p.version) # 0
      BY <1>4, <2>1 DEF PredicateMatches
    <3>2. v # p.version
      BY <1>5, <3>1, OrderFacts
    <3> QED
      BY <1>1, <1>s, <2>1, <3>2
  <2>2. CASE p.op # "!="
    BY <1>1, <1>s, <2>2
  <2> QED
    BY <2>1, <2>2
<1> QED
  BY <1>7, <1>8, <1>9

\* Bounds that leave nothing leave no solution.
LEMMA EmptyHasNoSolution ==
    ASSUME TypeOK, Collected, ~Nonempty, NEW v \in Version PROVE ~Solution(v)
<1> SUFFICES ASSUME Solution(v) PROVE FALSE
  OBVIOUS
<1>1. Above(v, lower) /\ Below(v, upper) /\ v \notin excluded
  BY DEF Collected
<1>2. lower # None /\ upper # None
  BY DEF Nonempty
<1> DEFINE l == lower.version u == upper.version
<1>3. /\ l \in Points /\ u \in Points
      /\ lower.inclusive \in BOOLEAN /\ upper.inclusive \in BOOLEAN
  BY <1>2, BoundFields DEF TypeOK
<1>4. l \in Version /\ u \in Version
  BY <1>3, VersionAssumption
<1>5. /\ IF lower.inclusive THEN Compare(v, l) >= 0 ELSE Compare(v, l) > 0
      /\ IF upper.inclusive THEN Compare(v, u) <= 0 ELSE Compare(v, u) < 0
  BY <1>1, <1>2 DEF Above, Below
<1>6. /\ ~(Compare(l, u) < 0)
      /\ ~(/\ Compare(l, u) = 0 /\ lower.inclusive /\ upper.inclusive
           /\ \A e \in excluded : Compare(l, e) # 0)
  BY DEF Nonempty
<1>7. Compare(v, l) \in Int /\ Compare(v, u) \in Int /\ Compare(l, u) \in Int
  BY <1>4, OrderFacts
<1> HIDE DEF l, u
<1>8. CASE Compare(v, l) > 0
  <2>1. Compare(l, v) < 0
    BY <1>4, <1>8, OrderFacts
  <2>2. CASE Compare(v, u) = 0
    BY <1>4, <1>6, <2>1, <2>2, OrderFacts
  <2>3. CASE Compare(v, u) < 0
    BY <1>4, <1>6, <2>1, <2>3, OrderFacts
  <2> QED
    BY <1>3, <1>5, <1>7, <2>2, <2>3
<1>9. CASE Compare(v, l) = 0
  <2>1. v = l
    BY <1>4, <1>9, OrderFacts
  <2>2. Compare(l, u) = 0 /\ lower.inclusive /\ upper.inclusive
    BY <1>3, <1>5, <1>6, <1>7, <1>9, <2>1
  <2>3. PICK e \in excluded : Compare(l, e) = 0
    BY <1>6, <2>2
  <2>4. e \in Version
    BY VersionAssumption DEF TypeOK
  <2>5. l = e
    BY <1>4, <2>3, <2>4, OrderFacts
  <2> QED
    BY <1>1, <2>1, <2>5
<1> QED
  BY <1>3, <1>5, <1>7, <1>8, <1>9

\* Inductive: answers aside, a solution respects what has been collected.
Inv == TypeOK /\ Collected /\ NoFalseConflict

LEMMA InitInv == ASSUME Init PROVE Inv
<1>1. TypeOK
  BY DEF Init, Begin, TypeOK, Bound
<1>2. Collected
  BY DEF Init, Begin, Collected, Above, Below
<1>3. NoFalseConflict
  BY NoneAssumption DEF Init, Begin, NoFalseConflict
<1> QED
  BY <1>1, <1>2, <1>3 DEF Inv

LEMMA NextInv == ASSUME Inv, TypeOK', [Next]_vars PROVE Inv'
<1>1. TypeOK /\ Collected /\ NoFalseConflict
  BY DEF Inv
<1>2. CASE Decide
  <2>1. Collected'
    BY <1>1, <1>2 DEF Decide, Collected, Solution
  <2>2. PICK i \in DOMAIN predicates :
          /\ Equality(i)
          /\ answer' = \A j \in DOMAIN predicates :
                          Satisfies(predicates[i].version, predicates[j])
    BY <1>2 DEF Decide
  <2>3. ASSUME answer' = FALSE, NEW v \in Version, Solution(v) PROVE FALSE
    <3>1. predicates[i] \in Predicate
      BY <1>1 DEF TypeOK
    <3>2. predicates[i].version \in Version
      BY <3>1, VersionAssumption DEF Predicate
    <3>3. PredicateMatches("=", Compare(v, predicates[i].version))
      BY <2>2, <2>3, Zenon DEF Equality, Solution, Satisfies
    <3>4. Compare(v, predicates[i].version) = 0
      BY <3>3 DEF PredicateMatches
    <3>5. v = predicates[i].version
      BY <3>2, <3>4, OrderFacts
    <3> QED
      BY <2>2, <2>3, <3>5, Zenon DEF Solution
  <2>4. NoFalseConflict'
    <3>1. predicates' = predicates
      BY <1>2 DEF Decide
    <3> QED
      BY <2>3, <3>1 DEF NoFalseConflict, Solution
  <2> QED
    BY <2>1, <2>4 DEF Inv
<1>3. CASE Scan
  <2>1. Collected'
    BY <1>1, <1>3, ScanCollects
  <2>2. NoFalseConflict'
    BY <1>1, <1>3 DEF Scan, NoFalseConflict, Solution
  <2> QED
    BY <2>1, <2>2 DEF Inv
<1>4. CASE Conclude
  <2>1. Collected'
    BY <1>1, <1>4 DEF Conclude, Collected, Solution
  <2>2. answer' = Nonempty /\ predicates' = predicates
    BY <1>4 DEF Conclude
  <2>3. ASSUME answer' = FALSE PROVE \A v \in Version : ~Solution(v)
    <3>1. ~Nonempty
      BY <2>2, <2>3
    <3> QED
      BY <1>1, <3>1, EmptyHasNoSolution
  <2>4. NoFalseConflict'
    BY <2>2, <2>3 DEF NoFalseConflict, Solution
  <2> QED
    BY <2>1, <2>4 DEF Inv
<1>5. CASE UNCHANGED vars
  BY <1>1, <1>5 DEF vars, Inv, Collected, NoFalseConflict, Solution
<1> QED
  BY <1>2, <1>3, <1>4, <1>5 DEF Next

\* A conflict that Intersects reports is one, for every total order of the
\* versions and every list of predicates.
THEOREM ConflictsReal == Spec => []NoFalseConflict
<1>1. Init => Inv
  BY InitInv
<1>2. Inv /\ TypeOK' /\ [Next]_vars => Inv'
  BY NextInv
<1>3. Inv => NoFalseConflict
  BY DEF Inv
<1> QED
  BY <1>1, <1>2, <1>3, TypeCorrect, PTL DEF Spec
-----------------------------------------------------------------------------
(* The other direction: what is collected is no weaker than the predicates,  *)
(* and where there is room between the versions a conflict is found.         *)

\* A version within what has been collected satisfies every predicate so far.
Exact ==
    (\A i \in DOMAIN predicates : predicates[i].op # "=") =>
        \A v \in Version :
            Above(v, lower) /\ Below(v, upper) /\ v \notin excluded =>
                \A i \in 1 .. index - 1 : Satisfies(v, predicates[i])

\* Between, below and above what predicates can name there are other versions.
Room ==
    /\ \E v \in Version : v \notin Points
    /\ \A p \in Points :
        /\ \E v \in Version : v \notin Points /\ Compare(v, p) < 0
        /\ \E v \in Version : v \notin Points /\ Compare(p, v) < 0
    /\ \A p, q \in Points : Compare(p, q) < 0 =>
        \E v \in Version :
            v \notin Points /\ Compare(p, v) < 0 /\ Compare(v, q) < 0

\* The tightened bound implies the old one and the new predicate.
LEMMA TighterLowerExact ==
    ASSUME NEW b \in Bound, NEW v \in Version, NEW w \in Points,
           NEW i \in BOOLEAN, Above(v, TighterLower(b, w, i))
    PROVE  /\ Above(v, b)
           /\ IF i THEN Compare(v, w) >= 0 ELSE Compare(v, w) > 0
<1> DEFINE n == [version |-> w, inclusive |-> i]
<1>1. Above(v, n) <=> IF i THEN Compare(v, w) >= 0 ELSE Compare(v, w) > 0
  BY NewBound DEF Above
<1>2. CASE b = None
  BY <1>1, <1>2, Zenon DEF TighterLower, Above
<1>3. CASE b # None
  <2> DEFINE u == b.version
  <2>1. u \in Points /\ b.inclusive \in BOOLEAN
    BY <1>3, BoundFields
  <2>2. w \in Version /\ u \in Version
    BY <2>1, VersionAssumption
  <2>3. /\ Compare(w, u) \in Int /\ Compare(v, w) \in Int
        /\ Compare(v, u) \in Int
    BY <2>2, OrderFacts
  <2>4. Above(v, b) <=>
          IF b.inclusive THEN Compare(v, u) >= 0 ELSE Compare(v, u) > 0
    BY <1>3 DEF Above
  <2> HIDE DEF n, u
  <2>5. CASE Compare(w, u) > 0
    <3>1. Above(v, n)
      BY <1>3, <2>5, Zenon DEF TighterLower, n, u
    <3>2. Compare(v, w) >= 0
      BY <1>1, <2>3, <3>1
    <3>3. Compare(u, w) < 0
      BY <2>2, <2>5, OrderFacts
    <3>4. CASE Compare(v, w) = 0
      BY <1>1, <2>1, <2>2, <2>4, <2>5, <3>1, <3>4, OrderFacts
    <3>5. CASE Compare(v, w) > 0
      <4>1. Compare(w, v) < 0
        BY <2>2, <3>5, OrderFacts
      <4>2. Compare(u, v) < 0
        BY <2>2, <3>3, <4>1, OrderFacts
      <4>3. Compare(v, u) > 0
        BY <2>2, <4>2, OrderFacts
      <4> QED
        BY <1>1, <2>1, <2>3, <2>4, <3>1, <4>3
    <3> QED
      BY <2>3, <3>2, <3>4, <3>5
  <2>6. CASE Compare(w, u) = 0
    <3>1. w = u
      BY <2>2, <2>6, OrderFacts
    <3> DEFINE k == b.inclusive /\ i
    <3>2. k \in BOOLEAN
      BY Zenon
    <3>0. ~(Compare(w, u) > 0)
      BY <2>6
    <3>3. Above(v, [version |-> w, inclusive |-> k])
      BY <1>3, <2>6, <3>0, Zenon DEF TighterLower, u
    <3>4. k <=> b.inclusive /\ i
      OBVIOUS
    <3> HIDE DEF k
    <3>5. IF k THEN Compare(v, w) >= 0 ELSE Compare(v, w) > 0
      BY <3>2, <3>3, NewBound DEF Above
    <3> QED
      BY <1>1, <2>1, <2>3, <2>4, <3>1, <3>4, <3>5
  <2>7. CASE Compare(w, u) < 0
    <3>1. Above(v, b)
      BY <1>3, <2>3, <2>7 DEF TighterLower, u
    <3>2. Compare(v, u) >= 0
      BY <2>1, <2>3, <2>4, <3>1
    <3>3. CASE Compare(v, u) = 0
      <4>1. v = u
        BY <2>2, <3>3, OrderFacts
      <4>2. Compare(v, w) > 0
        BY <2>2, <2>7, <4>1, OrderFacts
      <4> QED
        BY <2>3, <3>1, <4>2
    <3>4. CASE Compare(v, u) > 0
      <4>1. Compare(u, v) < 0
        BY <2>2, <3>4, OrderFacts
      <4>2. Compare(w, v) < 0
        BY <2>2, <2>7, <4>1, OrderFacts
      <4>3. Compare(v, w) > 0
        BY <2>2, <4>2, OrderFacts
      <4> QED
        BY <2>3, <3>1, <4>3
    <3> QED
      BY <2>3, <3>2, <3>3, <3>4
  <2> QED
    BY <2>3, <2>5, <2>6, <2>7
<1> QED
  BY <1>2, <1>3

LEMMA TighterUpperExact ==
    ASSUME NEW b \in Bound, NEW v \in Version, NEW w \in Points,
           NEW i \in BOOLEAN, Below(v, TighterUpper(b, w, i))
    PROVE  /\ Below(v, b)
           /\ IF i THEN Compare(v, w) <= 0 ELSE Compare(v, w) < 0
<1> DEFINE n == [version |-> w, inclusive |-> i]
<1>1. Below(v, n) <=> IF i THEN Compare(v, w) <= 0 ELSE Compare(v, w) < 0
  BY NewBound DEF Below
<1>2. CASE b = None
  BY <1>1, <1>2, Zenon DEF TighterUpper, Below
<1>3. CASE b # None
  <2> DEFINE u == b.version
  <2>1. u \in Points /\ b.inclusive \in BOOLEAN
    BY <1>3, BoundFields
  <2>2. w \in Version /\ u \in Version
    BY <2>1, VersionAssumption
  <2>3. /\ Compare(w, u) \in Int /\ Compare(v, w) \in Int
        /\ Compare(v, u) \in Int
    BY <2>2, OrderFacts
  <2>4. Below(v, b) <=>
          IF b.inclusive THEN Compare(v, u) <= 0 ELSE Compare(v, u) < 0
    BY <1>3 DEF Below
  <2> HIDE DEF n, u
  <2>5. CASE Compare(w, u) < 0
    <3>1. Below(v, n)
      BY <1>3, <2>5, Zenon DEF TighterUpper, n, u
    <3>2. Compare(v, w) <= 0
      BY <1>1, <2>3, <3>1
    <3>4. CASE Compare(v, w) = 0
      BY <1>1, <2>1, <2>2, <2>4, <2>5, <3>1, <3>4, OrderFacts
    <3>5. CASE Compare(v, w) < 0
      <4>2. Compare(v, u) < 0
        BY <2>2, <2>5, <3>5, OrderFacts
      <4> QED
        BY <1>1, <2>1, <2>3, <2>4, <3>1, <4>2
    <3> QED
      BY <2>3, <3>2, <3>4, <3>5
  <2>6. CASE Compare(w, u) = 0
    <3>1. w = u
      BY <2>2, <2>6, OrderFacts
    <3> DEFINE k == b.inclusive /\ i
    <3>2. k \in BOOLEAN
      BY Zenon
    <3>0. ~(Compare(w, u) < 0)
      BY <2>6
    <3>3. Below(v, [version |-> w, inclusive |-> k])
      BY <1>3, <2>6, <3>0, Zenon DEF TighterUpper, u
    <3>4. k <=> b.inclusive /\ i
      OBVIOUS
    <3> HIDE DEF k
    <3>5. IF k THEN Compare(v, w) <= 0 ELSE Compare(v, w) < 0
      BY <3>2, <3>3, NewBound DEF Below
    <3> QED
      BY <1>1, <2>1, <2>3, <2>4, <3>1, <3>4, <3>5
  <2>7. CASE Compare(w, u) > 0
    <3>1. Below(v, b)
      BY <1>3, <2>3, <2>7 DEF TighterUpper, u
    <3>2. Compare(v, u) <= 0
      BY <2>1, <2>3, <2>4, <3>1
    <3>3. Compare(u, w) < 0
      BY <2>2, <2>7, OrderFacts
    <3>4. CASE Compare(v, u) = 0
      <4>1. v = u
        BY <2>2, <3>4, OrderFacts
      <4> QED
        BY <2>3, <3>1, <3>3, <4>1
    <3>5. CASE Compare(v, u) < 0
      <4>1. Compare(v, w) < 0
        BY <2>2, <3>3, <3>5, OrderFacts
      <4> QED
        BY <2>3, <3>1, <4>1
    <3> QED
      BY <2>3, <3>2, <3>4, <3>5
  <2> QED
    BY <2>3, <2>5, <2>6, <2>7
<1> QED
  BY <1>2, <1>3

\* One turn of the loop keeps what is collected exact.
LEMMA ScanExact ==
    ASSUME TypeOK, Exact, Scan PROVE Exact'
<1> DEFINE p == predicates[index]
<1>1. p \in Predicate /\ index \in DOMAIN predicates /\ index \in Int
  BY DEF Scan, TypeOK
<1>2. p.op \in Operators /\ p.version \in Points
  BY <1>1 DEF Predicate
<1>3. lower \in Bound /\ upper \in Bound
  BY DEF TypeOK
<1>4. p.op # "="
  BY <1>1 DEF Scan
<1>5. /\ lower' = IF p.op \in {">", ">="}
                    THEN TighterLower(lower, p.version, p.op = ">=") ELSE lower
      /\ upper' = IF p.op \in {"<", "<="}
                    THEN TighterUpper(upper, p.version, p.op = "<=") ELSE upper
      /\ excluded' = IF p.op = "!=" THEN excluded \cup {p.version} ELSE excluded
  BY Zenon DEF Scan
<1>6. index' = index + 1 /\ predicates' = predicates
  BY DEF Scan
<1>e. 1 .. index' - 1 = 1 .. index
  BY <1>1, <1>6
<1>7. SUFFICES ASSUME NEW v \in Version, Above(v, lower'), Below(v, upper'),
                      v \notin excluded'
               PROVE  \A i \in 1 .. index : Satisfies(v, predicates[i])
  BY <1>6, <1>e, Zenon DEF Exact, Satisfies
<1>8. p.version \in Version /\ Compare(v, p.version) \in Int
  BY <1>2, VersionAssumption, OrderFacts
<1> HIDE DEF p
<1>9. /\ Above(v, lower)
      /\ p.op = ">" => Compare(v, p.version) > 0
      /\ p.op = ">=" => Compare(v, p.version) >= 0
  <2>1. CASE p.op = ">"
    <3>1. (p.op = ">=") = FALSE
      BY <2>1
    <3>2. Above(v, TighterLower(lower, p.version, FALSE))
      BY <1>5, <1>7, <2>1, <3>1
    <3> QED
      BY <1>2, <1>3, <2>1, <3>2, TighterLowerExact
  <2>2. CASE p.op = ">="
    <3>1. (p.op = ">=") = TRUE
      BY <2>2
    <3>2. Above(v, TighterLower(lower, p.version, TRUE))
      BY <1>5, <1>7, <2>2, <3>1
    <3> QED
      BY <1>2, <1>3, <2>2, <3>2, TighterLowerExact
  <2>3. CASE p.op \notin {">", ">="}
    BY <1>5, <1>7, <2>3
  <2> QED
    BY <2>1, <2>2, <2>3
<1>10. /\ Below(v, upper)
       /\ p.op = "<" => Compare(v, p.version) < 0
       /\ p.op = "<=" => Compare(v, p.version) <= 0
  <2>1. CASE p.op = "<"
    <3>1. (p.op = "<=") = FALSE
      BY <2>1
    <3>2. Below(v, TighterUpper(upper, p.version, FALSE))
      BY <1>5, <1>7, <2>1, <3>1
    <3> QED
      BY <1>2, <1>3, <2>1, <3>2, TighterUpperExact
  <2>2. CASE p.op = "<="
    <3>1. (p.op = "<=") = TRUE
      BY <2>2
    <3>2. Below(v, TighterUpper(upper, p.version, TRUE))
      BY <1>5, <1>7, <2>2, <3>1
    <3> QED
      BY <1>2, <1>3, <2>2, <3>2, TighterUpperExact
  <2>3. CASE p.op \notin {"<", "<="}
    BY <1>5, <1>7, <2>3
  <2> QED
    BY <2>1, <2>2, <2>3
<1>11. v \notin excluded /\ (p.op = "!=" => v # p.version)
  BY <1>5, <1>7
<1>12. Satisfies(v, p)
  <2>1. p.op = "!=" => Compare(v, p.version) # 0
    BY <1>8, <1>11, OrderFacts
  <2> QED
    BY <1>2, <1>4, <1>9, <1>10, <2>1
       DEF Satisfies, PredicateMatches, Operators
<1>13. \A i \in 1 .. index - 1 : Satisfies(v, predicates[i])
  BY <1>9, <1>10, <1>11, Zenon DEF Exact, Scan
<1> QED
  <2> SUFFICES ASSUME NEW i \in 1 .. index PROVE Satisfies(v, predicates[i])
    OBVIOUS
  <2>1. CASE i = index
    BY <1>12, <2>1 DEF p
  <2>2. CASE i # index
    <3>1. i \in 1 .. index - 1
      BY <1>1, <2>2
    <3> QED
      BY <1>13, <3>1
  <2> QED
    BY <2>1, <2>2

\* Every step keeps it.
LEMMA NextExactly ==
    ASSUME TypeOK, Exact, [Next]_vars PROVE Exact'
<1>1. CASE Decide
  BY <1>1 DEF Decide, Exact
<1>2. CASE Scan
  BY <1>2, ScanExact
<1>3. CASE Conclude
  BY <1>3 DEF Conclude, Exact
<1>4. CASE UNCHANGED vars
  BY <1>4 DEF vars, Exact
<1> QED
  BY <1>1, <1>2, <1>3, <1>4 DEF Next

\* Where there is room, bounds that leave something leave a version.
LEMMA NonemptyHasVersion ==
    ASSUME Room, TypeOK, Nonempty
    PROVE  \E v \in Version :
               Above(v, lower) /\ Below(v, upper) /\ v \notin excluded
<1> DEFINE l == lower.version u == upper.version
<1>1. /\ lower # None => l \in Points /\ lower.inclusive \in BOOLEAN
      /\ upper # None => u \in Points /\ upper.inclusive \in BOOLEAN
      /\ excluded \subseteq Points
  BY BoundFields DEF TypeOK
<1>2. /\ lower # None => l \in Version
      /\ upper # None => u \in Version
  BY <1>1, VersionAssumption
<1>3. ASSUME NEW v \in Version, lower # None => Compare(l, v) < 0
      PROVE  Above(v, lower)
  <2>1. lower # None => Compare(v, l) > 0 /\ Compare(v, l) \in Int
    BY <1>2, <1>3, OrderFacts
  <2> QED
    BY <1>1, <2>1 DEF Above
<1>4. ASSUME NEW v \in Version, upper # None => Compare(v, u) < 0
      PROVE  Below(v, upper)
  <2>1. upper # None => Compare(v, u) \in Int
    BY <1>2, OrderFacts
  <2> QED
    BY <1>1, <1>4, <2>1 DEF Below
<1>n. Nonempty
  OBVIOUS
<1> HIDE DEF l, u
<1>5. CASE lower = None /\ upper = None
  <2>1. PICK v \in Version : v \notin Points
    BY Zenon DEF Room
  <2> QED
    BY <1>1, <1>3, <1>4, <1>5, <2>1
<1>6. CASE lower = None /\ upper # None
  <2>1. PICK v \in Version : v \notin Points /\ Compare(v, u) < 0
    BY <1>1, <1>6, Zenon DEF Room
  <2> QED
    BY <1>1, <1>3, <1>4, <1>6, <2>1
<1>7. CASE lower # None /\ upper = None
  <2>1. PICK v \in Version : v \notin Points /\ Compare(l, v) < 0
    BY <1>1, <1>7, Zenon DEF Room
  <2> QED
    BY <1>1, <1>3, <1>4, <1>7, <2>1
<1>8. CASE lower # None /\ upper # None /\ Compare(l, u) < 0
  <2>1. PICK v \in Version :
          v \notin Points /\ Compare(l, v) < 0 /\ Compare(v, u) < 0
    BY <1>1, <1>8, Zenon DEF Room
  <2> QED
    BY <1>1, <1>3, <1>4, <1>8, <2>1
<1>9. CASE lower # None /\ upper # None /\ ~(Compare(l, u) < 0)
  <2>1. /\ Compare(l, u) = 0 /\ lower.inclusive /\ upper.inclusive
        /\ \A e \in excluded : Compare(l, e) # 0
    BY <1>n, <1>9, Zenon DEF Nonempty, l, u
  <2>2. l = u /\ l \in Version /\ Compare(l, l) = 0
    BY <1>2, <1>9, <2>1, OrderFacts
  <2>3. l \notin excluded
    BY <2>1, <2>2
  <2>4. Above(l, lower) /\ Below(l, upper)
    BY <2>1, <2>2 DEF Above, Below, l, u
  <2> QED
    BY <2>2, <2>3, <2>4
<1> QED
  BY <1>5, <1>6, <1>7, <1>8, <1>9, Zenon

\* Both directions: what is collected is what the predicates say.
ExactInv == TypeOK /\ Exact /\ ConflictsFound

LEMMA InitExact == ASSUME Init PROVE ExactInv
<1>1. TypeOK
  BY InitInv DEF Inv
<1>2. Exact
  <2>1. index = 1
    BY DEF Init, Begin
  <2>2. 1 .. index - 1 = {}
    BY <2>1
  <2> QED
    BY <2>2, Zenon DEF Exact
<1>3. ConflictsFound
  BY NoneAssumption DEF Init, Begin, ConflictsFound
<1> QED
  BY <1>1, <1>2, <1>3 DEF ExactInv

LEMMA NextExact ==
    ASSUME Room, ExactInv, TypeOK', [Next]_vars PROVE ExactInv'
<1>1. TypeOK /\ Exact /\ ConflictsFound
  BY DEF ExactInv
<1>x. Exact'
  BY <1>1, NextExactly
<1>2. CASE Decide
  <2>2. PICK i \in DOMAIN predicates :
          answer' = \A j \in DOMAIN predicates :
                        Satisfies(predicates[i].version, predicates[j])
    BY <1>2 DEF Decide
  <2>p. predicates[i] \in Predicate
    BY <1>1 DEF TypeOK
  <2>3. predicates[i].version \in Version
    BY <2>p, VersionAssumption DEF Predicate
  <2>4. ASSUME answer' = TRUE PROVE \E v \in Version : Solution(v)
    BY <2>2, <2>3, <2>4, Zenon DEF Solution
  <2>5. predicates' = predicates
    BY <1>2 DEF Decide
  <2>6. ConflictsFound'
    BY <2>4, <2>5, Zenon DEF ConflictsFound, Solution
  <2> QED
    BY <1>x, <2>6 DEF ExactInv
<1>3. CASE Scan
  <2>2. ConflictsFound'
    BY <1>1, <1>3 DEF Scan, ConflictsFound, Solution
  <2> QED
    BY <1>x, <2>2 DEF ExactInv
<1>4. CASE Conclude
  <2>2. /\ answer' = Nonempty /\ predicates' = predicates
        /\ \A i \in DOMAIN predicates : predicates[i].op # "="
    BY <1>4 DEF Conclude
  <2>3. DOMAIN predicates = 1 .. index - 1
    BY <1>1, <1>4 DEF Conclude, TypeOK
  <2>4. ASSUME answer' = TRUE PROVE \E v \in Version : Solution(v)
    <3>1. PICK v \in Version :
            Above(v, lower) /\ Below(v, upper) /\ v \notin excluded
      BY <1>1, <2>2, <2>4, NonemptyHasVersion
    <3>2. \A i \in 1 .. index - 1 : Satisfies(v, predicates[i])
      BY <1>1, <2>2, <3>1, Zenon DEF Exact
    <3> QED
      BY <2>3, <3>2, Zenon DEF Solution
  <2>5. ConflictsFound'
    BY <2>2, <2>4, Zenon DEF ConflictsFound, Solution
  <2> QED
    BY <1>x, <2>5 DEF ExactInv
<1>5. CASE UNCHANGED vars
  BY <1>1, <1>5, <1>x DEF vars, ExactInv, ConflictsFound, Solution
<1> QED
  BY <1>2, <1>3, <1>4, <1>5 DEF Next

\* Where there is a version between, below and above any two that predicates
\* name, the intersection reports every conflict.
THEOREM AllConflictsFound == Room => (Spec => []ConflictsFound)
<1> SUFFICES ASSUME Room PROVE Spec => []ConflictsFound
  OBVIOUS
<1>1. Init => ExactInv
  BY InitExact
<1>2. ExactInv /\ TypeOK' /\ [Next]_vars => ExactInv'
  BY NextExact
<1>3. ExactInv => ConflictsFound
  BY DEF ExactInv
<1> QED
  BY <1>1, <1>2, <1>3, TypeCorrect, PTL DEF Spec
=============================================================================
