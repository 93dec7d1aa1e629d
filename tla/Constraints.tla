------------------------------ MODULE Constraints ------------------------------
(* Version constraints of internal/constraints: what an atom such as "^1.2"  *)
(* stands for, how versions compare (version.go), and whether two            *)
(* constraints have a version in common (Intersects), the loop of which is   *)
(* the module Intersection.                                                  *)
EXTENDS Integers, Sequences

CONSTANTS
    None,       \* no modifier, no flag, no bound, no answer
    Numbers,    \* bound: numbers written in an atom
    Parts,      \* bound: how many of them, at most 4
    Modifiers,  \* bound: what may follow them, or None
    Flags,      \* bound: stability flags, or None
    Qualifiers, \* bound: qualifiers of the versions that are tried
    Cases       \* pairs of constraints to intersect: sequences of groups of
                \* atoms

ASSUME NumbersAssumption ==
    /\ Numbers \subseteq Nat
    /\ \E n \in Numbers : \A m \in Numbers : m <= n
    /\ Parts \in 1..4

\* Stabilities in their order.
Dev == 0
Alpha == 1
Beta == 2
RC == 3
Stable == 4
Patch == 5
Stabilities == Dev..Patch

ASSUME SuffixAssumption ==
    /\ Modifiers \subseteq Stabilities \cup {None}
    /\ Flags \subseteq Stabilities \cup {None}
    /\ Qualifiers \subseteq Seq(Nat)
    /\ <<>> \in Qualifiers /\ \E q \in Qualifiers : q # <<>>

\* A version as it is written, and normalized to four components.
Written ==
    [parts : UNION {[1..n -> Numbers] : n \in 1..Parts}, modifier : Modifiers]
Padded(parts) == [i \in 1..4 |-> IF i <= Len(parts) THEN parts[i] ELSE 0]
Normalized(w) ==
    [components |-> Padded(w.parts), qualifier |-> <<>>,
     stability |-> IF w.modifier = None THEN Stable ELSE w.modifier]

\* Components, then the stability, then the qualifiers, a prefix first.
Key(v) == v.components \o <<v.stability>> \o v.qualifier
Less(a, b) ==
    \E i \in DOMAIN b :
        /\ \A j \in 1 .. i - 1 : j \in DOMAIN a /\ a[j] = b[j]
        /\ i \in DOMAIN a => a[i] < b[i]
Compare(v, w) ==
    IF Less(Key(v), Key(w)) THEN -1 ELSE IF Less(Key(w), Key(v)) THEN 1 ELSE 0

-----------------------------------------------------------------------------
(* Atoms.                                                                    *)

AsDev(v) == [v EXCEPT !.stability = Dev, !.qualifier = <<>>]
\* incrementVersionComponent: the first version after all with this prefix.
Next1(v, position) ==
    AsDev([v EXCEPT !.components =
             [i \in 1..4 |-> IF i < position THEN v.components[i]
                             ELSE IF i = position THEN v.components[i] + 1
                             ELSE 0]])

Between(low, high) ==
    <<[op |-> ">=", version |-> low], [op |-> "<", version |-> high]>>
Lowest(w) == IF w.modifier = None THEN AsDev(Normalized(w)) ELSE Normalized(w)

\* A flag lowers a stable version, "<" and ">=" count from its dev version.
Comparison(op, w, flag) ==
    LET v == Normalized(w) IN
    <<[op |-> op, version |->
        IF flag \notin {None, Stable} /\ op # "=" /\ v.stability = Stable
          THEN [v EXCEPT !.stability = flag]
        ELSE IF op \in {"<", ">="} /\ w.modifier = None THEN AsDev(v)
        ELSE v]>>

\* Mutant: zeros are not looked at.
CaretMajor(w) == Between(Lowest(w), Next1(Normalized(w), 1))
Caret(w) ==
    LET n == Len(w.parts)
        position == IF w.parts[1] # 0 \/ n = 1 THEN 1
                    ELSE IF w.parts[2] # 0 \/ n = 2 THEN 2 ELSE 3
    IN Between(Lowest(w), Next1(Normalized(w), position))

Tilde(w) ==
    LET n == Len(w.parts) IN
    Between(Lowest(w), Next1(Normalized(w), IF n = 1 THEN 1 ELSE n - 1))

\* A short upper end without a modifier stands for all versions it begins.
Hyphen(w, end) ==
    LET n == Len(end.parts) IN
    IF n < 3 /\ end.modifier = None
      THEN Between(Lowest(w), Next1(Normalized(end), n))
      ELSE <<[op |-> ">=", version |-> Lowest(w)],
             [op |-> "<=", version |-> Normalized(end)]>>

\* 1.2.*; "*" alone is no condition.
Wildcard(parts) ==
    IF parts = <<>> THEN <<>>
    ELSE LET v == AsDev(Normalized([parts |-> parts, modifier |-> None])) IN
         Between(v, Next1(v, Len(parts)))

Comparisons == {"=", "!=", "<", "<=", ">", ">="}
Atoms ==
    [kind : Comparisons, low : Written, flag : Flags]
    \cup [kind : {"^", "~"}, low : Written]
    \cup [kind : {"-"}, low : Written, high : Written]
    \cup [kind : {"*"}, parts : {<<>>} \cup UNION {[1..n -> Numbers] :
                            n \in 1 .. (IF Parts < 3 THEN Parts ELSE 3)}]
    \cup [kind : {"@"}]

\* parseAtomicConstraint; a stability alone is no condition.
Predicates(atom) ==
    CASE atom.kind \in Comparisons -> Comparison(atom.kind, atom.low, atom.flag)
      [] atom.kind = "^" -> Caret(atom.low)
      [] atom.kind = "~" -> Tilde(atom.low)
      [] atom.kind = "-" -> Hyphen(atom.low, atom.high)
      [] atom.kind = "*" -> Wildcard(atom.parts)
      [] atom.kind = "@" -> <<>>

\* Versions around all that the atoms can name.
Top == CHOOSE n \in Numbers : \A m \in Numbers : m <= n
Versions ==
    {v \in [components : {Padded(s) : s \in UNION {[1..n -> 0 .. Top + 2] : n \in 1..Parts}},
            stability : Stabilities, qualifier : Qualifiers] :
        v.stability = Dev => v.qualifier = <<>>}

\* What is parsed: alternatives, each of one or two atoms.
Constraint ==
    {c \in Seq(Seq(Atoms)) : c # <<>> /\ \A i \in DOMAIN c : Len(c[i]) \in 1..2}

ASSUME CasesAssumption == Cases \subseteq Constraint \X Constraint
ASSUME NoneAssumption ==
    None \notin [version : Versions, inclusive : BOOLEAN] \cup BOOLEAN

-----------------------------------------------------------------------------
(* Intersects: every pair of groups, until one has a solution.               *)

VARIABLES
    left, right,  \* constraints: sequences of groups, groups of atoms
    pair,         \* the pair of groups in the loop, or None
    result,       \* TRUE, FALSE, or None
    predicates, index, lower, upper, excluded, answer
vars == <<left, right, pair, result, predicates, index, lower, upper, excluded,
          answer>>

Solve == INSTANCE Intersection WITH Version <- Versions, Points <- Versions
loopVars == <<predicates, index, lower, upper, excluded, answer>>

\* The predicates of a group, its atoms one after the other (two at most).
Flatten(group) ==
    Predicates(group[1])
    \o (IF Len(group) = 2 THEN Predicates(group[2]) ELSE <<>>)

\* Constraint.Matches, of every version: those that satisfy some group.
Matching(constraint) ==
    LET lists == [i \in DOMAIN constraint |-> Flatten(constraint[i])] IN
    {v \in Versions :
        \E i \in DOMAIN lists : \A j \in DOMAIN lists[i] :
            Solve!Satisfies(v, lists[i][j])}

\* Mutant: only the first groups are compared.
PairsFirst == {<<1, 1>>}
Pairs == (DOMAIN left) \X (DOMAIN right)
After(p) == {q \in Pairs : q[1] > p[1] \/ (q[1] = p[1] /\ q[2] > p[2])}
First(S) == CHOOSE p \in S : \A q \in S : p = q \/ q \in After(p)

Enter(p) ==
    /\ pair' = p
    /\ predicates' = Flatten(left[p[1]]) \o Flatten(right[p[2]])
    /\ index' = 1 /\ lower' = None /\ upper' = None /\ excluded' = {}
    /\ answer' = None

Start ==
    /\ pair = None /\ result = None
    /\ Enter(First(Pairs))
    /\ UNCHANGED <<left, right, result>>

Loop ==
    /\ pair # None /\ Solve!Next
    /\ UNCHANGED <<left, right, pair, result>>

Found ==
    /\ answer = TRUE /\ result = None
    /\ result' = TRUE
    /\ UNCHANGED <<left, right, pair, loopVars>>

NextPair ==
    /\ answer = FALSE /\ result = None /\ After(pair) # {}
    /\ Enter(First(After(pair)))
    /\ UNCHANGED <<left, right, result>>

NotFound ==
    /\ answer = FALSE /\ result = None /\ After(pair) = {}
    /\ result' = FALSE
    /\ UNCHANGED <<left, right, pair, loopVars>>

Init ==
    /\ \E c \in Cases : left = c[1] /\ right = c[2]
    /\ pair = None /\ result = None
    /\ Solve!Begin(<<>>)
Next == Start \/ Loop \/ Found \/ NextPair \/ NotFound
Spec == Init /\ [][Next]_vars

-----------------------------------------------------------------------------
(* Properties.                                                               *)

SamePrefix(v, parts, n) ==
    \A i \in 1..n : v.components[i] = Padded(parts)[i]
NumbersAtMost(v, parts, n) ==
    ~Less(SubSeq(Padded(parts), 1, n), SubSeq(v.components, 1, n))
AtLeast(v, w) ==
    IF w.modifier = None THEN ~Less(v.components, Padded(w.parts))
    ELSE Compare(v, Normalized(w)) >= 0
Significant(parts) ==
    LET last == IF Len(parts) < 3 THEN Len(parts) ELSE 3
        nonzero == {i \in 1..last : parts[i] # 0}
    IN CHOOSE i \in nonzero \cup {last} : \A j \in nonzero : i <= j

\* What each atom means, said of numbers instead of bounds.
Means(v, atom) ==
    CASE atom.kind = "^" ->
           AtLeast(v, atom.low)
           /\ SamePrefix(v, atom.low.parts, Significant(atom.low.parts))
      [] atom.kind = "~" ->
           AtLeast(v, atom.low)
           /\ LET n == Len(atom.low.parts) IN
              SamePrefix(v, atom.low.parts, IF n = 1 THEN 1 ELSE n - 1)
      [] atom.kind = "-" ->
           AtLeast(v, atom.low)
           /\ LET n == Len(atom.high.parts) IN
              IF n < 3 /\ atom.high.modifier = None
                THEN NumbersAtMost(v, atom.high.parts, n)
                ELSE Compare(v, Normalized(atom.high)) <= 0
      [] atom.kind = "*" -> SamePrefix(v, atom.parts, Len(atom.parts))
      [] atom.kind = "@" -> TRUE

\* "^", "~", " - " and ".*" allow exactly the versions that share the prefix
\* they promise, unstable ones at the lower end included and at the upper
\* end excluded.
RangeMeansPrefix(atom) ==
    atom.kind \notin Comparisons =>
        Matching(<<<<atom>>>>) = {v \in Versions : Means(v, atom)}

Opposite == [o \in Comparisons |->
    CASE o = "=" -> "!=" [] o = "!=" -> "=" [] o = "<" -> ">="
      [] o = ">=" -> "<" [] o = "<=" -> ">" [] o = ">" -> "<="]

\* A comparison and its opposite, written with the same version and the same
\* stability, split the versions: none satisfies both or neither. Equality
\* with an unstable flag is the exception: it ignores the flag, and its
\* opposite does not (as the tests of the package have it).
ComparisonSplits(atom) ==
    /\ atom.kind \in Comparisons
    /\ atom.kind \in {"=", "!="} => atom.flag \in {None, Stable}
    => Matching(<<<<[atom EXCEPT !.kind = Opposite[@]]>>>>)
         = Versions \ Matching(<<<<atom>>>>)

\* The bounds an atom is parsed into, built by increments and stabilities,
\* allow the versions that it means (the parse functions of constraints.go).
AtomsMeanVersions ==
    pair = None => \A i \in DOMAIN left : \A j \in DOMAIN left[i] :
        RangeMeansPrefix(left[i][j]) /\ ComparisonSplits(left[i][j])

\* Two constraints that some version satisfies are never called a conflict
\* (Intersects; the planner makes a blocking diagnostic of FALSE).
NeverFalseConflict ==
    result = FALSE =>
        Matching(left) \cap Matching(right) = {}

\* A conflict is overlooked only where the bounds leave no version although
\* they do not meet: below the lowest version, or between a dev version and
\* the alpha of the same numbers.
Hole ==
    \/ lower = None /\ upper # None
    \/ /\ lower # None /\ upper # None
       /\ Compare(lower.version, upper.version) < 0
       /\ ~\E v \in Versions : Compare(lower.version, v) < 0
                               /\ Compare(v, upper.version) < 0
ConflictsOverlookedInHoles ==
    result = TRUE =>
        Hole \/ Matching(left) \cap Matching(right) # {}
================================================================================
