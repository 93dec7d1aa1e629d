----------------------------- MODULE Intersection -----------------------------
(* predicatesHaveSolution of internal/constraints/constraints.go: whether    *)
(* some version satisfies all predicates of a list. The loop of the code is  *)
(* one step per predicate, over any totally ordered versions.                *)
EXTENDS Integers, Sequences

CONSTANTS
    Version,        \* all versions
    Compare(_, _),  \* negative, zero or positive
    Points,         \* versions that predicates may name
    None            \* a bound that is not set, no answer yet

Operators == {"=", "!=", "<", "<=", ">", ">="}
Predicate == [op : Operators, version : Points]
Bound == [version : Points, inclusive : BOOLEAN] \cup {None}

\* predicateMatches: the operator, and how a version compares with its own.
PredicateMatches(op, comparison) ==
    CASE op = "="  -> comparison = 0
      [] op = "!=" -> comparison # 0
      [] op = "<"  -> comparison < 0
      [] op = "<=" -> comparison <= 0
      [] op = ">"  -> comparison > 0
      [] op = ">=" -> comparison >= 0
Satisfies(version, p) == PredicateMatches(p.op, Compare(version, p.version))

\* What Version.Compare must provide.
TotalOrder(S) ==
    /\ \A v, w \in S :
        /\ Compare(v, w) \in Int
        /\ Compare(v, w) = 0 <=> v = w
        /\ Compare(v, w) < 0 <=> Compare(w, v) > 0
    /\ \A u, v, w \in S :
        Compare(u, v) < 0 /\ Compare(v, w) < 0 => Compare(u, w) < 0

ASSUME VersionAssumption == Points \subseteq Version /\ TotalOrder(Version)
ASSUME NoneAssumption ==
    None \notin [version : Points, inclusive : BOOLEAN] \cup BOOLEAN

VARIABLES
    predicates,  \* the list
    index,       \* of the next predicate
    lower, upper, excluded,
    answer       \* TRUE, FALSE, or None while the loop goes on
vars == <<predicates, index, lower, upper, excluded, answer>>

Begin(list) ==
    /\ predicates = list /\ index = 1
    /\ lower = None /\ upper = None /\ excluded = {}
    /\ answer = None

\* Mutant: of two predicates with one version the wider counts.
TighterLowerTie(bound, version, inclusive) ==
    IF bound = None THEN [version |-> version, inclusive |-> inclusive]
    ELSE IF Compare(version, bound.version) > 0
      THEN [version |-> version, inclusive |-> inclusive]
    ELSE IF Compare(version, bound.version) = 0
      THEN [version |-> version, inclusive |-> bound.inclusive \/ inclusive]
    ELSE bound
TighterLower(bound, version, inclusive) ==
    IF bound = None THEN [version |-> version, inclusive |-> inclusive]
    ELSE IF Compare(version, bound.version) > 0
      THEN [version |-> version, inclusive |-> inclusive]
    ELSE IF Compare(version, bound.version) = 0
      THEN [version |-> version, inclusive |-> bound.inclusive /\ inclusive]
    ELSE bound
\* Mutant: the widest bound instead of the tightest.
WiderUpper(bound, version, inclusive) ==
    IF bound = None THEN [version |-> version, inclusive |-> inclusive]
    ELSE IF Compare(version, bound.version) > 0
      THEN [version |-> version, inclusive |-> inclusive]
    ELSE bound
TighterUpper(bound, version, inclusive) ==
    IF bound = None THEN [version |-> version, inclusive |-> inclusive]
    ELSE IF Compare(version, bound.version) < 0
      THEN [version |-> version, inclusive |-> inclusive]
    ELSE IF Compare(version, bound.version) = 0
      THEN [version |-> version, inclusive |-> bound.inclusive /\ inclusive]
    ELSE bound

\* The first equality decides: its version satisfies all the others or nothing.
Equality(i) ==
    predicates[i].op = "=" /\ \A j \in 1 .. i - 1 : predicates[j].op # "="
Decide ==
    /\ answer = None /\ index = 1
    /\ \E i \in DOMAIN predicates :
        /\ Equality(i)
        /\ answer' = \A j \in DOMAIN predicates :
                        Satisfies(predicates[i].version, predicates[j])
    /\ UNCHANGED <<predicates, index, lower, upper, excluded>>

\* One turn of the second loop, when there is no equality.
Scan ==
    /\ answer = None /\ index <= Len(predicates)
    /\ \A i \in DOMAIN predicates : predicates[i].op # "="
    /\ LET op == predicates[index].op
           version == predicates[index].version
       IN /\ lower' = IF op \in {">", ">="}
                        THEN TighterLower(lower, version, op = ">=") ELSE lower
          /\ upper' = IF op \in {"<", "<="}
                        THEN TighterUpper(upper, version, op = "<=") ELSE upper
          /\ excluded' = IF op = "!=" THEN excluded \cup {version} ELSE excluded
    /\ index' = index + 1
    /\ UNCHANGED <<predicates, answer>>

\* Mutant: bounds that meet leave nothing.
NonemptyApart ==
    lower = None \/ upper = None
    \/ Compare(lower.version, upper.version) < 0
\* What the bounds leave: anything, more than a point, one point, nothing.
Nonempty ==
    \/ lower = None \/ upper = None
    \/ Compare(lower.version, upper.version) < 0
    \/ /\ Compare(lower.version, upper.version) = 0
       /\ lower.inclusive /\ upper.inclusive
       /\ \A v \in excluded : Compare(lower.version, v) # 0

Conclude ==
    /\ answer = None /\ index = Len(predicates) + 1
    /\ \A i \in DOMAIN predicates : predicates[i].op # "="
    /\ answer' = Nonempty
    /\ UNCHANGED <<predicates, index, lower, upper, excluded>>

Init == \E list \in Seq(Predicate) : Begin(list)
Next == Decide \/ Scan \/ Conclude
Spec == Init /\ [][Next]_vars

-----------------------------------------------------------------------------
(* Properties.                                                               *)

Solution(v) == \A i \in DOMAIN predicates : Satisfies(v, predicates[i])

TypeOK ==
    /\ predicates \in Seq(Predicate)
    /\ index \in 1 .. Len(predicates) + 1
    /\ lower \in Bound /\ upper \in Bound
    /\ excluded \subseteq Points
    /\ answer \in BOOLEAN \cup {None}

\* A conflict is reported only where there is one: no version satisfies the
\* predicates together (the planner turns FALSE into a blocking diagnostic).
NoFalseConflict == answer = FALSE => \A v \in Version : ~Solution(v)

\* Every conflict is found, for versions with others between and beyond the
\* ones that predicates name.
ConflictsFound == answer = TRUE => \E v \in Version : Solution(v)
=============================================================================
