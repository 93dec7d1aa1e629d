---------------------------- MODULE MCIntersection ----------------------------
(* Predicates name 1, 3 and 5; 0, 2, 4 and 6 are the versions between and    *)
(* beyond. All lists of up to three predicates.                              *)
EXTENDS Intersection

MCVersion == 0..6
MCPoints == {1, 3, 5}
MCCompare(v, w) == v - w
MaxPredicates == 3
MCInit ==
    \E n \in 0..MaxPredicates : \E list \in [1..n -> Predicate] : Begin(list)
MCSpec == MCInit /\ [][Next]_vars
=============================================================================
