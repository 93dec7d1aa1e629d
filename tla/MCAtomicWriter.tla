--------------------------- MODULE MCAtomicWriter ---------------------------
(***************************************************************************)
(* Instances of the atomic writer for TLC.                                 *)
(***************************************************************************)
EXTENDS AtomicWriter, TLC

Symmetry == Permutations(Writers)
=============================================================================
