------------------------- MODULE MCEnvironmentLock -------------------------
(***************************************************************************)
(* The environment lock for TLC.  Processes are interchangeable: nothing   *)
(* is lost by numbering them in the order in which they start, which,      *)
(* unlike a symmetry set, is sound for liveness too.  And a program whose  *)
(* PID no process has had makes no difference to any of them.              *)
(***************************************************************************)
EXTENDS EnvironmentLock, TLC

Symmetry == Permutations(Processes) \cup Permutations(Pids)

Reduced ==
    /\ \A p, q \in Processes : q < p /\ pc[q] = "idle" => pc'[p] = pc[p]
    /\ foreign' \subseteq foreign \cup {pid[p] : p \in Processes}
MCNext == Next /\ Reduced
MCSpec ==
    /\ Init /\ [][MCNext]_vars
    /\ \A p \in Processes : WF_vars(Acquires(p) \/ Releases(p))
=============================================================================
