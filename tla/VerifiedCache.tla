---------------------------- MODULE VerifiedCache ----------------------------
(***************************************************************************)
(* What the managed Composer cache promises to every command of the user:  *)
(* a release is in the cache whole and verified or not at all, a release   *)
(* whose acquisition was reported is there for good, and only releases     *)
(* that are there are executed.                                            *)
(***************************************************************************)
CONSTANTS Versions

VARIABLES
    cached,    \* the verified releases in the cache
    promised,  \* those some command has reported acquired
    executed   \* those Composer was run from

vars == <<cached, promised, executed>>

Init == cached = {} /\ promised = {} /\ executed = {}

Add(v) ==
    /\ cached' = cached \cup {v}
    /\ UNCHANGED <<promised, executed>>

Promise(v) ==
    /\ v \in cached
    /\ promised' = promised \cup {v}
    /\ UNCHANGED <<cached, executed>>

Run(v) ==
    /\ v \in cached
    /\ executed' = executed \cup {v}
    /\ UNCHANGED <<cached, promised>>

\* A power loss may take releases nobody was promised.
Lose ==
    /\ cached' \in SUBSET cached
    /\ promised \subseteq cached'
    /\ UNCHANGED <<promised, executed>>

Next == Lose \/ \E v \in Versions : Add(v) \/ Promise(v) \/ Run(v)

Spec == Init /\ [][Next]_vars
=============================================================================
