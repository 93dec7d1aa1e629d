-------------------------- MODULE Synchronization --------------------------
(***************************************************************************)
(* What the synchronization journal promises to whoever reads it, with no  *)
(* word about runs, crashes or retries: one plan at a time is being        *)
(* synchronized; its steps are finished one by one; a step is taken back   *)
(* only while the synchronization has failed; it succeeds only when every  *)
(* step is finished, and a success is final for that plan.                 *)
(***************************************************************************)
EXTENDS Integers

CONSTANTS
    Digests,   \* the digests of the plans
    NoPlan,    \* no synchronization was recorded yet
    Length     \* Length[d]: the number of actions of plan d

VARIABLES
    digest,    \* the plan being synchronized
    finished,  \* its finished steps
    phase      \* "open", "failed" or "succeeded"

abstractVars == <<digest, finished, phase>>

StepsOf(d) == 1..Length[d]

AbstractInit == digest = NoPlan /\ finished = {} /\ phase = "open"

\* A plan other than the recorded one is taken up from its beginning.
Adopt(d) ==
    /\ d # digest
    /\ digest' = d /\ finished' = {} /\ phase' = "open"

Finish(i) ==
    /\ digest # NoPlan /\ phase = "open"
    /\ i \in StepsOf(digest) \ finished
    /\ finished' = finished \cup {i}
    /\ UNCHANGED <<digest, phase>>

Fail ==
    /\ digest # NoPlan /\ phase = "open"
    /\ finished # StepsOf(digest)
    /\ phase' = "failed"
    /\ UNCHANGED <<digest, finished>>

TakeBack(i) ==
    /\ phase = "failed"
    /\ i \in finished
    /\ finished' = finished \ {i}
    /\ UNCHANGED <<digest, phase>>

Reopen ==
    /\ phase = "failed"
    /\ phase' = "open"
    /\ UNCHANGED <<digest, finished>>

Succeed ==
    /\ digest # NoPlan /\ phase = "open"
    /\ finished = StepsOf(digest)
    /\ phase' = "succeeded"
    /\ UNCHANGED <<digest, finished>>

AbstractNext ==
    \/ \E d \in Digests : Adopt(d)
    \/ digest # NoPlan /\ \E i \in StepsOf(digest) : Finish(i) \/ TakeBack(i)
    \/ Fail \/ Reopen \/ Succeed

AbstractSpec == AbstractInit /\ [][AbstractNext]_abstractVars
=============================================================================
