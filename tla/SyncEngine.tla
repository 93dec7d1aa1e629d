----------------------------- MODULE SyncEngine -----------------------------
(***************************************************************************)
(* SyncEngine.Apply (internal/app/sync_engine.go) with the action journal, *)
(* the trust record and the environment record it keeps on disk            *)
(* (internal/state): runs under the environment lock, one after another,   *)
(* each of which may crash or meet an error at any call, and the effects   *)
(* its actions leave behind in the environment.                            *)
(*                                                                         *)
(* An action of a plan is a pair of the plan's digest and its position.    *)
(* The order of the actions of a plan is that of their dependencies.       *)
(***************************************************************************)
EXTENDS Integers, FiniteSets

CONSTANTS
    Digests,       \* the digests of the plans that get approved
    NoPlan,        \* no plan: before the first journal, and between runs
    Length,        \* Length[d]: the number of actions of plan d
    RecordSteps,   \* the actions of kind record_state
    ReadSteps,     \* the actions whose effect is read
    UndoableSteps, \* reversible actions that may offer a safe compensation
    Fingerprints,  \* trust fingerprints of Composer plugins and scripts
    TrustOf        \* TrustOf[d]: the fingerprints plan d requires

StepsOf(d) == 1..Length[d]
AllSteps == UNION {{d} \X StepsOf(d) : d \in Digests}

ASSUME SyncAssumption ==
    /\ NoPlan \notin Digests
    /\ Length \in [Digests -> Nat]
    /\ RecordSteps \subseteq AllSteps
    /\ ReadSteps \subseteq AllSteps
    /\ UndoableSteps \subseteq AllSteps \ RecordSteps
    /\ TrustOf \in [Digests -> SUBSET Fingerprints]

VARIABLES
    journal,      \* journal.json
    trust,        \* trust.json: the approved fingerprints
    environment,  \* environment.json
    effect,       \* effect[s]: what action s has left in the environment
    pc,           \* the next call of the run
    plan,         \* the digest of the plan the run applies
    approved,     \* TrustApproved of the execution
    trustRecord,  \* the trust record in memory
    missing,      \* missingTrust
    draft,        \* the journal in memory
    cursor,       \* the action the loop has come to
    listed,       \* result.CompletedActions
    ranNow,       \* completedThisRun
    offers,       \* those of ranNow that offer a safe compensation
    toUndo,       \* those of ranNow that compensate has yet to look at
    compensated,  \* the compensated actions of the failure report
    manual,       \* its manual recovery actions
    outcome,      \* what Apply is about to return
    unrecorded,   \* history: attempted compensations the journal does not show
    faulty        \* whether crashes and errors still occur

disk == <<journal, trust, environment>>
request == <<plan, approved>>
trustCheck == <<trustRecord, missing>>
progress == <<cursor, listed, ranNow>>
undoing == <<toUndo, compensated, manual>>
run == <<request, trustCheck, draft, progress, offers, undoing>>
vars == <<disk, effect, pc, run, outcome, unrecorded, faulty>>

-----------------------------------------------------------------------------
\* Journals (internal/state/journal.go).  "compensated" is an entry whose
\* Status is completed and whose Compensated flag is set.
EntryStatus == {"pending", "completed", "failed", "compensated"}

Journals == UNION {[digest : {d}, status : {"pending", "failed", "succeeded"},
                    entry : [StepsOf(d) -> EntryStatus]] : d \in Digests}
NoJournal == [digest |-> NoPlan, status |-> "pending",
              entry |-> [i \in {} |-> "pending"]]

NewJournal(d) ==
    [digest |-> d, status |-> "pending",
     entry |-> [i \in StepsOf(d) |-> "pending"]]

Marked(j, i, status) == [j EXCEPT !.entry[i] = status]
Completed(j) == {i \in DOMAIN j.entry : j.entry[i] = "completed"}

\* Mutation: a compensated action counts as completed, its flag is ignored.
RetryKeepsCompensated(j) ==
    [j EXCEPT !.status = "pending",
              !.entry = [i \in DOMAIN j.entry |->
                  IF j.entry[i] = "failed" THEN "pending"
                  ELSE IF j.entry[i] = "compensated" THEN "completed"
                  ELSE j.entry[i]]]
\* Mutation: failed actions are not reset.
RetryKeepsFailed(j) ==
    [j EXCEPT !.status = "pending",
              !.entry = [i \in DOMAIN j.entry |->
                  IF j.entry[i] = "compensated" THEN "pending"
                  ELSE j.entry[i]]]
\* Mutation: only pending actions are carried out again.
RetryTrustsFailed(j) ==
    [j EXCEPT !.status = "pending",
              !.entry = [i \in DOMAIN j.entry |->
                  IF j.entry[i] = "pending" THEN "pending" ELSE "completed"]]
\* Mutation: reads are repeated by every retry.
RetryRepeatsReads(j) ==
    [j EXCEPT !.status = "pending",
              !.entry = [i \in DOMAIN j.entry |->
                  IF j.entry[i] = "completed" /\ <<j.digest, i>> \notin ReadSteps
                  THEN "completed" ELSE "pending"]]
\* PrepareRetry: whatever is not completed for good starts again.  (A journal
\* with the plan's digest lists the plan's actions: no mismatch arises.)
PreparedRetry(j) ==
    [j EXCEPT !.status = "pending",
              !.entry = [i \in DOMAIN j.entry |->
                  IF j.entry[i] = "completed" THEN "completed" ELSE "pending"]]

EnvironmentRecords ==
    UNION {[digest : {d}, completed : SUBSET StepsOf(d)] : d \in Digests}
NoEnvironment == [digest |-> NoPlan, completed |-> {}]

-----------------------------------------------------------------------------
Calls == {"loadTrust", "loadJournal", "approveOnly", "saveJournal",
          "saveTrust", "step", "complete", "fail", "undo", "recordUndo",
          "report", "release"}

TypeOK ==
    /\ journal \in Journals \cup {NoJournal}
    /\ trust \subseteq Fingerprints
    /\ environment \in EnvironmentRecords \cup {NoEnvironment}
    /\ effect \in [AllSteps -> {"absent", "partial", "applied"}]
    /\ pc \in Calls \cup {"idle"}
    /\ plan \in Digests \cup {NoPlan}
    /\ approved \in BOOLEAN
    /\ trustRecord \subseteq Fingerprints
    /\ missing \subseteq Fingerprints
    /\ draft \in Journals \cup {NoJournal}
    /\ cursor \in Nat \ {0}
    /\ \A s \in {listed, ranNow, offers, toUndo, compensated, manual} :
           s \subseteq Nat
    /\ outcome \in {"none", "ok", "error", "untrusted", "reported"}
    /\ unrecorded \subseteq AllSteps
    /\ faulty \in BOOLEAN

Init ==
    /\ journal = NoJournal
    /\ trust = {}
    /\ environment = NoEnvironment
    /\ effect = [s \in AllSteps |-> "absent"]
    /\ pc = "idle"
    /\ plan = NoPlan
    /\ approved = FALSE
    /\ trustRecord = {} /\ missing = {}
    /\ draft = NoJournal
    /\ cursor = 1
    /\ listed = {} /\ ranNow = {} /\ offers = {}
    /\ toUndo = {} /\ compensated = {} /\ manual = {}
    /\ outcome = "none"
    /\ unrecorded = {}
    /\ faulty = TRUE

\* The memory of a run is gone once it has returned or crashed.
ForgetRun ==
    /\ pc' = "idle" /\ outcome' = "none"
    /\ plan' = NoPlan /\ approved' = FALSE
    /\ trustRecord' = {} /\ missing' = {}
    /\ draft' = NoJournal /\ cursor' = 1
    /\ listed' = {} /\ ranNow' = {} /\ offers' = {}
    /\ toUndo' = {} /\ compensated' = {} /\ manual' = {}

\* Apply returns: the deferred Release of the lock comes next.
Return(result) == pc' = "release" /\ outcome' = result

\* WriteJSON replaces the file and reports success, or reports an error
\* before the rename or (the flush of the directory) after it.
SaveJournal(j, next) ==
    \/ journal' = j /\ pc' = next /\ UNCHANGED outcome
    \/ faulty /\ journal' \in {journal, j} /\ Return("error")

\* A read of the state, or any other call without an effect, fails.
CallFails == faulty /\ Return("error") /\ UNCHANGED run

-----------------------------------------------------------------------------
\* An approved plan is applied, once the environment lock is acquired.
Begin(d, trustApproved) ==
    /\ pc = "idle"
    /\ pc' = "loadTrust"
    /\ plan' = d
    /\ approved' = trustApproved
    /\ UNCHANGED <<disk, effect, trustCheck, draft, progress, offers, undoing,
                   outcome, unrecorded, faulty>>

\* LoadTrust and Missing; without the approval nothing happens at all.  A
\* plan that requires no trust does not read the record.
LoadTrust ==
    /\ pc = "loadTrust"
    /\ LET lacking == TrustOf[plan] \ trust IN
       \/ /\ lacking = {} \/ approved
          /\ trustRecord' = IF TrustOf[plan] = {} THEN {} ELSE trust
          /\ missing' = lacking
          /\ pc' = "loadJournal"
          /\ UNCHANGED <<request, draft, progress, offers, undoing, outcome>>
       \/ /\ lacking # {} /\ ~approved
          /\ Return("untrusted")
          /\ UNCHANGED run
       \/ TrustOf[plan] # {} /\ CallFails
    /\ UNCHANGED <<disk, effect, unrecorded, faulty>>

\* LoadJournal: a new journal, the end for a plan that has succeeded, or the
\* retry of a plan that has not.
LoadJournal ==
    /\ pc = "loadJournal"
    /\ \/ /\ journal.digest # plan
          /\ draft' = NewJournal(plan)
          /\ pc' = "saveJournal"
          /\ UNCHANGED <<listed, outcome>>
       \/ /\ journal.digest = plan /\ journal.status = "succeeded"
          /\ draft' = journal
          /\ listed' = DOMAIN journal.entry
          /\ IF missing = {}
             THEN Return("ok")
             ELSE pc' = "approveOnly" /\ UNCHANGED outcome
       \/ /\ journal.digest = plan /\ journal.status # "succeeded"
          /\ draft' = PreparedRetry(journal)
          /\ listed' = Completed(draft')
          /\ pc' = "saveJournal"
          /\ UNCHANGED outcome
       \/ CallFails
    /\ UNCHANGED <<disk, effect, request, trustCheck, cursor, ranNow, offers,
                   undoing, unrecorded, faulty>>

\* SaveTrust of the record loaded before, with the plan's fingerprints.
SaveTrust ==
    /\ pc \in {"approveOnly", "saveTrust"}
    /\ LET record == trustRecord \cup TrustOf[plan] IN
       \/ /\ trust' = record
          /\ IF pc = "approveOnly"
             THEN Return("ok")
             ELSE pc' = "step" /\ UNCHANGED outcome
       \/ /\ faulty
          /\ trust' \in {trust, record}
          /\ Return("error")
    /\ UNCHANGED <<journal, environment, effect, run, unrecorded, faulty>>

\* Mutation: the actions begin before the trust is saved.
SaveInitialJournalOnly ==
    /\ pc = "saveJournal"
    /\ SaveJournal(draft, "step")
    /\ UNCHANGED <<trust, environment, effect, run, unrecorded, faulty>>

\* The journal is on disk before the trust is, and before any action.
SaveInitialJournal ==
    /\ pc = "saveJournal"
    /\ SaveJournal(draft, IF missing = {} THEN "step" ELSE "saveTrust")
    /\ UNCHANGED <<trust, environment, effect, run, unrecorded, faulty>>

-----------------------------------------------------------------------------
Current == <<plan, cursor>>

\* Mutation: completed actions are carried out again.
AtAnyStep == pc = "step" /\ cursor \in StepsOf(plan)

\* The loop has come to an action that is to be carried out.
AtStep ==
    /\ pc = "step" /\ cursor \in StepsOf(plan)
    /\ draft.entry[cursor] # "completed"

\* Mutation: the loop stays where it is.
SkipWithoutAdvance ==
    /\ pc = "step" /\ cursor \in StepsOf(plan)
    /\ draft.entry[cursor] = "completed"
    /\ UNCHANGED vars

\* The loop passes over an action the journal shows completed.
SkipCompleted ==
    /\ pc = "step" /\ cursor \in StepsOf(plan)
    /\ draft.entry[cursor] = "completed"
    /\ cursor' = cursor + 1
    /\ UNCHANGED <<disk, effect, pc, request, trustCheck, draft, listed,
                   ranNow, offers, undoing, outcome, unrecorded, faulty>>

\* record_state: SaveEnvironment with the actions completed so far.
RecordState ==
    /\ AtStep /\ Current \in RecordSteps
    /\ LET record == [digest |-> plan, completed |-> listed \cup {cursor}] IN
       \/ environment' = record /\ pc' = "complete"
       \/ faulty /\ environment' \in {environment, record} /\ pc' = "fail"
    /\ UNCHANGED <<journal, trust, effect, run, outcome, unrecorded, faulty>>

\* What the actions of one plan do may undo what those of other plans did.
Disturbed(d) ==
    {effect, [s \in AllSteps |-> IF s[1] = d THEN effect[s] ELSE "absent"]}

\* executeAction: it succeeds, with or without an offer to compensate, or it
\* fails and leaves its effect undone, half done or done.
Execute ==
    /\ AtStep /\ Current \notin RecordSteps
    /\ \E base \in Disturbed(plan) :
        \/ /\ effect' = [base EXCEPT ![Current] = "applied"]
           /\ \/ UNCHANGED offers
              \/ Current \in UndoableSteps /\ offers' = offers \cup {cursor}
           /\ unrecorded' = unrecorded \ {Current}
           /\ pc' = "complete"
        \/ /\ faulty
           /\ effect' \in {base, [base EXCEPT ![Current] = "partial"],
                           [base EXCEPT ![Current] = "applied"]}
           /\ pc' = "fail"
           /\ UNCHANGED <<offers, unrecorded>>
    /\ UNCHANGED <<disk, request, trustCheck, draft, progress, undoing,
                   outcome, faulty>>

\* CompleteWithOutputs and SaveJournal; then the action joins both lists.
RecordCompletion ==
    /\ pc = "complete"
    /\ draft.entry[cursor] = "pending"
    /\ draft' = Marked(draft, cursor, "completed")
    /\ SaveJournal(draft', "step")
    /\ IF pc' = "step"
       THEN /\ listed' = listed \cup {cursor}
            /\ ranNow' = ranNow \cup {cursor}
            /\ cursor' = cursor + 1
       ELSE UNCHANGED progress
    /\ UNCHANGED <<trust, environment, effect, request, trustCheck, offers,
                   undoing, unrecorded, faulty>>

\* Mutation: the action fails but the journal stays pending.
RecordFailureOfActionOnly ==
    /\ pc = "fail"
    /\ draft' = Marked(draft, cursor, "failed")
    /\ SaveJournal(draft', "undo")
    /\ toUndo' = ranNow
    /\ UNCHANGED <<trust, environment, effect, request, trustCheck, progress,
                   offers, compensated, manual, unrecorded, faulty>>

\* Fail and SaveJournal, after which compensation begins.
RecordFailure ==
    /\ pc = "fail"
    /\ draft.entry[cursor] = "pending"
    /\ draft' = [Marked(draft, cursor, "failed") EXCEPT !.status = "failed"]
    /\ SaveJournal(draft', "undo")
    /\ toUndo' = ranNow
    /\ UNCHANGED <<trust, environment, effect, request, trustCheck, progress,
                   offers, compensated, manual, unrecorded, faulty>>

-----------------------------------------------------------------------------
\* compensate goes through the actions this run completed, last one first.
Latest == CHOOSE i \in toUndo : \A j \in toUndo : j <= i

AtUndo == pc = "undo" /\ toUndo # {} /\ Latest \in offers

\* Mutation: no manual recovery is asked for.
LeaveCompletedSilently ==
    /\ pc = "undo" /\ toUndo # {} /\ Latest \notin offers
    /\ toUndo' = toUndo \ {Latest}
    /\ UNCHANGED <<disk, effect, pc, request, trustCheck, draft, progress,
                   offers, compensated, manual, outcome, unrecorded, faulty>>

\* An action without a safe compensation is left to manual recovery.
LeaveCompleted ==
    /\ pc = "undo" /\ toUndo # {} /\ Latest \notin offers
    /\ toUndo' = toUndo \ {Latest}
    /\ manual' = manual \cup
           (IF <<plan, Latest>> \in ReadSteps THEN {} ELSE {Latest})
    /\ UNCHANGED <<disk, effect, pc, request, trustCheck, draft, progress,
                   offers, compensated, outcome, unrecorded, faulty>>

\* compensateAction undoes the action, or fails with any effect on it.
Undo ==
    /\ AtUndo
    /\ unrecorded' = unrecorded \cup {<<plan, Latest>>}
    /\ \/ /\ effect' = [effect EXCEPT ![<<plan, Latest>>] = "absent"]
          /\ pc' = "recordUndo"
          /\ UNCHANGED <<toUndo, manual>>
       \/ /\ faulty
          /\ \E left \in {"absent", "partial", "applied"} :
                 effect' = [effect EXCEPT ![<<plan, Latest>>] = left]
          /\ toUndo' = toUndo \ {Latest}
          /\ manual' = manual \cup {Latest}
          /\ UNCHANGED pc
    /\ UNCHANGED <<disk, request, trustCheck, draft, progress, offers,
                   compensated, outcome, faulty>>

\* Compensate and SaveJournal.
RecordUndo ==
    /\ pc = "recordUndo"
    /\ draft.entry[Latest] = "completed"
    /\ draft' = Marked(draft, Latest, "compensated")
    /\ SaveJournal(draft', "undo")
    /\ IF pc' = "undo"
       THEN compensated' = compensated \cup {Latest}
            /\ toUndo' = toUndo \ {Latest}
       ELSE UNCHANGED <<compensated, toUndo>>
    /\ unrecorded' = IF journal' = draft'
                     THEN unrecorded \ {<<plan, Latest>>} ELSE unrecorded
    /\ UNCHANGED <<trust, environment, effect, request, trustCheck, progress,
                   offers, manual, faulty>>

\* syncActionError: the failure report is made and returned.
Report ==
    /\ pc = "undo" /\ toUndo = {}
    /\ Return("reported")
    /\ UNCHANGED <<disk, effect, run, unrecorded, faulty>>

\* Mutation: the journal is saved without its new status.
SucceedUnmarked ==
    /\ pc = "step" /\ cursor \notin StepsOf(plan)
    /\ Return("ok")
    /\ UNCHANGED <<disk, effect, run, unrecorded, faulty>>

\* Succeed and SaveJournal, after the last action.
Succeed ==
    /\ pc = "step" /\ cursor \notin StepsOf(plan)
    /\ Completed(draft) = StepsOf(plan)
    /\ draft' = [draft EXCEPT !.status = "succeeded"]
    /\ \/ journal' = draft' /\ Return("ok")
       \/ faulty /\ journal' \in {journal, draft'} /\ Return("error")
    /\ UNCHANGED <<trust, environment, effect, request, trustCheck, progress,
                   offers, undoing, unrecorded, faulty>>

Release ==
    /\ pc = "release"
    /\ ForgetRun
    /\ UNCHANGED <<disk, effect, unrecorded, faulty>>

\* The process ends anywhere; an execution or a compensation that was under
\* way has then happened in part.
Crash ==
    /\ faulty /\ pc # "idle"
    /\ \/ UNCHANGED <<effect, unrecorded>>
       \/ /\ AtStep /\ Current \notin RecordSteps
          /\ \E base \in Disturbed(plan) :
                 effect' = [base EXCEPT ![Current] = "partial"]
          /\ UNCHANGED unrecorded
       \/ /\ AtUndo
          /\ effect' = [effect EXCEPT ![<<plan, Latest>>] = "partial"]
          /\ unrecorded' = unrecorded \cup {<<plan, Latest>>}
    /\ ForgetRun
    /\ UNCHANGED <<disk, faulty>>

\* From some point on no fault occurs any more.
Stabilize ==
    /\ faulty /\ faulty' = FALSE
    /\ UNCHANGED <<disk, effect, pc, run, outcome, unrecorded>>

\* What a run does by itself.
Apply ==
    \/ LoadTrust \/ LoadJournal \/ SaveTrust \/ SaveInitialJournal
    \/ SkipCompleted \/ RecordState \/ Execute
    \/ RecordCompletion \/ RecordFailure
    \/ LeaveCompleted \/ Undo \/ RecordUndo \/ Report
    \/ Succeed \/ Release

Next ==
    \/ \E d \in Digests, trustApproved \in BOOLEAN : Begin(d, trustApproved)
    \/ Apply \/ Crash \/ Stabilize

Spec == Init /\ [][Next]_vars

\* A running process is scheduled.
FairSpec == Spec /\ WF_vars(Apply)

\* Faults cease, and the user invokes one plan or another, with approval, again
\* and again: the assumption about the user under which a retry is of use.
RetrySpec ==
    /\ FairSpec
    /\ WF_vars(Stabilize)
    /\ SF_vars(\E d \in Digests : Begin(d, TRUE))

-----------------------------------------------------------------------------

Applied(d, i) ==
    IF <<d, i>> \in RecordSteps
    THEN environment.digest = d /\ i \in environment.completed
    ELSE effect[<<d, i>>] = "applied"

(***************************************************************************)
(* The journal on disk tells the truth, at every moment and across         *)
(* crashes, failed saves and other plans' runs: an action it shows         *)
(* completed is in effect, unless a compensation of it was attempted and   *)
(* the run ended, or the compensation failed, before that was recorded.    *)
(***************************************************************************)
JournalTruth ==
    \A i \in Completed(journal) :
        Applied(journal.digest, i) \/ <<journal.digest, i>> \in unrecorded

\* Whether a compensation can be offered for an action of plan d.
Reversible(d) == \E s \in UndoableSteps : s[1] = d

(***************************************************************************)
(* A succeeded journal, for which Apply returns without doing anything,    *)
(* means a synchronized environment: every action in effect, and every     *)
(* required fingerprint in the trust record.                               *)
(***************************************************************************)
SuccessIsApplied ==
    journal.status = "succeeded" =>
        /\ \A i \in StepsOf(journal.digest) : Applied(journal.digest, i)
        /\ TrustOf[journal.digest] \subseteq trust

(***************************************************************************)
(* It does for every plan without reversible actions, whatever crashes,    *)
(* failures and other plans, reversible ones too, came before it.          *)
(***************************************************************************)
SuccessIsReal == ~Reversible(journal.digest) => SuccessIsApplied

(***************************************************************************)
(* What Apply has in memory is what is on disk from the first save on:     *)
(* before it touches the environment, and before it reports, a crash loses *)
(* no completed, failed or compensated action.                             *)
(***************************************************************************)
DraftOnDisk ==
    pc \in {"saveTrust", "step", "complete", "fail", "undo", "recordUndo"} =>
        draft = journal /\ draft.digest = plan

(***************************************************************************)
(* The journal never refuses a transition Apply asks of it: the internal   *)
(* errors of Complete, Fail, Compensate and Succeed are unreachable, also  *)
(* in retries of partly compensated plans.                                 *)
(***************************************************************************)
JournalNeverRefuses ==
    /\ pc \in {"complete", "fail"} => draft.entry[cursor] = "pending"
    /\ pc = "recordUndo" => draft.entry[Latest] = "completed"
    /\ pc = "step" /\ cursor \notin StepsOf(plan) =>
           Completed(draft) = StepsOf(plan)

Reported == pc = "release" /\ outcome = "reported"
NotAttempted == {i \in StepsOf(plan) : i > cursor}

(***************************************************************************)
(* The failure report leaves no action out: each is completed, failed or   *)
(* not attempted; each mutating action of this run was either compensated, *)
(* and is then gone from the environment and from the journal, or is named *)
(* for manual recovery.                                                    *)
(***************************************************************************)
ReportAccounts ==
    Reported =>
        /\ listed \cup {cursor} \cup NotAttempted = StepsOf(plan)
        /\ cursor \notin listed
        /\ \A i \in ranNow :
               \/ <<plan, i>> \in ReadSteps
               \/ i \in manual \ compensated
               \/ /\ i \in compensated \ manual
                  /\ effect[<<plan, i>>] = "absent"
                  /\ journal.entry[i] = "compensated"

(***************************************************************************)
(* In a plan without reversible actions, whatever it is retried after,     *)
(* actions are carried out in the order of the plan, none while one that   *)
(* depends on it counts as completed; and the failure report names no      *)
(* action both completed and not attempted.  (A retry after a compensation *)
(* may do both: PrepareRetry makes an early action pending again and keeps *)
(* the later ones.)                                                        *)
(***************************************************************************)
OrderWithoutUndo ==
    plan # NoPlan /\ ~Reversible(plan) =>
        /\ AtStep => \A k \in Completed(draft) : k < cursor
        /\ Reported => listed \cap NotAttempted = {}

(***************************************************************************)
(* Nothing happens to the environment before the journal of the plan being *)
(* applied and the trust the plan requires are on disk.                    *)
(***************************************************************************)
MutationsJournaledAndTrusted ==
    [][<<effect, environment>>' # <<effect, environment>> =>
        journal.digest = plan /\ TrustOf[plan] \subseteq trust]_vars

(***************************************************************************)
(* The effect of an action of the recorded plan changes only while the     *)
(* journal on disk shows it pending, or, once the run has failed, shows it *)
(* completed: a retry repeats no completed action, whatever crash came     *)
(* before.                                                                 *)
(***************************************************************************)
EffectsFollowJournal ==
    [][\A i \in DOMAIN journal.entry :
        effect'[<<journal.digest, i>>] # effect[<<journal.digest, i>>] =>
            \/ journal.entry[i] = "pending"
            \/ journal.entry[i] = "completed" /\ journal.status = "failed"]_vars

(***************************************************************************)
(* Approvals are never lost: SaveTrust replaces the whole record, of other *)
(* plans' fingerprints too, and drops none of them.                        *)
(***************************************************************************)
TrustOnlyGrows == [][trust \subseteq trust']_vars

(***************************************************************************)
(* The journal on disk implements the synchronization record.              *)
(***************************************************************************)
Record == INSTANCE Synchronization WITH
    digest <- journal.digest,
    finished <- Completed(journal),
    phase <- IF journal.status = "pending" THEN "open" ELSE journal.status
ImplementsRecord == Record!AbstractSpec

(***************************************************************************)
(* Apply returns, also through failures and compensation.                  *)
(***************************************************************************)
RunEnds == pc # "idle" ~> pc = "idle"

(***************************************************************************)
(* Safe retry: once faults have ceased and the user keeps to one approved  *)
(* plan, applying it again leads to success and stays there, whatever      *)
(* crashes, failed actions, failed saves, failed compensations and other   *)
(* plans came before.                                                      *)
(***************************************************************************)
RetryConverges ==
    \A d \in Digests :
        <>[](plan \in {d, NoPlan})
            => <>[](journal.digest = d /\ journal.status = "succeeded")
=============================================================================
