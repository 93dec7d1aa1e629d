-------------------------- MODULE SyncEngineProofs --------------------------
(***************************************************************************)
(* Proofs about the synchronization engine, for all plans.  The inductive  *)
(* invariant says what Apply knows at each of its calls about the journal  *)
(* and the trust on disk (TrustPart, DraftPart), how far the loop and the  *)
(* compensation have come (LoopPart), and what the journal implies about   *)
(* the environment (TruthPart, SuccessPart).                               *)
(***************************************************************************)
EXTENDS SyncEngine, WellFoundedInduction, TLAPS

Before == {"loadTrust", "loadJournal", "approveOnly", "saveJournal",
           "saveTrust"}
Loop == {"step", "complete", "fail"}
Undoing == {"undo", "recordUndo"}

RunPart ==
    /\ pc # "idle" => plan \in Digests /\ listed \subseteq StepsOf(plan)
    /\ pc \in Before \cup {"idle"} => cursor = 1 /\ ranNow = {} /\ offers = {}
    /\ pc \in {"idle", "loadTrust", "loadJournal"} => listed = {}
    /\ \A i \in offers : <<plan, i>> \in UndoableSteps

TrustPart ==
    /\ pc \in {"loadJournal", "approveOnly", "saveJournal", "saveTrust"} =>
        /\ missing = TrustOf[plan] \ trust
        /\ missing # {} => trustRecord = trust
    /\ pc \in {"approveOnly", "saveTrust"} => missing # {}
    /\ pc \in Loop \cup Undoing => TrustOf[plan] \subseteq trust

DraftPart ==
    /\ pc = "saveJournal" =>
        \/ journal.digest # plan /\ draft = NewJournal(plan)
        \/ /\ journal.digest = plan /\ journal.status # "succeeded"
           /\ draft = PreparedRetry(journal)
    /\ DraftOnDisk
    /\ pc \in {"saveJournal", "saveTrust"} \cup Loop =>
        /\ draft.status = "pending"
        /\ \A i \in DOMAIN draft.entry :
               draft.entry[i] \in {"pending", "completed"}
        /\ Completed(draft) \subseteq listed
    /\ pc \in Undoing => draft.status = "failed"

LoopPart ==
    /\ pc \in Loop =>
        /\ ranNow \subseteq Completed(draft)
        /\ \A i \in StepsOf(plan) : i < cursor => draft.entry[i] = "completed"
    /\ pc \in {"complete", "fail"} =>
        cursor \in StepsOf(plan) /\ draft.entry[cursor] = "pending"
    /\ pc = "complete" => Applied(plan, cursor)
    /\ pc \in Undoing => toUndo \subseteq Completed(draft)
    /\ pc = "recordUndo" => Latest \in toUndo /\ Latest \in offers

TruthPart == JournalTruth

SuccessPart ==
    journal.status = "succeeded" =>
        /\ journal.digest \in Digests
        /\ Completed(journal) = StepsOf(journal.digest)
        /\ TrustOf[journal.digest] \subseteq trust

IInv ==
    /\ TypeOK /\ RunPart /\ TrustPart /\ DraftPart /\ LoopPart
    /\ TruthPart /\ SuccessPart
-----------------------------------------------------------------------------
(***************************************************************************)
(* The steps of a plan are positions, and with its digest known actions.   *)
(***************************************************************************)
LEMMA StepsKnown ==
  ASSUME NEW d \in Digests
  PROVE  /\ StepsOf(d) \subseteq Nat \ {0}
         /\ \A i \in StepsOf(d) : <<d, i>> \in AllSteps
<1>1. Length[d] \in Nat
  BY SyncAssumption
<1>2. QED
  BY <1>1 DEF StepsOf, AllSteps

(***************************************************************************)
(* What a journal consists of.                                             *)
(***************************************************************************)
LEMMA JournalFields ==
  ASSUME NEW j \in Journals
  PROVE  /\ j.digest \in Digests
         /\ j.status \in {"pending", "failed", "succeeded"}
         /\ j.entry \in [StepsOf(j.digest) -> EntryStatus]
         /\ DOMAIN j.entry = StepsOf(j.digest)
         /\ j = [digest |-> j.digest, status |-> j.status, entry |-> j.entry]
BY DEF Journals

(***************************************************************************)
(* A record of these parts is a journal.                                   *)
(***************************************************************************)
LEMMA JournalMade ==
  ASSUME NEW d \in Digests, NEW e \in [StepsOf(d) -> EntryStatus],
         NEW s \in {"pending", "failed", "succeeded"}
  PROVE  [digest |-> d, status |-> s, entry |-> e] \in Journals
BY DEF Journals

(***************************************************************************)
(* A journal is never the absence of one.                                  *)
(***************************************************************************)
LEMMA NoJournalFields ==
  /\ NoJournal \notin Journals
  /\ NoJournal.digest = NoPlan /\ NoJournal.status = "pending"
  /\ DOMAIN NoJournal.entry = {} /\ Completed(NoJournal) = {}
<1>1. NoJournal.digest = NoPlan /\ NoJournal.status = "pending"
      /\ DOMAIN NoJournal.entry = {}
  BY DEF NoJournal
<1>2. NoJournal \notin Journals
  BY <1>1, JournalFields, SyncAssumption
<1>3. QED
  BY <1>1, <1>2 DEF Completed

(***************************************************************************)
(* NewJournal: every action of the plan is pending.                        *)
(***************************************************************************)
LEMMA NewJournalFields ==
  ASSUME NEW d \in Digests
  PROVE  /\ NewJournal(d) \in Journals
         /\ NewJournal(d).digest = d /\ NewJournal(d).status = "pending"
         /\ \A i \in StepsOf(d) : NewJournal(d).entry[i] = "pending"
         /\ Completed(NewJournal(d)) = {}
<1>1. [i \in StepsOf(d) |-> "pending"] \in [StepsOf(d) -> EntryStatus]
  BY DEF EntryStatus
<1>2. NewJournal(d) \in Journals
  BY <1>1, JournalMade DEF NewJournal
<1>3. QED
  BY <1>2 DEF NewJournal, Completed

(***************************************************************************)
(* Complete, Fail and Compensate change the status of one action.          *)
(***************************************************************************)
LEMMA MarkedFields ==
  ASSUME NEW j \in Journals, NEW i \in StepsOf(j.digest),
         NEW s \in EntryStatus
  PROVE  /\ Marked(j, i, s) \in Journals
         /\ Marked(j, i, s).digest = j.digest
         /\ Marked(j, i, s).status = j.status
         /\ Marked(j, i, s).entry = [j.entry EXCEPT ![i] = s]
         /\ s = "completed" =>
                Completed(Marked(j, i, s)) = Completed(j) \cup {i}
         /\ s # "completed" =>
                Completed(Marked(j, i, s)) = Completed(j) \ {i}
<1> DEFINE m == Marked(j, i, s)
<1>1. m = [digest |-> j.digest, status |-> j.status,
           entry |-> [j.entry EXCEPT ![i] = s]]
  BY JournalFields DEF Marked
<1>2. [j.entry EXCEPT ![i] = s] \in [StepsOf(j.digest) -> EntryStatus]
  BY JournalFields
<1>3. m \in Journals
  <2>1. j.digest \in Digests /\ j.status \in {"pending", "failed", "succeeded"}
    BY JournalFields
  <2>2. QED
    BY ONLY <1>1, <1>2, <2>1, JournalMade
<1>4. m.digest = j.digest /\ m.status = j.status
      /\ m.entry = [j.entry EXCEPT ![i] = s]
  BY <1>1
<1>5. m.entry[i] = s
      /\ \A k \in StepsOf(j.digest) : k # i => m.entry[k] = j.entry[k]
  BY <1>4, JournalFields
<1>6. DOMAIN m.entry = StepsOf(j.digest) /\ DOMAIN j.entry = StepsOf(j.digest)
  BY <1>3, <1>4, JournalFields
<1>7. /\ s = "completed" => Completed(m) = Completed(j) \cup {i}
      /\ s # "completed" => Completed(m) = Completed(j) \ {i}
  BY <1>5, <1>6 DEF Completed
<1>8. QED
  BY <1>3, <1>4, <1>7

(***************************************************************************)
(* Complete adds the action to the completed ones.                         *)
(***************************************************************************)
LEMMA CompleteFields ==
  ASSUME NEW j \in Journals, NEW i \in StepsOf(j.digest)
  PROVE  /\ Marked(j, i, "completed") \in Journals
         /\ Marked(j, i, "completed").digest = j.digest
         /\ Marked(j, i, "completed").status = j.status
         /\ Marked(j, i, "completed").entry =
                [j.entry EXCEPT ![i] = "completed"]
         /\ Completed(Marked(j, i, "completed")) = Completed(j) \cup {i}
<1>1. "completed" \in EntryStatus
  BY DEF EntryStatus
<1>2. Completed(Marked(j, i, "completed")) = Completed(j) \cup {i}
  BY <1>1, MarkedFields
<1>3. QED
  BY <1>1, <1>2, MarkedFields, Zenon

(***************************************************************************)
(* Fail and Compensate leave the other completed actions as they are.      *)
(***************************************************************************)
LEMMA UncompleteFields ==
  ASSUME NEW j \in Journals, NEW i \in StepsOf(j.digest),
         NEW s \in EntryStatus \ {"completed"}
  PROVE  /\ Marked(j, i, s) \in Journals
         /\ Marked(j, i, s).digest = j.digest
         /\ Marked(j, i, s).status = j.status
         /\ Marked(j, i, s).entry = [j.entry EXCEPT ![i] = s]
         /\ Completed(Marked(j, i, s)) = Completed(j) \ {i}
<1>1. s \in EntryStatus /\ s # "completed"
  OBVIOUS
<1>2. QED
  BY <1>1, MarkedFields, Zenon

(***************************************************************************)
(* Fail and Succeed change the status of the whole.                        *)
(***************************************************************************)
LEMMA ClosedFields ==
  ASSUME NEW j \in Journals, NEW s \in {"pending", "failed", "succeeded"}
  PROVE  /\ [j EXCEPT !.status = s] \in Journals
         /\ [j EXCEPT !.status = s].digest = j.digest
         /\ [j EXCEPT !.status = s].status = s
         /\ [j EXCEPT !.status = s].entry = j.entry
         /\ Completed([j EXCEPT !.status = s]) = Completed(j)
<1> DEFINE c == [j EXCEPT !.status = s]
<1>1. c = [digest |-> j.digest, status |-> s, entry |-> j.entry]
  BY JournalFields
<1> HIDE DEF c
<1>2. c \in Journals
  <2>1. j.digest \in Digests /\ j.entry \in [StepsOf(j.digest) -> EntryStatus]
    BY JournalFields
  <2>2. QED
    BY ONLY <1>1, <2>1, JournalMade, s \in {"pending", "failed", "succeeded"}
<1>3. c.digest = j.digest /\ c.status = s /\ c.entry = j.entry
  BY <1>1
<1>4. Completed(c) = Completed(j)
  BY <1>3 DEF Completed
<1>5. QED
  BY <1>2, <1>3, <1>4 DEF c

(***************************************************************************)
(* PrepareRetry keeps the completed actions and makes the others pending.  *)
(***************************************************************************)
LEMMA RetryFields ==
  ASSUME NEW j \in Journals
  PROVE  /\ PreparedRetry(j) \in Journals
         /\ PreparedRetry(j).digest = j.digest
         /\ PreparedRetry(j).status = "pending"
         /\ Completed(PreparedRetry(j)) = Completed(j)
         /\ \A i \in StepsOf(j.digest) :
                PreparedRetry(j).entry[i] \in {"pending", "completed"}
<1> DEFINE r == PreparedRetry(j)
           e == [i \in DOMAIN j.entry |->
                    IF j.entry[i] = "completed" THEN "completed" ELSE "pending"]
<1>1. r = [digest |-> j.digest, status |-> "pending", entry |-> e]
  <2> HIDE DEF e
  <2>1. j = [digest |-> j.digest, status |-> j.status, entry |-> j.entry]
    BY JournalFields
  <2>2. r = [j EXCEPT !.status = "pending", !.entry = e]
    BY DEF PreparedRetry, e
  <2>3. QED
    BY <2>1, <2>2
<1>2. e \in [StepsOf(j.digest) -> EntryStatus]
  BY JournalFields DEF EntryStatus
<1> HIDE DEF e
<1>3. r \in Journals
  BY <1>1, <1>2, JournalFields, JournalMade
<1>4. r.digest = j.digest /\ r.status = "pending" /\ r.entry = e
  BY <1>1
<1>5. Completed(r) = Completed(j)
  BY <1>4, JournalFields DEF Completed, e
<1>6. \A i \in StepsOf(j.digest) : r.entry[i] \in {"pending", "completed"}
  BY <1>4, JournalFields DEF e
<1>7. QED
  BY <1>3, <1>4, <1>5, <1>6

(***************************************************************************)
(* compensate's next action is the last of those it has yet to look at.    *)
(***************************************************************************)
LEMMA LatestIsOne ==
  ASSUME NEW d \in Digests, toUndo \subseteq StepsOf(d), toUndo # {}
  PROVE  Latest \in toUndo
<1> DEFINE top == Length[d]
           distances == {top - i : i \in toUndo}
<1>1. top \in Nat /\ toUndo \subseteq 1..top
  BY SyncAssumption DEF StepsOf
<1>2. distances \subseteq Nat /\ distances # {}
  <2>1. \A i \in toUndo : top - i \in Nat
    BY <1>1
  <2>2. QED
    BY <2>1
<1> HIDE DEF top
<1>3. \E n \in distances :
          \A m \in distances : <<m, n>> \notin OpToRel(<, Nat)
  <2> HIDE DEF distances
  <2>1. QED
    BY <1>2, NatLessThanWellFounded, WFMin, Zenon
<1>4. PICK n \in distances :
          \A m \in distances : <<m, n>> \notin OpToRel(<, Nat)
  BY <1>3
<1>5. \A m \in distances : n <= m
  <2> HIDE DEF distances
  <2>1. SUFFICES ASSUME NEW m \in distances PROVE n <= m
    OBVIOUS
  <2>2. m \in Nat /\ n \in Nat /\ <<m, n>> \notin OpToRel(<, Nat)
    BY <1>2, <1>4
  <2>3. ASSUME m < n PROVE <<m, n>> \in OpToRel(<, Nat)
    <3>1. <<m, n>> \in Nat \X Nat /\ <<m, n>>[1] < <<m, n>>[2]
      BY <2>2, <2>3
    <3>2. QED
      BY ONLY <3>1 DEF OpToRel
  <2>4. m \in Nat /\ n \in Nat /\ ~(m < n)
    BY <2>2, <2>3, Zenon
  <2>5. QED
    BY ONLY <2>4
<1>6. PICK i \in toUndo : n = top - i
  BY <1>4
<1>7. \A k \in toUndo : k <= i
  BY <1>1, <1>5, <1>6
<1>8. QED
  BY <1>7 DEF Latest

-----------------------------------------------------------------------------
(***************************************************************************)
(* What the invariant says once the journal of the run has been saved.     *)
(***************************************************************************)
LEMMA DraftFacts ==
  ASSUME IInv, pc \in {"saveTrust"} \cup Loop \cup Undoing
  PROVE  /\ plan \in Digests /\ draft \in Journals
         /\ journal = draft /\ draft.digest = plan
         /\ DOMAIN draft.entry = StepsOf(plan)
         /\ Completed(draft) =
                {i \in StepsOf(plan) : draft.entry[i] = "completed"}
<1>1. plan \in Digests
  BY DEF IInv, RunPart, Loop, Undoing
<1>2. journal = draft /\ draft.digest = plan
  BY DEF IInv, DraftPart, DraftOnDisk, Loop, Undoing
<1>3. draft \in Journals
  BY <1>1, <1>2, NoJournalFields, SyncAssumption DEF IInv, TypeOK
<1>4. QED
  BY <1>1, <1>2, <1>3, JournalFields DEF Completed

(***************************************************************************)
(* The compensation under way is that of a completed action of the plan.   *)
(***************************************************************************)
LEMMA LatestFacts ==
  ASSUME IInv, pc \in Undoing, toUndo # {}
  PROVE  /\ Latest \in toUndo
         /\ Latest \in StepsOf(plan)
         /\ draft.entry[Latest] = "completed"
<1>1. toUndo \subseteq Completed(draft)
  BY DEF IInv, LoopPart
<1>2. plan \in Digests
      /\ Completed(draft) =
             {i \in StepsOf(plan) : draft.entry[i] = "completed"}
  BY DraftFacts DEF Undoing
<1>3. Latest \in toUndo
  BY <1>1, <1>2, LatestIsOne
<1>4. QED
  BY <1>1, <1>2, <1>3

(***************************************************************************)
(* The inductive invariant holds initially.                                *)
(***************************************************************************)
LEMMA InitIInv == Init => IInv
<1> SUFFICES ASSUME Init PROVE IInv
  OBVIOUS
<1> USE DEF Init
<1>1. TypeOK
  <2>1. effect \in [AllSteps -> {"absent", "partial", "applied"}]
    OBVIOUS
  <2>2. approved \in BOOLEAN /\ faulty \in BOOLEAN
    OBVIOUS
  <2>3. QED
    BY <2>1, <2>2 DEF TypeOK
<1>2. RunPart /\ TrustPart /\ DraftPart /\ LoopPart
  BY DEF RunPart, TrustPart, DraftPart, DraftOnDisk, LoopPart, Before, Loop,
         Undoing
<1>3. TruthPart /\ SuccessPart
  BY NoJournalFields DEF TruthPart, JournalTruth, SuccessPart
<1>4. QED
  BY <1>1, <1>2, <1>3 DEF IInv

(***************************************************************************)
(* A run that has returned or crashed leaves only what is on disk and in   *)
(* the environment to be shown.                                            *)
(***************************************************************************)
LEMMA RunOver ==
  ASSUME IInv, ForgetRun, UNCHANGED disk, faulty' \in BOOLEAN,
         effect' \in [AllSteps -> {"absent", "partial", "applied"}],
         unrecorded' \subseteq AllSteps, JournalTruth'
  PROVE  IInv'
<1> USE DEF ForgetRun, disk
<1>1. TypeOK'
  <2>1. approved' \in BOOLEAN
    OBVIOUS
  <2>2. QED
    BY <2>1 DEF IInv, TypeOK
<1>2. RunPart' /\ TrustPart' /\ DraftPart' /\ LoopPart'
  BY DEF RunPart, TrustPart, DraftPart, DraftOnDisk, LoopPart, Before, Loop,
         Undoing
<1>3. SuccessPart'
  <2>1. SuccessPart
    BY DEF IInv
  <2>2. QED
    BY <2>1 DEF SuccessPart
<1>4. QED
  BY <1>1, <1>2, <1>3 DEF IInv, TruthPart

(***************************************************************************)
(* A run that is about to return, its journal and environment as before.   *)
(***************************************************************************)
LEMMA RunReturns ==
  ASSUME IInv, NEW result \in {"ok", "error", "untrusted", "reported"},
         Return(result), plan \in Digests, UNCHANGED <<disk, effect, unrecorded>>,
         UNCHANGED run, faulty' \in BOOLEAN
  PROVE  IInv'
<1> USE DEF Return, disk, run, request, trustCheck, progress, undoing
<1>1. TypeOK'
  <2>1. approved' \in BOOLEAN
    <3>1. approved \in BOOLEAN
      BY DEF IInv, TypeOK
    <3>2. UNCHANGED approved
      OBVIOUS
    <3>3. QED
      BY ONLY <3>1, <3>2
  <2>2. QED
    BY <2>1 DEF IInv, TypeOK, Calls
<1>2. RunPart' /\ TrustPart' /\ DraftPart' /\ LoopPart'
  BY DEF IInv, RunPart, TrustPart, DraftPart, DraftOnDisk, LoopPart, Before,
         Loop, Undoing
<1>3. SuccessPart' /\ TruthPart'
  <2>1. SuccessPart /\ TruthPart
    BY DEF IInv
  <2>2. QED
    BY <2>1 DEF SuccessPart, TruthPart, JournalTruth, Applied
<1>4. QED
  BY <1>1, <1>2, <1>3 DEF IInv

(***************************************************************************)
(* Begin keeps the inductive invariant.                                    *)
(***************************************************************************)
LEMMA BeginIInv ==
  ASSUME IInv, NEW d \in Digests, NEW b \in BOOLEAN, Begin(d, b)
  PROVE  IInv'
<1> USE DEF Begin, disk, trustCheck, progress, undoing
<1>1. TypeOK'
  <2>1. approved' \in BOOLEAN /\ faulty' \in BOOLEAN
    BY DEF IInv, TypeOK
  <2>2. QED
    BY <2>1 DEF IInv, TypeOK, Calls
<1>2. RunPart'
  BY DEF IInv, RunPart, Before
<1>3. TrustPart' /\ DraftPart' /\ LoopPart'
  BY DEF IInv, TrustPart, DraftPart, DraftOnDisk, LoopPart, Before, Loop,
         Undoing
<1>4. SuccessPart' /\ TruthPart'
  <2>1. SuccessPart /\ TruthPart
    BY DEF IInv
  <2>2. QED
    BY <2>1 DEF SuccessPart, TruthPart, JournalTruth, Applied
<1>5. QED
  BY <1>1, <1>2, <1>3, <1>4 DEF IInv

(***************************************************************************)
(* LoadTrust keeps the inductive invariant.                                *)
(***************************************************************************)
LEMMA LoadTrustIInv ==
  ASSUME IInv, LoadTrust
  PROVE  IInv'
<1> USE DEF disk, run, request, trustCheck, progress, undoing
<1>1. plan \in Digests /\ faulty' \in BOOLEAN /\ approved \in BOOLEAN
  BY DEF IInv, RunPart, LoadTrust, TypeOK
<1>2. CASE pc' = "release"
  <2>1. UNCHANGED run
    BY <1>2 DEF LoadTrust, CallFails
  <2>2. PICK result \in {"untrusted", "error"} : Return(result)
    BY <1>2 DEF LoadTrust, CallFails
  <2>3. QED
    BY <1>1, <2>1, <2>2, RunReturns DEF LoadTrust
<1>3. CASE pc' # "release"
  <2> DEFINE lacking == TrustOf[plan] \ trust
  <2>1. /\ pc = "loadTrust" /\ pc' = "loadJournal"
        /\ trustRecord' = IF TrustOf[plan] = {} THEN {} ELSE trust
        /\ missing' = lacking
        /\ UNCHANGED <<disk, effect, unrecorded, faulty, outcome,
                       request, draft, progress, offers, undoing>>
    BY <1>3 DEF LoadTrust, CallFails, Return
  <2>2. TrustOf[plan] \subseteq Fingerprints
    BY <1>1, SyncAssumption
  <2>3. TypeOK'
    <3>1. approved' \in BOOLEAN
      BY <1>1, <2>1
    <3>2. QED
      BY <1>1, <2>1, <2>2, <3>1 DEF IInv, TypeOK, Calls
  <2>4. RunPart' /\ TrustPart' /\ DraftPart' /\ LoopPart'
    BY <2>1 DEF IInv, RunPart, TrustPart, DraftPart, DraftOnDisk, LoopPart,
                Before, Loop, Undoing
  <2>5. SuccessPart' /\ TruthPart'
    <3>1. SuccessPart /\ TruthPart
      BY DEF IInv
    <3>2. QED
      BY <2>1, <3>1 DEF SuccessPart, TruthPart, JournalTruth, Applied
  <2>6. QED
    BY <2>3, <2>4, <2>5 DEF IInv
<1>4. QED
  BY <1>2, <1>3

(***************************************************************************)
(* LoadJournal keeps the inductive invariant.                              *)
(***************************************************************************)
LEMMA LoadJournalIInv ==
  ASSUME IInv, LoadJournal
  PROVE  IInv'
<1> USE DEF disk, run, request, trustCheck, progress, undoing
<1>1. plan \in Digests /\ faulty' \in BOOLEAN /\ approved' \in BOOLEAN
  BY DEF IInv, RunPart, LoadJournal, CallFails, TypeOK
<1>2. journal.digest = plan => journal \in Journals
  BY <1>1, NoJournalFields, SyncAssumption DEF IInv, TypeOK
<1>3. SuccessPart' /\ TruthPart'
  <2>1. SuccessPart /\ TruthPart
    BY DEF IInv
  <2>2. QED
    BY <2>1 DEF LoadJournal, SuccessPart, TruthPart, JournalTruth, Applied
<1>4. CASE CallFails
  <2>1. Return("error") /\ UNCHANGED run
    BY <1>4 DEF CallFails
  <2>2. QED
    BY <1>1, <2>1, RunReturns DEF LoadJournal
<1>5. CASE /\ journal.digest # plan
           /\ draft' = NewJournal(plan)
           /\ pc' = "saveJournal"
           /\ UNCHANGED <<listed, outcome>>
  <2>1. NewJournal(plan) \in Journals
    BY <1>1, NewJournalFields
  <2>2. TypeOK'
    BY <1>1, <1>5, <2>1 DEF IInv, TypeOK, Calls, LoadJournal
  <2>3. DraftPart'
    <3>1. /\ draft'.status = "pending" /\ Completed(draft') = {}
          /\ \A i \in DOMAIN draft'.entry : draft'.entry[i] = "pending"
      BY <1>1, <1>5, NewJournalFields, JournalFields
    <3>2. QED
      BY <1>5, <3>1 DEF DraftPart, DraftOnDisk, LoadJournal, Loop, Undoing
  <2>4. RunPart' /\ TrustPart' /\ LoopPart'
    BY <1>5 DEF IInv, LoadJournal, RunPart, TrustPart, LoopPart,
                Before, Loop, Undoing
  <2>5. QED
    BY <1>3, <2>2, <2>3, <2>4 DEF IInv
<1>6. CASE /\ journal.digest = plan /\ journal.status = "succeeded"
           /\ draft' = journal
           /\ listed' = DOMAIN journal.entry
           /\ IF missing = {}
              THEN Return("ok")
              ELSE pc' = "approveOnly" /\ UNCHANGED outcome
  <2>1. listed' = StepsOf(plan) /\ listed' \subseteq Nat
    BY <1>1, <1>2, <1>6, JournalFields, StepsKnown
  <2>2. TypeOK'
    BY <1>1, <1>6, <2>1 DEF IInv, TypeOK, Calls, LoadJournal, Return
  <2>3. RunPart' /\ TrustPart' /\ DraftPart' /\ LoopPart'
    BY <1>1, <1>6, <2>1 DEF IInv, LoadJournal, Return, RunPart, TrustPart,
            DraftPart, DraftOnDisk, LoopPart, Before, Loop, Undoing
  <2>4. QED
    BY <1>3, <2>2, <2>3 DEF IInv
<1>7. CASE /\ journal.digest = plan /\ journal.status # "succeeded"
           /\ draft' = PreparedRetry(journal)
           /\ listed' = Completed(draft')
           /\ pc' = "saveJournal"
           /\ UNCHANGED outcome
  <2>1. /\ draft' \in Journals /\ draft'.digest = plan
        /\ draft'.status = "pending"
        /\ \A i \in StepsOf(plan) :
               draft'.entry[i] \in {"pending", "completed"}
    BY <1>2, <1>7, RetryFields
  <2>2. DOMAIN draft'.entry = StepsOf(plan) /\ listed' \subseteq StepsOf(plan)
    BY <1>7, <2>1, JournalFields DEF Completed
  <2>3. listed' \subseteq Nat
    BY <1>1, <2>2, StepsKnown
  <2>4. TypeOK'
    BY <1>1, <1>7, <2>1, <2>3 DEF IInv, TypeOK, Calls, LoadJournal
  <2>5. DraftPart'
    BY <1>7, <2>1, <2>2 DEF DraftPart, DraftOnDisk, LoadJournal, Loop, Undoing
  <2>6. RunPart' /\ TrustPart' /\ LoopPart'
    BY <1>1, <1>7, <2>2 DEF IInv, LoadJournal, RunPart, TrustPart, LoopPart,
            Before, Loop, Undoing
  <2>7. QED
    BY <1>3, <2>4, <2>5, <2>6 DEF IInv
<1>8. QED
  BY <1>4, <1>5, <1>6, <1>7 DEF LoadJournal

(***************************************************************************)
(* SaveTrust keeps the inductive invariant.                                *)
(***************************************************************************)
LEMMA SaveTrustIInv ==
  ASSUME IInv, SaveTrust
  PROVE  IInv'
<1> USE DEF run, request, trustCheck, progress, undoing
<1> DEFINE record == trustRecord \cup TrustOf[plan]
<1>1. plan \in Digests /\ faulty' \in BOOLEAN /\ approved \in BOOLEAN
  BY DEF IInv, RunPart, SaveTrust, TypeOK
<1>2. /\ pc \in {"approveOnly", "saveTrust"}
      /\ UNCHANGED <<journal, environment, effect, run, unrecorded, faulty>>
      /\ pc' \in {"step", "release"}
      /\ outcome' \in {outcome, "ok", "error"}
      /\ trust' \in {trust, record}
      /\ pc' = "step" => pc = "saveTrust" /\ trust' = record
  BY DEF SaveTrust, Return
<1>3. trust \subseteq record /\ record \subseteq Fingerprints
  BY <1>1, <1>2, SyncAssumption DEF IInv, TypeOK, TrustPart
<1>4. trust \subseteq trust' /\ trust' \subseteq Fingerprints
  BY <1>2, <1>3 DEF IInv, TypeOK
<1>5. TypeOK'
  <2>1. UNCHANGED approved
    BY <1>2
  <2>2. approved' \in BOOLEAN
    BY ONLY <1>1, <2>1
  <2>3. QED
    BY <1>1, <1>2, <1>4, <2>2 DEF IInv, TypeOK, Calls
<1>6. RunPart' /\ TrustPart' /\ DraftPart' /\ LoopPart'
  <2>1. CASE pc' = "release"
    BY <1>1, <1>2, <2>1 DEF IInv, RunPart, TrustPart, DraftPart,
                       DraftOnDisk, LoopPart, Before, Loop, Undoing
  <2>2. CASE pc' = "step"
    <3>1. pc = "saveTrust" /\ TrustOf[plan] \subseteq trust'
      BY <1>2, <2>2
    <3>2. cursor = 1 /\ \A i \in StepsOf(plan) : ~(i < cursor)
      BY <1>1, <3>1, StepsKnown DEF IInv, RunPart, Before
    <3>3. QED
      BY <1>1, <1>2, <2>2, <3>1, <3>2 DEF IInv, RunPart, TrustPart,
         DraftPart, DraftOnDisk, LoopPart, Before, Loop, Undoing
  <2>3. QED
    BY <1>2, <2>1, <2>2
<1>7. SuccessPart' /\ TruthPart'
  <2>1. SuccessPart /\ TruthPart
    BY DEF IInv
  <2>2. TruthPart'
    BY <1>2, <2>1 DEF TruthPart, JournalTruth, Applied
  <2>3. SuccessPart'
    BY <1>2, <1>4, <2>1 DEF SuccessPart
  <2>4. QED
    BY <2>2, <2>3
<1>8. QED
  BY <1>5, <1>6, <1>7 DEF IInv

(***************************************************************************)
(* SaveInitialJournal keeps the inductive invariant: what the saved        *)
(* journal shows completed is what the one before it showed.               *)
(***************************************************************************)
LEMMA SaveInitialJournalIInv ==
  ASSUME IInv, SaveInitialJournal
  PROVE  IInv'
<1> USE DEF run, request, trustCheck, progress, undoing
<1>1. /\ plan \in Digests /\ faulty' \in BOOLEAN /\ approved \in BOOLEAN
      /\ pc = "saveJournal"
      /\ UNCHANGED <<trust, environment, effect, run, unrecorded, faulty>>
  BY DEF IInv, RunPart, SaveInitialJournal, TypeOK
<1>2. /\ pc' \in {"step", "saveTrust", "release"}
      /\ pc' = "step" => missing = {}
      /\ pc' = "saveTrust" => missing # {}
      /\ pc' \in {"step", "saveTrust"} => journal' = draft
      /\ journal' \in {journal, draft}
      /\ outcome' \in {outcome, "error"}
  BY <1>1 DEF SaveInitialJournal, SaveJournal, Return
<1>3. /\ draft \in Journals /\ draft.digest = plan
      /\ draft.status = "pending"
      /\ DOMAIN draft.entry = StepsOf(plan)
      /\ \/ journal.digest = plan /\ Completed(draft) = Completed(journal)
         \/ Completed(draft) = {}
  <2>1. CASE journal.digest # plan /\ draft = NewJournal(plan)
    BY <1>1, <2>1, NewJournalFields, JournalFields
  <2>2. CASE /\ journal.digest = plan
             /\ draft = PreparedRetry(journal)
    <3>1. journal \in Journals
      BY <1>1, <2>2, NoJournalFields, SyncAssumption DEF IInv, TypeOK
    <3>2. QED
      BY <2>2, <3>1, RetryFields, JournalFields
  <2>3. QED
    BY <1>1, <2>1, <2>2 DEF IInv, DraftPart
<1>4. TypeOK'
  <2>1. UNCHANGED approved
    BY <1>1
  <2>2. approved' \in BOOLEAN
    BY ONLY <1>1, <2>1
  <2>3. journal' \in Journals \cup {NoJournal}
    BY <1>2 DEF IInv, TypeOK
  <2>4. QED
    BY <1>1, <1>2, <2>2, <2>3 DEF IInv, TypeOK, Calls
<1>5. RunPart' /\ TrustPart' /\ DraftPart' /\ LoopPart'
  <2>1. cursor = 1 /\ ranNow = {} /\ \A i \in StepsOf(plan) : ~(i < cursor)
    BY <1>1, StepsKnown DEF IInv, RunPart, Before
  <2>2. RunPart' /\ LoopPart'
    BY <1>1, <1>2, <2>1 DEF IInv, RunPart, LoopPart, Before, Loop, Undoing
  <2>3. TrustPart'
    BY <1>1, <1>2 DEF IInv, TrustPart, Loop, Undoing
  <2>4. DraftPart'
    BY <1>1, <1>2, <1>3 DEF IInv, DraftPart, DraftOnDisk, Loop, Undoing
  <2>5. QED
    BY <2>2, <2>3, <2>4
<1>6. SuccessPart' /\ TruthPart'
  <2>1. SuccessPart /\ TruthPart
    BY DEF IInv
  <2>2. TruthPart'
    BY <1>1, <1>2, <1>3, <2>1 DEF TruthPart, JournalTruth, Applied
  <2>3. SuccessPart'
    BY <1>1, <1>2, <1>3, <2>1 DEF SuccessPart
  <2>4. QED
    BY <2>2, <2>3
<1>7. QED
  BY <1>4, <1>5, <1>6 DEF IInv

(***************************************************************************)
(* SkipCompleted keeps the inductive invariant.                            *)
(***************************************************************************)
LEMMA SkipCompletedIInv ==
  ASSUME IInv, SkipCompleted
  PROVE  IInv'
<1> USE DEF SkipCompleted, disk, request, trustCheck, undoing
<1>1. plan \in Digests /\ Length[plan] \in Nat
  BY SyncAssumption DEF IInv, RunPart
<1>2. /\ pc = "step" /\ cursor \in StepsOf(plan)
      /\ draft.entry[cursor] = "completed" /\ cursor' = cursor + 1
  OBVIOUS
<1>3. TypeOK'
  <2>1. approved' \in BOOLEAN /\ faulty' \in BOOLEAN
    BY DEF IInv, TypeOK
  <2>2. QED
    BY <2>1 DEF IInv, TypeOK
<1>4. RunPart' /\ TrustPart' /\ DraftPart'
  BY DEF IInv, RunPart, TrustPart, DraftPart, DraftOnDisk, Before, Loop,
         Undoing
<1>5. LoopPart'
  <2>1. \A i \in StepsOf(plan) : i < cursor' => i < cursor \/ i = cursor
    BY <1>1, <1>2, StepsKnown DEF StepsOf
  <2>2. QED
    BY <1>2, <2>1 DEF IInv, LoopPart, Loop, Undoing
<1>6. SuccessPart' /\ TruthPart'
  <2>1. SuccessPart /\ TruthPart
    BY DEF IInv
  <2>2. QED
    BY <2>1 DEF SuccessPart, TruthPart, JournalTruth, Applied
<1>7. QED
  BY <1>3, <1>4, <1>5, <1>6 DEF IInv

(***************************************************************************)
(* RecordState keeps the inductive invariant: the record names every       *)
(* action the journal shows completed.                                     *)
(***************************************************************************)
LEMMA RecordStateIInv ==
  ASSUME IInv, RecordState
  PROVE  IInv'
<1> USE DEF run, request, trustCheck, progress, undoing
<1> DEFINE record == [digest |-> plan, completed |-> listed \cup {cursor}]
<1>1. /\ pc = "step" /\ cursor \in StepsOf(plan) /\ Current \in RecordSteps
      /\ draft.entry[cursor] # "completed"
      /\ UNCHANGED <<journal, trust, effect, run, outcome, unrecorded, faulty>>
      /\ pc' \in {"complete", "fail"}
      /\ environment' \in {environment, record}
      /\ pc' = "complete" => environment' = record
  BY DEF RecordState, AtStep
<1>2. /\ plan \in Digests /\ draft \in Journals
      /\ journal = draft /\ draft.digest = plan
      /\ DOMAIN draft.entry = StepsOf(plan)
      /\ Completed(draft) = {i \in StepsOf(plan) : draft.entry[i] = "completed"}
  BY <1>1, DraftFacts DEF Loop
<1>3. TypeOK'
  <2>1. listed \cup {cursor} \subseteq StepsOf(plan)
    BY <1>1 DEF IInv, RunPart
  <2>2. record \in EnvironmentRecords
    BY <1>2, <2>1 DEF EnvironmentRecords
  <2>3. environment' \in EnvironmentRecords \cup {NoEnvironment}
    <3>1. environment \in EnvironmentRecords \cup {NoEnvironment}
      BY DEF IInv, TypeOK
    <3>2. QED
      BY ONLY <1>1, <2>2, <3>1
  <2>4. approved' \in BOOLEAN /\ faulty' \in BOOLEAN
    BY <1>1 DEF IInv, TypeOK
  <2>5. QED
    BY <1>1, <2>3, <2>4 DEF IInv, TypeOK, Calls
<1>4. RunPart' /\ TrustPart' /\ DraftPart'
  BY <1>1 DEF IInv, RunPart, TrustPart, DraftPart, DraftOnDisk, Before, Loop,
              Undoing
<1>5. LoopPart'
  <2>1. draft.entry[cursor] = "pending"
    BY <1>1, <1>2 DEF IInv, DraftPart, Loop
  <2>2. pc' = "complete" => Applied(plan, cursor)'
    BY <1>1 DEF Applied, Current
  <2>3. QED
    BY <1>1, <2>1, <2>2 DEF IInv, LoopPart, Loop, Undoing
<1>6. TruthPart'
  <2>1. SUFFICES ASSUME NEW i \in Completed(journal)
                 PROVE  Applied(plan, i)' \/ <<plan, i>> \in unrecorded
    BY <1>1, <1>2 DEF TruthPart, JournalTruth
  <2>2. Applied(plan, i) \/ <<plan, i>> \in unrecorded
    BY <1>2 DEF IInv, TruthPart, JournalTruth
  <2>3. i \in listed
    BY <1>1, <1>2 DEF IInv, DraftPart, Loop
  <2>4. QED
    BY <1>1, <2>2, <2>3 DEF Applied
<1>7. SuccessPart'
  <2>1. SuccessPart
    BY DEF IInv
  <2>2. QED
    BY <1>1, <2>1 DEF SuccessPart
<1>8. QED
  BY <1>3, <1>4, <1>5, <1>6, <1>7 DEF IInv

(***************************************************************************)
(* Execute keeps the inductive invariant: it touches no action the journal *)
(* shows completed.                                                        *)
(***************************************************************************)
LEMMA ExecuteIInv ==
  ASSUME IInv, Execute
  PROVE  IInv'
<1> USE DEF disk, request, trustCheck, progress, undoing
<1>1. /\ pc = "step" /\ cursor \in StepsOf(plan) /\ Current \notin RecordSteps
      /\ draft.entry[cursor] # "completed"
      /\ UNCHANGED <<disk, request, trustCheck, draft, progress, undoing,
                     outcome, faulty>>
  BY DEF Execute, AtStep
<1>2. /\ plan \in Digests /\ draft \in Journals
      /\ journal = draft /\ draft.digest = plan
      /\ DOMAIN draft.entry = StepsOf(plan)
      /\ Completed(draft) = {i \in StepsOf(plan) : draft.entry[i] = "completed"}
  BY <1>1, DraftFacts DEF Loop
<1>3. \A base \in Disturbed(plan) :
          /\ base \in [AllSteps -> {"absent", "partial", "applied"}]
          /\ \A i \in StepsOf(plan) : base[<<plan, i>>] = effect[<<plan, i>>]
  BY <1>2, StepsKnown DEF Disturbed, IInv, TypeOK
<1>4. /\ effect' \in [AllSteps -> {"absent", "partial", "applied"}]
      /\ \A i \in StepsOf(plan) \ {cursor} :
             effect'[<<plan, i>>] = effect[<<plan, i>>]
  BY <1>1, <1>2, <1>3, StepsKnown DEF Execute, Current
<1>5. /\ pc' \in {"complete", "fail"}
      /\ offers' = offers \/ (Current \in UndoableSteps
                              /\ offers' = offers \cup {cursor})
      /\ unrecorded' \in {unrecorded, unrecorded \ {Current}}
  BY DEF Execute
<1>6. TypeOK'
  <2>1. approved' \in BOOLEAN /\ faulty' \in BOOLEAN
    BY <1>1 DEF IInv, TypeOK
  <2>2. offers' \subseteq Nat
    BY <1>1, <1>2, <1>5, StepsKnown DEF IInv, TypeOK
  <2>3. QED
    BY <1>1, <1>4, <1>5, <2>1, <2>2 DEF IInv, TypeOK, Calls
<1>7. RunPart' /\ TrustPart' /\ DraftPart'
  BY <1>1, <1>5 DEF IInv, RunPart, TrustPart, DraftPart, DraftOnDisk, Before,
                    Loop, Undoing, Current
<1>8. LoopPart'
  <2>1. draft.entry[cursor] = "pending"
    BY <1>1, <1>2 DEF IInv, DraftPart, Loop
  <2>2. pc' = "complete" => effect'[Current] = "applied"
    BY <1>1, <1>2, <1>3, StepsKnown DEF Execute, Current
  <2>3. pc' = "complete" => Applied(plan, cursor)'
    BY <1>1, <2>2 DEF Applied, Current
  <2>4. QED
    BY <1>1, <1>5, <2>1, <2>3 DEF IInv, LoopPart, Loop, Undoing
<1>9. TruthPart'
  <2>1. SUFFICES ASSUME NEW i \in Completed(journal)
                 PROVE  Applied(plan, i)' \/ <<plan, i>> \in unrecorded'
    BY <1>1, <1>2 DEF TruthPart, JournalTruth
  <2>2. Applied(plan, i) \/ <<plan, i>> \in unrecorded
    BY <1>2 DEF IInv, TruthPart, JournalTruth
  <2>3. i \in StepsOf(plan) /\ i # cursor
    BY <1>1, <1>2
  <2>4. QED
    BY <1>1, <1>4, <1>5, <2>2, <2>3 DEF Applied, Current
<1>10. SuccessPart'
  <2>1. SuccessPart
    BY DEF IInv
  <2>2. QED
    BY <1>1, <2>1 DEF SuccessPart
<1>11. QED
  BY <1>6, <1>7, <1>8, <1>9, <1>10 DEF IInv

(***************************************************************************)
(* RecordCompletion keeps the inductive invariant, also when the save      *)
(* reports an error.                                                       *)
(***************************************************************************)
LEMMA RecordCompletionIInv ==
  ASSUME IInv, RecordCompletion
  PROVE  IInv'
<1> USE DEF request, trustCheck, undoing
<1> DEFINE marked == Marked(draft, cursor, "completed")
<1>1. /\ pc = "complete" /\ draft' = marked
      /\ UNCHANGED <<trust, environment, effect, request, trustCheck, offers,
                     undoing, unrecorded, faulty>>
      /\ pc' \in {"step", "release"}
      /\ journal' \in {journal, marked}
      /\ outcome' \in {outcome, "error"}
      /\ \/ /\ pc' = "step" /\ journal' = marked
            /\ listed' = listed \cup {cursor}
            /\ ranNow' = ranNow \cup {cursor}
            /\ cursor' = cursor + 1
         \/ /\ pc' = "release"
            /\ UNCHANGED progress
  BY DEF RecordCompletion, SaveJournal, Return
<1>2. /\ plan \in Digests /\ draft \in Journals
      /\ journal = draft /\ draft.digest = plan
      /\ DOMAIN draft.entry = StepsOf(plan)
      /\ Completed(draft) = {i \in StepsOf(plan) : draft.entry[i] = "completed"}
  BY <1>1, DraftFacts DEF Loop
<1>3. /\ cursor \in StepsOf(plan) /\ draft.entry[cursor] = "pending"
      /\ Applied(plan, cursor)
  BY <1>1 DEF IInv, LoopPart
<1>4. /\ marked \in Journals /\ marked.digest = plan
      /\ marked.status = "pending" /\ DOMAIN marked.entry = StepsOf(plan)
      /\ marked.entry[cursor] = "completed"
      /\ \A k \in StepsOf(plan) :
             k # cursor => marked.entry[k] = draft.entry[k]
      /\ Completed(marked) = Completed(draft) \cup {cursor}
  <2>1. draft.status = "pending"
    BY <1>1 DEF IInv, DraftPart, Loop
  <2>2. cursor \in StepsOf(draft.digest)
    BY <1>2, <1>3
  <2>3. /\ marked \in Journals
        /\ marked.digest = draft.digest /\ marked.status = draft.status
        /\ marked.entry = [draft.entry EXCEPT ![cursor] = "completed"]
        /\ Completed(marked) = Completed(draft) \cup {cursor}
    BY <1>2, <2>2, CompleteFields, Zenon
  <2> HIDE DEF marked
  <2>4. QED
    BY <1>2, <2>1, <2>3, JournalFields
<1> HIDE DEF marked
<1>5. Length[plan] \in Nat /\ StepsOf(plan) \subseteq Nat \ {0}
  BY <1>2, StepsKnown, SyncAssumption
<1>6. TypeOK'
  <2>1. approved' \in BOOLEAN /\ faulty' \in BOOLEAN
    BY <1>1 DEF IInv, TypeOK
  <2>2. journal' \in Journals \cup {NoJournal}
    BY <1>1, <1>4 DEF IInv, TypeOK
  <2>3. listed' \subseteq Nat /\ ranNow' \subseteq Nat /\ cursor' \in Nat \ {0}
    BY <1>1, <1>3, <1>5 DEF IInv, TypeOK, progress
  <2>4. QED
    BY <1>1, <1>4, <2>1, <2>2, <2>3 DEF IInv, TypeOK, Calls
<1>7. RunPart' /\ TrustPart'
  BY <1>1, <1>2, <1>3 DEF IInv, RunPart, TrustPart, Before, Loop, Undoing,
                          progress
<1>8. DraftPart'
  <2>1. ASSUME pc' = "step"
        PROVE  /\ \A i \in StepsOf(plan) :
                      marked.entry[i] \in {"pending", "completed"}
               /\ Completed(marked) \subseteq listed'
    BY <1>1, <1>2, <1>3, <1>4, <2>1 DEF IInv, DraftPart, Loop
  <2>2. QED
    BY <1>1, <1>2, <1>4, <2>1 DEF DraftPart, DraftOnDisk, Loop, Undoing
<1>9. LoopPart'
  <2>1. ASSUME pc' = "step", NEW i \in StepsOf(plan), i < cursor'
        PROVE  marked.entry[i] = "completed"
    <3>1. i < cursor \/ i = cursor
      BY <1>1, <1>3, <1>5, <2>1
    <3>2. QED
      BY <1>1, <1>4, <2>1, <3>1 DEF IInv, LoopPart, Loop
  <2>2. pc' = "step" => ranNow' \subseteq Completed(marked)
    BY <1>1, <1>4 DEF IInv, LoopPart, Loop
  <2>3. QED
    BY <1>1, <2>1, <2>2 DEF LoopPart, Loop, Undoing
<1>10. TruthPart'
  <2>1. TruthPart
    BY DEF IInv
  <2>2. QED
    BY <1>1, <1>2, <1>3, <1>4, <2>1 DEF TruthPart, JournalTruth, Applied
<1>11. SuccessPart'
  <2>1. SuccessPart
    BY DEF IInv
  <2>2. QED
    BY <1>1, <1>4, <2>1 DEF SuccessPart
<1>12. QED
  BY <1>6, <1>7, <1>8, <1>9, <1>10, <1>11 DEF IInv

(***************************************************************************)
(* RecordFailure keeps the inductive invariant.                            *)
(***************************************************************************)
LEMMA RecordFailureIInv ==
  ASSUME IInv, RecordFailure
  PROVE  IInv'
<1> USE DEF request, trustCheck, progress
<1> DEFINE marked == Marked(draft, cursor, "failed")
           failed == [marked EXCEPT !.status = "failed"]
<1>1. /\ pc = "fail" /\ draft' = failed
      /\ toUndo' = ranNow
      /\ UNCHANGED <<trust, environment, effect, request, trustCheck, progress,
                     offers, compensated, manual, unrecorded, faulty>>
      /\ pc' \in {"undo", "release"}
      /\ journal' \in {journal, failed}
      /\ pc' = "undo" => journal' = failed
      /\ outcome' \in {outcome, "error"}
  BY DEF RecordFailure, SaveJournal, Return
<1>2. /\ plan \in Digests /\ draft \in Journals
      /\ journal = draft /\ draft.digest = plan
      /\ DOMAIN draft.entry = StepsOf(plan)
      /\ Completed(draft) = {i \in StepsOf(plan) : draft.entry[i] = "completed"}
  BY <1>1, DraftFacts DEF Loop
<1>3. /\ cursor \in StepsOf(plan) /\ draft.entry[cursor] = "pending"
      /\ ranNow \subseteq Completed(draft)
  BY <1>1 DEF IInv, LoopPart, Loop
<1>4. /\ failed \in Journals /\ failed.digest = plan
      /\ failed.status = "failed"
      /\ Completed(failed) = Completed(draft)
  <2>1. "failed" \in EntryStatus \ {"completed"}
    BY DEF EntryStatus
  <2>2. marked \in Journals /\ marked.digest = plan
        /\ Completed(marked) = Completed(draft) \ {cursor}
    <3>1. cursor \in StepsOf(draft.digest)
      BY <1>2, <1>3
    <3>2. /\ marked \in Journals /\ marked.digest = draft.digest
          /\ Completed(marked) = Completed(draft) \ {cursor}
      BY <1>2, <2>1, <3>1, UncompleteFields, Zenon
    <3>3. QED
      BY <1>2, <3>2, Zenon
  <2>3. cursor \notin Completed(draft)
    BY <1>2, <1>3
  <2> HIDE DEF marked
  <2>4. QED
    BY <2>2, <2>3, ClosedFields
<1> HIDE DEF failed
<1>5. TypeOK'
  <2>1. approved' \in BOOLEAN /\ faulty' \in BOOLEAN
    BY <1>1 DEF IInv, TypeOK
  <2>2. journal' \in Journals \cup {NoJournal}
    BY <1>1, <1>4 DEF IInv, TypeOK
  <2>3. QED
    BY <1>1, <1>4, <2>1, <2>2 DEF IInv, TypeOK, Calls
<1>6. RunPart' /\ TrustPart' /\ DraftPart' /\ LoopPart'
  BY <1>1, <1>3, <1>4 DEF IInv, RunPart, TrustPart, DraftPart, DraftOnDisk,
                          LoopPart, Before, Loop, Undoing
<1>7. TruthPart'
  <2>1. TruthPart
    BY DEF IInv
  <2>2. QED
    BY <1>1, <1>2, <1>4, <2>1 DEF TruthPart, JournalTruth, Applied
<1>8. SuccessPart'
  <2>1. SuccessPart
    BY DEF IInv
  <2>2. QED
    BY <1>1, <1>4, <2>1 DEF SuccessPart
<1>9. QED
  BY <1>5, <1>6, <1>7, <1>8 DEF IInv

(***************************************************************************)
(* LeaveCompleted keeps the inductive invariant.                           *)
(***************************************************************************)
LEMMA LeaveCompletedIInv ==
  ASSUME IInv, LeaveCompleted
  PROVE  IInv'
<1> USE DEF LeaveCompleted, disk, request, trustCheck, progress
<1>1. Latest \in Nat
  <2>1. plan \in Digests /\ Latest \in StepsOf(plan)
    BY LatestFacts, DraftFacts DEF Undoing
  <2>2. QED
    BY <2>1, StepsKnown
<1>2. TypeOK'
  <2>1. approved' \in BOOLEAN /\ faulty' \in BOOLEAN
    BY DEF IInv, TypeOK
  <2>2. manual' \subseteq Nat /\ toUndo' \subseteq Nat
    BY <1>1 DEF IInv, TypeOK
  <2>3. QED
    BY <2>1, <2>2 DEF IInv, TypeOK
<1>3. RunPart' /\ TrustPart' /\ DraftPart' /\ LoopPart'
  BY DEF IInv, RunPart, TrustPart, DraftPart, DraftOnDisk, LoopPart, Before,
         Loop, Undoing
<1>4. SuccessPart' /\ TruthPart'
  <2>1. SuccessPart /\ TruthPart
    BY DEF IInv
  <2>2. QED
    BY <2>1 DEF SuccessPart, TruthPart, JournalTruth, Applied
<1>5. QED
  BY <1>2, <1>3, <1>4 DEF IInv

(***************************************************************************)
(* What a compensation that is attempted, or cut off, does to the truth of *)
(* the journal.                                                            *)
(***************************************************************************)
LEMMA UndoTruth ==
  ASSUME IInv, AtUndo, NEW left \in {"absent", "partial", "applied"},
         effect' = [effect EXCEPT ![<<plan, Latest>>] = left],
         unrecorded' = unrecorded \cup {<<plan, Latest>>},
         UNCHANGED disk
  PROVE  /\ effect' \in [AllSteps -> {"absent", "partial", "applied"}]
         /\ unrecorded' \subseteq AllSteps
         /\ JournalTruth'
<1>1. plan \in Digests /\ Latest \in StepsOf(plan) /\ journal.digest = plan
  BY DraftFacts, LatestFacts DEF AtUndo, Undoing
<1>2. <<plan, Latest>> \in AllSteps
  BY <1>1, StepsKnown
<1>3. effect' \in [AllSteps -> {"absent", "partial", "applied"}]
      /\ unrecorded' \subseteq AllSteps
  BY <1>2 DEF IInv, TypeOK
<1>4. JournalTruth'
  <2>1. SUFFICES ASSUME NEW i \in Completed(journal)
                 PROVE  Applied(journal.digest, i)'
                        \/ <<plan, i>> \in unrecorded'
    BY <1>1 DEF JournalTruth, disk
  <2>2. Applied(plan, i) \/ <<plan, i>> \in unrecorded
    BY <1>1 DEF IInv, TruthPart, JournalTruth
  <2>3. i \in StepsOf(plan)
    BY <1>1, DraftFacts DEF AtUndo, Undoing
  <2>4. i # Latest => effect'[<<plan, i>>] = effect[<<plan, i>>]
    BY <1>1, <2>3, StepsKnown DEF IInv, TypeOK
  <2>5. QED
    BY <1>1, <2>2, <2>4 DEF Applied, disk
<1>5. QED
  BY <1>3, <1>4

(***************************************************************************)
(* Undo keeps the inductive invariant.                                     *)
(***************************************************************************)
LEMMA UndoIInv ==
  ASSUME IInv, Undo
  PROVE  IInv'
<1> USE DEF disk, request, trustCheck, progress
<1>1. /\ AtUndo /\ pc = "undo" /\ toUndo # {} /\ Latest \in offers
      /\ unrecorded' = unrecorded \cup {<<plan, Latest>>}
      /\ UNCHANGED <<disk, request, trustCheck, draft, progress, offers,
                     compensated, outcome, faulty>>
      /\ \/ pc' = "recordUndo" /\ UNCHANGED <<toUndo, manual>>
         \/ /\ toUndo' = toUndo \ {Latest}
            /\ manual' = manual \cup {Latest}
            /\ UNCHANGED pc
  BY DEF Undo, AtUndo
<1>2. PICK left \in {"absent", "partial", "applied"} :
          effect' = [effect EXCEPT ![<<plan, Latest>>] = left]
  BY DEF Undo
<1>3. /\ effect' \in [AllSteps -> {"absent", "partial", "applied"}]
      /\ unrecorded' \subseteq AllSteps
      /\ TruthPart'
  BY <1>1, <1>2, UndoTruth DEF TruthPart
<1>4. Latest \in toUndo
  BY <1>1, LatestFacts DEF Undoing
<1>5. TypeOK'
  <2>1. approved' \in BOOLEAN /\ faulty' \in BOOLEAN
    BY <1>1 DEF IInv, TypeOK
  <2>2. manual' \subseteq Nat /\ toUndo' \subseteq Nat
    BY <1>1, <1>4 DEF IInv, TypeOK
  <2>3. QED
    BY <1>1, <1>3, <2>1, <2>2 DEF IInv, TypeOK, Calls
<1>6. RunPart' /\ TrustPart' /\ DraftPart'
  BY <1>1 DEF IInv, RunPart, TrustPart, DraftPart, DraftOnDisk, Before, Loop,
              Undoing
<1>7. LoopPart'
  <2>1. pc' = "recordUndo" => Latest' = Latest
    BY <1>1 DEF Latest
  <2>2. QED
    BY <1>1, <1>4, <2>1 DEF IInv, LoopPart, Loop, Undoing
<1>8. SuccessPart'
  <2>1. SuccessPart
    BY DEF IInv
  <2>2. QED
    BY <1>1, <2>1 DEF SuccessPart
<1>9. QED
  BY <1>3, <1>5, <1>6, <1>7, <1>8 DEF IInv

(***************************************************************************)
(* RecordUndo keeps the inductive invariant: only when the journal shows   *)
(* the compensation is it no longer an unrecorded one.                     *)
(***************************************************************************)
LEMMA RecordUndoIInv ==
  ASSUME IInv, RecordUndo
  PROVE  IInv'
<1> USE DEF request, trustCheck, progress
<1> DEFINE marked == Marked(draft, Latest, "compensated")
<1>1. /\ pc = "recordUndo" /\ draft' = marked
      /\ draft.entry[Latest] = "completed"
      /\ UNCHANGED <<trust, environment, effect, request, trustCheck, progress,
                     offers, manual, faulty>>
      /\ pc' \in {"undo", "release"}
      /\ journal' \in {journal, marked}
      /\ pc' = "undo" => journal' = marked
      /\ outcome' \in {outcome, "error"}
      /\ \/ /\ pc' = "undo"
            /\ compensated' = compensated \cup {Latest}
            /\ toUndo' = toUndo \ {Latest}
         \/ /\ pc' = "release"
            /\ UNCHANGED <<compensated, toUndo>>
      /\ unrecorded' = IF journal' = marked
                       THEN unrecorded \ {<<plan, Latest>>} ELSE unrecorded
  BY DEF RecordUndo, SaveJournal, Return
<1>2. /\ plan \in Digests /\ draft \in Journals
      /\ journal = draft /\ draft.digest = plan
      /\ DOMAIN draft.entry = StepsOf(plan)
      /\ Completed(draft) = {i \in StepsOf(plan) : draft.entry[i] = "completed"}
  BY <1>1, DraftFacts DEF Undoing
<1>3. /\ Latest \in toUndo /\ toUndo \subseteq Completed(draft)
      /\ Latest \in StepsOf(plan) /\ Latest \in Nat
  <2>1. Latest \in toUndo /\ toUndo \subseteq Completed(draft)
    BY <1>1 DEF IInv, LoopPart, Undoing
  <2>2. QED
    BY <1>2, <2>1, StepsKnown
<1>4. /\ marked \in Journals /\ marked.digest = plan
      /\ marked.status = "failed"
      /\ Completed(marked) = Completed(draft) \ {Latest}
  <2>1. "compensated" \in EntryStatus \ {"completed"}
    BY DEF EntryStatus
  <2>2. draft.status = "failed"
    BY <1>1 DEF IInv, DraftPart, Undoing
  <2>3. Latest \in StepsOf(draft.digest)
    BY <1>2, <1>3
  <2>4. /\ marked \in Journals /\ marked.digest = draft.digest
        /\ marked.status = draft.status
        /\ Completed(marked) = Completed(draft) \ {Latest}
    BY <1>2, <2>1, <2>3, UncompleteFields, Zenon
  <2> HIDE DEF marked
  <2>5. QED
    BY <1>2, <2>2, <2>4
<1> HIDE DEF marked
<1>5. TypeOK'
  <2>1. approved' \in BOOLEAN /\ faulty' \in BOOLEAN
    BY <1>1 DEF IInv, TypeOK
  <2>2. journal' \in Journals \cup {NoJournal}
    BY <1>1, <1>4 DEF IInv, TypeOK
  <2>3. compensated' \subseteq Nat /\ toUndo' \subseteq Nat
        /\ unrecorded' \subseteq AllSteps
    BY <1>1, <1>3 DEF IInv, TypeOK
  <2>4. QED
    BY <1>1, <1>4, <2>1, <2>2, <2>3 DEF IInv, TypeOK, Calls
<1>6. RunPart' /\ TrustPart' /\ DraftPart' /\ LoopPart'
  BY <1>1, <1>3, <1>4 DEF IInv, RunPart, TrustPart, DraftPart, DraftOnDisk,
                          LoopPart, Before, Loop, Undoing
<1>7. TruthPart'
  <2>1. SUFFICES ASSUME NEW i \in Completed(journal')
                 PROVE  Applied(plan, i)' \/ <<plan, i>> \in unrecorded'
    BY <1>1, <1>2, <1>4 DEF TruthPart, JournalTruth
  <2>2. i \in Completed(journal)
    BY <1>1, <1>2, <1>4, <2>1
  <2>3. Applied(plan, i) \/ <<plan, i>> \in unrecorded
    BY <1>2, <2>2 DEF IInv, TruthPart, JournalTruth
  <2>4. journal' = marked => i # Latest
    BY <1>4, <2>1
  <2>5. QED
    BY <1>1, <2>3, <2>4 DEF Applied
<1>8. SuccessPart'
  <2>1. SuccessPart
    BY DEF IInv
  <2>2. QED
    BY <1>1, <1>4, <2>1 DEF SuccessPart
<1>9. QED
  BY <1>5, <1>6, <1>7, <1>8 DEF IInv

(***************************************************************************)
(* Succeed keeps the inductive invariant.                                  *)
(***************************************************************************)
LEMMA SucceedIInv ==
  ASSUME IInv, Succeed
  PROVE  IInv'
<1> USE DEF request, trustCheck, progress, undoing
<1> DEFINE succeeded == [draft EXCEPT !.status = "succeeded"]
<1>1. /\ pc = "step" /\ draft' = succeeded
      /\ Completed(draft) = StepsOf(plan)
      /\ UNCHANGED <<trust, environment, effect, request, trustCheck, progress,
                     offers, undoing, unrecorded, faulty>>
      /\ pc' = "release"
      /\ journal' \in {journal, succeeded}
      /\ outcome' \in {"ok", "error"}
  BY DEF Succeed, Return
<1>2. /\ plan \in Digests /\ draft \in Journals
      /\ journal = draft /\ draft.digest = plan
  BY <1>1, DraftFacts DEF Loop
<1>3. /\ succeeded \in Journals /\ succeeded.digest = plan
      /\ Completed(succeeded) = StepsOf(plan)
  BY <1>1, <1>2, ClosedFields
<1> HIDE DEF succeeded
<1>4. TypeOK'
  <2>1. approved' \in BOOLEAN /\ faulty' \in BOOLEAN
    BY <1>1 DEF IInv, TypeOK
  <2>2. journal' \in Journals \cup {NoJournal}
    BY <1>1, <1>3 DEF IInv, TypeOK
  <2>3. QED
    BY <1>1, <1>3, <2>1, <2>2 DEF IInv, TypeOK, Calls
<1>5. RunPart' /\ TrustPart' /\ DraftPart' /\ LoopPart'
  BY <1>1 DEF IInv, RunPart, TrustPart, DraftPart, DraftOnDisk, LoopPart,
              Before, Loop, Undoing
<1>6. TruthPart'
  <2>1. TruthPart
    BY DEF IInv
  <2>2. QED
    BY <1>1, <1>2, <1>3, <2>1 DEF TruthPart, JournalTruth, Applied
<1>7. SuccessPart'
  <2>1. SuccessPart
    BY DEF IInv
  <2>2. TrustOf[plan] \subseteq trust
    BY <1>1 DEF IInv, TrustPart, Loop
  <2>3. QED
    BY <1>1, <1>2, <1>3, <2>1, <2>2 DEF SuccessPart
<1>8. QED
  BY <1>4, <1>5, <1>6, <1>7 DEF IInv

(***************************************************************************)
(* A crash anywhere keeps the inductive invariant.                         *)
(***************************************************************************)
LEMMA CrashIInv ==
  ASSUME IInv, Crash
  PROVE  IInv'
<1>1. /\ ForgetRun /\ UNCHANGED <<disk, faulty>> /\ faulty' \in BOOLEAN
      /\ effect \in [AllSteps -> {"absent", "partial", "applied"}]
      /\ unrecorded \subseteq AllSteps
      /\ JournalTruth
  BY DEF Crash, IInv, TypeOK, TruthPart
<1>2. CASE UNCHANGED <<effect, unrecorded>>
  <2>1. JournalTruth'
    BY <1>1, <1>2 DEF JournalTruth, Applied, disk
  <2>2. QED
    BY <1>1, <1>2, <2>1, RunOver
<1>3. CASE /\ AtStep /\ Current \notin RecordSteps
           /\ \E base \in Disturbed(plan) :
                  effect' = [base EXCEPT ![Current] = "partial"]
           /\ UNCHANGED unrecorded
  <2>1. PICK base \in Disturbed(plan) :
            effect' = [base EXCEPT ![Current] = "partial"]
    BY <1>3
  <2>2. /\ plan \in Digests /\ journal.digest = plan
        /\ Completed(journal) =
               {i \in StepsOf(plan) : journal.entry[i] = "completed"}
        /\ cursor \in StepsOf(plan) /\ journal.entry[cursor] # "completed"
    BY <1>3, DraftFacts DEF AtStep, Loop
  <2>3. /\ base \in [AllSteps -> {"absent", "partial", "applied"}]
        /\ \A i \in StepsOf(plan) : base[<<plan, i>>] = effect[<<plan, i>>]
    BY <1>1, <2>1, <2>2, StepsKnown DEF Disturbed
  <2>4. effect' \in [AllSteps -> {"absent", "partial", "applied"}]
    BY <2>1, <2>3
  <2>5. JournalTruth'
    <3>1. SUFFICES ASSUME NEW i \in Completed(journal)
                   PROVE  Applied(journal.digest, i)'
                          \/ <<plan, i>> \in unrecorded'
      BY <1>1, <2>2 DEF JournalTruth, disk
    <3>2. Applied(plan, i) \/ <<plan, i>> \in unrecorded
      BY <1>1, <2>2 DEF JournalTruth
    <3>3. i \in StepsOf(plan) /\ i # cursor
      BY <2>2
    <3>4. effect'[<<plan, i>>] = effect[<<plan, i>>]
      BY <2>1, <2>2, <2>3, <3>3, StepsKnown DEF Current
    <3>5. QED
      BY <1>1, <1>3, <2>2, <3>2, <3>4 DEF Applied, disk
  <2>6. QED
    BY <1>1, <1>3, <2>4, <2>5, RunOver
<1>4. CASE /\ AtUndo
           /\ effect' = [effect EXCEPT ![<<plan, Latest>>] = "partial"]
           /\ unrecorded' = unrecorded \cup {<<plan, Latest>>}
  BY <1>1, <1>4, UndoTruth, RunOver
<1>5. QED
  BY <1>2, <1>3, <1>4 DEF Crash

-----------------------------------------------------------------------------
(***************************************************************************)
(* Every step of a run, of the user or of a crash keeps the inductive      *)
(* invariant.                                                              *)
(***************************************************************************)
LEMMA NextIInv == IInv /\ [Next]_vars => IInv'
<1> SUFFICES ASSUME IInv, [Next]_vars PROVE IInv'
  OBVIOUS
<1>1. ASSUME NEW d \in Digests, NEW b \in BOOLEAN, Begin(d, b) PROVE IInv'
  BY <1>1, BeginIInv
<1>2. CASE LoadTrust
  BY <1>2, LoadTrustIInv
<1>3. CASE LoadJournal
  BY <1>3, LoadJournalIInv
<1>4. CASE SaveTrust
  BY <1>4, SaveTrustIInv
<1>5. CASE SaveInitialJournal
  BY <1>5, SaveInitialJournalIInv
<1>6. CASE SkipCompleted
  BY <1>6, SkipCompletedIInv
<1>7. CASE RecordState
  BY <1>7, RecordStateIInv
<1>8. CASE Execute
  BY <1>8, ExecuteIInv
<1>9. CASE RecordCompletion
  BY <1>9, RecordCompletionIInv
<1>10. CASE RecordFailure
  BY <1>10, RecordFailureIInv
<1>11. CASE LeaveCompleted
  BY <1>11, LeaveCompletedIInv
<1>12. CASE Undo
  BY <1>12, UndoIInv
<1>13. CASE RecordUndo
  BY <1>13, RecordUndoIInv
<1>14. CASE Report
  <2>1. plan \in Digests /\ faulty \in BOOLEAN /\ UNCHANGED faulty
    BY <1>14 DEF Report, IInv, RunPart, TypeOK
  <2>2. faulty' \in BOOLEAN
    BY ONLY <2>1
  <2>3. QED
    BY <1>14, <2>1, <2>2, RunReturns DEF Report
<1>15. CASE Succeed
  BY <1>15, SucceedIInv
<1>16. CASE Release
  <2>1. /\ ForgetRun /\ UNCHANGED <<disk, effect, unrecorded, faulty>>
        /\ faulty' \in BOOLEAN
        /\ effect' \in [AllSteps -> {"absent", "partial", "applied"}]
        /\ unrecorded' \subseteq AllSteps
    BY <1>16 DEF Release, IInv, TypeOK
  <2>2. JournalTruth'
    BY <2>1 DEF IInv, TruthPart, JournalTruth, Applied, disk
  <2>3. QED
    BY <2>1, <2>2, RunOver
<1>17. CASE Crash
  BY <1>17, CrashIInv
<1>18. CASE Stabilize
  <2>1. UNCHANGED <<disk, effect, pc, run, outcome, unrecorded>>
        /\ faulty' \in BOOLEAN
    BY <1>18 DEF Stabilize
  <2>2. TypeOK'
    <3>1. approved \in BOOLEAN /\ UNCHANGED approved
      BY <2>1 DEF IInv, TypeOK, run, request
    <3>2. approved' \in BOOLEAN
      BY ONLY <3>1
    <3>3. QED
      BY <2>1, <3>2 DEF IInv, TypeOK, disk, run, request, trustCheck,
                        progress, undoing
  <2>3. RunPart' /\ TrustPart' /\ DraftPart' /\ LoopPart'
    BY <2>1 DEF IInv, RunPart, TrustPart, DraftPart, DraftOnDisk, LoopPart,
                Applied, Latest, disk, run, request, trustCheck, progress,
                undoing
  <2>4. TruthPart' /\ SuccessPart'
    BY <2>1 DEF IInv, TruthPart, JournalTruth, SuccessPart, Applied, disk
  <2>5. QED
    BY <2>2, <2>3, <2>4 DEF IInv
<1>19. CASE UNCHANGED vars
  <2>1. TypeOK'
    BY <1>19 DEF IInv, TypeOK, vars, disk, run, request, trustCheck, progress,
                 undoing
  <2>2. RunPart' /\ TrustPart' /\ DraftPart' /\ LoopPart'
    BY <1>19 DEF IInv, RunPart, TrustPart, DraftPart, DraftOnDisk, LoopPart,
                 Applied, Latest, vars, disk, run, request, trustCheck,
                 progress, undoing
  <2>3. TruthPart' /\ SuccessPart'
    BY <1>19 DEF IInv, TruthPart, JournalTruth, SuccessPart, Applied, vars,
                 disk
  <2>4. QED
    BY <2>1, <2>2, <2>3 DEF IInv
<1>20. QED
  BY <1>1, <1>2, <1>3, <1>4, <1>5, <1>6, <1>7, <1>8, <1>9, <1>10, <1>11,
     <1>12, <1>13, <1>14, <1>15, <1>16, <1>17, <1>18, <1>19 DEF Next, Apply

(***************************************************************************)
(* The inductive invariant holds in every reachable state.                 *)
(***************************************************************************)
LEMMA AlwaysIInv == Spec => []IInv
  BY InitIInv, NextIInv, PTL DEF Spec

(***************************************************************************)
(* Every variable keeps its type, for any plans, trust requirements and    *)
(* kinds of actions.                                                       *)
(***************************************************************************)
THEOREM TypeCorrect == Spec => []TypeOK
<1>1. IInv => TypeOK
  BY DEF IInv
<1>2. QED
  BY <1>1, AlwaysIInv, PTL

(***************************************************************************)
(* What journal.json shows completed is in effect, or a compensation of it *)
(* was attempted that it does not show.                                    *)
(***************************************************************************)
THEOREM JournalTrue == Spec => []JournalTruth
<1>1. IInv => JournalTruth
  BY DEF IInv, TruthPart
<1>2. QED
  BY <1>1, AlwaysIInv, PTL

(***************************************************************************)
(* Apply works on the journal that is on disk.                             *)
(***************************************************************************)
THEOREM MemoryOnDisk == Spec => []DraftOnDisk
<1>1. IInv => DraftOnDisk
  BY DEF IInv, DraftPart
<1>2. QED
  BY <1>1, AlwaysIInv, PTL

(***************************************************************************)
(* Complete, Fail, Compensate and Succeed are never refused.               *)
(***************************************************************************)
THEOREM NeverRefused == Spec => []JournalNeverRefuses
<1>1. IInv => JournalNeverRefuses
  <2> SUFFICES ASSUME IInv PROVE JournalNeverRefuses
    OBVIOUS
  <2>1. pc \in {"complete", "fail"} => draft.entry[cursor] = "pending"
    BY DEF IInv, LoopPart
  <2>2. pc = "recordUndo" => draft.entry[Latest] = "completed"
    <3>1. pc = "recordUndo" => toUndo # {}
      BY DEF IInv, LoopPart
    <3>2. QED
      BY <3>1, LatestFacts DEF Undoing
  <2>3. ASSUME pc = "step", cursor \notin StepsOf(plan)
        PROVE  Completed(draft) = StepsOf(plan)
    <3>1. plan \in Digests
          /\ Completed(draft) =
                 {i \in StepsOf(plan) : draft.entry[i] = "completed"}
      BY <2>3, DraftFacts DEF Loop
    <3>2. Length[plan] \in Nat /\ cursor \in Nat \ {0}
      BY <3>1, SyncAssumption DEF IInv, TypeOK
    <3>3. \A i \in StepsOf(plan) : i < cursor
      BY <2>3, <3>2 DEF StepsOf
    <3>4. QED
      BY <2>3, <3>1, <3>3 DEF IInv, LoopPart, Loop
  <2>4. QED
    BY <2>1, <2>2, <2>3 DEF JournalNeverRefuses
<1>2. QED
  BY <1>1, AlwaysIInv, PTL

-----------------------------------------------------------------------------
(***************************************************************************)
(* The steps that change the environment are taken by a run that has saved *)
(* its journal and its trust.                                              *)
(***************************************************************************)
LEMMA EffectSteps ==
  ASSUME IInv, [Next]_vars,
         <<effect, environment>>' # <<effect, environment>>
  PROVE  /\ RecordState \/ Execute \/ Undo \/ Crash
         /\ pc \in {"step", "undo"}
<1>1. RecordState \/ Execute \/ Undo \/ Crash
  <2> USE DEF disk
  <2>1. ~UNCHANGED vars
    BY DEF vars
  <2>2. ASSUME NEW d \in Digests, NEW b \in BOOLEAN PROVE ~Begin(d, b)
    BY DEF Begin
  <2>3. ~LoadTrust /\ ~LoadJournal /\ ~SaveTrust /\ ~SaveInitialJournal
    BY DEF LoadTrust, LoadJournal, SaveTrust, SaveInitialJournal
  <2>4. ~SkipCompleted /\ ~RecordCompletion /\ ~RecordFailure /\ ~Succeed
    BY DEF SkipCompleted, RecordCompletion, RecordFailure, Succeed
  <2>5. ~LeaveCompleted /\ ~RecordUndo /\ ~Report /\ ~Release /\ ~Stabilize
    BY DEF LeaveCompleted, RecordUndo, Report, Release, Stabilize
  <2>6. QED
    BY <2>1, <2>2, <2>3, <2>4, <2>5 DEF Next, Apply
<1>2. pc \in {"step", "undo"}
  BY <1>1 DEF RecordState, Execute, Undo, Crash, AtStep, AtUndo, disk
<1>3. QED
  BY <1>1, <1>2

(***************************************************************************)
(* Nothing happens to the environment before the plan's journal and its    *)
(* trust are on disk.                                                      *)
(***************************************************************************)
THEOREM MutationOrder == Spec => MutationsJournaledAndTrusted
<1>1. IInv /\ [Next]_vars =>
        [<<effect, environment>>' # <<effect, environment>> =>
            journal.digest = plan /\ TrustOf[plan] \subseteq trust]_vars
  <2> SUFFICES ASSUME IInv, [Next]_vars,
                      <<effect, environment>>' # <<effect, environment>>
               PROVE  journal.digest = plan /\ TrustOf[plan] \subseteq trust
    OBVIOUS
  <2>1. pc \in {"step", "undo"}
    BY EffectSteps
  <2>2. QED
    BY <2>1, DraftFacts DEF IInv, TrustPart, Loop, Undoing
<1>2. QED
  BY <1>1, AlwaysIInv, PTL DEF Spec, MutationsJournaledAndTrusted

(***************************************************************************)
(* A completed action is not repeated, and is undone only after a failure. *)
(***************************************************************************)
THEOREM EffectsFollow == Spec => EffectsFollowJournal
<1>1. IInv /\ [Next]_vars =>
        [\A i \in DOMAIN journal.entry :
            effect'[<<journal.digest, i>>] # effect[<<journal.digest, i>>] =>
                \/ journal.entry[i] = "pending"
                \/ journal.entry[i] = "completed"
                   /\ journal.status = "failed"]_vars
  <2> SUFFICES ASSUME IInv, [Next]_vars, NEW i \in DOMAIN journal.entry,
                      effect'[<<journal.digest, i>>] #
                          effect[<<journal.digest, i>>]
               PROVE  \/ journal.entry[i] = "pending"
                      \/ journal.entry[i] = "completed"
                         /\ journal.status = "failed"
    OBVIOUS
  <2>1. /\ RecordState \/ Execute \/ Undo \/ Crash
        /\ pc \in {"step", "undo"}
    BY EffectSteps
  <2>2. /\ plan \in Digests /\ journal = draft /\ draft.digest = plan
        /\ DOMAIN draft.entry = StepsOf(plan)
    BY <2>1, DraftFacts DEF Loop, Undoing
  <2>3. i \in StepsOf(plan) /\ <<plan, i>> \in AllSteps
    BY <2>2, StepsKnown
  <2>4. CASE pc = "step"
    <3>1. i = cursor
      <4>1. \E base \in Disturbed(plan) :
                effect' = base \/ \E left \in {"partial", "applied"} :
                    effect' = [base EXCEPT ![Current] = left]
        BY <2>1, <2>2, <2>4
           DEF RecordState, Execute, Undo, Crash, AtUndo, disk, Disturbed
      <4>2. PICK base \in Disturbed(plan) :
                effect' = base \/ \E left \in {"partial", "applied"} :
                    effect' = [base EXCEPT ![Current] = left]
        BY <4>1
      <4>3. /\ base \in [AllSteps -> {"absent", "partial", "applied"}]
            /\ base[<<plan, i>>] = effect[<<plan, i>>]
        BY <2>3 DEF Disturbed, IInv, TypeOK
      <4>4. <<plan, i>> = Current
        BY <2>2, <2>3, <4>2, <4>3
      <4>5. QED
        BY <4>4 DEF Current
    <3>2. cursor \in StepsOf(plan) /\ draft.entry[cursor] # "completed"
      BY <2>1, <2>2, <2>4, <3>1
         DEF RecordState, Execute, Undo, Crash, AtStep, AtUndo, disk
    <3>3. QED
      BY <2>2, <2>4, <3>1, <3>2 DEF IInv, DraftPart, Loop
  <2>5. CASE pc = "undo"
    <3>1. AtUndo /\ \E left \in {"absent", "partial", "applied"} :
                        effect' = [effect EXCEPT ![<<plan, Latest>>] = left]
      BY <2>1, <2>2, <2>5 DEF RecordState, Execute, Undo, Crash, AtStep
    <3>2. i = Latest
      BY <2>2, <2>3, <3>1 DEF IInv, TypeOK
    <3>3. draft.entry[Latest] = "completed"
      BY <3>1, LatestFacts DEF AtUndo, Undoing
    <3>4. QED
      BY <2>2, <2>5, <3>2, <3>3 DEF IInv, DraftPart, Undoing
  <2>6. QED
    BY <2>1, <2>4, <2>5
<1>2. QED
  BY <1>1, AlwaysIInv, PTL DEF Spec, EffectsFollowJournal

(***************************************************************************)
(* Approvals are never lost.                                               *)
(***************************************************************************)
THEOREM ApprovalsKept == Spec => TrustOnlyGrows
<1>1. IInv /\ [Next]_vars => [trust \subseteq trust']_vars
  <2> SUFFICES ASSUME IInv, [Next]_vars PROVE trust \subseteq trust'
    OBVIOUS
  <2>1. CASE SaveTrust
    <3>1. trustRecord = trust
      BY <2>1 DEF SaveTrust, IInv, TrustPart
    <3>2. QED
      BY <2>1, <3>1 DEF SaveTrust
  <2>2. CASE ~SaveTrust
    <3>1. UNCHANGED trust
      BY <2>2 DEF Next, Apply, Begin, LoadTrust, LoadJournal,
             SaveInitialJournal, SkipCompleted, RecordState, Execute,
             RecordCompletion, RecordFailure, LeaveCompleted, Undo,
             RecordUndo, Report, Succeed, Release, Crash, Stabilize,
             vars, disk
    <3>2. QED
      BY <3>1
  <2>3. QED
    BY <2>1, <2>2
<1>2. QED
  BY <1>1, AlwaysIInv, PTL DEF Spec, TrustOnlyGrows

-----------------------------------------------------------------------------
(***************************************************************************)
(* The refinement of the synchronization record by the journal on disk.    *)
(* Initially there is no journal and nothing is recorded.                  *)
(***************************************************************************)
LEMMA InitRefines == Init => Record!AbstractInit
BY NoJournalFields DEF Init, Record!AbstractInit

(***************************************************************************)
(* Saving the initial journal adopts a new plan, or reopens a failed one.  *)
(***************************************************************************)
LEMMA SaveInitialJournalRefines ==
  ASSUME IInv, SaveInitialJournal
  PROVE  [Record!AbstractNext]_(Record!abstractVars)
<1> USE DEF Record!abstractVars
<1>1. pc = "saveJournal" /\ journal' \in {journal, draft}
      /\ plan \in Digests
  BY DEF SaveInitialJournal, SaveJournal, IInv, RunPart
<1>2. CASE journal' = journal
  BY <1>2
<1>3. CASE /\ journal' = draft /\ journal.digest # plan
           /\ draft = NewJournal(plan)
  <2>1. /\ journal'.digest = plan /\ journal'.status = "pending"
        /\ Completed(journal') = {}
    BY <1>1, <1>3, NewJournalFields
  <2>2. Record!Adopt(plan)
    BY <1>3, <2>1 DEF Record!Adopt
  <2>3. QED
    BY <1>1, <2>2 DEF Record!AbstractNext
<1>4. CASE /\ journal' = draft
           /\ journal.digest = plan /\ journal.status # "succeeded"
           /\ draft = PreparedRetry(journal)
  <2>1. journal \in Journals
    BY <1>1, <1>4, NoJournalFields, SyncAssumption DEF IInv, TypeOK
  <2>2. /\ journal'.digest = journal.digest /\ journal'.status = "pending"
        /\ Completed(journal') = Completed(journal)
    BY <1>4, <2>1, RetryFields
  <2>3. journal.status \in {"pending", "failed"}
    BY <1>4, <2>1, JournalFields
  <2>4. CASE journal.status = "pending"
    BY <2>2, <2>4
  <2>5. CASE journal.status = "failed"
    <3>1. Record!Reopen
      BY <2>2, <2>5 DEF Record!Reopen
    <3>2. QED
      BY <3>1 DEF Record!AbstractNext
  <2>6. QED
    BY <2>3, <2>4, <2>5
<1>5. QED
  BY <1>1, <1>2, <1>3, <1>4 DEF IInv, DraftPart

(***************************************************************************)
(* Recording a completion finishes one step.                               *)
(***************************************************************************)
LEMMA RecordCompletionRefines ==
  ASSUME IInv, RecordCompletion
  PROVE  [Record!AbstractNext]_(Record!abstractVars)
<1> USE DEF Record!abstractVars
<1> DEFINE marked == Marked(draft, cursor, "completed")
<1>1. pc = "complete" /\ journal' \in {journal, marked}
  BY DEF RecordCompletion, SaveJournal
<1>2. /\ plan \in Digests /\ draft \in Journals
      /\ journal = draft /\ draft.digest = plan
      /\ Completed(draft) = {i \in StepsOf(plan) : draft.entry[i] = "completed"}
  BY <1>1, DraftFacts DEF Loop
<1>3. /\ cursor \in StepsOf(plan) /\ draft.entry[cursor] = "pending"
      /\ draft.status = "pending"
  BY <1>1 DEF IInv, LoopPart, DraftPart, Loop
<1>4. /\ marked.digest = draft.digest /\ marked.status = draft.status
      /\ Completed(marked) = Completed(draft) \cup {cursor}
  <2>1. cursor \in StepsOf(draft.digest)
    BY <1>2, <1>3
  <2>2. QED
    BY <1>2, <2>1, CompleteFields, Zenon
<1> HIDE DEF marked
<1>5. CASE journal' = journal
  BY <1>5
<1>6. CASE journal' = marked
  <2>1. plan # NoPlan
    BY <1>2, SyncAssumption
  <2>2. cursor \notin Completed(journal)
    BY <1>2, <1>3
  <2>3. Record!Finish(cursor)
    BY <1>2, <1>3, <1>4, <1>6, <2>1, <2>2
       DEF Record!Finish, Record!StepsOf, StepsOf
  <2>4. cursor \in Record!StepsOf(journal.digest)
    BY <1>2, <1>3 DEF Record!StepsOf, StepsOf
  <2>5. QED
    BY <1>2, <2>1, <2>3, <2>4 DEF Record!AbstractNext
<1>7. QED
  BY <1>1, <1>5, <1>6

(***************************************************************************)
(* Recording a failure closes the synchronization as failed; its finished  *)
(* steps remain.                                                           *)
(***************************************************************************)
LEMMA RecordFailureRefines ==
  ASSUME IInv, RecordFailure
  PROVE  [Record!AbstractNext]_(Record!abstractVars)
<1> USE DEF Record!abstractVars
<1> DEFINE marked == Marked(draft, cursor, "failed")
           failed == [marked EXCEPT !.status = "failed"]
<1>1. pc = "fail" /\ journal' \in {journal, failed}
  BY DEF RecordFailure, SaveJournal
<1>2. /\ plan \in Digests /\ draft \in Journals
      /\ journal = draft /\ draft.digest = plan
      /\ Completed(draft) = {i \in StepsOf(plan) : draft.entry[i] = "completed"}
  BY <1>1, DraftFacts DEF Loop
<1>3. /\ cursor \in StepsOf(plan) /\ draft.entry[cursor] = "pending"
      /\ draft.status = "pending"
  BY <1>1 DEF IInv, LoopPart, DraftPart, Loop
<1>4. cursor \notin Completed(draft)
  BY <1>2, <1>3
<1>5. /\ failed.digest = draft.digest /\ failed.status = "failed"
      /\ Completed(failed) = Completed(draft)
  <2>1. cursor \in StepsOf(draft.digest)
        /\ "failed" \in EntryStatus \ {"completed"}
    BY <1>2, <1>3 DEF EntryStatus
  <2>2. /\ marked \in Journals /\ marked.digest = draft.digest
        /\ Completed(marked) = Completed(draft) \ {cursor}
    BY <1>2, <2>1, UncompleteFields, Zenon
  <2> HIDE DEF marked
  <2>3. QED
    BY <1>4, <2>2, ClosedFields
<1> HIDE DEF failed
<1>6. CASE journal' = journal
  BY <1>6
<1>7. CASE journal' = failed
  <2>1. plan # NoPlan /\ Completed(journal) # Record!StepsOf(journal.digest)
    BY <1>2, <1>3, <1>4, SyncAssumption DEF Record!StepsOf, StepsOf
  <2>2. Record!Fail
    BY <1>2, <1>3, <1>5, <1>7, <2>1 DEF Record!Fail
  <2>3. QED
    BY <2>2 DEF Record!AbstractNext
<1>8. QED
  BY <1>1, <1>6, <1>7

(***************************************************************************)
(* Recording a compensation takes one finished step back, after a failure. *)
(***************************************************************************)
LEMMA RecordUndoRefines ==
  ASSUME IInv, RecordUndo
  PROVE  [Record!AbstractNext]_(Record!abstractVars)
<1> USE DEF Record!abstractVars
<1> DEFINE marked == Marked(draft, Latest, "compensated")
<1>1. /\ pc = "recordUndo" /\ journal' \in {journal, marked}
      /\ draft.entry[Latest] = "completed"
  BY DEF RecordUndo, SaveJournal
<1>2. /\ plan \in Digests /\ draft \in Journals
      /\ journal = draft /\ draft.digest = plan
      /\ Completed(draft) = {i \in StepsOf(plan) : draft.entry[i] = "completed"}
  BY <1>1, DraftFacts DEF Undoing
<1>3. draft.status = "failed" /\ toUndo # {} /\ Latest \in StepsOf(plan)
  <2>1. draft.status = "failed" /\ toUndo # {}
    BY <1>1 DEF IInv, DraftPart, LoopPart, Undoing
  <2>2. QED
    BY <1>1, <2>1, LatestFacts DEF Undoing
<1>4. /\ marked.digest = draft.digest /\ marked.status = draft.status
      /\ Completed(marked) = Completed(draft) \ {Latest}
  <2>1. Latest \in StepsOf(draft.digest)
        /\ "compensated" \in EntryStatus \ {"completed"}
    BY <1>2, <1>3 DEF EntryStatus
  <2>2. QED
    BY <1>2, <2>1, UncompleteFields, Zenon
<1> HIDE DEF marked
<1>5. CASE journal' = journal
  BY <1>5
<1>6. CASE journal' = marked
  <2>1. plan # NoPlan /\ Latest \in Completed(journal)
    BY <1>1, <1>2, <1>3, SyncAssumption
  <2>2. Record!TakeBack(Latest)
    BY <1>2, <1>3, <1>4, <1>6, <2>1 DEF Record!TakeBack
  <2>3. Latest \in Record!StepsOf(journal.digest)
    BY <1>2, <1>3 DEF Record!StepsOf, StepsOf
  <2>4. QED
    BY <1>2, <2>1, <2>2, <2>3 DEF Record!AbstractNext
<1>7. QED
  BY <1>1, <1>5, <1>6

(***************************************************************************)
(* Apply succeeds only with every step finished.                           *)
(***************************************************************************)
LEMMA SucceedRefines ==
  ASSUME IInv, Succeed
  PROVE  [Record!AbstractNext]_(Record!abstractVars)
<1> USE DEF Record!abstractVars
<1> DEFINE succeeded == [draft EXCEPT !.status = "succeeded"]
<1>1. /\ pc = "step" /\ journal' \in {journal, succeeded}
      /\ Completed(draft) = StepsOf(plan)
  BY DEF Succeed
<1>2. /\ plan \in Digests /\ draft \in Journals
      /\ journal = draft /\ draft.digest = plan /\ draft.status = "pending"
  BY <1>1, DraftFacts DEF IInv, DraftPart, Loop
<1>3. /\ succeeded.digest = draft.digest /\ succeeded.status = "succeeded"
      /\ Completed(succeeded) = Completed(draft)
  BY <1>2, ClosedFields
<1> HIDE DEF succeeded
<1>4. CASE journal' = journal
  BY <1>4
<1>5. CASE journal' = succeeded
  <2>1. plan # NoPlan /\ Completed(journal) = Record!StepsOf(journal.digest)
    BY <1>1, <1>2, SyncAssumption DEF Record!StepsOf, StepsOf
  <2>2. Record!Succeed
    BY <1>2, <1>3, <1>5, <2>1 DEF Record!Succeed
  <2>3. QED
    BY <2>2 DEF Record!AbstractNext
<1>6. QED
  BY <1>1, <1>4, <1>5

(***************************************************************************)
(* Every step that saves a journal is one of the record's, and every other *)
(* step stutters.                                                          *)
(***************************************************************************)
LEMMA NextRefines ==
  IInv /\ [Next]_vars => [Record!AbstractNext]_(Record!abstractVars)
<1> SUFFICES ASSUME IInv, [Next]_vars
             PROVE  [Record!AbstractNext]_(Record!abstractVars)
  OBVIOUS
<1>1. CASE SaveInitialJournal
  BY <1>1, SaveInitialJournalRefines
<1>2. CASE RecordCompletion
  BY <1>2, RecordCompletionRefines
<1>3. CASE RecordFailure
  BY <1>3, RecordFailureRefines
<1>4. CASE RecordUndo
  BY <1>4, RecordUndoRefines
<1>5. CASE Succeed
  BY <1>5, SucceedRefines
<1>6. CASE ~(\/ SaveInitialJournal \/ RecordCompletion \/ RecordFailure
             \/ RecordUndo \/ Succeed)
  <2>1. UNCHANGED journal
    BY <1>6 DEF Next, Apply, Begin, LoadTrust, LoadJournal, SaveTrust,
           SkipCompleted, RecordState, Execute, LeaveCompleted, Undo, Report,
           Release, Crash, Stabilize, vars, disk
  <2>2. QED
    BY <2>1 DEF Record!abstractVars
<1>7. QED
  BY <1>1, <1>2, <1>3, <1>4, <1>5, <1>6

(***************************************************************************)
(* The journal on disk behaves like the synchronization record, whatever   *)
(* runs, retries, errors and crashes write it.                             *)
(***************************************************************************)
THEOREM Refinement == Spec => ImplementsRecord
BY InitRefines, NextRefines, AlwaysIInv, PTL
   DEF Spec, ImplementsRecord, Record!AbstractSpec

-----------------------------------------------------------------------------
(***************************************************************************)
(* Compensations are attempted for reversible actions only: the journal    *)
(* lacks no others.                                                        *)
(***************************************************************************)
UndoneReversible == unrecorded \subseteq UndoableSteps

LEMMA UndoReversible ==
  ASSUME IInv, AtUndo PROVE <<plan, Latest>> \in UndoableSteps
BY DEF IInv, RunPart, AtUndo

LEMMA NextUndoneReversible ==
  IInv /\ UndoneReversible /\ [Next]_vars => UndoneReversible'
<1> SUFFICES ASSUME IInv, UndoneReversible, [Next]_vars
             PROVE  UndoneReversible'
  OBVIOUS
<1>1. CASE Execute
  BY <1>1 DEF Execute, UndoneReversible
<1>2. CASE Undo
  BY <1>2, UndoReversible DEF Undo, UndoneReversible
<1>3. CASE RecordUndo
  BY <1>3 DEF RecordUndo, UndoneReversible
<1>4. CASE Crash
  BY <1>4, UndoReversible DEF Crash, UndoneReversible
<1>5. CASE ~(Execute \/ Undo \/ RecordUndo \/ Crash)
  BY <1>5 DEF UndoneReversible, Next, Apply, Begin, LoadTrust, LoadJournal,
         SaveTrust, SaveInitialJournal, SkipCompleted, RecordState,
         RecordCompletion, RecordFailure, LeaveCompleted, Report, Succeed,
         Release, Stabilize, vars
<1>6. QED
  BY <1>1, <1>2, <1>3, <1>4, <1>5

(***************************************************************************)
(* A succeeded journal of a plan without reversible actions, which is what *)
(* today's providers make, means a synchronized environment, also when     *)
(* other plans with reversible actions came before it.                     *)
(***************************************************************************)
THEOREM SuccessOfIrreversible == Spec => []SuccessIsReal
<1>1. Init => UndoneReversible
  BY DEF Init, UndoneReversible
<1>2. IInv /\ UndoneReversible => SuccessIsReal
  <2> SUFFICES ASSUME IInv, UndoneReversible, ~Reversible(journal.digest),
                      journal.status = "succeeded"
               PROVE  /\ \A i \in StepsOf(journal.digest) :
                              Applied(journal.digest, i)
                      /\ TrustOf[journal.digest] \subseteq trust
    BY DEF SuccessIsReal, SuccessIsApplied
  <2>1. \A i \in StepsOf(journal.digest) :
            <<journal.digest, i>> \notin unrecorded
    BY DEF UndoneReversible, Reversible
  <2>2. QED
    BY <2>1 DEF IInv, TruthPart, SuccessPart, JournalTruth
<1>3. QED
  BY <1>1, <1>2, NextUndoneReversible, AlwaysIInv, PTL DEF Spec

(***************************************************************************)
(* Where no plan has reversible actions, every success is one.             *)
(***************************************************************************)
THEOREM SuccessWithoutCompensation ==
  ASSUME UndoableSteps = {}
  PROVE  Spec => []SuccessIsApplied
<1>1. SuccessIsReal => SuccessIsApplied
  BY DEF SuccessIsReal, Reversible
<1>2. QED
  BY <1>1, SuccessOfIrreversible, PTL

-----------------------------------------------------------------------------
(* The failure report and the order of the actions.                          *)

\* What has become of an action that this run completed.
Accounted(i) ==
    \/ <<plan, i>> \in ReadSteps
    \/ i \in manual \ compensated
    \/ /\ i \in compensated \ manual
       /\ effect[<<plan, i>>] = "absent"
       /\ journal.entry[i] = "compensated"

\* From the failure on: the failed action is the first one not completed, and
\* what this run completed is accounted for or has yet to be looked at.
Accounting ==
    /\ cursor \in StepsOf(plan) \ listed
    /\ \A i \in StepsOf(plan) : i < cursor => i \in listed
    /\ toUndo \cap (compensated \cup manual) = {}
    /\ ranNow \subseteq listed
    /\ \A i \in ranNow : i \in toUndo \/ Accounted(i)

ReportPart ==
    /\ pc \in {"saveJournal", "saveTrust"} \cup Loop =>
        listed = Completed(draft)
    /\ pc \notin Undoing \cup {"release"} => compensated = {} /\ manual = {}
    /\ pc \in Undoing \/ Reported => Accounting
    /\ Reported => toUndo = {}
    /\ pc = "recordUndo" => effect[<<plan, Latest>>] = "absent"

\* Without compensation the completed actions are the first ones of the plan.
PrefixCompleted(j) ==
    \A i, k \in DOMAIN j.entry :
        k < i /\ j.entry[i] = "completed" => j.entry[k] = "completed"

OrderPart ==
    /\ ~Reversible(journal.digest) => PrefixCompleted(journal)
    /\ (pc \in Undoing \/ Reported) /\ ~Reversible(plan) =>
        \A i \in listed : i < cursor

(***************************************************************************)
(* A step to where nothing has failed keeps ReportPart if what it lists is *)
(* what the journal in memory shows completed.                             *)
(***************************************************************************)
LEMMA QuietReport ==
  ASSUME pc' \notin Undoing, ~Reported',
         pc' # "release" => compensated' = {} /\ manual' = {},
         pc' \in {"saveJournal", "saveTrust"} \cup Loop =>
             listed' = Completed(draft')
  PROVE  ReportPart'
BY DEF ReportPart, Undoing

(***************************************************************************)
(* RecordCompletion lists what it completes.                               *)
(***************************************************************************)
LEMMA RecordCompletionReport ==
  ASSUME IInv, ReportPart, RecordCompletion
  PROVE  ReportPart'
<1>1. /\ pc = "complete" /\ draft' = Marked(draft, cursor, "completed")
      /\ UNCHANGED undoing
      /\ \/ pc' = "step" /\ listed' = listed \cup {cursor}
         \/ pc' = "release" /\ outcome' = "error"
  BY DEF RecordCompletion, SaveJournal, Return
<1>2. draft \in Journals /\ cursor \in StepsOf(draft.digest)
  BY <1>1, DraftFacts DEF IInv, LoopPart, Loop
<1>3. Completed(draft') = Completed(draft) \cup {cursor}
  BY <1>1, <1>2, CompleteFields
<1>4. listed = Completed(draft) /\ compensated = {} /\ manual = {}
  BY <1>1 DEF ReportPart, Loop, Undoing
<1>5. QED
  BY <1>1, <1>3, <1>4, QuietReport DEF undoing, Undoing, Reported, Loop

(***************************************************************************)
(* RecordFailure: every action before the failed one is listed, and all    *)
(* that this run completed is to be looked at.                             *)
(***************************************************************************)
LEMMA RecordFailureReport ==
  ASSUME IInv, ReportPart, RecordFailure
  PROVE  ReportPart'
<1> USE DEF request, progress
<1>1. /\ pc = "fail" /\ toUndo' = ranNow
      /\ UNCHANGED <<request, progress, compensated, manual>>
      /\ pc' = "undo" \/ (pc' = "release" /\ outcome' = "error")
  BY DEF RecordFailure, SaveJournal, Return
<1>2. /\ cursor \in StepsOf(plan) /\ draft.entry[cursor] = "pending"
      /\ \A i \in StepsOf(plan) : i < cursor => draft.entry[i] = "completed"
      /\ ranNow \subseteq Completed(draft)
      /\ Completed(draft) = {i \in StepsOf(plan) : draft.entry[i] = "completed"}
  BY <1>1, DraftFacts DEF IInv, LoopPart, Loop
<1>3. listed = Completed(draft) /\ compensated = {} /\ manual = {}
  BY <1>1 DEF ReportPart, Loop, Undoing
<1>4. Accounting'
  BY <1>1, <1>2, <1>3 DEF Accounting
<1>5. QED
  BY <1>1, <1>3, <1>4 DEF ReportPart, Undoing, Reported, Loop

(***************************************************************************)
(* LeaveCompleted names the action for manual recovery or leaves a read.   *)
(***************************************************************************)
LEMMA LeaveCompletedReport ==
  ASSUME IInv, ReportPart, LeaveCompleted
  PROVE  ReportPart'
<1>1. /\ pc = "undo" /\ pc' = "undo" /\ toUndo # {}
      /\ toUndo' = toUndo \ {Latest}
      /\ manual' = manual \cup
             (IF <<plan, Latest>> \in ReadSteps THEN {} ELSE {Latest})
      /\ UNCHANGED <<journal, effect, request, progress, compensated>>
  BY DEF LeaveCompleted, disk
<1>2. Accounting /\ Latest \in toUndo
  BY <1>1, LatestFacts DEF ReportPart, Undoing
<1>3. Accounting'
  <2>1. \A i \in ranNow : i \in toUndo' \/ Accounted(i)'
    <3>1. SUFFICES ASSUME NEW i \in ranNow
                   PROVE  i \in toUndo' \/ Accounted(i)'
      OBVIOUS
    <3>2. CASE i = Latest
      BY <1>1, <1>2, <3>2 DEF Accounting, Accounted, request
    <3>3. CASE i # Latest
      BY <1>1, <1>2, <3>3 DEF Accounting, Accounted, request
    <3>4. QED
      BY <3>2, <3>3
  <2>2. QED
    BY <1>1, <1>2, <2>1 DEF Accounting, request, progress
<1>4. QED
  BY <1>1, <1>3 DEF ReportPart, Undoing, Reported, Loop

(***************************************************************************)
(* Undo changes one effect, that of an action not yet accounted for, and   *)
(* names it for manual recovery if it fails.                               *)
(***************************************************************************)
LEMMA UndoReport ==
  ASSUME IInv, ReportPart, Undo
  PROVE  ReportPart'
<1>1. /\ pc = "undo" /\ toUndo # {}
      /\ UNCHANGED <<journal, request, progress, compensated>>
      /\ \/ /\ pc' = "recordUndo" /\ UNCHANGED <<toUndo, manual>>
            /\ effect' = [effect EXCEPT ![<<plan, Latest>>] = "absent"]
         \/ /\ pc' = "undo"
            /\ toUndo' = toUndo \ {Latest}
            /\ manual' = manual \cup {Latest}
  BY DEF Undo, AtUndo, disk
<1>2. PICK left \in {"absent", "partial", "applied"} :
          effect' = [effect EXCEPT ![<<plan, Latest>>] = left]
  BY DEF Undo
<1>3. Accounting /\ Latest \in toUndo
  BY <1>1, LatestFacts DEF ReportPart, Undoing
<1>4. \A i \in ranNow :
          i # Latest => effect'[<<plan, i>>] = effect[<<plan, i>>]
  BY <1>2 DEF IInv, TypeOK
<1>5. Accounting'
  <2>1. \A i \in ranNow : i \in toUndo' \/ Accounted(i)'
    <3>1. SUFFICES ASSUME NEW i \in ranNow
                   PROVE  i \in toUndo' \/ Accounted(i)'
      OBVIOUS
    <3>2. CASE i = Latest
      BY <1>1, <1>3, <3>2 DEF Accounting, Accounted, request
    <3>3. CASE i # Latest
      BY <1>1, <1>3, <1>4, <3>3 DEF Accounting, Accounted, request
    <3>4. QED
      BY <3>2, <3>3
  <2>2. QED
    BY <1>1, <1>3, <2>1 DEF Accounting, request, progress
<1>6. pc' = "recordUndo" => effect'[<<plan', Latest'>>] = "absent"
  <2>1. plan \in Digests /\ Latest \in StepsOf(plan)
    BY <1>1, LatestFacts, DraftFacts DEF Undoing
  <2>2. <<plan, Latest>> \in DOMAIN effect
    BY <2>1, StepsKnown DEF IInv, TypeOK
  <2>3. toUndo' = toUndo => Latest' = Latest
    BY DEF Latest
  <2>4. QED
    BY <1>1, <2>2, <2>3 DEF request
<1>7. QED
  BY <1>1, <1>5, <1>6 DEF ReportPart, Undoing, Reported, Loop

(***************************************************************************)
(* RecordUndo: what is compensated is gone from the environment, and the   *)
(* journal on disk says so before the report can.                          *)
(***************************************************************************)
LEMMA RecordUndoReport ==
  ASSUME IInv, ReportPart, RecordUndo
  PROVE  ReportPart'
<1> DEFINE marked == Marked(draft, Latest, "compensated")
<1>1. /\ pc = "recordUndo"
      /\ UNCHANGED <<effect, request, progress, manual>>
      /\ \/ /\ pc' = "undo" /\ journal' = marked
            /\ compensated' = compensated \cup {Latest}
            /\ toUndo' = toUndo \ {Latest}
         \/ pc' = "release" /\ outcome' = "error"
  BY DEF RecordUndo, SaveJournal, Return
<1>2. Latest \in toUndo /\ Accounting /\ effect[<<plan, Latest>>] = "absent"
  BY <1>1 DEF IInv, LoopPart, ReportPart, Undoing
<1>3. journal = draft /\ draft \in Journals /\ Latest \in StepsOf(draft.digest)
  BY <1>1, <1>2, DraftFacts, LatestFacts DEF Undoing
<1>4. /\ marked.entry[Latest] = "compensated"
      /\ \A i \in StepsOf(draft.digest) :
             i # Latest => marked.entry[i] = journal.entry[i]
  <2>1. "compensated" \in EntryStatus \ {"completed"}
    BY DEF EntryStatus
  <2>2. marked.entry = [draft.entry EXCEPT ![Latest] = "compensated"]
    BY <1>3, <2>1, UncompleteFields, Zenon
  <2> HIDE DEF marked
  <2>3. QED
    BY <1>3, <2>2, JournalFields
<1> HIDE DEF marked
<1>5. ASSUME pc' = "undo" PROVE Accounting'
  <2>1. \A i \in ranNow : i \in toUndo' \/ Accounted(i)'
    <3>1. SUFFICES ASSUME NEW i \in ranNow
                   PROVE  i \in toUndo' \/ Accounted(i)'
      OBVIOUS
    <3>2. CASE i = Latest
      BY <1>1, <1>2, <1>4, <1>5, <3>2 DEF Accounting, Accounted, request
    <3>3. CASE i # Latest
      <4>1. i \in toUndo \/ Accounted(i)
        BY <1>2 DEF Accounting
      <4>2. i \in StepsOf(draft.digest)
        BY <1>1, <1>2, <1>3, DraftFacts DEF Accounting, IInv, RunPart, Undoing
      <4>3. QED
        BY <1>1, <1>4, <1>5, <3>3, <4>1, <4>2 DEF Accounted, request
    <3>4. QED
      BY <3>2, <3>3
  <2>2. QED
    BY <1>1, <1>2, <1>5, <2>1 DEF Accounting, request, progress
<1>6. QED
  BY <1>1, <1>5 DEF ReportPart, Undoing, Reported, Loop

(***************************************************************************)
(* Every step keeps ReportPart.                                            *)
(***************************************************************************)
LEMMA NextReport == IInv /\ ReportPart /\ [Next]_vars => ReportPart'
<1> SUFFICES ASSUME IInv, ReportPart, [Next]_vars PROVE ReportPart'
  OBVIOUS
<1> USE DEF Undoing, Reported, Loop
<1>1. ASSUME NEW d \in Digests, NEW b \in BOOLEAN, Begin(d, b)
      PROVE  ReportPart'
  BY <1>1, QuietReport DEF Begin, undoing, ReportPart
<1>2. CASE LoadTrust
  BY <1>2, QuietReport
     DEF LoadTrust, CallFails, Return, run, undoing, ReportPart
<1>3. CASE LoadJournal
  <2>1. plan \in Digests /\ listed = {} /\ UNCHANGED undoing
        /\ compensated = {} /\ manual = {}
    BY <1>3 DEF LoadJournal, IInv, RunPart, ReportPart
  <2>2. /\ pc' \in {"saveJournal", "approveOnly", "release"}
        /\ pc' = "release" => outcome' \in {"ok", "error"}
        /\ pc' = "saveJournal" =>
               \/ draft' = NewJournal(plan) /\ listed' = listed
               \/ listed' = Completed(draft')
    BY <1>3 DEF LoadJournal, CallFails, Return
  <2>3. QED
    BY <2>1, <2>2, NewJournalFields, QuietReport DEF undoing
<1>4. CASE SaveTrust
  BY <1>4, QuietReport DEF SaveTrust, Return, run, progress, undoing, ReportPart
<1>5. CASE SaveInitialJournal
  BY <1>5, QuietReport
     DEF SaveInitialJournal, SaveJournal, Return, run, progress, undoing,
         ReportPart
<1>6. CASE SkipCompleted
  BY <1>6, QuietReport DEF SkipCompleted, undoing, ReportPart
<1>7. CASE RecordState
  BY <1>7, QuietReport
     DEF RecordState, AtStep, run, progress, undoing, ReportPart
<1>8. CASE Execute
  BY <1>8, QuietReport DEF Execute, AtStep, progress, undoing, ReportPart
<1>9. CASE RecordCompletion
  BY <1>9, RecordCompletionReport
<1>10. CASE RecordFailure
  BY <1>10, RecordFailureReport
<1>11. CASE LeaveCompleted
  BY <1>11, LeaveCompletedReport
<1>12. CASE Undo
  BY <1>12, UndoReport
<1>13. CASE RecordUndo
  BY <1>13, RecordUndoReport
<1>14. CASE Report
  BY <1>14 DEF Report, Return, disk, run, request, progress, undoing,
               ReportPart, Accounting, Accounted
<1>15. CASE Succeed
  BY <1>15, QuietReport DEF Succeed, Return, undoing, ReportPart
<1>16. CASE Release \/ Crash
  BY <1>16, QuietReport DEF Release, Crash, ForgetRun
<1>17. CASE Stabilize \/ UNCHANGED vars
  BY <1>17 DEF Stabilize, vars, disk, run, request, trustCheck, progress,
               undoing, ReportPart, Accounting, Accounted, Latest
<1>18. QED
  BY <1>1, <1>2, <1>3, <1>4, <1>5, <1>6, <1>7, <1>8, <1>9, <1>10, <1>11,
     <1>12, <1>13, <1>14, <1>15, <1>16, <1>17 DEF Next, Apply

LEMMA AlwaysReport == Spec => []ReportPart
<1>1. Init => ReportPart
  BY DEF Init, ReportPart, Undoing, Reported, Loop
<1>2. QED
  BY <1>1, NextReport, AlwaysIInv, PTL DEF Spec

(***************************************************************************)
(* syncActionError leaves no action out, and what it calls compensated is  *)
(* gone from the environment and from the journal.                         *)
(***************************************************************************)
THEOREM ReportComplete == Spec => []ReportAccounts
<1>1. IInv /\ ReportPart => ReportAccounts
  <2> SUFFICES ASSUME IInv, ReportPart, Reported
               PROVE  /\ listed \cup {cursor} \cup NotAttempted = StepsOf(plan)
                      /\ cursor \notin listed
                      /\ \A i \in ranNow : Accounted(i)
    BY DEF ReportAccounts, Accounted
  <2>1. Accounting /\ toUndo = {}
    BY DEF ReportPart
  <2>2. plan \in Digests /\ listed \subseteq StepsOf(plan)
    BY DEF IInv, RunPart, Reported
  <2>3. StepsOf(plan) \subseteq Nat /\ cursor \in StepsOf(plan)
    BY <2>1, <2>2, StepsKnown DEF Accounting
  <2>4. \A i \in StepsOf(plan) : i < cursor \/ i = cursor \/ i > cursor
    BY <2>3
  <2>5. QED
    BY <2>1, <2>2, <2>3, <2>4 DEF Accounting, NotAttempted
<1>2. QED
  BY <1>1, AlwaysIInv, AlwaysReport, PTL

(***************************************************************************)
(* Every step keeps the completed actions of a plan without compensation   *)
(* the first ones of it.                                                   *)
(***************************************************************************)
LEMMA NextOrder == IInv /\ ReportPart /\ OrderPart /\ [Next]_vars => OrderPart'
<1> SUFFICES ASSUME IInv, ReportPart, OrderPart, [Next]_vars PROVE OrderPart'
  OBVIOUS
<1> USE DEF Undoing, Reported, Loop
<1>1. CASE SaveInitialJournal
  <2>1. /\ pc = "saveJournal" /\ draft' = draft /\ journal' \in {journal, draft}
        /\ pc' \in {"saveTrust", "step", "release"}
        /\ pc' = "release" => outcome' = "error"
    BY <1>1 DEF SaveInitialJournal, SaveJournal, Return, run
  <2>2. ASSUME journal.digest # plan, draft = NewJournal(plan)
        PROVE  PrefixCompleted(draft)
    <3>1. plan \in Digests
      BY <2>1 DEF IInv, RunPart
    <3>2. QED
      BY <2>2, <3>1, NewJournalFields, JournalFields DEF PrefixCompleted
  <2>3. ASSUME journal.digest = plan, draft = PreparedRetry(journal),
               PrefixCompleted(journal)
        PROVE  PrefixCompleted(draft)
    <3>1. journal \in Journals
      BY <2>1, <2>3, SyncAssumption, NoJournalFields DEF IInv, TypeOK, RunPart
    <3>2. /\ DOMAIN draft.entry = DOMAIN journal.entry
          /\ \A i \in DOMAIN journal.entry : draft.entry[i] = "completed" <=>
                                                journal.entry[i] = "completed"
      BY <2>3, <3>1, RetryFields, JournalFields DEF Completed
    <3>3. QED
      BY <2>3, <3>2 DEF PrefixCompleted
  <2>4. ~Reversible(draft.digest) => PrefixCompleted(draft)
    <3>1. \/ journal.digest # plan /\ draft = NewJournal(plan)
          \/ journal.digest = plan /\ draft = PreparedRetry(journal)
      BY <2>1 DEF IInv, DraftPart
    <3>2. draft.digest = plan
      BY <2>1, <3>1, NewJournalFields, RetryFields, NoJournalFields,
         SyncAssumption DEF IInv, TypeOK, RunPart
    <3>3. QED
      BY <2>2, <2>3, <3>1, <3>2 DEF OrderPart
  <2>5. QED
    BY <2>1, <2>4 DEF OrderPart
<1>2. CASE RecordCompletion
  <2> DEFINE marked == Marked(draft, cursor, "completed")
  <2>1. /\ pc = "complete" /\ journal' \in {journal, marked}
        /\ pc' \in {"step", "release"}
        /\ pc' = "release" => outcome' = "error"
    BY <1>2 DEF RecordCompletion, SaveJournal, Return
  <2>2. /\ journal = draft /\ draft \in Journals /\ draft.digest = plan
        /\ cursor \in StepsOf(plan) /\ plan \in Digests
        /\ \A i \in StepsOf(plan) : i < cursor => draft.entry[i] = "completed"
    BY <2>1, DraftFacts DEF IInv, LoopPart
  <2>3. /\ marked.digest = plan
        /\ marked.entry = [draft.entry EXCEPT ![cursor] = "completed"]
    BY <2>2, CompleteFields
  <2> HIDE DEF marked
  <2>4. ASSUME PrefixCompleted(draft) PROVE PrefixCompleted(marked)
    BY <2>2, <2>3, <2>4, JournalFields DEF PrefixCompleted
  <2>5. ~Reversible(journal'.digest) => PrefixCompleted(journal')
    <3>1. ~Reversible(plan) => PrefixCompleted(draft)
      BY <2>2 DEF OrderPart
    <3>2. QED
      BY <2>1, <2>2, <2>3, <2>4, <3>1
  <2>6. pc' \notin {"undo", "recordUndo"} /\ ~Reported'
    BY <2>1
  <2>7. QED
    BY <2>5, <2>6 DEF OrderPart
<1>3. CASE RecordFailure
  <2> USE DEF request, progress
  <2> DEFINE marked == Marked(draft, cursor, "failed")
             failed == [marked EXCEPT !.status = "failed"]
  <2>1. /\ pc = "fail" /\ journal' \in {journal, failed}
        /\ UNCHANGED <<request, progress>>
        /\ pc' = "undo" \/ (pc' = "release" /\ outcome' = "error")
    BY <1>3 DEF RecordFailure, SaveJournal, Return
  <2>2. /\ journal = draft /\ draft \in Journals /\ draft.digest = plan
        /\ cursor \in StepsOf(plan) /\ plan \in Digests
        /\ draft.entry[cursor] = "pending" /\ listed = Completed(draft)
    BY <2>1, DraftFacts DEF IInv, LoopPart, ReportPart
  <2>3. /\ failed.digest = plan
        /\ failed.entry = [draft.entry EXCEPT ![cursor] = "failed"]
    <3>1. "failed" \in EntryStatus \ {"completed"}
      BY DEF EntryStatus
    <3>2. /\ marked \in Journals /\ marked.digest = plan
          /\ marked.entry = [draft.entry EXCEPT ![cursor] = "failed"]
      BY <2>2, <3>1, UncompleteFields, Zenon
    <3> HIDE DEF marked
    <3>3. QED
      BY <3>2, ClosedFields
  <2> HIDE DEF failed
  <2>4. ASSUME PrefixCompleted(draft) PROVE PrefixCompleted(failed)
    BY <2>2, <2>3, <2>4, JournalFields DEF PrefixCompleted
  <2>5. ASSUME PrefixCompleted(draft), NEW i \in listed PROVE i < cursor
    <3>1. i \in StepsOf(plan) /\ draft.entry[i] = "completed"
      BY <2>2, <2>5, JournalFields DEF Completed
    <3>2. i # cursor /\ ~(cursor < i)
      BY <2>2, <2>5, <3>1, JournalFields DEF PrefixCompleted
    <3>3. i \in Nat /\ cursor \in Nat
      BY <2>2, <3>1, StepsKnown
    <3>4. QED
      BY <3>2, <3>3
  <2>6. QED
    BY <2>1, <2>2, <2>3, <2>4, <2>5 DEF OrderPart
<1>4. CASE RecordUndo
  <2>1. Reversible(plan) /\ plan \in Digests
    BY <1>4, DraftFacts DEF RecordUndo, IInv, LoopPart, RunPart, Reversible
  <2>2. journal'.digest = plan
    <3>1. /\ journal = draft /\ draft.digest = plan /\ draft \in Journals
          /\ Latest \in StepsOf(plan)
      BY <1>4, DraftFacts, LatestFacts DEF RecordUndo, IInv, LoopPart
    <3>2. "compensated" \in EntryStatus \ {"completed"}
      BY DEF EntryStatus
    <3>3. Marked(draft, Latest, "compensated").digest = plan
      BY <3>1, <3>2, UncompleteFields, Zenon
    <3>4. journal' \in {journal, Marked(draft, Latest, "compensated")}
      BY <1>4 DEF RecordUndo, SaveJournal
    <3>5. QED
      BY <3>1, <3>3, <3>4
  <2>3. plan' = plan
    BY <1>4 DEF RecordUndo, request
  <2>4. Reversible(journal'.digest) /\ Reversible(plan')
    BY <2>1, <2>2, <2>3
  <2>5. QED
    BY <2>4 DEF OrderPart
<1>5. CASE Succeed
  <2> DEFINE succeeded == [draft EXCEPT !.status = "succeeded"]
  <2>1. /\ pc = "step" /\ journal' \in {journal, succeeded}
        /\ pc' = "release" /\ outcome' \in {"ok", "error"}
    BY <1>5 DEF Succeed, Return
  <2>2. journal = draft /\ draft \in Journals
    BY <2>1, DraftFacts
  <2>3. succeeded.digest = journal.digest /\ succeeded.entry = journal.entry
    BY <2>2, ClosedFields
  <2> HIDE DEF succeeded
  <2>4. QED
    BY <2>1, <2>3 DEF OrderPart, PrefixCompleted
<1>6. CASE Undo \/ LeaveCompleted \/ Report
  BY <1>6 DEF Undo, AtUndo, LeaveCompleted, Report, Return, disk, run, request,
              progress, OrderPart
<1>7. CASE Stabilize \/ UNCHANGED vars
  BY <1>7 DEF Stabilize, vars, disk, run, request, progress, OrderPart
<1>8. ASSUME UNCHANGED journal, pc' \notin Undoing, ~Reported'
      PROVE  OrderPart'
  BY <1>8 DEF OrderPart
<1>9. ASSUME NEW d \in Digests, NEW b \in BOOLEAN, Begin(d, b)
      PROVE  OrderPart'
  BY <1>8, <1>9 DEF Begin, disk
<1>10. CASE LoadTrust \/ LoadJournal \/ SaveTrust
  BY <1>8, <1>10 DEF LoadTrust, LoadJournal, SaveTrust, CallFails, Return, disk
<1>11. CASE SkipCompleted \/ RecordState \/ Execute
  BY <1>8, <1>11 DEF SkipCompleted, RecordState, Execute, disk
<1>12. CASE Release \/ Crash
  BY <1>8, <1>12 DEF Release, Crash, ForgetRun, disk
<1>13. QED
  BY <1>1, <1>2, <1>3, <1>4, <1>5, <1>6, <1>7, <1>9, <1>10, <1>11, <1>12
     DEF Next, Apply

LEMMA AlwaysOrder == Spec => []OrderPart
<1>1. Init => OrderPart
  BY NoJournalFields DEF Init, OrderPart, PrefixCompleted, Undoing, Reported
<1>2. QED
  BY <1>1, NextOrder, AlwaysIInv, AlwaysReport, PTL DEF Spec

(***************************************************************************)
(* A plan without compensation is carried out in the order of its actions, *)
(* in every retry, and its failure report contradicts itself never.        *)
(***************************************************************************)
THEOREM InOrder == Spec => []OrderWithoutUndo
<1>1. IInv /\ OrderPart => OrderWithoutUndo
  <2> SUFFICES ASSUME IInv, OrderPart, plan # NoPlan, ~Reversible(plan)
               PROVE  /\ AtStep => \A k \in Completed(draft) : k < cursor
                      /\ Reported => listed \cap NotAttempted = {}
    BY DEF OrderWithoutUndo
  <2>1. ASSUME AtStep, NEW k \in Completed(draft) PROVE k < cursor
    <3>1. /\ plan \in Digests /\ journal = draft /\ draft.digest = plan
          /\ DOMAIN draft.entry = StepsOf(plan)
          /\ k \in StepsOf(plan) /\ draft.entry[k] = "completed"
      BY <2>1, DraftFacts DEF AtStep, Loop
    <3>2. cursor \in StepsOf(plan) /\ draft.entry[cursor] # "completed"
      BY <2>1 DEF AtStep
    <3>3. k # cursor /\ ~(cursor < k)
      BY <3>1, <3>2 DEF OrderPart, PrefixCompleted
    <3>4. k \in Nat /\ cursor \in Nat
      BY <3>1, <3>2, StepsKnown
    <3>5. QED
      BY <3>3, <3>4
  <2>2. ASSUME Reported PROVE listed \cap NotAttempted = {}
    <3>1. plan \in Digests /\ listed \subseteq StepsOf(plan) /\ cursor \in Nat
      BY <2>2 DEF IInv, RunPart, TypeOK, Reported
    <3>2. \A i \in listed : i \in Nat /\ i < cursor
      BY <2>2, <3>1, StepsKnown DEF OrderPart
    <3>3. QED
      BY <3>1, <3>2 DEF NotAttempted
  <2>3. QED
    BY <2>1, <2>2
<1>2. QED
  BY <1>1, AlwaysIInv, AlwaysOrder, PTL
=============================================================================
