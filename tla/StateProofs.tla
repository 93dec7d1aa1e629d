----------------------------- MODULE StateProofs -----------------------------
(***************************************************************************)
(* Proofs about internal/state: the environment lock, and the writer that  *)
(* saves what it protects.                                                 *)
(*                                                                         *)
(* The lock, for any number of processes, PIDs and attempts: an owner's    *)
(* file stays at the lock path because whoever removes a file removes      *)
(* either its own, or one whose creator it knows to have ended, or else    *)
(* misremoves.                                                             *)
(*                                                                         *)
(* The writer, for any number of writers: the file at the path is whole    *)
(* because only a flushed file is renamed; a save that succeeded survives  *)
(* because the files at the path, in the cache and on disk, are ordered by *)
(* their renames, and no power loss came between the rename and the flush  *)
(* of a writer that is still running.                                      *)
(***************************************************************************)
EXTENDS EnvironmentLock, AtomicWriter, TLAPS

-----------------------------------------------------------------------------
(***************************************************************************)
(* The environment lock.                                                   *)
(***************************************************************************)

\* A process whose file is at the path, or whose metadata was read, has run.
CreatorsStarted ==
    /\ lockFile # NoProcess => pc[lockFile] # "idle"
    /\ \A p \in Processes : pc[p] \in {"probe", "verify", "remove"} =>
        seen[p] \in Processes /\ pc[seen[p]] # "idle"

\* The metadata is complete before Acquire returns the lock.
WrittenBeforeHeld ==
    \A p \in Processes :
        pc[p] \in {"publish", "holding", "unlink"} => content[p] = "full"

OwnersInPlace ==
    misremoved \/ \A p \in Processes : pc[p] \in Owning => lockFile = p

IInv ==
    /\ TypeOK
    /\ CreatorsStarted
    /\ WrittenBeforeHeld
    /\ RecoversOnlyEnded
    /\ OwnersInPlace

-----------------------------------------------------------------------------
(***************************************************************************)
(* The inductive invariant holds initially.                                *)
(***************************************************************************)
LEMMA InitIInv == Init => IInv
<1> SUFFICES ASSUME Init PROVE IInv
  OBVIOUS
<1> USE DEF Init
<1>1. TypeOK
  <2>1. misremoved \in BOOLEAN
    OBVIOUS
  <2>2. QED
    BY <2>1, LockAssumption DEF TypeOK
<1>2. CreatorsStarted /\ WrittenBeforeHeld /\ RecoversOnlyEnded
  BY DEF CreatorsStarted, WrittenBeforeHeld, RecoversOnlyEnded
<1>3. OwnersInPlace
  BY DEF OwnersInPlace, Owning
<1>4. QED
  BY <1>1, <1>2, <1>3 DEF IInv

(***************************************************************************)
(* Every step of a process, of the operating system or of a foreign        *)
(* program keeps the inductive invariant.                                  *)
(***************************************************************************)
LEMMA NextIInv == IInv /\ [Next]_vars => IInv'
<1> SUFFICES ASSUME IInv, [Next]_vars PROVE IInv'
  OBVIOUS
<1> USE LockAssumption
        DEF TypeOK, CreatorsStarted, WrittenBeforeHeld,
            RecoversOnlyEnded, OwnersInPlace, IInv, Owning, Over, Ended, Calls,
            Goto
<1>1. ASSUME NEW p \in Processes, Start(p) PROVE IInv'
  BY <1>1 DEF Start
<1>2. ASSUME NEW p \in Processes, CreateExclusive(p) PROVE IInv'
  BY <1>2 DEF CreateExclusive
<1>3. ASSUME NEW p \in Processes, WriteMetadata(p) PROVE IInv'
  BY <1>3 DEF WriteMetadata
<1>4. ASSUME NEW p \in Processes, Publish(p) PROVE IInv'
  BY <1>4 DEF Publish
<1>5. ASSUME NEW p \in Processes, CreationFails(p) PROVE IInv'
  BY <1>5 DEF CreationFails
<1>6. ASSUME NEW p \in Processes, Cleanup(p) PROVE IInv'
  BY <1>6 DEF Cleanup
<1>7. ASSUME NEW p \in Processes, Inspect(p) PROVE IInv'
  BY <1>7 DEF Inspect, Retry
<1>8. ASSUME NEW p \in Processes, Probe(p) PROVE IInv'
  BY <1>8 DEF Probe, Alive, Running
<1>9. ASSUME NEW p \in Processes, Verify(p) PROVE IInv'
  BY <1>9 DEF Verify, Retry
<1>10. ASSUME NEW p \in Processes, RemoveStale(p) PROVE IInv'
  <2>1. misremoved' \in BOOLEAN
    BY <1>10 DEF RemoveStale
  <2>2. TypeOK' /\ CreatorsStarted' /\ WrittenBeforeHeld' /\ RecoversOnlyEnded'
    BY <1>10, <2>1 DEF RemoveStale, Retry
  <2>3. OwnersInPlace'
    <3>1. SUFFICES ASSUME ~misremoved',
                          NEW q \in Processes, pc'[q] \in Owning
                   PROVE  lockFile' = q
      OBVIOUS
    <3>2. ~misremoved /\ lockFile \in {seen[p], NoProcess}
      BY <1>10, <3>1 DEF RemoveStale
    <3>3. lockFile = q
      BY <1>10, <3>1, <3>2 DEF RemoveStale, Retry
    <3>4. Over(q)
      BY <1>10, <3>2, <3>3 DEF RemoveStale
    <3>5. QED
      BY <1>10, <3>1, <3>4 DEF RemoveStale, Retry
  <2>4. QED
    BY <2>2, <2>3
<1>11. ASSUME NEW p \in Processes, AcquireFails(p) PROVE IInv'
  BY <1>11 DEF AcquireFails
<1>12. ASSUME NEW p \in Processes, CheckOwnership(p) PROVE IInv'
  BY <1>12 DEF CheckOwnership
<1>13. ASSUME NEW p \in Processes, Unlink(p) PROVE IInv'
  BY <1>13 DEF Unlink
<1>14. ASSUME NEW p \in Processes, ReleaseFails(p) PROVE IInv'
  BY <1>14 DEF ReleaseFails
<1>15. ASSUME NEW p \in Processes, Crash(p) PROVE IInv'
  BY <1>15 DEF Crash, Running
<1>16. ASSUME NEW n \in Pids, ForeignStarts(n) PROVE IInv'
  BY <1>16 DEF ForeignStarts
<1>17. ASSUME NEW n \in Pids, ForeignEnds(n) PROVE IInv'
  BY <1>17 DEF ForeignEnds
<1>18. CASE UNCHANGED vars
  BY <1>18 DEF vars
<1>19. QED
  BY <1>1, <1>2, <1>3, <1>4, <1>5, <1>6, <1>7, <1>8, <1>9, <1>10, <1>11,
     <1>12, <1>13, <1>14, <1>15, <1>16, <1>17, <1>18
     DEF Next, Acquires, Releases

(***************************************************************************)
(* The inductive invariant holds in every reachable state.                 *)
(***************************************************************************)
LEMMA AlwaysIInv == Spec => []IInv
  BY InitIInv, NextIInv, PTL DEF Spec

(***************************************************************************)
(* Every variable of the lock keeps its type.                              *)
(***************************************************************************)
THEOREM TypeCorrect == Spec => []TypeOK
<1>1. IInv => TypeOK
  BY DEF IInv
<1>2. QED
  BY <1>1, AlwaysIInv, PTL

(***************************************************************************)
(* At most one process holds the lock unless a recovery has removed a file *)
(* it had not verified: createLockFile and Release need no other help.     *)
(***************************************************************************)
THEOREM Exclusion == Spec => []ExclusionUnlessMisremoved
<1>1. IInv => ExclusionUnlessMisremoved
  BY DEF IInv, OwnersInPlace, ExclusionUnlessMisremoved, MutualExclusion,
         Holders, Owning
<1>2. QED
  BY <1>1, AlwaysIInv, PTL

(***************************************************************************)
(* An owner's file is the one at the lock path, and a holder's names it,   *)
(* unless a recovery has removed a file it had not verified.               *)
(***************************************************************************)
THEOREM OwnershipVisible == Spec => []OwnerFileInPlace
<1>1. IInv => OwnerFileInPlace
  BY DEF IInv, OwnersInPlace, WrittenBeforeHeld, OwnerFileInPlace
<1>2. QED
  BY <1>1, AlwaysIInv, PTL

(***************************************************************************)
(* recoverStaleLock verifies and removes only locks of ended processes.    *)
(***************************************************************************)
THEOREM RecoverySound == Spec => []RecoversOnlyEnded
<1>1. IInv => RecoversOnlyEnded
  BY DEF IInv
<1>2. QED
  BY <1>1, AlwaysIInv, PTL

-----------------------------------------------------------------------------
(* What a lock file says about its creator.                                  *)

\* Before the exclusive open, or after it found another's file.
NotCreated == {"idle", "create", "inspect", "probe", "verify", "remove"}
Creating == {"write", "publish", "cleanup"}

\* A process has no file before it creates one, and what is at the path has
\* been created; of a creator that has ended it is complete, unless that
\* ended where nothing could be cleaned up.
FilesHaveCreators ==
    /\ \A p \in Processes : pc[p] \in NotCreated => content[p] = "none"
    /\ lockFile # NoProcess =>
        /\ content[lockFile] # "none"
        /\ \/ content[lockFile] = "full"
           \/ pc[lockFile] \in Creating \cup {"crashed", "leaked"}

(***************************************************************************)
(* Every step keeps the files' relation to their creators.                 *)
(***************************************************************************)
LEMMA NextFilesHaveCreators ==
  IInv /\ FilesHaveCreators /\ [Next]_vars => FilesHaveCreators'
<1> SUFFICES ASSUME IInv, FilesHaveCreators, [Next]_vars
             PROVE  FilesHaveCreators'
  OBVIOUS
<1> USE LockAssumption DEF IInv, TypeOK, WrittenBeforeHeld, FilesHaveCreators,
        NotCreated, Creating, Goto
<1>1. ASSUME NEW p \in Processes, Start(p) PROVE FilesHaveCreators'
  BY <1>1 DEF Start
<1>2. ASSUME NEW p \in Processes, CreateExclusive(p) PROVE FilesHaveCreators'
  BY <1>2 DEF CreateExclusive
<1>3. ASSUME NEW p \in Processes, WriteMetadata(p) PROVE FilesHaveCreators'
  BY <1>3 DEF WriteMetadata
<1>4. ASSUME NEW p \in Processes, Publish(p) PROVE FilesHaveCreators'
  BY <1>4 DEF Publish
<1>5. ASSUME NEW p \in Processes, CreationFails(p) PROVE FilesHaveCreators'
  BY <1>5 DEF CreationFails
<1>6. ASSUME NEW p \in Processes, Cleanup(p) PROVE FilesHaveCreators'
  BY <1>6 DEF Cleanup
<1>7. ASSUME NEW p \in Processes, Inspect(p) PROVE FilesHaveCreators'
  BY <1>7 DEF Inspect, Retry
<1>8. ASSUME NEW p \in Processes, Probe(p) PROVE FilesHaveCreators'
  BY <1>8 DEF Probe
<1>9. ASSUME NEW p \in Processes, Verify(p) PROVE FilesHaveCreators'
  BY <1>9 DEF Verify, Retry
<1>10. ASSUME NEW p \in Processes, RemoveStale(p) PROVE FilesHaveCreators'
  BY <1>10 DEF RemoveStale, Retry
<1>11. ASSUME NEW p \in Processes, AcquireFails(p) PROVE FilesHaveCreators'
  BY <1>11 DEF AcquireFails
<1>12. ASSUME NEW p \in Processes, CheckOwnership(p) PROVE FilesHaveCreators'
  BY <1>12 DEF CheckOwnership
<1>13. ASSUME NEW p \in Processes, Unlink(p) PROVE FilesHaveCreators'
  BY <1>13 DEF Unlink
<1>14. ASSUME NEW p \in Processes, ReleaseFails(p) PROVE FilesHaveCreators'
  BY <1>14 DEF ReleaseFails
<1>15. ASSUME NEW p \in Processes, Crash(p) PROVE FilesHaveCreators'
  BY <1>15 DEF Crash, Running, Calls
<1>16. ASSUME NEW n \in Pids, ForeignStarts(n) \/ ForeignEnds(n)
       PROVE  FilesHaveCreators'
  BY <1>16 DEF ForeignStarts, ForeignEnds
<1>17. CASE UNCHANGED vars
  BY <1>17 DEF vars
<1>18. QED
  BY <1>1, <1>2, <1>3, <1>4, <1>5, <1>6, <1>7, <1>8, <1>9, <1>10, <1>11,
     <1>12, <1>13, <1>14, <1>15, <1>16, <1>17 DEF Next, Acquires, Releases

(***************************************************************************)
(* The files' relation to their creators holds in every reachable state.   *)
(***************************************************************************)
LEMMA AlwaysFilesHaveCreators == Spec => []FilesHaveCreators
<1>1. Init => FilesHaveCreators
  BY DEF Init, FilesHaveCreators
<1>2. QED
  BY <1>1, NextFilesHaveCreators, AlwaysIInv, PTL DEF Spec

(***************************************************************************)
(* A lock file that no Acquire can recover is left by a crash between its  *)
(* creation and its metadata, or by a failing cleanup, and by nothing else *)
(* that createLockFile, recoverStaleLock or Release meet.                  *)
(***************************************************************************)
THEOREM UnreadableLeft == Spec => []UnreadableNeedsCrash
<1>1. IInv /\ FilesHaveCreators => UnreadableNeedsCrash
  BY DEF IInv, TypeOK, FilesHaveCreators, UnreadableNeedsCrash, Creating, Over,
         Ended
<1>2. QED
  BY <1>1, AlwaysIInv, AlwaysFilesHaveCreators, PTL

(***************************************************************************)
(* No lock file comes back to the path it has left: the two reads of       *)
(* recoverStaleLock cannot be deceived by a file that was away in between. *)
(***************************************************************************)
THEOREM NeverReappears == Spec => NoReappearance
<1>1. IInv /\ FilesHaveCreators /\ [Next]_vars =>
          \A p \in Processes :
              lockFile' = p /\ lockFile # p => content[p] = "none"
  <2> SUFFICES ASSUME IInv, FilesHaveCreators, [Next]_vars,
                      NEW p \in Processes, lockFile' = p, lockFile # p
               PROVE  content[p] = "none"
    OBVIOUS
  <2> p # NoProcess
    BY LockAssumption
  <2>1. ASSUME NEW q \in Processes, CreateExclusive(q) PROVE content[p] = "none"
    BY <2>1 DEF CreateExclusive, FilesHaveCreators, NotCreated
  <2>2. ASSUME NEW q \in Processes, Cleanup(q) \/ RemoveStale(q) \/ Unlink(q)
        PROVE  FALSE
    BY <2>2 DEF Cleanup, RemoveStale, Unlink
  <2>3. ASSUME lockFile' = lockFile PROVE FALSE
    BY <2>3
  <2>4. QED
    BY <2>1, <2>2, <2>3
       DEF Next, Acquires, Releases, vars, Start, WriteMetadata, Publish,
           CreationFails, Inspect, Probe, Verify, AcquireFails, CheckOwnership,
           ReleaseFails, Crash, ForeignStarts, ForeignEnds
<1>2. QED
  BY <1>1, AlwaysIInv, AlwaysFilesHaveCreators, PTL DEF Spec, NoReappearance

-----------------------------------------------------------------------------
(***************************************************************************)
(* The atomic writer.                                                      *)
(***************************************************************************)

\* What has been flushed is whole, before the rename and after it.
FlushedWhole == \A w \in Writers :
    step[w] = "rename" \/ w \in {target, durable} =>
        data[w] = "full" /\ onDisk[w] = "full"
SyncedWhole == \A w \in Writers : step[w] = "sync" => data[w] = "full"

\* Only a writer that has come to its rename has a rank.
RankedRenamed ==
    /\ \A w \in Writers :
           /\ rank[w] <= renames
           /\ rank[w] > 0 =>
                  step[w] \in {"flush", "done", "unflushed", "crashed"}
    /\ \A w \in Writers \cap {target, durable} : rank[w] > 0

\* The file at the path is at least as new as the one on disk, and as those
\* of the writers about to flush.
NewerInPlace ==
    /\ Rank(durable) <= Rank(target)
    /\ \A w \in Writers : step[w] = "flush" => rank[w] <= Rank(target)

WriterIInv ==
    /\ WriterTypeOK /\ FlushedWhole /\ SyncedWhole /\ RankedRenamed
    /\ NewerInPlace /\ SuccessSurvives

-----------------------------------------------------------------------------
(***************************************************************************)
(* The inductive invariant holds initially.                                *)
(***************************************************************************)
LEMMA WriterInitIInv == WriterInit => WriterIInv
BY WriterAssumption
   DEF WriterInit, WriterIInv, WriterTypeOK, Contents, FlushedWhole,
       SyncedWhole, RankedRenamed, NewerInPlace, SuccessSurvives, Rank

(***************************************************************************)
(* Every step of a writer, of the system's cache and every power loss      *)
(* keeps the inductive invariant.                                          *)
(***************************************************************************)
LEMMA WriterNextIInv == WriterIInv /\ [WriterNext]_writerVars => WriterIInv'
<1> SUFFICES ASSUME WriterIInv, [WriterNext]_writerVars PROVE WriterIInv'
  OBVIOUS
<1> USE WriterAssumption
        DEF WriterIInv, WriterTypeOK, Contents, Steps, WriterEnded, Proceed,
            FlushedWhole, SyncedWhole, RankedRenamed, NewerInPlace, SuccessSurvives, Rank
<1>1. ASSUME NEW w \in Writers, Begin(w) PROVE WriterIInv'
  BY <1>1 DEF Begin
<1>2. ASSUME NEW w \in Writers, CreateTemp(w) PROVE WriterIInv'
  BY <1>2 DEF CreateTemp
<1>3. ASSUME NEW w \in Writers, Write(w) PROVE WriterIInv'
  BY <1>3 DEF Write
<1>4. ASSUME NEW w \in Writers, Sync(w) PROVE WriterIInv'
  BY <1>4 DEF Sync
<1>5. ASSUME NEW w \in Writers, Rename(w) PROVE WriterIInv'
  BY <1>5 DEF Rename
<1>6. ASSUME NEW w \in Writers, Flush(w) PROVE WriterIInv'
  BY <1>6 DEF Flush
<1>7. ASSUME NEW w \in Writers, RemoveTemporary(w) PROVE WriterIInv'
  BY <1>7 DEF RemoveTemporary
<1>8. ASSUME NEW w \in Writers, WriterCrash(w) PROVE WriterIInv'
  BY <1>8 DEF WriterCrash
<1>9. ASSUME NEW w \in Writers, WriteBack(w) PROVE WriterIInv'
  BY <1>9 DEF WriteBack
<1>10. CASE WriteBackDirectory
  BY <1>10 DEF WriteBackDirectory
<1>11. CASE PowerLoss
  BY <1>11 DEF PowerLoss
<1>12. CASE UNCHANGED writerVars
  BY <1>12 DEF writerVars
<1>13. QED
  BY <1>1, <1>2, <1>3, <1>4, <1>5, <1>6, <1>7, <1>8, <1>9, <1>10, <1>11,
     <1>12 DEF WriterNext, WriteJSON

(***************************************************************************)
(* The inductive invariant holds in every reachable state.                 *)
(***************************************************************************)
LEMMA AlwaysWriterIInv == WriterSpec => []WriterIInv
  BY WriterInitIInv, WriterNextIInv, PTL DEF WriterSpec

(***************************************************************************)
(* Every variable of the writer keeps its type, for any number of writers. *)
(***************************************************************************)
THEOREM WriterTypeCorrect == WriterSpec => []WriterTypeOK
<1>1. WriterIInv => WriterTypeOK
  BY DEF WriterIInv
<1>2. QED
  BY <1>1, AlwaysWriterIInv, PTL

(***************************************************************************)
(* A load finds the whole of a value, after a power loss too.              *)
(***************************************************************************)
THEOREM Whole == WriterSpec => []NeverTorn
<1>1. WriterIInv => NeverTorn
  BY DEF WriterIInv, WriterTypeOK, FlushedWhole, NeverTorn
<1>2. QED
  BY <1>1, AlwaysWriterIInv, PTL

(***************************************************************************)
(* A save that reported success survives a power loss.                     *)
(***************************************************************************)
THEOREM Survival == WriterSpec => []SuccessSurvives
<1>1. WriterIInv => SuccessSurvives
  BY DEF WriterIInv
<1>2. QED
  BY <1>1, AlwaysWriterIInv, PTL

-----------------------------------------------------------------------------
(***************************************************************************)
(* Whatever the state file is, it is loaded whole.                         *)
(***************************************************************************)
LEMMA LoadedWhole ==
  ASSUME WriterIInv
  PROVE  Loaded(target, data) = target /\ Loaded(durable, onDisk) = durable
BY DEF WriterIInv, WriterTypeOK, FlushedWhole, Loaded

(***************************************************************************)
(* Every step is one of the atomic file, or does not concern it.           *)
(***************************************************************************)
LEMMA WriterNextRefines ==
  WriterIInv /\ WriterIInv' /\ [WriterNext]_writerVars
    => [File!FileNext]_(File!fileVars)
<1> SUFFICES ASSUME WriterIInv, WriterIInv', [WriterNext]_writerVars
             PROVE  [File!FileNext]_(File!fileVars)
  OBVIOUS
<1>1. /\ Loaded(target, data) = target
      /\ Loaded(durable, onDisk) = durable
      /\ Loaded(target, data)' = target'
      /\ Loaded(durable, onDisk)' = durable'
  <2>1. Loaded(target, data) = target /\ Loaded(durable, onDisk) = durable
    BY LoadedWhole
  <2>2. Loaded(target, data)' = target' /\ Loaded(durable, onDisk)' = durable'
    BY DEF WriterIInv, WriterTypeOK, FlushedWhole, Loaded
  <2>3. QED
    BY <2>1, <2>2
<1>2. CASE UNCHANGED <<target, durable, rank>>
  BY <1>1, <1>2 DEF File!fileVars
<1>3. ASSUME NEW w \in Writers, Rename(w), target' = w
      PROVE  File!FileNext
  <2> DEFINE stored == {v \in Writers : rank[v] > 0}
  <2>1. w \notin stored /\ UNCHANGED durable
    BY <1>3 DEF Rename, WriterIInv, RankedRenamed
  <2>2. rank' = [rank EXCEPT ![w] = renames + 1]
    <3>1. CASE target = w
      BY <1>3, <3>1 DEF Rename, WriterIInv, WriterTypeOK, RankedRenamed
    <3>2. CASE target # w
      BY <1>3, <3>2 DEF Rename
    <3>3. QED
      BY <3>1, <3>2
  <2>3. stored' = stored \cup {w}
    BY <2>2 DEF WriterIInv, WriterTypeOK
  <2>4. File!Store(w)
    BY <1>1, <1>3, <2>1, <2>3 DEF File!Store
  <2>5. QED
    BY <2>4 DEF File!FileNext
<1>4. CASE durable' = target /\ UNCHANGED <<target, rank>>
  <2>1. File!Keep
    BY <1>1, <1>4 DEF File!Keep
  <2>2. QED
    BY <2>1 DEF File!FileNext
<1>5. CASE target' = durable /\ UNCHANGED <<durable, rank>>
  <2>1. File!TakeBack
    BY <1>1, <1>5 DEF File!TakeBack
  <2>2. QED
    BY <2>1 DEF File!FileNext
<1>6. QED
  BY <1>2, <1>3, <1>4, <1>5
     DEF WriterNext, WriteJSON, Begin, CreateTemp, Write, Sync, Rename, Flush,
         RemoveTemporary, WriterCrash, WriteBack, WriteBackDirectory, PowerLoss,
         writerVars

(***************************************************************************)
(* WriteJSON, as a sequence of filesystem calls with errors, crashes and   *)
(* power losses in between, implements the atomic file.                    *)
(***************************************************************************)
THEOREM Refinement == WriterSpec => ImplementsFile
<1>1. WriterInit => File!FileInit
  BY DEF WriterInit, File!FileInit, Loaded
<1>2. QED
  BY <1>1, WriterNextRefines, AlwaysWriterIInv, PTL
     DEF WriterSpec, ImplementsFile, File!FileSpec
==============================================================================
