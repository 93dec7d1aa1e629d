---------------------------- MODULE AtomicWriter ----------------------------
(***************************************************************************)
(* AtomicWriter.WriteJSON of internal/state/atomic.go, by which the store  *)
(* (internal/state/store.go) saves a journal, a trust record or an         *)
(* environment record: a temporary file is created, written, flushed and   *)
(* renamed over the state file, and the directory is flushed.              *)
(*                                                                         *)
(* A writer is one call of WriteJSON for one state file.  Its temporary    *)
(* file has a fresh name and keeps its identity when it is renamed, so the *)
(* writer also stands for the file it created and the value in it.         *)
(*                                                                         *)
(* The system has a cache: what was not flushed may or may not have        *)
(* reached the disk, and a power loss leaves what has.                     *)
(*                                                                         *)
(* The state directory itself is taken to be on disk: when MkdirAll has    *)
(* just made it, the code does not flush the directory above.              *)
(*                                                                         *)
(* Some names begin with Writer, for a module that extends this one and    *)
(* EnvironmentLock.                                                        *)
(***************************************************************************)
EXTENDS Integers, FiniteSets

CONSTANTS
    Writers,   \* the calls of WriteJSON for one state file
    NoFile     \* there is no state file

ASSUME WriterAssumption == NoFile \notin Writers

VARIABLES
    step,      \* step[w]: the next step of writer w
    target,    \* whose file is at the path of the state file
    durable,   \* the same on disk
    data,      \* data[w]: what the file of w holds
    onDisk,    \* onDisk[w]: what of that has reached the disk
    temporary, \* the writers whose file is at its temporary path
    renames,   \* history: the number of renames so far
    rank       \* history: rank[w]: the number of the rename by w, or 0

writerVars == <<step, target, durable, data, onDisk, temporary, renames, rank>>

Contents == {"none", "partial", "full"}
Steps == {"create", "write", "sync", "rename", "flush", "cleanup"}
WriterEnded == {"done", "failed", "leaked", "unflushed", "crashed"}

WriterTypeOK ==
    /\ step \in [Writers -> {"idle"} \cup Steps \cup WriterEnded]
    /\ target \in Writers \cup {NoFile}
    /\ durable \in Writers \cup {NoFile}
    /\ data \in [Writers -> Contents]
    /\ onDisk \in [Writers -> Contents]
    /\ temporary \subseteq Writers
    /\ renames \in Nat
    /\ rank \in [Writers -> Nat]

Proceed(w, label) == step' = [step EXCEPT ![w] = label]

Rank(file) == IF file = NoFile THEN 0 ELSE rank[file]

WriterInit ==
    /\ step = [w \in Writers |-> "idle"]
    /\ target = NoFile /\ durable = NoFile
    /\ data = [w \in Writers |-> "none"]
    /\ onDisk = [w \in Writers |-> "none"]
    /\ temporary = {}
    /\ renames = 0 /\ rank = [w \in Writers |-> 0]

-----------------------------------------------------------------------------
\* A save begins; several may be under way at once, for the lock that keeps
\* runs apart may fail.
Begin(w) ==
    /\ step[w] = "idle"
    /\ Proceed(w, "create")
    /\ UNCHANGED <<target, durable, data, onDisk, temporary, renames, rank>>

\* MkdirAll, Chmod and CreateTemp: an empty file with a name of its own.
CreateTemp(w) ==
    /\ step[w] = "create"
    /\ \/ temporary' = temporary \cup {w} /\ Proceed(w, "write")
       \/ UNCHANGED temporary /\ Proceed(w, "failed")
    /\ UNCHANGED <<target, durable, data, onDisk, renames, rank>>

\* Mutation: the temporary file is not flushed.
WriteUnsynced(w) ==
    /\ step[w] = "write"
    /\ data' = [data EXCEPT ![w] = "full"]
    /\ Proceed(w, "rename")
    /\ UNCHANGED <<target, durable, onDisk, temporary, renames, rank>>
\* Mutation: a short write is not noticed.
WriteUnchecked(w) ==
    /\ step[w] = "write"
    /\ \E written \in {"partial", "full"} :
           data' = [data EXCEPT ![w] = written]
    /\ Proceed(w, "sync")
    /\ UNCHANGED <<target, durable, onDisk, temporary, renames, rank>>

\* Write: all of the value, or an error and a part of it.
Write(w) ==
    /\ step[w] = "write"
    /\ \/ data' = [data EXCEPT ![w] = "full"] /\ Proceed(w, "sync")
       \/ /\ \E written \in {"none", "partial"} :
                 data' = [data EXCEPT ![w] = written]
          /\ Proceed(w, "cleanup")
    /\ UNCHANGED <<target, durable, onDisk, temporary, renames, rank>>

\* Sync and Close.
Sync(w) ==
    /\ step[w] = "sync"
    /\ \/ onDisk' = [onDisk EXCEPT ![w] = data[w]] /\ Proceed(w, "rename")
       \/ UNCHANGED onDisk /\ Proceed(w, "cleanup")
    /\ UNCHANGED <<target, durable, data, temporary, renames, rank>>

\* os.Rename: the state file is replaced at once, or not at all.
Rename(w) ==
    /\ step[w] = "rename"
    /\ \/ /\ target' = w
          /\ temporary' = temporary \ {w}
          /\ renames' = renames + 1
          /\ rank' = [rank EXCEPT ![w] = renames + 1]
          /\ Proceed(w, "flush")
       \/ /\ Proceed(w, "cleanup")
          /\ UNCHANGED <<target, temporary, renames, rank>>
    /\ UNCHANGED <<durable, data, onDisk>>

\* Mutation: the directory is not flushed.
ReturnUnflushed(w) ==
    /\ step[w] = "flush"
    /\ Proceed(w, "done")
    /\ UNCHANGED <<target, durable, data, onDisk, temporary, renames, rank>>

\* flushDirectory: WriteJSON succeeds, or reports an error although the
\* state file has been replaced.
Flush(w) ==
    /\ step[w] = "flush"
    /\ \/ durable' = target /\ Proceed(w, "done")
       \/ UNCHANGED durable /\ Proceed(w, "unflushed")
    /\ UNCHANGED <<target, data, onDisk, temporary, renames, rank>>

\* The deferred os.Remove, its error ignored.
RemoveTemporary(w) ==
    /\ step[w] = "cleanup"
    /\ \/ temporary' = temporary \ {w} /\ Proceed(w, "failed")
       \/ UNCHANGED temporary /\ Proceed(w, "leaked")
    /\ UNCHANGED <<target, durable, data, onDisk, renames, rank>>

\* The process of w ends, within the write perhaps.
WriterCrash(w) ==
    /\ step[w] \in Steps
    /\ Proceed(w, "crashed")
    /\ \/ UNCHANGED data
       \/ step[w] = "write" /\ data' = [data EXCEPT ![w] = "partial"]
    /\ UNCHANGED <<target, durable, onDisk, temporary, renames, rank>>

\* The system writes a file, or the directory, to disk of its own accord.
WriteBack(w) ==
    /\ onDisk' = [onDisk EXCEPT ![w] = data[w]]
    /\ UNCHANGED <<step, target, durable, data, temporary, renames, rank>>

WriteBackDirectory ==
    /\ durable' = target
    /\ UNCHANGED <<step, target, data, onDisk, temporary, renames, rank>>

\* All processes end and what was only in the cache is gone.  A file whose
\* rename was only there may be back at its temporary path.
PowerLoss ==
    /\ step' = [w \in Writers |->
                    IF step[w] \in Steps THEN "crashed" ELSE step[w]]
    /\ target' = durable
    /\ data' = onDisk
    /\ \E back \in SUBSET {w \in Writers : rank[w] > Rank(durable)} :
           temporary' = temporary \cup back
    /\ UNCHANGED <<durable, onDisk, renames, rank>>

WriteJSON(w) ==
    \/ Begin(w) \/ CreateTemp(w) \/ Write(w) \/ Sync(w) \/ Rename(w)
    \/ Flush(w) \/ RemoveTemporary(w)

WriterNext ==
    \/ \E w \in Writers : WriteJSON(w) \/ WriterCrash(w) \/ WriteBack(w)
    \/ WriteBackDirectory \/ PowerLoss

WriterSpec == WriterInit /\ [][WriterNext]_writerVars

-----------------------------------------------------------------------------
(***************************************************************************)
(* A load never finds half a record: the state file holds the whole of a   *)
(* value at every moment, and also after a power loss in any of the steps  *)
(* of any number of writers.                                               *)
(***************************************************************************)
NeverTorn == \A file \in {target, durable} \ {NoFile} :
    data[file] = "full" /\ onDisk[file] = "full"

(***************************************************************************)
(* A save that reported success survives a power loss: what is on disk     *)
(* from then on is its value or that of a later rename, also when another  *)
(* writer renamed between its rename and its flush.                        *)
(***************************************************************************)
SuccessSurvives == \A w \in Writers :
    step[w] = "done" => Rank(durable) >= rank[w]

(***************************************************************************)
(* The four filesystem calls implement the atomic file.                    *)
(***************************************************************************)
Loaded(file, contents) ==
    IF file # NoFile /\ contents[file] # "full" THEN "torn" ELSE file

File == INSTANCE AtomicFile WITH
    value <- Loaded(target, data),
    kept <- Loaded(durable, onDisk),
    stored <- {w \in Writers : rank[w] > 0}
ImplementsFile == File!FileSpec
=============================================================================
