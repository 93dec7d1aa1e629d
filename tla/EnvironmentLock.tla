-------------------------- MODULE EnvironmentLock --------------------------
(***************************************************************************)
(* The environment lock of internal/state/lock.go: one file per project    *)
(* identity, created with O_CREATE|O_EXCL, filled with the metadata of its *)
(* owner (PID and random nonce), and recovered when that owner has ended.  *)
(*                                                                         *)
(* A process is one invocation of the CLI that calls Acquire once and, if  *)
(* it obtains the lock, Release once.  A process creates at most one lock  *)
(* file (a creation ends Acquire, with the lock or with an error), so the  *)
(* process itself stands for the file it created and for the nonce in it.  *)
(*                                                                         *)
(* Every filesystem call is a step of its own: processes interleave, crash *)
(* and see I/O errors between any two of them.                             *)
(***************************************************************************)
EXTENDS Integers, FiniteSets

CONSTANTS
    Processes,    \* the invocations of the CLI that contend for one lock
    Pids,         \* the process identifiers of the operating system
    NoProcess,    \* stands for "no lock file" and "no owner seen"
    NoPid,        \* the PID of an invocation that has not started
    MaxAttempts   \* iterations of the loop in Acquire (8 in the code)

ASSUME LockAssumption ==
    /\ NoProcess \notin Processes
    /\ NoPid \notin Pids
    /\ MaxAttempts \in Nat \ {0}

VARIABLES
    pc,          \* pc[p]: the next call of process p
    pid,         \* pid[p]: the PID of p
    foreign,     \* PIDs that run other programs
    lockFile,    \* the creator of the file at the lock path, or NoProcess
    content,     \* content[p]: what the file created by p holds
    seen,        \* seen[p]: the owner p read when it inspected the lock
    attempt,     \* attempt[p]: iteration of the loop in Acquire
    misremoved   \* history: a recovery removed a file it had not verified

vars == <<pc, pid, foreign, lockFile, content, seen, attempt, misremoved>>

Ended == {"held", "exhausted", "failed", "leaked", "released",
          "abandoned", "crashed"}
Calls == {"create", "write", "publish", "cleanup", "inspect", "probe",
          "verify", "remove", "holding", "unlink"}

TypeOK ==
    /\ pc \in [Processes -> {"idle"} \cup Calls \cup Ended]
    /\ pid \in [Processes -> Pids \cup {NoPid}]
    /\ foreign \subseteq Pids
    /\ lockFile \in Processes \cup {NoProcess}
    /\ content \in [Processes -> {"none", "partial", "full"}]
    /\ seen \in [Processes -> Processes \cup {NoProcess}]
    /\ attempt \in [Processes -> 1..MaxAttempts]
    /\ misremoved \in BOOLEAN

Running(p) == pc[p] \in Calls
Over(p) == pc[p] \in Ended

\* processAlive: signal 0 reaches a process with that PID, whoever it is.
Alive(n) == n \in foreign \/ \E q \in Processes : Running(q) /\ pid[q] = n

Goto(p, label) == pc' = [pc EXCEPT ![p] = label]

-----------------------------------------------------------------------------
Init ==
    /\ pc = [p \in Processes |-> "idle"]
    /\ pid = [p \in Processes |-> NoPid]
    /\ foreign = {}
    /\ lockFile = NoProcess
    /\ content = [p \in Processes |-> "none"]
    /\ seen = [p \in Processes |-> NoProcess]
    /\ attempt = [p \in Processes |-> 1]
    /\ misremoved = FALSE

\* The operating system gives p a PID no running process has.
Start(p) ==
    /\ pc[p] = "idle"
    /\ \E n \in Pids : ~Alive(n) /\ pid' = [pid EXCEPT ![p] = n]
    /\ Goto(p, "create")
    /\ UNCHANGED <<foreign, lockFile, content, seen, attempt, misremoved>>

\* Mutation: the file is opened without O_EXCL.
CreateShared(p) ==
    /\ pc[p] = "create"
    /\ lockFile' = p
    /\ content' = [content EXCEPT ![p] = "partial"]
    /\ Goto(p, "write")
    /\ UNCHANGED <<pid, foreign, seen, attempt, misremoved>>
\* Mutation: the deferred cleanup also runs when the file exists already.
CreateAlwaysCleans(p) ==
    /\ pc[p] = "create"
    /\ IF lockFile = NoProcess
       THEN /\ lockFile' = p
            /\ content' = [content EXCEPT ![p] = "partial"]
            /\ Goto(p, "write")
       ELSE Goto(p, "cleanup") /\ UNCHANGED <<lockFile, content>>
    /\ UNCHANGED <<pid, foreign, seen, attempt, misremoved>>

\* createLockFile, the exclusive open: the file appears, still empty.
CreateExclusive(p) ==
    /\ pc[p] = "create"
    /\ IF lockFile = NoProcess
       THEN /\ lockFile' = p
            /\ content' = [content EXCEPT ![p] = "partial"]
            /\ Goto(p, "write")
       ELSE /\ Goto(p, "inspect")
            /\ UNCHANGED <<lockFile, content>>
    /\ UNCHANGED <<pid, foreign, seen, attempt, misremoved>>

\* Mutation: the metadata is written by path, which may make a new file.
WriteByPath(p) ==
    /\ pc[p] = "write"
    /\ lockFile' = p
    /\ content' = [content EXCEPT ![p] = "full"]
    /\ Goto(p, "publish")
    /\ UNCHANGED <<pid, foreign, seen, attempt, misremoved>>

\* createLockFile, the write of the metadata through the open descriptor:
\* it reaches the file p created, wherever that file is now.
WriteMetadata(p) ==
    /\ pc[p] = "write"
    /\ content' = [content EXCEPT ![p] = "full"]
    /\ Goto(p, "publish")
    /\ UNCHANGED <<pid, foreign, lockFile, seen, attempt, misremoved>>

\* createLockFile, Sync, Close and the flush of the directory.
Publish(p) ==
    /\ pc[p] = "publish"
    /\ Goto(p, "holding")
    /\ UNCHANGED <<pid, foreign, lockFile, content, seen, attempt, misremoved>>

\* createLockFile, the write or a flush fails: the deferred function runs.
CreationFails(p) ==
    /\ pc[p] \in {"write", "publish"}
    /\ Goto(p, "cleanup")
    /\ UNCHANGED <<pid, foreign, lockFile, content, seen, attempt, misremoved>>

\* Mutation: the file of a failed creation is kept.
KeepFailedCreation(p) ==
    /\ pc[p] = "cleanup"
    /\ Goto(p, "failed")
    /\ UNCHANGED <<pid, foreign, lockFile, content, seen, attempt, misremoved>>

\* createLockFile, the deferred os.Remove: by path, its error ignored.
Cleanup(p) ==
    /\ pc[p] = "cleanup"
    /\ \/ lockFile' = NoProcess /\ Goto(p, "failed")
       \/ UNCHANGED lockFile /\ Goto(p, "leaked")
    /\ UNCHANGED <<pid, foreign, content, seen, attempt, misremoved>>

\* Acquire, "recovered": the next iteration of the loop, or its end.
Retry(p) ==
    IF attempt[p] < MaxAttempts
    THEN Goto(p, "create") /\ attempt' = [attempt EXCEPT ![p] = @ + 1]
    ELSE Goto(p, "exhausted") /\ UNCHANGED attempt

\* recoverStaleLock, the first ReadFile and the validation of what it read.
Inspect(p) ==
    /\ pc[p] = "inspect"
    /\ \/ lockFile = NoProcess /\ Retry(p) /\ UNCHANGED seen
       \/ /\ lockFile # NoProcess
          /\ content[lockFile] # "full"
          /\ Goto(p, "failed")
          /\ UNCHANGED <<seen, attempt>>
       \/ /\ lockFile # NoProcess
          /\ content[lockFile] = "full"
          /\ seen' = [seen EXCEPT ![p] = lockFile]
          /\ Goto(p, "probe")
          /\ UNCHANGED attempt
    /\ UNCHANGED <<pid, foreign, lockFile, content, misremoved>>

\* Mutation: a signal that is not permitted (EPERM) means a dead owner.
ProbePermission(p) ==
    /\ pc[p] = "probe"
    /\ Goto(p, "held") \/ Goto(p, "verify")
    /\ UNCHANGED <<pid, foreign, lockFile, content, seen, attempt, misremoved>>
\* Mutation: Acquire waits for a living owner.
ProbeUntilEnded(p) ==
    /\ pc[p] = "probe"
    /\ ~Alive(pid[seen[p]])
    /\ Goto(p, "verify")
    /\ UNCHANGED <<pid, foreign, lockFile, content, seen, attempt, misremoved>>

\* recoverStaleLock, the owner's PID is probed.
Probe(p) ==
    /\ pc[p] = "probe"
    /\ Goto(p, IF Alive(pid[seen[p]]) THEN "held" ELSE "verify")
    /\ UNCHANGED <<pid, foreign, lockFile, content, seen, attempt, misremoved>>

\* recoverStaleLock, the second ReadFile: a file that is gone or that holds
\* something else than before sends Acquire around its loop.
Verify(p) ==
    /\ pc[p] = "verify"
    /\ \/ lockFile # seen[p] /\ Retry(p)
       \/ lockFile = seen[p] /\ Goto(p, "remove") /\ UNCHANGED attempt
    /\ UNCHANGED <<pid, foreign, lockFile, content, seen, misremoved>>

\* recoverStaleLock, os.Remove: whatever file is at the path by now goes.
\* The flush of the directory after it may still fail.
RemoveStale(p) ==
    /\ pc[p] = "remove"
    /\ lockFile' = NoProcess
    /\ misremoved' = (misremoved \/ lockFile \notin {seen[p], NoProcess})
    /\ \/ Retry(p)
       \/ Goto(p, "failed") /\ UNCHANGED attempt
    /\ UNCHANGED <<pid, foreign, content, seen>>

\* A call of Acquire fails without an effect, and Acquire returns the error.
AcquireFails(p) ==
    /\ pc[p] \in {"create", "inspect", "verify", "remove"}
    /\ Goto(p, "failed")
    /\ UNCHANGED <<pid, foreign, lockFile, content, seen, attempt, misremoved>>

\* Release, ReadFile and the comparison with the lock's own metadata.
CheckOwnership(p) ==
    /\ pc[p] = "holding"
    /\ Goto(p, IF lockFile = p THEN "unlink" ELSE "abandoned")
    /\ UNCHANGED <<pid, foreign, lockFile, content, seen, attempt, misremoved>>

\* Release, os.Remove: again by path.  A missing file is an error here.
Unlink(p) ==
    /\ pc[p] = "unlink"
    /\ lockFile' = NoProcess
    /\ Goto(p, IF lockFile = NoProcess THEN "abandoned" ELSE "released")
    /\ UNCHANGED <<pid, foreign, content, seen, attempt, misremoved>>

\* Release returns an error with the lock file still in place.
ReleaseFails(p) ==
    /\ pc[p] \in {"holding", "unlink"}
    /\ Goto(p, "abandoned")
    /\ UNCHANGED <<pid, foreign, lockFile, content, seen, attempt, misremoved>>

Crash(p) ==
    /\ Running(p)
    /\ Goto(p, "crashed")
    /\ UNCHANGED <<pid, foreign, lockFile, content, seen, attempt, misremoved>>

\* Another program starts with a free PID, a dead owner's perhaps, or ends.
ForeignStarts(n) ==
    /\ ~Alive(n)
    /\ foreign' = foreign \cup {n}
    /\ UNCHANGED <<pc, pid, lockFile, content, seen, attempt, misremoved>>

ForeignEnds(n) ==
    /\ n \in foreign
    /\ foreign' = foreign \ {n}
    /\ UNCHANGED <<pc, pid, lockFile, content, seen, attempt, misremoved>>

\* What the code of p does by itself.
Acquires(p) ==
    \/ CreateExclusive(p) \/ WriteMetadata(p) \/ Publish(p)
    \/ CreationFails(p) \/ Cleanup(p) \/ Inspect(p) \/ Probe(p)
    \/ Verify(p) \/ RemoveStale(p) \/ AcquireFails(p)

Releases(p) == CheckOwnership(p) \/ Unlink(p) \/ ReleaseFails(p)

Next ==
    \/ \E p \in Processes :
        Start(p) \/ Acquires(p) \/ Releases(p) \/ Crash(p)
    \/ \E n \in Pids : ForeignStarts(n) \/ ForeignEnds(n)

Spec == Init /\ [][Next]_vars

\* A running process is scheduled, so Acquire and Release go on; nothing
\* makes a process start, crash, or another program come or go.
FairSpec == Spec /\ \A p \in Processes : WF_vars(Acquires(p) \/ Releases(p))

-----------------------------------------------------------------------------
\* The critical section: Acquire has returned the lock, Release has not
\* removed the file.
Holders == {p \in Processes : pc[p] \in {"holding", "unlink"}}

\* Between the exclusive open and the removal of the file by its creator.
Owning == {"write", "publish", "cleanup", "holding", "unlink"}

(***************************************************************************)
(* At most one process at a time holds the environment lock: the promise   *)
(* of the design for mutating operations on one environment identity.      *)
(***************************************************************************)
MutualExclusion == \A p, q \in Holders : p = q

(***************************************************************************)
(* Mutual exclusion fails only by way of the window between the second     *)
(* ReadFile and the os.Remove of recoverStaleLock: as long as no recovery  *)
(* removed a file other than the one it verified, no two processes hold    *)
(* the lock, whatever crashes, I/O errors and PID reuse occur.             *)
(***************************************************************************)
ExclusionUnlessMisremoved == misremoved \/ MutualExclusion

(***************************************************************************)
(* While a process owns the lock the file at the path is its own, so that  *)
(* the unconditional os.Remove of Release and of a failed creation hits    *)
(* nobody else's lock; a holder's file also names its owner in full.       *)
(***************************************************************************)
OwnerFileInPlace ==
    misremoved \/ \A p \in Processes :
        /\ pc[p] \in Owning => lockFile = p
        /\ pc[p] \in {"holding", "unlink"} => content[p] = "full"

(***************************************************************************)
(* Recovery goes past the liveness probe only for the lock of a process    *)
(* that has ended; that stays true although the probe precedes the second  *)
(* read and PIDs are reused in between.                                    *)
(***************************************************************************)
RecoversOnlyEnded ==
    \A p \in Processes : pc[p] \in {"verify", "remove"} => Over(seen[p])

(***************************************************************************)
(* A lock file without valid metadata whose creator has ended blocks every *)
(* later Acquire with an error.  Only a crash between the exclusive open   *)
(* and the write, or a failing os.Remove of the deferred cleanup, leaves   *)
(* one: an I/O error that is reported does not.                            *)
(***************************************************************************)
UnreadableNeedsCrash ==
    lockFile # NoProcess =>
        \/ content[lockFile] = "full"
        \/ ~Over(lockFile)
        \/ pc[lockFile] \in {"crashed", "leaked"}

(***************************************************************************)
(* A lock file never comes back: once the file of p has left the path, no  *)
(* step puts it there again, so what a recoverer read cannot reappear      *)
(* between its two reads (the comparison has no ABA case).                 *)
(***************************************************************************)
NoReappearance ==
    [][\A p \in Processes :
        lockFile' = p /\ lockFile # p => content[p] = "none"]_vars

(***************************************************************************)
(* Acquire and Release never wait for another process: whoever has started *)
(* comes to an end, with the lock held by somebody else, with a stale lock *)
(* to recover, or among any number of contenders.                          *)
(***************************************************************************)
AlwaysReturns == \A p \in Processes : Running(p) ~> Over(p)
=============================================================================
