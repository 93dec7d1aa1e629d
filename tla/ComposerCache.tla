---------------------------- MODULE ComposerCache ----------------------------
(***************************************************************************)
(* The managed Composer cache (internal/composer/acquisition.go) as the    *)
(* synchronizations of several projects use it at the same time            *)
(* (internal/app/sync_actions.go, the Composer part of analyze in          *)
(* internal/app/application.go): resolution online and offline,            *)
(* observation, approval of the plan, download, verification, promotion    *)
(* and the check before every execution.                                   *)
(*                                                                         *)
(* A version stands for its official release: its address and its          *)
(* checksum, which is also the name of its directory in the cache.         *)
(* Versions are numbered in their order.                                   *)
(***************************************************************************)
EXTENDS Integers

CONSTANTS
    Processes,  \* the commands that use the cache
    Versions,   \* the stable versions of the official metadata
    MinimumOf,  \* MinimumOf[v]: the least PHP version that metadata gives for v
    Requests,   \* what commands ask for: [offline, wanted, php]
    None        \* no version, no record, no digest

ASSUME CacheAssumption ==
    /\ Versions \subseteq Nat \ {0}
    /\ MinimumOf \in [Versions -> Nat]
    /\ Requests \subseteq [offline : BOOLEAN, wanted : SUBSET Versions, php : Nat]
    /\ None \notin Nat \cup Requests

VARIABLES
    entry,     \* entry[v]: the directory named by the checksum of v
    listed,    \* the entries whose name is on disk
    marked,    \* the entries whose mode is on disk
    staging,   \* staging[p]: the temporary directory of p
    pc,        \* the next call of p
    request,   \* what p asks for
    approved,  \* --approve-plan of p
    toVisit,   \* the entries an offline resolution has not looked at yet
    found,     \* the compatible ones among those it has looked at
    release,   \* the release p has resolved: its version and minimum_php
    cached,    \* Cached of the observation
    runs,      \* how many Composer commands p has run
    why,       \* why p failed
    printed,   \* the safe retry commands printed so far, and for which request
    promised,  \* history: the versions a command has downloaded and reported
    executed,  \* history: the versions Composer was run from
    lossy      \* whether a power loss has happened

disk == <<entry, listed, marked>>
command == <<request, approved, toVisit, found, release, cached, runs>>
history == <<printed, promised, executed, lossy>>
vars == <<disk, staging, pc, command, why, history>>

-----------------------------------------------------------------------------
Minimums == {MinimumOf[v] : v \in Versions} \cup {0}

\* A directory: composer.phar, its mode and the minimum of release.json.
Directories == [phar : {"none", "partial", "wrong", "right"},
                executable : BOOLEAN,
                minimum : Minimums \cup {None}]
Absent == [phar |-> "none", executable |-> FALSE, minimum |-> None]
Made == [phar |-> "partial", executable |-> FALSE, minimum |-> None]
\* Made is a temporary directory without files, or with an incomplete one.

Whole(d) == d.phar = "right" /\ d.minimum # None

Releases == [version : Versions, minimum : Minimums]

\* A plan's digest covers the release it prepares, and whether that needs the
\* network (compatibleActions, computeDigest).
Digests == [version : Versions, cached : BOOLEAN]
Digest(p) == [version |-> release[p].version, cached |-> cached[p]]

Running == {"resolve", "visit", "observe", "authorize", "acquire",
            "download", "verify", "record", "flush", "promote", "settle",
            "discard", "check", "run"}
Ended == {"done", "failed", "crashed"}

TypeOK ==
    /\ entry \in [Versions -> Directories]
    /\ listed \subseteq Versions
    /\ marked \subseteq Versions
    /\ staging \in [Processes -> Directories]
    /\ pc \in [Processes -> Running \cup Ended \cup {"idle"}]
    /\ request \in [Processes -> Requests \cup {None}]
    /\ \A p \in Processes : pc[p] # "idle" => request[p] \in Requests
    /\ approved \in [Processes -> Digests \cup {None}]
    /\ toVisit \in [Processes -> SUBSET Versions]
    /\ found \in [Processes -> SUBSET Versions]
    /\ release \in [Processes -> Releases \cup {None}]
    /\ cached \in [Processes -> BOOLEAN]
    /\ runs \in [Processes -> {0, 1, 2}]
    /\ why \in [Processes -> {"", "network", "no release", "offline miss",
                              "unusable", "mismatch", "blocked", "stale plan",
                              "checksum", "conflict", "io", "composer"}]
    /\ printed \subseteq Requests \X Digests
    /\ promised \subseteq Versions
    /\ executed \subseteq Versions
    /\ lossy \in BOOLEAN

Init ==
    /\ entry = [v \in Versions |-> Absent]
    /\ listed = {} /\ marked = {}
    /\ staging = [p \in Processes |-> Absent]
    /\ pc = [p \in Processes |-> "idle"]
    /\ request = [p \in Processes |-> None]
    /\ approved = [p \in Processes |-> None]
    /\ toVisit = [p \in Processes |-> {}]
    /\ found = [p \in Processes |-> {}]
    /\ release = [p \in Processes |-> None]
    /\ cached = [p \in Processes |-> FALSE]
    /\ runs = [p \in Processes |-> 0]
    /\ why = [p \in Processes |-> ""]
    /\ printed = {} /\ promised = {} /\ executed = {}
    /\ lossy = FALSE

Goto(p, here, there) == pc[p] = here /\ pc' = [pc EXCEPT ![p] = there]

\* The command ends with an error before its plan is applied.
Refuse(p, here, reason) ==
    /\ Goto(p, here, "failed")
    /\ why' = [why EXCEPT ![p] = reason]
    /\ UNCHANGED <<disk, staging, command, history>>

\* An action of the plan fails: the engine prints the safe retry command.
FailAction(p, here, reason) ==
    /\ Goto(p, here, "failed")
    /\ why' = [why EXCEPT ![p] = reason]
    /\ printed' = printed \cup {<<request[p], Digest(p)>>}
    /\ UNCHANGED <<disk, staging, command, promised, executed, lossy>>

\* Acquire fails with a temporary directory, which it removes on return.
AbandonStaging(p, here, reason) ==
    /\ Goto(p, here, "discard")
    /\ why' = [why EXCEPT ![p] = reason]
    /\ UNCHANGED <<disk, staging, command, history>>

\* cachedExecutable, for the release of v with that minimum.
CachedExecutable(v, minimum) ==
    LET d == entry[v] IN
    CASE d = Absent -> "absent"
      [] d # Absent /\ ~ d.executable -> "unusable"
      [] d # Absent /\ d.executable /\ d.minimum # minimum -> "mismatch"
      [] d # Absent /\ d.executable /\ d.minimum = minimum ->
             IF d.phar = "right" THEN "verified" ELSE "checksum"

-----------------------------------------------------------------------------
\* A command starts, for the first time or as the safe retry of an earlier one.
Begin(p) ==
    /\ Goto(p, "idle", "resolve")
    /\ \E r \in Requests :
           /\ request' = [request EXCEPT ![p] = r]
           /\ \E a \in {None} \cup {c[2] : c \in {q \in printed : q[1] = r}} :
                  approved' = [approved EXCEPT ![p] = a]
    /\ UNCHANGED <<disk, staging, toVisit, found, release, cached, runs, why,
                   history>>

-----------------------------------------------------------------------------
\* Resolution (Resolve, compatibleReleases, resolveCached).
Compatible(p, v, minimum) ==
    v \in request[p].wanted /\ minimum <= request[p].php

CachedCompatible(p, v) ==
    entry[v].minimum > 0 /\ Compatible(p, v, entry[v].minimum)

Newest(S) == {v \in S : \A w \in S : w <= v}

\* Online: the newest compatible version of the official metadata.
ResolveOnline(p) ==
    /\ ~ request[p].offline
    /\ Goto(p, "resolve", "observe")
    /\ \E v \in Newest({w \in Versions : Compatible(p, w, MinimumOf[w])}) :
           release' = [release EXCEPT ![p] =
                          [version |-> v, minimum |-> MinimumOf[v]]]
    /\ UNCHANGED <<disk, staging, request, approved, toVisit, found, cached,
                   runs, why, history>>

NoneCompatible(p) ==
    /\ ~ request[p].offline
    /\ \A v \in Versions : ~ Compatible(p, v, MinimumOf[v])
    /\ Refuse(p, "resolve", "no release")

MetadataFails(p) ==
    /\ ~ request[p].offline
    /\ Refuse(p, "resolve", "network")

\* Offline: the directories of the cache, one after another.
ReadCache(p) ==
    /\ request[p].offline
    /\ Goto(p, "resolve", "visit")
    /\ toVisit' = [toVisit EXCEPT ![p] = {v \in Versions : entry[v] # Absent}]
    /\ UNCHANGED <<disk, staging, request, approved, found, release, cached,
                   runs, why, history>>

\* The recorded release is checked against its own record; a release without
\* a minimum (cachedReleaseCompatible) is passed over.
Visit(p) ==
    \E v \in toVisit[p] :
        /\ pc[p] = "visit"
        /\ CachedExecutable(v, entry[v].minimum) = "verified"
        /\ toVisit' = [toVisit EXCEPT ![p] = @ \ {v}]
        /\ found' = [found EXCEPT ![p] = @ \cup {w \in {v} : CachedCompatible(p, w)}]
        /\ UNCHANGED <<disk, staging, pc, request, approved, release, cached,
                       runs, why, history>>

VisitBroken(p) ==
    \E v \in toVisit[p] :
        /\ CachedExecutable(v, entry[v].minimum) # "verified"
        /\ Refuse(p, "visit", "unusable")

Choose(p) ==
    /\ toVisit[p] = {}
    /\ Goto(p, "visit", "observe")
    /\ \E v \in Newest(found[p]) :
           release' = [release EXCEPT ![p] =
                          [version |-> v, minimum |-> entry[v].minimum]]
    /\ UNCHANGED <<disk, staging, request, approved, toVisit, found, cached,
                   runs, why, history>>

OfflineMiss(p) ==
    /\ toVisit[p] = {} /\ found[p] = {}
    /\ Refuse(p, "visit", "offline miss")

-----------------------------------------------------------------------------
\* Observation of the resolved release, in full.
Observe(p) ==
    LET check == CachedExecutable(release[p].version, release[p].minimum) IN
    \/ /\ check \in {"absent", "verified"}
       /\ Goto(p, "observe", "authorize")
       /\ cached' = [cached EXCEPT ![p] = check = "verified"]
       /\ UNCHANGED <<disk, staging, request, approved, toVisit, found,
                      release, runs, why, history>>
    \/ check = "mismatch" /\ Refuse(p, "observe", "mismatch")
    \/ check \in {"unusable", "checksum"} /\ Refuse(p, "observe", "unusable")

\* Mutation: the approved digest is not compared.
AuthorizeUnseen(p) ==
    /\ ~ request[p].offline
    /\ Goto(p, "authorize", "acquire")
    /\ release' = [release EXCEPT ![p].minimum = 0]
    /\ UNCHANGED <<disk, staging, request, approved, toVisit, found, cached,
                   runs, why, history>>
\* The plan is authorized; its action names the release without the minimum
\* (managedRelease), which is what is acquired and compared from here on.
Authorize(p) ==
    /\ ~ request[p].offline
    /\ approved[p] \in {None, Digest(p)}
    /\ Goto(p, "authorize", "acquire")
    /\ release' = [release EXCEPT ![p].minimum = 0]
    /\ UNCHANGED <<disk, staging, request, approved, toVisit, found, cached,
                   runs, why, history>>

\* The installation of dependencies needs the network: every offline plan is
\* blocked (actionPolicyDiagnostics).
Block(p) == request[p].offline /\ Refuse(p, "authorize", "blocked")

StalePlan(p) ==
    /\ ~ request[p].offline
    /\ approved[p] \notin {None, Digest(p)}
    /\ Refuse(p, "authorize", "stale plan")

-----------------------------------------------------------------------------
\* Acquire, online, for the action prepare_composer.
Version(p) == release[p].version
Check(p) == CachedExecutable(Version(p), release[p].minimum)

AcquireCached(p) ==
    /\ Check(p) = "verified"
    /\ Goto(p, "acquire", "check")
    /\ UNCHANGED <<disk, staging, command, why, history>>

AcquireRefused(p) ==
    \/ Check(p) = "mismatch" /\ FailAction(p, "acquire", "conflict")
    \/ Check(p) \in {"unusable", "checksum"} /\ FailAction(p, "acquire", "unusable")

\* MkdirAll, MkdirTemp and the file that the download will fill.
Stage(p) ==
    /\ Check(p) = "absent"
    /\ Goto(p, "acquire", "download")
    /\ staging' = [staging EXCEPT ![p] = Made]
    /\ UNCHANGED <<disk, command, why, history>>

\* The response is copied to the end: the right bytes, or others.
Download(p) ==
    /\ Goto(p, "download", "verify")
    /\ \E bytes \in {"wrong", "right"} :
           staging' = [staging EXCEPT ![p].phar = bytes]
    /\ UNCHANGED <<disk, command, why, history>>

DownloadInterrupted(p) == AbandonStaging(p, "download", "network")

\* Mutation: the file keeps the mode it was created with.
VerifyOnly(p) ==
    /\ staging[p].phar = "right"
    /\ Goto(p, "verify", "record")
    /\ UNCHANGED <<disk, staging, command, why, history>>
\* The checksum is compared, then the file is made executable.
Verify(p) ==
    /\ staging[p].phar = "right"
    /\ Goto(p, "verify", "record")
    /\ staging' = [staging EXCEPT ![p].executable = TRUE]
    /\ UNCHANGED <<disk, command, why, history>>

VerifyFails(p) ==
    /\ staging[p].phar # "right"
    /\ AbandonStaging(p, "verify", "checksum")

\* Mutation: the record takes its minimum from the official metadata.
RecordMetadata(p) ==
    /\ Goto(p, "record", "flush")
    /\ staging' = [staging EXCEPT ![p].minimum = MinimumOf[Version(p)]]
    /\ UNCHANGED <<disk, command, why, history>>
\* writeReleaseRecord.
Record(p) ==
    /\ Goto(p, "record", "flush")
    /\ staging' = [staging EXCEPT ![p].minimum = release[p].minimum]
    /\ UNCHANGED <<disk, command, why, history>>

FlushStaging(p) ==
    /\ Goto(p, "flush", "promote")
    /\ UNCHANGED <<disk, staging, command, why, history>>

\* Mutation: the flush of the cache directory is left out.
PromoteUnflushed(p) ==
    /\ entry[Version(p)] = Absent
    /\ Goto(p, "promote", "check")
    /\ entry' = [entry EXCEPT ![Version(p)] = staging[p]]
    /\ staging' = [staging EXCEPT ![p] = Absent]
    /\ promised' = promised \cup {Version(p)}
    /\ UNCHANGED <<listed, marked, command, why, printed, executed, lossy>>
\* The rename: it fails where the directory exists, and is not empty.
Promote(p) ==
    /\ entry[Version(p)] = Absent
    /\ Goto(p, "promote", "settle")
    /\ entry' = [entry EXCEPT ![Version(p)] = staging[p]]
    /\ staging' = [staging EXCEPT ![p] = Absent]
    /\ UNCHANGED <<listed, marked, command, why, history>>

\* Another command was first: what it promoted is used, if it is the same.
LosePromotion(p) ==
    \/ Check(p) = "verified" /\ AbandonStaging(p, "promote", "")
    \/ Check(p) = "mismatch" /\ AbandonStaging(p, "promote", "conflict")
    \/ Check(p) \in {"unusable", "checksum"} /\ AbandonStaging(p, "promote", "unusable")

\* The flush of the cache directory, then Acquire reports the executable.
Settle(p) ==
    /\ Goto(p, "settle", "check")
    /\ listed' = listed \cup {Version(p)}
    /\ promised' = promised \cup {Version(p)}
    /\ UNCHANGED <<entry, marked, staging, command, why, printed, executed, lossy>>

\* The deferred removal of the temporary directory.
Discard(p) ==
    /\ Goto(p, "discard", IF why[p] = "" THEN "check" ELSE "failed")
    /\ staging' = [staging EXCEPT ![p] = Absent]
    /\ printed' = IF why[p] = "" THEN printed
                  ELSE printed \cup {<<request[p], Digest(p)>>}
    /\ UNCHANGED <<disk, command, why, promised, executed, lossy>>

-----------------------------------------------------------------------------
\* Before each execution, install and then check-platform-reqs, executeComposer
\* acquires the release again, offline.
CheckAgain(p) ==
    /\ Check(p) = "verified"
    /\ Goto(p, "check", "run")
    /\ UNCHANGED <<disk, staging, command, why, history>>

CheckFails(p) ==
    \/ Check(p) = "mismatch" /\ FailAction(p, "check", "conflict")
    \/ Check(p) \in {"absent", "unusable", "checksum"}
          /\ FailAction(p, "check", "unusable")

RunComposer(p) ==
    /\ Goto(p, "run", IF runs[p] = 0 THEN "check" ELSE "done")
    /\ runs' = [runs EXCEPT ![p] = @ + 1]
    /\ executed' = executed \cup {Version(p)}
    /\ UNCHANGED <<disk, staging, request, approved, toVisit, found, release,
                   cached, why, printed, promised, lossy>>

\* Composer is started and fails.
ComposerFails(p) ==
    /\ Goto(p, "run", "failed")
    /\ why' = [why EXCEPT ![p] = "composer"]
    /\ printed' = printed \cup {<<request[p], Digest(p)>>}
    /\ executed' = executed \cup {Version(p)}
    /\ UNCHANGED <<disk, staging, command, promised, lossy>>

-----------------------------------------------------------------------------
\* A filesystem call fails.
CallFails(p) ==
    \/ \E here \in {"visit", "observe"} : Refuse(p, here, "io")
    \/ \E here \in {"acquire", "settle", "check"} : FailAction(p, here, "io")
    \/ \E here \in {"download", "verify", "record", "flush", "promote"} :
           AbandonStaging(p, here, "io")

\* The process is killed: its temporary directory stays.
Crash(p) ==
    /\ pc[p] \in Running
    /\ pc' = [pc EXCEPT ![p] = "crashed"]
    /\ UNCHANGED <<disk, staging, command, why, history>>

\* The system writes to disk what it likes, when it likes.
WriteBack(v) ==
    /\ entry[v] # Absent
    /\ \/ listed' = listed \cup {v} /\ UNCHANGED marked
       \/ marked' = marked \cup {v} /\ UNCHANGED listed
    /\ UNCHANGED <<entry, staging, pc, command, why, history>>

\* Every process ends.  Names that are not on disk may be gone; a mode that is
\* not on disk (the file was flushed before it was made executable) may be that
\* of the new file.  The files of an entry were flushed before the rename.
PowerLoss ==
    /\ \E lost \in SUBSET ({v \in Versions : entry[v] # Absent} \ listed) :
       \E unmarked \in SUBSET ({v \in Versions : entry[v] # Absent}
                                    \ (marked \cup lost)) :
           entry' = [v \in Versions |->
               IF v \in lost THEN Absent
               ELSE [entry[v] EXCEPT !.executable = @ /\ v \notin unmarked]]
    /\ listed' = {v \in Versions : entry'[v] # Absent}
    /\ marked' = listed'
    /\ pc' = [p \in Processes |->
                 IF pc[p] \in Running THEN "crashed" ELSE pc[p]]
    /\ lossy' = TRUE
    /\ UNCHANGED <<staging, command, why, printed, promised, executed>>

Resolution(p) ==
    /\ pc[p] \in {"resolve", "visit"}
    /\ \/ ResolveOnline(p) \/ NoneCompatible(p) \/ MetadataFails(p)
       \/ ReadCache(p) \/ Visit(p) \/ VisitBroken(p) \/ Choose(p)
       \/ OfflineMiss(p)
Planning(p) ==
    /\ pc[p] \in {"observe", "authorize"}
    /\ Observe(p) \/ Authorize(p) \/ Block(p) \/ StalePlan(p)
Acquisition(p) ==
    /\ pc[p] \in {"acquire", "download", "verify", "record", "flush",
                  "promote", "settle", "discard"}
    /\ \/ AcquireCached(p) \/ AcquireRefused(p) \/ Stage(p) \/ Download(p)
       \/ DownloadInterrupted(p) \/ Verify(p) \/ VerifyFails(p) \/ Record(p)
       \/ FlushStaging(p) \/ Promote(p) \/ LosePromotion(p) \/ Settle(p)
       \/ Discard(p)
Execution(p) ==
    /\ pc[p] \in {"check", "run"}
    /\ CheckAgain(p) \/ CheckFails(p) \/ RunComposer(p) \/ ComposerFails(p)

Step(p) == Resolution(p) \/ Planning(p) \/ Acquisition(p) \/ Execution(p)

Next ==
    \/ \E p \in Processes : Begin(p) \/ Step(p) \/ CallFails(p) \/ Crash(p)
    \/ \E v \in Versions : WriteBack(v)
    \/ PowerLoss

Spec == Init /\ [][Next]_vars

-----------------------------------------------------------------------------

\* What is handed to the operating system for execution is in place, verified
\* and executable at that moment, and is the release of the approved plan.
RunsApproved ==
    \A p \in Processes : pc[p] = "run" =>
        /\ Whole(entry[Version(p)]) /\ entry[Version(p)].executable
        /\ approved[p] \in {None, Digest(p)}

\* A cached release that cannot be executed was robbed of its mode by a power
\* loss: no interleaving and no failing call leaves one.
UnusableNeedsPowerLoss ==
    \A p \in Processes : why[p] = "unusable" => lossy

\* Commands that acquire one release at the same time never disagree about it:
\* the loser of the promotion finds the release it has downloaded.
RacesAgree == \A p \in Processes : why[p] # "conflict"

\* The cache implements the verified cache.
Cache == INSTANCE VerifiedCache WITH
    cached <- {v \in Versions : Whole(entry[v])}
ImplementsCache == Cache!Spec

\* Synchronizing again finds the release that an earlier synchronization has
\* acquired.
AcquiredIsReused == \A p \in Processes : why[p] # "mismatch"

=============================================================================
