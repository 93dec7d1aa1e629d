------------------------- MODULE ComposerCacheProofs -------------------------
(***************************************************************************)
(* Proofs about the cache of Composer releases, for any number of commands *)
(* and releases.  What is promoted was verified and recorded without a     *)
(* minimum PHP version by whoever promotes it, so that no two commands     *)
(* disagree about an entry; entries vanish or lose their mode in a power   *)
(* loss only, which no command survives.                                   *)
(***************************************************************************)
EXTENDS ComposerCache, TLAPS

Downloading == {"download", "verify", "record", "flush", "promote", "discard"}
Applying == Downloading \cup {"acquire", "settle", "check", "run"}

\* What a command has resolved, and from the authorization on that it is the
\* release of the approved plan.
ResolvedPart == \A p \in Processes :
    /\ pc[p] \in {"observe", "authorize"} \cup Applying => release[p] \in Releases
    /\ pc[p] \in Applying =>
           release[p].minimum = 0 /\ approved[p] \in {None, Digest(p)}

\* An entry is whole, and executable unless a power loss took its mode.
Verified == [phar |-> "right", executable |-> TRUE, minimum |-> 0]
Robbed == [Verified EXCEPT !.executable = FALSE]
EntryPart == \A v \in Versions :
    entry[v] \in {Absent, Verified} \/ (entry[v] = Robbed /\ lossy)

\* What is recorded has been verified.
StagingPart == \A p \in Processes :
    /\ pc[p] = "record" => staging[p].phar = "right" /\ staging[p].executable
    /\ pc[p] \in {"flush", "promote"} => staging[p] = Verified

\* What a command has seen in the cache is still there.
PresentPart == \A p \in Processes :
    /\ pc[p] = "visit" => \A v \in toVisit[p] : entry[v] # Absent
    /\ \/ pc[p] \in {"settle", "check", "run"}
       \/ pc[p] = "discard" /\ why[p] = ""
       => entry[release[p].version] # Absent
    /\ pc[p] = "run" => entry[release[p].version] = Verified

\* The names that are on disk are of entries, and those that were promised
\* are among them.
ListedPart == promised \subseteq listed /\ \A v \in listed : entry[v] # Absent

\* Composer is run twice at most.
RunsPart == \A p \in Processes : pc[p] # "done" => runs[p] \in {0, 1}

\* An offline resolution passes over every entry.
OfflineFindsNothing == \A p \in Processes : found[p] = {}

IInv ==
    /\ TypeOK /\ ResolvedPart /\ EntryPart /\ StagingPart /\ PresentPart
    /\ ListedPart /\ RunsPart /\ OfflineFindsNothing
    /\ UnusableNeedsPowerLoss /\ RacesAgree

-----------------------------------------------------------------------------
\* What cachedExecutable says of an entry, asked for a release without minimum.
LEMMA CachedCases ==
    ASSUME NEW v \in Versions, EntryPart
    PROVE  /\ entry[v] = Absent => CachedExecutable(v, 0) = "absent"
           /\ entry[v] = Verified => CachedExecutable(v, 0) = "verified"
           /\ entry[v] = Robbed => CachedExecutable(v, 0) = "unusable" /\ lossy
           /\ entry[v] \in {Absent, Verified, Robbed}
BY CacheAssumption
   DEF EntryPart, CachedExecutable, Absent, Verified, Robbed

LEMMA SomeDirectories == Absent \in Directories /\ Made \in Directories
BY DEF Absent, Made, Directories

LEMMA SomeMinimums ==
    /\ 0 \in Minimums /\ Minimums \subseteq Nat /\ None \notin Minimums
    /\ \A v \in Versions : MinimumOf[v] \in Minimums
BY CacheAssumption DEF Minimums

LEMMA InitIInv == Init => IInv
<1> SUFFICES ASSUME Init PROVE IInv
  OBVIOUS
<1> USE CacheAssumption DEF Init
<1>1. TypeOK
  <2>1. entry \in [Versions -> Directories] /\ staging \in [Processes -> Directories]
    BY SomeDirectories
  <2>2. /\ listed \subseteq Versions /\ marked \subseteq Versions
        /\ promised \subseteq Versions /\ executed \subseteq Versions
        /\ printed \subseteq Requests \X Digests /\ lossy \in BOOLEAN
    OBVIOUS
  <2>3. /\ pc \in [Processes -> Running \cup Ended \cup {"idle"}]
        /\ \A p \in Processes : pc[p] = "idle"
    OBVIOUS
  <2>4. /\ request \in [Processes -> Requests \cup {None}]
        /\ approved \in [Processes -> Digests \cup {None}]
        /\ release \in [Processes -> Releases \cup {None}]
    OBVIOUS
  <2>5. /\ toVisit \in [Processes -> SUBSET Versions]
        /\ found \in [Processes -> SUBSET Versions]
        /\ runs \in [Processes -> {0, 1, 2}]
    OBVIOUS
  <2>6. cached \in [Processes -> BOOLEAN]
    OBVIOUS
  <2> QED
    BY <2>1, <2>2, <2>3, <2>4, <2>5, <2>6 DEF TypeOK
<1>2. ResolvedPart /\ StagingPart /\ PresentPart
  BY DEF ResolvedPart, StagingPart, PresentPart, Applying, Downloading
<1>3. EntryPart /\ ListedPart /\ RunsPart
  BY DEF EntryPart, ListedPart, RunsPart
<1>4. OfflineFindsNothing /\ UnusableNeedsPowerLoss /\ RacesAgree
  BY DEF OfflineFindsNothing, UnusableNeedsPowerLoss, RacesAgree
<1> QED
  BY <1>1, <1>2, <1>3, <1>4 DEF IInv

-----------------------------------------------------------------------------
Reasons == {"", "network", "no release", "offline miss", "unusable", "mismatch",
            "blocked", "stale plan", "checksum", "conflict", "io", "composer"}
Blameless(reason) ==
    reason \in Reasons /\ reason # "conflict" /\ (reason = "unusable" => lossy)

\* A command that ends with an error disturbs nobody.
LEMMA RefuseKeeps ==
    ASSUME IInv, NEW p \in Processes, NEW here \in Running, NEW reason,
           Blameless(reason), Refuse(p, here, reason)
    PROVE  IInv'
<1> USE DEF Refuse, Goto, disk, command, history
<1>1. TypeOK'
  BY DEF IInv, TypeOK, Blameless, Reasons, Running, Ended
<1>2. ResolvedPart'
  BY DEF IInv, TypeOK, ResolvedPart, Applying, Downloading, Digest
<1>5. StagingPart' /\ PresentPart' /\ RunsPart'
  BY DEF IInv, TypeOK, StagingPart, PresentPart, RunsPart, Running, Applying,
         Downloading
<1>3. EntryPart' /\ ListedPart' /\ OfflineFindsNothing'
  BY DEF IInv, EntryPart, ListedPart, OfflineFindsNothing
<1>4. UnusableNeedsPowerLoss' /\ RacesAgree'
  BY DEF IInv, TypeOK, UnusableNeedsPowerLoss, RacesAgree, Blameless
<1> QED
  BY <1>1, <1>2, <1>3, <1>4, <1>5 DEF IInv

LEMMA FailActionKeeps ==
    ASSUME IInv, NEW p \in Processes, NEW here \in Applying, NEW reason,
           Blameless(reason), FailAction(p, here, reason)
    PROVE  IInv'
<1> USE DEF FailAction, Goto, disk, command
<1>0. Digest(p) \in Digests /\ request[p] \in Requests
  BY DEF IInv, TypeOK, ResolvedPart, Digest, Digests, Releases, Applying,
         Downloading
<1>1. TypeOK'
  <2>1. printed' \subseteq Requests \X Digests
    BY <1>0, <<request[p], Digest(p)>> \in Requests \X Digests DEF IInv, TypeOK
  <2> QED
    BY <2>1 DEF IInv, TypeOK, Blameless, Reasons, Running, Ended
<1>2. ResolvedPart'
  BY DEF IInv, TypeOK, ResolvedPart, Applying, Downloading, Digest
<1>5. StagingPart' /\ PresentPart' /\ RunsPart'
  BY DEF IInv, TypeOK, StagingPart, PresentPart, RunsPart, Running, Applying,
         Downloading
<1>3. EntryPart' /\ ListedPart' /\ OfflineFindsNothing'
  BY DEF IInv, EntryPart, ListedPart, OfflineFindsNothing
<1>4. UnusableNeedsPowerLoss' /\ RacesAgree'
  BY DEF IInv, TypeOK, UnusableNeedsPowerLoss, RacesAgree, Blameless
<1> QED
  BY <1>1, <1>2, <1>3, <1>4, <1>5 DEF IInv

LEMMA AbandonKeeps ==
    ASSUME IInv, NEW p \in Processes,
           NEW here \in {"download", "verify", "record", "flush", "promote"},
           NEW reason, Blameless(reason),
           reason = "" => entry[release[p].version] # Absent,
           AbandonStaging(p, here, reason)
    PROVE  IInv'
<1> USE DEF AbandonStaging, Goto, disk, command, history
<1>1. TypeOK'
  BY DEF IInv, TypeOK, Blameless, Reasons, Running, Ended
<1>2. ResolvedPart'
  BY DEF IInv, TypeOK, ResolvedPart, Applying, Downloading, Digest
<1>5. StagingPart' /\ PresentPart' /\ RunsPart'
  BY DEF IInv, TypeOK, StagingPart, PresentPart, RunsPart, Running, Applying,
         Downloading
<1>3. EntryPart' /\ ListedPart' /\ OfflineFindsNothing'
  BY DEF IInv, EntryPart, ListedPart, OfflineFindsNothing
<1>4. UnusableNeedsPowerLoss' /\ RacesAgree'
  BY DEF IInv, TypeOK, UnusableNeedsPowerLoss, RacesAgree, Blameless
<1> QED
  BY <1>1, <1>2, <1>3, <1>4, <1>5 DEF IInv

-----------------------------------------------------------------------------
\* What a command knows of its release while it applies the plan.
LEMMA OwnRelease ==
    ASSUME IInv, NEW p \in Processes, pc[p] \in Applying
    PROVE  /\ release[p] \in Releases /\ release[p].version \in Versions
           /\ release[p].minimum = 0
           /\ Digest(p) \in Digests /\ request[p] \in Requests
BY DEF IInv, TypeOK, ResolvedPart, Releases, Digest, Digests, Applying,
       Downloading

LEMMA CheckCases ==
    ASSUME IInv, NEW p \in Processes, pc[p] \in Applying
    PROVE  /\ entry[release[p].version] = Absent => Check(p) = "absent"
           /\ entry[release[p].version] = Verified => Check(p) = "verified"
           /\ entry[release[p].version] = Robbed => Check(p) = "unusable" /\ lossy
           /\ entry[release[p].version] \in {Absent, Verified, Robbed}
BY OwnRelease, CachedCases DEF IInv, Check, Version

LEMMA Distinct == Absent # Verified /\ Absent # Robbed /\ Verified # Robbed
BY DEF Absent, Verified, Robbed

LEMMA PrintedKeepsType ==
    ASSUME IInv, NEW p \in Processes, pc[p] \in Applying
    PROVE  printed \cup {<<request[p], Digest(p)>>} \subseteq Requests \X Digests
<1>1. <<request[p], Digest(p)>> \in Requests \X Digests
  BY OwnRelease
<1> QED
  BY <1>1 DEF IInv, TypeOK

\* Files that are written leave a directory a directory.
LEMMA DirectoryUpdates ==
    ASSUME NEW d \in Directories
    PROVE  /\ \A bytes \in {"wrong", "right"} :
                  [d EXCEPT !.phar = bytes] \in Directories
           /\ [d EXCEPT !.executable = TRUE] \in Directories
           /\ [d EXCEPT !.executable = TRUE].executable
           /\ [d EXCEPT !.executable = TRUE].phar = d.phar
           /\ [d EXCEPT !.minimum = 0] \in Directories
           /\ d.phar = "right" /\ d.executable =>
                  [d EXCEPT !.minimum = 0] = Verified
<1>1. ASSUME d.phar = "right", d.executable
      PROVE  [d EXCEPT !.minimum = 0] = Verified
  <2>1. d.executable = TRUE
    BY <1>1 DEF Directories
  <2>2. [d EXCEPT !.minimum = 0] =
          [phar |-> d.phar, executable |-> d.executable, minimum |-> 0]
    BY DEF Directories
  <2> QED
    BY <1>1, <2>1, <2>2 DEF Verified
<1> QED
  BY <1>1, SomeMinimums DEF Directories

-----------------------------------------------------------------------------
\* The other steps of a command, in its order.

LEMMA BeginKeeps ==
    ASSUME IInv, NEW p \in Processes, Begin(p)
    PROVE  IInv'
<1> USE DEF Begin, Goto, disk, command, history
<1>1. TypeOK'
  <2>1. PICK r \in Requests, a \in {None} \cup Digests :
           /\ request' = [request EXCEPT ![p] = r]
           /\ approved' = [approved EXCEPT ![p] = a]
    <3>1. \A c \in Requests \X Digests : c[2] \in Digests
      OBVIOUS
    <3>2. \A c \in printed : c[2] \in Digests
      BY <3>1 DEF IInv, TypeOK
    <3> QED
      BY <3>2
  <2> HIDE DEF Begin
  <2>2. pc' = [pc EXCEPT ![p] = "resolve"] /\ UNCHANGED <<disk, staging,
            toVisit, found, release, cached, runs, why, history>>
    BY DEF Begin
  <2> QED
    BY <2>1, <2>2 DEF IInv, TypeOK, Running, Ended
<1>2. ResolvedPart'
  BY DEF IInv, TypeOK, ResolvedPart, Applying, Downloading, Digest
<1>3. StagingPart'
  BY DEF IInv, TypeOK, StagingPart, Applying, Downloading
<1>4. PresentPart'
  BY DEF IInv, TypeOK, PresentPart, ResolvedPart, Applying, Downloading, Releases
<1>5. EntryPart' /\ ListedPart' /\ RunsPart' /\ OfflineFindsNothing'
  BY DEF IInv, TypeOK, EntryPart, ListedPart, RunsPart, OfflineFindsNothing
<1>6. UnusableNeedsPowerLoss' /\ RacesAgree'
  BY DEF IInv, TypeOK, UnusableNeedsPowerLoss, RacesAgree
<1> QED
  BY <1>1, <1>2, <1>3, <1>4, <1>5, <1>6 DEF IInv

LEMMA ResolveOnlineKeeps ==
    ASSUME IInv, NEW p \in Processes, ResolveOnline(p)
    PROVE  IInv'
<1> USE DEF ResolveOnline, Goto, disk, command, history
<1>0. PICK v \in Versions :
         release' = [release EXCEPT ![p] =
                        [version |-> v, minimum |-> MinimumOf[v]]]
  BY DEF Newest
<1>7. [version |-> v, minimum |-> MinimumOf[v]] \in Releases
  BY <1>0, SomeMinimums DEF Releases
<1>1. TypeOK'
  BY <1>0, <1>7 DEF IInv, TypeOK, Running, Ended
<1>2. ResolvedPart'
  BY <1>0, <1>7 DEF IInv, TypeOK, ResolvedPart, Applying, Downloading, Digest
<1>3. StagingPart'
  BY DEF IInv, TypeOK, StagingPart, Applying, Downloading
<1>4. PresentPart'
  BY DEF IInv, TypeOK, PresentPart, ResolvedPart, Applying, Downloading, Releases
<1>5. EntryPart' /\ ListedPart' /\ RunsPart' /\ OfflineFindsNothing'
  BY DEF IInv, TypeOK, EntryPart, ListedPart, RunsPart, OfflineFindsNothing
<1>6. UnusableNeedsPowerLoss' /\ RacesAgree'
  BY DEF IInv, TypeOK, UnusableNeedsPowerLoss, RacesAgree
<1> QED
  BY <1>1, <1>2, <1>3, <1>4, <1>5, <1>6 DEF IInv

LEMMA ReadCacheKeeps ==
    ASSUME IInv, NEW p \in Processes, ReadCache(p)
    PROVE  IInv'
<1> USE DEF ReadCache, Goto, disk, command, history
<1>1. TypeOK'
  BY DEF IInv, TypeOK, Running, Ended
<1>2. ResolvedPart'
  BY DEF IInv, TypeOK, ResolvedPart, Applying, Downloading, Digest
<1>3. StagingPart'
  BY DEF IInv, TypeOK, StagingPart, Applying, Downloading
<1>4. PresentPart'
  BY DEF IInv, TypeOK, PresentPart, ResolvedPart, Applying, Downloading, Releases
<1>5. EntryPart' /\ ListedPart' /\ RunsPart' /\ OfflineFindsNothing'
  BY DEF IInv, TypeOK, EntryPart, ListedPart, RunsPart, OfflineFindsNothing
<1>6. UnusableNeedsPowerLoss' /\ RacesAgree'
  BY DEF IInv, TypeOK, UnusableNeedsPowerLoss, RacesAgree
<1> QED
  BY <1>1, <1>2, <1>3, <1>4, <1>5, <1>6 DEF IInv

LEMMA VisitKeeps ==
    ASSUME IInv, NEW p \in Processes, Visit(p)
    PROVE  IInv'
<1> USE DEF Visit, Goto, disk, command, history
<1>0. PICK v \in toVisit[p] :
         /\ toVisit' = [toVisit EXCEPT ![p] = @ \ {v}]
         /\ found' = found
         /\ UNCHANGED <<disk, staging, pc, request, approved, release, cached,
                        runs, why, history>>
  <2>1. PICK v \in toVisit[p] :
           /\ pc[p] = "visit"
           /\ toVisit' = [toVisit EXCEPT ![p] = @ \ {v}]
           /\ found' = [found EXCEPT ![p] =
                           @ \cup {w \in {v} : CachedCompatible(p, w)}]
           /\ UNCHANGED <<disk, staging, pc, request, approved, release, cached,
                          runs, why, history>>
    OBVIOUS
  <2>2. v \in Versions /\ entry[v] # Absent
    BY <2>1 DEF IInv, TypeOK, PresentPart
  <2>3. entry[v].minimum = 0
    BY <2>2 DEF IInv, EntryPart, Verified, Robbed
  <2>4. ~ CachedCompatible(p, v)
    BY <2>3 DEF CachedCompatible
  <2>5. found[p] \cup {w \in {v} : CachedCompatible(p, w)} = found[p]
    BY <2>4
  <2>6. found' = found
    BY <2>1, <2>5 DEF IInv, TypeOK
  <2> QED
    BY <2>1, <2>6
<1> HIDE DEF Visit
<1>1. TypeOK'
  BY <1>0 DEF IInv, TypeOK, Running, Ended
<1>2. ResolvedPart'
  BY <1>0 DEF IInv, ResolvedPart, Digest
<1>3. StagingPart'
  BY <1>0 DEF IInv, StagingPart
<1>4. PresentPart'
  BY <1>0 DEF IInv, TypeOK, PresentPart
<1>5. EntryPart' /\ ListedPart' /\ RunsPart' /\ OfflineFindsNothing'
  BY <1>0 DEF IInv, TypeOK, EntryPart, ListedPart, RunsPart, OfflineFindsNothing
<1>6. UnusableNeedsPowerLoss' /\ RacesAgree'
  BY <1>0 DEF IInv, UnusableNeedsPowerLoss, RacesAgree
<1> QED
  BY <1>1, <1>2, <1>3, <1>4, <1>5, <1>6 DEF IInv

LEMMA ChooseNever ==
    ASSUME IInv, NEW p \in Processes, Choose(p)
    PROVE  FALSE
BY DEF IInv, OfflineFindsNothing, Choose, Newest

LEMMA ObserveKeeps ==
    ASSUME IInv, NEW p \in Processes, Observe(p)
    PROVE  IInv'
<1> DEFINE check == CachedExecutable(release[p].version, release[p].minimum)
<1>1. CASE check = "mismatch" /\ Refuse(p, "observe", "mismatch")
  BY <1>1, RefuseKeeps DEF Running, Blameless, Reasons
<1>2. CASE check \in {"unusable", "checksum"} /\ Refuse(p, "observe", "unusable")
  <2>1. release[p].version \in Versions
    BY <1>2 DEF Refuse, Goto, IInv, ResolvedPart, Releases
  <2>2. entry[release[p].version] \in {Absent, Verified, Robbed}
    BY <2>1, CachedCases DEF IInv
  <2>4. entry[release[p].version] = Absent => check = "absent"
    BY DEF CachedExecutable
  <2>5. entry[release[p].version] = Verified => check \in {"verified", "mismatch"}
    BY DEF CachedExecutable, Verified, Absent
  <2>3. lossy
    BY <1>2, <2>1, <2>2, <2>4, <2>5 DEF IInv, EntryPart
  <2> QED
    BY <1>2, <2>3, RefuseKeeps DEF Running, Blameless, Reasons
<1>3. CASE /\ Goto(p, "observe", "authorize")
           /\ cached' = [cached EXCEPT ![p] = check = "verified"]
           /\ UNCHANGED <<disk, staging, request, approved, toVisit, found,
                          release, runs, why, history>>
  <2> USE <1>3 DEF Goto, disk, history
  <2>1. TypeOK'
    <3>1. (check = "verified") \in BOOLEAN
      OBVIOUS
    <3> HIDE DEF check
    <3>2. cached' \in [Processes -> BOOLEAN]
      BY <3>1 DEF IInv, TypeOK
    <3> QED
      BY <3>2 DEF IInv, TypeOK, Running, Ended
  <2> HIDE DEF check
  <2>2. ResolvedPart'
    BY DEF IInv, TypeOK, ResolvedPart, Applying, Downloading, Digest
  <2>3. StagingPart' /\ PresentPart'
    BY DEF IInv, TypeOK, StagingPart, PresentPart
  <2>4. EntryPart' /\ ListedPart' /\ RunsPart' /\ OfflineFindsNothing'
    BY DEF IInv, TypeOK, EntryPart, ListedPart, RunsPart, OfflineFindsNothing
  <2>5. UnusableNeedsPowerLoss' /\ RacesAgree'
    BY DEF IInv, TypeOK, UnusableNeedsPowerLoss, RacesAgree
  <2> QED
    BY <2>1, <2>2, <2>3, <2>4, <2>5 DEF IInv
<1> QED
  BY <1>1, <1>2, <1>3 DEF Observe

LEMMA AuthorizeKeeps ==
    ASSUME IInv, NEW p \in Processes, Authorize(p)
    PROVE  IInv'
<1> USE DEF Authorize, Goto, disk, command, history
<1>0. release[p] \in Releases
  BY DEF IInv, ResolvedPart
<1>7. /\ release'[p] \in Releases /\ release'[p].minimum = 0
      /\ release'[p].version = release[p].version
      /\ release' = [release EXCEPT ![p] = release'[p]]
  BY <1>0, SomeMinimums DEF IInv, TypeOK, Releases
<1>1. TypeOK'
  BY <1>7 DEF IInv, TypeOK, Running, Ended
<1>2. ResolvedPart'
  BY <1>0, <1>7 DEF IInv, TypeOK, ResolvedPart, Applying, Downloading, Digest
<1>3. StagingPart'
  BY DEF IInv, TypeOK, StagingPart, Applying, Downloading
<1>4. PresentPart'
  BY DEF IInv, TypeOK, PresentPart, ResolvedPart, Applying, Downloading, Releases
<1>5. EntryPart' /\ ListedPart' /\ RunsPart' /\ OfflineFindsNothing'
  BY DEF IInv, TypeOK, EntryPart, ListedPart, RunsPart, OfflineFindsNothing
<1>6. UnusableNeedsPowerLoss' /\ RacesAgree'
  BY DEF IInv, TypeOK, UnusableNeedsPowerLoss, RacesAgree
<1> QED
  BY <1>1, <1>2, <1>3, <1>4, <1>5, <1>6 DEF IInv

LEMMA AcquireCachedKeeps ==
    ASSUME IInv, NEW p \in Processes, AcquireCached(p)
    PROVE  IInv'
<1> USE DEF AcquireCached, Goto, disk, command, history
<1>1. TypeOK'
  BY DEF IInv, TypeOK, Running, Ended
<1>2. ResolvedPart'
  BY DEF IInv, TypeOK, ResolvedPart, Applying, Downloading, Digest
<1>3. StagingPart'
  BY DEF IInv, TypeOK, StagingPart, Applying, Downloading
<1>4. PresentPart'
  BY CheckCases, Distinct DEF IInv, TypeOK, PresentPart, Applying
<1>5. EntryPart' /\ ListedPart' /\ RunsPart' /\ OfflineFindsNothing'
  BY DEF IInv, TypeOK, EntryPart, ListedPart, RunsPart, OfflineFindsNothing
<1>6. UnusableNeedsPowerLoss' /\ RacesAgree'
  BY DEF IInv, TypeOK, UnusableNeedsPowerLoss, RacesAgree
<1> QED
  BY <1>1, <1>2, <1>3, <1>4, <1>5, <1>6 DEF IInv

LEMMA StageKeeps ==
    ASSUME IInv, NEW p \in Processes, Stage(p)
    PROVE  IInv'
<1> USE DEF Stage, Goto, disk, command, history
<1>1. TypeOK'
  BY SomeDirectories DEF IInv, TypeOK, Running, Ended
<1>2. ResolvedPart'
  BY DEF IInv, TypeOK, ResolvedPart, Applying, Downloading, Digest
<1>3. StagingPart'
  BY DEF IInv, TypeOK, StagingPart, Applying, Downloading
<1>4. PresentPart'
  BY DEF IInv, TypeOK, PresentPart, ResolvedPart, Applying, Downloading, Releases
<1>5. EntryPart' /\ ListedPart' /\ RunsPart' /\ OfflineFindsNothing'
  BY DEF IInv, TypeOK, EntryPart, ListedPart, RunsPart, OfflineFindsNothing
<1>6. UnusableNeedsPowerLoss' /\ RacesAgree'
  BY DEF IInv, TypeOK, UnusableNeedsPowerLoss, RacesAgree
<1> QED
  BY <1>1, <1>2, <1>3, <1>4, <1>5, <1>6 DEF IInv

LEMMA DownloadKeeps ==
    ASSUME IInv, NEW p \in Processes, Download(p)
    PROVE  IInv'
<1> USE DEF Download, Goto, disk, command, history
<1>0. staging[p] \in Directories
  BY DEF IInv, TypeOK
<1>7. PICK bytes \in {"wrong", "right"} :
         staging' = [staging EXCEPT ![p].phar = bytes]
  OBVIOUS
<1>8. [staging[p] EXCEPT !.phar = bytes] \in Directories
  BY <1>0, DirectoryUpdates
<1>9. staging' = [staging EXCEPT ![p] = [staging[p] EXCEPT !.phar = bytes]]
  BY <1>7
<1>1. TypeOK'
  BY <1>8, <1>9 DEF IInv, TypeOK, Running, Ended
<1>2. ResolvedPart'
  BY DEF IInv, TypeOK, ResolvedPart, Applying, Downloading, Digest
<1>3. StagingPart'
  BY DEF IInv, TypeOK, StagingPart, Applying, Downloading
<1>4. PresentPart'
  BY DEF IInv, TypeOK, PresentPart, ResolvedPart, Applying, Downloading, Releases
<1>5. EntryPart' /\ ListedPart' /\ RunsPart' /\ OfflineFindsNothing'
  BY DEF IInv, TypeOK, EntryPart, ListedPart, RunsPart, OfflineFindsNothing
<1>6. UnusableNeedsPowerLoss' /\ RacesAgree'
  BY DEF IInv, TypeOK, UnusableNeedsPowerLoss, RacesAgree
<1> QED
  BY <1>1, <1>2, <1>3, <1>4, <1>5, <1>6 DEF IInv

LEMMA VerifyKeeps ==
    ASSUME IInv, NEW p \in Processes, Verify(p)
    PROVE  IInv'
<1> USE DEF Verify, Goto, disk, command, history
<1>0. staging[p] \in Directories
  BY DEF IInv, TypeOK
<1>7. /\ staging' = [staging EXCEPT ![p] = staging'[p]]
      /\ staging'[p] \in Directories
      /\ staging'[p].phar = "right" /\ staging'[p].executable
  BY <1>0, DirectoryUpdates DEF IInv, TypeOK
<1>1. TypeOK'
  BY <1>7 DEF IInv, TypeOK, Running, Ended
<1>2. ResolvedPart'
  BY DEF IInv, TypeOK, ResolvedPart, Applying, Downloading, Digest
<1>3. StagingPart'
  BY <1>7 DEF IInv, TypeOK, StagingPart
<1>4. PresentPart'
  BY DEF IInv, TypeOK, PresentPart, ResolvedPart, Applying, Downloading, Releases
<1>5. EntryPart' /\ ListedPart' /\ RunsPart' /\ OfflineFindsNothing'
  BY DEF IInv, TypeOK, EntryPart, ListedPart, RunsPart, OfflineFindsNothing
<1>6. UnusableNeedsPowerLoss' /\ RacesAgree'
  BY DEF IInv, TypeOK, UnusableNeedsPowerLoss, RacesAgree
<1> QED
  BY <1>1, <1>2, <1>3, <1>4, <1>5, <1>6 DEF IInv

LEMMA RecordKeeps ==
    ASSUME IInv, NEW p \in Processes, Record(p)
    PROVE  IInv'
<1> USE DEF Record, Goto, disk, command, history
<1>0. staging[p] \in Directories
  BY DEF IInv, TypeOK
<1>7. /\ staging' = [staging EXCEPT ![p] = staging'[p]]
      /\ staging'[p] \in Directories
      /\ staging'[p] = Verified
  BY <1>0, DirectoryUpdates, OwnRelease DEF IInv, TypeOK, StagingPart, Applying, Downloading
<1>1. TypeOK'
  BY <1>7 DEF IInv, TypeOK, Running, Ended
<1>2. ResolvedPart'
  BY DEF IInv, TypeOK, ResolvedPart, Applying, Downloading, Digest
<1>3. StagingPart'
  BY <1>7 DEF IInv, TypeOK, StagingPart
<1>4. PresentPart'
  BY DEF IInv, TypeOK, PresentPart, ResolvedPart, Applying, Downloading, Releases
<1>5. EntryPart' /\ ListedPart' /\ RunsPart' /\ OfflineFindsNothing'
  BY DEF IInv, TypeOK, EntryPart, ListedPart, RunsPart, OfflineFindsNothing
<1>6. UnusableNeedsPowerLoss' /\ RacesAgree'
  BY DEF IInv, TypeOK, UnusableNeedsPowerLoss, RacesAgree
<1> QED
  BY <1>1, <1>2, <1>3, <1>4, <1>5, <1>6 DEF IInv

LEMMA FlushStagingKeeps ==
    ASSUME IInv, NEW p \in Processes, FlushStaging(p)
    PROVE  IInv'
<1> USE DEF FlushStaging, Goto, disk, command, history
<1>1. TypeOK'
  BY DEF IInv, TypeOK, Running, Ended
<1>2. ResolvedPart'
  BY DEF IInv, TypeOK, ResolvedPart, Applying, Downloading, Digest
<1>3. StagingPart'
  BY DEF IInv, TypeOK, StagingPart, Applying, Downloading
<1>4. PresentPart'
  BY DEF IInv, TypeOK, PresentPart, ResolvedPart, Applying, Downloading, Releases
<1>5. EntryPart' /\ ListedPart' /\ RunsPart' /\ OfflineFindsNothing'
  BY DEF IInv, TypeOK, EntryPart, ListedPart, RunsPart, OfflineFindsNothing
<1>6. UnusableNeedsPowerLoss' /\ RacesAgree'
  BY DEF IInv, TypeOK, UnusableNeedsPowerLoss, RacesAgree
<1> QED
  BY <1>1, <1>2, <1>3, <1>4, <1>5, <1>6 DEF IInv

LEMMA PromoteKeeps ==
    ASSUME IInv, NEW p \in Processes, Promote(p)
    PROVE  IInv'
<1> USE DEF Promote, Goto, disk, command, history
<1>0. /\ Version(p) = release[p].version /\ Version(p) \in Versions
      /\ staging[p] = Verified /\ staging[p] \in Directories
  BY OwnRelease DEF IInv, TypeOK, StagingPart, Version, Applying, Downloading
<1>1. TypeOK'
  BY <1>0, SomeDirectories DEF IInv, TypeOK, Running, Ended
<1>2. ResolvedPart'
  BY DEF IInv, TypeOK, ResolvedPart, Applying, Downloading, Digest
<1>3. StagingPart'
  BY DEF IInv, TypeOK, StagingPart, Applying, Downloading
<1>4. PresentPart'
  BY <1>0, Distinct DEF IInv, TypeOK, PresentPart, ResolvedPart, Releases, Applying, Downloading
<1>5. EntryPart' /\ ListedPart' /\ RunsPart' /\ OfflineFindsNothing'
  BY <1>0, Distinct DEF IInv, TypeOK, EntryPart, ListedPart, RunsPart, OfflineFindsNothing
<1>6. UnusableNeedsPowerLoss' /\ RacesAgree'
  BY DEF IInv, TypeOK, UnusableNeedsPowerLoss, RacesAgree
<1> QED
  BY <1>1, <1>2, <1>3, <1>4, <1>5, <1>6 DEF IInv

LEMMA SettleKeeps ==
    ASSUME IInv, NEW p \in Processes, Settle(p)
    PROVE  IInv'
<1> USE DEF Settle, Goto, disk, command, history
<1>0. Version(p) \in Versions /\ entry[Version(p)] # Absent
  BY OwnRelease DEF IInv, PresentPart, Version, Applying
<1>1. TypeOK'
  BY <1>0 DEF IInv, TypeOK, Running, Ended
<1>2. ResolvedPart'
  BY DEF IInv, TypeOK, ResolvedPart, Applying, Downloading, Digest
<1>3. StagingPart'
  BY DEF IInv, TypeOK, StagingPart, Applying, Downloading
<1>4. PresentPart'
  BY DEF IInv, TypeOK, PresentPart, ResolvedPart, Applying, Downloading, Releases
<1>5. EntryPart' /\ ListedPart' /\ RunsPart' /\ OfflineFindsNothing'
  BY <1>0 DEF IInv, TypeOK, EntryPart, ListedPart, RunsPart, OfflineFindsNothing
<1>6. UnusableNeedsPowerLoss' /\ RacesAgree'
  BY DEF IInv, TypeOK, UnusableNeedsPowerLoss, RacesAgree
<1> QED
  BY <1>1, <1>2, <1>3, <1>4, <1>5, <1>6 DEF IInv

LEMMA DiscardKeeps ==
    ASSUME IInv, NEW p \in Processes, Discard(p)
    PROVE  IInv'
<1> USE DEF Discard, Goto, disk, command, history
<1>1. TypeOK'
  BY PrintedKeepsType, SomeDirectories DEF IInv, TypeOK, Running, Ended, Applying, Downloading
<1>2. ResolvedPart'
  BY DEF IInv, TypeOK, ResolvedPart, Applying, Downloading, Digest
<1>3. StagingPart'
  BY DEF IInv, TypeOK, StagingPart, Applying, Downloading
<1>4. PresentPart'
  BY DEF IInv, TypeOK, PresentPart, ResolvedPart, Applying, Downloading, Releases
<1>5. EntryPart' /\ ListedPart' /\ RunsPart' /\ OfflineFindsNothing'
  BY DEF IInv, TypeOK, EntryPart, ListedPart, RunsPart, OfflineFindsNothing
<1>6. UnusableNeedsPowerLoss' /\ RacesAgree'
  BY DEF IInv, TypeOK, UnusableNeedsPowerLoss, RacesAgree
<1> QED
  BY <1>1, <1>2, <1>3, <1>4, <1>5, <1>6 DEF IInv

LEMMA CheckAgainKeeps ==
    ASSUME IInv, NEW p \in Processes, CheckAgain(p)
    PROVE  IInv'
<1> USE DEF CheckAgain, Goto, disk, command, history
<1>1. TypeOK'
  BY DEF IInv, TypeOK, Running, Ended
<1>2. ResolvedPart'
  BY DEF IInv, TypeOK, ResolvedPart, Applying, Downloading, Digest
<1>3. StagingPart'
  BY DEF IInv, TypeOK, StagingPart, Applying, Downloading
<1>4. PresentPart'
  BY CheckCases, Distinct DEF IInv, TypeOK, PresentPart, Applying
<1>5. EntryPart' /\ ListedPart' /\ RunsPart' /\ OfflineFindsNothing'
  BY DEF IInv, TypeOK, EntryPart, ListedPart, RunsPart, OfflineFindsNothing
<1>6. UnusableNeedsPowerLoss' /\ RacesAgree'
  BY DEF IInv, TypeOK, UnusableNeedsPowerLoss, RacesAgree
<1> QED
  BY <1>1, <1>2, <1>3, <1>4, <1>5, <1>6 DEF IInv

LEMMA RunComposerKeeps ==
    ASSUME IInv, NEW p \in Processes, RunComposer(p)
    PROVE  IInv'
<1> USE DEF RunComposer, Goto, disk, command, history
<1>0. /\ Version(p) \in Versions
      /\ runs[p] \in {0, 1} /\ runs[p] + 1 \in {0, 1, 2}
      /\ runs[p] = 0 => runs[p] + 1 = 1
  BY OwnRelease DEF IInv, RunsPart, Version, Applying
<1>1. TypeOK'
  BY <1>0 DEF IInv, TypeOK, Running, Ended
<1>2. ResolvedPart'
  BY DEF IInv, TypeOK, ResolvedPart, Applying, Downloading, Digest
<1>3. StagingPart'
  BY DEF IInv, TypeOK, StagingPart, Applying, Downloading
<1>4. PresentPart'
  BY DEF IInv, TypeOK, PresentPart, ResolvedPart, Applying, Downloading, Releases
<1>5. EntryPart' /\ ListedPart' /\ RunsPart' /\ OfflineFindsNothing'
  BY <1>0 DEF IInv, TypeOK, EntryPart, ListedPart, RunsPart, OfflineFindsNothing
<1>6. UnusableNeedsPowerLoss' /\ RacesAgree'
  BY DEF IInv, TypeOK, UnusableNeedsPowerLoss, RacesAgree
<1> QED
  BY <1>1, <1>2, <1>3, <1>4, <1>5, <1>6 DEF IInv

LEMMA ComposerFailsKeeps ==
    ASSUME IInv, NEW p \in Processes, ComposerFails(p)
    PROVE  IInv'
<1> USE DEF ComposerFails, Goto, disk, command, history
<1>1. TypeOK'
  <2>1. Version(p) \in Versions
    BY OwnRelease DEF Version, Applying
  <2>2. printed' \subseteq Requests \X Digests
    BY PrintedKeepsType DEF Applying
  <2> QED
    BY <2>1, <2>2 DEF IInv, TypeOK, Running, Ended
<1>2. ResolvedPart'
  BY DEF IInv, TypeOK, ResolvedPart, Applying, Downloading, Digest
<1>3. StagingPart'
  BY DEF IInv, TypeOK, StagingPart, Applying, Downloading
<1>4. PresentPart'
  BY DEF IInv, TypeOK, PresentPart, ResolvedPart, Applying, Downloading, Releases
<1>5. EntryPart' /\ ListedPart' /\ RunsPart' /\ OfflineFindsNothing'
  BY DEF IInv, TypeOK, EntryPart, ListedPart, RunsPart, OfflineFindsNothing
<1>6. UnusableNeedsPowerLoss' /\ RacesAgree'
  BY DEF IInv, TypeOK, UnusableNeedsPowerLoss, RacesAgree
<1> QED
  BY <1>1, <1>2, <1>3, <1>4, <1>5, <1>6 DEF IInv

LEMMA CrashKeeps ==
    ASSUME IInv, NEW p \in Processes, Crash(p)
    PROVE  IInv'
<1> USE DEF Crash, Goto, disk, command, history
<1>1. TypeOK'
  BY DEF IInv, TypeOK, Running, Ended
<1>2. ResolvedPart'
  BY DEF IInv, TypeOK, ResolvedPart, Applying, Downloading, Digest
<1>3. StagingPart'
  BY DEF IInv, TypeOK, StagingPart, Applying, Downloading
<1>4. PresentPart'
  BY DEF IInv, TypeOK, PresentPart, ResolvedPart, Applying, Downloading, Releases
<1>5. EntryPart' /\ ListedPart' /\ RunsPart' /\ OfflineFindsNothing'
  BY DEF IInv, TypeOK, EntryPart, ListedPart, RunsPart, OfflineFindsNothing, Running
<1>6. UnusableNeedsPowerLoss' /\ RacesAgree'
  BY DEF IInv, TypeOK, UnusableNeedsPowerLoss, RacesAgree
<1> QED
  BY <1>1, <1>2, <1>3, <1>4, <1>5, <1>6 DEF IInv

-----------------------------------------------------------------------------
\* The ways a command ends with an error.
LEMMA ResolutionErrorKeeps ==
    ASSUME IInv, NEW p \in Processes,
           NoneCompatible(p) \/ MetadataFails(p) \/ OfflineMiss(p) \/ Block(p)
           \/ StalePlan(p) \/ VisitBroken(p)
    PROVE  IInv'
<1> USE DEF Running, Blameless, Reasons
<1>1. CASE NoneCompatible(p) \/ MetadataFails(p) \/ OfflineMiss(p)
  BY <1>1, RefuseKeeps DEF NoneCompatible, MetadataFails, OfflineMiss
<1>2. CASE Block(p) \/ StalePlan(p)
  BY <1>2, RefuseKeeps DEF Block, StalePlan
<1>3. CASE VisitBroken(p)
  <2>1. PICK v \in toVisit[p] :
           /\ CachedExecutable(v, entry[v].minimum) # "verified"
           /\ Refuse(p, "visit", "unusable")
    BY <1>3 DEF VisitBroken
  <2>2. v \in Versions /\ entry[v] # Absent
    BY <2>1 DEF Refuse, Goto, IInv, TypeOK, PresentPart
  <2>3. entry[v] # Verified
    BY <2>1, <2>2 DEF CachedExecutable, Verified, Absent
  <2>4. lossy
    BY <2>2, <2>3 DEF IInv, EntryPart
  <2> QED
    BY <2>1, <2>4, RefuseKeeps
<1> QED
  BY <1>1, <1>2, <1>3

LEMMA AcquisitionErrorKeeps ==
    ASSUME IInv, NEW p \in Processes,
           AcquireRefused(p) \/ DownloadInterrupted(p) \/ VerifyFails(p)
           \/ LosePromotion(p) \/ CheckFails(p)
    PROVE  IInv'
<1> USE DEF Blameless, Reasons
<1>1. CASE AcquireRefused(p)
  <2>1. pc[p] = "acquire" /\ "acquire" \in Applying
    BY <1>1 DEF AcquireRefused, FailAction, Goto, Applying
  <2>2. Check(p) \in {"absent", "verified"} \/ (Check(p) = "unusable" /\ lossy)
    BY <2>1, CheckCases
  <2> QED
    BY <1>1, <2>1, <2>2, FailActionKeeps DEF AcquireRefused
<1>2. CASE DownloadInterrupted(p) \/ VerifyFails(p)
  BY <1>2, AbandonKeeps DEF DownloadInterrupted, VerifyFails
<1>3. CASE LosePromotion(p)
  <2>1. pc[p] = "promote" /\ "promote" \in Applying
    BY <1>3 DEF LosePromotion, AbandonStaging, Goto, Applying, Downloading
  <2>2. \/ Check(p) = "absent"
        \/ Check(p) = "verified" /\ entry[release[p].version] # Absent
        \/ Check(p) = "unusable" /\ lossy
    BY <2>1, CheckCases, Distinct
  <2> QED
    BY <1>3, <2>1, <2>2, AbandonKeeps DEF LosePromotion
<1>4. CASE CheckFails(p)
  <2>1. pc[p] = "check" /\ "check" \in Applying
    BY <1>4 DEF CheckFails, FailAction, Goto, Applying
  <2>2. entry[release[p].version] # Absent
    BY <2>1 DEF IInv, PresentPart
  <2>3. Check(p) = "verified" \/ (Check(p) = "unusable" /\ lossy)
    BY <2>1, <2>2, CheckCases
  <2> QED
    BY <1>4, <2>1, <2>3, FailActionKeeps DEF CheckFails
<1> QED
  BY <1>1, <1>2, <1>3, <1>4

LEMMA CallFailsKeeps ==
    ASSUME IInv, NEW p \in Processes, CallFails(p)
    PROVE  IInv'
<1> USE DEF Blameless, Reasons
<1>1. CASE \E here \in {"visit", "observe"} : Refuse(p, here, "io")
  BY <1>1, RefuseKeeps DEF Running
<1>2. CASE \E here \in {"acquire", "settle", "check"} : FailAction(p, here, "io")
  BY <1>2, FailActionKeeps DEF Applying
<1>3. CASE \E here \in {"download", "verify", "record", "flush", "promote"} :
               AbandonStaging(p, here, "io")
  BY <1>3, AbandonKeeps
<1> QED
  BY <1>1, <1>2, <1>3 DEF CallFails

-----------------------------------------------------------------------------
\* The system and the power supply.
LEMMA WriteBackKeeps ==
    ASSUME IInv, NEW v \in Versions, WriteBack(v)
    PROVE  IInv'
<1> USE DEF WriteBack, command, history
<1>1. TypeOK'
  BY DEF IInv, TypeOK
<1>2. ResolvedPart' /\ StagingPart' /\ PresentPart' /\ RunsPart'
  BY DEF IInv, ResolvedPart, StagingPart, PresentPart, RunsPart, Digest
<1>3. EntryPart' /\ ListedPart' /\ OfflineFindsNothing'
  BY DEF IInv, EntryPart, ListedPart, OfflineFindsNothing
<1>4. UnusableNeedsPowerLoss' /\ RacesAgree'
  BY DEF IInv, UnusableNeedsPowerLoss, RacesAgree
<1> QED
  BY <1>1, <1>2, <1>3, <1>4 DEF IInv

\* What a power loss makes of an entry.
LEMMA LostEntries ==
    ASSUME IInv, PowerLoss
    PROVE  /\ entry' \in [Versions -> Directories]
           /\ \A v \in Versions : entry'[v] \in {Absent, Verified, Robbed}
           /\ \A v \in listed : entry'[v] # Absent
           /\ \A v \in Versions : entry[v] = Absent => entry'[v] = Absent
<1>0. PICK lost \in SUBSET ({v \in Versions : entry[v] # Absent} \ listed) :
       \E unmarked \in SUBSET ({v \in Versions : entry[v] # Absent}
                                    \ (marked \cup lost)) :
         entry' = [v \in Versions |->
             IF v \in lost THEN Absent
             ELSE [entry[v] EXCEPT !.executable = @ /\ v \notin unmarked]]
  BY DEF PowerLoss
<1>1. PICK unmarked : entry' = [v \in Versions |->
             IF v \in lost THEN Absent
             ELSE [entry[v] EXCEPT !.executable = @ /\ v \notin unmarked]]
  BY <1>0
<1>7. lost \cap listed = {}
  BY <1>0
<1>2. ASSUME NEW v \in Versions
      PROVE  /\ entry'[v] \in {Absent, Verified, Robbed}
             /\ v \in listed => entry'[v] # Absent
             /\ entry[v] = Absent => entry'[v] = Absent
  <2>1. entry[v] \in {Absent, Verified, Robbed}
    BY CachedCases DEF IInv
  <2>2. CASE v \in lost
    BY <1>1, <1>7, <2>2
  <2>3. CASE v \notin lost /\ entry[v] = Absent
    <3>0. (Absent.executable /\ v \notin unmarked) = FALSE
      BY DEF Absent
    <3>3. entry'[v] = [Absent EXCEPT !.executable = @ /\ v \notin unmarked]
      BY <1>1, <2>3
    <3>1. entry'[v] = [Absent EXCEPT !.executable = FALSE]
      BY <3>0, <3>3 DEF Absent
    <3>2. entry'[v] = Absent
      BY <3>1 DEF Absent
    <3> QED
      BY <3>2, <2>3 DEF IInv, ListedPart
  <2>4. CASE v \notin lost /\ entry[v] \in {Verified, Robbed}
    <3>1. entry'[v] = [entry[v] EXCEPT !.executable = @ /\ v \notin unmarked]
      BY <1>1, <2>4
    <3>2. entry'[v] \in {Verified, Robbed}
      BY <2>4, <3>1 DEF Verified, Robbed
    <3> QED
      BY <2>4, <3>2, Distinct
  <2> QED
    BY <2>1, <2>2, <2>3, <2>4
<1>3. Verified \in Directories /\ Robbed \in Directories
  BY SomeMinimums DEF Verified, Robbed, Directories
<1>4. entry' = [v \in Versions |-> entry'[v]]
  BY <1>1
<1>5. entry' \in [Versions -> Directories]
  BY <1>2, <1>3, <1>4, SomeDirectories
<1>6. listed \subseteq Versions
  BY DEF IInv, TypeOK
<1> QED
  BY <1>2, <1>5, <1>6

LEMMA PowerLossKeeps ==
    ASSUME IInv, PowerLoss
    PROVE  IInv'
<1>1. /\ listed' = {v \in Versions : entry'[v] # Absent} /\ marked' = listed'
      /\ pc' = [p \in Processes |->
                   IF pc[p] \in Running THEN "crashed" ELSE pc[p]]
      /\ lossy'
      /\ UNCHANGED <<staging, command, why, printed, promised, executed>>
  BY DEF PowerLoss
<1> USE <1>1 DEF command
<1>2. TypeOK'
  BY LostEntries DEF IInv, TypeOK, Running, Ended
<1>3. \A p \in Processes : pc'[p] \notin Running
  BY DEF Running
<1>4. ResolvedPart' /\ StagingPart' /\ PresentPart'
  BY <1>3 DEF ResolvedPart, StagingPart, PresentPart, Running, Applying, Downloading
<1>5. EntryPart'
  BY LostEntries DEF EntryPart
<1>6. ListedPart' /\ RunsPart' /\ OfflineFindsNothing'
  BY LostEntries DEF IInv, TypeOK, ListedPart, RunsPart, OfflineFindsNothing, Running
<1>7. UnusableNeedsPowerLoss' /\ RacesAgree'
  BY DEF IInv, UnusableNeedsPowerLoss, RacesAgree
<1> QED
  BY <1>2, <1>4, <1>5, <1>6, <1>7 DEF IInv

-----------------------------------------------------------------------------
LEMMA StutterKeeps == IInv /\ UNCHANGED vars => IInv'
<1> SUFFICES ASSUME IInv, UNCHANGED vars PROVE IInv'
  OBVIOUS
<1> USE DEF vars, disk, command, history
<1>1. TypeOK'
  BY DEF IInv, TypeOK
<1>2. ResolvedPart' /\ StagingPart' /\ PresentPart' /\ RunsPart'
  BY DEF IInv, ResolvedPart, StagingPart, PresentPart, RunsPart, Digest
<1>3. EntryPart' /\ ListedPart' /\ OfflineFindsNothing'
  BY DEF IInv, EntryPart, ListedPart, OfflineFindsNothing
<1>4. UnusableNeedsPowerLoss' /\ RacesAgree'
  BY DEF IInv, UnusableNeedsPowerLoss, RacesAgree
<1> QED
  BY <1>1, <1>2, <1>3, <1>4 DEF IInv

LEMMA NextIInv == IInv /\ [Next]_vars => IInv'
<1> SUFFICES ASSUME IInv, [Next]_vars PROVE IInv'
  OBVIOUS
<1>1. ASSUME NEW p \in Processes, Begin(p) \/ CallFails(p) \/ Crash(p)
      PROVE  IInv'
  BY <1>1, BeginKeeps, CallFailsKeeps, CrashKeeps
<1>2. ASSUME NEW p \in Processes, Resolution(p) PROVE IInv'
  BY <1>2, ResolveOnlineKeeps, ReadCacheKeeps, VisitKeeps, ChooseNever,
     ResolutionErrorKeeps DEF Resolution
<1>3. ASSUME NEW p \in Processes, Planning(p) PROVE IInv'
  BY <1>3, ObserveKeeps, AuthorizeKeeps, ResolutionErrorKeeps DEF Planning
<1>4. ASSUME NEW p \in Processes, Acquisition(p) PROVE IInv'
  BY <1>4, AcquireCachedKeeps, StageKeeps, DownloadKeeps, VerifyKeeps,
     RecordKeeps, FlushStagingKeeps, PromoteKeeps, SettleKeeps, DiscardKeeps,
     AcquisitionErrorKeeps DEF Acquisition
<1>5. ASSUME NEW p \in Processes, Execution(p) PROVE IInv'
  BY <1>5, CheckAgainKeeps, RunComposerKeeps, ComposerFailsKeeps,
     AcquisitionErrorKeeps DEF Execution
<1>6. ASSUME NEW v \in Versions, WriteBack(v) PROVE IInv'
  BY <1>6, WriteBackKeeps
<1>7. CASE PowerLoss
  BY <1>7, PowerLossKeeps
<1>8. CASE UNCHANGED vars
  BY <1>8, StutterKeeps
<1> QED
  BY <1>1, <1>2, <1>3, <1>4, <1>5, <1>6, <1>7, <1>8 DEF Next, Step

LEMMA Invariant == Spec => []IInv
BY InitIInv, NextIInv, PTL DEF Spec

(***************************************************************************)
(* Every variable keeps its type.                                          *)
(***************************************************************************)
THEOREM TypeCorrect == Spec => []TypeOK
<1>1. IInv => TypeOK
  BY DEF IInv
<1> QED
  BY <1>1, Invariant, PTL

(***************************************************************************)
(* What is executed is in place, verified and the release of the plan that *)
(* was approved, whatever other commands and power losses do to the cache  *)
(* between the approval and the execution (executeComposer).               *)
(***************************************************************************)
THEOREM ApprovedExecution == Spec => []RunsApproved
<1>1. ASSUME IInv, NEW p \in Processes, pc[p] = "run"
      PROVE  /\ Whole(entry[Version(p)]) /\ entry[Version(p)].executable
             /\ approved[p] \in {None, Digest(p)}
  <2>1. entry[Version(p)] = Verified
    BY <1>1 DEF IInv, PresentPart, Version
  <2>2. Whole(Verified) /\ Verified.executable
    BY CacheAssumption DEF Whole, Verified
  <2> QED
    BY <1>1, <2>1, <2>2 DEF IInv, ResolvedPart, Applying
<1>2. IInv => RunsApproved
  BY <1>1 DEF RunsApproved
<1> QED
  BY <1>2, Invariant, PTL

(***************************************************************************)
(* No interleaving of commands and no failing call leaves a release in the *)
(* cache that cannot be executed (Manager.Acquire, downloadAndVerify).     *)
(***************************************************************************)
THEOREM UsableBarPowerLoss == Spec => []UnusableNeedsPowerLoss
<1>1. IInv => UnusableNeedsPowerLoss
  BY DEF IInv
<1> QED
  BY <1>1, Invariant, PTL

(***************************************************************************)
(* Any number of commands that acquire one release at the same time agree  *)
(* about its record (Manager.Acquire, the loser of the promotion).         *)
(***************************************************************************)
THEOREM Agreement == Spec => []RacesAgree
<1>1. IInv => RacesAgree
  BY DEF IInv
<1> QED
  BY <1>1, Invariant, PTL

(***************************************************************************)
(* As long as synchronizations alone fill the cache, an offline resolution *)
(* finds nothing in it: every entry is recorded without a minimum PHP      *)
(* version, and cachedReleaseCompatible passes over those.                 *)
(***************************************************************************)
THEOREM OfflineMisses == Spec => []OfflineFindsNothing
<1>1. IInv => OfflineFindsNothing
  BY DEF IInv
<1> QED
  BY <1>1, Invariant, PTL

-----------------------------------------------------------------------------
\* The releases in the cache, of the abstract cache and of this one.
Present == {v \in Versions : entry[v] # Absent}

LEMMA WholeArePresent ==
    /\ IInv => {v \in Versions : Whole(entry[v])} = Present
    /\ IInv' => {v \in Versions : Whole(entry'[v])} = Present'
<1>1. Whole(Verified) /\ Whole(Robbed) /\ ~ Whole(Absent)
  BY CacheAssumption DEF Whole, Verified, Robbed, Absent
<1> QED
  BY <1>1, Distinct DEF IInv, EntryPart, Present

LEMMA RefinesStutter ==
    ASSUME UNCHANGED <<entry, promised, executed>>
    PROVE  UNCHANGED Cache!vars
BY DEF Cache!vars

LEMMA CommandRefines ==
    ASSUME IInv, NEW p \in Processes, Begin(p) \/ CallFails(p) \/ Crash(p) \/ Step(p)
    PROVE  [Cache!Next]_Cache!vars
<1> USE DEF disk, command, history
<1>0. IInv'
  BY NextIInv DEF Next
<1>1. CASE Begin(p) \/ Crash(p)
  BY <1>1, RefinesStutter DEF Begin, Crash
<1>2. CASE CallFails(p)
  BY <1>2, RefinesStutter DEF CallFails, Refuse, FailAction, AbandonStaging
<1>3. CASE Resolution(p)
  BY <1>3, RefinesStutter
     DEF Resolution, ResolveOnline, NoneCompatible, MetadataFails, ReadCache,
         Visit, VisitBroken, Choose, OfflineMiss, Refuse
<1>4. CASE Planning(p)
  BY <1>4, RefinesStutter DEF Planning, Observe, Authorize, Block, StalePlan, Refuse
<1>5. CASE Acquisition(p)
  <2>1. CASE Promote(p)
    <3>1. Version(p) \in Versions /\ staging[p] = Verified
      BY <2>1, OwnRelease
         DEF Promote, Goto, IInv, StagingPart, Version, Applying, Downloading
    <3>2. Present' = Present \cup {Version(p)}
      BY <2>1, <3>1, Distinct DEF Promote, Present, IInv, TypeOK
    <3>3. Cache!Add(Version(p))
      BY <1>0, <2>1, <3>2, WholeArePresent DEF Promote, Cache!Add
    <3> QED
      BY <3>1, <3>3 DEF Cache!Next
  <2>2. CASE Settle(p)
    <3>1. Version(p) \in Versions /\ Version(p) \in Present
      BY <2>2, OwnRelease
         DEF Settle, Goto, IInv, PresentPart, Version, Applying, Present
    <3>2. Cache!Promise(Version(p))
      BY <2>2, <3>1, WholeArePresent DEF Settle, Cache!Promise
    <3> QED
      BY <3>1, <3>2 DEF Cache!Next
  <2>3. CASE ~ Promote(p) /\ ~ Settle(p)
    BY <1>5, <2>3, RefinesStutter
       DEF Acquisition, AcquireCached, AcquireRefused, Stage, Download,
           DownloadInterrupted, Verify, VerifyFails, Record, FlushStaging,
           LosePromotion, Discard, FailAction, AbandonStaging
  <2> QED
    BY <2>1, <2>2, <2>3
<1>6. CASE Execution(p)
  <2>1. CASE RunComposer(p) \/ ComposerFails(p)
    <3>1. Version(p) \in Versions /\ Version(p) \in Present
      BY <2>1, OwnRelease
         DEF RunComposer, ComposerFails, Goto, IInv, PresentPart, Version,
             Applying, Present
    <3>2. Cache!Run(Version(p))
      BY <2>1, <3>1, WholeArePresent DEF RunComposer, ComposerFails, Cache!Run
    <3> QED
      BY <3>1, <3>2 DEF Cache!Next
  <2>2. CASE CheckAgain(p) \/ CheckFails(p)
    BY <2>2, RefinesStutter DEF CheckAgain, CheckFails, FailAction
  <2> QED
    BY <1>6, <2>1, <2>2 DEF Execution
<1> QED
  BY <1>1, <1>2, <1>3, <1>4, <1>5, <1>6 DEF Step

LEMMA PowerLossRefines ==
    ASSUME IInv, PowerLoss
    PROVE  [Cache!Next]_Cache!vars
<1>0. IInv'
  BY NextIInv DEF Next
<1>1. Present' \subseteq Present
  BY LostEntries DEF Present
<1>2. promised \subseteq Present'
  BY LostEntries DEF IInv, ListedPart, TypeOK, Present
<1>3. promised' = promised /\ executed' = executed
  BY DEF PowerLoss
<1>4. Cache!Lose
  BY <1>0, <1>1, <1>2, <1>3, WholeArePresent DEF Cache!Lose
<1> QED
  BY <1>4 DEF Cache!Next

(***************************************************************************)
(* The shared directory of releases implements the verified cache: what a  *)
(* command has reported acquired stays through every power loss, and only  *)
(* what is there is executed.                                              *)
(***************************************************************************)
THEOREM Refinement == Spec => ImplementsCache
<1>1. Init => Cache!Init
  <2>1. Init => {v \in Versions : Whole(entry[v])} = {}
    BY InitIInv, WholeArePresent DEF Init, Present
  <2> QED
    BY <2>1 DEF Init, Cache!Init
<1>2. IInv /\ [Next]_vars => [Cache!Next]_Cache!vars
  <2> SUFFICES ASSUME IInv, [Next]_vars PROVE [Cache!Next]_Cache!vars
    OBVIOUS
  <2>1. ASSUME NEW p \in Processes,
               Begin(p) \/ Step(p) \/ CallFails(p) \/ Crash(p)
        PROVE  [Cache!Next]_Cache!vars
    BY <2>1, CommandRefines
  <2>2. ASSUME NEW v \in Versions, WriteBack(v)
        PROVE  [Cache!Next]_Cache!vars
    BY <2>2, RefinesStutter DEF WriteBack, history
  <2>3. CASE PowerLoss
    BY <2>3, PowerLossRefines
  <2>4. CASE UNCHANGED vars
    BY <2>4, RefinesStutter DEF vars, disk, history
  <2> QED
    BY <2>1, <2>2, <2>3, <2>4 DEF Next
<1> QED
  BY <1>1, <1>2, Invariant, PTL DEF Spec, ImplementsCache, Cache!Spec
=============================================================================
