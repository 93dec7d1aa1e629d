# Verification of Elefante

Elefante (the CLI in `src/`) analyzes a PHP project, plans the actions that
give it a working environment, and, after approval, synchronizes the
environment under a per-project lock while it keeps a journal of what is done.
This directory holds TLA+ models of the program, from the analysis of a project
to the cache of Composer releases and the child processes, TLC configurations that check
them on small instances, and TLAPS proofs for all instances.

    tlc -config EnvironmentLock_safety.cfg MCEnvironmentLock
    tlc -config SyncEngine_safety.cfg MCSyncEngine
    tlc -config Analysis_safety.cfg MCAnalysis
    tlapm SyncEngineProofs.tla

## 1. The system and its parts

Sources are under `src/internal/` unless said otherwise.

| Component | State it keeps | Operations | Talks to | Hard behaviour | What makes it correct |
|---|---|---|---|---|---|
| environment lock, `state/lock.go` | one lock file per project identity, with PID and nonce of its owner | Acquire (with stale recovery), Release | filesystem, process table | any number of processes, crash at any call, PID reuse, check-then-remove by path | mutual exclusion; a dead owner blocks nobody; nobody removes a living owner's file |
| synchronization engine, `app/sync_engine.go` | the run: draft journal, position, actions of this run | Apply: trust, journal, actions, failure, compensation, success | lock, store, action executor | crash, error or failed save at every call; compensation; retry of a partial run | the journal is true; no effect before journal and trust; every action accounted for; retries converge |
| action journal, `state/journal.go` | `journal.json` | Complete, Fail, Compensate, PrepareRetry, Succeed | engine | long legal sequences of transitions and retries | steps are finished one by one; success is final and complete |
| trust record, `state/trust.go` | `trust.json` | Missing, Approve | engine | read, then replaced as a whole | approvals only grow |
| environment record, `state/environment.go` | `environment.json` | record_state | engine | replaced by every plan | names what was completed |
| store and atomic writer, `state/store.go`, `state/atomic.go` | the state files, temporary files | Load*, Save*: temporary file, sync, rename, flush | filesystem | crash or error between the steps, an error after the rename | a reader sees the old or the new value |
| use cases, `app/application.go` | none between commands | analyze, plan, sync, run | all of the above | analysis and approval happen before the lock | what is applied is what was approved |
| plan approval, `security/approval.go` | none | AuthorizePlan | use cases, prompt | digest, `--yes`, non-interactive | no mutation without approval of this plan |
| managed Composer, `composer/acquisition.go`, `app/sync_actions.go` | shared cache of releases with records | Resolve, Observation, Acquire (download, verify, promote) | network, filesystem, engine | processes promote at once; a record of one path is compared by another | what is cached is verified; cached releases are found again |
| process runner, `executor/runner.go`, `executor/signals.go` | child process, goroutines for streams and signals | Run: start, forward signals, cancel, grace period, kill | operating system | late exit against cancellation and timers; pipes held by grandchildren | the outcome is the child's; no child is left behind |
| machine protocol, `output/machine.go`, `output/renderer.go` | sequence counter | Emit from several goroutines | command line | concurrent emitters, short or failing writes | sequence numbers without gaps |
| command line, `cli/`, `src/cmd/elefante/main.go` | the command | event order, prompt, exit code | use cases, output | a command always ends with one result | one terminal event |
| planner, `plan/plan.go`, `plan/matrix.go` | none | Build: provider selection, requirements, trust, ordering of actions | use cases, providers' observations | ties, wishes against abilities, sorts of what came in any order, conflicts among the requirements | a plan that depends on nothing but what was found, meets every requirement and prepares before it uses |
| constraints, `constraints/` | the bounds of one intersection | parse, compare, match, intersect | planner | bounds of ranges, exclusions, stabilities, versions between which there is none | a conflict is reported exactly where no version satisfies both |
| network policy, `cache/policy.go` | none | decision table | nothing outside its tests | - | - |
| Composer metadata, `composer/parser.go`, `selection.go`, `content_hash.go` | none | parse, select | planner | - | - |
| providers, `providers/` | none | Inspect, Plan; Apply refuses every action today | use cases, child processes | every state of the machine | what is reported is what can be used |
| discovery, configuration, frameworks, redaction, human output, models | none | parsing, classification, formatting | - | - | - |

A command goes: discovery and providers observe the machine; the planner makes
a plan with a digest; the user approves that digest; the engine acquires the
lock, loads trust and journal, carries the actions out one after another with a
save of the journal after each, and releases the lock. A failed action makes
the engine compensate, in reverse order, those completed actions of this run
that offered a safe compensation, and report what a user must do by hand. The
journal stays for a retry of the same plan.

## 2. Modules

| Module | What it is |
|---|---|
| `EnvironmentLock` | Acquire, stale recovery and Release: one action per filesystem call, any number of processes |
| `MCEnvironmentLock` | symmetry of processes and PIDs for TLC |
| `Synchronization` | abstract: what a reader of the journal may rely on |
| `SyncEngine` | Apply with journal, trust and environment record, under the lock; refines `Synchronization` |
| `SyncEngineProofs` | its inductive invariant, the theorems, the refinement |
| `MCSyncEngine` | two example plans for TLC |
| `AtomicFile` | abstract: what a state file promises to those who load it |
| `AtomicWriter` | WriteJSON: one action per filesystem call, any number of saves of one file, with a cache and a disk; refines `AtomicFile` |
| `MCAtomicWriter` | symmetry of the writers for TLC |
| `StateProofs` | inductive invariants and theorems of the lock and of the writer, and the writer's refinement |
| `VerifiedCache` | abstract: what the cache of Composer releases promises |
| `ComposerCache` | commands that resolve, observe, approve, acquire and execute releases through one cache; refines `VerifiedCache` |
| `ComposerCacheProofs` | its inductive invariant, the theorems, the refinement |
| `MCComposerCache` | two releases and the requests for them |
| `ProcessRunner` | one child: Run or Output, the signals, the waiting goroutine, the copying of output, the grace period |
| `ProcessRunnerProofs` | its inductive invariant and theorems |
| `MCProcessRunner` | exit codes for TLC |
| `MachineRenderer` | the numbered events of one command, written by three goroutines |
| `Command` | one invocation: events, analysis, approval, prompt, engine or child, exit code; extends `MachineRenderer` |
| `CommandProofs` | its inductive invariant and theorems |
| `MCCommand` | three states of a project |
| `Intersection` | the loop that looks for a version between bounds, over any total order |
| `IntersectionProofs` | its inductive invariant and theorems |
| `MCIntersection` | all short lists of predicates |
| `Constraints` | what atoms mean, how versions compare, intersection of constraints; uses `Intersection` |
| `ConstraintsProofs` | its inductive invariant and theorems |
| `MCConstraints` | atoms and pairs of constraints |
| `Planner` | Build as a function of a request |
| `Analysis` | analyze: the observations of the machine, three builds, the resolution of Composer; extends `Planner` |
| `AnalysisProofs` | its inductive invariant and theorems, and what Build promises |
| `MCAnalysis` | projects, machines and options |

### EnvironmentLock

A process is one invocation of the CLI. It creates at most one file (a creation
ends Acquire), so the process itself stands for "the file it created" and for
the nonce in it: comparing metadata is comparing creators. `lockFile` is who
created the file at the path, `content[p]` what the file of `p` holds (`partial`
from the exclusive open to the write), `seen[p]` the owner `p` read first,
`attempt[p]` the iteration of the loop. `pc[p]` names the next system call:

    create -> write -> publish -> holding -> unlink -> released
       |         \________\-> cleanup -> failed | leaked
       -> inspect -> probe -> verify -> remove -> create (next attempt)

Every label is a point where others interleave, where the process may crash and
where the call may fail. PIDs are explicit: `Start` picks any PID no running
process has, and `ForeignStarts`/`ForeignEnds` give and take PIDs of other
programs, so that a dead owner's PID may be alive again. A process ends when
Acquire has failed or Release has returned; what its operating system process
does after that is covered by a foreign program with its PID.

`misremoved` is a history variable: a recovery removed a file other than the
one it had verified. It appears in no guard.

### SyncEngine

Runs follow one another under the lock (mutual exclusion is the lock's
subject), so that one run's memory suffices. Disk: `journal`, `trust`,
`environment`. The world: `effect[s]`, what action `s` (a plan's digest and a
position) has left: `absent`, `partial` or `applied`. Memory of the run:
`draft`, `cursor`, `listed` (CompletedActions), `ranNow` (completedThisRun),
`offers`, `toUndo`, `compensated`, `manual`, `missing`, `trustRecord`.

    idle -Begin-> loadTrust -> loadJournal -> saveJournal [-> saveTrust] -> step
    step -Execute|RecordState-> complete -RecordCompletion-> step ... -Succeed-> release
                             \-> fail -RecordFailure-> undo -Undo-> recordUndo -> undo
                                                       undo -Report-> release -> idle
    loadJournal (succeeded) [-> approveOnly] -> release

- An action of the model is the code between two calls that can fail or be cut
  off. Each may crash (`Crash`), and each call may fail; a save that fails leaves
  either the old or the new file, because `WriteJSON` flushes the directory
  after the rename.
- An execution that fails or crashes leaves any effect. While plan `d` runs, the
  effects of other plans may be lost (`Disturbed`): plans replace what others
  installed.
- Kinds of actions are data: `RecordSteps` (record_state), `ReadSteps` (effect
  read), `UndoableSteps` (reversible; whether the executor offers a compensation
  is decided at each execution).
- A fingerprint stands for the pair of its class and its text.
- `unrecorded` is history: compensations that were attempted and that the
  journal does not show. `faulty` says that faults still occur; only
  `Stabilize` changes it.
- The internal errors of the journal's transitions appear as guards
  (`draft.entry[cursor] = "pending"`...): where one would be returned the model
  would stop. `JournalNeverRefuses` shows that this never happens, and the runs
  check for deadlock.
- PrepareRetry's mismatch errors cannot arise: a journal with the plan's digest
  was made from a plan with that digest. This presumes that equal digests mean
  equal plans.
- Left out: the texts in the journal, outputs of actions, timestamps, progress
  events, and the checks of the request that precede the lock.

### AtomicWriter

A writer is one call of WriteJSON, and since `CreateTemp` gives every call a
file of its own, also that file and the value in it. `target` is whose file is
at the state path, `temporary` whose file is still at its temporary path;
`data[w]` is what the file holds. Each has a durable counterpart (`durable`,
`onDisk`): `Sync` and `Flush` bring it up to date, the system may do so at any
time (`WriteBack`, `WriteBackDirectory`), and `PowerLoss` goes back to it.
`renames` and `rank` are history: the order of the renames.

    idle -> create -> write -> sync -> rename -> flush -> done | unflushed
               |        \________\________\-> cleanup -> failed | leaked
               \-> failed

`SyncEngine`'s save step is the abstraction of this: a save that reports an
error may have replaced the file (`unflushed`), one that succeeds stays.
`BeforeRename` is a hook that only tests set; its error is the same as one of
the rename. A state directory that MkdirAll has just made is taken to be on
disk, which the code does not ensure (a hazard of the list). Some names begin
with `Writer` because `StateProofs` extends the lock and the writer at once.

### ComposerCache

A version stands for its official release, its checksum and the directory that
the checksum names. `entry[v]` is that directory (how much of `composer.phar` is
right, its mode, the minimum PHP version of `release.json`), `staging[p]` the
temporary directory of a command; `listed` and `marked` are what of the names and
modes is on disk. A command goes

    resolve [-> visit each entry, offline] -> observe -> authorize
      -> acquire -> download -> verify -> record -> flush -> promote -> settle
                        \________\________\_______\_______\-> discard
      -> check -> run -> check -> run -> done

and fails, is killed or loses power between any two calls (`CallFails`, `Crash`,
`PowerLoss`). The loser of a promotion compares what it finds with its own
record. From `Authorize` on the release has no minimum PHP version, because the
plan's action that it is rebuilt from has none. `printed`, `promised`,
`executed` and `lossy` are history.

### ProcessRunner

The caller, the goroutine that waits for the child, NotifyContext's goroutine
with its channel of one, the child, a descendant that may survive it, and the
copying of output by os/exec are separate processes. `run.at` is where Run is:
in its select, signalling, in the grace period, killing, waiting. `Faults`
admits what may go wrong outside: a descendant that holds the pipe, a child that
signals cannot reach, an output that refuses a chunk. The select's choice
between an answer and a done context is nondeterministic, as in Go. Run and
Output make different errors of one answer: for Run (`RunResult`) a failing exit
is none and a failed signal is one; Output (`OutputResult`) returns what os/exec
does, a failing exit first, then the context's error if the kill was in time.

### MachineRenderer and Command

`Emit`, `Written` and `NotWritten` are the two ends of a write under the mutex
(the number is used only when the whole line was written). `Command` goes
through the code of one invocation with `at` and a `queue` of events; the
project changes at any time (`Edit`), so `analysis` keeps which state of it each
phase has read, and a digest is that triple. `SyncEngine` and `ProcessRunner`
are a step or two here (`Apply`, `RunChild` to `ChildEnds`). `child` is
`"unreached"` when a signal to the child failed, the case `foreign` of
`ProcessRunner`: Application.Run then returns both the child's exit and an error.

### Intersection and Constraints

`Intersection` takes the versions and their order as constants: the loop over
predicates is an action per predicate, with the tightest bounds and the excluded
versions as its state. `Constraints` says what each kind of atom is parsed into
(`^`, `~`, `-`, `.*`, comparisons, flags), how versions compare, and runs the
loop for one pair of groups after another. The splitting of the text into
groups and atoms is left out.

### Planner and Analysis

A version is a number and a constraint the set of versions it allows; there is
one requirement of each kind that the code treats differently (`php`, an
extension, `composer`, `composer-plugin-api`). `Build` is a function from the
facts, the observations and the provider's plan to a plan, or `None` for its
error (an observed version that does not parse). A diagnostic is a code and a
severity; digests are plans. A sort is `Sorted`: the element at a position is the
one that as many others precede, by the relation that the code's comparison is
(`ByMerit`, `ByName`, `ByPhase`). `Fits` is why a Composer whose version does not
parse is the last to be chosen as long as there are requirements of it.

`Analysis` describes the machine by what the executables report: `ObservedDdev`
and `ObservedNative` are the two Inspect functions. `at` goes
`ddev -> native -> composer -> provider -> done`, with a Build at the end of the
second, third (if a Composer is resolved) and fourth; any inspection may fail.

## 3. Runs

| Run | Checks | Shows |
|---|---|---|
| `lock_safety` | ExclusionUnlessMisremoved, OwnerFileInPlace, RecoversOnlyEnded, UnreadableNeedsCrash, NoReappearance, AlwaysReturns | what the lock guarantees with crashes, I/O errors and PID reuse, and that Acquire and Release never wait for anybody (1,778,000 states) |
| `lock_exclusion` | MutualExclusion, violated | finding 1 |
| `writer_safety` | NeverTorn, SuccessSurvives, ImplementsFile | interleaved saves of one file with errors, crashes and power losses between the calls (10,400 states up to symmetry) |
| `sync_safety` | JournalTruth, SuccessIsReal, JournalNeverRefuses, ReportAccounts, OrderWithoutUndo, MutationsJournaledAndTrusted, EffectsFollowJournal, ImplementsRecord, RunEnds, RetryConverges | two plans that replace each other's records, with faults everywhere; every run ends and retries converge (1,270,000 states) |
| `sync_undo_crash` | SuccessIsApplied, violated | finding 2 |
| `cache_safety` | RunsApproved, UnusableNeedsPowerLoss, RacesAgree, ImplementsCache | three commands, two releases, failing calls, kills and power losses everywhere (1,408,000 states up to symmetry) |
| `cache_reuse` | AcquiredIsReused, violated | finding 3 |
| `runner_safety` | ResultIsTheChilds, FirstSignalForwarded, CancellationEnds | every order of the child's end, signals, cancellation, timers and faults (107,000 states) |
| `command_safety` | NumberedInOrder, Framed, AppliedWasApproved, StaleOnlyByRace | all commands with all flags while the project changes, writes fail and signals do not reach the child (302,000 states) |
| `intersection_exact` | NoFalseConflict, ConflictsFound | the loop is exact where every point has neighbours (23,000 states) |
| `constraints_safety` | AtomsMeanVersions, NeverFalseConflict, ConflictsOverlookedInHoles | every atom means what it says; no false conflict; conflicts are overlooked only in holes of the versions (87,000 states) |
| `analysis_safety` | OrderIrrelevant, RequirementsMet, PreparedBeforeUse, TrustNamesComposer, ProviderStable | 396 projects on 30 machines with five sets of options (292,516 states) |

Types are not checked by the runs: `TypeOK` is proved in every module
that states it (`WriterTypeOK` of the writer).

### Bounds

- Lock: three invocations are a dead owner and two recoverers, the smallest
  group in which a recovery can meet another one; a PID each, which foreign
  programs may reuse. `MaxAttempts` is 2 in place of 8, so that the loop is seen
  to run out. Symmetry and liveness do not go together: `MCSpec` starts the
  processes in the order of their numbers and hands out PIDs likewise, which
  removes behaviours that differ in names alone. The run that finds the
  violation uses the code's 8 and symmetry.
- Engine: plan `a` has four actions (a reversible one, a read, a reversible one,
  record_state), so that a failure can leave several completed actions of which
  some are compensated and a compensation can leave a hole before completed
  ones; plan `b` has irreversible actions and record_state, and needs trust that
  overlaps with `a`'s, neither within the other. Two plans suffice for one to
  replace the other's records and come back. Runs are unbounded in number: the
  state of the world is finite, so all histories are explored. The refutation
  uses plan `a` alone.
- Writer: three saves of one file, so that one can rename between the rename and
  the flush of another while a third has succeeded before.
- Cache: three commands are a winner, a loser and one that observes; two
  releases are the newest and an older one that a constraint asks for, with and
  without a minimum PHP version in the official metadata.
- Runner: two signals, since the third meets the channel as the second does;
  exit codes for success and failure.
- Command: two changes of the project, one before and one after a decision, and
  a chunk of output on each stream, so that both goroutines and the command
  meet at the mutex. The three projects of `MCCommand` differ in being blocked
  and in needing approval.
- Constraints: the numbers 0 and 1, so that an increment reaches a number that
  nobody wrote, up to three components alone and two in pairs; the versions
  tried include one beyond every bound, every stability and a qualifier.
- Analysis: a project deviates from a plain one in up to two facets (every pair
  of requirements, policies, preferences and lock states) with and without a
  DDEV configuration; PHP is supported, preferred, legacy, too old, missing or
  unreadable; Composer releases are compatible or not.

### Fairness

- `EnvironmentLock!FairSpec` (and `MCSpec`): weak fairness of each process's own steps: the
  operating system schedules a running process and the code has no wait. Nothing
  makes a process start or crash, or a foreign program come or go.
- `SyncEngine!FairSpec`: weak fairness of the run's own steps.
- `ProcessRunner!FairSpec`: weak fairness of the caller, of each goroutine, of
  the timer and of the kernel's execution of a kill; none of the child (it may
  ignore every signal), of descendants, signals or failures, and none that would
  prefer one ready case of a select.
- `RetrySpec` adds what a retry needs from outside and no code can provide:
  faults cease at some time, and the user applies the plan, with approval, again
  and again (strong fairness, since between two invocations the run is under
  way). `RetryConverges` is to be read as "under these assumptions".

## 4. Findings

1. `MutualExclusion`: `recoverStaleLock` verifies the stale file by a second
   read and removes, one call later, whatever is at the path. Two recoverers
   that have both verified the same stale lock: the first removes it and creates
   its own, the second removes that one and creates its own; both hold the lock.
   `ExclusionUnlessMisremoved` shows that this window is the only way.
2. `SuccessIsApplied`: the compensation takes effect before the journal shows
   it. After a crash or a failed save in between, or a compensation that failed
   half way, the retry skips the undone action and the journal succeeds without
   it. It takes an executor that offers compensations: the engine and its tests
   handle these, no provider offers one today, and `SuccessIsReal` shows that
   actions which cannot be undone are never lost.
3. `AcquiredIsReused`: a synchronization records the release it acquires without
   its minimum PHP version; the next one resolves it with the minimum, compares
   the two in full and fails.

### Other disagreements met while modelling

These follow from one definition each, so that a run would add nothing to
reading it; the models have the code's side of every one.

- A retry after a partial compensation carries an early action out after a
  completed later one, and when it fails, reports an action as both completed
  and not attempted (`PreparedRetry`, `NotAttempted`; without compensation the
  order holds: `OrderWithoutUndo`).
- Offline, `cachedReleaseCompatible` passes over every release without a minimum
  PHP version, which is every release that a synchronization has cached
  (`CachedCompatible`, `Authorize`).
- Whether the release is cached is part of the digest: the retry command that a
  failed synchronization prints is refused once its release is in the cache
  (`Digest`, `StalePlan`).
- After the kill, Wait still waits for the copying of output, which a
  descendant of the child can hold open for any time (`CancellationEnds` names
  this exception).
- A write that was cut off leaves half a line, and the next event joins it with
  the same number (`NotWritten`); when the last events cannot be written, `run`
  exits with 70 and the child's exit code is lost (`Exit`).
- When a signal to the child of `run` fails, there is an `error` event and then
  `completed` with the child's exit, which may be zero: exit codes of the child
  take precedence in the design, but zero means success in it (`ChildEnds`;
  `Framed` names this case).
- The installation of dependencies always requires the network, so no offline
  plan has actions (`CompatibleActions`, `ActionPolicy`; proved as
  `OfflineInstallsNothing`).
- Providers are prepared second, not fifth as the design has it (`Phase`). The
  code's order is the workable one.
- Without a Composer in PATH the native provider is blocked, also when a managed
  one was resolved for it (`ObservedNative`).
- Nothing fills in a Composer's plugin or runtime API version, so requirements
  of `composer-plugin-api` block every plan (`Composer`; proved as
  `PluginApiBlocks`).
- analyze passes neither the provider of the last synchronization nor a default
  to the planner (`Request`).
- A plan for a project without PHP requirement on a DDEV that is not running
  installs with a Composer it does not name (`NeedsManagedComposer`).

## 5. Proofs

All theorems hold for all values of the constants under the assumptions named
in the modules (`LockAssumption`, `SyncAssumption`, `WriterAssumption`,
`CacheAssumption`, `NumbersAssumption`, `SuffixAssumption` and `CasesAssumption`
of `Constraints`, the total order of `Intersection`, `PlannerAssumption`,
`AnalysisAssumption`, and that `None` is none of the values it stands beside), which otherwise only give the constants their
types. Only `AllConflictsFound` has a hypothesis of its own, `Room`. TLC
evaluates the assumptions on every run.

**Lock.** `IInv` = types; creators of files have started (`CreatorsStarted`);
metadata is complete before Acquire returns (`WrittenBeforeHeld`); recovery
looks only at ended processes (`RecoversOnlyEnded`); an owner's file is at the
path unless something was misremoved (`OwnersInPlace`). Exclusion follows from
the last, which is not inductive alone: that a removal does not hit an owner
needs `RecoversOnlyEnded`, and that in turn needs a running process to have a
living PID, for any PID reuse. `FilesHaveCreators` adds what is in a file: who
has not created one has none, and what is at the path is complete unless its
creator is still writing it or ended where nothing could be cleaned up. It makes
`UnreadableNeedsCrash` inductive, and it is why no step but the exclusive open
puts a file at the path (`NoReappearance`). Theorems: `TypeCorrect`, `Exclusion`,
`OwnershipVisible`, `RecoverySound`, `UnreadableLeft`, `NeverReappears`.

**Engine.** `IInv` says what Apply knows at each call: `RunPart` and `LoopPart`
(all actions before the cursor are completed; the one under way is pending; what
is to be undone is completed), `TrustPart` (the missing approvals are still
missing, the record in memory is still the one on disk, and from the loop on the
trust is there), `DraftPart` (the draft is the new or the reopened journal, and
from the first save on the one on disk), `TruthPart`, `SuccessPart`. The truth
of the journal needs the others: Execute leaves completed actions alone because
the draft whose entry it tested is the journal on disk; record_state keeps
earlier record actions true because what is completed is listed. Theorems:
`TypeCorrect`, `JournalTrue`, `MemoryOnDisk`, `NeverRefused`, `MutationOrder`,
`EffectsFollow`, `ApprovalsKept`, `Refinement`, and `SuccessOfIrreversible`: an
action that cannot be undone is never undone (`UndoneReversible`), so a succeeded
journal tells the truth about it; `SuccessWithoutCompensation` is its special
case where nothing is reversible. Two more invariants carry the report.
`ReportPart` follows every action of the plan from the failure to the report: the
list of completed ones is the journal's until the failure, everything before the
cursor is in it, and what this run completed is still to be undone or accounted
for (`ReportComplete`). `OrderPart` says that a journal of irreversible actions
always shows a prefix of its plan completed, which survives `PrepareRetry`
because only the failed action becomes pending again (`InOrder`). `LatestIsOne` (the last of a nonempty set of
positions exists) rests on well-foundedness of `<` from the library.

**Writer.** `IInv` adds to the types that a file which was renamed or is about
to be is whole and flushed (`FlushedWhole`) and that ranks are the order of the
renames; `NeverTorn` alone is not inductive, since Rename must know that its file
is on disk. `SuccessSurvives` needs the order: what is at the path is never
older than what is on disk, nor than the file of a writer about to flush
(`NewerInPlace`), so no flush makes `durable` older. Theorems: `WriterTypeCorrect`, `Whole`,
`Survival`, `Refinement`.

**Intersection.** For any set of versions with a total order and any list of
predicates. `Collected`: every version that satisfies the whole list lies within
the bounds collected so far and is not excluded by them. It is preserved because
a tighter bound still admits whoever satisfies the new predicate
(`TighterLowerKept`, `TighterUpperKept`), and bounds that are found empty admit
nobody (`EmptyHasNoSolution`). `Exact` is the converse: a version within what has
been collected satisfies every predicate so far, because a tightened bound
implies the old one and the new predicate (`TighterLowerExact`,
`TighterUpperExact`). So only bounds that leave something and yet no version can
make the loop overlook a conflict. `Room` excludes that: between, below and above
the versions that predicates can name lies one that they cannot. It is a
hypothesis and no assumption, since real versions lack it in places; the order
of `MCIntersection` has it. Theorems: `TypeCorrect`, `ConflictsReal`,
`AllConflictsFound` (`Room => (Spec => []ConflictsFound)`).

**Constraints.** For all numbers, stabilities and qualifiers, and constraints of
any number of groups. In four steps.

1. `VersionsTotallyOrdered`: `Compare` is a total order of the versions. Of two
   different keys the first place where they differ decides (`LessTotal`, by
   `LeastNatural`), and a key determines its version (`KeyInjective`). This is what
   the loop takes for granted, so the theorems of `IntersectionProofs` are
   instantiated with it (`P`, `Instantiated`), with `Named`, the versions that
   atoms can name, as points (`PredicatesType`).
2. `ConflictsReal`: the invariant is that the pairs of groups before the one in
   the loop have no version in common (`DonePart`). `FirstFacts` says that the
   loops visit the pairs in order, `FalseExcludes` that FALSE for a pair excludes
   it.
3. `OverlookedInHoles`: real versions have room almost everywhere. Beyond the
   highest number there is a version that no atom names (`Beyond`), and between
   two named versions with any other between them there is one too
   (`BetweenNamed`): with a qualifier, directly after one that is not a dev
   version (`Qualified`). What is left are the holes that `Hole` describes, so a
   conflict is overlooked nowhere else.
4. `AtomsRight`: against a dev version only the numbers count (`DevBound`); with
   the lower end, the first version after a prefix says exactly that the prefix
   is shared (`PrefixRange`), alone that it is no larger (`PrefixAbove`); the caret
   increments the first significant number (`CaretSignificant`); and a comparison
   and its opposite are made with one version (`ComparisonsSplit`).

**Cache.** For any number of commands and releases. `IInv` says that an entry is
absent, verified or, after a power loss, without its mode (`EntryPart`), that what
a command is about to promote is verified (`StagingPart`), that what it has seen
is still there (`PresentPart`: power losses, which alone remove entries, end all
commands), and that from the approval on every command knows its release without
a minimum PHP version (`ResolvedPart`), which is why the records of two racing
commands are equal. Theorems: `TypeCorrect`, `ApprovedExecution`,
`UsableBarPowerLoss`, `Agreement`, `Refinement`, and `OfflineMisses`, which proves
one of the disagreements of section 4: as long as synchronizations alone fill
the cache, an offline resolution finds nothing in it.

**Runner.** For any exit codes, signals and combination of faults. A child exists
exactly from Start on (`ChildFollowsCall`) and the waiting goroutine answers only
for one it has reaped (`AnswerIsReaped`); every way out of Run that has started a
child passes through that answer, so its status is real (`RealStatus`). The
answer says "exit" exactly for a failing status, hence Output's error does too.
`FirstInChannel`: until the context ends, the channel of one holds the first
signal that arrived; `ForwardsCause`: a caller that forwards on the context's
account forwards its cause. Together they give `FirstForwarded`. Theorems:
`TypeCorrect`, `RealStatus`, `FirstForwarded`.

**Command.** For any projects, plans, edits of the project at any moment and
chunks of output. `NumberPart`: one writer holds a number, and the last number is
how many events were written whole, cut-off ones in between or not (`Numbered`;
the cardinalities grow by one per whole event). `WriterPart`, `ExitPart` and
`QueuePart` say what each writer is about to write and where errors and the exit
of the child are decided; `FramePart` follows the wire up to the last event
(`Framing`): an error is written exactly if the command, not its child, fails or a
signal to the child does, the exit is the child's whenever one was started, and
nothing follows `completed`. `AnalysisPart` and `ApprovalPart` keep an approval
with the digest it was given for until the next question is asked, through the
second Sync; hence `Approved`. `CurrentPart` says that what a use case has read is
still the project while nothing has changed since it began; hence
`StaleByRaceOnly`. Theorems: `TypeCorrect`, `Numbered`, `Framing`, `Approved`,
`StaleByRaceOnly`.

**Analysis.** For any facts of a project, machines, releases and options. The
steps are few and the work is in what Build returns, from the bottom up.

1. `SortedRight`: if a relation is a strict total order of a finite set, `Sorted`
   lists that set, each element once and in this order. Fewer elements come
   before an earlier one (`BeforeGrows`), so counting them is an injection into as
   many positions as there are elements, and by the pigeonhole principle every
   position is taken (`PositionTaken`). A definition by recursion would have
   needed an induction over data.
2. `MeritOrders`, `CandidatesRight` and `PhasesOrder`: what Build sorts is ordered
   in this way, and nothing depends on the order it was given in (`BuildTurned`).
3. `PhpResolved`, `ComposerResolved`, `PluginBlocks`: what is left when no
   requirement blocks. `BuildCases` and `PlanWithActions`: a plan has actions only
   then, and they are those of `ActionsRight`, in the order `Precedes`, with the
   preferred Composer for the installation.
4. `SelectionKept`: who was selected still is when it gets a further Composer. Wishes
   are as before, its score is no lower (`ChoiceKept`, `ByStatus`, `GoodTotal`), and
   the other provider has not changed.

`IInv`: what Inspect returned is well-formed, one observation of each provider
with one Composer of each source and none with a plugin API, none managed before
`ResolveComposer` (`ObservedPart`); the plan is always Build of what has been
observed, and the provider's actions come last (`PlanPart`). The properties follow
from `PlanPart` and the lemmas about Build; `ProviderStable` needs both sides of
the two steps that build again. Theorems: `TypeCorrect`, `OrderDoesNotMatter`,
`RequirementsSatisfied`, `PreparationFirst`, `TrustForExecuted`, `ProviderKept`,
and two of the disagreements of section 4: `OfflineInstallsNothing` and
`PluginApiBlocks`.

**Model-checked only.** `AlwaysReturns`, `RunEnds`, `RetryConverges` and
`CancellationEnds` are liveness properties under fairness, which the prover does
not reach. Every other property of the passing runs is stated by a theorem.

## 6. Plan

The modules planned at the outset are there; `Command` took the place of a
composition of several applying processes, because what may change between
analysis and application is the project, whoever changes it, and `Analysis` that
of a purely functional model of planning. What remains, in this order:

1. The directories that `WriteJSON` creates, as part of `AtomicWriter`.
2. The text of constraints (groups and atoms) and the merge of a child's
   environment.

## 7. What is not modelled

Discovery, configuration, frameworks, Composer metadata parsing and redaction
read, translate and format text and keep no state; a model of them would restate
them. Of the providers only what Inspect reports and Plan is modelled, not the
parsing of what `php`, `composer` and `ddev` print; their Apply refuses every
action today. `cache/policy.go` and `composer/selection.go` are used by their
own tests only. Left out of modelled components: the parsing of flags, the text
of human output, LookPath and the environment of a child, the warning about
legacy Laravel versions, the encoding of digests (equal digests are taken to be
equal plans), sizes and timestamps of records. Drift of the environment caused
by other programs while a journal says "succeeded" is outside the engine: the
providers' next observation changes the plan and its digest.
