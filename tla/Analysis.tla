------------------------------- MODULE Analysis -------------------------------
(* Application.analyze: inspect the providers, build a plan, resolve a       *)
(* managed Composer for it, build again, ask the provider for its actions,   *)
(* and build a last time. The machine is described by what its executables   *)
(* report when they are inspected.                                           *)
EXTENDS Planner

CONSTANTS
    Projects,   \* bound: facts of projects
    Requests,   \* bound: options of the command
    Natives,    \* bound: what is installed natively
    Ddevs,      \* bound: states of DDEV
    Releases    \* bound: versions of Composer that can be had

ASSUME AnalysisAssumption ==
    /\ Projects \subseteq ProjectFacts
    /\ Requests \subseteq [operation : STRING, offline : BOOLEAN,
                           frozen : BOOLEAN, provider : {None} \cup STRING]
    /\ Natives \subseteq [php : Reported, ext : Reported \cup {Unversioned},
                          composer : Reported]
    /\ Ddevs \subseteq [installed : BOOLEAN, configured : BOOLEAN,
                        status : {"running", "stopped", "other"},
                        php : Reported, ext : Reported \cup {Unversioned},
                        composer : Reported]
    /\ Releases \subseteq Versions

VARIABLES
    facts,        \* ProjectFacts, as discovered
    options,      \* operation, offline, frozen, provider
    machine,      \* what there is of native and ddev
    at,           \* the next step, or "done", "failed"
    observations,
    providerPlan,
    plan,         \* None before the first one
    release       \* the managed Composer that was resolved
vars == <<facts, options, machine, at, observations, providerPlan, plan, release>>

\* .ddev/config.yaml marks the project, whether or not ddev is installed.
Consistent(f, m) == "ddev" \in ToSet(f.markers) <=> m.ddev.configured

Init ==
    /\ facts \in Projects /\ options \in Requests
    /\ machine \in [native : Natives, ddev : Ddevs]
    /\ Consistent(facts, machine)
    /\ at = "ddev" /\ observations = <<>> /\ providerPlan = NoPlan
    /\ plan = None /\ release = None

Composer(version, source) ==
    [version |-> version, source |-> source, cached |-> FALSE,
     pluginApi |-> None]
ComposerOf(version, source) ==
    IF version = None THEN <<>> ELSE <<Composer(version, source)>>

Observation(name) ==
    [provider |-> name, available |-> TRUE, state |-> None, installs |-> {},
     php |-> None, ext |-> None, composer |-> <<>>, diagnostics |-> {}]

\* ddev: inside a running project everything is asked, of a stopped one the
\* configured PHP version is all that is known.
ObservedDdev(ddev) ==
    LET basic == [Observation("ddev") EXCEPT !.installs = {"php", "ext"}] IN
    CASE ~ddev.installed ->
           [Observation("ddev") EXCEPT !.available = FALSE,
               !.state = "unavailable", !.diagnostics = {Warning("not_found")}]
      [] ddev.installed /\ ~ddev.configured ->
           [basic EXCEPT !.state = "unconfigured",
               !.diagnostics = {Warning("config_missing")}]
      [] ddev.installed /\ ddev.configured /\ ddev.status = "running" ->
           [basic EXCEPT !.state = "running", !.php = ddev.php,
               !.ext = ddev.ext,
               !.composer = ComposerOf(ddev.composer, "provider")]
      [] ddev.installed /\ ddev.configured /\ ddev.status = "stopped" ->
           [basic EXCEPT !.state = "stopped", !.php = ddev.php,
               !.diagnostics = {Warning("stopped")}]
      [] ddev.installed /\ ddev.configured /\ ddev.status = "other" ->
           [basic EXCEPT !.state = "degraded", !.php = ddev.php,
               !.diagnostics = {Error("state_unsupported")}]

\* native: what is missing from PATH is an error of its observation.
ObservedNative(native) ==
    [Observation("native") EXCEPT
        !.php = native.php, !.ext = native.ext,
        !.composer = ComposerOf(native.composer, "system"),
        !.diagnostics =
            (IF native.php = None THEN {Error("php_not_found")} ELSE {})
            \cup (IF native.composer = None
                    THEN {Error("composer_not_found")} ELSE {})]

\* What analyze asks of Build: it knows of no earlier or default provider.
Request(observed, planned) ==
    [facts |-> facts, options |-> options, provider |-> options.provider,
     previous |-> None, default |-> None, observations |-> observed,
     providerPlan |-> planned]

\* An error of Build ends the analysis.
Rebuilt(observed, planned, next) ==
    /\ plan' = Build(Request(observed, planned))
    /\ at' = IF plan' = None THEN "failed" ELSE next

InspectDdev ==
    /\ at = "ddev" /\ at' = "native"
    /\ observations' = <<ObservedDdev(machine.ddev)>>
    /\ UNCHANGED <<facts, options, machine, providerPlan, plan, release>>

InspectNative ==
    /\ at = "native"
    /\ observations' = Append(observations, ObservedNative(machine.native))
    /\ Rebuilt(observations', NoPlan, "composer")
    /\ UNCHANGED <<facts, options, machine, providerPlan, release>>

Selected == CHOOSE i \in DOMAIN observations :
                observations[i].provider = plan.provider
PhpVersion ==
    IF "php" \in DOMAIN plan.requirements THEN plan.requirements["php"].value
    ELSE None
NeedsManagedComposer ==
    /\ options.operation = "sync" /\ plan.provider # None
    /\ PhpVersion # None
    /\ facts.composerPolicy # None \/ observations[Selected].composer = <<>>

SkipComposer ==
    /\ at = "composer" /\ ~NeedsManagedComposer
    /\ at' = "provider"
    /\ UNCHANGED <<facts, options, machine, observations, providerPlan, plan,
                   release>>

\* Manager.Resolve and Observation (module ComposerCache): a release that the
\* configuration allows, offline only one that is in the cache.
Allowed ==
    CASE facts.composerPolicy = None -> Releases
      [] facts.composerPolicy = Invalid -> {}
      [] OTHER -> facts.composerPolicy \cap Releases
ResolveComposer ==
    /\ at = "composer" /\ NeedsManagedComposer
    /\ \E version \in Allowed, cached \in BOOLEAN :
        /\ options.offline => cached
        /\ release' = [Composer(version, "managed") EXCEPT !.cached = cached]
    /\ observations' = [observations EXCEPT
                            ![Selected].composer = Append(@, release')]
    /\ Rebuilt(observations', NoPlan, "provider")
    /\ UNCHANGED <<facts, options, machine, providerPlan>>

\* ddev.Plan; the native provider has no actions.
DdevActions(state) ==
    LET start == Action("prepare_provider", "start", "provider_mutation",
                        "required") IN
    CASE state = "unconfigured" ->
           <<Action("prepare_provider", "configure", "project_mutation", "none"),
             start>>
      [] state = "stopped" -> <<start>>
      [] OTHER -> <<>>
ProviderPlan(name, state) ==
    IF name = "ddev" /\ state = "unconfigured" /\ options.frozen
      THEN [provider |-> name, actions |-> <<>>,
            diagnostics |-> {Error("config_frozen")}]
    ELSE [provider |-> name, diagnostics |-> {},
          actions |-> IF name = "ddev" THEN DdevActions(state) ELSE <<>>]

PlanProvider ==
    /\ at = "provider" /\ options.operation # "doctor" /\ plan.provider # None
    /\ providerPlan' = ProviderPlan(plan.provider, observations[Selected].state)
    /\ Rebuilt(observations, providerPlan', "done")
    /\ UNCHANGED <<facts, options, machine, observations, release>>

SkipProvider ==
    /\ at = "provider" /\ (options.operation = "doctor" \/ plan.provider = None)
    /\ at' = "done"
    /\ UNCHANGED <<facts, options, machine, observations, providerPlan, plan,
                   release>>

\* Child processes, files and the network fail.
Fail ==
    /\ at \in {"ddev", "native"} \/ (at = "composer" /\ NeedsManagedComposer)
    /\ at' = "failed" /\ plan' = None
    /\ UNCHANGED <<facts, options, machine, observations, providerPlan, release>>

Next ==
    InspectDdev \/ InspectNative \/ SkipComposer \/ ResolveComposer
    \/ PlanProvider \/ SkipProvider \/ Fail
Spec == Init /\ [][Next]_vars
-----------------------------------------------------------------------------
(* Properties.                                                               *)

TypeOK ==
    /\ at \in {"ddev", "native", "composer", "provider", "done", "failed"}
    /\ Len(observations) <= 2
    /\ plan # None =>
        /\ plan.provider \in {None} \cup ToSet(Providers)
        /\ \A i \in DOMAIN plan.actions : plan.actions[i].after \subseteq 1 .. i - 1
    /\ at \in {"composer", "provider", "done"} => plan # None

Concluded == at = "done" /\ plan.actions # <<>>
Installation ==
    plan.actions[CHOOSE i \in DOMAIN plan.actions :
                    plan.actions[i].kind = "install_dependencies"]

\* analyze builds the plan up to three times, with ever more observations: the
\* provider whose actions and Composer were asked for stays the selected one.
ProviderStable ==
    [][plan # None /\ plan.provider # None
        => plan' = None \/ plan'.provider = plan.provider]_vars

\* Build is a function of what was observed, not of the order in which it was:
\* whoever approves a digest approves every run that finds the same.
OrderIrrelevant ==
    plan # None =>
        LET turned == [i \in DOMAIN observations |->
                [Reverse(observations)[i] EXCEPT !.composer = Reverse(@)]]
        IN Build(Request(turned, providerPlan)) = plan

\* A plan with actions ends with a runtime, and executes a Composer, that every
\* source of requirements accepts and no conflict names.
RequirementsMet ==
    LET Meets(name, version) ==
            \A r \in Group(facts, name) :
                IF r.conflict THEN version \notin r.allows
                ELSE version \in r.allows
    IN Concluded =>
        /\ Group(facts, "php") # {} =>
            /\ PhpVersion # None
            /\ Meets("php", PhpVersion)
        /\ Group(facts, "composer") # {} =>
            /\ Installation.step # None
            /\ Meets("composer", Installation.step.version)

\* What prepares something precedes what needs it: the configuration before the
\* start, the provider before its runtime and extensions, everything before the
\* installation, which is verified before it is recorded.
PreparedBeforeUse ==
    LET Needs(later, earlier) ==
            \/ /\ later.kind = "prepare_provider" /\ later.step = "start"
               /\ earlier.kind = "prepare_provider"
               /\ earlier.step = "configure"
            \/ /\ later.kind \in {"prepare_runtime", "prepare_extension"}
               /\ earlier.kind = "prepare_provider"
            \/ /\ later.kind = "prepare_extension"
               /\ earlier.kind = "prepare_runtime"
            \/ /\ later.kind = "install_dependencies"
               /\ earlier.kind \in {"prepare_provider", "prepare_runtime",
                                    "prepare_extension", "prepare_composer"}
            \/ /\ later.kind = "verify_platform"
               /\ earlier.kind = "install_dependencies"
            \/ /\ later.kind = "record_state"
               /\ earlier.kind = "verify_platform"
    IN at = "done" => \A i, j \in DOMAIN plan.actions :
            Needs(plan.actions[i], plan.actions[j]) => j < i

\* The fingerprint that --trust approves is of the Composer that will execute
\* the plugins and scripts, not of one that was there before.
TrustNamesComposer ==
    Concluded => \A t \in plan.trust : t.fingerprint = Installation.step

================================================================================
