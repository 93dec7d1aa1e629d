-------------------------------- MODULE Planner --------------------------------
(* internal/plan: from the facts of a project and the observations of the    *)
(* providers to a plan (Build). Versions are numbers, a constraint is the    *)
(* set of versions it allows (module Constraints has the parsing and the     *)
(* intersection), the digest is the plan itself without its wording.         *)
EXTENDS Integers, FiniteSets, SequencesExt

CONSTANTS
    None,        \* nothing set, found or selected
    Invalid,     \* a constraint that does not parse
    Odd,         \* a version that does not parse, e.g. "8.3.6-1ubuntu2"
    Unversioned, \* an extension that reports no version
    Versions,    \* all that parse; "*" allows them all
    Supported,   \* PHP versions that a provider may be asked for, best first
    Legacy       \* PHP versions that work with a warning

ASSUME PlannerAssumption ==
    /\ Versions \subseteq Int
    /\ Supported \in Seq(Versions) /\ Legacy \subseteq Versions
    /\ {None, Invalid, Odd, Unversioned} \cap Versions = {}
    /\ None \notin {Invalid, Odd, Unversioned}

\* One requirement name of each kind.
Names == {"php", "ext", "composer", "plugin"}
Providers == <<"ddev", "native">>  \* in the order of their names

\* What Build is given (internal/model).
Reported == Versions \cup {None, Odd}
Constraint == {None, Invalid} \cup SUBSET Versions
Diagnostic == [code : STRING, severity : {"error", "warning"}]
ProviderDiagnostic ==
    [code : {"not_found", "config_missing", "stopped", "state_unsupported",
             "php_not_found", "composer_not_found"},
     severity : {"error", "warning"}]
ProjectFacts ==
    [requires : [Names -> SUBSET [allows : {Invalid} \cup SUBSET Versions,
                                  conflict : BOOLEAN]],
     versionFile : Constraint, composerPolicy : Constraint,
     optional : BOOLEAN, lockMissing : BOOLEAN,
     allowed : SUBSET STRING, denied : SUBSET STRING,
     preferred : Seq(STRING), markers : Seq(STRING),
     executes : SUBSET {"plugins", "scripts"},
     diagnostics : SUBSET Diagnostic]
ComposerObservation ==
    [version : Reported \ {None}, source : {"managed", "provider", "system"},
     cached : BOOLEAN, pluginApi : Reported]
ProviderObservation ==
    [provider : ToSet(Providers), available : BOOLEAN,
     state : {None, "running", "stopped", "unconfigured", "unavailable",
              "degraded"},
     installs : SUBSET {"php", "ext"}, php : Reported,
     ext : Reported \cup {Unversioned}, composer : Seq(ComposerObservation),
     diagnostics : SUBSET ProviderDiagnostic]

ASSUME NoneAssumption ==
    /\ None \notin ToSet(Providers) /\ None \notin ComposerObservation
    /\ None \notin ProviderObservation

Error(code) == [code |-> code, severity |-> "error"]
Warning(code) == [code |-> code, severity |-> "warning"]
Blocking(diagnostics) == \E d \in diagnostics : d.severity = "error"

\* The elements of a finite set, by a relation that orders them.
Before(S, before, a) == {b \in S \ {a} : <<b, a>> \in before}
Sorted(S, before) ==
    [i \in 1 .. Cardinality(S) |->
        CHOOSE a \in S : Cardinality(Before(S, before, a)) = i - 1]
\* The first element of a sequence that is chosen.
First(s, chosen) == s[CHOOSE i \in chosen : \A j \in chosen : i <= j]

-----------------------------------------------------------------------------
(* Requirements.                                                             *)

Positive(allows) == [allows |-> allows, conflict |-> FALSE]
Given(allows) == IF allows = None THEN {} ELSE {Positive(allows)}
\* groupRequirements: the metadata, .php-version and the configuration.
Group(facts, name) ==
    facts.requires[name]
    \cup (CASE name = "php" -> Given(facts.versionFile)
            [] name = "composer" -> Given(facts.composerPolicy)
            [] name = "ext" -> IF facts.optional THEN Given(Versions) ELSE {}
            [] name = "plugin" -> {})
Groups(facts) == {name \in Names : Group(facts, name) # {}}
Optional(facts, name) == name = "ext" /\ facts.requires[name] = {}

\* Mutant: conflicts are requirements like the others.
SatisfiedAll(group, version) == \A r \in group : version \in r.allows
Satisfied(group, version) ==
    \A r \in group : (version \in r.allows) # r.conflict
Unparsable(group) == \E r \in group : r.allows = Invalid
Conflicting(group) ==
    \E r, s \in group :
        ~r.conflict /\ ~s.conflict /\ r # s /\ r.allows \cap s.allows = {}

ObservedValue(name, group, observation) ==
    CASE observation = None -> None
      [] observation # None /\ name = "php" -> observation.php
      [] observation # None /\ name = "ext" ->
           IF observation.ext # Unversioned THEN observation.ext
           ELSE IF group = {Positive(Versions)}
             THEN CHOOSE v \in Versions : TRUE
           ELSE None
      [] observation # None /\ name \in {"composer", "plugin"} ->
           IF observation.composer = <<>> THEN None
           ELSE IF name = "composer" THEN observation.composer[1].version
           ELSE observation.composer[1].pluginApi

\* preparationTarget: what the provider could be asked to install.
PreparationTarget(name, group, observation) ==
    IF observation = None \/ name \notin observation.installs THEN None
    ELSE IF name = "ext" THEN Unversioned
    ELSE LET fitting == {i \in DOMAIN Supported : Satisfied(group, Supported[i])}
         IN IF fitting = {} THEN None ELSE First(Supported, fitting)

\* One requirement: its status and the value that was selected for it.
Resolution(facts, name, observation) ==
    LET group == Group(facts, name)
        value == ObservedValue(name, group, observation)
        target == PreparationTarget(name, group, observation)
        Is(status, selected) == [status |-> status, value |-> selected]
    IN CASE Unparsable(group) -> Is("invalid", None)
         [] ~Unparsable(group) /\ Conflicting(group) -> Is("conflict", None)
         [] OTHER ->
              IF value # None /\ Satisfied(group, value)
                THEN Is(IF name = "php" /\ value \in Legacy THEN "legacy"
                        ELSE "satisfied", value)
              ELSE IF Optional(facts, name) THEN Is("optional_missing", value)
              ELSE IF target # None THEN Is("action_required", target)
              ELSE IF value = None THEN Is("unavailable", None)
              ELSE Is("incompatible", value)

\* ResolutionBlocked, for four reasons.
BlockedStatus == {"invalid", "conflict", "unavailable", "incompatible"}
Resolutions(facts, observation) ==
    [name \in Groups(facts) |-> Resolution(facts, name, observation)]
RequirementDiagnostics(resolutions) ==
    {Error(resolutions[n].status) : n \in
        {n \in DOMAIN resolutions : resolutions[n].status \in BlockedStatus}}
    \cup {Warning(resolutions[n].status) : n \in
        {n \in DOMAIN resolutions :
            resolutions[n].status \in {"optional_missing", "legacy"}}}

\* An observed version that does not parse is an error of Build, if anything
\* is required of it.
Fails(facts, observation) ==
    \E name \in Groups(facts) :
        LET group == Group(facts, name) IN
        /\ ObservedValue(name, group, observation) = Odd
        /\ ~Unparsable(group) /\ ~Conflicting(group)

-----------------------------------------------------------------------------
(* Providers.                                                                *)

SourcePriority(source) ==
    CASE source = "managed" -> 1 [] source = "provider" -> 2
      [] source = "system" -> 3
\* Mutant: a managed Composer whether or not it is compatible.
BetterManaged(facts, c, d) == SourcePriority(c.source) < SourcePriority(d.source)
\* composerObservationCompatible.
Fits(facts, composer) ==
    LET group == Group(facts, "composer") IN
    group = {} \/ /\ composer.version # Odd /\ ~Unparsable(group)
                  /\ Satisfied(group, composer.version)
\* Compatible before managed before new.
Better(facts, c, d) ==
    \/ Fits(facts, c) /\ ~Fits(facts, d)
    \/ /\ Fits(facts, c) <=> Fits(facts, d)
       /\ \/ SourcePriority(c.source) < SourcePriority(d.source)
          \/ c.source = d.source /\ c.version > d.version
\* Mutant: the first Composer that was found.
NormalizeNot(facts, observation) == observation
\* normalizeProviderObservation: the Composer to use comes first.
ByMerit(facts, composers) ==
    {pair \in composers \X composers :
        pair[1] # pair[2] /\ Better(facts, pair[1], pair[2])}
Normalize(facts, observation) ==
    [observation EXCEPT !.composer =
        Sorted(ToSet(@), ByMerit(facts, ToSet(@)))]

\* Of what is available and permitted, in the order of the names.
Admitted(request) ==
    LET facts == request.facts IN
    {Normalize(facts, o) : o \in {o \in ToSet(request.observations) :
        /\ o.available
        /\ o.provider \notin facts.denied
        /\ facts.allowed # {} => o.provider \in facts.allowed}}
ByName(observations) ==
    {pair \in observations \X observations :
        pair[1].provider = "ddev" /\ pair[2].provider = "native"}
Candidates(request) == Sorted(Admitted(request), ByName(Admitted(request)))

Readiness(state) ==
    CASE state \in {None, "running"} -> 2 [] state = "stopped" -> 1
      [] OTHER -> 0
\* Two points for what is there, one for what can be prepared.
Score(statuses) ==
    LET Of(set) == Cardinality({n \in DOMAIN statuses : statuses[n] \in set}) IN
    2 * Of({"satisfied", "legacy", "optional_missing"}) + Of({"action_required"})
Statuses(resolutions) == [n \in DOMAIN resolutions |-> resolutions[n].status]
Eligible(facts, observation) ==
    /\ ~Fails(facts, observation)
    /\ ~Blocking(RequirementDiagnostics(Resolutions(facts, observation)))
    /\ ~Blocking(observation.diagnostics)

\* bestCompatibleProvider: no other has its score and its readiness.
Rated(facts, observation) ==
    [score |-> Score(Statuses(Resolutions(facts, observation))),
     readiness |-> Readiness(observation.state)]
AsGood(rated, other) ==
    \/ rated.score > other.score
    \/ rated.score = other.score /\ rated.readiness >= other.readiness
Best(facts, candidates) ==
    LET able == {o \in ToSet(candidates) : Eligible(facts, o)} IN
    {o \in able : \A p \in able \ {o} : ~AsGood(Rated(facts, p), Rated(facts, o))}

\* selectProvider: whose wish counts first, then the best, then the only one.
Wishes(request) ==
    LET For(reason, names) ==
            [i \in 1 .. Len(names) |-> [name |-> names[i], reason |-> reason]]
        One(name) == IF name = None THEN <<>> ELSE <<name>>
    IN IF request.provider # None THEN For("explicit", One(request.provider))
       ELSE For("configuration", request.facts.preferred)
            \o For("provider_marker", request.facts.markers)
            \o For("workspace_state", One(request.previous))
            \o For("user_default", One(request.default))

Select(request, candidates) ==
    LET named == {o.provider : o \in ToSet(candidates)}
        wishes == Wishes(request)
        granted == {i \in DOMAIN wishes : wishes[i].name \in named}
        best == Best(request.facts, candidates)
        Selected(o, reason) ==
            [observation |-> o, reason |-> reason, diagnostics |-> {}]
        Refused(code) ==
            [observation |-> None, reason |-> None,
             diagnostics |-> {Error(code)}]
    IN IF granted # {}
         THEN LET wish == First(wishes, granted) IN
              Selected(CHOOSE o \in ToSet(candidates) : o.provider = wish.name,
                       wish.reason)
       ELSE IF request.provider # None \/ candidates = <<>>
         THEN Refused("provider_unavailable")
       ELSE IF Len(candidates) = 1 THEN Selected(candidates[1], "only_available")
       ELSE IF best = {} THEN Refused("provider_ambiguous")
       ELSE Selected(CHOOSE o \in best : TRUE, "best_compatible")
SelectProvider(request) == Select(request, Candidates(request))

-----------------------------------------------------------------------------
(* Actions.                                                                  *)

Trusted(facts, composer) ==
    {[class |-> c, fingerprint |-> composer] : c \in facts.executes}
\* Mutant: the fingerprint is of the Composer that was there before.
TrustFirst(facts, observation) ==
    Trusted(facts, IF observation.composer = <<>> THEN None
                   ELSE observation.composer[Len(observation.composer)])
\* composerTrustRequirements: plugins and scripts, with that Composer.
Trust(facts, observation) ==
    Trusted(facts, IF observation.composer = <<>> THEN None
                   ELSE observation.composer[1])
ActionTrust(trust) ==
    LET classes == {t.class : t \in trust} IN
    IF "plugins" \in classes THEN "plugins"
    ELSE IF "scripts" \in classes THEN "scripts" ELSE None

Action(kind, step, effect, network) ==
    [kind |-> kind, step |-> step, effect |-> effect, network |-> network,
     trust |-> None, after |-> {}]
\* Mutant: extensions are installed into a provider that is not there yet.
PhaseLate(kind) ==
    CASE kind = "prepare_extension" -> 1 [] kind = "prepare_provider" -> 2
      [] kind = "prepare_runtime" -> 3 [] kind = "prepare_composer" -> 5
      [] kind = "install_dependencies" -> 6 [] kind = "verify_platform" -> 7
      [] kind = "record_state" -> 8
Phase(kind) ==
    CASE kind = "prepare_provider" -> 2 [] kind = "prepare_runtime" -> 3
      [] kind = "prepare_extension" -> 4 [] kind = "prepare_composer" -> 5
      [] kind = "install_dependencies" -> 6 [] kind = "verify_platform" -> 7
      [] kind = "record_state" -> 8
\* actionInputKey: inputs are sorted by name, and config_path, which only the
\* creation of a configuration has, comes before operation.
InputKey(action) ==
    IF action.kind = "prepare_provider" /\ action.step = "configure" THEN 1 ELSE 2

ByPhase(actions) ==
    {pair \in actions \X actions :
        \/ Phase(pair[1].kind) < Phase(pair[2].kind)
        \/ /\ Phase(pair[1].kind) = Phase(pair[2].kind)
           /\ InputKey(pair[1]) < InputKey(pair[2])}

CompatibleActions(plan, observation, providerActions) ==
    LET composer == IF observation.composer = <<>> THEN None
                    ELSE observation.composer[1]
        required == {n \in DOMAIN plan.requirements :
                        plan.requirements[n].status = "action_required"}
        prepared ==
            {Action("prepare_runtime", plan.requirements[n].value,
                    "provider_mutation", "required") : n \in required \cap {"php"}}
            \cup {Action("prepare_extension", plan.requirements[n].value,
                    "provider_mutation", "required") : n \in required \cap {"ext"}}
            \cup (IF composer # None /\ composer.source = "managed"
                    THEN {Action("prepare_composer", composer, "cache_mutation",
                            IF composer.cached THEN "none" ELSE "required")}
                    ELSE {})
        listed == ToSet(providerActions) \cup prepared \cup
            {[Action("install_dependencies", composer,
                     "project_code_execution", "required")
                  EXCEPT !.trust = ActionTrust(plan.trust)],
             Action("verify_platform", None, "read", "none"),
             Action("record_state", None, "local_state_mutation", "none")}
        sorted == Sorted(listed, ByPhase(listed))
    IN [i \in DOMAIN sorted |-> [sorted[i] EXCEPT !.after = {i - 1} \ {0}]]

ActionPolicy(options, actions, facts) ==
    (IF options.frozen /\ facts.lockMissing
       THEN {Error("frozen_lock_required")} ELSE {})
    \cup (IF options.offline /\ \E i \in DOMAIN actions :
                                    actions[i].network # "none"
            THEN {Error("offline_network_required")} ELSE {})

\* ambiguousRequirements: without a provider only what is wrong in itself.
WithoutProvider(resolutions) ==
    [name \in DOMAIN resolutions |->
        IF resolutions[name].status \in {"invalid", "conflict"}
          THEN resolutions[name]
          ELSE [status |-> "ambiguous", value |-> None]]

NoPlan == [provider |-> None, actions |-> <<>>, diagnostics |-> {}]

\* The plan without its actions.
Draft(facts, selection, providerPlan) ==
    LET observation == selection.observation
        resolved == Resolutions(facts, observation)
        requirements == IF Error("provider_ambiguous") \in selection.diagnostics
                          THEN WithoutProvider(resolved) ELSE resolved
    IN [provider |-> IF observation = None THEN None ELSE observation.provider,
        reason |-> selection.reason,
        requirements |-> requirements,
        trust |-> IF observation = None THEN {} ELSE Trust(facts, observation),
        actions |-> <<>>,
        diagnostics |->
            facts.diagnostics \cup selection.diagnostics
            \cup providerPlan.diagnostics
            \cup RequirementDiagnostics(requirements)
            \cup (IF observation = None THEN {} ELSE observation.diagnostics)]

Complete(plan, actions, policy) ==
    [plan EXCEPT !.diagnostics = @ \cup policy,
                 !.actions = IF Blocking(policy) THEN <<>> ELSE actions]
WithActions(request, plan, actions) ==
    Complete(plan, actions, ActionPolicy(request.options, actions, request.facts))

BuildWith(request, selection, providerPlan, draft) ==
    IF Fails(request.facts, selection.observation) THEN None
    ELSE IF request.options.operation = "doctor"
            \/ selection.observation = None \/ Blocking(draft.diagnostics)
      THEN draft
    ELSE WithActions(request, draft,
            CompatibleActions(draft, selection.observation, providerPlan.actions))
BuildFor(request, selection) ==
    LET providerPlan == IF selection.observation # None
                           /\ request.providerPlan.provider
                                = selection.observation.provider
                          THEN request.providerPlan ELSE NoPlan
    IN BuildWith(request, selection, providerPlan,
                 Draft(request.facts, selection, providerPlan))

\* Build; None stands for its error.
Build(request) == BuildFor(request, SelectProvider(request))
================================================================================
