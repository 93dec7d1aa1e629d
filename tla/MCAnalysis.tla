------------------------------ MODULE MCAnalysis ------------------------------
EXTENDS Analysis

\* Version 4 and 3 are supported, 2 is legacy, 1 is neither.
MCVersions == 1 .. 4
MCSupported == <<4, 3>>
MCLegacy == {2}

Conflict(allows) == [allows |-> allows, conflict |-> TRUE]
PhpRequirements ==
    {{Positive({3, 4})}, {}, {Positive({2, 3}), Conflict({3})},
     {Positive({1, 2}), Positive({3, 4})}, {Positive(Invalid)},
     {Positive({4})}}

Base ==
    [requires |-> [php |-> {Positive({3, 4})}, ext |-> {}, composer |-> {},
                   plugin |-> {}],
     versionFile |-> None, composerPolicy |-> None, optional |-> FALSE,
     allowed |-> {}, denied |-> {}, preferred |-> <<>>, markers |-> <<>>,
     lockMissing |-> FALSE, executes |-> {}, diagnostics |-> {}]

\* Each facet of a project is changed on its own, in every way of interest.
Change(p) ==
    {p}
    \cup {[p EXCEPT !.requires.php = r] : r \in PhpRequirements}
    \cup {[p EXCEPT !.requires.ext = r] : r \in {{Positive(Versions)}, {Positive({3, 4})}}}
    \cup {[p EXCEPT !.requires.composer = r] :
            r \in {{Positive({1, 2})}, {Positive(Versions), Conflict({3})}}}
    \cup {[p EXCEPT !.requires.plugin = {Positive({2})}],
          [p EXCEPT !.versionFile = {3}],
          [p EXCEPT !.composerPolicy = {2, 3}],
          [p EXCEPT !.composerPolicy = Invalid],
          [p EXCEPT !.optional = TRUE],
          [p EXCEPT !.allowed = {"ddev"}],
          [p EXCEPT !.denied = {"ddev"}],
          [p EXCEPT !.preferred = <<"native">>],
          [p EXCEPT !.lockMissing = TRUE],
          [p EXCEPT !.executes = {"plugins", "scripts"}],
          [p EXCEPT !.diagnostics = {Error("metadata")}]}
\* Two facets at a time, with and without a configuration of ddev.
MCProjects ==
    LET changed == UNION {Change(p) : p \in Change(Base)} IN
    changed \cup {[p EXCEPT !.markers = <<"ddev">>] : p \in changed}

Option(operation, offline, frozen, provider) ==
    [operation |-> operation, offline |-> offline, frozen |-> frozen,
     provider |-> provider]
MCRequests ==
    {Option("sync", FALSE, FALSE, None), Option("sync", TRUE, FALSE, None),
     Option("sync", FALSE, TRUE, None), Option("sync", FALSE, FALSE, "ddev"),
     Option("doctor", FALSE, FALSE, None)}

MCNatives ==
    {[php |-> php, ext |-> ext, composer |-> composer] :
        <<php, ext, composer>> \in
            {<<None, None, None>>, <<3, Unversioned, 2>>, <<4, 3, 3>>,
             <<4, None, None>>, <<Odd, Odd, 1>>, <<4, 3, Odd>>}}

Ddev(installed, configured, status, php, ext, composer) ==
    [installed |-> installed, configured |-> configured, status |-> status,
     php |-> php, ext |-> ext, composer |-> composer]
MCDdevs ==
    {Ddev(FALSE, TRUE, "stopped", None, None, None),
     Ddev(FALSE, FALSE, "stopped", None, None, None),
     Ddev(TRUE, FALSE, "stopped", None, None, None),
     Ddev(TRUE, TRUE, "stopped", 3, None, None),
     Ddev(TRUE, TRUE, "other", 3, None, None),
     Ddev(TRUE, TRUE, "running", 4, 4, 3)}
================================================================================
