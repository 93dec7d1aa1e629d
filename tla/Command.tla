-------------------------------- MODULE Command --------------------------------
(* One invocation of elefante: Execute and the commands of internal/cli, the *)
(* use cases of internal/app/application.go with AuthorizePlan of            *)
(* internal/security/approval.go, and the exit codes of internal/model. The  *)
(* project may change at any time: other programs, other commands. What      *)
(* SyncEngine and ProcessRunner model in detail is one step or two here.     *)
EXTENDS MachineRenderer

CONSTANTS
    Projects,       \* states of the project and of the machine around it
    BlockedBy,      \* code of the first blocking diagnostic of each, or None
    NeedsApproval,  \* whether the plan of each has a change or needs trust
    MaxEdits,       \* bound: changes of the project
    Chunks          \* bound: chunks a child writes to each stream

Codes == [usage |-> 2, discovery |-> 3, requirements |-> 4, provider |-> 5,
          approval |-> 6, mismatch |-> 7, network |-> 8, sync |-> 10,
          artifact |-> 11, state |-> 12, internal |-> 70]

ASSUME ProjectsAssumption ==
    /\ None \notin Projects
    /\ BlockedBy \in [Projects -> DOMAIN Codes \cup {None}]
    /\ NeedsApproval \in [Projects -> BOOLEAN]
ExitCodes == {Codes[code] : code \in DOMAIN Codes} \cup {0, 1}
Exits == [origin : {"elefante", "child"}, code : ExitCodes]

ASSUME NoneAssumption == None \notin DOMAIN Codes \cup Exits
ASSUME BoundsAssumption == MaxEdits \in Nat /\ Chunks \in Nat

VARIABLES
    project, edits,  \* what discovery and the providers would find now
    invocation,      \* the command and its flags
    at, queue, next, \* control: where, events to emit, and where after them
    analysis,        \* of this use case: what each phase of it has read
    shown,           \* digest of the plan the user has been asked about
    error,           \* error the command will end with
    approved,        \* ApprovedPlan of the request; set by the prompt too
    second,          \* Sync is called a second time, after the prompt
    current,         \* history: no change since this use case began
    applied,         \* history: digest handed to the engine, or None
    child, chunks,   \* the child: whether it runs or has ended, within reach of
                     \* signals or not, and what it has left to write
    childExit,       \* exit of a child that run has started, or None
    exit             \* exit code of elefante, once it has ended
vars == <<rendererVars, project, edits, invocation, at, queue, next, analysis,
          shown, error, approved, second, current, applied, child, chunks,
          childExit, exit>>

Digests == [facts : Projects, observed : Projects, released : Projects]
\* Reviewed earlier: of a project that did not change under the analysis.
Reviewed == {d \in Digests : d.facts = d.observed /\ d.observed = d.released}
NoAnalysis == [facts |-> None, observed |-> None, released |-> None]

\* yes and approve-plan exclude each other; JSON commands never prompt.
Invocations ==
    {i \in [of : {"version", "doctor", "plan", "sync", "run"}, yes : BOOLEAN,
            approve : Reviewed \cup {None}, prompts : BOOLEAN] :
        /\ i.of # "sync" => ~i.yes /\ i.approve = None /\ ~i.prompts
        /\ ~(i.yes /\ i.approve # None)}

Event(type) == [type |-> type, exit |-> None]
Start(events, to) == at' = "emit" /\ queue' = events /\ next' = to

Init ==
    /\ RendererInit
    /\ project \in Projects
    /\ edits = 0
    /\ invocation \in {i \in Invocations : ~(json /\ i.prompts)}
    /\ at = "emit" /\ queue = <<Event("started")>> /\ next = "dispatch"
    /\ analysis = NoAnalysis
    /\ shown = None
    /\ error = None
    /\ approved = invocation.approve
    /\ second = FALSE
    /\ current = TRUE
    /\ applied = None
    /\ child = "none"
    /\ chunks = [s \in {"stdout", "stderr"} |-> Chunks]
    /\ childExit = None
    /\ exit = None

controlVars == <<at, queue, next, error>>
useVars == <<analysis, current>>
approvalVars == <<invocation, shown, approved, second>>
childVars == <<child, chunks, childExit>>
worldVars == <<project, edits>>

-----------------------------------------------------------------------------
(* Control and events.                                                       *)

Go(to) == at' = to /\ UNCHANGED <<queue, next, error>>
Fail(code) == at' = "fail" /\ error' = code /\ UNCHANGED <<queue, next>>

BeginEvent ==
    /\ at = "emit" /\ queue # <<>>
    /\ Emit("main", Head(queue))
    /\ UNCHANGED <<controlVars, useVars, approvalVars, childVars, worldVars,
                   applied, exit>>

EndEvent ==
    /\ Written("main")
    /\ queue' = Tail(queue)
    /\ IF Len(queue) = 1
         THEN /\ at' = next
              /\ exit' = IF next = "ended" THEN Head(queue).exit.code ELSE exit
         ELSE UNCHANGED <<at, exit>>
    /\ UNCHANGED <<next, error, useVars, approvalVars, childVars, worldVars,
                   applied>>

\* An event of Execute that cannot be written ends the program with code 70,
\* one of a command becomes its internal error.
FailEvent ==
    /\ NotWritten("main")
    /\ IF Head(queue).type \in {"started", "error", "completed"}
         THEN /\ at' = "ended" /\ exit' = Codes.internal
              /\ UNCHANGED error
         ELSE /\ at' = "fail" /\ error' = "internal"
              /\ UNCHANGED exit
    /\ queue' = <<>>
    /\ UNCHANGED <<next, useVars, approvalVars, childVars, worldVars, applied>>

\* The exit of a child that run has started overrides the one of the error.
Exit == IF childExit # None THEN childExit
        ELSE [origin |-> "elefante",
              code |-> IF error = None THEN 0 ELSE Codes[error]]
Completed == [type |-> "completed", exit |-> Exit]

Ending(events) ==
    /\ Start(events \o <<Completed>>, "ended")
    /\ UNCHANGED <<error, rendererVars, useVars, approvalVars, childVars,
                   worldVars, applied, exit>>
\* Mutant: a failing command reports nothing but its code.
FailSilently == at = "fail" /\ Ending(<<>>)
ReportFailure == at = "fail" /\ Ending(<<Event("error")>>)
ReportSuccess == at = "succeed" /\ Ending(<<>>)

-----------------------------------------------------------------------------
(* analyze: discovery, inspection, the managed release, the provider's plan. *)

UseUnchanged ==
    UNCHANGED <<rendererVars, childVars, worldVars, applied, exit>>

Dispatch ==
    /\ at = "dispatch"
    /\ IF invocation.of = "version"
         THEN Start(<<Event("result")>>, "succeed") /\ UNCHANGED error
         ELSE Go("discover")
    /\ UNCHANGED <<useVars, approvalVars>> /\ UseUnchanged

\* cobra and the argument check of run refuse the command line.
Misused ==
    /\ at = "dispatch" /\ Fail("usage")
    /\ UNCHANGED <<useVars, approvalVars>> /\ UseUnchanged

Operation == IF invocation.of \in {"plan", "sync"} THEN "sync" ELSE "doctor"

Discover ==
    /\ at = "discover"
    /\ \/ /\ analysis' = [NoAnalysis EXCEPT !.facts = project]
          /\ Go("inspect")
       \/ /\ analysis' = NoAnalysis
          /\ Fail("discovery")
    /\ current' = TRUE
    /\ UNCHANGED approvalVars /\ UseUnchanged

Inspect ==
    /\ at = "inspect"
    /\ \/ /\ analysis' = [analysis EXCEPT !.observed = project]
          /\ Go(IF Operation = "sync" THEN "resolve" ELSE "analyzed")
       \/ analysis' = NoAnalysis /\ Fail("provider")
    /\ UNCHANGED <<current, approvalVars>> /\ UseUnchanged

\* The managed release, the plan of the provider and the last Build.
Resolve ==
    /\ at = "resolve"
    /\ \/ /\ analysis' = [analysis EXCEPT !.released = project]
          /\ Go("analyzed")
       \/ /\ analysis' = NoAnalysis
          /\ \E code \in {"network", "artifact", "provider"} : Fail(code)
    /\ UNCHANGED <<current, approvalVars>> /\ UseUnchanged

Blocked == BlockedBy[analysis.facts]
Rendering ==
    <<Event("fact"), Event("fact")>>
    \o (IF Blocked # None THEN <<Event("diagnostic")>> ELSE <<>>)
    \o <<Event("plan")>>

\* doctor and plan show the analysis and end with its blocking error.
Show ==
    /\ at = "analyzed" /\ invocation.of \in {"doctor", "plan"}
    /\ Start(Rendering, IF Blocked = None THEN "succeed" ELSE "fail")
    /\ error' = Blocked
    /\ UNCHANGED <<useVars, approvalVars>> /\ UseUnchanged

-----------------------------------------------------------------------------
(* sync.                                                                     *)

\* Mutant: a digest approves whatever it is.
RefusalUncompared ==
    IF ~NeedsApproval[analysis.facts] \/ invocation.yes \/ approved # None
      THEN None ELSE "approval"
\* AuthorizePlan: an error, or None.
Refusal ==
    IF approved # None /\ approved # analysis THEN "mismatch"
    ELSE IF ~NeedsApproval[analysis.facts] \/ invocation.yes \/ approved # None
      THEN None
    ELSE "approval"
\* After Sync: the first analysis is shown, the second one when it differs.
SyncReturns(code) ==
    /\ error' = code
    /\ IF ~second \/ analysis # shown
         THEN Start(Rendering, IF code = None THEN "succeed"
                               ELSE IF code = "approval" THEN "ask" ELSE "fail")
         ELSE /\ at' = IF code = None THEN "succeed" ELSE "fail"
              /\ UNCHANGED <<queue, next>>

SyncRefused ==
    /\ at = "analyzed" /\ invocation.of = "sync"
    /\ LET code == IF Blocked # None THEN Blocked ELSE Refusal IN
         code # None /\ SyncReturns(code)
    /\ UNCHANGED <<useVars, approvalVars>> /\ UseUnchanged

\* The engine receives the analysis; see SyncEngine for what it does with it.
Apply ==
    /\ at = "analyzed" /\ invocation.of = "sync"
    /\ Blocked = None /\ Refusal = None
    /\ applied' = analysis
    /\ child' = "running"
    /\ Go("wait")
    /\ UNCHANGED <<rendererVars, chunks, childExit, worldVars, exit, useVars,
                   approvalVars>>

\* The command asks, unless prompts are excluded.
Ask ==
    /\ at = "ask"
    /\ Start(<<Event("approval_required")>>,
             IF invocation.prompts THEN "prompt" ELSE "fail")
    /\ shown' = analysis
    /\ UNCHANGED <<error, useVars, invocation, approved, second>>
    /\ UseUnchanged

Decline ==
    /\ at = "prompt"
    /\ Fail("approval")
    /\ UNCHANGED <<useVars, approvalVars>> /\ UseUnchanged

\* Mutant: the answer approves the plan that is in memory.
ConfirmShown ==
    /\ at = "prompt"
    /\ approved' = analysis /\ second' = TRUE
    /\ at' = "analyzed" /\ error' = None
    /\ current' = TRUE
    /\ UNCHANGED <<queue, next, analysis, invocation, shown>>
    /\ UseUnchanged
\* The digest that was shown is approved, and Sync starts over.
Confirm ==
    /\ at = "prompt"
    /\ approved' = shown /\ second' = TRUE
    /\ at' = "discover" /\ error' = None
    /\ current' = TRUE
    /\ UNCHANGED <<queue, next, analysis, invocation, shown>>
    /\ UseUnchanged

-----------------------------------------------------------------------------
(* run, and the children of run and sync.                                    *)

\* The environment must not be blocked, the provider must know how, and the
\* child must start.
RunRefused ==
    /\ at = "analyzed" /\ invocation.of = "run"
    /\ \/ Blocked # None /\ Fail(Blocked)
       \/ Blocked = None /\ Fail("provider")
    /\ UNCHANGED <<useVars, approvalVars>> /\ UseUnchanged

RunChild ==
    /\ at = "analyzed" /\ invocation.of = "run"
    /\ Blocked = None
    /\ child' = "running"
    /\ Go("wait")
    /\ UNCHANGED <<rendererVars, chunks, childExit, worldVars, applied, exit,
                   useVars, approvalVars>>

\* In JSON the output of a child passes through the renderer.
Streaming(s) == json /\ child = "running" /\ at = "wait" /\ chunks[s] > 0
StreamUnchanged ==
    UNCHANGED <<controlVars, useVars, approvalVars, worldVars, applied, exit,
                childExit>>
BeginChunk ==
    \E s \in DOMAIN chunks :
        /\ Streaming(s) /\ Emit(s, Event(s))
        /\ UNCHANGED <<child, chunks>> /\ StreamUnchanged
EndChunk ==
    \E s \in DOMAIN chunks :
        /\ Written(s)
        /\ chunks' = [chunks EXCEPT ![s] = @ - 1]
        /\ UNCHANGED child /\ StreamUnchanged
\* The copying of this stream ends, and its error with it.
FailChunk ==
    \E s \in DOMAIN chunks :
        /\ NotWritten(s)
        /\ chunks' = [chunks EXCEPT ![s] = 0]
        /\ UNCHANGED child /\ StreamUnchanged

\* os/exec waits for both copies before it returns.
Drained ==
    at = "wait" /\ \A s \in DOMAIN chunks :
        emitting[s] = None /\ (json => chunks[s] = 0)

\* A failed copy is an error unless the child has failed. That a signal to the
\* child, or the kill that ends its grace period, has failed is always one.
ChildEnds ==
    /\ Drained /\ invocation.of = "run"
    /\ \E code \in {0, 1}, reached \in BOOLEAN :
        /\ child' = IF reached THEN "ended" ELSE "unreached"
        /\ childExit' = [origin |-> "child", code |-> code]
        /\ IF ~reached \/ (broken /\ code = 0) THEN Fail("provider")
           ELSE Go("succeed")
    /\ UNCHANGED <<rendererVars, chunks, worldVars, applied, exit, useVars,
                   approvalVars>>

\* Apply ends; a Composer whose output could not be written has failed.
ApplyEnds ==
    /\ Drained /\ invocation.of = "sync"
    /\ child' = "ended"
    /\ \/ ~broken /\ SyncReturns(None)
       \/ \E code \in {"sync", "state", "artifact"} : SyncReturns(code)
    /\ UNCHANGED <<rendererVars, chunks, childExit, worldVars, applied, exit,
                   useVars, approvalVars>>

\* The user, a version control system or another elefante.
Edit ==
    /\ edits < MaxEdits /\ exit = None
    /\ project' \in Projects \ {project}
    /\ edits' = edits + 1
    /\ current' = FALSE
    /\ UNCHANGED <<rendererVars, controlVars, analysis, approvalVars, childVars,
                   applied, exit>>

-----------------------------------------------------------------------------
Report == BeginEvent \/ EndEvent \/ FailEvent \/ ReportFailure \/ ReportSuccess
Analyze == Dispatch \/ Misused \/ Discover \/ Inspect \/ Resolve \/ Show
Sync == SyncRefused \/ Apply \/ Ask \/ Decline \/ Confirm \/ ApplyEnds
Run == RunRefused \/ RunChild \/ ChildEnds
Stream == BeginChunk \/ EndChunk \/ FailChunk
Next == Report \/ Analyze \/ Sync \/ Run \/ Stream \/ Edit
Spec == Init /\ [][Next]_vars

-----------------------------------------------------------------------------
(* Properties.                                                               *)

Events == [type : Types, exit : Exits \cup {None}]

RendererTypeOK ==
    /\ json \in BOOLEAN /\ broken \in BOOLEAN
    /\ sequence \in Nat
    /\ emitting \in [Writers -> [event : Events, number : Nat] \cup {None}]
    /\ wire \in Seq([type : Types, exit : Exits \cup {None}, number : Nat,
                     whole : BOOLEAN])

TypeOK ==
    /\ RendererTypeOK
    /\ project \in Projects /\ edits \in 0..MaxEdits
    /\ invocation \in Invocations
    /\ at \in {"emit", "dispatch", "discover", "inspect", "resolve", "analyzed",
               "ask", "prompt", "wait", "fail", "succeed", "ended"}
    /\ next \in {"dispatch", "ask", "prompt", "fail", "succeed", "ended"}
    /\ queue \in Seq(Events)
    /\ analysis \in [facts : Projects \cup {None}, observed : Projects \cup {None},
                     released : Projects \cup {None}]
    /\ shown \in Digests \cup {None}
    /\ approved \in Digests \cup {None}
    /\ applied \in Digests \cup {None}
    /\ error \in DOMAIN Codes \cup {None}
    /\ second \in BOOLEAN /\ current \in BOOLEAN
    /\ child \in {"none", "running", "ended", "unreached"}
    /\ chunks \in [{"stdout", "stderr"} -> 0..Chunks]
    /\ childExit \in [origin : {"child"}, code : {0, 1}] \cup {None}
    /\ exit \in ExitCodes \cup {None}

Ended == at = "ended"

\* Two goroutines and the command itself write through one renderer: in the
\* order in which they are on the wire, events are numbered from one without
\* gaps, except that one cut off leaves its number to the next (emit, under
\* its mutex).
NumberedInOrder ==
    json => \A i \in DOMAIN wire :
        wire[i].number = 1 + Cardinality({j \in 1 .. i - 1 : wire[j].whole})

\* A JSON command starts with "started", and one that has ended without a
\* failing write has said so once, last, with the code it exits with: that of
\* the child of run if one was started. An "error" is on the wire exactly when
\* the command itself failed, or when a signal to the child did: then the exit
\* is the child's nevertheless (stopProcess returns the result and the error,
\* and so does Application.Run).
Framed ==
    json /\ Ended /\ ~broken =>
        LET last == wire[Len(wire)] IN
        /\ wire[1].type = "started"
        /\ last.type = "completed" /\ last.exit.code = exit
        /\ childExit # None => last.exit = childExit
        /\ \A i \in 1 .. Len(wire) - 1 : wire[i].type # "completed"
        /\ (\E i \in DOMAIN wire : wire[i].type = "error") <=>
             (last.exit.origin = "elefante" /\ exit # 0) \/ child = "unreached"

\* Whatever changed in between, what the engine receives is what was
\* approved: by --yes, by a digest reviewed before, or by the answer to a
\* question that showed this plan (AuthorizePlan and the second Sync).
AppliedWasApproved ==
    applied # None /\ NeedsApproval[applied.facts] =>
        \/ invocation.yes
        \/ invocation.approve = applied
        \/ second /\ shown = applied

\* The plan that is applied was made from the project as it is, unless it
\* changed after the last Sync had begun: the time a user takes to answer
\* does not count (Confirm starts over). Nothing is compared after that.
StaleOnlyByRace ==
    at = "wait" /\ invocation.of = "sync" /\ current =>
        applied = [facts |-> project, observed |-> project, released |-> project]

================================================================================
