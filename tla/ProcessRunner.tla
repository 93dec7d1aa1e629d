---------------------------- MODULE ProcessRunner ----------------------------
(* One child process of Elefante: OSRunner.Run and OSRunner.Output of        *)
(* internal/executor/runner.go, the goroutine that waits for the child, the  *)
(* goroutine of NotifyContext (signals.go) that turns the first signal into  *)
(* the cancellation of the context, and the child, its descendants and the   *)
(* copying of its output, which are the operating system and os/exec.        *)
EXTENDS Naturals, Sequences

CONSTANTS
    None,        \* no signal, no result, nothing in a channel
    Codes,       \* exit codes of a child
    MaxSignals,  \* bound: signals that reach Elefante
    Faults       \* what may happen besides: members of AllFaults

\* A descendant of the child survives it and holds its output; the child
\* changes its user, so that signals to it fail; writing the output fails.
AllFaults == {"descendant", "foreign", "stream"}

ASSUME CodesAssumption == Codes \subseteq 0..127 /\ 0 \in Codes
ASSUME MaxSignalsAssumption == MaxSignals \in Nat
ASSUME FaultsAssumption == Faults \subseteq AllFaults

\* The signals main.go subscribes to, and the number of each.
Signals == {"INT", "TERM"}
Number == [INT |-> 2, TERM |-> 15, KILL |-> 9, PIPE |-> 13]

ASSUME NoneAssumption == None \notin DOMAIN Number

VARIABLES
    call,     \* "Run" or "Output", and whether the output is copied by pipes
    run,      \* the caller: where it is and what it has done to the child
    ctx,      \* the context: done, and the signal that is its cause
    handler,  \* NotifyContext: whether it listens, and its channel of one
    source,   \* SignalSource of the runner: "absent", "open" or "closed"
    child,    \* the child: unborn, running, ended or reaped; its status
    held,     \* a descendant holds the output of the child
    copy,     \* the copying of the output: "open" or "failed"
    waited,   \* the channel of the waiting goroutine
    result,   \* what the call returned
    arrived   \* history: signals that reached Elefante, in order
vars == <<call, run, ctx, handler, source, child, held, copy, waited, result,
          arrived>>

Calls == {[of |-> "Run", piped |-> TRUE], [of |-> "Run", piped |-> FALSE],
          [of |-> "Output", piped |-> TRUE]}
Statuses == {[signal |-> None, code |-> c] : c \in Codes}
            \cup {[signal |-> s, code |-> 128 + Number[s]] : s \in DOMAIN Number}

Init ==
    /\ call \in Calls
    /\ run = [at |-> "begin", forwarded |-> None, cancelled |-> FALSE,
              error |-> None]
    /\ ctx = [done |-> FALSE, cause |-> None]
    /\ handler = [listening |-> TRUE, buffer |-> None]
    /\ source \in IF call.of = "Run" THEN {"absent", "open"} ELSE {"absent"}
    /\ child = [at |-> "unborn", pending |-> {}, foreign |-> FALSE,
                status |-> None]
    /\ held = FALSE
    /\ copy = "open"
    /\ waited = None
    /\ result = None
    /\ arrived = <<>>

-----------------------------------------------------------------------------
(* Signals and the context.                                                  *)

\* A signal reaches Elefante; from a terminal it reaches the child as well.
\* The channel of signal.Notify holds one and drops the rest.
Arrive ==
    /\ Len(arrived) < MaxSignals
    /\ \E s \in Signals, terminal \in BOOLEAN :
        /\ arrived' = Append(arrived, s)
        /\ handler' = [handler EXCEPT !.buffer = IF @ = None THEN s ELSE @]
        /\ child' = IF terminal /\ child.at = "running"
                      THEN [child EXCEPT !.pending = @ \cup {s}] ELSE child
    /\ UNCHANGED <<call, run, ctx, source, held, copy, waited, result>>

\* The goroutine of NotifyContext takes one signal and ends.
Notify ==
    /\ handler.listening /\ ~ctx.done
    /\ handler.buffer # None
    /\ ctx' = [done |-> TRUE, cause |-> handler.buffer]
    /\ handler' = [listening |-> FALSE, buffer |-> None]
    /\ UNCHANGED <<call, run, source, child, held, copy, waited, result, arrived>>

\* The parent context ends; a later signal cannot become the cause any more.
Cancel ==
    /\ ~ctx.done
    /\ ctx' = [done |-> TRUE, cause |-> None]
    /\ handler' = [handler EXCEPT !.listening = FALSE]
    /\ UNCHANGED <<call, run, source, child, held, copy, waited, result, arrived>>

\* Mutants of ContextSignal: the signal in the channel, and no grace.
LatestSignal == IF handler.buffer # None THEN handler.buffer
                ELSE IF ctx.cause # None THEN ctx.cause ELSE "TERM"
ContextSignal == IF ctx.cause # None THEN ctx.cause ELSE "TERM"

-----------------------------------------------------------------------------
(* The child, its descendants, its output and the waiting goroutine.         *)

ChildUnchanged == UNCHANGED <<call, run, ctx, handler, source, result, arrived>>

End(s) ==
    child' = [child EXCEPT !.at = "ended", !.status = s, !.pending = {}]

Exit ==
    /\ child.at = "running" /\ "KILL" \notin child.pending
    /\ \E c \in Codes : End([signal |-> None, code |-> c])
    /\ UNCHANGED <<held, copy, waited>> /\ ChildUnchanged

\* A pending signal ends the child, or the child ignores it, KILL excepted.
Deliver ==
    /\ child.at = "running"
    /\ \E s \in child.pending :
        \/ End([signal |-> s, code |-> 128 + Number[s]])
        \/ /\ s # "KILL"
           /\ child' = [child EXCEPT !.pending = @ \ {s}]
    /\ UNCHANGED <<held, copy, waited>> /\ ChildUnchanged

Detach ==
    /\ "descendant" \in Faults /\ child.at = "running" /\ ~held
    /\ held' = TRUE
    /\ UNCHANGED <<child, copy, waited>> /\ ChildUnchanged

DescendantEnds ==
    /\ held
    /\ held' = FALSE
    /\ UNCHANGED <<child, copy, waited>> /\ ChildUnchanged

BecomeForeign ==
    /\ "foreign" \in Faults /\ child.at = "running" /\ ~child.foreign
    /\ child' = [child EXCEPT !.foreign = TRUE]
    /\ UNCHANGED <<held, copy, waited>> /\ ChildUnchanged

\* The writer refuses a chunk: the copying ends and closes its end of the
\* pipe, so that the child's next write raises SIGPIPE.
CopyFails ==
    /\ "stream" \in Faults /\ copy = "open"
    /\ call.of = "Run" /\ call.piped
    /\ child.at = "running" \/ held \/ (child.at = "ended" /\ waited = None)
    /\ copy' = "failed"
    /\ child' = IF child.at = "running"
                  THEN [child EXCEPT !.pending = @ \cup {"PIPE"}] ELSE child
    /\ UNCHANGED <<held, waited>> /\ ChildUnchanged

Reap ==
    /\ child.at = "ended"
    /\ child' = [child EXCEPT !.at = "reaped"]
    /\ UNCHANGED <<held, copy, waited>> /\ ChildUnchanged

OutputClosed == ~call.piped \/ copy = "failed" \/ ~held

\* exec.Cmd.Wait: a failing status takes precedence over a failed copy.
WaitError ==
    IF child.status.code # 0 THEN "exit"
    ELSE IF copy = "failed" THEN "stream" ELSE "none"

WaitReturns ==
    /\ child.at = "reaped" /\ waited = None /\ run.at # "returned"
    /\ OutputClosed
    /\ waited' = WaitError
    /\ UNCHANGED <<child, held, copy>> /\ ChildUnchanged

-----------------------------------------------------------------------------
(* Run and Output.                                                           *)

RunUnchanged == UNCHANGED <<call, ctx, handler, held, copy, arrived>>

NotStarted(e) ==
    [started |-> FALSE, code |-> 0, signaled |-> FALSE, cancelled |-> FALSE,
     error |-> e]

\* processResult: an exit error is no error of the runner.
ProcessResult(error, cancelled) ==
    [started |-> TRUE, code |-> child.status.code,
     signaled |-> child.status.signal # None, cancelled |-> cancelled,
     error |-> IF error = "exit" THEN "none" ELSE error]

Return(r) ==
    /\ run' = [run EXCEPT !.at = "returned"]
    /\ result' = r

Begin ==
    /\ run.at = "begin"
    /\ IF ctx.done THEN Return(NotStarted("cancelled"))
       ELSE run' = [run EXCEPT !.at = "start"] /\ UNCHANGED result
    /\ UNCHANGED <<source, child, waited>> /\ RunUnchanged

Start ==
    /\ run.at = "start"
    /\ run' = [run EXCEPT !.at = "select"]
    /\ child' = [child EXCEPT !.at = "running"]
    /\ UNCHANGED <<source, waited, result>> /\ RunUnchanged

StartFails ==
    /\ run.at = "start"
    /\ Return(NotStarted("start"))
    /\ UNCHANGED <<source, child, waited>> /\ RunUnchanged

\* Run: the error of a failed signal comes before the one of the child.
RunResult ==
    [ProcessResult(waited, run.cancelled) EXCEPT !.error =
       IF run.error # None THEN run.error ELSE @]
\* Output: os/exec reports a failing exit first, then what has happened to the
\* kill: the context's error, the kill's own, or none if it came too late.
OutputResult ==
    [ProcessResult(waited, run.cancelled) EXCEPT !.error =
       IF waited = "none" /\ run.error # None THEN run.error ELSE waited]

\* The answer of the waiting goroutine, wherever it is received.
Collect ==
    /\ run.at \in {"select", "grace", "final"}
    /\ waited # None
    /\ Return(IF call.of = "Run" THEN RunResult ELSE OutputResult)
    /\ waited' = None
    /\ UNCHANGED <<source, child>> /\ RunUnchanged

\* The select of Run: the context is done, or SignalSource delivers.
Interrupted ==
    /\ run.at = "select" /\ call.of = "Run" /\ ctx.done
    /\ run' = [run EXCEPT !.at = "signal", !.cancelled = TRUE,
                          !.forwarded = ContextSignal]
    /\ UNCHANGED <<source, child, waited, result>> /\ RunUnchanged

Sourced ==
    /\ run.at = "select" /\ source = "open"
    /\ \/ \E s \in Signals : run' = [run EXCEPT !.at = "signal", !.forwarded = s]
          /\ UNCHANGED source
       \/ source' = "closed" /\ UNCHANGED run
    /\ UNCHANGED <<child, waited, result>> /\ RunUnchanged

\* Nothing reaches a child that has ended; once it is reaped, that is no error
\* (os.ErrProcessDone).
Signalled(s) ==
    IF child.at = "running" THEN [child EXCEPT !.pending = @ \cup {s}]
    ELSE child
CanSignal == child.at = "reaped" \/ ~child.foreign

SignalChild ==
    /\ run.at = "signal"
    /\ IF CanSignal
         THEN /\ child' = Signalled(run.forwarded)
              /\ run' = [run EXCEPT !.at = "grace"]
         ELSE \* the Kill that follows fails for the same reason
              /\ run' = [run EXCEPT !.at = "final", !.error = "signal"]
              /\ UNCHANGED child
    /\ UNCHANGED <<source, waited, result>> /\ RunUnchanged

\* Mutant: no timer.
NoTimer == run.at = "grace" /\ FALSE /\ UNCHANGED vars
GraceExpires ==
    /\ run.at = "grace"
    /\ run' = [run EXCEPT !.at = "kill"]
    /\ UNCHANGED <<source, child, waited, result>> /\ RunUnchanged

\* Mutant: the killed child is not awaited.
KillAndReturn ==
    /\ run.at = "kill"
    /\ child' = IF CanSignal THEN Signalled("KILL") ELSE child
    /\ Return(NotStarted("cancelled"))
    /\ UNCHANGED <<source, waited>> /\ RunUnchanged
Kill ==
    /\ run.at = "kill"
    /\ IF CanSignal
         THEN /\ child' = Signalled("KILL")
              /\ run' = [run EXCEPT !.at = "final",
                           !.error = IF child.at = "reaped" THEN None ELSE @]
         ELSE /\ run' = [run EXCEPT !.at = "final", !.error = "signal"]
              /\ UNCHANGED child
    /\ UNCHANGED <<source, waited, result>> /\ RunUnchanged

\* exec.CommandContext kills at once.
OutputCancelled ==
    /\ run.at = "select" /\ call.of = "Output" /\ ctx.done
    /\ run' = [run EXCEPT !.at = "kill", !.cancelled = TRUE,
                          !.error = "cancelled"]
    /\ UNCHANGED <<source, child, waited, result>> /\ RunUnchanged

-----------------------------------------------------------------------------
RunStep == Begin \/ Start \/ StartFails \/ Collect \/ Interrupted \/ Sourced
           \/ SignalChild \/ GraceExpires \/ Kill \/ OutputCancelled
System == Exit \/ Deliver \/ Detach \/ DescendantEnds \/ BecomeForeign
          \/ CopyFails \/ Reap \/ WaitReturns
Next == RunStep \/ System \/ Arrive \/ Notify \/ Cancel
Spec == Init /\ [][Next]_vars

\* The scheduler runs the caller, the goroutines and the clock, and the kernel
\* ends a killed child; no fairness of the child, its descendants, the
\* signals or the failures. A caller with an answer and a done context is not
\* bound to prefer either.
KernelKills == "KILL" \in child.pending /\ Deliver
Fairness ==
    /\ WF_vars(Begin) /\ WF_vars(Start) /\ WF_vars(Collect)
    /\ WF_vars(Interrupted) /\ WF_vars(OutputCancelled)
    /\ WF_vars(SignalChild) /\ WF_vars(GraceExpires) /\ WF_vars(Kill)
    /\ WF_vars(Notify) /\ WF_vars(Reap) /\ WF_vars(WaitReturns)
    /\ WF_vars(KernelKills)
FairSpec == Spec /\ Fairness

-----------------------------------------------------------------------------
(* Properties.                                                               *)

Results == [started : BOOLEAN, code : Nat, signaled : BOOLEAN,
            cancelled : BOOLEAN,
            error : {"none", "start", "cancelled", "signal", "stream", "exit"}]

TypeOK ==
    /\ call \in Calls
    /\ run \in [at : {"begin", "start", "select", "signal", "grace", "kill",
                      "final", "returned"},
                forwarded : Signals \cup {None}, cancelled : BOOLEAN,
                error : {None, "signal", "cancelled"}]
    /\ ctx \in [done : BOOLEAN, cause : Signals \cup {None}]
    /\ handler \in [listening : BOOLEAN, buffer : Signals \cup {None}]
    /\ source \in {"absent", "open", "closed"}
    /\ child \in [at : {"unborn", "running", "ended", "reaped"},
                  pending : SUBSET DOMAIN Number, foreign : BOOLEAN,
                  status : Statuses \cup {None}]
    /\ held \in BOOLEAN
    /\ copy \in {"open", "failed"}
    /\ waited \in {None, "none", "exit", "stream"}
    /\ result \in Results \cup {None}
    /\ arrived \in Seq(Signals)

Returned == run.at = "returned"

\* Whatever order the child's end, the cancellation, the grace period and the
\* kill come in, a call that started a child returns its real status once it
\* is reaped, and no child was started otherwise (processResult after every
\* receive from waited). A failing status is no error of Run, but always the
\* error of Output, even one that was cancelled.
ResultIsTheChilds ==
    Returned =>
        IF result.started
          THEN /\ child.at = "reaped" /\ result.code = child.status.code
               /\ result.signaled <=> child.status.signal # None
               /\ result.error = "exit" <=> call.of = "Output" /\ result.code # 0
          ELSE child.at = "unborn"

\* What the context makes Run forward is the first signal that arrived, even
\* when others follow before the child is told (NotifyContext's channel of one
\* and ContextSignal).
FirstSignalForwarded ==
    run.cancelled /\ run.forwarded # None /\ ctx.cause # None =>
        run.forwarded = arrived[1]

\* After a cancellation the call returns, unless a descendant holds the
\* output that Elefante copies or the child is out of reach of signals.
CancellationEnds ==
    ctx.done ~> (Returned \/ (call.piped /\ held) \/ child.foreign)

=============================================================================
