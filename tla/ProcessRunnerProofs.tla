------------------------- MODULE ProcessRunnerProofs -------------------------
(***************************************************************************)
(* Proofs about one child process, for any exit codes, any number of       *)
(* signals and every combination of faults.  The argument: the waiting     *)
(* goroutine answers only for a child it has reaped, the caller returns a  *)
(* started child's result only with that answer, and the context's cause   *)
(* left the channel of NotifyContext while only one signal could be in it. *)
(***************************************************************************)
EXTENDS ProcessRunner, TLAPS

\* There is a child exactly from Start on, and it has a status from its end.
ChildFollowsCall ==
    /\ child.at = "unborn" <=>
         \/ run.at \in {"begin", "start"}
         \/ run.at = "returned" /\ ~result.started
    /\ child.at \in {"ended", "reaped"} => child.status \in Statuses
    /\ run.at = "returned" => result \in Results

\* Only a reaped child is answered for: its failing status, or else how the
\* copying of its output has ended.
Answers(answer, code) ==
    answer \in {"none", "exit", "stream"} /\ (answer = "exit" <=> code # 0)
AnswerIsReaped ==
    waited # None => child.at = "reaped" /\ Answers(waited, child.status.code)

\* The channel holds the first signal until the goroutine has taken it, and
\* nothing can fill it before a first signal; the context ends once.
FirstInChannel ==
    /\ handler.listening <=> ~ctx.done
    /\ handler.listening =>
         IF arrived = <<>> THEN handler.buffer = None
         ELSE handler.buffer = arrived[1]
    /\ ctx.cause # None => arrived # <<>> /\ ctx.cause = arrived[1]

\* A caller that has not been interrupted has nothing to forward; one that is
\* about to signal has, and on the context's account it is what that says.
ForwardsCause ==
    /\ run.at \in {"begin", "start", "select"} =>
         run.forwarded = None /\ ~run.cancelled
    /\ run.at = "signal" => run.forwarded # None
    /\ run.cancelled => ctx.done
    /\ run.cancelled /\ run.forwarded # None => run.forwarded = ContextSignal

IInv ==
    /\ TypeOK
    /\ ChildFollowsCall
    /\ AnswerIsReaped
    /\ ResultIsTheChilds
    /\ FirstInChannel
    /\ ForwardsCause

-----------------------------------------------------------------------------
(***************************************************************************)
(* Facts about the operators.                                              *)
(***************************************************************************)
LEMMA NumberType ==
    /\ DOMAIN Number = {"INT", "TERM", "KILL", "PIPE"}
    /\ Signals \subseteq DOMAIN Number
    /\ \A s \in DOMAIN Number : 128 + Number[s] \in Nat
  BY DEF Number, Signals

\* A status is an exit code, or the signal that ended the child.
LEMMA StatusType ==
    ASSUME NEW s \in Statuses
    PROVE  s \in [signal : DOMAIN Number \cup {None}, code : Nat]
  BY NumberType, CodesAssumption DEF Statuses

\* What the caller makes of the answer is a result, and it is the child's.
LEMMA ProcessResultType ==
    ASSUME child.status \in Statuses, NEW c \in BOOLEAN,
           NEW e \in {"none", "exit", "stream"}
    PROVE  /\ ProcessResult(e, c) \in Results
           /\ ProcessResult(e, c).started
           /\ ProcessResult(e, c).code = child.status.code
           /\ ProcessResult(e, c).signaled <=> child.status.signal # None
<1>1. child.status.code \in Nat
  BY StatusType
<1>2. QED
  BY <1>1 DEF ProcessResult, Results

LEMMA NotStartedType ==
    ASSUME NEW e \in {"cancelled", "start"}
    PROVE  NotStarted(e) \in Results /\ ~NotStarted(e).started
  BY DEF NotStarted, Results

-----------------------------------------------------------------------------
(***************************************************************************)
(* The inductive invariant holds initially.                                *)
(***************************************************************************)
LEMMA InitIInv == Init => IInv
<1> SUFFICES ASSUME Init PROVE IInv
  OBVIOUS
<1> USE DEF Init
<1>1. TypeOK
  <2>1. arrived \in Seq(Signals)
    OBVIOUS
  <2>2. source \in {"absent", "open", "closed"}
    OBVIOUS
  <2>3. QED
    BY <2>1, <2>2 DEF TypeOK
<1>2. ChildFollowsCall /\ AnswerIsReaped /\ ResultIsTheChilds
  BY DEF ChildFollowsCall, AnswerIsReaped, ResultIsTheChilds, Returned
<1>3. FirstInChannel
  BY DEF FirstInChannel
<1>4. ForwardsCause
  BY DEF ForwardsCause
<1>5. QED
  BY <1>1, <1>2, <1>3, <1>4 DEF IInv

-----------------------------------------------------------------------------
(***************************************************************************)
(* Signals and the context.                                                *)
(***************************************************************************)
LEMMA ArriveIInv == IInv /\ Arrive => IInv'
<1> SUFFICES ASSUME IInv, Arrive PROVE IInv'
  OBVIOUS
<1> USE DEF IInv, TypeOK
<1>1. PICK s \in Signals, terminal \in BOOLEAN :
        /\ arrived' = Append(arrived, s)
        /\ handler' = [handler EXCEPT !.buffer = IF @ = None THEN s ELSE @]
        /\ child' = IF terminal /\ child.at = "running"
                      THEN [child EXCEPT !.pending = @ \cup {s}] ELSE child
  BY DEF Arrive
<1> USE DEF Arrive
<1>2. child'.at = child.at /\ child'.status = child.status
  BY <1>1
<1>3. TypeOK'
  <2>1. arrived' \in Seq(Signals)
    BY <1>1
  <2>2. handler' \in [listening : BOOLEAN, buffer : Signals \cup {None}]
    BY <1>1
  <2>3. s \in DOMAIN Number
    BY NumberType
  <2>4. child' \in [at : {"unborn", "running", "ended", "reaped"},
                    pending : SUBSET DOMAIN Number, foreign : BOOLEAN,
                    status : Statuses \cup {None}]
    BY <1>1, <2>3
  <2>5. QED
    BY <2>1, <2>2, <2>4
<1>4. ChildFollowsCall' /\ AnswerIsReaped' /\ ResultIsTheChilds'
  BY <1>2 DEF ChildFollowsCall, AnswerIsReaped, ResultIsTheChilds, Returned
<1>5. FirstInChannel'
  <2>1. /\ arrived' # <<>>
        /\ arrived # <<>> => arrived'[1] = arrived[1]
        /\ arrived = <<>> => arrived'[1] = s
    BY <1>1
  <2>2. handler.listening =>
          handler'.buffer = IF arrived = <<>> THEN s ELSE arrived[1]
    <3>1. arrived # <<>> => arrived[1] \in Signals
      OBVIOUS
    <3>2. QED
      BY <1>1, <3>1, NumberType, NoneAssumption DEF FirstInChannel
  <2>3. handler'.listening = handler.listening
    BY <1>1
  <2>4. QED
    BY <2>1, <2>2, <2>3 DEF FirstInChannel
<1>6. ForwardsCause'
  BY DEF ForwardsCause, ContextSignal
<1>7. QED
  BY <1>3, <1>4, <1>5, <1>6

LEMMA NotifyIInv == IInv /\ Notify => IInv'
<1> SUFFICES ASSUME IInv, Notify PROVE IInv'
  OBVIOUS
<1> USE DEF IInv, TypeOK, Notify
<1>1. TypeOK'
  OBVIOUS
<1>2. ChildFollowsCall' /\ AnswerIsReaped' /\ ResultIsTheChilds'
  BY DEF ChildFollowsCall, AnswerIsReaped, ResultIsTheChilds, Returned
<1>3. FirstInChannel'
  BY DEF FirstInChannel
<1>4. ForwardsCause'
  BY DEF ForwardsCause
<1>5. QED
  BY <1>1, <1>2, <1>3, <1>4

LEMMA CancelIInv == IInv /\ Cancel => IInv'
<1> SUFFICES ASSUME IInv, Cancel PROVE IInv'
  OBVIOUS
<1> USE DEF IInv, TypeOK, Cancel
<1>1. TypeOK'
  <2>1. ctx' \in [done : BOOLEAN, cause : Signals \cup {None}]
    OBVIOUS
  <2>2. handler' \in [listening : BOOLEAN, buffer : Signals \cup {None}]
    OBVIOUS
  <2>3. QED
    BY <2>1, <2>2
<1>2. ChildFollowsCall' /\ AnswerIsReaped' /\ ResultIsTheChilds'
  BY DEF ChildFollowsCall, AnswerIsReaped, ResultIsTheChilds, Returned
<1>3. FirstInChannel'
  BY DEF FirstInChannel
<1>4. ForwardsCause'
  BY DEF ForwardsCause
<1>5. QED
  BY <1>1, <1>2, <1>3, <1>4

-----------------------------------------------------------------------------
(***************************************************************************)
(* The child, its descendants, its output and the waiting goroutine: none  *)
(* of these steps touches the caller or the context.                       *)
(***************************************************************************)
LEMMA SystemIInv == IInv /\ System => IInv'
<1> SUFFICES ASSUME IInv, System PROVE IInv'
  OBVIOUS
<1> USE DEF IInv, TypeOK
<1>1. UNCHANGED <<call, run, ctx, handler, source, result, arrived>>
  BY DEF System, Exit, Deliver, Detach, DescendantEnds, BecomeForeign,
         CopyFails, Reap, WaitReturns, ChildUnchanged
<1>2. FirstInChannel' /\ ForwardsCause'
  BY <1>1 DEF FirstInChannel, ForwardsCause, ContextSignal
<1> DEFINE Children ==
      [at : {"unborn", "running", "ended", "reaped"},
       pending : SUBSET DOMAIN Number, foreign : BOOLEAN,
       status : Statuses \cup {None}]
\* It suffices that the child is still there or still not, that a reaped
\* child stays as it is, and that an answer is for a reaped child.
<1> DEFINE Kept ==
      /\ TypeOK'
      /\ child'.at = "unborn" <=> child.at = "unborn"
      /\ child'.at \in {"ended", "reaped"} => child'.status \in Statuses
      /\ child.at = "reaped" =>
           child'.at = "reaped" /\ child'.status = child.status
      /\ waited' # None =>
           child'.at = "reaped" /\ Answers(waited', child'.status.code)
<1>3. ASSUME Kept PROVE IInv'
  BY <1>1, <1>2, <1>3 DEF ChildFollowsCall, AnswerIsReaped, ResultIsTheChilds, Returned
<1>4. CASE Exit
  <2>1. PICK c \in Codes : End([signal |-> None, code |-> c])
    BY <1>4 DEF Exit
  <2>2. [signal |-> None, code |-> c] \in Statuses
    BY DEF Statuses
  <2>3. /\ child.at = "running" /\ child'.at = "ended"
        /\ child'.status \in Statuses
        /\ child' \in Children
    BY <1>4, <2>1, <2>2 DEF Exit, End
  <2>4. UNCHANGED <<held, copy, waited>>
    BY <1>4 DEF Exit
  <2>5. Kept
    BY <1>1, <2>3, <2>4 DEF AnswerIsReaped
  <2>6. QED
    BY <1>3, <2>5
<1>5. CASE Deliver
  <2>1. PICK s \in child.pending :
          \/ End([signal |-> s, code |-> 128 + Number[s]])
          \/ /\ s # "KILL"
             /\ child' = [child EXCEPT !.pending = @ \ {s}]
    BY <1>5 DEF Deliver
  <2>2. [signal |-> s, code |-> 128 + Number[s]] \in Statuses
    BY DEF Statuses
  <2>3. /\ child.at = "running" /\ child'.at \in {"running", "ended"}
        /\ child'.at = "ended" => child'.status \in Statuses
        /\ child' \in Children
    <3>1. child \in Children /\ child.at = "running"
      BY <1>5 DEF Deliver
    <3>2. child.pending \ {s} \in SUBSET DOMAIN Number
      BY <3>1
    <3>3. CASE child' = [child EXCEPT !.pending = @ \ {s}]
      BY <3>1, <3>2, <3>3
    <3>4. CASE End([signal |-> s, code |-> 128 + Number[s]])
      <4> DEFINE status == [signal |-> s, code |-> 128 + Number[s]]
      <4>1. child' = [child EXCEPT !.at = "ended", !.status = status, !.pending = {}]
        BY <3>4 DEF End
      <4> HIDE DEF status
      <4>2. status \in Statuses
        BY <2>2 DEF status
      <4>3. QED
        BY <3>1, <4>1, <4>2
    <3>5. QED
      BY <2>1, <3>3, <3>4
  <2>4. UNCHANGED <<held, copy, waited>>
    BY <1>5 DEF Deliver
  <2>5. Kept
    BY <1>1, <2>3, <2>4 DEF AnswerIsReaped
  <2>6. QED
    BY <1>3, <2>5
<1>6. CASE Detach \/ DescendantEnds \/ BecomeForeign
  <2>1. UNCHANGED child \/ child' = [child EXCEPT !.foreign = TRUE]
    BY <1>6 DEF Detach, DescendantEnds, BecomeForeign
  <2>2. /\ child'.at = child.at /\ child'.status = child.status
        /\ child' \in Children
    <3>1. child \in Children
      OBVIOUS
    <3>2. CASE UNCHANGED child
      BY <3>1, <3>2
    <3>3. CASE child' = [child EXCEPT !.foreign = TRUE]
      BY <3>1, <3>3
    <3>4. QED
      BY <2>1, <3>2, <3>3
  <2>3. held' \in BOOLEAN /\ UNCHANGED <<copy, waited>>
    BY <1>6 DEF Detach, DescendantEnds, BecomeForeign
  <2>4. Kept
    BY <1>1, <2>2, <2>3 DEF AnswerIsReaped, ChildFollowsCall
  <2>5. QED
    BY <1>3, <2>4
<1>7. CASE CopyFails
  <2>1. "PIPE" \in DOMAIN Number
    BY NumberType
  <2>2. Kept
    BY <1>1, <1>7, <2>1 DEF CopyFails, AnswerIsReaped, ChildFollowsCall
  <2>3. QED
    BY <1>3, <2>2
<1>8. CASE Reap
  <2>1. Kept
    BY <1>1, <1>8 DEF Reap, AnswerIsReaped, ChildFollowsCall
  <2>2. QED
    BY <1>3, <2>1
<1>9. CASE WaitReturns
  <2>1. Answers(WaitError, child.status.code)
    BY DEF Answers, WaitError
  <2>2. Kept
    BY <1>1, <1>9, <2>1 DEF WaitReturns, ChildFollowsCall, Answers
  <2>3. QED
    BY <1>3, <2>2
<1>10. QED
  BY <1>4, <1>5, <1>6, <1>7, <1>8, <1>9 DEF System

-----------------------------------------------------------------------------
(***************************************************************************)
(* The steps of the caller.  None of them touches the context.             *)
(***************************************************************************)
LEMMA RunKeepsChannel == IInv /\ RunStep => FirstInChannel'
<1> SUFFICES ASSUME IInv, RunStep PROVE FirstInChannel'
  OBVIOUS
<1>1. UNCHANGED <<ctx, handler, arrived>>
  BY DEF RunStep, RunUnchanged, Begin, Start, StartFails, Collect, Interrupted,
         Sourced, SignalChild, GraceExpires, Kill, OutputCancelled
<1>2. QED
  BY <1>1 DEF IInv, FirstInChannel

\* Before there is a child, and its start.
LEMMA BeginIInv == IInv /\ (Begin \/ Start \/ StartFails) => IInv'
<1> SUFFICES ASSUME IInv, Begin \/ Start \/ StartFails PROVE IInv'
  OBVIOUS
<1> USE DEF IInv, TypeOK, RunUnchanged
<1>1. FirstInChannel'
  BY RunKeepsChannel DEF RunStep
<1>2. /\ UNCHANGED <<call, ctx, handler, source, held, copy, waited, arrived>>
      /\ run.at \in {"begin", "start"}
      /\ child.at = "unborn" /\ waited = None
  BY DEF Begin, Start, StartFails, ChildFollowsCall, AnswerIsReaped
<1> DEFINE NotBegun(e) == run' = [run EXCEPT !.at = "returned"]
                          /\ result' = NotStarted(e) /\ UNCHANGED child
<1>3. CASE \E e \in {"cancelled", "start"} : NotBegun(e)
  <2>1. PICK e \in {"cancelled", "start"} : NotBegun(e)
    BY <1>3
  <2>2. result' \in Results /\ ~result'.started
    BY <2>1, NotStartedType
  <2>3. TypeOK'
    BY <1>2, <2>1, <2>2
  <2>4. ChildFollowsCall' /\ AnswerIsReaped' /\ ResultIsTheChilds'
    BY <1>2, <2>1, <2>2 DEF ChildFollowsCall, AnswerIsReaped, ResultIsTheChilds, Returned
  <2>5. ForwardsCause'
    BY <1>2, <2>1 DEF ForwardsCause
  <2>6. QED
    BY <1>1, <2>3, <2>4, <2>5
<1>4. CASE /\ run' = [run EXCEPT !.at = "start"]
           /\ UNCHANGED <<child, result>>
  <2>1. TypeOK'
    BY <1>2, <1>4
  <2>2. ChildFollowsCall' /\ AnswerIsReaped' /\ ResultIsTheChilds'
    BY <1>2, <1>4 DEF ChildFollowsCall, AnswerIsReaped, ResultIsTheChilds, Returned
  <2>3. ForwardsCause'
    BY <1>2, <1>4 DEF ForwardsCause
  <2>4. QED
    BY <1>1, <2>1, <2>2, <2>3
<1>5. CASE Start
  <2>1. TypeOK'
    BY <1>2, <1>5 DEF Start
  <2>2. ChildFollowsCall' /\ AnswerIsReaped' /\ ResultIsTheChilds'
    BY <1>2, <1>5 DEF Start, ChildFollowsCall, AnswerIsReaped, ResultIsTheChilds, Returned
  <2>3. ForwardsCause'
    BY <1>2, <1>5 DEF Start, ForwardsCause
  <2>4. QED
    BY <1>1, <2>1, <2>2, <2>3
<1>6. QED
  BY <1>3, <1>4, <1>5 DEF Begin, StartFails, Return

\* The answer arrives: the child has been reaped, and its status is returned.
LEMMA CollectIInv == IInv /\ Collect => IInv'
<1> SUFFICES ASSUME IInv, Collect PROVE IInv'
  OBVIOUS
<1> USE DEF IInv, TypeOK, RunUnchanged
<1>1. FirstInChannel'
  BY RunKeepsChannel DEF RunStep
<1> DEFINE P == ProcessResult(waited, run.cancelled)
           E == IF call.of = "Run"
                  THEN IF run.error # None THEN run.error ELSE P.error
                  ELSE IF waited = "none" /\ run.error # None
                    THEN run.error ELSE waited
<1>2. /\ run' = [run EXCEPT !.at = "returned"]
      /\ result' = [P EXCEPT !.error = E]
      /\ waited # None /\ waited' = None
      /\ run.at \in {"select", "grace", "final"}
      /\ UNCHANGED <<call, ctx, handler, source, child, held, copy, arrived>>
  BY DEF Collect, Return, RunResult, OutputResult
<1>3. /\ child.at = "reaped" /\ child.status \in Statuses
      /\ Answers(waited, child.status.code)
  BY <1>2 DEF AnswerIsReaped, ChildFollowsCall
<1>4. /\ P \in Results /\ P.started
      /\ P.code = child.status.code
      /\ P.signaled <=> child.status.signal # None
      /\ P.error = IF waited = "exit" THEN "none" ELSE waited
  BY <1>2, <1>3, ProcessResultType DEF ProcessResult
<1>5. /\ E \in {"none", "cancelled", "signal", "stream", "exit"}
      /\ E = "exit" <=> call.of = "Output" /\ child.status.code # 0
  <2>1. call.of \in {"Run", "Output"} /\ run.error \in {None, "signal", "cancelled"}
    BY DEF Calls
  <2>2. QED
    BY <1>3, <1>4, <2>1 DEF Answers
<1> HIDE DEF P, E
<1>6. /\ result' \in Results /\ result'.started
      /\ result'.code = child.status.code
      /\ result'.signaled <=> child.status.signal # None
      /\ result'.error = E
  BY <1>2, <1>4, <1>5 DEF Results
<1>7. TypeOK'
  BY <1>2, <1>6
<1>8. ChildFollowsCall' /\ AnswerIsReaped' /\ ResultIsTheChilds'
  BY <1>2, <1>3, <1>5, <1>6
     DEF ChildFollowsCall, AnswerIsReaped, ResultIsTheChilds, Returned
<1>9. ForwardsCause'
  BY <1>2 DEF ForwardsCause, ContextSignal
<1>10. QED
  BY <1>1, <1>7, <1>8, <1>9

\* The caller learns of a cancellation or of a signal.
LEMMA InterruptIInv ==
    IInv /\ (Interrupted \/ Sourced \/ OutputCancelled \/ GraceExpires) => IInv'
<1> SUFFICES ASSUME IInv,
                    Interrupted \/ Sourced \/ OutputCancelled \/ GraceExpires
             PROVE  IInv'
  OBVIOUS
<1> USE DEF IInv, TypeOK, RunUnchanged
<1>1. FirstInChannel'
  BY RunKeepsChannel DEF RunStep
<1>2. /\ UNCHANGED <<call, ctx, handler, child, held, copy, waited, result, arrived>>
      /\ run.at \in {"select", "grace"}
      /\ run'.at \in {"select", "signal", "kill"}
  BY DEF Interrupted, Sourced, OutputCancelled, GraceExpires
<1>3. ChildFollowsCall' /\ AnswerIsReaped' /\ ResultIsTheChilds'
  BY <1>2 DEF ChildFollowsCall, AnswerIsReaped, ResultIsTheChilds, Returned
<1>4. ContextSignal \in Signals
  BY DEF ContextSignal, Signals
<1>5. TypeOK'
  <2>1. run' \in [at : {"begin", "start", "select", "signal", "grace", "kill",
                        "final", "returned"},
                  forwarded : Signals \cup {None}, cancelled : BOOLEAN,
                  error : {None, "signal", "cancelled"}]
    BY <1>4 DEF Interrupted, Sourced, OutputCancelled, GraceExpires
  <2>2. source' \in {"absent", "open", "closed"}
    BY DEF Interrupted, Sourced, OutputCancelled, GraceExpires
  <2>3. QED
    BY <1>2, <2>1, <2>2
<1>6. ForwardsCause'
  <2>1. ContextSignal' = ContextSignal
    BY <1>2 DEF ContextSignal
  <2>2. CASE Interrupted
    <3>1. ContextSignal # None
      BY <1>4, NumberType, NoneAssumption
    <3>2. QED
      BY <1>2, <2>1, <2>2, <3>1 DEF Interrupted, ForwardsCause
  <2>3. CASE Sourced
    <3>1. \A s \in Signals : s # None
      BY NumberType, NoneAssumption
    <3>2. QED
      BY <1>2, <2>1, <2>3, <3>1 DEF Sourced, ForwardsCause
  <2>4. CASE OutputCancelled
    BY <1>2, <2>1, <2>4 DEF OutputCancelled, ForwardsCause
  <2>5. CASE GraceExpires
    BY <1>2, <2>1, <2>5 DEF GraceExpires, ForwardsCause
  <2>6. QED
    BY <2>2, <2>3, <2>4, <2>5
<1>7. QED
  BY <1>1, <1>3, <1>5, <1>6

\* The child is told or killed, or neither is possible.
LEMMA SignalIInv == IInv /\ (SignalChild \/ Kill) => IInv'
<1> SUFFICES ASSUME IInv, SignalChild \/ Kill PROVE IInv'
  OBVIOUS
<1> USE DEF IInv, TypeOK, RunUnchanged
<1>1. FirstInChannel'
  BY RunKeepsChannel DEF RunStep
<1>2. /\ UNCHANGED <<call, ctx, handler, source, held, copy, waited, result, arrived>>
      /\ run.at \in {"signal", "kill"} /\ run'.at \in {"grace", "final"}
      /\ run'.cancelled = run.cancelled /\ run'.forwarded = run.forwarded
      /\ child'.at = child.at /\ child'.status = child.status
  BY DEF SignalChild, Kill, Signalled
<1>3. ChildFollowsCall' /\ AnswerIsReaped' /\ ResultIsTheChilds'
  BY <1>2 DEF ChildFollowsCall, AnswerIsReaped, ResultIsTheChilds, Returned
<1>4. ForwardsCause'
  BY <1>2 DEF ForwardsCause, ContextSignal
<1>5. TypeOK'
  <2>1. run' \in [at : {"begin", "start", "select", "signal", "grace", "kill",
                        "final", "returned"},
                  forwarded : Signals \cup {None}, cancelled : BOOLEAN,
                  error : {None, "signal", "cancelled"}]
    <3>1. run.error \in {None, "signal", "cancelled"}
      OBVIOUS
    <3>2. \/ run' = [run EXCEPT !.at = "grace"]
          \/ \E e \in {run.error, None, "signal"} :
               run' = [run EXCEPT !.at = "final", !.error = e]
      BY DEF SignalChild, Kill
    <3>3. CASE run' = [run EXCEPT !.at = "grace"]
      BY <3>3
    <3>4. ASSUME NEW e \in {None, "signal", "cancelled"},
                 run' = [run EXCEPT !.at = "final", !.error = e]
          PROVE  run' \in [at : {"begin", "start", "select", "signal", "grace",
                                 "kill", "final", "returned"},
                           forwarded : Signals \cup {None}, cancelled : BOOLEAN,
                           error : {None, "signal", "cancelled"}]
      BY <3>4
    <3>5. QED
      BY <3>1, <3>2, <3>3, <3>4
  <2>2. child' \in [at : {"unborn", "running", "ended", "reaped"},
                    pending : SUBSET DOMAIN Number, foreign : BOOLEAN,
                    status : Statuses \cup {None}]
    <3>1. run.at = "signal" => run.forwarded \in DOMAIN Number
      BY NumberType DEF ForwardsCause
    <3>2. "KILL" \in DOMAIN Number
      BY NumberType
    <3>3. \A s \in DOMAIN Number : child.pending \cup {s} \in SUBSET DOMAIN Number
      OBVIOUS
    <3>4. CASE SignalChild
      BY <3>1, <3>3, <3>4 DEF SignalChild, Signalled
    <3>5. CASE Kill
      BY <3>2, <3>3, <3>5 DEF Kill, Signalled
    <3>6. QED
      BY <3>4, <3>5
  <2>3. QED
    BY <1>2, <2>1, <2>2
<1>6. QED
  BY <1>1, <1>3, <1>4, <1>5

-----------------------------------------------------------------------------
(***************************************************************************)
(* Every step keeps the inductive invariant, and so does a stutter.        *)
(***************************************************************************)
LEMMA NextIInv == IInv /\ [Next]_vars => IInv'
<1> SUFFICES ASSUME IInv, [Next]_vars PROVE IInv'
  OBVIOUS
<1>1. CASE RunStep
  BY <1>1, BeginIInv, CollectIInv, InterruptIInv, SignalIInv DEF RunStep
<1>2. CASE System
  BY <1>2, SystemIInv
<1>3. CASE Arrive \/ Notify \/ Cancel
  BY <1>3, ArriveIInv, NotifyIInv, CancelIInv
<1>4. CASE UNCHANGED vars
  BY <1>4 DEF vars, IInv, TypeOK, ChildFollowsCall, AnswerIsReaped,
              ResultIsTheChilds, Returned, FirstInChannel, ForwardsCause, ContextSignal
<1>5. QED
  BY <1>1, <1>2, <1>3, <1>4 DEF Next

LEMMA Always == Spec => []IInv
<1>1. QED
  BY InitIInv, NextIInv, PTL DEF Spec

-----------------------------------------------------------------------------
(***************************************************************************)
(* Every variable keeps its type: what a call returns is a result with the *)
(* code of an exit or 128 and the number of a signal (runner.go).          *)
(***************************************************************************)
THEOREM TypeCorrect == Spec => []TypeOK
<1>1. IInv => TypeOK
  BY DEF IInv
<1>2. QED
  BY <1>1, Always, PTL

(***************************************************************************)
(* Whatever order the end of the child, the cancellation, the grace period *)
(* and the kill come in, a call that started a child returns the status of *)
(* the reaped child, and one that did not start it says so; a failing      *)
(* status is an error exactly of Output.                                   *)
(***************************************************************************)
THEOREM RealStatus == Spec => []ResultIsTheChilds
<1>1. IInv => ResultIsTheChilds
  BY DEF IInv
<1>2. QED
  BY <1>1, Always, PTL

(***************************************************************************)
(* What the context makes Run forward is the first signal that arrived,    *)
(* however many follow and whenever they do (signals.go).                  *)
(***************************************************************************)
THEOREM FirstForwarded == Spec => []FirstSignalForwarded
<1>1. IInv => FirstSignalForwarded
  BY DEF IInv, FirstInChannel, ForwardsCause, ContextSignal, FirstSignalForwarded
<1>2. QED
  BY <1>1, Always, PTL

=============================================================================
