----------------------------- MODULE CommandProofs -----------------------------
(***************************************************************************)
(* Proofs about one invocation of elefante, for any projects, plans, edits *)
(* and chunks of output.  The argument: only one writer holds a number; an *)
(* approval stays with the digest it was given for until the next question *)
(* is asked; and what the current use case has read is the project as long *)
(* as nothing has changed.                                                 *)
(***************************************************************************)
EXTENDS Command, FiniteSetTheorems, SequenceTheorems, TLAPS

\* One writer at a time, and it writes the number after the last one written.
OneWriter ==
    /\ \A v, w \in Writers : emitting[v] # None /\ emitting[w] # None => v = w
    /\ \A w \in Writers : emitting[w] # None => emitting[w].number = sequence + 1

\* The number of the last event is how many events were written whole.
Whole(n) == {j \in 1 .. n : wire[j].whole}
NumberPart ==
    /\ OneWriter
    /\ json => sequence = Cardinality(Whole(Len(wire)))
    /\ NumberedInOrder

\* The command writes the head of its queue; a child's output is written
\* while the command waits for it.
WriterPart ==
    /\ at = "emit" => queue # <<>>
    /\ emitting["main"] # None =>
         at = "emit" /\ emitting["main"].event = Head(queue)
    /\ \A s \in DOMAIN chunks : emitting[s] # None =>
         at = "wait" /\ chunks[s] > 0 /\ emitting[s].event = Event(s)

\* How far the analysis has come; a question is about a whole one.
AnalysisPart ==
    /\ at \in {"inspect", "resolve", "analyzed"} => analysis.facts \in Projects
    /\ at = "resolve" => analysis.observed \in Projects
    /\ at = "analyzed" /\ invocation.of = "sync" => analysis \in Digests
    /\ at = "ask" => analysis \in Digests
    /\ at = "emit" /\ next = "ask" => analysis \in Digests

\* Until the next question, an approval is that of the command line or the
\* answer to the question that showed this digest.
Beginning == at = "dispatch" \/ (at = "emit" /\ next = "dispatch")
Analyzing == at \in {"discover", "inspect", "resolve", "analyzed"}
ApprovalPart ==
    /\ Beginning => approved = invocation.approve
    /\ Analyzing /\ approved # None =>
         approved = invocation.approve \/ (second /\ approved = shown)

\* Nothing is asked, analyzed or applied after the engine has received a plan.
Over ==
    at \in {"wait", "fail", "succeed", "ended"}
    \/ (at = "emit" /\ next \in {"fail", "succeed", "ended"})
AppliedPart ==
    /\ applied # None => Over
    /\ AppliedWasApproved

\* What this use case has read so far is what is there, if nothing changed.
CurrentPart ==
    current /\ invocation.of = "sync" =>
        /\ at \in {"inspect", "resolve", "analyzed"} => analysis.facts = project
        /\ at \in {"resolve", "analyzed"} => analysis.observed = project
        /\ at = "analyzed" => analysis.released = project
        /\ at = "wait" =>
             applied = [facts |-> project, observed |-> project, released |-> project]

\* The error of the command and the exit of its child, where they are decided;
\* a child with an exit has an error only if a write or a signal to it failed.
HasExit == childExit # None
Unreached == child = "unreached"
ExitPart ==
    /\ HasExit => at \in {"fail", "succeed", "ended"} \/ (at = "emit" /\ next = "ended")
    /\ Unreached => HasExit
    /\ at = "succeed" => (HasExit \/ error = None) /\ ~Unreached
    /\ at = "emit" /\ next = "succeed" => error = None
    /\ Beginning => error = None
    /\ at = "ask" => error # None
    /\ at = "emit" /\ next \in {"ask", "prompt", "fail"} => error # None
    /\ at = "fail" => error # None /\ (HasExit => broken \/ Unreached)

\* What a command has still to emit: its end is an error and "completed", or
\* the latter alone.
QueuePart ==
    /\ at = "emit" /\ next # "ended" =>
         \A i \in DOMAIN queue : queue[i].type \notin {"completed", "error"}
    /\ at = "emit" /\ next = "ended" =>
         queue \in {<<Event("error"), Completed>>, <<Completed>>}

\* What has been written, until a write fails.
HasError == \E i \in DOMAIN wire : wire[i].type = "error"
Failed == (Exit.origin = "elefante" /\ Exit.code # 0) \/ Unreached
FramePart ==
    json /\ ~broken =>
        /\ wire = <<>> => at = "emit" /\ next = "dispatch" /\ queue = <<Event("started")>>
        /\ wire # <<>> => wire[1].type = "started"
        /\ at # "ended" => \A i \in DOMAIN wire : wire[i].type # "completed"
        /\ at # "ended" /\ ~(at = "emit" /\ next = "ended") => ~HasError
        /\ at = "emit" /\ next = "ended" =>
             \/ queue = <<Event("error"), Completed>> /\ ~HasError /\ Failed
             \/ queue = <<Completed>> /\ (HasError <=> Failed)
        /\ Framed

IInv ==
    /\ TypeOK
    /\ NumberPart
    /\ WriterPart
    /\ AnalysisPart
    /\ ApprovalPart
    /\ AppliedPart
    /\ CurrentPart
    /\ ExitPart
    /\ QueuePart
    /\ FramePart

-----------------------------------------------------------------------------
(***************************************************************************)
(* The renderer.  Its steps are those of Emit, Written and NotWritten.     *)
(***************************************************************************)
LEMMA EventType ==
    ASSUME NEW type \in Types
    PROVE  Event(type) \in Events /\ Event(type).type = type
  BY DEF Event, Events

\* The numbered lines up to the last one, and what one more line adds.
LEMMA WholeFinite ==
    ASSUME NEW n \in Nat
    PROVE  IsFiniteSet(Whole(n)) /\ Cardinality(Whole(n)) \in Nat
<1>1. IsFiniteSet(1 .. n)
  BY FS_Interval
<1>2. Whole(n) \subseteq 1 .. n
  BY DEF Whole
<1>3. QED
  BY <1>1, <1>2, FS_Subset, FS_CardinalityType

LEMMA EmitNumbers ==
    ASSUME RendererTypeOK, NumberPart,
           NEW w \in Writers, NEW event \in Events, Emit(w, event)
    PROVE  RendererTypeOK' /\ NumberPart'
<1> USE DEF RendererTypeOK, Emit
<1> DEFINE e == [event |-> event, number |-> sequence + 1]
<1>1. e \in [event : Events, number : Nat]
  OBVIOUS
<1>2. RendererTypeOK'
  BY <1>1
<1>3. /\ emitting' = [emitting EXCEPT ![w] = e]
      /\ \A v \in Writers : emitting[v] = None
  BY DEF MutexFree
<1>4. OneWriter'
  BY <1>3 DEF OneWriter
<1>5. NumberedInOrder' /\ (json => sequence = Cardinality(Whole(Len(wire))))'
  BY DEF NumberPart, NumberedInOrder, Whole
<1>6. QED
  BY <1>2, <1>4, <1>5 DEF NumberPart

\* Appending the line of a writer keeps the numbers in order.
LEMMA AppendNumbers ==
    ASSUME RendererTypeOK, NumberPart, json,
           NEW w \in Writers, emitting[w] # None, NEW whole \in BOOLEAN,
           wire' = Append(wire, Fragment(w, whole)),
           sequence' = IF whole THEN sequence + 1 ELSE sequence,
           UNCHANGED json
    PROVE  /\ wire' \in Seq([type : Types, exit : Exits \cup {None}, number : Nat,
                             whole : BOOLEAN])
           /\ sequence' = Cardinality(Whole(Len(wire)))'
           /\ NumberedInOrder'
<1> USE DEF RendererTypeOK
<1> DEFINE n == Len(wire)
           Fragments == [type : Types, exit : Exits \cup {None}, number : Nat,
                         whole : BOOLEAN]
           f == Fragment(w, whole)
<1>1. f \in Fragments /\ f.whole = whole /\ f.number = sequence + 1
  <2>1. emitting[w] \in [event : Events, number : Nat]
    OBVIOUS
  <2>2. QED
    BY <2>1 DEF Fragment, Events, NumberPart, OneWriter
<1>2. wire' \in Seq(Fragments) /\ Len(wire') = n + 1
      /\ wire'[n + 1] = f /\ \A i \in 1 .. n : wire'[i] = wire[i]
  BY <1>1
<1>3. n \in Nat
  OBVIOUS
<1> HIDE DEF n, f, Fragments
<1>4. Whole(n) = {j \in 1 .. n : wire[j].whole}
  BY DEF Whole
<1>5. Whole(Len(wire))' = IF whole THEN Whole(n) \cup {n + 1} ELSE Whole(n)
  BY <1>1, <1>2, <1>3 DEF Whole
<1>6. Cardinality(Whole(Len(wire))') =
        IF whole THEN Cardinality(Whole(n)) + 1 ELSE Cardinality(Whole(n))
  <2>1. n + 1 \notin Whole(n)
    BY <1>3 DEF Whole
  <2>2. IsFiniteSet(Whole(n))
    BY <1>3, WholeFinite
  <2>3. Cardinality(Whole(n) \cup {n + 1}) = Cardinality(Whole(n)) + 1
    BY <2>1, <2>2, FS_AddElement
  <2>4. QED
    BY <1>5, <2>3
<1>7. sequence = Cardinality(Whole(n))
  BY DEF NumberPart, n
<1>8. NumberedInOrder'
  <2> SUFFICES ASSUME NEW i \in 1 .. n + 1
               PROVE  wire'[i].number =
                        1 + Cardinality({j \in 1 .. i - 1 : wire'[j].whole})
    BY <1>2, <1>3 DEF NumberedInOrder, Fragments
  <2>1. {j \in 1 .. i - 1 : wire'[j].whole} = {j \in 1 .. i - 1 : wire[j].whole}
    BY <1>2, <1>3
  <2>2. CASE i \in 1 .. n
    <3>1. wire[i].number = 1 + Cardinality({j \in 1 .. i - 1 : wire[j].whole})
      BY <2>2 DEF NumberPart, NumberedInOrder, n
    <3>2. QED
      BY <1>2, <2>1, <2>2, <3>1
  <2>3. CASE i = n + 1
    <3>1. i - 1 = n
      BY <1>3, <2>3
    <3>2. {j \in 1 .. i - 1 : wire[j].whole} = Whole(n)
      BY <1>4, <3>1
    <3>3. wire'[i].number = sequence + 1
      BY <1>1, <1>2, <2>3
    <3>4. Cardinality({j \in 1 .. i - 1 : wire'[j].whole}) = sequence
      BY <1>7, <2>1, <3>2
    <3>5. sequence + 1 = 1 + sequence
      OBVIOUS
    <3>6. QED
      BY <3>3, <3>4, <3>5
  <2>4. i \in 1 .. n \/ i = n + 1
    BY <1>3
  <2>5. QED
    BY <2>2, <2>3, <2>4
<1>9. sequence' = Cardinality(Whole(Len(wire)))'
  BY <1>6, <1>7
<1>10. QED
  BY <1>2, <1>8, <1>9 DEF Fragments

LEMMA WrittenNumbers ==
    ASSUME RendererTypeOK, NumberPart, NEW w \in Writers, Written(w)
    PROVE  RendererTypeOK' /\ NumberPart'
<1> USE DEF RendererTypeOK
<1>1. /\ emitting' = [emitting EXCEPT ![w] = None]
      /\ sequence' = sequence + 1
      /\ emitting[w] # None
      /\ UNCHANGED <<json, broken>>
      /\ wire' \in {wire, Append(wire, Fragment(w, TRUE))}
      /\ json => wire' = Append(wire, Fragment(w, TRUE))
  BY DEF Written, NumberPart, OneWriter, Silent
<1>2. emitting' \in [Writers -> [event : Events, number : Nat] \cup {None}]
  BY <1>1
<1>3. Fragment(w, TRUE) \in [type : Types, exit : Exits \cup {None}, number : Nat,
                              whole : BOOLEAN]
  <2>1. emitting[w] \in [event : Events, number : Nat]
    BY <1>1
  <2>2. QED
    BY <2>1 DEF Fragment, Events
<1>4. RendererTypeOK'
  <2> DEFINE Fragments == [type : Types, exit : Exits \cup {None}, number : Nat,
                           whole : BOOLEAN]
  <2>1. wire \in Seq(Fragments)
    OBVIOUS
  <2> HIDE DEF Fragments
  <2>2. \A f \in Fragments : Append(wire, f) \in Seq(Fragments)
    BY <2>1
  <2>3. wire' \in Seq(Fragments)
    BY <1>1, <1>3, <2>1, <2>2 DEF Fragments
  <2>4. QED
    BY <1>1, <1>2, <2>3 DEF Fragments
<1>5. OneWriter'
  BY <1>1 DEF NumberPart, OneWriter
<1>6. (json => sequence = Cardinality(Whole(Len(wire))))' /\ NumberedInOrder'
  <2>1. CASE json
    BY <1>1, <2>1, AppendNumbers
  <2>2. CASE ~json
    BY <1>1, <2>2 DEF NumberedInOrder
  <2>3. QED
    BY <2>1, <2>2
<1>7. QED
  BY <1>4, <1>5, <1>6 DEF NumberPart

LEMMA NotWrittenNumbers ==
    ASSUME RendererTypeOK, NumberPart, NEW w \in Writers, NotWritten(w)
    PROVE  RendererTypeOK' /\ NumberPart'
<1> USE DEF RendererTypeOK
<1>1. /\ emitting' = [emitting EXCEPT ![w] = None]
      /\ emitting[w] # None
      /\ broken' = TRUE
      /\ UNCHANGED <<json, sequence>>
      /\ wire' \in {wire, Append(wire, Fragment(w, FALSE))}
  BY DEF NotWritten
<1>2. emitting' \in [Writers -> [event : Events, number : Nat] \cup {None}]
  BY <1>1
<1>3. Fragment(w, FALSE) \in [type : Types, exit : Exits \cup {None}, number : Nat,
                               whole : BOOLEAN]
  <2>1. emitting[w] \in [event : Events, number : Nat]
    BY <1>1
  <2>2. QED
    BY <2>1 DEF Fragment, Events
<1>4. RendererTypeOK'
  <2> DEFINE Fragments == [type : Types, exit : Exits \cup {None}, number : Nat,
                           whole : BOOLEAN]
  <2>1. wire \in Seq(Fragments)
    OBVIOUS
  <2> HIDE DEF Fragments
  <2>2. \A f \in Fragments : Append(wire, f) \in Seq(Fragments)
    BY <2>1
  <2>3. wire' \in Seq(Fragments)
    BY <1>1, <1>3, <2>1, <2>2 DEF Fragments
  <2>4. QED
    BY <1>1, <1>2, <2>3 DEF Fragments
<1>5. OneWriter'
  BY <1>1 DEF NumberPart, OneWriter
<1>6. (json => sequence = Cardinality(Whole(Len(wire))))' /\ NumberedInOrder'
  <2>1. CASE wire' = wire
    BY <1>1, <2>1 DEF NumberPart, NumberedInOrder, Whole
  <2>2. CASE json /\ wire' = Append(wire, Fragment(w, FALSE))
    BY <1>1, <2>2, AppendNumbers
  <2>3. CASE ~json
    BY <1>1, <2>3 DEF NumberedInOrder
  <2>4. QED
    BY <1>1, <2>1, <2>2, <2>3
<1>7. QED
  BY <1>4, <1>5, <1>6 DEF NumberPart

\* A step that writes nothing leaves the numbers alone.
LEMMA SilentNumbers ==
    ASSUME RendererTypeOK, NumberPart, UNCHANGED rendererVars
    PROVE  RendererTypeOK' /\ NumberPart'
<1> USE DEF rendererVars
<1>1. RendererTypeOK'
  BY DEF RendererTypeOK
<1>2. NumberPart'
  BY DEF NumberPart, OneWriter, NumberedInOrder, Whole
<1>3. QED
  BY <1>1, <1>2

-----------------------------------------------------------------------------
(***************************************************************************)
(* Facts about the control.                                                *)
(***************************************************************************)
LEMMA RenderingType ==
    /\ Rendering \in Seq(Events) /\ Rendering # <<>>
    /\ \A i \in DOMAIN Rendering : Rendering[i].type \notin {"completed", "error"}
<1> DEFINE Shown == {e \in Events : e.type \notin {"completed", "error"}}
<1>1. Event("fact") \in Shown /\ Event("diagnostic") \in Shown /\ Event("plan") \in Shown
  BY EventType DEF Types
<1>2. Shown \subseteq Events
  OBVIOUS
<1> DEFINE facts == <<Event("fact"), Event("fact")>>
           diagnostics == IF Blocked # None THEN <<Event("diagnostic")>> ELSE <<>>
           plan == <<Event("plan")>>
<1> HIDE DEF Shown
<1>3. facts \in Seq(Shown) /\ diagnostics \in Seq(Shown) /\ plan \in Seq(Shown)
  BY <1>1
<1>4. Len(facts) = 2 /\ Len(plan) = 1
  OBVIOUS
<1>5. Rendering = facts \o diagnostics \o plan
  BY DEF Rendering
<1> HIDE DEF facts, diagnostics, plan
<1>6. Rendering \in Seq(Shown) /\ Len(Rendering) > 0
  <2>1. facts \o diagnostics \in Seq(Shown)
    BY <1>3
  <2>2. Rendering \in Seq(Shown)
        /\ Len(Rendering) = Len(facts \o diagnostics) + Len(plan)
    BY <1>3, <1>5, <2>1
  <2>3. QED
    BY <1>3, <1>4, <2>1, <2>2
<1>7. \A i \in DOMAIN Rendering : Rendering[i] \in Shown
  BY <1>6
<1>8. QED
  BY <1>2, <1>6, <1>7 DEF Shown

LEMMA ExitType ==
    ASSUME TypeOK
    PROVE  /\ Exit \in Exits
           /\ Completed \in Events /\ Completed.type = "completed"
           /\ Completed.exit = Exit
<1>1. ExitCodes = {Codes[code] : code \in DOMAIN Codes} \cup {0, 1}
  BY DEF ExitCodes
<1>2. Exit \in Exits
  BY <1>1, NoneAssumption DEF TypeOK, Exit, Exits
<1>3. QED
  BY <1>2 DEF Completed, Events, Types

\* A command that has an error and no child's exit has failed itself.
LEMMA FailedExit ==
    ASSUME childExit = None, error \in DOMAIN Codes
    PROVE  Failed
<1>1. \A code \in DOMAIN Codes : Codes[code] # 0
  BY DEF Codes
<1>2. Exit = [origin |-> "elefante", code |-> Codes[error]]
  BY NoneAssumption DEF Exit
<1>3. QED
  BY <1>1, <1>2 DEF Failed

\* The steps that write nothing, and what they have in common: nothing is
\* being written when they are taken.
Quiet ==
    ReportFailure \/ ReportSuccess \/ Analyze \/ Sync \/ Run
LEMMA QuietStep ==
    ASSUME IInv, Quiet
    PROVE  /\ UNCHANGED <<rendererVars, project, edits, invocation, chunks, exit>>
           /\ at \notin {"emit", "ended"}
           /\ \A w \in Writers : emitting[w] = None
<1> USE DEF Quiet, Analyze, Sync, Run, UseUnchanged, Ending, worldVars, approvalVars
<1>1. UNCHANGED <<rendererVars, project, edits, invocation, chunks, exit>>
  <2>1. CASE ReportFailure \/ ReportSuccess
    BY <2>1 DEF ReportFailure, ReportSuccess, childVars
  <2>2. CASE Dispatch \/ Misused \/ Discover \/ Inspect \/ Resolve \/ Show
    BY <2>2 DEF Dispatch, Misused, Discover, Inspect, Resolve, Show, childVars
  <2>3. CASE SyncRefused \/ Apply \/ Ask \/ Decline \/ Confirm \/ ApplyEnds
    BY <2>3 DEF SyncRefused, Apply, Ask, Decline, Confirm, ApplyEnds, childVars
  <2>4. CASE RunRefused \/ RunChild \/ ChildEnds
    BY <2>4 DEF RunRefused, RunChild, ChildEnds, childVars
  <2>5. QED
    BY <2>1, <2>2, <2>3, <2>4
<1>2. at \notin {"emit", "ended"} /\ (at = "wait" => Drained)
  <2>1. CASE ReportFailure \/ ReportSuccess
    BY <2>1 DEF ReportFailure, ReportSuccess
  <2>2. CASE Dispatch \/ Misused \/ Discover \/ Inspect \/ Resolve \/ Show
    BY <2>2 DEF Dispatch, Misused, Discover, Inspect, Resolve, Show
  <2>3. CASE SyncRefused \/ Apply \/ Ask \/ Decline \/ Confirm \/ ApplyEnds
    BY <2>3 DEF SyncRefused, Apply, Ask, Decline, Confirm, ApplyEnds, Drained
  <2>4. CASE RunRefused \/ RunChild \/ ChildEnds
    BY <2>4 DEF RunRefused, RunChild, ChildEnds, Drained
  <2>5. QED
    BY <2>1, <2>2, <2>3, <2>4
<1>3. DOMAIN chunks = {"stdout", "stderr"}
  BY DEF IInv, TypeOK
<1>4. QED
  BY <1>1, <1>2, <1>3 DEF IInv, WriterPart, Writers, Drained

-----------------------------------------------------------------------------
(***************************************************************************)
(* Where the steps that write nothing lead.  The rendering of an analysis  *)
(* is emitted, or the events that end the command, or nothing.             *)
(***************************************************************************)
LEMMA Joined ==
    ASSUME NEW S, NEW a \in S, NEW b \in S
    PROVE  /\ <<a>> \o <<b>> = <<a, b>> /\ <<>> \o <<b>> = <<b>>
           /\ <<a, b>> \in Seq(S) \ {<<>>} /\ <<b>> \in Seq(S) \ {<<>>}
           /\ Len(<<a, b>>) = 2 /\ Head(<<a, b>>) = a /\ Tail(<<a, b>>) = <<b>>
           /\ Len(<<b>>) = 1 /\ Head(<<b>>) = b
<1>1. <<a>> \in Seq(S) /\ <<b>> \in Seq(S) /\ <<a, b>> \in Seq(S)
  OBVIOUS
<1>2. Len(<<a>> \o <<b>>) = 2 /\ (<<a>> \o <<b>>)[1] = a /\ (<<a>> \o <<b>>)[2] = b
  BY <1>1
<1>3. <<a>> \o <<b>> \in Seq(S)
  BY <1>1
<1>4. \A i \in 1 .. 2 : (<<a>> \o <<b>>)[i] = <<a, b>>[i]
  BY <1>2
<1>5. <<a>> \o <<b>> = <<a, b>>
  BY <1>1, <1>2, <1>3, <1>4, SeqEqual
<1>6. <<b>> # <<>> /\ <<a, b>> # <<>>
  OBVIOUS
<1>7. Tail(<<a, b>>) = <<b>>
  <2>1. Tail(<<a, b>>) \in Seq(S) /\ Len(Tail(<<a, b>>)) = 1 /\ Tail(<<a, b>>)[1] = b
    BY <1>1
  <2>2. \A i \in 1 .. 1 : Tail(<<a, b>>)[i] = <<b>>[i]
    BY <2>1
  <2>3. QED
    BY <1>1, <2>1, <2>2, SeqEqual
<1>8. /\ Len(<<a, b>>) = 2 /\ Head(<<a, b>>) = a
      /\ Len(<<b>>) = 1 /\ Head(<<b>>) = b
  OBVIOUS
<1>9. QED
  BY <1>1, <1>5, <1>6, <1>7, <1>8, ConcatEmptySeq

LEMMA SyncReturnsTo ==
    ASSUME TypeOK, NEW code \in DOMAIN Codes \cup {None}, SyncReturns(code)
    PROVE  /\ error' = code
           /\ at' \in {"emit", "succeed", "fail"}
           /\ at' = "emit" =>
                /\ queue' = Rendering /\ next' \in {"succeed", "ask", "fail"}
                /\ next' = "succeed" <=> code = None
                /\ next' = "ask" => code = "approval"
           /\ at' # "emit" => UNCHANGED <<queue, next>>
           /\ at' = "succeed" => code = None
           /\ at' = "fail" => code # None
<1>1. None # "approval"
  BY NoneAssumption DEF Codes
<1>2. QED
  BY <1>1 DEF SyncReturns, Start

LEMMA EndingTo ==
    ASSUME TypeOK
    PROVE  /\ ReportFailure => queue' = <<Event("error"), Completed>>
           /\ ReportSuccess => queue' = <<Completed>>
           /\ ReportFailure \/ ReportSuccess =>
                /\ at' = "emit" /\ next' = "ended"
                /\ queue' \in Seq(Events) /\ queue' # <<>>
                /\ UNCHANGED <<error, analysis, current, shown, approved, second,
                               applied, child, childExit>>
<1>1. Event("error") \in Events /\ Completed \in Events
  BY EventType, ExitType DEF Types
<1>2. ReportFailure => queue' = <<Event("error")>> \o <<Completed>>
  BY DEF ReportFailure, Ending, Start
<1>3. ReportSuccess => queue' = <<>> \o <<Completed>>
  BY DEF ReportSuccess, Ending, Start
<1>4. /\ ReportFailure => queue' = <<Event("error"), Completed>>
      /\ ReportSuccess => queue' = <<Completed>>
  <2> DEFINE e == Event("error")
             c == Completed
  <2>1. e \in Events /\ c \in Events
    BY <1>1
  <2> HIDE DEF e, c
  <2>2. <<e>> \o <<c>> = <<e, c>> /\ <<>> \o <<c>> = <<c>>
    BY <2>1, Joined
  <2>3. QED
    BY <1>2, <1>3, <2>2 DEF e, c
<1>5. ReportFailure \/ ReportSuccess =>
        /\ at' = "emit" /\ next' = "ended"
        /\ UNCHANGED <<error, analysis, current, shown, approved, second,
                       applied, child, childExit>>
  BY DEF ReportFailure, ReportSuccess, Ending, Start, useVars, approvalVars, childVars
<1>6. /\ <<Event("error"), Completed>> \in Seq(Events) \ {<<>>}
      /\ <<Completed>> \in Seq(Events) \ {<<>>}
  BY <1>1, Joined
<1> HIDE DEF Event, Completed
<1>7. ReportFailure \/ ReportSuccess => queue' \in Seq(Events) \ {<<>>}
  BY <1>4, <1>6
<1>8. QED
  BY <1>4, <1>5, <1>7

\* A blocked project has an error; a plan that is refused has one too.
LEMMA BlockedType ==
    ASSUME IInv, at = "analyzed"
    PROVE  Blocked \in DOMAIN Codes \cup {None} /\ Refusal \in DOMAIN Codes \cup {None}
  BY ProjectsAssumption DEF IInv, AnalysisPart, Blocked, Refusal, Codes

\* Where the command is after a quiet step, what it has to emit and whether
\* it has an error.
Presented ==
    queue # <<>> /\ \A i \in DOMAIN queue : queue[i].type \notin {"completed", "error"}
ControlPart ==
    /\ at \in {"emit", "discover", "inspect", "resolve", "analyzed", "ask",
               "prompt", "wait", "fail", "succeed"}
    /\ next \in {"dispatch", "ask", "prompt", "fail", "succeed", "ended"}
    /\ queue \in Seq(Events)
    /\ error \in DOMAIN Codes \cup {None}
    /\ childExit \in [origin : {"child"}, code : {0, 1}] \cup {None}
    /\ child \in {"none", "running", "ended", "unreached"}
    /\ at = "emit" => next # "dispatch"
    /\ at = "emit" /\ next # "ended" => Presented

LEMMA OneEvent ==
    ASSUME NEW type \in Types \ {"completed", "error"}, queue' = <<Event(type)>>
    PROVE  queue' \in Seq(Events) /\ Presented'
<1> DEFINE e == Event(type)
<1>1. e \in Events /\ e.type \notin {"completed", "error"}
  BY EventType
<1> HIDE DEF e
<1>2. queue' = <<e>>
  BY DEF e
<1>3. QED
  BY <1>1, <1>2 DEF Presented

LEMMA QuietControl == IInv /\ Quiet => ControlPart' /\ ExitPart'
<1> SUFFICES ASSUME IInv, Quiet PROVE ControlPart' /\ ExitPart'
  OBVIOUS
<1> USE DEF IInv, TypeOK
<1>1. None \notin DOMAIN Codes /\ None \notin Exits
  BY NoneAssumption
<1>2. at \notin {"emit", "ended"} /\ broken' = broken
  BY QuietStep DEF rendererVars
<1>3. DOMAIN Codes = {"usage", "discovery", "requirements", "provider", "approval",
                      "mismatch", "network", "sync", "artifact", "state", "internal"}
  BY DEF Codes
\* A child's exit is known only to a command that has nothing left to do.
<1>4. at \notin {"fail", "succeed"} => childExit = None
  BY <1>2 DEF ExitPart, HasExit
<1> DEFINE Goes(to) == at' = to /\ UNCHANGED <<queue, next>>
<1>5. CASE ReportFailure \/ ReportSuccess
  <2>1. /\ at' = "emit" /\ next' = "ended" /\ queue' \in Seq(Events)
        /\ UNCHANGED <<error, child, childExit>>
    BY <1>5, EndingTo
  <2>2. ControlPart'
    BY <2>1 DEF ControlPart
  <2>3. ExitPart'
    BY <2>1 DEF ExitPart, HasExit, Unreached, Beginning
  <2>4. QED
    BY <2>2, <2>3
<1>6. CASE Misused \/ Discover \/ Inspect \/ Resolve \/ Decline \/ RunRefused
  <2>1. UNCHANGED <<queue, next, child, childExit>>
    BY <1>6 DEF Misused, Discover, Inspect, Resolve, Decline, RunRefused, UseUnchanged,
                Go, Fail, childVars
  <2>2. at \notin {"fail", "succeed"}
    BY <1>6 DEF Misused, Discover, Inspect, Resolve, Decline, RunRefused
  <2>3. \/ at' \in {"inspect", "resolve", "analyzed"} /\ UNCHANGED error
        \/ at' = "fail" /\ error' \in DOMAIN Codes
    <3>1. CASE Misused \/ Decline
      BY <1>3, <3>1 DEF Misused, Decline, Fail
    <3>2. CASE Discover \/ Inspect \/ Resolve
      BY <1>3, <3>2 DEF Discover, Inspect, Resolve, Go, Fail
    <3>3. CASE RunRefused
      BY <1>3, <3>3, BlockedType DEF RunRefused, Fail
    <3>4. QED
      BY <1>6, <3>1, <3>2, <3>3
  <2>4. ControlPart'
    BY <2>1, <2>3 DEF ControlPart
  <2>5. ExitPart'
    BY <1>1, <1>4, <2>1, <2>2, <2>3 DEF ExitPart, HasExit, Unreached, Beginning
  <2>6. QED
    BY <2>4, <2>5
<1>7. CASE Confirm \/ Apply \/ RunChild
  <2>1. /\ UNCHANGED <<queue, next, childExit>>
        /\ at' \in {"discover", "wait"} /\ error' \in {None, error}
        /\ child' \in {child, "running"}
    BY <1>7 DEF Confirm, Apply, RunChild, UseUnchanged, Go, childVars
  <2>2. at \in {"prompt", "analyzed"}
    BY <1>7 DEF Confirm, Apply, RunChild
  <2>3. ControlPart'
    BY <2>1 DEF ControlPart
  <2>4. ExitPart'
    BY <1>4, <2>1, <2>2 DEF ExitPart, HasExit, Unreached, Beginning
  <2>5. QED
    BY <2>3, <2>4
<1>8. CASE Dispatch
  <2>1. UNCHANGED <<error, child, childExit>> /\ at = "dispatch" /\ error = None
    BY <1>8 DEF Dispatch, UseUnchanged, Go, childVars, ExitPart, Beginning
  <2>2. CASE Start(<<Event("result")>>, "succeed")
    <3>1. queue' \in Seq(Events) /\ Presented'
      BY <2>2, OneEvent DEF Start, Types
    <3>2. ControlPart'
      BY <2>1, <2>2, <3>1 DEF Start, ControlPart
    <3>3. ExitPart'
      BY <1>4, <2>1, <2>2 DEF Start, ExitPart, HasExit, Unreached, Beginning
    <3>4. QED
      BY <3>2, <3>3
  <2>3. CASE Go("discover")
    <3>1. ControlPart'
      BY <2>1, <2>3 DEF Go, ControlPart
    <3>2. ExitPart'
      BY <1>4, <2>1, <2>3 DEF Go, ExitPart, HasExit, Unreached, Beginning
    <3>3. QED
      BY <3>1, <3>2
  <2>4. QED
    BY <1>8, <2>2, <2>3 DEF Dispatch
<1>9. CASE Show
  <2>1. /\ at = "analyzed" /\ at' = "emit" /\ queue' = Rendering
        /\ next' = IF Blocked = None THEN "succeed" ELSE "fail"
        /\ error' = Blocked /\ UNCHANGED <<child, childExit>>
    BY <1>9 DEF Show, Start, UseUnchanged, childVars
  <2>2. queue' \in Seq(Events) /\ Presented'
    BY <2>1, RenderingType DEF Presented
  <2>3. ControlPart'
    BY <2>1, <2>2, BlockedType DEF ControlPart
  <2>4. ExitPart'
    BY <1>4, <2>1 DEF ExitPart, HasExit, Unreached, Beginning
  <2>5. QED
    BY <2>3, <2>4
<1>10. CASE Ask
  <2>1. /\ at = "ask" /\ at' = "emit" /\ next' \in {"prompt", "fail"}
        /\ queue' = <<Event("approval_required")>>
        /\ UNCHANGED <<error, child, childExit>>
    BY <1>10 DEF Ask, Start, UseUnchanged, childVars
  <2>2. queue' \in Seq(Events) /\ Presented'
    BY <2>1, OneEvent DEF Types
  <2>3. ControlPart'
    BY <2>1, <2>2 DEF ControlPart
  <2>4. ExitPart'
    BY <1>4, <2>1 DEF ExitPart, HasExit, Unreached, Beginning
  <2>5. QED
    BY <2>3, <2>4
<1>11. CASE SyncRefused \/ ApplyEnds
  <2>1. PICK code \in DOMAIN Codes \cup {None} : SyncReturns(code)
    <3>1. CASE SyncRefused
      BY <3>1, BlockedType DEF SyncRefused
    <3>2. CASE ApplyEnds
      BY <1>3, <3>2 DEF ApplyEnds
    <3>3. QED
      BY <1>11, <3>1, <3>2
  <2>2. at \notin {"fail", "succeed"} /\ UNCHANGED childExit /\ child' \in {child, "ended"}
    BY <1>11 DEF SyncRefused, ApplyEnds, Drained, UseUnchanged, childVars
  <2>3. /\ error' = code
        /\ at' \in {"emit", "succeed", "fail"}
        /\ at' = "emit" =>
             /\ queue' = Rendering /\ next' \in {"succeed", "ask", "fail"}
             /\ next' = "succeed" <=> code = None
        /\ at' # "emit" => UNCHANGED <<queue, next>>
        /\ at' = "succeed" => code = None
        /\ at' = "fail" => code # None
    BY <2>1, SyncReturnsTo
  <2>4. at' = "emit" => queue' \in Seq(Events) /\ Presented'
    BY <2>3, RenderingType DEF Presented
  <2>5. ControlPart'
    BY <2>2, <2>3, <2>4 DEF ControlPart
  <2>6. ExitPart'
    BY <1>4, <2>2, <2>3 DEF ExitPart, HasExit, Unreached, Beginning
  <2>7. QED
    BY <2>5, <2>6
<1>12. CASE ChildEnds
  <2>1. PICK code \in {0, 1}, reached \in BOOLEAN :
          /\ child' = IF reached THEN "ended" ELSE "unreached"
          /\ childExit' = [origin |-> "child", code |-> code]
          /\ IF ~reached \/ (broken /\ code = 0) THEN Fail("provider")
             ELSE Go("succeed")
    BY <1>12 DEF ChildEnds
  <2>2. childExit' \in [origin : {"child"}, code : {0, 1}] /\ childExit' \in Exits
    BY <2>1 DEF Exits, ExitCodes
  <2>3. /\ child' \in {"ended", "unreached"} /\ UNCHANGED <<queue, next>>
        /\ \/ at' = "succeed" /\ UNCHANGED error /\ ~Unreached'
           \/ at' = "fail" /\ (broken \/ Unreached') /\ error' \in DOMAIN Codes
    BY <1>3, <2>1 DEF Go, Fail, Unreached
  <2>4. ControlPart'
    BY <2>2, <2>3 DEF ControlPart
  <2>5. ExitPart'
    BY <1>1, <1>2, <2>2, <2>3 DEF ExitPart, HasExit, Unreached, Beginning
  <2>6. QED
    BY <2>4, <2>5
<1>13. QED
  BY <1>5, <1>6, <1>7, <1>8, <1>9, <1>10, <1>11, <1>12 DEF Quiet, Analyze, Sync, Run

\* What the analysis has read, what was shown and approved, and what the
\* engine has received; a quiet step is the only one that changes any of it.
LEMMA QuietAnalysis ==
    IInv /\ Quiet => TypeOK' /\ AnalysisPart' /\ ApprovalPart' /\ AppliedPart' /\ CurrentPart'
<1> SUFFICES ASSUME IInv, Quiet
             PROVE  TypeOK' /\ AnalysisPart' /\ ApprovalPart' /\ AppliedPart' /\ CurrentPart'
  OBVIOUS
<1>1. /\ UNCHANGED <<rendererVars, project, edits, invocation, chunks, exit>>
      /\ at \notin {"emit", "ended"}
  BY QuietStep
<1>2. ControlPart'
  BY QuietControl
<1> USE DEF IInv
<1>3. None \notin DOMAIN Codes
  BY NoneAssumption
\* What has to be shown of the parts of the invariant a step disturbs.
<1> DEFINE Analyses == [facts : Projects \cup {None}, observed : Projects \cup {None},
                        released : Projects \cup {None}]
           Typed == /\ analysis' \in Analyses
                    /\ shown' \in Digests \cup {None} /\ approved' \in Digests \cup {None}
                    /\ applied' \in Digests \cup {None}
                    /\ second' \in BOOLEAN /\ current' \in BOOLEAN
<1>4. Typed => TypeOK'
  <2>1. RendererTypeOK'
    BY <1>1 DEF TypeOK, RendererTypeOK, rendererVars
  <2>2. QED
    BY <1>1, <1>2, <2>1 DEF TypeOK, ControlPart
<1> DEFINE Goal == Typed /\ AnalysisPart' /\ ApprovalPart' /\ AppliedPart' /\ CurrentPart'
<1>5. CASE ReportFailure \/ ReportSuccess
  <2>1. /\ at' = "emit" /\ next' = "ended" /\ at \in {"fail", "succeed"}
        /\ UNCHANGED <<analysis, current, shown, approved, second, applied>>
    BY <1>5, EndingTo DEF ReportFailure, ReportSuccess
  <2>2. Goal
    BY <1>1, <2>1 DEF TypeOK, AnalysisPart, ApprovalPart, AppliedPart, CurrentPart,
         Beginning, Analyzing, Over, AppliedWasApproved
  <2>3. QED
    BY <1>4, <2>2
<1>6. CASE Dispatch \/ Misused
  <2>1. /\ at = "dispatch" /\ at' \in {"emit", "discover", "fail"}
        /\ at' = "emit" => next' = "succeed"
        /\ UNCHANGED <<analysis, current, shown, approved, second, applied>>
    BY <1>6 DEF Dispatch, Misused, Start, Go, Fail, useVars, approvalVars, UseUnchanged
  <2>2. Goal
    BY <1>1, <2>1 DEF TypeOK, AnalysisPart, ApprovalPart, AppliedPart, CurrentPart,
         Beginning, Analyzing, Over, AppliedWasApproved
  <2>3. QED
    BY <1>4, <2>2
<1>7. CASE Discover \/ Inspect \/ Resolve
  <2>1. /\ UNCHANGED <<shown, approved, second, applied>>
        /\ at \in {"discover", "inspect", "resolve"}
        /\ at' \in {"inspect", "resolve", "analyzed", "fail"}
    BY <1>7 DEF Discover, Inspect, Resolve, Go, Fail, approvalVars, UseUnchanged
  <2>2. ApprovalPart' /\ AppliedPart'
    BY <1>1, <2>1 DEF ApprovalPart, AppliedPart, Beginning, Analyzing, Over, AppliedWasApproved
  <2>3. project \in Projects
    BY DEF TypeOK
  <2>4. NoAnalysis \in Analyses
    BY DEF NoAnalysis
  <2>5. CASE Discover
    <3>1. \/ at' = "inspect" /\ analysis' = [NoAnalysis EXCEPT !.facts = project]
          \/ at' = "fail" /\ analysis' = NoAnalysis
      BY <2>5 DEF Discover, Go, Fail
    <3>2. Typed
      BY <2>1, <2>3, <2>4, <2>5, <3>1 DEF TypeOK, Discover
    <3>3. analysis' \in Analyses /\ (at' = "inspect" => analysis'.facts = project)
      BY <2>3, <2>4, <3>1
    <3>4. AnalysisPart' /\ CurrentPart'
      BY <1>1, <2>3, <3>1, <3>3 DEF AnalysisPart, CurrentPart
    <3>5. QED
      BY <1>4, <2>2, <3>2, <3>4
  <2>6. CASE Inspect
    <3>1. \/ /\ at' = IF Operation = "sync" THEN "resolve" ELSE "analyzed"
             /\ analysis' = [analysis EXCEPT !.observed = project]
          \/ at' = "fail" /\ analysis' = NoAnalysis
      BY <2>6 DEF Inspect, Go, Fail
    <3>2. UNCHANGED current
      BY <2>6 DEF Inspect
    <3>3. Typed
      BY <2>1, <2>3, <2>4, <3>1, <3>2 DEF TypeOK
    <3>4. AnalysisPart' /\ CurrentPart'
      BY <1>1, <2>3, <2>6, <3>1, <3>2 DEF TypeOK, AnalysisPart, CurrentPart, Inspect, Operation
    <3>5. QED
      BY <1>4, <2>2, <3>3, <3>4
  <2>7. CASE Resolve
    <3>1. \/ /\ at' = "analyzed"
             /\ analysis' = [analysis EXCEPT !.released = project]
          \/ at' = "fail" /\ analysis' = NoAnalysis
      BY <2>7 DEF Resolve, Go, Fail
    <3>2. UNCHANGED current /\ at = "resolve"
      BY <2>7 DEF Resolve
    <3>3. Typed
      BY <2>1, <2>3, <2>4, <3>1, <3>2 DEF TypeOK
    <3>4. at' = "analyzed" => analysis' \in Digests
      BY <2>3, <3>1, <3>2 DEF TypeOK, AnalysisPart, Digests
    <3>5. AnalysisPart'
      BY <3>1, <3>4 DEF AnalysisPart, Digests
    <3>6. CurrentPart'
      BY <1>1, <3>1, <3>2 DEF TypeOK, CurrentPart
    <3>7. QED
      BY <1>4, <2>2, <3>3, <3>5, <3>6
  <2>8. QED
    BY <1>7, <2>5, <2>6, <2>7
<1>8. CASE Show \/ RunRefused \/ RunChild
  <2>1. /\ at = "analyzed" /\ invocation.of # "sync"
        /\ at' \in {"emit", "fail", "wait"}
        /\ at' = "emit" => next' \in {"succeed", "fail"}
        /\ UNCHANGED <<analysis, current, shown, approved, second, applied>>
    BY <1>8 DEF Show, RunRefused, RunChild, Start, Go, Fail, useVars, approvalVars, UseUnchanged
  <2>2. Goal
    BY <1>1, <2>1 DEF TypeOK, AnalysisPart, ApprovalPart, AppliedPart, CurrentPart,
         Beginning, Analyzing, Over, AppliedWasApproved
  <2>3. QED
    BY <1>4, <2>2
<1>9. CASE SyncRefused
  <2>1. PICK code \in DOMAIN Codes \cup {None} : SyncReturns(code)
    BY <1>9, BlockedType DEF SyncRefused
  <2>2. /\ at = "analyzed" /\ invocation.of = "sync"
        /\ UNCHANGED <<analysis, current, shown, approved, second, applied>>
    BY <1>9 DEF SyncRefused, useVars, approvalVars, UseUnchanged
  <2>3. /\ at' \in {"emit", "succeed", "fail"}
        /\ at' = "emit" => next' \in {"succeed", "ask", "fail"}
    BY <2>1, SyncReturnsTo
  <2>4. applied = None
    BY <2>2 DEF AppliedPart, Over
  <2>5. Goal
    BY <1>1, <2>2, <2>3, <2>4 DEF TypeOK, AnalysisPart, ApprovalPart, AppliedPart, CurrentPart,
         Beginning, Analyzing, Over, AppliedWasApproved
  <2>6. QED
    BY <1>4, <2>5
<1>10. CASE Apply
  <2>1. /\ at = "analyzed" /\ at' = "wait" /\ invocation.of = "sync"
        /\ applied' = analysis /\ Refusal = None
        /\ UNCHANGED <<analysis, current, shown, approved, second>>
    BY <1>10 DEF Apply, Go, useVars, approvalVars
  <2>2. analysis \in Digests
    BY <2>1 DEF AnalysisPart
  <2>3. Typed
    BY <2>1, <2>2 DEF TypeOK
  <2>4. AnalysisPart' /\ ApprovalPart'
    BY <1>1, <2>1 DEF AnalysisPart, ApprovalPart, Beginning, Analyzing
  <2>5. NeedsApproval[analysis.facts] =>
          invocation.yes \/ (approved # None /\ approved = analysis)
    <3>1. None \notin {"mismatch", "approval"}
      BY <1>3 DEF Codes
    <3>2. QED
      BY <2>1, <3>1 DEF Refusal
  <2>6. AppliedPart'
    BY <1>1, <2>1, <2>5 DEF AppliedPart, AppliedWasApproved, Over, ApprovalPart, Analyzing
  <2>7. CurrentPart'
    BY <1>1, <2>1, <2>2 DEF CurrentPart, Digests
  <2>8. QED
    BY <1>4, <2>3, <2>4, <2>6, <2>7
<1>11. CASE Ask
  <2>1. /\ at = "ask" /\ at' = "emit" /\ next' \in {"prompt", "fail"}
        /\ shown' = analysis
        /\ UNCHANGED <<analysis, current, approved, second, applied>>
    BY <1>11 DEF Ask, Start, useVars, UseUnchanged
  <2>2. analysis \in Digests /\ applied = None
    BY <2>1 DEF AnalysisPart, AppliedPart, Over
  <2>3. Goal
    BY <1>1, <2>1, <2>2 DEF TypeOK, AnalysisPart, ApprovalPart, AppliedPart, CurrentPart,
         Beginning, Analyzing, Over, AppliedWasApproved
  <2>4. QED
    BY <1>4, <2>3
<1>12. CASE Decline
  <2>1. /\ at = "prompt" /\ at' = "fail"
        /\ UNCHANGED <<analysis, current, shown, approved, second, applied>>
    BY <1>12 DEF Decline, Fail, useVars, approvalVars, UseUnchanged
  <2>2. Goal
    BY <1>1, <2>1 DEF TypeOK, AnalysisPart, ApprovalPart, AppliedPart, CurrentPart,
         Beginning, Analyzing, Over, AppliedWasApproved
  <2>3. QED
    BY <1>4, <2>2
<1>13. CASE Confirm
  <2>1. /\ at = "prompt" /\ at' = "discover"
        /\ approved' = shown /\ second' = TRUE /\ current' = TRUE
        /\ UNCHANGED <<analysis, shown, applied>>
    BY <1>13 DEF Confirm, UseUnchanged
  <2>2. applied = None
    BY <2>1 DEF AppliedPart, Over
  <2>3. Goal
    BY <1>1, <2>1, <2>2 DEF TypeOK, AnalysisPart, ApprovalPart, AppliedPart, CurrentPart,
         Beginning, Analyzing, Over, AppliedWasApproved
  <2>4. QED
    BY <1>4, <2>3
<1>14. CASE ApplyEnds
  <2>1. PICK code \in {None, "sync", "state", "artifact"} : SyncReturns(code)
    BY <1>14 DEF ApplyEnds
  <2>2. code # "approval" /\ code \in DOMAIN Codes \cup {None}
    BY <1>3 DEF Codes
  <2>3. /\ at = "wait"
        /\ UNCHANGED <<analysis, current, shown, approved, second, applied>>
    BY <1>14 DEF ApplyEnds, Drained, useVars, approvalVars
  <2>4. /\ at' \in {"emit", "succeed", "fail"}
        /\ at' = "emit" => next' \in {"succeed", "fail"}
    BY <2>1, <2>2, SyncReturnsTo
  <2>5. Goal
    BY <1>1, <2>3, <2>4 DEF TypeOK, AnalysisPart, ApprovalPart, AppliedPart, CurrentPart,
         Beginning, Analyzing, Over, AppliedWasApproved
  <2>6. QED
    BY <1>4, <2>5
<1>15. CASE ChildEnds
  <2>1. /\ at = "wait" /\ at' \in {"fail", "succeed"}
        /\ UNCHANGED <<analysis, current, shown, approved, second, applied>>
    BY <1>15 DEF ChildEnds, Drained, Go, Fail, useVars, approvalVars
  <2>2. Goal
    BY <1>1, <2>1 DEF TypeOK, AnalysisPart, ApprovalPart, AppliedPart, CurrentPart,
         Beginning, Analyzing, Over, AppliedWasApproved
  <2>3. QED
    BY <1>4, <2>2
<1>16. QED
  BY <1>5, <1>6, <1>7, <1>8, <1>9, <1>10, <1>11, <1>12, <1>13, <1>14, <1>15
     DEF Quiet, Analyze, Sync, Run

\* Nothing is being written, so the next writer finds what it needs, and what
\* is on the wire stays as it is.
LEMMA QuietFrame == IInv /\ Quiet => WriterPart' /\ QueuePart' /\ FramePart'
<1> SUFFICES ASSUME IInv, Quiet PROVE WriterPart' /\ QueuePart' /\ FramePart'
  OBVIOUS
<1>1. /\ UNCHANGED <<json, emitting, wire, broken, chunks, exit>>
      /\ at \notin {"emit", "ended"}
      /\ \A w \in Writers : emitting[w] = None
  BY QuietStep DEF rendererVars
<1>2. ControlPart' /\ ExitPart'
  BY QuietControl
<1>3. WriterPart'
  <2>1. DOMAIN chunks = {"stdout", "stderr"}
    BY DEF IInv, TypeOK
  <2>2. at' = "emit" => queue' # <<>>
    <3>1. CASE next' = "ended"
      <4>1. at' = "emit" => ReportFailure \/ ReportSuccess
        BY <1>1, <3>1 DEF Quiet, Analyze, Sync, Run, Dispatch, Misused, Discover, Inspect,
             Resolve, Show, SyncRefused, Apply, Ask, Decline, Confirm, ApplyEnds,
             SyncReturns, RunRefused, RunChild, ChildEnds, Start, Go, Fail
      <4>2. QED
        BY <4>1, EndingTo DEF IInv
    <3>2. QED
      BY <1>2, <3>1 DEF ControlPart, Presented
  <2>3. QED
    BY <1>1, <2>1, <2>2 DEF WriterPart, Writers
<1>4. at' = "emit" /\ next' # "ended" =>
        \A i \in DOMAIN queue' : queue'[i].type \notin {"completed", "error"}
  BY <1>2 DEF ControlPart, Presented
\* The wire has begun, and has neither an error nor an end.
<1>5. json /\ ~broken =>
        /\ wire' # <<>> /\ wire'[1].type = "started"
        /\ \A i \in DOMAIN wire' : wire'[i].type # "completed"
        /\ ~HasError'
        /\ Framed'
  <2>1. json /\ ~broken =>
          /\ wire # <<>> /\ wire[1].type = "started"
          /\ \A i \in DOMAIN wire : wire[i].type # "completed"
          /\ ~HasError
    BY <1>1 DEF IInv, FramePart
  <2>2. Framed'
    BY <1>2 DEF ControlPart, Framed, Ended
  <2>3. QED
    BY <1>1, <2>1, <2>2 DEF HasError
<1>6. CASE ReportFailure
  <2>1. queue' = <<Event("error"), Completed>> /\ at' = "emit" /\ next' = "ended"
    BY <1>6, EndingTo DEF IInv
  <2>2. UNCHANGED <<error, child, childExit>>
    BY <1>6, EndingTo DEF IInv
  <2>3. Completed' = Completed /\ Failed' = Failed
    BY <2>2 DEF Completed, Failed, Exit, Unreached
  <2>4. ~broken => Failed
    <3>1. ~broken => Unreached \/ (childExit = None /\ error \in DOMAIN Codes)
      BY <1>6 DEF IInv, TypeOK, ReportFailure, ExitPart, HasExit
    <3>2. QED
      BY <3>1, FailedExit DEF Failed
  <2>5. QueuePart'
    BY <2>1, <2>3 DEF QueuePart
  <2>6. FramePart'
    BY <1>1, <1>5, <2>1, <2>3, <2>4 DEF FramePart
  <2>7. QED
    BY <1>3, <2>5, <2>6
<1>7. CASE ReportSuccess
  <2>1. queue' = <<Completed>> /\ at' = "emit" /\ next' = "ended"
    BY <1>7, EndingTo DEF IInv
  <2>2. UNCHANGED <<error, child, childExit>>
    BY <1>7, EndingTo DEF IInv
  <2>3. Completed' = Completed /\ Failed' = Failed
    BY <2>2 DEF Completed, Failed, Exit, Unreached
  <2>4. ~Failed
    <3>1. /\ ~Unreached
          /\ \/ childExit # None /\ childExit \in [origin : {"child"}, code : {0, 1}]
             \/ childExit = None /\ error = None
      BY <1>7 DEF IInv, TypeOK, ReportSuccess, ExitPart, HasExit
    <3>2. QED
      BY <3>1 DEF Failed, Exit
  <2>5. QueuePart'
    BY <2>1, <2>3 DEF QueuePart
  <2>6. FramePart'
    BY <1>1, <1>5, <2>1, <2>3, <2>4 DEF FramePart
  <2>7. QED
    BY <1>3, <2>5, <2>6
<1>8. CASE ~ReportFailure /\ ~ReportSuccess
  <2>1. ~(at' = "emit" /\ next' = "ended") /\ at' # "ended"
    BY <1>1, <1>2, <1>8 DEF Quiet, Analyze, Sync, Run, Dispatch, Misused, Discover, Inspect,
         Resolve, Show, SyncRefused, Apply, Ask, Decline, Confirm, ApplyEnds,
         SyncReturns, RunRefused, RunChild, ChildEnds, Start, Go, Fail, ControlPart
  <2>2. QueuePart'
    BY <1>4, <2>1 DEF QueuePart
  <2>3. FramePart'
    BY <1>1, <1>5, <2>1 DEF FramePart
  <2>4. QED
    BY <1>3, <2>2, <2>3
<1>9. QED
  BY <1>6, <1>7, <1>8

LEMMA QuietIInv == IInv /\ Quiet => IInv'
<1> SUFFICES ASSUME IInv, Quiet PROVE IInv'
  OBVIOUS
<1>1. NumberPart'
  BY QuietStep, SilentNumbers DEF IInv, TypeOK
<1>2. QED
  BY <1>1, QuietControl, QuietAnalysis, QuietFrame DEF IInv

-----------------------------------------------------------------------------
(***************************************************************************)
(* The events of the command.                                              *)
(***************************************************************************)
EventUnchanged ==
    UNCHANGED <<useVars, approvalVars, childVars, worldVars, applied>>

LEMMA BeginEventIInv == IInv /\ BeginEvent => IInv'
<1> SUFFICES ASSUME IInv, BeginEvent PROVE IInv'
  OBVIOUS
<1> USE DEF IInv
<1>1. /\ at = "emit" /\ queue # <<>> /\ Emit("main", Head(queue))
      /\ UNCHANGED <<at, queue, next, error, analysis, current, invocation, shown,
                     approved, second, child, chunks, childExit, project, edits,
                     applied, exit>>
  BY DEF BeginEvent, controlVars, useVars, approvalVars, childVars, worldVars
<1>2. Head(queue) \in Events
  BY <1>1 DEF TypeOK
<1>3. RendererTypeOK' /\ NumberPart'
  BY <1>1, <1>2, EmitNumbers DEF TypeOK, Writers
<1>4. TypeOK'
  BY <1>1, <1>3 DEF TypeOK
<1>5. /\ emitting' = [emitting EXCEPT !["main"] =
                        [event |-> Head(queue), number |-> sequence + 1]]
      /\ UNCHANGED <<json, wire, broken>>
  BY <1>1 DEF Emit
<1>6. WriterPart'
  <2>1. emitting'["main"].event = Head(queue)
    BY <1>5 DEF TypeOK, RendererTypeOK, Writers
  <2>2. \A s \in DOMAIN chunks : emitting'[s] = emitting[s]
    BY <1>5 DEF TypeOK, RendererTypeOK, Writers
  <2>3. QED
    BY <1>1, <2>1, <2>2 DEF WriterPart
<1>7. AnalysisPart' /\ ApprovalPart' /\ AppliedPart' /\ CurrentPart'
  BY <1>1 DEF AnalysisPart, ApprovalPart, AppliedPart, CurrentPart, Beginning,
              Analyzing, Over, AppliedWasApproved
<1>8. ExitPart' /\ QueuePart'
  BY <1>1, <1>5 DEF ExitPart, HasExit, Unreached, Beginning, QueuePart, Completed, Exit
<1>9. FramePart'
  BY <1>1, <1>5 DEF FramePart, HasError, Failed, Framed, Ended, Completed, Exit, Unreached
<1>10. QED
  BY <1>3, <1>4, <1>6, <1>7, <1>8, <1>9

\* A line of the command is complete: the next event, or what comes after.
LEMMA EndEventIInv == IInv /\ EndEvent => IInv'
<1> SUFFICES ASSUME IInv, EndEvent PROVE IInv'
  OBVIOUS
<1> USE DEF IInv
<1> DEFINE e == Head(queue)
<1>1. /\ Written("main") /\ queue' = Tail(queue)
      /\ IF Len(queue) = 1
           THEN /\ at' = next
                /\ exit' = IF next = "ended" THEN e.exit.code ELSE exit
           ELSE UNCHANGED <<at, exit>>
      /\ UNCHANGED <<next, error, analysis, current, invocation, shown, approved,
                     second, child, chunks, childExit, project, edits, applied>>
  BY DEF EndEvent, useVars, approvalVars, childVars, worldVars
<1>2. /\ at = "emit" /\ queue # <<>> /\ emitting["main"].event = e
      /\ emitting["main"] # None
  BY <1>1 DEF Written, WriterPart
<1>3. /\ queue \in Seq(Events) /\ e \in Events
      /\ Tail(queue) \in Seq(Events) /\ Len(Tail(queue)) = Len(queue) - 1
  BY <1>2 DEF TypeOK
<1>4. RendererTypeOK' /\ NumberPart'
  BY <1>1, WrittenNumbers DEF TypeOK, Writers
<1>5. /\ UNCHANGED <<json, broken>>
      /\ emitting' = [emitting EXCEPT !["main"] = None]
  BY <1>1 DEF Written
<1>6. WriterPart'
  <2>1. emitting'["main"] = None
    BY <1>5 DEF TypeOK, RendererTypeOK, Writers
  <2>2. \A s \in DOMAIN chunks : emitting[s] = None /\ emitting'[s] = None
    BY <1>2, <1>5 DEF TypeOK, RendererTypeOK, Writers, WriterPart
  <2>3. at' = "emit" => queue' # <<>>
    <3>1. next # "emit"
      BY DEF TypeOK
    <3>2. Len(queue) # 1 => Tail(queue) # <<>>
      BY <1>2, <1>3
    <3>3. QED
      BY <1>1, <3>1, <3>2
  <2>4. QED
    BY <1>1, <2>1, <2>2, <2>3 DEF WriterPart
<1>7. AnalysisPart' /\ ApprovalPart' /\ AppliedPart' /\ CurrentPart'
  <2>1. at' = "emit" \/ at' = next
    BY <1>1, <1>2
  <2>2. next \in {"dispatch", "ask", "prompt", "fail", "succeed", "ended"}
    BY DEF TypeOK
  <2>3. QED
    BY <1>1, <1>2, <2>1, <2>2
       DEF AnalysisPart, ApprovalPart, AppliedPart, CurrentPart, Beginning,
           Analyzing, Over, AppliedWasApproved
<1>8. ExitPart'
  <2>1. at' = "emit" \/ at' = next
    BY <1>1, <1>2
  <2>2. next \in {"dispatch", "ask", "prompt", "fail", "succeed", "ended"}
    BY DEF TypeOK
  <2>3. QED
    BY <1>1, <1>2, <1>5, <2>1, <2>2 DEF ExitPart, HasExit, Unreached, Beginning
\* What the head of the queue is, and what is left of it.
<1>9. /\ next # "ended" => e.type \notin {"completed", "error"}
      /\ next = "ended" =>
           \/ /\ queue = <<Event("error"), Completed>>
              /\ e = Event("error") /\ Len(queue) = 2 /\ queue' = <<Completed>>
           \/ queue = <<Completed>> /\ e = Completed /\ Len(queue) = 1
      /\ Completed' = Completed /\ Failed' = Failed
  <2>1. next # "ended" => e.type \notin {"completed", "error"}
    BY <1>2, <1>3 DEF QueuePart
  <2>2. Event("error") \in Events /\ Completed \in Events
    BY EventType, ExitType DEF Types
  <2> DEFINE r == Event("error")
             c == Completed
  <2> HIDE DEF r, c
  <2>3. /\ queue = <<r, c>> => e = r /\ Len(queue) = 2 /\ Tail(queue) = <<c>>
        /\ queue = <<c>> => e = c /\ Len(queue) = 1
    <3>1. r \in Events /\ c \in Events
      BY <2>2 DEF r, c
    <3>2. /\ Len(<<r, c>>) = 2 /\ Head(<<r, c>>) = r /\ Tail(<<r, c>>) = <<c>>
          /\ Len(<<c>>) = 1 /\ Head(<<c>>) = c
      BY <3>1, Joined
    <3>3. QED
      BY <3>2
  <2>4. Completed' = Completed /\ Failed' = Failed
    BY <1>1 DEF Completed, Failed, Exit, Unreached
  <2>5. QED
    BY <1>1, <1>2, <2>1, <2>3, <2>4 DEF QueuePart, r, c
<1>10. TypeOK'
  <2>1. at' \in {"emit", "dispatch", "ask", "prompt", "fail", "succeed", "ended"}
    BY <1>1, <1>2 DEF TypeOK
  <2>2. exit' \in ExitCodes \cup {None}
    <3>1. CASE next = "ended" /\ Len(queue) = 1
      <4>1. exit' = Exit.code
        BY <1>1, <1>9, <3>1, ExitType
      <4>2. QED
        BY <4>1, ExitType DEF Exits
    <3>2. CASE ~(next = "ended" /\ Len(queue) = 1)
      BY <1>1, <3>2 DEF TypeOK
    <3>3. QED
      BY <3>1, <3>2
  <2>3. QED
    BY <1>1, <1>3, <1>4, <2>1, <2>2 DEF TypeOK
<1>11. QueuePart'
  <2>1. at' = "emit" => Len(queue) # 1
    BY <1>1 DEF TypeOK
  <2>2. \A i \in DOMAIN Tail(queue) : Tail(queue)[i] = queue[i + 1] /\ i + 1 \in DOMAIN queue
    BY <1>2, <1>3
  <2>3. CASE next = "ended"
    BY <1>1, <1>9, <2>1, <2>3 DEF QueuePart
  <2>4. CASE next # "ended"
    BY <1>1, <1>2, <2>2, <2>4 DEF QueuePart
  <2>5. QED
    BY <2>3, <2>4
\* The line that is on the wire now.
<1> DEFINE n == Len(wire)
           f == Fragment("main", TRUE)
<1>12. json => /\ n \in Nat /\ Len(wire') = n + 1 /\ DOMAIN wire' = 1 .. n + 1
               /\ DOMAIN wire = 1 .. n
               /\ wire'[n + 1].type = e.type /\ wire'[n + 1].exit = e.exit
               /\ \A i \in 1 .. n : wire'[i] = wire[i]
  <2>1. json => wire' = Append(wire, f)
    BY <1>1 DEF Written, Silent
  <2>2. f.type = e.type /\ f.exit = e.exit
    BY <1>2 DEF Fragment
  <2>3. f \in [type : Types, exit : Exits \cup {None}, number : Nat, whole : BOOLEAN]
    <3>1. emitting["main"] \in [event : Events, number : Nat]
      BY <1>2 DEF TypeOK, RendererTypeOK, Writers
    <3>2. QED
      BY <3>1 DEF Fragment, Events
  <2>4. wire \in Seq([type : Types, exit : Exits \cup {None}, number : Nat,
                      whole : BOOLEAN])
    BY DEF TypeOK, RendererTypeOK
  <2> HIDE DEF f
  <2>5. /\ n \in Nat /\ DOMAIN wire = 1 .. n
        /\ Append(wire, f) \in Seq([type : Types, exit : Exits \cup {None}, number : Nat,
                                    whole : BOOLEAN])
        /\ Len(Append(wire, f)) = n + 1 /\ Append(wire, f)[n + 1] = f
        /\ \A i \in 1 .. n : Append(wire, f)[i] = wire[i]
    BY <2>3, <2>4, AppendProperties, LenProperties
  <2> HIDE DEF n
  <2>6. DOMAIN Append(wire, f) = 1 .. n + 1
    BY <2>5, LenProperties
  <2>7. QED
    BY <2>1, <2>2, <2>5, <2>6
<1>13. FramePart'
  <2> SUFFICES ASSUME json, ~broken PROVE FramePart'
    BY <1>5 DEF FramePart
  <2>1. wire' # <<>> /\ wire'[1].type = "started"
    <3>1. CASE wire = <<>>
      <4>1. queue = <<Event("started")>>
        BY <3>1 DEF FramePart
      <4>2. e.type = "started"
        BY <4>1, EventType DEF Types
      <4>3. QED
        BY <1>12, <3>1, <4>2
    <3>2. CASE wire # <<>>
      BY <1>12, <3>2 DEF FramePart, TypeOK, RendererTypeOK
    <3>3. QED
      BY <3>1, <3>2
  <2>2. \A i \in 1 .. n : wire'[i].type # "completed"
    BY <1>2, <1>12 DEF FramePart
  <2>3. CASE next # "ended"
    <3>1. at' # "ended" /\ (at' = "emit" => next' # "ended")
      BY <1>1, <1>2, <2>3
    <3>2. ~HasError
      BY <1>2, <2>3 DEF FramePart
    <3>3. \A i \in DOMAIN wire' : wire'[i].type \notin {"completed", "error"}
      BY <1>9, <1>12, <2>2, <2>3, <3>2 DEF HasError
    <3>4. QED
      BY <2>1, <3>1, <3>3 DEF FramePart, HasError, Framed, Ended
  <2>4. CASE next = "ended" /\ queue = <<Event("error"), Completed>>
    <3>1. /\ e = Event("error") /\ at' = "emit" /\ queue' = <<Completed>>
          /\ next' = "ended" /\ Failed
      BY <1>1, <1>2, <1>9, <2>4 DEF FramePart
    <3>2. wire'[n + 1].type = "error"
      BY <1>12, <3>1, EventType DEF Types
    <3>3. HasError' /\ \A i \in DOMAIN wire' : wire'[i].type # "completed"
      <4>1. \A i \in 1 .. n + 1 : i \in 1 .. n \/ i = n + 1
        BY <1>12
      <4>2. n + 1 \in DOMAIN wire'
        BY <1>12
      <4>3. QED
        BY <1>12, <2>2, <3>2, <4>1, <4>2 DEF HasError
    <3>4. queue' = <<Completed'>> /\ Failed'
      BY <1>9, <3>1
    <3>5. QED
      BY <2>1, <3>1, <3>3, <3>4 DEF FramePart, Framed, Ended
  <2>5. CASE next = "ended" /\ queue = <<Completed>>
    <3>1. /\ e = Completed /\ at' = "ended" /\ exit' = Exit.code
          /\ HasError <=> Failed
      <4>1. e = Completed /\ Len(queue) = 1
        BY <1>3, <2>5
      <4>2. HasError <=> Failed
        <5>1. Len(<<Event("error"), Completed>>) = 2
          OBVIOUS
        <5>2. QED
          BY <1>2, <2>5, <4>1, <5>1 DEF FramePart
      <4>3. QED
        BY <1>1, <2>5, <4>1, <4>2, ExitType
    <3>2. /\ wire'[n + 1].type = "completed" /\ wire'[n + 1].exit = Exit
          /\ Len(wire') = n + 1
      BY <1>12, <3>1, ExitType
    <3>3. HasError' <=> HasError
      <4>1. \A i \in 1 .. n + 1 : i \in 1 .. n \/ i = n + 1
        BY <1>12
      <4>2. 1 .. n \subseteq 1 .. n + 1
        BY <1>12
      <4>3. QED
        BY <1>12, <3>2, <4>1, <4>2 DEF HasError
    <3>4. \A i \in 1 .. Len(wire') - 1 : wire'[i].type # "completed"
      BY <1>12, <2>2
    <3>5. Framed'
      <4>1. childExit' # None => Exit = childExit'
        BY <1>1 DEF Exit
      <4>2. UNCHANGED child
        BY <1>1
      <4>3. QED
        BY <2>1, <3>1, <3>2, <3>3, <3>4, <4>1, <4>2
           DEF Framed, HasError, Failed, Unreached
    <3>6. QED
      BY <2>1, <3>1, <3>5 DEF FramePart
  <2>6. QED
    BY <1>9, <2>3, <2>4, <2>5
<1>14. QED
  BY <1>4, <1>6, <1>7, <1>8, <1>10, <1>11, <1>13

LEMMA FailEventIInv == IInv /\ FailEvent => IInv'
<1> SUFFICES ASSUME IInv, FailEvent PROVE IInv'
  OBVIOUS
<1> USE DEF IInv
<1>1. /\ NotWritten("main") /\ queue' = <<>>
      /\ \/ at' = "ended" /\ exit' = 70 /\ UNCHANGED error
         \/ /\ at' = "fail" /\ error' = "internal" /\ UNCHANGED exit
            /\ Head(queue).type \notin {"started", "error", "completed"}
      /\ UNCHANGED <<next, analysis, current, invocation, shown, approved,
                     second, child, chunks, childExit, project, edits, applied>>
  BY DEF FailEvent, useVars, approvalVars, childVars, worldVars, Codes
<1>2. at = "emit"
  BY <1>1 DEF NotWritten, WriterPart
<1>3. RendererTypeOK' /\ NumberPart'
  BY <1>1, NotWrittenNumbers DEF TypeOK, Writers
<1>4. broken' = TRUE /\ emitting' = [emitting EXCEPT !["main"] = None]
  BY <1>1 DEF NotWritten
<1>5. 70 \in ExitCodes /\ "internal" \in DOMAIN Codes
  BY DEF ExitCodes, Codes
<1>6. TypeOK'
  BY <1>1, <1>3, <1>5 DEF TypeOK
<1>7. WriterPart'
  <2>1. \A w \in Writers : emitting'[w] = IF w = "main" THEN None ELSE emitting[w]
    BY <1>4 DEF TypeOK, RendererTypeOK
  <2>2. \A s \in DOMAIN chunks : emitting[s] = None
    BY <1>2 DEF WriterPart
  <2>3. QED
    BY <1>1, <2>1, <2>2 DEF WriterPart, TypeOK, Writers
<1>8. AnalysisPart' /\ ApprovalPart' /\ AppliedPart' /\ CurrentPart'
  BY <1>1, <1>2 DEF AnalysisPart, ApprovalPart, AppliedPart, CurrentPart, Beginning,
                    Analyzing, Over, AppliedWasApproved
<1>9. ExitPart'
  BY <1>1, <1>2, <1>4, <1>5, NoneAssumption DEF ExitPart, HasExit, Unreached, Beginning
<1>10. QueuePart' /\ FramePart'
  BY <1>1, <1>4 DEF QueuePart, FramePart
<1>11. QED
  BY <1>3, <1>6, <1>7, <1>8, <1>9, <1>10

-----------------------------------------------------------------------------
(***************************************************************************)
(* The output of a child, and changes of the project.                      *)
(***************************************************************************)
LEMMA StreamTypes ==
    ASSUME TypeOK, NEW s \in DOMAIN chunks
    PROVE  s \in {"stdout", "stderr"} /\ s \in Writers /\ s # "main" /\ s \in Types
  BY DEF TypeOK, Writers, Types

\* While the command waits, a step of a stream keeps all but the writers.
LEMMA StreamKeeps ==
    ASSUME IInv, at = "wait",
           UNCHANGED <<at, queue, next, error, analysis, current, invocation, shown,
                       approved, second, project, edits, applied, exit, childExit, child>>,
           broken' \in {broken, TRUE}
    PROVE  AnalysisPart' /\ ApprovalPart' /\ AppliedPart' /\ CurrentPart' /\ ExitPart' /\ QueuePart'
<1> USE DEF IInv
<1>1. AnalysisPart' /\ ApprovalPart' /\ AppliedPart' /\ CurrentPart'
  BY DEF AnalysisPart, ApprovalPart, AppliedPart, CurrentPart, Beginning,
         Analyzing, Over, AppliedWasApproved
<1>2. ExitPart' /\ QueuePart'
  BY DEF ExitPart, HasExit, Unreached, Beginning, QueuePart
<1>3. QED
  BY <1>1, <1>2

LEMMA StreamIInv == IInv /\ Stream => IInv'
<1> SUFFICES ASSUME IInv, Stream PROVE IInv'
  OBVIOUS
<1> USE DEF IInv
<1>1. /\ UNCHANGED <<at, queue, next, error, analysis, current, invocation, shown,
                     approved, second, project, edits, applied, exit, childExit, child>>
  BY DEF Stream, BeginChunk, EndChunk, FailChunk, StreamUnchanged, controlVars, useVars,
         approvalVars, worldVars
<1>2. CASE BeginChunk
  <2>1. PICK s \in DOMAIN chunks : /\ Streaming(s) /\ Emit(s, Event(s))
                                   /\ UNCHANGED chunks
    BY <1>2 DEF BeginChunk
  <2>2. s \in Writers /\ s # "main" /\ Event(s) \in Events
    BY StreamTypes, EventType
  <2>3. RendererTypeOK' /\ NumberPart'
    BY <2>1, <2>2, EmitNumbers DEF TypeOK
  <2>4. TypeOK'
    BY <1>1, <2>1, <2>3 DEF TypeOK
  <2>5. /\ at = "wait" /\ chunks[s] > 0
        /\ UNCHANGED <<json, wire, broken>>
        /\ emitting' = [emitting EXCEPT ![s] =
                          [event |-> Event(s), number |-> sequence + 1]]
    BY <2>1 DEF Streaming, Emit
  <2>6. WriterPart'
    <3>1. \A w \in Writers :
            emitting'[w] = IF w = s THEN [event |-> Event(s), number |-> sequence + 1]
                           ELSE emitting[w]
      BY <2>5 DEF TypeOK, RendererTypeOK
    <3>2. \A t \in DOMAIN chunks : t \in Writers
      BY StreamTypes
    <3>3. emitting["main"] = None /\ "main" \in Writers
      BY <2>5 DEF WriterPart, Writers
    <3>4. \A t \in DOMAIN chunks : emitting'[t] # None =>
            chunks[t] > 0 /\ emitting'[t].event = Event(t)
      BY <2>5, <3>1, <3>2 DEF WriterPart
    <3>5. emitting'["main"] = None
      BY <2>2, <3>1, <3>3
    <3>6. QED
      BY <1>1, <2>1, <2>5, <3>4, <3>5 DEF WriterPart, Event
  <2>7. FramePart'
    BY <1>1, <2>5 DEF FramePart, HasError, Framed, Ended
  <2>8. QED
    BY <1>1, <2>3, <2>4, <2>5, <2>6, <2>7, StreamKeeps
<1>3. CASE EndChunk
  <2>1. PICK s \in DOMAIN chunks : Written(s) /\ chunks' = [chunks EXCEPT ![s] = @ - 1]
    BY <1>3 DEF EndChunk
  <2>2. s \in Writers /\ s # "main" /\ s \in {"stdout", "stderr"}
    BY StreamTypes
  <2>3. RendererTypeOK' /\ NumberPart'
    BY <2>1, <2>2, WrittenNumbers DEF TypeOK
  <2>4. /\ emitting[s] # None /\ at = "wait" /\ chunks[s] > 0
        /\ emitting[s].event = Event(s)
        /\ UNCHANGED <<json, broken>>
        /\ emitting' = [emitting EXCEPT ![s] = None]
    BY <2>1 DEF Written, WriterPart
  <2>5. chunks' \in [{"stdout", "stderr"} -> 0..Chunks]
    <3>1. chunks[s] - 1 \in 0..Chunks
      BY <2>2, <2>4, BoundsAssumption DEF TypeOK
    <3>2. QED
      BY <2>1, <3>1 DEF TypeOK
  <2>6. TypeOK'
    BY <1>1, <2>3, <2>5 DEF TypeOK
  <2>7. WriterPart'
    <3>1. \A w \in Writers : emitting'[w] = IF w = s THEN None ELSE emitting[w]
      BY <2>4 DEF TypeOK, RendererTypeOK
    <3>2. \A t \in DOMAIN chunks : t \in Writers
      BY StreamTypes
    <3>3. emitting["main"] = None /\ "main" \in Writers
      BY <2>4 DEF WriterPart, Writers
    <3>4. DOMAIN chunks' = DOMAIN chunks
          /\ \A t \in DOMAIN chunks : t # s => chunks'[t] = chunks[t]
      BY <2>1
    <3>5. \A t \in DOMAIN chunks : emitting'[t] # None =>
            chunks'[t] > 0 /\ emitting'[t].event = Event(t)
      BY <3>1, <3>2, <3>4 DEF WriterPart
    <3>6. emitting'["main"] = None
      BY <3>1, <3>3, <2>2
    <3>7. QED
      BY <1>1, <2>4, <3>4, <3>5, <3>6 DEF WriterPart, Event
  <2>8. FramePart'
    <3> SUFFICES ASSUME json, ~broken PROVE FramePart'
      BY <2>4 DEF FramePart
    <3> DEFINE f == Fragment(s, TRUE)
               Fragments == [type : Types, exit : Exits \cup {None}, number : Nat,
                             whole : BOOLEAN]
    <3>1. f.type = s /\ f \in Fragments
      <4>1. emitting[s] \in [event : Events, number : Nat]
        BY <2>2, <2>4 DEF TypeOK, RendererTypeOK
      <4>2. QED
        BY <2>4, <4>1 DEF Fragment, Events, Event
    <3>2. wire' = Append(wire, f) /\ wire \in Seq(Fragments)
      BY <2>1, <2>2 DEF Written, Silent, TypeOK, RendererTypeOK
    <3>3. /\ wire # <<>> /\ wire[1].type = "started" /\ ~HasError
          /\ \A i \in DOMAIN wire : wire[i].type # "completed"
      BY <2>4 DEF FramePart
    <3> HIDE DEF f, Fragments
    <3>4. /\ wire' # <<>> /\ wire'[1] = wire[1]
          /\ \A i \in DOMAIN wire' : (i \in DOMAIN wire /\ wire'[i] = wire[i]) \/ wire'[i] = f
      BY <3>1, <3>2, <3>3
    <3>5. \A i \in DOMAIN wire' : wire'[i].type \notin {"completed", "error"}
      BY <2>2, <3>1, <3>3, <3>4 DEF HasError
    <3>6. QED
      BY <1>1, <2>4, <3>3, <3>4, <3>5 DEF FramePart, HasError, Framed, Ended
  <2>9. QED
    BY <1>1, <2>3, <2>4, <2>6, <2>7, <2>8, StreamKeeps
<1>4. CASE FailChunk
  <2>1. PICK s \in DOMAIN chunks : NotWritten(s) /\ chunks' = [chunks EXCEPT ![s] = 0]
    BY <1>4 DEF FailChunk
  <2>2. s \in Writers /\ s # "main"
    BY StreamTypes
  <2>3. RendererTypeOK' /\ NumberPart'
    BY <2>1, <2>2, NotWrittenNumbers DEF TypeOK
  <2>4. /\ at = "wait" /\ broken' = TRUE
        /\ emitting' = [emitting EXCEPT ![s] = None]
    BY <2>1 DEF NotWritten, WriterPart
  <2>5. TypeOK'
    <3>1. chunks' \in [{"stdout", "stderr"} -> 0..Chunks]
      BY <2>1, BoundsAssumption DEF TypeOK
    <3>2. QED
      BY <1>1, <2>3, <3>1 DEF TypeOK
  <2>6. WriterPart'
    <3>1. \A w \in Writers : emitting'[w] = IF w = s THEN None ELSE emitting[w]
      BY <2>4 DEF TypeOK, RendererTypeOK
    <3>2. \A t \in DOMAIN chunks : t \in Writers
      BY StreamTypes
    <3>3. emitting["main"] = None /\ "main" \in Writers
      BY <2>4 DEF WriterPart, Writers
    <3>4. DOMAIN chunks' = DOMAIN chunks
          /\ \A t \in DOMAIN chunks : t # s => chunks'[t] = chunks[t]
      BY <2>1
    <3>5. \A t \in DOMAIN chunks : emitting'[t] # None =>
            chunks'[t] > 0 /\ emitting'[t].event = Event(t)
      BY <3>1, <3>2, <3>4 DEF WriterPart
    <3>6. emitting'["main"] = None
      BY <3>1, <3>3, <2>2
    <3>7. QED
      BY <1>1, <2>4, <3>4, <3>5, <3>6 DEF WriterPart, Event
  <2>7. FramePart'
    BY <2>4 DEF FramePart
  <2>8. QED
    BY <1>1, <2>3, <2>4, <2>5, <2>6, <2>7, StreamKeeps
<1>5. QED
  BY <1>2, <1>3, <1>4 DEF Stream

\* A change of the project makes the current use case stale, nothing else.
LEMMA EditIInv == IInv /\ Edit => IInv'
<1> SUFFICES ASSUME IInv, Edit PROVE IInv'
  OBVIOUS
<1> USE DEF IInv
<1>1. /\ UNCHANGED <<rendererVars, at, queue, next, error, analysis, invocation, shown,
                     approved, second, child, chunks, childExit, applied, exit>>
      /\ current' = FALSE /\ project' \in Projects /\ edits' = edits + 1
      /\ edits < MaxEdits
  BY DEF Edit, controlVars, approvalVars, childVars
<1>2. RendererTypeOK' /\ NumberPart'
  BY <1>1, SilentNumbers DEF TypeOK
<1>3. TypeOK'
  <2>1. edits' \in 0..MaxEdits
    BY <1>1, BoundsAssumption DEF TypeOK
  <2>2. current' \in BOOLEAN /\ second' \in BOOLEAN /\ project' \in Projects
    BY <1>1 DEF TypeOK
  <2>3. /\ shown' \in Digests \cup {None} /\ approved' \in Digests \cup {None}
        /\ applied' \in Digests \cup {None}
    BY <1>1 DEF TypeOK
  <2>4. queue' \in Seq(Events)
    BY <1>1 DEF TypeOK
  <2>5. QED
    BY <1>1, <1>2, <2>1, <2>2, <2>3, <2>4 DEF TypeOK
<1>4. WriterPart'
  BY <1>1 DEF WriterPart, rendererVars
<1>5. AnalysisPart' /\ ApprovalPart' /\ AppliedPart' /\ CurrentPart'
  BY <1>1 DEF AnalysisPart, ApprovalPart, AppliedPart, CurrentPart, Beginning,
              Analyzing, Over, AppliedWasApproved
<1>6. ExitPart' /\ QueuePart' /\ FramePart'
  BY <1>1 DEF rendererVars, ExitPart, HasExit, Unreached, Beginning, QueuePart, FramePart, HasError,
              Failed, Framed, Ended, Completed, Exit
<1>7. QED
  BY <1>2, <1>3, <1>4, <1>5, <1>6

-----------------------------------------------------------------------------
(***************************************************************************)
(* The inductive invariant holds initially, and every step keeps it.       *)
(***************************************************************************)
LEMMA InitIInv == Init => IInv
<1> SUFFICES ASSUME Init PROVE IInv
  OBVIOUS
<1> USE DEF Init, RendererInit
<1>1. RendererTypeOK
  <2>1. emitting \in [Writers -> [event : Events, number : Nat] \cup {None}]
    OBVIOUS
  <2>2. wire \in Seq([type : Types, exit : Exits \cup {None}, number : Nat,
                      whole : BOOLEAN])
    OBVIOUS
  <2>3. json \in BOOLEAN /\ broken \in BOOLEAN /\ sequence \in Nat
    OBVIOUS
  <2>4. QED
    BY <2>1, <2>2, <2>3 DEF RendererTypeOK
<1>2. queue \in Seq(Events) /\ queue # <<>> /\ queue[1].type = "started" /\ Len(queue) = 1
  <2> DEFINE e == Event("started")
  <2>1. e \in Events /\ e.type = "started"
    BY EventType DEF Types
  <2> HIDE DEF e
  <2>2. queue = <<e>>
    BY DEF e
  <2>3. QED
    BY <2>1, <2>2
<1>3. TypeOK
  <2>1. Reviewed \subseteq Digests
    BY DEF Reviewed
  <2>2. invocation \in Invocations /\ approved \in Digests \cup {None}
    BY <2>1 DEF Invocations
  <2>3. NoAnalysis \in [facts : Projects \cup {None}, observed : Projects \cup {None},
                        released : Projects \cup {None}]
    BY DEF NoAnalysis
  <2>4. chunks \in [{"stdout", "stderr"} -> 0..Chunks] /\ edits \in 0..MaxEdits
    BY BoundsAssumption
  <2>5. QED
    BY <1>1, <1>2, <2>2, <2>3, <2>4 DEF TypeOK
<1>4. NumberPart
  <2>1. Whole(Len(wire)) = {}
    BY DEF Whole
  <2>2. sequence = Cardinality(Whole(Len(wire)))
    BY <2>1, FS_EmptySet
  <2>3. OneWriter /\ NumberedInOrder
    BY DEF OneWriter, NumberedInOrder
  <2>4. QED
    BY <2>2, <2>3 DEF NumberPart
<1>5. WriterPart
  BY <1>2 DEF WriterPart, Writers
<1>6. AnalysisPart /\ ApprovalPart /\ AppliedPart /\ CurrentPart
  BY DEF AnalysisPart, ApprovalPart, AppliedPart, CurrentPart, Beginning,
         Analyzing, Over, AppliedWasApproved
<1>7. ExitPart /\ QueuePart
  BY <1>2 DEF ExitPart, HasExit, Unreached, Beginning, QueuePart
<1>8. FramePart
  BY DEF FramePart, HasError, Framed, Ended
<1>9. QED
  BY <1>3, <1>4, <1>5, <1>6, <1>7, <1>8 DEF IInv

LEMMA NextIInv == IInv /\ [Next]_vars => IInv'
<1> SUFFICES ASSUME IInv, [Next]_vars PROVE IInv'
  OBVIOUS
<1>1. CASE Report
  BY <1>1, BeginEventIInv, EndEventIInv, FailEventIInv, QuietIInv DEF Report, Quiet
<1>2. CASE Analyze \/ Sync \/ Run
  BY <1>2, QuietIInv DEF Quiet
<1>3. CASE Stream
  BY <1>3, StreamIInv
<1>4. CASE Edit
  BY <1>4, EditIInv
<1>5. CASE UNCHANGED vars
  <2> USE <1>5 DEF vars, IInv, rendererVars
  <2>1. RendererTypeOK' /\ NumberPart'
    BY SilentNumbers DEF TypeOK
  <2>2. TypeOK'
    BY <2>1 DEF TypeOK
  <2>3. WriterPart' /\ AnalysisPart' /\ ApprovalPart' /\ AppliedPart' /\ CurrentPart'
    BY DEF WriterPart, AnalysisPart, ApprovalPart, AppliedPart, CurrentPart, Beginning,
           Analyzing, Over, AppliedWasApproved
  <2>4. ExitPart' /\ QueuePart' /\ FramePart'
    BY DEF ExitPart, HasExit, Unreached, Beginning, QueuePart, FramePart, HasError, Failed,
           Framed, Ended, Completed, Exit, Unreached
  <2>5. QED
    BY <2>1, <2>2, <2>3, <2>4
<1>6. QED
  BY <1>1, <1>2, <1>3, <1>4, <1>5 DEF Next

LEMMA Always == Spec => []IInv
<1>1. QED
  BY InitIInv, NextIInv, PTL DEF Spec

-----------------------------------------------------------------------------
(***************************************************************************)
(* Every variable keeps its type, for any projects and plans: so does what *)
(* is on the wire, and the exit code of elefante is one of internal/model  *)
(* or the child's.                                                         *)
(***************************************************************************)
THEOREM TypeCorrect == Spec => []TypeOK
<1>1. IInv => TypeOK
  BY DEF IInv
<1>2. QED
  BY <1>1, Always, PTL

(***************************************************************************)
(* The events of the command and of the two goroutines that copy a child's *)
(* output are numbered in the order in which they are on the wire, without *)
(* gaps, whatever is cut off (emit of machine.go).                         *)
(***************************************************************************)
THEOREM Numbered == Spec => []NumberedInOrder
<1>1. IInv => NumberedInOrder
  BY DEF IInv, NumberPart
<1>2. QED
  BY <1>1, Always, PTL

(***************************************************************************)
(* A JSON command begins with "started" and ends with the one "completed"  *)
(* that carries its exit, the child's if run started one, with an "error"  *)
(* exactly when it failed itself or a signal to its child did, as long as  *)
(* its writes succeed (Execute of internal/cli).                           *)
(***************************************************************************)
THEOREM Framing == Spec => []Framed
<1>1. IInv => Framed
  BY DEF IInv, FramePart, Framed
<1>2. QED
  BY <1>1, Always, PTL

(***************************************************************************)
(* What the engine receives is what was approved, whatever changes between *)
(* the question and the answer (AuthorizePlan and the second Sync).        *)
(***************************************************************************)
THEOREM Approved == Spec => []AppliedWasApproved
<1>1. IInv => AppliedWasApproved
  BY DEF IInv, AppliedPart
<1>2. QED
  BY <1>1, Always, PTL

(***************************************************************************)
(* Only a change after the last Sync began makes the applied plan stale    *)
(* (the analysis of application.go, and the answer that starts it over).   *)
(***************************************************************************)
THEOREM StaleByRaceOnly == Spec => []StaleOnlyByRace
<1>1. IInv => StaleOnlyByRace
  BY DEF IInv, CurrentPart, StaleOnlyByRace
<1>2. QED
  BY <1>1, Always, PTL

=============================================================================
