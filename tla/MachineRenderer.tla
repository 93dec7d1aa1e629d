--------------------------- MODULE MachineRenderer ---------------------------
(* What one command writes: the renderer of internal/output/machine.go,      *)
(* which numbers its events under a mutex, or the one of human.go, which     *)
(* writes lines without numbers. The command itself emits events, and so do  *)
(* the two goroutines that copy the output of a child (rendererStreamWriter  *)
(* of internal/cli/execute.go).                                              *)
EXTENDS Naturals, Sequences, FiniteSets

CONSTANTS
    None,       \* no event
    Breakable   \* whether writing may fail

ASSUME BreakableAssumption == Breakable \in BOOLEAN

VARIABLES
    json,      \* which renderer
    sequence,  \* number of the last event that was written
    emitting,  \* the event a writer is writing, with its number
    wire,      \* everything written, an event cut off by a failure included
    broken     \* history: a write has failed
rendererVars == <<json, sequence, emitting, wire, broken>>

Writers == {"main", "stdout", "stderr"}
Types == {"started", "fact", "diagnostic", "plan", "approval_required",
          "result", "stdout", "stderr", "error", "completed"}

RendererInit ==
    /\ json \in BOOLEAN
    /\ sequence = 0
    /\ emitting = [w \in Writers |-> None]
    /\ wire = <<>>
    /\ broken = FALSE

\* The human renderer writes nothing for these.
Silent(type) == ~json /\ type \in {"started", "completed"}

\* The mutex of emit, and a mutant without it.
Unlocked == TRUE
MutexFree == \A w \in Writers : emitting[w] = None

\* emit takes the mutex and the next number.
Emit(w, event) ==
    /\ emitting[w] = None
    /\ MutexFree
    /\ emitting' = [emitting EXCEPT ![w] =
                      [event |-> event, number |-> sequence + 1]]
    /\ UNCHANGED <<json, sequence, wire, broken>>

Fragment(w, whole) ==
    [type |-> emitting[w].event.type, exit |-> emitting[w].event.exit,
     number |-> emitting[w].number, whole |-> whole]

\* The whole line is written and the number is used.
Written(w) ==
    /\ emitting[w] # None
    /\ emitting' = [emitting EXCEPT ![w] = None]
    /\ sequence' = emitting[w].number
    /\ wire' = IF Silent(emitting[w].event.type) THEN wire
               ELSE Append(wire, Fragment(w, TRUE))
    /\ UNCHANGED <<json, broken>>

\* A failed write leaves nothing or a part of the line; the number is not
\* used, and the next event takes it.
NotWritten(w) ==
    /\ Breakable
    /\ emitting[w] # None
    /\ ~Silent(emitting[w].event.type)
    /\ emitting' = [emitting EXCEPT ![w] = None]
    /\ broken' = TRUE
    /\ \/ UNCHANGED wire
       \/ wire' = Append(wire, Fragment(w, FALSE))
    /\ UNCHANGED <<json, sequence>>

=============================================================================
