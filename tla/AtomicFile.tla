----------------------------- MODULE AtomicFile -----------------------------
(***************************************************************************)
(* What a state file promises to those who load it: it holds nothing, or   *)
(* the whole of a value that was stored; a stored value gives way to a new *)
(* one only, except that a power loss takes the file back to the value it  *)
(* kept.                                                                   *)
(***************************************************************************)
CONSTANTS
    Writers,   \* the stores, each of a value of its own
    NoFile     \* no value

VARIABLES
    value,     \* what a load returns
    kept,      \* what a load returns after a power loss
    stored     \* the values the file has held so far

fileVars == <<value, kept, stored>>

FileInit == value = NoFile /\ kept = NoFile /\ stored = {}

Store(w) ==
    /\ w \notin stored
    /\ value' = w
    /\ stored' = stored \cup {w}
    /\ UNCHANGED kept

Keep == kept' = value /\ UNCHANGED <<value, stored>>

TakeBack == value' = kept /\ UNCHANGED <<kept, stored>>

FileNext == (\E w \in Writers : Store(w)) \/ Keep \/ TakeBack

FileSpec == FileInit /\ [][FileNext]_fileVars
=============================================================================
