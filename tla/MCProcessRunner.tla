---------------------------- MODULE MCProcessRunner ----------------------------
(* Success and failure of a child, and two signals: the first is forwarded,  *)
(* the second finds the first in the channel or taken.                       *)
EXTENDS ProcessRunner

MCCodes == {0, 1}
MCDescendant == {"descendant"}

================================================================================
