------------------------------- MODULE MCCommand -------------------------------
(* A project whose plan changes something, one that is blocked and one with  *)
(* nothing to approve.                                                       *)
EXTENDS Command

MCProjects == {"changed", "blocked", "synced"}
MCBlockedBy == [p \in MCProjects |-> IF p = "blocked" THEN "requirements" ELSE None]
MCNeedsApproval == [p \in MCProjects |-> p # "synced"]
================================================================================
