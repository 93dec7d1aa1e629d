---------------------------- MODULE MCSyncEngine ----------------------------
(***************************************************************************)
(* Plans for TLC.  Plan "a" starts a provider, verifies the platform (a    *)
(* read), prepares an extension and records the environment; the provider  *)
(* and the extension can be undone.  Plan "b" installs, which cannot be    *)
(* undone, verifies the platform and records the environment.              *)
(***************************************************************************)
EXTENDS SyncEngine

MCLength == [d \in Digests |-> IF d = "a" THEN 4 ELSE 3]
MCRecordSteps == {s \in {<<"a", 4>>, <<"b", 3>>} : s[1] \in Digests}
MCReadSteps == {s \in {<<"a", 2>>, <<"b", 2>>} : s[1] \in Digests}
MCUndoableSteps == {s \in {<<"a", 1>>, <<"a", 3>>} : s[1] \in Digests}
MCTrustOf == [d \in Digests |-> IF d = "a" THEN {"plugin", "installer"}
                                           ELSE {"plugin", "script"}]
=============================================================================
