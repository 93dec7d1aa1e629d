--------------------------- MODULE MCComposerCache ---------------------------
(* Two releases, the older without a minimum PHP version in its metadata,    *)
(* or both with one.                                                         *)
EXTENDS ComposerCache, TLC

MCVersions == {1, 2}
MCMinimumOf == <<0, 8>>
MCMinimums == <<7, 8>>
\* The newest one, the older one by constraint, and what is in the cache.
MCRequests == {[offline |-> FALSE, wanted |-> {1, 2}, php |-> 8],
               [offline |-> FALSE, wanted |-> {1}, php |-> 7]}
MCAllRequests ==
    MCRequests \cup {[offline |-> TRUE, wanted |-> {1, 2}, php |-> 8]}

Symmetric == Permutations(Processes)
=============================================================================
