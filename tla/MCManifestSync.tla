--------------------------- MODULE MCManifestSync ---------------------------
(* A small instance of ManifestSync: interchangeable syncs. *)
EXTENDS ManifestSync, TLC

\* The editor empties the copy or saves a floor for everything.
Texts == {[n \in Packages |-> 0], [n \in Packages |-> MaxLevel]}

SyncSymmetry == Permutations(Syncs)
=============================================================================
