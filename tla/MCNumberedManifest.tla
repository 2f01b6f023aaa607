------------------------- MODULE MCNumberedManifest -------------------------
(* Instances of NumberedManifest: processes are interchangeable.            *)
EXTENDS NumberedManifest, TLC

Symmetry == Permutations(Process)
=============================================================================
