--------------------------- MODULE MCOpencodeRuns ---------------------------
(* Small instances of OpencodeRuns for TLC. *)
EXTENDS OpencodeRuns, TLC

Symmetry == Permutations(Runs)
=============================================================================
