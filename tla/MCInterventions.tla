-------------------------- MODULE MCInterventions --------------------------
(***************************************************************************)
(* Model-checking instances of Interventions: runs are interchangeable.     *)
(***************************************************************************)
EXTENDS Interventions, TLC

Symmetry == Permutations(Runs)
=============================================================================
