------------------------------ MODULE MCLogin -------------------------------
(* Two names and one address for TLC.                                          *)
EXTENDS Login, TLC

MCMaxFailures == [k \in Keys |-> 2]

WorkersAlike == Permutations(Workers)

=============================================================================
