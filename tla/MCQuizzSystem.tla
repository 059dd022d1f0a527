---------------------------- MODULE MCQuizzSystem ----------------------------
(* QuizzSystem on a small instance.                                        *)
EXTENDS QuizzSystem, TLC

Symmetry == Permutations(Players) \cup Permutations(Answers)

=============================================================================
