---------------------------- MODULE MCEventQueue ----------------------------
(* EventQueue on a small instance.  Producers are interchangeable.         *)
EXTENDS EventQueue, TLC

Symmetry == Permutations(Producers)

=============================================================================
