------------------------------ MODULE MCServer ------------------------------
(* Server on small instances: two clients, of which the first may join and *)
(* talk, or send a burst; the second may join, or be refused.              *)
EXTENDS Server, TLC

CONSTANTS c1, c2, ann, bob

PairFrames == (c1 :> 2) @@ (c2 :> 1)
NameSymmetry == Permutations(Name)

=============================================================================
