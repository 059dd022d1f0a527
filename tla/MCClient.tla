------------------------------ MODULE MCClient ------------------------------
(* Client on a small instance.                                             *)
EXTENDS Client

=============================================================================
