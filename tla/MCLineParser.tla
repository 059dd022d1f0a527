----------------------------- MODULE MCLineParser -----------------------------
(* LineParser on short lines.                                              *)
EXTENDS LineParser

Annie == <<"a", "nswer">>

=============================================================================
