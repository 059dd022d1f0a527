----------------------------- MODULE MCQuizzBot -----------------------------
(* QuizzBot with two clients.                                              *)
EXTENDS QuizzBot, TLC

CONSTANTS c1, c2, ann

AtAnyTime == [c \in Conn |-> {}]

\* Two rivals for one name: a user who joins and says something, and another.
RivalFrames == (c1 :> 2) @@ (c2 :> 1)
RivalsWanted == (c1 :> {ann}) @@ (c2 :> {ann})

=============================================================================
