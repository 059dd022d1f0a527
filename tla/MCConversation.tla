--------------------------- MODULE MCConversation ---------------------------
(* QuizzBot with three clients: two who talk and one who reads both.       *)
EXTENDS QuizzBot, TLC

CONSTANTS c1, c2, c3, ann, bob, cid

\* The request of each, two lines of the first user and one of the second: three
\* lines by two authors, of which the third reads all and the second reads two.
TalkFrames == (c1 :> 3) @@ (c2 :> 2) @@ (c3 :> 1)
TalkWanted == (c1 :> {ann}) @@ (c2 :> {bob}) @@ (c3 :> {cid})

\* The users come one after the other, so that a later one misses what was said.
OneByOne == (c1 :> {}) @@ (c3 :> {c1}) @@ (c2 :> {c3})

=============================================================================
