-------------------------------- MODULE Chat --------------------------------
(***************************************************************************)
(* What the chat room promises (handler.h): a connection is a member from  *)
(* the moment it is accepted; each frame of a member is handled in one     *)
(* step; a name belongs to one member for ever; everything that named      *)
(* members say makes up one conversation, which is what the game gets, and *)
(* every chat line of it reaches every other member at once.  No sockets,  *)
(* pieces, threads, queues or batches: module Server has those, and        *)
(* implements this.                                                        *)
(***************************************************************************)
EXTENDS Naturals, Sequences

CONSTANTS
  Conn,    \* connections
  Name,    \* the non-empty player names
  NoName   \* the empty string

VARIABLES
  members,  \* who is in the room
  heard,    \* how many frames of each member were handled
  name,     \* the name of each member, or NoName
  said,     \* the conversation: who said what, under which name
  inbox     \* what each member was sent

vars == <<members, heard, name, said, inbox>>

Ack == [type |-> "JOIN_ACK"]
Nack == [type |-> "JOIN_NACK"]

\* The frames that may be the next one of c.
NextFrames(c) ==
  [type : {"JOIN_REQUEST"}, name : Name \cup {NoName}, by : {c}, nr : {heard[c] + 1}]
    \cup [type : {"MESSAGE", "ANSWER"}, name : {NoName}, by : {c}, nr : {heard[c] + 1}]

Init ==
  /\ members = {}
  /\ heard = [c \in Conn |-> 0]
  /\ name = [c \in Conn |-> NoName]
  /\ said = <<>>
  /\ inbox = [c \in Conn |-> <<>>]

Enter(c) ==
  /\ c \notin members
  /\ members' = members \cup {c}
  /\ UNCHANGED <<heard, name, said, inbox>>

Free(n) == n # NoName /\ \A d \in Conn : name[d] # n
Reply(c, m) == inbox' = [inbox EXCEPT ![c] = Append(@, m)]
Record(n, m) == said' = Append(said, [name |-> n, msg |-> m])

\* Nobody hears what a member without a name says.
Ignore(c, m) ==
  /\ name[c] = NoName /\ m.type # "JOIN_REQUEST"
  /\ UNCHANGED <<name, said, inbox>>

Refuse(c, m) ==
  /\ name[c] = NoName /\ m.type = "JOIN_REQUEST" /\ ~Free(m.name)
  /\ Reply(c, Nack)
  /\ UNCHANGED <<name, said>>

Grant(c, m) ==
  /\ name[c] = NoName /\ m.type = "JOIN_REQUEST" /\ Free(m.name)
  /\ name' = [name EXCEPT ![c] = m.name]
  /\ Reply(c, Ack)
  /\ Record(m.name, m)

Say(c, m) ==
  /\ name[c] # NoName
  /\ Record(name[c], m)
  /\ LET hearers == IF m.type = "MESSAGE" THEN members \ {c} ELSE {}
     IN  inbox' = [d \in Conn |-> IF d \in hearers THEN Append(inbox[d], m) ELSE inbox[d]]
  /\ UNCHANGED name

Hear(c) ==
  /\ c \in members
  /\ heard' = [heard EXCEPT ![c] = @ + 1]
  /\ \E m \in NextFrames(c) : Ignore(c, m) \/ Refuse(c, m) \/ Grant(c, m) \/ Say(c, m)
  /\ UNCHANGED members

Next == \E c \in Conn : Enter(c) \/ Hear(c)

Spec == Init /\ [][Next]_vars

=============================================================================
