----------------------------- MODULE LineParser -----------------------------
(***************************************************************************)
(* What the client makes of a line that the user typed: LineParser         *)
(* (client/line_parser.h/.cc) with the helpers of common/string_utils.h,   *)
(* and the keyboard side of class ui (client/ui.cc), from the key to the   *)
(* message that is sent and the line that is shown, here and at the other  *)
(* end.  Escape is the business of module Client; tab, which turns a ring  *)
(* of panels that nothing reads, is left out.  A line is a sequence of     *)
(* characters; "nswer" counts as one.                                      *)
(***************************************************************************)
EXTENDS Naturals, Sequences, SequencesExt

CONSTANTS
  Chars,     \* what can be typed
  MaxLine,   \* bound: what the input field holds
  UserName   \* LineParser::name_

Space == {" ", "\t"}    \* what operator>> stops at

\* The name was read with operator>>, which takes no blanks.
ASSUME LineAssumption == MaxLine \in Nat /\ UserName \in Seq(Chars \ Space)

VARIABLES
  line,    \* the input field
  field,   \* new_field made an input field: field[0] is not null
  entered, \* history: the line of the last Enter
  sent,    \* what that Enter sent to the server (at most one message)
  shown    \* what that Enter wrote to the chat panel (at most one line)

vars == <<line, field, entered, sent, shown>>

Blank(s, i) == s[i] = " "

\* A trim_left that returns its argument.
trim_left_none(s) == s

\* trim_left: a string of blanks only is returned as it is.
trim_left(s) ==
  LET kept == {i \in DOMAIN s : ~Blank(s, i)}
  IN  IF kept = {} THEN s
      ELSE SubSeq(s, CHOOSE i \in kept : \A j \in kept : i <= j, Len(s))

\* A trim_right that loses the last character.
trim_right_short(s) ==
  LET kept == {i \in DOMAIN s : ~Blank(s, i)}
  IN  IF kept = {} THEN s
      ELSE SubSeq(s, 1, (CHOOSE i \in kept : \A j \in kept : j <= i) - 1)

\* trim_right: the same from the other end.
trim_right(s) ==
  LET kept == {i \in DOMAIN s : ~Blank(s, i)}
  IN  IF kept = {} THEN s
      ELSE SubSeq(s, 1, CHOOSE i \in kept : \A j \in kept : j <= i)

\* ss >> cmd, on a line that starts with a slash; and what getline reads next.
Word(s) == SubSeq(s, 1, CHOOSE n \in 0 .. Len(s) :
                          /\ \A i \in 1 .. n : s[i] \notin Space
                          /\ n < Len(s) => s[n + 1] \in Space)
Rest(s) == SubSeq(s, Len(Word(s)) + 1, Len(s))

AnswerCommands == {<<"/", "a">>, <<"/", "a", "nswer">>}
Error == [type |-> "ERROR"]

\* A parser that takes a line with an unknown command for chat.
parse_line_chatty(s) ==
  IF s = <<>> THEN Error
  ELSE IF s[1] = "/" /\ Word(s) \in AnswerCommands
  THEN [type |-> "ANSWER", from |-> UserName, answer |-> trim_left(Rest(s))]
  ELSE [type |-> "MESSAGE", msg |-> UserName, from |-> s]

\* LineParser::parse_line.  The constructor MessageMessage(msg, from) gets its
\* arguments in the other order; AnswerMessage(from, answer) does not.
parse_line(s) ==
  IF s = <<>> THEN Error
  ELSE IF s[1] # "/" THEN [type |-> "MESSAGE", msg |-> UserName, from |-> s]
  ELSE IF Word(s) \in AnswerCommands
  THEN [type |-> "ANSWER", from |-> UserName, answer |-> trim_left(Rest(s))]
  ELSE Error

-----------------------------------------------------------------------------
\* ncurses' field_buffer: the contents of the field, padded with blanks.
field_buffer(s) == s \o [i \in 1 .. MaxLine - Len(s) |-> " "]

TypeOK ==
  /\ line \in Seq(Chars) /\ Len(line) <= MaxLine
  /\ field \in BOOLEAN
  /\ entered \in Seq(Chars) /\ Len(entered) <= MaxLine
  /\ Len(sent) <= 1 /\ Len(shown) <= 1

\* Nobody looks at what new_field returned.
Init ==
  line = <<>> /\ field \in BOOLEAN /\ entered = <<>> /\ sent = <<>> /\ shown = <<>>

\* A field that takes more than it can hold.
TypeUnbounded(ch) ==
  /\ field
  /\ Len(line) <= MaxLine
  /\ line' = Append(line, ch)
  /\ UNCHANGED <<field, entered, sent, shown>>

\* handle_keyboard, default: the field takes one more character.
Type(ch) ==
  /\ field
  /\ Len(line) < MaxLine
  /\ line' = Append(line, ch)
  /\ UNCHANGED <<field, entered, sent, shown>>

\* REQ_DEL_PREV; an empty field denies it.
Backspace ==
  /\ line # <<>>
  /\ line' = SubSeq(line, 1, Len(line) - 1)
  /\ UNCHANGED <<field, entered, sent, shown>>

\* A write_to_chat that does not trim what comes after "me:".
write_to_chat_padded(who, text) == <<[who |-> who, text |-> text]>>

\* write_to_chat: the blanks at the end go, also when there is nothing else.
write_to_chat(who, text) ==
  LET kept == {i \in DOMAIN text : ~Blank(text, i)}
  IN  <<[who |-> who, text |-> IF kept = {} THEN <<>> ELSE trim_right(text)]>>

\* What the panel of another client shows of a chat message: from + ": " + msg.
Received(m) == write_to_chat(m.from, m.msg)

\* ui::send_msg: a chat line is shown and sent, an error only shown, an answer
\* only sent; then the field is cleared.
send_msg ==
  /\ field
  /\ LET buf == field_buffer(line)
         msg == parse_line(buf)
     IN  /\ sent' = IF msg.type = "ERROR" THEN <<>> ELSE <<msg>>
         /\ shown' = CASE msg.type = "MESSAGE" -> write_to_chat("me", buf)
                       [] msg.type = "ERROR" -> write_to_chat("ERROR", <<>>)
                       [] OTHER -> <<>>
  /\ entered' = line
  /\ line' = <<>>
  /\ UNCHANGED field

\* The same when field_buffer returns null: the panel shows strerror(errno).
send_msg_null ==
  /\ ~field
  /\ sent' = <<>>
  /\ shown' = write_to_chat("errno", <<>>)
  /\ entered' = line
  /\ UNCHANGED <<line, field>>

\* handle_keyboard
Next == (\E ch \in Chars : Type(ch)) \/ Backspace \/ send_msg \/ send_msg_null

Spec == Init /\ [][Next]_vars

-----------------------------------------------------------------------------
\* messages.yaml:17, "This is not sent to anybody else than the server.": no line
\* that begins with a slash becomes chat, and one whose first word is an answer
\* command becomes an answer, which the chat panel does not show.
CommandsStayPrivate ==
  entered # <<>> /\ entered[1] = "/" =>
    /\ \A i \in DOMAIN shown : shown[i].who = "ERROR"
    /\ \A i \in DOMAIN sent : sent[i].type # "MESSAGE"
    /\ sent # <<>> <=> \E w \in AnswerCommands :
         IsPrefix(w, entered) /\ (entered = w \/ entered[Len(w) + 1] \in Space)

\* An answer is the text behind the command, without the blanks between them.
AnswerIsRest ==
  \A i \in DOMAIN sent :
    LET s == field_buffer(entered)  a == sent[i].answer
    IN  sent[i].type = "ANSWER" =>
          /\ IsSuffix(a, s)
          /\ \A j \in DOMAIN s : j <= Len(s) - Len(a) => s[j] = " " \/ j <= Len(Word(s))
          /\ a # <<>> /\ a[1] = " " => \A j \in DOMAIN a : a[j] = " "

\* A line with text in it is shown as the user's own exactly if it is sent to the
\* others, and their panels show the user's name and the same text of it, in
\* whichever place, the padding left out; no line is silently dropped
\* (ui.cc:112-125, main.cc:77).  What an empty field may send is left open.
EchoIsSent ==
  /\ (\E i \in DOMAIN entered : ~Blank(entered, i)) =>
       \A i \in DOMAIN sent : sent[i].type = "MESSAGE" =>
         \E j \in DOMAIN shown, k \in DOMAIN Received(sent[i]) :
           LET mine == shown[j]  theirs == Received(sent[i])[k]
           IN  /\ mine.who = "me" /\ mine.text # <<>> /\ ~Blank(mine.text, Len(mine.text))
               /\ \E n \in 0 .. MaxLine :
                    {theirs.who, theirs.text} = {UserName, mine.text \o [l \in 1 .. n |-> " "]}
  /\ entered # <<>> => sent # <<>> \/ shown # <<>>
  /\ (\E j \in DOMAIN shown : shown[j].who = "me") => sent # <<>>

\* The helpers of string_utils.h on whatever is in the field: trimming from both
\* ends, in either order, leaves the text from its first to its last character
\* that is not blank, and nothing but blanks is lost.
TrimHelpers ==
  LET both == trim_left(trim_right(line))
      text == {i \in DOMAIN line : ~Blank(line, i)}
  IN  /\ both = trim_right(trim_left(line))
      /\ text # {} =>
           /\ ~Blank(both, 1) /\ ~Blank(both, Len(both))
           /\ \E i \in DOMAIN line : SubSeq(line, i, i + Len(both) - 1) = both
           /\ Cardinality({i \in DOMAIN both : ~Blank(both, i)}) = Cardinality(text)

\* tests/line_parser_test.cc:36: the msg of a chat message is the line.
ChatTextIsLine ==
  \A i \in DOMAIN sent : sent[i].type = "MESSAGE" => sent[i].msg = field_buffer(entered)

=============================================================================
