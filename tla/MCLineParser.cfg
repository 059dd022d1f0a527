\* Lines of up to four characters.
SPECIFICATION Spec
CONSTANTS
  Chars = {" ", "/", "a", "nswer"}
  MaxLine = 4
  UserName <- Annie
INVARIANTS
  TypeOK
  CommandsStayPrivate
  AnswerIsRest
  EchoIsSent
  TrimHelpers
