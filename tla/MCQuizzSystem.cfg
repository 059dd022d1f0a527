\* Two players, two answers, sessions of three units.
SPECIFICATION Spec
CONSTANTS
  Players = {ann, bob}
  Answers = {right, wrong}
  SESSION_DURATION = 3
  MaxStep = 2
  MaxTime = 6
  MaxCalls = 4
INVARIANTS
  TypeOK
  FirstAnswersOfSession
SYMMETRY Symmetry
CHECK_DEADLOCK FALSE
