\* The session timer is never set back.
SPECIFICATION Spec
CONSTANTS
  Players = {ann}
  Answers = {right}
  SESSION_DURATION = 3
  MaxStep = 2
  MaxTime = 6
  MaxCalls = 4
INVARIANT
  SessionLasts
CHECK_DEADLOCK FALSE
