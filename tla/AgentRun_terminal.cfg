SPECIFICATION Spec
CONSTANTS
  Runs = {r1}
  Workers = {w1, w2}
  MaxAttempts = 2
  MaxSubmits = 1
  MaxTroubles = 1
  None = None
  Dead = Dead
PROPERTIES TerminalStays
CHECK_DEADLOCK FALSE
