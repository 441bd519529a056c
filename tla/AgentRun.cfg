SPECIFICATION Spec
CONSTANTS
  Runs = {r1, r2}
  Workers = {w1, w2}
  MaxAttempts = 2
  MaxSubmits = 1
  MaxTroubles = 2
  None = None
  Dead = Dead
SYMMETRY Symmetry
INVARIANTS TypeOK OneAtATime CollisionsNeedStalls CompletedIsAnswered ExtraAttemptsNeedFaults
CHECK_DEADLOCK FALSE
