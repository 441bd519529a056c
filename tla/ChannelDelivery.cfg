SPECIFICATION FairSpec
CONSTANTS
  Workers = {w1}
  PartCount = 3
  MaxAttempts = 3
  MaxRetries = 2
  MaxFaults = 2
INVARIANTS NoPartSkipped DuplicatesNeedFaults ExtraAttemptsNeedFaults
PROPERTIES EventuallySettled
CHECK_DEADLOCK FALSE
