SPECIFICATION FairSpec
CONSTANTS
  deletion = deletion
  observation = observation
  graphSync = graphSync
  None = None
  Operations <- MCOperations
  MemoryAgent <- ToMemoria
  Dispatchers = {d1}
  Limit = 2
  MaxAttempts = 2
  MaxFaults = 1
INVARIANTS TypeOK
PROPERTIES KeepsContract NoRowNeglected
CHECK_DEADLOCK FALSE
