SPECIFICATION LifecycleSpec
CONSTANTS
  KB = KB
  Document1 = Document1
  Session = Session
  Message = Message
  Global = Global
  KnowledgeBase = KnowledgeBase
  None = None
  IndexTasks = {i1}
  User = User
  MaxTalk = 0
  MaxTime = 4
  MaxDeletions = 1
  MaxLosses = 0
  Events <- AllEvents
  Workers = {w1}
  Scopes <- MCScopes
  Sources <- MCSources
  Projections <- Times
  Projection <- VersionProjection
  Candidates = {c1}
  SettingNames = {"automatic"}
  Automatic = "automatic"
  InitialSettings <- SwitchedOn
  MaxFaults = 0
INVARIANTS DeletedDocumentStaysDeleted
CHECK_DEADLOCK FALSE
