SPECIFICATION LifecycleSpec
CONSTANTS
  KB = KB
  Document1 = Document1
  Session = Session
  Message = Message
  Global = Global
  KnowledgeBase = KnowledgeBase
  None = None
  IndexTasks = {i1, i2}
  User = User
  MaxTalk = 2
  MaxTime = 4
  MaxDeletions = 1
  MaxLosses = 1
  Events <- AllEvents
  Workers = {w1}
  Scopes <- MCScopes
  Sources <- MCSources
  Projections <- Times
  Projection <- VersionProjection
  Candidates = {c1}
  SettingNames = {"automatic"}
  Automatic = "automatic"
  InitialSettings <- SwitchedOn
  MaxFaults = 0
INVARIANTS IndexedIsPublished 
INVARIANTS DeletedConversationStaysDeleted SupersededVersionsStayDeleted
CONSTRAINT OneSource
CHECK_DEADLOCK FALSE
