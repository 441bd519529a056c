SPECIFICATION FairSpec
CONSTANTS
  kb = kb
  doc = doc
  session = session
  message = message
  p1 = p1
  p2 = p2
  c1 = c1
  Global = Global
  KnowledgeBase = KnowledgeBase
  None = None
  Events <- ProgressEvents
  Workers = {w1, w2}
  Scopes <- MCScopes
  Sources <- MCSources
  Projections <- MCProjections
  Projection <- ProgressProjection
  Candidates = {c1}
  SettingNames = {"automatic", "ads"}
  Automatic = "automatic"
  InitialSettings <- SwitchedOff
  MaxFaults = 1
PROPERTIES EventuallyProcessed
CHECK_DEADLOCK FALSE
