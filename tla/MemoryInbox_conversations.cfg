SPECIFICATION Spec
CONSTANTS
  kb = kb
  doc = doc
  session = session
  message = message
  p1 = p1
  p2 = p2
  c1 = c1
  Global = Global
  KnowledgeBase = KnowledgeBase
  None = None
  Events <- ConversationEvents
  Workers = {w1, w2}
  Scopes <- MCScopes
  Sources <- MCSources
  Projections <- MCProjections
  Projection <- SourceProjection
  Candidates = {c1}
  SettingNames = {"automatic", "ads"}
  Automatic = "automatic"
  InitialSettings <- SwitchedOn
  MaxFaults = 1
SYMMETRY WorkerSymmetry
INVARIANTS SettingsFollowOrder
PROPERTIES TerminalStays OptOutNotOvertaken
CHECK_DEADLOCK FALSE
