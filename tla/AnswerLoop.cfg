CONSTANTS
    Attempts = {a1, a2}
    Answers <- Responses
    MaxFaults = 1
    None = None
    Evidence = {e1, e2}
    Admissible = {e1}
    Requirements = {1, 2}
    Searches = {s1}
    MaxRoutes = 2
    MaxSteps = 2
    MaxAttempts = 2
    MaxCalls = 4
    MaxToolCalls = 1
    MaxTokens = 3
    PerCall = 1
SPECIFICATION LoopSpec
INVARIANTS TypeOK OneStoredAnswer AnswersSupported WithinBudgets
PROPERTIES VerdictIsFinal RunsEnd
CHECK_DEADLOCK FALSE
