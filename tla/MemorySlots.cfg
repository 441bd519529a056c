CONSTANTS
    u1 = u1
    u2 = u2
    v1 = v1
    v2 = v2
    v3 = v3
    e1 = e1
    e2 = e2
    Slots = {1, 2}
    Values = {v1, v2, v3}
    Observations = {e1, e2}
    Worker = Worker
    Users = {u1, u2}
    MaxStarts = 4
    None = None
    Gone = Gone
SPECIFICATION Spec
SYMMETRY Symmetry
INVARIANTS TypeOK EverythingHasASource OneMemoryPerSlot DeadlockNeedsDisorder
PROPERTIES DecidedOnce ConfirmReplacesReviewed
CHECK_DEADLOCK FALSE
