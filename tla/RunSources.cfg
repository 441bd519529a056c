CONSTANTS
    t1 = t1
    t2 = t2
    ann = ann
    bob = bob
    p1 = p1
    p2 = p2
    k1 = k1
    k2 = k2
    bindAnn = bindAnn
    bindBob = bindBob
    stealBob = stealBob
    askBob = askBob
    job1 = job1
    Threads = {t1, t2}
    Messages = {bindAnn, bindBob, stealBob, askBob}
    Senders = {ann, bob}
    SenderOf <- MCSenderOf
    CodeIn <- MCCodeIn
    Codes = {k1, k2}
    CodeUser <- MCCodeUser
    Users = {p1, p2}
    Jobs = {job1}
    JobUser <- MCJobUser
    WebSession <- MCWebSession
    MaxSteps = 6
    None = None
SPECIFICATION Spec
SYMMETRY Symmetry
INVARIANTS IdentityProven QuestionsStayWithTheirUser RepeatsNeedASessionChange
CHECK_DEADLOCK FALSE
