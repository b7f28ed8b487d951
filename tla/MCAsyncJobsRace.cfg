SPECIFICATION Spec
CONSTANTS
    Namespaces = {n1}
    Requests = {r1, r2, r3}
    Admins = {}
    Entries = {"full", "sparse"}
    MaxJobs = 1
    MaxCalls = 4
    maxCancelTries = 2
    Turns <- MCTurns
    CancelTurns <- MCCancelTurns
SYMMETRY Symmetry
INVARIANTS
    OnePollPerPosition
    TerminalAbsorbs
    CancelAnswersNextPoll
    CancelSound
    RetryMeansPollLanded
CHECK_DEADLOCK FALSE
