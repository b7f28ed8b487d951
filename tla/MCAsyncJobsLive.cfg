SPECIFICATION FairSpec
CONSTANTS
    Namespaces = {n1}
    Requests = {r1, r2}
    Admins = {a1}
    Entries = {"full"}
    MaxJobs = 1
    MaxCalls = 1
    maxCancelTries = 2
    Turns <- MCTurns
    CancelTurns <- MCCancelTurns
PROPERTY RequestsFinish
