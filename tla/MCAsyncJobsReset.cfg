SPECIFICATION Spec
CONSTANTS
    Namespaces = {n1}
    Requests = {r1, r2}
    Admins = {a1, a2}
    Entries = {"full"}
    MaxJobs = 1
    MaxCalls = 2
    maxCancelTries = 2
    Turns <- MCTurnsShort
    CancelTurns <- MCCancelTurns
SYMMETRY Symmetry
INVARIANTS
    TypeOK
    BoundHeld
    PollsMatchClaims
    NoCollision
PROPERTY ImplementsLifecycle
