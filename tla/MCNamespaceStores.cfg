SPECIFICATION Spec
CONSTANTS
    Namespaces = {default, a, b}
    DefaultNamespace = default
    MaxNamespaces = 1
    Capacity = 2
    Clients = {c1, c2}
    NumScenarios = 1
    Misrouted = TRUE
    ResetScopes <- MCAny
    MaxRequests = 3
SYMMETRY Symmetry
INVARIANTS
    TypeOK
    NamespacesBounded
    RetentionHonest
    StoresAgree
    PlanLostOnlyToReset
    StreamsClosed
PROPERTY ImplementsQueue
