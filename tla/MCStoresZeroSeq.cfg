SPECIFICATION Spec
CONSTANTS
    Namespaces = {default, a, b}
    DefaultNamespace = default
    MaxNamespaces = 1
    Capacity = 2
    Clients = {c1, c2}
    NumScenarios = 1
    Misrouted = FALSE
    ResetScopes <- MCOne
    MaxRequests = 2
INVARIANT ZeroMeansNeverJournaled
