SPECIFICATION Spec
CONSTANTS
    Namespaces = {default, a, b}
    DefaultNamespace = default
    MaxNamespaces = 1
    Capacity = 2
    Clients = {c1}
    NumScenarios = 1
    Misrouted = TRUE
    ResetScopes <- MCOne
    MaxRequests = 2
INVARIANT ServedIsJournaled
