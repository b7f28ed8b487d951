\* Two requests of one namespace, read one entry at a time.
SPECIFICATION Spec
CONSTANTS
    Namespaces = {"default"}
    DefaultNamespace = "default"
    MaxNamespaces = 1
    Capacity = 2
    Scope = "default"
    Limits = {0, 1}
    MaxArrivals = 2
INVARIANT PagerSkipsNothing
CHECK_DEADLOCK FALSE
