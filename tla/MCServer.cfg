SPECIFICATION Spec
CONSTANTS
    ValidNames <- MCValidNames
    ProfileNames <- MCProfileNames
    Builtins <- MCBuiltins
    Digest <- MCDigest
    Credentials <- MCCredentials
    TooLong <- MCTooLong
    Inputs <- MCInputs
    BodyLen = 2
    ErrorLen = 1
    ChunkLen = 1
INVARIANTS ReturnSettles ProbeOutlivesDrain StartsOnlyWhole RoutedToItsScript
PROPERTY ShutdownIsBounded
CHECK_DEADLOCK FALSE
