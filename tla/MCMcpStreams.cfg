\* The same streams for MCP, whose progress frames depend on the request.
SPECIFICATION Spec
CONSTANTS
    ValidNames <- MCValidNames
    Credentials <- MCCredentials
    TooLong <- MCTooLong
    Digest <- MCDigest
    Cases = {"stream"}
    Streams = {"mcp"}
    Indices <- MCIndices
    MaxTurns = 1
    LastPoll = 5
    MaxLanes = 1
    MaxDeltas = 2
    LastCall = 1
INVARIANT StreamFaultLands
CHECK_DEADLOCK FALSE
