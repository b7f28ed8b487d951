\* Every algorithm, on every input within the bounds.
SPECIFICATION Spec
CONSTANTS
    ValidNames <- MCValidNames
    Credentials <- MCCredentials
    TooLong <- MCTooLong
    Digest <- MCDigest
    Cases = {"script", "lane", "stream", "targets"}
    Streams = {"sonar", "agent"}
    Indices <- MCIndices
    MaxTurns = 3
    LastPoll = 5
    MaxLanes = 2
    MaxDeltas = 2
    LastCall = 4
INVARIANTS
    CheckEqualsWalk
    LaneRecovered
    StreamFaultLands
    EveryTargetAnswered
CHECK_DEADLOCK FALSE
