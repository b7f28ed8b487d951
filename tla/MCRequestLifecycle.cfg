SPECIFICATION FairSpec
CONSTANTS
    BodyLen = 4
    ErrorLen = 3
    ChunkLen = 2
    Attempts <- MCAttempts
    Entries <- MCEntries
INVARIANTS
    JournaledBeforeSeen
    EntryTruthful
    JobMatchesWire
    LoadedPlanApplies
    RejectionUntouched
PROPERTIES
    EntryAmendedOnce
    Settles
CHECK_DEADLOCK FALSE
