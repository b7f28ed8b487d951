\* Every route of the four profiles, called up to two times per lane.
SPECIFICATION Spec
CONSTANTS
    MaxCalls = 2
    MaxJobs = 2
    MaxResets = 1
    Entries <- MCEntries
    Requests <- MCRequests
    JobRequests <- MCJobRequests
INVARIANTS
    ClaimsAccounted
    StatusNamesTheCause
    DemotionHolds
    OwnJobsOnly
    ServedModelNamed
PROPERTIES
    RefusalSpendsNothing
CHECK_DEADLOCK FALSE
