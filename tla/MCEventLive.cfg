CONSTANTS
    r1 = r1
    r2 = r2
    r3 = r3
    Requesters <- MCRequesters
    NoJob = NoJob
SPECIFICATION FairSpec
INVARIANT HandledPending
PROPERTY HandledAnswered
CHECK_DEADLOCK FALSE
