SPECIFICATION FairSpec
CONSTANTS
    MaxBytes = 6
    SegmentBytes = 2
    BigRecords = {1,2}
    Rules <- MCRules
    Capacity = 2
    SendBatch = 2
    MaxRecords = 4
    MaxDeaths = 1
    MaxCursorFails = 1
    MaxFlushFails = 1
INVARIANTS PromisedSurvives GapsAreCounted CursorIsInJournal
PROPERTIES DrainIsInOrder HeldLeaves
CHECK_DEADLOCK FALSE
