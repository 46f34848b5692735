SPECIFICATION Spec
CONSTANTS
    MaxBytes = 6
    SegmentBytes = 2
    BigRecords = {1,2}
    Rules <- MCRules
    Capacity = 2
    SendBatch = 2
    MaxRecords = 5
    MaxDeaths = 2
    MaxCursorFails = 1
    MaxFlushFails = 0
INVARIANTS PromisedSurvives GapsAreCounted CursorIsInJournal
CHECK_DEADLOCK FALSE
