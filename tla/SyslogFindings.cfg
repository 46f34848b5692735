SPECIFICATION Spec
CONSTANTS
    MaxBytes = 2
    SegmentBytes = 2
    BigRecords = {}
    Rules <- MCRules
    Capacity = 2
    SendBatch = 2
    MaxRecords = 4
    MaxDeaths = 1
    MaxCursorFails = 0
    MaxFlushFails = 1
INVARIANTS FlushReachesSpool PromisedIsWritten GapsAreCounted NoSilentGap CursorIsInJournal
CHECK_DEADLOCK FALSE
