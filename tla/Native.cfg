SPECIFICATION NativeSpec
CONSTANTS
    Callers = {1, 2}
    MaxCuts = 1
    MaxChanges = 0
    MaxCalls = 2
    LongestIdle = 1000
    Threads = {1, 2}
    Sessions = {1}
    Streams = {1}
    Ids = {1}
    Requests <- MCRequests
    Servers <- MCServers
    StreamsBefore <- MCStreams
    Configs <- MCConfigs
    Depth = 2
    MaxPlain = 1
    MaxScaled = 999
    Needed = 2
    Budget = 1
    Chunks = {2, 7}
    MaxLines = 3
    Lines <- ScaleLines
    Protocols <- Dialects
    Wires = {"serial", "socket", "usb_raw"}
    Models = {"led8", "vfd20", "lcd2x20"}
    MaxJobs = 2
    Flips = {1, 128}
    Asks <- BusAsks
    Blocks <- BusBlocks
    MaxAsks = 2
    MaxFaults = 1
    Header = 2
    MaxMessage = 25
    Bom = TRUE
    Oversize = "truncate"
    SdNames = {"i", "]"}
    MaxSubmits = 3
    SettingsOffered <- Settings
    Num <- Numbers
    FieldTexts = {"till-1"}
    Certs <- Presented
    Issuers <- MCIssuers
    KeyFiles = {"me.key"}
    Hashes <- MCHashes
    ServerNames = {"here", "there"}
    FacilityNames = {"local0", "user"}
    MaxSets = 5
    MaxSends = 1
    MaxLabel = 2
    MaxName = 9
    MaxJumps = 2
    MaxString = 2
INVARIANTS AckMeansWhatItSays EventsAddUp WeightIsTheOneShown JobIsDoneOnce BusSaysWhatWasMeant CollectorReadsWhatWasSaid OnlyTheCollector NamesReadBack
PROPERTY VanishedIsForgotten
CHECK_DEADLOCK FALSE
