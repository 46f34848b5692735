SPECIFICATION QuicFairSpec
CONSTANTS
    Configs <- MCConfigs
    LongestIdle = 1000
    Threads = {1, 2}
    Sessions = {1}
    Streams = {1}
    Depth = 2
    MaxPlain = 1
INVARIANTS EndIsKept StoppedIsDown

CHECK_DEADLOCK FALSE
