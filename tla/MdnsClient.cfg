SPECIFICATION ClientSpec
CONSTANTS
    HostTtl = 4
    ServiceTtl = 10
    Grace = 1
    FirstInterval = 1
    MaxInterval = 2
    Announcements = 3
    AnnounceInterval = 1
    MaxTillStarts = 2
    MaxLost = 1
    Threads = {"t1", "t2"}
    Host = "till"
    Kinds <- MCKinds
    Machines <- MCMachines
    Configs <- MCConfigs
    Messages <- MCMessages
    MaxStarts = 2
    MaxEvents = 1
INVARIANTS HandlesKeepTrack
PROPERTIES LostOnlyWhenGone ListFollowsTills StopIsNotHeldUp
CHECK_DEADLOCK FALSE
