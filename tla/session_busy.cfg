SPECIFICATION Spec
CONSTANTS
    Callers = {c1, c2}
    Hosts <- MCBusyHosts
    Requests <- MCBusyRequests
    MaxCalls = 3
    JvmHeap = 1
    HostHeap = 4
    Overlap = TRUE
INVARIANTS
    RequiredMeansLoaded
    LoadedEngineFitsHost
    TimezonesReachJvm
    JarsReachJvm
CHECK_DEADLOCK FALSE
