SPECIFICATION Spec
CONSTANTS
    Callers = {c1, c2}
    Hosts <- MCBusyHosts
    Requests <- MCBusyRequests
    MaxCalls = 2
    JvmHeap = 4
    HostHeap = 4
    Overlap = TRUE
INVARIANT
    FallbackIsNeverSilent
CHECK_DEADLOCK FALSE
