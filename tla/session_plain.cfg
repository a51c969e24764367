SPECIFICATION Spec
CONSTANTS
    Callers = {c1}
    Hosts <- MCHosts
    Requests <- MCRequests
    MaxCalls = 3
    JvmHeap = 1
    HostHeap = 4
    Overlap = FALSE
INVARIANT
    PlainMeansPlain
CHECK_DEADLOCK FALSE
