SPECIFICATION Spec
CONSTANTS
    Callers = {c1}
    Hosts <- MCHosts
    Requests <- MCRequests
    MaxCalls = 3
    JvmHeap = 1
    HostHeap = 4
    Overlap = FALSE
INVARIANTS
    TypeOK
    RequiredMeansLoaded
    LoadedEngineFitsHost
    TimezonesReachJvm
    JarsReachJvm
    HeapIsAsAskedOrNoted
    FallbackIsLoud
    EngagedMeansLoaded
    OperatorTzdirReachesJvm
PROPERTIES
    KeepsPromise
    ExistingSessionUnchanged
    DoctorForetells
CHECK_DEADLOCK FALSE
