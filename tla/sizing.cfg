SPECIFICATION Spec
CONSTANTS
    K = 4
    Unlimited = Unlimited
    Machines <- MCMachines
    CgroupFiles <- MCCgroupFiles
    Asked <- MCAsked
INVARIANTS
    TypeOK
    DefaultsLeaveHeadroom
    HeapIsNearlyAsAsked
    WholeGibArmsAreEqual
CHECK_DEADLOCK FALSE
