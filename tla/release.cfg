CONSTANTS
    MaxVersion = 2
    MaxBuilds = 2
    Floors <- MCFloors
    Fallback <- MCFallback
    Commands <- MCCommands
SPECIFICATION Spec
INVARIANTS
    TypeOK
    PureWheelIsPure
    TagReadFromJarFits
    PushedLinksResolve
PROPERTIES
    OldLinksStay
CHECK_DEADLOCK FALSE
