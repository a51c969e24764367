CONSTANTS
    MaxVersion = 2
    MaxBuilds = 2
    Floors <- MCFloors
    Fallback <- MCFallback
    Commands <- MCCommands
SPECIFICATION Spec
INVARIANT PureWheelNotAlone
CHECK_DEADLOCK FALSE
