SPECIFICATION Spec
CONSTANTS
    Queries <- MCQueries
    Cap = 2
INVARIANTS
    TypeOK
    PassComparedEngines
    PassMeansRowsAgree
    MismatchMeansDifference
    PassMeansMostlyNative
    SwitchedBackOn
    SameEngineIsNoted
    NothingLeftRunning
    VerdictFromWholeArms
    ExitTellsVerdict
CHECK_DEADLOCK FALSE
