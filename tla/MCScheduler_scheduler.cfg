SPECIFICATION FairSpec
CONSTANTS
    w1 = w1
    None = None
    Workers <- OneWorker
    Checks <- FourChecks
INVARIANTS
    OnePlace
    InFlightExact
    CleanReturn
PROPERTIES
    RunsPromise
    DueIsRun
    ShutdownCompletes
