SPECIFICATION OverloadSpec
CONSTANTS
    w1 = w1
    None = None
    Workers <- OneWorker
    Checks <- FiveChecks
PROPERTY DueIsRun
