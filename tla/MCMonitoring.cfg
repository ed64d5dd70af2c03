SPECIFICATION MSpec
CONSTANTS
    w1 = w1
    w2 = w2
    m1 = m1
    None = None
    Workers <- TwoWorkers
    Handlers <- OneHandler
    Checks <- OneCheck
    MaxThreshold = 2
    Interval = 1
    MaxTime = 2
    MaxResults = 3
    Restarts = 1
INVARIANTS
    CountersMatchHistory
    StatusMatchesHistory
    ScheduledInOrder
    EarlyOnce
SYMMETRY WorkerSymmetry
