SPECIFICATION FairJobSpec
CONSTANTS
    a1 = a1
    a2 = a2
    a3 = a3
    w1 = w1
    w2 = w2
    q1 = q1
    q2 = q2
    None = None
    Addresses <- TheAddresses
    Targets <- TheTargets
    Workers <- TwoWorkers
    Requests <- TwoRequests
    JobIds <- TwoJobs
    IdentitySlots = 1
    Restarts = 1
INVARIANT ShownRunningIsRunning
