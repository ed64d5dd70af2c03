SPECIFICATION FairSpec
CONSTANTS
    service = service
    command = command
    command2 = command2
    Processes <- ThreeProcesses
    Service = service
    Versions = 2
    MaxCommits = 5
    MaxFaults = 2
INVARIANTS
    LedgerExact
    OpenIsMigrated
PROPERTY
    ServiceComesUp
