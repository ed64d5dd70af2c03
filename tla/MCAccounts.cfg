SPECIFICATION FairSpec
CONSTANTS
    r1 = r1
    r2 = r2
    command = command
    server = server
    cli = cli
    n1 = n1
    n2 = n2
    None = None
    Callers <- TheCallers
    Processes <- TheProcesses
    ProcessOf <- TheProcessOf
    Names <- TheNames
    Slots = 1
    MaxFailures = 1
    MaxEvents = 3
INVARIANTS
    OneAdministrator
    AuditKept
PROPERTY
    SlotIsGiven
