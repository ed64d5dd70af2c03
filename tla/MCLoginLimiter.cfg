SPECIFICATION Spec
CONSTANTS
    s1 = s1
    s2 = s2
    a1 = a1
    a2 = a2
    a3 = a3
    None = None
    Sources <- TheSources
    Accounts <- TheAccounts
    SourceWindow = 2
    SourceLimit = 2
    AccountWindow = 4
    AccountLimit = 1
    MaxKeys = 2
    SweepInterval = 2
    MaxLogins = 2
    MaxTime = 5
INVARIANTS
    TypeOK
    WindowLimit
PROPERTIES
    RefusedOnlyAtLimit
    KeysSeenLately
SYMMETRY KeySymmetry
