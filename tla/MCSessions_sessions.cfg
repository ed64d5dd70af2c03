SPECIFICATION Spec
CONSTANTS
    c1 = c1
    c2 = c2
    t1 = t1
    t2 = t2
    t3 = t3
    None = None
    Clients <- TwoClients
    Tokens <- ThreeTokens
    Base = 2
    TTL = 5
    MaxTime = 9
INVARIANTS
    KeptWhileValid
    LateIsRefused
PROPERTY
    LogoutIsFinal
SYMMETRY NameSymmetry
