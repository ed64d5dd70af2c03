SPECIFICATION Spec
CONSTANTS
    k1 = k1
    k2 = k2
    cert = cert
    NoCert = NoCert
    NoForm = NoForm
    Width = 6
    MinimumPrefixBits = 3
    MaximumAddresses = 8
    Multicast <- MCMulticast
    Local <- MCLocal
    Sensitive <- MCSensitive
    Keys <- MCKeys
    Certs <- MCCerts
    HostKeys <- MCHostKeys
    HostCert <- MCHostCert
    Nics <- MCNics
INVARIANTS
    ScannedIsNamed
    SuggestionsAccepted
    KeySetsTellApart
PROPERTY
    StaysMerged
