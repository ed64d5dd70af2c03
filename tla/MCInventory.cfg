SPECIFICATION Spec
CONSTANTS
    a1 = a1
    a2 = a2
    g1 = g1
    g2 = g2
    None = None
    Addresses <- TheAddresses
    JobIds <- TwoJobs
    PortSets <- ThePortSets
    Endpoints <- TheEndpoints
    Paths <- ThePaths
    Groups <- TheGroups
    MaxMachines = 2
    MaxImport = 2
INVARIANTS
    NoTwins
    ImportedIsMonitored
    ImportsAudited
SYMMETRY NameSymmetry
