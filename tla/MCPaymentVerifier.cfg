SPECIFICATION VerifierSpec
CONSTANTS
    admin = admin
    other = other
    h1 = h1
    h2 = h2
    h3 = h3
    h4 = h4
    Address <- MCAddress
    Hash <- MCHash
    PaidAmount <- MCAmount
    Limit <- MCLimit
    Deployer = admin
    MAX_PAGE_SIZE = 2
    U32_MAX = 4
SYMMETRY Symmetry
INVARIANTS
    ReplaySetMatchesTrail
    WalkHasNoGap
PROPERTY TrailAppendOnly
