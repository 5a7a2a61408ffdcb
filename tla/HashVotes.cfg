SPECIFICATION VotesSpec
CONSTANTS
    Val = {v1, v2, v3, v4}
    Power <- MCPower
    Legacy = {v4}
    LegacyRoots = {0, 74}
    Replica = {r1, r2}
    ChainId = {1, 2}
    Source = {1, 2, 3}
    Value = {1, 2}
    Registered = {1, 2}
    Reports <- MCReports
    digest <- MCDigest
    NoExt = NoExt
    NoRoot = NoRoot
    Numerator = 667
    Denominator = 1000
SYMMETRY MCSymmetry
INVARIANTS
    ReplicasAgree
    WinnerRule
    SameSourcesSameRoot
    
