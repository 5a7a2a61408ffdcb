SPECIFICATION FairSpec
CONSTANTS
    Payer = {p1}
    Val = {v1, v2, v3}
    Refusing = {v3}
    Yearly = 5
    MaxYears = 2
    Duration = 2
    Funds = 10
    MaxEpoch = 1
INVARIANTS CoinsConserved PoolCoversRest
PROPERTIES OnlyDustStays 
