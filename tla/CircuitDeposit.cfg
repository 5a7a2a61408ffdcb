SPECIFICATION FairSpec
CONSTANTS
    Addr = {1, 2, 3}
    Authority = 3
    NoOne = NoOne
    Year = 2
    MaxYears = 2
    MaxGCCircuits = 1
    MaxGCDepositees = 2
    MaxTime = 4
    MaxUntil = 4
    MaxZk = 3
    MaxParam = 1
INVARIANTS TypeOK IndexesExact FlaggedOwnsCircuits OneInterrupted
PROPERTIES PaidTimeKept CoveredCircuitsKept  
