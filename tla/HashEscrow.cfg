SPECIFICATION Spec
CONSTANTS
    terp = terp
    atom = atom
    Chain = {eth}
    Contract = {c1, c2}
    Denom = {terp, atom}
    NoChain = NoChain
    NoDenom = NoDenom
    Param <- MCParams
    Word = 16
    Funds = 3
    MaxHeight = 5
    MaxUntil = 7
    MaxEpoch = 3
SYMMETRY MCSymmetry
INVARIANTS  DisabledInTime PoolCoversRecords
