SPECIFICATION Spec
CONSTANTS
    terp = terp
    atom = atom
    Chain = {eth}
    Contract = {c1}
    Denom = {terp, atom}
    NoChain = NoChain
    NoDenom = NoDenom
    Param <- MCFixed
    Word = 16
    Funds = 4
    MaxHeight = 5
    MaxUntil = 8
    MaxEpoch = 0
INVARIANT PaidIsServed
