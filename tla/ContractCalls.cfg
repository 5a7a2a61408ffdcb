CONSTANTS
    Packet = {p1}
    TxGas = 4
    HookGas = 1
    SubGas = {1, 2}
    MaxDepth = 3
    Hooked = 1
SPECIFICATION Spec
INVARIANTS EventsFollowWrites GasIsCharged PacketsAnswered
PROPERTIES CallsAreAtomic 
