SPECIFICATION Spec
CONSTANTS
    alice = alice
    bob = bob
    Account = {gov, alice}
    Gov = gov
    NoAdmin = none
    Propagate = {"instantiate"}
    MaxCallDepth = 2
    Binary = {plain, ibc}
    IBCBinary = {ibc}
    Configs <- MCOpen
    Uploads <- MCListed
    Defaults = {"Everybody"}
    ListEdits <- MCListEdits
    NewAdmins = {alice}
    MaxCodes = 2
    MaxContracts = 1
    MaxHistory = 3
    MaxPos = 2
INVARIANTS TypeOK ContractsIndexed PortBacked
PROPERTY LockedContracts
