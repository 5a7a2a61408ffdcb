SPECIFICATION RegSpec
CONSTANTS
    alice = alice
    Account = {gov, alice}
    Gov = gov
    NoAdmin = none
    Propagate = {"instantiate"}
    MaxCallDepth = 2
    Binary = {plain}
    IBCBinary = {}
    Configs <- MCClosed
    Uploads <- MCOpen
    Defaults = {"Nobody"}
    ListEdits = {}
    NewAdmins = {}
    Hook = {"staking"}
    Withdrawers = {alice}
    MaxCodes = 1
    MaxContracts = 2
    MaxHistory = 1
    MaxPos = 1
 
PROPERTIES InstantiatedByRight LockedContracts
