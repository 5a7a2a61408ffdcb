SPECIFICATION Spec
CONSTANTS
    user = user
    officer = officer
    Account = {user, officer}
    Tree <- MCTree
    Size <- MCSize
    Message <- MCMessage
    GenesisRows <- MCGenesisRows
    Controllers = {officer}
    Governor = governor
    MaxMsgs = 2
    MaxId = 3
    MaxSeq = 2
INVARIANTS
    ExecutedIfApproved OnlyAgreeingWrote TrackedTogether 
PROPERTIES
    NoReplay 
