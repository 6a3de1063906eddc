CONSTANTS
    c1 = c1
    c2 = c2
    NoMsg = NoMsg
    NilOpts = NilOpts
    Msgs <- MCTwoKeys
    Keys <- MCTwoKeys
    KeyOf <- MCTwoKeyOf
    Times <- MCTwoTimes
    Clients <- MCTwoClients
    Opts <- MCTwoOpts
    MaxCalls = 1
SPECIFICATION Spec
INVARIANTS
    NoLostWakeup
    PublishedInOrder
SYMMETRY MCSymmetry
