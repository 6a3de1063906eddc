CONSTANTS
    c1 = c1
    c2 = c2
    NoMsg = NoMsg
    NilOpts = NilOpts
    Msgs <- MCTwoKeys
    Keys <- MCTwoKeys
    KeyOf <- MCTwoKeyOf
    Times <- MCTimes
    Clients <- MCOneClient
    Opts <- MCTailOnly
    MaxCalls = 2
SPECIFICATION Spec
INVARIANT
    ReplayComplete
