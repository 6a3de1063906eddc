CONSTANTS
    c1 = c1
    c2 = c2
    NoMsg = NoMsg
    NilOpts = NilOpts
    Msgs <- MCTwoKeys
    Keys <- MCTwoKeys
    KeyOf <- MCTwoKeyOf
    Times <- MCTimes
    Clients <- MCOneClient
    Opts <- MCLiveOpts
    MaxCalls = 2
SPECIFICATION FairSpec
PROPERTIES
    LockReleased
    TailAdvances
    CancelEndsReader
