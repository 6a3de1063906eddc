CONSTANTS
    c1 = c1
    c2 = c2
    NoMsg = NoMsg
    NilOpts = NilOpts
    Msgs <- MCThreeKeys
    Keys <- MCThreeKeys
    KeyOf <- MCThreeKeyOf
    Times <- MCTimes
    Clients <- MCOneClient
    Opts <- MCResetOpts
    MaxCalls = 2
SPECIFICATION Spec
INVARIANTS
    TypeOK
    NoLostWakeup
    BacklogPublished
    PublishedInOrder
    OneAfterCancel
    LimitKept
    SenderHasReader
