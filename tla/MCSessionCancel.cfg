CONSTANTS
    c1 = c1
    NoMsg = NoMsg
    NilOpts = NilOpts
    Msgs <- MCKeys
    Keys <- MCKeys
    KeyOf <- MCKeyOf
    Times <- MCTimes
    Clients <- MCClients
    ReqIDs = {7, 8}
    OpenReqs <- MCTailReqs
    Opts <- MCTailOpts
    RawSeek = 0
    StoreTail = 9
    MaxCalls = 2
SPECIFICATION SessionSpec
INVARIANTS
    CancelIsFinal
