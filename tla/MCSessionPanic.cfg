CONSTANTS
    c1 = c1
    NoMsg = NoMsg
    NilOpts = NilOpts
    Msgs <- MCKeys
    Keys <- MCKeys
    KeyOf <- MCKeyOf
    Times <- MCTimes
    Clients <- MCClients
    ReqIDs = {7, 8}
    OpenReqs <- MCAppendReqs
    Opts <- MCAppendOpts
    RawSeek = 0
    StoreTail = 9
    MaxCalls = 1
SPECIFICATION SessionSpec
INVARIANTS
    NoPanic
