CONSTANTS
    c1 = c1
    NoMsg = NoMsg
    NilOpts = NilOpts
    Msgs <- MCOneKey
    Keys <- MCOneKey
    KeyOf <- MCOneOf
    Times <- MCTimes
    Clients <- MCClients
    ReqIDs = {7, 8}
    OpenReqs <- MCReqs
    Opts <- MCOpts
    RawSeek = 0
    StoreTail = 9
    MaxCalls = 2
SPECIFICATION FairSessionSpec
INVARIANTS
    SessionTypeOK
    ReaderIsCancellable
    CancelStopsOwnReader
PROPERTIES
    ImplementsChannel
    SessionEndReleases
    OpenIsAnswered
