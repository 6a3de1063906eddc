CONSTANTS
    v1 = v1
    v2 = v2
    Vaults <- MCVaults
    Msgs <- MCMsgs
    KeyOf <- MCKeyOf
    MaxRestarts = 1
SPECIFICATION FairSpec
INVARIANTS
    GossipInv
PROPERTIES
    ImplementsSharedLog
    EchoEnds
    PublishedArrives
CHECK_DEADLOCK FALSE
