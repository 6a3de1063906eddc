CONSTANTS
    d = d
    c1 = c1
    c2 = c2
    p1 = p1
    NoPtr = NoPtr
    Torn = Torn
    Channels <- MCChannels
    Disc = d
    URIs <- MCURIs
    NoURI = ""
    Peers <- MCPeers
    Configs <- MCConfigs
    MaxEntries = 1
    MaxStarts = 2
    MaxFails = 1
SPECIFICATION FairSpec
INVARIANTS
    HostTypeOK
    SnapshotNotAhead
    CleanMeansSaved
PROPERTIES
    PeersNeverForgotten
    ChannelsJoined
    DirtySaved
CHECK_DEADLOCK FALSE
