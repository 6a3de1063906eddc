CONSTANTS
    k1 = k1
    k2 = k2
    m1 = m1
    m2 = m2
    u1 = u1
    u2 = u2
    d = d
    o = o
    a = a
    b = b
    NoKey = NoKey
    Torn = Torn
    NoUser = NoUser
    KeyPairs = {k1, k2}
    Users = {u1, u2}
    URIs = {d, o}
    DiscoveryURI = d
    Members = {m1, m2}
    MemberOf <- MCMemberOf
    CommunityKeys = {a, b}
    Updates <- MCUpdates
    Entries <- MCEntries
SYMMETRY MCSymmetry
SPECIFICATION RingSpec
INVARIANTS
    RingTypeOK
    IdentityStable
    KeysKept
    AcceptedWasMember
    OwnEntriesVerify
