CONSTANTS
    a1 = a1
    a2 = a2
    m1 = m1
    m2 = m2
    m3 = m3
    bad = bad
    NoMsg = NoMsg
    Appenders <- MCAppenders
    Msgs <- MCMsgs
    Keys <- MCKeys
    KeyOf <- MCKeyOf
    Times <- MCTimes
SPECIFICATION LogSpec
INVARIANTS
    LogTypeOK
    AckedIsRecorded
    OneAckPerKey
    IndexMatchesEntries
PROPERTIES
    AppendOnly
    ImplementsAppendOnlyLog
