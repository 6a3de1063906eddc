--------------------------- MODULE EntryLogProofs ---------------------------
(***************************************************************************)
(* Proofs about EntryLog for any sets of appenders, messages, keys and     *)
(* clock values: type correctness, the safety invariants and action        *)
(* property MCEntryLog checks, and that Append implements AppendOnlyLog.   *)
(*                                                                         *)
(* None of the invariants is inductive by itself.  What is missing is what *)
(* an appender holds between the commit and the return: it has Won its     *)
(* key, so that its entry is stored, its bookmark is in the index, nobody  *)
(* was told of the key before and nobody else has won it.                  *)
(***************************************************************************)
EXTENDS EntryLog, TLAPS

\* The commit of appender a has succeeded and its caller is about to learn it.
Won(a) == apPc[a] = "return" /\ apErr[a] = "none"

\* An appender inside its transaction has a message with a key, and no error yet.
TxnInv ==
    \A a \in Appenders :
        /\ apPc[a] \in {"get", "commit"} => /\ apMsg[a] \in Msgs
                                            /\ KeyOf[apMsg[a]] \in Keys
        /\ apPc[a] # "return" => apErr[a] = "none"

\* What a committed transaction guarantees until Append returns.
WonInv ==
    \A a \in Appenders : Won(a) =>
        /\ apMsg[a] \in Msgs
        /\ KeyOf[apMsg[a]] \in Keys
        /\ entries[KeyOf[apMsg[a]]] = apMsg[a]
        /\ Bookmark(a) \in index
        /\ \A x \in acks : x.mark.key # KeyOf[apMsg[a]]
        /\ \A b \in Appenders : Won(b) /\ KeyOf[apMsg[b]] = KeyOf[apMsg[a]] => a = b

\* A bookmark is made from the key of the message it was given for.
AckKeyInv == \A x \in acks : KeyOf[x.msg] = x.mark.key

LogInv == /\ LogTypeOK
          /\ TxnInv
          /\ WonInv
          /\ AckKeyInv
          /\ AckedIsRecorded
          /\ OneAckPerKey
          /\ IndexMatchesEntries

-----------------------------------------------------------------------------
\* The initial database is empty and every appender idle: the invariant holds.
LEMMA LogInitInv == LogInit => LogInv
BY KeysAssumption, NoMsgAssumption, TimesAssumption
DEF LogInit, RecordInit, LogInv, LogTypeOK, TxnInv, WonInv, Won, AckKeyInv, AckedIsRecorded,
    OneAckPerKey, IndexMatchesEntries, ApErrors

\* No step of Append, of the clock or of a restart gives a variable a value
\* outside its type.
LEMMA LogTypeStep == LogTypeOK /\ TxnInv /\ WonInv /\ [LogNext]_logVars => LogTypeOK'
<1> SUFFICES ASSUME LogTypeOK, TxnInv, WonInv, [LogNext]_logVars
             PROVE  LogTypeOK'
    OBVIOUS
<1> USE KeysAssumption, KeyOfAssumption, NoMsgAssumption, TimesAssumption
        DEF LogTypeOK, ApErrors, ArrivalKeys
<1>1. ASSUME NEW a \in Appenders, NEW m \in Msgs, AppendInvalid(a, m)
      PROVE  LogTypeOK'
      BY <1>1 DEF AppendInvalid
<1>2. ASSUME NEW a \in Appenders, NEW m \in Msgs, AppendCall(a, m)
      PROVE  LogTypeOK'
      BY <1>2 DEF AppendCall
<1>3. ASSUME NEW a \in Appenders, TxnGet(a)
      PROVE  LogTypeOK'
      BY <1>3 DEF TxnGet
<1>4. ASSUME NEW a \in Appenders, TxnCommit(a)
      PROVE  LogTypeOK'
  <2>1. apMsg[a] \in Msgs /\ KeyOf[apMsg[a]] \in Keys
        BY <1>4 DEF TxnCommit, TxnInv
  <2>2. Bookmark(a) \in ArrivalKeys
        BY <2>1 DEF Bookmark, ArrivalKey
  <2> QED BY <1>4, <2>1, <2>2 DEF TxnCommit
<1>5. ASSUME NEW a \in Appenders, TxnAbort(a) \/ TxnFail(a)
      PROVE  LogTypeOK'
      BY <1>5 DEF TxnAbort, TxnFail
<1>6. ASSUME NEW a \in Appenders, AppendReturn(a)
      PROVE  LogTypeOK'
  <2>1. apErr[a] = "none" => Ack(a) \in [by : Appenders, msg : Msgs, mark : ArrivalKeys]
        BY <1>6 DEF AppendReturn, WonInv, Won, Ack, Bookmark, ArrivalKey
  <2> QED BY <1>6, <2>1 DEF AppendReturn
<1>7. CASE ClockStep
      BY <1>7 DEF ClockStep, apVars
<1>8. CASE LogCrash
      BY <1>8 DEF LogCrash
<1>9. CASE UNCHANGED logVars
      BY <1>9 DEF logVars, dbVars, apVars
<1> QED BY <1>1, <1>2, <1>3, <1>4, <1>5, <1>6, <1>7, <1>8, <1>9 DEF LogNext, AppendStep

\* Every step of the log preserves the inductive invariant.  Only the commit
\* changes the database and only the return changes what callers know; the
\* other steps move one appender without making it Won.
LEMMA LogStepInv == LogInv /\ [LogNext]_logVars => LogInv'
<1> SUFFICES ASSUME LogInv, [LogNext]_logVars
             PROVE  LogInv'
    OBVIOUS
<1>t. LogTypeOK'
      BY LogTypeStep DEF LogInv
<1> USE KeysAssumption, KeyOfAssumption, NoMsgAssumption DEF LogInv
<1>1. ASSUME NEW a \in Appenders, NEW m \in Msgs, AppendInvalid(a, m)
      PROVE  LogInv'
  <2>1. TxnInv' /\ WonInv'
        BY <1>1 DEF AppendInvalid, TxnInv, WonInv, Won, Bookmark, LogTypeOK
  <2> QED BY <1>1, <1>t, <2>1
          DEF AppendInvalid, AckKeyInv, AckedIsRecorded, OneAckPerKey, IndexMatchesEntries
<1>2. ASSUME NEW a \in Appenders, NEW m \in Msgs, AppendCall(a, m)
      PROVE  LogInv'
  <2>1. TxnInv' /\ WonInv'
        BY <1>2 DEF AppendCall, TxnInv, WonInv, Won, Bookmark, LogTypeOK
  <2> QED BY <1>2, <1>t, <2>1
          DEF AppendCall, AckKeyInv, AckedIsRecorded, OneAckPerKey, IndexMatchesEntries
<1>3. ASSUME NEW a \in Appenders, TxnGet(a) \/ TxnAbort(a) \/ TxnFail(a)
      PROVE  LogInv'
  <2>1. /\ UNCHANGED <<entries, index, acks, apMsg, apTs>>
        /\ \/ apPc' = [apPc EXCEPT ![a] = "commit"] /\ UNCHANGED apErr
           \/ /\ apPc' = [apPc EXCEPT ![a] = "return"]
              /\ apErr'[a] # "none"
              /\ \A b \in Appenders \ {a} : apErr'[b] = apErr[b]
        /\ apPc[a] \in {"get", "commit"}
        BY <1>3 DEF TxnGet, TxnAbort, TxnFail, LogTypeOK
  <2>2. TxnInv' /\ WonInv'
        BY <2>1 DEF TxnInv, WonInv, Won, Bookmark, LogTypeOK
  <2> QED BY <1>t, <2>1, <2>2
          DEF AckKeyInv, AckedIsRecorded, OneAckPerKey, IndexMatchesEntries
<1>4. ASSUME NEW a \in Appenders, TxnCommit(a)
      PROVE  LogInv'
  <2> DEFINE k == KeyOf[apMsg[a]]
  <2>1. /\ apMsg[a] \in Msgs /\ k \in Keys /\ apErr[a] = "none"
        /\ entries[k] = NoMsg
        BY <1>4 DEF TxnCommit, TxnInv, TxnConflict
  <2>2. /\ Bookmark(a).key = k
        /\ \A x \in index : x.key # k
        /\ \A x \in acks : x.mark.key # k
        /\ \A b \in Appenders : Won(b) => KeyOf[apMsg[b]] # k
    <3>1. Bookmark(a).key = k
          BY DEF Bookmark, ArrivalKey
    <3>2. \A x \in index : x.key # k
          BY <2>1 DEF IndexMatchesEntries
    <3>3. ASSUME NEW x \in acks
          PROVE  x.mark.key # k
      <4>1. x.msg \in Msgs /\ entries[x.mark.key] = x.msg
            BY DEF AckedIsRecorded, LogTypeOK
      <4> QED BY <4>1, <2>1
    <3>4. \A b \in Appenders : Won(b) => KeyOf[apMsg[b]] # k
          BY <2>1 DEF WonInv
    <3> QED BY <3>1, <3>2, <3>3, <3>4
  <2>3. /\ entries' = [entries EXCEPT ![k] = apMsg[a]]
        /\ index' = index \cup {Bookmark(a)}
        /\ UNCHANGED <<acks, apMsg, apTs, apErr>>
        /\ \A b \in Appenders : Won(b)' <=> b = a \/ Won(b)
        /\ \A b \in Appenders : Bookmark(b)' = Bookmark(b)
        BY <1>4, <2>1 DEF TxnCommit, Won, Bookmark, LogTypeOK
  <2>4. TxnInv'
        BY <1>4, <2>1 DEF TxnCommit, TxnInv, LogTypeOK
  <2>5. WonInv'
        BY <2>1, <2>2, <2>3 DEF WonInv, LogTypeOK
  <2>6. AckKeyInv' /\ AckedIsRecorded' /\ OneAckPerKey'
        BY <2>2, <2>3 DEF AckKeyInv, AckedIsRecorded, OneAckPerKey, LogTypeOK, ArrivalKeys
  <2>7. IndexMatchesEntries'
        BY <2>1, <2>2, <2>3 DEF IndexMatchesEntries, LogTypeOK, ArrivalKeys
  <2> QED BY <1>t, <2>4, <2>5, <2>6, <2>7
<1>5. ASSUME NEW a \in Appenders, AppendReturn(a)
      PROVE  LogInv'
  <2>1. /\ UNCHANGED <<entries, index, apTs>>
        /\ \A b \in Appenders : Won(b)' <=> b # a /\ Won(b)
        /\ \A b \in Appenders \ {a} : apMsg'[b] = apMsg[b] /\ Bookmark(b)' = Bookmark(b)
        BY <1>5 DEF AppendReturn, Won, Bookmark, LogTypeOK
  <2>2. TxnInv'
        BY <1>5 DEF AppendReturn, TxnInv, LogTypeOK
  <2>3. CASE apErr[a] = "none"
    <3>1. /\ Won(a)
          /\ acks' = acks \cup {Ack(a)}
          /\ Ack(a).mark = Bookmark(a) /\ Ack(a).msg = apMsg[a]
          /\ Bookmark(a).key = KeyOf[apMsg[a]]
          BY <1>5, <2>3 DEF AppendReturn, Won, Ack, Bookmark, ArrivalKey
    <3>2. WonInv'
          BY <2>1, <3>1 DEF WonInv
    <3>3. AckKeyInv' /\ AckedIsRecorded' /\ OneAckPerKey'
          BY <2>1, <3>1 DEF WonInv, AckKeyInv, AckedIsRecorded, OneAckPerKey
    <3> QED BY <1>t, <2>1, <2>2, <3>2, <3>3 DEF IndexMatchesEntries
  <2>4. CASE apErr[a] # "none"
    <3>1. acks' = acks
          BY <1>5, <2>4 DEF AppendReturn
    <3>2. WonInv'
          BY <2>1, <3>1 DEF WonInv
    <3> QED BY <1>t, <2>1, <2>2, <3>1, <3>2
            DEF AckKeyInv, AckedIsRecorded, OneAckPerKey, IndexMatchesEntries
  <2> QED BY <2>3, <2>4
<1>6. CASE ClockStep
      BY <1>6, <1>t DEF ClockStep, apVars, TxnInv, WonInv, Won, Bookmark, AckKeyInv,
         AckedIsRecorded, OneAckPerKey, IndexMatchesEntries
<1>7. CASE LogCrash
  <2>1. TxnInv' /\ WonInv'
        BY <1>7 DEF LogCrash, TxnInv, WonInv, Won
  <2> QED BY <1>7, <1>t, <2>1
          DEF LogCrash, AckKeyInv, AckedIsRecorded, OneAckPerKey, IndexMatchesEntries
<1>8. CASE UNCHANGED logVars
      BY <1>8, <1>t DEF logVars, dbVars, apVars, TxnInv, WonInv, Won, Bookmark, AckKeyInv,
         AckedIsRecorded, OneAckPerKey, IndexMatchesEntries
<1> QED BY <1>1, <1>2, <1>3, <1>4, <1>5, <1>6, <1>7, <1>8 DEF LogNext, AppendStep

\* The inductive invariant holds throughout every behaviour of the log.
THEOREM LogInvariant == LogSpec => []LogInv
<1>1. LogInit => LogInv
      BY LogInitInv
<1>2. LogInv /\ [LogNext]_logVars => LogInv'
      BY LogStepInv
<1> QED BY <1>1, <1>2, PTL DEF LogSpec

\* Append keeps its variables and both key spaces well typed.
THEOREM LogTypeCorrect == LogSpec => []LogTypeOK
<1>1. LogInv => LogTypeOK
      BY DEF LogInv
<1> QED BY <1>1, LogInvariant, PTL

\* Any number of appenders, crashes and clock changes: an acknowledged entry is
\* the one stored, under a bookmark the index holds.
THEOREM AckedIsRecordedHolds == LogSpec => []AckedIsRecorded
<1>1. LogInv => AckedIsRecorded
      BY DEF LogInv
<1> QED BY <1>1, LogInvariant, PTL

\* At most one Append call per key is ever told it succeeded.
THEOREM OneAckPerKeyHolds == LogSpec => []OneAckPerKey
<1>1. LogInv => OneAckPerKey
      BY DEF LogInv
<1> QED BY <1>1, LogInvariant, PTL

\* The Entries and ArrivalIndex key spaces never disagree.
THEOREM IndexMatchesEntriesHolds == LogSpec => []IndexMatchesEntries
<1>1. LogInv => IndexMatchesEntries
      BY DEF LogInv
<1> QED BY <1>1, LogInvariant, PTL

\* An entry that is present is not written again: the commit of a transaction
\* that found its key absent is the only step that writes one.
LEMMA EntriesStep ==
    LogInv /\ [LogNext]_logVars =>
        \/ entries' = entries
        \/ \E a \in Appenders : TxnCommit(a)
BY DEF LogNext, AppendStep, AppendInvalid, AppendCall, TxnGet, TxnAbort, TxnFail,
       AppendReturn, ClockStep, LogCrash, logVars, dbVars, apVars

\* Append never replaces or removes an entry, however its calls interleave.
THEOREM AppendOnlyHolds == LogSpec => AppendOnly
<1> DEFINE Kept == \A k \in Keys : entries[k] # NoMsg => entries'[k] = entries[k]
<1>1. LogInv /\ [LogNext]_logVars => [Kept]_logVars
  <2> SUFFICES ASSUME LogInv, [LogNext]_logVars
               PROVE  Kept
      OBVIOUS
  <2>1. CASE entries' = entries
        BY <2>1
  <2>2. ASSUME NEW a \in Appenders, TxnCommit(a)
        PROVE  Kept
        BY <2>2 DEF TxnCommit, TxnConflict, LogInv, LogTypeOK
  <2> QED BY <2>1, <2>2, EntriesStep
<1> QED BY <1>1, LogInvariant, PTL DEF LogSpec, AppendOnly

\* Append implements AppendOnlyLog: a commit is a Record with the arrival time
\* read before the transaction, every other step a stutter.
THEOREM LogImplementsAppendOnlyLog == LogSpec => ImplementsAppendOnlyLog
<1>1. LogInit => RecordInit
      BY DEF LogInit
<1>2. LogInv /\ [LogNext]_logVars => [RecordNext]_dbVars
  <2> SUFFICES ASSUME LogInv, [LogNext]_logVars
               PROVE  RecordNext \/ UNCHANGED dbVars
      OBVIOUS
  <2>1. ASSUME NEW a \in Appenders, TxnCommit(a)
        PROVE  RecordNext
    <3>1. PICK m \in Msgs, ts \in Times : m = apMsg[a] /\ ts = apTs[a]
          BY <2>1 DEF TxnCommit, LogInv, TxnInv, LogTypeOK
    <3>2. KeyOf[m] \in Keys
          BY <2>1, <3>1 DEF TxnCommit, LogInv, TxnInv
    <3>3. Record(m, ts)
          BY <2>1, <3>1, <3>2 DEF TxnCommit, TxnConflict, Record, Bookmark
    <3> QED BY <3>3 DEF RecordNext
  <2>2. UNCHANGED dbVars \/ \E a \in Appenders : TxnCommit(a)
        BY DEF LogNext, AppendStep, AppendInvalid, AppendCall, TxnGet, TxnAbort,
               TxnFail, AppendReturn, ClockStep, LogCrash, logVars, dbVars
  <2> QED BY <2>1, <2>2
<1> QED BY <1>1, <1>2, LogInvariant, PTL DEF LogSpec, ImplementsAppendOnlyLog, RecordSpec
=============================================================================
