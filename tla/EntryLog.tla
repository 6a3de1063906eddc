------------------------------- MODULE EntryLog -------------------------------
(***************************************************************************)
(* The durable log of one channel: Channel.Append of store/store.go with   *)
(* the badger transaction it runs in, the two key spaces that transaction  *)
(* writes (Entries and ArrivalIndex), and the process dying between any    *)
(* two of its steps.                                                       *)
(*                                                                         *)
(* Several goroutines append at once: one per client session               *)
(* (server.append) and one per joined topic (p2p.watchTopic).              *)
(***************************************************************************)
EXTENDS AppendOnlyLog

CONSTANT Appenders   \* the goroutines that call Append

VARIABLES clock,    \* what time.Now().Unix() returns
          apPc,     \* where each appender is in Append
          apMsg,    \* the entry it was called with
          apTs,     \* the time its arrivalKey was computed from
          apErr,    \* what Append returned
          acks      \* history: every successful Append a caller was told of

apVars  == <<apPc, apMsg, apTs, apErr>>
logVars == <<dbVars, clock, apVars, acks>>

ApErrors == {"none", "InvalidEntryID", "KeyExists", "Conflict", "Failed"}

\* Mutant: the key is computed again each time it is needed.
BookmarkNow(a) == ArrivalKey(clock, KeyOf[apMsg[a]])

\* The bookmark Append returns for the call appender a has under way.
Bookmark(a) == ArrivalKey(apTs[a], KeyOf[apMsg[a]])

Ack(a) == [by |-> a, msg |-> apMsg[a], mark |-> Bookmark(a)]

\* txn.Get(key) == nil in the snapshot of the transaction.
KeyExists(k) == entries[k] # NoMsg

\* Mutant: the check is made in a transaction of its own.
TxnConflictNever(k) == FALSE

\* badger commits a transaction only if no key it has read was written since
\* its snapshot.  Append reads just its own key, found it absent, and no code
\* deletes: the key has been written since exactly if it is present now.
TxnConflict(k) == entries[k] # NoMsg

-----------------------------------------------------------------------------
LogInit == /\ RecordInit
           /\ clock \in Times
           /\ apPc  = [a \in Appenders |-> "idle"]
           /\ apMsg = [a \in Appenders |-> NoMsg]
           /\ apTs  = [a \in Appenders |-> clock]
           /\ apErr = [a \in Appenders |-> "none"]
           /\ acks = {}

\* Append of an entry with no EntryID fails before it touches the database.
AppendInvalid(a, m) ==
    /\ apPc[a] = "idle"
    /\ KeyOf[m] = NilKey
    /\ apPc'  = [apPc  EXCEPT ![a] = "return"]
    /\ apMsg' = [apMsg EXCEPT ![a] = m]
    /\ apErr' = [apErr EXCEPT ![a] = "InvalidEntryID"]
    /\ UNCHANGED <<entries, index, clock, apTs, acks>>

\* Append up to db.Update: both keys are computed, the arrival key from the
\* clock as it is now, before the transaction has begun.
AppendCall(a, m) ==
    /\ apPc[a] = "idle"
    /\ KeyOf[m] # NilKey
    /\ apPc'  = [apPc  EXCEPT ![a] = "get"]
    /\ apMsg' = [apMsg EXCEPT ![a] = m]
    /\ apTs'  = [apTs  EXCEPT ![a] = clock]
    /\ UNCHANGED <<entries, index, clock, apErr, acks>>

\* Mutant: an entry that exists already counts as written.
TxnGetIdempotent(a) ==
    /\ apPc[a] = "get"
    /\ apPc' = [apPc EXCEPT ![a] =
                  IF KeyExists(KeyOf[apMsg[a]]) THEN "return" ELSE "commit"]
    /\ UNCHANGED <<entries, index, clock, apMsg, apTs, apErr, acks>>

\* The transaction takes its snapshot and looks the key up in it.
TxnGet(a) ==
    /\ apPc[a] = "get"
    /\ IF KeyExists(KeyOf[apMsg[a]])
         THEN /\ apPc'  = [apPc  EXCEPT ![a] = "return"]
              /\ apErr' = [apErr EXCEPT ![a] = "KeyExists"]
         ELSE /\ apPc'  = [apPc  EXCEPT ![a] = "commit"]
              /\ UNCHANGED apErr
    /\ UNCHANGED <<entries, index, clock, apMsg, apTs, acks>>

\* Mutant: the second SetEntry is missing.
TxnCommitUnindexed(a) ==
    /\ apPc[a] = "commit"
    /\ ~ TxnConflict(KeyOf[apMsg[a]])
    /\ entries' = [entries EXCEPT ![KeyOf[apMsg[a]]] = apMsg[a]]
    /\ apPc' = [apPc EXCEPT ![a] = "return"]
    /\ UNCHANGED <<index, clock, apMsg, apTs, apErr, acks>>

\* The two SetEntry calls and the commit, which applies both or neither.
TxnCommit(a) ==
    /\ apPc[a] = "commit"
    /\ ~ TxnConflict(KeyOf[apMsg[a]])
    /\ entries' = [entries EXCEPT ![KeyOf[apMsg[a]]] = apMsg[a]]
    /\ index' = index \cup {Bookmark(a)}
    /\ apPc' = [apPc EXCEPT ![a] = "return"]
    /\ UNCHANGED <<clock, apMsg, apTs, apErr, acks>>

\* Mutant: the index key is written outside the transaction.
TxnAbortIndexed(a) ==
    /\ apPc[a] = "commit"
    /\ TxnConflict(KeyOf[apMsg[a]])
    /\ apPc'  = [apPc  EXCEPT ![a] = "return"]
    /\ apErr' = [apErr EXCEPT ![a] = "Conflict"]
    /\ index' = index \cup {Bookmark(a)}
    /\ UNCHANGED <<entries, clock, apMsg, apTs, acks>>

\* The commit is refused: another transaction wrote the key first.
TxnAbort(a) ==
    /\ apPc[a] = "commit"
    /\ TxnConflict(KeyOf[apMsg[a]])
    /\ apPc'  = [apPc  EXCEPT ![a] = "return"]
    /\ apErr' = [apErr EXCEPT ![a] = "Conflict"]
    /\ UNCHANGED <<entries, index, clock, apMsg, apTs, acks>>

\* Get, SetEntry or the commit fails for a reason of badger's own.
TxnFail(a) ==
    /\ apPc[a] \in {"get", "commit"}
    /\ apPc'  = [apPc  EXCEPT ![a] = "return"]
    /\ apErr' = [apErr EXCEPT ![a] = "Failed"]
    /\ UNCHANGED <<entries, index, clock, apMsg, apTs, acks>>

\* Mutant: the error of the commit is dropped.
AppendReturnUnchecked(a) ==
    /\ apPc[a] = "return"
    /\ apPc'  = [apPc  EXCEPT ![a] = "idle"]
    /\ apMsg' = [apMsg EXCEPT ![a] = NoMsg]
    /\ apErr' = [apErr EXCEPT ![a] = "none"]
    /\ acks' = IF apErr[a] \in {"none", "Conflict"} THEN acks \cup {Ack(a)} ELSE acks
    /\ UNCHANGED <<entries, index, clock, apTs>>

\* Append returns; the caller learns the bookmark unless there was an error.
AppendReturn(a) ==
    /\ apPc[a] = "return"
    /\ apPc'  = [apPc  EXCEPT ![a] = "idle"]
    /\ apMsg' = [apMsg EXCEPT ![a] = NoMsg]
    /\ apErr' = [apErr EXCEPT ![a] = "none"]
    /\ acks' = IF apErr[a] = "none" THEN acks \cup {Ack(a)} ELSE acks
    /\ UNCHANGED <<entries, index, clock, apTs>>

\* The wall clock moves; nothing keeps it from being set back.
ClockStep ==
    /\ clock' \in Times \ {clock}
    /\ UNCHANGED <<entries, index, apVars, acks>>

\* The process dies and is started again: calls under way are gone, what was
\* committed is not.
LogCrash ==
    /\ apPc'  = [a \in Appenders |-> "idle"]
    /\ apMsg' = [a \in Appenders |-> NoMsg]
    /\ apErr' = [a \in Appenders |-> "none"]
    /\ UNCHANGED <<entries, index, clock, apTs, acks>>

AppendStep(a) == \/ \E m \in Msgs : AppendInvalid(a, m) \/ AppendCall(a, m)
                 \/ TxnGet(a) \/ TxnCommit(a) \/ TxnAbort(a) \/ TxnFail(a)
                 \/ AppendReturn(a)

LogNext == (\E a \in Appenders : AppendStep(a)) \/ ClockStep \/ LogCrash

LogSpec == LogInit /\ [][LogNext]_logVars

-----------------------------------------------------------------------------
\* Every variable has its type.
LogTypeOK ==
    /\ entries \in [Keys -> Msgs \cup {NoMsg}]
    /\ index \in SUBSET ArrivalKeys
    /\ clock \in Times
    /\ apPc  \in [Appenders -> {"idle", "get", "commit", "return"}]
    /\ apMsg \in [Appenders -> Msgs \cup {NoMsg}]
    /\ apTs  \in [Appenders -> Times]
    /\ apErr \in [Appenders -> ApErrors]
    /\ acks \in SUBSET [by : Appenders, msg : Msgs, mark : ArrivalKeys]

\* "append-only" (the comment in Append): once a key holds an entry, no
\* interleaving of appenders and no restart replaces or removes it.
AppendOnly == [][\A k \in Keys : entries[k] # NoMsg => entries'[k] = entries[k]]_logVars

\* The bookmark a caller was given names the entry it wrote: that entry, and
\* not the one of an appender that raced with it for the key, is stored, and
\* the bookmark is in the ArrivalIndex for a later FromIndex stream to seek to.
AckedIsRecorded ==
    \A x \in acks : /\ entries[x.mark.key] = x.msg
                    /\ x.mark \in index

\* Of all the Append calls for one key, retries after a crash and messages
\* whose long EntryIDs are cut to the same 30 bytes included, at most one is
\* told that it succeeded.
OneAckPerKey ==
    \A x, y \in acks : x.mark.key = y.mark.key => x = y

\* The two key spaces describe the same entries whatever fails: no index key
\* without its entry (readFromIndex would stop there with an error), no entry
\* that FromIndex streams miss, and none they would deliver twice.
IndexMatchesEntries ==
    /\ \A x \in index : entries[x.key] # NoMsg
    /\ \A k \in Keys : entries[k] # NoMsg => \E x \in index : x.key = k
    /\ \A x, y \in index : x.key = y.key => x = y

\* Append implements the append-only log that Channel builds on: to a reader,
\* each commit is one Record, and nothing else in the code, aborted calls and
\* crashes included, changes the database.
ImplementsAppendOnlyLog == RecordSpec
=============================================================================
