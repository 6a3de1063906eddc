----------------------------- MODULE AppendOnlyLog -----------------------------
(***************************************************************************)
(* What readers of a channel see of the appends to it: the two key spaces  *)
(* of store/store.go and one indivisible Record per entry.  EntryLog has   *)
(* Channel.Append in full and implements this module; Channel builds the   *)
(* subscriptions on it.                                                    *)
(*                                                                         *)
(* An entry message is an element of Msgs.  KeyOf gives the key a message  *)
(* is stored under, ranked by byte order: two messages whose EntryIDs      *)
(* agree once EntryKey has cut or padded them to 30 bytes have one key.    *)
(***************************************************************************)
EXTENDS Integers, FiniteSets

CONSTANTS Msgs,    \* the entries that are appended
          NoMsg,   \* what an absent key holds
          Keys,    \* the Entries keys of the channel, as ranks in byte order
          KeyOf,   \* the key of a message, NilKey if it has no EntryID
          Times    \* the unix seconds the host's clock may show

NilKey == 0

ASSUME KeysAssumption  == Keys \subseteq Nat \ {NilKey}
ASSUME KeyOfAssumption == KeyOf \in [Msgs -> Keys \cup {NilKey}]
ASSUME NoMsgAssumption == NoMsg \notin Msgs
ASSUME TimesAssumption == Times \subseteq Nat /\ Times # {}

VARIABLES entries,  \* the Entries key space
          index     \* the ArrivalIndex key space

dbVars == <<entries, index>>

\* Mutant: the two parts of the key are swapped.
ArrivalKeySwapped(ts, k) == [ts |-> k, key |-> ts]

\* An ArrivalIndex key: the arrival time, then the entry's own key.
ArrivalKey(ts, k) == [ts |-> ts, key |-> k]

ArrivalKeys == [ts : Times, key : Keys]

\* Byte order of ArrivalIndex keys: the timestamp is big endian and comes first.
ArrivalLT(x, y) == \/ x.ts < y.ts
                   \/ x.ts = y.ts /\ x.key < y.key

Committed == {k \in Keys : entries[k] # NoMsg}

RecordInit == /\ entries = [k \in Keys |-> NoMsg]
              /\ index = {}

\* The transaction of an Append that succeeds.  Its arrival time is any: it was
\* read before the transaction began, from a clock that may be set back.
Record(m, ts) ==
    /\ KeyOf[m] \in Keys
    /\ entries[KeyOf[m]] = NoMsg
    /\ entries' = [entries EXCEPT ![KeyOf[m]] = m]
    /\ index' = index \cup {ArrivalKey(ts, KeyOf[m])}

RecordNext == \E m \in Msgs, ts \in Times : Record(m, ts)

RecordSpec == RecordInit /\ [][RecordNext]_dbVars
=============================================================================
