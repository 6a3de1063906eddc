-------------------------------- MODULE SharedLog --------------------------------
(***************************************************************************)
(* What the vaults that have joined a channel's topic promise together:    *)
(* each keeps a log of its own, to which a message is added by a client of *)
(* the vault or because another vault has it, and from which nothing is    *)
(* taken.  Of the messages with one EntryID a vault keeps the first it got *)
(* (ErrorKeyExists), which need not be the one another vault keeps.        *)
(***************************************************************************)
CONSTANTS Vaults,  \* the vaults
          Msgs,    \* messages
          KeyOf    \* their EntryIDs

VARIABLES replica,  \* the log of each vault
          written   \* what clients have appended, and where

sharedVars == <<replica, written>>

HasKey(v, m) == \E x \in replica[v] : KeyOf[x] = KeyOf[m]

SharedInit == replica = [v \in Vaults |-> {}] /\ written = {}

Add(v, m) == /\ ~ HasKey(v, m)
             /\ replica' = [replica EXCEPT ![v] = @ \cup {m}]

Write(v, m)   == Add(v, m) /\ written' = written \cup {<<v, m>>}
Copy(v, w, m) == m \in replica[w] /\ Add(v, m) /\ UNCHANGED written

SharedNext == \E v \in Vaults, m \in Msgs :
                 Write(v, m) \/ \E w \in Vaults : Copy(v, w, m)

SharedSpec == SharedInit /\ [][SharedNext]_sharedVars

\* Nothing is in a log that no client has appended somewhere.
WrittenSomewhere ==
    \A v \in Vaults : \A m \in replica[v] : \E w \in Vaults : <<w, m>> \in written

\* A vault has one message of an EntryID.
OneEntryPerID ==
    \A v \in Vaults : \A m, x \in replica[v] : KeyOf[m] = KeyOf[x] => m = x
=============================================================================
