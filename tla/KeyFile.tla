-------------------------------- MODULE KeyFile --------------------------------
(***************************************************************************)
(* The identity of a vault: the key pair NewFromFile (keyring/keyring.go)  *)
(* loads from the key file, or generates and saves on the first start      *)
(* (keyring/file.go).  The process may end between any two steps; the file *)
(* is what stays.  A file that was created but not written to its end      *)
(* cannot be decoded, and is Torn.                                         *)
(***************************************************************************)

CONSTANTS KeyPairs,  \* the key pairs generateKey may return
          NoKey,     \* no key, and in place of the file: no such file
          Torn       \* a file that decodeKey refuses

ASSUME KeyAssumption == NoKey \notin KeyPairs /\ Torn \notin KeyPairs /\ NoKey # Torn

VARIABLES file,      \* what the key file holds
          boot,      \* "down", "save" (a key was generated), "write" (the file
                     \* is open), "restore" (getKeys has returned), "up", "failed"
          priv,      \* the key pair getKeys has in hand
          identity,  \* kr.identity
          used,      \* history: the key pairs generated so far
          known      \* history: the identity of the first start that succeeded

keyVars == <<file, boot, priv, identity, used, known>>

KeyInit ==
    /\ file = NoKey /\ boot = "down"
    /\ priv = NoKey /\ identity = NoKey
    /\ used = {} /\ known = NoKey

\* loadKey reads and decodes the file.
StartLoad ==
    /\ boot = "down" /\ file \in KeyPairs
    /\ boot' = "restore" /\ priv' = file
    /\ UNCHANGED <<file, identity, used, known>>

\* loadKey fails, and not because there is no file: it is torn, or cannot be
\* read; or there is none, and generateKey fails.
StartRefused ==
    /\ boot = "down"
    /\ boot' = "failed"
    /\ UNCHANGED <<file, priv, identity, used, known>>

\* Mutant: getKeys generates a key whatever the error of loadKey was.
StartCreateAnyError ==
    /\ boot = "down"
    /\ \E k \in KeyPairs \ used : priv' = k /\ used' = used \cup {k}
    /\ boot' = "save"
    /\ UNCHANGED <<file, identity, known>>

\* There is no file: getKeys generates a key, which nobody has had before.
StartCreate ==
    /\ boot = "down" /\ file = NoKey
    /\ \E k \in KeyPairs \ used : priv' = k /\ used' = used \cup {k}
    /\ boot' = "save"
    /\ UNCHANGED <<file, identity, known>>

\* saveKey's OpenFile creates the file, empty.
SaveOpen ==
    /\ boot = "save"
    /\ boot' = "write" /\ file' = Torn
    /\ UNCHANGED <<priv, identity, used, known>>

\* WriteString has written all of the key.
SaveWrite ==
    /\ boot = "write"
    /\ boot' = "restore" /\ file' = priv
    /\ UNCHANGED <<priv, identity, used, known>>

\* Any of the steps fails: encodeKey, OpenFile, a write that ends early, or
\* the conversions of the key in restore.
StartFail ==
    /\ boot \in {"save", "write", "restore"}
    /\ boot' = "failed"
    /\ UNCHANGED <<file, priv, identity, used, known>>

\* restore stores the identity and NewFromFile returns.
Restore ==
    /\ boot = "restore"
    /\ boot' = "up" /\ identity' = priv
    /\ known' = IF known = NoKey THEN priv ELSE known
    /\ UNCHANGED <<file, priv, used>>

\* The process ends, of itself or not.
Exit ==
    /\ boot # "down"
    /\ boot' = "down" /\ priv' = NoKey /\ identity' = NoKey
    /\ UNCHANGED <<file, used, known>>

\* getKeys, up to its return.
GetKeys == StartLoad \/ StartRefused \/ StartCreate \/ SaveOpen \/ SaveWrite \/ StartFail

KeyNext == GetKeys \/ Restore \/ Exit

KeySpec == KeyInit /\ [][KeyNext]_keyVars

-----------------------------------------------------------------------------
\* Every variable has its type.
KeyTypeOK ==
    /\ file \in KeyPairs \cup {NoKey, Torn}
    /\ boot \in {"down", "save", "write", "restore", "up", "failed"}
    /\ priv \in KeyPairs \cup {NoKey}
    /\ identity \in KeyPairs \cup {NoKey}
    /\ used \subseteq KeyPairs
    /\ known \in KeyPairs \cup {NoKey}

\* The identity of the first start that succeeded is the vault's for good:
\* whatever fails or crashes later, getKeys neither loses the file that holds
\* it nor starts the vault under another.
IdentityStable ==
    known # NoKey => file = known /\ identity \in {NoKey, known}
=============================================================================
