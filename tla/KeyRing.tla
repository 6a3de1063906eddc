-------------------------------- MODULE KeyRing --------------------------------
(***************************************************************************)
(* The key ring of a vault (keyring/keyring.go) from its start to its end: *)
(* a map from channel URIs to key sets under kr.lock, and in each key set  *)
(* a map from members to their public keys under a lock of its own.        *)
(* Callers add and remove keys, encode entries and decode them, at once.   *)
(*                                                                         *)
(* A public key and its private key have one name, that of the pair: what  *)
(* pair k has signed verifies with k and with nothing else, and what was   *)
(* encrypted with a community key decrypts with it and with nothing else.  *)
(* AddKeyPair is only called by restore.                                   *)
(***************************************************************************)
EXTENDS KeyFile, Naturals, Sequences

CONSTANTS Users,          \* goroutines that use the ring
          NoUser,
          URIs,           \* channel URIs
          DiscoveryURI,   \* the one the vault's own key pair is for
          Members,        \* MemberIDs
          MemberOf,       \* the MemberID that belongs to a key pair
          CommunityKeys,
          Updates,        \* the calls that change the ring
          Entries         \* the entries that are decoded

KeyUpdate ==
    [op : {"AddMemberKey"}, uri : URIs, member : Members, key : KeyPairs]
      \cup [op : {"RemoveMemberKey"}, uri : URIs, member : Members]
      \cup [op : {"AddCommunityKey"}, uri : URIs, key : CommunityKeys]

\* An entry as far as its reader can tell.  Without a signer it has no body;
\* without a community key what was signed is too short to begin with a salt.
Entry == [uri : URIs, member : Members, signer : KeyPairs \cup {NoKey},
          community : CommunityKeys \cup {NoKey}]

NoEntry == [uri |-> NoKey, member |-> NoKey, signer |-> NoKey, community |-> NoKey]

ASSUME UserAssumption   == NoUser \notin Users
ASSUME RingAssumption   == /\ DiscoveryURI \in URIs
                           /\ MemberOf \in [KeyPairs -> Members]
                           /\ NoKey \notin CommunityKeys
ASSUME InputAssumption  == Updates \subseteq KeyUpdate /\ Entries \subseteq Entry

VARIABLES krLock,       \* who holds kr.lock for writing
          channelKeys,  \* kr.channelKeys: from URIs to positions in keysets, 0 for none
          keysets,      \* every KeySet of this process
          uPc,          \* where a user is
          uKs,          \* the KeySet it has looked up, 0 for none
          uArg,         \* its update or entry, or the URI and key of what it encodes
          present,      \* history: the member keys the calls that returned have left
          seen,         \* history: the keys registered for the sender of the
                        \* entry a user decodes, at any time since it began
          touched,      \* history: the vault's own member key was removed or replaced
          encoded       \* history: all entries ever encoded

userVars == <<uPc, uKs, uArg>>
ringHist == <<present, seen, touched>>
ringVars == <<krLock, channelKeys, keysets, userVars, ringHist, encoded>>

-----------------------------------------------------------------------------
NewKeySet == [community |-> NoKey, member |-> NoKey, private |-> NoKey,
              members |-> [m \in Members |-> NoKey]]

\* What a lookup of a member's key finds now.
Registered(uri, m) ==
    IF channelKeys[uri] = 0 THEN NoKey ELSE keysets[channelKeys[uri]].members[m]

\* NewKeyRing, and nobody using it.
RingInit ==
    /\ KeyInit
    /\ krLock = NoUser
    /\ channelKeys = [uri \in URIs |-> 0] /\ keysets = <<>>
    /\ uPc = [u \in Users |-> "idle"] /\ uKs = [u \in Users |-> 0]
    /\ uArg = [u \in Users |-> NoEntry]
    /\ present = [uri \in URIs |-> [m \in Members |-> NoKey]]
    /\ seen = [u \in Users |-> {}] /\ touched = FALSE
    /\ encoded = {}

\* The process ends, and its memory with it; encoded entries are elsewhere.
RingExit ==
    /\ Exit
    /\ krLock' = NoUser
    /\ channelKeys' = [uri \in URIs |-> 0] /\ keysets' = <<>>
    /\ uPc' = [u \in Users |-> "idle"] /\ uKs' = [u \in Users |-> 0]
    /\ uArg' = [u \in Users |-> NoEntry]
    /\ present' = [uri \in URIs |-> [m \in Members |-> NoKey]]
    /\ seen' = [u \in Users |-> {}] /\ touched' = FALSE
    /\ UNCHANGED encoded

\* Mutant: the pair's own public key is not registered for verification.
AddKeyPairPrivate(uri, k) ==
    /\ channelKeys' = [channelKeys EXCEPT ![uri] = Len(keysets) + 1]
    /\ keysets' = Append(keysets, [NewKeySet EXCEPT !.private = k, !.member = MemberOf[k]])
    /\ UNCHANGED present

\* AddKeyPair, on a ring that is still empty and that nobody else has.
AddKeyPair(uri, k) ==
    /\ channelKeys' = [channelKeys EXCEPT ![uri] = Len(keysets) + 1]
    /\ keysets' = Append(keysets, [NewKeySet EXCEPT !.private = k, !.member = MemberOf[k],
                                                    !.members[MemberOf[k]] = k])
    /\ present' = [present EXCEPT ![uri][MemberOf[k]] = k]

\* restore puts the vault's own pair into the ring.
RingRestore ==
    /\ Restore
    /\ AddKeyPair(DiscoveryURI, priv)
    /\ UNCHANGED <<krLock, userVars, seen, touched, encoded>>

GetKeysOnly == GetKeys /\ UNCHANGED ringVars

-----------------------------------------------------------------------------
(* AddMemberKey, RemoveMemberKey and AddCommunityKey: under kr.lock, look up *)
(* the key set, create it if there is none, change it.                       *)

Go(u, pc, ks, arg) ==
    /\ uPc'  = [uPc  EXCEPT ![u] = pc]
    /\ uKs'  = [uKs  EXCEPT ![u] = ks]
    /\ uArg' = [uArg EXCEPT ![u] = arg]

Return(u) == Go(u, "idle", 0, NoEntry)

\* Mutant: the map is consulted without kr.lock.
UpdateLookupUnlocked(u, up) ==
    /\ boot = "up" /\ uPc[u] = "idle"
    /\ Go(u, "update", channelKeys[up.uri], up)
    /\ UNCHANGED <<keyVars, krLock, channelKeys, keysets, ringHist, encoded>>

\* The lock is taken and the URI looked up.
UpdateLookup(u, up) ==
    /\ boot = "up" /\ uPc[u] = "idle" /\ krLock = NoUser
    /\ krLock' = u
    /\ Go(u, "update", channelKeys[up.uri], up)
    /\ UNCHANGED <<keyVars, channelKeys, keysets, ringHist, encoded>>

\* What an update makes of a key set.
Updated(ks, up) ==
    CASE up.op = "AddMemberKey"    -> [ks EXCEPT !.members[up.member] = up.key]
      [] up.op = "RemoveMemberKey" -> [ks EXCEPT !.members[up.member] = NoKey]
      [] up.op = "AddCommunityKey" -> [ks EXCEPT !.community = up.key]

\* Mutant: the map gets a new key set that was never made.
WithKeySetUnmade(ks) == keysets

\* The key sets, with a new one if the lookup found none.
WithKeySet(ks) == IF ks = 0 THEN Append(keysets, NewKeySet) ELSE keysets

\* The history of an update to a member's key.
NoteMemberKey(up, k) ==
    /\ present' = [present EXCEPT ![up.uri][up.member] = k]
    /\ seen' = [u \in Users |->
                  IF uPc[u] \in {"verify", "decrypt"} /\ uArg[u].uri = up.uri
                       /\ uArg[u].member = up.member
                    THEN seen[u] \cup {k} ELSE seen[u]]
    /\ touched' = (touched \/ /\ up.uri = DiscoveryURI
                              /\ up.member = MemberOf[identity] /\ k # identity)

\* The key set is changed, under its own lock, and both locks are released.
UpdateApply(u) ==
    LET up == uArg[u]
        id == IF uKs[u] = 0 THEN Len(keysets) + 1 ELSE uKs[u]
    IN  /\ uPc[u] = "update"
        /\ up.op # "RemoveMemberKey" \/ uKs[u] # 0
        /\ channelKeys' = [channelKeys EXCEPT ![up.uri] = id]
        /\ keysets' = [WithKeySet(uKs[u]) EXCEPT ![id] = Updated(@, up)]
        /\ \/ up.op = "AddMemberKey"    /\ NoteMemberKey(up, up.key)
           \/ up.op = "RemoveMemberKey" /\ NoteMemberKey(up, NoKey)
           \/ up.op = "AddCommunityKey" /\ UNCHANGED ringHist
        /\ krLock' = NoUser
        /\ Return(u)
        /\ UNCHANGED <<keyVars, encoded>>

\* RemoveMemberKey of an unknown URI: ErrorUnknownKey.
RemoveUnknown(u) ==
    /\ uPc[u] = "update" /\ uArg[u].op = "RemoveMemberKey" /\ uKs[u] = 0
    /\ krLock' = NoUser
    /\ Return(u)
    /\ UNCHANGED <<keyVars, channelKeys, keysets, ringHist, encoded>>

-----------------------------------------------------------------------------
(* EncodeEntry and DecodeEntry: the key set is looked up under a read lock, *)
(* and its community key and key pair are read without any.                 *)

\* EncodeEntry finds the URI's key set; without one it returns
\* ErrorUnknownChannel and nothing has happened.
EncodeLookup(u, uri) ==
    /\ boot = "up" /\ uPc[u] = "idle" /\ krLock = NoUser
    /\ channelKeys[uri] # 0
    /\ Go(u, "encrypt", channelKeys[uri], [NoEntry EXCEPT !.uri = uri])
    /\ UNCHANGED <<keyVars, krLock, channelKeys, keysets, ringHist, encoded>>

\* encryptEntry, with the community key of this moment.
EncodeEncrypt(u) ==
    /\ uPc[u] = "encrypt" /\ keysets[uKs[u]].community # NoKey
    /\ Go(u, "sign", uKs[u], [uArg[u] EXCEPT !.community = keysets[uKs[u]].community])
    /\ UNCHANGED <<keyVars, krLock, channelKeys, keysets, ringHist, encoded>>

\* encryptEntry finds no randomness for the salt.
EncodeFail(u) ==
    /\ uPc[u] = "encrypt"
    /\ Return(u)
    /\ UNCHANGED <<keyVars, krLock, channelKeys, keysets, ringHist, encoded>>

\* signEntry, and the entry is returned.
EncodeSign(u) ==
    /\ uPc[u] = "sign" /\ keysets[uKs[u]].private # NoKey
    /\ encoded' = encoded \cup {[uArg[u] EXCEPT !.signer = keysets[uKs[u]].private,
                                                !.member = keysets[uKs[u]].member]}
    /\ Return(u)
    /\ UNCHANGED <<keyVars, krLock, channelKeys, keysets, ringHist>>

\* DecodeEntry of an entry with a body, in a channel the ring knows; otherwise
\* it returns ErrorUnknownChannel or ErrorInvalidSignature here.
DecodeLookup(u, e) ==
    /\ boot = "up" /\ uPc[u] = "idle" /\ krLock = NoUser
    /\ channelKeys[e.uri] # 0 /\ e.signer # NoKey
    /\ Go(u, "verify", channelKeys[e.uri], e)
    /\ seen' = [seen EXCEPT ![u] = {Registered(e.uri, e.member)}]
    /\ UNCHANGED <<keyVars, krLock, channelKeys, keysets, present, touched, encoded>>

\* Mutant: any member's key will do.
VerifiesAny(u) == \E m \in Members : keysets[uKs[u]].members[m] = uArg[u].signer

\* getMemberKey, under the key set's lock, and verifyEntry.
Verifies(u) == keysets[uKs[u]].members[uArg[u].member] = uArg[u].signer

DecodeVerify(u) ==
    /\ uPc[u] = "verify" /\ Verifies(u)
    /\ Go(u, "decrypt", uKs[u], uArg[u])
    /\ UNCHANGED <<keyVars, krLock, channelKeys, keysets, ringHist, encoded>>

\* decryptEntry, with the community key of this moment: the body is returned.
DecodeDecrypt(u) ==
    /\ uPc[u] = "decrypt"
    /\ uArg[u].community # NoKey /\ keysets[uKs[u]].community = uArg[u].community
    /\ Go(u, "accepted", 0, uArg[u])
    /\ UNCHANGED <<keyVars, krLock, channelKeys, keysets, ringHist, encoded>>

\* DecodeEntry returns: the body to a caller that goes on, or
\* ErrorInvalidSignature, or ErrorDecryptFailedSym.
DecodeReturn(u) ==
    /\ \/ uPc[u] = "accepted"
       \/ uPc[u] = "verify" /\ ~ Verifies(u)
       \/ /\ uPc[u] = "decrypt" /\ uArg[u].community # NoKey
          /\ keysets[uKs[u]].community \notin {NoKey, uArg[u].community}
    /\ Return(u)
    /\ seen' = [seen EXCEPT ![u] = {}]
    /\ UNCHANGED <<keyVars, krLock, channelKeys, keysets, present, touched, encoded>>

\* A nil community or private key is dereferenced, or the salt cut from too little.
CryptoPanic(u) ==
    /\ \/ uPc[u] \in {"encrypt", "decrypt"} /\ keysets[uKs[u]].community = NoKey
       \/ uPc[u] = "decrypt" /\ uArg[u].community = NoKey
       \/ uPc[u] = "sign" /\ keysets[uKs[u]].private = NoKey
    /\ RingExit

UserStep(u) ==
    \/ \E up \in Updates : UpdateLookup(u, up)
    \/ UpdateApply(u) \/ RemoveUnknown(u)
    \/ \E uri \in URIs : EncodeLookup(u, uri)
    \/ EncodeEncrypt(u) \/ EncodeFail(u) \/ EncodeSign(u)
    \/ \E e \in Entries : DecodeLookup(u, e)
    \/ DecodeVerify(u) \/ DecodeDecrypt(u) \/ DecodeReturn(u)

RingNext ==
    \/ GetKeysOnly \/ RingRestore \/ RingExit
    \/ \E u \in Users : UserStep(u) \/ CryptoPanic(u)

RingSpec == RingInit /\ [][RingNext]_<<keyVars, ringVars>>

-----------------------------------------------------------------------------
KeySet == [community : CommunityKeys \cup {NoKey},
           member : Members \cup {NoKey}, private : KeyPairs \cup {NoKey},
           members : [Members -> KeyPairs \cup {NoKey}]]

\* An entry that may still be incomplete.
PartEntry == [uri : URIs \cup {NoKey}, member : Members \cup {NoKey},
              signer : KeyPairs \cup {NoKey}, community : CommunityKeys \cup {NoKey}]

\* Every variable has its type, and every URI in the map has a key set.
RingTypeOK ==
    /\ KeyTypeOK
    /\ krLock \in Users \cup {NoUser}
    /\ keysets \in Seq(KeySet)
    /\ channelKeys \in [URIs -> 0..Len(keysets)]
    /\ uPc \in [Users -> {"idle", "update", "encrypt", "sign", "verify", "decrypt",
                          "accepted"}]
    /\ uKs \in [Users -> 0..Len(keysets)]
    /\ uArg \in [Users -> KeyUpdate \cup PartEntry]
    /\ present \in [URIs -> [Members -> KeyPairs \cup {NoKey}]]
    /\ seen \in [Users -> SUBSET (KeyPairs \cup {NoKey})]
    /\ touched \in BOOLEAN
    /\ encoded \subseteq Entry

\* A member key that was added is found until it is removed or replaced, and
\* one that was removed is not: no caller's update is lost to another that
\* creates the channel's key set at the same time.
KeysKept ==
    \A uri \in URIs, m \in Members : Registered(uri, m) = present[uri][m]

\* DecodeEntry only accepts an entry that the key of its own sender has signed,
\* one that was registered at some time since the call began.
AcceptedWasMember ==
    \A u \in Users : uPc[u] = "accepted" => uArg[u].signer \in seen[u]

\* What EncodeEntry has ever returned, before a restart too, DecodeEntry still
\* verifies, unless the vault's own member key was removed or replaced.
OwnEntriesVerify ==
    boot = "up" /\ ~ touched =>
        \A e \in encoded : Registered(e.uri, e.member) = e.signer
=============================================================================
