----------------------------- MODULE KeyRingProofs -----------------------------
(***************************************************************************)
(* Proofs about KeyFile and KeyRing, for any key pairs, callers, channels, *)
(* members, updates and entries: the identity of a vault is stable, the    *)
(* ring loses no update, accepts only what a registered key has signed,    *)
(* and verifies what it has encoded itself.                                *)
(***************************************************************************)
EXTENDS KeyRing, TLAPS

allRing == <<keyVars, ringVars>>

-----------------------------------------------------------------------------
(* The identity. *)

\* What getKeys knows of the file at each of its steps.
BootInv ==
    /\ boot \in {"save", "write", "restore"} => priv \in KeyPairs
    /\ boot = "save"    => file = NoKey
    /\ boot = "write"   => file = Torn
    /\ boot = "restore" => file = priv
    /\ boot = "up"      => identity \in KeyPairs /\ known = identity
    /\ boot # "up"      => identity = NoKey

\* The inductive invariant of KeyFile.
KeyInv == KeyTypeOK /\ BootInv /\ (known # NoKey => file = known)

LEMMA KeyInvInit == KeyInit => KeyInv
BY KeyAssumption DEF KeyInit, KeyInv, KeyTypeOK, BootInv

\* Only Restore sets known, to what is then in the file, and once it is set
\* neither StartCreate nor SaveOpen can happen, since the file is there.
LEMMA KeyInvNext == KeyInv /\ [KeyNext]_keyVars => KeyInv'
<1> SUFFICES ASSUME KeyInv, [KeyNext]_keyVars PROVE KeyInv'
  OBVIOUS
<1> USE KeyAssumption DEF KeyInv, KeyTypeOK, BootInv
<1>1. CASE StartLoad
  BY <1>1 DEF StartLoad
<1>2. CASE StartRefused
  BY <1>2 DEF StartRefused
<1>3. CASE StartCreate
  BY <1>3 DEF StartCreate
<1>4. CASE SaveOpen
  BY <1>4 DEF SaveOpen
<1>5. CASE SaveWrite
  BY <1>5 DEF SaveWrite
<1>6. CASE StartFail
  BY <1>6 DEF StartFail
<1>7. CASE Restore
  BY <1>7 DEF Restore
<1>8. CASE Exit
  BY <1>8 DEF Exit
<1>9. CASE UNCHANGED keyVars
  BY <1>9 DEF keyVars
<1> QED
  BY <1>1, <1>2, <1>3, <1>4, <1>5, <1>6, <1>7, <1>8, <1>9 DEF KeyNext, GetKeys

\* Every step of the ring is a step of KeyFile, or leaves the identity alone.
LEMMA RingStepsAreKeySteps == [RingNext]_allRing => [KeyNext]_keyVars
<1> SUFFICES ASSUME [RingNext]_allRing PROVE [KeyNext]_keyVars
  OBVIOUS
<1>1. CASE GetKeysOnly
  BY <1>1 DEF GetKeysOnly, KeyNext
<1>2. CASE RingRestore
  BY <1>2 DEF RingRestore, KeyNext
<1>3. CASE RingExit
  BY <1>3 DEF RingExit, KeyNext
<1>4. ASSUME NEW u \in Users, UserStep(u) PROVE UNCHANGED keyVars
  BY <1>4, Zenon DEF UserStep, UpdateLookup, UpdateApply, RemoveUnknown, EncodeLookup,
     EncodeEncrypt, EncodeFail, EncodeSign, DecodeLookup, DecodeVerify, DecodeDecrypt,
     DecodeReturn
<1>5. ASSUME NEW u \in Users, CryptoPanic(u) PROVE KeyNext
  BY <1>5 DEF CryptoPanic, RingExit, KeyNext
<1>6. CASE UNCHANGED allRing
  BY <1>6 DEF allRing
<1> QED
  BY <1>1, <1>2, <1>3, <1>4, <1>5, <1>6 DEF RingNext

\* The key file of a running key ring behaves as KeyFile says: nothing a caller
\* of the ring does, a panic included, does more to it than a start or an exit.
THEOREM RingImplementsKeyFile == RingSpec => KeySpec
<1>1. RingInit => KeyInit
  BY DEF RingInit
<1> QED
  BY <1>1, RingStepsAreKeySteps, PTL DEF RingSpec, KeySpec, allRing

\* Whatever crashes or fails after the first start that succeeded, getKeys neither
\* loses the identity of that start nor starts the vault under another.
THEOREM IdentityStableHolds == RingSpec => []IdentityStable
<1>1. KeyInv => IdentityStable
  BY DEF KeyInv, BootInv, KeyTypeOK, IdentityStable
<1> QED
  BY <1>1, RingImplementsKeyFile, KeyInvInit, KeyInvNext, PTL DEF KeySpec

-----------------------------------------------------------------------------
(* The ring. *)

\* Before restore has finished there is no key set and no caller.
IdleInv ==
    boot # "up" => /\ channelKeys = [uri \in URIs |-> 0] /\ keysets = <<>>
                   /\ \A u \in Users : uPc[u] = "idle"
                   /\ present = [uri \in URIs |-> [m \in Members |-> NoKey]]

\* No two channels share a key set.
MapInv ==
    \A x, y \in URIs : channelKeys[x] = channelKeys[y] /\ channelKeys[x] # 0 => x = y

\* A caller that changes the ring has the lock, and what it has looked up is current.
LockInv ==
    \A u \in Users : uPc[u] = "update" =>
        krLock = u /\ uArg[u] \in KeyUpdate /\ uKs[u] = channelKeys[uArg[u].uri]

\* A key set that a caller of EncodeEntry or DecodeEntry has looked up stays the
\* channel's.
WorkInv ==
    \A u \in Users : uPc[u] \in {"encrypt", "sign", "verify", "decrypt"} =>
        uArg[u].uri \in URIs /\ uKs[u] # 0 /\ uKs[u] = channelKeys[uArg[u].uri]

\* An entry that is encoded is signed after it is encrypted.
EncodeInv ==
    \A u \in Users :
        /\ uPc[u] \in {"encrypt", "sign"} => uArg[u] \in PartEntry
        /\ uPc[u] = "sign" => uArg[u].community \in CommunityKeys

\* What is known of the sender of an entry that is decoded.
DecodeInv ==
    \A u \in Users :
        /\ uPc[u] \in {"verify", "decrypt", "accepted"} => uArg[u] \in Entry
        /\ uPc[u] = "verify" => Registered(uArg[u].uri, uArg[u].member) \in seen[u]
        /\ uPc[u] \in {"decrypt", "accepted"} => uArg[u].signer \in seen[u]

\* The vault's own pair is in the key set of the discovery channel only.
OwnInv ==
    boot = "up" =>
        /\ \A i \in 1..Len(keysets) : keysets[i].private # NoKey =>
               /\ i = channelKeys[DiscoveryURI]
               /\ keysets[i].private = identity /\ keysets[i].member = MemberOf[identity]
        /\ ~ touched => Registered(DiscoveryURI, MemberOf[identity]) = identity

\* What was encoded was signed with the one identity the vault has had.
EncodedInv ==
    \A e \in encoded : /\ known # NoKey /\ e.uri = DiscoveryURI
                       /\ e.signer = known /\ e.member = MemberOf[known]

\* The inductive invariant of KeyRing.
RingInv == /\ KeyInv /\ RingTypeOK /\ KeysKept
           /\ IdleInv /\ MapInv /\ LockInv /\ WorkInv /\ EncodeInv /\ DecodeInv
           /\ OwnInv /\ EncodedInv

-----------------------------------------------------------------------------
(* Facts about the operators. *)

LEMMA NewKeySetType == NewKeySet \in KeySet
BY DEF NewKeySet, KeySet

\* An update changes one member's key or the community key, and nothing else.
LEMMA UpdatedFacts ==
  ASSUME NEW ks \in KeySet, NEW up \in KeyUpdate
  PROVE  /\ Updated(ks, up) \in KeySet
         /\ Updated(ks, up).private = ks.private
         /\ Updated(ks, up).member  = ks.member
         /\ up.op = "AddMemberKey" =>
              Updated(ks, up).members = [ks.members EXCEPT ![up.member] = up.key]
         /\ up.op = "RemoveMemberKey" =>
              Updated(ks, up).members = [ks.members EXCEPT ![up.member] = NoKey]
         /\ up.op = "AddCommunityKey" => Updated(ks, up).members = ks.members
<1>1. CASE up.op = "AddMemberKey"
  BY <1>1 DEF KeyUpdate, KeySet, Updated
<1>2. CASE up.op = "RemoveMemberKey"
  BY <1>2 DEF KeyUpdate, KeySet, Updated
<1>3. CASE up.op = "AddCommunityKey"
  BY <1>3 DEF KeyUpdate, KeySet, Updated
<1> QED
  BY <1>1, <1>2, <1>3 DEF KeyUpdate

\* The caller that is in the middle of an update, and what it is going to do.
LEMMA ApplyFacts ==
  ASSUME RingInv, NEW u \in Users, UpdateApply(u)
  PROVE  LET up  == uArg[u]
             id  == IF uKs[u] = 0 THEN Len(keysets) + 1 ELSE uKs[u]
             old == IF uKs[u] = 0 THEN NewKeySet ELSE keysets[uKs[u]]
         IN  /\ up \in KeyUpdate /\ uKs[u] = channelKeys[up.uri]
             /\ id \in 1..Len(keysets') /\ old \in KeySet
             /\ keysets' \in Seq(KeySet)
             /\ Len(keysets') = IF uKs[u] = 0 THEN Len(keysets) + 1 ELSE Len(keysets)
             /\ keysets'[id] = Updated(old, up)
             /\ \A i \in 1..Len(keysets) : i # id => keysets'[i] = keysets[i]
             /\ channelKeys' = [channelKeys EXCEPT ![up.uri] = id]
<1> DEFINE up  == uArg[u]
           id  == IF uKs[u] = 0 THEN Len(keysets) + 1 ELSE uKs[u]
           old == IF uKs[u] = 0 THEN NewKeySet ELSE keysets[uKs[u]]
<1>1. up \in KeyUpdate /\ uKs[u] = channelKeys[up.uri]
  BY DEF RingInv, LockInv, UpdateApply
<1>2. keysets \in Seq(KeySet) /\ Len(keysets) \in Nat /\ uKs[u] \in 0..Len(keysets)
  BY DEF RingInv, RingTypeOK
<1>3. old \in KeySet
  BY <1>2, NewKeySetType
<1>4. Updated(old, up) \in KeySet
  BY <1>1, <1>3, UpdatedFacts
<1>5. keysets' = [WithKeySet(uKs[u]) EXCEPT ![id] = Updated(@, up)]
  BY DEF UpdateApply
<1>6. channelKeys' = [channelKeys EXCEPT ![up.uri] = id]
  BY DEF UpdateApply
<1>7. CASE uKs[u] = 0
  <2>1. WithKeySet(uKs[u]) = Append(keysets, NewKeySet)
    BY <1>7 DEF WithKeySet
  <2>2. /\ Append(keysets, NewKeySet) \in Seq(KeySet)
        /\ Len(Append(keysets, NewKeySet)) = Len(keysets) + 1
        /\ Append(keysets, NewKeySet)[Len(keysets) + 1] = NewKeySet
        /\ \A i \in 1..Len(keysets) : Append(keysets, NewKeySet)[i] = keysets[i]
    BY <1>2, NewKeySetType
  <2>3. keysets' = [Append(keysets, NewKeySet) EXCEPT ![id] = Updated(old, up)]
    BY <1>5, <1>7, <2>1, <2>2
  <2> DEFINE ap  == Append(keysets, NewKeySet)
             new == Updated(old, up)
  <2> HIDE DEF ap, new
  <2>4. /\ ap \in Seq(KeySet) /\ Len(ap) = Len(keysets) + 1
        /\ \A i \in 1..Len(keysets) : ap[i] = keysets[i]
    BY <2>2 DEF ap
  <2>5. keysets' = [ap EXCEPT ![Len(keysets) + 1] = new] /\ new \in KeySet
    BY <1>4, <1>7, <2>3 DEF ap, new
  <2>6. /\ keysets' \in Seq(KeySet) /\ Len(keysets') = Len(keysets) + 1
        /\ keysets'[Len(keysets) + 1] = new
        /\ \A i \in 1..Len(keysets) : keysets'[i] = keysets[i]
    BY <1>2, <2>4, <2>5
  <2> QED
    BY <1>1, <1>2, <1>3, <1>6, <1>7, <2>6 DEF new
<1>8. CASE uKs[u] # 0
  <2>1. keysets' = [keysets EXCEPT ![id] = Updated(old, up)]
    BY <1>5, <1>8 DEF WithKeySet
  <2> HIDE DEF old, up
  <2> QED
    BY <1>1, <1>2, <1>3, <1>4, <1>6, <1>8, <2>1 DEF up, old
<1> QED
  BY <1>7, <1>8

-----------------------------------------------------------------------------
(* The steps that leave the key sets alone. *)

\* A caller may go on to pc with key set ks and argument arg.
MayGo(u, pc, ks, arg) ==
    /\ pc \in {"idle", "update", "encrypt", "sign", "verify", "decrypt", "accepted"}
    /\ ks \in 0..Len(keysets) /\ arg \in KeyUpdate \cup PartEntry
    /\ pc = "update" => krLock' = u /\ arg \in KeyUpdate /\ ks = channelKeys[arg.uri]
    /\ pc \in {"encrypt", "sign", "verify", "decrypt"} =>
           arg.uri \in URIs /\ ks # 0 /\ ks = channelKeys[arg.uri]
    /\ pc \in {"encrypt", "sign"} => arg \in PartEntry
    /\ pc = "sign" => arg.community \in CommunityKeys
    /\ pc \in {"verify", "decrypt", "accepted"} => arg \in Entry
    /\ pc = "verify" => Registered(arg.uri, arg.member) \in seen'[u]
    /\ pc \in {"decrypt", "accepted"} => arg.signer \in seen'[u]

LEMMA GoPreserves ==
  ASSUME RingInv, boot = "up",
         UNCHANGED <<keyVars, channelKeys, keysets, present, touched>>,
         NEW u \in Users, NEW pc, NEW ks, NEW arg,
         Go(u, pc, ks, arg), MayGo(u, pc, ks, arg),
         krLock' \in Users \cup {NoUser},
         \A v \in Users \ {u} : uPc[v] = "update" => krLock' = v,
         seen' \in [Users -> SUBSET (KeyPairs \cup {NoKey})],
         \A v \in Users \ {u} : seen'[v] = seen[v],
         encoded' \subseteq Entry, EncodedInv'
  PROVE  RingInv'
<1>1. KeyInv' /\ KeyTypeOK' /\ KeysKept' /\ MapInv' /\ OwnInv' /\ IdleInv'
  BY DEF RingInv, KeyInv, KeyTypeOK, BootInv, keyVars, KeysKept, Registered, MapInv,
         OwnInv, IdleInv
<1>2. RingTypeOK'
  BY <1>1 DEF RingInv, RingTypeOK, Go, MayGo
<1>3. /\ uPc'[u] = pc /\ uKs'[u] = ks /\ uArg'[u] = arg
      /\ \A v \in Users \ {u} : uPc'[v] = uPc[v] /\ uKs'[v] = uKs[v] /\ uArg'[v] = uArg[v]
  BY DEF RingInv, RingTypeOK, Go
<1>4. LockInv'
  BY <1>3 DEF RingInv, LockInv, MayGo
<1>5. WorkInv'
  BY <1>3 DEF RingInv, WorkInv, MayGo
<1>6. EncodeInv'
  BY <1>3 DEF RingInv, EncodeInv, MayGo
<1>7. DecodeInv'
  BY <1>3 DEF RingInv, DecodeInv, MayGo, Registered
<1> QED
  BY <1>1, <1>2, <1>4, <1>5, <1>6, <1>7 DEF RingInv

LEMMA NoEntryType == NoEntry \in PartEntry
BY DEF NoEntry, PartEntry

\* The steps of callers, but for the one that changes a key set.
LEMMA LocalStepPreserves ==
  ASSUME RingInv, NEW u \in Users,
         \/ \E up \in Updates : UpdateLookup(u, up)
         \/ RemoveUnknown(u)
         \/ \E uri \in URIs : EncodeLookup(u, uri)
         \/ EncodeEncrypt(u) \/ EncodeFail(u) \/ EncodeSign(u)
         \/ \E e \in Entries : DecodeLookup(u, e)
         \/ DecodeVerify(u) \/ DecodeDecrypt(u) \/ DecodeReturn(u)
  PROVE  RingInv'
<1>1. /\ krLock \in Users \cup {NoUser} /\ Len(keysets) \in Nat
      /\ keysets \in Seq(KeySet) /\ encoded \subseteq Entry
      /\ seen \in [Users -> SUBSET (KeyPairs \cup {NoKey})]
      /\ channelKeys \in [URIs -> 0..Len(keysets)]
      /\ uKs \in [Users -> 0..Len(keysets)]
      /\ uArg[u] \in KeyUpdate \cup PartEntry
  BY DEF RingInv, RingTypeOK
<1>2. \A v \in Users : uPc[v] = "update" => krLock = v
  BY DEF RingInv, LockInv
<1>3. uPc[u] # "idle" => boot = "up"
  BY DEF RingInv, IdleInv
<1>4. UNCHANGED <<encoded, known>> => EncodedInv'
  BY DEF RingInv, EncodedInv
<1>5. ASSUME Return(u) PROVE Go(u, "idle", 0, NoEntry) /\ MayGo(u, "idle", 0, NoEntry)
  BY <1>1, <1>5, NoEntryType DEF Return, MayGo
<1>6. ASSUME NEW up \in Updates, UpdateLookup(u, up) PROVE RingInv'
  <2>1. up \in KeyUpdate /\ up.uri \in URIs
    BY InputAssumption DEF KeyUpdate
  <2>2. MayGo(u, "update", channelKeys[up.uri], up)
    BY <1>1, <1>6, <2>1 DEF UpdateLookup, MayGo
  <2>3. \A v \in Users \ {u} : uPc[v] # "update"
    BY <1>2, <1>6, UserAssumption DEF UpdateLookup
  <2> QED
    BY <1>1, <1>4, <1>6, <2>2, <2>3, GoPreserves DEF UpdateLookup, ringHist, keyVars
<1>7. CASE RemoveUnknown(u)
  <2>1. \A v \in Users \ {u} : uPc[v] # "update"
    BY <1>2, <1>7 DEF RemoveUnknown
  <2> QED
    BY <1>1, <1>3, <1>4, <1>5, <1>7, <2>1, GoPreserves DEF RemoveUnknown, ringHist, keyVars
<1>8. ASSUME NEW uri \in URIs, EncodeLookup(u, uri) PROVE RingInv'
  <2>1. [NoEntry EXCEPT !.uri = uri] \in PartEntry /\ [NoEntry EXCEPT !.uri = uri].uri = uri
    BY NoEntryType DEF PartEntry
  <2>2. MayGo(u, "encrypt", channelKeys[uri], [NoEntry EXCEPT !.uri = uri])
    BY <1>1, <1>8, <2>1 DEF EncodeLookup, MayGo
  <2> QED
    BY <1>1, <1>2, <1>4, <1>8, <2>2, GoPreserves DEF EncodeLookup, ringHist, keyVars
<1>9. CASE EncodeEncrypt(u)
  <2> DEFINE arg == [uArg[u] EXCEPT !.community = keysets[uKs[u]].community]
  <2>1. /\ uArg[u] \in PartEntry /\ uArg[u].uri \in URIs
        /\ uKs[u] # 0 /\ uKs[u] = channelKeys[uArg[u].uri]
    BY <1>9 DEF RingInv, EncodeInv, WorkInv, EncodeEncrypt
  <2>2. keysets[uKs[u]].community \in CommunityKeys
    <3>1. uKs[u] \in 1..Len(keysets)
      BY <1>1, <2>1
    <3>2. keysets[uKs[u]] \in KeySet
      BY <1>1, <3>1
    <3> QED
      BY <1>9, <3>2 DEF EncodeEncrypt, KeySet
  <2>3. arg \in PartEntry /\ arg.uri = uArg[u].uri /\ arg.community \in CommunityKeys
    BY <2>1, <2>2 DEF PartEntry
  <2>4. MayGo(u, "sign", uKs[u], arg)
    BY <1>1, <2>1, <2>3 DEF MayGo
  <2> QED
    BY <1>1, <1>2, <1>3, <1>4, <1>9, <2>4, GoPreserves DEF EncodeEncrypt, ringHist, keyVars
<1>10. CASE EncodeFail(u)
  BY <1>1, <1>2, <1>3, <1>4, <1>5, <1>10, GoPreserves DEF EncodeFail, ringHist, keyVars
<1>11. CASE EncodeSign(u)
  <2> DEFINE ks == keysets[uKs[u]]
             e  == [uArg[u] EXCEPT !.signer = ks.private, !.member = ks.member]
  <2>1. /\ uArg[u] \in PartEntry /\ uArg[u].uri \in URIs
        /\ uArg[u].community \in CommunityKeys
        /\ uKs[u] \in 1..Len(keysets) /\ uKs[u] = channelKeys[uArg[u].uri]
    BY <1>1, <1>11 DEF RingInv, EncodeInv, WorkInv, EncodeSign
  <2>2. /\ uKs[u] = channelKeys[DiscoveryURI]
        /\ ks.private = identity /\ ks.member = MemberOf[identity]
        /\ identity \in KeyPairs /\ known = identity
    BY <1>3, <1>11, <2>1 DEF RingInv, OwnInv, EncodeSign, KeyInv, BootInv
  <2>3. uArg[u].uri = DiscoveryURI
    <3>1. DiscoveryURI \in URIs /\ MapInv /\ uKs[u] # 0
      BY <2>1, RingAssumption DEF RingInv
    <3> QED
      BY <2>1, <2>2, <3>1, Zenon DEF MapInv
  <2>4. /\ e \in Entry /\ e.uri = DiscoveryURI
        /\ e.signer = known /\ e.member = MemberOf[known] /\ known # NoKey
    BY <2>1, <2>2, <2>3, RingAssumption, KeyAssumption DEF PartEntry, Entry
  <2>5. encoded' = encoded \cup {e} /\ known' = known
    BY <1>11 DEF EncodeSign, keyVars
  <2>6. encoded' \subseteq Entry /\ EncodedInv'
    BY <1>1, <2>4, <2>5 DEF RingInv, EncodedInv
  <2> QED
    BY <1>1, <1>2, <1>3, <1>5, <1>11, <2>6, GoPreserves DEF EncodeSign, ringHist, keyVars
<1>12. ASSUME NEW e \in Entries, DecodeLookup(u, e) PROVE RingInv'
  <2>1. e \in Entry /\ e \in PartEntry /\ e.uri \in URIs /\ e.member \in Members
    BY InputAssumption DEF Entry, PartEntry
  <2>2. Registered(e.uri, e.member) \in KeyPairs \cup {NoKey}
    <3>1. channelKeys[e.uri] # 0 => channelKeys[e.uri] \in 1..Len(keysets)
      BY <1>1, <2>1
    <3>2. channelKeys[e.uri] # 0 => keysets[channelKeys[e.uri]] \in KeySet
      BY <1>1, <3>1
    <3> QED
      BY <2>1, <3>2 DEF Registered, KeySet
  <2>3. /\ seen' \in [Users -> SUBSET (KeyPairs \cup {NoKey})]
        /\ \A v \in Users \ {u} : seen'[v] = seen[v]
        /\ Registered(e.uri, e.member) \in seen'[u]
    BY <1>1, <1>12, <2>2 DEF DecodeLookup
  <2>4. MayGo(u, "verify", channelKeys[e.uri], e)
    BY <1>1, <1>12, <2>1, <2>3 DEF DecodeLookup, MayGo
  <2> QED
    BY <1>1, <1>2, <1>4, <1>12, <2>3, <2>4, GoPreserves DEF DecodeLookup, keyVars
<1>13. CASE DecodeVerify(u)
  <2>1. /\ uArg[u] \in Entry /\ uArg[u].uri \in URIs
        /\ uKs[u] # 0 /\ uKs[u] = channelKeys[uArg[u].uri]
        /\ Registered(uArg[u].uri, uArg[u].member) \in seen[u]
    BY <1>13 DEF RingInv, DecodeInv, WorkInv, DecodeVerify
  <2>2. uArg[u].signer \in seen[u]
    BY <1>13, <2>1 DEF DecodeVerify, Verifies, Registered
  <2>3. MayGo(u, "decrypt", uKs[u], uArg[u])
    BY <1>1, <1>13, <2>1, <2>2 DEF DecodeVerify, ringHist, MayGo
  <2> QED
    BY <1>1, <1>2, <1>3, <1>4, <1>13, <2>3, GoPreserves DEF DecodeVerify, ringHist, keyVars
<1>14. CASE DecodeDecrypt(u)
  <2>1. uArg[u] \in Entry /\ uArg[u].signer \in seen[u]
    BY <1>14 DEF RingInv, DecodeInv, DecodeDecrypt
  <2>2. MayGo(u, "accepted", 0, uArg[u])
    BY <1>1, <1>14, <2>1 DEF DecodeDecrypt, ringHist, MayGo
  <2> QED
    BY <1>1, <1>2, <1>3, <1>4, <1>14, <2>2, GoPreserves DEF DecodeDecrypt, ringHist, keyVars
<1>15. CASE DecodeReturn(u)
  <2>1. /\ seen' \in [Users -> SUBSET (KeyPairs \cup {NoKey})]
        /\ \A v \in Users \ {u} : seen'[v] = seen[v]
    BY <1>1, <1>15 DEF DecodeReturn
  <2> QED
    BY <1>1, <1>2, <1>3, <1>4, <1>5, <1>15, <2>1, GoPreserves DEF DecodeReturn, keyVars
<1> QED
  BY <1>6, <1>7, <1>8, <1>9, <1>10, <1>11, <1>12, <1>13, <1>14, <1>15

-----------------------------------------------------------------------------
(* The step that changes a key set. *)

\* No lookup but that of the key which is updated has another result.
LEMMA ApplyRegistered ==
  ASSUME RingInv, NEW u \in Users, UpdateApply(u)
  PROVE  /\ MapInv'
         /\ channelKeys' \in [URIs -> 0..Len(keysets')]
         /\ \A x \in URIs : channelKeys[x] # 0 => channelKeys'[x] = channelKeys[x]
         /\ \A x \in URIs, m \in Members :
              Registered(x, m)' =
                IF x = uArg[u].uri /\ uArg[u].op = "AddMemberKey" /\ m = uArg[u].member
                  THEN uArg[u].key
                ELSE IF x = uArg[u].uri /\ uArg[u].op = "RemoveMemberKey" /\ m = uArg[u].member
                  THEN NoKey
                ELSE Registered(x, m)
<1> DEFINE up  == uArg[u]
           id  == IF uKs[u] = 0 THEN Len(keysets) + 1 ELSE uKs[u]
           old == IF uKs[u] = 0 THEN NewKeySet ELSE keysets[uKs[u]]
<1>1. /\ up \in KeyUpdate /\ uKs[u] = channelKeys[up.uri]
      /\ id \in 1..Len(keysets') /\ old \in KeySet
      /\ Len(keysets') = IF uKs[u] = 0 THEN Len(keysets) + 1 ELSE Len(keysets)
      /\ keysets'[id] = Updated(old, up)
      /\ \A i \in 1..Len(keysets) : i # id => keysets'[i] = keysets[i]
      /\ channelKeys' = [channelKeys EXCEPT ![up.uri] = id]
  BY ApplyFacts
<1>2. up.uri \in URIs /\ up.op \in {"AddMemberKey", "RemoveMemberKey", "AddCommunityKey"}
  BY <1>1 DEF KeyUpdate
<1>3. /\ channelKeys \in [URIs -> 0..Len(keysets)] /\ Len(keysets) \in Nat /\ MapInv
      /\ keysets \in Seq(KeySet)
  BY DEF RingInv, RingTypeOK
<1>4. id = uKs[u] \/ (uKs[u] = 0 /\ id = Len(keysets) + 1)
  OBVIOUS
<1> HIDE DEF id
<1>5. \A x \in URIs : x # up.uri => channelKeys'[x] = channelKeys[x] /\ channelKeys[x] # id
  BY <1>1, <1>2, <1>3, <1>4 DEF MapInv
<1>6. channelKeys'[up.uri] = id
  BY <1>1, <1>2, <1>3
<1>7. MapInv'
  BY <1>3, <1>5, <1>6 DEF MapInv
<1>8. \A x \in URIs : channelKeys[x] # 0 => channelKeys'[x] = channelKeys[x]
  BY <1>1, <1>4, <1>5, <1>6
<1>9. channelKeys' \in [URIs -> 0..Len(keysets')]
  <2>1. \A n \in 0..Len(keysets) : n \in 0..Len(keysets')
    BY <1>1, <1>3
  <2>2. id \in 0..Len(keysets')
    BY <1>1
  <2> QED
    BY <1>1, <1>3, <2>1, <2>2
<1>10. ASSUME NEW x \in URIs, NEW m \in Members, x # up.uri
       PROVE  Registered(x, m)' = Registered(x, m)
  <2>1. channelKeys'[x] = channelKeys[x] /\ channelKeys[x] # id
    BY <1>5, <1>10
  <2>2. channelKeys[x] # 0 => keysets'[channelKeys[x]] = keysets[channelKeys[x]]
    BY <1>1, <1>3, <2>1
  <2> QED
    BY <2>1, <2>2 DEF Registered
<1>11. ASSUME NEW x \in URIs, x = up.uri, NEW m \in Members
       PROVE  /\ Registered(x, m)' = Updated(old, up).members[m]
              /\ Registered(x, m) = old.members[m]
  <2>1. Registered(x, m)' = Updated(old, up).members[m]
    BY <1>1, <1>6, <1>11 DEF Registered
  <2>2. Registered(x, m) = old.members[m]
    BY <1>1, <1>11 DEF Registered, NewKeySet
  <2> QED
    BY <2>1, <2>2
<1> HIDE DEF up, old
<1>12. ASSUME NEW x \in URIs, x = up.uri, NEW m \in Members
       PROVE  Registered(x, m)' =
                IF up.op = "AddMemberKey" /\ m = up.member THEN up.key
                ELSE IF up.op = "RemoveMemberKey" /\ m = up.member THEN NoKey
                ELSE Registered(x, m)
  <2>1. old.members \in [Members -> KeyPairs \cup {NoKey}]
    BY <1>1 DEF KeySet
  <2>2. /\ up.op = "AddMemberKey" =>
             Updated(old, up).members = [old.members EXCEPT ![up.member] = up.key]
        /\ up.op = "RemoveMemberKey" =>
             Updated(old, up).members = [old.members EXCEPT ![up.member] = NoKey]
        /\ up.op = "AddCommunityKey" => Updated(old, up).members = old.members
    BY <1>1, UpdatedFacts
  <2> QED
    BY <1>2, <1>11, <1>12, <2>1, <2>2
<1> QED
  BY <1>7, <1>8, <1>9, <1>10, <1>12 DEF up

\* What the history records of an update.
LEMMA ApplyHistory ==
  ASSUME RingInv, NEW u \in Users, UpdateApply(u)
  PROVE  /\ present' \in [URIs -> [Members -> KeyPairs \cup {NoKey}]]
         /\ seen' \in [Users -> SUBSET (KeyPairs \cup {NoKey})]
         /\ touched' \in BOOLEAN
         /\ \A x \in URIs, m \in Members :
              present'[x][m] =
                IF x = uArg[u].uri /\ uArg[u].op = "AddMemberKey" /\ m = uArg[u].member
                  THEN uArg[u].key
                ELSE IF x = uArg[u].uri /\ uArg[u].op = "RemoveMemberKey" /\ m = uArg[u].member
                  THEN NoKey
                ELSE present[x][m]
         /\ \A v \in Users :
              /\ seen[v] \subseteq seen'[v]
              /\ /\ uPc[v] = "verify"
                 /\ uArg[v].uri = uArg[u].uri /\ uArg[v].member = uArg[u].member
                 => /\ uArg[u].op = "AddMemberKey" => uArg[u].key \in seen'[v]
                    /\ uArg[u].op = "RemoveMemberKey" => NoKey \in seen'[v]
         /\ ~ touched' =>
              /\ ~ touched
              /\ uArg[u].op # "AddCommunityKey" /\ uArg[u].uri = DiscoveryURI
                   /\ uArg[u].member = MemberOf[identity]
                   => uArg[u].op = "AddMemberKey" /\ uArg[u].key = identity
<1> DEFINE up == uArg[u]
<1>1. /\ present \in [URIs -> [Members -> KeyPairs \cup {NoKey}]]
      /\ seen \in [Users -> SUBSET (KeyPairs \cup {NoKey})] /\ touched \in BOOLEAN
      /\ up \in KeyUpdate
  BY DEF RingInv, RingTypeOK, LockInv, UpdateApply
<1>2. identity # NoKey
  BY KeyAssumption DEF RingInv, IdleInv, KeyInv, BootInv, UpdateApply
<1>3. \/ up.op = "AddMemberKey"    /\ NoteMemberKey(up, up.key)
      \/ up.op = "RemoveMemberKey" /\ NoteMemberKey(up, NoKey)
      \/ up.op = "AddCommunityKey" /\ UNCHANGED ringHist
  BY DEF UpdateApply
<1>4. up.uri \in URIs
  BY <1>1 DEF KeyUpdate
<1> HIDE DEF up
<1>5. ASSUME NEW k \in KeyPairs \cup {NoKey}, NoteMemberKey(up, k), up.member \in Members
      PROVE  /\ present' \in [URIs -> [Members -> KeyPairs \cup {NoKey}]]
             /\ seen' \in [Users -> SUBSET (KeyPairs \cup {NoKey})]
             /\ touched' \in BOOLEAN
             /\ \A x \in URIs, m \in Members :
                  present'[x][m] = IF x = up.uri /\ m = up.member THEN k ELSE present[x][m]
             /\ \A v \in Users :
                  /\ seen[v] \subseteq seen'[v]
                  /\ uPc[v] = "verify" /\ uArg[v].uri = up.uri /\ uArg[v].member = up.member
                       => k \in seen'[v]
             /\ ~ touched' => /\ ~ touched
                              /\ up.uri = DiscoveryURI /\ up.member = MemberOf[identity]
                                   => k = identity
  <2>1. /\ present' \in [URIs -> [Members -> KeyPairs \cup {NoKey}]]
        /\ \A x \in URIs, m \in Members :
             present'[x][m] = IF x = up.uri /\ m = up.member THEN k ELSE present[x][m]
    BY <1>1, <1>4, <1>5 DEF NoteMemberKey
  <2>2. /\ seen' \in [Users -> SUBSET (KeyPairs \cup {NoKey})]
        /\ \A v \in Users :
             /\ seen[v] \subseteq seen'[v]
             /\ uPc[v] = "verify" /\ uArg[v].uri = up.uri /\ uArg[v].member = up.member
                  => k \in seen'[v]
    BY <1>1, <1>5 DEF NoteMemberKey
  <2>3. /\ touched' \in BOOLEAN
        /\ ~ touched' => /\ ~ touched
                         /\ up.uri = DiscoveryURI /\ up.member = MemberOf[identity]
                              => k = identity
    BY <1>1, <1>5, Zenon DEF NoteMemberKey
  <2> QED
    BY <2>1, <2>2, <2>3
<1>6. CASE up.op = "AddMemberKey"
  <2>1. up.member \in Members /\ up.key \in KeyPairs
    BY <1>1, <1>6 DEF KeyUpdate
  <2> QED
    BY <1>3, <1>5, <1>6, <2>1 DEF up
<1>7. CASE up.op = "RemoveMemberKey"
  <2>1. up.member \in Members
    BY <1>1, <1>7 DEF KeyUpdate
  <2> QED
    BY <1>2, <1>3, <1>5, <1>7, <2>1 DEF up
<1>8. CASE up.op = "AddCommunityKey"
  BY <1>1, <1>3, <1>8 DEF up, ringHist
<1> QED
  BY <1>3, <1>6, <1>7, <1>8

LEMMA UpdateApplyPreserves ==
  ASSUME RingInv, NEW u \in Users, UpdateApply(u)
  PROVE  RingInv'
<1>1. /\ boot = "up" /\ identity \in KeyPairs /\ known = identity
      /\ UNCHANGED <<keyVars, encoded>> /\ krLock' = NoUser
  BY DEF UpdateApply, RingInv, IdleInv, KeyInv, BootInv
<1>2. /\ uPc'[u] = "idle"
      /\ \A v \in Users \ {u} : uPc'[v] = uPc[v] /\ uKs'[v] = uKs[v] /\ uArg'[v] = uArg[v]
  BY DEF UpdateApply, Return, Go, RingInv, RingTypeOK
<1>3. KeyInv' /\ KeyTypeOK' /\ IdleInv' /\ EncodedInv'
  BY <1>1 DEF RingInv, KeyInv, KeyTypeOK, BootInv, IdleInv, EncodedInv, keyVars
<1>4. RingTypeOK'
  <2>1. /\ uPc' \in [Users -> {"idle", "update", "encrypt", "sign", "verify", "decrypt",
                               "accepted"}]
        /\ uKs' \in [Users -> 0..Len(keysets)]
        /\ uArg' \in [Users -> KeyUpdate \cup PartEntry]
        /\ Len(keysets) \in Nat
    BY NoEntryType DEF UpdateApply, Return, Go, RingInv, RingTypeOK
  <2>2. keysets' \in Seq(KeySet) /\ Len(keysets') \in {Len(keysets), Len(keysets) + 1}
    BY ApplyFacts
  <2>3. uKs' \in [Users -> 0..Len(keysets')]
    BY <2>1, <2>2
  <2> QED
    BY <1>1, <1>3, <2>1, <2>2, <2>3, ApplyRegistered, ApplyHistory DEF RingInv, RingTypeOK
<1>5. KeysKept'
  BY ApplyRegistered, ApplyHistory DEF RingInv, KeysKept
<1>6. MapInv'
  BY ApplyRegistered
<1>7. LockInv'
  <2>1. \A v \in Users \ {u} : uPc[v] # "update"
    BY DEF RingInv, LockInv, UpdateApply
  <2> QED
    BY <1>2, <2>1 DEF LockInv
<1>8. WorkInv'
  BY <1>2, ApplyRegistered DEF RingInv, WorkInv
<1>9. EncodeInv'
  BY <1>2 DEF RingInv, EncodeInv
<1>10. DecodeInv'
  <2> SUFFICES ASSUME NEW v \in Users \ {u},
                      uPc[v] \in {"verify", "decrypt", "accepted"}
               PROVE  /\ uArg[v] \in Entry
                      /\ uPc[v] = "verify" =>
                           \A x \in URIs, m \in Members :
                             x = uArg[v].uri /\ m = uArg[v].member => Registered(x, m)' \in seen'[v]
                      /\ uPc[v] \in {"decrypt", "accepted"} => uArg[v].signer \in seen'[v]
    BY <1>2 DEF DecodeInv, Entry
  <2>1. /\ uArg[v] \in Entry
        /\ uPc[v] = "verify" => Registered(uArg[v].uri, uArg[v].member) \in seen[v]
        /\ uPc[v] \in {"decrypt", "accepted"} => uArg[v].signer \in seen[v]
    BY DEF RingInv, DecodeInv
  <2>2. seen[v] \subseteq seen'[v]
    BY ApplyHistory
  <2>3. ASSUME uPc[v] = "verify", NEW x \in URIs, NEW m \in Members,
               x = uArg[v].uri, m = uArg[v].member
        PROVE  Registered(x, m)' \in seen'[v]
    BY <2>1, <2>2, <2>3, ApplyRegistered, ApplyHistory
  <2> QED
    BY <2>1, <2>2, <2>3
<1>11. OwnInv'
  <2> DEFINE up  == uArg[u]
             id  == IF uKs[u] = 0 THEN Len(keysets) + 1 ELSE uKs[u]
             old == IF uKs[u] = 0 THEN NewKeySet ELSE keysets[uKs[u]]
  <2>1. /\ up \in KeyUpdate /\ old \in KeySet /\ Len(keysets) \in Nat
        /\ uKs[u] \in 0..Len(keysets)
        /\ Len(keysets') = IF uKs[u] = 0 THEN Len(keysets) + 1 ELSE Len(keysets)
        /\ keysets'[id] = Updated(old, up)
        /\ \A i \in 1..Len(keysets) : i # id => keysets'[i] = keysets[i]
    BY ApplyFacts DEF RingInv, RingTypeOK
  <2>2. /\ Updated(old, up).private = old.private
        /\ Updated(old, up).member = old.member
    BY <2>1, UpdatedFacts
  <2>3. ASSUME NEW i \in 1..Len(keysets'), keysets'[i].private # NoKey
        PROVE  /\ i \in 1..Len(keysets)
               /\ keysets[i].private = keysets'[i].private
               /\ keysets[i].member = keysets'[i].member
    BY <2>1, <2>2, <2>3 DEF NewKeySet
  <2>4. ASSUME NEW i \in 1..Len(keysets'), keysets'[i].private # NoKey
        PROVE  /\ i = channelKeys'[DiscoveryURI]
               /\ keysets'[i].private = identity /\ keysets'[i].member = MemberOf[identity]
    <3>1. /\ i = channelKeys[DiscoveryURI] /\ i # 0
          /\ keysets[i].private = identity /\ keysets[i].member = MemberOf[identity]
      BY <1>1, <2>1, <2>3, <2>4 DEF RingInv, OwnInv
    <3> QED
      BY <2>3, <2>4, <3>1, RingAssumption, ApplyRegistered
  <2>5. ASSUME ~ touched', NEW m \in Members, m = MemberOf[identity]
        PROVE  Registered(DiscoveryURI, m)' = identity
    <3>1. Registered(DiscoveryURI, m) = identity
      BY <1>1, <2>5, ApplyHistory DEF RingInv, OwnInv
    <3> QED
      BY <2>1, <2>5, <3>1, RingAssumption, ApplyRegistered, ApplyHistory DEF KeyUpdate
  <2>6. MemberOf[identity] \in Members /\ identity' = identity /\ boot' = boot
    BY <1>1, RingAssumption DEF keyVars
  <2> QED
    BY <1>1, <2>4, <2>5, <2>6 DEF OwnInv
<1> QED
  BY <1>3, <1>4, <1>5, <1>6, <1>7, <1>8, <1>9, <1>10, <1>11 DEF RingInv

-----------------------------------------------------------------------------
(* Starts and ends of the process. *)

\* The ring of NewKeyRing is empty.
LEMMA RingInvInit == RingInit => RingInv
<1> SUFFICES ASSUME RingInit PROVE RingInv
  OBVIOUS
<1>1. KeyInv /\ boot # "up"
  BY KeyInvInit DEF RingInit, KeyInit
<1>2. Len(keysets) = 0 /\ keysets \in Seq(KeySet) /\ channelKeys \in [URIs -> 0..Len(keysets)]
  BY DEF RingInit
<1>3. /\ uArg \in [Users -> KeyUpdate \cup PartEntry]
      /\ uKs \in [Users -> 0..Len(keysets)]
  BY <1>2, NoEntryType DEF RingInit
<1>4. touched \in BOOLEAN
  BY Zenon DEF RingInit
<1>5. RingTypeOK
  BY <1>1, <1>2, <1>3, <1>4 DEF RingInit, RingTypeOK, KeyInv
<1>6. KeysKept /\ IdleInv /\ MapInv /\ LockInv /\ WorkInv /\ EncodeInv /\ DecodeInv
  BY DEF RingInit, KeysKept, Registered, IdleInv, MapInv, LockInv, WorkInv, EncodeInv,
         DecodeInv
<1>7. OwnInv /\ EncodedInv
  BY <1>1 DEF RingInit, OwnInv, EncodedInv
<1> QED
  BY <1>1, <1>5, <1>6, <1>7 DEF RingInv

LEMMA RingExitPreserves == RingInv /\ RingExit => RingInv'
<1> SUFFICES ASSUME RingInv, RingExit PROVE RingInv'
  OBVIOUS
<1>1. KeyInv'
  BY KeyInvNext DEF RingInv, RingExit, KeyNext
<1>2. (encoded \subseteq Entry)' /\ EncodedInv' /\ boot' # "up"
  BY DEF RingInv, RingTypeOK, EncodedInv, RingExit, Exit
<1>3. /\ krLock' = NoUser /\ (channelKeys = [uri \in URIs |-> 0])' /\ (keysets = <<>>)'
      /\ (uPc = [u \in Users |-> "idle"])' /\ (uKs = [u \in Users |-> 0])'
      /\ (uArg = [u \in Users |-> NoEntry])'
      /\ (present = [uri \in URIs |-> [m \in Members |-> NoKey]])'
      /\ (seen = [u \in Users |-> {}])' /\ (touched = FALSE)'
  BY DEF RingExit
<1>4. /\ Len(keysets') = 0 /\ keysets' \in Seq(KeySet)
      /\ channelKeys' \in [URIs -> 0..Len(keysets')]
      /\ uArg' \in [Users -> KeyUpdate \cup PartEntry]
      /\ uKs' \in [Users -> 0..Len(keysets')]
  BY <1>3, NoEntryType
<1>5. RingTypeOK'
  <2>1. touched' \in BOOLEAN
    BY <1>3, Zenon
  <2> QED
    BY <1>1, <1>2, <1>3, <1>4, <2>1 DEF RingTypeOK, KeyInv
<1>6. (KeysKept /\ IdleInv /\ MapInv /\ LockInv /\ WorkInv /\ EncodeInv /\ DecodeInv /\ OwnInv)'
  BY <1>2, <1>3
     DEF KeysKept, Registered, IdleInv, MapInv, LockInv, WorkInv, EncodeInv, DecodeInv, OwnInv
<1> QED
  BY <1>1, <1>2, <1>5, <1>6 DEF RingInv

\* restore puts the first key set into an empty ring.
LEMMA RingRestorePreserves == RingInv /\ RingRestore => RingInv'
<1> SUFFICES ASSUME RingInv, RingRestore PROVE RingInv'
  OBVIOUS
<1> DEFINE own == [NewKeySet EXCEPT !.private = priv, !.member = MemberOf[priv],
                                    !.members[MemberOf[priv]] = priv]
<1>1. KeyInv'
  BY KeyInvNext DEF RingInv, RingRestore, KeyNext
<1>2. /\ boot # "up" /\ boot' = "up" /\ identity' = priv /\ priv \in KeyPairs
      /\ known' = priv /\ (known # NoKey => known = priv)
  BY <1>1, KeyAssumption
     DEF RingInv, RingRestore, Restore, KeyInv, BootInv
<1>3. /\ channelKeys = [uri \in URIs |-> 0] /\ keysets = <<>>
      /\ \A u \in Users : uPc[u] = "idle"
      /\ present = [uri \in URIs |-> [m \in Members |-> NoKey]]
  BY <1>2 DEF RingInv, IdleInv
<1>4. /\ DiscoveryURI \in URIs /\ MemberOf[priv] \in Members
  BY <1>2, RingAssumption
<1>5. /\ own \in KeySet /\ own.private = priv /\ own.member = MemberOf[priv]
      /\ \A m \in Members : own.members[m] = IF m = MemberOf[priv] THEN priv ELSE NoKey
  BY <1>2, <1>4, NewKeySetType DEF NewKeySet, KeySet
<1>6. keysets' = Append(<<>>, own) /\ channelKeys' = [channelKeys EXCEPT ![DiscoveryURI] = 1]
  BY <1>3 DEF RingRestore, AddKeyPair
<1> HIDE DEF own
<1>7. keysets' \in Seq(KeySet) /\ Len(keysets') = 1 /\ keysets'[1] = own
  BY <1>5, <1>6
<1>8. /\ channelKeys' \in [URIs -> 0..1] /\ channelKeys'[DiscoveryURI] = 1
      /\ \A x \in URIs : x # DiscoveryURI => channelKeys'[x] = 0
  BY <1>3, <1>4, <1>6
<1>9. /\ present' \in [URIs -> [Members -> KeyPairs \cup {NoKey}]]
      /\ \A x \in URIs, m \in Members :
           present'[x][m] = IF x = DiscoveryURI /\ m = MemberOf[priv] THEN priv ELSE NoKey
  BY <1>2, <1>3, <1>4 DEF RingRestore, AddKeyPair
<1>10. \A x \in URIs, m \in Members :
          Registered(x, m)' = IF x = DiscoveryURI /\ m = MemberOf[priv] THEN priv ELSE NoKey
  BY <1>5, <1>7, <1>8 DEF Registered
<1>11. UNCHANGED <<krLock, uPc, uKs, uArg, seen, touched, encoded>>
  BY DEF RingRestore, userVars
<1>12. RingTypeOK'
  <2>1. uKs \in [Users -> 0..0]
    BY <1>3 DEF RingInv, RingTypeOK
  <2> QED
    BY <1>1, <1>7, <1>8, <1>9, <1>11, <2>1 DEF RingInv, RingTypeOK, KeyInv
<1>13. KeysKept'
  BY <1>9, <1>10 DEF KeysKept
<1>14. IdleInv' /\ MapInv' /\ LockInv' /\ WorkInv' /\ EncodeInv' /\ DecodeInv'
  BY <1>2, <1>3, <1>8, <1>11 DEF IdleInv, MapInv, LockInv, WorkInv, EncodeInv, DecodeInv
<1>15. OwnInv'
  <2>1. \A i \in 1..Len(keysets') : i = 1
    BY <1>7
  <2>2. MemberOf[identity'] = MemberOf[priv]
    BY <1>2
  <2>3. \A m \in Members : m = MemberOf[priv] => Registered(DiscoveryURI, m)' = priv
    BY <1>4, <1>10
  <2> QED
    BY <1>2, <1>4, <1>5, <1>7, <1>8, <2>1, <2>2, <2>3 DEF OwnInv
<1>16. EncodedInv'
  BY <1>2, <1>11, KeyAssumption DEF RingInv, EncodedInv
<1> QED
  BY <1>1, <1>12, <1>13, <1>14, <1>15, <1>16 DEF RingInv

\* The steps of getKeys leave the ring, which is empty then, alone.
LEMMA GetKeysPreserves == RingInv /\ GetKeysOnly => RingInv'
<1> SUFFICES ASSUME RingInv, GetKeysOnly PROVE RingInv'
  OBVIOUS
<1>1. KeyInv'
  BY KeyInvNext DEF RingInv, GetKeysOnly, KeyNext
<1>2. boot # "up" /\ boot' # "up" /\ known' = known
  BY DEF GetKeysOnly, GetKeys, StartLoad, StartRefused, StartCreate, SaveOpen, SaveWrite,
         StartFail
<1>3. UNCHANGED <<krLock, channelKeys, keysets, uPc, uKs, uArg, present, seen, touched, encoded>>
  BY DEF GetKeysOnly, ringVars, userVars, ringHist
<1>4. RingTypeOK'
  BY <1>1, <1>3 DEF RingInv, RingTypeOK, KeyInv
<1>5. (KeysKept /\ IdleInv /\ MapInv /\ LockInv /\ WorkInv /\ EncodeInv /\ DecodeInv)'
  BY <1>2, <1>3 DEF RingInv, KeysKept, Registered, IdleInv, MapInv, LockInv, WorkInv,
     EncodeInv, DecodeInv
<1>6. OwnInv' /\ EncodedInv'
  BY <1>2, <1>3 DEF RingInv, OwnInv, EncodedInv
<1> QED
  BY <1>1, <1>4, <1>5, <1>6 DEF RingInv

LEMMA RingStutterPreserves == RingInv /\ UNCHANGED allRing => RingInv'
<1> SUFFICES ASSUME RingInv, UNCHANGED allRing PROVE RingInv'
  OBVIOUS
<1>1. UNCHANGED <<file, boot, priv, identity, used, known>>
  BY DEF allRing, keyVars
<1>2. UNCHANGED <<krLock, channelKeys, keysets, uPc, uKs, uArg, present, seen, touched, encoded>>
  BY DEF allRing, ringVars, userVars, ringHist
<1>3. KeyInv' /\ RingTypeOK'
  BY <1>1, <1>2 DEF RingInv, KeyInv, KeyTypeOK, BootInv, RingTypeOK
<1>4. (KeysKept /\ IdleInv /\ MapInv /\ LockInv /\ WorkInv /\ EncodeInv /\ DecodeInv)'
  BY <1>1, <1>2 DEF RingInv, KeysKept, Registered, IdleInv, MapInv, LockInv, WorkInv,
     EncodeInv, DecodeInv
<1>5. OwnInv' /\ EncodedInv'
  BY <1>1, <1>2 DEF RingInv, OwnInv, EncodedInv, Registered
<1> QED
  BY <1>3, <1>4, <1>5 DEF RingInv

LEMMA RingInvNext == RingInv /\ [RingNext]_allRing => RingInv'
<1> SUFFICES ASSUME RingInv, [RingNext]_allRing PROVE RingInv'
  OBVIOUS
<1>1. ASSUME NEW u \in Users, UserStep(u) PROVE RingInv'
  BY <1>1, LocalStepPreserves, UpdateApplyPreserves DEF UserStep
<1>2. ASSUME NEW u \in Users, CryptoPanic(u) PROVE RingInv'
  BY <1>2, RingExitPreserves DEF CryptoPanic
<1> QED
  BY <1>1, <1>2, GetKeysPreserves, RingRestorePreserves, RingExitPreserves,
     RingStutterPreserves DEF RingNext

LEMMA RingInvariant == RingSpec => []RingInv
BY RingInvInit, RingInvNext, PTL DEF RingSpec, allRing

-----------------------------------------------------------------------------
\* Every variable of the ring keeps its type, and no URI of kr.channelKeys is
\* without a key set.
THEOREM RingTypeCorrect == RingSpec => []RingTypeOK
<1>1. RingInv => RingTypeOK
  BY DEF RingInv
<1> QED
  BY <1>1, RingInvariant, PTL

\* AddMemberKey and RemoveMemberKey are never lost, whatever other callers do to
\* kr.channelKeys at the same time.
THEOREM KeysKeptHolds == RingSpec => []KeysKept
<1>1. RingInv => KeysKept
  BY DEF RingInv
<1> QED
  BY <1>1, RingInvariant, PTL

\* DecodeEntry accepts no entry but one signed with a key its sender was registered
\* with while the call ran.
THEOREM AcceptedWasMemberHolds == RingSpec => []AcceptedWasMember
<1>1. RingInv => AcceptedWasMember
  BY DEF RingInv, DecodeInv, AcceptedWasMember
<1> QED
  BY <1>1, RingInvariant, PTL

\* What EncodeEntry has returned, in this process or an earlier one, verifies for as
\* long as the vault's own member key is left alone.
THEOREM OwnEntriesVerifyHolds == RingSpec => []OwnEntriesVerify
<1>1. RingInv => OwnEntriesVerify
  BY DEF RingInv, KeyInv, BootInv, OwnInv, EncodedInv, OwnEntriesVerify
<1> QED
  BY <1>1, RingInvariant, PTL
=============================================================================
