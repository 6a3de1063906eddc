-------------------------- MODULE ChannelOrderProofs --------------------------
(***************************************************************************)
(* What a stream of Channel consists of, for any sets of clients, keys,    *)
(* messages and options: its entries come in order and none twice, and all *)
(* that was in the channel when it was opened has come when its reader     *)
(* first blocks.                                                           *)
(*                                                                         *)
(* Both speak of the history of a stream only.  Their inductive forms tie  *)
(* it to the reader's cursor, lastSeen and iterator: in OrderInv what was  *)
(* sent is not after the cursor, in BacklogInv what is still to be sent is *)
(* not before it and, while the reader iterates, is ahead of the iterator. *)
(***************************************************************************)
EXTENDS ChannelProofs

\* What a reader that reads entries, and one that reads the index, goes through.
EntryPcs == {"start", "open", "select", "publish", "wait", "parked"}
IndexPcs == {"istart", "iselect", "ipublish"}

\* A reader does what the options it was started with say, which a reset does
\* not change, and has published nothing when it starts.
ModeOK(d) ==
    /\ rPc[d] # "none" => rOpts[d] \in Opts \ {NilOpts}
    /\ rPc[d] \in EntryPcs => ~ rOpts[d].fromIndex
    /\ rPc[d] \in IndexPcs => rOpts[d].fromIndex
    /\ rPc[d] \in {"start", "istart"} => sent[d] = << >>

ModeInv == \A d \in Clients : ModeOK(d)

\* The index has a bookmark for committed entries only, and one for each.
IndexInv ==
    /\ \A x \in index : x.key \in Committed
    /\ \A x, y \in index : x.key = y.key => x = y

\* The stream of entries d: in order, up to the cursor, which is on the entry seen
\* last; and what is about to be published is not that one.
EntryOrder(d) ==
    /\ \A i, j \in 1..Len(sent[d]) : i < j => sent[d][i] < sent[d][j]
    /\ \A i \in 1..Len(sent[d]) : sent[d][i] <= rKey[d] /\ rKey[d] = rSeen[d]
    /\ rPc[d] = "publish" => \A k \in rRest[d] : IsItem(k, rRest[d]) => k # rSeen[d]

\* The stream from the index d: its entries have bookmarks, in order, before all
\* those the iterator has still to visit.
IndexOrder(d) ==
    /\ \A i \in 1..Len(sent[d]) : \E x \in index : x.key = sent[d][i]
    /\ \A i, j \in 1..Len(sent[d]) : i < j =>
         \A x, y \in index : x.key = sent[d][i] /\ y.key = sent[d][j] => ArrivalLT(x, y)
    /\ \A i \in 1..Len(sent[d]) : \A x \in index, y \in iRest[d] :
         x.key = sent[d][i] => ArrivalLT(x, y)

OrderOK(d) ==
    /\ iRest[d] \subseteq index
    /\ rOpts[d] # NilOpts => IF rOpts[d].fromIndex THEN IndexOrder(d) ELSE EntryOrder(d)

OrderInv == \A d \in Clients : OrderOK(d)

\* What the stream d has still to publish of what it must.
Pend(d) == due[d] \ ({dupe[d]} \cup Streamed(d))

\* What is still to be published is there, at or after the cursor, and is not what
\* would be taken for a duplicate; an open iterator will visit it; and there is
\* none of it when the reader blocks.
BacklogOK(d) ==
    /\ rPc[d] = "start" =>
         \A k \in Pend(d) : /\ k \in Committed /\ ~ rOpts[d].fromHead
                            /\ k >= rOpts[d].seek
                            /\ rOpts[d].skipFirst => k # rOpts[d].seek
    /\ rPc[d] \in EntryPcs \ {"start"} =>
         \A k \in Pend(d) : k \in Committed /\ k >= rKey[d] /\ k # rSeen[d]
    /\ rPc[d] \in {"select", "publish"} => Pend(d) \subseteq rRest[d]
    /\ rPc[d] = "wait" /\ ~ Done(d) => Pend(d) = {}

BacklogInv == \A d \in Clients : BacklogOK(d)

OrdInv == Inv /\ ModeInv /\ IndexInv /\ OrderInv /\ BacklogInv

-----------------------------------------------------------------------------
\* All that the four parts above look at in a reader.
StreamState(d) == <<rPc[d], rOpts[d], rCtx[d], rKey[d], rSeen[d], rRest[d], iRest[d],
                    sent[d], due[d], dupe[d]>>

\* The steps of a reader of entries and of a reader of the index.
EntryStep(d) == \/ ReadStart(d) \/ ReadOpen(d) \/ ReadEnd(d) \/ ReadReset(d)
                \/ ReadResetNil(d) \/ ReadItem(d) \/ ReadPublish(d) \/ WaitNotify(d)
                \/ WaitDone(d) \/ ReadResetFail(d) \/ ReadFail(d) \/ Unsubscribe(d)
IndexStep(d) == IndexOpen(d) \/ IndexEnd(d) \/ IndexItem(d) \/ IndexPublish(d)

\* Only a reader's own steps change it, but for its start and that of the process.
LEMMA StreamStep ==
    ASSUME TypeOK, [Next]_vars, NEW d \in Clients
    PROVE  \/ UNCHANGED StreamState(d) \/ Restart \/ SubscribeNew(d)
           \/ EntryStep(d) \/ IndexStep(d)
<1> USE DEF StreamState, EntryStep, IndexStep
<1>1. ASSUME NEW c \in Clients, Caller(c)
      PROVE  UNCHANGED StreamState(d) \/ Restart \/ SubscribeNew(d)
  <2>1. CASE SubscribeNew(c) /\ c # d
        BY <2>1 DEF SubscribeNew, TypeOK, ReadType, HistType
  <2> QED BY <1>1, <2>1 DEF Caller, SubscribeCall, Cancel, CancelAll, SubscribeReset,
             SubscribeNil, readVars, histVars
<1>2. ASSUME NEW c \in Clients, Read(c)
      PROVE  UNCHANGED StreamState(d) \/ EntryStep(d)
  <2>1. CASE c = d
        BY <1>2, <2>1 DEF Read, ReadNotify, histVars
  <2>2. CASE c # d
    <3>1. CASE \/ ReadStart(c) \/ ReadOpen(c) \/ ReadEnd(c) \/ ReadNotify(c) \/ ReadResetNil(c)
               \/ ReadItem(c) \/ WaitNotify(c) \/ WaitDone(c) \/ ReadResetFail(c)
               \/ ReadFail(c) \/ Unsubscribe(c)
      <4>1. UNCHANGED histVars
            BY <3>1 DEF ReadStart, ReadOpen, ReadEnd, ReadNotify, ReadResetNil,
               ReadItem, WaitNotify, WaitDone, ReadResetFail, ReadFail, Unsubscribe
      <4>2. /\ rPc'[d] = rPc[d] /\ rOpts'[d] = rOpts[d] /\ rCtx'[d] = rCtx[d]
            /\ rKey'[d] = rKey[d] /\ rSeen'[d] = rSeen[d]
            /\ rRest'[d] = rRest[d] /\ iRest'[d] = iRest[d]
            BY <2>2, <3>1 DEF ReadStart, ReadOpen, ReadEnd, ReadNotify, ReadResetNil,
               ReadItem, WaitNotify, WaitDone, ReadResetFail, ReadFail, Unsubscribe,
               TypeOK, ReadType
      <4> QED BY <4>1, <4>2 DEF histVars
    <3>2. CASE ReadReset(c)
          BY <2>2, <3>2 DEF ReadReset, TypeOK, ReadType, HistType
    <3>3. CASE ReadPublish(c)
          BY <2>2, <3>3 DEF ReadPublish, Published, TypeOK, ReadType, HistType
    <3> QED BY <1>2, <3>1, <3>2, <3>3 DEF Read
  <2> QED BY <2>1, <2>2
<1>3. ASSUME NEW c \in Clients, ReadFromIndex(c)
      PROVE  UNCHANGED StreamState(d) \/ IndexStep(d)
  <2>1. CASE c = d
        BY <1>3, <2>1 DEF ReadFromIndex, IndexNotify, readVars, histVars
  <2>2. CASE c # d
        BY <1>3, <2>2 DEF ReadFromIndex, IndexOpen, IndexEnd, IndexNotify, IndexItem,
           IndexPublish, Published, readVars, histVars, TypeOK, ReadType, HistType
  <2> QED BY <2>1, <2>2
<1>4. CASE \/ \E m \in Msgs, ts \in Times : Commit(m, ts)
           \/ Broadcast
           \/ UNCHANGED vars
      BY <1>4 DEF Commit, Broadcast, Watch, BcRecv, BcLock, vars, chVars, readVars, histVars
<1> QED BY <1>1, <1>2, <1>3, <1>4 DEF Next

\* A reader's own steps leave the database alone.
LEMMA ReaderDb ==
    ASSUME NEW d \in Clients, SubscribeNew(d) \/ EntryStep(d) \/ IndexStep(d)
    PROVE  UNCHANGED dbVars
BY DEF SubscribeNew, EntryStep, IndexStep, ReadStart, ReadOpen, ReadEnd, ReadReset,
   ReadResetNil, ResetReturn, ReadItem, ReadPublish, WaitNotify, WaitDone, ReadResetFail,
   ReadFail, Unsubscribe, IndexOpen, IndexEnd, IndexItem, IndexPublish

\* An entry once committed stays, and so does a bookmark.
LEMMA DbGrows ==
    ASSUME TypeOK, [Next]_vars
    PROVE  Committed \subseteq Committed' /\ index \subseteq index'
<1>1. ASSUME NEW m \in Msgs, NEW ts \in Times, Commit(m, ts)
      PROVE  Committed \subseteq Committed' /\ index \subseteq index'
      BY <1>1, NoMsgAssumption DEF Commit, Record, Committed, TypeOK, DbType
<1>2. CASE UNCHANGED dbVars
      BY <1>2 DEF dbVars, Committed
<1> QED BY <1>1, <1>2, DbStep

\* A commit writes an entry and its bookmark together.
LEMMA IndexStepInv == TypeOK /\ IndexInv /\ [Next]_vars => IndexInv'
<1> SUFFICES ASSUME TypeOK, IndexInv, [Next]_vars PROVE IndexInv'
    OBVIOUS
<1>1. ASSUME NEW m \in Msgs, NEW ts \in Times, Commit(m, ts)
      PROVE  IndexInv'
  <2>1. /\ KeyOf[m] \notin Committed /\ Committed' = Committed \cup {KeyOf[m]}
        /\ index' = index \cup {ArrivalKey(ts, KeyOf[m])}
        BY <1>1, NoMsgAssumption DEF Commit, Record, Committed, TypeOK, DbType
  <2>2. ArrivalKey(ts, KeyOf[m]).key = KeyOf[m]
        BY DEF ArrivalKey
  <2> QED BY <2>1, <2>2 DEF IndexInv
<1>2. CASE UNCHANGED dbVars
      BY <1>2 DEF dbVars, IndexInv, Committed
<1> QED BY <1>1, <1>2, DbStep

\* A reader keeps to the kind of stream it was started for.
LEMMA ModeStep == TypeOK /\ ModeInv /\ [Next]_vars => ModeInv'
<1> SUFFICES ASSUME TypeOK, ModeInv, [Next]_vars, NEW d \in Clients PROVE ModeOK(d)'
    BY DEF ModeInv
<1>0. ModeOK(d)
      BY DEF ModeInv
<1> USE DEF ModeOK, EntryPcs, IndexPcs, TypeOK, ReadType, HistType
<1>1. CASE UNCHANGED StreamState(d)
      BY <1>0, <1>1 DEF StreamState
<1>2. CASE Restart
      BY <1>2 DEF Restart, Every
<1>3. CASE SubscribeNew(d)
      BY <1>3 DEF SubscribeNew, CallType
<1>4. CASE ReadPublish(d) \/ IndexPublish(d)
      BY <1>0, <1>4 DEF ReadPublish, IndexPublish
<1>5. CASE EntryStep(d) /\ ~ ReadPublish(d)
      BY <1>0, <1>5 DEF EntryStep, ReadStart, ReadOpen, ReadEnd, AfterIterate, ReadReset,
         ReadResetNil, ReadItem, WaitNotify, WaitDone, ReadResetFail, ReadFail, Unsubscribe,
         histVars
<1>6. CASE IndexStep(d) /\ ~ IndexPublish(d)
      BY <1>0, <1>6 DEF IndexStep, IndexOpen, IndexEnd, IndexItem, histVars
<1> QED BY <1>1, <1>2, <1>3, <1>4, <1>5, <1>6, StreamStep DEF EntryStep, IndexStep

-----------------------------------------------------------------------------
\* What Publish leaves of the stream before it, and adds.
LEMMA PublishedAt ==
    ASSUME TypeOK, NEW d \in Clients, NEW k \in Keys, Published(d, k)
    PROVE  /\ Len(sent[d]) \in Nat /\ Len(sent'[d]) = Len(sent[d]) + 1
           /\ sent'[d][Len(sent[d]) + 1] = k
           /\ \A i \in 1..Len(sent[d]) : sent'[d][i] = sent[d][i] /\ sent[d][i] \in Keys
<1>1. sent'[d] = Append(sent[d], k) /\ sent[d] \in Seq(Keys)
      BY DEF Published, TypeOK, HistType
<1> QED BY <1>1

\* Keys and cursors are numbers.
LEMMA KeysAreNat ==
    ASSUME TypeOK, NEW d \in Clients
    PROVE  rKey[d] \in Nat /\ rSeen[d] \in Nat /\ rRest[d] \subseteq Nat /\ Committed \subseteq Nat
<1>1. Keys \subseteq Nat /\ NilKey \in Nat
      BY KeysAssumption DEF NilKey
<1> QED BY <1>1 DEF TypeOK, ReadType, Committed

\* Byte order is total on the keys of the index.
LEMMA ArrivalTotal ==
    ASSUME NEW x \in ArrivalKeys, NEW y \in ArrivalKeys, x # y
    PROVE  ArrivalLT(x, y) \/ ArrivalLT(y, x)
<1>1. x.ts \in Nat /\ y.ts \in Nat /\ x.key \in Nat /\ y.key \in Nat
      BY KeysAssumption, TimesAssumption DEF ArrivalKeys
<1>2. x.ts # y.ts \/ x.key # y.key
      BY DEF ArrivalKeys
<1> QED BY <1>1, <1>2 DEF ArrivalLT

\* What read publishes comes after all it has published.
LEMMA EntryPublishOrder ==
    ASSUME TypeOK, NEW d \in Clients, Wakeful(d), EntryOrder(d), ReadPublish(d)
    PROVE  EntryOrder(d)'
<1>1. PICK k \in rRest[d] :
         /\ IsItem(k, rRest[d]) /\ Published(d, k)
         /\ rKey'[d] = k /\ rSeen'[d] = k /\ rPc'[d] = "select"
      BY DEF ReadPublish, TypeOK, ReadType
<1>2. k \in Keys /\ k \in Nat
      BY KeysAreNat DEF TypeOK, ReadType
<1>3. k >= rKey[d] /\ k # rSeen[d]
      BY <1>1 DEF ReadPublish, Wakeful, EntryOrder
<1>4. \A i \in 1..Len(sent[d]) : sent[d][i] \in Nat /\ sent[d][i] < k
  <2> SUFFICES ASSUME NEW i \in 1..Len(sent[d]) PROVE sent[d][i] \in Nat /\ sent[d][i] < k
      OBVIOUS
  <2>1. sent[d][i] <= rKey[d] /\ rKey[d] = rSeen[d]
        BY DEF EntryOrder
  <2>2. sent[d][i] \in Nat
        BY <1>1, <1>2, PublishedAt, KeysAssumption
  <2> QED BY <1>2, <1>3, <2>1, <2>2, KeysAreNat
<1>5. \A i \in 1..Len(sent'[d]) :
         \/ i \in 1..Len(sent[d]) /\ sent'[d][i] = sent[d][i]
         \/ i = Len(sent[d]) + 1 /\ sent'[d][i] = k
      BY <1>1, <1>2, PublishedAt
<1>6. \A i \in 1..Len(sent'[d]) : sent'[d][i] <= k
      BY <1>2, <1>4, <1>5
<1>7. ASSUME NEW i \in 1..Len(sent'[d]), NEW j \in 1..Len(sent'[d]), i < j
      PROVE  sent'[d][i] < sent'[d][j]
  <2>1. i \in 1..Len(sent[d]) /\ sent'[d][i] = sent[d][i]
        BY <1>1, <1>2, <1>5, <1>7, PublishedAt
  <2> QED BY <1>4, <1>5, <1>7, <2>1 DEF EntryOrder
<1> QED BY <1>1, <1>6, <1>7 DEF EntryOrder

\* What readFromIndex publishes has a bookmark after all before it, and before all
\* that are left.
LEMMA IndexPublishOrder ==
    ASSUME TypeOK, IndexInv, NEW d \in Clients, iRest[d] \subseteq index, IndexOrder(d),
           IndexPublish(d)
    PROVE  IndexOrder(d)'
<1>1. PICK x \in iRest[d] :
         IsIndexItem(x, iRest[d]) /\ Published(d, x.key) /\ iRest'[d] = iRest[d] \ {x}
      BY DEF IndexPublish, TypeOK, ReadType
<1>2. x \in index /\ x.key \in Keys /\ index' = index
      BY DEF IndexPublish, dbVars, TypeOK, DbType, ArrivalKeys
<1>3. \A i \in 1..Len(sent'[d]) :
         \/ i \in 1..Len(sent[d]) /\ sent'[d][i] = sent[d][i]
         \/ i = Len(sent[d]) + 1 /\ sent'[d][i] = x.key
      BY <1>1, <1>2, PublishedAt
<1>4. \A y \in index : y.key = x.key => y = x
      BY <1>2 DEF IndexInv
<1>5. \A y \in iRest[d] \ {x} : ArrivalLT(x, y)
      BY <1>1, ArrivalTotal DEF IsIndexItem, TypeOK, ReadType
<1>6. \A i \in 1..Len(sent'[d]) : \E y \in index' : y.key = sent'[d][i]
      BY <1>2, <1>3 DEF IndexOrder
<1>7. ASSUME NEW i \in 1..Len(sent'[d]), NEW j \in 1..Len(sent'[d]), i < j,
             NEW y \in index, NEW z \in index, y.key = sent'[d][i], z.key = sent'[d][j]
      PROVE  ArrivalLT(y, z)
  <2>1. i \in 1..Len(sent[d]) /\ sent'[d][i] = sent[d][i]
        BY <1>1, <1>2, <1>3, <1>7, PublishedAt
  <2>2. CASE j \in 1..Len(sent[d]) /\ sent'[d][j] = sent[d][j]
        BY <1>7, <2>1, <2>2 DEF IndexOrder
  <2>3. CASE sent'[d][j] = x.key
        BY <1>1, <1>4, <1>7, <2>1, <2>3 DEF IndexOrder
  <2> QED BY <1>3, <2>2, <2>3
<1>8. ASSUME NEW i \in 1..Len(sent'[d]), NEW y \in index, NEW z \in iRest'[d],
             y.key = sent'[d][i]
      PROVE  ArrivalLT(y, z)
  <2>1. CASE i \in 1..Len(sent[d]) /\ sent'[d][i] = sent[d][i]
        BY <1>1, <1>8, <2>1 DEF IndexOrder
  <2>2. CASE sent'[d][i] = x.key
        BY <1>1, <1>4, <1>5, <1>8, <2>2
  <2> QED BY <1>3, <2>1, <2>2
<1> QED BY <1>2, <1>6, <1>7, <1>8 DEF IndexOrder

\* Every step keeps every stream in order.
LEMMA OrderStep ==
    TypeOK /\ WakeInv /\ ModeInv /\ IndexInv /\ OrderInv /\ [Next]_vars => OrderInv'
<1> SUFFICES ASSUME TypeOK, WakeInv, ModeInv, IndexInv, OrderInv, [Next]_vars,
                    NEW d \in Clients
             PROVE  OrderOK(d)'
    BY DEF OrderInv
<1>0. Wakeful(d) /\ ModeOK(d) /\ OrderOK(d)
      BY DEF WakeInv, ModeInv, OrderInv
<1> USE DEF TypeOK, ReadType, HistType
<1>1. CASE UNCHANGED StreamState(d)
  <2>1. index \subseteq index' /\ IndexInv'
        BY DbGrows, IndexStepInv
  <2>2. EntryOrder(d) => EntryOrder(d)'
        BY <1>1 DEF StreamState, EntryOrder
  <2>3. ASSUME IndexOrder(d) PROVE IndexOrder(d)'
    <3>1. \A i \in 1..Len(sent[d]) : \A x \in index' : x.key = sent[d][i] => x \in index
          BY <2>1, <2>3 DEF IndexOrder, IndexInv
    <3> QED BY <1>1, <2>1, <2>3, <3>1 DEF StreamState, IndexOrder
  <2> QED BY <1>0, <1>1, <2>1, <2>2, <2>3 DEF StreamState, OrderOK
<1>2. CASE Restart
      BY <1>2 DEF Restart, Every, OrderOK
<1>3. CASE SubscribeNew(d)
  <2>1. sent'[d] = << >> /\ iRest'[d] = iRest[d] /\ rPc'[d] # "publish" /\ index' = index
        BY <1>3 DEF SubscribeNew, dbVars
  <2> QED BY <1>0, <2>1 DEF OrderOK, EntryOrder, IndexOrder
<1>4. CASE ReadStart(d) \/ ReadReset(d) \/ IndexOpen(d)
  <2>1. sent'[d] = << >> /\ rPc'[d] # "publish" /\ index' = index
        BY <1>0, <1>4 DEF ReadStart, ReadReset, ResetReturn, IndexOpen, AfterIterate, ModeOK,
           dbVars, histVars
  <2>2. iRest'[d] \subseteq index
        BY <1>0, <1>4 DEF ReadStart, ReadReset, IndexOpen, OrderOK
  <2> QED BY <2>1, <2>2 DEF OrderOK, EntryOrder, IndexOrder
<1>5. CASE \/ ReadOpen(d) \/ ReadEnd(d) \/ ReadResetNil(d) \/ WaitNotify(d) \/ WaitDone(d)
           \/ ReadResetFail(d) \/ ReadFail(d) \/ IndexEnd(d) \/ IndexItem(d)
  <2>1. /\ UNCHANGED histVars /\ rPc'[d] # "publish"
        /\ UNCHANGED <<rOpts, rKey, rSeen>> /\ iRest'[d] \subseteq iRest[d]
        BY <1>5 DEF ReadOpen, ReadEnd, AfterIterate, ReadResetNil, WaitNotify, WaitDone,
           ReadResetFail, ReadFail, IndexEnd, IndexItem
  <2>2. index' = index
        BY <1>5, ReaderDb DEF EntryStep, IndexStep, dbVars
  <2>3. EntryOrder(d) => EntryOrder(d)'
        BY <2>1 DEF EntryOrder, histVars
  <2>4. IndexOrder(d) => IndexOrder(d)'
        BY <2>1, <2>2 DEF IndexOrder, histVars
  <2> QED BY <1>0, <2>1, <2>2, <2>3, <2>4 DEF OrderOK
<1>6. CASE ReadItem(d)
  <2>1. PICK k \in rRest[d] : /\ IsItem(k, rRest[d])
                              /\ rPc'[d] = "publish" => k # rSeen[d] /\ rRest' = rRest
        BY <1>6 DEF ReadItem
  <2>2. \A j \in rRest[d] : IsItem(j, rRest[d]) => j = k
        BY <2>1, KeysAreNat DEF IsItem
  <2>3. UNCHANGED <<rOpts, rKey, rSeen, iRest, sent, index>> /\ ~ rOpts[d].fromIndex
        BY <1>0, <1>6 DEF ReadItem, histVars, dbVars, ModeOK, EntryPcs
  <2> QED BY <1>0, <2>1, <2>2, <2>3 DEF OrderOK, EntryOrder
<1>7. CASE ReadPublish(d)
  <2>1. UNCHANGED <<rOpts, iRest, index>> /\ rOpts[d] # NilOpts /\ ~ rOpts[d].fromIndex
        BY <1>0, <1>7 DEF ReadPublish, dbVars, ModeOK, EntryPcs
  <2>2. EntryOrder(d)'
        BY <1>0, <1>7, <2>1, EntryPublishOrder DEF OrderOK
  <2> QED BY <1>0, <2>1, <2>2 DEF OrderOK
<1>8. CASE IndexPublish(d)
  <2>1. /\ UNCHANGED <<rOpts, index>> /\ rOpts[d] # NilOpts /\ rOpts[d].fromIndex
        /\ iRest'[d] \subseteq iRest[d]
        BY <1>0, <1>8 DEF IndexPublish, dbVars, ModeOK, IndexPcs
  <2>2. IndexOrder(d)'
        BY <1>0, <1>8, <2>1, IndexPublishOrder DEF OrderOK
  <2> QED BY <1>0, <2>1, <2>2 DEF OrderOK
<1>9. CASE Unsubscribe(d)
      BY <1>9 DEF Unsubscribe, OrderOK
<1> QED BY <1>1, <1>2, <1>3, <1>4, <1>5, <1>6, <1>7, <1>8, <1>9, StreamStep
        DEF EntryStep, IndexStep

-----------------------------------------------------------------------------
\* A context that is done stays so until the process ends.
LEMMA CancelStays ==
    ASSUME TypeOK, [Next]_vars, NEW d \in Clients
    PROVE  Restart \/ cancelled[d] \subseteq cancelled'[d]
<1>1. ASSUME NEW c \in Clients, Caller(c)
      PROVE  Restart \/ cancelled[d] \subseteq cancelled'[d]
      BY <1>1 DEF Caller, SubscribeCall, Cancel, CancelAll, SubscribeNew, SubscribeReset,
         SubscribeNil, TypeOK, CallType
<1>2. ASSUME NEW c \in Clients, Read(c) \/ ReadFromIndex(c)
      PROVE  UNCHANGED cancelled
  <2>1. CASE Read(c)
        BY <2>1 DEF Read, ReadStart, ReadOpen, ReadEnd, ReadNotify, ReadReset, ReadResetNil,
           ResetReturn, ReadItem, ReadPublish, WaitNotify, WaitDone, ReadResetFail, ReadFail,
           Unsubscribe, callVars
  <2>2. CASE ReadFromIndex(c)
        BY <2>2 DEF ReadFromIndex, IndexOpen, IndexEnd, IndexNotify, IndexItem, IndexPublish,
           callVars
  <2> QED BY <1>2, <2>1, <2>2
<1> QED BY <1>1, <1>2 DEF Next, Commit, Broadcast, Watch, BcRecv, BcLock, callVars, vars, chVars

\* The entry published is no longer due, and no other becomes so.
LEMMA PublishedPend ==
    ASSUME TypeOK, NEW d \in Clients, NEW k \in Keys, Published(d, k), UNCHANGED <<due, dupe>>
    PROVE  Pend(d)' = Pend(d) \ {k}
<1>1. Streamed(d)' = Streamed(d) \cup {k}
  <2>1. Streamed(d)' \subseteq Streamed(d) \cup {k}
        BY PublishedAt DEF Streamed
  <2>2. Streamed(d) \cup {k} \subseteq Streamed(d)'
    <3>1. Len(sent[d]) + 1 \in 1..Len(sent'[d]) /\ 1..Len(sent[d]) \subseteq 1..Len(sent'[d])
          BY PublishedAt
    <3> QED BY <3>1, PublishedAt DEF Streamed
  <2> QED BY <2>1, <2>2
<1> QED BY <1>1 DEF Pend

\* What options o make due is there, at or after the place they seek to, which is
\* not among it if it is to be skipped.
LEMMA DueNowAt ==
    ASSUME TypeOK, NEW o, NEW k \in DueNow(o)
    PROVE  /\ k \in Committed /\ k >= o.seek /\ ~ o.fromHead
           /\ o.skipFirst => k # o.seek
BY DEF DueNow, SeekEntries

\* Every step keeps what is due ahead of the reader.
LEMMA BacklogStep ==
    TypeOK /\ WakeInv /\ ModeInv /\ BacklogInv /\ [Next]_vars => BacklogInv'
<1> SUFFICES ASSUME TypeOK, WakeInv, ModeInv, BacklogInv, [Next]_vars, NEW d \in Clients
             PROVE  BacklogOK(d)'
    BY DEF BacklogInv
<1>0. Wakeful(d) /\ ModeOK(d) /\ BacklogOK(d)
      BY DEF WakeInv, ModeInv, BacklogInv
<1> USE DEF TypeOK, ReadType, HistType, EntryPcs
<1>1. CASE UNCHANGED StreamState(d) /\ cancelled[d] \subseteq cancelled'[d]
  <2>1. Pend(d)' = Pend(d) /\ (Done(d) => Done(d)') /\ Committed \subseteq Committed'
        BY <1>1, DbGrows DEF StreamState, Pend, Streamed, Done
  <2> QED BY <1>0, <1>1, <2>1 DEF StreamState, BacklogOK
<1>2. CASE Restart
      BY <1>2 DEF Restart, Every, BacklogOK
<1>3. CASE SubscribeNew(d)
  <2>1. /\ rPc'[d] \in {"start", "istart"} /\ rOpts'[d] = callOpts[d]
        /\ due'[d] = DueNow(callOpts[d]) /\ Committed' = Committed
        BY <1>3 DEF SubscribeNew, dbVars, Committed
  <2>2. Pend(d)' \subseteq DueNow(callOpts[d])
        BY <2>1 DEF Pend
  <2> QED BY <2>1, <2>2, DueNowAt DEF BacklogOK
<1>4. CASE ReadReset(d)
  <2>1. PICK k \in Keys \cup {NilKey} : IsSeek(k, callOpts[d]) /\ rKey'[d] = k
        BY <1>4 DEF ReadReset
  <2>2. /\ rPc'[d] \in {"exit", "open"} /\ due'[d] = DueNow(callOpts[d])
        /\ dupe'[d] = rSeen'[d] /\ Committed' = Committed
        BY <1>4 DEF ReadReset, ResetReturn, AfterIterate, dbVars, Committed
  <2>3. Pend(d)' \subseteq DueNow(callOpts[d]) \ {rSeen'[d]}
        BY <2>2 DEF Pend
  <2> QED BY <2>1, <2>2, <2>3, DueNowAt DEF BacklogOK, IsSeek
<1>5. CASE ReadStart(d)
  <2>1. PICK k \in Keys \cup {NilKey} :
           /\ IsSeek(k, rOpts[d]) /\ rKey'[d] = k
           /\ rSeen'[d] = IF rOpts[d].skipFirst THEN k ELSE NilKey
        BY <1>5 DEF ReadStart
  <2>2. /\ rPc[d] = "start" /\ rPc'[d] = "open" /\ Committed' = Committed
        BY <1>5 DEF ReadStart, dbVars, Committed
  <2>3. Pend(d)' = Pend(d)
        BY <1>5 DEF ReadStart, histVars, Pend, Streamed
  <2>4. NilKey \notin Committed
        BY KeysAssumption DEF Committed
  <2> QED BY <1>0, <2>1, <2>2, <2>3, <2>4 DEF BacklogOK, IsSeek
<1>6. CASE ReadOpen(d)
  <2>1. /\ rPc[d] = "open" /\ rPc'[d] = "select" /\ rRest'[d] = SeekEntries(rKey[d])
        /\ UNCHANGED <<rKey, rSeen>> /\ Pend(d)' = Pend(d) /\ Committed' = Committed
        BY <1>6 DEF ReadOpen, histVars, Pend, Streamed, dbVars, Committed
  <2> QED BY <1>0, <2>1 DEF BacklogOK, SeekEntries
<1>7. CASE ReadEnd(d)
  <2>1. /\ rPc[d] = "select" /\ rPc'[d] \in {"exit", "open", "wait"}
        /\ UNCHANGED <<rKey, rSeen>> /\ Pend(d)' = Pend(d) /\ Committed' = Committed
        /\ Done(d)' <=> Done(d)
        BY <1>7 DEF ReadEnd, AfterIterate, histVars, callVars, Pend, Streamed, dbVars,
           Committed, Done
  <2>2. rPc'[d] = "wait" => Done(d) \/ rRest[d] = {}
        BY <1>7 DEF ReadEnd, AfterIterate
  <2> QED BY <1>0, <2>1, <2>2 DEF BacklogOK
<1>8. CASE ReadItem(d)
  <2>1. /\ rPc[d] = "select" /\ rPc'[d] \in {"select", "publish"}
        /\ UNCHANGED <<rKey, rSeen>> /\ Pend(d)' = Pend(d) /\ Committed' = Committed
        /\ rRest[d] \ {rSeen[d]} \subseteq rRest'[d]
        BY <1>8 DEF ReadItem, histVars, Pend, Streamed, dbVars, Committed
  <2> QED BY <1>0, <2>1 DEF BacklogOK
<1>9. CASE ReadPublish(d)
  <2>1. PICK k \in rRest[d] :
           /\ IsItem(k, rRest[d]) /\ Published(d, k)
           /\ rKey'[d] = k /\ rSeen'[d] = k /\ rRest'[d] = rRest[d] \ {k}
        BY <1>9 DEF ReadPublish
  <2>2. /\ rPc[d] = "publish" /\ rPc'[d] = "select" /\ Committed' = Committed
        /\ UNCHANGED <<due, dupe>>
        BY <1>9 DEF ReadPublish, dbVars, Committed
  <2>3. Pend(d)' = Pend(d) \ {k}
        BY <2>1, <2>2, PublishedPend
  <2>4. \A j \in rRest[d] : j >= k
        BY <2>1, KeysAreNat DEF IsItem
  <2> QED BY <1>0, <2>1, <2>2, <2>3, <2>4 DEF BacklogOK
<1>10. CASE ReadResetNil(d) \/ WaitNotify(d)
  <2>1. /\ rPc[d] \in {"select", "wait", "parked"} /\ rPc'[d] \in {"open", "parked"}
        /\ UNCHANGED <<rKey, rSeen, histVars, dbVars>>
        BY <1>10 DEF ReadResetNil, ResetReturn, WaitNotify
  <2>2. Pend(d)' = Pend(d) /\ Committed' = Committed
        BY <2>1 DEF histVars, Pend, Streamed, dbVars, Committed
  <2> QED BY <1>0, <2>1, <2>2 DEF BacklogOK
<1>11. CASE WaitDone(d) \/ ReadResetFail(d) \/ ReadFail(d) \/ Unsubscribe(d) \/ IndexStep(d)
  <2>1. rPc'[d] \in {"exit", "none", "iselect", "ipublish"}
        BY <1>11 DEF WaitDone, ReadResetFail, ReadFail, Unsubscribe, IndexStep, IndexOpen,
           IndexEnd, IndexItem, IndexPublish
  <2> QED BY <2>1 DEF BacklogOK
<1> QED BY <1>1, <1>2, <1>3, <1>4, <1>5, <1>6, <1>7, <1>8, <1>9, <1>10, <1>11,
        StreamStep, CancelStays DEF EntryStep

-----------------------------------------------------------------------------
\* The inductive invariant of what streams consist of.
THEOREM OrderInvariant == Spec => []OrdInv
<1>1. Init => OrdInv
  <2> SUFFICES ASSUME Init PROVE OrdInv
      OBVIOUS
  <2>1. ModeInv /\ OrderInv /\ BacklogInv
        BY DEF Init, ChannelInit, Every, ModeInv, ModeOK, EntryPcs, IndexPcs, OrderInv, OrderOK,
           BacklogInv, BacklogOK
  <2>2. IndexInv
        BY DEF Init, RecordInit, IndexInv
  <2> QED BY <2>1, <2>2, InitInv DEF OrdInv
<1>2. OrdInv /\ [Next]_vars => OrdInv'
  <2>1. Inv /\ [Next]_vars => Inv'
        BY TypeStep, LockStep, WakeStep, LateStep, LimitStep DEF Inv
  <2> QED BY <2>1, ModeStep, IndexStepInv, OrderStep, BacklogStep DEF OrdInv, Inv
<1> QED BY <1>1, <1>2, PTL DEF Spec

\* For any keys, clients and options: a stream of entries is strictly in key order
\* and a stream from the index in order of arrival, over all the iterators that
\* read it and whatever was committed behind its cursor meanwhile.
THEOREM PublishedInOrderHolds == Spec => []PublishedInOrder
<1>1. OrdInv => PublishedInOrder
  <2> SUFFICES ASSUME OrdInv, NEW c \in Clients, rOpts[c] # NilOpts,
                      NEW i \in 1..Len(sent[c]), NEW j \in 1..Len(sent[c]), i < j
               PROVE  IF rOpts[c].fromIndex
                        THEN ArrivalLT(MarkOf(sent[c][i]), MarkOf(sent[c][j]))
                        ELSE sent[c][i] < sent[c][j]
      BY DEF PublishedInOrder
  <2>1. OrderOK(c)
        BY DEF OrdInv, OrderInv
  <2>2. CASE rOpts[c].fromIndex
    <3>1. IndexOrder(c)
          BY <2>1, <2>2 DEF OrderOK
    <3>2. /\ MarkOf(sent[c][i]) \in index /\ MarkOf(sent[c][i]).key = sent[c][i]
          /\ MarkOf(sent[c][j]) \in index /\ MarkOf(sent[c][j]).key = sent[c][j]
          BY <3>1 DEF IndexOrder, MarkOf
    <3> QED BY <2>2, <3>1, <3>2 DEF IndexOrder
  <2>3. CASE ~ rOpts[c].fromIndex
        BY <2>1, <2>3 DEF OrderOK, EntryOrder
  <2> QED BY <2>2, <2>3
<1> QED BY <1>1, OrderInvariant, PTL

\* For any keys, clients and options: when a reader blocks for the first time after
\* a stream was opened or reset, nothing that was in the channel then is left out,
\* but for the key a reset may take for a duplicate.
THEOREM BacklogPublishedHolds == Spec => []BacklogPublished
<1>1. OrdInv => BacklogPublished
      BY DEF OrdInv, BacklogInv, BacklogOK, Pend, BacklogPublished
<1> QED BY <1>1, OrderInvariant, PTL

\* To its appenders a channel is the append-only log: nothing that streams, calls,
\* cancellations or a restart do adds, changes or removes an entry or a bookmark.
THEOREM ChannelIsLog == Spec => RecordSpec
<1>1. Init => RecordInit
      BY DEF Init
<1>2. [Next]_vars => [RecordNext]_dbVars
      BY DbStep DEF Commit, RecordNext
<1> QED BY <1>1, <1>2, PTL DEF Spec, RecordSpec
=============================================================================
