--------------------------- MODULE ChannelProofs ---------------------------
(***************************************************************************)
(* Proofs about Channel for any sets of clients, keys, messages and        *)
(* options: type correctness, that no reader sleeps through an entry, that *)
(* nobody sends to a reader that is gone, that at most one entry goes out  *)
(* after a cancellation, and that a limit is kept over resets.             *)
(*                                                                         *)
(* NoLostWakeup speaks of a blocked reader.  Its inductive form has to say *)
(* what holds while the reader is iterating (WakeInv): as long as nothing  *)
(* told it to look again, and nothing is about to, the iterator still has  *)
(* every entry the reader has not seen.  That a notification cannot pass a *)
(* reader by needs LockInv: a reader is registered as long as it runs, and *)
(* nobody registers or leaves while the broadcaster is at work.            *)
(***************************************************************************)
EXTENDS Channel, TLAPS

\* Who is at which point of Subscribe or of the broadcast agrees with who holds
\* sLock; the readers that run are those registered, and the broadcaster's loop
\* and Subscribe's reset have only such before them.
LockInv ==
    /\ bcPc = "notify" <=> sLock = Broadcaster
    /\ bcPc # "notify" => bcTodo = {} /\ bcCur = Nobody
    /\ bcPc = "notify" => bcCur # Nobody
    /\ bcTodo \subseteq subscribers /\ bcCur \in subscribers \cup {Nobody}
    /\ \A c \in Clients : /\ call[c] = "reset" <=> sLock = c
                          /\ call[c] = "reset" => c \in subscribers
                          /\ rPc[c] # "none" <=> c \in subscribers

\* What holds of reader d with respect to the entries it has yet to see.
\* While it iterates, the iterator is not behind the cursor; and as long as it
\* is not dirty and will not be notified, an entry at or after its cursor that
\* the iterator will not visit is the last one seen, and lies before all the
\* iterator will visit.  Once it is blocked, NoLostWakeup.
Wakeful(d) ==
    /\ rPc[d] \in {"select", "publish"} => \A j \in rRest[d] : j >= rKey[d]
    /\ rPc[d] \in {"select", "publish"} /\ ~ rDirty[d] /\ ~ InFlight(d) =>
         \A k \in Committed \ missed :
             k >= rKey[d] /\ k \notin rRest[d] =>
                 k = rSeen[d] /\ \A j \in rRest[d] : k < j
    /\ rPc[d] = "wait" /\ ~ Done(d) /\ ~ InFlight(d) =>
         \A k \in Committed \ missed : k >= rKey[d] => k = rSeen[d]

WakeInv == \A d \in Clients : Wakeful(d)

\* One entry has gone out after the cancellation: the reader is not about to
\* publish another, nor will it be.
LateInv ==
    \A c \in Clients :
        /\ late[c] <= 1
        /\ late[c] = 1 => \/ rPc[c] = "none"
                          \/ Done(c) /\ rPc[c] \notin {"publish", "ipublish"}

\* What a stream has had since its options took effect is no more than the count,
\* which also has what came before, and an entry is published under the limit only.
LimitOK(d) ==
    rPc[d] # "none" =>
        /\ Len(sent[d]) <= rMax[d] /\ Len(sent[d]) <= rCount[d]
        /\ rPc[d] \in {"publish", "ipublish"} => rCount[d] < rMax[d]

LimitInv == \A d \in Clients : LimitOK(d)

Inv == TypeOK /\ LockInv /\ WakeInv /\ LateInv /\ LimitInv

-----------------------------------------------------------------------------
\* A channel just created, or started again after a crash, satisfies Inv.
LEMMA InitInv == Init => Inv
<1> SUFFICES ASSUME Init PROVE Inv
    OBVIOUS
<1> USE DEF Init, RecordInit, ChannelInit, Every
<1>1. DbType /\ BcType /\ LockType
      BY DEF DbType, BcType, LockType
<1>2. CallType
      BY MaxCallsAssumption DEF CallType
<1>3. ReadType
      BY MaxCallsAssumption DEF ReadType, ReaderPcs
<1>4. HistType
      BY DEF HistType
<1>5. LockInv
      BY ClientsAssumption DEF LockInv, Nobody, Broadcaster
<1>6. WakeInv /\ LateInv
      BY DEF WakeInv, Wakeful, LateInv
<1>7. LimitInv
      BY DEF LimitInv, LimitOK
<1> QED BY <1>1, <1>2, <1>3, <1>4, <1>5, <1>6, <1>7 DEF Inv, TypeOK

-----------------------------------------------------------------------------
\* A turn of the broadcaster's loop keeps its variables well typed, and leaves
\* every subscriber it had still to reach, and nobody else, either next in turn or
\* to be reached.
LEMMA NextNotifyTurn ==
    ASSUME NEW todo \in SUBSET Clients, NextNotify(todo)
    PROVE  /\ bcPc' \in {"recv", "notify"}
           /\ bcTodo' \in SUBSET Clients
           /\ bcCur' \in Clients \cup {Nobody}
           /\ sLock' \in {Nobody, Broadcaster}
           /\ bcPc' = "notify" <=> sLock' = Broadcaster
           /\ bcPc' # "notify" => bcTodo' = {} /\ bcCur' = Nobody
           /\ \A d \in todo : bcPc' = "notify" /\ (bcCur' = d \/ d \in bcTodo')
           /\ bcTodo' \subseteq todo /\ bcCur' \in todo \cup {Nobody}
           /\ bcPc' = "notify" => bcCur' # Nobody
BY ClientsAssumption DEF NextNotify, Nobody, Broadcaster

\* A restart leaves the channel as Init has it.
LEMMA RestartType == Restart => BcType' /\ LockType' /\ CallType' /\ ReadType' /\ HistType'
<1> SUFFICES ASSUME Restart
             PROVE  BcType' /\ LockType' /\ CallType' /\ ReadType' /\ HistType'
    OBVIOUS
<1> USE DEF Restart, Every
<1>1. BcType' /\ LockType'
      BY DEF BcType, LockType
<1>2. CallType'
      BY MaxCallsAssumption DEF CallType
<1>3. ReadType'
      BY MaxCallsAssumption DEF ReadType, ReaderPcs
<1>4. HistType'
      BY DEF HistType
<1> QED BY <1>1, <1>2, <1>3, <1>4

\* What Publish adds to the history of a stream is well typed.
LEMMA PublishedType ==
    ASSUME HistType, ReadType, NEW c \in Clients, NEW k \in Keys, Published(c, k),
           UNCHANGED <<due, dupe>>
    PROVE  HistType' /\ rCount' \in [Clients -> Nat]
<1>1. Append(sent[c], k) \in Seq(Keys)
      BY DEF HistType
<1>2. sent' \in [Clients -> Seq(Keys)]
      BY <1>1 DEF HistType, Published
<1>3. late' \in [Clients -> Nat] /\ rCount' \in [Clients -> Nat]
      BY DEF HistType, ReadType, Published
<1> QED BY <1>2, <1>3 DEF HistType

\* Of all that happens in a channel only a commit changes the database.
LEMMA DbStep ==
    ASSUME [Next]_vars
    PROVE  UNCHANGED dbVars \/ \E m \in Msgs, ts \in Times : Commit(m, ts)
<1>1. ASSUME NEW c \in Clients, Caller(c) \/ ReadFromIndex(c)
      PROVE  UNCHANGED dbVars
      BY <1>1 DEF Caller, SubscribeCall, Cancel, CancelAll, SubscribeNew, SubscribeReset,
         SubscribeNil, Restart, ReadFromIndex, IndexOpen, IndexEnd, IndexNotify, IndexItem,
         IndexPublish
<1>2. ASSUME NEW c \in Clients, Read(c)
      PROVE  UNCHANGED dbVars
      BY <1>2 DEF Read, ReadStart, ReadOpen, ReadEnd, ReadNotify, ReadReset, ReadResetNil,
         ResetReturn, ReadItem, ReadPublish, WaitNotify, WaitDone, ReadResetFail, ReadFail,
         Unsubscribe
<1> QED BY <1>1, <1>2 DEF Next, Broadcast, Watch, BcRecv, BcLock, Restart, vars

\* The step of each process keeps every variable of the channel in its type.
LEMMA TypeStep == TypeOK /\ [Next]_vars => TypeOK'
<1> SUFFICES ASSUME TypeOK, [Next]_vars PROVE TypeOK'
    OBVIOUS
<1> USE DEF TypeOK
<1>db. DbType'
  <2>1. ASSUME NEW m \in Msgs, NEW ts \in Times, Commit(m, ts)
        PROVE  DbType'
        BY <2>1 DEF Commit, Record, ArrivalKey, ArrivalKeys, DbType
  <2>2. ASSUME UNCHANGED dbVars
        PROVE  DbType'
        BY <2>2 DEF dbVars, DbType
  <2> QED BY <2>1, <2>2, DbStep
<1>1. ASSUME NEW m \in Msgs, NEW ts \in Times, Commit(m, ts)
      PROVE  TypeOK'
  <2>1. BcType'
        BY <1>1 DEF Commit, Record, BcType
  <2> QED BY <1>1, <1>db, <2>1 DEF Commit, lockVars, callVars, readVars, histVars,
             LockType, CallType, ReadType, HistType
<1>2. CASE Broadcast
  <2>1. BcType' /\ LockType'
    <3>1. CASE Watch \/ BcRecv
          BY <3>1 DEF Watch, BcRecv, lockVars, BcType, LockType
    <3>2. CASE BcLock
      <4>1. subscribers \in SUBSET Clients /\ NextNotify(subscribers)
            BY <3>2 DEF BcLock, LockType
      <4> QED BY <3>2, <4>1, NextNotifyTurn DEF BcLock, BcType, LockType
    <3> QED BY <1>2, <3>1, <3>2 DEF Broadcast
  <2>2. UNCHANGED <<callVars, readVars, histVars>>
        BY <1>2 DEF Broadcast, Watch, BcRecv, BcLock
  <2> QED BY <1>db, <2>1, <2>2 DEF callVars, readVars, histVars, CallType, ReadType, HistType
<1>3. ASSUME NEW c \in Clients, Caller(c)
      PROVE  TypeOK'
  <2>1. ASSUME NEW o \in Opts, SubscribeCall(c, o)
        PROVE  TypeOK'
    <3>1. CallType'
          BY <2>1, MaxCallsAssumption DEF SubscribeCall, CallType
    <3> QED BY <2>1, <1>db, <3>1 DEF SubscribeCall, bcVars, lockVars, readVars, histVars,
               BcType, LockType, ReadType, HistType
  <2>2. ASSUME NEW n \in 1..MaxCalls, Cancel(c, n)
        PROVE  TypeOK'
    <3>1. CallType'
          BY <2>2 DEF Cancel, CallType
    <3> QED BY <2>2, <1>db, <3>1 DEF Cancel, bcVars, lockVars, readVars, histVars,
               BcType, LockType, ReadType, HistType
  <2>3. CASE SubscribeNew(c)
    <3>1. callOpts[c] \in Opts /\ callOpts[c].max \in Nat
          BY <2>3, OptsAssumption DEF SubscribeNew, StreamOpts, CallType
    <3>2. CallType' /\ LockType'
          BY <2>3 DEF SubscribeNew, CallType, LockType
    <3>3. ReadType'
          BY <2>3, <3>1 DEF SubscribeNew, ReadType, CallType, ReaderPcs
    <3>4. DueNow(callOpts[c]) \in SUBSET Keys /\ << >> \in Seq(Keys)
          BY DEF DueNow, SeekEntries, Committed
    <3>5. HistType'
          BY <2>3, <3>4 DEF SubscribeNew, HistType
    <3> QED BY <2>3, <1>db, <3>2, <3>3, <3>5 DEF SubscribeNew, bcVars, BcType
  <2>4. CASE SubscribeReset(c)
    <3>1. CallType' /\ LockType'
          BY <2>4 DEF SubscribeReset, CallType, LockType
    <3> QED BY <2>4, <1>db, <3>1 DEF SubscribeReset, bcVars, readVars, histVars,
               BcType, ReadType, HistType
  <2>5. CASE SubscribeNil(c)
        BY <2>5, <1>db, RestartType DEF SubscribeNil
  <2>6. CASE CancelAll(c)
    <3>1. calls[c] \in 0..MaxCalls /\ cancelled[c] \in SUBSET (1..MaxCalls)
          BY DEF CallType
    <3>2. cancelled[c] \cup (1..calls[c]) \in SUBSET (1..MaxCalls)
          BY <3>1, MaxCallsAssumption
    <3>3. CallType'
          BY <2>6, <3>2 DEF CancelAll, CallType
    <3> QED BY <2>6, <1>db, <3>3 DEF CancelAll, bcVars, lockVars, readVars, histVars,
               BcType, LockType, ReadType, HistType
  <2> QED BY <1>3, <2>1, <2>2, <2>3, <2>4, <2>5, <2>6 DEF Caller
<1>4. ASSUME NEW c \in Clients, Read(c)
      PROVE  TypeOK'
  <2>1. CASE ReadStart(c)
    <3>1. ReadType'
          BY <2>1 DEF ReadStart, ReadType, ReaderPcs
    <3> QED BY <2>1, <1>db, <3>1 DEF ReadStart, bcVars, lockVars, callVars, histVars,
               BcType, LockType, CallType, HistType
  <2>2. CASE ReadOpen(c)
    <3>1. SeekEntries(rKey[c]) \in SUBSET Keys
          BY DEF SeekEntries, Committed
    <3>2. ReadType'
          BY <2>2, <3>1 DEF ReadOpen, ReadType, ReaderPcs
    <3> QED BY <2>2, <1>db, <3>2 DEF ReadOpen, bcVars, lockVars, callVars, histVars,
               BcType, LockType, CallType, HistType
  <2>3. CASE ReadEnd(c)
    <3>1. ReadType'
          BY <2>3 DEF ReadEnd, AfterIterate, ReadType, ReaderPcs
    <3> QED BY <2>3, <1>db, <3>1 DEF ReadEnd, bcVars, lockVars, callVars, histVars,
               BcType, LockType, CallType, HistType
  <2>4. CASE ReadNotify(c)
    <3>1. bcTodo \in SUBSET Clients /\ NextNotify(bcTodo)
          BY <2>4 DEF ReadNotify, BcType
    <3>2. BcType' /\ LockType'
          BY <2>4, <3>1, NextNotifyTurn DEF ReadNotify, BcType, LockType
    <3>3. ReadType'
          BY <2>4 DEF ReadNotify, ReadType
    <3> QED BY <2>4, <1>db, <3>2, <3>3 DEF ReadNotify, callVars, histVars, CallType, HistType
  <2>5. CASE ReadReset(c)
    <3>1. callOpts[c].max \in Nat
          BY <2>5, OptsAssumption DEF ReadReset, StreamOpts, CallType
    <3>2. PICK k \in Keys \cup {NilKey} :
             /\ rKey'  = [rKey  EXCEPT ![c] = k]
             /\ rSeen' = [rSeen EXCEPT ![c] = IF rOpts[c].skipFirst THEN k ELSE @]
          BY <2>5 DEF ReadReset
    <3>3. rPc' \in [Clients -> ReaderPcs]
          BY <2>5 DEF ReadReset, AfterIterate, ReadType, ReaderPcs
    <3>4. ReadType'
          BY <2>5, <3>1, <3>2, <3>3 DEF ReadReset, ReadType
    <3>5. DueNow(callOpts[c]) \in SUBSET Keys /\ << >> \in Seq(Keys)
          BY DEF DueNow, SeekEntries, Committed
    <3>6. rSeen'[c] \in Keys \cup {NilKey}
          BY <3>4 DEF ReadType
    <3>7. HistType'
          BY <2>5, <3>5, <3>6 DEF ReadReset, HistType
    <3>8. CallType' /\ LockType'
          BY <2>5 DEF ReadReset, ResetReturn, CallType, LockType
    <3> QED BY <2>5, <1>db, <3>4, <3>7, <3>8 DEF ReadReset, ResetReturn, bcVars, BcType
  <2>6. CASE ReadResetNil(c)
    <3>1. CallType' /\ LockType'
          BY <2>6 DEF ReadResetNil, ResetReturn, CallType, LockType
    <3>2. ReadType'
          BY <2>6 DEF ReadResetNil, ReadType, ReaderPcs
    <3> QED BY <2>6, <1>db, <3>1, <3>2 DEF ReadResetNil, ResetReturn, bcVars, histVars,
               BcType, HistType
  <2>7. CASE ReadItem(c)
    <3>1. ReadType'
          BY <2>7 DEF ReadItem, ReadType, ReaderPcs
    <3> QED BY <2>7, <1>db, <3>1 DEF ReadItem, bcVars, lockVars, callVars, histVars,
               BcType, LockType, CallType, HistType
  <2>8. CASE ReadPublish(c)
    <3>1. PICK k \in rRest[c] :
             /\ Published(c, k)
             /\ rKey'  = [rKey  EXCEPT ![c] = k]
             /\ rSeen' = [rSeen EXCEPT ![c] = k]
             /\ rRest' = [rRest EXCEPT ![c] = @ \ {k}]
          BY <2>8 DEF ReadPublish
    <3>2. k \in Keys
          BY DEF ReadType
    <3>3. HistType' /\ rCount' \in [Clients -> Nat]
          BY <2>8, <3>1, <3>2, PublishedType DEF ReadPublish
    <3>4. ReadType'
          BY <2>8, <3>1, <3>2, <3>3 DEF ReadPublish, ReadType, ReaderPcs
    <3> QED BY <2>8, <1>db, <3>3, <3>4 DEF ReadPublish, bcVars, lockVars, callVars,
               BcType, LockType, CallType
  <2>9. CASE WaitNotify(c)
    <3>1. bcTodo \in SUBSET Clients /\ NextNotify(bcTodo)
          BY <2>9 DEF WaitNotify, BcType
    <3>2. BcType' /\ LockType'
          BY <2>9, <3>1, NextNotifyTurn DEF WaitNotify, BcType, LockType
    <3>3. ReadType'
          BY <2>9 DEF WaitNotify, ReadType, ReaderPcs
    <3> QED BY <2>9, <1>db, <3>2, <3>3 DEF WaitNotify, callVars, histVars, CallType, HistType
  <2>10. CASE WaitDone(c)
    <3>1. ReadType'
          BY <2>10 DEF WaitDone, ReadType, ReaderPcs
    <3> QED BY <2>10, <1>db, <3>1 DEF WaitDone, bcVars, lockVars, callVars, histVars,
               BcType, LockType, CallType, HistType
  <2>11. CASE Unsubscribe(c)
    <3>1. ReadType' /\ LockType'
          BY <2>11, MaxCallsAssumption DEF Unsubscribe, ReadType, ReaderPcs, LockType
    <3> QED BY <2>11, <1>db, <3>1 DEF Unsubscribe, bcVars, callVars, histVars,
               BcType, CallType, HistType
  <2>12. CASE ReadResetFail(c)
    <3>1. CallType' /\ LockType'
          BY <2>12 DEF ReadResetFail, ResetReturn, CallType, LockType
    <3>2. ReadType'
          BY <2>12 DEF ReadResetFail, ReadType, ReaderPcs
    <3> QED BY <2>12, <1>db, <3>1, <3>2 DEF ReadResetFail, ResetReturn, bcVars, histVars,
               BcType, HistType
  <2>13. CASE ReadFail(c)
    <3>1. ReadType'
          BY <2>13 DEF ReadFail, ReadType, ReaderPcs
    <3> QED BY <2>13, <1>db, <3>1 DEF ReadFail, bcVars, lockVars, callVars, histVars,
               BcType, LockType, CallType, HistType
  <2> QED BY <1>4, <2>1, <2>2, <2>3, <2>4, <2>5, <2>6, <2>7, <2>8, <2>9, <2>10, <2>11,
             <2>12, <2>13 DEF Read
<1>5. ASSUME NEW c \in Clients, ReadFromIndex(c)
      PROVE  TypeOK'
  <2>1. CASE IndexOpen(c) \/ IndexEnd(c) \/ IndexItem(c)
    <3>1. ReadType'
      <4>1. CASE IndexOpen(c)
            BY <4>1 DEF IndexOpen, ReadType, ReaderPcs, DbType
      <4>2. CASE IndexEnd(c)
            BY <4>2 DEF IndexEnd, ReadType, ReaderPcs
      <4>3. CASE IndexItem(c)
            BY <4>3 DEF IndexItem, ReadType, ReaderPcs
      <4> QED BY <2>1, <4>1, <4>2, <4>3
    <3>2. UNCHANGED <<bcVars, lockVars, callVars, histVars>>
          BY <2>1 DEF IndexOpen, IndexEnd, IndexItem
    <3> QED BY <1>db, <3>1, <3>2 DEF bcVars, lockVars, callVars, histVars,
               BcType, LockType, CallType, HistType
  <2>2. CASE IndexNotify(c)
    <3>1. bcTodo \in SUBSET Clients /\ NextNotify(bcTodo)
          BY <2>2 DEF IndexNotify, BcType
    <3>2. BcType' /\ LockType'
          BY <2>2, <3>1, NextNotifyTurn DEF IndexNotify, BcType, LockType
    <3> QED BY <2>2, <1>db, <3>2 DEF IndexNotify, callVars, readVars, histVars,
               CallType, ReadType, HistType
  <2>3. CASE IndexPublish(c)
    <3>1. PICK x \in iRest[c] :
             Published(c, x.key) /\ iRest' = [iRest EXCEPT ![c] = @ \ {x}]
          BY <2>3 DEF IndexPublish
    <3>2. x.key \in Keys
          BY DEF ReadType, ArrivalKeys
    <3>3. HistType' /\ rCount' \in [Clients -> Nat]
          BY <2>3, <3>1, <3>2, PublishedType DEF IndexPublish
    <3>4. ReadType'
          BY <2>3, <3>1, <3>3 DEF IndexPublish, ReadType, ReaderPcs
    <3> QED BY <2>3, <1>db, <3>3, <3>4 DEF IndexPublish, bcVars, lockVars, callVars,
               BcType, LockType, CallType
  <2> QED BY <1>5, <2>1, <2>2, <2>3 DEF ReadFromIndex
<1>6. CASE Restart
      BY <1>6, <1>db, RestartType
<1>7. CASE UNCHANGED vars
      BY <1>7, <1>db DEF vars, chVars, bcVars, lockVars, callVars, readVars, histVars,
         BcType, LockType, CallType, ReadType, HistType
<1> QED BY <1>1, <1>2, <1>3, <1>4, <1>5, <1>6, <1>7 DEF Next

-----------------------------------------------------------------------------
\* The lock discipline of watch, Subscribe, reset and unsubscribe.
LEMMA LockStep == TypeOK /\ LockInv /\ [Next]_vars => LockInv'
<1> SUFFICES ASSUME TypeOK, LockInv, [Next]_vars PROVE LockInv'
    OBVIOUS
<1> USE ClientsAssumption DEF TypeOK, LockInv
<1>1. ASSUME NEW m \in Msgs, NEW ts \in Times, Commit(m, ts)
      PROVE  LockInv'
      BY <1>1 DEF Commit, lockVars, callVars, readVars
<1>2. CASE Broadcast
  <2>1. CASE Watch \/ BcRecv
        BY <2>1 DEF Watch, BcRecv, lockVars, callVars, readVars
  <2>2. CASE BcLock
    <3>1. subscribers \in SUBSET Clients /\ NextNotify(subscribers)
          BY <2>2 DEF BcLock, LockType
    <3> QED BY <2>2, <3>1, NextNotifyTurn DEF BcLock, callVars, readVars, Nobody, Broadcaster
  <2> QED BY <1>2, <2>1, <2>2 DEF Broadcast
<1>3. ASSUME NEW c \in Clients, Caller(c)
      PROVE  LockInv'
  <2>1. ASSUME NEW o \in Opts, SubscribeCall(c, o)
        PROVE  LockInv'
        BY <2>1 DEF SubscribeCall, bcVars, lockVars, readVars, CallType
  <2>2. ASSUME NEW n \in 1..MaxCalls, Cancel(c, n)
        PROVE  LockInv'
        BY <2>2 DEF Cancel, bcVars, lockVars, readVars
  <2>6. CASE CancelAll(c)
        BY <2>6 DEF CancelAll, bcVars, lockVars, readVars
  <2>3. CASE SubscribeNew(c)
        BY <2>3 DEF SubscribeNew, bcVars, CallType, ReadType
  <2>4. CASE SubscribeReset(c)
        BY <2>4 DEF SubscribeReset, bcVars, readVars, CallType, Nobody, Broadcaster
  <2>5. CASE SubscribeNil(c)
        BY <2>5 DEF SubscribeNil, Restart, Every, Nobody, Broadcaster
  <2> QED BY <1>3, <2>1, <2>2, <2>3, <2>4, <2>5, <2>6 DEF Caller
<1>4. ASSUME NEW c \in Clients, ReadNotify(c) \/ WaitNotify(c) \/ IndexNotify(c)
      PROVE  LockInv'
  <2>1. /\ bcCur = c /\ NextNotify(bcTodo) /\ UNCHANGED <<call, subscribers>>
        /\ bcPc = "notify"
        /\ \A d \in Clients : rPc'[d] # "none" <=> rPc[d] # "none"
        BY <1>4 DEF ReadNotify, WaitNotify, IndexNotify, callVars, readVars, ReadType
  <2> QED BY <2>1, NextNotifyTurn DEF BcType, Nobody, Broadcaster
<1>5. ASSUME NEW c \in Clients, ReadReset(c) \/ ReadResetNil(c) \/ ReadResetFail(c)
      PROVE  LockInv'
  <2>1. /\ ResetReturn(c)
        /\ \A d \in Clients : rPc'[d] # "none" <=> rPc[d] # "none"
        BY <1>5 DEF ReadReset, ReadResetNil, ReadResetFail, AfterIterate, ReadType
  <2> QED BY <2>1 DEF ResetReturn, bcVars, CallType, Nobody, Broadcaster
<1>6. ASSUME NEW c \in Clients, Unsubscribe(c)
      PROVE  LockInv'
      BY <1>6 DEF Unsubscribe, bcVars, callVars, ReadType, Nobody, Broadcaster
<1>7. ASSUME NEW c \in Clients,
             \/ ReadStart(c) \/ ReadOpen(c) \/ ReadEnd(c) \/ ReadItem(c) \/ ReadPublish(c)
             \/ WaitDone(c) \/ ReadFail(c)
             \/ IndexOpen(c) \/ IndexEnd(c) \/ IndexItem(c) \/ IndexPublish(c)
      PROVE  LockInv'
  <2>1. UNCHANGED <<bcVars, lockVars, callVars>>
        BY <1>7 DEF ReadStart, ReadOpen, ReadEnd, ReadItem, ReadPublish, WaitDone,
           ReadFail, IndexOpen, IndexEnd, IndexItem, IndexPublish
  <2>2. \A d \in Clients : rPc'[d] # "none" <=> rPc[d] # "none"
        BY <1>7 DEF ReadStart, ReadOpen, ReadEnd, AfterIterate, ReadItem, ReadPublish,
           WaitDone, ReadFail, IndexOpen, IndexEnd, IndexItem, IndexPublish, ReadType
  <2> QED BY <2>1, <2>2 DEF bcVars, lockVars, callVars
<1>8. CASE Restart
      BY <1>8 DEF Restart, Every, Nobody, Broadcaster
<1>9. CASE UNCHANGED vars
      BY <1>9 DEF vars, chVars, bcVars, lockVars, callVars, readVars
<1> QED BY <1>1, <1>2, <1>3, <1>4, <1>5, <1>6, <1>7, <1>8, <1>9 DEF Next, Read, ReadFromIndex

-----------------------------------------------------------------------------
\* After a cancellation a reader publishes at most the entry it was busy with:
\* iterate looks at the context before each further one.
LEMMA LateStep == TypeOK /\ LateInv /\ [Next]_vars => LateInv'
<1> SUFFICES ASSUME TypeOK, LateInv, [Next]_vars, NEW d \in Clients
             PROVE  /\ late'[d] <= 1
                    /\ late'[d] = 1 => \/ rPc'[d] = "none"
                                       \/ Done(d)' /\ rPc'[d] \notin {"publish", "ipublish"}
    BY DEF LateInv
<1> DEFINE G == /\ late'[d] <= 1
                /\ late'[d] = 1 => \/ rPc'[d] = "none"
                                   \/ Done(d)' /\ rPc'[d] \notin {"publish", "ipublish"}
<1> USE DEF TypeOK, LateInv, Done
<1>1. CASE UNCHANGED <<rPc, rCtx, late, cancelled>>
      BY <1>1
<1>2. ASSUME NEW c \in Clients, CancelAll(c) \/ \E n \in 1..MaxCalls : Cancel(c, n)
      PROVE  G
      BY <1>2 DEF Cancel, CancelAll, readVars, histVars, CallType
<1>3. ASSUME NEW c \in Clients, SubscribeNew(c)
      PROVE  G
      BY <1>3 DEF SubscribeNew, ReadType, HistType
<1>4. CASE Restart
      BY <1>4 DEF Restart, Every
<1>5. ASSUME NEW c \in Clients, Unsubscribe(c)
      PROVE  G
      BY <1>5 DEF Unsubscribe, callVars, histVars, ReadType
<1>6. ASSUME NEW c \in Clients,
             \/ ReadStart(c) \/ ReadOpen(c) \/ ReadEnd(c) \/ ReadReset(c) \/ ReadResetNil(c)
             \/ WaitNotify(c) \/ WaitDone(c) \/ ReadResetFail(c) \/ ReadFail(c)
             \/ IndexOpen(c) \/ IndexEnd(c)
      PROVE  G
  <2>1. /\ UNCHANGED <<rCtx, late, cancelled>> /\ rPc[c] # "none"
        /\ rPc'[c] \notin {"publish", "ipublish"}
        /\ \A e \in Clients \ {c} : rPc'[e] = rPc[e]
        BY <1>6 DEF ReadStart, ReadOpen, ReadEnd, ReadReset, ReadResetNil, ResetReturn,
           AfterIterate, WaitNotify, WaitDone, ReadResetFail, ReadFail, IndexOpen, IndexEnd, callVars, histVars, ReadType
  <2> QED BY <2>1
<1>7. ASSUME NEW c \in Clients, ReadItem(c) \/ IndexItem(c)
      PROVE  G
  <2>1. /\ UNCHANGED <<rCtx, late, cancelled>> /\ rPc[c] # "none" /\ ~ Done(c)
        /\ \A e \in Clients \ {c} : rPc'[e] = rPc[e]
        BY <1>7 DEF ReadItem, IndexItem, callVars, histVars, ReadType
  <2> QED BY <2>1
<1>8. ASSUME NEW c \in Clients, ReadPublish(c) \/ IndexPublish(c)
      PROVE  G
  <2>1. /\ UNCHANGED <<rCtx, cancelled>>
        /\ rPc[c] \in {"publish", "ipublish"}
        /\ rPc'[c] \in {"select", "iselect"}
        /\ late' = [late EXCEPT ![c] = IF Done(c) THEN @ + 1 ELSE @]
        /\ \A e \in Clients \ {c} : rPc'[e] = rPc[e]
        BY <1>8 DEF ReadPublish, IndexPublish, Published, callVars, ReadType
  <2> QED BY <2>1 DEF HistType
<1>9. \/ UNCHANGED <<rPc, rCtx, late, cancelled>>
      \/ Restart
      \/ \E c \in Clients :
           \/ CancelAll(c) \/ \E n \in 1..MaxCalls : Cancel(c, n)
           \/ SubscribeNew(c) \/ Unsubscribe(c)
           \/ ReadStart(c) \/ ReadOpen(c) \/ ReadEnd(c) \/ ReadReset(c) \/ ReadResetNil(c)
           \/ WaitNotify(c) \/ WaitDone(c) \/ ReadResetFail(c) \/ ReadFail(c)
           \/ IndexOpen(c) \/ IndexEnd(c) \/ ReadItem(c) \/ IndexItem(c) \/ ReadPublish(c) \/ IndexPublish(c)
      BY DEF Next, Commit, Broadcast, Watch, BcRecv, BcLock, Caller, SubscribeCall,
         SubscribeReset, SubscribeNil, Read, ReadNotify, ReadFromIndex, IndexNotify,
         vars, chVars, callVars, readVars, histVars
<1> QED BY <1>1, <1>2, <1>3, <1>4, <1>5, <1>6, <1>7, <1>8, <1>9

-----------------------------------------------------------------------------
\* A stream keeps its limit: an entry is only chosen under it, and a reset, which
\* may lower it below the count, ends the iterator.
LEMMA LimitStep == TypeOK /\ LimitInv /\ [Next]_vars => LimitInv'
<1> SUFFICES ASSUME TypeOK, LimitInv, [Next]_vars, NEW d \in Clients
             PROVE  LimitOK(d)'
    BY DEF LimitInv
<1>0. LimitOK(d) /\ Len(sent[d]) \in Nat /\ rMax[d] \in Nat /\ rCount[d] \in Nat
      BY DEF LimitInv, TypeOK, ReadType, HistType
<1> USE DEF LimitOK
<1>1. CASE UNCHANGED <<rPc, sent, rMax, rCount>>
      BY <1>0, <1>1
<1>2. CASE Restart
      BY <1>2 DEF Restart, Every
<1>3. ASSUME NEW c \in Clients, SubscribeNew(c)
      PROVE  LimitOK(d)'
  <2>1. CASE d = c
    <3>1. /\ sent'[d] = << >> /\ rCount'[d] = rCount[d]
          /\ rPc'[d] \in {"start", "istart"} /\ rMax'[d] = callOpts[d].max
          BY <1>3, <2>1 DEF SubscribeNew, TypeOK, ReadType, HistType
    <3>2. rMax'[d] \in Nat
          BY <1>3, <2>1, <3>1, OptsAssumption DEF SubscribeNew, TypeOK, CallType, StreamOpts
    <3> QED BY <1>0, <3>1, <3>2
  <2>2. CASE d # c
    <3>1. /\ rPc'[d] = rPc[d] /\ sent'[d] = sent[d]
          /\ rMax'[d] = rMax[d] /\ rCount'[d] = rCount[d]
          BY <1>3, <2>2 DEF SubscribeNew, TypeOK, ReadType, HistType
    <3> QED BY <1>0, <3>1
  <2> QED BY <2>1, <2>2
<1>4. ASSUME NEW c \in Clients, ReadReset(c)
      PROVE  LimitOK(d)'
  <2>1. CASE d = c
    <3>1. /\ sent'[d] = << >> /\ rCount'[d] = rCount[d]
          /\ rPc'[d] \in {"exit", "open", "wait"} /\ rMax'[d] = callOpts[d].max
          BY <1>4, <2>1 DEF ReadReset, AfterIterate, TypeOK, ReadType, HistType
    <3>2. rMax'[d] \in Nat
          BY <1>4, <2>1, <3>1, OptsAssumption DEF ReadReset, TypeOK, CallType, StreamOpts
    <3> QED BY <1>0, <3>1, <3>2
  <2>2. CASE d # c
    <3>1. /\ rPc'[d] = rPc[d] /\ sent'[d] = sent[d]
          /\ rMax'[d] = rMax[d] /\ rCount'[d] = rCount[d]
          BY <1>4, <2>2 DEF ReadReset, TypeOK, ReadType, HistType
    <3> QED BY <1>0, <3>1
  <2> QED BY <2>1, <2>2
<1>5. ASSUME NEW c \in Clients, Unsubscribe(c)
      PROVE  LimitOK(d)'
      BY <1>0, <1>5 DEF Unsubscribe, histVars, TypeOK, ReadType
<1>6. ASSUME NEW c \in Clients,
             \/ ReadStart(c) \/ ReadOpen(c) \/ ReadEnd(c) \/ ReadResetNil(c)
             \/ WaitNotify(c) \/ WaitDone(c) \/ ReadResetFail(c) \/ ReadFail(c)
             \/ IndexOpen(c) \/ IndexEnd(c)
      PROVE  LimitOK(d)'
  <2>1. /\ UNCHANGED <<sent, rMax, rCount>> /\ rPc[c] # "none"
        /\ rPc'[c] \notin {"publish", "ipublish"}
        /\ \A e \in Clients \ {c} : rPc'[e] = rPc[e]
        BY <1>6 DEF ReadStart, ReadOpen, ReadEnd, ReadResetNil, AfterIterate, WaitNotify,
           WaitDone, ReadResetFail, ReadFail, IndexOpen, IndexEnd, histVars, TypeOK, ReadType
  <2> QED BY <1>0, <2>1
<1>7. ASSUME NEW c \in Clients, ReadItem(c) \/ IndexItem(c)
      PROVE  LimitOK(d)'
  <2>1. /\ UNCHANGED <<sent, rMax, rCount>> /\ rPc[c] # "none" /\ rCount[c] < rMax[c]
        /\ \A e \in Clients \ {c} : rPc'[e] = rPc[e]
        BY <1>7 DEF ReadItem, IndexItem, histVars, TypeOK, ReadType
  <2> QED BY <1>0, <2>1
<1>8. ASSUME NEW c \in Clients, ReadPublish(c) \/ IndexPublish(c)
      PROVE  LimitOK(d)'
  <2>1. PICK k \in Keys : /\ rPc[c] \in {"publish", "ipublish"} /\ UNCHANGED rMax
                          /\ rPc'[c] \in {"select", "iselect"}
                          /\ \A e \in Clients \ {c} : rPc'[e] = rPc[e]
                          /\ Published(c, k)
    <3>1. CASE ReadPublish(c)
          BY <3>1 DEF ReadPublish, TypeOK, ReadType
    <3>2. CASE IndexPublish(c)
          BY <3>2 DEF IndexPublish, TypeOK, ReadType, ArrivalKeys
    <3> QED BY <1>8, <3>1, <3>2
  <2>2. CASE d = c
    <3>1. sent'[d] = Append(sent[d], k) /\ rCount'[d] = rCount[d] + 1
          BY <2>1, <2>2 DEF Published, TypeOK, ReadType, HistType
    <3>2. sent[d] \in Seq(Keys)
          BY DEF TypeOK, HistType
    <3>3. Len(sent'[d]) = Len(sent[d]) + 1
          BY <3>1, <3>2
    <3> QED BY <1>0, <2>1, <2>2, <3>1, <3>3
  <2>3. CASE d # c
    <3>1. sent'[d] = sent[d] /\ rCount'[d] = rCount[d] /\ rPc'[d] = rPc[d]
          BY <2>1, <2>3 DEF Published, TypeOK, ReadType, HistType
    <3> QED BY <1>0, <2>1, <3>1
  <2> QED BY <2>2, <2>3
<1>9. \/ UNCHANGED <<rPc, sent, rMax, rCount>>
      \/ Restart
      \/ \E c \in Clients :
           \/ SubscribeNew(c) \/ Unsubscribe(c)
           \/ ReadStart(c) \/ ReadOpen(c) \/ ReadEnd(c) \/ ReadReset(c) \/ ReadResetNil(c)
           \/ WaitNotify(c) \/ WaitDone(c) \/ ReadResetFail(c) \/ ReadFail(c)
           \/ IndexOpen(c) \/ IndexEnd(c) \/ ReadItem(c) \/ IndexItem(c) \/ ReadPublish(c) \/ IndexPublish(c)
      BY DEF Next, Commit, Broadcast, Watch, BcRecv, BcLock, Caller, SubscribeCall, Cancel, CancelAll,
         SubscribeReset, SubscribeNil, Read, ReadNotify, ReadFromIndex, IndexNotify,
         vars, chVars, readVars, histVars
<1> QED BY <1>1, <1>2, <1>3, <1>4, <1>5, <1>6, <1>7, <1>8, <1>9

-----------------------------------------------------------------------------
\* A step that changes neither the database nor the reader, nor takes away a
\* notification or a cancellation that is on its way to the reader.
LEMMA WakefulFrame ==
    ASSUME NEW d \in Clients, Wakeful(d),
           UNCHANGED <<entries, missed>>,
           rPc'[d] = rPc[d], rDirty'[d] = rDirty[d], rKey'[d] = rKey[d],
           rSeen'[d] = rSeen[d], rRest'[d] = rRest[d],
           InFlight(d) => InFlight(d)',
           Done(d) => Done(d)'
    PROVE  Wakeful(d)'
BY DEF Wakeful, Committed

\* A commit is announced to the reader, or is one that badger missed.
LEMMA WakefulCommit ==
    ASSUME TypeOK, NEW d \in Clients, Wakeful(d),
           NEW m \in Msgs, NEW ts \in Times, Commit(m, ts)
    PROVE  Wakeful(d)'
<1>1. CASE watching
      BY <1>1 DEF Commit, Wakeful, InFlight, readVars
<1>2. CASE ~ watching
  <2>1. Committed' \ missed' = Committed \ missed
    <3>1. Committed' = Committed \cup {KeyOf[m]}
          BY NoMsgAssumption DEF Commit, Record, Committed, TypeOK, DbType
    <3>2. missed' = missed \cup {KeyOf[m]} /\ KeyOf[m] \notin Committed
          BY <1>2 DEF Commit, Record, Committed
    <3> QED BY <3>1, <3>2
  <2>2. UNCHANGED <<rPc, rDirty, rKey, rSeen, rRest, rCtx, cancelled, pending, bcPc, bcCur, bcTodo>>
        BY <1>2 DEF Commit, callVars, readVars
  <2> QED BY <2>1, <2>2 DEF Wakeful, InFlight, Done
<1> QED BY <1>1, <1>2

\* The broadcaster takes up an update, and begins its loop with every reader
\* that runs still to be reached.
LEMMA WakefulBroadcast ==
    ASSUME TypeOK, LockInv, NEW d \in Clients, Wakeful(d), Broadcast
    PROVE  Wakeful(d)'
<1>1. UNCHANGED <<entries, missed, readVars, callVars>>
      BY DEF Broadcast, Watch, BcRecv, BcLock, dbVars
<1>2. CASE rPc[d] = "none"
      BY <1>1, <1>2 DEF Wakeful, readVars
<1>3. CASE rPc[d] # "none"
  <2>1. InFlight(d) => InFlight(d)'
    <3>1. CASE Watch \/ BcRecv
          BY <3>1 DEF Watch, BcRecv, InFlight
    <3>2. CASE BcLock
      <4>1. d \in subscribers
            BY <1>3 DEF LockInv
      <4>2. subscribers \in SUBSET Clients /\ NextNotify(subscribers)
            BY <3>2 DEF BcLock, TypeOK, LockType
      <4> QED BY <4>1, <4>2, NextNotifyTurn DEF InFlight
    <3> QED BY <3>1, <3>2 DEF Broadcast
  <2> QED BY <1>1, <2>1, WakefulFrame DEF readVars, callVars, Done
<1> QED BY <1>2, <1>3

\* A notification is received: its receiver becomes dirty, looks again, or does
\* not read entries; the others are still to be reached.
LEMMA WakefulNotify ==
    ASSUME TypeOK, LockInv, NEW d \in Clients, Wakeful(d), NEW c \in Clients,
           ReadNotify(c) \/ WaitNotify(c) \/ IndexNotify(c)
    PROVE  Wakeful(d)'
<1>1. /\ bcCur = c /\ bcTodo \in SUBSET Clients /\ NextNotify(bcTodo)
      /\ UNCHANGED <<entries, missed, pending, rKey, rSeen, rRest, rCtx, cancelled>>
      BY DEF ReadNotify, WaitNotify, IndexNotify, dbVars, callVars, readVars, TypeOK, BcType
<1>2. CASE d = c
  <2>1. \/ rPc[d] = "select" /\ rPc'[d] = "select" /\ rDirty'[d]
        \/ rPc'[d] \in {"open", "iselect"}
        BY <1>2 DEF ReadNotify, WaitNotify, IndexNotify, readVars, TypeOK, ReadType
  <2> QED BY <1>1, <2>1 DEF Wakeful
<1>3. CASE d # c
  <2>1. rPc'[d] = rPc[d] /\ rDirty'[d] = rDirty[d]
        BY <1>3 DEF ReadNotify, WaitNotify, IndexNotify, readVars, TypeOK, ReadType
  <2>2. InFlight(d) => InFlight(d)'
    <3>1. bcPc = "notify"
          BY <1>1, ClientsAssumption DEF LockInv
    <3> QED BY <1>1, <1>3, <3>1, NextNotifyTurn DEF InFlight
  <2> QED BY <1>1, <2>1, <2>2, WakefulFrame DEF Done
<1> QED BY <1>2, <1>3

\* The steps of a reader's own.
LEMMA WakefulRead ==
    ASSUME TypeOK, NEW c \in Clients, Wakeful(c),
           \/ ReadStart(c) \/ ReadOpen(c) \/ ReadEnd(c) \/ ReadReset(c) \/ ReadResetNil(c)
           \/ ReadItem(c) \/ ReadPublish(c) \/ WaitDone(c) \/ Unsubscribe(c)
           \/ ReadResetFail(c) \/ ReadFail(c)
           \/ IndexOpen(c) \/ IndexEnd(c) \/ IndexItem(c) \/ IndexPublish(c)
    PROVE  Wakeful(c)'
<1> USE DEF TypeOK
<1>1. CASE rPc'[c] \notin {"select", "publish", "wait"}
      BY <1>1 DEF Wakeful
<1>2. CASE ReadOpen(c)
  <2>1. rRest'[c] = SeekEntries(rKey[c]) /\ rKey'[c] = rKey[c] /\ rPc'[c] = "select"
        /\ Committed' = Committed
        BY <1>2 DEF ReadOpen, ReadType, dbVars, Committed
  <2>2. /\ \A k \in Committed' \ missed' : k >= rKey'[c] => k \in rRest'[c]
        /\ \A k \in rRest'[c] : k >= rKey'[c]
        BY <2>1 DEF SeekEntries
  <2> QED BY <2>1, <2>2 DEF Wakeful
<1>3. CASE ReadEnd(c) /\ rPc'[c] = "wait"
  <2>1. /\ rPc[c] = "select" /\ ~ rDirty[c]
        /\ Done(c) \/ rRest[c] = {}
        BY <1>3 DEF ReadEnd, AfterIterate, ReadType
  <2>2. /\ Committed' = Committed /\ UNCHANGED <<missed, rKey, rSeen>>
        /\ Done(c)' <=> Done(c)
        /\ InFlight(c)' <=> InFlight(c)
        BY <1>3 DEF ReadEnd, dbVars, bcVars, callVars, Committed, Done, InFlight
  <2> QED BY <1>3, <2>1, <2>2 DEF Wakeful
<1>4. CASE ReadItem(c)
  <2>1. PICK k \in rRest[c] :
           /\ IsItem(k, rRest[c])
           /\ \/ /\ k = rSeen[c] /\ rPc'[c] = "select"
                 /\ rRest'[c] = rRest[c] \ {k}
              \/ rPc'[c] = "publish" /\ rRest'[c] = rRest[c]
        BY <1>4 DEF ReadItem, ReadType
  <2>2. /\ rPc[c] = "select" /\ Committed' = Committed
        /\ UNCHANGED <<missed, rKey, rSeen, rDirty>>
        /\ InFlight(c)' <=> InFlight(c)
        BY <1>4 DEF ReadItem, dbVars, bcVars, Committed, InFlight
  <2>3. rRest[c] \subseteq Nat
        BY KeysAssumption DEF ReadType
  <2> QED BY <2>1, <2>2, <2>3 DEF Wakeful, IsItem
<1>5. CASE ReadPublish(c)
  <2>1. PICK k \in rRest[c] :
           /\ IsItem(k, rRest[c])
           /\ rKey'[c] = k /\ rSeen'[c] = k /\ rRest'[c] = rRest[c] \ {k}
        BY <1>5 DEF ReadPublish, ReadType
  <2>2. /\ rPc[c] = "publish" /\ rPc'[c] = "select" /\ Committed' = Committed
        /\ UNCHANGED <<missed, rDirty>>
        /\ InFlight(c)' <=> InFlight(c)
        BY <1>5 DEF ReadPublish, dbVars, bcVars, Committed, InFlight, ReadType
  <2>3. rRest[c] \subseteq Nat /\ Committed \subseteq Nat /\ rKey[c] \in Nat
    <3>1. Keys \subseteq Nat /\ NilKey \in Nat
          BY KeysAssumption DEF NilKey
    <3> QED BY <3>1 DEF ReadType, Committed
  <2>4. ASSUME ~ rDirty[c], ~ InFlight(c), NEW j \in Committed \ missed, j >= k,
               j \notin rRest[c] \ {k}
        PROVE  j = k /\ \A i \in rRest[c] \ {k} : j < i
    <3>1. k >= rKey[c]
          BY <2>1, <2>2 DEF Wakeful
    <3>2. j >= rKey[c]
          BY <2>3, <2>4, <3>1
    <3>3. j \in rRest[c]
          BY <2>1, <2>2, <2>3, <2>4, <3>2 DEF Wakeful, IsItem
    <3> QED BY <2>1, <2>3, <2>4, <3>3 DEF IsItem
  <2>5. \A j \in rRest[c] \ {k} : j >= k
        BY <2>1 DEF IsItem
  <2> QED BY <2>1, <2>2, <2>4, <2>5 DEF Wakeful
<1>6. CASE \/ ReadStart(c) \/ ReadReset(c) \/ ReadResetNil(c) \/ WaitDone(c) \/ Unsubscribe(c)
           \/ ReadResetFail(c) \/ ReadFail(c)
           \/ IndexOpen(c) \/ IndexEnd(c) \/ IndexItem(c) \/ IndexPublish(c)
  <2>1. rPc'[c] \notin {"select", "publish", "wait"}
        BY <1>6 DEF ReadStart, ReadReset, ReadResetNil, AfterIterate, WaitDone, Unsubscribe,
           ReadResetFail, ReadFail, IndexOpen, IndexEnd, IndexItem, IndexPublish, ReadType
  <2> QED BY <1>1, <2>1
<1>7. CASE ReadEnd(c)
  <2>1. rPc'[c] \in {"exit", "open", "wait"}
        BY <1>7 DEF ReadEnd, AfterIterate, ReadType
  <2> QED BY <1>1, <1>3, <1>7, <2>1
<1> QED BY <1>2, <1>4, <1>5, <1>6, <1>7

\* Every step leaves every reader wakeful.
LEMMA WakeStep == TypeOK /\ LockInv /\ WakeInv /\ [Next]_vars => WakeInv'
<1> SUFFICES ASSUME TypeOK, LockInv, WakeInv, [Next]_vars, NEW d \in Clients
             PROVE  Wakeful(d)'
    BY DEF WakeInv
<1>0. \A c \in Clients : Wakeful(c)
      BY DEF WakeInv
<1>1. ASSUME NEW m \in Msgs, NEW ts \in Times, Commit(m, ts)
      PROVE  Wakeful(d)'
      BY <1>0, <1>1, WakefulCommit
<1>2. CASE Broadcast
      BY <1>0, <1>2, WakefulBroadcast
<1>3. ASSUME NEW c \in Clients, ReadNotify(c) \/ WaitNotify(c) \/ IndexNotify(c)
      PROVE  Wakeful(d)'
      BY <1>0, <1>3, WakefulNotify
<1>4. ASSUME NEW c \in Clients,
             \/ ReadStart(c) \/ ReadOpen(c) \/ ReadEnd(c) \/ ReadReset(c) \/ ReadResetNil(c)
             \/ ReadItem(c) \/ ReadPublish(c) \/ WaitDone(c) \/ Unsubscribe(c)
             \/ ReadResetFail(c) \/ ReadFail(c)
             \/ IndexOpen(c) \/ IndexEnd(c) \/ IndexItem(c) \/ IndexPublish(c)
      PROVE  Wakeful(d)'
  <2>1. CASE d = c
        BY <1>0, <1>4, <2>1, WakefulRead
  <2>2. CASE d # c
    <3>1. /\ UNCHANGED <<dbVars, bcVars, cancelled>>
          BY <1>4 DEF ReadStart, ReadOpen, ReadEnd, ReadReset, ReadResetNil, ResetReturn,
             ReadItem, ReadPublish, WaitDone, Unsubscribe, ReadResetFail, ReadFail, IndexOpen,
             IndexEnd, IndexItem, IndexPublish, callVars
    <3>2. /\ rPc'[d] = rPc[d] /\ rDirty'[d] = rDirty[d] /\ rKey'[d] = rKey[d]
          /\ rSeen'[d] = rSeen[d] /\ rRest'[d] = rRest[d] /\ rCtx'[d] = rCtx[d]
          BY <1>4, <2>2 DEF ReadStart, ReadOpen, ReadEnd, ReadReset, ReadResetNil,
             ReadItem, ReadPublish, WaitDone, Unsubscribe, ReadResetFail, ReadFail, IndexOpen,
             IndexEnd, IndexItem, IndexPublish, TypeOK, ReadType
    <3> QED BY <1>0, <3>1, <3>2, WakefulFrame DEF dbVars, bcVars, InFlight, Done
  <2> QED BY <2>1, <2>2
<1>5. ASSUME NEW c \in Clients, SubscribeNew(c)
      PROVE  Wakeful(d)'
  <2>1. CASE d = c
    <3>1. rPc'[d] \in {"start", "istart"}
          BY <1>5, <2>1 DEF SubscribeNew, TypeOK, ReadType
    <3> QED BY <3>1 DEF Wakeful
  <2>2. CASE d # c
    <3>1. /\ UNCHANGED <<dbVars, bcVars, cancelled, rDirty, rKey, rSeen, rRest>>
          /\ rPc'[d] = rPc[d] /\ rCtx'[d] = rCtx[d]
          BY <1>5, <2>2 DEF SubscribeNew, TypeOK, ReadType
    <3> QED BY <1>0, <3>1, WakefulFrame DEF dbVars, bcVars, InFlight, Done
  <2> QED BY <2>1, <2>2
<1>6. CASE Restart
  <2>1. rPc'[d] = "none"
        BY <1>6 DEF Restart, Every
  <2> QED BY <2>1 DEF Wakeful
<1>7. CASE UNCHANGED <<dbVars, bcVars, readVars>> /\ cancelled[d] \subseteq cancelled'[d]
      BY <1>0, <1>7, WakefulFrame DEF dbVars, bcVars, readVars, InFlight, Done
<1>8. ASSUME NEW c \in Clients, Caller(c)
      PROVE  \/ SubscribeNew(c) \/ Restart
             \/ UNCHANGED <<dbVars, bcVars, readVars>> /\ cancelled[d] \subseteq cancelled'[d]
      BY <1>8 DEF Caller, SubscribeCall, SubscribeReset, SubscribeNil, Cancel, CancelAll, TypeOK,
         CallType
<1>9. CASE UNCHANGED vars
      BY <1>7, <1>9 DEF vars, chVars, callVars
<1> QED BY <1>1, <1>2, <1>3, <1>4, <1>5, <1>6, <1>7, <1>8, <1>9 DEF Next, Read, ReadFromIndex

-----------------------------------------------------------------------------
\* The inductive invariant holds throughout every behaviour of a channel.
THEOREM Invariant == Spec => []Inv
<1>1. Init => Inv
      BY InitInv
<1>2. Inv /\ [Next]_vars => Inv'
      BY TypeStep, LockStep, WakeStep, LateStep, LimitStep DEF Inv
<1> QED BY <1>1, <1>2, PTL DEF Spec

\* A channel keeps its state well typed.
THEOREM TypeCorrect == Spec => []TypeOK
<1>1. Inv => TypeOK
      BY DEF Inv
<1> QED BY <1>1, Invariant, PTL

\* For any number of clients, keys and calls: no reader is blocked while there is
\* an entry at or after its cursor that badger announced and it has not seen,
\* unless a notification is on its way to it.
THEOREM NoLostWakeupHolds == Spec => []NoLostWakeup
<1>1. Inv => NoLostWakeup
      BY DEF Inv, WakeInv, Wakeful, NoLostWakeup
<1> QED BY <1>1, Invariant, PTL

\* Whoever holds sLock is sending to a reader whose goroutine runs: the reader may
\* leave the loop it receives in, but not the set of subscribers.
THEOREM SenderHasReaderHolds == Spec => []SenderHasReader
<1>1. Inv => SenderHasReader
      BY ClientsAssumption DEF Inv, LockInv, SenderHasReader, TypeOK, LockType
<1> QED BY <1>1, Invariant, PTL

\* Once a stream's context is cancelled its reader publishes at most one entry.
THEOREM OneAfterCancelHolds == Spec => []OneAfterCancel
<1>1. Inv => OneAfterCancel
      BY DEF Inv, LateInv, OneAfterCancel
<1> QED BY <1>1, Invariant, PTL

\* However often a stream is reset, and with whatever limits, it has at most as many
\* entries as the limit of the options in effect.
THEOREM LimitKeptHolds == Spec => []LimitKept
<1>1. Inv => LimitKept
      BY DEF Inv, LimitInv, LimitOK, LimitKept
<1> QED BY <1>1, Invariant, PTL
=============================================================================
