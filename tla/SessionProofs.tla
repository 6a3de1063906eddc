----------------------------- MODULE SessionProofs -----------------------------
(***************************************************************************)
(* Proofs about Session for any sets of clients, requests, keys and        *)
(* messages: type correctness, that a reader can be cancelled unless its   *)
(* ReqID was used again, and falls silent when it is, and that sessions    *)
(* implement Channel, so that what is proved of a channel holds for the    *)
(* clients of the server.                                                  *)
(***************************************************************************)
EXTENDS Session, ChannelOrderProofs

\* Stream n of connection c is registered, or another has been under its ReqID.
Kept(c, n) == \E s \in opened[c] : s.n = n /\ (s \in streams[c] \/ Overwritten(c, s))

\* The streams of connection c: all that have not been cancelled are kept; the
\* reader's context is that of one of them; and a Subscribe that is under way has
\* a stream to give to the reader it starts.
StreamsOK(c) ==
    /\ \A n \in (1..calls[c]) \ cancelled[c] : Kept(c, n)
    /\ rPc[c] # "none" => rCtx[c] \in 1..calls[c]
    /\ call[c] # "idle" => calls[c] >= 1

StreamsInv == \A c \in Clients : StreamsOK(c)

\* The cancellations of connection c: they are of streams that were opened, not of
\* the one that is being opened; what was or will be answered is cancelled; and
\* entries that count as extra are among those that count as late.
CancelOK(c) ==
    /\ cancelled[c] \subseteq 1..calls[c]
    /\ call[c] # "idle" => sPc[c] = "open"
    /\ sPc[c] = "open" => calls[c] \notin cancelled[c]
    /\ sResp[c].op = "ReqDiscarded" /\ sResp[c].req # 0 => sResp[c].req \in cancelled[c]
    /\ discarded[c] \subseteq cancelled[c]
    /\ extra[c] # 0 => calls[c] \in discarded[c]
    /\ rPc[c] # "none" /\ rCtx[c] = calls[c] => extra[c] <= late[c]

CancelInv == \A c \in Clients : CancelOK(c)

SessionInv == SessionTypeOK /\ StreamsInv /\ CancelInv

-----------------------------------------------------------------------------
\* The session's own variables.
SessType == /\ sPc \in [Clients -> {"recv", "open", "send", "ended"}]
            /\ sResp \in [Clients -> [op : {"none", "ReqComplete", "ReqDiscarded"},
                                      req : 0..MaxCalls]]
            /\ streams \in [Clients -> SUBSET Stream]
            /\ opened \in [Clients -> SUBSET Stream]
            /\ discarded \in [Clients -> SUBSET (1..MaxCalls)]
            /\ extra \in [Clients -> Nat]
            /\ panicked \in BOOLEAN

\* What a session, its readers or the broadcaster do is a step of Channel, or
\* leaves the channel alone.
LEMMA SessionChannelStep == SessionTypeOK /\ [SessionNext]_allVars => [Next]_vars
<1> SUFFICES ASSUME SessionTypeOK, [SessionNext]_allVars PROVE [Next]_vars
    OBVIOUS
<1>1. CASE Background \/ SessionRestart
      BY <1>1 DEF Background, SessionRestart, Next
<1>2. ASSUME NEW c \in Clients, NEW q \in OpenReqs, NEW r \in ReqIDs, RecvOpen(c, q, r)
      PROVE  Next
      BY <1>2, OptsOfReqsAssumption DEF RecvOpen, Next, Caller
<1>3. ASSUME NEW c \in Clients, NEW r \in ReqIDs, RecvCancel(c, r)
      PROVE  [Next]_vars
  <2>1. \A s \in streams[c] : s.n \in 1..MaxCalls
        BY DEF SessionTypeOK, Stream
  <2>2. CASE UNCHANGED vars
        BY <2>2
  <2>3. CASE \E s \in streams[c] : CloseStream(c, s)
        BY <2>1, <2>3 DEF CloseStream, Next, Caller
  <2> QED BY <1>3, <2>2, <2>3 DEF RecvCancel
<1>4. ASSUME NEW c \in Clients, NEW m \in Msgs, NEW ts \in Times, RecvAppend(c, m, ts)
      PROVE  Next
      BY <1>4 DEF RecvAppend, Next
<1>5. ASSUME NEW c \in Clients, SessionEnd(c) \/ OpenSubscribes(c) \/ OpenPanics(c)
      PROVE  Next
      BY <1>5 DEF SessionEnd, OpenSubscribes, OpenPanics, Next, Caller
<1>6. ASSUME NEW c \in Clients, Feed(c) \/ ReaderSilent(c) \/ ReaderFails(c) \/ ReaderLeaves(c)
      PROVE  Next
      BY <1>6 DEF Feed, ReaderSilent, ReaderFails, ReaderLeaves, Next, Read, ReadFromIndex
<1>7. ASSUME NEW c \in Clients, RecvRefused(c) \/ OpenReturns(c) \/ SendAnswer(c)
      PROVE  UNCHANGED vars
      BY <1>7 DEF RecvRefused, OpenReturns, SendAnswer
<1>8. CASE UNCHANGED allVars
      BY <1>8 DEF allVars
<1> QED BY <1>1, <1>2, <1>3, <1>4, <1>5, <1>6, <1>7, <1>8 DEF SessionNext

\* Each request, answer and end of a session keeps the session's variables in
\* their types.
LEMMA SessionTypeStep == SessionTypeOK /\ [SessionNext]_allVars => SessionTypeOK'
<1> SUFFICES ASSUME SessionTypeOK, [SessionNext]_allVars PROVE SessionTypeOK'
    OBVIOUS
<1>0. TypeOK /\ SessType
      BY DEF SessionTypeOK, SessType
<1>1. TypeOK'
      BY <1>0, SessionChannelStep, TypeStep
<1>2. \A c \in Clients : calls[c] \in 0..MaxCalls /\ 1..calls[c] \subseteq 1..MaxCalls
  <2>1. \A c \in Clients : calls[c] \in 0..MaxCalls
        BY <1>0 DEF TypeOK, CallType
  <2> QED BY <2>1, MaxCallsAssumption
<1> USE DEF SessType
<1>3. ASSUME UNCHANGED sessVars PROVE SessType'
      BY <1>0, <1>3 DEF sessVars
<1>4. ASSUME NEW c \in Clients, NEW q \in OpenReqs, NEW r \in ReqIDs, RecvOpen(c, q, r)
      PROVE  SessType'
  <2>1. [id |-> r, n |-> calls[c] + 1] \in Stream
    <3>1. calls[c] + 1 \in 1..MaxCalls
          BY <1>2, <1>4, MaxCallsAssumption DEF RecvOpen, SubscribeCall
    <3> QED BY <3>1 DEF Stream
  <2>2. streams' \in [Clients -> SUBSET Stream] /\ opened' \in [Clients -> SUBSET Stream]
        BY <1>0, <1>4, <2>1 DEF RecvOpen
  <2> QED BY <1>0, <1>4, <2>2 DEF RecvOpen
<1>5. ASSUME NEW c \in Clients, NEW r \in ReqIDs, RecvCancel(c, r)
      PROVE  SessType'
  <2>1. \A s \in streams[c] : s.n \in 0..MaxCalls
        BY <1>0, MaxCallsAssumption DEF Stream
  <2>2. streams' \in [Clients -> SUBSET Stream]
        BY <1>0, <1>5 DEF RecvCancel, CloseStream
  <2>3. PICK n \in 0..MaxCalls : Answer(c, "ReqDiscarded", n)
        BY <1>5, <2>1, MaxCallsAssumption DEF RecvCancel
  <2> QED BY <1>0, <1>5, <2>2, <2>3 DEF RecvCancel, Answer
<1>6. ASSUME NEW c \in Clients,
             \/ \E m \in Msgs, ts \in Times : RecvAppend(c, m, ts)
             \/ RecvRefused(c) \/ OpenReturns(c)
      PROVE  SessType'
  <2>1. PICK n \in 0..MaxCalls, op \in {"ReqComplete", "ReqDiscarded"} :
           Answer(c, op, n) /\ UNCHANGED <<streams, opened, discarded, extra, panicked>>
        BY <1>2, <1>6, MaxCallsAssumption DEF RecvAppend, RecvRefused, OpenReturns
  <2> QED BY <1>0, <2>1 DEF Answer
<1>7. ASSUME NEW c \in Clients, SendAnswer(c)
      PROVE  SessType'
  <2>1. sResp[c].req \in 0..MaxCalls /\ NoResp \in [op : {"none"}, req : 0..MaxCalls]
        BY <1>0, MaxCallsAssumption DEF NoResp
  <2>2. sResp[c].req # 0 => sResp[c].req \in 1..MaxCalls
        BY <2>1, MaxCallsAssumption
  <2>3. discarded' \in [Clients -> SUBSET (1..MaxCalls)]
        BY <1>0, <1>7, <2>2 DEF SendAnswer
  <2>4. sResp' \in [Clients -> [op : {"none", "ReqComplete", "ReqDiscarded"},
                                req : 0..MaxCalls]]
        BY <1>0, <1>7, <2>1, MaxCallsAssumption DEF SendAnswer, NoResp
  <2> QED BY <1>0, <1>7, <2>3, <2>4 DEF SendAnswer
<1>8. ASSUME NEW c \in Clients, SessionEnd(c) \/ Feed(c)
      PROVE  SessType'
      BY <1>0, <1>8 DEF SessionEnd, Feed
<1>9. ASSUME SessionRestart, panicked' \in BOOLEAN
      PROVE  SessType'
      BY <1>9, MaxCallsAssumption DEF SessionRestart, Every, NoResp
<1>10. SessType'
       BY <1>0, <1>3, <1>4, <1>5, <1>6, <1>7, <1>8, <1>9 DEF SessionNext, Background, OpenSubscribes,
          OpenPanics, ReaderSilent, ReaderFails, ReaderLeaves, allVars
<1> QED BY <1>1, <1>10 DEF SessionTypeOK

-----------------------------------------------------------------------------
\* A step that opens, cancels and forgets nothing, nor starts a reader or a call.
LEMMA StreamsFrame ==
    ASSUME NEW c \in Clients, StreamsOK(c), UNCHANGED <<calls, cancelled, streams, opened>>,
           rPc'[c] # "none" => rPc[c] # "none" /\ rCtx'[c] = rCtx[c],
           call'[c] # "idle" => call[c] # "idle"
    PROVE  StreamsOK(c)'
BY DEF StreamsOK, Kept, Overwritten

\* The steps of the readers are of that kind.
LEMMA ReaderFrame ==
    ASSUME TypeOK, NEW c \in Clients, NEW d \in Clients, Read(d) \/ ReadFromIndex(d)
    PROVE  /\ UNCHANGED <<calls, cancelled>>
           /\ rPc'[c] # "none" => rPc[c] # "none" /\ rCtx'[c] = rCtx[c]
           /\ call'[c] # "idle" => call[c] # "idle"
<1> USE DEF TypeOK, ReadType, CallType
<1>1. CASE ReadReset(d) \/ ReadResetNil(d) \/ ReadResetFail(d)
      BY <1>1 DEF ReadReset, ReadResetNil, ReadResetFail, ResetReturn
<1>2. CASE \/ ReadStart(d) \/ ReadOpen(d) \/ ReadEnd(d) \/ ReadNotify(d) \/ ReadItem(d)
           \/ ReadPublish(d) \/ WaitNotify(d) \/ WaitDone(d) \/ ReadFail(d) \/ Unsubscribe(d)
      BY <1>2 DEF ReadStart, ReadOpen, ReadEnd, ReadNotify, ReadItem, ReadPublish, WaitNotify,
         WaitDone, ReadFail, Unsubscribe, callVars
<1>3. CASE ReadFromIndex(d)
      BY <1>3 DEF ReadFromIndex, IndexOpen, IndexEnd, IndexNotify, IndexItem, IndexPublish,
         callVars, readVars
<1> QED BY <1>1, <1>2, <1>3 DEF Read

\* Every step keeps every stream that runs within reach of a cancellation, or has
\* the client use its ReqID again.
LEMMA StreamsStep == SessionTypeOK /\ StreamsInv /\ [SessionNext]_allVars => StreamsInv'
<1> SUFFICES ASSUME SessionTypeOK, StreamsInv, [SessionNext]_allVars, NEW c \in Clients
             PROVE  StreamsOK(c)'
    BY DEF StreamsInv
<1>0. StreamsOK(c) /\ TypeOK /\ calls[c] \in 0..MaxCalls /\ calls[c] \in Nat
      BY MaxCallsAssumption DEF StreamsInv, SessionTypeOK, TypeOK, CallType
<1> USE DEF SessionTypeOK, TypeOK, CallType, ReadType
<1>1. ASSUME NEW d \in Clients, NEW q \in OpenReqs, NEW r \in ReqIDs, RecvOpen(d, q, r)
      PROVE  StreamsOK(c)'
  <2>1. UNCHANGED <<cancelled, rPc, rCtx>>
        BY <1>1 DEF RecvOpen, SubscribeCall, readVars
  <2>2. CASE d = c
    <3> DEFINE new == [id |-> r, n |-> calls[c] + 1]
    <3>1. /\ calls'[c] = calls[c] + 1
          /\ streams'[c] = {s \in streams[c] : s.id # r} \cup {new}
          /\ opened'[c] = opened[c] \cup {new}
          BY <1>0, <1>1, <2>2 DEF RecvOpen, SubscribeCall
    <3>2. ASSUME NEW n, n = calls[c] + 1 PROVE Kept(c, n)'
          BY <3>1, <3>2 DEF Kept
    <3>3. ASSUME NEW n \in (1..calls[c]) \ cancelled[c] PROVE Kept(c, n)'
      <4>1. PICK s \in opened[c] : s.n = n /\ (s \in streams[c] \/ Overwritten(c, s))
            BY <1>0, <3>3 DEF StreamsOK, Kept
      <4>2. CASE s.id = r
        <5>1. new \in opened'[c] /\ new.id = s.id /\ new.n > s.n
              BY <1>0, <3>1, <3>3, <4>1, <4>2
        <5>2. Overwritten(c, s)'
              BY <5>1 DEF Overwritten
        <5> QED BY <3>1, <4>1, <5>2 DEF Kept
      <4>3. CASE s.id # r
        <5>1. s \in streams'[c] \/ Overwritten(c, s)'
              BY <3>1, <4>1, <4>3 DEF Overwritten
        <5> QED BY <3>1, <4>1, <5>1 DEF Kept
      <4> QED BY <4>2, <4>3
    <3>4. \A n \in 1..(calls[c] + 1) : n \in 1..calls[c] \/ n = calls[c] + 1
          BY <1>0
    <3>5. \A n \in (1..calls'[c]) \ cancelled'[c] : Kept(c, n)'
          BY <2>1, <3>1, <3>2, <3>3, <3>4
    <3>6. (1..calls[c]) \subseteq 1..(calls[c] + 1) /\ calls[c] + 1 >= 1
          BY <1>0
    <3> QED BY <1>0, <2>1, <3>1, <3>5, <3>6 DEF StreamsOK
  <2>3. CASE d # c
    <3>1. /\ calls'[c] = calls[c] /\ streams'[c] = streams[c] /\ opened'[c] = opened[c]
          /\ call'[c] = call[c]
          BY <1>1, <2>3 DEF RecvOpen, SubscribeCall
    <3> QED BY <1>0, <2>1, <3>1 DEF StreamsOK, Kept, Overwritten
  <2> QED BY <2>2, <2>3
<1>2. ASSUME NEW d \in Clients, NEW r \in ReqIDs, RecvCancel(d, r)
      PROVE  StreamsOK(c)'
  <2>1. ASSUME NEW x \in streams[d], CloseStream(d, x)
        PROVE  StreamsOK(c)'
    <3>1. /\ UNCHANGED <<calls, call, rPc, rCtx, opened>>
          /\ cancelled'[c] = IF d = c THEN cancelled[c] \cup {x.n} ELSE cancelled[c]
          /\ streams'[c] = IF d = c THEN streams[c] \ {x} ELSE streams[c]
          BY <1>2, <2>1 DEF RecvCancel, CloseStream, Cancel, readVars
    <3>2. ASSUME NEW n \in (1..calls[c]) \ cancelled'[c] PROVE Kept(c, n)'
      <4>1. PICK s \in opened[c] : s.n = n /\ (s \in streams[c] \/ Overwritten(c, s))
            BY <1>0, <3>1, <3>2 DEF StreamsOK, Kept
      <4>2. s \in streams'[c] \/ Overwritten(c, s)'
            BY <3>1, <3>2, <4>1 DEF Overwritten
      <4> QED BY <3>1, <4>1, <4>2 DEF Kept
    <3> QED BY <1>0, <3>1, <3>2 DEF StreamsOK
  <2>2. CASE UNCHANGED <<vars, streams>>
        BY <1>0, <1>2, <2>2, StreamsFrame DEF RecvCancel, vars, chVars, callVars, readVars
  <2> QED BY <1>2, <2>1, <2>2 DEF RecvCancel
<1>3. ASSUME NEW d \in Clients, SessionEnd(d)
      PROVE  StreamsOK(c)'
      BY <1>0, <1>3 DEF SessionEnd, CancelAll, readVars, StreamsOK, Kept, Overwritten
<1>4. ASSUME NEW d \in Clients, OpenSubscribes(d)
      PROVE  StreamsOK(c)'
  <2>1. CASE SubscribeReset(d)
        BY <1>0, <1>4, <2>1, StreamsFrame DEF OpenSubscribes, SubscribeReset, readVars, sessVars
  <2>2. CASE SubscribeNew(d) /\ d = c
    <3>1. /\ UNCHANGED <<calls, cancelled, streams, opened>> /\ rCtx'[c] = calls[c]
          /\ call[c] # "idle" /\ call'[c] = "idle"
          BY <1>4, <2>2 DEF OpenSubscribes, SubscribeNew, sessVars
    <3> QED BY <1>0, <3>1 DEF StreamsOK, Kept, Overwritten
  <2>3. CASE SubscribeNew(d) /\ d # c
        BY <1>0, <1>4, <2>3, StreamsFrame DEF OpenSubscribes, SubscribeNew, sessVars
  <2> QED BY <1>4, <2>1, <2>2, <2>3 DEF OpenSubscribes
<1>5. ASSUME NEW d \in Clients, Feed(d) \/ ReaderSilent(d) \/ ReaderFails(d) \/ ReaderLeaves(d)
      PROVE  StreamsOK(c)'
  <2>1. (Read(d) \/ ReadFromIndex(d)) /\ UNCHANGED <<streams, opened>>
        BY <1>5 DEF Feed, ReaderSilent, ReaderFails, ReaderLeaves, Read, ReadFromIndex, sessVars
  <2> QED BY <1>0, <2>1, ReaderFrame, StreamsFrame
<1>6. CASE SessionRestart
  <2>1. calls'[c] = 0 /\ rPc'[c] = "none" /\ call'[c] = "idle"
        BY <1>6 DEF SessionRestart, Restart, Every
  <2> QED BY <2>1 DEF StreamsOK
<1>7. ASSUME UNCHANGED <<callVars, readVars, streams, opened>>
      PROVE  StreamsOK(c)'
      BY <1>0, <1>7, StreamsFrame DEF callVars, readVars
<1>8. CASE Background
      BY <1>7, <1>8 DEF Background, Broadcast, Watch, BcRecv, BcLock, Commit, sessVars
<1>9. ASSUME NEW d \in Clients,
             \/ \E m \in Msgs, ts \in Times : RecvAppend(d, m, ts)
             \/ RecvRefused(d) \/ OpenReturns(d) \/ SendAnswer(d)
      PROVE  UNCHANGED <<callVars, readVars, streams, opened>>
      BY <1>9 DEF RecvAppend, Commit, RecvRefused, OpenReturns, SendAnswer, vars, chVars
<1>10. CASE UNCHANGED allVars
       BY <1>7, <1>10 DEF allVars, vars, chVars, sessVars
<1>11. ASSUME NEW d \in Clients, OpenPanics(d)
       PROVE  SessionRestart
       BY <1>11 DEF OpenPanics
<1> QED BY <1>1, <1>2, <1>3, <1>4, <1>5, <1>6, <1>7, <1>8, <1>9, <1>10, <1>11 DEF SessionNext

-----------------------------------------------------------------------------
\* A step that opens, cancels and answers nothing, nor starts or publishes.
LEMMA CancelFrame ==
    ASSUME NEW c \in Clients, CancelOK(c),
           UNCHANGED <<calls, cancelled, sPc, sResp, discarded, extra, late>>,
           rPc'[c] # "none" => rPc[c] # "none" /\ rCtx'[c] = rCtx[c],
           call'[c] # "idle" => call[c] # "idle"
    PROVE  CancelOK(c)'
BY DEF CancelOK

\* Every step keeps the account of what was cancelled, answered and published.
LEMMA CancelStep ==
    SessionTypeOK /\ StreamsInv /\ CancelInv /\ [SessionNext]_allVars => CancelInv'
<1> SUFFICES ASSUME SessionTypeOK, StreamsInv, CancelInv, [SessionNext]_allVars,
                    NEW c \in Clients
             PROVE  CancelOK(c)'
    BY DEF CancelInv
<1>0. CancelOK(c) /\ TypeOK /\ calls[c] \in Nat /\ extra[c] \in Nat /\ late[c] \in Nat
      BY MaxCallsAssumption DEF CancelInv, SessionTypeOK, TypeOK, CallType, HistType
<1> USE DEF SessionTypeOK, TypeOK, CallType, ReadType, HistType
<1>1. ASSUME NEW d \in Clients, NEW q \in OpenReqs, NEW r \in ReqIDs, RecvOpen(d, q, r)
      PROVE  CancelOK(c)'
  <2>1. UNCHANGED <<cancelled, rPc, rCtx, late, sResp, discarded>>
        BY <1>1 DEF RecvOpen, SubscribeCall, readVars, histVars
  <2>2. CASE d = c
    <3>1. calls'[c] = calls[c] + 1 /\ extra'[c] = 0 /\ sPc'[c] = "open"
          BY <1>1, <2>2 DEF RecvOpen, SubscribeCall
    <3>2. 1..calls[c] \subseteq 1..(calls[c] + 1) /\ (calls[c] + 1) \notin 1..calls[c]
          BY <1>0
    <3> QED BY <1>0, <2>1, <3>1, <3>2 DEF CancelOK
  <2>3. CASE d # c
    <3>1. calls'[c] = calls[c] /\ extra'[c] = extra[c] /\ sPc'[c] = sPc[c] /\ call'[c] = call[c]
          BY <1>1, <2>3 DEF RecvOpen, SubscribeCall
    <3> QED BY <1>0, <2>1, <3>1 DEF CancelOK
  <2> QED BY <2>2, <2>3
<1>2. ASSUME NEW d \in Clients, NEW r \in ReqIDs, RecvCancel(d, r)
      PROVE  CancelOK(c)'
  <2>1. /\ UNCHANGED <<calls, call, rPc, rCtx, late, discarded, extra>>
        /\ sPc[d] = "recv"
        BY <1>2 DEF RecvCancel, CloseStream, Cancel, readVars, histVars, vars, chVars, callVars
  <2>2. PICK n \in Nat :
          /\ Answer(d, "ReqDiscarded", n)
          /\ \/ n \in (1..calls[d]) /\ cancelled' = [cancelled EXCEPT ![d] = @ \cup {n}]
             \/ n = 0 /\ UNCHANGED cancelled
    <3>1. CASE UNCHANGED vars /\ Answer(d, "ReqDiscarded", 0)
          BY <3>1 DEF vars, chVars, callVars
    <3>2. ASSUME NEW s \in streams[d], CloseStream(d, s), Answer(d, "ReqDiscarded", s.n)
          PROVE  /\ s.n \in 1..calls[d] /\ s.n \in Nat
                 /\ cancelled' = [cancelled EXCEPT ![d] = @ \cup {s.n}]
      <4>1. s.n \in 1..MaxCalls
            BY DEF Stream
      <4> QED BY <3>2, <4>1, MaxCallsAssumption DEF CloseStream, Cancel
    <3> QED BY <1>2, <3>1, <3>2 DEF RecvCancel
  <2>3. CASE d = c
    <3>1. sPc'[c] = "send" /\ sResp'[c].req = n
          BY <2>2, <2>3 DEF Answer
    <3>2. n # 0 => n \in cancelled'[c]
          BY <2>2, <2>3
    <3>3. cancelled[c] \subseteq cancelled'[c] /\ cancelled'[c] \subseteq 1..calls[c]
          BY <1>0, <2>2, <2>3 DEF CancelOK
    <3> QED BY <1>0, <2>1, <2>3, <3>1, <3>2, <3>3 DEF CancelOK
  <2>4. CASE d # c
    <3>1. cancelled'[c] = cancelled[c] /\ sPc'[c] = sPc[c] /\ sResp'[c] = sResp[c]
          BY <2>2, <2>4 DEF Answer
    <3> QED BY <1>0, <2>1, <3>1 DEF CancelOK
  <2> QED BY <2>3, <2>4
<1>3. ASSUME NEW d \in Clients, SessionEnd(d)
      PROVE  CancelOK(c)'
  <2>1. UNCHANGED <<calls, call, rPc, rCtx, late, sResp, discarded, extra>>
        BY <1>3 DEF SessionEnd, CancelAll, readVars, histVars
  <2>2. CASE d = c
    <3>1. /\ cancelled'[c] = cancelled[c] \cup (1..calls[c]) /\ sPc'[c] = "ended"
          /\ call[c] = "idle"
          BY <1>3, <2>2 DEF SessionEnd, CancelAll
    <3> QED BY <1>0, <2>1, <3>1 DEF CancelOK
  <2>3. CASE d # c
    <3>1. cancelled'[c] = cancelled[c] /\ sPc'[c] = sPc[c]
          BY <1>3, <2>3 DEF SessionEnd, CancelAll
    <3> QED BY <1>0, <2>1, <3>1 DEF CancelOK
  <2> QED BY <2>2, <2>3
<1>4. ASSUME NEW d \in Clients, OpenSubscribes(d)
      PROVE  CancelOK(c)'
  <2>1. CASE SubscribeReset(d)
        BY <1>0, <1>4, <2>1, CancelFrame DEF OpenSubscribes, SubscribeReset, readVars, histVars,
           sessVars
  <2>2. CASE SubscribeNew(d) /\ d = c
    <3>1. /\ UNCHANGED <<calls, cancelled, sPc, sResp, discarded, extra>>
          /\ call[c] # "idle" /\ call'[c] = "idle" /\ late'[c] = 0
          BY <1>4, <2>2 DEF OpenSubscribes, SubscribeNew, sessVars
    <3>2. extra[c] = 0
          BY <1>0, <3>1 DEF CancelOK
    <3> QED BY <1>0, <3>1, <3>2 DEF CancelOK
  <2>3. CASE SubscribeNew(d) /\ d # c
    <3>1. /\ UNCHANGED <<calls, cancelled, sPc, sResp, discarded, extra>>
          /\ call'[c] = call[c] /\ late'[c] = late[c] /\ rPc'[c] = rPc[c] /\ rCtx'[c] = rCtx[c]
          BY <1>4, <2>3 DEF OpenSubscribes, SubscribeNew, sessVars
    <3> QED BY <1>0, <3>1 DEF CancelOK
  <2> QED BY <1>4, <2>1, <2>2, <2>3 DEF OpenSubscribes
<1>5. ASSUME NEW d \in Clients, Feed(d)
      PROVE  CancelOK(c)'
  <2>1. /\ Read(d) \/ ReadFromIndex(d)
        /\ late' = [late EXCEPT ![d] = IF Done(d) THEN @ + 1 ELSE @]
        BY <1>5 DEF Feed, Read, ReadFromIndex, ReadPublish, IndexPublish, Published
  <2>2. /\ UNCHANGED <<calls, cancelled, sPc, sResp, discarded>>
        /\ rPc'[c] # "none" => rPc[c] # "none" /\ rCtx'[c] = rCtx[c]
        /\ call'[c] # "idle" => call[c] # "idle"
        BY <1>0, <1>5, <2>1, ReaderFrame DEF Feed
  <2>3. CASE d = c
    <3>1. /\ extra'[c] = IF calls[c] \in discarded[c] THEN extra[c] + 1 ELSE extra[c]
          /\ late'[c] = IF rCtx[c] \in cancelled[c] THEN late[c] + 1 ELSE late[c]
          BY <1>5, <2>1, <2>3 DEF Feed, Done
    <3>2. extra'[c] # 0 => calls[c] \in discarded[c]
          BY <1>0, <3>1 DEF CancelOK
    <3>3. rPc'[c] # "none" /\ rCtx'[c] = calls[c] => extra'[c] <= late'[c]
      <4> SUFFICES ASSUME rPc'[c] # "none", rCtx'[c] = calls[c] PROVE extra'[c] <= late'[c]
          OBVIOUS
      <4>1. extra[c] <= late[c] /\ rCtx[c] = calls[c]
            BY <1>0, <2>2 DEF CancelOK
      <4>2. calls[c] \in discarded[c] => rCtx[c] \in cancelled[c]
            BY <1>0, <4>1 DEF CancelOK
      <4> QED BY <1>0, <3>1, <4>1, <4>2
    <3> QED BY <1>0, <2>2, <3>2, <3>3 DEF CancelOK
  <2>4. CASE d # c
    <3>1. extra'[c] = extra[c] /\ late'[c] = late[c]
          BY <1>5, <2>1, <2>4 DEF Feed
    <3> QED BY <1>0, <2>2, <3>1 DEF CancelOK
  <2> QED BY <2>3, <2>4
<1>6. ASSUME NEW d \in Clients, ReaderSilent(d) \/ ReaderFails(d) \/ ReaderLeaves(d)
      PROVE  CancelOK(c)'
  <2>1. (Read(d) \/ ReadFromIndex(d)) /\ UNCHANGED sessVars
        BY <1>6 DEF ReaderSilent, ReaderFails, ReaderLeaves, Read, ReadFromIndex
  <2>2. UNCHANGED late
        BY <1>6 DEF ReaderSilent, ReaderFails, ReaderLeaves, ReadStart, ReadOpen, ReadEnd,
           ReadNotify, ReadReset, ReadResetNil, ReadItem, WaitNotify, WaitDone, IndexOpen,
           IndexEnd, IndexNotify, IndexItem, ReadResetFail, ReadFail, Unsubscribe, histVars
  <2> QED BY <1>0, <2>1, <2>2, ReaderFrame, CancelFrame DEF sessVars
<1>7. CASE SessionRestart
      BY <1>7 DEF SessionRestart, Restart, Every, NoResp, CancelOK
<1>8. ASSUME NEW d \in Clients, SendAnswer(d)
      PROVE  CancelOK(c)'
  <2>1. UNCHANGED <<calls, cancelled, call, rPc, rCtx, late, extra>>
        BY <1>8 DEF SendAnswer, vars, chVars, callVars, readVars, histVars
  <2>2. CASE d = c
    <3>1. /\ sPc[c] = "send" /\ sPc'[c] = "recv" /\ sResp'[c].op = "none"
          /\ discarded[c] \subseteq discarded'[c] /\ discarded'[c] \subseteq cancelled[c]
          BY <1>0, <1>8, <2>2 DEF SendAnswer, NoResp, CancelOK
    <3> QED BY <1>0, <2>1, <3>1 DEF CancelOK
  <2>3. CASE d # c
    <3>1. sPc'[c] = sPc[c] /\ sResp'[c] = sResp[c] /\ discarded'[c] = discarded[c]
          BY <1>8, <2>3 DEF SendAnswer
    <3> QED BY <1>0, <2>1, <3>1 DEF CancelOK
  <2> QED BY <2>2, <2>3
<1>9. ASSUME NEW d \in Clients,
             \/ \E m \in Msgs, ts \in Times : RecvAppend(d, m, ts)
             \/ RecvRefused(d) \/ OpenReturns(d)
      PROVE  CancelOK(c)'
  <2>1. /\ UNCHANGED <<calls, cancelled, call, rPc, rCtx, late, discarded, extra>>
        /\ call[d] = "idle"
    <3>1. CASE \E m \in Msgs, ts \in Times : RecvAppend(d, m, ts)
          BY <1>9, <3>1 DEF RecvAppend, Commit, callVars, readVars, histVars, CancelInv, CancelOK
    <3>2. CASE RecvRefused(d) \/ OpenReturns(d)
          BY <1>9, <3>2 DEF RecvRefused, OpenReturns, vars, chVars, callVars, readVars, histVars,
             CancelInv, CancelOK
    <3> QED BY <1>9, <3>1, <3>2
  <2>2. PICK op \in {"ReqComplete", "ReqDiscarded"}, n \in Nat :
           Answer(d, op, n) /\ (op = "ReqDiscarded" => n = 0)
        BY <1>9, MaxCallsAssumption DEF RecvAppend, RecvRefused, OpenReturns
  <2>3. CASE d = c
    <3>1. sPc'[c] = "send" /\ sResp'[c].op = op /\ sResp'[c].req = n
          BY <2>2, <2>3 DEF Answer
    <3> QED BY <1>0, <2>1, <2>2, <2>3, <3>1 DEF CancelOK
  <2>4. CASE d # c
    <3>1. sPc'[c] = sPc[c] /\ sResp'[c] = sResp[c]
          BY <2>2, <2>4 DEF Answer
    <3> QED BY <1>0, <2>1, <3>1 DEF CancelOK
  <2> QED BY <2>3, <2>4
<1>10. CASE Background \/ UNCHANGED allVars
  <2>1. UNCHANGED <<callVars, readVars, histVars, sessVars>>
        BY <1>10 DEF Background, Broadcast, Watch, BcRecv, BcLock, Commit, allVars, vars, chVars
  <2> QED BY <1>0, <2>1, CancelFrame DEF callVars, readVars, histVars, sessVars
<1>11. ASSUME NEW d \in Clients, OpenPanics(d)
       PROVE  SessionRestart
       BY <1>11 DEF OpenPanics
<1> QED BY <1>1, <1>2, <1>3, <1>4, <1>5, <1>6, <1>7, <1>8, <1>9, <1>10, <1>11 DEF SessionNext

-----------------------------------------------------------------------------
\* The inductive invariant of the sessions.
THEOREM SessionInvariant == SessionSpec => []SessionInv
<1>1. SessionInit => SessionInv
  <2> SUFFICES ASSUME SessionInit PROVE SessionInv
      OBVIOUS
  <2>1. TypeOK
        BY InitInv DEF SessionInit, Inv
  <2>2. SessionTypeOK
    <3>1. NoResp \in [op : {"none", "ReqComplete", "ReqDiscarded"}, req : 0..MaxCalls]
          BY MaxCallsAssumption DEF NoResp
    <3>2. SessType
          BY <3>1 DEF SessionInit, SessType, Every
    <3> QED BY <2>1, <3>2 DEF SessionTypeOK, SessType
  <2>3. StreamsInv
        BY DEF SessionInit, Init, ChannelInit, Every, StreamsInv, StreamsOK
  <2>4. CancelInv
        BY DEF SessionInit, Init, ChannelInit, Every, NoResp, CancelInv, CancelOK
  <2> QED BY <2>2, <2>3, <2>4 DEF SessionInv
<1>2. SessionInv /\ [SessionNext]_allVars => SessionInv'
      BY SessionTypeStep, StreamsStep, CancelStep DEF SessionInv
<1> QED BY <1>1, <1>2, PTL DEF SessionSpec

\* Sessions and the channel they use keep their state well typed.
THEOREM SessionTypeCorrect == SessionSpec => []SessionTypeOK
<1>1. SessionInv => SessionTypeOK
      BY DEF SessionInv
<1> QED BY <1>1, SessionInvariant, PTL

\* For any number of sessions, requests and ReqIDs, used again at any time: a reader
\* that runs and whose context is not done has its stream in conn.streams, unless
\* the client itself has opened another stream under the same ReqID.
THEOREM ReaderIsCancellableHolds == SessionSpec => []ReaderIsCancellable
<1>1. SessionInv => ReaderIsCancellable
      BY DEF SessionInv, StreamsInv, StreamsOK, Kept, ReaderIsCancellable, Done
<1> QED BY <1>1, SessionInvariant, PTL

\* The sessions of the server implement Channel: whatever requests clients make, in
\* whatever order, no step of theirs is one that Channel does not have.
THEOREM SessionsUseChannel == SessionSpec => ImplementsChannel
<1>1. SessionInit => Init
      BY DEF SessionInit
<1>2. SessionInv /\ [SessionNext]_allVars => [Next]_vars
      BY SessionChannelStep DEF SessionInv, SessionTypeOK
<1> QED BY <1>1, <1>2, SessionInvariant, PTL DEF SessionSpec, ImplementsChannel, Spec

\* For any number of sessions and requests: cancelling the stream a reader was
\* started for silences it, but for the entry under way, once that is answered and
\* no further stream was opened.
THEOREM CancelStopsOwnReaderHolds == SessionSpec => []CancelStopsOwnReader
<1>1. SessionInv /\ OneAfterCancel => CancelStopsOwnReader
      BY DEF SessionInv, CancelInv, CancelOK, OneAfterCancel, CancelStopsOwnReader
<1>2. SessionSpec => Spec
      BY SessionsUseChannel DEF ImplementsChannel
<1> QED BY <1>1, <1>2, SessionInvariant, OneAfterCancelHolds, PTL

\* So the clients of the server have what Channel promises: no entry missed, none
\* out of order or twice, the backlog complete, the limit kept, at most one entry
\* after a cancellation, and sLock held for a reader that is there.
THEOREM ClientsHaveChannel ==
    SessionSpec => [](/\ NoLostWakeup /\ PublishedInOrder /\ BacklogPublished
                      /\ LimitKept /\ OneAfterCancel /\ SenderHasReader)
<1>1. SessionSpec => Spec
      BY SessionsUseChannel DEF ImplementsChannel
<1> QED BY <1>1, NoLostWakeupHolds, PublishedInOrderHolds, BacklogPublishedHolds,
        LimitKeptHolds, OneAfterCancelHolds, SenderHasReaderHolds, PTL
=============================================================================
