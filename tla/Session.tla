-------------------------------- MODULE Session --------------------------------
(***************************************************************************)
(* VaultSession of server/server.go on top of Channel: each client is one  *)
(* connection, whose session goroutine receives a request, handles it,     *)
(* sends the answer and receives the next, while the readers its           *)
(* OpenFeed requests have started publish to the same connection.          *)
(*                                                                         *)
(* All requests are about one channel.  The n-th OpenFeed of a session is  *)
(* Channel's call n and makes stream n, under the ReqID the client has     *)
(* chosen for it, which may be one that it has used before: a ReqID is     *)
(* free again after ReqComplete, the answer to OpenFeed.  Entries go out   *)
(* under the ReqID of the stream whose context the reader has.             *)
(***************************************************************************)
EXTENDS Channel

CONSTANTS ReqIDs,    \* the ReqIDs clients choose from
          OpenReqs,  \* the OpenFeed requests clients make
          RawSeek,   \* where an EntryID sorts among the channel's full keys
          StoreTail  \* store.Tail, more than is ever published

OpenFeedReq == [mode : {"DontStream", "FromGenesis", "AtEntry", "AfterEntry",
                        "AfterHead", "FromIndex"},
                seek : Keys \cup {NilKey},
                max  : Int]

ASSUME OpenReqsAssumption  == OpenReqs \subseteq OpenFeedReq
ASSUME RawSeekAssumption   == RawSeek \in Keys \cup {NilKey}
ASSUME StoreTailAssumption == StoreTail \in Nat \ {0}

VARIABLES sPc,        \* "recv", "open" (inside Subscribe), "send" or "ended"
          sResp,      \* the answer to send: [op, req], req the number of the
                      \* stream it is about, or 0
          streams,    \* conn.streams, one Stream per ReqID at most
          opened,     \* every Stream the session has made: a reader keeps its own
                      \* as its target whether or not conn.streams has it
          discarded,  \* history: cancellations answered with ReqDiscarded
          extra,      \* history: entries published after the last stream that
                      \* was opened had been cancelled and that was answered
          panicked    \* history: a request has ended the process

sessVars == <<sPc, sResp, streams, opened, discarded, extra, panicked>>
allVars  == <<vars, sessVars>>

-----------------------------------------------------------------------------
\* int32 MaxEntriesToSend to the uint64 the store wants.
StreamMax(i) == IF i > 0 THEN i ELSE StoreTail

\* newStreamOpts.  The SeekEntryID goes into Seek as it is, where the store
\* expects a full key: it sorts where its bytes put it, and equals no key of the
\* channel (in a store of several it may be at another's, and the stream empty).
\* FromIndex drops it.
NewStreamOpts(q) ==
    IF q.mode = "DontStream"
      THEN NilOpts
      ELSE [seek      |-> IF q.mode \in {"AtEntry", "AfterEntry"} THEN RawSeek ELSE NilKey,
            max       |-> StreamMax(q.max),
            skipFirst |-> q.mode \in {"AfterEntry", "AfterHead"},
            fromHead  |-> q.mode = "AfterHead",
            fromIndex |-> q.mode = "FromIndex"]

\* Opts has the options the requests ask for.
ASSUME OptsOfReqsAssumption == \A q \in OpenReqs : NewStreamOpts(q) \in Opts

\* A Stream: its ReqID, and the number of its context.
Stream == [id : ReqIDs, n : 1..MaxCalls]

NoResp == [op |-> "none", req |-> 0]

Answer(c, op, n) == /\ sPc'   = [sPc   EXCEPT ![c] = "send"]
                    /\ sResp' = [sResp EXCEPT ![c] = [op |-> op, req |-> n]]

SessionInit ==
    /\ Init
    /\ sPc = Every("recv") /\ sResp = Every(NoResp) /\ streams = Every({})
    /\ opened = Every({}) /\ discarded = Every({}) /\ extra = Every(0) /\ panicked = FALSE

-----------------------------------------------------------------------------
\* Mutant: the stream is given the number of the request before.
RecvOpenStale(c, q, r) ==
    LET stream == [id |-> r, n |-> calls[c]] IN
    /\ sPc[c] = "recv"
    /\ SubscribeCall(c, NewStreamOpts(q))
    /\ sPc'     = [sPc     EXCEPT ![c] = "open"]
    /\ streams' = [streams EXCEPT ![c] = {s \in @ : s.id # r} \cup {stream}]
    /\ opened'  = [opened  EXCEPT ![c] = @ \cup {stream}]
    /\ extra'   = [extra   EXCEPT ![c] = 0]
    /\ UNCHANGED <<sResp, discarded, panicked>>

\* Mutant: a new stream takes the place of the connection's old one, as ID has it.
RecvOpenReplaces(c, q, r) ==
    LET stream == [id |-> r, n |-> calls[c] + 1] IN
    /\ sPc[c] = "recv"
    /\ SubscribeCall(c, NewStreamOpts(q))
    /\ sPc'     = [sPc     EXCEPT ![c] = "open"]
    /\ streams' = [streams EXCEPT ![c] = {stream}]
    /\ opened'  = [opened  EXCEPT ![c] = @ \cup {stream}]
    /\ extra'   = [extra   EXCEPT ![c] = 0]
    /\ UNCHANGED <<sResp, discarded, panicked>>

\* open: the stream is registered, in the place of one that had its ReqID, and
\* Subscribe called with a context of its own.
RecvOpen(c, q, r) ==
    LET stream == [id |-> r, n |-> calls[c] + 1] IN
    /\ sPc[c] = "recv"
    /\ SubscribeCall(c, NewStreamOpts(q))
    /\ sPc'     = [sPc     EXCEPT ![c] = "open"]
    /\ streams' = [streams EXCEPT ![c] = {s \in @ : s.id # r} \cup {stream}]
    /\ opened'  = [opened  EXCEPT ![c] = @ \cup {stream}]
    /\ extra'   = [extra   EXCEPT ![c] = 0]
    /\ UNCHANGED <<sResp, discarded, panicked>>

\* Mutant: Subscribe runs read itself and not in a goroutine of its own.
OpenReturnsSync(c) ==
    /\ sPc[c] = "open"
    /\ call[c] = "idle" /\ rPc[c] = "none"
    /\ Answer(c, "ReqComplete", calls[c])
    /\ UNCHANGED <<vars, streams, opened, discarded, extra, panicked>>

\* Subscribe has returned: open answers ReqComplete, with status Working.
OpenReturns(c) ==
    /\ sPc[c] = "open"
    /\ call[c] = "idle"
    /\ Answer(c, "ReqComplete", calls[c])
    /\ UNCHANGED <<vars, streams, opened, discarded, extra, panicked>>

\* Stream.Done: the context is cancelled and the stream forgotten.
CloseStream(c, s) ==
    /\ Cancel(c, s.n)
    /\ streams' = [streams EXCEPT ![c] = @ \ {s}]

\* Mutant: close answers, but does not call the stream's Done.
RecvCancelIgnored(c, r) ==
    /\ sPc[c] = "recv"
    /\ \E s \in streams[c] : s.id = r /\ Answer(c, "ReqDiscarded", s.n)
    /\ UNCHANGED <<vars, streams, opened, discarded, extra, panicked>>

\* close, which does not mind if no stream has the ReqID.
RecvCancel(c, r) ==
    /\ sPc[c] = "recv"
    /\ \/ \E s \in streams[c] :
            s.id = r /\ CloseStream(c, s) /\ Answer(c, "ReqDiscarded", s.n)
       \/ /\ \A s \in streams[c] : s.id # r
          /\ Answer(c, "ReqDiscarded", 0)
          /\ UNCHANGED <<vars, streams>>
    /\ UNCHANGED <<opened, discarded, extra, panicked>>

\* append, of an entry that is written ...
RecvAppend(c, m, ts) ==
    /\ sPc[c] = "recv"
    /\ Commit(m, ts)
    /\ Answer(c, "ReqComplete", 0)
    /\ UNCHANGED <<streams, opened, discarded, extra, panicked>>

\* ... and any request that is refused: an entry the store has or will not
\* take, a missing or oversized body, no feed URI, no such operation.
RecvRefused(c) ==
    /\ sPc[c] = "recv"
    /\ Answer(c, "ReqDiscarded", 0)
    /\ UNCHANGED <<vars, streams, opened, discarded, extra, panicked>>

\* conn.Send of the answer; the loop goes on whether or not it succeeds.
SendAnswer(c) ==
    /\ sPc[c] = "send"
    /\ sPc'   = [sPc   EXCEPT ![c] = "recv"]
    /\ sResp' = [sResp EXCEPT ![c] = NoResp]
    /\ discarded' = [discarded EXCEPT ![c] =
                       IF sResp[c].op = "ReqDiscarded" /\ sResp[c].req # 0
                         THEN @ \cup {sResp[c].req} ELSE @]
    /\ UNCHANGED <<vars, streams, opened, extra, panicked>>

\* Mutant: the contexts of the streams do not descend from the connection's.
SessionEndLeaks(c) ==
    /\ sPc[c] = "recv"
    /\ sPc' = [sPc EXCEPT ![c] = "ended"]
    /\ UNCHANGED <<vars, sResp, streams, opened, discarded, extra, panicked>>

\* Mutant: the end of a session takes its subscription out of the channel itself.
SessionEndUnsubscribes(c) ==
    /\ sPc[c] = "recv"
    /\ sPc' = [sPc EXCEPT ![c] = "ended"]
    /\ cancelled' = [cancelled EXCEPT ![c] = @ \cup (1..calls[c])]
    /\ subscribers' = subscribers \ {c}
    /\ UNCHANGED <<dbVars, bcVars, sLock, call, callOpts, calls, readVars, histVars,
                   sResp, streams, opened, discarded, extra, panicked>>

\* Recv fails or reports the end: VaultSession returns, and its deferred cancel
\* cancels the contexts of all the connection's streams.
SessionEnd(c) ==
    /\ sPc[c] = "recv"
    /\ CancelAll(c)
    /\ sPc' = [sPc EXCEPT ![c] = "ended"]
    /\ UNCHANGED <<sResp, streams, opened, discarded, extra, panicked>>

\* The process ends, and with it every session.
SessionRestart ==
    /\ Restart
    /\ sPc' = Every("recv") /\ sResp' = Every(NoResp) /\ streams' = Every({})
    /\ opened' = Every({}) /\ discarded' = Every({}) /\ extra' = Every(0)

\* Subscribe with nil options panics, in a goroutine nothing recovers.
OpenPanics(c) ==
    /\ sPc[c] = "open"
    /\ SubscribeNil(c)
    /\ SessionRestart
    /\ panicked' = TRUE

\* The steps of Subscribe that need the lock.
OpenSubscribes(c) ==
    /\ SubscribeNew(c) \/ SubscribeReset(c)
    /\ UNCHANGED sessVars

\* Stream.Publish: the entry goes out on the connection.
Feed(c) ==
    /\ ReadPublish(c) \/ IndexPublish(c)
    /\ extra' = [extra EXCEPT ![c] =
                   IF calls[c] \in discarded[c] THEN @ + 1 ELSE @]
    /\ UNCHANGED <<sPc, sResp, streams, opened, discarded, panicked>>

\* The other steps of a reader.
ReaderSilent(c) ==
    /\ \/ ReadStart(c) \/ ReadOpen(c) \/ ReadEnd(c) \/ ReadNotify(c) \/ ReadReset(c)
       \/ ReadResetNil(c) \/ ReadItem(c) \/ WaitNotify(c) \/ WaitDone(c)
       \/ IndexOpen(c) \/ IndexEnd(c) \/ IndexNotify(c) \/ IndexItem(c)
    /\ UNCHANGED sessVars

ReaderFails(c) == (ReadResetFail(c) \/ ReadFail(c)) /\ UNCHANGED sessVars

ReaderLeaves(c) == Unsubscribe(c) /\ UNCHANGED sessVars

\* The broadcaster, and the appends of peers and other sessions.
Background ==
    /\ Broadcast \/ \E m \in Msgs, ts \in Times : Commit(m, ts)
    /\ UNCHANGED sessVars

SessionNext ==
    \/ Background
    \/ SessionRestart /\ UNCHANGED panicked
    \/ \E c \in Clients :
         \/ \E q \in OpenReqs, r \in ReqIDs : RecvOpen(c, q, r)
         \/ \E r \in ReqIDs : RecvCancel(c, r)
         \/ \E m \in Msgs, ts \in Times : RecvAppend(c, m, ts)
         \/ RecvRefused(c) \/ SessionEnd(c)
         \/ OpenSubscribes(c) \/ OpenPanics(c) \/ OpenReturns(c) \/ SendAnswer(c)
         \/ Feed(c) \/ ReaderSilent(c) \/ ReaderFails(c) \/ ReaderLeaves(c)

SessionSpec == SessionInit /\ [][SessionNext]_allVars

\* Channel's fairness, for the session goroutine too; a client need not ask for
\* anything, but receives what it is sent.
SessionFairness ==
    /\ WF_allVars(Watch /\ UNCHANGED sessVars)
    /\ WF_allVars(BcRecv /\ UNCHANGED sessVars)
    /\ SF_allVars(BcLock /\ UNCHANGED sessVars)
    /\ \A c \in Clients : /\ WF_allVars(Feed(c) \/ ReaderSilent(c))
                          /\ SF_allVars(ReaderLeaves(c))
                          /\ SF_allVars(OpenSubscribes(c) \/ OpenPanics(c))
                          /\ WF_allVars(OpenReturns(c))
                          /\ WF_allVars(SendAnswer(c))

FairSessionSpec == SessionSpec /\ SessionFairness

-----------------------------------------------------------------------------
\* Every variable has its type.
SessionTypeOK ==
    /\ TypeOK
    /\ sPc \in [Clients -> {"recv", "open", "send", "ended"}]
    /\ sResp \in [Clients -> [op : {"none", "ReqComplete", "ReqDiscarded"},
                              req : 0..MaxCalls]]
    /\ streams \in [Clients -> SUBSET Stream]
    /\ opened \in [Clients -> SUBSET Stream]
    /\ discarded \in [Clients -> SUBSET (1..MaxCalls)]
    /\ extra \in [Clients -> Nat]
    /\ panicked \in BOOLEAN

\* Whatever was opened, reset and cancelled in whatever order, a reader that runs
\* and has not been told to stop can be, by a CancelReq with the ReqID its entries
\* go out under: conn.streams has its stream, unless the client has opened another
\* under that ReqID since.  Then nothing but the end of the session reaches it.
Overwritten(c, s) == \E t \in opened[c] : t.id = s.id /\ t.n > s.n

ReaderIsCancellable ==
    \A c \in Clients :
        rPc[c] # "none" /\ ~ Done(c) =>
            \E s \in opened[c] :
                s.n = rCtx[c] /\ (s \in streams[c] \/ Overwritten(c, s))

\* If the reader is that of the stream opened last, then once that stream is
\* cancelled and the client told so, all that still goes out is the one entry that
\* was being published when the context was cancelled.  (A reader that was started
\* by an earlier stream and then reset goes on: see CancelIsFinal.)
CancelStopsOwnReader ==
    \A c \in Clients :
        rPc[c] # "none" /\ rCtx[c] = calls[c] => extra[c] <= late[c] /\ late[c] <= 1

\* A session does to the channel only what Channel allows its callers: requests
\* one at a time, cancellations, and the end of the process.  So what Channel
\* promises, it promises to the clients of the server.
ImplementsChannel == Spec

\* The end of a session releases what it had on the channel, but for the
\* deadlocks of Channel.
SessionEndReleases ==
    \A c \in Clients : sPc[c] = "ended" ~> (rPc[c] = "none" \/ Stuck)

\* Every OpenFeed is answered with a ReqComplete of its own, although vault.proto
\* says that the server sends no response to one that succeeds; only Channel's
\* deadlocks, or the end of the process while Subscribe runs, by a crash or by the
\* panic of DontStream, keep the session's goroutine from that answer.
Restarted(c) == calls[c] = 0

OpenIsAnswered ==
    \A c \in Clients :
        sPc[c] = "open" ~>
            \/ sPc[c] = "send" /\ sResp[c] = [op |-> "ReqComplete", req |-> calls[c]]
            \/ Stuck \/ Restarted(c)

\* "CancelReq tells the server to cancel/stop/close the request identified by the
\* given ReqID": once the last stream the client opened is cancelled and that is
\* answered, no more than the entry under way is published.
CancelIsFinal == \A c \in Clients : extra[c] <= 1

\* "DontStream ... is typically used by clients that only want to append entries":
\* such a request does not end the process.
NoPanic == ~ panicked
=============================================================================
