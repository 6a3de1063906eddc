-------------------------------- MODULE Channel --------------------------------
(***************************************************************************)
(* One channel of store/store.go and everything that runs around it: the   *)
(* commits of its appenders; the broadcaster, the callback badger          *)
(* runs for each batch of updates under the channel's prefix; the session  *)
(* goroutines, which call Subscribe and cancel streams; and one reader     *)
(* goroutine per subscriber, running read or readFromIndex.                *)
(*                                                                         *)
(* sLock guards the subscribers.  The broadcaster holds it while it hands  *)
(* a notification to every subscriber over an unbuffered channel, and      *)
(* Subscribe holds it while it hands new options to an existing one.       *)
(* A send on rx or resetRx and its receive are one step of the model, and  *)
(* bcCur = c or call[c] = "reset" says that the sender has got as far as   *)
(* the send: it may not have blocked in it yet, so a reader that polls the *)
(* channel (a select with a default) may still find nothing there.         *)
(***************************************************************************)
EXTENDS AppendOnlyLog, Sequences

CONSTANTS Clients,   \* target IDs; each is one session, so one caller at a time
          Opts,      \* the StreamOpts clients ask for
          NilOpts,   \* a nil *StreamOpts
          MaxCalls   \* bound: Subscribe calls per client between two crashes

Nobody == "nobody"
Broadcaster == "broadcaster"

\* Seek is NilKey where the code has no bytes, so that an iterator begins with
\* the channel's first key.  The server never seeks within the ArrivalIndex.
StreamOpts == [seek : Keys \cup {NilKey}, max : Nat,
               skipFirst : BOOLEAN, fromHead : BOOLEAN, fromIndex : BOOLEAN]

ASSUME ClientsAssumption == Nobody \notin Clients /\ Broadcaster \notin Clients
ASSUME OptsAssumption    == Opts \subseteq StreamOpts \cup {NilOpts}
ASSUME NilOptsAssumption == NilOpts \notin StreamOpts
ASSUME MaxCallsAssumption == MaxCalls \in Nat

VARIABLES
    \* the broadcaster
    watching,     \* badger has registered the subscription watch asked for
    pending,      \* badger has updates for the callback
    missed,       \* history: keys committed while badger was not watching
    bcPc,         \* "recv", "lock" (waiting for sLock) or "notify"
    bcTodo,       \* subscribers the range loop has still to reach
    bcCur,        \* the subscriber it is handing the notification to
    \* the channel
    sLock,        \* who holds it
    subscribers,  \* targets registered
    \* the callers
    call,         \* "idle", "lock" (waiting for sLock) or "reset"
    callOpts,     \* the options of the call under way
    calls,        \* how many calls have been made: each has a context
    cancelled,    \* the calls whose context was cancelled
    \* the readers
    rPc, rOpts,   \* where the goroutine is, the options it was started with
    rCtx,         \* the call whose context it watches
    rKey,         \* key: where the next iterator will seek to
    rSeen,        \* lastSeen
    rMax, rCount, rDirty,
    rRest,        \* what the open iterator has still to visit
    iRest,        \* the same for an iterator over the ArrivalIndex
    \* history of what was published
    sent,         \* keys published since the options last took effect
    due,          \* keys that were in the channel then and had to be published
    dupe,         \* lastSeen as it was then
    late          \* entries published after the context was cancelled

bcVars   == <<watching, pending, missed, bcPc, bcTodo, bcCur>>
lockVars == <<sLock, subscribers>>
callVars == <<call, callOpts, calls, cancelled>>
readVars == <<rPc, rOpts, rCtx, rKey, rSeen, rMax, rCount, rDirty, rRest, iRest>>
histVars == <<sent, due, dupe, late>>
chVars   == <<bcVars, lockVars, callVars, readVars, histVars>>
vars     == <<dbVars, chVars>>

-----------------------------------------------------------------------------
\* k is what lastKey returns in a snapshot taken now.
IsLastKey(k) == IF Committed = {}
                  THEN k = NilKey
                  ELSE k \in Committed /\ \A j \in Committed : j <= k

\* The Seek of the options, which fromHead replaces by the last key.
IsSeek(k, o) == IF o.fromHead THEN IsLastKey(k) ELSE k = o.seek

\* What an iterator over the Entries prefix visits after Seek(k).
SeekEntries(k) == {j \in Committed : j >= k}

\* The iterator's current item: the first of what is left.
IsItem(k, rest) == k \in rest /\ \A j \in rest : k <= j

\* Mutant: the index is read in key order.
IsIndexItemByKey(x, rest) == x \in rest /\ \A y \in rest : x.key <= y.key

IsIndexItem(x, rest) == x \in rest /\ \A y \in rest : ~ ArrivalLT(y, x)

\* The context the reader of c was started with is done.
Done(c) == rCtx[c] \in cancelled[c]

\* Mutant: the loop waits although the iterator became dirty.
AfterIterateWaits(count, max, dirty) == IF count >= max THEN "exit" ELSE "wait"

\* What the loop around iterate does once it has returned.
AfterIterate(count, max, dirty) ==
    IF count >= max THEN "exit" ELSE IF dirty THEN "open" ELSE "wait"

-----------------------------------------------------------------------------
Every(v) == [c \in Clients |-> v]

\* A channel as Store.Channel creates it.
ChannelInit ==
    /\ watching = FALSE /\ pending = FALSE /\ missed = {}
    /\ bcPc = "recv" /\ bcTodo = {} /\ bcCur = Nobody
    /\ sLock = Nobody /\ subscribers = {}
    /\ call = Every("idle") /\ callOpts = Every(NilOpts)
    /\ calls = Every(0) /\ cancelled = Every({})
    /\ rPc = Every("none") /\ rOpts = Every(NilOpts) /\ rCtx = Every(0)
    /\ rKey = Every(NilKey) /\ rSeen = Every(NilKey)
    /\ rMax = Every(0) /\ rCount = Every(0) /\ rDirty = Every(FALSE)
    /\ rRest = Every({}) /\ iRest = Every({})
    /\ sent = Every(<< >>) /\ due = Every({}) /\ dupe = Every(NilKey) /\ late = Every(0)

Init == RecordInit /\ ChannelInit

\* The process ends and is started again over its database: the channel is as
\* created, the log as badger recovers it.
Restart ==
    /\ UNCHANGED dbVars
    /\ watching' = FALSE /\ pending' = FALSE /\ missed' = {}
    /\ bcPc' = "recv" /\ bcTodo' = {} /\ bcCur' = Nobody
    /\ sLock' = Nobody /\ subscribers' = {}
    /\ call' = Every("idle") /\ callOpts' = Every(NilOpts)
    /\ calls' = Every(0) /\ cancelled' = Every({})
    /\ rPc' = Every("none") /\ rOpts' = Every(NilOpts) /\ rCtx' = Every(0)
    /\ rKey' = Every(NilKey) /\ rSeen' = Every(NilKey)
    /\ rMax' = Every(0) /\ rCount' = Every(0) /\ rDirty' = Every(FALSE)
    /\ rRest' = Every({}) /\ iRest' = Every({})
    /\ sent' = Every(<< >>) /\ due' = Every({}) /\ dupe' = Every(NilKey) /\ late' = Every(0)

-----------------------------------------------------------------------------
(* The appenders, of which only the commit concerns the channel.            *)

\* badger queues the update for the callback if that is registered.
Commit(m, ts) ==
    /\ Record(m, ts)
    /\ IF watching
         THEN pending' = TRUE /\ UNCHANGED missed
         ELSE missed' = missed \cup {KeyOf[m]} /\ UNCHANGED pending
    /\ UNCHANGED <<watching, bcPc, bcTodo, bcCur, lockVars, callVars, readVars, histVars>>

-----------------------------------------------------------------------------
(* The broadcaster.                                                         *)

\* The goroutine watch started reaches badger, which registers the callback.
Watch ==
    /\ ~ watching
    /\ watching' = TRUE
    /\ UNCHANGED <<dbVars, pending, missed, bcPc, bcTodo, bcCur,
                   lockVars, callVars, readVars, histVars>>

\* badger calls back with all the updates there are.
BcRecv ==
    /\ bcPc = "recv"
    /\ pending
    /\ pending' = FALSE
    /\ bcPc' = "lock"
    /\ UNCHANGED <<dbVars, watching, missed, bcTodo, bcCur,
                   lockVars, callVars, readVars, histVars>>

\* Mutant: RUnlock is missing.
NextNotifyHeld(todo) ==
    IF todo = {}
      THEN bcPc' = "recv" /\ bcTodo' = {} /\ bcCur' = Nobody /\ UNCHANGED sLock
      ELSE /\ bcPc' = "notify" /\ sLock' = Broadcaster
           /\ bcCur' \in todo /\ bcTodo' = todo \ {bcCur'}

\* One turn of the loop over the subscribers, todo being those left: the next
\* notify, or the deferred RUnlock.
NextNotify(todo) ==
    IF todo = {}
      THEN bcPc' = "recv" /\ bcTodo' = {} /\ bcCur' = Nobody /\ sLock' = Nobody
      ELSE /\ bcPc' = "notify" /\ sLock' = Broadcaster
           /\ bcCur' \in todo /\ bcTodo' = todo \ {bcCur'}

\* Mutant: the callback returns after the first subscriber.
BcLockFirst ==
    /\ bcPc = "lock"
    /\ sLock = Nobody
    /\ subscribers # {}
    /\ \E c \in subscribers : NextNotify({c})
    /\ UNCHANGED <<dbVars, watching, pending, missed, subscribers,
                   callVars, readVars, histVars>>

\* sLock.RLock() and the first turn of the loop.
BcLock ==
    /\ bcPc = "lock"
    /\ sLock = Nobody
    /\ NextNotify(subscribers)
    /\ UNCHANGED <<dbVars, watching, pending, missed, subscribers,
                   callVars, readVars, histVars>>

-----------------------------------------------------------------------------
(* The callers: Subscribe and the cancellation of a stream's context.       *)

SubscribeCall(c, o) ==
    /\ call[c] = "idle"
    /\ calls[c] < MaxCalls
    /\ call'     = [call     EXCEPT ![c] = "lock"]
    /\ callOpts' = [callOpts EXCEPT ![c] = o]
    /\ calls'    = [calls    EXCEPT ![c] = @ + 1]
    /\ UNCHANGED <<dbVars, bcVars, lockVars, cancelled, readVars, histVars>>

\* Keys a reader of options o has to publish whatever happens: those that are
\* in the channel now, except where the options begin at its end.
DueNow(o) == IF o.fromHead \/ o.fromIndex
               THEN {}
               ELSE SeekEntries(o.seek) \ (IF o.skipFirst THEN {o.seek} ELSE {})

\* Subscribe for a target that is not registered: a subscriber and its goroutine.
SubscribeNew(c) ==
    /\ call[c] = "lock"
    /\ sLock = Nobody
    /\ c \notin subscribers
    /\ callOpts[c] # NilOpts
    /\ subscribers' = subscribers \cup {c}
    /\ call'     = [call EXCEPT ![c] = "idle"]
    /\ callOpts' = [callOpts EXCEPT ![c] = NilOpts]
    /\ rPc'    = [rPc    EXCEPT ![c] = IF callOpts[c].fromIndex THEN "istart" ELSE "start"]
    /\ rOpts'  = [rOpts  EXCEPT ![c] = callOpts[c]]
    /\ rCtx'   = [rCtx   EXCEPT ![c] = calls[c]]
    /\ rMax'   = [rMax   EXCEPT ![c] = callOpts[c].max]
    /\ sent'   = [sent   EXCEPT ![c] = << >>]
    /\ due'    = [due    EXCEPT ![c] = DueNow(callOpts[c])]
    /\ dupe'   = [dupe   EXCEPT ![c] = NilKey]
    /\ late'   = [late   EXCEPT ![c] = 0]
    /\ UNCHANGED <<dbVars, bcVars, sLock, calls, cancelled, rKey, rSeen, rCount,
                   rDirty, rRest, iRest>>

\* Subscribe for a target that is registered: it keeps sLock until the reader
\* takes the new options.
SubscribeReset(c) ==
    /\ call[c] = "lock"
    /\ sLock = Nobody
    /\ c \in subscribers
    /\ sLock' = c
    /\ call' = [call EXCEPT ![c] = "reset"]
    /\ UNCHANGED <<dbVars, bcVars, subscribers, callOpts, calls, cancelled,
                   readVars, histVars>>

\* Subscribe with nil options for a target that is not registered dereferences
\* them (opts.fromIndex()); the panic ends the process.
SubscribeNil(c) ==
    /\ call[c] = "lock"
    /\ sLock = Nobody
    /\ c \notin subscribers
    /\ callOpts[c] = NilOpts
    /\ Restart

\* The session cancels the context of one of its streams.
Cancel(c, n) ==
    /\ call[c] = "idle"
    /\ n \in (1..calls[c]) \ cancelled[c]
    /\ cancelled' = [cancelled EXCEPT ![c] = @ \cup {n}]
    /\ UNCHANGED <<dbVars, bcVars, lockVars, call, callOpts, calls, readVars, histVars>>

\* The session ends, and with its context those of all its streams.
CancelAll(c) ==
    /\ call[c] = "idle"
    /\ cancelled' = [cancelled EXCEPT ![c] = @ \cup (1..calls[c])]
    /\ UNCHANGED <<dbVars, bcVars, lockVars, call, callOpts, calls, readVars, histVars>>

-----------------------------------------------------------------------------
(* The reader: read.                                                        *)

\* The goroutine starts: where to seek to, and what to skip there.
ReadStart(c) ==
    /\ rPc[c] = "start"
    /\ \E k \in Keys \cup {NilKey} :
         /\ IsSeek(k, rOpts[c])
         /\ rKey'  = [rKey  EXCEPT ![c] = k]
         /\ rSeen' = [rSeen EXCEPT ![c] = IF rOpts[c].skipFirst THEN k ELSE NilKey]
    /\ rPc' = [rPc EXCEPT ![c] = "open"]
    /\ UNCHANGED <<dbVars, bcVars, lockVars, callVars, rOpts, rCtx, rMax, rCount,
                   rDirty, rRest, iRest, histVars>>

\* iterate takes a snapshot, clears dirty and seeks.
ReadOpen(c) ==
    /\ rPc[c] = "open"
    /\ rPc'    = [rPc    EXCEPT ![c] = "select"]
    /\ rDirty' = [rDirty EXCEPT ![c] = FALSE]
    /\ rRest'  = [rRest  EXCEPT ![c] = SeekEntries(rKey[c])]
    /\ UNCHANGED <<dbVars, bcVars, lockVars, callVars, rOpts, rCtx, rKey, rSeen,
                   rMax, rCount, iRest, histVars>>

\* iterate returns: it has published max entries, or its context is done, or
\* nothing is left and no message is waiting.
ReadEnd(c) ==
    /\ rPc[c] = "select"
    /\ rCount[c] >= rMax[c] \/ Done(c) \/ rRest[c] = {}
    /\ rPc'   = [rPc   EXCEPT ![c] = AfterIterate(rCount[c], rMax[c], rDirty[c])]
    /\ rRest' = [rRest EXCEPT ![c] = {}]
    /\ UNCHANGED <<dbVars, bcVars, lockVars, callVars, rOpts, rCtx, rKey, rSeen,
                   rMax, rCount, rDirty, iRest, histVars>>

\* Mutant: the notification is thrown away, as readFromIndex does.
ReadNotifyIgnored(c) ==
    /\ rPc[c] = "select"
    /\ rCount[c] < rMax[c]
    /\ bcCur = c
    /\ NextNotify(bcTodo)
    /\ UNCHANGED <<dbVars, watching, pending, missed, subscribers, callVars, readVars,
                   histVars>>

\* The rx case of iterate, together with the broadcaster's send.
ReadNotify(c) ==
    /\ rPc[c] = "select"
    /\ rCount[c] < rMax[c]
    /\ bcCur = c
    /\ NextNotify(bcTodo)
    /\ rDirty' = [rDirty EXCEPT ![c] = TRUE]
    /\ UNCHANGED <<dbVars, watching, pending, missed, subscribers, callVars, rPc,
                   rOpts, rCtx, rKey, rSeen, rMax, rCount, rRest, iRest, histVars>>

\* Subscribe's send on resetRx has been received: it unlocks and returns.
ResetReturn(c) ==
    /\ call[c] = "reset"
    /\ sLock' = Nobody
    /\ call'     = [call EXCEPT ![c] = "idle"]
    /\ callOpts' = [callOpts EXCEPT ![c] = NilOpts]
    /\ UNCHANGED <<dbVars, bcVars, subscribers, calls, cancelled>>

\* The resetRx case of iterate.  The count goes on, and whether the first key
\* is skipped is still decided by the options the reader was started with.
ReadReset(c) ==
    /\ rPc[c] = "select"
    /\ rCount[c] < rMax[c]
    /\ callOpts[c] # NilOpts
    /\ ResetReturn(c)
    /\ \E k \in Keys \cup {NilKey} :
         /\ IsSeek(k, callOpts[c])
         /\ rKey'  = [rKey  EXCEPT ![c] = k]
         /\ rSeen' = [rSeen EXCEPT ![c] = IF rOpts[c].skipFirst THEN k ELSE @]
    /\ rMax'   = [rMax   EXCEPT ![c] = callOpts[c].max]
    /\ rDirty' = [rDirty EXCEPT ![c] = TRUE]
    /\ rPc'    = [rPc    EXCEPT ![c] = AfterIterate(rCount[c], callOpts[c].max, TRUE)]
    /\ rRest'  = [rRest  EXCEPT ![c] = {}]
    /\ sent'   = [sent   EXCEPT ![c] = << >>]
    /\ due'    = [due    EXCEPT ![c] = DueNow(callOpts[c])]
    /\ dupe'   = [dupe   EXCEPT ![c] = rSeen'[c]]
    /\ UNCHANGED <<rOpts, rCtx, rCount, iRest, late>>

\* The same when lastKey fails: read returns with its error.
ReadResetFail(c) ==
    /\ rPc[c] = "select"
    /\ rCount[c] < rMax[c]
    /\ callOpts[c] # NilOpts /\ callOpts[c].fromHead
    /\ ResetReturn(c)
    /\ rPc'    = [rPc    EXCEPT ![c] = "exit"]
    /\ rDirty' = [rDirty EXCEPT ![c] = TRUE]
    /\ rRest'  = [rRest  EXCEPT ![c] = {}]
    /\ UNCHANGED <<rOpts, rCtx, rKey, rSeen, rMax, rCount, iRest, histVars>>

\* The resetRx case of iterate for nil options: the iterator is given up, and
\* unless a notification came in before, so is streaming until the next one.
ReadResetNil(c) ==
    /\ rPc[c] = "select"
    /\ rCount[c] < rMax[c]
    /\ callOpts[c] = NilOpts
    /\ ResetReturn(c)
    /\ rPc'   = [rPc   EXCEPT ![c] = IF rDirty[c] THEN "open" ELSE "parked"]
    /\ rRest' = [rRest EXCEPT ![c] = {}]
    /\ UNCHANGED <<rOpts, rCtx, rKey, rSeen, rMax, rCount, rDirty, iRest, histVars>>

\* Mutant: the context is looked at only when the iterator has ended.
ReadItemUnchecked(c) ==
    /\ rPc[c] = "select"
    /\ rCount[c] < rMax[c]
    /\ \E k \in rRest[c] :
         /\ IsItem(k, rRest[c])
         /\ IF k = rSeen[c]
              THEN rRest' = [rRest EXCEPT ![c] = @ \ {k}] /\ UNCHANGED rPc
              ELSE rPc' = [rPc EXCEPT ![c] = "publish"] /\ UNCHANGED rRest
    /\ UNCHANGED <<dbVars, bcVars, lockVars, callVars, rOpts, rCtx, rKey, rSeen,
                   rMax, rCount, rDirty, iRest, histVars>>

\* Mutant: a duplicate takes the item after it with it.
ReadItemSkips(c) ==
    /\ rPc[c] = "select"
    /\ rCount[c] < rMax[c]
    /\ ~ Done(c)
    /\ \E k \in rRest[c] :
         /\ IsItem(k, rRest[c])
         /\ IF k = rSeen[c]
              THEN rRest' = [rRest EXCEPT ![c] = @ \ {k, k + 1}] /\ UNCHANGED rPc
              ELSE rPc' = [rPc EXCEPT ![c] = "publish"] /\ UNCHANGED rRest
    /\ UNCHANGED <<dbVars, bcVars, lockVars, callVars, rOpts, rCtx, rKey, rSeen,
                   rMax, rCount, rDirty, iRest, histVars>>

\* Mutant: the count is compared with the limit one too late.
ReadItemOneMore(c) ==
    /\ rPc[c] = "select"
    /\ rCount[c] <= rMax[c]
    /\ ~ Done(c)
    /\ \E k \in rRest[c] :
         /\ IsItem(k, rRest[c])
         /\ IF k = rSeen[c]
              THEN rRest' = [rRest EXCEPT ![c] = @ \ {k}] /\ UNCHANGED rPc
              ELSE rPc' = [rPc EXCEPT ![c] = "publish"] /\ UNCHANGED rRest
    /\ UNCHANGED <<dbVars, bcVars, lockVars, callVars, rOpts, rCtx, rKey, rSeen,
                   rMax, rCount, rDirty, iRest, histVars>>

\* The default case of iterate: the next item is dropped if it was the last
\* one seen, and otherwise will be published.
ReadItem(c) ==
    /\ rPc[c] = "select"
    /\ rCount[c] < rMax[c]
    /\ ~ Done(c)
    /\ \E k \in rRest[c] :
         /\ IsItem(k, rRest[c])
         /\ IF k = rSeen[c]
              THEN rRest' = [rRest EXCEPT ![c] = @ \ {k}] /\ UNCHANGED rPc
              ELSE rPc' = [rPc EXCEPT ![c] = "publish"] /\ UNCHANGED rRest
    /\ UNCHANGED <<dbVars, bcVars, lockVars, callVars, rOpts, rCtx, rKey, rSeen,
                   rMax, rCount, rDirty, iRest, histVars>>

\* The target is called with entry k.
Published(c, k) ==
    /\ sent' = [sent EXCEPT ![c] = Append(@, k)]
    /\ late' = [late EXCEPT ![c] = IF Done(c) THEN @ + 1 ELSE @]
    /\ rCount' = [rCount EXCEPT ![c] = @ + 1]

\* Mutant: the next iterator is to seek past the entry, to a key that may not exist.
ReadPublishAdvances(c) ==
    /\ rPc[c] = "publish"
    /\ \E k \in rRest[c] :
         /\ IsItem(k, rRest[c])
         /\ Published(c, k)
         /\ rKey'  = [rKey  EXCEPT ![c] = k + 1]
         /\ rSeen' = [rSeen EXCEPT ![c] = k]
         /\ rRest' = [rRest EXCEPT ![c] = @ \ {k}]
    /\ rPc' = [rPc EXCEPT ![c] = "select"]
    /\ UNCHANGED <<dbVars, bcVars, lockVars, callVars, rOpts, rCtx, rMax, rDirty,
                   iRest, due, dupe>>

\* Mutant: lastSeen is not kept.
ReadPublishForgets(c) ==
    /\ rPc[c] = "publish"
    /\ \E k \in rRest[c] :
         /\ IsItem(k, rRest[c])
         /\ Published(c, k)
         /\ rKey'  = [rKey  EXCEPT ![c] = k]
         /\ rRest' = [rRest EXCEPT ![c] = @ \ {k}]
    /\ rPc' = [rPc EXCEPT ![c] = "select"]
    /\ UNCHANGED <<dbVars, bcVars, lockVars, callVars, rOpts, rCtx, rSeen, rMax, rDirty,
                   iRest, due, dupe>>

\* target.Publish, and the bookkeeping after it.
ReadPublish(c) ==
    /\ rPc[c] = "publish"
    /\ \E k \in rRest[c] :
         /\ IsItem(k, rRest[c])
         /\ Published(c, k)
         /\ rKey'  = [rKey  EXCEPT ![c] = k]
         /\ rSeen' = [rSeen EXCEPT ![c] = k]
         /\ rRest' = [rRest EXCEPT ![c] = @ \ {k}]
    /\ rPc' = [rPc EXCEPT ![c] = "select"]
    /\ UNCHANGED <<dbVars, bcVars, lockVars, callVars, rOpts, rCtx, rMax, rDirty,
                   iRest, due, dupe>>

\* Neither dirty nor finished: the goroutine blocks until it is notified ...
WaitNotify(c) ==
    /\ rPc[c] \in {"wait", "parked"}
    /\ bcCur = c
    /\ NextNotify(bcTodo)
    /\ rPc' = [rPc EXCEPT ![c] = "open"]
    /\ UNCHANGED <<dbVars, watching, pending, missed, subscribers, callVars, rOpts,
                   rCtx, rKey, rSeen, rMax, rCount, rDirty, rRest, iRest, histVars>>

\* Mutant: the context is not part of the wait.
WaitDoneNever(c) == FALSE

\* ... or its context is done.
WaitDone(c) ==
    /\ rPc[c] \in {"wait", "parked"}
    /\ Done(c)
    /\ rPc' = [rPc EXCEPT ![c] = "exit"]
    /\ UNCHANGED <<dbVars, bcVars, lockVars, callVars, rOpts, rCtx, rKey, rSeen,
                   rMax, rCount, rDirty, rRest, iRest, histVars>>

\* lastKey, the snapshot or an entry's value cannot be read: read and
\* readFromIndex return with the error, which nobody looks at.
ReadFail(c) ==
    /\ rPc[c] \in {"start", "open", "publish", "istart", "ipublish"}
    /\ rPc'   = [rPc   EXCEPT ![c] = "exit"]
    /\ rRest' = [rRest EXCEPT ![c] = {}]
    /\ iRest' = [iRest EXCEPT ![c] = {}]
    /\ UNCHANGED <<dbVars, bcVars, lockVars, callVars, rOpts, rCtx, rKey, rSeen,
                   rMax, rCount, rDirty, histVars>>

\* Mutant: unsubscribe does not take sLock.
UnsubscribeUnlocked(c) ==
    /\ rPc[c] = "exit"
    /\ subscribers' = subscribers \ {c}
    /\ rPc'    = [rPc    EXCEPT ![c] = "none"]
    /\ rOpts'  = [rOpts  EXCEPT ![c] = NilOpts]
    /\ rCtx'   = [rCtx   EXCEPT ![c] = 0]
    /\ rKey'   = [rKey   EXCEPT ![c] = NilKey]
    /\ rSeen'  = [rSeen  EXCEPT ![c] = NilKey]
    /\ rMax'   = [rMax   EXCEPT ![c] = 0]
    /\ rCount' = [rCount EXCEPT ![c] = 0]
    /\ rDirty' = [rDirty EXCEPT ![c] = FALSE]
    /\ iRest'  = [iRest  EXCEPT ![c] = {}]
    /\ UNCHANGED <<dbVars, bcVars, sLock, callVars, rRest, histVars>>

\* The deferred unsubscribe of either kind of reader.
Unsubscribe(c) ==
    /\ rPc[c] = "exit"
    /\ sLock = Nobody
    /\ subscribers' = subscribers \ {c}
    /\ rPc'    = [rPc    EXCEPT ![c] = "none"]
    /\ rOpts'  = [rOpts  EXCEPT ![c] = NilOpts]
    /\ rCtx'   = [rCtx   EXCEPT ![c] = 0]
    /\ rKey'   = [rKey   EXCEPT ![c] = NilKey]
    /\ rSeen'  = [rSeen  EXCEPT ![c] = NilKey]
    /\ rMax'   = [rMax   EXCEPT ![c] = 0]
    /\ rCount' = [rCount EXCEPT ![c] = 0]
    /\ rDirty' = [rDirty EXCEPT ![c] = FALSE]
    /\ iRest'  = [iRest  EXCEPT ![c] = {}]
    /\ UNCHANGED <<dbVars, bcVars, sLock, callVars, rRest, histVars>>

-----------------------------------------------------------------------------
(* The reader: readFromIndex.                                               *)

IndexOpen(c) ==
    /\ rPc[c] = "istart"
    /\ rPc'   = [rPc   EXCEPT ![c] = "iselect"]
    /\ iRest' = [iRest EXCEPT ![c] = index]
    /\ UNCHANGED <<dbVars, bcVars, lockVars, callVars, rOpts, rCtx, rKey, rSeen,
                   rMax, rCount, rDirty, rRest, histVars>>

\* It returns: max entries published, context done, or the snapshot exhausted.
IndexEnd(c) ==
    /\ rPc[c] = "iselect"
    /\ rCount[c] >= rMax[c] \/ Done(c) \/ iRest[c] = {}
    /\ rPc'   = [rPc   EXCEPT ![c] = "exit"]
    /\ iRest' = [iRest EXCEPT ![c] = {}]
    /\ UNCHANGED <<dbVars, bcVars, lockVars, callVars, rOpts, rCtx, rKey, rSeen,
                   rMax, rCount, rDirty, rRest, histVars>>

\* A notification is received and thrown away.
IndexNotify(c) ==
    /\ rPc[c] = "iselect"
    /\ rCount[c] < rMax[c]
    /\ bcCur = c
    /\ NextNotify(bcTodo)
    /\ UNCHANGED <<dbVars, watching, pending, missed, subscribers, callVars,
                   readVars, histVars>>

\* The default case: the entry the item names will be published, unless the
\* snapshot does not have it, which ends the stream.
IndexItem(c) ==
    /\ rPc[c] = "iselect"
    /\ rCount[c] < rMax[c]
    /\ ~ Done(c)
    /\ \E x \in iRest[c] :
         /\ IsIndexItem(x, iRest[c])
         /\ rPc' = [rPc EXCEPT ![c] = IF x.key \in Committed THEN "ipublish" ELSE "exit"]
    /\ UNCHANGED <<dbVars, bcVars, lockVars, callVars, rOpts, rCtx, rKey, rSeen,
                   rMax, rCount, rDirty, rRest, iRest, histVars>>

IndexPublish(c) ==
    /\ rPc[c] = "ipublish"
    /\ \E x \in iRest[c] :
         /\ IsIndexItem(x, iRest[c])
         /\ Published(c, x.key)
         /\ iRest' = [iRest EXCEPT ![c] = @ \ {x}]
    /\ rPc' = [rPc EXCEPT ![c] = "iselect"]
    /\ UNCHANGED <<dbVars, bcVars, lockVars, callVars, rOpts, rCtx, rKey, rSeen,
                   rMax, rDirty, rRest, due, dupe>>

-----------------------------------------------------------------------------
Broadcast == Watch \/ BcRecv \/ BcLock

Caller(c) == \/ \E o \in Opts : SubscribeCall(c, o)
             \/ \E n \in 1..MaxCalls : Cancel(c, n)
             \/ CancelAll(c)
             \/ SubscribeNew(c) \/ SubscribeReset(c) \/ SubscribeNil(c)

Read(c) == \/ ReadStart(c) \/ ReadOpen(c) \/ ReadEnd(c) \/ ReadNotify(c)
           \/ ReadReset(c) \/ ReadResetNil(c) \/ ReadItem(c) \/ ReadPublish(c)
           \/ WaitNotify(c) \/ WaitDone(c) \/ ReadResetFail(c) \/ ReadFail(c)
           \/ Unsubscribe(c)

ReadFromIndex(c) == \/ IndexOpen(c) \/ IndexEnd(c) \/ IndexNotify(c)
                    \/ IndexItem(c) \/ IndexPublish(c)

Next == \/ \E m \in Msgs, ts \in Times : Commit(m, ts)
        \/ Broadcast
        \/ \E c \in Clients : Caller(c) \/ Read(c) \/ ReadFromIndex(c)
        \/ Restart

Spec == Init /\ [][Next]_vars

-----------------------------------------------------------------------------
\* The steps of a reader that need no lock.  A publish is among them: the client
\* is assumed to keep receiving, since Publish blocks in the transport otherwise.
ReaderRuns(c) ==
    \/ ReadStart(c) \/ ReadOpen(c) \/ ReadEnd(c) \/ ReadNotify(c) \/ ReadReset(c)
    \/ ReadResetNil(c) \/ ReadItem(c) \/ ReadPublish(c) \/ WaitNotify(c)
    \/ WaitDone(c) \/ ReadFromIndex(c)

\* The Go scheduler runs every goroutine that can run, and sync.RWMutex gives
\* the lock to each goroutine that waits for it while others take turns.
\* Nothing makes a client call, cancel or append, a read fail or the process restart.
Fairness ==
    /\ WF_vars(Watch) /\ WF_vars(BcRecv) /\ SF_vars(BcLock)
    /\ \A c \in Clients : /\ WF_vars(ReaderRuns(c))
                          /\ SF_vars(Unsubscribe(c))
                          /\ SF_vars(SubscribeNew(c) \/ SubscribeReset(c) \/ SubscribeNil(c))

FairSpec == Spec /\ Fairness

-----------------------------------------------------------------------------
ReaderPcs == {"none", "start", "open", "select", "publish", "wait", "parked", "exit",
              "istart", "iselect", "ipublish"}

DbType == /\ entries \in [Keys -> Msgs \cup {NoMsg}]
          /\ index \in SUBSET ArrivalKeys

BcType == /\ watching \in BOOLEAN /\ pending \in BOOLEAN /\ missed \in SUBSET Keys
          /\ bcPc \in {"recv", "lock", "notify"}
          /\ bcTodo \in SUBSET Clients /\ bcCur \in Clients \cup {Nobody}

LockType == /\ sLock \in Clients \cup {Nobody, Broadcaster}
            /\ subscribers \in SUBSET Clients

CallType == /\ call \in [Clients -> {"idle", "lock", "reset"}]
            /\ callOpts \in [Clients -> Opts \cup {NilOpts}]
            /\ calls \in [Clients -> 0..MaxCalls]
            /\ cancelled \in [Clients -> SUBSET (1..MaxCalls)]

ReadType == /\ rPc \in [Clients -> ReaderPcs]
            /\ rOpts \in [Clients -> Opts \cup {NilOpts}]
            /\ rCtx \in [Clients -> 0..MaxCalls]
            /\ rKey \in [Clients -> Keys \cup {NilKey}]
            /\ rSeen \in [Clients -> Keys \cup {NilKey}]
            /\ rMax \in [Clients -> Nat] /\ rCount \in [Clients -> Nat]
            /\ rDirty \in [Clients -> BOOLEAN]
            /\ rRest \in [Clients -> SUBSET Keys]
            /\ iRest \in [Clients -> SUBSET ArrivalKeys]

HistType == /\ sent \in [Clients -> Seq(Keys)]
            /\ due \in [Clients -> SUBSET Keys]
            /\ dupe \in [Clients -> Keys \cup {NilKey}]
            /\ late \in [Clients -> Nat]

\* Every variable has its type.
TypeOK == DbType /\ BcType /\ LockType /\ CallType /\ ReadType /\ HistType

\* A notification for c is on its way: badger holds the update, or the callback
\* has it and has not been past c yet.
InFlight(c) == \/ pending
               \/ bcPc = "lock"
               \/ bcPc = "notify" /\ (bcCur = c \/ c \in bcTodo)

\* A reader never sleeps through an entry: when it is blocked at the end of
\* read's loop and no notification is on its way to it, there is no entry at
\* or after its cursor that it has not seen, except one committed while badger
\* had not registered the watch (missed).  This is what the dirty flag, the
\* snapshot taken before it is cleared, and the wait on rx are for.
NoLostWakeup ==
    \A c \in Clients :
        rPc[c] = "wait" /\ ~ Done(c) /\ ~ InFlight(c) =>
            \A k \in Committed \ missed : k >= rKey[c] => k = rSeen[c]

Streamed(c) == {sent[c][i] : i \in 1..Len(sent[c])}

\* What the channel held when a stream was opened, or opened anew by a reset,
\* has all been published when the reader first blocks, however many iterators
\* it took and whatever was appended and notified meanwhile.  The exception is
\* the entry published last before a reset, which read may take for a duplicate.
BacklogPublished ==
    \A c \in Clients :
        rPc[c] = "wait" /\ ~ Done(c) => due[c] \ {dupe[c]} \subseteq Streamed(c)

\* The same without the exception: "FromGenesis tells the server to start streaming
\* from the very beginning of the feed", also on a reset.
ReplayComplete ==
    \A c \in Clients : rPc[c] = "wait" /\ ~ Done(c) => due[c] \subseteq Streamed(c)

\* The bookmark of a stored entry.
MarkOf(k) == CHOOSE x \in index : x.key = k

\* A stream is in key order, and one from the index in order of arrival; so no
\* entry is published twice, not even when read seeks again to the last key it
\* has seen.
PublishedInOrder ==
    \A c \in Clients : \A i, j \in 1..Len(sent[c]) : i < j /\ rOpts[c] # NilOpts =>
        IF rOpts[c].fromIndex
          THEN ArrivalLT(MarkOf(sent[c][i]), MarkOf(sent[c][j]))
          ELSE sent[c][i] < sent[c][j]

\* A stream has never more entries than the limit it was opened or opened anew
\* with, although the count of read goes on over a reset, and the limit of the
\* reset may be less than what was published before it (the stream may get fewer,
\* or none).
LimitKept == \A c \in Clients : rPc[c] # "none" => Len(sent[c]) <= rMax[c]

\* Nobody holds sLock from one step to the next but to send, and nobody sends to
\* a reader that is gone: while the broadcaster hands its notification to a reader,
\* or Subscribe the new options, the goroutine that is to receive them runs,
\* however many come and go meanwhile.
SenderHasReader ==
    /\ sLock # Nobody => \E c \in Clients : bcCur = c \/ call[c] = "reset"
    /\ \A c \in Clients : bcCur = c \/ call[c] = "reset" => rPc[c] # "none"

\* Once the context of a stream is cancelled, at most the one entry that was
\* being published then still goes out.
OneAfterCancel == \A c \in Clients : late[c] <= 1

-----------------------------------------------------------------------------
\* The broadcaster holds sLock to notify a reader that waits for sLock to
\* unregister, and so will not receive.
BroadcastStuck == \E c \in Clients : bcCur = c /\ rPc[c] = "exit"

\* Subscribe holds sLock to reset a reader that is past receiving resets: it
\* waits for a notification, which needs sLock, or for sLock itself.
ResetStuck == \E c \in Clients : /\ call[c] = "reset"
                                 /\ rPc[c] \in {"wait", "parked", "exit"}

Stuck == BroadcastStuck \/ ResetStuck

\* Whoever takes sLock releases it, but for the two deadlocks above: no third
\* way for the broadcaster, the callers and the readers to wait on each other.
LockReleased ==
    \A h \in Clients \cup {Broadcaster} : sLock = h ~> (sLock # h \/ Stuck)

\* A reader works its way to every entry above its cursor that badger announced:
\* it publishes the entry or one after it, unless it ends, is told to stop by
\* nil options, or the channel is deadlocked.
TailAdvances ==
    \A c \in Clients, k \in Keys :
        (rPc[c] # "none" /\ k \in Committed \ missed /\ k > rKey[c])
            ~> \/ rKey[c] >= k \/ rSeen[c] = k
               \/ rPc[c] \in {"none", "exit", "parked"} \/ Stuck

\* Cancelling the context a reader was started with ends it and unregisters its
\* target, but for the deadlocks.
CancelEndsReader ==
    \A c \in Clients : (rPc[c] # "none" /\ Done(c)) ~> (rPc[c] = "none" \/ Stuck)

\* "broadcasting a notification of all DB updates for a given channel prefix to
\* all subscribers": a broadcast that has begun is completed.
BroadcastCompletes == bcPc = "notify" ~> bcPc = "recv"
=============================================================================
