# A TLA+ model of the vault: store, sessions, keys and p2p host

The vault (`plan-vault-libp2p`) keeps append-only *channels* of entries in a
badger database, streams them to clients over gRPC and exchanges them with
peers over libp2p. This directory holds TLA+ modules for its parts, the channel
store and the client sessions on top of it, the key ring, the p2p host and the
exchange of entries between vaults, the TLC configurations that check them, and
TLAPS proofs of the main results.

## 1. Inventory

| part | source | state | operations | talks to |
|---|---|---|---|---|
| log of a channel | `store/store.go` `Append` | the `Entries` and `ArrivalIndex` key spaces | `Append`, `Get` | badger transactions |
| subscriptions | `store/store.go` `watch`, `Subscribe`, `read`, `readFromIndex` | `subscribers`, `sLock`; per reader its cursor, `lastSeen`, `dirty`, `count` | register, reset, notify, publish, unregister | badger's `Subscribe` callback; `rx` and `resetRx` channels; the target's `Publish` |
| registry | `store/store.go` `Channel`, `ChannelUpdates` | `channels`, `updateCh` | create or look up a channel | host |
| sessions | `server/server.go` | `conn.streams`, one context per stream | `OpenFeed`, `CancelReq`, `AppendEntry`, `ChannelGenesis` | store; the gRPC stream |
| host | `p2p/host.go` | `handlers`, `lock`, the loop's `dirty` flag, the snapshot in the store | join a channel, snapshot, restore | store, topic handlers; the unbuffered `updateCh` and `snapshotUpdateCh` |
| topic handlers | `p2p/topic_handler.go` | `lastEntryID` | publish to and receive from a topic | host, store, gossipsub |
| discovery | `p2p/discovery_*.go` | peerstore | upsert a peer | host, keyring |
| keyring, key file | `keyring/` | member and community keys, the identity key on disk | add, look up, encode, decode, load, save | host |
| client | `client/client.go` | a gRPC stream | send and receive requests | sessions |
| start | `main.go` | | creates store, host and server in this order | all |
| configuration, metrics, helpers | `config/`, `metrics/`, `helpers/` | none that changes | | |

What is hard here is the concurrency in the store. For each channel there are
the appenders (one goroutine per session and per topic), the broadcaster (the
callback badger runs for every batch of updates), the callers of `Subscribe`
(session goroutines), and one reader goroutine per subscriber. They meet in one
`sync.RWMutex` and in two unbuffered Go channels per reader, and both kinds of
send are made with the mutex held. The key ring has two levels of locks and reads
some of its fields under neither; its key file is written in two steps. The host
has one loop that receives from every joining channel and every publishing
handler, takes snapshots of the handlers they change, and needs for that a lock
that a joining goroutine holds. Between vaults messages are lost, delayed and
sent again.

What makes each part correct:

* log: an entry is written once and for good; the two key spaces agree whatever
  crashes or conflicts; an appender is told of success exactly if it was it that
  wrote the entry;
* subscriptions: no entry is slept through, the backlog is complete, streams
  are in order and without duplicates, a cancelled stream falls silent and
  leaves, nobody waits forever;
* sessions: a reader can be reached by the client that started it, unless that
  reuses the ReqID, requests are answered, the end of a session leaves nothing
  behind;
* keys: a vault has one identity for good; no update of the ring is lost; what is
  accepted was signed by its sender, and what the vault signs it can verify;
* host: what handlers have published is saved, and the snapshot claims no more;
  no peer is forgotten over starts that fail; every channel is joined; the loop
  never waits on its own clients;
* vaults together: each keeps an append-only log of what clients have written
  somewhere, the echo of what they send each other ends, and what is published
  arrives or is accounted for.

## 2. Modules

```
AppendOnlyLog         one atomic Record per entry        (abstract)
  |-- EntryLog        Append, transaction by transaction, with crashes
  |     |-- EntryLogProofs      refines AppendOnlyLog; safety
  |     `-- MCEntryLog
  `-- Channel         broadcaster, callers, readers over the abstract log
        |-- ChannelProofs       types, no lost wakeup, the lock, silence after cancel
        |     `-- ChannelOrderProofs    order and completeness of streams
        |-- MCChannel
        `-- Session   VaultSession: composes a connection with Channel
              |-- SessionProofs         implements Channel; safety (uses the two above)
              `-- MCSession

KeyFile               the identity: load, or generate and save, with crashes
  `-- KeyRing         the ring of a running vault: composes callers with KeyFile
        |-- KeyRingProofs       implements KeyFile; safety
        `-- MCKeyRing

Host                  registry, loop, joins, handlers, snapshot, process start
  |-- HostProofs      safety
  `-- MCHost

SharedLog             the logs of several vaults, copied from each other (abstract)
  : INSTANCE
Gossip                handlers of several vaults over a lossy topic
  |-- GossipProofs    refines SharedLog
  `-- MCGossip
```

**AppendOnlyLog** is what the rest of the program relies on: an entry and its
index key appear in one step, and never change. Keys are natural numbers, their
rank in byte order; `KeyOf` maps a message to its key, so that two messages may
share one (EntryIDs are cut or padded to 30 bytes by `EntryKey`) and a message
without an EntryID has `NilKey`. An `ArrivalIndex` key is the pair of a time and
a key, ordered lexicographically as its big-endian bytes are.

**EntryLog** is `Channel.Append`: the arrival key is computed from the clock
(`AppendCall`), the transaction looks the key up in its snapshot (`TxnGet`), and
commits (`TxnCommit`), is refused (`TxnAbort`) or fails (`TxnFail`); the caller
then learns the result (`AppendReturn`). badger's optimistic concurrency is
external: a transaction commits only if what it read has not been written since
(`TxnConflict`). The clock moves in either direction (`ClockStep`) and the
process dies between any two steps (`LogCrash`). `acks` is the history of the
successes callers were told of.

**Channel** is everything that runs around a channel:

| code | actions |
|---|---|
| `Append`'s commit, as badger's publisher sees it | `Commit` |
| `watch` | `Watch` (registration with badger), `BcRecv` (the callback begins), `BcLock` and `NextNotify` (the loop under `sLock`) |
| `Subscribe` | `SubscribeCall`, then under the lock `SubscribeNew`, `SubscribeReset` or `SubscribeNil` |
| cancellation of a stream's context, of the connection's | `Cancel`, `CancelAll` |
| `read` | `ReadStart`, `ReadOpen` (snapshot, `dirty = false`, seek), `ReadItem`, `ReadPublish`, `ReadNotify`, `ReadReset`, `ReadResetNil`, `ReadEnd`, `WaitNotify`, `WaitDone`; its error returns `ReadFail` and `ReadResetFail` |
| `readFromIndex` | `IndexOpen`, `IndexItem`, `IndexPublish`, `IndexNotify`, `IndexEnd` |
| `unsubscribe` | `Unsubscribe` |
| process ends and starts | `Restart` |

A send on `rx` or `resetRx` and its receive are one step, since the channels are
unbuffered. That the sender has reached the send is in the state (`bcCur = c`,
`call[c] = "reset"`), but it may not have blocked in it yet, so a `select` with a
`default` may still take the default. The iterator's snapshot is the set of
keys it has still to visit (`rRest`). `parked` is a reader that nil options sent
to the end of its loop in the middle of an iterator. `pending` is one flag: badger
hands over all updates it has in one call. `missed` is the history of entries
committed before badger had registered the callback, `due` and `dupe` what the
channel held and what `lastSeen` named when the stream's options took effect,
`sent` what has been published since.

**Session** adds the connection: the session goroutine receives (`RecvOpen`,
`RecvCancel`, `RecvAppend`, `RecvRefused`), stays in `Subscribe` for as long as
that takes (`OpenSubscribes`, `OpenPanics`, `OpenReturns`), sends its answer
(`SendAnswer`), and ends (`SessionEnd`), which cancels all its contexts (`CancelAll`).
`Opts` has the options of its requests (`OptsOfReqsAssumption`). All
requests are about one channel. The client chooses the ReqIDs, and may use one again:
`vault.proto:133` allows that after `ReqComplete`, which is what `open` answers
(`server.go:141`) while the stream goes on. `conn.streams` is a set of streams, each with its
ReqID and the number of its context, and `RecvOpen` puts the new one in the place of
one with the same ReqID, as `server.go:136` does. `opened` is the history of all of
them. `NewStreamOpts` translates the request as `newStreamOpts`
does: `MaxEntriesToSend` of zero or less is no limit, `SeekEntryID` is passed on
without the channel's prefix (so it sorts at `RawSeek`, not at its key), and is
dropped for `FromIndex`. `RawSeek` is one place in the order of this channel's keys; see
section 5. A request that is refused before it reaches the store
is `RecvRefused`, whatever the reason.

**KeyFile** is `NewFromFile`: `getKeys` loads the file (`StartLoad`), refuses to start
(`StartRefused`), or generates a key (`StartCreate`) and saves it, which first
creates an empty file (`SaveOpen`) and then fills it (`SaveWrite`); any of this may
fail (`StartFail`). `Restore` makes the key the ring's identity. The process may
`Exit` at every step; a file that is there but not complete is `Torn`. `known` is the
history of the first identity.

**KeyRing** adds the ring itself. A key set is a record at a position of `keysets`,
its pointer, so that one that is replaced in the map is still held by those who
looked it up before. `AddMemberKey`, `RemoveMemberKey` and `AddCommunityKey` are two
steps under `kr.lock`: `UpdateLookup`, and `UpdateApply` (or `RemoveUnknown`), which
creates the key set if need be. `EncodeEntry` is `EncodeLookup`, `EncodeEncrypt` (or
`EncodeFail`), `EncodeSign`; `DecodeEntry` is `DecodeLookup`, `DecodeVerify`,
`DecodeDecrypt`, `DecodeReturn`. Between these steps other callers may change the
ring. A signature or a ciphertext is the name of the key it was made with.
`CryptoPanic` is a nil community or private key, or a body too short for its salt,
where the code indexes or dereferences it: the process ends. The MemberID of a
key pair is `MemberOf`, any function, since the code cuts IDs to 20 bytes. In the
vault `AddKeyPair` is called by `restore` only and the discovery channel calls
`DecodeEntry` and `AddMemberKey`; the other calls are those of the package's tests
and of the clients it is meant for.

**Host** is one vault between its store and its topics, over several starts of the
process.

| code | actions |
|---|---|
| `main`, `p2p.New`, `restore`, `server.Run` | `StartStandalone` or `StartHost`, `RestorePeer`, `Serve`, `Exit` |
| `Store.Channel` and the goroutine it starts | `Channel` |
| `Append` for a session, `onReceive` of a joined channel | `Append`, `Receive` (both `Store`) |
| the loop of `watchTopics` | `TakeOffer`, `Tick`, and its ends of the sends below |
| `joinChannel` | `JoinReturns`, `JoinTopic`, `JoinSent` |
| `TopicHandler.Publish` | `PublishTopic`, then `PublishSent` or, for the discovery channel, `PublishDiscovery`, then `PublishReturns` |
| `snapshot`, `takeSnapshot`, `writeSnapshot` | `SnapshotLock`, one `ReadTopic` for each handler, `WriteSnapshot` or `SnapshotFails` |
| discovery | `HandlePeerFound`, `HandleDiscoveryEntry` (both `Connect`) |

The log of a channel is the set of its EntryIDs, which come in any order.
`PublishTopic` is the channel's reader calling `Publish`: for any entry behind the one
before in the order of the EntryIDs, so that what is stored below the cursor is
passed by (`store.go:499`, `store.go:537`), and only if the reader gets to it: that it may
sleep through an entry (`missed`) or hang (`Stuck`) is `Channel`'s business, and nothing in
`Host` obliges it to call. The error of `topic.Publish` is dropped (`topic_handler.go:108`), so
that `sent`, the history over all starts, is what was handed to the topic and not what
left the host. `pos` is the entry `Publish` was called for, `last` is `lastEntryID`, `prev` the
one before, for the history. A pointer that a snapshot has read is an EntryID, 0 for
the empty one, `NoPtr` before it was read, or `Torn`: `takeSnapshot`
reads `lastEntryID` without a lock, and a slice header that is read while the
first entry's is assigned over the empty one may have the pointer of one and the
length of the other. From then on all are taken to have the same length, as
`vault.proto:100` expects of EntryIDs; the code does not enforce it, and with EntryIDs of
several lengths any assignment could be torn.
`LockFree` is the host's lock: joins that have not returned and the snapshot have
it.

`Channel.uri` is never assigned in the store, so that `URI()` is always empty; the
repository's README says that vaults are not yet wired up for p2p. The model has
the URIs as an input, `cfg`, chosen among `Configs` at the beginning and then fixed: no
p2p at all, the code as it is (all URIs empty: the discovery handler has joined
the topic `""`, and every other channel fails to), and every channel with a URI of
its own, which is how the code is meant. Everything is checked and proved for
all of them.

**Gossip** is several vaults and one channel: each has its log, which survives a
restart, and a handler whose reader opens an iterator behind the last entry it
has published (`Iterate`), publishes it in order (`Publish`), waits for the host's loop to
take its send on `snapshotUpdateCh` (`PublishSent`; `sending` is who waits) and starts over.
What it receives it skips, if it is its own or already stored (`ReceiveSkips`), or appends
(`ReceiveAppends`), whereupon its own reader publishes it again, or fails to decode or
store and drops (`ReceiveFails`). The reader's steps may fail to happen at any point and
for good, which stands for all that can stop it: `HostStuck` in `Host`, `missed` and `Stuck` in
`Channel`. pubsub is external: `Publish` delivers to any subset of the vaults whose handler
is in the loop of `watchTopic`, in any order. `lost` is the history of the messages a vault
that needed them did not get or could not store, `pub` that of what was published.

**SharedLog** is what this amounts to: a vault's log grows by what its own client
appends (`Write`) or what another vault has (`Copy`), never twice under one EntryID.
It is silent on which of two messages with the same EntryID a vault keeps, since the
first to arrive wins, and the vaults may differ for good. `Gossip` instantiates it
with `replica <- log`.

## 3. Runs

| run | bounds | result |
|---|---|---|
| `entry_log` | 2 appenders, 4 messages (two share a key, one has no EntryID), 2 keys, 2 clock values | all properties hold |
| `channel_reset` | 1 client, 2 calls, 3 entries, 5 kinds of options | all hold |
| `channel_two` | 2 clients (symmetric), 1 call each, 2 entries, 2 times | all hold |
| `channel_live` | 1 client, 2 calls, 2 entries, fairness | all hold |
| `channel_broadcast` | 1 client, fairness | `BroadcastCompletes` fails |
| `channel_replay` | 1 client, 2 calls | `ReplayComplete` fails |
| `session` | 1 connection, 2 opens under 2 ReqIDs, 3 kinds of request, 1 entry, fairness | all hold |
| `session_cancel` | 1 connection, 2 opens, 2 entries | `CancelIsFinal` fails |
| `session_panic` | 1 connection, 1 open | `NoPanic` fails |
| `keyring` | 2 callers (symmetric), 2 channels, 2 members, 2 key pairs, 2 community keys, 8 updates, 6 entries | all hold |
| `host` | 2 channels and the discovery channel, 1 peer, 3 configurations, 1 entry, 2 starts, 1 failed snapshot, fairness | all hold |
| `gossip` | 2 vaults, 3 messages of 2 EntryIDs, 1 restart, fairness | all hold |

**The properties that hold.**
`AppendOnly`, `AckedIsRecorded`, `OneAckPerKey` and `IndexMatchesEntries` are the
log's promises under races, conflicts, failures, retries and crashes;
`ImplementsAppendOnlyLog` is the refinement (the mapping is the identity on the
two key spaces). `NoLostWakeup` is the point of `read`'s `dirty` flag: a blocked
reader with no notification on its way has nothing left to see.
`BacklogPublished` says that what was there when a stream began has been
published when the reader first blocks, and `PublishedInOrder` that streams are
strictly increasing, hence without duplicates. `OneAfterCancel` bounds what goes
out after a cancellation. `LimitKept` is about `count`, which a reset does not
clear: the new stream may get fewer entries than its limit, never more.
`SenderHasReader` says that `sLock` is held from one step to the next only to send to
a reader, and only to one that has not left. `LockReleased`, `TailAdvances` and `CancelEndsReader`
are the liveness of the channel, `SessionEndReleases` and `OpenIsAnswered` that
of a session, all *but for* `Stuck`: the two deadlocks below. That they hold
with this exception shows that there is no third way to get stuck.
`ReaderIsCancellable` says that the stream a running reader belongs to is
in `conn.streams`, or that the client has opened another under its ReqID since
(`Overwritten`, which the run reaches: such a reader cannot be cancelled, only the end
of the session ends it, and `SessionEndReleases` says that it does), and `CancelStopsOwnReader` that a client which cancels the
stream it opened last, and is told so, gets at most the one entry under way, if the
reader is that stream's own (if it is an older one that was reset, `CancelIsFinal`
fails). `OpenIsAnswered` wants the `ReqComplete` of the very request; a restart, by a
crash or by the panic of `DontStream`, is not an answer and is excepted by name.
`ImplementsChannel` says that a session is no more than a caller as `Channel` has
it. `IdentityStable` says that no sequence of crashes, failures and starts loses the
identity or makes a second one. `KeysKept` compares every lookup with the history of
the calls that have returned, `AcceptedWasMember` an accepted entry with the keys its
sender has had since the call began, and `OwnEntriesVerify` the entries of all
earlier processes with the ring of this one.

`SnapshotNotAhead` and `CleanMeansSaved` bound the stored pointers from both sides: no
interleaving of `takeSnapshot` with handlers, and no end of the process, stores a
pointer to an entry that was not handed to the topic; and when the loop has nothing to save
the snapshot has every joined channel and lags by at most one entry, the one whose
`Publish` had sent and not yet assigned. That entry is what the comment in
`watchTopics` (`host.go:144`) overlooks: blocking the sends does not block the
assignment behind one. `PeersNeverForgotten` needs an argument over several
goroutines: the loop runs before `restore` has filled the peerstore, but nothing can
make it dirty until the server takes sessions, as the discovery channel's own offer
finds its topic joined. The mutant that serves earlier breaks it. `ChannelsJoined`, that
every channel of the registry gets a handler that watches its topic, and
`DirtySaved` are the host's liveness *but for* `HostStuck`, the deadlock of `joinChannel`
with the loop (`host.go:195`, `host.go:204`), which the run reaches, and `Unshared`, the
channels whose URI or topic is another's.

`GossipInv` says that whatever is delayed or sent again, a message names an entry its
sender has stored, and `ImplementsSharedLog` is the refinement. `EchoEnds` says that
republishing what was received dies out: it does because `Append` refuses a key it
has. `PublishedArrives` says that what a handler has published is, in the end, at every
vault, unless it is in `lost`: pubsub did not deliver it, the vault had not joined or was
restarted, or could not store it. It makes no claim that a stored entry is published:
the code has none to make, since its readers pass by what is stored below the cursor
and may stop.

**The properties that fail**, each a sentence of the repository's own docs:

* `BroadcastCompletes`. The broadcaster holds `sLock` and sends to reader *c*;
  *c* has reached its limit, or was cancelled, and waits for `sLock` in
  `unsubscribe`. Neither can go on, nor can any later `Subscribe`.
* `ReplayComplete`. After a reset `lastSeen` still names the entry published last,
  and the replay drops it as a duplicate.
* `CancelIsFinal`. A reset keeps the context and the target of the first stream:
  cancelling the second has no effect, and its entries carry the first ReqID.
* `NoPanic`. `DontStream` becomes nil options, which `Subscribe` dereferences.

More disagreements are visible in the model and have no run of their own.
`vault.proto:46-47` says of `OpenFeed` that "on success, the server does not send a
response"; `open` answers every one with a `ReqComplete` of status `Working`
(`server.go:140-147`), which the server's tests expect (`server_test.go:42-44`), and
`OpenIsAnswered` has it so. By `vault.proto:133` that `ReqComplete` frees the ReqID, and a client that then
reuses it cuts itself off from its running stream (`Overwritten`).
`Stuck` has a second disjunct: `Subscribe` holds `sLock` and sends on `resetRx`, and the
reader is blocked at the end of its loop, where it listens to `rx` and its context
but not to `resetRx`, while the broadcaster that would wake it needs `sLock`. `EntryLog`
takes the arrival time before the transaction, in seconds, from a clock that may
be set back, so an entry can enter the index before one a client has already got
past. `HostStuck` is the host's deadlock, and `Torn` a pointer no handler ever had.
`NoLostWakeup` excepts the entries in `missed`: `watch` registers with badger in a
goroutine of its own, and an entry committed before that wakes nobody.
`TailAdvances` speaks only of entries above the cursor: an entry that arrives late
with a lower EntryID is never published on a stream that has gone past it,
though `Subscribe`'s comment says "each entry". `NewStreamOpts` ignores the
`SeekEntryID` of `FromIndex`, which `vault.proto` says "is treated as the index", and
for `AtEntry` and `AfterEntry` hands on an EntryID where the iterator needs a full
key, so that the stream does not begin at the entry. A crash between `SaveOpen` and
`SaveWrite` leaves a file that every later start refuses, though `getKeys` says it
"creates one at that path if one does not exist". And no part of the vault calls
`AddCommunityKey`, so in the vault as it is an entry on the discovery channel is
rejected or, if it verifies, meets `CryptoPanic`.

**Bounds.** Two appenders and one shared key are all the conflicts there are: a
transaction reads one key. Three entries let one land before, at and after the
cursor of a reader, and make an iterator that is dropped in its middle. Two
calls are a stream and its reset; a third repeats the second. Two clients are
enough for one to be notified while the other holds or wants the lock; the loop
of the broadcaster treats a third like the second. For the key ring two callers
are all that meet at a lock or between two reads, two channels are one that
exists from the start and one that callers create, two key pairs let a crash
before the first save be followed by another key. Two channels besides the
discovery channel let one join while the other has made the loop dirty, which is
the deadlock; two starts are one that saves a peer and one that restores it. One
entry is enough for every interleaving of one `Publish` with a snapshot (a handler
publishes one at a time); `CleanMeansSaved` and `SnapshotNotAhead` are proved for
any number. Two vaults and one restart show both an echo and a vault that
misses what the other sends; two messages of one EntryID and one below it make the
vaults differ and an entry come late. The bounds in the guards are `MaxCalls`,
`MaxEntries`, `MaxStarts`, `MaxFails` and `MaxRestarts`. `MCTail` and `StoreTail` stand for `math.MaxUint64`, and are more
than an instance can publish. What was proved (below) needs none of these.

**Deadlock** is checked for the store, the sessions and the key ring: `Restart`,
`LogCrash` and `SessionRestart` are always possible, and so is a start or an exit in
`KeyRing`, so it never occurs; stuck goroutines are found by the liveness properties
instead, which no restart is obliged to repair. It is not checked in `host`, where the
process may be down with no start left, nor in `gossip`, where all is said in the end.

**Fairness** (`Fairness`, `SessionFairness`). The Go scheduler runs every goroutine
that can run: weak fairness for the registration, the callback and the
lock-free steps of each reader. `sync.RWMutex` does not starve waiters: strong
fairness for the steps that take `sLock`. A `Publish` is among the fair steps,
which assumes a client that keeps receiving: one that does not blocks its
reader, the reader the broadcaster, and that every subscriber of the channel.
For the host (`FairSpec` of `Host`) weak fairness of the loop, of `joinChannel` and of a
`Publish` that has begun, all taken together, is enough, and it is the least there is: not all
goroutines stand still while one can go on. As inputs, starts and failures are
bounded there, the work is finite, and no choice between two goroutines can go
wrong forever. For the vaults (`FairSpec` of `Gossip`) it is only the loops of `watchTopic` that
must take a message they have: what they do with it waits for neither the host's
loop nor `sLock` (a broadcaster that hangs makes badger's queue of updates grow, and would
stop appends when it is full, after a thousand batches; the instances are far below).
Nothing obliges a reader to iterate, to publish or to get past its
send, in either module.
Nothing obliges a client to call, cancel or append, a read to fail, or the
process to restart.

## 4. Proofs

The proof modules are about all values of the constants, under the named
assumptions of the modules: keys are positive naturals, `NoMsg` is not a message,
options are `StreamOpts` or nil and those of the requests are among them, the lock-holder names are no clients; `NoKey` and
`Torn` are no keys, and updates and entries are well formed.

**EntryLogProofs.** The inductive invariant `LogInv` adds to the checked properties
what is true in the middle of an `Append`: an appender about to return success
has its own message and bookmark in the database, no two appenders have the
same, and no acknowledgement has it yet. From it follow `LogTypeCorrect`,
`AckedIsRecordedHolds`, `OneAckPerKeyHolds`, `IndexMatchesEntriesHolds`,
`AppendOnlyHolds` and the refinement `LogImplementsAppendOnlyLog`.

**ChannelProofs.** `Inv == TypeOK /\ LockInv /\ WakeInv /\ LateInv /\ LimitInv`. `NoLostWakeup` is
not inductive, since it says nothing of a reader that is iterating. `WakeInv` says
that then, unless the reader is dirty or a notification is on its way, every
entry at or after its cursor which the iterator will not visit is the last one
seen. That a notification cannot pass a reader by needs `LockInv`: a reader
that runs is registered, and while the broadcaster is in its loop nobody comes
or goes. `LockInv` also says that the loop and a reset have only registered readers
before them, which is `SenderHasReader`. `LateInv` says that after the one late entry the reader is neither
publishing nor going to, and `LimitInv` that an entry about to be published is
under the limit by the count. Theorems: `TypeCorrect`, `NoLostWakeupHolds`,
`SenderHasReaderHolds`, `OneAfterCancelHolds`, `LimitKeptHolds`.

**ChannelOrderProofs.** `PublishedInOrder` and `BacklogPublished` speak of the history of a
stream, and are not inductive without the cursor. `OrdInv` adds four parts to `Inv`.
`ModeInv`: a reader keeps to the kind of stream it was started for, and a new one has
published nothing. `IndexInv`: every bookmark is of a committed entry, and no entry has
two, so that a commit does not change the place of what was published. `OrderInv`: what
was sent is not after the cursor, the cursor is on `lastSeen` once anything was sent,
and what is about to be published is not `lastSeen`; with `WakeInv`, by which the iterator is
never behind the cursor, the next entry is after all that were sent. From the
index: all bookmarks sent come before all the iterator has left. `BacklogInv`: what is due
and was not sent is committed, not before the cursor, not `lastSeen`, and ahead of an
open iterator; none is left when the reader blocks. Most steps are framed by
`StreamStep`, that only a reader's own steps change it. Theorems:
`PublishedInOrderHolds`, `BacklogPublishedHolds`; and `ChannelIsLog`, that nothing in a channel
but `Record` changes the log, so that what `EntryLogProofs` shows of a log is not undone
by its readers.

**SessionProofs.** `SessionInv` is `SessionTypeOK` and two parts. `StreamsInv`: every
stream opened and not cancelled is in `conn.streams` or was overwritten by a later one
with its ReqID, and the context of a reader is one of those opened. `CancelInv`: what was answered, or is about to be, with
`ReqDiscarded` is cancelled; the stream being opened is not; and an entry that went
out after the answer also went out after the cancellation, if the reader is that
stream's. Theorems: `SessionTypeCorrect`, `ReaderIsCancellableHolds`, `SessionsUseChannel` (the
refinement; its mapping is the identity, since `Session` extends `Channel`),
`CancelStopsOwnReaderHolds`, and `ClientsHaveChannel`, which hands the theorems about `Channel`
on to the clients of the server.

**KeyRingProofs.** First `RingImplementsKeyFile`: every step of the ring is one of
`KeyFile` or leaves it alone. `KeyInv` says what `getKeys` knows of the file at each of
its steps and that a known identity is in the file, from which `IdentityStableHolds`.
`RingInv` adds that no two channels share a key set (`MapInv`), that a caller about
to change one holds the lock and has a current lookup (`LockInv`), that a lookup made
for encoding or decoding never goes stale (`WorkInv`), that the key which is
registered while an entry waits to be verified is among those seen (`DecodeInv`),
and that only the discovery channel's key set has the vault's private key
(`OwnInv`). Theorems: `RingTypeCorrect`, `KeysKeptHolds`, `AcceptedWasMemberHolds`,
`OwnEntriesVerifyHolds`.

**HostProofs.** `HostInv` is `HostTypeOK`, `SnapshotNotAhead` and six more parts.
`ControlInv` says what can run in which state of the process, and that before `Serve`
only the discovery channel is registered and the loop is clean; `JoinInv`, that a
`joinChannel` about to send is alone under the lock with the handler it made;
`PeerInv`, that a stored peer is in the peerstore or still to be restored, from
which `PeersKept` follows since a snapshot is only written when none is left;
`HandlerInv`, how `last`, `pos`, `prev` and `sent` are related at each step of `Publish`; `TakenInv`,
that a pointer read so far was handed over; and `SavedInv`, what a
pointer may be, once it is read, while its handler goes on to finish one `Publish` and
to begin the next, until the loop receives that one's send. `CleanMeansSaved` is the
part of it that is left when the loop is back in its select. Theorems: `HostTypes`, `PointersPublished`,
`CleanIsSaved`, `PeersKept`, for any channels, URIs, peers, configurations and bounds.

**GossipProofs.** `GossipInv` is inductive as it is: a log only grows, so what an
iterator or a message has taken from it stays there. Theorems: `CarriesStored`;
`RefinesSharedLog`, in which `ClientAppend` maps to `Write`, `ReceiveAppends` to a `Copy` from
the sender (by `GossipInv` the sender has it), and the rest to stuttering; and
`FirstWinsEverywhere`, that every vault has one message per EntryID and none that no
client wrote; and `NothingVanishes`, the safety half of `PublishedArrives`: what was
published is, for every vault, stored there, in `lost`, or on its way to it from a peer.

Only model-checked is liveness, since the prover handles neither fairness nor
`ENABLED`: `LockReleased`, `TailAdvances`, `CancelEndsReader`, `SessionEndReleases`,
`OpenIsAnswered`, `ChannelsJoined`, `DirtySaved`, `EchoEnds` and `PublishedArrives`. Every invariant,
action property and refinement that a passing run checks is also proved.

## 5. Not modelled

* The client library: one gRPC call per method under a lock. Its requests are the
  inputs of `Session`.
* Configuration, metrics and helpers: parsing of flags and files, no concurrent
  state. Generated code for the wire formats.
* The bytes of peers' keys and addresses. `encodePeer` marshals a key with a header
  and `MemberPublicKeyFromBytes` takes the first 32 bytes of that, so the member key
  of a restored peer verifies nothing: a hazard without a property.
* libp2p's peerstore is a set that keeps whom the host has connected to. It also
  lists the host itself, so that `takeSnapshot` stores the host's own ID with its peers
  (`host.go:225-232`) and `restore` redials it (`host.go:257-264`): `Peers` are the others. And
  it lists for some minutes the addresses of a peer that could not
  be reached; who is only listed in passing is not in the model, nor meant by
  `PeersNeverForgotten`.
* Where a raw `SeekEntryID` sorts among the keys of *other* channels: in a store of
  several it can be another channel's key, at which the iterator is not valid for the
  prefix and the stream is empty at once (`server.go:154`, `store.go:499`). `RawSeek` is
  one place in the order of one channel, and no run has an `AtEntry` or `AfterEntry` request.
* Resets as the tests of the store have them: the target of `store_test.go` has a new ID at
  every call, so that its "reset" tests run two subscribers, and the repeated message
  of `store_test.go:260-262` is that of the second. They say nothing against
  `PublishedInOrder`, and nothing in them exercises `SubscribeReset`.
* badger, gRPC and gossipsub are external, and appear as the code uses them.
* Contents of entries, `OptKeysOnly`, metrics and logging: they do not influence
  control flow.
* Sends on the gRPC stream by the session and by its readers at once, which
  grpc-go forbids; and badger's reuse of the slice `item.Key()` returns, which the
  reader keeps in `lastSeen`. Both are listed as hazards.
* Shutdown: cancelling the process's context closes the database under the
  readers. The model has a crash instead, which leaves less behind.

## 6. Plan

1. A safety form of what ends the echo: a vault publishes an entry at most once between
   two starts, proved from the order of its reader. Runs of `Session` with `AtEntry` and
   `AfterEntry` over two channels.
2. The wait-for relation of the host (loop, joins, handlers) as an invariant, as
   `SenderHasReader` is for the channel, so that `HostStuck` is shown to be the only cycle.
3. When the store assigns URIs: a composition of `Host` with `Gossip`, in which joining
   fails or is late for some vaults only.
