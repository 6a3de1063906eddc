---------------------------------- MODULE Host ----------------------------------
(***************************************************************************)
(* The p2p host of one vault (p2p/host.go, p2p/topic_handler.go and the    *)
(* discovery of p2p/discovery_*.go), the registry of channels in the store *)
(* that feeds it, and the start of the process in main.go.                 *)
(*                                                                         *)
(* The registry offers every new channel on updateCh.  The loop of         *)
(* watchTopics takes an offer and starts joinChannel, which joins the      *)
(* channel's topic and registers a handler for it under the host's lock;   *)
(* the handler then publishes the channel's entries and tells the loop on  *)
(* snapshotUpdateCh; the loop writes a snapshot on its next tick.  Both    *)
(* channels are unbuffered: a send is one step with the loop's receive.    *)
(*                                                                         *)
(* Channel.URI() is an input of this code.  The store never assigns it, so *)
(* that every channel has the URI ""; Configs says with which URIs, and    *)
(* with which discovery URI, the process may be started.                   *)
(***************************************************************************)
EXTENDS Integers

CONSTANTS Channels,    \* ids of channels
          Disc,        \* ChannelURItoChannelID(cfg.URI), the discovery channel
          URIs, NoURI, \* URIs, and the empty one
          Peers,       \* peers other than this host, whose own ID libp2p's peerstore
                       \* has too and a snapshot stores with theirs
          Configs,     \* the configurations to start with
          NoPtr, Torn, \* no TopicPointer; a slice header read half written
          MaxEntries,  \* bound: entries of all channels, and their EntryIDs
          MaxStarts,   \* bound: starts of the process
          MaxFails     \* bound: snapshots that cannot be written

ASSUME HostAssumption ==
    /\ Disc \in Channels /\ NoURI \in URIs
    /\ Configs \subseteq [disc : URIs, uri : [Channels -> URIs]]
    /\ NoPtr \notin Nat /\ Torn \notin Nat /\ NoPtr # Torn
    /\ MaxEntries \in Nat /\ MaxStarts \in Nat /\ MaxFails \in Nat

VARIABLES cfg,       \* the configuration, which no step changes
          proc,      \* "down", "restore" (in p2p.New) or "up" (in server.Run)
          channels,  \* store.channels
          offers,    \* channels whose goroutine waits to send on updateCh
          join,      \* joinChannel of a channel: "none", "lock" or "send"
          topics,    \* topics joined in pubsub
          handlers,  \* host.handlers, with the state of each handler
          loop,      \* the loop: "none", "select", "lock" or "read"
          dirty,     \* its local variable
          taken,     \* the TopicPointers takeSnapshot has read so far
          todo,      \* the peers restore has still to connect to
          peers,     \* the peerstore
          log,       \* stored: the EntryIDs of each channel
          snap,      \* stored: the snapshot
          sent,      \* history: the entries of a channel ever handed to topic.Publish
          entries,   \* how many entries were stored
          starts,    \* how often the process was started
          fails      \* how often a snapshot was not written

regVars  == <<channels, offers>>
joinVars == <<join, topics, handlers>>
loopVars == <<loop, dirty, taken>>
procVars == <<proc, todo, peers>>
dbVars   == <<log, snap>>
auxVars  == <<cfg, sent, entries, starts, fails>>
vars     == <<regVars, joinVars, loopVars, procVars, dbVars, auxVars>>

-----------------------------------------------------------------------------
\* A TopicHandler: its channel, where its goroutines are, the entry its Publish
\* was last called for, lastEntryID (0 is the empty one) and, for the history,
\* the lastEntryID before.
Handler == [ch   : Channels,
            pc   : {"none", "new", "watch", "publish", "assign"},
            pos  : Nat,
            last : Nat,
            prev : Nat]

NewTopicHandler(c, pc) == [ch |-> c, pc |-> pc, pos |-> 0, last |-> 0, prev |-> 0]

NoHandler == NewTopicHandler(Disc, "none")

Pointer == Nat \cup {NoPtr, Torn}
NoPointers == [u \in URIs |-> NoPtr]

Standalone == cfg.disc = NoURI
Watching(u) == handlers[u].pc \in {"watch", "publish", "assign"}

\* host.lock: a joinChannel that has not returned has it, and a snapshot.
LockFree == loop # "read" /\ \A c \in Channels : join[c] # "send"

\* Store.Get and Store.Upsert of the one key: restore uses the peers only.
ReadSnapshot == snap.peers
Upsert(s) == snap' = s

\* What is in memory when nothing runs.
Stopped ==
    /\ channels = {} /\ offers = {} /\ topics = {} /\ todo = {} /\ peers = {}
    /\ join = [c \in Channels |-> "none"]
    /\ handlers = [u \in URIs |-> NoHandler]
    /\ loop = "none" /\ dirty = FALSE /\ taken = NoPointers

Init ==
    /\ cfg \in Configs
    /\ proc = "down" /\ Stopped
    /\ log = [c \in Channels |-> {}]
    /\ snap = [topics |-> NoPointers, peers |-> {}]
    /\ sent = [c \in Channels |-> {}] /\ entries = 0 /\ starts = 0 /\ fails = 0

-----------------------------------------------------------------------------
\* main up to server.Run: a vault with no discovery URI has no host ...
StartStandalone ==
    /\ proc = "down" /\ starts < MaxStarts /\ Standalone
    /\ proc' = "up" /\ starts' = starts + 1
    /\ UNCHANGED <<regVars, joinVars, loopVars, todo, peers, dbVars, cfg, sent, entries, fails>>

\* ... any other joins the topic of the discovery channel, whose handler is
\* registered under the configured URI, starts the loop and then restores.
StartHost ==
    /\ proc = "down" /\ starts < MaxStarts /\ ~ Standalone
    /\ proc' = "restore" /\ starts' = starts + 1
    /\ channels' = {Disc} /\ offers' = {Disc}
    /\ topics' = {cfg.uri[Disc]}
    /\ handlers' = [handlers EXCEPT ![cfg.disc] = NewTopicHandler(Disc, "watch")]
    /\ loop' = "select"
    /\ todo' = ReadSnapshot
    /\ UNCHANGED <<join, dirty, taken, peers, dbVars, cfg, sent, entries, fails>>

\* handleDiscoveryUpsert of a peer of the snapshot, when it can be reached.
RestorePeer(p) ==
    /\ proc = "restore" /\ p \in todo
    /\ todo' = todo \ {p} /\ peers' = peers \cup {p}
    /\ UNCHANGED <<proc, regVars, joinVars, loopVars, dbVars, auxVars>>

\* p2p.New returns and the server listens.
Serve ==
    /\ proc = "restore" /\ todo = {}
    /\ proc' = "up"
    /\ UNCHANGED <<todo, peers, regVars, joinVars, loopVars, dbVars, auxVars>>

\* The process ends: main calls log.Fatal because a peer of the snapshot could
\* not be reached, an interrupt comes, which nothing handles before Serve has
\* returned, or a goroutine panics.
Exit ==
    /\ proc # "down"
    /\ proc' = "down"
    /\ channels' = {} /\ offers' = {} /\ topics' = {} /\ todo' = {} /\ peers' = {}
    /\ join' = [c \in Channels |-> "none"]
    /\ handlers' = [u \in URIs |-> NoHandler]
    /\ loop' = "none" /\ dirty' = FALSE /\ taken' = NoPointers
    /\ UNCHANGED <<dbVars, auxVars>>

-----------------------------------------------------------------------------
\* Mutant: the server takes sessions before p2p.New has returned.
ChannelEarly(c) ==
    /\ proc # "down" /\ c \notin channels
    /\ channels' = channels \cup {c}
    /\ offers' = IF Standalone THEN {} ELSE offers \cup {c}
    /\ UNCHANGED <<joinVars, loopVars, procVars, dbVars, auxVars>>

\* Mutant: a new channel is not put into the registry.
ChannelUnregistered(c) ==
    /\ proc = "up" /\ c \notin channels
    /\ offers' = IF Standalone THEN {} ELSE offers \cup {c}
    /\ UNCHANGED <<channels, joinVars, loopVars, procVars, dbVars, auxVars>>

\* Store.Channel for a session, of a channel that is not registered yet: with a
\* host to tell, a goroutine offers it.
Channel(c) ==
    /\ proc = "up" /\ c \notin channels
    /\ channels' = channels \cup {c}
    /\ offers' = IF Standalone THEN {} ELSE offers \cup {c}
    /\ UNCHANGED <<joinVars, loopVars, procVars, dbVars, auxVars>>

\* An entry enters a channel's log, with any EntryID: from a session ...
Store(c) ==
    /\ entries < MaxEntries
    /\ entries' = entries + 1
    /\ \E k \in (1..MaxEntries) \ log[c] : log' = [log EXCEPT ![c] = @ \cup {k}]
    /\ UNCHANGED <<regVars, joinVars, loopVars, procVars, snap, cfg, sent, starts, fails>>

Append(c) == proc = "up" /\ c \in channels /\ Store(c)

\* ... or from a peer, by onReceive of a joined channel.
Receive(u) == Watching(u) /\ u # cfg.disc /\ Store(handlers[u].ch)

\* A peer becomes known once it is connected to: by mDNS, or by an Upsert entry
\* on the discovery topic, if the key ring decodes it (see KeyRing).
Connect(p) ==
    /\ proc # "down" /\ ~ Standalone
    /\ peers' = peers \cup {p}
    /\ UNCHANGED <<proc, todo, regVars, joinVars, loopVars, dbVars, auxVars>>

HandlePeerFound(p) == Connect(p)
HandleDiscoveryEntry(p) == Connect(p)

-----------------------------------------------------------------------------
\* The loop takes an offer and starts joinChannel in a goroutine.
TakeOffer(c) ==
    /\ loop = "select" /\ c \in offers
    /\ offers' = offers \ {c}
    /\ join' = [join EXCEPT ![c] = "lock"]
    /\ UNCHANGED <<channels, topics, handlers, loopVars, procVars, dbVars, auxVars>>

\* joinChannel gets the lock and returns: the URI has a handler, or its topic is
\* joined and pubsub refuses it a second time.
JoinReturns(c) ==
    /\ join[c] = "lock" /\ LockFree
    /\ \/ handlers[cfg.uri[c]].pc # "none"
       \/ cfg.uri[c] \in topics
    /\ join' = [join EXCEPT ![c] = "none"]
    /\ UNCHANGED <<topics, handlers, regVars, loopVars, procVars, dbVars, auxVars>>

\* The topic is joined; its subscription fails, and it stays joined with no
\* handler, or the handler is registered and joinChannel goes on to its send.
JoinTopic(c) ==
    /\ join[c] = "lock" /\ LockFree
    /\ handlers[cfg.uri[c]].pc = "none" /\ cfg.uri[c] \notin topics
    /\ topics' = topics \cup {cfg.uri[c]}
    /\ \/ /\ join' = [join EXCEPT ![c] = "none"]
          /\ UNCHANGED handlers
       \/ /\ join' = [join EXCEPT ![c] = "send"]
          /\ handlers' = [handlers EXCEPT ![cfg.uri[c]] = NewTopicHandler(c, "new")]
    /\ UNCHANGED <<regVars, loopVars, procVars, dbVars, auxVars>>

\* Mutant: the handler's watchTopic is not started.
JoinSentUnwatched(c) ==
    /\ join[c] = "send" /\ loop = "select"
    /\ dirty' = TRUE
    /\ join' = [join EXCEPT ![c] = "none"]
    /\ UNCHANGED <<handlers, topics, loop, taken, regVars, procVars, dbVars, auxVars>>

\* The loop receives joinChannel's send, which releases the lock and leaves the
\* handler to watchTopic.
JoinSent(c) ==
    /\ join[c] = "send" /\ loop = "select"
    /\ dirty' = TRUE
    /\ join' = [join EXCEPT ![c] = "none"]
    /\ handlers' = [handlers EXCEPT ![cfg.uri[c]].pc = "watch"]
    /\ UNCHANGED <<topics, loop, taken, regVars, procVars, dbVars, auxVars>>

-----------------------------------------------------------------------------
\* The channel's reader calls TopicHandler.Publish, which hands the entry to the
\* topic and does not look at the error.  Which entry it is, and whether there is
\* one, is the reader's affair (see Channel): it is behind the one before in the
\* order of the EntryIDs, so that what is stored below the cursor never comes, and
\* the reader may sleep through an entry or hang.
PublishTopic(u) ==
    LET th == handlers[u] IN
    /\ th.pc = "watch"
    /\ \E e \in log[th.ch] :
         /\ e > th.pos
         /\ handlers' = [handlers EXCEPT ![u] = [th EXCEPT !.pc = "publish", !.pos = e]]
         /\ sent' = [sent EXCEPT ![th.ch] = @ \cup {e}]
    /\ UNCHANGED <<join, topics, regVars, loopVars, procVars, dbVars, cfg, entries, starts, fails>>

\* onPublish of a joined channel: the loop receives its send.
PublishSent(u) ==
    /\ handlers[u].pc = "publish" /\ u # cfg.disc /\ loop = "select"
    /\ dirty' = TRUE
    /\ handlers' = [handlers EXCEPT ![u].pc = "assign"]
    /\ UNCHANGED <<join, topics, loop, taken, regVars, procVars, dbVars, auxVars>>

\* onPublish of the discovery channel: handleDiscoveryEntry, whose error is
\* ignored, of an entry that may name a peer that can be reached.
PublishDiscovery(u) ==
    /\ handlers[u].pc = "publish" /\ u = cfg.disc
    /\ \E ps \in {{}} \cup {{p} : p \in Peers} : peers' = peers \cup ps
    /\ handlers' = [handlers EXCEPT ![u].pc = "assign"]
    /\ UNCHANGED <<proc, todo, join, topics, regVars, loopVars, dbVars, auxVars>>

\* lastEntryID is assigned last.
PublishReturns(u) ==
    /\ handlers[u].pc = "assign"
    /\ handlers' = [handlers EXCEPT ![u] = [handlers[u] EXCEPT !.pc = "watch",
                                                               !.last = handlers[u].pos,
                                                               !.prev = handlers[u].last]]
    /\ UNCHANGED <<join, topics, regVars, loopVars, procVars, dbVars, auxVars>>

-----------------------------------------------------------------------------
\* The ticker fires; snapshot has nothing to do unless dirty.
Tick ==
    /\ loop = "select" /\ dirty
    /\ loop' = "lock"
    /\ UNCHANGED <<dirty, taken, regVars, joinVars, procVars, dbVars, auxVars>>

\* Mutant: the snapshot also locks every handler, which its Publish has locked.
SnapshotLocksHandlers ==
    /\ loop = "lock" /\ LockFree
    /\ \A u \in URIs : handlers[u].pc # "publish"
    /\ loop' = "read"
    /\ UNCHANGED <<dirty, taken, regVars, joinVars, procVars, dbVars, auxVars>>

SnapshotLock ==
    /\ loop = "lock" /\ LockFree
    /\ loop' = "read"
    /\ UNCHANGED <<dirty, taken, regVars, joinVars, procVars, dbVars, auxVars>>

\* Mutant: the pointer is a key of the channel, published or not.
ReadTopicHead(u) ==
    /\ loop = "read" /\ handlers[u].pc # "none" /\ taken[u] = NoPtr
    /\ \E e \in log[handlers[u].ch] \cup {0} : taken' = [taken EXCEPT ![u] = e]
    /\ UNCHANGED <<loop, dirty, regVars, joinVars, procVars, dbVars, auxVars>>

\* takeSnapshot reads lastEntryID of a handler, with no lock of the handler's:
\* while Publish assigns it the old slice, the new one or, as the first has
\* another length than the empty slice, a mixture of both is read.  EntryIDs are
\* taken to have one length, as vault.proto:100 expects; the code does not see to it.
ReadTopic(u) ==
    LET th == handlers[u] IN
    /\ loop = "read" /\ th.pc # "none" /\ taken[u] = NoPtr
    /\ \/ taken' = [taken EXCEPT ![u] = th.last]
       \/ th.pc = "assign" /\ taken' = [taken EXCEPT ![u] = th.pos]
       \/ th.pc = "assign" /\ th.last = 0 /\ taken' = [taken EXCEPT ![u] = Torn]
    /\ UNCHANGED <<loop, dirty, regVars, joinVars, procVars, dbVars, auxVars>>

AllRead == loop = "read" /\ \A u \in URIs : handlers[u].pc # "none" => taken[u] # NoPtr

\* The peers are read, and the snapshot is written.
WriteSnapshot ==
    /\ AllRead
    /\ Upsert([topics |-> taken, peers |-> peers])
    /\ loop' = "select" /\ dirty' = FALSE /\ taken' = NoPointers
    /\ UNCHANGED <<regVars, joinVars, procVars, log, auxVars>>

\* Mutant: dirty is cleared whether or not the snapshot was written.
SnapshotFailsClean ==
    /\ AllRead /\ fails < MaxFails
    /\ loop' = "select" /\ dirty' = FALSE /\ taken' = NoPointers
    /\ fails' = fails + 1
    /\ UNCHANGED <<regVars, joinVars, procVars, dbVars, cfg, sent, entries, starts>>

\* It cannot be encoded or written: dirty stays for the next tick.
SnapshotFails ==
    /\ AllRead /\ fails < MaxFails
    /\ loop' = "select" /\ taken' = NoPointers /\ fails' = fails + 1
    /\ UNCHANGED <<dirty, regVars, joinVars, procVars, dbVars, cfg, sent, entries, starts>>

-----------------------------------------------------------------------------
\* The process; the goroutines of joinChannel, of a Publish and of the loop; and
\* what comes from sessions, peers, the channels' readers and the disk.
Process == StartStandalone \/ StartHost \/ Serve \/ Exit \/ \E p \in Peers : RestorePeer(p)

JoinChannel(c) == JoinReturns(c) \/ JoinTopic(c) \/ JoinSent(c)

Publish(u) == PublishSent(u) \/ PublishDiscovery(u) \/ PublishReturns(u)

Loop == \/ \E c \in Channels : TakeOffer(c)
        \/ \E u \in URIs : ReadTopic(u)
        \/ Tick \/ SnapshotLock \/ WriteSnapshot

Environment == \/ \E p \in Peers : HandlePeerFound(p) \/ HandleDiscoveryEntry(p)
               \/ \E c \in Channels : Channel(c) \/ Append(c)
               \/ \E u \in URIs : Receive(u) \/ PublishTopic(u)
               \/ SnapshotFails

Work == Loop \/ (\E c \in Channels : JoinChannel(c)) \/ (\E u \in URIs : Publish(u))

Next == Process \/ Work \/ Environment

Spec == Init /\ [][Next]_vars

\* The host's goroutines do not all stand still while one of them can go on.
\* With inputs as bounded as they are here no more is needed: the work they have
\* is finite.  Nothing is asked of the readers, which need not call Publish.
FairSpec == Spec /\ WF_vars(Work)

-----------------------------------------------------------------------------
\* Every variable has its type.
HostTypeOK ==
    /\ cfg \in [disc : URIs, uri : [Channels -> URIs]]
    /\ proc \in {"down", "restore", "up"}
    /\ channels \subseteq Channels /\ offers \subseteq channels
    /\ join \in [Channels -> {"none", "lock", "send"}]
    /\ topics \subseteq URIs
    /\ handlers \in [URIs -> Handler]
    /\ loop \in {"none", "select", "lock", "read"} /\ dirty \in BOOLEAN
    /\ taken \in [URIs -> Pointer]
    /\ todo \subseteq Peers /\ peers \subseteq Peers
    /\ log \in [Channels -> SUBSET (Nat \ {0})]
    /\ snap \in [topics : [URIs -> Pointer], peers : SUBSET Peers]
    /\ sent \in [Channels -> SUBSET (Nat \ {0})]
    /\ entries \in Nat /\ starts \in Nat /\ fails \in Nat

\* Whose entries the pointer of a URI is about.
Serves(u, c) == IF u = cfg.disc THEN c = Disc ELSE cfg.uri[c] = u

\* A TopicPointer's LastEntryPublished really was handed to the topic, at the time
\* of the snapshot or before: whatever handlers do while takeSnapshot reads them
\* and wherever the process ends, the stored pointer is not ahead of its topic (but
\* it may be a torn read, host.go:219).
SnapshotNotAhead ==
    \A u \in URIs : snap.topics[u] \in Nat \ {0} =>
        \E c \in Channels : Serves(u, c) /\ snap.topics[u] \in sent[c]

\* While the loop has nothing to save, the stored snapshot has every channel that
\* has been joined, and is at most one entry behind lastEntryID: the one whose
\* Publish was between its send and its assignment when the snapshot was taken.
\* Nothing tells the loop of that one until the next.
CleanMeansSaved ==
    loop = "select" /\ ~ dirty =>
        \A u \in URIs \ {cfg.disc} : Watching(u) =>
            LET th == handlers[u] IN
            \/ snap.topics[u] = Torn /\ th.prev = 0
            \/ snap.topics[u] \in {th.last, th.prev}
            \/ snap.topics[u] = th.pos /\ th.pc = "assign"

\* A peer the snapshot knows is never forgotten: over starts that fail half way,
\* with the loop running while restore does, no snapshot is written from a
\* peerstore that lacks a peer of the one before.
PeersNeverForgotten == [][snap.peers \subseteq snap.peers']_vars

\* The joinChannel that waits for a loop that waits for its lock (host.go:195,
\* host.go:204).
HostStuck == loop = "lock" /\ \E c \in Channels : join[c] = "send"

\* The channel will not be shared: its URI or its topic is another's, or the
\* subscription to the topic has failed.
Unshared(c) ==
    LET th == handlers[cfg.uri[c]] IN
    IF th.pc = "none" THEN cfg.uri[c] \in topics ELSE th.ch # c

\* Every channel of the registry is joined in the end: its offer is taken, however
\* many joinChannels contend for the lock and the loop, and its handler is watching
\* its topic, but for the deadlock, the end of the process and the channels that
\* are not shared.
ChannelsJoined ==
    \A c \in Channels : c \in channels ~>
        \/ proc = "down" \/ Standalone \/ HostStuck \/ Unshared(c)
        \/ Watching(cfg.uri[c]) /\ handlers[cfg.uri[c]].ch = c

\* What the loop has been told of is saved, but for the deadlock.
DirtySaved == []<>(~ dirty \/ HostStuck)
=============================================================================
