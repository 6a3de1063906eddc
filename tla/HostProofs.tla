------------------------------- MODULE HostProofs -------------------------------
(***************************************************************************)
(* Proofs about Host for any channels, URIs, peers, configurations and     *)
(* bounds: a snapshot is never ahead of what was published, is one entry   *)
(* behind at most while the loop is clean, and forgets no peer.            *)
(***************************************************************************)
EXTENDS Host, TLAPS

Running == proc # "down" /\ ~ Standalone

\* Where the loop is when: the process that is down has nothing in memory, and
\* nothing can make the loop dirty before restore is through, as the only channel
\* there is, the discovery channel, finds its topic joined.
ControlInv ==
    /\ loop # "none" <=> Running
    /\ ~ Running => \A u \in URIs : handlers[u] = NoHandler
    /\ ~ Running => \A c \in Channels : join[c] = "none"
    /\ ~ Running => offers = {}
    /\ loop # "read" => taken = NoPointers
    /\ Running => /\ cfg.uri[Disc] \in topics
                  /\ handlers[cfg.disc].pc \notin {"none", "new"}
    /\ loop \in {"lock", "read"} => proc = "up" /\ dirty
    /\ dirty => proc = "up"
    /\ proc = "restore" => /\ offers \subseteq {Disc}
                           /\ \A c \in Channels : join[c] # "send"
                           /\ \A c \in Channels \ {Disc} : join[c] = "none"
                           /\ \A u \in URIs \ {cfg.disc} : handlers[u] = NoHandler

\* The lock is held by one joinChannel, whose handler waits for it to return.
JoinInv ==
    \A c \in Channels : join[c] = "send" =>
        /\ handlers[cfg.uri[c]].pc = "new"
        /\ \A b \in Channels : join[b] = "send" => b = c

\* The peers of the snapshot are in the peerstore or about to be.
PeerInv ==
    /\ proc = "restore" => snap.peers \subseteq peers \cup todo
    /\ proc = "up" /\ ~ Standalone => snap.peers \subseteq peers

\* How a handler's cursor and lastEntryID go together.
HandlerOK(u) ==
    LET th == handlers[u] IN
    /\ th.pc = "none" => th = NoHandler
    /\ th.pc # "none" => Serves(u, th.ch)
    /\ th.last \in sent[th.ch] \cup {0}
    /\ IF th.pc \in {"publish", "assign"} THEN th.pos \in sent[th.ch]
                                          ELSE th.pos = th.last
    /\ th.last = 0 => th.prev = 0

HandlerInv == \A u \in URIs : HandlerOK(u)

\* What takeSnapshot has read was published.
TakenInv == \A u \in URIs : taken[u] \in Nat =>
                handlers[u].pc # "none" /\ taken[u] \in sent[handlers[u].ch] \cup {0}

\* What a pointer can be after takeSnapshot has read it from a handler that, with
\* the loop elsewhere, can finish a Publish and begin one more.
Near(th, ptr) ==
    \/ ptr = th.last
    \/ ptr = th.prev /\ th.pc \in {"watch", "publish"}
    \/ ptr = th.pos /\ th.pc = "assign"
    \/ ptr = Torn /\ \/ th.last = 0 /\ th.pc = "assign"
                     \/ th.prev = 0 /\ th.pc \in {"watch", "publish"}

SavedInv ==
    \A u \in URIs :
        /\ loop = "read" /\ u # cfg.disc /\ handlers[u].pc # "none" /\ taken[u] # NoPtr
           => Near(handlers[u], taken[u])
        /\ loop = "select" /\ ~ dirty /\ u # cfg.disc /\ Watching(u)
           => Near(handlers[u], snap.topics[u])

HostInv == /\ HostTypeOK /\ ControlInv /\ JoinInv /\ PeerInv /\ HandlerInv
           /\ TakenInv /\ SnapshotNotAhead /\ SavedInv

USE HostAssumption
USE DEF vars, regVars, joinVars, loopVars, procVars, dbVars, auxVars, Standalone, Running,
        NoHandler, NewTopicHandler,
        NoPointers, ReadSnapshot, Upsert, Pointer, Handler

\* Nothing is stored or in memory at first.
LEMMA InitInv == Init => HostInv
<1> SUFFICES ASSUME Init PROVE HostInv
  OBVIOUS
<1> USE DEF Init, Stopped
<1>1. HostTypeOK
  BY DEF HostTypeOK
<1>2. ControlInv /\ JoinInv /\ PeerInv
  BY DEF ControlInv, JoinInv, PeerInv
<1>3. HandlerInv /\ TakenInv
  BY DEF HandlerInv, HandlerOK, TakenInv
<1>4. SnapshotNotAhead /\ SavedInv
  BY DEF SnapshotNotAhead, SavedInv
<1>5. QED
  BY <1>1, <1>2, <1>3, <1>4 DEF HostInv

\* The records handlers are assigned have their type.
LEMMA HandlerTypes ==
    ASSUME NEW th \in Handler, NEW c \in Channels
    PROVE  /\ NewTopicHandler(Disc, "watch") \in Handler
           /\ NewTopicHandler(c, "new") \in Handler
           /\ [th EXCEPT !.pc = "watch"] \in Handler
           /\ [th EXCEPT !.pc = "assign"] \in Handler
           /\ [th EXCEPT !.pc = "watch", !.last = th.pos, !.prev = th.last] \in Handler
           /\ \A e \in Nat : [th EXCEPT !.pc = "publish", !.pos = e] \in Handler
  OBVIOUS

\* Every step keeps the types.
LEMMA TypeStep == ASSUME HostInv, [Next]_vars PROVE HostTypeOK'
<1> USE DEF HostInv, HostTypeOK
<1>1. CASE StartStandalone
  BY <1>1 DEF StartStandalone
<1>2. CASE StartHost
  <2>1. handlers' \in [URIs -> Handler]
    BY <1>2, HandlerTypes DEF StartHost
  <2>2. QED
    BY <1>2, <2>1 DEF StartHost
<1>3. CASE Serve
  BY <1>3 DEF Serve
<1>4. CASE Exit
  BY <1>4 DEF Exit
<1>5. CASE Tick
  BY <1>5 DEF Tick
<1>6. CASE SnapshotLock
  BY <1>6 DEF SnapshotLock, LockFree
<1>7. CASE WriteSnapshot
  BY <1>7 DEF WriteSnapshot, AllRead
<1>8. CASE SnapshotFails
  BY <1>8 DEF SnapshotFails, AllRead
<1>9. ASSUME NEW p \in Peers, RestorePeer(p) PROVE HostTypeOK'
  BY <1>9 DEF RestorePeer
<1>10. ASSUME NEW p \in Peers, HandlePeerFound(p) PROVE HostTypeOK'
  BY <1>10 DEF HandlePeerFound, Connect
<1>11. ASSUME NEW p \in Peers, HandleDiscoveryEntry(p) PROVE HostTypeOK'
  BY <1>11 DEF HandleDiscoveryEntry, Connect
<1>12. ASSUME NEW c \in Channels, Channel(c) PROVE HostTypeOK'
  BY <1>12 DEF Channel
<1>13. ASSUME NEW c \in Channels, Append(c) PROVE HostTypeOK'
  BY <1>13 DEF Append, Store
<1>14. ASSUME NEW c \in Channels, TakeOffer(c) PROVE HostTypeOK'
  BY <1>14 DEF TakeOffer
<1>15. ASSUME NEW c \in Channels, JoinReturns(c) PROVE HostTypeOK'
  BY <1>15 DEF JoinReturns, LockFree
<1>16. ASSUME NEW c \in Channels, JoinTopic(c) PROVE HostTypeOK'
  <2>1. CASE UNCHANGED handlers /\ join' = [join EXCEPT ![c] = "none"]
    BY <1>16, <2>1 DEF JoinTopic
  <2>2. CASE /\ join' = [join EXCEPT ![c] = "send"]
             /\ handlers' = [handlers EXCEPT ![cfg.uri[c]] = NewTopicHandler(c, "new")]
    <3>1. handlers' \in [URIs -> Handler]
      BY <2>2
    <3>2. QED
      BY <1>16, <2>2, <3>1 DEF JoinTopic
  <2>3. QED
    BY <1>16, <2>1, <2>2 DEF JoinTopic
<1>17. ASSUME NEW c \in Channels, JoinSent(c) PROVE HostTypeOK'
  <2>1. cfg.uri[c] \in URIs /\ handlers[cfg.uri[c]] \in Handler
    OBVIOUS
  <2>2. [handlers[cfg.uri[c]] EXCEPT !.pc = "watch"] \in Handler
    BY ONLY <2>1, HandlerTypes, c \in Channels
  <2>3. handlers' = [handlers EXCEPT ![cfg.uri[c]] = [handlers[cfg.uri[c]] EXCEPT !.pc = "watch"]]
    BY <1>17 DEF JoinSent
  <2>4. handlers' \in [URIs -> Handler]
    BY <2>1, <2>2, <2>3
  <2>5. QED
    BY <1>17, <2>4 DEF JoinSent
<1>18. ASSUME NEW u \in URIs, Receive(u) PROVE HostTypeOK'
  BY <1>18 DEF Receive, Store, Watching
<1>19. ASSUME NEW u \in URIs, PublishTopic(u) PROVE HostTypeOK'
  <2>1. handlers[u] \in Handler /\ Disc \in Channels
    OBVIOUS
  <2>2. PICK e \in log[handlers[u].ch] :
          /\ handlers' = [handlers EXCEPT ![u] = [handlers[u] EXCEPT !.pc = "publish", !.pos = e]]
          /\ sent' = [sent EXCEPT ![handlers[u].ch] = @ \cup {e}]
    BY <1>19 DEF PublishTopic
  <2>3. e \in Nat \ {0}
    BY <2>1
  <2>4. [handlers[u] EXCEPT !.pc = "publish", !.pos = e] \in Handler
    BY ONLY <2>1, <2>3, HandlerTypes
  <2>5. handlers' \in [URIs -> Handler]
    BY <2>2, <2>4
  <2>6. sent' \in [Channels -> SUBSET (Nat \ {0})]
    BY <2>1, <2>2, <2>3
  <2>7. QED
    BY <1>19, <2>5, <2>6 DEF PublishTopic
<1>20. ASSUME NEW u \in URIs, PublishSent(u) PROVE HostTypeOK'
  <2>1. handlers[u] \in Handler /\ Disc \in Channels
    OBVIOUS
  <2>2. [handlers[u] EXCEPT !.pc = "assign"] \in Handler
    BY ONLY <2>1, HandlerTypes
  <2>3. handlers' = [handlers EXCEPT ![u] = [handlers[u] EXCEPT !.pc = "assign"]]
    BY <1>20 DEF PublishSent
  <2>4. handlers' \in [URIs -> Handler]
    BY <2>2, <2>3
  <2>5. QED
    BY <1>20, <2>4 DEF PublishSent
<1>21. ASSUME NEW u \in URIs, PublishDiscovery(u) PROVE HostTypeOK'
  <2>1. [handlers[u] EXCEPT !.pc = "assign"] \in Handler
    <3>1. handlers[u] \in Handler /\ Disc \in Channels
      OBVIOUS
    <3>2. QED
      BY ONLY <3>1, HandlerTypes
  <2>2. handlers' = [handlers EXCEPT ![u] = [handlers[u] EXCEPT !.pc = "assign"]]
    BY <1>21 DEF PublishDiscovery
  <2>3. handlers' \in [URIs -> Handler]
    BY <2>1, <2>2
  <2>4. peers' \subseteq Peers
    BY <1>21 DEF PublishDiscovery
  <2>5. QED
    BY <1>21, <2>3, <2>4 DEF PublishDiscovery
<1>22. ASSUME NEW u \in URIs, PublishReturns(u) PROVE HostTypeOK'
  <2>1. [handlers[u] EXCEPT !.pc = "watch", !.last = handlers[u].pos,
                            !.prev = handlers[u].last] \in Handler
    <3>1. handlers[u] \in Handler /\ Disc \in Channels
      OBVIOUS
    <3>2. QED
      BY ONLY <3>1, HandlerTypes
  <2>2. handlers' \in [URIs -> Handler]
    BY <1>22, <2>1 DEF PublishReturns
  <2>3. QED
    BY <1>22, <2>2 DEF PublishReturns
<1>23. ASSUME NEW u \in URIs, ReadTopic(u) PROVE HostTypeOK'
  BY <1>23 DEF ReadTopic
<1>24. CASE UNCHANGED vars
  BY <1>24
<1>25. QED
  BY <1>1, <1>2, <1>3, <1>4, <1>5, <1>6, <1>7, <1>8, <1>9, <1>10, <1>11, <1>12,
     <1>13, <1>14, <1>15, <1>16, <1>17, <1>18, <1>19, <1>20, <1>21, <1>22, <1>23, <1>24
     DEF Next, Process, Work, Environment, Loop, JoinChannel, Publish

\* The discovery channel cannot join a second time: its topic is in topics from the
\* start of the loop on, so that JoinTopic leaves its handler alone.
LEMMA ControlStep == ASSUME HostInv, [Next]_vars PROVE ControlInv'
<1> USE DEF HostInv, HostTypeOK, ControlInv, JoinInv
<1>1. CASE StartStandalone
  BY <1>1 DEF StartStandalone
<1>2. CASE StartHost
  BY <1>2 DEF StartHost
<1>3. CASE Serve
  BY <1>3 DEF Serve
<1>4. CASE Exit
  BY <1>4 DEF Exit
<1>5. CASE Tick
  BY <1>5 DEF Tick
<1>6. CASE SnapshotLock
  BY <1>6 DEF SnapshotLock, LockFree
<1>7. CASE WriteSnapshot
  BY <1>7 DEF WriteSnapshot, AllRead
<1>8. CASE SnapshotFails
  BY <1>8 DEF SnapshotFails, AllRead
<1>9. ASSUME NEW p \in Peers, RestorePeer(p) PROVE ControlInv'
  BY <1>9 DEF RestorePeer
<1>10. ASSUME NEW p \in Peers, HandlePeerFound(p) PROVE ControlInv'
  BY <1>10 DEF HandlePeerFound, Connect
<1>11. ASSUME NEW p \in Peers, HandleDiscoveryEntry(p) PROVE ControlInv'
  BY <1>11 DEF HandleDiscoveryEntry, Connect
<1>12. ASSUME NEW c \in Channels, Channel(c) PROVE ControlInv'
  BY <1>12 DEF Channel
<1>13. ASSUME NEW c \in Channels, Append(c) PROVE ControlInv'
  BY <1>13 DEF Append, Store
<1>14. ASSUME NEW c \in Channels, TakeOffer(c) PROVE ControlInv'
  BY <1>14 DEF TakeOffer
<1>15. ASSUME NEW c \in Channels, JoinReturns(c) PROVE ControlInv'
  BY <1>15 DEF JoinReturns, LockFree
<1>16. ASSUME NEW c \in Channels, JoinTopic(c) PROVE ControlInv'
  <2>1. /\ UNCHANGED <<cfg, proc, offers, loop, dirty, taken>>
        /\ topics' = topics \cup {cfg.uri[c]}
        /\ cfg.uri[c] \notin topics /\ join[c] = "lock" /\ handlers[cfg.uri[c]].pc = "none"
    BY <1>16 DEF JoinTopic
  <2>2. Running /\ proc = "up"
    BY <2>1
  <2>3. handlers'[cfg.disc] = handlers[cfg.disc]
    BY <1>16, <2>1, <2>2 DEF JoinTopic
  <2>4. QED
    BY <2>1, <2>2, <2>3
<1>17. ASSUME NEW c \in Channels, JoinSent(c) PROVE ControlInv'
  BY <1>17 DEF JoinSent
<1>18. ASSUME NEW u \in URIs, Receive(u) PROVE ControlInv'
  BY <1>18 DEF Receive, Store, Watching
<1>19. ASSUME NEW u \in URIs, PublishTopic(u) PROVE ControlInv'
  BY <1>19 DEF PublishTopic
<1>20. ASSUME NEW u \in URIs, PublishSent(u) PROVE ControlInv'
  BY <1>20 DEF PublishSent
<1>21. ASSUME NEW u \in URIs, PublishDiscovery(u) PROVE ControlInv'
  BY <1>21 DEF PublishDiscovery
<1>22. ASSUME NEW u \in URIs, PublishReturns(u) PROVE ControlInv'
  BY <1>22 DEF PublishReturns
<1>23. ASSUME NEW u \in URIs, ReadTopic(u) PROVE ControlInv'
  BY <1>23 DEF ReadTopic
<1>24. CASE UNCHANGED vars
  BY <1>24
<1>25. QED
  BY <1>1, <1>2, <1>3, <1>4, <1>5, <1>6, <1>7, <1>8, <1>9, <1>10, <1>11, <1>12,
     <1>13, <1>14, <1>15, <1>16, <1>17, <1>18, <1>19, <1>20, <1>21, <1>22, <1>23, <1>24
     DEF Next, Process, Work, Environment, Loop, JoinChannel, Publish

\* LockFree keeps a second joinChannel out.
LEMMA JoinStep == ASSUME HostInv, [Next]_vars PROVE JoinInv'
<1> USE DEF HostInv, HostTypeOK, ControlInv, JoinInv
<1>1. CASE StartStandalone
  BY <1>1 DEF StartStandalone
<1>2. CASE StartHost
  BY <1>2 DEF StartHost
<1>3. CASE Serve
  BY <1>3 DEF Serve
<1>4. CASE Exit
  BY <1>4 DEF Exit
<1>5. CASE Tick
  BY <1>5 DEF Tick
<1>6. CASE SnapshotLock
  BY <1>6 DEF SnapshotLock, LockFree
<1>7. CASE WriteSnapshot
  BY <1>7 DEF WriteSnapshot, AllRead
<1>8. CASE SnapshotFails
  BY <1>8 DEF SnapshotFails, AllRead
<1>9. ASSUME NEW p \in Peers, RestorePeer(p) PROVE JoinInv'
  BY <1>9 DEF RestorePeer
<1>10. ASSUME NEW p \in Peers, HandlePeerFound(p) PROVE JoinInv'
  BY <1>10 DEF HandlePeerFound, Connect
<1>11. ASSUME NEW p \in Peers, HandleDiscoveryEntry(p) PROVE JoinInv'
  BY <1>11 DEF HandleDiscoveryEntry, Connect
<1>12. ASSUME NEW c \in Channels, Channel(c) PROVE JoinInv'
  BY <1>12 DEF Channel
<1>13. ASSUME NEW c \in Channels, Append(c) PROVE JoinInv'
  BY <1>13 DEF Append, Store
<1>14. ASSUME NEW c \in Channels, TakeOffer(c) PROVE JoinInv'
  BY <1>14 DEF TakeOffer
<1>15. ASSUME NEW c \in Channels, JoinReturns(c) PROVE JoinInv'
  BY <1>15 DEF JoinReturns, LockFree
<1>16. ASSUME NEW c \in Channels, JoinTopic(c) PROVE JoinInv'
  BY <1>16 DEF JoinTopic, LockFree
<1>17. ASSUME NEW c \in Channels, JoinSent(c) PROVE JoinInv'
  BY <1>17 DEF JoinSent
<1>18. ASSUME NEW u \in URIs, Receive(u) PROVE JoinInv'
  BY <1>18 DEF Receive, Store, Watching
<1>19. ASSUME NEW u \in URIs, PublishTopic(u) PROVE JoinInv'
  BY <1>19 DEF PublishTopic
<1>20. ASSUME NEW u \in URIs, PublishSent(u) PROVE JoinInv'
  BY <1>20 DEF PublishSent
<1>21. ASSUME NEW u \in URIs, PublishDiscovery(u) PROVE JoinInv'
  BY <1>21 DEF PublishDiscovery
<1>22. ASSUME NEW u \in URIs, PublishReturns(u) PROVE JoinInv'
  BY <1>22 DEF PublishReturns
<1>23. ASSUME NEW u \in URIs, ReadTopic(u) PROVE JoinInv'
  BY <1>23 DEF ReadTopic
<1>24. CASE UNCHANGED vars
  BY <1>24
<1>25. QED
  BY <1>1, <1>2, <1>3, <1>4, <1>5, <1>6, <1>7, <1>8, <1>9, <1>10, <1>11, <1>12,
     <1>13, <1>14, <1>15, <1>16, <1>17, <1>18, <1>19, <1>20, <1>21, <1>22, <1>23, <1>24
     DEF Next, Process, Work, Environment, Loop, JoinChannel, Publish

\* A snapshot is written when the process is up, from a peerstore with every peer
\* of the one before.
LEMMA PeerStep == ASSUME HostInv, [Next]_vars PROVE PeerInv'
<1> USE DEF HostInv, HostTypeOK, ControlInv, PeerInv
<1>1. CASE StartStandalone
  BY <1>1 DEF StartStandalone
<1>2. CASE StartHost
  BY <1>2 DEF StartHost
<1>3. CASE Serve
  BY <1>3 DEF Serve
<1>4. CASE Exit
  BY <1>4 DEF Exit
<1>5. CASE Tick
  BY <1>5 DEF Tick
<1>6. CASE SnapshotLock
  BY <1>6 DEF SnapshotLock, LockFree
<1>7. CASE WriteSnapshot
  BY <1>7 DEF WriteSnapshot, AllRead
<1>8. CASE SnapshotFails
  BY <1>8 DEF SnapshotFails, AllRead
<1>9. ASSUME NEW p \in Peers, RestorePeer(p) PROVE PeerInv'
  BY <1>9 DEF RestorePeer
<1>10. ASSUME NEW p \in Peers, HandlePeerFound(p) PROVE PeerInv'
  BY <1>10 DEF HandlePeerFound, Connect
<1>11. ASSUME NEW p \in Peers, HandleDiscoveryEntry(p) PROVE PeerInv'
  BY <1>11 DEF HandleDiscoveryEntry, Connect
<1>12. ASSUME NEW c \in Channels, Channel(c) PROVE PeerInv'
  BY <1>12 DEF Channel
<1>13. ASSUME NEW c \in Channels, Append(c) PROVE PeerInv'
  BY <1>13 DEF Append, Store
<1>14. ASSUME NEW c \in Channels, TakeOffer(c) PROVE PeerInv'
  BY <1>14 DEF TakeOffer
<1>15. ASSUME NEW c \in Channels, JoinReturns(c) PROVE PeerInv'
  BY <1>15 DEF JoinReturns, LockFree
<1>16. ASSUME NEW c \in Channels, JoinTopic(c) PROVE PeerInv'
  BY <1>16 DEF JoinTopic, LockFree
<1>17. ASSUME NEW c \in Channels, JoinSent(c) PROVE PeerInv'
  BY <1>17 DEF JoinSent
<1>18. ASSUME NEW u \in URIs, Receive(u) PROVE PeerInv'
  BY <1>18 DEF Receive, Store, Watching
<1>19. ASSUME NEW u \in URIs, PublishTopic(u) PROVE PeerInv'
  BY <1>19 DEF PublishTopic
<1>20. ASSUME NEW u \in URIs, PublishSent(u) PROVE PeerInv'
  BY <1>20 DEF PublishSent
<1>21. ASSUME NEW u \in URIs, PublishDiscovery(u) PROVE PeerInv'
  BY <1>21 DEF PublishDiscovery
<1>22. ASSUME NEW u \in URIs, PublishReturns(u) PROVE PeerInv'
  BY <1>22 DEF PublishReturns
<1>23. ASSUME NEW u \in URIs, ReadTopic(u) PROVE PeerInv'
  BY <1>23 DEF ReadTopic
<1>24. CASE UNCHANGED vars
  BY <1>24
<1>25. QED
  BY <1>1, <1>2, <1>3, <1>4, <1>5, <1>6, <1>7, <1>8, <1>9, <1>10, <1>11, <1>12,
     <1>13, <1>14, <1>15, <1>16, <1>17, <1>18, <1>19, <1>20, <1>21, <1>22, <1>23, <1>24
     DEF Next, Process, Work, Environment, Loop, JoinChannel, Publish

\* A handler gives an entry to its topic before it assigns lastEntryID.
LEMMA HandlerStep == ASSUME HostInv, [Next]_vars PROVE HandlerInv'
<1> USE DEF HostInv, HostTypeOK, ControlInv, JoinInv, HandlerInv, HandlerOK, Serves
<1>1. CASE StartStandalone
  BY <1>1 DEF StartStandalone
<1>2. CASE StartHost
  BY <1>2 DEF StartHost
<1>3. CASE Serve
  BY <1>3 DEF Serve
<1>4. CASE Exit
  BY <1>4 DEF Exit
<1>5. CASE Tick
  BY <1>5 DEF Tick
<1>6. CASE SnapshotLock
  BY <1>6 DEF SnapshotLock, LockFree
<1>7. CASE WriteSnapshot
  BY <1>7 DEF WriteSnapshot, AllRead
<1>8. CASE SnapshotFails
  BY <1>8 DEF SnapshotFails, AllRead
<1>9. ASSUME NEW p \in Peers, RestorePeer(p) PROVE HandlerInv'
  BY <1>9 DEF RestorePeer
<1>10. ASSUME NEW p \in Peers, HandlePeerFound(p) PROVE HandlerInv'
  BY <1>10 DEF HandlePeerFound, Connect
<1>11. ASSUME NEW p \in Peers, HandleDiscoveryEntry(p) PROVE HandlerInv'
  BY <1>11 DEF HandleDiscoveryEntry, Connect
<1>12. ASSUME NEW c \in Channels, Channel(c) PROVE HandlerInv'
  BY <1>12 DEF Channel
<1>13. ASSUME NEW c \in Channels, Append(c) PROVE HandlerInv'
  BY <1>13 DEF Append, Store
<1>14. ASSUME NEW c \in Channels, TakeOffer(c) PROVE HandlerInv'
  BY <1>14 DEF TakeOffer
<1>15. ASSUME NEW c \in Channels, JoinReturns(c) PROVE HandlerInv'
  BY <1>15 DEF JoinReturns, LockFree
<1>16. ASSUME NEW c \in Channels, JoinTopic(c) PROVE HandlerInv'
  <2>1. cfg.uri[c] \in URIs /\ cfg' = cfg /\ sent' = sent
    BY <1>16 DEF JoinTopic
  <2>2. cfg.uri[c] # cfg.disc
    BY <1>16 DEF JoinTopic
  <2>3. CASE handlers' = handlers
    BY <2>1, <2>3
  <2>4. CASE handlers' = [handlers EXCEPT ![cfg.uri[c]] = NewTopicHandler(c, "new")]
    BY <2>1, <2>2, <2>4
  <2>5. QED
    BY <1>16, <2>3, <2>4 DEF JoinTopic
<1>17. ASSUME NEW c \in Channels, JoinSent(c) PROVE HandlerInv'
  <2>1. cfg.uri[c] \in URIs /\ cfg' = cfg /\ sent' = sent
    BY <1>17 DEF JoinSent
  <2>2. \A u \in URIs : /\ handlers'[u].ch = handlers[u].ch
                        /\ handlers'[u].pos = handlers[u].pos
                        /\ handlers'[u].last = handlers[u].last
                        /\ handlers'[u].prev = handlers[u].prev
                        /\ u # cfg.uri[c] => handlers'[u] = handlers[u]
    BY <1>17, <2>1 DEF JoinSent
  <2>3. handlers[cfg.uri[c]].pc = "new" /\ handlers'[cfg.uri[c]].pc = "watch"
    BY <1>17, <2>1 DEF JoinSent
  <2>4. ASSUME NEW u \in URIs PROVE HandlerOK(u)'
    <3>1. HandlerOK(u)
      OBVIOUS
    <3>2. CASE u = cfg.uri[c]
      BY <2>1, <2>2, <2>3, <3>1, <3>2
    <3>3. CASE u # cfg.uri[c]
      BY <2>1, <2>2, <3>1, <3>3
    <3>4. QED
      BY <3>2, <3>3
  <2>5. QED
    BY <2>4
<1>18. ASSUME NEW u \in URIs, Receive(u) PROVE HandlerInv'
  BY <1>18 DEF Receive, Store, Watching
<1>19. ASSUME NEW u \in URIs, PublishTopic(u) PROVE HandlerInv'
  BY <1>19 DEF PublishTopic
<1>20. ASSUME NEW u \in URIs, PublishSent(u) PROVE HandlerInv'
  BY <1>20 DEF PublishSent
<1>21. ASSUME NEW u \in URIs, PublishDiscovery(u) PROVE HandlerInv'
  BY <1>21 DEF PublishDiscovery
<1>22. ASSUME NEW u \in URIs, PublishReturns(u) PROVE HandlerInv'
  <2>1. /\ handlers[u] \in Handler /\ handlers[u].ch \in Channels /\ HandlerOK(u)
        /\ handlers[u].pc = "assign" /\ sent' = sent /\ cfg' = cfg
    BY <1>22 DEF PublishReturns
  <2>2. \A w \in URIs \ {u} : handlers'[w] = handlers[w]
    BY <1>22 DEF PublishReturns
  <2>3. /\ handlers'[u].ch = handlers[u].ch /\ handlers'[u].pc = "watch"
        /\ handlers'[u].pos = handlers[u].pos /\ handlers'[u].last = handlers[u].pos
    BY <1>22, <2>1 DEF PublishReturns
  <2>4. handlers[u].pos \in sent[handlers[u].ch] /\ handlers[u].pos # 0
    BY <2>1
  <2>5. HandlerOK(u)'
    BY <2>1, <2>3, <2>4
  <2>6. ASSUME NEW w \in URIs \ {u} PROVE HandlerOK(w)'
    <3>1. HandlerOK(w)
      OBVIOUS
    <3>2. QED
      BY <2>1, <2>2, <3>1
  <2>7. QED
    BY <2>5, <2>6
<1>23. ASSUME NEW u \in URIs, ReadTopic(u) PROVE HandlerInv'
  BY <1>23 DEF ReadTopic
<1>24. CASE UNCHANGED vars
  BY <1>24
<1>25. QED
  BY <1>1, <1>2, <1>3, <1>4, <1>5, <1>6, <1>7, <1>8, <1>9, <1>10, <1>11, <1>12,
     <1>13, <1>14, <1>15, <1>16, <1>17, <1>18, <1>19, <1>20, <1>21, <1>22, <1>23, <1>24
     DEF Next, Process, Work, Environment, Loop, JoinChannel, Publish

\* What is read is lastEntryID, or what is about to be assigned to it.
LEMMA TakenStep == ASSUME HostInv, [Next]_vars PROVE TakenInv'
<1> USE DEF HostInv, HostTypeOK, ControlInv, HandlerInv, HandlerOK, TakenInv
<1>1. CASE StartStandalone
  BY <1>1 DEF StartStandalone
<1>2. CASE StartHost
  BY <1>2 DEF StartHost
<1>3. CASE Serve
  BY <1>3 DEF Serve
<1>4. CASE Exit
  BY <1>4 DEF Exit
<1>5. CASE Tick
  BY <1>5 DEF Tick
<1>6. CASE SnapshotLock
  BY <1>6 DEF SnapshotLock, LockFree
<1>7. CASE WriteSnapshot
  BY <1>7 DEF WriteSnapshot, AllRead
<1>8. CASE SnapshotFails
  BY <1>8 DEF SnapshotFails, AllRead
<1>9. ASSUME NEW p \in Peers, RestorePeer(p) PROVE TakenInv'
  BY <1>9 DEF RestorePeer
<1>10. ASSUME NEW p \in Peers, HandlePeerFound(p) PROVE TakenInv'
  BY <1>10 DEF HandlePeerFound, Connect
<1>11. ASSUME NEW p \in Peers, HandleDiscoveryEntry(p) PROVE TakenInv'
  BY <1>11 DEF HandleDiscoveryEntry, Connect
<1>12. ASSUME NEW c \in Channels, Channel(c) PROVE TakenInv'
  BY <1>12 DEF Channel
<1>13. ASSUME NEW c \in Channels, Append(c) PROVE TakenInv'
  BY <1>13 DEF Append, Store
<1>14. ASSUME NEW c \in Channels, TakeOffer(c) PROVE TakenInv'
  BY <1>14 DEF TakeOffer
<1>15. ASSUME NEW c \in Channels, JoinReturns(c) PROVE TakenInv'
  BY <1>15 DEF JoinReturns, LockFree
<1>16. ASSUME NEW c \in Channels, JoinTopic(c) PROVE TakenInv'
  BY <1>16 DEF JoinTopic, LockFree
<1>17. ASSUME NEW c \in Channels, JoinSent(c) PROVE TakenInv'
  BY <1>17 DEF JoinSent
<1>18. ASSUME NEW u \in URIs, Receive(u) PROVE TakenInv'
  BY <1>18 DEF Receive, Store, Watching
<1>19. ASSUME NEW u \in URIs, PublishTopic(u) PROVE TakenInv'
  BY <1>19 DEF PublishTopic
<1>20. ASSUME NEW u \in URIs, PublishSent(u) PROVE TakenInv'
  BY <1>20 DEF PublishSent
<1>21. ASSUME NEW u \in URIs, PublishDiscovery(u) PROVE TakenInv'
  BY <1>21 DEF PublishDiscovery
<1>22. ASSUME NEW u \in URIs, PublishReturns(u) PROVE TakenInv'
  BY <1>22 DEF PublishReturns
<1>23. ASSUME NEW u \in URIs, ReadTopic(u) PROVE TakenInv'
  <2>0. handlers[u] \in Handler /\ HandlerOK(u)
    OBVIOUS
  <2>1. {handlers[u].last, handlers[u].pos} \subseteq sent[handlers[u].ch] \cup {0}
    BY <2>0
  <2>2. taken'[u] \in {handlers[u].last, handlers[u].pos, Torn}
    BY <1>23 DEF ReadTopic
  <2>3. \A w \in URIs \ {u} : taken'[w] = taken[w]
    BY <1>23 DEF ReadTopic
  <2>4. UNCHANGED <<handlers, sent>> /\ handlers[u].pc # "none"
    BY <1>23 DEF ReadTopic
  <2>5. Torn \notin Nat
    OBVIOUS
  <2>6. taken'[u] \in Nat => taken'[u] \in sent[handlers[u].ch] \cup {0}
    BY <2>1, <2>2, <2>5
  <2>7. ASSUME NEW w \in URIs, taken'[w] \in Nat
        PROVE  handlers[w].pc # "none" /\ taken'[w] \in sent[handlers[w].ch] \cup {0}
    BY <2>3, <2>4, <2>6, <2>7
  <2>8. QED
    BY <2>4, <2>7
<1>24. CASE UNCHANGED vars
  BY <1>24
<1>25. QED
  BY <1>1, <1>2, <1>3, <1>4, <1>5, <1>6, <1>7, <1>8, <1>9, <1>10, <1>11, <1>12,
     <1>13, <1>14, <1>15, <1>16, <1>17, <1>18, <1>19, <1>20, <1>21, <1>22, <1>23, <1>24
     DEF Next, Process, Work, Environment, Loop, JoinChannel, Publish

\* The snapshot is what was taken.
LEMMA AheadStep == ASSUME HostInv, [Next]_vars PROVE SnapshotNotAhead'
<1> USE DEF HostInv, HostTypeOK, HandlerInv, HandlerOK, TakenInv, SnapshotNotAhead, Serves
<1>1. CASE StartStandalone
  BY <1>1 DEF StartStandalone
<1>2. CASE StartHost
  BY <1>2 DEF StartHost
<1>3. CASE Serve
  BY <1>3 DEF Serve
<1>4. CASE Exit
  BY <1>4 DEF Exit
<1>5. CASE Tick
  BY <1>5 DEF Tick
<1>6. CASE SnapshotLock
  BY <1>6 DEF SnapshotLock, LockFree
<1>7. CASE WriteSnapshot
  BY <1>7 DEF WriteSnapshot, AllRead
<1>8. CASE SnapshotFails
  BY <1>8 DEF SnapshotFails, AllRead
<1>9. ASSUME NEW p \in Peers, RestorePeer(p) PROVE SnapshotNotAhead'
  BY <1>9 DEF RestorePeer
<1>10. ASSUME NEW p \in Peers, HandlePeerFound(p) PROVE SnapshotNotAhead'
  BY <1>10 DEF HandlePeerFound, Connect
<1>11. ASSUME NEW p \in Peers, HandleDiscoveryEntry(p) PROVE SnapshotNotAhead'
  BY <1>11 DEF HandleDiscoveryEntry, Connect
<1>12. ASSUME NEW c \in Channels, Channel(c) PROVE SnapshotNotAhead'
  BY <1>12 DEF Channel
<1>13. ASSUME NEW c \in Channels, Append(c) PROVE SnapshotNotAhead'
  BY <1>13 DEF Append, Store
<1>14. ASSUME NEW c \in Channels, TakeOffer(c) PROVE SnapshotNotAhead'
  BY <1>14 DEF TakeOffer
<1>15. ASSUME NEW c \in Channels, JoinReturns(c) PROVE SnapshotNotAhead'
  BY <1>15 DEF JoinReturns, LockFree
<1>16. ASSUME NEW c \in Channels, JoinTopic(c) PROVE SnapshotNotAhead'
  BY <1>16 DEF JoinTopic, LockFree
<1>17. ASSUME NEW c \in Channels, JoinSent(c) PROVE SnapshotNotAhead'
  BY <1>17 DEF JoinSent
<1>18. ASSUME NEW u \in URIs, Receive(u) PROVE SnapshotNotAhead'
  BY <1>18 DEF Receive, Store, Watching
<1>19. ASSUME NEW u \in URIs, PublishTopic(u) PROVE SnapshotNotAhead'
  <2>1. UNCHANGED <<snap, cfg>>
    BY <1>19 DEF PublishTopic
  <2>2. \A c \in Channels : sent[c] \subseteq sent'[c]
    BY <1>19 DEF PublishTopic
  <2>3. QED
    BY <2>1, <2>2
<1>20. ASSUME NEW u \in URIs, PublishSent(u) PROVE SnapshotNotAhead'
  BY <1>20 DEF PublishSent
<1>21. ASSUME NEW u \in URIs, PublishDiscovery(u) PROVE SnapshotNotAhead'
  BY <1>21 DEF PublishDiscovery
<1>22. ASSUME NEW u \in URIs, PublishReturns(u) PROVE SnapshotNotAhead'
  BY <1>22 DEF PublishReturns
<1>23. ASSUME NEW u \in URIs, ReadTopic(u) PROVE SnapshotNotAhead'
  BY <1>23 DEF ReadTopic
<1>24. CASE UNCHANGED vars
  BY <1>24
<1>25. QED
  BY <1>1, <1>2, <1>3, <1>4, <1>5, <1>6, <1>7, <1>8, <1>9, <1>10, <1>11, <1>12,
     <1>13, <1>14, <1>15, <1>16, <1>17, <1>18, <1>19, <1>20, <1>21, <1>22, <1>23, <1>24
     DEF Next, Process, Work, Environment, Loop, JoinChannel, Publish

\* Nothing but the loop lets a Publish go on to its assignment, so that a handler
\* moves one entry at most away from what was read.
LEMMA SavedStep == ASSUME HostInv, [Next]_vars PROVE SavedInv'
<1> USE DEF HostInv, HostTypeOK, ControlInv, HandlerInv, HandlerOK, SavedInv, Near, Watching
<1>1. CASE StartStandalone
  BY <1>1 DEF StartStandalone
<1>2. CASE StartHost
  BY <1>2 DEF StartHost
<1>3. CASE Serve
  BY <1>3 DEF Serve
<1>4. CASE Exit
  BY <1>4 DEF Exit
<1>5. CASE Tick
  BY <1>5 DEF Tick
<1>6. CASE SnapshotLock
  BY <1>6 DEF SnapshotLock, LockFree
<1>7. CASE WriteSnapshot
  BY <1>7 DEF WriteSnapshot, AllRead
<1>8. CASE SnapshotFails
  BY <1>8 DEF SnapshotFails, AllRead
<1>9. ASSUME NEW p \in Peers, RestorePeer(p) PROVE SavedInv'
  BY <1>9 DEF RestorePeer
<1>10. ASSUME NEW p \in Peers, HandlePeerFound(p) PROVE SavedInv'
  BY <1>10 DEF HandlePeerFound, Connect
<1>11. ASSUME NEW p \in Peers, HandleDiscoveryEntry(p) PROVE SavedInv'
  BY <1>11 DEF HandleDiscoveryEntry, Connect
<1>12. ASSUME NEW c \in Channels, Channel(c) PROVE SavedInv'
  BY <1>12 DEF Channel
<1>13. ASSUME NEW c \in Channels, Append(c) PROVE SavedInv'
  BY <1>13 DEF Append, Store
<1>14. ASSUME NEW c \in Channels, TakeOffer(c) PROVE SavedInv'
  BY <1>14 DEF TakeOffer
<1>15. ASSUME NEW c \in Channels, JoinReturns(c) PROVE SavedInv'
  BY <1>15 DEF JoinReturns, LockFree
<1>16. ASSUME NEW c \in Channels, JoinTopic(c) PROVE SavedInv'
  <2>1. loop # "read" /\ UNCHANGED <<cfg, loop, dirty, taken, snap>>
    BY <1>16 DEF JoinTopic, LockFree
  <2>2. \A w \in URIs : \/ handlers'[w] = handlers[w]
                        \/ handlers'[w].pc = "new"
    BY <1>16 DEF JoinTopic
  <2>3. ASSUME NEW w \in URIs, loop = "select", ~ dirty, w # cfg.disc, Watching(w)'
        PROVE Near(handlers[w], snap.topics[w])'
    <3>1. handlers'[w] = handlers[w]
      BY <2>2, <2>3
    <3>2. QED
      BY <2>1, <2>3, <3>1
  <2>4. QED
    BY <2>1, <2>3
<1>17. ASSUME NEW c \in Channels, JoinSent(c) PROVE SavedInv'
  BY <1>17 DEF JoinSent
<1>18. ASSUME NEW u \in URIs, Receive(u) PROVE SavedInv'
  BY <1>18 DEF Receive, Store, Watching
<1>19. ASSUME NEW u \in URIs, PublishTopic(u) PROVE SavedInv'
  BY <1>19 DEF PublishTopic
<1>20. ASSUME NEW u \in URIs, PublishSent(u) PROVE SavedInv'
  BY <1>20 DEF PublishSent
<1>21. ASSUME NEW u \in URIs, PublishDiscovery(u) PROVE SavedInv'
  <2>1. \A w \in URIs \ {cfg.disc} : handlers'[w] = handlers[w]
    BY <1>21 DEF PublishDiscovery
  <2>2. UNCHANGED <<cfg, loop, dirty, taken, snap>>
    BY <1>21 DEF PublishDiscovery
  <2>3. QED
    BY <2>1, <2>2
<1>22. ASSUME NEW u \in URIs, PublishReturns(u) PROVE SavedInv'
  <2>1. /\ \A w \in URIs \ {u} : handlers'[w] = handlers[w]
        /\ handlers'[u].pc = "watch" /\ handlers'[u].last = handlers[u].pos
    BY <1>22 DEF PublishReturns
  <2>2. /\ handlers[u].pc = "assign" /\ handlers'[u].prev = handlers[u].last
        /\ UNCHANGED <<cfg, loop, dirty, taken, snap>>
    BY <1>22 DEF PublishReturns
  <2>3. ASSUME NEW ptr \in Pointer, Near(handlers[u], ptr) PROVE Near(handlers'[u], ptr)
    BY <2>1, <2>2, <2>3
  <2>4. taken[u] \in Pointer /\ snap.topics[u] \in Pointer
    OBVIOUS
  <2>5. ASSUME NEW w \in URIs, loop = "read", w # cfg.disc, handlers'[w].pc # "none",
               taken[w] # NoPtr
        PROVE Near(handlers'[w], taken[w])
    <3>1. CASE w = u
      <4>1. Near(handlers[u], taken[u])
        BY <2>2, <2>5, <3>1
      <4>2. QED
        BY <2>3, <2>4, <3>1, <4>1
    <3>2. CASE w # u
      <4>1. handlers'[w] = handlers[w]
        BY <2>1, <3>2
      <4>2. QED
        BY <2>5, <4>1
    <3>3. QED
      BY <3>1, <3>2
  <2>6. ASSUME NEW w \in URIs, loop = "select", ~ dirty, w # cfg.disc, Watching(w)'
        PROVE Near(handlers'[w], snap.topics[w])
    <3>1. CASE w = u
      <4>1. Near(handlers[u], snap.topics[u])
        BY <2>2, <2>6, <3>1
      <4>2. QED
        BY <2>3, <2>4, <3>1, <4>1
    <3>2. CASE w # u
      <4>1. handlers'[w] = handlers[w]
        BY <2>1, <3>2
      <4>2. QED
        BY <2>6, <4>1
    <3>3. QED
      BY <3>1, <3>2
  <2>7. QED
    BY <2>2, <2>5, <2>6
<1>23. ASSUME NEW u \in URIs, ReadTopic(u) PROVE SavedInv'
  <2>1. /\ UNCHANGED <<cfg, handlers, loop, dirty, snap>> /\ loop = "read"
        /\ \A w \in URIs \ {u} : taken'[w] = taken[w]
    BY <1>23 DEF ReadTopic
  <2>2. Near(handlers[u], taken'[u])
    BY <1>23 DEF ReadTopic
  <2>3. ASSUME NEW w \in URIs, w # cfg.disc, handlers[w].pc # "none", taken'[w] # NoPtr
        PROVE Near(handlers[w], taken'[w])
    BY <2>1, <2>2, <2>3
  <2>4. QED
    BY <2>1, <2>3
<1>24. CASE UNCHANGED vars
  BY <1>24
<1>25. QED
  BY <1>1, <1>2, <1>3, <1>4, <1>5, <1>6, <1>7, <1>8, <1>9, <1>10, <1>11, <1>12,
     <1>13, <1>14, <1>15, <1>16, <1>17, <1>18, <1>19, <1>20, <1>21, <1>22, <1>23, <1>24
     DEF Next, Process, Work, Environment, Loop, JoinChannel, Publish

-----------------------------------------------------------------------------
LEMMA NextInv == ASSUME HostInv, [Next]_vars PROVE HostInv'
  BY TypeStep, ControlStep, JoinStep, PeerStep, HandlerStep, TakenStep, AheadStep, SavedStep
     DEF HostInv

LEMMA InvHolds == Spec => []HostInv
  BY InitInv, NextInv, PTL DEF Spec

\* Every variable of the host keeps its type.
THEOREM HostTypes == Spec => []HostTypeOK
<1>1. HostInv => HostTypeOK
  BY DEF HostInv
<1>2. QED
  BY <1>1, InvHolds, PTL

\* The snapshot's TopicPointers (host.go:213-222) never run ahead of what their
\* topics were given, for any number of handlers, entries and restarts.
THEOREM PointersPublished == Spec => []SnapshotNotAhead
<1>1. HostInv => SnapshotNotAhead
  BY DEF HostInv
<1>2. QED
  BY <1>1, InvHolds, PTL

\* While the loop of watchTopics is clean, each pointer of a joined channel is one
\* entry behind its handler at most (host.go:143-154).
THEOREM CleanIsSaved == Spec => []CleanMeansSaved
<1>1. ASSUME HostInv, loop = "select", ~ dirty, NEW u \in URIs \ {cfg.disc}, Watching(u)
      PROVE LET th == handlers[u] IN
            \/ snap.topics[u] = Torn /\ th.prev = 0
            \/ snap.topics[u] \in {th.last, th.prev}
            \/ snap.topics[u] = th.pos /\ th.pc = "assign"
  <2>1. Near(handlers[u], snap.topics[u])
    BY <1>1 DEF HostInv, SavedInv
  <2>2. HandlerOK(u)
    BY <1>1 DEF HostInv, HandlerInv
  <2>3. QED
    BY <2>1, <2>2 DEF Near, HandlerOK
<1>2. HostInv => CleanMeansSaved
  BY <1>1 DEF CleanMeansSaved
<1>3. QED
  BY <1>2, InvHolds, PTL

\* No snapshot forgets a peer of the one before (host.go:224-233), although the
\* loop starts before restore: it depends on the server starting after it
\* (host.go:123-124, main.go:28-32).
THEOREM PeersKept == Spec => PeersNeverForgotten
<1>1. ASSUME HostInv, [Next]_vars PROVE [snap.peers \subseteq snap.peers']_vars
  <2> USE DEF HostInv, HostTypeOK
  <2>1. CASE WriteSnapshot
    <3>1. proc = "up" /\ ~ Standalone
      BY <1>1, <2>1 DEF WriteSnapshot, AllRead, ControlInv
    <3>2. snap.peers \subseteq peers /\ snap'.peers = peers
      BY <1>1, <2>1, <3>1 DEF WriteSnapshot, PeerInv
    <3>3. QED
      BY <3>2
  <2>2. CASE ~ WriteSnapshot
    <3>1. snap' = snap
      BY <1>1, <2>2
         DEF Next, Process, Work, Environment, Loop, JoinChannel, Publish,
             StartStandalone, StartHost, Serve, Exit, Tick, SnapshotLock, SnapshotFails,
             RestorePeer, HandlePeerFound, HandleDiscoveryEntry, Connect, Channel, Append,
             Store, TakeOffer, JoinReturns, JoinTopic, JoinSent, Receive, PublishTopic,
             PublishSent, PublishDiscovery, PublishReturns, ReadTopic
    <3>2. QED
      BY <3>1
  <2>3. QED
    BY <2>1, <2>2
<1>2. QED
  BY <1>1, InvHolds, PTL DEF Spec, PeersNeverForgotten
=============================================================================
