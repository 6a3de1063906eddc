--------------------------------- MODULE Gossip ---------------------------------
(***************************************************************************)
(* Several vaults that share one channel through its topic: the handlers   *)
(* of p2p/topic_handler.go as joinChannel sets them up, between the        *)
(* channel's log and pubsub.  The channel has a URI (see Host).            *)
(*                                                                         *)
(* A handler is a subscriber of the channel from the genesis, which never  *)
(* ends: the reader opens an iterator behind the last entry it published,  *)
(* on the log as it is then, publishes what is in it in the order of the   *)
(* EntryIDs, and waits for the log to change.  What a handler receives is  *)
(* appended, so that its own reader publishes it again.                    *)
(*                                                                         *)
(* The reader may stop for good: it can sleep through an entry or hang     *)
(* with the channel's broadcaster (see Channel), and Publish can wait for  *)
(* ever for the host's loop (see Host).  So no step of it has to happen.   *)
(* pubsub may lose a message and deliver messages in any order.            *)
(***************************************************************************)
EXTENDS Integers

CONSTANTS Vaults,      \* the vaults
          Msgs,        \* messages
          KeyOf,       \* their EntryIDs, in the order of the store
          MaxRestarts  \* bound: restarts of all vaults

ASSUME GossipAssumption == /\ KeyOf \in [Msgs -> Nat \ {0}]
                           /\ MaxRestarts \in Nat

VARIABLES log,       \* the channel's log in each vault, which is stored
          joined,    \* the vaults whose handler is in the loop of watchTopic
          view,      \* what the reader's iterator has still to yield
          pos,       \* the last EntryID it published, 0 at the genesis
          sending,   \* the vaults whose Publish waits for the host's loop
          net,       \* messages on their way: [to, from, msg]
          restarts,  \* how often a vault was restarted
          written,   \* history: what clients have appended, and where
          pub,       \* history: what the handlers of a vault have published
          lost       \* history: messages that did not reach a vault that lacked
                     \* them, or that it could not store

hostVars == <<joined, view, pos, sending, pub>>
vars == <<log, hostVars, net, restarts, written, lost>>

-----------------------------------------------------------------------------
HasKey(v, m) == \E x \in log[v] : KeyOf[x] = KeyOf[m]

Packet == [to : Vaults, from : Vaults, msg : Msgs]

Init ==
    /\ log = [v \in Vaults |-> {}] /\ joined = {}
    /\ view = [v \in Vaults |-> {}] /\ pos = [v \in Vaults |-> 0]
    /\ sending = {} /\ net = {} /\ restarts = 0
    /\ written = {} /\ pub = [v \in Vaults |-> {}] /\ lost = {}

\* Channel.Append for a client of the vault, of an EntryID it does not have.
ClientAppend(v, m) ==
    /\ ~ HasKey(v, m)
    /\ log' = [log EXCEPT ![v] = @ \cup {m}]
    /\ written' = written \cup {<<v, m>>}
    /\ UNCHANGED <<hostVars, net, restarts, lost>>

\* joinChannel and watchTopic: the handler starts at the genesis.
Join(v) ==
    /\ v \notin joined
    /\ joined' = joined \cup {v}
    /\ pos' = [pos EXCEPT ![v] = 0]
    /\ UNCHANGED <<log, view, sending, pub, net, restarts, written, lost>>

\* The reader, with nothing left to publish, opens an iterator on a log that has
\* entries behind the last it published.
Iterate(v) ==
    /\ v \in joined \ sending /\ view[v] = {}
    /\ \E m \in log[v] : KeyOf[m] > pos[v]
    /\ view' = [view EXCEPT ![v] = {m \in log[v] : KeyOf[m] > pos[v]}]
    /\ UNCHANGED <<log, joined, pos, sending, pub, net, restarts, written, lost>>

\* TopicHandler.Publish of the iterator's next entry, which pubsub delivers to
\* some of the handlers, the one that published it among them, or to none: the
\* error of topic.Publish is not looked at.
Publish(v, m) ==
    /\ v \notin sending
    /\ m \in view[v] /\ \A x \in view[v] : KeyOf[m] <= KeyOf[x]
    /\ view' = [view EXCEPT ![v] = @ \ {m}]
    /\ pos' = [pos EXCEPT ![v] = KeyOf[m]]
    /\ sending' = sending \cup {v}
    /\ pub' = [pub EXCEPT ![v] = @ \cup {m}]
    /\ \E R \in SUBSET joined :
         /\ net' = net \cup {[to |-> w, from |-> v, msg |-> m] : w \in R}
         /\ lost' = lost \cup {<<w, m>> : w \in {x \in Vaults \ R : ~ HasKey(x, m)}}
    /\ UNCHANGED <<log, joined, restarts, written>>

\* onPublish: the host's loop, which may never do so, receives its send on
\* snapshotUpdateCh, and Publish returns to the reader.
PublishSent(v) ==
    /\ v \in sending
    /\ sending' = sending \ {v}
    /\ UNCHANGED <<log, joined, view, pos, pub, net, restarts, written, lost>>

\* Mutant: what the store has of an EntryID is sent back to who sent it.
ReceiveEchoes(v, p) ==
    /\ p.to = v /\ (p.from = v \/ HasKey(v, p.msg))
    /\ net' = (net \ {p}) \cup
                {[to |-> w, from |-> v, msg |-> m] :
                    w \in {p.from} \ {v}, m \in {x \in log[v] : KeyOf[x] = KeyOf[p.msg]}}
    /\ UNCHANGED <<log, hostVars, restarts, written, lost>>

\* watchTopic skips its own message, and Append refuses an EntryID it has.
ReceiveSkips(v, p) ==
    /\ p.to = v /\ (p.from = v \/ HasKey(v, p.msg))
    /\ net' = net \ {p}
    /\ UNCHANGED <<log, hostVars, restarts, written, lost>>

\* Mutant: an entry below what the handler has published is not appended.
ReceiveDropsOlder(v, p) ==
    /\ p.to = v /\ p.from # v /\ ~ HasKey(v, p.msg)
    /\ net' = net \ {p}
    /\ log' = [log EXCEPT ![v] = @ \cup (IF KeyOf[p.msg] > pos[v] THEN {p.msg} ELSE {})]
    /\ UNCHANGED <<hostVars, restarts, written, lost>>

\* Mutant: the store takes the entry although it has the EntryID.
ReceiveReplaces(v, p) ==
    /\ p.to = v /\ p.from # v
    /\ net' = net \ {p}
    /\ log' = [log EXCEPT ![v] = {x \in @ : KeyOf[x] # KeyOf[p.msg]} \cup {p.msg}]
    /\ UNCHANGED <<hostVars, restarts, written, lost>>

\* Mutant: what a peer has sent is passed on before it is stored.
ReceiveForwards(v, p) ==
    /\ p.to = v /\ p.from # v /\ ~ HasKey(v, p.msg)
    /\ net' = (net \ {p}) \cup {[to |-> w, from |-> v, msg |-> p.msg] : w \in joined \ {v}}
    /\ UNCHANGED <<log, hostVars, restarts, written, lost>>

\* watchTopic appends what a peer has sent.
ReceiveAppends(v, p) ==
    /\ p.to = v /\ p.from # v /\ ~ HasKey(v, p.msg)
    /\ net' = net \ {p}
    /\ log' = [log EXCEPT ![v] = @ \cup {p.msg}]
    /\ UNCHANGED <<hostVars, restarts, written, lost>>

\* What a peer has sent cannot be decoded, or Append returns an error: it is logged,
\* and the message is gone.
ReceiveFails(v, p) ==
    /\ p.to = v /\ p.from # v /\ ~ HasKey(v, p.msg)
    /\ net' = net \ {p}
    /\ lost' = lost \cup {<<v, p.msg>>}
    /\ UNCHANGED <<log, hostVars, restarts, written>>

\* The process of a vault ends and starts again: the log is stored, the rest is
\* not, and what was on its way to the vault is lost.
Restart(v) ==
    /\ v \in joined /\ restarts < MaxRestarts
    /\ restarts' = restarts + 1
    /\ joined' = joined \ {v}
    /\ view' = [view EXCEPT ![v] = {}]
    /\ pos' = [pos EXCEPT ![v] = 0]
    /\ sending' = sending \ {v}
    /\ net' = {p \in net : p.to # v}
    /\ lost' = lost \cup {<<v, p.msg>> : p \in {q \in net : q.to = v /\ ~ HasKey(v, q.msg)}}
    /\ UNCHANGED <<log, pub, written>>

\* The two goroutines of a handler: the channel's reader, which calls Publish, and
\* the loop of watchTopic.
Read(v) == Iterate(v) \/ PublishSent(v) \/ \E m \in Msgs : Publish(v, m)

Receive(v) == \E p \in net : ReceiveSkips(v, p) \/ ReceiveAppends(v, p) \/ ReceiveFails(v, p)

Next == \/ \E v \in Vaults : Join(v) \/ Read(v) \/ Receive(v) \/ Restart(v)
        \/ \E v \in Vaults, m \in Msgs : ClientAppend(v, m)

Spec == Init /\ [][Next]_vars

\* A loop of watchTopic that has a message takes it: nothing it does waits for the
\* host or for the channel's lock.  Nothing is asked of the readers.
FairSpec == Spec /\ WF_vars(\E v \in Vaults : Receive(v))

-----------------------------------------------------------------------------
\* Every variable has its type.
GossipTypeOK ==
    /\ log \in [Vaults -> SUBSET Msgs]
    /\ joined \subseteq Vaults
    /\ view \in [Vaults -> SUBSET Msgs]
    /\ pos \in [Vaults -> Nat]
    /\ sending \subseteq Vaults
    /\ net \subseteq Packet /\ restarts \in Nat
    /\ written \subseteq Vaults \X Msgs
    /\ pub \in [Vaults -> SUBSET Msgs]
    /\ lost \subseteq Vaults \X Msgs

\* Readers and messages only ever carry what is stored where they come from, over
\* restarts too: a message that arrives late names an entry its sender has.
GossipInv ==
    /\ GossipTypeOK
    /\ \A v \in Vaults : view[v] \subseteq log[v]
    /\ \A p \in net : p.msg \in log[p.from]

\* Together the vaults keep a shared log: whatever is lost, delayed, sent again
\* after a restart or sent back, a vault adds a message only for its own client
\* or from the log of another, once, and keeps the first of an EntryID.
Shared == INSTANCE SharedLog WITH replica <- log
ImplementsSharedLog == Shared!SharedSpec

\* The echo ends: each vault publishes what it has received, and is sent that
\* again, but not without end.
EchoEnds == <>[](net = {})

\* What a handler has published is stored by every other vault in the end, wherever
\* it is in the order of the EntryIDs, whatever else is under way and whoever
\* restarts, unless it is recorded as lost: pubsub did not deliver it, the vault had
\* not joined or was restarted, or it could not store it.
PublishedArrives ==
    []<>(\A v, w \in Vaults : \A m \in pub[v] : HasKey(w, m) \/ <<w, m>> \in lost)
=============================================================================
