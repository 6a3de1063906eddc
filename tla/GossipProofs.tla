------------------------------ MODULE GossipProofs ------------------------------
(***************************************************************************)
(* Proofs about Gossip for any vaults, messages and number of restarts:    *)
(* what is under way comes from the logs, and the vaults together          *)
(* implement SharedLog.                                                    *)
(***************************************************************************)
EXTENDS Gossip, TLAPS

USE DEF Packet, HasKey

LEMMA InitInv == Init => GossipInv
  BY DEF Init, GossipInv, GossipTypeOK

\* Every step keeps the invariant: logs only grow, so that what was read from one
\* stays in it.
LEMMA NextInv == ASSUME GossipInv, [Next]_vars PROVE GossipInv'
<1> USE GossipAssumption DEF GossipInv, GossipTypeOK
<1>1. ASSUME NEW v \in Vaults, NEW m \in Msgs, ClientAppend(v, m) PROVE GossipInv'
  BY <1>1 DEF ClientAppend, hostVars
<1>2. ASSUME NEW v \in Vaults, Join(v) PROVE GossipInv'
  BY <1>2 DEF Join
<1>3. ASSUME NEW v \in Vaults, Iterate(v) PROVE GossipInv'
  BY <1>3 DEF Iterate
<1>4. ASSUME NEW v \in Vaults, NEW m \in Msgs, Publish(v, m) PROVE GossipInv'
  <2>1. PICK R \in SUBSET joined :
          /\ net' = net \cup {[to |-> w, from |-> v, msg |-> m] : w \in R}
          /\ lost' = lost \cup {<<w, m>> : w \in {x \in Vaults \ R : ~ HasKey(x, m)}}
    BY <1>4 DEF Publish
  <2>2. m \in log[v]
    BY <1>4 DEF Publish
  <2>3. net' \subseteq Packet /\ \A p \in net' : p.msg \in log'[p.from]
    BY <1>4, <2>1, <2>2 DEF Publish
  <2>4. lost' \subseteq Vaults \X Msgs
    BY <2>1
  <2>5. /\ view' \in [Vaults -> SUBSET Msgs] /\ pos' \in [Vaults -> Nat]
        /\ pub' \in [Vaults -> SUBSET Msgs]
        /\ \A w \in Vaults : view'[w] \subseteq log'[w]
    BY <1>4 DEF Publish
  <2>6. QED
    BY <1>4, <2>3, <2>4, <2>5 DEF Publish
<1>5. ASSUME NEW v \in Vaults, NEW p \in net, ReceiveSkips(v, p) PROVE GossipInv'
  BY <1>5 DEF ReceiveSkips, hostVars
<1>6. ASSUME NEW v \in Vaults, NEW p \in net, ReceiveAppends(v, p) PROVE GossipInv'
  BY <1>6 DEF ReceiveAppends, hostVars
<1>7. ASSUME NEW v \in Vaults, Restart(v) PROVE GossipInv'
  <2>1. lost' \subseteq Vaults \X Msgs /\ net' \subseteq net
    BY <1>7 DEF Restart
  <2>2. QED
    BY <1>7, <2>1 DEF Restart
<1>8. ASSUME NEW v \in Vaults, PublishSent(v) PROVE GossipInv'
  BY <1>8 DEF PublishSent
<1>9. ASSUME NEW v \in Vaults, NEW p \in net, ReceiveFails(v, p) PROVE GossipInv'
  BY <1>9 DEF ReceiveFails, hostVars
<1>10. CASE UNCHANGED vars
  BY <1>10 DEF vars, hostVars
<1>11. QED
  BY <1>1, <1>2, <1>3, <1>4, <1>5, <1>6, <1>7, <1>8, <1>9, <1>10 DEF Next, Read, Receive

\* Readers and messages carry what is stored where they come from
\* (topic_handler.go:69-111): GossipInv is inductive as it stands.
THEOREM CarriesStored == Spec => []GossipInv
  BY InitInv, NextInv, PTL DEF Spec

-----------------------------------------------------------------------------
LEMMA InitShared == Init => Shared!SharedInit
  BY DEF Init, Shared!SharedInit

\* A client's append is a Write, an entry that is received a Copy from the vault
\* that sent it, and no other step touches the logs.
LEMMA StepShared ==
    ASSUME GossipInv, [Next]_vars PROVE [Shared!SharedNext]_<<log, written>>
<1> USE DEF GossipInv, GossipTypeOK
<1>1. ASSUME NEW v \in Vaults, NEW m \in Msgs, ClientAppend(v, m)
      PROVE Shared!SharedNext
  BY <1>1 DEF ClientAppend, Shared!SharedNext, Shared!Write, Shared!Add, Shared!HasKey
<1>2. ASSUME NEW v \in Vaults, NEW p \in net, ReceiveAppends(v, p)
      PROVE Shared!SharedNext
  <2>1. p.from \in Vaults /\ p.msg \in Msgs /\ p.msg \in log[p.from]
    OBVIOUS
  <2>2. Shared!Copy(v, p.from, p.msg)
    BY <1>2, <2>1 DEF ReceiveAppends, Shared!Copy, Shared!Add, Shared!HasKey
  <2>3. QED
    BY <2>1, <2>2 DEF Shared!SharedNext
<1>3. ASSUME \/ \E v \in Vaults : \/ Join(v) \/ Iterate(v) \/ Restart(v)
                                 \/ PublishSent(v) \/ \E m \in Msgs : Publish(v, m)
                                 \/ \E p \in net : ReceiveSkips(v, p) \/ ReceiveFails(v, p)
             \/ UNCHANGED vars
      PROVE UNCHANGED <<log, written>>
  BY <1>3 DEF Join, Iterate, Restart, PublishSent, Publish, ReceiveSkips, ReceiveFails, vars
<1>4. QED
  BY <1>1, <1>2, <1>3 DEF Next, Read, Receive

\* The vaults together implement SharedLog: for any number of vaults and whatever
\* is lost, reordered or sent again, an entry gets into a log from a client of the
\* vault or from the log of another vault, and stays.
THEOREM RefinesSharedLog == Spec => ImplementsSharedLog
<1>1. GossipInv /\ [Next]_vars => [Shared!SharedNext]_<<log, written>>
  BY StepShared
<1>2. QED
  BY <1>1, InitShared, CarriesStored, PTL
     DEF Spec, ImplementsSharedLog, Shared!SharedSpec, Shared!sharedVars

-----------------------------------------------------------------------------
\* What follows from SharedLog alone.
LEMMA SharedOnce ==
    ASSUME Shared!OneEntryPerID, Shared!WrittenSomewhere, log \in [Vaults -> SUBSET Msgs],
           [Shared!SharedNext]_<<log, written>>
    PROVE  Shared!OneEntryPerID' /\ Shared!WrittenSomewhere'
<1> USE DEF Shared!OneEntryPerID, Shared!WrittenSomewhere
<1>1. ASSUME NEW v \in Vaults, NEW m \in Msgs, Shared!Add(v, m)
      PROVE /\ Shared!OneEntryPerID'
            /\ \A w \in Vaults : log'[w] = IF w = v THEN log[w] \cup {m} ELSE log[w]
  BY <1>1 DEF Shared!Add, Shared!HasKey
<1>2. ASSUME NEW v \in Vaults, NEW m \in Msgs, Shared!Write(v, m)
      PROVE Shared!OneEntryPerID' /\ Shared!WrittenSomewhere'
  <2>1. Shared!Add(v, m) /\ written' = written \cup {<<v, m>>}
    BY <1>2 DEF Shared!Write
  <2>2. ASSUME NEW w \in Vaults, NEW x \in log'[w]
        PROVE \E y \in Vaults : <<y, x>> \in written'
    <3>0. log'[w] = IF w = v THEN log[w] \cup {m} ELSE log[w]
      BY <1>1, <2>1
    <3>1. x \in log[w] \/ x = m
      BY <3>0, <2>2
    <3>2. CASE x \in log[w]
      <4>1. PICK y \in Vaults : <<y, x>> \in written
        BY <3>2
      <4>2. QED
        BY <2>1, <4>1
    <3>3. CASE x = m
      BY <2>1, <3>3
    <3>4. QED
      BY <3>1, <3>2, <3>3
  <2>3. QED
    BY <1>1, <2>1, <2>2
<1>3. ASSUME NEW v \in Vaults, NEW w \in Vaults, NEW m \in Msgs, Shared!Copy(v, w, m)
      PROVE Shared!OneEntryPerID' /\ Shared!WrittenSomewhere'
  <2>1. Shared!Add(v, m) /\ m \in log[w] /\ written' = written
    BY <1>3 DEF Shared!Copy
  <2>2. ASSUME NEW y \in Vaults, NEW x \in log'[y]
        PROVE \E z \in Vaults : <<z, x>> \in written'
    <3>0. log'[y] = IF y = v THEN log[y] \cup {m} ELSE log[y]
      BY <1>1, <2>1
    <3>1. x \in log[y] \/ x = m
      BY <3>0, <2>2
    <3>2. QED
      BY <2>1, <3>1
  <2>3. QED
    BY <1>1, <2>1, <2>2
<1>4. QED
  BY <1>2, <1>3 DEF Shared!SharedNext

\* No vault ever has two messages of one EntryID, nor one that no client has
\* appended at some vault, although a handler appends whatever it receives.
THEOREM FirstWinsEverywhere == Spec => [](Shared!OneEntryPerID /\ Shared!WrittenSomewhere)
<1>1. Init => Shared!OneEntryPerID /\ Shared!WrittenSomewhere
  BY DEF Init, Shared!OneEntryPerID, Shared!WrittenSomewhere
<1>2. GossipInv /\ Shared!OneEntryPerID /\ Shared!WrittenSomewhere /\ [Next]_vars
      => (Shared!OneEntryPerID /\ Shared!WrittenSomewhere)'
  BY SharedOnce, StepShared DEF GossipInv, GossipTypeOK
<1>3. QED
  BY <1>1, <1>2, CarriesStored, PTL DEF Spec

-----------------------------------------------------------------------------
\* Where a published message is, as seen from a vault: stored (it, or another of its
\* EntryID), recorded as lost, or on its way.
Accounted(w, m) ==
    \/ HasKey(w, m) \/ <<w, m>> \in lost
    \/ \E p \in net : p.to = w /\ p.msg = m /\ p.from # w

AccountedInv == \A v, w \in Vaults : \A m \in pub[v] : Accounted(w, m)

\* Only a Publish adds to what is published, and it sends the message to, or records
\* it as lost for, every vault that lacks it; a vault takes a message off the network
\* when it has it, stores it or gives it up.
LEMMA AccountedStep ==
    ASSUME GossipInv, AccountedInv, [Next]_vars PROVE AccountedInv'
<1> USE DEF GossipInv, GossipTypeOK
<1>a. ASSUME NEW w \in Vaults, NEW x \in Msgs, Accounted(w, x),
             log[w] \subseteq log'[w], lost \subseteq lost',
             ASSUME NEW q \in net, q.to = w, q.msg = x, q.from # w, ~ HasKey(w, x)
             PROVE  Accounted(w, x)'
      PROVE Accounted(w, x)'
  <2>1. CASE HasKey(w, x)
    BY <1>a, <2>1 DEF Accounted
  <2>2. CASE <<w, x>> \in lost
    BY <1>a, <2>2 DEF Accounted
  <2>3. CASE ~ HasKey(w, x) /\ \E p \in net : p.to = w /\ p.msg = x /\ p.from # w
    BY <1>a, <2>3
  <2>4. QED
    BY <1>a, <2>1, <2>2, <2>3 DEF Accounted
<1>b. ASSUME UNCHANGED pub, \A w \in Vaults, x \in Msgs : Accounted(w, x) => Accounted(w, x)'
       PROVE AccountedInv'
  BY <1>b DEF AccountedInv
<1>1. ASSUME NEW v \in Vaults, NEW m \in Msgs, ClientAppend(v, m) PROVE AccountedInv'
  <2>1. /\ UNCHANGED <<net, lost, pub>>
        /\ \A w \in Vaults : log[w] \subseteq log'[w]
    BY <1>1 DEF ClientAppend, hostVars
  <2>2. ASSUME NEW w \in Vaults, NEW x \in Msgs, Accounted(w, x) PROVE Accounted(w, x)'
    BY <2>1, <2>2 DEF Accounted
  <2>3. QED
    BY <1>b, <2>1, <2>2
<1>2. ASSUME NEW v \in Vaults, NEW m \in Msgs, Publish(v, m) PROVE AccountedInv'
  <2>1. PICK R \in SUBSET joined :
          /\ net' = net \cup {[to |-> w, from |-> v, msg |-> m] : w \in R}
          /\ lost' = lost \cup {<<w, m>> : w \in {x \in Vaults \ R : ~ HasKey(x, m)}}
    BY <1>2 DEF Publish
  <2>2. log' = log /\ m \in log[v] /\ net \subseteq net' /\ lost \subseteq lost'
    BY <1>2, <2>1 DEF Publish
  <2>3. ASSUME NEW w \in Vaults PROVE Accounted(w, m)'
    <3>1. CASE HasKey(w, m)
      BY <2>2, <3>1 DEF Accounted
    <3>2. CASE w \in R /\ ~ HasKey(w, m)
      <4>1. w # v
        BY <2>2, <3>2
      <4>2. [to |-> w, from |-> v, msg |-> m] \in net'
        BY <2>1, <3>2
      <4>3. QED
        BY <4>1, <4>2 DEF Accounted
    <3>3. CASE w \notin R /\ ~ HasKey(w, m)
      BY <2>1, <3>3 DEF Accounted
    <3>4. QED
      BY <3>1, <3>2, <3>3
  <2>4. ASSUME NEW w \in Vaults, NEW x \in Msgs, Accounted(w, x) PROVE Accounted(w, x)'
    BY <2>2, <2>4 DEF Accounted
  <2>5. pub' = [pub EXCEPT ![v] = @ \cup {m}]
    BY <1>2 DEF Publish
  <2>6. ASSUME NEW u \in Vaults, NEW w \in Vaults, NEW x \in pub'[u] PROVE Accounted(w, x)'
    <3>1. x \in pub[u] \/ x = m
      BY <2>5
    <3>2. CASE x \in pub[u]
      <4>1. Accounted(w, x) /\ x \in Msgs
        BY <3>2 DEF AccountedInv
      <4>2. QED
        BY <2>4, <4>1
    <3>3. CASE x = m
      BY <2>3, <3>3
    <3>4. QED
      BY <3>1, <3>2, <3>3
  <2>7. QED
    BY <2>6 DEF AccountedInv
<1>3. ASSUME NEW v \in Vaults, NEW p \in net, ReceiveSkips(v, p) PROVE AccountedInv'
  <2>1. /\ net' = net \ {p} /\ UNCHANGED <<log, lost, pub>>
        /\ p.to = v /\ (p.from = v \/ HasKey(v, p.msg))
    BY <1>3 DEF ReceiveSkips, hostVars
  <2>2. ASSUME NEW w \in Vaults, NEW x \in Msgs, Accounted(w, x) PROVE Accounted(w, x)'
    <3>1. ASSUME NEW q \in net, q.to = w, q.msg = x, q.from # w, ~ HasKey(w, x)
          PROVE  Accounted(w, x)'
      BY <2>1, <3>1 DEF Accounted
    <3>2. QED
      BY <1>a, <2>1, <2>2, <3>1
  <2>3. QED
    BY <1>b, <2>1, <2>2
<1>4. ASSUME NEW v \in Vaults, NEW p \in net, ReceiveAppends(v, p) PROVE AccountedInv'
  <2>1. /\ net' = net \ {p} /\ UNCHANGED <<lost, pub>> /\ p.to = v
        /\ \A w \in Vaults : log[w] \subseteq log'[w]
        /\ p.msg \in log'[v]
    BY <1>4 DEF ReceiveAppends, hostVars
  <2>2. ASSUME NEW w \in Vaults, NEW x \in Msgs, Accounted(w, x) PROVE Accounted(w, x)'
    <3>1. ASSUME NEW q \in net, q.to = w, q.msg = x, q.from # w, ~ HasKey(w, x)
          PROVE  Accounted(w, x)'
      BY <2>1, <3>1 DEF Accounted
    <3>2. QED
      BY <1>a, <2>1, <2>2, <3>1
  <2>3. QED
    BY <1>b, <2>1, <2>2
<1>5. ASSUME NEW v \in Vaults, NEW p \in net, ReceiveFails(v, p) PROVE AccountedInv'
  <2>1. /\ net' = net \ {p} /\ UNCHANGED <<log, pub>> /\ p.to = v
        /\ lost' = lost \cup {<<v, p.msg>>}
    BY <1>5 DEF ReceiveFails, hostVars
  <2>2. ASSUME NEW w \in Vaults, NEW x \in Msgs, Accounted(w, x) PROVE Accounted(w, x)'
    <3>1. ASSUME NEW q \in net, q.to = w, q.msg = x, q.from # w, ~ HasKey(w, x)
          PROVE  Accounted(w, x)'
      BY <2>1, <3>1 DEF Accounted
    <3>2. QED
      BY <1>a, <2>1, <2>2, <3>1
  <2>3. QED
    BY <1>b, <2>1, <2>2
<1>6. ASSUME NEW v \in Vaults, Restart(v) PROVE AccountedInv'
  <2>1. /\ net' = {p \in net : p.to # v} /\ UNCHANGED <<log, pub>>
        /\ lost' = lost \cup {<<v, p.msg>> : p \in {q \in net : q.to = v /\ ~ HasKey(v, q.msg)}}
    BY <1>6 DEF Restart
  <2>2. ASSUME NEW w \in Vaults, NEW x \in Msgs, Accounted(w, x) PROVE Accounted(w, x)'
    <3>1. ASSUME NEW q \in net, q.to = w, q.msg = x, q.from # w, ~ HasKey(w, x)
          PROVE  Accounted(w, x)'
      BY <2>1, <3>1 DEF Accounted
    <3>2. QED
      BY <1>a, <2>1, <2>2, <3>1
  <2>3. QED
    BY <1>b, <2>1, <2>2
<1>7. ASSUME \/ \E v \in Vaults : Join(v) \/ Iterate(v) \/ PublishSent(v)
             \/ UNCHANGED vars
      PROVE AccountedInv'
  <2>1. UNCHANGED <<log, pub, net, lost>>
    BY <1>7 DEF Join, Iterate, PublishSent, vars, hostVars
  <2>2. ASSUME NEW w \in Vaults, NEW x \in Msgs, Accounted(w, x) PROVE Accounted(w, x)'
    BY <2>1, <2>2 DEF Accounted
  <2>3. QED
    BY <1>b, <2>1, <2>2
<1>8. QED
  BY <1>1, <1>2, <1>3, <1>4, <1>5, <1>6, <1>7 DEF Next, Read, Receive

\* Nothing a handler has published vanishes on its way (topic_handler.go:98-108): at
\* any time and for any number of vaults, each other vault has it, is recorded as
\* having lost it, or has it under way to it from a peer.
THEOREM NothingVanishes == Spec => []AccountedInv
<1>1. Init => AccountedInv
  BY DEF Init, AccountedInv
<1>2. GossipInv /\ AccountedInv /\ [Next]_vars => AccountedInv'
  BY AccountedStep
<1>3. QED
  BY <1>1, <1>2, CarriesStored, PTL DEF Spec
=============================================================================
