------------------------------- MODULE MCSession -------------------------------
(***************************************************************************)
(* Session on small instances: one connection, one or two streams, two     *)
(* ReqIDs, and EntryIDs that sort before the channel's keys.               *)
(***************************************************************************)
EXTENDS Session

CONSTANT c1

Req(mode, seek, max) == [mode |-> mode, seek |-> seek, max |-> max]

MCClients == {c1}
MCKeys    == 1..2
MCKeyOf   == [k \in MCKeys |-> k]
MCOneKey  == {1}
MCOneOf   == [k \in MCOneKey |-> k]
MCTimes   == {10}

MCReqs       == {Req("AfterHead", NilKey, -1), Req("FromIndex", NilKey, 1),
                 Req("DontStream", NilKey, 0)}
MCTailReqs   == {Req("FromGenesis", NilKey, 0)}
MCAppendReqs == {Req("DontStream", NilKey, 0)}

MCOpts       == {NewStreamOpts(q) : q \in MCReqs}
MCTailOpts   == {NewStreamOpts(q) : q \in MCTailReqs}
MCAppendOpts == {NewStreamOpts(q) : q \in MCAppendReqs}
=============================================================================
