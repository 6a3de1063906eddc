------------------------------- MODULE MCChannel -------------------------------
(***************************************************************************)
(* Channel on small instances.  The messages are their own keys and are    *)
(* committed in any order, so that an entry may land behind a reader's     *)
(* cursor.                                                                 *)
(***************************************************************************)
EXTENDS Channel, TLC

CONSTANTS c1, c2

MCTail == 9   \* more than any stream of these instances can publish

Opt(seek, max, skipFirst, fromHead, fromIndex) ==
    [seek |-> seek, max |-> max, skipFirst |-> skipFirst,
     fromHead |-> fromHead, fromIndex |-> fromIndex]

FromGenesis(max) == Opt(NilKey, max, FALSE, FALSE, FALSE)
AtEntry(k)       == Opt(k, MCTail, FALSE, FALSE, FALSE)
AfterEntry(k)    == Opt(k, MCTail, TRUE, FALSE, FALSE)
AfterHead        == Opt(NilKey, MCTail, TRUE, TRUE, FALSE)
FromIndex        == Opt(NilKey, MCTail, FALSE, FALSE, TRUE)

MCTwoKeys    == 1..2
MCThreeKeys  == 1..3
MCTwoKeyOf   == [k \in MCTwoKeys |-> k]
MCThreeKeyOf == [k \in MCThreeKeys |-> k]
MCTimes      == {10}
MCTwoTimes   == {10, 11}
MCOneClient  == {c1}
MCTwoClients == {c1, c2}

MCResetOpts == {FromGenesis(MCTail), FromGenesis(1), AfterEntry(2), AfterHead, NilOpts}
MCLiveOpts  == {FromGenesis(MCTail), FromGenesis(1), FromIndex, NilOpts}
MCTailOnly  == {FromGenesis(MCTail)}
MCOneOpts   == {FromGenesis(MCTail), FromGenesis(1)}
MCTwoOpts   == {FromGenesis(1), FromIndex}

\* The clients of the two-client instance are interchangeable.
MCSymmetry == Permutations(MCTwoClients)
=============================================================================
