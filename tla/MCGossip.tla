-------------------------------- MODULE MCGossip --------------------------------
(***************************************************************************)
(* Gossip between two vaults, with three messages of two EntryIDs.         *)
(***************************************************************************)
EXTENDS Gossip

CONSTANTS v1, v2

MCVaults == {v1, v2}
MCMsgs   == 1..3
MCKeyOf  == <<1, 2, 2>>
=============================================================================
