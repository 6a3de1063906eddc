--------------------------------- MODULE MCHost ---------------------------------
(***************************************************************************)
(* Host with two channels besides the discovery channel, a peer, and the   *)
(* three ways a vault is configured: without p2p, with the URIs the        *)
(* store assigns (none), and with a URI for every channel.                 *)
(***************************************************************************)
EXTENDS Host

CONSTANTS d, c1, c2, p1

MCChannels == {d, c1, c2}
MCPeers    == {p1}
MCURIs     == {"", "disc", "one", "two"}

NoURIs  == [c \in MCChannels |-> ""]
OwnURIs == [c \in MCChannels |-> CASE c = d -> "disc" [] c = c1 -> "one" [] OTHER -> "two"]

MCConfigs == {[disc |-> "", uri |-> NoURIs],
              [disc |-> "disc", uri |-> NoURIs],
              [disc |-> "disc", uri |-> OwnURIs]}
=============================================================================
