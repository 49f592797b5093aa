---------------------------- MODULE MC_Signaling ----------------------------
(***************************************************************************)
(* Signaling for TLC: three sockets, three ids and max_peers = 2, so that  *)
(* a third client is refused while two hold sessions, and a refused        *)
(* client can connect once a slot is freed.                                *)
(***************************************************************************)
EXTENDS Signaling, TLC

CONSTANTS k1, k2, k3, i1, i2, i3

MCClients == {k1, k2, k3}
MCPeerIds == {i1, i2, i3}

\* The liveness runs use two sockets, two ids and max_peers = 1: a second
\* client is still refused while the first holds the slot.
MCLiveClients == {k1, k2}
MCLivePeerIds == {i1, i2}

\* Sockets are interchangeable, and so are ids.
Symmetry == Permutations(MCClients) \cup Permutations(MCPeerIds)

=============================================================================
