--------------------------- MODULE MC_PeerRegistry ---------------------------
(* Small instances of the peer registry for TLC.                           *)
EXTENDS PeerRegistry, TLC

CONSTANTS p1, p2, p3

\* Three ids, so that two peers and a third create (refused at the cap, or
\* colliding with a live id) all happen.
MCPeerIds == {p1, p2, p3}

\* A uint32_t scaled down to 10 bits (TLC's integers are 32-bit signed, so
\* 2^32 cannot be written): the ssrc counter still never wraps within
\* MaxCreates constructions, and a frame's RTP timestamp (1800 ticks)
\* exceeds the width, so the cast to uint32_t really truncates.
MCU32 == 2^10

\* Two frames whose RTP timestamps differ (0 and 1800).
MCNalTimestamps == {0, 20000}

Symmetry == Permutations(MCPeerIds)

\* A destroyed PeerConnection is never touched again (its number is never
\* reused), so states that differ only in the fields of dead objects have
\* the same futures: TLC identifies them.
LiveView ==
    <<peers, created, next_ssrc, running, reaper, stopper, inBroadcast, todo,
      nalTs, reply,
      [o \in Objs |->
         IF o \in Live
           THEN <<ssrc[o], peer_id[o], pcState[o], closed[o], trackOpen[o],
                  offered[o], answered[o], rtpTs[o]>>
           ELSE "destroyed"]>>
=============================================================================
