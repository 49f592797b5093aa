------------------------------ MODULE Sessions ------------------------------
(***************************************************************************)
(* What the peer registry (WebRtcServer, src/src/webrtc_server.cpp)        *)
(* promises its callers, with the PeerConnection objects, SSRCs, the       *)
(* broadcast and the WebRTC stack abstracted away.  reg maps every id to   *)
(* the negotiation stage of the session stored under it, or Free.          *)
(*                                                                         *)
(* A session is admitted only below the cap (an admission may replace the  *)
(* session stored under the same id), is offered once and answered once,   *)
(* and leaves by removal, by the reaper, or when the registry is cleared.  *)
(* The reaper only ever takes answered sessions: the stack can report a    *)
(* session closed or failed only after its answer started ICE.             *)
(***************************************************************************)
EXTENDS Naturals, FiniteSets

CONSTANTS PeerIds, MaxPeers

VARIABLE reg

Free == "free"

\* Negotiation stages: created by create_peer, offered by start_offer,
\* answered by handle_answer.
Stages == {"created", "offered", "answered"}

Members == {id \in PeerIds : reg[id] # Free}

Init == reg = [id \in PeerIds |-> Free]

\* create_peer below the cap stores a fresh session under id.
Admit(id) ==
    /\ Cardinality(Members) < MaxPeers
    /\ reg' = [reg EXCEPT ![id] = "created"]

\* start_offer on a session that has not offered yet.
Offer(id) ==
    /\ reg[id] = "created"
    /\ reg' = [reg EXCEPT ![id] = "offered"]

\* handle_answer on a session with a pending offer.
Answer(id) ==
    /\ reg[id] = "offered"
    /\ reg' = [reg EXCEPT ![id] = "answered"]

\* remove_peer of a stored id.
Remove(id) ==
    /\ reg[id] # Free
    /\ reg' = [reg EXCEPT ![id] = Free]

\* One pass of the reaper erases a non-empty set of answered sessions.
Reap(S) ==
    /\ S # {}
    /\ \A id \in S : reg[id] = "answered"
    /\ reg' = [id \in PeerIds |-> IF id \in S THEN Free ELSE reg[id]]

\* stop() clears the map.
Clear == reg' = [id \in PeerIds |-> Free]

Next ==
    \/ \E id \in PeerIds : Admit(id) \/ Offer(id) \/ Answer(id) \/ Remove(id)
    \/ \E S \in SUBSET PeerIds : Reap(S)
    \/ Clear

Spec == Init /\ [][Next]_reg

=============================================================================
