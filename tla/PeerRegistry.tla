---------------------------- MODULE PeerRegistry ----------------------------
(***************************************************************************)
(* The peer registry of the stream server: class WebRtcServer              *)
(* (src/src/webrtc_server.cpp) together with the per-viewer objects it     *)
(* owns, class PeerConnection (src/src/peer_connection.cpp).               *)
(*                                                                         *)
(* The map peers_ (peer id -> shared_ptr<PeerConnection>) is guarded by    *)
(* one mutex.  Every operation except broadcast_nal holds the mutex for   *)
(* one atomic step; broadcast_nal holds it across its whole loop, one step *)
(* per peer visited, and the WebRTC stack's state-change callbacks (which  *)
(* take no registry lock) may run between those steps.                     *)
(*                                                                         *)
(* A PeerConnection object is named by the number of the constructor call *)
(* that made it (1..MaxCreates).  The map is its only owner, so an object  *)
(* is alive exactly while some key of peers maps to it.                    *)
(***************************************************************************)
EXTENDS Naturals, FiniteSets

CONSTANTS
    PeerIds,        \* values generate_peer_id() may return (random 32-bit)
    MaxPeers,       \* config.webrtc.max_peers
    MaxCreates,     \* bound: number of PeerConnection constructor calls
    SsrcStart,      \* initial value of the static next_ssrc_ (42)
    U32,            \* number of values of a uint32_t (2^32 in the code)
    NalTimestamps   \* timestamps (us) the media pipeline may hand to broadcast_nal

ASSUME PeerIdsAssumption == IsFiniteSet(PeerIds) /\ PeerIds # {}
ASSUME MaxPeersAssumption == MaxPeers \in Nat
ASSUME MaxCreatesAssumption == MaxCreates \in Nat
\* The ssrc counter does not wrap within the MaxCreates constructor calls.
ASSUME SsrcAssumption ==
    /\ U32 \in Nat \ {0}
    /\ SsrcStart \in Nat
    /\ SsrcStart + MaxCreates < U32
ASSUME NalTimestampsAssumption == NalTimestamps \subseteq Nat

NoPeer == 0                 \* a key of peers_ that maps to no object
Objs == 1 .. MaxCreates     \* PeerConnection objects, by constructor call
NoTs == U32                 \* rtp_config_->timestamp never set yet

\* rtc::PeerConnection::State, as delivered to the onStateChange callback.
PcStates == {"new", "connecting", "connected", "disconnected", "failed", "closed"}

VARIABLES
    peers,        \* peers_: PeerIds -> Objs \cup {NoPeer}
    created,      \* constructor calls so far
    next_ssrc,    \* PeerConnection::next_ssrc_
    ssrc,         \* ssrc_ of each object
    peer_id,      \* peer_id_ of each object
    pcState,      \* last state the onStateChange callback stored
    closed,       \* closed_ (latched by the callback)
    trackOpen,    \* video_track_->isOpen()
    offered,      \* a local offer was set (start_offer)
    answered,     \* a remote answer was accepted (handle_answer)
    rtpTs,        \* rtp_config_->timestamp of each object
    running,      \* running_ (reaper loop condition)
    reaper,       \* cleanup_thread_: "none", "loop" or "exited"
    stopper,      \* the thread in stop(): "idle", "joining" or "done"
    inBroadcast,  \* broadcast_nal holds peers_mutex_ and iterates
    todo,         \* keys broadcast_nal has still to visit
    nalTs,        \* timestamp_us of the broadcast in progress
    reply         \* value the last create_peer returned ("" is NoId)

NoId == "none"

vars == <<peers, created, next_ssrc, ssrc, peer_id, pcState, closed, trackOpen,
          offered, answered, rtpTs, running, reaper, stopper, inBroadcast, todo,
          nalTs, reply>>

peerVars == <<ssrc, peer_id, pcState, closed, trackOpen, offered, answered, rtpTs>>

-----------------------------------------------------------------------------
(* Helpers                                                                 *)

\* The keys present in peers_.
MemberIds == {id \in PeerIds : peers[id] # NoPeer}

\* The objects alive (owned by the map).
Live == {peers[id] : id \in MemberIds}

\* Mutants (plausible bugs; each is checked to break a property):
\* an off-by-one admission test, fetch_add replaced by a load, a missing
\* lock_guard, a state callback that latches closed_ only on Failed, and
\* an RTP timestamp computed without the cast to uint32_t.
AdmissionRefusedOffByOne(n) == n > MaxPeers
RtpTimestampUncast(us) == (us * 90000) \div 1000000
NextSsrcLoad(x) == x % U32
LockFreeUnguarded == TRUE
IsClosedStateFailedOnly(s) == s = "failed"

\* Admission test of create_peer: peers_.size() >= max_peers.
AdmissionRefused(n) == n >= MaxPeers

\* next_ssrc_.fetch_add(1) on a uint32_t.
NextSsrc(x) == (x + 1) % U32

\* is_connected(): connected_ stores (state == Connected).
IsConnected(o) == pcState[o] = "connected"

\* The onStateChange callback latches closed_ on Closed or Failed.
IsClosedState(s) == s \in {"closed", "failed"}

\* RTP timestamp of send_h264_nal: timestamp_us * 90000 / 1000000, cast to
\* uint32_t.
RtpTimestamp(us) == ((us * 90000) \div 1000000) % U32

\* The transitions the WebRTC stack may report (spec section 4.2).
PcTransitions(s) ==
    CASE s = "new"          -> {"connecting"}
      [] s = "connecting"   -> {"connected", "failed"}
      [] s = "connected"    -> {"disconnected", "failed", "closed"}
      [] s = "disconnected" -> {"connected", "failed", "closed"}
      [] s = "failed"       -> {"closed"}
      [] s = "closed"       -> {}

\* Nothing holds peers_mutex_ across steps except broadcast_nal.
LockFree == ~inBroadcast

-----------------------------------------------------------------------------
Init ==
    /\ peers = [id \in PeerIds |-> NoPeer]
    /\ created = 0
    /\ next_ssrc = SsrcStart
    /\ ssrc = [o \in Objs |-> 0]
    /\ peer_id = [o \in Objs |-> NoId]
    /\ pcState = [o \in Objs |-> "new"]
    /\ closed = [o \in Objs |-> FALSE]
    /\ trackOpen = [o \in Objs |-> FALSE]
    /\ offered = [o \in Objs |-> FALSE]
    /\ answered = [o \in Objs |-> FALSE]
    /\ rtpTs = [o \in Objs |-> NoTs]
    /\ running = FALSE
    /\ reaper = "none"
    /\ stopper = "idle"
    /\ inBroadcast = FALSE
    /\ todo = {}
    /\ nalTs = 0
    /\ reply = NoId

-----------------------------------------------------------------------------
(* Registry operations                                                     *)

\* create_peer: under the lock, refuse at the cap; otherwise draw a random
\* id, construct the PeerConnection (the constructor takes an ssrc before
\* setup_connection, which may throw) and store it with peers_[id] = peer,
\* replacing whatever the key held.
CreatePeer(id, ok) ==
    /\ LockFree
    /\ IF AdmissionRefused(Cardinality(MemberIds))
         THEN /\ reply' = NoId
              /\ UNCHANGED <<peers, created, next_ssrc, peerVars>>
         ELSE LET o == created + 1 IN
              /\ created < MaxCreates
              /\ created' = o
              /\ next_ssrc' = NextSsrc(next_ssrc)
              /\ ssrc' = [ssrc EXCEPT ![o] = next_ssrc]
              /\ peer_id' = [peer_id EXCEPT ![o] = id]
              /\ IF ok
                   THEN /\ peers' = [peers EXCEPT ![id] = o]
                        /\ reply' = id
                   ELSE /\ reply' = NoId
                        /\ UNCHANGED peers
              /\ UNCHANGED <<pcState, closed, trackOpen, offered, answered, rtpTs>>
    /\ UNCHANGED <<running, reaper, stopper, inBroadcast, todo, nalTs>>

\* start_offer: a known peer sets its local offer.
StartOffer(id) ==
    /\ LockFree
    /\ peers[id] # NoPeer
    /\ ~offered[peers[id]]
    /\ offered' = [offered EXCEPT ![peers[id]] = TRUE]
    /\ UNCHANGED <<peers, created, next_ssrc, ssrc, peer_id, pcState, closed,
                   trackOpen, answered, rtpTs, running, reaper, stopper,
                   inBroadcast, todo, nalTs, reply>>

\* handle_answer: a known peer installs the remote answer (the stack throws,
\* and nothing changes, unless an offer is pending) and re-arms
\* needs_keyframe_.
HandleAnswer(id) ==
    /\ LockFree
    /\ peers[id] # NoPeer
    /\ offered[peers[id]] /\ ~answered[peers[id]]
    /\ answered' = [answered EXCEPT ![peers[id]] = TRUE]
    /\ UNCHANGED <<peers, created, next_ssrc, ssrc, peer_id, pcState, closed,
                   trackOpen, offered, rtpTs, running, reaper, stopper,
                   inBroadcast, todo, nalTs, reply>>

\* remove_peer: erase the key if present (destroying the object).
RemovePeer(id) ==
    /\ LockFree
    /\ peers[id] # NoPeer
    /\ peers' = [peers EXCEPT ![id] = NoPeer]
    /\ UNCHANGED <<created, next_ssrc, peerVars, running, reaper, stopper,
                   inBroadcast, todo, nalTs, reply>>

\* send_h264_nal on object o: a no-op unless connected and the track is
\* open; otherwise set the RTP timestamp and hand the buffer to the track.
SendH264Nal(o) ==
    IF IsConnected(o) /\ trackOpen[o]
      THEN rtpTs' = [rtpTs EXCEPT ![o] = RtpTimestamp(nalTs)]
      ELSE UNCHANGED rtpTs

\* broadcast_nal, entry: take the lock, start iterating the map.
BroadcastBegin(us) ==
    /\ ~inBroadcast
    /\ inBroadcast' = TRUE
    /\ todo' = MemberIds
    /\ nalTs' = us
    /\ UNCHANGED <<peers, created, next_ssrc, peerVars, running, reaper,
                   stopper, reply>>

\* broadcast_nal, one iteration: the peer is sent to if is_connected().
BroadcastStep(id) ==
    /\ inBroadcast
    /\ id \in todo
    /\ IF peers[id] # NoPeer /\ IsConnected(peers[id])
         THEN SendH264Nal(peers[id])
         ELSE UNCHANGED rtpTs
    /\ todo' = todo \ {id}
    /\ UNCHANGED <<peers, created, next_ssrc, ssrc, peer_id, pcState, closed,
                   trackOpen, offered, answered, running, reaper, stopper,
                   inBroadcast, nalTs, reply>>

\* broadcast_nal, exit: the loop is done, the lock is released.
BroadcastEnd ==
    /\ inBroadcast
    /\ todo = {}
    /\ inBroadcast' = FALSE
    /\ UNCHANGED <<peers, created, next_ssrc, peerVars, running, reaper,
                   stopper, todo, nalTs, reply>>

\* start: set running_ and spawn the reaper thread.
Start ==
    /\ reaper = "none"
    /\ stopper = "idle"
    /\ running' = TRUE
    /\ reaper' = "loop"
    /\ UNCHANGED <<peers, created, next_ssrc, peerVars, stopper, inBroadcast,
                   todo, nalTs, reply>>

\* cleanup_loop, one pass: under the lock erase every closed peer.
Reap ==
    /\ reaper = "loop"
    /\ running
    /\ LockFree
    /\ peers' = [id \in PeerIds |->
                   IF peers[id] # NoPeer /\ closed[peers[id]] THEN NoPeer
                                                              ELSE peers[id]]
    /\ UNCHANGED <<created, next_ssrc, peerVars, running, reaper, stopper,
                   inBroadcast, todo, nalTs, reply>>

\* cleanup_loop sees running_ false and returns.
ReaperExit ==
    /\ reaper = "loop"
    /\ ~running
    /\ reaper' = "exited"
    /\ UNCHANGED <<peers, created, next_ssrc, peerVars, running, stopper,
                   inBroadcast, todo, nalTs, reply>>

\* stop, first half: clear running_ and join the reaper (idempotent: the
\* destructor calls stop() again).
StopBegin ==
    /\ stopper \in {"idle", "done"}
    /\ running' = FALSE
    /\ stopper' = "joining"
    /\ UNCHANGED <<peers, created, next_ssrc, peerVars, reaper, inBroadcast,
                   todo, nalTs, reply>>

\* stop, second half: once joined, clear the map under the lock.
StopEnd ==
    /\ stopper = "joining"
    /\ reaper # "loop"
    /\ LockFree
    /\ peers' = [id \in PeerIds |-> NoPeer]
    /\ stopper' = "done"
    /\ UNCHANGED <<created, next_ssrc, peerVars, running, reaper, inBroadcast,
                   todo, nalTs, reply>>

-----------------------------------------------------------------------------
(* The WebRTC stack, acting on live objects through their callbacks        *)

\* onStateChange: store the state, latch closed_; a failed or closed
\* transport closes the track.
PcStateChange(o, s) ==
    /\ o \in Live
    /\ s \in PcTransitions(pcState[o])
    /\ s = "connecting" => answered[o]
    /\ pcState' = [pcState EXCEPT ![o] = s]
    /\ closed' = [closed EXCEPT ![o] = closed[o] \/ IsClosedState(s)]
    /\ trackOpen' = [trackOpen EXCEPT ![o] = trackOpen[o] /\ ~IsClosedState(s)]
    /\ UNCHANGED <<peers, created, next_ssrc, ssrc, peer_id, offered, answered,
                   rtpTs, running, reaper, stopper, inBroadcast, todo, nalTs,
                   reply>>

\* video_track_->onOpen: the track opens once the transport is connected.
TrackOpen(o) ==
    /\ o \in Live
    /\ pcState[o] = "connected"
    /\ ~trackOpen[o]
    /\ trackOpen' = [trackOpen EXCEPT ![o] = TRUE]
    /\ UNCHANGED <<peers, created, next_ssrc, ssrc, peer_id, pcState, closed,
                   offered, answered, rtpTs, running, reaper, stopper,
                   inBroadcast, todo, nalTs, reply>>

-----------------------------------------------------------------------------
Next ==
    \/ \E id \in PeerIds, ok \in BOOLEAN : CreatePeer(id, ok)
    \/ \E id \in PeerIds : StartOffer(id) \/ HandleAnswer(id) \/ RemovePeer(id)
    \/ \E us \in NalTimestamps : BroadcastBegin(us)
    \/ \E id \in PeerIds : BroadcastStep(id)
    \/ BroadcastEnd
    \/ Start \/ Reap \/ ReaperExit \/ StopBegin \/ StopEnd
    \/ \E o \in Objs, s \in PcStates : PcStateChange(o, s)
    \/ \E o \in Objs : TrackOpen(o)

\* The streaming thread finishes a broadcast it began; the reaper, which
\* only intermittently finds the mutex free, eventually gets it.
Fairness ==
    /\ WF_vars(\E id \in PeerIds : BroadcastStep(id))
    /\ WF_vars(BroadcastEnd)
    /\ SF_vars(Reap)
    /\ WF_vars(ReaperExit)

Spec == Init /\ [][Next]_vars

FairSpec == Spec /\ Fairness

-----------------------------------------------------------------------------
(* Properties                                                              *)

TypeOK ==
    /\ peers \in [PeerIds -> Objs \cup {NoPeer}]
    /\ created \in 0 .. MaxCreates
    /\ next_ssrc \in 0 .. (U32 - 1)
    /\ ssrc \in [Objs -> 0 .. (U32 - 1)]
    /\ peer_id \in [Objs -> PeerIds \cup {NoId}]
    /\ pcState \in [Objs -> PcStates]
    /\ closed \in [Objs -> BOOLEAN]
    /\ trackOpen \in [Objs -> BOOLEAN]
    /\ offered \in [Objs -> BOOLEAN]
    /\ answered \in [Objs -> BOOLEAN]
    /\ rtpTs \in [Objs -> 0 .. U32]
    /\ running \in BOOLEAN
    /\ reaper \in {"none", "loop", "exited"}
    /\ stopper \in {"idle", "joining", "done"}
    /\ inBroadcast \in BOOLEAN
    /\ todo \in SUBSET PeerIds
    /\ nalTs \in Nat
    /\ reply \in PeerIds \cup {NoId}

\* P2: whatever the order of creates, removals, reaping and id collisions,
\* peers_ never holds more than max_peers sessions (create_peer's check).
CapacityBound == Cardinality(MemberIds) <= MaxPeers

\* P1: no two live PeerConnections share an SSRC (next_ssrc_ fetch_add in
\* the constructor), even when an id collision replaced a live object.
SsrcUnique ==
    \A i, j \in MemberIds :
        peers[i] # peers[j] => ssrc[peers[i]] # ssrc[peers[j]]

\* Section 4.3: broadcast_nal sees a consistent snapshot of the peer set:
\* while it iterates, no create, remove, reap or stop changes peers_.
BroadcastSnapshot ==
    [][inBroadcast /\ inBroadcast' => peers' = peers]_vars

\* The reaper (cleanup_loop) eventually erases every peer whose connection
\* the WebRTC stack reported Closed or Failed (through the onStateChange
\* callback and is_closed()), as long as the registry runs.
ClosedPeersReaped ==
    \A o \in Objs :
        (o \in Live /\ pcState[o] \in {"closed", "failed"})
            ~> (o \notin Live \/ ~running)

-----------------------------------------------------------------------------
(* Refinement of the abstract registry (module Sessions)                   *)

\* The stage of the session stored under each id, read off the object the
\* key holds: what a caller of create_peer, start_offer and handle_answer
\* can observe of peers_.
RegView ==
    [id \in PeerIds |->
        IF peers[id] = NoPeer THEN "free"
        ELSE IF answered[peers[id]] THEN "answered"
        ELSE IF offered[peers[id]] THEN "offered"
        ELSE "created"]

Abstract == INSTANCE Sessions WITH reg <- RegView

\* WebRtcServer implements the abstract registry: every create, offer,
\* answer, removal, reaper pass and stop is a step of Sessions or changes
\* nothing a caller sees; in particular the reaper (cleanup_loop, through
\* is_closed()) only ever erases sessions whose answer was installed.
AbstractSpec == Abstract!Spec


=============================================================================
