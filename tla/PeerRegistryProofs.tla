------------------------- MODULE PeerRegistryProofs -------------------------
(***************************************************************************)
(* Proofs, for every value of the constants, of the peer registry's type   *)
(* invariant, its admission cap (P2), SSRC uniqueness (P1) and the         *)
(* consistent snapshot seen by broadcast_nal.                              *)
(***************************************************************************)
EXTENDS PeerRegistry, FiniteSetTheorems, TLAPS

-----------------------------------------------------------------------------
(* Lemmas about the helpers                                                *)

\* Every state the WebRTC stack can move to is a state.
LEMMA PcTransitionsType ==
    ASSUME NEW s \in PcStates
    PROVE  PcTransitions(s) \subseteq PcStates
BY DEF PcTransitions, PcStates

\* The keys present in peers_ form a finite subset of the ids.
LEMMA MemberIdsFinite ==
    ASSUME NEW p \in [PeerIds -> Objs \cup {NoPeer}]
    PROVE  LET M == {id \in PeerIds : p[id] # NoPeer}
           IN  /\ M \subseteq PeerIds
               /\ IsFiniteSet(M)
               /\ Cardinality(M) \in Nat
<1>1. {id \in PeerIds : p[id] # NoPeer} \subseteq PeerIds
  OBVIOUS
<1>2. IsFiniteSet({id \in PeerIds : p[id] # NoPeer})
  BY <1>1, PeerIdsAssumption, FS_Subset
<1>3. QED
  BY <1>1, <1>2, FS_CardinalityType

\* Erasing keys (remove_peer, the reaper, stop) never adds a key, so the
\* map does not grow.
LEMMA EraseShrinks ==
    ASSUME NEW p \in [PeerIds -> Objs \cup {NoPeer}],
           NEW q \in [PeerIds -> Objs \cup {NoPeer}],
           \A id \in PeerIds : q[id] # NoPeer => p[id] # NoPeer
    PROVE  Cardinality({id \in PeerIds : q[id] # NoPeer})
               <= Cardinality({id \in PeerIds : p[id] # NoPeer})
<1>1. {id \in PeerIds : q[id] # NoPeer} \subseteq {id \in PeerIds : p[id] # NoPeer}
  OBVIOUS
<1>2. IsFiniteSet({id \in PeerIds : p[id] # NoPeer})
  BY MemberIdsFinite
<1>3. QED
  BY <1>1, <1>2, FS_Subset

\* The RTP timestamp send_h264_nal stores is a uint32_t value.
LEMMA RtpTimestampType ==
    ASSUME NEW us \in Nat
    PROVE  RtpTimestamp(us) \in 0 .. (U32 - 1)
<1>1. (us * 90000) \div 1000000 \in Nat
  OBVIOUS
<1>2. QED
  BY <1>1, SsrcAssumption DEF RtpTimestamp

\* fetch_add on next_ssrc_ stays a uint32_t value.
LEMMA NextSsrcType ==
    ASSUME NEW x \in Nat
    PROVE  NextSsrc(x) \in 0 .. (U32 - 1)
BY SsrcAssumption DEF NextSsrc

-----------------------------------------------------------------------------
(* Type correctness                                                        *)

\* Every reachable state gives each variable a value of its type.
THEOREM TypeCorrect == Spec => []TypeOK
<1>1. Init => TypeOK
  <2> SUFFICES ASSUME Init PROVE TypeOK
    OBVIOUS
  <2>1. /\ next_ssrc \in 0 .. (U32 - 1)
        /\ ssrc \in [Objs -> 0 .. (U32 - 1)]
        /\ rtpTs \in [Objs -> 0 .. U32]
    BY SsrcAssumption, MaxCreatesAssumption DEF Init, NoTs
  <2>2. /\ peers \in [PeerIds -> Objs \cup {NoPeer}]
        /\ created \in 0 .. MaxCreates
        /\ peer_id \in [Objs -> PeerIds \cup {NoId}]
        /\ pcState \in [Objs -> PcStates]
    BY MaxCreatesAssumption DEF Init, NoPeer, PcStates
  <2>3. QED
    BY <2>1, <2>2 DEF Init, TypeOK
<1>2. TypeOK /\ [Next]_vars => TypeOK'
  <2> SUFFICES ASSUME TypeOK, [Next]_vars PROVE TypeOK'
    OBVIOUS
  <2> USE SsrcAssumption, NalTimestampsAssumption, MaxCreatesAssumption
  <2>1. ASSUME NEW id \in PeerIds, NEW ok \in BOOLEAN, CreatePeer(id, ok)
        PROVE  TypeOK'
    <3>1. CASE AdmissionRefused(Cardinality(MemberIds))
      BY <2>1, <3>1 DEF CreatePeer, TypeOK, peerVars, NoId
    <3>2. CASE ~AdmissionRefused(Cardinality(MemberIds))
      <4> DEFINE o == created + 1
      <4>1. /\ created < MaxCreates
            /\ created' = o
            /\ next_ssrc' = NextSsrc(next_ssrc)
            /\ ssrc' = [ssrc EXCEPT ![o] = next_ssrc]
            /\ peer_id' = [peer_id EXCEPT ![o] = id]
            /\ \/ peers' = [peers EXCEPT ![id] = o] /\ reply' = id
               \/ reply' = NoId /\ peers' = peers
            /\ UNCHANGED <<pcState, closed, trackOpen, offered, answered, rtpTs>>
            /\ UNCHANGED <<running, reaper, stopper, inBroadcast, todo, nalTs>>
        BY <2>1, <3>2 DEF CreatePeer
      <4>2. o \in Objs
        BY <4>1 DEF TypeOK, Objs
      <4>3. next_ssrc' \in 0 .. (U32 - 1)
        BY <4>1, NextSsrcType DEF TypeOK
      <4>4. /\ ssrc' \in [Objs -> 0 .. (U32 - 1)]
            /\ peer_id' \in [Objs -> PeerIds \cup {NoId}]
            /\ created' \in 0 .. MaxCreates
        BY <4>1, <4>2 DEF TypeOK
      <4>5. /\ peers' \in [PeerIds -> Objs \cup {NoPeer}]
            /\ reply' \in PeerIds \cup {NoId}
        BY <4>1, <4>2 DEF TypeOK
      <4>6. QED
        BY <4>1, <4>3, <4>4, <4>5 DEF TypeOK
    <3>3. QED
      BY <3>1, <3>2
  <2>2. ASSUME NEW id \in PeerIds, StartOffer(id) PROVE TypeOK'
    BY <2>2 DEF StartOffer, TypeOK, NoPeer, Objs
  <2>3. ASSUME NEW id \in PeerIds, HandleAnswer(id) PROVE TypeOK'
    BY <2>3 DEF HandleAnswer, TypeOK, NoPeer, Objs
  <2>4. ASSUME NEW id \in PeerIds, RemovePeer(id) PROVE TypeOK'
    BY <2>4 DEF RemovePeer, TypeOK, NoPeer, Objs, peerVars
  <2>5. ASSUME NEW us \in NalTimestamps, BroadcastBegin(us) PROVE TypeOK'
    BY <2>5 DEF BroadcastBegin, TypeOK, MemberIds, peerVars
  <2>6. ASSUME NEW id \in PeerIds, BroadcastStep(id) PROVE TypeOK'
    <3>1. RtpTimestamp(nalTs) \in 0 .. U32
      BY RtpTimestampType DEF TypeOK
    <3>2. QED
      BY <2>6, <3>1 DEF BroadcastStep, SendH264Nal, TypeOK, NoPeer, Objs
  <2>7. CASE BroadcastEnd
    BY <2>7 DEF BroadcastEnd, TypeOK, peerVars
  <2>8. CASE Start \/ Reap \/ ReaperExit \/ StopBegin \/ StopEnd
    BY <2>8 DEF Start, Reap, ReaperExit, StopBegin, StopEnd, TypeOK, peerVars,
               NoPeer, Objs
  <2>9. ASSUME NEW o \in Objs, NEW s \in PcStates, PcStateChange(o, s)
        PROVE  TypeOK'
    <3>1. o \in Objs /\ pcState[o] \in PcStates
      BY DEF TypeOK
    <3>2. s \in PcStates
      BY <2>9, <3>1, PcTransitionsType DEF PcStateChange
    <3>3. QED
      BY <2>9, <3>2 DEF PcStateChange, TypeOK
  <2>10. ASSUME NEW o \in Objs, TrackOpen(o) PROVE TypeOK'
    BY <2>10 DEF TrackOpen, TypeOK
  <2>11. CASE UNCHANGED vars
    BY <2>11 DEF vars, TypeOK
  <2>12. QED
    BY <2>1, <2>2, <2>3, <2>4, <2>5, <2>6, <2>7, <2>8, <2>9, <2>10, <2>11
    DEF Next
<1>3. QED
  BY <1>1, <1>2, PTL DEF Spec

-----------------------------------------------------------------------------
(* P2: the admission cap                                                   *)

\* create_peer's check under the mutex keeps peers_ within max_peers, since
\* a successful create adds at most one key to a map below the cap and
\* every other operation only erases keys.
THEOREM Capacity == Spec => []CapacityBound
<1>1. Init => CapacityBound
  <2> SUFFICES ASSUME Init PROVE CapacityBound
    OBVIOUS
  <2>1. MemberIds = {}
    BY DEF Init, MemberIds, NoPeer
  <2>2. QED
    BY <2>1, FS_EmptySet, MaxPeersAssumption DEF CapacityBound
<1>2. TypeOK /\ TypeOK' /\ CapacityBound /\ [Next]_vars => CapacityBound'
  <2> SUFFICES ASSUME TypeOK, TypeOK', CapacityBound, [Next]_vars
               PROVE  CapacityBound'
    OBVIOUS
  <2> USE MaxPeersAssumption
  <2>1. IsFiniteSet(MemberIds) /\ Cardinality(MemberIds) \in Nat
    BY MemberIdsFinite DEF TypeOK, MemberIds
  \* Steps that only erase keys.
  <2>2. CASE \A id \in PeerIds : peers'[id] # NoPeer => peers[id] # NoPeer
    <3>1. Cardinality(MemberIds') <= Cardinality(MemberIds)
      BY <2>2, EraseShrinks DEF TypeOK, MemberIds
    <3>2. Cardinality(MemberIds') \in Nat
      BY MemberIdsFinite DEF TypeOK, MemberIds
    <3>3. QED
      BY <2>1, <3>1, <3>2 DEF CapacityBound
  \* A successful create stores one key.
  <2>3. ASSUME NEW id \in PeerIds, NEW ok \in BOOLEAN, CreatePeer(id, ok),
               ~AdmissionRefused(Cardinality(MemberIds)), ok
        PROVE  CapacityBound'
    <3>1. peers' = [peers EXCEPT ![id] = created + 1]
      BY <2>3 DEF CreatePeer
    <3>2. MemberIds' = MemberIds \cup {id}
      BY <3>1 DEF TypeOK, MemberIds, NoPeer
    <3>3. Cardinality(MemberIds \cup {id}) <= Cardinality(MemberIds) + 1
      <4>1. Cardinality(MemberIds \cup {id}) =
              IF id \in MemberIds THEN Cardinality(MemberIds)
                                  ELSE Cardinality(MemberIds) + 1
        BY <2>1, FS_AddElement
      <4>2. QED
        BY <4>1, <2>1
    <3>4. Cardinality(MemberIds) < MaxPeers
      BY <2>3, <2>1 DEF AdmissionRefused
    <3>5. Cardinality(MemberIds') = Cardinality(MemberIds \cup {id})
      BY <3>2
    <3>6. Cardinality(MemberIds \cup {id}) \in Nat
      BY <2>1, FS_AddElement, FS_CardinalityType
    <3>7. Cardinality(MemberIds') <= MaxPeers
      BY <2>1, <3>3, <3>4, <3>5, <3>6
    <3>8. QED
      BY <3>7 DEF CapacityBound
  <2>4. ASSUME NEW id \in PeerIds, NEW ok \in BOOLEAN, CreatePeer(id, ok)
        PROVE  CapacityBound'
    <3>1. CASE ~AdmissionRefused(Cardinality(MemberIds)) /\ ok
      BY <2>3, <2>4, <3>1
    <3>2. CASE AdmissionRefused(Cardinality(MemberIds)) \/ ~ok
      <4>1. peers' = peers
        BY <2>4, <3>2 DEF CreatePeer
      <4>2. QED
        BY <2>2, <4>1
    <3>3. QED
      BY <3>1, <3>2
  <2>5. ASSUME NEW id \in PeerIds, RemovePeer(id) PROVE CapacityBound'
    <3>1. \A i \in PeerIds : peers'[i] # NoPeer => peers[i] # NoPeer
      BY <2>5 DEF RemovePeer, TypeOK
    <3>2. QED
      BY <2>2, <3>1
  <2>6. CASE Reap \/ StopEnd
    <3>1. \A i \in PeerIds : peers'[i] # NoPeer => peers[i] # NoPeer
      BY <2>6 DEF Reap, StopEnd, TypeOK
    <3>2. QED
      BY <2>2, <3>1
  <2>7. CASE peers' = peers
    BY <2>2, <2>7
  <2>8. QED
    <3>1. CASE \E id \in PeerIds : StartOffer(id) \/ HandleAnswer(id)
      BY <2>7, <3>1 DEF StartOffer, HandleAnswer
    <3>2. CASE \/ \E us \in NalTimestamps : BroadcastBegin(us)
               \/ \E id \in PeerIds : BroadcastStep(id)
               \/ BroadcastEnd \/ Start \/ ReaperExit \/ StopBegin
      BY <2>7, <3>2 DEF BroadcastBegin, BroadcastStep, BroadcastEnd, Start,
                       ReaperExit, StopBegin
    <3>3. CASE \/ \E o \in Objs, s \in PcStates : PcStateChange(o, s)
               \/ \E o \in Objs : TrackOpen(o)
      BY <2>7, <3>3 DEF PcStateChange, TrackOpen
    <3>4. CASE UNCHANGED vars
      BY <2>7, <3>4 DEF vars
    <3>5. QED
      BY <2>4, <2>5, <2>6, <3>1, <3>2, <3>3, <3>4 DEF Next
<1>3. QED
  BY <1>1, <1>2, TypeCorrect, PTL DEF Spec

-----------------------------------------------------------------------------
(* P1: SSRC uniqueness                                                     *)

\* The process-wide counter next_ssrc_ has advanced once per constructor
\* call (failed constructions included), and object number o holds the o-th
\* value handed out: the strengthening that makes SsrcUnique inductive.
SsrcCounter ==
    /\ next_ssrc = SsrcStart + created
    /\ \A o \in Objs : o <= created => ssrc[o] = SsrcStart + o - 1
    /\ \A id \in PeerIds : peers[id] # NoPeer => peers[id] <= created

\* The counter strengthening holds in every reachable state.
LEMMA SsrcCounterInvariant == Spec => [](SsrcCounter)
<1>1. Init => SsrcCounter
  BY SsrcAssumption, MaxCreatesAssumption DEF Init, SsrcCounter, Objs, NoPeer
<1>2. TypeOK /\ SsrcCounter /\ [Next]_vars => SsrcCounter'
  <2> SUFFICES ASSUME TypeOK, SsrcCounter, [Next]_vars PROVE SsrcCounter'
    OBVIOUS
  <2> USE SsrcAssumption, MaxCreatesAssumption
  <2>1. ASSUME NEW id \in PeerIds, NEW ok \in BOOLEAN, CreatePeer(id, ok)
        PROVE  SsrcCounter'
    <3>1. CASE AdmissionRefused(Cardinality(MemberIds))
      BY <2>1, <3>1 DEF CreatePeer, SsrcCounter, peerVars
    <3>2. CASE ~AdmissionRefused(Cardinality(MemberIds))
      <4> DEFINE o == created + 1
      <4>1. /\ created < MaxCreates
            /\ created' = o
            /\ next_ssrc' = NextSsrc(next_ssrc)
            /\ ssrc' = [ssrc EXCEPT ![o] = next_ssrc]
            /\ \/ peers' = [peers EXCEPT ![id] = o]
               \/ peers' = peers
        BY <2>1, <3>2 DEF CreatePeer
      <4>2. NextSsrc(next_ssrc) = SsrcStart + created + 1
        <5>1. next_ssrc + 1 \in 0 .. (U32 - 1)
          BY <4>1 DEF SsrcCounter, TypeOK
        <5>2. QED
          BY <5>1 DEF NextSsrc, SsrcCounter
      <4>3. o \in Objs
        BY <4>1 DEF TypeOK, Objs
      <4>4. next_ssrc' = SsrcStart + created'
        BY <4>1, <4>2 DEF TypeOK
      <4>5. \A x \in Objs : x <= created' => ssrc'[x] = SsrcStart + x - 1
        <5> SUFFICES ASSUME NEW x \in Objs, x <= created'
                     PROVE  ssrc'[x] = SsrcStart + x - 1
          OBVIOUS
        <5>1. CASE x = o
          BY <4>1, <4>3, <5>1 DEF SsrcCounter, TypeOK
        <5>2. CASE x # o
          BY <4>1, <4>3, <5>2 DEF SsrcCounter, TypeOK, Objs
        <5>3. QED
          BY <5>1, <5>2
      <4>6. \A i \in PeerIds : peers'[i] # NoPeer => peers'[i] <= created'
        <5> SUFFICES ASSUME NEW i \in PeerIds, peers'[i] # NoPeer
                     PROVE  peers'[i] <= created'
          OBVIOUS
        <5>1. peers[i] # NoPeer => peers[i] <= created
          BY DEF SsrcCounter
        <5>2. peers[i] \in Objs \cup {NoPeer}
          BY DEF TypeOK
        <5>3. CASE peers' = [peers EXCEPT ![id] = o]
          BY <4>1, <5>1, <5>2, <5>3 DEF TypeOK, Objs, NoPeer
        <5>4. CASE peers' = peers
          BY <4>1, <5>1, <5>2, <5>4 DEF TypeOK, Objs, NoPeer
        <5>5. QED
          BY <4>1, <5>3, <5>4
      <4>7. QED
        BY <4>4, <4>5, <4>6 DEF SsrcCounter
    <3>3. QED
      BY <3>1, <3>2
  <2>2. CASE UNCHANGED <<created, next_ssrc, ssrc>>
              /\ \A id \in PeerIds : peers'[id] \in {peers[id], NoPeer}
    BY <2>2 DEF SsrcCounter, TypeOK, NoPeer
  <2>3. QED
    <3>1. CASE \E id \in PeerIds : StartOffer(id) \/ HandleAnswer(id) \/ RemovePeer(id)
      BY <2>2, <3>1 DEF StartOffer, HandleAnswer, RemovePeer, peerVars, TypeOK
    <3>2. CASE \/ \E us \in NalTimestamps : BroadcastBegin(us)
               \/ \E id \in PeerIds : BroadcastStep(id)
               \/ BroadcastEnd \/ Start \/ ReaperExit \/ StopBegin
      BY <2>2, <3>2 DEF BroadcastBegin, BroadcastStep, BroadcastEnd, Start,
                       ReaperExit, StopBegin, peerVars
    <3>3. CASE Reap \/ StopEnd
      BY <2>2, <3>3 DEF Reap, StopEnd, peerVars
    <3>4. CASE \/ \E o \in Objs, s \in PcStates : PcStateChange(o, s)
               \/ \E o \in Objs : TrackOpen(o)
      BY <2>2, <3>4 DEF PcStateChange, TrackOpen
    <3>5. CASE UNCHANGED vars
      BY <2>2, <3>5 DEF vars
    <3>6. QED
      BY <2>1, <3>1, <3>2, <3>3, <3>4, <3>5 DEF Next
<1>3. QED
  BY <1>1, <1>2, TypeCorrect, PTL DEF Spec

\* P1: no two live PeerConnections share an SSRC, for any number of peers
\* below the counter's wrap-around (SsrcAssumption).
THEOREM SsrcUniqueness == Spec => []SsrcUnique
<1>1. TypeOK /\ SsrcCounter => SsrcUnique
  <2> SUFFICES ASSUME TypeOK, SsrcCounter,
                      NEW i \in MemberIds, NEW j \in MemberIds,
                      peers[i] # peers[j]
               PROVE  ssrc[peers[i]] # ssrc[peers[j]]
    BY DEF SsrcUnique
  <2>1. peers[i] \in Objs /\ peers[j] \in Objs
    BY DEF MemberIds, TypeOK, NoPeer, Objs
  <2>2. peers[i] <= created /\ peers[j] <= created
    BY DEF MemberIds, SsrcCounter
  <2>3. QED
    BY <2>1, <2>2, SsrcAssumption DEF SsrcCounter, Objs
<1>2. QED
  BY <1>1, TypeCorrect, SsrcCounterInvariant, PTL


\* Section 4.3: broadcast_nal iterates a snapshot of peers_.  Every
\* operation that writes the map (create_peer, remove_peer, the reaper's
\* pass, stop) takes peers_mutex_, which broadcast_nal holds for the whole
\* loop, so no step taken while a broadcast is in progress changes peers_.
THEOREM BroadcastSnapshotHolds == Spec => BroadcastSnapshot
<1>1. [Next]_vars => (inBroadcast /\ inBroadcast' => peers' = peers)
  <2> SUFFICES ASSUME [Next]_vars, inBroadcast, inBroadcast'
               PROVE  peers' = peers
    OBVIOUS
  <2>1. CASE \E id \in PeerIds, ok \in BOOLEAN : CreatePeer(id, ok)
    BY <2>1 DEF CreatePeer, LockFree
  <2>2. CASE \E id \in PeerIds : RemovePeer(id)
    BY <2>2 DEF RemovePeer, LockFree
  <2>3. CASE Reap \/ StopEnd
    BY <2>3 DEF Reap, StopEnd, LockFree
  <2>4. CASE \E id \in PeerIds : StartOffer(id) \/ HandleAnswer(id)
    BY <2>4 DEF StartOffer, HandleAnswer
  <2>5. CASE \/ \E us \in NalTimestamps : BroadcastBegin(us)
             \/ \E id \in PeerIds : BroadcastStep(id)
             \/ BroadcastEnd \/ Start \/ ReaperExit \/ StopBegin
    BY <2>5 DEF BroadcastBegin, BroadcastStep, BroadcastEnd, Start,
                ReaperExit, StopBegin
  <2>6. CASE \/ \E o \in Objs, s \in PcStates : PcStateChange(o, s)
             \/ \E o \in Objs : TrackOpen(o)
    BY <2>6 DEF PcStateChange, TrackOpen
  <2>7. CASE UNCHANGED vars
    BY <2>7 DEF vars
  <2>8. QED
    BY <2>1, <2>2, <2>3, <2>4, <2>5, <2>6, <2>7 DEF Next
<1>2. QED
  BY <1>1, PTL DEF Spec, BroadcastSnapshot

=============================================================================
