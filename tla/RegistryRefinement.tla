------------------------- MODULE RegistryRefinement -------------------------
(***************************************************************************)
(* Proof that WebRtcServer, as modelled by PeerRegistry, implements the    *)
(* abstract registry Sessions under the refinement mapping RegView.        *)
(***************************************************************************)
EXTENDS PeerRegistryProofs

\* What the refinement rests on, besides TypeOK and SsrcCounter:
\*  - an object the constructor has not yet returned is neither offered
\*    nor answered (the map then shows a fresh session as "created");
\*  - handle_answer only succeeds after start_offer;
\*  - the stack leaves "new" only once an answer started ICE, and latches
\*    closed_ only after leaving "new" (so the reaper takes answered
\*    sessions only);
\*  - no two keys of peers_ hold the same object (each create stores a
\*    freshly constructed one), so offering one session changes no other.
StageInv ==
    /\ \A o \in Objs : created < o => ~offered[o] /\ ~answered[o]
    /\ \A o \in Objs : answered[o] => offered[o]
    /\ \A o \in Objs : pcState[o] # "new" => answered[o]
    /\ \A o \in Objs : closed[o] => pcState[o] # "new"
    /\ \A i, j \in PeerIds :
          i # j /\ peers[i] # NoPeer => peers[i] # peers[j]


\* The stack never reports a transition back to "new".
LEMMA NeverBackToNew ==
    ASSUME NEW s \in PcStates
    PROVE  "new" \notin PcTransitions(s)
BY DEF PcTransitions, PcStates

LEMMA StageInvariant == Spec => []StageInv
<1>1. Init => StageInv
  BY MaxCreatesAssumption DEF Init, StageInv, Objs, NoPeer
<1>2. TypeOK /\ SsrcCounter /\ StageInv /\ [Next]_vars => StageInv'
  <2> SUFFICES ASSUME TypeOK, SsrcCounter, StageInv, [Next]_vars
               PROVE  StageInv'
    OBVIOUS
  <2>1. ASSUME NEW id \in PeerIds, NEW ok \in BOOLEAN, CreatePeer(id, ok)
        PROVE  StageInv'
    <3>1. CASE AdmissionRefused(Cardinality(MemberIds)) \/ ~ok
      <4>1. peers' = peers /\ created' \in {created, created + 1}
        BY <2>1, <3>1 DEF CreatePeer
      <4>2. UNCHANGED <<offered, answered, pcState, closed>>
        BY <2>1 DEF CreatePeer, peerVars
      <4>3. QED
        BY <4>1, <4>2 DEF StageInv, TypeOK, Objs
    <3>2. CASE ~AdmissionRefused(Cardinality(MemberIds)) /\ ok
      <4>1. /\ created < MaxCreates
            /\ created' = created + 1
            /\ peers' = [peers EXCEPT ![id] = created + 1]
            /\ UNCHANGED <<offered, answered, pcState, closed>>
        BY <2>1, <3>2 DEF CreatePeer
      <4>2. \A j \in PeerIds : peers[j] # NoPeer => peers[j] <= created
        BY DEF SsrcCounter
      <4>3. QED
        BY <4>1, <4>2 DEF StageInv, TypeOK, Objs, NoPeer
    <3>3. QED
      BY <3>1, <3>2
  <2>2. ASSUME NEW id \in PeerIds, StartOffer(id) \/ HandleAnswer(id)
        PROVE  StageInv'
    <3>1. peers[id] \in Objs /\ peers[id] <= created
      BY <2>2 DEF StartOffer, HandleAnswer, SsrcCounter, TypeOK, NoPeer, Objs
    <3>2. CASE StartOffer(id)
      <4>1. /\ offered' = [offered EXCEPT ![peers[id]] = TRUE]
            /\ UNCHANGED <<peers, created, answered, pcState, closed>>
        BY <3>2 DEF StartOffer
      <4>2. \A o \in Objs : created < o => ~offered'[o] /\ ~answered'[o]
        BY <3>1, <4>1 DEF StageInv, TypeOK, Objs
      <4>3. \A o \in Objs : answered'[o] => offered'[o]
        BY <4>1 DEF StageInv, TypeOK
      <4>4. QED
        BY <4>1, <4>2, <4>3 DEF StageInv
    <3>3. CASE HandleAnswer(id)
      <4>1. /\ answered' = [answered EXCEPT ![peers[id]] = TRUE]
            /\ offered[peers[id]]
            /\ UNCHANGED <<peers, created, offered, pcState, closed>>
        BY <3>3 DEF HandleAnswer
      <4>2. \A o \in Objs : created < o => ~offered'[o] /\ ~answered'[o]
        BY <3>1, <4>1 DEF StageInv, TypeOK, Objs
      <4>3. \A o \in Objs : answered'[o] => offered'[o]
        BY <4>1 DEF StageInv, TypeOK
      <4>4. \A o \in Objs : pcState'[o] # "new" => answered'[o]
        BY <4>1 DEF StageInv, TypeOK
      <4>5. QED
        BY <4>1, <4>2, <4>3, <4>4 DEF StageInv
    <3>4. QED
      BY <2>2, <3>2, <3>3
  <2>3. ASSUME NEW id \in PeerIds, RemovePeer(id) PROVE StageInv'
    BY <2>3 DEF RemovePeer, StageInv, TypeOK, NoPeer, peerVars
  <2>4. CASE Reap \/ StopEnd
    BY <2>4 DEF Reap, StopEnd, StageInv, TypeOK, NoPeer, peerVars
  <2>5. ASSUME NEW o \in Objs, NEW s \in PcStates, PcStateChange(o, s)
        PROVE  StageInv'
    <3>1. s # "new" /\ (pcState[o] = "new" => s = "connecting")
      BY <2>5, NeverBackToNew DEF PcStateChange, PcTransitions, TypeOK
    <3>2. s # "new" => answered[o]
      BY <2>5, <3>1 DEF PcStateChange, StageInv
    <3>3. closed'[o] => pcState'[o] # "new"
      BY <2>5, <3>1 DEF PcStateChange, TypeOK
    <3>4. QED
      BY <2>5, <3>1, <3>2, <3>3 DEF PcStateChange, StageInv, TypeOK
  <2>6. CASE \/ \E us \in NalTimestamps : BroadcastBegin(us)
             \/ \E id \in PeerIds : BroadcastStep(id)
             \/ BroadcastEnd \/ Start \/ ReaperExit \/ StopBegin
             \/ \E o \in Objs : TrackOpen(o)
             \/ UNCHANGED vars
    BY <2>6 DEF BroadcastBegin, BroadcastStep, BroadcastEnd, Start,
                ReaperExit, StopBegin, TrackOpen, StageInv, vars, peerVars
  <2>7. QED
    BY <2>1, <2>2, <2>3, <2>4, <2>5, <2>6 DEF Next
<1>3. QED
  BY <1>1, <1>2, TypeCorrect, SsrcCounterInvariant, PTL DEF Spec



\* The abstract view of a step that touches neither peers_ nor the offer
\* and answer flags is a stutter.
LEMMA ViewUnchanged ==
    ASSUME UNCHANGED <<peers, offered, answered>>
    PROVE  UNCHANGED RegView
BY DEF RegView

\* The abstract registry's members are exactly the keys of peers_.
LEMMA ViewMembers ==
    Abstract!Members = MemberIds
BY DEF Abstract!Members, Abstract!Free, MemberIds, RegView

\* WebRtcServer implements the abstract registry (AbstractSpec): every
\* create_peer, start_offer, handle_answer, remove_peer, reaper pass and
\* stop() is a step of Sessions or leaves the caller's view unchanged.  The
\* argument rests on StageInv: a freshly constructed session is seen as
\* "created", offering one session changes no other, and the reaper only
\* finds answered sessions closed.
THEOREM Refinement == Spec => AbstractSpec
<1>1. Init => Abstract!Init
  BY DEF Init, Abstract!Init, Abstract!Free, RegView
<1>2. TypeOK /\ SsrcCounter /\ StageInv /\ [Next]_vars
        => [Abstract!Next]_RegView
  <2> SUFFICES ASSUME TypeOK, SsrcCounter, StageInv, [Next]_vars
               PROVE  [Abstract!Next]_RegView
    OBVIOUS
  <2>1. ASSUME NEW id \in PeerIds, NEW ok \in BOOLEAN, CreatePeer(id, ok)
        PROVE  [Abstract!Next]_RegView
    <3>1. CASE AdmissionRefused(Cardinality(MemberIds)) \/ ~ok
      <4>1. UNCHANGED <<peers, offered, answered>>
        BY <2>1, <3>1 DEF CreatePeer, peerVars
      <4>2. QED
        BY <4>1, ViewUnchanged
    <3>2. CASE ~AdmissionRefused(Cardinality(MemberIds)) /\ ok
      <4>1. /\ created < MaxCreates
            /\ peers' = [peers EXCEPT ![id] = created + 1]
            /\ UNCHANGED <<offered, answered>>
        BY <2>1, <3>2 DEF CreatePeer
      <4>2. Abstract!Cardinality(Abstract!Members) < MaxPeers
        <5>1. Cardinality(MemberIds) \in Nat
          BY MemberIdsFinite, FS_CardinalityType DEF TypeOK, MemberIds
        <5>2. Cardinality(MemberIds) < MaxPeers
          BY <3>2, <5>1, MaxPeersAssumption DEF AdmissionRefused
        <5>3. QED
          BY <5>2, ViewMembers DEF Abstract!Cardinality, Cardinality
      <4>3. ~offered[created + 1] /\ ~answered[created + 1]
        BY <4>1, MaxCreatesAssumption DEF StageInv, TypeOK, Objs
      <4>4. created + 1 # NoPeer
        BY DEF TypeOK, NoPeer
      <4>5. RegView' = [RegView EXCEPT ![id] = "created"]
        BY <4>1, <4>3, <4>4 DEF RegView, TypeOK
      <4>6. Abstract!Admit(id)
        BY <4>2, <4>5 DEF Abstract!Admit
      <4>7. QED
        BY <4>6 DEF Abstract!Next
    <3>3. QED
      BY <3>1, <3>2
  <2>2. ASSUME NEW id \in PeerIds, StartOffer(id) PROVE [Abstract!Next]_RegView
    <3>1. /\ peers[id] # NoPeer /\ ~offered[peers[id]] /\ ~answered[peers[id]]
          /\ offered' = [offered EXCEPT ![peers[id]] = TRUE]
          /\ UNCHANGED <<peers, answered>>
      BY <2>2 DEF StartOffer, StageInv, TypeOK
    <3>2. RegView[id] = "created"
      BY <3>1 DEF RegView
    <3>3. RegView' = [RegView EXCEPT ![id] = "offered"]
      BY <3>1 DEF RegView, StageInv, TypeOK
    <3>4. QED
      BY <3>2, <3>3 DEF Abstract!Next, Abstract!Offer
  <2>3. ASSUME NEW id \in PeerIds, HandleAnswer(id) PROVE [Abstract!Next]_RegView
    <3>1. /\ peers[id] # NoPeer /\ offered[peers[id]] /\ ~answered[peers[id]]
          /\ answered' = [answered EXCEPT ![peers[id]] = TRUE]
          /\ UNCHANGED <<peers, offered>>
      BY <2>3 DEF HandleAnswer
    <3>2. RegView[id] = "offered"
      BY <3>1 DEF RegView
    <3>3. RegView' = [RegView EXCEPT ![id] = "answered"]
      BY <3>1 DEF RegView, StageInv, TypeOK
    <3>4. QED
      BY <3>2, <3>3 DEF Abstract!Next, Abstract!Answer
  <2>4. ASSUME NEW id \in PeerIds, RemovePeer(id) PROVE [Abstract!Next]_RegView
    <3>1. /\ peers[id] # NoPeer
          /\ peers' = [peers EXCEPT ![id] = NoPeer]
          /\ UNCHANGED <<offered, answered>>
      BY <2>4 DEF RemovePeer, peerVars
    <3>2. RegView[id] # Abstract!Free
      BY <3>1 DEF RegView, Abstract!Free
    <3>3. RegView' = [RegView EXCEPT ![id] = Abstract!Free]
      BY <3>1 DEF RegView, Abstract!Free, TypeOK
    <3>4. QED
      BY <3>2, <3>3 DEF Abstract!Next, Abstract!Remove
  <2>5. ASSUME Reap PROVE [Abstract!Next]_RegView
    <3> DEFINE S == {id \in PeerIds : peers[id] # NoPeer /\ closed[peers[id]]}
    <3>1. /\ peers' = [id \in PeerIds |-> IF id \in S THEN NoPeer ELSE peers[id]]
          /\ UNCHANGED <<offered, answered>>
      BY <2>5 DEF Reap, peerVars
    <3>2. CASE S = {}
      <4>1. peers' = peers
        BY <3>1, <3>2 DEF TypeOK
      <4>2. QED
        BY <3>1, <4>1, ViewUnchanged
    <3>3. CASE S # {}
      <4>1. \A id \in S : RegView[id] = "answered"
        BY DEF StageInv, RegView, TypeOK, NoPeer
      <4>2. RegView' = [id \in PeerIds |-> IF id \in S THEN Abstract!Free
                                                     ELSE RegView[id]]
        BY <3>1 DEF RegView, Abstract!Free
      <4>3. S \in SUBSET PeerIds
        OBVIOUS
      <4>4. QED
        BY <3>3, <4>1, <4>2, <4>3 DEF Abstract!Next, Abstract!Reap
    <3>4. QED
      BY <3>2, <3>3
  <2>6. ASSUME StopEnd PROVE [Abstract!Next]_RegView
    <3>1. /\ peers' = [id \in PeerIds |-> NoPeer]
          /\ UNCHANGED <<offered, answered>>
      BY <2>6 DEF StopEnd, peerVars
    <3>2. RegView' = [id \in PeerIds |-> Abstract!Free]
      BY <3>1 DEF RegView, Abstract!Free
    <3>3. QED
      BY <3>2 DEF Abstract!Next, Abstract!Clear
  <2>7. CASE \/ \E us \in NalTimestamps : BroadcastBegin(us)
             \/ \E id \in PeerIds : BroadcastStep(id)
             \/ BroadcastEnd \/ Start \/ ReaperExit \/ StopBegin
             \/ \E o \in Objs, s \in PcStates : PcStateChange(o, s)
             \/ \E o \in Objs : TrackOpen(o)
             \/ UNCHANGED vars
    <3>1. UNCHANGED <<peers, offered, answered>>
      BY <2>7 DEF BroadcastBegin, BroadcastStep, BroadcastEnd, Start,
                  ReaperExit, StopBegin, PcStateChange, TrackOpen, vars,
                  peerVars
    <3>2. QED
      BY <3>1, ViewUnchanged
  <2>8. QED
    BY <2>1, <2>2, <2>3, <2>4, <2>5, <2>6, <2>7 DEF Next
<1>3. QED
  BY <1>1, <1>2, TypeCorrect, SsrcCounterInvariant, StageInvariant, PTL
  DEF Spec, AbstractSpec, Abstract!Spec


=============================================================================
