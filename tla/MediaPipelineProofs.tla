------------------------- MODULE MediaPipelineProofs -------------------------
(***************************************************************************)
(* TLAPS proofs about the ingest pipeline (MediaPipeline): type           *)
(* correctness, that only the pipeline pipeline_ points to can be PLAYING, *)
(* and that stop() leaves the supervisor joined and nothing streaming, for *)
(* every value of the bounds.                                              *)
(***************************************************************************)
EXTENDS MediaPipeline, TLAPS

\* The supervisor's program points between a successful build and the
\* unref of cleanup: pipeline_ holds the pipeline it built.
Active == {"built", "playing", "left", "cleared", "nulled"}

\* The strengthening.  Pipelines are numbered by build, so every pipeline
\* that exists, was freed or is pointed to has a number up to builds; while
\* the supervisor owns a pipeline it is live and pipeline_ points to it,
\* and outside the bus loop and its cleanup nothing plays; a sample in
\* flight comes from a PLAYING pipeline; running_ is set only while the
\* bus loop runs; once stop() has joined the supervisor, thread_ stays
\* empty until start(); and every reconnect follows a build of its own.
PipelineInv ==
    /\ TypeOK
    /\ pipeline \in 0 .. builds
    /\ made \subseteq 1 .. builds
    /\ freed \subseteq 1 .. builds
    /\ OnlyCurrentPipelinePlays
    /\ sup \in Active => pipeline \in Pipes \ freed
    /\ sup \notin {"playing", "left", "cleared"} => playing = {}
    /\ inflight # NoPipe => inflight \in playing
    /\ running => sup = "playing"
    /\ ctl \in {"unref", "start", "done"} => sup = "none"
    /\ reconnect_count + (IF sup \in Active THEN 1 ELSE 0) <= builds

LEMMA InitPipelineInv == Init => PipelineInv
<1> SUFFICES ASSUME Init PROVE PipelineInv
    OBVIOUS
<1>1. TypeOK
  <2>1. frames \in [Pipes -> 0 .. MaxFrames]
    BY MaxFramesAssumption DEF Init
  <2>2. /\ pipeline \in Pipes \cup {NoPipe} /\ inflight \in Pipes \cup {NoPipe}
        /\ ctlPtr \in Pipes \cup {NoPipe}
        /\ builds \in 0 .. MaxBuilds /\ reconnect_count \in 0 .. MaxBuilds
        /\ restarts \in 0 .. MaxRestarts /\ now \in Nat /\ lastTs \in Nat
    BY MaxBuildsAssumption, MaxRestartsAssumption, ClockStartAssumption
    DEF Init, Pipes, NoPipe
  <2>3. /\ sup \in SupStates /\ ctl \in CtlStates
        /\ caller \in {"watchdog", "shutdown"}
        /\ running \in BOOLEAN /\ stop_requested \in BOOLEAN
        /\ connected \in BOOLEAN
    BY Zenon DEF Init, SupStates, CtlStates
  <2>4. QED
    BY <2>1, <2>2, <2>3 DEF Init, TypeOK, Pipes
<1>2. QED
  BY <1>1, MaxBuildsAssumption
  DEF Init, PipelineInv, OnlyCurrentPipelinePlays, NoPipe, Active

\* Each action keeps the strengthening; one step per action of Next.
LEMMA NextPipelineInv == PipelineInv /\ [Next]_vars => PipelineInv'
<1> USE MaxBuildsAssumption, MaxFramesAssumption, MaxRestartsAssumption,
        ClockStartAssumption
<1> USE DEF PipelineInv, TypeOK, OnlyCurrentPipelinePlays, Pipes, NoPipe,
            SupStates, CtlStates, Active
<1> SUFFICES ASSUME PipelineInv, [Next]_vars PROVE PipelineInv'
    OBVIOUS
<1>1. CASE Start
  BY <1>1 DEF Start
<1>2. CASE Watchdog
  BY <1>2 DEF Watchdog
<1>3. CASE Shutdown
  BY <1>3 DEF Shutdown
<1>4. CASE StopFlags
  BY <1>4 DEF StopFlags
<1>5. CASE StopCheck
  BY <1>5 DEF StopCheck
<1>6. CASE StopSetState
  BY <1>6 DEF StopSetState
<1>7. CASE StopJoin
  BY <1>7 DEF StopJoin
<1>8. CASE StopUnref
  \* stop() has joined the supervisor, so nothing plays.
  <2>1. sup = "none" /\ playing = {}
    BY <1>8 DEF StopUnref
  <2>2. CASE pipeline # NoPipe
    <3>1. /\ freed' = freed \cup {pipeline} /\ pipeline' = NoPipe
          /\ ctl' \in {"start", "done"}
          /\ UNCHANGED <<builds, made, playing, frames, inflight, sup, running,
                         stop_requested, connected, reconnect_count, now,
                         lastTs, caller, ctlPtr, restarts>>
      BY <1>8, <2>2 DEF StopUnref
    <3>2. pipeline \in 1 .. builds
      BY <2>2
    <3>3. TypeOK'
      BY <3>1, <3>2
    <3>4. QED
      BY <2>1, <3>1, <3>2, <3>3
  <2>3. CASE pipeline = NoPipe
    BY <1>8, <2>1, <2>3 DEF StopUnref
  <2>4. QED
    BY <2>2, <2>3
<1>9. CASE LoopHead
  <2>1. playing = {} /\ inflight = NoPipe
    BY <1>9 DEF LoopHead
  <2>2. CASE stop_requested
    BY <1>9, <2>1, <2>2 DEF LoopHead
  <2>3. CASE ~stop_requested
    <3>1. PICK outcome \in {"error", "partial", "ok"} :
                /\ builds < MaxBuilds
                /\ BuildPipeline(outcome)
                /\ IF outcome = "ok"
                     THEN /\ sup' = "built"
                          /\ UNCHANGED reconnect_count
                     ELSE AttemptReconnect
      BY <1>9, <2>3 DEF LoopHead
    <3>2. builds' = builds + 1 /\ builds' \in 1 .. MaxBuilds
      BY <3>1 DEF BuildPipeline
    <3>3. CASE outcome = "ok"
      BY <1>9, <2>1, <3>1, <3>2, <3>3 DEF LoopHead, BuildPipeline
    <3>4. CASE outcome # "ok"
      <4>1. sup' = "backoff" /\ reconnect_count' = reconnect_count + 1
        BY <2>3, <3>1, <3>4 DEF AttemptReconnect
      <4>2. QED
        BY <1>9, <2>1, <3>1, <3>2, <4>1 DEF LoopHead, BuildPipeline
    <3>5. QED
      BY <3>3, <3>4
  <2>4. QED
    BY <2>2, <2>3
<1>10. CASE SetPlaying
  <2>1. /\ sup = "built" /\ playing = {} /\ inflight = NoPipe
        /\ pipeline \in Pipes \ freed
    BY <1>10 DEF SetPlaying
  <2>2. PICK ok \in BOOLEAN :
          IF ok
            THEN /\ playing' = playing \cup {pipeline}
                 /\ running' = TRUE
                 /\ sup' = "playing"
                 /\ UNCHANGED <<pipeline, freed, reconnect_count>>
            ELSE /\ freed' = freed \cup {pipeline}
                 /\ pipeline' = NoPipe
                 /\ AttemptReconnect
                 /\ UNCHANGED <<playing, running>>
    BY <1>10 DEF SetPlaying
  <2>3. CASE ok
    <3>1. /\ playing' = {pipeline} /\ running' /\ sup' = "playing"
          /\ UNCHANGED <<pipeline, builds, made, freed, frames, inflight,
                         stop_requested, connected, reconnect_count, now,
                         lastTs, ctl, caller, ctlPtr, restarts>>
      BY <1>10, <2>1, <2>2, <2>3 DEF SetPlaying
    <3>2. TypeOK'
      BY <2>1, <3>1
    <3>3. QED
      BY <2>1, <3>1, <3>2
  <2>4. CASE ~ok
    <3>1. \/ sup' = "top" /\ reconnect_count' = reconnect_count
          \/ sup' = "backoff" /\ reconnect_count' = reconnect_count + 1
      BY <2>2, <2>4 DEF AttemptReconnect
    <3>2. /\ freed' = freed \cup {pipeline} /\ pipeline' = NoPipe
          /\ UNCHANGED <<playing, running, builds, made, frames, inflight,
                         stop_requested, connected, now, lastTs, ctl, caller,
                         ctlPtr, restarts>>
      BY <1>10, <2>2, <2>4 DEF SetPlaying
    <3>3. TypeOK'
      BY <2>1, <3>1, <3>2
    <3>4. ~running /\ ctl \notin {"unref", "start", "done"}
      BY <2>1
    <3>5. pipeline \in 1 .. builds
      BY <2>1
    <3>6. CASE sup' = "top" /\ reconnect_count' = reconnect_count
      BY <2>1, <3>2, <3>3, <3>4, <3>5, <3>6
    <3>7. CASE sup' = "backoff" /\ reconnect_count' = reconnect_count + 1
      BY <2>1, <3>2, <3>3, <3>4, <3>5, <3>7
    <3>8. QED
      BY <3>1, <3>6, <3>7
  <2>5. QED
    BY <2>3, <2>4
<1>11. CASE BusFault
  BY <1>11 DEF BusFault, LeaveBusLoop
<1>12. CASE BusStop
  BY <1>12 DEF BusStop, LeaveBusLoop
<1>13. CASE ClearConnected
  BY <1>13 DEF ClearConnected
<1>14. CASE SetNull
  BY <1>14 DEF SetNull
<1>15. CASE Unref
  BY <1>15 DEF Unref, AttemptReconnect
<1>16. CASE Backoff
  BY <1>16 DEF Backoff
<1>17. CASE \E p \in Pipes : Sample(p)
  BY <1>17 DEF Sample, NalTimestamp
<1>18. CASE StatsUpdate
  BY <1>18 DEF StatsUpdate
<1>19. CASE UNCHANGED vars
  BY <1>19 DEF vars
<1>20. QED
  BY <1>1, <1>2, <1>3, <1>4, <1>5, <1>6, <1>7, <1>8, <1>9, <1>10, <1>11,
     <1>12, <1>13, <1>14, <1>15, <1>16, <1>17, <1>18, <1>19 DEF Next

\* The strengthening holds in every reachable state.
LEMMA PipelineInvariant == Spec => []PipelineInv
BY InitPipelineInv, NextPipelineInv, PTL DEF Spec

\* Every variable keeps its type: the counters stay within their bounds and
\* pipeline_, the pointer stop() read and the sample in flight name a
\* pipeline or null.
THEOREM PipelineTypeCorrect == Spec => []TypeOK
<1>1. PipelineInv => TypeOK
  BY DEF PipelineInv
<1>2. QED
  BY <1>1, PipelineInvariant, PTL

\* Cleanup (set_state(NULL) before the unref) and stop() (set_state on the
\* pointer it read before the join and the unref) never leave a pipeline
\* PLAYING that pipeline_ no longer points to or that was freed.
THEOREM OnlyCurrentPlays == Spec => []OnlyCurrentPipelinePlays
<1>1. PipelineInv => OnlyCurrentPipelinePlays
  BY DEF PipelineInv
<1>2. QED
  BY <1>1, PipelineInvariant, PTL

\* Once stop() has returned to the watchdog or to shutdown, the supervisor
\* has been joined, nothing plays and no appsink callback is delivering,
\* whatever the bounds on builds, samples and restarts.
THEOREM StopQuiescesHolds == Spec => []StopQuiesces
<1>1. PipelineInv => StopQuiesces
  BY DEF PipelineInv, StopQuiesces, NoPipe
<1>2. QED
  BY <1>1, PipelineInvariant, PTL

-----------------------------------------------------------------------------
(* Refinement: the pipeline implements the ingest promise (module Ingest)  *)

ingestVars == <<IngestStream, inflight, IngestEnded>>

\* A step that leaves the PLAYING set, the delivery and the build count
\* alone, and moves pipeline_ only while nothing plays and the supervisor
\* is away from set_state(PLAYING), is a stutter of the ingest.
LEMMA IngestStutter ==
    ASSUME PipelineInv,
           UNCHANGED <<playing, inflight, builds>>,
           sup' = "built" <=> sup = "built",
           \/ pipeline' = pipeline
           \/ playing = {} /\ sup # "built"
    PROVE  UNCHANGED ingestVars
BY DEF ingestVars, IngestStream, IngestEnded

\* set_state(NULL) on a pipeline, by cleanup or by stop(), once the
\* streaming thread has left on_new_sample for it: the streaming graph
\* halts if it was that pipeline, nothing happens otherwise.
LEMMA IngestSetNull ==
    ASSUME PipelineInv, NEW q \in Pipes \cup {NoPipe},
           inflight # q,
           playing' = playing \ {q},
           sup' = "built" <=> sup = "built",
           UNCHANGED <<pipeline, inflight, builds>>
    PROVE  [Ingest!Next]_ingestVars
<1> USE DEF PipelineInv, TypeOK, OnlyCurrentPipelinePlays, NoPipe, Pipes
<1>1. CASE q \in playing
  <2>1. q = pipeline /\ playing = {pipeline} /\ playing' = {}
    BY <1>1
  <2>2. inflight = NoPipe /\ sup \notin {"built"}
    BY <2>1
  <2>3. IngestEnded' = IngestEnded \cup {IngestStream}
    BY <2>1 DEF IngestEnded, IngestStream
  <2>4. Ingest!Halt
    BY <2>1, <2>2, <2>3 DEF Ingest!Halt, Ingest!None, IngestStream
  <2>5. QED
    BY <2>4 DEF Ingest!Next
<1>2. CASE q \notin playing
  BY <1>2, IngestStutter
<1>3. QED
  BY <1>1, <1>2

\* Every step of the pipeline is a step of the ingest or leaves it alone.
LEMMA NextIngest == PipelineInv /\ [Next]_vars => [Ingest!Next]_ingestVars
<1> SUFFICES ASSUME PipelineInv, [Next]_vars PROVE [Ingest!Next]_ingestVars
    OBVIOUS
<1> USE MaxBuildsAssumption
<1> USE DEF PipelineInv, TypeOK, OnlyCurrentPipelinePlays, NoPipe, Pipes,
            Active
<1>1. CASE Start \/ Watchdog \/ Shutdown \/ StopFlags \/ StopCheck
           \/ StopJoin \/ BusFault \/ BusStop \/ ClearConnected \/ Backoff
  BY <1>1, IngestStutter
  DEF Start, Watchdog, Shutdown, StopFlags, StopCheck, StopJoin, BusFault,
      BusStop, ClearConnected, Backoff, LeaveBusLoop
<1>2. CASE StopUnref \/ Unref
  BY <1>2, IngestStutter DEF StopUnref, Unref, AttemptReconnect
<1>3. CASE StopSetState
  BY <1>3, IngestSetNull DEF StopSetState
<1>4. CASE SetNull
  BY <1>4, IngestSetNull DEF SetNull
<1>5. CASE LoopHead
  <2>1. CASE stop_requested
    BY <1>5, <2>1, IngestStutter DEF LoopHead
  <2>2. CASE ~stop_requested
    <3>1. PICK outcome \in {"error", "partial", "ok"} :
                /\ builds < MaxBuilds
                /\ BuildPipeline(outcome)
                /\ IF outcome = "ok"
                     THEN /\ sup' = "built"
                          /\ UNCHANGED reconnect_count
                     ELSE AttemptReconnect
      BY <1>5, <2>2 DEF LoopHead
    <3>2. /\ sup = "top" /\ playing = {} /\ inflight = NoPipe
          /\ UNCHANGED <<playing, inflight>>
          /\ builds' = builds + 1
      BY <1>5, <3>1 DEF LoopHead, BuildPipeline
    <3>3. CASE outcome = "ok"
      <4>1. pipeline' = builds + 1 /\ sup' = "built"
        BY <3>1, <3>3 DEF BuildPipeline
      <4>2. QED
        BY <3>2, <4>1 DEF ingestVars, IngestStream, IngestEnded
    <3>4. CASE outcome # "ok"
      <4>1. sup' \in {"top", "backoff"}
        BY <3>1, <3>4 DEF AttemptReconnect
      <4>2. IngestEnded' = IngestEnded \cup {builds + 1}
        BY <3>2, <4>1 DEF IngestEnded
      <4>3. Ingest!Discard(builds + 1)
        BY <3>1, <3>2, <4>2
        DEF Ingest!Discard, IngestStream, IngestEnded, Ingest!None
      <4>4. builds + 1 \in Pipes
        BY <3>1
      <4>5. QED
        BY <4>3, <4>4 DEF Ingest!Next
    <3>5. QED
      BY <3>3, <3>4
  <2>3. QED
    BY <2>1, <2>2
<1>6. CASE SetPlaying
  <2>1. /\ sup = "built" /\ playing = {} /\ inflight = NoPipe
        /\ pipeline \in 1 .. builds
        /\ UNCHANGED <<builds, inflight>>
    BY <1>6 DEF SetPlaying
  <2>2. pipeline \notin IngestEnded /\ IngestStream = NoPipe
    BY <2>1 DEF IngestEnded, IngestStream
  <2>3. PICK ok \in BOOLEAN :
          IF ok
            THEN /\ playing' = playing \cup {pipeline}
                 /\ running' = TRUE
                 /\ sup' = "playing"
                 /\ UNCHANGED <<pipeline, freed, reconnect_count>>
            ELSE /\ freed' = freed \cup {pipeline}
                 /\ pipeline' = NoPipe
                 /\ AttemptReconnect
                 /\ UNCHANGED <<playing, running>>
    BY <1>6 DEF SetPlaying
  <2>4. CASE ok
    <3>1. IngestStream' = pipeline /\ IngestEnded' = IngestEnded
      BY <2>1, <2>3, <2>4 DEF IngestStream, IngestEnded
    <3>2. Ingest!Play(pipeline)
      BY <2>1, <2>2, <3>1 DEF Ingest!Play, Ingest!None
    <3>3. QED
      BY <2>1, <3>2 DEF Ingest!Next
  <2>5. CASE ~ok
    <3>1. sup' \in {"top", "backoff"} /\ pipeline' = NoPipe
          /\ playing' = {}
      BY <2>1, <2>3, <2>5 DEF AttemptReconnect
    <3>2. IngestEnded' = IngestEnded \cup {pipeline}
          /\ IngestStream' = IngestStream
      BY <2>1, <2>2, <3>1 DEF IngestEnded, IngestStream
    <3>3. Ingest!Discard(pipeline)
      BY <2>1, <2>2, <3>2 DEF Ingest!Discard, Ingest!None
    <3>4. QED
      BY <2>1, <3>3 DEF Ingest!Next
  <2>6. QED
    BY <2>4, <2>5
<1>7. CASE \E p \in Pipes : Sample(p)
  <2>1. PICK p \in Pipes : Sample(p)
    BY <1>7
  <2>2. /\ p \in playing /\ inflight = NoPipe /\ inflight' = p
        /\ UNCHANGED <<playing, pipeline, builds, sup>>
    BY <2>1 DEF Sample
  <2>3. Ingest!Emit
    BY <2>2 DEF Ingest!Emit, Ingest!None, IngestStream, IngestEnded
  <2>4. QED
    BY <2>3 DEF Ingest!Next
<1>8. CASE StatsUpdate
  <2>1. Ingest!Return
    BY <1>8 DEF StatsUpdate, Ingest!Return, Ingest!None, IngestStream,
                IngestEnded
  <2>2. QED
    BY <2>1 DEF Ingest!Next
<1>9. CASE UNCHANGED vars
  BY <1>9 DEF vars, ingestVars, IngestStream, IngestEnded
<1>10. QED
  BY <1>1, <1>2, <1>3, <1>4, <1>5, <1>6, <1>7, <1>8, <1>9 DEF Next

\* The pipeline -- supervisor, streaming thread, watchdog restarts and
\* stop() -- implements the ingest promise AbstractIngest for every value
\* of the bounds: one graph streams at a time, NALs come only from it, a
\* graph is torn down only after on_new_sample returned, and an ended graph
\* never streams again.
THEOREM IngestRefinement == Spec => AbstractIngest
<1>1. Init => Ingest!Init
  BY DEF Init, Ingest!Init, Ingest!None, IngestStream, IngestEnded, NoPipe
<1>2. QED
  BY <1>1, NextIngest, PipelineInvariant, PTL
  DEF Spec, AbstractIngest, Ingest!Spec, ingestVars

=============================================================================
