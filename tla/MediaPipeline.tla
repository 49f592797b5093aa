---------------------------- MODULE MediaPipeline ----------------------------
(***************************************************************************)
(* The ingest pipeline: class RtspPipeline (src/src/rtsp_pipeline.cpp) and *)
(* the calls main() makes on it (src/src/main.cpp).  Three threads:        *)
(*   - the supervisor, pipeline_thread(): build, PLAYING, bus loop,        *)
(*     cleanup, attempt_reconnect, around again until stop_requested_;     *)
(*   - the GStreamer streaming thread of a PLAYING pipeline, which runs    *)
(*     the appsink callback on_new_sample();                               *)
(*   - the main thread: start(), the watchdog's stop()+start() when        *)
(*     !is_running(), and the final stop() at shutdown.                    *)
(* The pointer pipeline_ is a plain (non-atomic) member that the          *)
(* supervisor writes and stop() reads; a GstPipeline is named by the       *)
(* number of the build that made it (1..MaxBuilds).                        *)
(***************************************************************************)
EXTENDS Naturals

CONSTANTS
    MaxBuilds,     \* bound: build_pipeline() calls
    MaxFrames,     \* bound: samples one pipeline delivers
    MaxRestarts,   \* bound: watchdog restarts
    ClockStart     \* steady_clock at the first sample, in us (uptime)

ASSUME MaxBuildsAssumption == MaxBuilds \in Nat
ASSUME MaxFramesAssumption == MaxFrames \in Nat
ASSUME MaxRestartsAssumption == MaxRestarts \in Nat
\* The device has been up longer than any pipeline's running time.
ASSUME ClockStartAssumption == ClockStart \in Nat /\ ClockStart > MaxFrames

Pipes == 1 .. MaxBuilds
NoPipe == 0                    \* pipeline_ == nullptr

\* Program points of pipeline_thread(); "none" is no joinable thread_.
SupStates == {"none", "top", "built", "playing", "left", "cleared", "nulled",
              "backoff", "exited"}

\* Program points of the main thread; "flags" .. "unref" are inside stop().
CtlStates == {"start", "watch", "flags", "check", "setstate", "join", "unref",
              "done"}

VARIABLES
    pipeline,        \* pipeline_
    builds,          \* build_pipeline() calls so far
    made,            \* pipelines gst_parse_launch returned
    playing,         \* pipelines in GST_STATE_PLAYING
    freed,           \* pipelines whose last reference was dropped
    frames,          \* samples each pipeline has delivered
    inflight,        \* pipeline whose on_new_sample is between 247 and 256
    sup,             \* supervisor program point
    running,         \* running_ (is_running())
    stop_requested,  \* stop_requested_
    connected,       \* stats_.connected
    reconnect_count, \* stats_.reconnect_count
    now,             \* steady_clock, in us
    lastTs,          \* timestamp_us of the last NAL handed to nal_callback_
    ctl,             \* main-thread program point
    caller,          \* who called stop(): "watchdog" or "shutdown"
    ctlPtr,          \* the pipeline_ value stop() read at line 35
    restarts         \* watchdog restarts so far

vars == <<pipeline, builds, made, playing, freed, frames, inflight, sup,
          running, stop_requested, connected, reconnect_count, now, lastTs,
          ctl, caller, ctlPtr, restarts>>

-----------------------------------------------------------------------------
(* Mutants (plausible bugs; each is checked to break a property): stop()   *)
(* unrefs without the null check, stop() does not join, cleanup unrefs     *)
(* without set_state(NULL), and the bus loop ignores stop_requested_.      *)
StopUnrefNoNullCheck ==
    /\ ctl = "unref"
    /\ freed' = freed \cup {pipeline}
    /\ pipeline' = NoPipe
    /\ ctl' = IF caller = "watchdog" THEN "start" ELSE "done"
    /\ UNCHANGED <<builds, made, playing, frames, inflight, sup, running,
                   stop_requested, connected, reconnect_count, now, lastTs,
                   caller, ctlPtr, restarts>>
StopJoinNoWait ==
    /\ ctl = "join"
    /\ ctl' = "unref"
    /\ UNCHANGED <<pipeline, builds, made, playing, freed, frames, inflight,
                   sup, running, stop_requested, connected, reconnect_count,
                   now, lastTs, caller, ctlPtr, restarts>>
SetNullSkipped ==
    /\ sup = "cleared"
    /\ sup' = "nulled"
    /\ UNCHANGED <<pipeline, builds, made, playing, freed, frames, inflight,
                   running, stop_requested, connected, reconnect_count, now,
                   lastTs, ctl, caller, ctlPtr, restarts>>
BusStopIgnored == FALSE

-----------------------------------------------------------------------------
(* Helpers                                                                 *)

\* on_new_sample's timestamp_us: the buffer PTS (running time of this
\* pipeline, restarting at 0 with every new pipeline) when valid, the
\* steady clock otherwise.  PTS of the k-th sample is modelled as k.
NalTimestamp(p, ptsValid) == IF ptsValid THEN frames[p] ELSE now

\* attempt_reconnect(): unless stop was requested, count the fault and
\* back off; the caller then continues the outer loop.
AttemptReconnect ==
    IF stop_requested
      THEN /\ sup' = "top"
           /\ UNCHANGED reconnect_count
      ELSE /\ sup' = "backoff"
           /\ reconnect_count' = reconnect_count + 1

-----------------------------------------------------------------------------
Init ==
    /\ pipeline = NoPipe
    /\ builds = 0
    /\ made = {}
    /\ playing = {}
    /\ freed = {}
    /\ frames = [p \in Pipes |-> 0]
    /\ inflight = NoPipe
    /\ sup = "none"
    /\ running = FALSE
    /\ stop_requested = FALSE
    /\ connected = FALSE
    /\ reconnect_count = 0
    /\ now = ClockStart
    /\ lastTs = 0
    /\ ctl = "start"
    /\ caller = "shutdown"
    /\ ctlPtr = NoPipe
    /\ restarts = 0

-----------------------------------------------------------------------------
(* Main thread                                                             *)

\* start(): return if running_; otherwise clear stop_requested_ and assign
\* a new std::thread to thread_.
Start ==
    /\ ctl = "start"
    /\ IF running
         THEN UNCHANGED <<sup, stop_requested>>
         ELSE /\ stop_requested' = FALSE
              /\ sup' = "top"
    /\ ctl' = "watch"
    /\ UNCHANGED <<pipeline, builds, made, playing, freed, frames, inflight,
                   running, connected, reconnect_count, now, lastTs, caller,
                   ctlPtr, restarts>>

\* The health check: the pipeline is not running, so stop() then start().
Watchdog ==
    /\ ctl = "watch"
    /\ ~running
    /\ restarts < MaxRestarts
    /\ restarts' = restarts + 1
    /\ ctl' = "flags"
    /\ caller' = "watchdog"
    /\ UNCHANGED <<pipeline, builds, made, playing, freed, frames, inflight,
                   sup, running, stop_requested, connected, reconnect_count,
                   now, lastTs, ctlPtr>>

\* SIGINT/SIGTERM ends the watchdog loop; shutdown stops the pipeline first.
Shutdown ==
    /\ ctl = "watch"
    /\ ctl' = "flags"
    /\ caller' = "shutdown"
    /\ UNCHANGED <<pipeline, builds, made, playing, freed, frames, inflight,
                   sup, running, stop_requested, connected, reconnect_count,
                   now, lastTs, ctlPtr, restarts>>

\* stop(), lines 32-33.
StopFlags ==
    /\ ctl = "flags"
    /\ stop_requested' = TRUE
    /\ running' = FALSE
    /\ ctl' = "check"
    /\ UNCHANGED <<pipeline, builds, made, playing, freed, frames, inflight,
                   sup, connected, reconnect_count, now, lastTs, caller,
                   ctlPtr, restarts>>

\* stop(), line 35: read pipeline_ (racing with the supervisor's writes).
StopCheck ==
    /\ ctl = "check"
    /\ ctlPtr' = pipeline
    /\ ctl' = IF pipeline # NoPipe THEN "setstate" ELSE "join"
    /\ UNCHANGED <<pipeline, builds, made, playing, freed, frames, inflight,
                   sup, running, stop_requested, connected, reconnect_count,
                   now, lastTs, caller, restarts>>

\* stop(), line 36: set_state(NULL) on the pointer read, which returns once
\* the streaming thread has left the appsink callback.
StopSetState ==
    /\ ctl = "setstate"
    /\ inflight # ctlPtr
    /\ playing' = playing \ {ctlPtr}
    /\ ctl' = "join"
    /\ UNCHANGED <<pipeline, builds, made, freed, frames, inflight, sup,
                   running, stop_requested, connected, reconnect_count, now,
                   lastTs, caller, ctlPtr, restarts>>

\* stop(), lines 39-41: join the supervisor if joinable.
StopJoin ==
    /\ ctl = "join"
    /\ sup \in {"none", "exited"}
    /\ sup' = "none"
    /\ ctl' = "unref"
    /\ UNCHANGED <<pipeline, builds, made, playing, freed, frames, inflight,
                   running, stop_requested, connected, reconnect_count, now,
                   lastTs, caller, ctlPtr, restarts>>

\* stop(), lines 43-48: drop the reference still held in pipeline_; return
\* to the watchdog (which calls start()) or to the shutdown sequence.
StopUnref ==
    /\ ctl = "unref"
    /\ IF pipeline # NoPipe
         THEN /\ freed' = freed \cup {pipeline}
              /\ pipeline' = NoPipe
         ELSE UNCHANGED <<freed, pipeline>>
    /\ ctl' = IF caller = "watchdog" THEN "start" ELSE "done"
    /\ UNCHANGED <<builds, made, playing, frames, inflight, sup, running,
                   stop_requested, connected, reconnect_count, now, lastTs,
                   caller, ctlPtr, restarts>>

-----------------------------------------------------------------------------
(* Supervisor: pipeline_thread()                                           *)

\* build_pipeline(): the description string is assembled from the config,
\* then gst_parse_launch either fails outright ("error": pipeline_ =
\* nullptr, throw), returns a partial pipeline with the error set
\* ("partial": pipeline_ holds it, throw), or succeeds ("ok": appsink
\* callbacks installed).  The appsink is always named in the description.
BuildPipeline(outcome) ==
    /\ builds' = builds + 1
    /\ pipeline' = IF outcome = "error" THEN NoPipe ELSE builds + 1
    /\ made' = IF outcome = "error" THEN made ELSE made \cup {builds + 1}

\* Loop head: exit when stop_requested_, otherwise build; a throw goes to
\* attempt_reconnect() and round the loop.
LoopHead ==
    /\ sup = "top"
    /\ IF stop_requested
         THEN /\ sup' = "exited"
              /\ UNCHANGED <<pipeline, builds, made, reconnect_count>>
         ELSE /\ builds < MaxBuilds
              /\ \E outcome \in {"error", "partial", "ok"} :
                   /\ BuildPipeline(outcome)
                   /\ IF outcome = "ok"
                        THEN /\ sup' = "built"
                             /\ UNCHANGED reconnect_count
                        ELSE AttemptReconnect
    /\ UNCHANGED <<playing, freed, frames, inflight, running, stop_requested,
                   connected, now, lastTs, ctl, caller, ctlPtr, restarts>>

\* set_state(PLAYING): on failure unref and reconnect, else running_ = true.
SetPlaying ==
    /\ sup = "built"
    /\ \E ok \in BOOLEAN :
         IF ok
           THEN /\ playing' = playing \cup {pipeline}
                /\ running' = TRUE
                /\ sup' = "playing"
                /\ UNCHANGED <<pipeline, freed, reconnect_count>>
           ELSE /\ freed' = freed \cup {pipeline}
                /\ pipeline' = NoPipe
                /\ AttemptReconnect
                /\ UNCHANGED <<playing, running>>
    /\ UNCHANGED <<builds, made, frames, inflight, stop_requested, connected,
                   now, lastTs, ctl, caller, ctlPtr, restarts>>

\* Leaving the bus loop: unref the bus, running_ = false.
LeaveBusLoop ==
    /\ sup' = "left"
    /\ running' = FALSE

\* The bus delivers ERROR or EOS: pipeline_ok = false.
BusFault ==
    /\ sup = "playing"
    /\ LeaveBusLoop
    /\ UNCHANGED <<pipeline, builds, made, playing, freed, frames, inflight,
                   stop_requested, connected, reconnect_count, now, lastTs,
                   ctl, caller, ctlPtr, restarts>>

\* gst_bus_timed_pop returns within 500 ms and the loop sees stop_requested_.
BusStop ==
    /\ sup = "playing"
    /\ stop_requested
    /\ LeaveBusLoop
    /\ UNCHANGED <<pipeline, builds, made, playing, freed, frames, inflight,
                   stop_requested, connected, reconnect_count, now, lastTs,
                   ctl, caller, ctlPtr, restarts>>

\* stats_.connected = false, under stats_mutex_.
ClearConnected ==
    /\ sup = "left"
    /\ connected' = FALSE
    /\ sup' = "cleared"
    /\ UNCHANGED <<pipeline, builds, made, playing, freed, frames, inflight,
                   running, stop_requested, reconnect_count, now, lastTs, ctl,
                   caller, ctlPtr, restarts>>

\* set_state(NULL), which waits for the streaming thread to leave the
\* appsink callback.
SetNull ==
    /\ sup = "cleared"
    /\ inflight # pipeline
    /\ playing' = playing \ {pipeline}
    /\ sup' = "nulled"
    /\ UNCHANGED <<pipeline, builds, made, freed, frames, inflight, running,
                   stop_requested, connected, reconnect_count, now, lastTs,
                   ctl, caller, ctlPtr, restarts>>

\* gst_object_unref, pipeline_ = nullptr, then attempt_reconnect() unless
\* stop was requested.
Unref ==
    /\ sup = "nulled"
    /\ freed' = freed \cup {pipeline}
    /\ pipeline' = NoPipe
    /\ AttemptReconnect
    /\ UNCHANGED <<builds, made, playing, frames, inflight, running,
                   stop_requested, connected, now, lastTs, ctl, caller,
                   ctlPtr, restarts>>

\* attempt_reconnect()'s sleep ends (interval elapsed or stop requested).
Backoff ==
    /\ sup = "backoff"
    /\ sup' = "top"
    /\ UNCHANGED <<pipeline, builds, made, playing, freed, frames, inflight,
                   running, stop_requested, connected, reconnect_count, now,
                   lastTs, ctl, caller, ctlPtr, restarts>>

-----------------------------------------------------------------------------
(* Streaming thread: on_new_sample()                                       *)

\* Pull a sample of a PLAYING pipeline, compute timestamp_us and hand the
\* buffer to nal_callback_ (broadcast_nal).
Sample(p) ==
    /\ p \in playing
    /\ inflight = NoPipe
    /\ frames[p] < MaxFrames
    /\ \E ptsValid \in BOOLEAN : lastTs' = NalTimestamp(p, ptsValid)
    /\ frames' = [frames EXCEPT ![p] = frames[p] + 1]
    /\ now' = now + 1
    /\ inflight' = p
    /\ UNCHANGED <<pipeline, builds, made, playing, freed, sup, running,
                   stop_requested, connected, reconnect_count, ctl, caller,
                   ctlPtr, restarts>>

\* Update stats under stats_mutex_ (connected = true), unmap, return.
StatsUpdate ==
    /\ inflight # NoPipe
    /\ connected' = TRUE
    /\ inflight' = NoPipe
    /\ UNCHANGED <<pipeline, builds, made, playing, freed, frames, sup,
                   running, stop_requested, reconnect_count, now, lastTs, ctl,
                   caller, ctlPtr, restarts>>

-----------------------------------------------------------------------------
Next ==
    \/ Start \/ Watchdog \/ Shutdown
    \/ StopFlags \/ StopCheck \/ StopSetState \/ StopJoin \/ StopUnref
    \/ LoopHead \/ SetPlaying \/ BusFault \/ BusStop \/ ClearConnected
    \/ SetNull \/ Unref \/ Backoff
    \/ \E p \in Pipes : Sample(p)
    \/ StatsUpdate

\* Every thread step that the code bounds in time (set_state, the 500 ms
\* bus poll, the 100 ms back-off slices, the callback body, thread join)
\* eventually happens.  Faults, samples and signals are left to the
\* environment.
Fairness ==
    /\ WF_vars(Start) /\ WF_vars(StopFlags) /\ WF_vars(StopCheck)
    /\ WF_vars(StopSetState) /\ WF_vars(StopJoin) /\ WF_vars(StopUnref)
    /\ WF_vars(LoopHead) /\ WF_vars(SetPlaying) /\ WF_vars(BusStop)
    /\ WF_vars(ClearConnected) /\ WF_vars(SetNull) /\ WF_vars(Unref)
    /\ WF_vars(Backoff) /\ WF_vars(StatsUpdate)

Spec == Init /\ [][Next]_vars

FairSpec == Spec /\ Fairness

-----------------------------------------------------------------------------
(* Properties                                                              *)

TypeOK ==
    /\ pipeline \in Pipes \cup {NoPipe}
    /\ builds \in 0 .. MaxBuilds
    /\ made \subseteq Pipes
    /\ playing \subseteq Pipes
    /\ freed \subseteq Pipes
    /\ frames \in [Pipes -> 0 .. MaxFrames]
    /\ inflight \in Pipes \cup {NoPipe}
    /\ sup \in SupStates
    /\ running \in BOOLEAN
    /\ stop_requested \in BOOLEAN
    /\ connected \in BOOLEAN
    /\ reconnect_count \in 0 .. MaxBuilds
    /\ now \in Nat
    /\ lastTs \in Nat
    /\ ctl \in CtlStates
    /\ caller \in {"watchdog", "shutdown"}
    /\ ctlPtr \in Pipes \cup {NoPipe}
    /\ restarts \in 0 .. MaxRestarts

\* Only the pipeline pipeline_ points to can be PLAYING: cleanup and stop()
\* set a pipeline to NULL before its reference is dropped or pipeline_ is
\* overwritten, so no orphaned graph keeps streaming into the registry.
OnlyCurrentPipelinePlays == playing \subseteq {pipeline} \ freed

\* Section 5: once stop() has returned (to the watchdog, which then calls
\* start(), or to shutdown) the supervisor has been joined, so thread_ is
\* not joinable when start() assigns a new std::thread to it (assigning
\* over a joinable one calls std::terminate), no pipeline is PLAYING and no
\* appsink callback is delivering a NAL to the registry.
StopQuiesces ==
    ctl \in {"start", "done"} =>
        /\ sup = "none"
        /\ playing = {}
        /\ inflight = NoPipe

\* P5: a stop() call (from the watchdog or at shutdown) returns: the
\* supervisor notices stop_requested_ in the bus loop, the back-off or the
\* loop head, and is joined.
StopTerminates ==
    ctl \in {"flags", "check", "setstate", "join", "unref"}
        ~> ctl \in {"start", "done"}

\* The refinement mapping to Ingest: the graph streaming is the one
\* PLAYING (pipeline_, as only it can play), the delivery in flight is
\* on_new_sample's, and a graph has ended once it was built and is neither
\* PLAYING nor the one the supervisor is about to set PLAYING.
IngestStream == IF playing = {} THEN NoPipe ELSE pipeline
IngestEnded ==
    {q \in 1 .. builds : q \notin playing /\ ~(sup = "built" /\ q = pipeline)}

Ingest == INSTANCE Ingest WITH Graphs <- Pipes, stream <- IngestStream,
                               delivering <- inflight, ended <- IngestEnded

\* Sections 4.1 and 5: the pipeline, with its supervisor, streaming thread,
\* watchdog restarts and stop(), behaves as the ingest promises: one graph
\* streams at a time, NALs come only from it and one at a time, a graph is
\* torn down only after on_new_sample has returned, and a reconnect
\* streams a new graph, never one that was torn down.
AbstractIngest == Ingest!Spec

\* stop() dereferences (set_state at line 36) only a pipeline that is still
\* allocated.
StopUsesLivePipeline ==
    ctl = "setstate" => ctlPtr \notin freed

\* P3 and section 5: the timestamps handed to the NAL sink, from which the
\* RTP timestamps are computed, never decrease.
TimestampsNonDecreasing == [][lastTs' >= lastTs]_lastTs

\* Section 4.1: stop() tears down the graph: once it returns, every
\* pipeline gst_parse_launch created has been released.
StopTearsDownGraph ==
    ctl \in {"start", "done"} => made \subseteq freed

=============================================================================
