------------------------------- MODULE Ingest -------------------------------
(***************************************************************************)
(* What the ingest pipeline (RtspPipeline, src/src/rtsp_pipeline.cpp)      *)
(* promises the NAL sink it feeds (WebRtcServer::broadcast_nal), with the  *)
(* threads, the bus, the builds and the reference counts abstracted away.  *)
(*                                                                         *)
(* Graphs are named from a finite set.  A graph is fresh, streaming or     *)
(* ended: at most one streams at a time, a NAL is delivered only by the    *)
(* streaming graph and one at a time, a graph stops streaming only once    *)
(* its delivery has returned, and an ended graph never streams again (a    *)
(* reconnect always streams a new one).  A graph may also end without      *)
(* having streamed (a build or a set_state(PLAYING) that failed).          *)
(***************************************************************************)
CONSTANT Graphs

VARIABLES
    stream,      \* the graph streaming, or None
    delivering,  \* the graph whose NAL the sink is receiving, or None
    ended        \* graphs torn down or discarded

None == 0

Init ==
    /\ stream = None
    /\ delivering = None
    /\ ended = {}

\* A fresh graph starts streaming while none does.
Play(g) ==
    /\ stream = None
    /\ g \notin ended
    /\ stream' = g
    /\ UNCHANGED <<delivering, ended>>

\* The streaming graph is torn down once no delivery from it is running.
Halt ==
    /\ stream # None
    /\ delivering = None
    /\ ended' = ended \cup {stream}
    /\ stream' = None
    /\ UNCHANGED delivering

\* A fresh graph that is not streaming is given up.
Discard(g) ==
    /\ g \notin ended
    /\ g # stream
    /\ ended' = ended \cup {g}
    /\ UNCHANGED <<stream, delivering>>

\* The streaming graph hands one NAL to the sink ...
Emit ==
    /\ stream # None
    /\ delivering = None
    /\ delivering' = stream
    /\ UNCHANGED <<stream, ended>>

\* ... and the sink returns.
Return ==
    /\ delivering # None
    /\ delivering' = None
    /\ UNCHANGED <<stream, ended>>

Next ==
    \/ \E g \in Graphs : Play(g) \/ Discard(g)
    \/ Halt \/ Emit \/ Return

Spec == Init /\ [][Next]_<<stream, delivering, ended>>

=============================================================================
