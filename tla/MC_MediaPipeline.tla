-------------------------- MODULE MC_MediaPipeline --------------------------
(* Small instances of the ingest pipeline for TLC.                         *)
EXTENDS MediaPipeline, TLC

\* Three builds: enough for a failed parse, a partial parse and a pipeline
\* that plays, or for a fault, a reconnect and a watchdog restart.
MCMaxBuilds == 3

\* Two samples per pipeline: a PTS-stamped and a clock-stamped one, or two
\* PTS-stamped ones whose order can be compared.
MCMaxFrames == 2

\* One watchdog restart (stop() then start() on a live supervisor).
MCMaxRestarts == 1

\* Any uptime above the largest PTS the run produces.
MCClockStart == 10
=============================================================================
