# Formal models of the stream server

The system is a WebRTC streaming gateway for a robot camera (`src/src/`). It
takes one RTSP H.264 source and fans it out over WebRTC to at most
`max_peers` browser viewers. This directory holds:

- TLA+ models of its concurrent parts;
- TLC configurations that model-check small instances;
- TLAPS proofs of the main registry and pipeline invariants, and of the
  registry's refinement, for all values of the constants.

## 1. The system and how its parts interact

| Part | Source | Threads and shared state |
|---|---|---|
| Ingest pipeline | `rtsp_pipeline.cpp/.hpp` (`RtspPipeline`) | A supervisor thread (`pipeline_thread`) loops: build, PLAYING, bus loop, cleanup, back-off. The GStreamer streaming thread runs `on_new_sample`. The main thread calls `start`/`stop`. `pipeline_` is a plain pointer; `running_` and `stop_requested_` are atomics; `stats_` is under `stats_mutex_`. |
| Peer registry | `webrtc_server.cpp/.hpp` (`WebRtcServer`) | `peers_` (id → `shared_ptr<PeerConnection>`) is under `peers_mutex_`. `broadcast_nal` (streaming thread) holds the mutex across its loop. `cleanup_loop` is a reaper thread. The signaling threads call create/remove/offer/answer. |
| Peer session | `peer_connection.cpp/.hpp` (`PeerConnection`) | The static atomic `next_ssrc_`. The atomics `connected_` and `closed_` are written by the stack's `onStateChange` callback. `send_h264_nal` sets the RTP timestamp. |
| Signaling | `signaling_server.cpp/.hpp` (`SignalingServer`) | One callback per WebSocket. `on_client_connected` creates a peer, sends the welcome, stores the session, installs handlers and starts the offer. `clients_` is under `clients_mutex_`. |
| Process | `main.cpp` | Wiring: pipeline NAL callback → `broadcast_nal`. A 10 s watchdog does `stop(); start();` when `!is_running()`. Shutdown runs pipeline → HTTP → signaling → registry. |
| Viewer host | `http_server.cpp/.hpp` (`HttpServer`) | An accept thread (`server_thread`) detaches one thread per connection to run `handle_client`. `stop()` closes the socket and joins the accept thread, but not the handlers. It shares no state with the media path. |
| Config, logger | `config.*`, `logger.hpp` | Parsing and output only (see §6). |

The hard behaviours are:

- the worker and the main thread racing on `pipeline_`;
- the appsink callback running concurrently with cleanup;
- stack callbacks on peers while the registry reaps or broadcasts;
- random ids colliding in the map;
- reconnects restarting the media timeline.

## 2. Modules

| Module | Models | State ↔ code |
|---|---|---|
| `PeerRegistry` | `WebRtcServer` and `PeerConnection` | `peers` = `peers_`. Objects are numbered by constructor call. `next_ssrc`/`ssrc` = `next_ssrc_`/`ssrc_`. `pcState`/`closed` are what `onStateChange` stored. `offered`/`answered` record `start_offer`/`handle_answer`. `inBroadcast`/`todo` are `broadcast_nal` holding the mutex and the keys it has left to visit. `reaper` and `stopper` are the cleanup thread and `stop()`. |
| `Sessions` | What the registry promises | `reg` maps each id to `free` or to its session's negotiation stage (`created`, `offered`, `answered`). It admits only below the cap, and removes by `remove_peer`, by the reaper (answered sessions only) or by clearing. |
| `MC_PeerRegistry` | TLC instance | 3 ids as symmetric model values. A `VIEW` identifies states that differ only in destroyed objects' fields. |
| `PeerRegistryProofs`, `RegistryRefinement` | TLAPS | The theorems of §4. |
| `MediaPipeline` | `RtspPipeline` + `main`'s calls | `pipeline` = `pipeline_`. Pipelines are numbered by build. `playing`/`freed`/`made` are the GStreamer objects' states. `sup` is the worker's program point (`top`, `built`, `playing`, `left` after line 308, `cleared` after 312, `nulled` after 316, `backoff`, `exited`). `inflight` is a sample between its delivery (247) and its stats update (256). `ctl` is the main thread inside `stop()` (`flags` 32–33, `check` 35, `setstate` 36, `join` 39–41, `unref` 43–48). |
| `Ingest` | What the pipeline promises its NAL sink | `stream` is the graph streaming (or none), `delivering` the graph whose NAL `broadcast_nal` is receiving, `ended` the graphs torn down or discarded. At most one graph streams; it stops only once its delivery has returned; an ended graph never streams again. |
| `MC_MediaPipeline` | TLC instance | 3 builds, 2 samples per pipeline, 1 watchdog restart. |
| `MediaPipelineProofs` | TLAPS | The pipeline theorems of §4. |
| `Signaling` | `SignalingServer`, composed with `Sessions` (`Reg == INSTANCE Sessions`) and `main`'s start/shutdown | `at[c]` is where client `c`'s `on_client_connected` is. `ws[c]` is its socket (`none`, `connecting`, `open`, `closed`). `handlers[c]` says whether onMessage/onClosed/onError are installed. `closing[c]` says a close was reported to those handlers. `offerPending[c]` says the offer is set but `onLocalDescription` has not run. `clients` = `clients_`. `inbox[c]` is what the browser received. `listening` says `ws_server_` accepts sockets. `server` is `main()`'s progress (`new`, `running`, `stopping` between `clients_.clear()` and `ws_server_->stop()`, `stopped`, `cleared`, `exited`). |
| `MC_Signaling` | TLC instance | 3 clients and 3 ids for safety, 2 and 2 for liveness, as model values. |
| `SignalingProofs` | TLAPS | The signaling theorem of §4. |
| `HttpServer` | `HttpServer` and `main`'s start/stop of it | `running` = `running_`. `fd` = `server_fd_` (open or -1). `thread` = `thread_`: not joinable, at the loop head, blocked in `accept()`, or returned. `handlers` are the requests whose detached thread has not finished. `served` are the responses sent. `aborted` says an exception escaped a handler. `mainAt` is `main()` before `start()`, serving, in `stop()`, after it. The file system is two sets of canonical paths (`Dirs`, `Files`). A path is a sequence of names, and a name a short sequence of characters, so the string comparison of `resolve_path` is kept. |
| `MC_HttpServer` | TLC instance | Root `/w` with the page `/w/x`, a sibling file `/wx`, an outside file `/x`. Every request target of up to 5 characters over `/ . w x ? space`. |

The registry's actions, one per operation:

- `CreatePeer(id, ok)`: `ok` says whether the constructor threw after taking an SSRC.
- `StartOffer`, `HandleAnswer`, `RemovePeer`.
- `BroadcastBegin`, `BroadcastStep`, `BroadcastEnd`: broadcast holds the mutex for the whole loop.
- `Start`, `Reap`, `ReaperExit`, `StopBegin`, `StopEnd`.
- The stack's callbacks `PcStateChange` and `TrackOpen`.

The pipeline's actions are:

- `Start`, `Watchdog`, `Shutdown`, and the five `Stop*` steps;
- `LoopHead`, which takes `BuildPipeline`'s three outcomes: parse error, partial pipeline with error set, or success;
- `SetPlaying`, `BusFault`, `BusStop`, `ClearConnected`, `SetNull`, `Unref`, `Backoff`;
- the callback `Sample(p)` and `StatsUpdate`.

The signaling server's actions are:

- `Accept`: the listener hands over a socket and calls `on_client_connected` on its own thread, one socket at a time;
- one per step of `on_client_connected`: `Connect` (`create_peer`), `Reject`, `Welcome`, `Store`, `InstallHandlers` (which runs `on_client_disconnected` at once when the socket closed before `onClosed` was set), `StartOffer`;
- the callbacks `SendOffer` (`onLocalDescription` → `sig_cb`), `OnClientMessage` (the answer) and `OnClientDisconnected`;
- `main`'s `StartServer`, `Stop` (lines 42–52: close the stored sockets, clear `clients_`), `StopListener` (lines 54–57: `ws_server_->stop()`), `RegistryStop` (`webrtc_server.stop()`) and `Exit` (the destructor's second `stop()` closes sockets stored after the first clear);
- the environment: `Handshake`, `SocketClosed` and `TransportFailed` (the reaper erasing a failed session).

The viewer host's actions are `Start(ok)`, the accept loop's `LoopHead`, `Accept(req)` and `AcceptFails`, `stop()`'s `StopClose` and `StopJoin`, and `HandleClient(req)`. `HandleClient` covers:

- no response for a closed or partial request;
- 405 for a method other than GET;
- a throw when the path is empty;
- 404 when `resolve_path` returns "";
- 500 when the file cannot be opened;
- 200 otherwise.

`ResolvePath` follows lines 148–178:

- "/" becomes "/index.html";
- the first character is dropped, and the rest is joined to `web_root_` with `operator/` (an absolute rest replaces the root);
- the result is canonicalized by `Canonical`, a fold of `WalkSegment` over the `/`-separated segments;
- the result is kept only if its string starts with the root's string and it is a regular file.

Each action models the whole handler, including its early returns and error paths. `pipeline_` is read without synchronisation. That read is undefined behaviour, and it is modelled as reading the current value at either of the worker's write points.

`Signaling` rests on what libdatachannel does, which is not in this repository:

- `onClient` hands over a socket whose handshake is still pending, and is called on the listener's one thread;
- `WebSocketServer::stop()` closes the listener and joins that thread, so it returns only once `on_client_connected` has returned;
- `send()` throws unless the socket is open;
- `onClosed` is a stored callback (libdatachannel 0.20 and later, which `peer_connection.cpp`'s `addToChain` requires): a close that happens before it is set is reported when it is set, on the setting thread;
- the handlers run later, on the library's threads;
- an exception thrown by a callback is caught by the library.

It also assumes that ids do not collide. `PeerRegistry` draws them from all of `PeerIds`, so a collision there replaces a session (see the hazards).

## 3. Runs

| Run | Checks | Result |
|---|---|---|
| `registry_safety` | `TypeOK`, `CapacityBound` (P2), `SsrcUnique` (P1), `BroadcastSnapshot` (4.3), `AbstractSpec` (refinement of `Sessions`) | pass, 192k distinct states |
| `registry_liveness` | `ClosedPeersReaped` | pass |
| `media_safety` | `TypeOK`, `OnlyCurrentPipelinePlays`, `StopQuiesces`, `StopTerminates` (P5), `AbstractIngest` (refinement of `Ingest`) | pass, 87k distinct states |
| `media_stop_use_after_free` | `StopUsesLivePipeline` | **violation** |
| `media_timestamps` | `TimestampsNonDecreasing` (P3) | **violation** |
| `media_pipeline_leak` | `StopTearsDownGraph` (4.1) | **violation** |
| `signaling_release` | `RegistryStaysCleared` (§5's shutdown order), `AdmittedSocketsClosedAtExit`, `PeerReleasedAfterClose` and `ClosedSocketReleasesPeer` (4.4) | pass, 14k distinct states |
| `signaling_welcome_order` | `WelcomePrecedesOffer` | **violation** |
| `http_traversal` | `ServedInsideRoot` (§6) | **violation** |
| `http_abort` | `NoHandlerAborts` | **violation** |
| `http_stop` | `StopReturns` | pass |

**The refinement.** `PeerRegistry` defines `RegView`, which maps each id to `free` when `peers_` has no entry for it. Otherwise it maps the id to the stage of the stored object. `AbstractSpec == Abstract!Spec` with `Abstract == INSTANCE Sessions WITH reg <- RegView`. TLC checks it as a property of `registry_safety`, and `Refinement` proves it (§4).

**The ingest refinement.** `MediaPipeline` maps to `Ingest` with `stream` = the current pipeline while one plays, `delivering` = `inflight`, and `ended` = every built pipeline that is not playing and is not the one just built and about to be set PLAYING. `AbstractIngest == Ingest!Spec` is a property of `media_safety`; a `SetNull` that skipped the teardown, or a `stop()` that did not wait for the worker, violate it. `IngestRefinement` proves it (§4).

**Closes before the handlers.** A socket can close before `on_client_connected` installs `onClosed` (line 145): the browser leaves during the handshake, or `stop()` closes a stored session. libdatachannel stores that close and runs the handler when it is set, so `on_client_disconnected` runs inside `InstallHandlers` and the peer is removed. `ClosedSocketReleasesPeer` checks that every admitted client whose socket closes, at any point, eventually has its peer removed. A handler set without the replay (mutant `InstallHandlersNoReplay`) leaves the peer behind.

**What the violations show** (details in `PROJECT.json` "findings"):

1. **Use after free.** The watchdog fires exactly when `is_running()` is false, which is when the worker is building or cleaning up. `stop()` reads `pipeline_` and calls `set_state` on it after the worker has unref'd it. The shortest trace goes through a failed `set_state(PLAYING)` (line 280).
2. **Backward timestamps.** PTS restarts at 0 with each new pipeline, and the steady-clock fallback lives on a different time base. The timestamps handed to peers go backwards.
3. **Leaked pipeline.** A partial pipeline from `gst_parse_launch` is overwritten on the next build without unref.
4. **Offer without welcome.** The welcome is sent before the handshake completes, so `send()` throws and the welcome is lost. The offer is sent later, from `onLocalDescription`, on the open socket.
5. **Path traversal by prefix.** `resolve_path` accepts a canonical path whose string starts with the root's string. With root `/app/web`, `GET //app/web.tar` and `GET /../web-old/x` are served. TLC's shortest trace is `GET ./wx`: dropping the first character leaves the absolute `/wx`.
6. **Abort on an empty path.** For `GET  HTTP/1.1` (two spaces) or `GET ?a`, the uri is empty. `path.substr(1)` then throws outside the `try` on a detached thread, and `std::terminate` ends the whole server.

Five more divergences are recorded as hazards without a run (`PROJECT.json` "hazards"):

- `rtsp.reconnect_max_attempts` is parsed but never read (spec B2), so the worker retries forever.
- The reject path's `close()` sits in the same `try` as a `send()` that throws before the handshake, so a refused socket can stay open.
- `create_peer` stores under a random id without checking the key, so a collision replaces a live session.
- Cleanup clears `stats_.connected` before `set_state(NULL)`, so a late sample can set it back for a whole back-off. Only the health log reads it.
- Signaling's `stop()` closes the stored sockets and returns without waiting for their close handlers. Those handlers may run after `main()` has destroyed the servers they capture. Whether they do depends on libdatachannel.

**Bounds.**

- Registry:
  - 3 ids with cap 2: a third create is either refused or collides.
  - 3 constructions: a failed construction that still consumed an SSRC, plus two live peers, or a replacement after a collision.
  - 2 frame timestamps.
- Pipeline: 3 builds are enough for a parse error, a partial parse and a good build, or a fault, a reconnect and a watchdog restart.
- Signaling:
  - Safety runs use 3 clients, 3 ids and cap 2, so one client is refused while two hold sessions.
  - The liveness runs use 2 clients, 2 ids and cap 1. That is enough for one admitted and one refused client, and for every close to race every step of `on_client_connected`. 3 clients took 15 minutes and showed nothing new.
- Viewer host: 5 characters are enough for `//wx`, `./wx` and `/../x`, for an empty uri (a leading space, or `?`), and for `/` itself. The file system has the one sibling and the one outside file that tell a component check from a string check.
- TLC's integers are 32-bit, so the MC uses a 10-bit `U32`. The SSRC counter still never wraps, and one frame's RTP timestamp (1800 ticks) exceeds the width, so the `uint32_t` cast really truncates.
- The passing runs fire every action.
- The pipeline, signaling and viewer-host runs turn off deadlock checking, because `main()` returns after shutdown: the final state is the process exiting.

**Fairness.**

- Registry:
  - Weak fairness on the broadcast's steps: the streaming thread finishes the loop it began.
  - Weak fairness on `ReaperExit`.
  - Strong fairness on `Reap`: the reaper wakes every 2 s but finds the mutex free only between broadcasts. We assume `std::mutex` does not starve it forever.
- Pipeline: weak fairness only on the steps the code bounds in time:
  - `set_state`;
  - the 500 ms bus poll (`BusStop`);
  - the 100 ms back-off slices;
  - the callback body;
  - `join`.

  Faults, samples and signals are never forced.
- Signaling: weak fairness on three things:
  - the steps of `on_client_connected`, which runs to completion on the listener's thread;
  - `SendOffer`, because the stack delivers the local description it owes;
  - `OnClientDisconnected`, because the library runs a handler it owes.

  The browser, the network, the handshake and `stop()` are never forced.
- Viewer host: weak fairness on the accept loop's head, on a failing `accept()` and on the join. Connections, handlers and the shutdown signal are never forced. `http_stop` checks `StopReturns` on targets of one character and two connections. The mutant whose `stop()` does not shut the socket down leaves the loop blocked in `accept()` and the join waiting forever.

Every property of a passing run has a mutant in `PROJECT.json`: a plausible bug in a mapped definition, under which TLC finds that property violated.

## 4. What is proved (TLAPS)

The proofs hold for every finite non-empty id set and every `MaxPeers`, `MaxCreates`, `SsrcStart`, `U32` satisfying `PeerRegistry`'s `ASSUME`s. The main one, `SsrcAssumption`, says the counter does not wrap within `MaxCreates` constructions.

`PeerRegistryProofs`:

- `TypeCorrect`: `Spec => []TypeOK`.
- `Capacity`: `Spec => []CapacityBound`. The proof is by induction on `TypeOK /\ CapacityBound`:
  - a successful create adds one key to a map below the cap (`FS_AddElement`);
  - the other writers only erase keys (lemma `EraseShrinks`).
- `SsrcUniqueness`: `Spec => []SsrcUnique`. `SsrcUnique` is not inductive: a construction could reuse an SSRC held by a live object unless one knows how the counter relates to the objects. The strengthening `SsrcCounter` says:
  - `next_ssrc = SsrcStart + created`;
  - object `o` holds `SsrcStart + o - 1`;
  - every live object is one of the first `created`.

  `SsrcCounter` is defined in `PeerRegistryProofs` and proved inductive (lemma `SsrcCounterInvariant`). Distinct live objects then have distinct SSRCs because the counter does not wrap.
- `BroadcastSnapshotHolds`: `Spec => BroadcastSnapshot`. Every action that writes `peers` requires the mutex to be free, so no step inside a broadcast changes the map.

`RegistryRefinement`:

- `Refinement`: `Spec => AbstractSpec`. `PeerRegistry` implements `Sessions` under `RegView`. Each step maps as follows:
  - a successful `CreatePeer` maps to `Admit`;
  - `StartOffer` and `HandleAnswer` map to `Offer` and `Answer`;
  - `RemovePeer` maps to `Remove`;
  - a reaper pass maps to `Reap` of the ids it erased, or to a stutter when it erased none;
  - `StopEnd` maps to `Clear`;
  - every other step leaves `RegView` unchanged (lemma `ViewUnchanged`).

  The mapping needs facts about objects that `PeerRegistry`'s own invariants do not give. The strengthening `StageInv` (lemma `StageInvariant`) says:
  - an object not yet constructed is neither offered nor answered;
  - an answered object was offered;
  - only an answered object can have left the `new` state;
  - `peers_` never holds one object under two ids.

  With it, `Admit`'s cap check becomes `CapacityBound`'s count (lemma `ViewMembers`), and the reaper only takes answered sessions.

`MediaPipelineProofs` covers every `MaxBuilds`, `MaxFrames`, `MaxRestarts` and `ClockStart` satisfying `MediaPipeline`'s `ASSUME`s:

- `PipelineTypeCorrect`: `Spec => []TypeOK`.
- `OnlyCurrentPlays`: `Spec => []OnlyCurrentPipelinePlays`.
- `StopQuiescesHolds`: `Spec => []StopQuiesces`.

All three follow from one inductive invariant, `PipelineInv` (lemmas `InitPipelineInv`, `NextPipelineInv`, `PipelineInvariant`). Neither property is inductive alone. A build must not hand out the number of a pipeline that is playing or was freed, and `stop()`'s unref must not free a pipeline that still plays. `PipelineInv` adds these facts:

- every pipeline that exists, was freed or is pointed to is numbered at most `builds`;
- from a successful build until cleanup's unref (`Active`), `pipeline_` points to a live pipeline;
- outside the bus loop and its cleanup, nothing plays;
- a sample in flight comes from a PLAYING pipeline;
- `running_` is true only in the bus loop;
- from the join in `stop()` until `start()`, the supervisor is `none`;
- each reconnect follows a build of its own, which bounds `reconnect_count`.

TLC checked `PipelineInv` on the `media_safety` instance before it was proved.

- `IngestRefinement`: `Spec => AbstractIngest`. The pipeline implements `Ingest`. Under `PipelineInv`, each step maps as follows (lemma `NextIngest`):
  - a successful `SetPlaying` maps to `Play` of the current pipeline, a failed one to `Discard` of it;
  - a build that fails (`LoopHead`'s parse-error or partial outcomes) maps to `Discard` of the new number, which `MaxBuildsAssumption` keeps in `Pipes`;
  - `SetNull` and `stop()`'s `set_state(NULL)` map to `Halt` when they stop the streaming pipeline (lemma `IngestSetNull`); `PipelineInv` gives that no sample is then in flight from it;
  - `Sample` maps to `Emit`, `StatsUpdate` to `Return`;
  - every other step leaves the three mapped values unchanged (lemma `IngestStutter`).

`SignalingProofs` covers every finite non-empty set of sockets, every id set and every cap, under `Signaling`'s `NoneAssumption`: the empty peer id is not an id `generate_peer_id` returns, and an empty `clients_` slot is not a socket.

- `RegistryStaysClearedHolds`: `Spec => []RegistryStaysCleared`. Once `main()` has cleared the registry, no session is stored in it again. The property is not inductive: it needs to know that no `create_peer` is still pending when the registry is cleared. The strengthening `ShutdownInv` adds:
  - the listener accepts only while `server` is `running` or `stopping`;
  - before `start()` and from the end of `ws_server_->stop()` on, no socket is inside `on_client_connected` before its `create_peer` (`StopListener` waits for the callback, which is the join);
  - before `start()` the registry is empty;
  - `InstallHandlers`, which may run `on_client_disconnected` for a close it missed, only frees a session;
  - `reg` is a function from ids to stages or `free`.

  Every other step only frees sessions or moves a socket past `create_peer` (lemmas `SocketStep`, `QuietStep`).
- `AdmittedSocketsClosedAtExitHolds`: `Spec => []AdmittedSocketsClosedAtExit`. When `main()` returns, every socket `create_peer` admitted is closed. The strengthening `SocketInv` (lemmas `InitSocketInv`, `NextSocketInv`), proved together with `ShutdownInv`, says:
  - a client has a peer id exactly when its `on_client_connected` is past a successful `create_peer`, and ids are handed out once;
  - `clients_` holds each session under its own id;
  - a reported close is a closed socket, and a socket not yet accepted is `none`;
  - an admitted client's socket is closed, or its session is in `clients_`, or it is between `create_peer` and the store.

  `stop()`'s loop closes everything in `clients_` (lemma `CloseStoredStep`), and `ShutdownInv` rules out a client between `create_peer` and the store once the registry is cleared. A session stored after the first `stop()` is therefore closed by the destructor's second call. A destructor whose `stop()` returned early when already stopped (mutant `ExitStopOnce`) leaves it open. A `stop()` that did not join the listener (mutant `StopListenerNoJoin`) lets TLC find the registry refilled after the clear.

**Only model-checked.** The following stay with TLC:

- liveness: `ClosedPeersReaped`, `StopTerminates`, `PeerReleasedAfterClose` and `ClosedSocketReleasesPeer`, because the prover does not handle fairness or `ENABLED`;
- `HttpServer`'s `ServedInsideRoot` and the other viewer-host properties: `ResolvePath` is a fold over path segments (`FoldLeft`), which is recursive, and the prover cannot reason about a module that reaches a recursive operator;
- what the refinement of `Signaling`'s per-client steps would add; §5 lists it.

## 5. Plan

1. `StreamServer`, composing `MediaPipeline` and `PeerRegistry` through `broadcast_nal`. It will state P3 on the RTP timestamps each live peer sends across a reconnect, and the shutdown order of `main`.
2. A proof of `PeerReleasedAfterClose`'s safety part and of the composed registry's type in `Signaling`.
3. A refinement of `Signaling`'s per-client steps to an abstract "admit, greet, offer, release" session protocol.

## 6. What is not modelled, and why

- **Config loading, CLI parsing and logging.** They are I/O and parsing, and they share no state with the concurrent parts. Config values enter as CONSTANTS. Two of its numeric edges are listed as hazards in PROJECT.json without a run. `SIGNALING_PORT` is narrowed to `uint16_t` without a range check (`config.cpp:80`). The bitrate environment overrides are not checked against min/max (`config.cpp:86`).
- **The viewer host's response formatting and MIME table.** No property depends on them. The lifetime of `HttpServer` against its detached handlers, and the reuse of `server_fd_`'s number, are listed as hazards.
- **`set_bitrate`.** `SignalingServer` never calls `bitrate_cb_`, so no client message reaches it. The spec (§9) lists the ABR message as an open question.
- **`handle_candidate`, ping messages, and the contents of SDP and candidates.** They change only the WebRTC stack's internal state, which the model abstracts to the `onStateChange` sequence (`PcTransitions`, from spec 4.2), or send nothing back.
- **Stats counters, `needs_keyframe_`, and `encoder_`'s extra reference.** The counters have no readers that matter to a property. `needs_keyframe_` is never cleared, because `keyframe_sent()` has no caller. The extra reference is from `gst_bin_get_by_name`, which is never unref'd. It is a leak of one element per build, and it is noted here but not modelled.
- **The header mismatch.** `webrtc_server.hpp` declares `handle_offer`, but the `.cpp` defines `start_offer` and `handle_answer`. The model follows the `.cpp`.
