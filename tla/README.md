# CAPS-DASH in TLA+

CAPS-DASH watches parking slots with cameras. One Python process (asyncio, a thread
pool, SQLite) polls every camera, detects vehicles, votes per slot over several
frames, writes state changes to a history, derives statistics and sessions from it,
and serves REST requests and live views. This directory holds TLA+ models of the
parts of the system where order, failure, boundaries and clocks matter, the TLC
configurations that check them on small instances, and TLAPS proofs of what matters
most. Source paths below are relative to `src/backend/caps_dash/`, except those that
begin with `deploy/`, `firmware/` or `frontend/`, which are relative to `src/`.

    tlc -workers 2 -config CameraLoop.cfg CameraLoop      # one run
    tlapm CameraLoopProofs.tla                            # one set of proofs

`PROJECT.json` lists the components, the runs, for every property a changed
definition that breaks it, the source lines of every definition, the hazards,
and the theorems.

## 1. The system

### How it runs

- **The event loop** runs one coroutine at a time, up to its next `await`: one loop
  per camera, one detection task per camera, the supervisor's watcher, the periodic
  jobs, and for every viewer an endpoint with three jobs. What lies between two awaits
  is atomic with regard to the other coroutines, and with regard to nothing else.
- **Threads** run everything that blocks: REST handlers, context builds, frame reads,
  detection, deletion of a camera. Cancelling a coroutine that awaits a thread leaves
  the thread running. The stream sources have reader threads of their own.
- **One database writer** (`db_pool`, one thread) executes the writes that coroutines
  and jobs submit, in order. REST handlers write from their own threads and
  connections, and consecutive SELECTs outside a transaction see different states of
  the database.
- **Signals** (`workers/reload_signals.py`) carry a request from a REST thread to the
  event loop: the handler commits, then asks for a reload of one camera or for a
  reconcile of all of them. Commit and signal are two steps.
- **Other programs**: the firmware of a camera node and the MaixCam's snapshot server,
  which are asked over HTTP and may be gone; the command line, a process of its own on
  the same database and directories; the dashboard in the browser, several tabs of which
  share a cookie and nothing else.
- **The clock** has no battery. After a power cut it starts at an implausible date until
  NTP sets it; rows written meanwhile are marked suspect (`db/clock_guard.py`).

### Components

| component | state it keeps | operations | talks to |
|---|---|---|---|
| vote filter (`vision/domain/vote_filter.py`) | a deque of votes and a state, per slot | update, reset | called by the outcome applier |
| detection to slot (`vision/domain/geometry.py`, `slot_map.py`, `assignment.py`, `slot_detections.py`, `vision/detectors/`) | none | decode, suppress repeats, assign boxes to slots | called by the detection thread and the applier |
| camera loop (`workers/camera_loop.py`, `camera_tick_policy.py`, `vision/frame_change_gate.py`) | the context, the last frame, the gate's reference, the clocks | tick: take a reload, read, judge, start a detection, publish | source, scheduler, reload signals, hub, health |
| inference scheduler and applier (`workers/inference_scheduler.py`, `inference_outcome_applier.py`, `state_tracker.py`, `plate_capture.py`) | one task, a generation, what was last reported per slot | start, run, apply, invalidate, drain | loop, context, database writer |
| context build (`workers/camera_context.py`) | the context of one camera: map, votes, tracker, gate, source | build, close | database, source factory |
| state persistence and slot maps (`services/slot_state_service.py`, `slot_map_service.py`) | rows of slots, history | persist changes, replace the map | database, reload signals |
| camera supervisor (`workers/camera_supervisor.py`) | tables of tasks and contexts, the watcher, the stop event | start, reconcile, spawn, cancel, supervise, rebuild, stop | reload signals, camera table, loops |
| camera administration (`services/camera_service.py`) | rows of cameras | create, update, delete | signals, hub |
| camera settings (`services/camera_control_service.py`) | remembered sensor settings, in the camera's row | update, reapply | camera node, supervisor |
| camera sources (`vision/sources/`, `deploy/maixcam/http_snapshot_main.py`) | a connection; a producer thread and its newest frame | open, read, close | loop, builds, camera |
| live view hub (`realtime/`) | members and the cached still per camera; a queue of one frame per viewer | handshake, publish, subscribe, unsubscribe, forget | camera loop, WebSockets, deletion |
| camera health (`workers/camera_metrics.py`, `services/camera_health.py`) | fail streak, last health write | record, mark offline | loop, writer |
| status LED ring (`services/slot_led_service.py`, `firmware/esp32cam/slot-ring-led.cpp`) | what each camera node was last told; what it shows | push, test pattern, go dark | loop, camera node |
| hourly statistics (`services/hourly_*.py`, `jobs/hourly_aggregation_job.py`) | rows per hour and slot, and per hour and site | find pending hours, aggregate one hour | history |
| parking sessions (`services/session_derivation_service.py`) | none: derived from history | derive | history |
| alerts (`services/alert_service.py`, `alert_rules.py`, two jobs) | open and acknowledged alerts | raise, acknowledge, purge | jobs, history |
| jobs and lifespan (`jobs/`, `lifespan.py`) | tasks, pools, how far the shutdown is | run at intervals, stop in order | services, writer, supervisor |
| users and sessions (`services/user_service.py`, `auth_service.py`, `security/`) | accounts, token versions, refresh sessions | create, change, log in, rotate, revoke | REST |
| rate limiter (`security/rate_limiter.py`) | ages of events per key | check, record, acquire, reset, sweep | login, public search |
| system operations (`services/backup_service.py`, `retention_service.py`) | the backup directory, a running operation | back up, verify, rotate, purge | database, files |
| plate search (`services/plate_search_service.py`) | reads of plates | vote over the reads of a bay | plate capture |
| REST, exports, repositories | none | read and serialise | database |
| browser session (`frontend/src/core/api/`, `core/auth/`) | the access token and the refresh under way, per tab; the cookie | request, refresh, start, sign in, sign out | REST |
| live view page (`frontend/src/features/live/`) | a socket, a reconnect timer, a refresh awaited; URLs of frames | connect, pause, resume, retry, show a frame, dispose | live view hub |
| slot map editor (`frontend/src/features/roi-editor/`) | slots, undo history, baseline, dialog | draw, drag, edit, undo, redo, save, discard | slot map requests |
| rest of the frontend, deployment | their own | | REST, WebSocket |

### What is hard, and what makes each part correct

- **From boxes to a slot's state.** Frames of another size than the drawing, overlapping
  bays, boxes counted twice; boundaries of window and threshold. Correct when a car is
  found in the bay it stands in, is counted once, and the bounded deque and the held
  state lose nothing that the whole stream of verdicts says.
- **Camera pipeline** (loop, detection, tracker, writer, reload, map edits). A result
  is scored long after its frame was read, a write is executed long after the tracker
  has remembered it, a rebuild reads map and states at two moments, and the change
  gate suppresses the observations the votes need. Correct when the tracker and the
  database agree, history rows form a chain, no vote survives into another polygon, a
  scene that stops changing is reported, the report reaches the database, and a saved
  map is loaded.
- **Supervisor.** Builds in threads, cancellation of a task that is draining, crashes
  at any point, requests and `stop()` in the middle of a reconcile. Correct when a
  camera never has two loops, no source is left open, the loops settle on the enabled
  cameras, and updates reach them.
- **Sources.** A producer thread that replaces the frame `read` takes, a decoder that
  hides how far behind it is, a `close` that does not wait for ever, a device that goes
  on answering with its last picture. Correct when the picture keeps up, no capture is
  released under its reader, a dead camera shows and a repaired one is seen again.
- **Live view.** Slow, vanishing and returning viewers, a cached still, a deletion in a
  thread during a publication. Correct when every viewer gets the newest frame and
  never an older one after it, and leavers leave the hub.
- **Camera node.** Requests that are lost or answered late, a device that forgets what
  it was told, two administrators at once, counters that crashes reset. Correct when no
  lamp stays green for a taken bay, accepted settings are on the sensor, and a dead
  camera is on record as such until it returns.
- **Accounts and limits.** Reads outside a transaction followed by a commit, of requests
  that overlap; a check and a record with a slow password test in between. Correct when
  somebody can administer, a raised version ends every older token, a login is one
  session, and guesses stay within a bound.
- **Statistics, sessions, alerts.** Hours that are skipped, a crash between the commits
  of two hours, gaps, repetitions and suspect dates in the history, deduplication by
  the latest row. Correct when every hour is counted once, sessions are the stays,
  one condition has one open alert and comes back while it lasts.
- **Backups, plates, shutdown.** Rotation by name under a clock that jumps, copies that
  fail, reads that arrive after the next car, pools that are torn down under their
  users. Correct when a verified backup survives, a fresh plate is the car's, and the
  process goes down in order without losing what it knows.
- **Browser.** A refresh token that may be used once and is held by several requests and
  tabs; a socket's close handler that awaits while the tab hides, shows and reconnects;
  pictures that load out of order; a map that changes while it is saved. Correct when
  loading a page is no replay, a good session is served, there is one connection and the
  view comes back, the newest picture stays, and what is not called unsaved is stored.

The hazards behind this list, each at its line, are in `PROJECT.json`.

## 2. The modules

| module | what it is |
|---|---|
| `VoteRule` | the rule of one slot's filter, as operators |
| `VoteFilter` | one filter over its lifetime |
| `SlotGeometry`, `VehicleBoxes` | polygons, boxes and frames; letterbox, suppression, one vehicle per bay: pure functions |
| `SlotScoring` | EXTENDS `VoteFilter`, `VehicleBoxes`: from what the model returns to the state of a bay |
| `CameraLoop` | EXTENDS `VoteRule`: one camera from its pixels to the database |
| `CameraLoopInvariant` | the inductive invariants of `CameraLoop` |
| `CameraSupervisor` | the watcher, the tasks of all cameras, `stop()`, and the requests that reach them |
| `FrameSource` | what the network sources share: the slot for the newest frame, the worker, the camera |
| `RtspSource`, `MjpegSource`, `SnapshotSource` | EXTEND `FrameSource`: one kind of source each |
| `CameraSources` | EXTENDS the three: the source of one camera, of any kind |
| `LatestWins` | the abstract specification: what the live view promises one viewer |
| `LiveHub` | the hub, the endpoints and the deletion; implements `LatestWins` for each viewer |
| `SlotRing`, `SensorSettings`, `CameraHealth` | the lamp ring, the sensor settings and the health record of one camera |
| `CameraNode` | EXTENDS these and `CameraSources`: one camera node and what the server does with it |
| `Accounts` | accounts, token versions, refresh sessions, and requests that overlap |
| `Throttle` | the sliding-window limiters and the threads that use them |
| `SignIn` | EXTENDS both: what guards a request |
| `HourlyStatistics` | from history rows to hourly statistics: the job, the command, the purge, the clock |
| `WallClock` | the clock that a power cut sets back, and the order of rows it stamps |
| `Alerts`, `BayRecords` | EXTEND `WallClock`: alerts of one key; a bay's row, history, overstay, sessions |
| `Backups` | EXTENDS `WallClock`: the backup directory and its writers |
| `Plates` | reads of plates and the vote over them |
| `Lifespan` | jobs, pools, loops and their shutdown |
| `Operations` | EXTENDS the four above: what runs beside the cameras |
| `BrowserSession` | tabs, their requests and refreshes, and the sessions they use up |
| `StreamManager`, `FrameSwapper` | the socket of a live view; the pictures it brings |
| `EditHistory` | the abstract specification: what undo and redo promise |
| `SlotEditor` | the editor of a slot map and the map on the server; implements `EditHistory` |
| `Dashboard` | EXTENDS `BrowserSession`, `StreamManager`, `FrameSwapper`, `SlotEditor`: the page in the browser |
| `Selection` | the rows of a sequence at some of its places, in their order: what a `WHERE` leaves of a table, a filter of a list, a cancellation of a queue |
| `*Proofs` | theorems and proofs about the module of that name; `SlotScoringProofs` also about `VoteFilter`, `VehicleBoxes` and `SlotGeometry`, `OperationsProofs` about `HourlyStatistics`, `DashboardProofs` about `LiveHub` |

`SlotScoring`, `CameraNode`, `SignIn`, `Operations` and `Dashboard` put together parts that run beside
each other in the program and share no state, or one direction of it only. A behaviour
of such a module is of one part (`part`, `use`): the product of all parts would show
nothing that each part does not, at a price in states that would force smaller bounds
on every one. Where parts do interact (alerts, history, purge and clock; ring, worker
and node; jobs, pools and loops) they are together in one part.

### VoteRule, VoteFilter, SlotGeometry, VehicleBoxes, SlotScoring

A filter is `[votes, state]`; `Remember` is the `deque(maxlen=Window)`, `Verdict` the
decision, `Update` the method. `VoteFilter` adds two history variables: the whole
stream since the last reset and where the state last changed. `SlotMapFilter` applies
the same rule to each slot, as `CameraLoop` does in `Filtered` and `BuildFilter`.

`Inside` is `point_in_polygon`, `Coverage` counts the samples of `bottom_band_points`,
`Assigned` is `assign_detection`, `FitToFrame` is `SlotMap.fit_to_frame`. `Letterboxed`
and `Unletterboxed`, `Candidates`, `Greedy` and `Decoded` are the decoder with its NMS, and
`Descending` its `argsort`: a row's place is how many rows come before it (`Rank`);
`Occupied`, `Resolved` and `DistinctVehicles` are `slot_detections.py`. The floats of the
code are integers here: a pixel is 200 units, so that the sample points, halves and
scales of the enumerated sizes stay whole.

`SlotScoring` feeds them: `Detects` is one frame through the model and the decoder,
`IsApplied` its end, `Votes` one verdict for the filter. The properties compare with
definitions of another kind: `IsIn` decides "inside" by the sides of convex pieces, not
by ray casting, and `IsFairChoice` says what a suppression must leave, not how.

### CameraLoop

| state | in the code |
|---|---|
| `scene`, `moves` | the parking lot in front of the camera |
| `db` | rows of slots: the map (which place a code's polygon covers), its version, `current_state` |
| `requests`, `reload` | saves whose signal is on its way; the camera's event in `ReloadSignals` |
| `loop`, `built` | where `_supervise` / `run_camera_loop` is, the frame it judges, what `build_context` has read |
| `ctx` | `CameraContext`: map, votes, tracker (`known`), `last_states` (`answered`), `votes_settled`, the gate's reference |
| `task`, `sched` | `InferenceScheduler`: the task with its frame, generation and unwritten changes; the generation, the rate floor, the heartbeat |
| `torn`, `misreads`, `failures` | history and bounds |

| action | code |
|---|---|
| `SaveMap`, `SignalReload` | `slot_map_service.replace`: the commit, then the signal |
| `ReadMap`, `ReadStates`, `Install` | `build_context` in its thread, two reads; then `_supervise` or `_rebuild` and `invalidate` |
| `TakeReload`, `StartRead`, `NoNewFrame`, `NewFrame`, `JudgeFrame` | one tick of `run_camera_loop` with `_maybe_infer`, the gate and the tick policy |
| `FloorPasses`, `HeartbeatFallsDue` | the two clocks that gate a detection |
| `Score`, `Discard`, `DetectionFails` | `InferenceScheduler._run` and `apply_outcome`, for a result of this generation, of an older one, or none |
| `CommitChanges`, `WriteFails`, `PlatesRead` | `persist_state_changes` on the writer; plate reading |
| `LoopCrashes`, `Drained`, `BuildAgain`, `ProcessRestarts` | an exception and the restart by `_supervise`; a killed process |

A polygon is the *place* it covers, a frame is the set of places with a vehicle, and a
detection is right for every slot or wrong for one. The change gate compares the means
of pixel differences with a threshold; `Gate` assumes that a vehicle that comes to or
leaves a watched place moves the mean by that much, and that nothing else does. Time is
the order of steps: the clocks may run out at any moment.

### CameraSupervisor

`row` holds the camera table, `owed` the calls handed to the event loop, `reloads` and
`reconcile` the events. `cam[c]` is the entry of one camera in the supervisor's two
tables with its tasks: `task` (the one in `_tasks`), `at` (where each task is),
`context` and `open` (the context in `_contexts` and how many of its sources are
open), `orphan` (a source opened by a thread whose task was cancelled), `current`
(the row read by the last build is the newest). Two tasks per camera exist so that
`OneLoopPerCamera` can be violated. `watcher` is `_watch_for_reconcile` with the rest
of its reconcile, `stop` is `stop()`.

`Create`, `Update` (a change that reconciles), `Retunes` (one that only reloads the loop),
`Delete` and `SetEvent` are the requests and their signals;
`Reconcile` and `CancelEnds` are the watcher, cut at the `await` in `_cancel`;
`Builds`, `RowRead`, `Built`, `BuildFails`, `Reload`, `Rebuilt`, `Crash`, `Drained` and
`SeesStop` are `_supervise`, `_rebuild` and the shell of the loop; the rest is `stop()`.
`task.cancel()` takes effect before the task runs again and is one step with its
effect (`AfterCancel`), which depends on what the task awaits: a thread, a drain after
a crash, a sleep.

This module and `CameraLoop` look at the same coroutine from two sides. `CameraLoop`
has what one loop does between two reloads and a crash, for a camera that stays
enabled; `CameraSupervisor` has which loops exist, and shrinks a tick to "running".

### FrameSource, RtspSource, MjpegSource, SnapshotSource, CameraSources

`camera` is what the address of the camera does: nothing, refuse, answer without a
picture, work now and then, work well. It changes at any time. `latest` is the slot of
the newest frame, with its age and how far behind live its scene was when it came.
`reader` is the thread of a stream, `caller` the worker that reads and closes,
`result` what `read()` returned last.

| kind | actions and code |
|---|---|
| RTSP | `Probe`, `WaitEnds`, `Open`, `Describe`, `TakeFrame`, `SessionFails`, `Release`: the loop of `_run` with `_drain`; `Noted` and `MustResync` are `StreamLagTracker` and `_behind`; `Close`, `Joined`, `JoinTimesOut`, `CloseAgain`: `close()` and its second call from a failed rebuild |
| MJPEG | `Connect`, `Chunk`, `StreamEnds`, `StreamBreaks`, `BackoffEnds`: `_run` and `_consume_stream`; `CloseStream` |
| snapshot | `OpenCamera` to `CaptureFails`: the MaixCam's capture thread; `Ask`, `Answer`, `Receive`, `GetFails`: one request through its handler and the source |

A tick passes only when what the code or the link does within it has been done
(`KeepsUp`, `StreamFlows`, `SensorRuns`): on a good link a frame is taken before the
next is made.

### LiveHub and LatestWins

A publication is three steps (`EncodeFrame`, `KeepStill`, `Offer`): coroutines do not
come between them (`LoopIsFree`), the deleting thread does. `DeleteCommits`,
`ForgetStill`, `ForgetViewers`, `LoopStops` are `delete_camera`, `forget` and the end of
the loop. A viewer's socket is accepted, its first message authenticates it within the
deadline or it is closed, its camera is looked up, it is admitted under the cap,
greeted, subscribed and sent the still (`Accept` to `StillFails`); it runs three jobs
(`Collect` to `PingerEnds`) and leaves when the first of them ends (`ConnectionEnds`,
`Leave`). `ClientGoes` is a tab that is closed; until the transport notices it, sends
to it may succeed.

`LatestWins` knows three numbers per viewer: the newest frame offered, the one last
collected, the one last delivered. It is instantiated with
`newest <- offered[v], held <- hand[v], shown <- got[v]`; the queue and the hub are
hidden. The refinement is safety only. That the newest frame is delivered is
`PatientViewersCatchUp`.

### SlotRing, SensorSettings, CameraHealth, CameraNode

- **SlotRing.** `decided` is `last_states`, `led` the `SlotLedRing` with what was sent and
  when, `push` its request, `late` one it gave up and the node has yet to read, `ring`
  what the node holds, its age in wrapping milliseconds. `StartsPush`, `PushIsAnswered`
  and `PushFails` are `SlotLedRing.push`; `NodeAnswers`, `NodeReadsLate`, `IsStale` the
  firmware; `TestPattern` an administrator's; `NodeGoes`, `Rebuilds`, `FramesStopOrGoOn`
  what disturbs. `lies` counts the ticks a bay has been green that is not held free.
- **SensorSettings.** `remembered` is the column of the row, `sensor` the node, `worker` the
  start of the camera's task (`BuildsContext` to `RestoreEnds` is
  `_restore_sensor_settings`), `update` an administrator's request: it reads the row with
  its first step (`Asks`), sets one value at a time (`Applies`) and writes the whole
  column (`Commits`). `clean` is a history variable: nothing was refused, lost or met
  since the last restore.
- **CameraHealth.** `metrics` and `lastError` are `CameraMetrics` and the row, `sinceSeen`
  the time since the last health write. `FrameArrives` and `ReadFails` are
  `_handle_read` and `_handle_failed_read` with the writes they queue.

### Accounts, Throttle, SignIn

A request of `Accounts` is its reads and its commit, one step each, since the repository
reads outside a transaction: `Admitted` (the read that authorises), `Read`,
`ChecksAdmins` (the count of administrators), `FindsSessions` (the rows to revoke), then
a commit that writes the columns whose values differ from what *it* had read
(`Patched`, `Column`). `AskForPatch`, `AskToEndAll`, `AskToEndOwn`, `LogsIn`,
`PresentsToken` and `LogsOut` begin the requests; `Creates`, `CreateAdmin` and `Purge`
are single commits. A session's row carries its strongest mark; the token it was issued
with stays in the world. `raced`, `killed` and `overtaken` are history variables, which
say what was decided on rows that changed meanwhile.

`Throttle` counts events by age. `Searches` is `try_acquire`; a login is `Asks`, `Checks`
per key, `Verifies`, then `Records` or `Resets` per key; `Sweeps` is `sweep_idle`.
`Gone` is how many events `_prune` takes from the left of a key's deque and `Pruned` what it
leaves. `counted` is what was really admitted or failed within the window, `told` what a
refused caller was told to wait.

### HourlyStatistics

Time is counted in ticks; a slot changes at most once in a tick, and an hour is a few
ticks. `recorded` is `slot_state_history` (a row has no flag: it is suspect when its
hour is before `FirstPlausible`, which is how `ClockSuspectMixin` sets the flag),
`stats` is `hourly_stats` by hour and slot, an hour being in its domain when the SITE
row is written. `left` is what the current run of the job has yet to do, `cutoff` is
that of the current purge; both empty means `DatabaseThreadIsFree`. `clock` is the
system clock and `latest` the latest plausible time it has shown. `erased`, `rebuilt`
and `blurred` are history variables: the rows that were purged, the hours computed by
command, the hours that were aggregated when rows they depend on had gone or, a clock
being wrong, were still to come.

| action | code |
|---|---|
| `ClockRuns`, `ClockIsSet` | the clock runs; NTP sets it, never back before a plausible time it has shown |
| `WriteRow` | `persist_state_changes` |
| `RunStarts`, `HourIsDone` | `hours_pending`; `_aggregate_one_hour` with its `Upsert`, one commit, for the oldest hour left |
| `Rebuild` | `rebuild_hours`, for one hour of its range |
| `PurgeStarts`, `PurgeBatch`, `PurgeEnds` | `retention_service.purge` and the batches of `_delete_history_before` |
| `Boot` | a job that raises and is given up, a killed process, a power cut after which the clock starts in the past |

The job, the purge and the writes exclude each other, because all are submitted to
the one-thread executor `db_pool`. The command is another process: `Rebuild` may come
between any two commits.

`AggregateOneHour` is the sweep of `compute_hour_timeline`, event by event, and
`Reference` is what the same hour should say, tick by tick, of all the rows that were
ever written: `StatsMatchHistory` compares the two.

### WallClock, Alerts, BayRecords, Backups, Plates, Lifespan, Operations

A stamp is its age and whether the clock that wrote it was suspect; all suspect dates
come before all others, which `Inserted` uses to put a row where `ORDER BY` finds it. What a
purge, a rotation or a cancellation leaves of its rows is `Picked`.

- **Alerts.** `CreateDeduplicated` asks about the latest row of the key, as
  `create_deduplicated` does; `DiskJob`, `Acknowledges`, `AlertsKept` are the job, the
  request and the purge.
- **BayRecords.** `Persists`, `LosesChange` and `LoopIsBuilt` are what the camera loop
  leaves in the database, with the gaps and repetitions that `CameraLoop` shows;
  `OverstayJob` is `overstay_alert_job.py`; `Derive` is one row of
  `_derive_for_one_slot` and `DeriveSessions` the loop over a window's rows, as a recursive
  function. The reference in `SessionsAreStays` says which rows open a stay and where it
  ends, without going through them one by one.
- **Backups.** `StartsCopy`, `CopyEnds`, `CopyFails`, `Verifies`, `FindsItTorn`, `Rotates`:
  `create_backup_and_audit`, for the API and the command line.
- **Plates.** `StartsDetection`, `ChangesState`, `ReadsPlate`, `RecordsPlateRead` are the
  applier and `plate_capture.py` with cars that come and go in between; `Voting` to
  `Answer` is `_vote`.
- **Lifespan.** `dbPool` and `model` are the queues of the two pools, the head being run;
  `JobIsDue`, `Detects`, `RecordsHealth` fill them, `DetectionEnds` and `WorkEnds` empty
  them; `StopIsAsked` to `EngineIsDisposed` is the end of `lifespan`, with the timeout of
  `supervisor.stop()` (`TimesOut`). Cancelling takes work out of a queue, not off a
  thread (`Without`).
- **Operations** gives time, power cuts, the purge and the jobs to these. In the part
  "bay", rows, alerts, purge, jobs and clock interleave.

### BrowserSession

`jar` is the browser's cookie, `live` the refresh sessions of the server, `flight[t]` the
`inFlight` of tab `t` with the cookie it was sent with, `call` what each caller of
`apiRequest` waits for. `ServerRefreshes` is `auth_service.refresh` in one step
(`Accounts` cuts it), `RefreshSucceeds`, `RefreshIsRefused` and `RefreshIsLost` are the
ends of `runRefresh` with the continuations that wait for it (`Resumed`,
`RefreshFailed`): promise callbacks run before anything else does. `Asks`, `IsAnswered`,
`IsUnauthorized` and `CallFails` are `apiRequest`; `SignsIn`, `SignsOut` and `Reloads` are
`auth-context.tsx`. `served`, `replayed`, `provoked` and `holds` are history variables.

### StreamManager, FrameSwapper

`socket` is `this.socket`; `stray` those it was before, replaced without being closed.
`waits` are calls of `handleClose` at their `await`, `timer` the reconnects that will
fire and whether `reconnectTimer` still knows one. `Opens` and `FrameArrives` are the
handlers of a socket, `TokenIsRefused`, `ViewIsRefused` and `Breaks` the three classes of
`classifyClose`, `RefreshEnds` what follows the await; `Hides` and `Shows` are
`handleVisibilityChange`. A URL is the number of its frame: `Issued` and `Loaded` are
`showFrame` and its callback. A change of camera (`ChoosesCamera`, `SwapCameras`) gives the
page a new manager and a new swapper, while the old swapper's loads go on (`former`). The
two meet only in that a message of the socket gives the swapper a frame.

### EditHistory, SlotEditor

`EditHistory` is a line of versions and a place on it. `SlotEditor` is instantiated as one
with `line <- past \o <<slots>> \o future`: an edit cuts what lies ahead, undo and redo
walk, a drag changes the version it has pushed. Each action of the reducer is an action
here; `RequestSave`, `ConfirmSave` and `SaveEnds` are `use-roi-editor-save.ts` with
`slot_map_service.replace`; `LoadAgain` is the page that starts from the answer the query
cache has, which may be an old one. `estranged` is a history variable: what makes editor and server differ
without the editor's knowledge. Undo in mid-drag lets the drop change the version undone
to, which the history does not see: `Adjust` allows it.

## 3. The runs

| run | instance | states | shows |
|---|---|---|---|
| `slot_scoring` | 4 of 5 votes (the default), 10 verdicts; all cars on an 8 by 8 grid of seven coordinates, 13 maps, three frame sizes; all frames of up to three rows | 31,595 | `StateIsLastDecisiveVerdict`: the state is what the latest decisive window of the whole stream says. `FlipsAreFarApart`: two changes are at least 2·Threshold − Window verdicts apart. `BaysFindTheirCars`: a car occupies the bay it stands in, once |
| `camera_loop` | one slot, two places, one edit, one movement per place, one misread, one failure; 2 of 2 votes | 2.5 million | `TrackerAgrees`, `ReportedStateWasSeen`, `RowsChain` |
| `camera_loop_live` | one slot, one place, 2 of 3 votes, one of each | 207,000 | `StableSceneIsReported`, `ReportReachesDatabase`, `EditsAreLoaded` |
| `supervisor` | two cameras, two requests | 411,858 | `OneLoopPerCamera`, `SourcesAreOwned`, `StoppedIsQuiet`; `FleetSettles`: enabled cameras have loops, updates reach them |
| `live_hub` | two viewers, a cap of one, two frames | 325,647 | `ViewersGetTheLatest` (the refinement), `GoneViewersLeave`, `PatientViewersCatchUp` |
| `camera_node` | one camera of each kind of source; ring: two bays, one lamp; settings: two names, two values, one update; health: offline after two failures | 381,582 | `JoinProtectsReader`; `ReadTellsTheTruth`: pictures keep up, a dead camera shows, a repaired one is seen; `RingTellsTheTruth`: green ends, the ring catches up; `SettingsHold`, `HealthIsOnRecord` |
| `sign_in` | two people, two requests at a time, four rows, one new version per account; two threads, a limit of two | 3.8 million | `SomeoneCanAdminister`; `OldTokensAreDead`: a raised version ends every older token, a login is one session; `AttemptsAreThrottled` |
| `hourly_statistics` | one slot, two rows, hours of two ticks of which the first is suspect, two hours per run, one restart or failed job, one hour by command | 663,352 | `StatsMatchHistory`: what is recorded of a plausible hour is what the rows say. `NoHourIsLeftOut`, `AggregatedOnce`: the job leaves none out and does none twice. `HoursAreAggregated`: it does them all in the end |
| `operations` | one power cut, two alerts, four history rows, two of four backups kept, two cars, three reads, two loops, two jobs | 633,131 | `OneOpenAlert`, `SessionsAreStays`, `GoodBackupRemains`, `FreshReadIsOfTheCar`, `AlertComesBack`, `StopIsOrderly` |
| `dashboard` | one tab, two requests at a time, four refresh tokens used again; two refreshes awaited, two timers; three frames in a row; two codes, two versions to go back | 414,072 | `SessionsAreKept`: no replay by loading a page, a good session is served; `OneConnection`, `ViewComesBack`; `NewestPictureIsShown`; `EditorKnowsWhatIsSaved`; `UndoWalksTheHistory` (the refinement) |

The runs `supervisor_signals` and `operations_suspect` each end in a counterexample to a sentence of the repository; see
"Findings".

### Why the bounds are enough

- **Votes and boxes.** Ten verdicts are twice the default window: a full turn of the
  deque, and two changes. A grid of 8 by 8 with a coordinate on, beside and between the
  lines of each map gives every order of corner, edge and sample that the comparisons of
  the code tell apart; three rows are the least in which suppression by a suppressed box
  matters, and exceed `MaxCandidates` by one. In `CameraLoop` the filter's own rule is
  not the question, so 2 of 2 keeps the window short where safety is checked. The
  liveness run uses 2 of 3, where a window can be full and the held state still be
  decided by one more vote.
- **Slots and places.** Slots do not share state other than the map and the batch of
  changes, and one slot that is moved, removed or added covers what an edit does to a
  slot. Two places are needed to redraw a polygon. The proofs hold for any number of
  both.
- **One edit, one failure, one misread.** Every race in the pipeline needs one of a
  kind at a particular moment: an edit during a detection, during a write, between the
  reads of a rebuild. Repetition of edits and failures is covered by the proofs of
  `TrackerAgrees` and `RowsChain`. `ReportedStateWasSeen` speaks of fewer misreads than
  the threshold: with threshold 2, one.
- **Two cameras, two requests.** Cameras share the watcher only, so a second one is
  needed to be in the way of the first. Two requests disable and enable one camera, or
  change it and delete it, or busy the watcher and ask for more. Reloads, crashes and
  failed reads are unbounded.
- **Sources.** Times are one to five ticks in the order of the code's own constants:
  resynchronisation, report and maximal age lie apart, the join is longer than a wait, a
  session may begin one tick behind and fall five behind, the backoff doubles once and is
  then cut. The camera's condition changes without bound.
- **Two viewers, two frames.** With a cap of one the second viewer finds the hub full,
  and both may pass the test at once. Two frames are the least for one to be
  overtaken. Viewers come and go without bound.
- **Camera node.** A second bay makes a map with too many slots; the node's clock wraps
  at five, beyond the three ticks after which it gives up what it was told, so that
  the subtraction is seen to wrap. A second setting can be left behind when the first is
  taken. With one update at a time two updates do not meet, which `SettingsHold`
  excepts; an update and a restore do. Failures, power cuts and restarts are unbounded.
- **Accounts.** The least instance in which a removal can meet another (two
  administrators, two requests), a token outlive its version (one new version) and a
  rotation a revocation. Rows bound accounts and sessions together: two accounts with
  two sessions, or one with three. Requests without bound. The limiter needs two threads
  to overshoot by one, and two ticks per second to round.
- **Two rows, four hours.** A seed before an hour and an event in it need two rows of one
  slot; slots do not interact in the sweep. Two hours per run and one interruption are
  what it takes to leave an hour out. A run that is blocked by suspect hours, which
  `HoursAreAggregated` excepts (`SuspectBacklog`), needs a second suspect hour and a
  third row: with `FirstPlausible = 2` and `MaxRows = 3` (1.6 million states up to tick 7) the
  property still holds, and fails without the exception.
- **Browser.** One tab: two that start together replay their token (below), which hides all else. Two requests
  share a refresh or come one behind it; the server gives tokens that nobody holds any
  more again. Two awaited refreshes and two timers are one more than the manager means to
  have. Three frames can be loaded in an order in which a middle one is overtaken.
  `Renumber` starts the numbers again, so that frames do not end.
- **Slot map editor.** With two codes one can be removed, or renamed to the other, while
  the other is kept or added. A second shape would tell a drag's start from its end: with
  one code and two shapes nothing else comes up. A history of two versions overflows with
  the third edit. Somebody else saves once between two loads of the page.
- **Operations.** One power cut sets the clock back once; rows of before and after, and an
  order by date that is not the order of writing, need no second. Four rows give a stay,
  its repetition and a second stay. Two alerts are one and its repeat, and the purge
  makes room for more. Keeping two of four files, a rotation deletes, and a failed copy
  may push a good one out. Two loops and two jobs compete for each pool.

`CHECK_DEADLOCK FALSE` stands where the system really may come to rest: in the
supervisor's configurations after `stop()`, in the hub's after the camera's deletion and
the departure of its viewers, in
`CameraNode` when the source is closed, or node, network and bays are quiet and health has
nothing to count, in `Dashboard` when the network holds and nobody is signed in, in
`Operations` when the process is down or the bounds of backups and plates are used up.

### Fairness

Weak fairness is assumed where the code's own scheduling provides it, action by action:

- a coroutine that can go on does (asyncio's ready queue), so `Install`, `TakeReload`,
  `JudgeFrame`, `Reconcile`, `CancelEnds`, `Collect`, `Winds` and the like;
- threads and the writer finish what they were given: `SignalReload`, `ReadMap`,
  `CommitChanges`, `BuildGoesOn` (which may end in a failure), `Drained`, `RtspReader`,
  `MjpegReader`, `DeviceThread`, `WorkEnds`, `DetectionEnds`;
- timers fire and requests have a timeout: `FloorPasses`, the backoff and the stagger in
  `Builds`, the ticks of sources, ring and health, `Exchange`, `PushFails`, the deadline
  of the handshake (`AuthenticationFails`), the teardown (`TearsDown`);
- the scheduler submits each job again and again: `JobIsDue`, `JobRaises`,
  `PurgesHistory`. The executor's queue is first come, first served, so `RunStarts` is
  strongly fair beside the purges and the writes that use the same thread; a run and a
  purge that have started go on.

Some assumptions are about the world. `CameraLoop` assumes strong fairness of `NewFrame`:
a camera that is read again and again delivers in the end. With a dead camera no scene
is reported, and that is the subject of `CameraSources` and `CameraHealth`, which assume
no such thing: their properties say for which cameras a promise holds. `LiveHub` assumes
that a client that is there takes what is sent to it, and that the transport notices a
client that is gone (`ReceiverEnds`). `CameraNode` assumes that a node that is down comes
up again and that, for ring and health, frames come: without them `RingCatchesUp` and
`HealthIsOnRecord` would promise what no program can.

In the browser, requests are answered or fail (`fetch` does not wait for ever), sockets
open or close, timers fire, frames come; nobody need show a tab, try again or
sign in. `holds` and `calm` are the points from which network, server and tab are well.

No fairness is given to vehicles, edits, requests, crashes, failures, power cuts, the
heartbeat, new frames of the hub, new viewers, deletion, acknowledgements or the call of
`stop()`. Properties carry a premise for that reason: `StableSceneIsReported` asks for
the heartbeat to fall due again and again if the detector was ever wrong, the settling
properties of the supervisor ask that it is not being stopped, and those of node, health
and alerts begin from a point after which nothing disturbs (`calm`, `working`, `quiet`).

### Findings

| run | what the repository says | what the code does |
|---|---|---|
| `supervisor_signals` | `workers/camera_supervisor.py:97`: "the next signal has to still be acted on" | `drain` suppresses the cancellation of a loop that has crashed and is draining; `_supervise` restarts that loop, and the watcher awaits it for ever |
| `operations_suspect` | `jobs/overstay_alert_job.py:54`: a duration from a suspect clock "cannot be trusted, so do not alert on it" | `latest_for_slot` orders by `changed_at`; once the clock is right, the suspect row sorts before an older row, which is looked at instead and is trusted |

### Disagreements and oddities on which no run is spent

The models reach the following, which sentences of the repository speak against. The
passing properties are stated so that they hold beside them.

- *Vote filter.* `workers/state_tracker.py:28`: the filter returns UNKNOWN "in exactly one
  situation, before it has seen a full window of frames". A full first window with 3 of
  5 votes reaches the threshold on neither side and stays UNKNOWN.
- *Reload.* `workers/inference_scheduler.py:20`: "A reload discards whatever is running."
  The generation is raised after the rebuild; a result that comes during it is scored.
- *History.* `workers/state_tracker.py:3`: "History is written ONLY when a state changes."
  A rebuild that reads the states while a write is queued seeds the new tracker with the
  state before it, and the change is recorded twice.
- *Hub.* `realtime/broadcast_hub.py:83`: the still of a deleted camera must not outlive it.
  The loop, still running, publishes once more after `forget`, and the still comes back.
- *Statistics.* `cli/rebuild_stats_command.py:4`: "Safe to run anytime". After a purge the
  default range begins with rows whose earlier state is gone, and right numbers are
  overwritten. "The in-progress hour is never aggregated": the command's default range
  includes it. "Later ticks finish the backlog": 24 consecutive hours with nothing but
  suspect rows are taken and left unmarked by every run (`SuspectBacklog`).
- *Settings.* The docstring of `reapply_remembered` says "on startup and on every reload";
  a reload restores nothing (`AfterReload`). Two updates at once each write the whole
  column from what they read (`Merged`): one is forgotten.
- *MaixCam.* `deploy/maixcam/http_snapshot_main.py:80` and `:347` speak of a capture that
  recovers; a first frame that no encoder takes ends the thread (`ChooseEncoder`), which
  `Recovers` excepts.
- *Sign-in in the browser.* `frontend/tests/core/refresh-single-flight.test.ts:35`: "Loading a
  page must not log someone out everywhere." The refresh is shared within a tab, the cookie
  between tabs: two that start together present one token twice, and the server ends every
  session. `frontend/src/core/api/refresh-single-flight.ts:37`: with the network down, "a
  reconnect can carry on rather than bouncing the user to /login"; `apiRequest` announces
  the end of the session for every refresh that fails, whatever it failed of
  (`RefreshIsLost`).
- *Live view page.* `frontend/src/features/live/camera-stream-manager.ts:28`: the manager
  "owns exactly one WebSocket's lifetime". `handleClose` connects after its await over what
  a tab shown again has connected meanwhile, and leaves that open (`stray`, excepted by
  `overtook`). Line 47: resuming after a terminal close "would silently undo 'do not
  retry'"; `pause()` sets the flag for a closed connection too, and `Shows` connects.
  `frontend/src/features/live/frame-url-swapper.ts:19`: dispose "revokes whatever URL is
  still outstanding"; a frame still loading is shown afterwards, over the next camera's,
  and its URL stays (`FormerLoadEnds`).
- *Slot map editor.* `frontend/src/features/roi-editor/roi-editor-types.ts:40`: the baseline
  is "last loaded/saved slots". `MARK_SAVED` takes the slots of the moment the answer comes,
  and the keyboard changes them behind the dialog: Enter closes a polygon that counts as
  saved and is not (`estranged`). `frontend/src/features/roi-editor/roi-save-confirm-modal.tsx:8`:
  "the operator confirms exactly what changes, every time". `allow_delete` covers every
  code: a bay another administrator has added since goes with the confirmed one
  (`IsAllowed`).

Others contradict no sentence: a second `close()` releases an RTSP capture under a reader
whose join was given up; the fallback of the plate search names the car that has left;
the time a refused login is told to wait is that of the oldest attempt, too short after
concurrent ones overshot the limit; a replayed refresh token closes sessions without
raising the version, so that access tokens live on; a backup under a suspect clock sorts
first and is rotated away, and verifying a file that another rotation has deleted makes
it again, empty; a sign-out during a refresh leaves the rotated session alive; the editor
starts from a cached map and overlooks a newer one; an open disk WARNING keeps a CRITICAL from being raised.

The exceptions in the properties are: `TrackerAgrees` and `RowsChain` for slots in `torn`,
which a write that failed or that crossed a rebuild puts there; `FleetSettles` if a
cancellation was lost (`CancelIsLost`) or the last read of the camera table failed
(`blind`: the code treats an unreadable table as an empty one until the next request);
the accounts' properties for requests that overlapped in just the way they name (`raced`);
`SettingsHold` unless `clean`; `GoodBackupRemains` only while writers did not meet
(`alone`) and the clock held.

## 4. What is proved

All theorems hold for every value of the constants that satisfies the assumptions of their
module. What these ask is what the code enforces or its constants satisfy: `VoteConfig` (the
filter's constructor: Window ≥ 1, Threshold in 1..Window); `SourceTimes`, `RingBounds`,
`SettingsBounds`, `HealthBounds`, `EditorBounds` (which of the code's numbers are positive, and
their order: a push gives up before the next refresh, that comes before the ring goes stale,
and the ring goes stale before the node's milliseconds start again); `SupervisorBounds`, with
at least one camera; `StatisticsBounds`, with an hour, a run and a batch of at least one,
and a clock that shows an implausible date when the board starts without power
(`FirstPlausible > 0`); `AccountBounds`, with finitely many users of which the first
administrator is one; `ThrottleBounds`, with finitely many threads, an address that is no name,
and a limit and a window of at least one; `AlertBounds` and `BayBounds` (a cooldown, an overstay
and a purge's window lie below the age from which ages are not told apart);
`BackupBounds`, with at least one backup kept; `PlateBounds`; `BoxBounds`, with a model that has
an input, knows cars and keeps at least one candidate; and that a mark for "none" is no value and a bound is a number (`NoPlaceIsNoPlace`,
`BoundsAreNat`, `MaxSeenIsNat`, `HubBoundsAreNat`, `FramesAreCounted`, `CookiesSuffice`,
`OldestIsPositive`) and a car stands on the still (`PlacesArePixels`), whose frames the input holds without
rounding (`FramesFit`). `OneCut`, a bound of the model's clock, is used by no
proof. One theorem says more in its hypothesis: `LoadingIsNoReplay` is about a browser with one
tab, as the property it belongs to.

| module | theorems |
|---|---|
| `VoteRuleProofs` | lemmas: what `Remember` and `Update` keep, how far one verdict can move the counts |
| `SlotScoringProofs` | of the filter: `TypeCorrect`; `FlipDistance` (`FlipsAreFarApart`); `NothingIsLost` (`StateIsLastDecisiveVerdict`); `FramesLeaveTheVotes` (`SlotScoring` implements the filter alone) |
| | of polygons of any shape: `BeyondIsOutside`; `CoverageIsOfSamples`; `DirectionSaysNothing`; `AreaHasNoDirection`; `InsideStretches`; `AreasStretch`; of convex ones: `RayCastingIsRight` |
| | of maps: `FittingKeepsTheBay`; `DrawingKeepsTheBay`; of frames: `OneBoxIsLeft` (`OneBoxPerVehicle`); `CarsFindTheirBays` (`CarFindsItsBay`); `BaysAreFilledRightly` (`BaysFindTheirCars`, the two together) |
| `CameraLoopProofs` | `TypeCorrect`; `TrackerAgreement` (`TrackerAgrees`); `HistoryChain` (`RowsChain`); `ReportsAreSeen` (`ReportedStateWasSeen`) |
| `CameraSupervisorProofs` | `TypeCorrect`; `OneLoop`; `SourcesOwned`; `StopIsClean` |
| `CameraNodeProofs` | `ReaderIsProtected` (`JoinProtectsReader`); `NodeHasItsSettings` (`SettingsHold`); `SessionsKeepUp`, `GreenIsNeverForLong`, `OfflineIsOnRecord` (the safety halves of `ReadTellsTheTruth`, `RingTellsTheTruth`, `HealthIsOnRecord`) |
| `SignInProofs` | `SomeoneAdministers` (`SomeoneCanAdminister`); `OldTokensDead` (`OldTokensAreDead`); `AttemptsStayThrottled` (`AttemptsAreThrottled`) |
| `OperationsProofs` | `OneAlertIsOpen` (`OneOpenAlert`); `SessionsTellOfStays` (`SessionsAreStays`); `BackupRemains` (`GoodBackupRemains`); `PlateIsOfTheCar` (`FreshReadIsOfTheCar`); `StopLosesNothing` (the safety half of `StopIsOrderly`); of `HourlyStatistics`: `NoHourLeftOut` (`NoHourIsLeftOut`); `DoneOnce` (`AggregatedOnce`); `StatisticsAreHistory` (`StatsMatchHistory`) |
| `DashboardProofs` | `PictureIsNewest`, `ConnectionIsOne`, `EditorKnows` (the page's invariants); `LoadingIsNoReplay` (the safety half of `SessionsAreKept`); `EditorWalksTheHistory` (the refinement of `EditHistory`); of `LiveHub`, the other end of the socket: `HubTypeCorrect`; `MembersConnected`; `FramesInPlace`; `ViewersFollowLatestWins` (the refinement of `LatestWins`) |

`TypeOK` of the proved modules, `MembersAreConnected` (the hub publishes only to
endpoints that are running) and `FramesAreInPlace` are parts of the inductive
invariants; they are proved and take no place in the runs. Every inductive invariant was
first checked by TLC on the instance of its module's run.

The arguments:

- **FlipDistance.** A verdict moves the count of occupied votes by at most one. At a
  change to OCCUPIED at least Threshold votes are occupied; a change to FREE needs at
  most Window − Threshold of them. The invariant ties the count in the deque to the
  verdicts since the last change.
- **NothingIsLost.** The deque forgets and the stream does not; `VotesAreTheLatest` says that
  the deque is the stream's end, so that the window that decides now is the one the
  property counts in.
- **OneBoxIsLeft.** A choice in turn leaves out only who clashes with one chosen before
  (`GreedyIs`). Clashes are mutual (`OverlapsAreMutual`), so no two that are chosen clash; the
  rows come best first (`ScoresFall`: who comes before another has fewer before it, so the ranks
  are the places), so the one that makes another go has no lower score. In a bay the best one
  exists because a finite set of scores and sizes has a greatest, and its bay tells which it is:
  as many are kept as bays are occupied. The invariant (`ScoringInv`) says what the detections
  are of.
- **BeyondIsOutside, CoverageIsOfSamples.** Going round, the outline crosses the height of a point as
  often downwards as upwards (`StraddlersAreEven`); left of the polygon the ray meets all of
  these edges, an even number, and on the other sides none (`RayMeetsEdge`). So a point beyond the
  bounds is never inside, of any polygon, and the two rejects of `assign_detection` lose nothing.
- **RayCastingIsRight.** Over one height at most one edge of a convex polygon falls and one rises
  (`OneFallsOneRises`). A point on the inner side of every edge has corners above and below it
  (`InsideIsBetween`: a tip has nothing beyond it), so one edge falls past it and one rises, and
  the ray meets one of the two. A point beyond an edge has both of them on the same side, or none.
- **FittingKeepsTheBay, DrawingKeepsTheBay.** A stretch, or a reversal, keeps which edges a ray
  crosses; all areas grow by the same factor (`AreasStretch`) or stay (`AreaHasNoDirection`: the
  sum of `polygon_area` runs backwards and changes its sign); the points a box is placed by are
  stretched with it (`BoxesStretch`). What `assign_detection` compares then answers alike
  (`SameAnswers`), and of the bays that come first there is one (`FirstBest`, `FirstIsOne`).
- **CarsFindTheirBays.** Every bay of the plans is well drawn: ray casting agrees with its pieces off
  the lines, for trapezoids by `RayCastingIsRight`, for the concave bay by the three edges a ray may
  cross (`PlansAreWellDrawn`). A car of the still is a stretched one in the frame (`CarsStretch`),
  comes back from the letterbox as it went in (`LetterboxUndone`), is the one box that is left
  (`CarsAreDetected`), and is given to the bay it stands in (`FoundWhereItStands`).
- **TrackerAgreement, HistoryChain.** `TrackerAgrees` is not inductive: a rebuild starts
  from states read earlier, and a commit changes rows on behalf of an older task.
  `CameraLoopInvariant` adds what links the three moments: a context or a
  half-finished build of the newest version has the newest map (`VersionsOfMaps`), a
  batch changes a slot once (`OneChangePerSlot`), states read for a rebuild are the
  ones the rows settle at, but for slots being written (`SeedAgrees`), the tracker has
  what its own task is writing (`TrackerIsAhead`), that change starts from the row
  (`ChangesStartFromRows`), and no task of an older scheduler passes for a new one
  (`DetectionsAreBounded`). `HistoryChain` is the action property that the same
  invariant gives at `CommitChanges`.
- **ReportsAreSeen.** The votes of a window come from pictures read at different times and
  judged by maps that may have changed. As long as nothing has entered or left a place,
  every picture on its way shows what is there (`PicturesShowTheScene`), so that a wrong
  vote is a misread, and the misreads are at least the wrong votes of any slot
  (`WrongVotesAreMisreads`): below Threshold they decide nothing.
- **OneLoop, SourcesOwned, StopIsClean.** The tables do not tell of the loop that is
  being cancelled, because `_cancel` takes it out first. The invariant says, per camera,
  which positions of its tasks go with which context (`EntryFits`), that every live
  task is in the table or is the watcher's victim (`TasksAreKnown`), that this victim is
  out of the table (`VictimIsOutOfTable`), that an unmanaged camera has no context
  (`NoStrayContext`), and how far `stop()` is (`StopInOrder`).
- **ReaderIsProtected.** Who has closed without giving the join up has a reader that has
  ended (`ClosedMeansEnded`); so the capture goes from under a reader only at the second
  close after a join that was given up (`CaptureIsKept`).
- **SessionsKeepUp.** Whether a session has fallen behind is looked at when a report is due
  only. Between two reports it falls behind by what has passed since the last one and
  what that report let pass (`LagIsBounded`): no picture that is shown is further behind
  than `ResyncLag + StartBacklog + ReportEvery - 1`.
- **GreenIsNeverForLong.** A request that says "free" was true when it was asked, so a lie is
  no older than the request (`LiesBeginAfterPush`), and that is no older than its timeout;
  what the ring shows was under way for no longer (`LiesEndWithRing`), and a stale ring
  shows nothing. The proof needs that the ring is stale for more than one of the node's
  milliseconds before they start again: `RingBounds` asks for it.
- **NodeHasItsSettings.** A restore that nothing disturbed has set what it has no longer to
  set (`RestoreIsOnItsWay`); an update that met nobody began from the row as it still is
  and has set what is not in `todo` (`UpdateIsOnItsWay`).
- **SomeoneAdministers.** A request that is past `ChecksAdmins` may remove the administrator it
  is about (`MayRemove`): as long as no other removal has overtaken it, an administrator remains beside
  that one (`AdminsRemain`). Only two at once take away the last.
- **OldTokensDead.** The version of an account only grows, nothing was read or issued with a later one,
  and what was killed has an earlier one, unless two new versions overlapped
  (`VersionsGrow`); a session continues one that was issued (`LoginsAreOld`), and a login
  has one that is of use (`OneSessionPerLogin`).
- **AttemptsStayThrottled.** What the limiter keeps of a key is, after pruning, what was counted,
  in order and oldest first (`EventsInOrder`). A refused caller was told to wait until the
  oldest of a full window has left it, or there was room anyway (`ToldEnough`). Of a login, the
  failures of a key and the threads between its check and their record are together within the
  budget (`WithinBudget`): a check passes below the limit only, and a record takes a thread
  out of the second number into the first.
- **OneAlertIsOpen.** Rows with suspect dates come first and only the last row may be open
  (`AlertInv`). A row is raised when the latest is closed and older than the cooldown. To a
  suspect clock a trusted row is of the future, so nothing is raised beside it that would sort
  before it: what is raised comes last, and what it comes after is closed.
- **SessionsTellOfStays.** After each row of a window the loop over them knows who is there, since
  which row, and whether a row since then is suspect, and has derived the stays that have ended, each once
  (`Derived`). It is an induction over the rows, for every history whose rows have the shape
  that the writers give them (`BayInv`).
- **BackupRemains.** While writers do not meet and the clock holds, who writes has the latest file,
  which is whole once it has been copied (`WriterHasLatest`), and a whole backup lies beside the
  one that may yet turn out torn (`GoodIsSafe`): the rotation counts from the latest, and keeps at
  least one.
- **PlateIsOfTheCar.** What was read since the bay last changed, and what is being read, is of the car
  in whose picture it was found occupied (`PlateInv`). That the vote answers with a fresh read then
  needs that finitely many groups of reads have a best one, by count and then confidence.
- **StopLosesNothing.** A loop that has ended has no detection, all have ended when the contexts are
  closed, and a change not in the database is still queued or was a cancelled loop's
  (`ProcessInv`); the writer's pool is empty when the engine is disposed of.
- **NoHourLeftOut, DoneOnce.** The hours done say nothing of a run that is half done. The
  invariant adds what is left of it: hours the job has not done yet (`LeftIsNew`),
  consecutive (`LeftIsContiguous`), after those done and without a plausible hour missed
  in between (`LeftFollowsDone`). Oldest first is what keeps it: the next hour joins the
  done ones, or is skipped for its suspect rows, and what remains still follows. A crash
  forgets what is left, and `hours_pending` finds it again behind the newest hour done
  (`PendingFollowDone`).
- **StatisticsAreHistory.** Rows of one slot are at different times, purged ones too (`RowsSane`). A
  plausible clock shows the latest time there was (`PlausibleIsLatest`), so no plausible row
  comes for an hour that is over, and no hour is aggregated before it is (`ClosedBehind`); a
  suspect row that comes late, or a purged one that is needed, is in `blurred`. What the sweep
  adds up from the row before the hour and the rows in it is what the reference counts tick by tick: by
  induction over the ticks, the time up to a row is spent in the state that the rows before it say
  (`SweepIsSpent`).
- **PictureIsNewest.** What is still loading, and whose URL is not revoked, is newer than what
  is shown (`SwapperOK`); what the former camera's loads do is their own (`PictureOK`).
- **ConnectionIsOne.** There is one way back at most: a socket, a timer, or a close handler at
  its `await` (`OneWayBack`), as long as none of those has been overtaken.
- **EditorKnows.** While nothing estranges editor and server, the baseline is what the server
  has and a save under way carries the slots on the screen (`BaselineIsStored`); `dirty`
  compares with that baseline (`DirtyIsTrue`).
- **LoadingIsNoReplay.** A refresh under way carries the cookie the browser has, which is alive until the
  server answers; then the one in the answer is (`CookieIsNewest`). React's second start
  of the effect joins the refresh under way, so nothing presents a cookie twice.
- **EditorWalksTheHistory.** Every action of the reducer is a step of `EditHistory` or a
  stutter, with `line` the past, the slots and the future put together. A
  limit that is reached cuts the line at its far end, in the reducer as in the abstract
  history.
- **ViewersFollowLatestWins.** Every step of the hub is a step of `LatestWins` or a
  stutter for each viewer; those of the handshake are stutters. This needs
  `FramesAreInPlace`: what is in the queue is newer than what is in the sender's hand,
  and nothing is kept for a viewer that is not subscribed.

What the proofs need of sequences and recursive functions is proved as well. No theorem with an
operator as parameter can be used, hence no induction rule of the library. In its place,
`LeastExists` and `NatSteps` say of *sets* of numbers that they have a least one, and have all
numbers if they have zero and with each its successor. Functions recursive on numbers
(`Picked`, `DeriveSessions`, `Greedy`) can then be unrolled, which `SelectSeq` and `FoldLeft`
cannot.

**Only model-checked.** All liveness: liveness under fairness, and `ENABLED`, are out of
reach of the installed provers; this includes the other halves of `ReadTellsTheTruth`,
`RingTellsTheTruth`, `HealthIsOnRecord`, `SessionsAreKept` and `StopIsOrderly`. Every safety
property that a run checks is proved.

**What `CarsFindTheirBays` leaves fixed.** Where a car stands, the model's input, its confidence
and its limits are arbitrary; the maps are the thirteen of `Plans`, each bay with the convex pieces
that say independently of ray casting what it covers, and the frame sizes the three of `FrameSizes`, on
which the letterbox loses nothing to rounding (`Fits`). Beyond these maps reach the theorems about
polygons, `FittingKeepsTheBay` and `DrawingKeepsTheBay`: they hold of any number of bays of
any shape, for boxes in whole pixels of the drawing.

## 5. What is not modelled

- **Abstracted in the modelled parts.** Detector numerics: the network is a third-party
  model, an outcome is a list of boxes or a set of occupied slots. Rounding of floats:
  coordinates are integers. Plate text beyond "the plate of this car or of another",
  formatting and logging, validation of drawn polygons, audit rows. In the supervisor and
  the loop, intervals, stagger and backoff are waits of any length; the arithmetic of
  the start stagger is not modelled. In the hub, the count of missed pings, the cap over
  all cameras (with one camera it coincides with the cap per camera), and `close_all` at
  shutdown. In the statistics: floor and site sums and the peak, slots that are
  deactivated, clocks ahead of time. In the accounts: password hashing, token formats,
  display names, and expiry other than by the purge.
- **Sources.** The file, folder and fake sources of the development setup.
- **A viewer cap is not claimed.** It is tested before `auth_ok` is sent and
  the viewer subscribes afterwards; `LiveHub` lets that send wait, and then
  simultaneous viewers pass the test together. Whether it can wait is decided in the
  WebSocket library.
- **Recorded, not judged.** `CameraSupervisor` keeps `orphan`: a cancelled build's thread
  opens a source nobody closes. It also reaches the reuse of a camera id: deleted and
  created again between two reconciles, the old loop keeps running. No document of the
  repository speaks of either, so no property does.
- **Not a state machine.** REST serialisation, repositories other than the queries named
  above, exports, readings of disk and camera settings.
- **Outside the server.** Of the frontend, the pages that only show what queries return,
  forms, routing and translations; in the editor, coordinates, zoom and the validation of
  polygons; in the live view, metrics and overlays. Deployment files; of the firmware, all
  but the ring and the control handlers; text recognition.

## 6. The plan

Every safety property that a run checks is proved. What is left:

1. What the clocks of `Operations` promise after more than one power cut (`OneCut`): ages alone do
   not tell the rows of two suspect starts apart, so the stamps have to carry which start they
   are of.
2. Several slots of one floor and the sums over them in `HourlyStatistics`, fed by the rows that
   `CameraLoop` really writes.
