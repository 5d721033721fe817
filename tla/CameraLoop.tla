----------------------------- MODULE CameraLoop -----------------------------
(***************************************************************************)
(* One camera, from the pixels to the database: the polling loop           *)
(* (workers/camera_loop.py), the detection it starts and does not wait for *)
(* (inference_scheduler.py), the scoring of a result (inference_outcome_   *)
(* applier.py), the tracker of what is worth recording (state_tracker.py), *)
(* the writes to the database, and a reload while all of this is under     *)
(* way (camera_supervisor.py, _rebuild; camera_context.py, build_context). *)
(*                                                                         *)
(* The event loop runs one coroutine at a time: an action is the code      *)
(* between two awaits.  The database writer and the threads that read the  *)
(* database, the camera and the image run beside it.                       *)
(*                                                                         *)
(* A slot of the map is a code and the place its polygon covers.  A frame  *)
(* is which places hold a vehicle.                                         *)
(***************************************************************************)
EXTENDS VoteRule

CONSTANTS
  Slots,       \* slot codes
  Places,      \* parts of the picture a polygon may cover
  NoPlace,     \* the slot code has no row
  MaxEdits,    \* bound: saved edits of the slot map
  MaxMoves,    \* bound: arrivals and departures at one place
  MaxMisreads, \* bound: verdicts of the detector that are wrong
  MaxFailures  \* bound: exceptions, failed writes and process kills

ASSUME BoundsAreNat == /\ MaxEdits \in Nat
                       /\ MaxMoves \in Nat
                       /\ MaxMisreads \in Nat
                       /\ MaxFailures \in Nat

ASSUME NoPlaceIsNoPlace == NoPlace \notin Places

VARIABLES
  scene,    \* which places hold a vehicle
  moves,    \* how often that changed, per place
  db,       \* the camera's rows: the slot map, its version, each slot's current_state
  requests, \* saves committed whose request_reload has not reached the event loop
  reload,   \* the camera's event in ReloadSignals
  loop,     \* the coroutine of _supervise and run_camera_loop
  built,    \* what build_context has read so far
  ctx,      \* the loop's CameraContext
  task,     \* the InferenceScheduler's task
  sched,    \* the InferenceScheduler's other fields, and the clocks that gate it
  torn,     \* history: slots whose tracker and row were separated (see TrackerAgrees)
  misreads, \* history: wrong verdicts so far
  failures  \* history: failures so far

vars == <<scene, moves, db, requests, reload, loop, built, ctx, task, sched, torn,
          misreads, failures>>

-----------------------------------------------------------------------------
(* Values *)

Scenes  == [Places -> BOOLEAN]
Maps    == [Slots -> Places \cup {NoPlace}]
Drawn(map) == {s \in Slots : map[s] # NoPlace}
Resolved == {"FREE", "OCCUPIED"}

SlotChanges == [slot : Slots, previous : SlotStates, new : Resolved]

NoVersion == -1      \* of a context that does not exist
NoImage == << >>     \* FrameChangeGate._reference = None

\* build_filter: no votes, whatever an earlier filter held.
BuildFilter == [s \in Slots |-> EmptyFilter]

\* CameraContext, and the parts of it that scoring changes.
NoContext == [map      |-> [s \in Slots |-> NoPlace],
              ver      |-> NoVersion,
              filter   |-> BuildFilter,
              known    |-> [s \in Slots |-> "UNKNOWN"],
              answered |-> FALSE,      \* last_states is not empty
              settled  |-> FALSE,      \* votes_settled
              reference |-> NoImage]

NothingBuilt == [map  |-> [s \in Slots |-> NoPlace], ver |-> NoVersion,
                 seed |-> [s \in Slots |-> "UNKNOWN"], torn |-> {}]

NoTask == [phase |-> "none", gen |-> 0, image |-> NoImage, changes |-> {}, ver |-> NoVersion]

NewScheduler == [gen |-> 0, tooSoon |-> FALSE, heartbeatDue |-> FALSE]

Busy == task.phase # "none"

\* The slots whose new state waits in the database writer's queue.
Pending == IF task.phase = "writing" THEN {c.slot : c \in task.changes} ELSE {}

-----------------------------------------------------------------------------
(* The scene: what the camera looks at. *)

VehicleMoves(p) ==
  /\ moves[p] < MaxMoves
  /\ scene' = [scene EXCEPT ![p] = ~@]
  /\ moves' = [moves EXCEPT ![p] = @ + 1]
  /\ UNCHANGED <<db, requests, reload, loop, built, ctx, task, sched, torn, misreads, failures>>

-----------------------------------------------------------------------------
(* REST threads: slot_map_service.replace.  The commit and the signal are two  *)
(* steps; the camera loop runs between them.                                   *)

\* Rows of codes that stay keep their state, new rows start UNKNOWN, rows of codes
\* that went take their state with them.
SaveMap(map) ==
  /\ db.ver < MaxEdits
  /\ db' = [map     |-> map,
            ver     |-> db.ver + 1,
            current |-> [s \in Slots |->
                           IF s \in Drawn(db.map) /\ s \in Drawn(map)
                           THEN db.current[s] ELSE "UNKNOWN"]]
  /\ requests' = requests + 1
  /\ UNCHANGED <<scene, moves, reload, loop, built, ctx, task, sched, torn, misreads, failures>>

SignalReload ==
  /\ requests > 0
  /\ requests' = requests - 1
  /\ reload' = TRUE
  /\ UNCHANGED <<scene, moves, db, loop, built, ctx, task, sched, torn, misreads, failures>>

-----------------------------------------------------------------------------
(* Building a context.  build_context runs in a thread; its SELECTs are not in *)
(* one transaction (the driver opens none for a read), so the slot map and the *)
(* states are two reads of the database.                                       *)

ReadMap ==
  /\ loop.pc = "read_map"
  /\ built' = [NothingBuilt EXCEPT !.map = db.map, !.ver = db.ver]
  /\ loop' = [loop EXCEPT !.pc = "read_states"]
  /\ UNCHANGED <<scene, moves, db, requests, reload, ctx, task, sched, torn, misreads, failures>>

ReadStates ==
  /\ loop.pc = "read_states"
  /\ built' = [built EXCEPT !.seed = [s \in Slots |-> db.current[s]], !.torn = Pending]
  /\ loop' = [loop EXCEPT !.pc = "install"]
  /\ UNCHANGED <<scene, moves, db, requests, reload, ctx, task, sched, torn, misreads, failures>>

\* A context that keeps the old votes.
ContextWithOldVotes(b) ==
  [NoContext EXCEPT !.map = b.map, !.ver = b.ver, !.known = b.seed, !.filter = ctx.filter]

\* A context whose tracker starts empty.
ContextUnseeded(b) == [NoContext EXCEPT !.map = b.map, !.ver = b.ver]

\* The vote filter, the change gate and the results are fresh; the tracker is
\* seeded with the states read (StateTracker.seed skips UNKNOWN).
FreshContext(b) == [NoContext EXCEPT !.map = b.map, !.ver = b.ver, !.known = b.seed]

\* A reload that clears the request at its end, and with it one that came meanwhile.
InstallAndForgetRequests ==
  /\ loop.pc = "install"
  /\ ctx' = FreshContext(built)
  /\ torn' = built.torn
  /\ sched' = IF loop.reloading THEN [sched EXCEPT !.gen = @ + 1] ELSE NewScheduler
  /\ built' = NothingBuilt
  /\ loop' = [loop EXCEPT !.pc = "top", !.reloading = FALSE]
  /\ reload' = FALSE
  /\ UNCHANGED <<scene, moves, db, requests, task, misreads, failures>>

\* _supervise installs the first context; _rebuild installs the next one and then
\* the loop invalidates the detection that is running.
Install ==
  /\ loop.pc = "install"
  /\ ctx' = FreshContext(built)
  /\ torn' = built.torn
  /\ sched' = IF loop.reloading THEN [sched EXCEPT !.gen = @ + 1] ELSE NewScheduler
  /\ built' = NothingBuilt
  /\ loop' = [loop EXCEPT !.pc = "top", !.reloading = FALSE]
  /\ UNCHANGED <<scene, moves, db, requests, reload, task, misreads, failures>>

-----------------------------------------------------------------------------
(* One tick of run_camera_loop. *)

TakeReload ==
  /\ loop.pc = "top"
  /\ reload
  /\ reload' = FALSE
  /\ loop' = [loop EXCEPT !.pc = "read_map", !.reloading = TRUE]
  /\ UNCHANGED <<scene, moves, db, requests, built, ctx, task, sched, torn, misreads, failures>>

StartRead ==
  /\ loop.pc = "top"
  /\ ~reload
  /\ loop' = [loop EXCEPT !.pc = "reading"]
  /\ UNCHANGED <<scene, moves, db, requests, reload, built, ctx, task, sched, torn, misreads,
                 failures>>

\* The read failed, or returned the frame the loop has had already.
NoNewFrame ==
  /\ loop.pc = "reading"
  /\ loop' = [loop EXCEPT !.pc = "top"]
  /\ UNCHANGED <<scene, moves, db, requests, reload, built, ctx, task, sched, torn, misreads,
                 failures>>

NewFrame ==
  /\ loop.pc = "reading"
  /\ loop' = [loop EXCEPT !.pc = "frame", !.image = scene]
  /\ UNCHANGED <<scene, moves, db, requests, reload, built, ctx, task, sched, torn, misreads,
                 failures>>

\* FrameChangeGate.evaluate: the places it watches are those under a polygon, all
\* of them when the map is empty.
Watched == IF Drawn(ctx.map) = {} THEN Places ELSE {ctx.map[s] : s \in Drawn(ctx.map)}

Gate(image) ==
  CASE ctx.reference = NoImage -> "first_frame"
    [] ctx.reference # NoImage /\ \E p \in Watched : image[p] # ctx.reference[p] -> "changed"
    [] OTHER -> IF sched.heartbeatDue THEN "heartbeat" ELSE "unchanged"

\* A gate with the last word: the votes in progress starve.
GateOnly == FALSE

NeedsMoreObservations ==
  /\ Drawn(ctx.map) # {}
  /\ \/ ~ctx.answered
     \/ ~ctx.settled
     \/ \E s \in Drawn(ctx.map) : ctx.filter[s].state = "UNKNOWN"

\* camera_tick_policy.too_soon_to_infer holds back "changed" only.
Wanted(image) ==
  CASE Gate(image) \in {"first_frame", "heartbeat"} -> TRUE
    [] Gate(image) = "changed" -> ~sched.tooSoon
    [] OTHER -> NeedsMoreObservations

\* _maybe_infer, and the rest of the tick, which waits for other things but
\* changes nothing here.
JudgeFrame ==
  /\ loop.pc = "frame"
  /\ task' = IF ~Busy /\ Wanted(loop.image)
             THEN [NoTask EXCEPT !.phase = "detecting", !.gen = sched.gen, !.image = loop.image]
             ELSE task
  /\ loop' = [loop EXCEPT !.pc = "top", !.image = NoImage]
  /\ UNCHANGED <<scene, moves, db, requests, reload, built, ctx, sched, torn, misreads, failures>>

\* min_inference_interval_s has passed since the last result.
FloorPasses ==
  /\ sched.tooSoon
  /\ sched' = [sched EXCEPT !.tooSoon = FALSE]
  /\ UNCHANGED <<scene, moves, db, requests, reload, loop, built, ctx, task, torn, misreads,
                 failures>>

\* motion_force_interval_s has passed since the last result.
HeartbeatFallsDue ==
  /\ ~sched.heartbeatDue
  /\ ctx.reference # NoImage
  /\ sched' = [sched EXCEPT !.heartbeatDue = TRUE]
  /\ UNCHANGED <<scene, moves, db, requests, reload, loop, built, ctx, task, torn, misreads,
                 failures>>

-----------------------------------------------------------------------------
(* The detection: InferenceScheduler._run and apply_outcome.  Only a result of *)
(* the current generation is scored, and the context it was started with is    *)
(* then the loop's context: both change together in Install.                   *)

Discard ==
  /\ task.phase = "detecting"
  /\ task.gen # sched.gen
  /\ task' = NoTask
  /\ UNCHANGED <<scene, moves, db, requests, reload, loop, built, ctx, sched, torn, misreads,
                 failures>>

\* A tracker that takes a slot's first reading for the state it always had.
ChangesOfKnownSlots(known, filter) ==
  {[slot |-> s, previous |-> known[s], new |-> filter[s].state] :
     s \in {s \in Drawn(ctx.map) : /\ known[s] # "UNKNOWN"
                                  /\ filter[s].state \notin {"UNKNOWN", known[s]}}}

\* StateTracker.diff
Changes(known, filter) ==
  {[slot |-> s, previous |-> known[s], new |-> filter[s].state] :
     s \in {s \in Drawn(ctx.map) : filter[s].state \notin {"UNKNOWN", known[s]}}}

\* A tracker that is not told what it reported.
KnownUnchanged(known, filter) == known

\* The tracker remembers a change before it is written.
KnownAfter(known, filter) ==
  [s \in Slots |-> IF s \in Drawn(ctx.map) /\ filter[s].state # "UNKNOWN"
                   THEN filter[s].state ELSE known[s]]

Agrees(occupied, filter) ==
  \A s \in Drawn(ctx.map) : /\ filter[s].state # "UNKNOWN"
                            /\ (s \in occupied) <=> (filter[s].state = "OCCUPIED")

SeenIn(image) == {s \in Drawn(ctx.map) : image[ctx.map[s]]}

\* SlotMapFilter.update: every slot's filter gets its verdict of the frame.
Filtered(occupied) ==
  [s \in Slots |-> IF s \in Drawn(ctx.map) THEN Update(ctx.filter[s], s \in occupied)
                   ELSE ctx.filter[s]]

Apply(occupied) ==
  LET filter  == Filtered(occupied)
      changes == Changes(ctx.known, filter)
  IN  /\ ctx' = [ctx EXCEPT !.filter = filter,
                            !.known = KnownAfter(ctx.known, filter),
                            !.answered = Drawn(ctx.map) # {},
                            !.settled = Agrees(occupied, filter),
                            !.reference = task.image]
      /\ sched' = [sched EXCEPT !.tooSoon = TRUE, !.heartbeatDue = FALSE]
      /\ task' = IF changes = {} THEN NoTask
                 ELSE [task EXCEPT !.phase = "writing", !.changes = changes, !.ver = ctx.ver]
      \* The states are read already and the context is not replaced yet.
      /\ built' = IF loop.pc = "install"
                  THEN [built EXCEPT !.torn = @ \cup {c.slot : c \in changes}] ELSE built

\* The detector's verdict is right for every slot, or wrong for one.
Score ==
  /\ task.phase = "detecting"
  /\ task.gen = sched.gen
  /\ \/ /\ Apply(SeenIn(task.image))
        /\ UNCHANGED misreads
     \/ \E s \in Drawn(ctx.map) :
          /\ misreads < MaxMisreads
          /\ misreads' = misreads + 1
          /\ Apply((SeenIn(task.image) \ {s}) \cup ({s} \ SeenIn(task.image)))
  /\ UNCHANGED <<scene, moves, db, requests, reload, loop, torn, failures>>

\* A model failure on one frame: logged, and the loop looks again.
DetectionFails ==
  /\ task.phase = "detecting"
  /\ failures < MaxFailures
  /\ failures' = failures + 1
  /\ task' = NoTask
  /\ UNCHANGED <<scene, moves, db, requests, reload, loop, built, ctx, sched, torn, misreads>>

\* persist_state_changes on the database writer: a change of a code that has no
\* row any more is dropped.  Reading the plates of the arrivals follows.
Written(c) == c.slot \in Drawn(db.map)

CommitChanges ==
  /\ task.phase = "writing"
  /\ db' = [db EXCEPT !.current =
              [s \in Slots |->
                 IF \E c \in task.changes : c.slot = s /\ Written(c)
                 THEN (CHOOSE c \in task.changes : c.slot = s).new ELSE db.current[s]]]
  /\ torn' = IF task.gen = sched.gen THEN torn \ Pending ELSE torn
  /\ task' = IF \E c \in task.changes : c.new = "OCCUPIED"
             THEN [task EXCEPT !.phase = "plates", !.changes = {}] ELSE NoTask
  /\ UNCHANGED <<scene, moves, requests, reload, loop, built, ctx, sched, misreads, failures>>

\* The write raises: the task dies with the exception, and nothing tries again.
WriteFails ==
  /\ task.phase = "writing"
  /\ failures < MaxFailures
  /\ failures' = failures + 1
  /\ torn' = torn \cup Pending
  /\ task' = NoTask
  /\ UNCHANGED <<scene, moves, db, requests, reload, loop, built, ctx, sched, misreads>>

PlatesRead ==
  /\ task.phase = "plates"
  /\ task' = NoTask
  /\ UNCHANGED <<scene, moves, db, requests, reload, loop, built, ctx, sched, torn, misreads,
                 failures>>

-----------------------------------------------------------------------------
(* Failures *)

\* An exception leaves run_camera_loop: its finally clause waits out the detection.
LoopCrashes ==
  /\ loop.pc \in {"read_map", "read_states", "reading", "frame"}
  /\ failures < MaxFailures
  /\ failures' = failures + 1
  /\ loop' = [pc |-> "drain", reloading |-> FALSE, image |-> NoImage]
  /\ built' = NothingBuilt
  /\ UNCHANGED <<scene, moves, db, requests, reload, ctx, task, sched, torn, misreads>>

Drained ==
  /\ loop.pc = "drain"
  /\ ~Busy
  /\ loop' = [loop EXCEPT !.pc = "backoff"]
  /\ ctx' = NoContext
  /\ UNCHANGED <<scene, moves, db, requests, reload, built, task, sched, torn, misreads,
                 failures>>

\* _supervise's backoff ends.
BuildAgain ==
  /\ loop.pc = "backoff"
  /\ loop' = [loop EXCEPT !.pc = "read_map"]
  /\ UNCHANGED <<scene, moves, db, requests, reload, built, ctx, task, sched, torn, misreads,
                 failures>>

\* The process is killed and started again: everything but the database is lost,
\* the queued write and the unsent signals with it.
ProcessRestarts ==
  /\ failures < MaxFailures
  /\ failures' = failures + 1
  /\ requests' = 0
  /\ reload' = FALSE
  /\ loop' = [pc |-> "read_map", reloading |-> FALSE, image |-> NoImage]
  /\ built' = NothingBuilt
  /\ ctx' = NoContext
  /\ task' = NoTask
  /\ sched' = NewScheduler
  /\ torn' = {}
  /\ UNCHANGED <<scene, moves, db, misreads>>

-----------------------------------------------------------------------------
Init ==
  /\ scene \in Scenes
  /\ moves = [p \in Places |-> 0]
  /\ db \in [map : Maps, ver : {0}, current : [Slots -> SlotStates]]
  /\ \A s \in Slots \ Drawn(db.map) : db.current[s] = "UNKNOWN"
  /\ requests = 0
  /\ reload = FALSE
  /\ loop = [pc |-> "read_map", reloading |-> FALSE, image |-> NoImage]
  /\ built = NothingBuilt
  /\ ctx = NoContext
  /\ task = NoTask
  /\ sched = NewScheduler
  /\ torn = {}
  /\ misreads = 0
  /\ failures = 0

Rest == SignalReload \/ \E map \in Maps : SaveMap(map)

Build == ReadMap \/ ReadStates \/ Install

Tick == TakeReload \/ StartRead \/ NoNewFrame \/ NewFrame \/ JudgeFrame

Clock == FloorPasses \/ HeartbeatFallsDue

Detection == Discard \/ Score \/ DetectionFails \/ CommitChanges \/ WriteFails \/ PlatesRead

Failure == LoopCrashes \/ Drained \/ BuildAgain \/ ProcessRestarts

Next == \/ \E p \in Places : VehicleMoves(p)
        \/ Rest \/ Build \/ Tick \/ Clock \/ Detection \/ Failure

Spec == Init /\ [][Next]_vars

\* The event loop keeps running its coroutines, threads and the database writer
\* finish what they are given, timers fire, and a camera that is read again and
\* again delivers.  Nothing is assumed of vehicles, edits, failures or the heartbeat.
Fairness ==
  /\ WF_vars(SignalReload)
  /\ WF_vars(Build)
  /\ WF_vars(TakeReload \/ StartRead \/ JudgeFrame)
  /\ WF_vars(NoNewFrame \/ NewFrame) /\ SF_vars(NewFrame)
  /\ WF_vars(FloorPasses)
  /\ WF_vars(Discard \/ Score \/ CommitChanges \/ PlatesRead)
  /\ WF_vars(Drained \/ BuildAgain)

FairSpec == Spec /\ Fairness

-----------------------------------------------------------------------------
(* Properties *)

Phases == {"none", "detecting", "writing", "plates"}
PCs == {"read_map", "read_states", "install", "top", "reading", "frame", "drain", "backoff"}
Images == Scenes \cup {NoImage}

TypeOK ==
  /\ scene \in Scenes
  /\ moves \in [Places -> 0..MaxMoves]
  /\ db \in [map : Maps, ver : 0..MaxEdits, current : [Slots -> SlotStates]]
  /\ requests \in Nat
  /\ reload \in BOOLEAN
  /\ loop \in [pc : PCs, reloading : BOOLEAN, image : Images]
  /\ built \in [map : Maps, ver : -1..MaxEdits, seed : [Slots -> SlotStates], torn : SUBSET Slots]
  /\ ctx \in [map : Maps, ver : -1..MaxEdits, filter : [Slots -> Filters],
              known : [Slots -> SlotStates], answered : BOOLEAN, settled : BOOLEAN,
              reference : Images]
  /\ \A s \in Slots : Len(ctx.filter[s].votes) <= Window
  /\ task \in [phase : Phases, gen : Nat, image : Images, changes : SUBSET SlotChanges,
               ver : -1..MaxEdits]
  /\ sched \in [gen : Nat, tooSoon : BOOLEAN, heartbeatDue : BOOLEAN]
  /\ torn \in SUBSET Slots
  /\ misreads \in 0..MaxMisreads
  /\ failures \in 0..MaxFailures

\* The state the slot's row has once the queued write is done.
SettlesAt(t, d, s) ==
  IF \E c \in t.changes : t.phase = "writing" /\ c.slot = s
  THEN (CHOOSE c \in t.changes : c.slot = s).new ELSE d.current[s]

Settling(s) == SettlesAt(task, db, s)

\* The tracker of a loaded context and the database say the same of every slot,
\* the write under way included.  Only two things separate them, and torn holds
\* the slots they hit: a write that was queued, or became queued, while a rebuild
\* read the states (camera_context.py, build_context), and a write that failed
\* after StateTracker.diff had remembered it (inference_outcome_applier.py).
TrackerAgrees ==
  ctx.ver = db.ver =>
    \A s \in Drawn(ctx.map) \ torn : ctx.known[s] = Settling(s)

\* Every history row starts from the state the row before it ended in and ends in
\* another one, for a slot that is not torn and whose context is up to date:
\* sessions are derived from that chain (persist_state_changes).
RowsChain ==
  [][ CommitChanges /\ task.gen = sched.gen /\ ctx.ver = db.ver =>
        \A c \in task.changes : c.slot \notin torn =>
          /\ c.previous = db.current[c.slot]
          /\ c.new # c.previous ]_vars

\* As long as the detector has been wrong fewer times than the threshold, a slot
\* whose place nothing entered or left is never reported in the wrong state, however
\* the map is redrawn meanwhile: no vote survives into another polygon
\* (build_filter), and a brief occlusion is absorbed (SlotVoteFilter.update).
ReportedStateWasSeen ==
  \A s \in Drawn(ctx.map) :
    LET p == ctx.map[s]
    IN  moves[p] = 0 /\ misreads < Threshold =>
          ctx.filter[s].state \in {"UNKNOWN", IF scene[p] THEN "OCCUPIED" ELSE "FREE"}

Truth(s) == IF scene[ctx.map[s]] THEN "OCCUPIED" ELSE "FREE"

\* A scene that stops changing ends up reported.  With a detector that is never
\* wrong this needs no heartbeat: the change gate and the vote filter do not starve
\* each other (camera_tick_policy.needs_more_observations).  One wrong verdict that
\* agrees with the outdated state ends the settling early, and then it takes the
\* heartbeat (FrameChangeGate.evaluate) to look again.
StableSceneIsReported ==
  ([](misreads = 0) \/ []<>sched.heartbeatDue) =>
    \A s \in Slots : <>[](s \in Drawn(ctx.map) => ctx.filter[s].state = Truth(s))

\* What is reported in the end is what the database says in the end, unless the slot
\* is torn: no change is left behind between StateTracker.diff and the writer.
ReportReachesDatabase ==
  \A s \in Slots :
    <>[](s \in Drawn(ctx.map) /\ s \notin torn =>
           ctx.filter[s].state \in {"UNKNOWN", db.current[s]})

\* Every saved map is the one the loop works with in the end: the signal is not
\* lost between ReloadSignals.take and the read of the rows.
EditsAreLoaded == <>[](ctx.ver = db.ver)
=============================================================================
