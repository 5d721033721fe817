-------------------------- MODULE CameraSupervisor --------------------------
(***************************************************************************)
(* The supervisor of the camera loops (workers/camera_supervisor.py): the  *)
(* watcher that matches loops to the camera table, the task of each        *)
(* camera with its builds, crashes and reloads, and stop().  Requests run  *)
(* in threads of their own (services/camera_service.py) and reach the      *)
(* event loop by ReloadSignals; a build runs in a thread, which a          *)
(* cancelled task leaves behind.                                           *)
(*                                                                         *)
(* One coroutine runs at a time, up to its next await: what lies between   *)
(* two awaits is one step.  task.cancel() takes effect before the task     *)
(* runs again, so it is one step with its effect.                          *)
(***************************************************************************)
EXTENDS Naturals, FiniteSets

CONSTANTS
  MaxCameras, \* bound: camera ids are 1..MaxCameras (SQLite: the largest used + 1)
  MaxEdits    \* bound: requests that create, change or delete a camera

ASSUME SupervisorBounds == MaxCameras \in Nat \ {0} /\ MaxEdits \in Nat

Cameras == 1..MaxCameras

\* Tasks of one camera are told apart, so that two could be there at once.
Tasks == 1..2

VARIABLES
  row,       \* per camera: "absent", "disabled", "enabled"
  edits,     \* requests so far
  owed,      \* calls handed to the event loop: cameras to reload, 0 for reconcile
  reloads,   \* cameras whose reload event is set
  reconcile, \* the reconcile event
  cam,       \* per camera, its entries in _tasks and _contexts, and its tasks
  watcher,   \* the reconcile watcher: where it is, whom it awaits, whom it cancels next
  blind,     \* the watcher's last read of the table failed
  stop       \* stop(): "no", "asked", "waiting", "cancelled", "done"

requests == <<row, edits, owed>>
vars == <<requests, reloads, reconcile, cam, watcher, blind, stop>>

Idle == [at |-> "waiting", camera |-> 0, task |-> 0, doomed |-> {}]
Ended == [Idle EXCEPT !.at = "ended"]

\* No task in the table, no context, no open source; orphan is set by a source that
\* no context got.
NoCamera == [task |-> 0, at |-> [t \in Tasks |-> "ended"], current |-> FALSE,
             context |-> "none", open |-> 0, orphan |-> FALSE]

Building == {"reading", "opening"}
Looping  == {"running", "rereading", "reopening"}
InThread == {"reading", "opening", "rereading", "reopening"}
Live(c)  == {t \in Tasks : cam[c].at[t] # "ended"}
Enabled  == {c \in Cameras : row[c] = "enabled"}
Running  == {c \in Cameras : cam[c].task # 0}

-----------------------------------------------------------------------------
(* What happens to the entry k of one camera. *)

Spawned(k) ==
  LET t == CHOOSE t \in Tasks : k.at[t] = "ended"
  IN  [k EXCEPT !.task = t, !.at[t] = "starting"]

CanSpawn(k) == \E t \in Tasks : k.at[t] = "ended"

Closed(k) == IF k.context = "open" THEN [k EXCEPT !.context = "closed", !.open = @ - 1] ELSE k

LeftOpen(k) == k

\* The context is taken out of the table and closed.
Dropped(k) == [Closed(k) EXCEPT !.context = "none"]

\* The context is taken out of the table.
PoppedOnly(k) == [k EXCEPT !.context = "none"]

Installed(k) == [k EXCEPT !.context = "open", !.open = @ + 1]

\* After a crash: the context is dropped and the task waits to build again.
CrashDropped(k) == Dropped(k)
CrashedTo(k, t) == [CrashDropped(k) EXCEPT !.at[t] = "backoff"]

\* task.cancel().  The loop drains its detection first.  A loop that crashed and is
\* draining swallows the cancellation there, and goes on as crashed.  A thread that
\* was building is left behind, and may open its source all the same.
AfterCancel(k, t, opens) ==
  IF k.at[t] = "crash_drain" THEN CrashedTo(k, t)
  ELSE [k EXCEPT !.at[t] = IF @ \in Looping THEN "cancel_drain" ELSE "ended",
                 !.orphan = @ \/ (opens /\ k.at[t] \in InThread)]

-----------------------------------------------------------------------------
(* Requests: create_camera, update_camera, delete_camera, in threads. *)

Commit(c, status) ==
  /\ stop = "no"
  /\ edits < MaxEdits
  /\ edits' = edits + 1
  /\ row' = [row EXCEPT ![c] = status]
  /\ UNCHANGED <<reloads, reconcile, watcher, blind, stop>>

\* One more than the largest id in use.
IsNextId(c) ==
  /\ \A d \in Cameras : d >= c => row[d] = "absent"
  /\ c > 1 => row[c - 1] # "absent"

Create ==
  \E c \in Cameras, status \in {"enabled", "disabled"} :
    /\ IsNextId(c)
    /\ Commit(c, status)
    /\ owed' = owed \cup {0}
    /\ UNCHANGED cam

\* update_runtime, and update_camera when is_enabled stays as it is.
Retunes(c) ==
  /\ row[c] # "absent"
  /\ Commit(c, row[c])
  /\ owed' = owed \cup {c}
  /\ cam' = [cam EXCEPT ![c].current = FALSE]

\* update_camera that enables or disables.
Update(c) ==
  /\ row[c] # "absent"
  /\ \E status \in {"enabled", "disabled"} \ {row[c]} : Commit(c, status)
  /\ owed' = owed \cup {c, 0}
  /\ cam' = [cam EXCEPT ![c].current = FALSE]

Delete(c) ==
  /\ row[c] # "absent"
  /\ Commit(c, "absent")
  /\ owed' = owed \cup {0}
  /\ UNCHANGED cam

\* ReloadSignals.request and request_reconcile: the event loop runs the call.
SetEvent ==
  \E call \in owed :
    /\ owed' = owed \ {call}
    /\ reloads' = IF call = 0 THEN reloads ELSE reloads \cup {call}
    /\ reconcile' = (reconcile \/ call = 0)
    /\ UNCHANGED <<row, edits, cam, watcher, blind, stop>>

-----------------------------------------------------------------------------
(* The watcher: reconcile and _cancel. *)

\* The next camera of doomed that has a task is cancelled in the fleet f; when none is
\* left the watcher waits for the next request, or ends if stop() was called.
CancelNext(f, doomed) ==
  LET left == {c \in doomed : f[c].task # 0}
  IN  IF left = {}
      THEN /\ cam' = f
           /\ watcher' = IF stop = "no" THEN Idle ELSE Ended
      ELSE \E c \in left, opens \in BOOLEAN :
             /\ cam' = [f EXCEPT ![c] = [AfterCancel(@, @.task, opens) EXCEPT !.task = 0]]
             /\ watcher' = [at |-> "cancelling", camera |-> c, task |-> f[c].task,
                            doomed |-> left \ {c}]

\* A failed read of the table looks like an empty table.
Reconcile ==
  /\ watcher.at = "waiting"
  /\ stop = "no"
  /\ reconcile
  /\ reconcile' = FALSE
  /\ \E failed \in BOOLEAN :
       LET wanted == IF failed THEN {} ELSE Enabled
           spawned == [c \in Cameras |->
             IF c \in wanted \ Running /\ CanSpawn(cam[c]) THEN Spawned(cam[c]) ELSE cam[c]]
       IN  /\ blind' = failed
           /\ CancelNext(spawned, Running \ wanted)
  /\ UNCHANGED <<requests, reloads, stop>>

\* The cancelled task is not awaited.
VictimIsLeft == TRUE

VictimIsGone == cam[watcher.camera].at[watcher.task] = "ended"

\* The reconcile event is cleared when the reconcile is done.
CancelEndsAndClears ==
  /\ watcher.at = "cancelling"
  /\ VictimIsGone
  /\ LET c == watcher.camera
     IN  /\ reloads' = reloads \ {c}
         /\ owed' \in {owed, owed \ {c}}
         /\ CancelNext([cam EXCEPT ![c] = Dropped(@)], watcher.doomed)
  /\ reconcile' = FALSE
  /\ UNCHANGED <<row, edits, blind, stop>>

\* _cancel after its await: the context is closed, the signal forgotten.  A reload
\* that has looked up its event but not set it yet sets one nobody reads.
CancelEnds ==
  /\ watcher.at = "cancelling"
  /\ VictimIsGone
  /\ LET c == watcher.camera
     IN  /\ reloads' = reloads \ {c}
         /\ owed' \in {owed, owed \ {c}}
         /\ CancelNext([cam EXCEPT ![c] = Dropped(@)], watcher.doomed)
  /\ UNCHANGED <<row, edits, reconcile, blind, stop>>

-----------------------------------------------------------------------------
(* The task of a camera: _supervise, _rebuild and the shell of run_camera_loop. *)

Becomes(c, k) ==
  /\ cam' = [cam EXCEPT ![c] = k]
  /\ UNCHANGED <<requests, reconcile, watcher, blind, stop>>

Goes(c, t, from, to) ==
  /\ cam[c].at[t] = from
  /\ Becomes(c, [cam[c] EXCEPT !.at[t] = to])
  /\ UNCHANGED reloads

\* The stagger is over, or the backoff.
Builds(c, t) ==
  /\ stop = "no"
  /\ Goes(c, t, "starting", "reading") \/ Goes(c, t, "backoff", "reading")

\* In the thread: the camera's row is read.
RowRead(c, t) ==
  /\ row[c] # "absent"
  /\ \/ /\ cam[c].at[t] = "reading"
        /\ Becomes(c, [cam[c] EXCEPT !.at[t] = "opening", !.current = TRUE])
     \/ /\ cam[c].at[t] = "rereading"
        /\ Becomes(c, [cam[c] EXCEPT !.at[t] = "reopening", !.current = TRUE])
  /\ UNCHANGED reloads

Built(c, t) ==
  /\ cam[c].at[t] = "opening"
  /\ Becomes(c, [Installed(cam[c]) EXCEPT !.at[t] = "running"])
  /\ UNCHANGED reloads

\* The row is gone, or the configuration or the source is broken.
BuildFails(c, t) ==
  /\ cam[c].at[t] \in Building
  /\ Becomes(c, CrashedTo(cam[c], t))
  /\ UNCHANGED reloads

\* _rebuild: the old source is closed before the new one is opened.
OldClosed(k) == Closed(k)

Reload(c, t) ==
  /\ cam[c].at[t] = "running"
  /\ stop = "no"
  /\ c \in reloads
  /\ reloads' = reloads \ {c}
  /\ Becomes(c, [OldClosed(cam[c]) EXCEPT !.at[t] = "rereading"])

Rebuilt(c, t) ==
  /\ cam[c].at[t] = "reopening"
  /\ Becomes(c, [Installed(cam[c]) EXCEPT !.at[t] = "running"])
  /\ UNCHANGED reloads

\* Anything that raises in the loop, the rebuild included.  With a detection in
\* flight the loop drains it before the exception gets out.
Crash(c, t) ==
  /\ cam[c].at[t] \in Looping
  /\ \/ Becomes(c, CrashedTo(cam[c], t))
     \/ Becomes(c, [cam[c] EXCEPT !.at[t] = "crash_drain"])
  /\ UNCHANGED reloads

\* The detection that was in flight has ended.
Drained(c, t) ==
  \/ Goes(c, t, "cancel_drain", "ended")
  \/ Goes(c, t, "stop_drain", "ended")
  \/ /\ cam[c].at[t] = "crash_drain"
     /\ Becomes(c, CrashedTo(cam[c], t))
     /\ UNCHANGED reloads

SeesStop(c, t) ==
  /\ stop # "no"
  /\ \/ Goes(c, t, "starting", "ended")
     \/ Goes(c, t, "backoff", "ended")
     \/ Goes(c, t, "running", "stop_drain")

-----------------------------------------------------------------------------
(* stop() *)

\* The stop event is set and the watcher cancelled: it ends where it waits, or hands
\* the cancellation on to the task it awaits and carries on.
StopAsked ==
  /\ stop = "no"
  /\ stop' = "asked"
  /\ IF watcher.at = "cancelling"
     THEN /\ \E opens \in BOOLEAN :
               cam' = [cam EXCEPT ![watcher.camera] = AfterCancel(@, watcher.task, opens)]
          /\ UNCHANGED watcher
     ELSE watcher' = Ended /\ UNCHANGED cam
  /\ UNCHANGED <<requests, reloads, reconcile, blind>>

\* The watcher is not awaited.
WatcherIsLeft == TRUE

WatcherIsGone == watcher.at = "ended"

StopWaits ==
  /\ stop = "asked"
  /\ WatcherIsGone
  /\ stop' = "waiting"
  /\ UNCHANGED <<requests, reloads, reconcile, cam, watcher, blind>>

Overstayers == {c \in Running : cam[c].at[cam[c].task] # "ended"}

StopTimesOut ==
  /\ stop = "waiting"
  /\ Overstayers # {}
  /\ stop' = "cancelled"
  /\ \E opening \in SUBSET Overstayers :
       cam' = [c \in Cameras |->
         IF c \in Overstayers THEN AfterCancel(cam[c], cam[c].task, c \in opening) ELSE cam[c]]
  /\ UNCHANGED <<requests, reloads, reconcile, watcher, blind>>

StopEnds ==
  /\ stop \in {"waiting", "cancelled"}
  /\ Overstayers = {}
  /\ stop' = "done"
  /\ cam' = [c \in Cameras |-> [Dropped(cam[c]) EXCEPT !.task = 0]]
  /\ UNCHANGED <<requests, reloads, reconcile, watcher, blind>>

-----------------------------------------------------------------------------
\* start(): the first reconcile spawns, and the watcher begins to wait.
Init ==
  /\ row \in [Cameras -> {"absent", "disabled", "enabled"}]
  /\ edits = 0
  /\ owed = {}
  /\ reloads = {}
  /\ reconcile = FALSE
  /\ blind \in BOOLEAN
  /\ cam = [c \in Cameras |->
       IF row[c] = "enabled" /\ ~blind THEN Spawned(NoCamera) ELSE NoCamera]
  /\ watcher = Idle
  /\ stop = "no"

Request == Create \/ \E c \in Cameras : Retunes(c) \/ Update(c) \/ Delete(c)

Supervise(c, t) == \/ Builds(c, t) \/ RowRead(c, t) \/ Built(c, t) \/ BuildFails(c, t)
                   \/ Reload(c, t) \/ Rebuilt(c, t) \/ Crash(c, t) \/ Drained(c, t)
                   \/ SeesStop(c, t)

Stop == StopAsked \/ StopWaits \/ StopTimesOut \/ StopEnds

Next == \/ Request \/ SetEvent
        \/ Reconcile \/ CancelEnds
        \/ \E c \in Cameras, t \in Tasks : Supervise(c, t)
        \/ Stop

Spec == Init /\ [][Next]_vars

BuildGoesOn(c, t) ==
  \/ RowRead(c, t) \/ Built(c, t) \/ BuildFails(c, t) \/ Rebuilt(c, t)
  \/ cam[c].at[t] # "running" /\ Crash(c, t)

\* Threads and coroutines that can go on do; requests, crashes, and the request to
\* stop need not come.
Fairness ==
  /\ WF_vars(SetEvent) /\ WF_vars(Reconcile) /\ WF_vars(CancelEnds)
  /\ WF_vars(StopWaits \/ StopTimesOut \/ StopEnds)
  /\ \A c \in Cameras, t \in Tasks :
       /\ WF_vars(Builds(c, t)) /\ WF_vars(BuildGoesOn(c, t))
       /\ WF_vars(Reload(c, t)) /\ WF_vars(Drained(c, t)) /\ WF_vars(SeesStop(c, t))

FairSpec == Spec /\ Fairness

-----------------------------------------------------------------------------
(* Properties *)

At == {"starting", "backoff", "crash_drain", "cancel_drain", "stop_drain", "ended", "running"}
      \cup InThread

TypeOK ==
  /\ row \in [Cameras -> {"absent", "disabled", "enabled"}]
  /\ edits \in 0..MaxEdits
  /\ owed \in SUBSET (Cameras \cup {0})
  /\ reloads \in SUBSET Cameras
  /\ reconcile \in BOOLEAN
  /\ cam \in [Cameras -> [task : {0} \cup Tasks, at : [Tasks -> At], current : BOOLEAN,
                         context : {"none", "open", "closed"}, open : Nat, orphan : BOOLEAN]]
  /\ watcher \in [at : {"waiting", "cancelling", "ended"}, camera : {0} \cup Cameras,
                  task : {0} \cup Tasks, doomed : SUBSET Cameras]
  /\ blind \in BOOLEAN
  /\ stop \in {"no", "asked", "waiting", "cancelled", "done"}

\* A camera has at most one loop, also while its old one is being cancelled and an
\* operator enables it again (reconcile, _cancel): two would read one source and write
\* one camera's states.
OneLoopPerCamera == \A c \in Cameras : Cardinality(Live(c)) <= 1

\* Whatever order of crashes, reloads, cancellations and stops: a source that a
\* context got is open only while that context is in the table, where the next one to
\* take it out closes it (_supervise, _rebuild, _cancel).
SourcesAreOwned ==
  \A c \in Cameras : cam[c].open = IF cam[c].context = "open" THEN 1 ELSE 0

\* When stop() returns no loop is left and no context's source is open, also when it
\* comes in the middle of a reconcile (stop).
StoppedIsQuiet ==
  stop = "done" => \A c \in Cameras : Live(c) = {} /\ cam[c].open = 0

\* The watcher awaits a task that has swallowed its cancellation.
CancelIsLost ==
  /\ watcher.at = "cancelling"
  /\ cam[watcher.camera].at[watcher.task] \notin {"cancel_drain", "stop_drain", "ended"}

\* When the operators are done, the loops that are there are those of the enabled
\* cameras and stay so, unless the last read of the table failed or a cancellation
\* was lost.
LoopsSettle ==
  [](stop = "no" /\ ~CancelIsLost) =>
    <>[](blind \/ \A c \in Cameras : (Live(c) # {}) = (row[c] = "enabled"))

\* A loop that runs works with its camera's last update in the end, however requests,
\* reloads, cancellations and new starts fall.
UpdatesReachLoops ==
  [](stop = "no") =>
    <>[](\A c \in Cameras, t \in Tasks : cam[c].at[t] = "running" => cam[c].current)

\* What operators have asked for is what runs in the end (reconcile,
\* _watch_for_reconcile, ReloadSignals, _rebuild, _supervise).
FleetSettles == LoopsSettle /\ UpdatesReachLoops

\* camera_supervisor.py, _watch_for_reconcile: the next signal has to still be acted on.
SignalsAreActedOn == [](reconcile => <>(~reconcile \/ stop # "no"))
=============================================================================
