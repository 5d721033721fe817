------------------------------ MODULE Lifespan -------------------------------
(***************************************************************************)
(* The process from startup to shutdown_complete (lifespan.py): periodic   *)
(* jobs (jobs/interval_scheduler.py) and camera loops share the one thread *)
(* that writes, and are taken down in order.  A pool is the queue of its   *)
(* work, the head being run: a cancelled task takes its work out of the    *)
(* queue, but not from the thread.  Crashes of loops are CameraSupervisor's *)
(* part.                                                                   *)
(***************************************************************************)
EXTENDS Naturals, SequencesExt, Selection

CONSTANTS
  Loops, \* cameras
  Jobs   \* PeriodicJobs

VARIABLES
  phase,     \* "serving", then how far the teardown is
  job,       \* per job its task: "waiting", "asked", "ended"
  dbPool,    \* work of db_pool: [what |-> "job", "health" or "state", of |-> whose]
  model,     \* work of inference_pool: loops
  loop,      \* per camera: "looping", "health" (awaits that write), "draining", "ended"
  detection, \* per camera its task: "none", "detecting", "writing"
  unwritten, \* history: cameras with a change their tracker knows and the database may lack
  cutShort   \* history: cameras whose drain was cancelled

processVars == <<phase, job, dbPool, model, loop, detection, unwritten, cutShort>>

Work(what, of) == [what |-> what, of |-> of]

\* Cancelled work leaves its queue unless it is the head, which runs.
Without(queue, cancelled) ==
  Picked(queue, {i \in DOMAIN queue : i = 1 \/ queue[i] \notin cancelled})

ProcessInit ==
  /\ phase = "serving"
  /\ job = [j \in Jobs |-> "waiting"] /\ loop = [c \in Loops |-> "looping"]
  /\ dbPool = <<>> /\ model = <<>>
  /\ detection = [c \in Loops |-> "none"]
  /\ unwritten = {} /\ cutShort = {}

-----------------------------------------------------------------------------
(* Serving *)

\* _run_forever: the delay or the interval is over.
JobIsDue(j) ==
  /\ phase = "serving" /\ job[j] = "waiting"
  /\ job' = [job EXCEPT ![j] = "asked"]
  /\ dbPool' = Append(dbPool, Work("job", j))
  /\ UNCHANGED <<phase, model, loop, detection, unwritten, cutShort>>

\* scheduler.start
Detects(c) ==
  /\ loop[c] = "looping" /\ detection[c] = "none"
  /\ detection' = [detection EXCEPT ![c] = "detecting"]
  /\ model' = Append(model, c)
  /\ UNCHANGED <<phase, job, dbPool, loop, unwritten, cutShort>>

\* touch_health_if_due, record_camera_error
RecordsHealth(c) ==
  /\ loop[c] = "looping"
  /\ loop' = [loop EXCEPT ![c] = "health"]
  /\ dbPool' = Append(dbPool, Work("health", c))
  /\ UNCHANGED <<phase, job, model, detection, unwritten, cutShort>>

\* run_inference is done, and apply_outcome found a change or none; nobody may be waiting
\* for it any more.
DetectionEnds(changed) ==
  /\ model # <<>>
  /\ model' = Tail(model)
  /\ LET c == Head(model)
         writes == changed /\ detection[c] = "detecting"
     IN /\ detection' = [detection EXCEPT ![c] = IF writes THEN "writing" ELSE "none"]
        /\ dbPool' = IF writes THEN Append(dbPool, Work("state", c)) ELSE dbPool
        /\ unwritten' = IF writes THEN unwritten \cup {c} ELSE unwritten
  /\ UNCHANGED <<phase, job, loop, cutShort>>

\* The writing thread is done with the head of its queue.  A failed job is logged.
WorkEnds ==
  /\ dbPool # <<>>
  /\ dbPool' = Tail(dbPool)
  /\ LET w == Head(dbPool)
     IN /\ job' = [j \in Jobs |-> IF w = Work("job", j) /\ job[j] = "asked" THEN "waiting"
                                  ELSE job[j]]
        /\ loop' = [c \in Loops |-> IF w = Work("health", c) /\ loop[c] = "health"
                                    THEN "looping" ELSE loop[c]]
        /\ detection' = [c \in Loops |->
             IF w = Work("state", c) /\ detection[c] = "writing" THEN "none" ELSE detection[c]]
        /\ unwritten' = unwritten \ {c \in Loops : w = Work("state", c)}
  /\ UNCHANGED <<phase, model, cutShort>>

-----------------------------------------------------------------------------
(* Teardown *)

\* JobScheduler.stop cancels what waits or is queued; supervisor.stop sets the event.
StopIsAsked ==
  /\ phase = "serving"
  /\ phase' = "loops"
  /\ job' = [j \in Jobs |-> "ended"]
  /\ dbPool' = Without(dbPool, {Work("job", j) : j \in Jobs})
  /\ UNCHANGED <<model, loop, detection, unwritten, cutShort>>

SeesStop(c) ==
  /\ phase = "loops" /\ loop[c] = "looping"
  /\ loop' = [loop EXCEPT ![c] = "draining"]
  /\ UNCHANGED <<phase, job, dbPool, model, detection, unwritten, cutShort>>

\* The loop ends whether a detection is in flight or not.
DoesNotAwait(c) == TRUE

\* scheduler.drain
Awaited(c) == detection[c] = "none"

Drained(c) ==
  /\ loop[c] = "draining" /\ Awaited(c)
  /\ loop' = [loop EXCEPT ![c] = "ended"]
  /\ UNCHANGED <<phase, job, dbPool, model, detection, unwritten, cutShort>>

\* SHUTDOWN_TIMEOUT_S is over: loops that have not ended are cancelled.  One that drains
\* passes it on to its detection and ends; any other drains first.
TimesOut ==
  /\ phase = "loops"
  /\ \E c \in Loops : loop[c] # "ended"
  /\ LET draining == {c \in Loops : loop[c] = "draining"}
     IN /\ loop' = [c \in Loops |->
             IF c \in draining \/ loop[c] = "ended" THEN "ended" ELSE "draining"]
        /\ detection' = [c \in Loops |-> IF c \in draining THEN "none" ELSE detection[c]]
        /\ dbPool' = Without(dbPool, {Work("health", c) : c \in Loops}
                                     \cup {Work("state", c) : c \in draining})
        /\ model' = Without(model, draining)
        /\ cutShort' = cutShort \cup draining
  /\ phase' = "late"
  /\ UNCHANGED <<job, unwritten>>

\* Contexts and hub are closed.
LoopsAreDone ==
  /\ phase \in {"loops", "late"} /\ \A c \in Loops : loop[c] = "ended"
  /\ phase' = "closed"
  /\ UNCHANGED <<job, dbPool, model, loop, detection, unwritten, cutShort>>

\* inference_pool.shutdown(wait, cancel_futures)
InferenceIsCancelled ==
  /\ phase = "closed"
  /\ phase' = "joining"
  /\ model' = Without(model, Loops)
  /\ UNCHANGED <<job, dbPool, loop, detection, unwritten, cutShort>>

InferenceIsDown ==
  /\ phase = "joining" /\ model = <<>>
  /\ phase' = "noDetector"
  /\ UNCHANGED <<job, dbPool, model, loop, detection, unwritten, cutShort>>

\* db_pool.shutdown(wait), engine.dispose
EngineIsDisposed ==
  /\ phase = "noDetector" /\ dbPool = <<>>
  /\ phase' = "disposed"
  /\ UNCHANGED <<job, dbPool, model, loop, detection, unwritten, cutShort>>

TearsDown ==
  TimesOut \/ LoopsAreDone \/ InferenceIsCancelled \/ InferenceIsDown \/ EngineIsDisposed

Winds(c) == SeesStop(c) \/ Drained(c)

ProcessNext ==
  \/ \E j \in Jobs : JobIsDue(j)
  \/ \E c \in Loops : Detects(c) \/ RecordsHealth(c) \/ Winds(c)
  \/ \E changed \in BOOLEAN : DetectionEnds(changed)
  \/ WorkEnds \/ StopIsAsked \/ TearsDown
=============================================================================
