---------------------------- MODULE CameraHealth -----------------------------
(***************************************************************************)
(* What is known of a camera's health (workers/camera_metrics.py,          *)
(* touch_camera_health, services/camera_health.py): counters of the loop,  *)
(* shown live, and last_error of the row, written rarely.                  *)
(***************************************************************************)
EXTENDS Naturals

CONSTANTS
  OfflineAfter,   \* camera_fail_streak_offline
  HealthInterval  \* HEALTH_INTERVAL_S, in ticks

ASSUME HealthBounds == {OfflineAfter, HealthInterval} \subseteq Nat \ {0}

VARIABLES
  metrics,   \* the loop's counters: [seen, streak], streak counted a little too far
  lastError, \* whether the row has one
  sinceSeen, \* ticks since the loop wrote that it saw the camera; at most HealthInterval,
             \* which is also where a new loop starts
  working    \* history: from now on every frame arrives and every write succeeds

healthVars == <<metrics, lastError, sinceSeen, working>>

NoMetrics == [seen |-> FALSE, streak |-> 0]

HealthInit ==
  /\ metrics = NoMetrics /\ lastError \in BOOLEAN
  /\ sinceSeen = HealthInterval /\ working = FALSE

\* is_online
Online == metrics.seen /\ metrics.streak < OfflineAfter

\* touch_camera_health: last_error of the row after a camera was seen, or after an error
\* that is due.
Recorded(seen, due) == IF seen THEN FALSE ELSE lastError \/ due

\* record_success, and touch_health_if_due: at most once in an interval.
SeenIsDue == sinceSeen >= HealthInterval

FrameArrives ==
  /\ metrics' = [seen |-> TRUE, streak |-> 0]
  /\ IF SeenIsDue THEN lastError' = Recorded(TRUE, FALSE) /\ sinceSeen' = 0
     ELSE UNCHANGED <<lastError, sinceSeen>>
  /\ UNCHANGED working

ErrorIsDueTooLate(streak) == streak > OfflineAfter

\* record_failure; the one failure that makes the camera offline is written.
ErrorIsDue(streak) == streak = OfflineAfter

ReadFails ==
  /\ ~working
  /\ LET streak == metrics.streak + 1
     IN /\ metrics' = [metrics EXCEPT !.streak =
             IF streak > OfflineAfter THEN OfflineAfter + 1 ELSE streak]
        /\ lastError' = Recorded(FALSE, ErrorIsDue(streak))
  /\ UNCHANGED <<sinceSeen, working>>

\* The write fails, or the loop crashes: it starts again with counters of its own.  A
\* reload keeps both (_rebuild).
LoopRestarts ==
  /\ ~working
  /\ metrics' = NoMetrics /\ sinceSeen' = HealthInterval
  /\ UNCHANGED <<lastError, working>>

HealthTick ==
  /\ sinceSeen < HealthInterval
  /\ sinceSeen' = sinceSeen + 1
  /\ UNCHANGED <<metrics, lastError, working>>

WorksFromNowOn ==
  /\ ~working
  /\ working' = TRUE
  /\ UNCHANGED <<metrics, lastError, sinceSeen>>

HealthNext == FrameArrives \/ ReadFails \/ LoopRestarts \/ HealthTick \/ WorksFromNowOn
=============================================================================
