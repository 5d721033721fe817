----------------------------- MODULE FrameSource -----------------------------
(***************************************************************************)
(* What the network sources of a camera have in common (vision/sources):   *)
(* the slot a producer keeps its newest frame in, the worker that reads    *)
(* it and closes the source, and the camera at the other end.  The sources *)
(* themselves are RtspSource, MjpegSource and SnapshotSource.              *)
(*                                                                         *)
(* Time passes in ticks; ages and waits are counted in them.               *)
(***************************************************************************)
EXTENDS Integers

CONSTANTS
  MaxAge,         \* DEFAULT_MAX_AGE_S, and MAX_FRAME_AGE_S of the MaixCam
  InitialBackoff, \* INITIAL_BACKOFF_S
  MaxBackoff,     \* MAX_BACKOFF_S
  IdleRetry,      \* IDLE_RETRY_S
  JoinTimeout,    \* timeout_s + 2
  ResyncLag,      \* RESYNC_LAG_S
  ReportEvery,    \* every_s of the lag tracker
  StartBacklog,   \* bound: how far behind a new session may begin
  MaxBehind,      \* bound: how far behind a picture may fall
  ReopenAfter     \* CAPTURE_FAILS_BEFORE_REOPEN

ASSUME SourceTimes ==
  /\ {MaxAge, IdleRetry, JoinTimeout, ResyncLag, StartBacklog, MaxBehind} \subseteq Nat
  /\ {InitialBackoff, MaxBackoff, ReportEvery, ReopenAfter} \subseteq Nat \ {0}
  /\ InitialBackoff <= MaxBackoff

VARIABLES
  kind,   \* source_type of the camera
  camera, \* what its address does, see Conditions
  latest, \* the newest frame: whether there is one, its age, how far behind live the
          \* scene in it was when it came, whether it decodes
  reader, \* the reader thread of a stream: where it is, backoff, time left to wait,
          \* whether its session produced a frame
  caller, \* the worker: where it is, the time it has waited for the thread, and
          \* whether it gave that wait up
  result  \* what read() returned last

shared == <<kind, camera, latest, reader, caller, result>>

\* Nothing answers; the port refuses; it answers, and there is no picture; it works,
\* now and then; it works, and frames arrive faster than they are made.
Conditions == {"down", "refusing", "frozen", "flaky", "good"}
Answering  == {"frozen", "flaky", "good"}
Filming    == {"flaky", "good"}

NoFrame == [there |-> FALSE, age |-> 0, behind |-> 0, decodes |-> TRUE]

\* A frame that has just come in.
Fresh(behind, decodes) == [there |-> TRUE, age |-> 0, behind |-> behind, decodes |-> decodes]

Aged(f) == IF f.there /\ f.age <= MaxAge THEN [f EXCEPT !.age = @ + 1] ELSE f

TooOld(f) == f.age > MaxAge

Doubled(b) == IF 2 * b > MaxBackoff THEN MaxBackoff ELSE 2 * b

SharedInit(place) ==
  /\ camera \in Conditions
  /\ latest = NoFrame
  /\ reader = [at |-> place, backoff |-> InitialBackoff, wait |-> 0, produced |-> FALSE]
  /\ caller = [at |-> "reading", waited |-> 0, gaveUp |-> FALSE]
  /\ result = "none"

Stopping == caller.at # "reading"

\* The camera or the way to it changes.
CameraChanges ==
  /\ \E c \in Conditions \ {camera} : camera' = c
  /\ UNCHANGED <<kind, latest, reader, caller, result>>

\* A frame of any age passes.
ReadableAtAnyAge == latest.there /\ latest.decodes

\* read() of the two streams: a copy out of the slot, taken under its lock.  A read in
\* a cancelled worker's thread may fall into close().
Readable == latest.there /\ ~TooOld(latest) /\ latest.decodes

ReadNewest ==
  /\ caller.at \in {"reading", "joining"}
  /\ result' = IF Readable THEN "ok" ELSE "failed"
  /\ UNCHANGED <<kind, camera, latest, reader, caller>>
=============================================================================
