---------------------------- MODULE SnapshotSource ---------------------------
(***************************************************************************)
(* A camera that is asked for one still at a time: the program of the      *)
(* MaixCam (deploy/maixcam/http_snapshot_main.py) with its capture thread  *)
(* and its HTTP handler, and the source that polls it                      *)
(* (vision/sources/esp32cam_http_source.py).                               *)
(***************************************************************************)
EXTENDS FrameSource

VARIABLES
  device, \* the capture thread: where it is ("dead": it has left its reason in _fatal,
          \* for the 503), capture failures in a row, whether it has an encoder
  reply   \* the request under way: "none", "asked", "200", "503"

snapshotVars == <<shared, device, reply>>

SnapshotInit ==
  /\ SharedInit("none")
  /\ device = [at |-> "opening", failures |-> 0, encoder |-> FALSE]
  /\ reply = "none"

-----------------------------------------------------------------------------
(* The capture thread. *)

\* open_camera blocks until the sensor is there.
OpenCamera ==
  /\ device.at = "opening"
  /\ camera # "frozen"
  /\ device' = [device EXCEPT !.at = "locking", !.failures = 0]
  /\ UNCHANGED <<shared, reply>>

\* lock_exposure takes frames and publishes none of them, for a bounded time; whatever
\* it raises is swallowed.  The first time the encoder is chosen next.
LockExposure ==
  /\ device.at = "locking"
  /\ device' = [device EXCEPT !.at = IF device.encoder THEN "capturing" ELSE "choosing"]
  /\ UNCHANGED <<shared, reply>>

\* choose_encoder on the first frame: a read that raises, or a frame that no path turns
\* into a JPEG, ends the thread and leaves the reason.
ChooseEncoder ==
  /\ device.at = "choosing"
  /\ \/ /\ camera # "frozen"
        /\ device' = [device EXCEPT !.at = "capturing", !.encoder = TRUE]
     \/ /\ camera \in {"frozen", "flaky"}
        /\ device' = [device EXCEPT !.at = "dead"]
  /\ UNCHANGED <<shared, reply>>

Capture ==
  /\ device.at = "capturing"
  /\ camera # "frozen"
  /\ latest' = Fresh(0, TRUE)
  /\ device' = [device EXCEPT !.failures = 0]
  /\ UNCHANGED <<kind, camera, reader, caller, result, reply>>

\* The handle is kept, however often it has failed.
CaptureFailsForGood ==
  /\ device.at = "capturing"
  /\ camera \in {"frozen", "flaky"}
  /\ device' = [device EXCEPT !.at = "dead"]
  /\ UNCHANGED <<shared, reply>>

\* A capture that fails is counted; after enough of them the camera is opened again.
CaptureFails ==
  /\ device.at = "capturing"
  /\ camera \in {"frozen", "flaky"}
  /\ device' = [device EXCEPT !.failures = @ + 1,
                  !.at = IF device.failures + 1 >= ReopenAfter THEN "opening" ELSE @]
  /\ UNCHANGED <<shared, reply>>

-----------------------------------------------------------------------------
(* A request, and the worker's read(). *)

\* client.get, when the address answers.
Ask ==
  /\ caller.at = "reading"
  /\ reply = "none"
  /\ camera \in Answering
  /\ reply' = "asked"
  /\ UNCHANGED <<shared, device>>

\* do_GET without its guard on the age.
AnswerWithAnything ==
  /\ reply = "asked"
  /\ reply' = IF latest.there THEN "200" ELSE "503"
  /\ UNCHANGED <<shared, device>>

\* do_GET: the slot is copied under its lock; a frame that is too old is no answer.
Answer ==
  /\ reply = "asked"
  /\ reply' = IF latest.there /\ ~TooOld(latest) THEN "200" ELSE "503"
  /\ UNCHANGED <<shared, device>>

\* raise_for_status, the size of the body and its decoding: on a bad link the body may
\* be cut short.
Receive ==
  /\ reply \in {"200", "503"}
  /\ \E whole \in {TRUE, camera = "good"} :
       result' = IF reply = "200" /\ whole THEN "ok" ELSE "failed"
  /\ reply' = "none"
  /\ UNCHANGED <<kind, camera, latest, reader, caller, device>>

\* No connection, no answer in time, or a connection that breaks.
GetFails ==
  /\ caller.at = "reading"
  /\ camera # "good"
  /\ reply # "none" \/ camera \notin Answering
  /\ result' = "failed"
  /\ reply' = "none"
  /\ UNCHANGED <<kind, camera, latest, reader, caller, device>>

CloseClient ==
  /\ caller.at = "reading"
  /\ caller' = [caller EXCEPT !.at = "closed"]
  /\ reply' = "none"
  /\ UNCHANGED <<kind, camera, latest, reader, result, device>>

\* A sensor that works gives a frame before the newest one is a tick old.
SensorRuns ==
  camera = "good" /\ device.at = "capturing" => latest.there /\ latest.age = 0

SnapshotTick ==
  /\ SensorRuns
  /\ latest' = Aged(latest)
  /\ UNCHANGED <<kind, camera, reader, caller, result, device, reply>>

DeviceThread == OpenCamera \/ LockExposure \/ ChooseEncoder \/ Capture \/ CaptureFails
Exchange     == Ask \/ Answer \/ Receive \/ GetFails

SnapshotNext ==
  \/ DeviceThread \/ Exchange
  \/ CloseClient
  \/ SnapshotTick
  \/ CameraChanges /\ UNCHANGED <<device, reply>>
=============================================================================
