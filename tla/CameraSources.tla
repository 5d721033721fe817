---------------------------- MODULE CameraSources ----------------------------
(***************************************************************************)
(* The source of one camera, of whichever kind source_factory.py builds    *)
(* for its source_type.                                                    *)
(***************************************************************************)
EXTENDS RtspSource, MjpegSource, SnapshotSource

CONSTANT
  Kinds \* the source_types to look at

ASSUME KindsAreSources == Kinds \subseteq {"rtsp", "esp32cam_stream", "esp32cam_http"}

sourceVars == <<shared, rtsp, buffer, device, reply>>

\* What belongs to the kinds of source this camera is not.
NotRtsp     == capture = FALSE /\ session = Reset
NotMjpeg    == buffer = 0
NotSnapshot ==
  /\ device = [at |-> "opening", failures |-> 0, encoder |-> FALSE]
  /\ reply = "none"

\* build_source.
SourcesInit ==
  /\ kind \in Kinds
  /\ \/ kind = "rtsp" /\ RtspInit /\ NotMjpeg /\ NotSnapshot
     \/ kind = "esp32cam_stream" /\ MjpegInit /\ NotRtsp /\ NotSnapshot
     \/ kind = "esp32cam_http" /\ SnapshotInit /\ NotRtsp /\ NotMjpeg

Rtsp(action) == kind = "rtsp" /\ action /\ UNCHANGED <<buffer, device, reply>>
Mjpeg(action) == kind = "esp32cam_stream" /\ action /\ UNCHANGED <<rtsp, device, reply>>
Snapshot(action) == kind = "esp32cam_http" /\ action /\ UNCHANGED <<rtsp, buffer>>

SourcesNext == Rtsp(RtspNext) \/ Mjpeg(MjpegNext) \/ Snapshot(SnapshotNext)

-----------------------------------------------------------------------------
(* Properties; the liveness is under the fairness of CameraNode *)

\* The join keeps the reader safe: its capture is taken from it only by a second
\* close(), and only when the join of the first one was given up.
JoinProtectsReader ==
  kind = "rtsp" /\ (reader.at = "torn" \/ (reader.at = "reading" /\ ~capture)) =>
    caller.at = "closed_again" /\ caller.gaveUp

\* A session that goes on is never far behind: the newest frame is behind live by no
\* more than the threshold, what the session began with, and what can pass between
\* two reports.  One frame that is further behind is shown, and ends its session.
PictureKeepsUp ==
  kind = "rtsp" /\ reader.at = "reading" /\ session.first =>
    latest.behind <= ResyncLag + StartBacklog + ReportEvery - 1

WatchesOne(condition) == camera = condition /\ caller.at = "reading"

\* A camera that has gone, or has frozen, stops looking alive: whatever is in the slot,
\* read() fails in the end and goes on failing (read of the three sources, do_GET).
DeadCameraShows ==
  \A dead \in Conditions \ Filming : <>[]WatchesOne(dead) => <>[](result = "failed")

Alive ==
  /\ result = "ok"
  /\ latest.age <= 1
  /\ kind \in {"rtsp", "esp32cam_stream"} => reader.at = "reading"
  /\ kind = "rtsp" => session.behind <= 1

\* A camera that works again is seen again, whatever has happened before: a stream
\* settles in one session that keeps up.  The one thing that does not heal by itself
\* is a snapshot server whose first frame was bad (ChooseEncoder).
Recovers ==
  <>[](WatchesOne("good") /\ (device.at = "dead" => device.encoder)) => <>[]Alive

\* What read() says of the camera is true: a picture that is shown keeps up with the scene,
\* one that has stopped is not taken for a live one, and one that is live again is seen
\* again (StreamLagTracker, _behind, read of the three sources, do_GET).
ReadTellsTheTruth == []PictureKeepsUp /\ DeadCameraShows /\ Recovers
=============================================================================
