----------------------------- MODULE MjpegSource -----------------------------
(***************************************************************************)
(* vision/sources/esp32cam_stream_source.py: an MJPEG connection drained   *)
(* by a thread that keeps the newest whole JPEG; read() decodes it.        *)
(***************************************************************************)
EXTENDS FrameSource

CONSTANT
  BufferLimit \* chunks in 2 * MAX_BODY_BYTES

ASSUME BufferIsBounded == BufferLimit \in Nat

VARIABLE
  buffer \* chunks in the buffer that end in no whole JPEG

mjpegVars == <<shared, buffer>>

MjpegInit ==
  /\ SharedInit("connecting")
  /\ buffer = 0

\* The top of _run's loop.
Connecting(backoff) ==
  /\ reader' = [reader EXCEPT !.at = IF Stopping THEN "ended" ELSE "connecting",
                              !.backoff = backoff]
  /\ buffer' = 0

\* _run's handler: whatever went wrong is followed by the backoff.
BacksOff ==
  /\ reader' = [reader EXCEPT !.at = "waiting", !.wait = reader.backoff,
                              !.backoff = Doubled(@)]
  /\ buffer' = 0

Connect ==
  /\ reader.at = "connecting"
  /\ \/ camera \in Answering /\ reader' = [reader EXCEPT !.at = "reading"] /\ buffer' = 0
     \/ camera # "good" /\ BacksOff
  /\ UNCHANGED <<kind, camera, latest, caller, result>>

\* A chunk comes: the newest whole JPEG in it is kept, and what follows that one stays
\* in the buffer; without one the buffer grows, up to its limit, and a JPEG of no
\* plausible size is dropped.  A thread asked to stop looks at nothing any more.
Chunk ==
  /\ reader.at = "reading"
  /\ camera \in Filming
  /\ ~Stopping
  /\ \/ /\ \E decodes \in {TRUE, camera = "good"} : latest' = Fresh(0, decodes)
        /\ buffer' = 0
     \/ /\ buffer' \in {0, IF buffer = BufferLimit THEN 0 ELSE buffer + 1}
        /\ camera # "good"
        /\ UNCHANGED latest
  /\ UNCHANGED <<kind, camera, reader, caller, result>>

\* A chunk that finds stop set, or the end of the stream: _consume_stream returns, and
\* there is no wait before the next connection.
StreamEnds ==
  /\ reader.at = "reading"
  /\ Stopping \/ camera # "good"
  /\ Connecting(InitialBackoff)
  /\ UNCHANGED <<kind, camera, latest, caller, result>>

\* The read timeout, or a connection that breaks.
StreamBreaks ==
  /\ reader.at = "reading"
  /\ camera # "good"
  /\ BacksOff
  /\ UNCHANGED <<kind, camera, latest, caller, result>>

BackoffEnds ==
  /\ reader.at = "waiting"
  /\ reader.wait = 0 \/ Stopping
  /\ Connecting(reader.backoff)
  /\ UNCHANGED <<kind, camera, latest, caller, result>>

\* close() does not wait for the thread.
CloseStream ==
  /\ caller.at = "reading"
  /\ caller' = [caller EXCEPT !.at = "closed"]
  /\ UNCHANGED <<kind, camera, latest, reader, result, buffer>>

\* On a good link a frame comes before the newest one is a tick old.
StreamFlows ==
  camera = "good" /\ reader.at = "reading" => latest.there /\ latest.age = 0 /\ latest.decodes

MjpegTick ==
  /\ StreamFlows
  /\ latest' = Aged(latest)
  /\ reader' = [reader EXCEPT !.wait = IF @ > 0 THEN @ - 1 ELSE 0]
  /\ UNCHANGED <<kind, camera, caller, result, buffer>>

MjpegReader == Connect \/ Chunk \/ StreamEnds \/ StreamBreaks \/ BackoffEnds

MjpegNext ==
  \/ MjpegReader
  \/ CloseStream
  \/ MjpegTick
  \/ (CameraChanges \/ ReadNewest) /\ UNCHANGED buffer
=============================================================================
