------------------------------ MODULE RtspSource -----------------------------
(***************************************************************************)
(* vision/sources/rtsp_stream_source.py: one session, held open by a       *)
(* reader thread and rebuilt when the picture has fallen behind, which     *)
(* rtsp_stream_diagnostics.py measures.                                    *)
(***************************************************************************)
EXTENDS FrameSource

VARIABLES
  capture, \* self._capture: a session is open
  session  \* how far behind live its newest frame is, and what the tracker knows:
           \* whether it saw the first frame, how far behind that one was, the time
           \* since its last report

rtsp == <<capture, session>>
rtspVars == <<shared, rtsp>>

FirstFrame == [behind |-> 0, first |-> TRUE, base |-> 0, since |-> 0]

\* StreamLagTracker.reset: a new connection is a new timeline.
Reset == [behind |-> 0, first |-> FALSE, base |-> 0, since |-> 0]

\* note_frame on a frame whose scene is b behind live: both clocks run from the first
\* frame of the connection, so what it was behind is not seen.  A report is due when
\* ReportEvery has passed.
ReportIsDue == session.first /\ session.since >= ReportEvery
Lag(b) == b - session.base

Noted(b) ==
  IF ~session.first THEN [FirstFrame EXCEPT !.behind = b, !.base = b]
  ELSE [session EXCEPT !.behind = b, !.since = IF ReportIsDue THEN 0 ELSE @]

\* _behind.
MustResync(b) == ReportIsDue /\ Lag(b) > ResyncLag

RtspInit ==
  /\ SharedInit("probing")
  /\ capture = FALSE
  /\ session = Reset

\* The top of _run's loop, and the probe, which a thread asked to stop does not begin.
\* A backoff is doubled when the wait it stands for is over.
Probing(backoff) ==
  reader' = [reader EXCEPT !.at = IF Stopping THEN "ended" ELSE "probing",
                           !.backoff = backoff]

Waiting(time, doubles) ==
  reader' = [reader EXCEPT !.at = "waiting", !.wait = time,
                           !.backoff = IF doubles THEN Doubled(@) ELSE @]

\* probe: a port that refuses is tried again soon, an address that does not answer
\* after the backoff.
Probe ==
  /\ reader.at = "probing"
  /\ \/ camera \in Answering /\ reader' = [reader EXCEPT !.at = "opening"]
     \/ camera = "refusing" /\ Waiting(IdleRetry, FALSE)
     \/ camera = "down" /\ Waiting(reader.backoff, TRUE)
  /\ UNCHANGED <<kind, camera, latest, caller, result, rtsp>>

\* stop.wait.
WaitEnds ==
  /\ reader.at = "waiting"
  /\ reader.wait = 0 \/ Stopping
  /\ Probing(reader.backoff)
  /\ UNCHANGED <<kind, camera, latest, caller, result, rtsp>>

\* _open, and the beginning of _drain.
Open ==
  /\ reader.at = "opening"
  /\ \/ /\ camera \in Answering
        /\ capture' = TRUE
        /\ session' = Reset
        /\ reader' = [reader EXCEPT !.at = IF Stopping THEN "releasing" ELSE "reading",
                                    !.produced = FALSE]
     \/ /\ camera # "good"
        /\ reader' = [reader EXCEPT !.at = "describing", !.produced = FALSE]
        /\ UNCHANGED rtsp
  /\ UNCHANGED <<kind, camera, latest, caller, result>>

\* describe_failure: one more request, to say which failure it was.
Describe ==
  /\ reader.at = "describing"
  /\ reader' = [reader EXCEPT !.at = "releasing"]
  /\ UNCHANGED <<kind, camera, latest, caller, result, rtsp>>

\* capture.read gives a frame: it is stored, counted and measured.  Frames come in
\* order: what comes is later than the last one.
TakeFrame ==
  /\ reader.at = "reading"
  /\ capture
  /\ camera \in Filming
  /\ \E b \in 0..MaxBehind :
       /\ IF session.first THEN b < session.behind ELSE b <= StartBacklog
       /\ latest' = Fresh(b, TRUE)
       /\ session' = Noted(b)
       /\ reader' = [reader EXCEPT !.produced = TRUE,
                       !.at = IF MustResync(b) \/ Stopping THEN "releasing" ELSE @]
  /\ UNCHANGED <<kind, camera, caller, result, capture>>

\* capture.read gives none, or something in _drain raises: then it counts as a session
\* without frames.
SessionFails ==
  /\ reader.at = "reading"
  /\ camera # "good"
  /\ \E produced \in {FALSE, reader.produced} :
       reader' = [reader EXCEPT !.at = "releasing", !.produced = produced]
  /\ UNCHANGED <<kind, camera, latest, caller, result, rtsp>>

\* The finally of _run, and what follows it.
Release ==
  /\ reader.at = "releasing"
  /\ capture' = FALSE
  /\ IF reader.produced THEN Probing(InitialBackoff) ELSE Waiting(reader.backoff, TRUE)
  /\ UNCHANGED <<kind, camera, latest, caller, result, session>>

\* close(), and the join of the reader.
Close ==
  /\ caller.at = "reading"
  /\ caller' = [caller EXCEPT !.at = "joining"]
  /\ UNCHANGED <<kind, camera, latest, reader, result, rtsp>>

Joined ==
  /\ caller.at = "joining"
  /\ reader.at = "ended"
  /\ caller' = [caller EXCEPT !.at = "closed"]
  /\ capture' = FALSE
  /\ UNCHANGED <<kind, camera, latest, reader, result, session>>

\* The join gives up, and the capture is released all the same.
JoinTimesOutReleasing ==
  /\ caller.at = "joining"
  /\ reader.at # "ended"
  /\ caller.waited = JoinTimeout
  /\ caller' = [caller EXCEPT !.at = "closed"]
  /\ capture' = FALSE
  /\ UNCHANGED <<kind, camera, latest, reader, result, session>>

JoinTimesOut ==
  /\ caller.at = "joining"
  /\ reader.at # "ended"
  /\ caller.waited = JoinTimeout
  /\ caller' = [caller EXCEPT !.at = "closed", !.gaveUp = TRUE]
  /\ UNCHANGED <<kind, camera, latest, reader, result, rtsp>>

\* A reload that cannot build its new context closes the old one a second time
\* (camera_supervisor.py, _rebuild and run_camera): the thread is forgotten by now,
\* and a capture that is there is released.
CloseAgain ==
  /\ caller.at = "closed"
  /\ caller' = [caller EXCEPT !.at = "closed_again"]
  /\ capture' = FALSE
  /\ UNCHANGED <<kind, camera, latest, reader, result, session>>

\* A reader whose capture was released under it: what it does then is not defined.
ReaderIsTorn ==
  /\ reader.at = "reading"
  /\ ~capture
  /\ reader' = [reader EXCEPT !.at = "torn"]
  /\ UNCHANGED <<kind, camera, latest, caller, result, rtsp>>

\* On a good link nothing piles up: a frame is taken before the next one is made.
KeepsUp == camera = "good" /\ reader.at = "reading" => session.first /\ session.behind = 0

Older(s) == [s EXCEPT !.behind = IF s.first /\ @ < MaxBehind THEN @ + 1 ELSE @,
                      !.since = IF s.first /\ @ < ReportEvery THEN @ + 1 ELSE @]

RtspTick ==
  /\ KeepsUp
  /\ latest' = Aged(latest)
  /\ session' = Older(session)
  /\ reader' = [reader EXCEPT !.wait = IF @ > 0 THEN @ - 1 ELSE 0]
  /\ caller' = [caller EXCEPT !.waited = IF caller.at = "joining" /\ @ < JoinTimeout
                                         THEN @ + 1 ELSE @]
  /\ UNCHANGED <<kind, camera, result, capture>>

RtspReader ==
  Probe \/ WaitEnds \/ Open \/ Describe \/ TakeFrame \/ SessionFails \/ Release
  \/ ReaderIsTorn

RtspNext ==
  \/ RtspReader
  \/ Close \/ Joined \/ JoinTimesOut \/ CloseAgain
  \/ RtspTick
  \/ (CameraChanges \/ ReadNewest) /\ UNCHANGED rtsp
=============================================================================
