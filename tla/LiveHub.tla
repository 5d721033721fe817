------------------------------ MODULE LiveHub -------------------------------
(***************************************************************************)
(* The live view of one camera: its loop publishes frames to the hub       *)
(* (workers/frame_publisher.py, realtime/broadcast_hub.py), every viewer   *)
(* has an endpoint (ws_routes.py) with a queue of one frame and three jobs *)
(* (subscriber.py, ws_control.py, ws_heartbeat.py), and the camera may be  *)
(* deleted by a request thread (services/camera_service.py).               *)
(*                                                                         *)
(* Loop and endpoints are coroutines: one runs at a time, up to its next   *)
(* await.  The request thread runs beside them, also in the middle of a    *)
(* publication: that is why a publication is three steps here.             *)
(***************************************************************************)
EXTENDS Naturals, FiniteSets

CONSTANTS
  Viewers,     \* clients that may connect
  MaxViewers,  \* ws_max_viewers_per_camera (with one camera, the total as well)
  MaxPublished \* bound: frames of the camera

ASSUME HubBoundsAreNat == MaxViewers \in Nat /\ MaxPublished \in Nat

VARIABLES
  row,       \* the camera's row: "enabled", or "deleted"
  deletion,  \* the deleting request: "none", "committed", "still_dropped", "done"
  publisher, \* the camera loop: "idle", "encoding", "offering", "stopped"
  frame,     \* the number of the camera's newest frame
  still,     \* hub._last_message: [frame, fresh], frame 0 when there is none
  members,   \* hub._subscribers of the camera
  endpoint,  \* per viewer, where its endpoint is
  present,   \* per viewer, whether the client is still there
  jobs,      \* per viewer, the jobs of _run_connection that have not finished
  queue,     \* per viewer, the subscriber's queue: a frame, or 0 when empty
  hand,      \* per viewer, the frame last taken to be sent
  got,       \* per viewer, the frame last sent
  offered    \* history: per viewer, the newest frame the hub had for it

camera  == <<row, deletion, publisher, frame>>
hub     == <<still, members>>
stream  == <<queue, hand, got, offered>>
hubVars == <<camera, hub, endpoint, present, jobs, stream>>

AllJobs == {"sender", "receiver", "pinger"}

NoStill == [frame |-> 0, fresh |-> FALSE]

\* No coroutine is between two awaits.
LoopIsFree == publisher \in {"idle", "stopped"}

-----------------------------------------------------------------------------
(* The camera loop: publish_frame and BroadcastHub.publish. *)

\* Nobody watches, or this context has no detection yet to describe a frame with:
\* the frame goes nowhere.
SkipFrame ==
  /\ publisher = "idle"
  /\ frame < MaxPublished
  /\ frame' = frame + 1
  /\ UNCHANGED <<row, deletion, publisher, hub, endpoint, present, jobs, stream>>

EncodeFrame ==
  /\ publisher = "idle"
  /\ members # {}
  /\ frame < MaxPublished
  /\ frame' = frame + 1
  /\ publisher' = "encoding"
  /\ UNCHANGED <<row, deletion, hub, endpoint, present, jobs, stream>>

KeepStill ==
  /\ publisher = "encoding"
  /\ still' = [frame |-> frame, fresh |-> TRUE]
  /\ publisher' = "offering"
  /\ UNCHANGED <<row, deletion, frame, members, endpoint, present, jobs, stream>>

\* A full queue keeps what it has.
QueueKeepingOldest(v) == IF queue[v] = 0 THEN frame ELSE queue[v]

\* Subscriber.offer: the frame in the queue gives way to the newer one.
QueueAfterOffer(v) == frame

Offer ==
  /\ publisher = "offering"
  /\ queue' = [v \in Viewers |-> IF v \in members THEN QueueAfterOffer(v) ELSE queue[v]]
  /\ offered' = [v \in Viewers |-> IF v \in members THEN frame ELSE offered[v]]
  /\ publisher' = "idle"
  /\ UNCHANGED <<row, deletion, frame, hub, endpoint, present, jobs, hand, got>>

\* ws_first_frame_max_age_s after it was published.
StillAges ==
  /\ still.fresh
  /\ still' = [still EXCEPT !.fresh = FALSE]
  /\ UNCHANGED <<camera, members, endpoint, present, jobs, stream>>

-----------------------------------------------------------------------------
(* The deletion of the camera: delete_camera in a request thread, and then the  *)
(* supervisor, which stops the loop.                                           *)

DeleteCommits ==
  /\ row = "enabled"
  /\ row' = "deleted"
  /\ deletion' = "committed"
  /\ UNCHANGED <<publisher, frame, hub, endpoint, present, jobs, stream>>

\* BroadcastHub.forget removes the still and then the viewers.
ForgetStill ==
  /\ deletion = "committed"
  /\ still' = NoStill
  /\ deletion' = "still_dropped"
  /\ UNCHANGED <<row, publisher, frame, members, endpoint, present, jobs, stream>>

ForgetViewers ==
  /\ deletion = "still_dropped"
  /\ members' = {}
  /\ deletion' = "done"
  /\ UNCHANGED <<row, publisher, frame, still, endpoint, present, jobs, stream>>

LoopStops ==
  /\ row = "deleted"
  /\ publisher = "idle"
  /\ publisher' = "stopped"
  /\ UNCHANGED <<row, deletion, frame, hub, endpoint, present, jobs, stream>>

-----------------------------------------------------------------------------
(* A viewer's endpoint: camera_stream. *)

\* The socket is accepted before anything is known of the client.
Accept(v) ==
  /\ LoopIsFree
  /\ endpoint[v] = "away"
  /\ endpoint' = [endpoint EXCEPT ![v] = "accepted"]
  /\ present' = [present EXCEPT ![v] = TRUE]
  /\ UNCHANGED <<camera, hub, jobs, stream>>

\* authenticate_connection closes: no message before the deadline, the client went,
\* the message is no credential, the token is not valid or the role too low.
AuthenticationFails(v) ==
  /\ LoopIsFree
  /\ endpoint[v] = "accepted"
  /\ endpoint' = [endpoint EXCEPT ![v] = "away"]
  /\ present' = [present EXCEPT ![v] = FALSE]
  /\ UNCHANGED <<camera, hub, jobs, stream>>

\* _resolve_viewer, in a thread: the token passes.
Authenticated(v) ==
  /\ endpoint[v] = "accepted"
  /\ endpoint' = [endpoint EXCEPT ![v] = "known"]
  /\ UNCHANGED <<camera, hub, present, jobs, stream>>

\* _camera_is_streamable, in a thread: the row is there or the endpoint ends.
AskCamera(v) ==
  /\ endpoint[v] = "known"
  /\ IF row = "enabled"
     THEN endpoint' = [endpoint EXCEPT ![v] = "checked"] /\ UNCHANGED present
     ELSE /\ endpoint' = [endpoint EXCEPT ![v] = "away"]
          /\ present' = [present EXCEPT ![v] = FALSE]
  /\ UNCHANGED <<camera, hub, jobs, stream>>

Refuse(v) ==
  /\ LoopIsFree
  /\ endpoint[v] = "checked"
  /\ Cardinality(members) >= MaxViewers
  /\ endpoint' = [endpoint EXCEPT ![v] = "away"]
  /\ present' = [present EXCEPT ![v] = FALSE]
  /\ UNCHANGED <<camera, hub, jobs, stream>>

\* The cap is not reached: the endpoint starts to send auth_ok.
Admit(v) ==
  /\ LoopIsFree
  /\ endpoint[v] = "checked"
  /\ Cardinality(members) < MaxViewers
  /\ endpoint' = [endpoint EXCEPT ![v] = "greeting"]
  /\ UNCHANGED <<camera, hub, present, jobs, stream>>

\* Sending auth_ok failed: the endpoint ends before it subscribes.
GreetingFails(v) ==
  /\ LoopIsFree
  /\ endpoint[v] = "greeting"
  /\ ~present[v]
  /\ endpoint' = [endpoint EXCEPT ![v] = "away"]
  /\ UNCHANGED <<camera, hub, present, jobs, stream>>

\* auth_ok is sent: subscribe, and send the cached still if it is fresh enough.
Subscribe(v) ==
  /\ LoopIsFree
  /\ endpoint[v] = "greeting"
  /\ members' = members \cup {v}
  /\ IF still.fresh
     THEN /\ endpoint' = [endpoint EXCEPT ![v] = "still"]
          /\ hand' = [hand EXCEPT ![v] = still.frame]
          /\ offered' = [offered EXCEPT ![v] = still.frame]
          /\ UNCHANGED jobs
     ELSE /\ endpoint' = [endpoint EXCEPT ![v] = "streaming"]
          /\ jobs' = [jobs EXCEPT ![v] = AllJobs]
          /\ UNCHANGED <<hand, offered>>
  /\ UNCHANGED <<camera, still, present, queue, got>>

\* The still is looked up when it is sent, not when the viewer subscribes.
NewestStillSent(v) ==
  /\ LoopIsFree
  /\ endpoint[v] = "still"
  /\ got' = [got EXCEPT ![v] = still.frame]
  /\ hand' = [hand EXCEPT ![v] = still.frame]
  /\ endpoint' = [endpoint EXCEPT ![v] = "streaming"]
  /\ jobs' = [jobs EXCEPT ![v] = AllJobs]
  /\ UNCHANGED <<camera, hub, present, queue, offered>>

\* The still is sent: _run_connection starts the three jobs.
StillSent(v) ==
  /\ LoopIsFree
  /\ endpoint[v] = "still"
  /\ got' = [got EXCEPT ![v] = hand[v]]
  /\ endpoint' = [endpoint EXCEPT ![v] = "streaming"]
  /\ jobs' = [jobs EXCEPT ![v] = AllJobs]
  /\ UNCHANGED <<camera, hub, present, queue, hand, offered>>

\* Sending it raises: straight to the finally clause.
StillFails(v) ==
  /\ LoopIsFree
  /\ endpoint[v] = "still"
  /\ ~present[v]
  /\ endpoint' = [endpoint EXCEPT ![v] = "ending"]
  /\ UNCHANGED <<camera, hub, present, jobs, stream>>

-----------------------------------------------------------------------------
(* The three jobs of a connection. *)

Runs(v, job) == LoopIsFree /\ endpoint[v] = "streaming" /\ job \in jobs[v]

Finishes(v, job) == jobs' = [jobs EXCEPT ![v] = @ \ {job}]

\* Subscriber._send_forever
Collect(v) ==
  /\ Runs(v, "sender")
  /\ hand[v] = got[v]
  /\ queue[v] # 0
  /\ hand' = [hand EXCEPT ![v] = queue[v]]
  /\ queue' = [queue EXCEPT ![v] = 0]
  /\ UNCHANGED <<camera, hub, endpoint, present, jobs, got, offered>>

\* A send to a client that is gone may still be taken by the socket's buffer.
FrameSent(v) ==
  /\ Runs(v, "sender")
  /\ hand[v] # got[v]
  /\ got' = [got EXCEPT ![v] = hand[v]]
  /\ UNCHANGED <<camera, hub, endpoint, present, jobs, queue, hand, offered>>

SenderFails(v) ==
  /\ Runs(v, "sender")
  /\ hand[v] # got[v]
  /\ ~present[v]
  /\ Finishes(v, "sender")
  /\ UNCHANGED <<camera, hub, endpoint, present, stream>>

\* read_control_messages: the client closed, or the transport found it gone.
ReceiverEnds(v) ==
  /\ Runs(v, "receiver")
  /\ ~present[v]
  /\ Finishes(v, "receiver")
  /\ UNCHANGED <<camera, hub, endpoint, present, stream>>

\* Heartbeat.run: the token ran out, or pings were not answered in time.
PingerEnds(v) ==
  /\ Runs(v, "pinger")
  /\ Finishes(v, "pinger")
  /\ UNCHANGED <<camera, hub, endpoint, present, stream>>

\* gather instead of wait(FIRST_COMPLETED)
EveryJobIsDone(v) == jobs[v] = {}

SomeJobIsDone(v) == jobs[v] # AllJobs

\* The rest of the jobs are cancelled.
ConnectionEnds(v) ==
  /\ LoopIsFree
  /\ endpoint[v] = "streaming"
  /\ SomeJobIsDone(v)
  /\ endpoint' = [endpoint EXCEPT ![v] = "ending"]
  /\ jobs' = [jobs EXCEPT ![v] = {}]
  /\ UNCHANGED <<camera, hub, present, stream>>

\* The endpoint goes without a word to the hub.
LeaveSubscribed(v) ==
  /\ LoopIsFree
  /\ endpoint[v] = "ending"
  /\ endpoint' = [endpoint EXCEPT ![v] = "away"]
  /\ present' = [present EXCEPT ![v] = FALSE]
  /\ queue' = [queue EXCEPT ![v] = 0]
  /\ hand' = [hand EXCEPT ![v] = 0]
  /\ got' = [got EXCEPT ![v] = 0]
  /\ offered' = [offered EXCEPT ![v] = 0]
  /\ UNCHANGED <<camera, hub, jobs>>

\* The finally clause: unsubscribe, stop_sender, close.  The Subscriber and its
\* queue go with the endpoint.
Leave(v) ==
  /\ LoopIsFree
  /\ endpoint[v] = "ending"
  /\ members' = members \ {v}
  /\ endpoint' = [endpoint EXCEPT ![v] = "away"]
  /\ present' = [present EXCEPT ![v] = FALSE]
  /\ queue' = [queue EXCEPT ![v] = 0]
  /\ hand' = [hand EXCEPT ![v] = 0]
  /\ got' = [got EXCEPT ![v] = 0]
  /\ offered' = [offered EXCEPT ![v] = 0]
  /\ UNCHANGED <<camera, still, jobs>>

\* The browser tab is closed, or the client drops off the network.
ClientGoes(v) ==
  /\ present[v]
  /\ present' = [present EXCEPT ![v] = FALSE]
  /\ UNCHANGED <<camera, hub, endpoint, jobs, stream>>

-----------------------------------------------------------------------------
HubInit ==
  /\ row = "enabled"
  /\ deletion = "none"
  /\ publisher = "idle"
  /\ frame = 0
  /\ still = NoStill
  /\ members = {}
  /\ endpoint = [v \in Viewers |-> "away"]
  /\ present = [v \in Viewers |-> FALSE]
  /\ jobs = [v \in Viewers |-> {}]
  /\ queue = [v \in Viewers |-> 0]
  /\ hand = [v \in Viewers |-> 0]
  /\ got = [v \in Viewers |-> 0]
  /\ offered = [v \in Viewers |-> 0]

Publish == SkipFrame \/ EncodeFrame \/ KeepStill \/ Offer

Delete == DeleteCommits \/ ForgetStill \/ ForgetViewers \/ LoopStops

Join(v) == Accept(v) \/ AuthenticationFails(v) \/ Authenticated(v) \/ AskCamera(v)
           \/ Refuse(v) \/ Admit(v) \/ GreetingFails(v) \/ Subscribe(v)
           \/ StillSent(v) \/ StillFails(v)

Stream(v) == Collect(v) \/ FrameSent(v) \/ SenderFails(v) \/ ReceiverEnds(v) \/ PingerEnds(v)

Part(v) == ConnectionEnds(v) \/ Leave(v) \/ ClientGoes(v)

HubNext ==
  \/ Publish \/ Delete \/ StillAges
  \/ \E v \in Viewers : Join(v) \/ Stream(v) \/ Part(v)

HubSpec == HubInit /\ [][HubNext]_hubVars

\* Coroutines that can go on do; a client that is there takes what is sent to it;
\* the transport notices in the end that a client is gone (its own keep-alive), and a
\* client that says nothing is closed at the deadline of authenticate_connection.
\* Nothing is assumed of frames, deletions and new viewers.
Fairness ==
  /\ WF_hubVars(KeepStill \/ Offer)
  /\ \A v \in Viewers :
       /\ WF_hubVars(AuthenticationFails(v) \/ Authenticated(v) \/ AskCamera(v))
       /\ WF_hubVars(Refuse(v) \/ Admit(v) \/ GreetingFails(v) \/ Subscribe(v))
       /\ WF_hubVars(StillSent(v) /\ present[v]) /\ WF_hubVars(StillFails(v))
       /\ WF_hubVars(Collect(v)) /\ WF_hubVars(FrameSent(v) /\ present[v])
       /\ WF_hubVars(ReceiverEnds(v))
       /\ WF_hubVars(ConnectionEnds(v) \/ Leave(v))

FairSpec == HubSpec /\ Fairness

-----------------------------------------------------------------------------
(* Properties *)

Frames == 0..MaxPublished

TypeOK ==
  /\ row \in {"enabled", "deleted"}
  /\ deletion \in {"none", "committed", "still_dropped", "done"}
  /\ publisher \in {"idle", "encoding", "offering", "stopped"}
  /\ frame \in Frames
  /\ still \in [frame : Frames, fresh : BOOLEAN]
  /\ members \in SUBSET Viewers
  /\ endpoint \in [Viewers -> {"away", "accepted", "known", "checked", "greeting", "still",
                             "streaming", "ending"}]
  /\ present \in [Viewers -> BOOLEAN]
  /\ jobs \in [Viewers -> SUBSET AllJobs]
  /\ queue \in [Viewers -> Frames]
  /\ hand \in [Viewers -> Frames]
  /\ got \in [Viewers -> Frames]
  /\ offered \in [Viewers -> Frames]

Outside == {"away", "accepted", "known", "checked", "greeting"}

\* Before it subscribes, and after it has left, nothing is kept for a viewer.
NothingOutside ==
  \A v \in Viewers : endpoint[v] \in Outside =>
    queue[v] = 0 /\ hand[v] = 0 /\ got[v] = 0 /\ offered[v] = 0

\* The still being sent is the first thing its viewer gets.
StillComesFirst == \A v \in Viewers : endpoint[v] = "still" => got[v] = 0 /\ hand[v] > 0

\* What waits in the queue is the newest frame offered, and it waits whenever the
\* sender has not taken it.
QueueHoldsNewest ==
  \A v \in Viewers : /\ got[v] <= hand[v]
                     /\ hand[v] <= offered[v]
                     /\ queue[v] = IF hand[v] = offered[v] THEN 0 ELSE offered[v]

\* A frame is newer than everything before it until it is offered.
FramesAreNew ==
  /\ \A v \in Viewers : offered[v] <= frame
  /\ publisher \in {"encoding", "offering"} =>
       frame > 0 /\ \A v \in Viewers : offered[v] < frame
  /\ still.frame <= frame
  /\ still.fresh => still.frame > 0

\* Between a publication and a send no frame is out of its place: the newest frame a
\* viewer was offered is in its queue or in its sender's hand, and nothing else is
\* (Subscriber.offer, Subscriber._send_forever, the still of camera_stream).
FramesAreInPlace == NothingOutside /\ StillComesFirst /\ QueueHoldsNewest /\ FramesAreNew

Feed(v) == INSTANCE LatestWins WITH newest <- offered[v], held <- hand[v], shown <- got[v]

\* Every viewer is served by the rule of LatestWins: what its sender collects is the
\* newest frame published for it, the cached still comes before every frame of the
\* queue, and the picture never goes back (Subscriber.offer, camera_stream).
ViewersGetTheLatest ==
  /\ \A v \in Viewers : Feed(v)!Init
  /\ [][\A v \in Viewers : [Feed(v)!Next]_(Feed(v)!vars)]_hubVars

\* The hub publishes only to endpoints that are running: no viewer is left behind
\* in the set when its endpoint has gone, whichever way it went (camera_stream's
\* finally clause).
MembersAreConnected ==
  \A v \in members : endpoint[v] \in {"still", "streaming", "ending"}

\* A viewer that has gone is taken out of the hub in the end, even when no frame
\* comes that would fail to reach it (_run_connection waits for the first job that
\* finishes, not for all of them).
GoneViewersLeave ==
  \A v \in Viewers : [](v \in members /\ ~present[v] => <>(v \notin members \/ present[v]))

\* A viewer that stays sees the newest frame published for it in the end.
PatientViewersCatchUp ==
  \A v \in Viewers : <>[](endpoint[v] = "streaming" /\ jobs[v] = AllJobs /\ present[v])
                       => <>[](got[v] = offered[v])
=============================================================================
