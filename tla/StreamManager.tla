---------------------------- MODULE StreamManager -----------------------------
(***************************************************************************)
(* The live view's WebSocket in the browser: CameraStreamManager           *)
(* (frontend features/live/camera-stream-manager.ts,                       *)
(* stream-close-policy.ts, reconnect-backoff.ts, use-camera-stream.ts).    *)
(*                                                                         *)
(* A handler of a socket compares the generation it captured with the      *)
(* current one.  Only the socket in this.socket can match, and pause() and *)
(* dispose() let go of it, so a socket here is this.socket or a stray: one *)
(* that was replaced without being closed, whose messages are dropped.     *)
(* The length of the backoff is a wait of any length.                      *)
(***************************************************************************)
EXTENDS Naturals

CONSTANTS
  MaxWaits, \* closes that may await a refresh at a time
  MaxTimers \* reconnects that may be scheduled at a time

ASSUME {MaxWaits, MaxTimers} \subseteq Nat \ {0}

VARIABLES
  tab,      \* document.visibilityState
  server,   \* "up", "down", or "refusing": a policy close, or too many viewers
  token,    \* the access token: "good" or "stale"
  session,  \* a refresh will succeed
  socket,   \* this.socket: "none", "opening", "asking" (open), "streaming", "closed"
  stray,    \* sockets that were replaced: a subset of {"opening", "open"}
  status,   \* StreamStatus
  error,    \* an error is shown, with a button to try again
  paused,   \* pausedForVisibility
  waits,    \* [n, late]: calls of handleClose that await the refresh; whether connect()
            \* has run since
  timer,    \* [n, held]: reconnects that will fire; whether reconnectTimer is one of them
  overtook, \* history: a refresh ended after the tab, a timer or the user had reconnected
  calm      \* history: from now on server, session and tab are well, and stay so

streamVars == <<tab, server, token, session, socket, stray, status, error, paused, waits,
                timer, overtook, calm>>
world == <<tab, server, token, session, calm>>

NoWaits == [n |-> 0, late |-> FALSE]
NoTimer == [n |-> 0, held |-> FALSE]

IsOpen == socket \in {"opening", "asking", "streaming"}

-----------------------------------------------------------------------------
(* connect, pause and what they leave behind *)

\* connect() replaces this.socket, whatever that is doing.
Replaced == CASE socket = "opening" -> {"opening"}
              [] socket \in {"asking", "streaming"} -> {"open"}
              [] OTHER -> {}

Connect(times) ==
  /\ socket' = "opening"
  /\ stray' = stray \cup Replaced \cup IF times > 1 THEN {"opening"} ELSE {}
  /\ status' = "connecting" /\ error' = FALSE /\ paused' = FALSE

Overtakes == [waits EXCEPT !.late = waits.n > 0]

TimerKept == timer

\* clearReconnectTimer
TimerCleared == IF timer.held THEN [n |-> timer.n - 1, held |-> FALSE] ELSE timer

\* pause()
Pause ==
  /\ paused' = TRUE
  /\ timer' = TimerCleared
  /\ socket' = "none"
  /\ status' = "paused"
  /\ UNCHANGED <<stray, error>>

\* A new manager, with the state the hook still has.
StartManager ==
  IF tab = "hidden"
  THEN /\ socket' = "none" /\ paused' = TRUE /\ status' = "paused"
       /\ UNCHANGED <<stray, error>>
  ELSE /\ socket' = "opening" /\ paused' = FALSE /\ status' = "connecting"
       /\ error' = FALSE /\ UNCHANGED stray

StreamInit ==
  /\ tab \in {"visible", "hidden"} /\ server = "up" /\ token = "good" /\ session = TRUE
  /\ socket = IF tab = "visible" THEN "opening" ELSE "none"
  /\ status = IF tab = "visible" THEN "connecting" ELSE "paused"
  /\ paused = (tab = "hidden")
  /\ stray = {} /\ error = FALSE /\ waits = NoWaits /\ timer = NoTimer
  /\ overtook = FALSE /\ calm = FALSE

-----------------------------------------------------------------------------
(* The socket *)

\* onopen
Opens ==
  /\ socket = "opening" /\ server # "down"
  /\ socket' = "asking" /\ status' = "authenticating"
  /\ UNCHANGED <<world, stray, error, paused, waits, timer, overtook>>

\* onmessage, a frame
FrameArrives ==
  /\ server = "up"
  /\ socket = "streaming" \/ (socket = "asking" /\ token = "good")
  /\ socket' = "streaming" /\ status' = "streaming"
  /\ UNCHANGED <<world, stray, error, paused, waits, timer, overtook>>

\* 1008 token_expired: refresh-and-reconnect
TokenIsRefused ==
  /\ socket \in {"asking", "streaming"} /\ token = "stale" /\ server = "up"
  /\ waits.n < MaxWaits
  /\ socket' = "closed" /\ status' = "reconnecting"
  /\ waits' = [waits EXCEPT !.n = @ + 1]
  /\ UNCHANGED <<world, stray, error, paused, timer, overtook>>

\* 1008 for another reason, or 1013: no-retry
ViewIsRefused ==
  /\ socket \in {"asking", "streaming"} /\ server = "refusing"
  /\ socket' = "closed" /\ status' = "closed" /\ error' = TRUE
  /\ UNCHANGED <<world, stray, paused, waits, timer, overtook>>

\* Everything else: reconnect-with-backoff
Breaks ==
  /\ IsOpen /\ (server = "down" \/ ~calm)
  /\ timer.n < MaxTimers
  /\ socket' = "closed" /\ status' = "reconnecting"
  /\ timer' = [n |-> timer.n + 1, held |-> TRUE]
  /\ UNCHANGED <<world, stray, error, paused, waits, overtook>>

TimerFires ==
  /\ timer.n > 0
  /\ timer' = [n |-> timer.n - 1, held |-> FALSE]
  /\ Connect(1)
  /\ waits' = Overtakes
  /\ UNCHANGED <<world, overtook>>

IgnoresTab == FALSE

TabIsHidden == tab = "hidden"

SnapshotOfToken(ok) == token

\* authTokenStore.get() when the next socket opens.
TokenAfter(ok) == IF ok THEN "good" ELSE token

\* handleClose goes on behind its await, for every close that shared the refresh.
RefreshEnds(ok) ==
  /\ waits.n > 0
  /\ ok => session /\ server # "down"
  /\ ~ok => ~calm \/ ~session
  /\ waits' = NoWaits
  /\ overtook' = (overtook \/ waits.late)
  /\ token' = TokenAfter(ok)
  /\ \/ /\ TabIsHidden
        /\ paused' = TRUE /\ status' = "paused"
        /\ UNCHANGED <<socket, stray, error>>
     \/ /\ ~TabIsHidden /\ ~ok
        /\ status' = "closed" /\ error' = TRUE
        /\ UNCHANGED <<socket, stray, paused>>
     \/ /\ ~TabIsHidden /\ ok
        /\ Connect(waits.n)
  /\ UNCHANGED <<tab, server, session, timer, calm>>

-----------------------------------------------------------------------------
(* The user *)

Hides ==
  /\ tab = "visible" /\ ~calm
  /\ tab' = "hidden"
  /\ Pause
  /\ UNCHANGED <<server, token, session, waits, overtook, calm>>

Shows ==
  /\ tab = "hidden"
  /\ tab' = "visible"
  /\ IF paused
     THEN Connect(1) /\ waits' = Overtakes
     ELSE UNCHANGED <<socket, stray, status, error, paused, waits>>
  /\ UNCHANGED <<server, token, session, timer, overtook, calm>>

\* reconnectNow
TriesAgain ==
  /\ error /\ tab = "visible"
  /\ Connect(1)
  /\ waits' = Overtakes
  /\ UNCHANGED <<world, timer, overtook>>

\* Another camera: dispose(), which clears the one timer it knows (the others find the
\* manager disposed) and closes its socket, and a new manager.
ChoosesCamera ==
  /\ ~calm
  /\ StartManager
  /\ waits' = NoWaits /\ timer' = NoTimer
  /\ UNCHANGED <<world, overtook>>

-----------------------------------------------------------------------------
(* The world *)

\* A stray closes itself when it opens.  One that is open answers no ping, and the server
\* closes it in time.
StrayEnds ==
  /\ \E s \in stray : stray' = stray \ {s}
  /\ UNCHANGED <<world, socket, status, error, paused, waits, timer, overtook>>

\* A token lives for many minutes: in the end one survives from a refresh to a frame.
WorldChanges ==
  /\ \/ /\ ~calm
        /\ \/ server' \in {"up", "down", "refusing"} \ {server} /\ UNCHANGED <<token, session>>
           \/ session' = ~session /\ UNCHANGED <<token, server>>
        /\ UNCHANGED calm
     \/ /\ token = "good" /\ (~calm \/ socket \notin {"opening", "asking"})
        /\ token' = "stale"
        /\ UNCHANGED <<server, session, calm>>
     \/ /\ ~calm /\ server = "up" /\ session /\ tab = "visible"
        /\ calm' = TRUE
        /\ UNCHANGED <<server, token, session>>
  /\ UNCHANGED <<tab, socket, stray, status, error, paused, waits, timer, overtook>>

StreamNext ==
  \/ Opens \/ TokenIsRefused \/ ViewIsRefused \/ Breaks \/ TimerFires
  \/ \E ok \in BOOLEAN : RefreshEnds(ok)
  \/ Hides \/ Shows \/ TriesAgain
  \/ StrayEnds \/ WorldChanges
  \/ FrameArrives \/ ChoosesCamera

-----------------------------------------------------------------------------
(* Properties; the liveness is under the fairness of Dashboard *)

\* There is one connection at a time, one reconnect scheduled at the most, and none of
\* both while the tab is hidden, through every order of closes, refreshes, timers and
\* visibility, unless a refresh ended after something else had reconnected.
OneConnection ==
  ~overtook => /\ stray = {} /\ timer.n <= 1
               /\ tab = "hidden" => ~IsOpen /\ timer.n = 0

\* From the moment the server, the session and the tab are well, a frame arrives in the
\* end, or the user is shown an error with a button to try again.
ViewComesBack == calm ~> (socket = "streaming" \/ error)
=============================================================================
