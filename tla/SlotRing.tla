------------------------------ MODULE SlotRing -------------------------------
(***************************************************************************)
(* The lamp ring of a camera node (services/slot_led_service.py, its call  *)
(* in workers/camera_loop.py, firmware/esp32cam/slot-ring-led.cpp): what   *)
(* the worker has decided, what it has sent, and what the ring shows.      *)
(*                                                                         *)
(* Time passes in ticks.  A tick of the camera loop is much shorter, and   *)
(* comes whenever a new frame does.                                        *)
(***************************************************************************)
EXTENDS Integers, FiniteSets

CONSTANTS
  Bays,        \* bays a slot map of the camera may have
  Chars,       \* STATE_CHARS; nothing here tells "1" from "u"
  MaxSlots,    \* MAX_SLOTS
  Refresh,     \* REFRESH_S
  PushTimeout, \* PUSH_TIMEOUT_S, shorter than Refresh
  Stale,       \* RING_STALE_MS
  MillisWrap   \* the ticks after which the node's uint32 of milliseconds starts again

ASSUME RingBounds ==
  /\ "0" \in Chars
  /\ {MaxSlots, Refresh, PushTimeout, Stale, MillisWrap} \subseteq Nat \ {0}
  /\ PushTimeout < Refresh /\ Refresh < Stale /\ Stale + 1 < MillisWrap

VARIABLES
  decided, \* last_states: bay -> character, empty until a detection has ended
  led,     \* the SlotLedRing: [supported, payload, age], age counted up to Refresh
  push,    \* its request: [at, payload, age]
  late,    \* a request the worker has given up on, and which the node has yet to read
  ring,    \* on the node: [chars, have, age], age modulo MillisWrap
  node,    \* "up", or "down": starting, or out of reach
  fitted,  \* whether this node has a ring at all
  filming, \* whether frames arrive: the loop pushes after a new frame only
  lies,    \* history: for how many ticks a bay has been shown free that is not, since a
           \* test pattern or a late request was shown
  calm     \* history: from now on nothing happens to the node, the bays and the network

ringVars == <<decided, led, push, late, ring, node, fitted, filming, lies, calm>>

Payloads == UNION {[map -> Chars] : map \in SUBSET Bays}
Nothing == [b \in {} |-> "0"]

FreshLed == [supported |-> TRUE, payload |-> Nothing, age |-> 0]
NoPush == [at |-> "none", payload |-> Nothing, age |-> 0]
DarkRing == [chars |-> Nothing, have |-> FALSE, age |-> 0]

\* Bays are alike: lies is about one of them.
Watched == CHOOSE b \in Bays : TRUE

RingInit ==
  /\ decided = Nothing /\ led = FreshLed /\ push = NoPush /\ late = Nothing
  /\ ring = DarkRing /\ node = "up" /\ fitted \in BOOLEAN /\ filming = TRUE
  /\ lies = 0 /\ calm = FALSE

-----------------------------------------------------------------------------
(* The node: slot-ring-led.cpp. *)

\* stale: unsigned subtraction of milliseconds.
IsStale == ~ring.have \/ ring.age > Stale

\* Green sends a driver to a bay: it may only show what the worker has decided.
Green(b) == ~IsStale /\ b \in DOMAIN ring.chars /\ ring.chars[b] = "0"
Lying(b) == Green(b) /\ ~(b \in DOMAIN decided /\ decided[b] = "0")

LiesStill == IF Lying(Watched)' THEN lies ELSE 0

\* ringApply
Applied(payload) == [chars |-> payload, have |-> TRUE, age |-> 0]

\* The node takes a request the worker is still waiting for.
NodeAnswers ==
  /\ push.at = "asked" /\ node = "up"
  /\ \/ /\ fitted
        /\ ring' = Applied(push.payload)
        /\ push' = [push EXCEPT !.at = "200"]
     \/ /\ ~fitted
        /\ push' = [push EXCEPT !.at = "404"]
        /\ UNCHANGED ring
  /\ UNCHANGED <<decided, led, late, node, fitted, filming, calm>>
  /\ lies' = LiesStill

\* It takes one the worker has given up on.
NodeReadsLate ==
  /\ late # Nothing /\ node = "up"
  /\ ring' = IF fitted THEN Applied(late) ELSE ring
  /\ late' = Nothing /\ lies' = 0
  /\ UNCHANGED <<decided, led, push, node, fitted, filming, calm>>

\* Power lost, or WiFi: a node that starts has an empty ring and an empty queue.
NodeGoes ==
  /\ node = "up" /\ ~calm
  /\ node' = "down"
  /\ \/ ring' = DarkRing /\ late' = Nothing
     \/ UNCHANGED <<ring, late>>
  /\ UNCHANGED <<decided, led, push, fitted, filming, lies, calm>>

NodeReturns ==
  /\ node = "down"
  /\ node' = "up"
  /\ UNCHANGED <<decided, led, push, late, ring, fitted, filming, lies, calm>>

-----------------------------------------------------------------------------
(* The worker: SlotLedRing.push, awaited by the loop after every new frame. *)

\* An outcome is applied; the bays are those of the slot map of this context.
Decides ==
  /\ ~calm
  /\ \E map \in {DOMAIN decided} \cup IF decided = Nothing THEN SUBSET Bays ELSE {} :
       decided' \in [map -> Chars]
  /\ UNCHANGED <<led, push, late, ring, node, fitted, filming, calm>>
  /\ lies' = LiesStill

NeverRefreshes == decided = led.payload

\* Unchanged, and sent not long ago.
NeedsNoPush == decided = led.payload /\ led.age < Refresh

PushIsDue ==
  filming /\ push.at = "none" /\ led.supported /\ decided # Nothing /\ ~NeedsNoPush

StartsPush ==
  /\ PushIsDue
  /\ IF Cardinality(DOMAIN decided) > MaxSlots
     THEN led' = [led EXCEPT !.supported = FALSE] /\ UNCHANGED push
     ELSE push' = [at |-> "asked", payload |-> decided, age |-> 0] /\ UNCHANGED led
  /\ UNCHANGED <<decided, late, ring, node, fitted, filming, lies, calm>>

\* Only what was answered with 200 counts as sent, from the time it was asked.
Sent(p) == [led EXCEPT !.payload = p.payload, !.age = p.age]

PushIsAnswered ==
  /\ push.at \in {"200", "404"}
  /\ led' = IF push.at = "200" THEN Sent(push) ELSE [led EXCEPT !.supported = FALSE]
  /\ push' = NoPush
  /\ UNCHANGED <<decided, late, ring, node, fitted, filming, lies, calm>>

\* An httpx.HTTPError; the request, or its answer, is lost or under way.
Unsent(p) == led

PushFails ==
  /\ push.at # "none" /\ (node = "down" \/ ~calm)
  /\ led' = Unsent(push)
  /\ push' = NoPush
  /\ late' \in {late} \cup IF push.at = "asked" /\ late = Nothing THEN {push.payload} ELSE {}
  /\ UNCHANGED <<decided, ring, node, fitted, filming, lies, calm>>

\* A reload between two pushes, or a loop that crashed or was cancelled in one, gives
\* the camera a new context.
Rebuilds ==
  /\ ~calm
  /\ decided' = Nothing /\ led' = FreshLed /\ push' = NoPush
  /\ late' \in {late} \cup IF push.at = "asked" /\ late = Nothing THEN {push.payload} ELSE {}
  /\ UNCHANGED <<ring, node, fitted, filming, lies, calm>>

FramesStopOrGoOn ==
  /\ ~calm
  /\ filming' = ~filming
  /\ UNCHANGED <<decided, led, push, late, ring, node, fitted, lies, calm>>

\* push_test_pattern: it is shown, and remembered nowhere.
TestPattern ==
  /\ ~calm /\ node = "up" /\ fitted
  /\ \E p \in Payloads \ {Nothing} : Cardinality(DOMAIN p) <= MaxSlots /\ ring' = Applied(p)
  /\ lies' = 0
  /\ UNCHANGED <<decided, led, push, late, node, fitted, filming, calm>>

-----------------------------------------------------------------------------
(* Time *)

LongestLie == PushTimeout + Stale + 1

OneMore(n, limit) == IF n < limit THEN n + 1 ELSE n

\* While frames arrive they arrive more often than time ticks.
RingTick ==
  /\ ~PushIsDue
  /\ push.at = "none" \/ push.age < PushTimeout
  /\ led' = [led EXCEPT !.age = OneMore(@, Refresh)]
  /\ push' = IF push.at = "none" THEN push ELSE [push EXCEPT !.age = @ + 1]
  /\ ring' = IF ring.have THEN [ring EXCEPT !.age = (@ + 1) % MillisWrap] ELSE ring
  /\ lies' = IF Lying(Watched) THEN OneMore(lies, LongestLie + 1) ELSE 0
  /\ UNCHANGED <<decided, late, node, fitted, filming, calm>>

Settles ==
  /\ ~calm
  /\ calm' = TRUE
  /\ UNCHANGED <<decided, led, push, late, ring, node, fitted, filming, lies>>

RingNext ==
  \/ NodeAnswers \/ NodeReadsLate \/ NodeGoes \/ NodeReturns
  \/ Decides \/ StartsPush \/ PushIsAnswered \/ PushFails \/ Rebuilds \/ FramesStopOrGoOn
  \/ TestPattern
  \/ RingTick \/ Settles
=============================================================================
