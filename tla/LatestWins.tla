----------------------------- MODULE LatestWins -----------------------------
(***************************************************************************)
(* What the live view promises one viewer (realtime/subscriber.py): frames *)
(* may be skipped, but what is collected to be sent is always the newest   *)
(* one offered, and the picture never goes back.  Frames are numbered from *)
(* 1; 0 is no frame.                                                       *)
(***************************************************************************)
EXTENDS Naturals

VARIABLES
  newest,  \* the newest frame offered to the viewer
  held,    \* the frame last collected for it
  shown    \* the frame last delivered to it

vars == <<newest, held, shown>>

Init == newest = 0 /\ held = 0 /\ shown = 0

\* The viewer comes, and is handed a still at once.
Welcome ==
  /\ newest = 0 /\ held = 0 /\ shown = 0
  /\ newest' > newest
  /\ held' = newest'
  /\ UNCHANGED shown

Offer ==
  /\ newest' > newest
  /\ UNCHANGED <<held, shown>>

\* Nothing is on its way: the newest frame goes next, whatever came before it.
Collect ==
  /\ held = shown
  /\ held # newest
  /\ held' = newest
  /\ UNCHANGED <<newest, shown>>

Deliver ==
  /\ held # shown
  /\ shown' = held
  /\ UNCHANGED <<newest, held>>

Leave ==
  /\ newest' = 0
  /\ held' = 0
  /\ shown' = 0

Next == Welcome \/ Offer \/ Collect \/ Deliver \/ Leave

Spec == Init /\ [][Next]_vars
=============================================================================
