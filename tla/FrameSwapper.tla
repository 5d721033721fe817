----------------------------- MODULE FrameSwapper -----------------------------
(***************************************************************************)
(* How frames of the live view reach the screen (frontend                  *)
(* features/live/frame-url-swapper.ts): every frame is given an object     *)
(* URL and is loaded beforehand, several at a time and in any order.  The  *)
(* swapper shows it when it is loaded, and revokes the URL it replaces.    *)
(*                                                                         *)
(* A URL is the number of its frame.  When nothing is loading, and nothing *)
(* but the picture shown exists, numbers start again.                      *)
(***************************************************************************)
EXTENDS Naturals

CONSTANT MaxFrames \* frames that follow each other without a pause

ASSUME FramesAreCounted == MaxFrames \in Nat \ {0}

VARIABLES
  swapper, \* of the chosen camera: [issued, shown, current, loads, urls]
  former,  \* of the camera chosen before it, disposed
  picture  \* the hook's jpegUrl: [of, url], "now" or "former" telling whose URL that is

frameVars == <<swapper, former, picture>>

\* currentUrl is 0 when there is none; urls are created and not yet revoked.
NewSwapper == [issued |-> 0, shown |-> 0, current |-> 0, loads |-> {}, urls |-> {}]

Blank == [of |-> "none", url |-> 0]

FrameInit == swapper = NewSwapper /\ former = NewSwapper /\ picture = Blank

-----------------------------------------------------------------------------

\* showFrame
Issued(s) ==
  [s EXCEPT !.issued = @ + 1, !.loads = @ \cup {s.issued + 1}, !.urls = @ \cup {s.issued + 1}]

ShowFrame ==
  /\ swapper.issued < MaxFrames
  /\ swapper' = Issued(swapper)
  /\ UNCHANGED <<former, picture>>

EveryLoadIsNew(s, n) == FALSE

\* sequence <= shown
IsOvertaken(s, n) == n <= s.shown

\* The outgoing URL is revoked.
LeftAfterSwap(s, n) == s.urls \ {s.current}

\* preload.onload, or onerror
Loaded(s, n) ==
  IF IsOvertaken(s, n)
  THEN [s EXCEPT !.loads = @ \ {n}, !.urls = @ \ {n}]
  ELSE [s EXCEPT !.loads = @ \ {n}, !.shown = n, !.current = n, !.urls = LeftAfterSwap(s, n)]

LoadEnds ==
  \E n \in swapper.loads :
    /\ swapper' = Loaded(swapper, n)
    /\ picture' = IF IsOvertaken(swapper, n) THEN picture ELSE [of |-> "now", url |-> n]
    /\ UNCHANGED former

\* A disposed swapper goes on.
FormerLoadEnds ==
  \E n \in former.loads :
    /\ former' = Loaded(former, n)
    /\ picture' = IF IsOvertaken(former, n) THEN picture ELSE [of |-> "former", url |-> n]
    /\ UNCHANGED swapper

\* dispose()
Disposed(s) == [s EXCEPT !.current = 0, !.urls = @ \ {s.current}]

\* The hook keeps the URL it has.
SwapCameras ==
  /\ former.loads = {}
  /\ former' = Disposed(swapper)
  /\ swapper' = NewSwapper
  /\ picture' = IF picture.of = "now" THEN [picture EXCEPT !.of = "former"] ELSE picture

\* Only the order of numbers matters.
Renumber ==
  /\ swapper.loads = {} /\ swapper.issued > 1 /\ swapper.urls = {swapper.current}
  /\ swapper' = [issued |-> 1, shown |-> 1, current |-> 1, loads |-> {}, urls |-> {1}]
  /\ picture' = IF picture.of = "now" THEN [picture EXCEPT !.url = 1] ELSE picture
  /\ UNCHANGED former

FrameNext == ShowFrame \/ LoadEnds \/ FormerLoadEnds \/ SwapCameras \/ Renumber

-----------------------------------------------------------------------------
(* Properties *)

\* Of the URLs of the chosen camera those exist that are shown or being loaded: the one on
\* the screen is never revoked, and none piles up, however frames overtake each other.
PictureIsThere == picture.of = "now" => swapper.urls = {picture.url} \cup swapper.loads

\* The screen shows the newest frame that has been loaded: an older one whose load took
\* longer never takes it back.
ScreenIsTheNewest ==
  picture.of = "now" => \A n \in (1..swapper.issued) \ swapper.loads : n <= picture.url

\* What is on the screen is there, and is the newest there is, in whichever order the loads
\* of frames end (showFrame, the handlers it gives the preload).
NewestPictureIsShown == PictureIsThere /\ ScreenIsTheNewest
=============================================================================
