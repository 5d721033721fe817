--------------------------- MODULE DashboardProofs ----------------------------
(***************************************************************************)
(* For any number of frames, timers, waits, codes and shapes, and for a    *)
(* history of any length: the picture on the screen, the live view's       *)
(* connection, and what the editor says is saved.  For any viewers and any *)
(* cap, the server's end of the live view: whom the hub publishes to, and  *)
(* that every viewer is served by the rule of LatestWins.                  *)
(***************************************************************************)
EXTENDS Dashboard, LiveHub, SequenceTheorems, FiniteSetTheorems, TLAPS

-----------------------------------------------------------------------------
(* The picture *)

Swappers == [issued : Nat, shown : Nat, current : Nat, loads : SUBSET Nat, urls : SUBSET Nat]

\* What the chosen camera's swapper holds: the URL it shows and those of the frames that
\* load; and every frame issued was passed by the one shown, or loads.
SwapperOK ==
  /\ swapper \in Swappers
  /\ swapper.current = swapper.shown
  /\ swapper.loads \subseteq 1..swapper.issued
  /\ swapper.shown \in (0..swapper.issued) \ swapper.loads
  /\ swapper.urls = ({swapper.shown} \ {0}) \cup swapper.loads
  /\ \A n \in (1..swapper.issued) \ swapper.loads : n <= swapper.shown

PictureOK ==
  picture.of = "now" => picture = [of |-> "now", url |-> swapper.shown] /\ swapper.shown # 0

FrameInv == SwapperOK /\ PictureOK

LEMMA FrameInitHolds == FrameInit => FrameInv
  BY DEF FrameInit, FrameInv, SwapperOK, PictureOK, Swappers, NewSwapper, Blank

LEMMA FrameKeeps ==
  ASSUME FrameInv, FrameNext
  PROVE  FrameInv'
<1> USE DEF FrameInv, SwapperOK, PictureOK, Swappers
<1>1. CASE ShowFrame
  <2> DEFINE next == swapper.issued + 1
  <2> HIDE DEF Swappers
  <2>1. swapper' = Issued(swapper) /\ picture' = picture
    BY <1>1 DEF ShowFrame
  <2>2. swapper' = [issued |-> next, shown |-> swapper.shown, current |-> swapper.current,
                    loads |-> swapper.loads \cup {next}, urls |-> swapper.urls \cup {next}]
    BY <2>1 DEF Issued, Swappers
  <2>3. swapper' \in Swappers
    BY <2>2 DEF Swappers
  <2>4. /\ swapper'.loads \subseteq 1..swapper'.issued
        /\ swapper'.shown \in (0..swapper'.issued) \ swapper'.loads
        /\ swapper'.urls = ({swapper'.shown} \ {0}) \cup swapper'.loads
    BY <2>2 DEF Swappers
  <2>5. \A n \in (1..swapper'.issued) \ swapper'.loads : n <= swapper'.shown
    BY <2>2 DEF Swappers
  <2> QED
    BY <2>1, <2>2, <2>3, <2>4, <2>5
<1>2. CASE LoadEnds
  <2> PICK n \in swapper.loads :
        /\ swapper' = Loaded(swapper, n)
        /\ picture' = IF IsOvertaken(swapper, n) THEN picture ELSE [of |-> "now", url |-> n]
    BY <1>2 DEF LoadEnds
  <2>1. CASE IsOvertaken(swapper, n)
    BY <2>1 DEF Loaded, IsOvertaken
  <2>2. CASE ~IsOvertaken(swapper, n)
    <3>1. /\ swapper'.issued = swapper.issued /\ swapper'.shown = n /\ swapper'.current = n
          /\ swapper'.loads = swapper.loads \ {n}
          /\ swapper'.urls = swapper.urls \ {swapper.shown}
          /\ swapper' \in Swappers /\ picture' = [of |-> "now", url |-> n]
      BY <2>2 DEF Loaded, LeftAfterSwap
    <3>2. n > swapper.shown /\ n \in 1..swapper.issued
      BY <2>2 DEF IsOvertaken
    <3> QED
      BY <3>1, <3>2
  <2> QED
    BY <2>1, <2>2
<1>3. CASE FormerLoadEnds
  BY <1>3 DEF FormerLoadEnds
<1>4. CASE SwapCameras
  BY <1>4 DEF SwapCameras, NewSwapper
<1>5. CASE Renumber
  BY <1>5 DEF Renumber
<1> QED
  BY <1>1, <1>2, <1>3, <1>4, <1>5 DEF FrameNext

LEMMA PictureFollows == FrameInv => NewestPictureIsShown
  BY DEF FrameInv, SwapperOK, PictureOK, Swappers, NewestPictureIsShown, PictureIsThere,
         ScreenIsTheNewest

-----------------------------------------------------------------------------
(* The connection *)

StreamTypes ==
  /\ tab \in {"visible", "hidden"}
  /\ socket \in {"none", "opening", "asking", "streaming", "closed"}
  /\ waits \in [n : Nat, late : BOOLEAN]
  /\ timer \in [n : Nat, held : BOOLEAN] /\ (timer.held => timer.n > 0)
  /\ error \in BOOLEAN /\ paused \in BOOLEAN /\ overtook \in BOOLEAN

\* A reconnect that is scheduled, a refresh that is awaited and a connection exclude one
\* another, and a hidden tab has none but the refresh.
OneWayBack ==
  /\ stray = {}
  /\ timer.n = 0 \/ (timer.n = 1 /\ timer.held /\ socket = "closed")
  /\ waits.n > 0 /\ ~waits.late => ~IsOpen /\ timer.n = 0 /\ waits.n = 1
  /\ error => ~IsOpen /\ timer.n = 0
  /\ paused <=> tab = "hidden"
  /\ paused => ~IsOpen /\ timer.n = 0

StreamInv == StreamTypes /\ (~overtook => OneWayBack)

LEMMA StreamInitHolds == StreamInit => StreamInv
<1> SUFFICES ASSUME StreamInit PROVE StreamInv
  OBVIOUS
<1>1. StreamTypes
  BY DEF StreamInit, StreamTypes, NoWaits, NoTimer
<1>2. stray = {} /\ timer.n = 0 /\ waits.n = 0 /\ ~error
  BY DEF StreamInit, NoWaits, NoTimer
<1>3. paused <=> tab = "hidden"
  BY DEF StreamInit
<1>4. paused => ~IsOpen
  BY DEF StreamInit, IsOpen
<1> QED
  BY <1>1, <1>2, <1>3, <1>4 DEF StreamInv, OneWayBack

\* connect() goes by the await of a close, and the timer it clears is the one it knows.
LEMMA OvertakesIs ==
  ASSUME StreamTypes
  PROVE  /\ Overtakes \in [n : Nat, late : BOOLEAN]
         /\ Overtakes.n = waits.n
         /\ waits.n > 0 => Overtakes.late
<1>1. waits \in [n : Nat, late : BOOLEAN]
  BY DEF StreamTypes
<1>2. Overtakes \in [n : Nat, late : BOOLEAN]
  <2> DEFINE asleep == waits.n > 0
  <2>1. asleep \in BOOLEAN
    OBVIOUS
  <2> HIDE DEF asleep
  <2>2. [waits EXCEPT !.late = asleep] \in [n : Nat, late : BOOLEAN]
    BY <1>1, <2>1
  <2> QED
    BY <2>2 DEF Overtakes, asleep
<1>3. Overtakes.n = waits.n
  BY <1>1 DEF Overtakes
<1>4. ASSUME waits.n > 0 PROVE Overtakes.late
  BY <1>1, <1>4 DEF Overtakes
<1> QED
  BY <1>2, <1>3, <1>4

LEMMA TimerClearedIs ==
  ASSUME StreamTypes
  PROVE  /\ TimerCleared \in [n : Nat, held : BOOLEAN] /\ ~TimerCleared.held
         /\ timer.n = 0 \/ (timer.n = 1 /\ timer.held) => TimerCleared.n = 0
<1> USE DEF StreamTypes, TimerCleared
<1>1. CASE timer.held
  <2>1. TimerCleared = [n |-> timer.n - 1, held |-> FALSE] /\ timer.n - 1 \in Nat
    BY <1>1
  <2> QED
    BY <1>1, <2>1
<1>2. CASE ~timer.held
  <2>1. TimerCleared = timer
    BY <1>2
  <2> QED
    BY <1>2, <2>1
<1> QED
  BY <1>1, <1>2

LEMMA ConnectionFollows == StreamInv => OneConnection
<1> SUFFICES ASSUME StreamInv, ~overtook PROVE OneConnection
  BY DEF OneConnection
<1>1. OneWayBack
  BY DEF StreamInv
<1>2. stray = {} /\ timer.n <= 1
  BY <1>1 DEF OneWayBack
<1>3. tab = "hidden" => ~IsOpen /\ timer.n = 0
  BY <1>1 DEF OneWayBack
<1> QED
  BY <1>2, <1>3 DEF OneConnection

LEMMA SocketKeeps ==
  ASSUME StreamInv, Opens \/ FrameArrives \/ TokenIsRefused \/ ViewIsRefused \/ Breaks
  PROVE  StreamInv'
<1> USE DEF StreamInv, StreamTypes, OneWayBack, IsOpen, world
<1>1. CASE Opens
  BY <1>1 DEF Opens
<1>2. CASE FrameArrives
  BY <1>2 DEF FrameArrives
<1>3. CASE TokenIsRefused
  BY <1>3 DEF TokenIsRefused
<1>4. CASE ViewIsRefused
  BY <1>4 DEF ViewIsRefused
<1>5. CASE Breaks
  BY <1>5 DEF Breaks
<1> QED
  BY <1>1, <1>2, <1>3, <1>4, <1>5

LEMMA TimerKeeps ==
  ASSUME StreamInv, TimerFires
  PROVE  StreamInv'
<1> USE DEF StreamInv, StreamTypes
<1>1. /\ timer' = [n |-> timer.n - 1, held |-> FALSE] /\ timer.n - 1 \in Nat /\ timer.n > 0
      /\ Connect(1) /\ waits' = Overtakes /\ tab' = tab /\ overtook' = overtook
  BY DEF TimerFires, world
<1>2. StreamTypes'
  BY <1>1, OvertakesIs DEF Connect
<1>3. ASSUME ~overtook PROVE OneWayBack'
  <2>1. tab = "visible" /\ socket = "closed" /\ timer'.n = 0
    BY <1>1, <1>3 DEF OneWayBack
  <2> QED
    BY <1>1, <1>3, <2>1, OvertakesIs DEF OneWayBack, IsOpen, Connect, Replaced
<1> QED
  BY <1>1, <1>2, <1>3

LEMMA RefreshKeeps ==
  ASSUME StreamInv, NEW ok \in BOOLEAN, RefreshEnds(ok)
  PROVE  StreamInv'
<1> USE DEF StreamInv, StreamTypes, TabIsHidden
<1>1. /\ waits' = NoWaits /\ timer' = timer /\ tab' = tab
      /\ overtook' \in BOOLEAN /\ (~overtook' => ~overtook /\ ~waits.late) /\ waits.n > 0
  BY DEF RefreshEnds
<1>2. ~overtook' => OneWayBack /\ ~IsOpen /\ timer.n = 0 /\ waits.n = 1
  BY <1>1 DEF OneWayBack
<1>3. CASE TabIsHidden
  <2>1. paused' = TRUE /\ socket' = socket /\ stray' = stray /\ error' = error
    BY <1>3 DEF RefreshEnds
  <2> QED
    BY <1>1, <1>2, <1>3, <2>1 DEF OneWayBack, IsOpen, NoWaits
<1>4. CASE ~TabIsHidden /\ ~ok
  <2>1. error' = TRUE /\ UNCHANGED <<socket, stray, paused>>
    BY <1>4 DEF RefreshEnds
  <2> QED
    BY <1>1, <1>2, <1>4, <2>1 DEF OneWayBack, IsOpen, NoWaits
<1>5. CASE ~TabIsHidden /\ ok
  <2>1. Connect(waits.n)
    BY <1>5 DEF RefreshEnds
  <2>2. StreamTypes'
    BY <1>1, <2>1 DEF Connect, NoWaits
  <2>3. ~overtook' => OneWayBack'
    BY <1>1, <1>2, <1>5, <2>1 DEF OneWayBack, IsOpen, Connect, Replaced, NoWaits
  <2> QED
    BY <2>2, <2>3
<1> QED
  BY <1>3, <1>4, <1>5

LEMMA UserKeeps ==
  ASSUME StreamInv, Hides \/ Shows \/ TriesAgain \/ ChoosesCamera
  PROVE  StreamInv'
<1> USE DEF StreamInv, StreamTypes
<1>1. CASE Hides
  <2>1. /\ tab' = "hidden" /\ paused' = TRUE /\ timer' = TimerCleared /\ socket' = "none"
        /\ UNCHANGED <<stray, error, waits, overtook>>
    BY <1>1 DEF Hides, Pause
  <2> QED
    BY <2>1, TimerClearedIs DEF OneWayBack, IsOpen
<1>2. CASE Shows /\ paused
  <2>1. /\ Connect(1) /\ waits' = Overtakes /\ tab = "hidden" /\ tab' = "visible"
        /\ UNCHANGED <<timer, overtook>>
    BY <1>2 DEF Shows
  <2>2. StreamTypes'
    BY <2>1, OvertakesIs DEF Connect
  <2>3. ASSUME ~overtook PROVE OneWayBack'
    BY <2>1, <2>3, OvertakesIs DEF OneWayBack, IsOpen, Connect, Replaced
  <2> QED
    BY <2>1, <2>2, <2>3
<1>3. CASE Shows /\ ~paused
  BY <1>3 DEF Shows, OneWayBack, IsOpen
<1>4. CASE TriesAgain
  <2>1. /\ Connect(1) /\ waits' = Overtakes /\ tab' = tab /\ tab = "visible" /\ error
        /\ UNCHANGED <<timer, overtook>>
    BY <1>4 DEF TriesAgain, world
  <2>2. StreamTypes'
    BY <2>1, OvertakesIs DEF Connect
  <2>3. ASSUME ~overtook PROVE OneWayBack'
    BY <2>1, <2>3, OvertakesIs DEF OneWayBack, IsOpen, Connect, Replaced
  <2> QED
    BY <2>1, <2>2, <2>3
<1>5. CASE ChoosesCamera
  <2>1. /\ waits' = [n |-> 0, late |-> FALSE] /\ timer' = [n |-> 0, held |-> FALSE]
        /\ UNCHANGED <<tab, stray, overtook>> /\ StartManager
    BY <1>5 DEF ChoosesCamera, NoTimer, NoWaits, world, StartManager
  <2>2. StreamTypes'
    BY <2>1 DEF StartManager
  <2>3. CASE tab = "hidden"
    BY <2>1, <2>2, <2>3 DEF OneWayBack, IsOpen, StartManager
  <2>4. CASE tab = "visible"
    BY <2>1, <2>2, <2>4 DEF OneWayBack, IsOpen, StartManager
  <2> QED
    BY <2>3, <2>4
<1> QED
  BY <1>1, <1>2, <1>3, <1>4, <1>5

LEMMA WorldKeeps ==
  ASSUME StreamInv, StrayEnds \/ WorldChanges \/ UNCHANGED streamVars
  PROVE  StreamInv'
<1> USE DEF StreamInv, StreamTypes, OneWayBack, IsOpen
<1>1. CASE StrayEnds
  BY <1>1 DEF StrayEnds, world
<1>2. CASE WorldChanges \/ UNCHANGED streamVars
  BY <1>2 DEF WorldChanges, streamVars
<1> QED
  BY <1>1, <1>2

-----------------------------------------------------------------------------
(* The editor *)

EditorTypes ==
  /\ slots \in Maps /\ baseline \in Maps /\ stored \in Maps
  /\ past \in Seq(Maps) /\ future \in Seq(Maps)
  /\ put \in [sent : BOOLEAN, map : Maps, allow : BOOLEAN]
  /\ dirty \in BOOLEAN /\ estranged \in BOOLEAN

\* The map to go back to is the server's, also while a request is under way, and a request
\* that is under way carries what the editor holds.
BaselineIsStored == ~estranged => stored = baseline /\ (put.sent => put.map = slots)

EditorInv == EditorTypes /\ DirtyIsTrue /\ BaselineIsStored

LEMMA WithIsAMap ==
  ASSUME NEW m \in Maps, NEW c \in Codes, NEW s \in Shapes
  PROVE  With(m, c, s) \in Maps
<1> PICK drawn \in SUBSET Codes : m \in [drawn -> Shapes]
  BY DEF Maps
<1>1. With(m, c, s) \in [drawn \cup {c} -> Shapes]
  BY DEF With
<1> QED
  BY <1>1 DEF Maps

LEMMA WithoutIsAMap ==
  ASSUME NEW m \in Maps, NEW c
  PROVE  Without(m, c) \in Maps
<1> PICK drawn \in SUBSET Codes : m \in [drawn -> Shapes]
  BY DEF Maps
<1>1. Without(m, c) \in [drawn \ {c} -> Shapes]
  BY DEF Without
<1> QED
  BY <1>1 DEF Maps

LEMMA EmptyIsAMap == Empty \in Maps
<1>1. Empty \in [{} -> Shapes]
  BY DEF Empty
<1> QED
  BY <1>1 DEF Maps

LEMMA EditorInitHolds == EditorInit => EditorInv
<1> SUFFICES ASSUME EditorInit PROVE EditorInv
  OBVIOUS
<1>1. past \in Seq(Maps) /\ future \in Seq(Maps)
  BY DEF EditorInit
<1>2. put \in [sent : BOOLEAN, map : Maps, allow : BOOLEAN] /\ ~put.sent
  BY EmptyIsAMap DEF EditorInit, NoRequest
<1> QED
  BY <1>1, <1>2 DEF EditorInit, EditorInv, EditorTypes, DirtyIsTrue, BaselineIsStored

\* A change of the map by the reducer.
LEMMA BecomesKeeps ==
  ASSUME EditorInv, NEW map \in Maps, Becomes(map), past' \in Seq(Maps), future' \in Seq(Maps)
  PROVE  EditorInv'
<1>1. EditorTypes'
  BY DEF EditorInv, EditorTypes, Becomes, IsDirty
<1>2. DirtyIsTrue'
  BY DEF DirtyIsTrue, Becomes, IsDirty
<1>3. BaselineIsStored'
  BY DEF EditorInv, EditorTypes, BaselineIsStored, Becomes
<1> QED
  BY <1>1, <1>2, <1>3 DEF EditorInv

LEMMA PushKeeps ==
  ASSUME EditorInv, Push
  PROVE  past' \in Seq(Maps) /\ future' \in Seq(Maps)
<1> DEFINE all == Append(past, slots)
<1>1. all \in Seq(Maps) /\ all # <<>>
  BY DEF EditorInv, EditorTypes
<1>2. Tail(all) \in Seq(Maps)
  BY <1>1
<1>3. past' \in {all, Tail(all)} /\ future' = <<>>
  BY DEF Push, FutureAfterEdit
<1>4. <<>> \in Seq(Maps)
  OBVIOUS
<1> HIDE DEF all
<1> QED
  BY <1>1, <1>2, <1>3, <1>4

LEMMA EditKeeps ==
  ASSUME EditorInv, CloseDraft \/ Reshape \/ DeleteSlot
  PROVE  EditorInv'
<1> USE DEF EditorInv, EditorTypes
<1>1. CASE CloseDraft
  <2> PICK c \in Codes, s \in Shapes : Becomes(With(slots, c, s))
    BY <1>1 DEF CloseDraft
  <2> QED
    BY <1>1, PushKeeps, BecomesKeeps, WithIsAMap DEF CloseDraft
<1>2. CASE Reshape
  <2> PICK c \in DOMAIN slots, s \in Shapes, d \in Codes : Becomes(With(Without(slots, c), d, s))
    BY <1>2 DEF Reshape
  <2> QED
    BY <1>2, PushKeeps, BecomesKeeps, WithIsAMap, WithoutIsAMap DEF Reshape
<1>3. CASE DeleteSlot
  BY <1>3, PushKeeps, BecomesKeeps, WithoutIsAMap DEF DeleteSlot
<1> QED
  BY <1>1, <1>2, <1>3

LEMMA MoveKeeps ==
  ASSUME EditorInv, Move
  PROVE  EditorInv'
<1>1. slots \in Maps /\ past' = past /\ future' = future
  BY DEF EditorInv, EditorTypes, Move
<1>2. \E map \in Maps : Becomes(map)
  <2>1. CASE Becomes(slots)
    BY <1>1, <2>1
  <2>2. CASE \E c \in DOMAIN slots, s \in Shapes : Becomes(With(slots, c, s))
    <3> PICK c \in DOMAIN slots, s \in Shapes : Becomes(With(slots, c, s))
      BY <2>2
    <3>1. c \in Codes
      BY <1>1 DEF Maps
    <3> QED
      BY <1>1, <3>1, WithIsAMap
  <2> QED
    BY <2>1, <2>2 DEF Move
<1> QED
  BY <1>1, <1>2, BecomesKeeps DEF EditorInv, EditorTypes

LEMMA WalkKeeps ==
  ASSUME EditorInv, UndoKey \/ RedoKey
  PROVE  EditorInv'
<1>1. past \in Seq(Maps) /\ future \in Seq(Maps) /\ slots \in Maps
  BY DEF EditorInv, EditorTypes
<1>2. CASE RedoKey
  <2>1. Head(future) \in Maps /\ Tail(future) \in Seq(Maps) /\ Append(past, slots) \in Seq(Maps)
    BY <1>1, <1>2 DEF RedoKey
  <2> QED
    BY <1>2, <2>1, BecomesKeeps DEF RedoKey
<1>3. CASE /\ past # <<>> /\ Becomes(past[Len(past)])
           /\ past' = SubSeq(past, 1, Len(past) - 1) /\ future' = FutureAfterUndo
  <2>1. /\ past[Len(past)] \in Maps
        /\ SubSeq(past, 1, Len(past) - 1) \in Seq(Maps)
        /\ <<slots>> \o future \in Seq(Maps)
    BY <1>1, <1>3
  <2>2. /\ Becomes(past[Len(past)]) /\ past' = SubSeq(past, 1, Len(past) - 1)
        /\ future' = <<slots>> \o future
    BY <1>3 DEF FutureAfterUndo
  <2> QED
    BY <2>1, <2>2, BecomesKeeps
<1>4. CASE UNCHANGED <<slots, past, future, baseline, dirty, put, stored, estranged>>
  BY <1>4 DEF EditorInv, EditorTypes, DirtyIsTrue, BaselineIsStored
<1> QED
  BY <1>2, <1>3, <1>4 DEF UndoKey, saving

\* What the pointer and the dialog do beside the map; and the map taken back as a whole.
LEMMA HandKeeps ==
  ASSUME EditorInv,
         \/ AddVertex \/ CancelDraft \/ Select \/ BeginDrag \/ Discard
         \/ RequestSave \/ ConfirmSave \/ CancelConfirm \/ UNCHANGED editorVars
  PROVE  EditorInv'
<1> USE DEF EditorInv, EditorTypes, DirtyIsTrue, BaselineIsStored
<1>1. CASE AddVertex \/ CancelDraft \/ Select \/ UNCHANGED editorVars
  BY <1>1 DEF AddVertex, CancelDraft, Select, editorVars, saving
<1>2. CASE BeginDrag
  BY <1>2, PushKeeps DEF BeginDrag, saving
<1>3. CASE Discard
  <2>1. /\ slots' = baseline /\ past' = <<>> /\ future' = <<>> /\ dirty' = FALSE
        /\ estranged' \in BOOLEAN /\ (~estranged' => ~estranged /\ ~put.sent)
        /\ UNCHANGED <<baseline, put, stored>>
    BY <1>3 DEF Discard
  <2>2. past' \in Seq(Maps) /\ future' \in Seq(Maps)
    BY <2>1
  <2>3. DirtyIsTrue' /\ BaselineIsStored'
    BY <2>1
  <2> QED
    BY <2>1, <2>2, <2>3
<1>4. CASE RequestSave \/ CancelConfirm
  BY <1>4 DEF RequestSave, CancelConfirm, editing
<1>5. CASE ConfirmSave
  <2>1. put' \in [sent : BOOLEAN, map : Maps, allow : BOOLEAN] /\ put'.map = slots
    BY <1>5 DEF ConfirmSave, editing
  <2> QED
    BY <1>5, <2>1 DEF ConfirmSave, editing
<1> QED
  BY <1>1, <1>2, <1>3, <1>4, <1>5

LEMMA SaveKeeps ==
  ASSUME EditorInv, SaveEnds \/ SomebodySaves \/ LoadAgain
  PROVE  EditorInv'
<1> USE DEF EditorInv, EditorTypes, DirtyIsTrue, BaselineIsStored
<1>1. NoRequest \in [sent : BOOLEAN, map : Maps, allow : BOOLEAN] /\ ~NoRequest.sent
  BY EmptyIsAMap DEF NoRequest
<1>2. MayBeStored \subseteq Maps
  BY DEF MayBeStored
<1>3. CASE SaveEnds
  <2>1. /\ put.sent /\ put' = NoRequest /\ stored' \in Maps
        /\ UNCHANGED <<slots, past, future>>
    BY <1>2, <1>3 DEF SaveEnds
  <2>2. CASE UNCHANGED <<baseline, dirty>> /\ estranged' = (estranged \/ stored' # stored)
    BY <1>1, <2>1, <2>2
  <2>3. CASE IsAllowed /\ stored' = put.map /\ MarkSaved /\ UNCHANGED estranged
    BY <1>1, <2>1, <2>3 DEF MarkSaved, BaselineMarked
  <2>4. CASE ~IsAllowed /\ UNCHANGED <<baseline, dirty, estranged>>
    <3>1. stored' = stored
      BY <1>3, <2>4 DEF SaveEnds, MayBeStored
    <3> QED
      BY <1>1, <2>1, <2>4, <3>1
  <2> QED
    BY <1>3, <2>2, <2>3, <2>4 DEF SaveEnds, IsRefused
<1>4. CASE SomebodySaves
  BY <1>4 DEF SomebodySaves, editing
<1>5. CASE LoadAgain
  <2>1. /\ put' = NoRequest /\ stored' \in Maps /\ past' = <<>> /\ future' = <<>> /\ dirty' = FALSE
        /\ \E answer \in Maps :
             slots' = answer /\ baseline' = answer /\ estranged' = (answer # stored')
    BY <1>2, <1>5 DEF LoadAgain
  <2>2. past' \in Seq(Maps) /\ future' \in Seq(Maps)
    BY <2>1
  <2>4. /\ slots' \in Maps /\ baseline' \in Maps /\ dirty' \in BOOLEAN /\ estranged' \in BOOLEAN
    BY <2>1
  <2>3. DirtyIsTrue' /\ BaselineIsStored'
    BY <1>1, <2>1
  <2> QED
    BY <1>1, <2>1, <2>2, <2>3, <2>4
<1> QED
  BY <1>3, <1>4, <1>5

LEMMA EditorKeeps ==
  ASSUME EditorInv, EditorNext \/ UNCHANGED editorVars
  PROVE  EditorInv'
  BY EditKeeps, MoveKeeps, WalkKeeps, HandKeeps, SaveKeeps DEF EditorNext

LEMMA EditorFollows == EditorInv => EditorKnowsWhatIsSaved
  BY DEF EditorInv, EditorTypes, DirtyIsTrue, BaselineIsStored, EditorKnowsWhatIsSaved,
         SavedMeansStored

-----------------------------------------------------------------------------
(* The sign-in, in a browser with one tab *)

CookiesOrNone == Cookies \cup {NoCookie}

SessionTypes ==
  /\ jar \in CookiesOrNone /\ live \subseteq Cookies
  /\ flight \in [Tabs -> [at : {"none", "sent", "answered", "refused"},
                         cookie : CookiesOrNone, new : CookiesOrNone]]
  /\ replayed \in BOOLEAN /\ provoked \in BOOLEAN

\* The cookie of the browser is the newest of its session, and a refresh has taken that
\* one along; but between the server's answer and its arrival the newest is the answer's.
CookieIsNewest ==
  \A t \in Tabs :
    /\ flight[t].at = "answered" => flight[t].new \in live
    /\ flight[t].at # "answered" => jar \in live \cup {NoCookie}
    /\ flight[t].at = "sent" => flight[t].cookie = jar

SessionInv == SessionTypes /\ (~provoked => ~replayed /\ CookieIsNewest)

\* A browser with one tab holds three cookies at the most, so there is a new one.
LEMMA FreshIsNew ==
  ASSUME NEW tab1, Tabs = {tab1}
  PROVE  Fresh \in Cookies
<1> DEFINE three == {jar, flight[tab1].cookie, flight[tab1].new}
<1>1. IsFiniteSet(three) /\ Cardinality(three) <= 3
  <2>1. IsFiniteSet({jar}) /\ Cardinality({jar}) = 1
    BY FS_Singleton
  <2>2. /\ IsFiniteSet({jar} \cup {flight[tab1].cookie})
        /\ Cardinality({jar} \cup {flight[tab1].cookie}) \in Nat
        /\ Cardinality({jar} \cup {flight[tab1].cookie}) <= 2
    <3> DEFINE one == {jar}
    <3> HIDE DEF one
    <3>1. IsFiniteSet(one) /\ Cardinality(one) = 1
      BY <2>1 DEF one
    <3>2. IsFiniteSet(one \cup {flight[tab1].cookie})
          /\ Cardinality(one \cup {flight[tab1].cookie}) \in {1, 2}
      BY <3>1, FS_AddElement
    <3> QED
      BY <3>2 DEF one
  <2>3. /\ IsFiniteSet(({jar} \cup {flight[tab1].cookie}) \cup {flight[tab1].new})
        /\ Cardinality(({jar} \cup {flight[tab1].cookie}) \cup {flight[tab1].new}) <= 3
    <3> DEFINE two == {jar} \cup {flight[tab1].cookie}
    <3> HIDE DEF two
    <3>1. IsFiniteSet(two) /\ Cardinality(two) \in Nat /\ Cardinality(two) <= 2
      BY <2>2 DEF two
    <3>2. /\ IsFiniteSet(two \cup {flight[tab1].new})
          /\ \/ Cardinality(two \cup {flight[tab1].new}) = Cardinality(two)
             \/ Cardinality(two \cup {flight[tab1].new}) = Cardinality(two) + 1
      BY <3>1, FS_AddElement
    <3>3. Cardinality(two \cup {flight[tab1].new}) <= 3
      BY <3>1, <3>2
    <3> QED
      BY <3>2, <3>3 DEF two
  <2>4. three = ({jar} \cup {flight[tab1].cookie}) \cup {flight[tab1].new}
    OBVIOUS
  <2> QED
    BY <2>3, <2>4
<1>2. Held = three
  BY DEF Held
<1>3. ASSUME Cookies \subseteq three PROVE FALSE
  <2>1. Cardinality(Cookies) <= Cardinality(three) /\ IsFiniteSet(Cookies)
    BY <1>1, <1>3, FS_Subset
  <2>2. Cardinality(Tabs) = 1
    BY FS_Singleton
  <2>3. Cardinality(Cookies) \in Nat /\ Cardinality(three) \in Nat
    BY <1>1, <2>1, FS_CardinalityType
  <2> QED
    BY <1>1, <2>1, <2>2, <2>3, CookiesSuffice
<1>4. \E c \in Cookies : c \notin Held
  BY <1>2, <1>3
<1> QED
  BY <1>4 DEF Fresh

LEMMA SessionInitHolds == SessionInit => SessionInv
<1> SUFFICES ASSUME SessionInit PROVE SessionInv
  OBVIOUS
<1>1. /\ jar \in CookiesOrNone /\ live = {jar} \ {NoCookie}
      /\ replayed = FALSE /\ provoked = FALSE
  BY DEF SessionInit, CookiesOrNone
<1>2. flight = [t \in Tabs |-> [at |-> "sent", cookie |-> jar, new |-> NoCookie]]
  BY DEF SessionInit, SentRefresh
<1>3. SessionTypes
  BY <1>1, <1>2 DEF SessionTypes, CookiesOrNone
<1>4. CookieIsNewest
  BY <1>1, <1>2 DEF CookieIsNewest
<1> QED
  BY <1>1, <1>3, <1>4 DEF SessionInv

LEMMA RefreshIsOfTheNewest ==
  ASSUME NEW t, Tabs = {t}, SessionInv, Refreshes(t) \/ RefreshIsLost(t)
  PROVE  SessionInv'
<1> USE DEF SessionInv, SessionTypes, CookieIsNewest, CookiesOrNone
<1>1. CASE ServerRefreshes(t)
  <2> DEFINE c == flight[t].cookie
             Answered(at, new) == [flight EXCEPT ![t].at = at, ![t].new = new]
  <2>1. /\ flight[t].at = "sent" /\ UNCHANGED <<jar, provoked>>
        /\ \/ /\ c = NoCookie /\ flight' = Answered("refused", NoCookie)
              /\ UNCHANGED <<live, replayed>>
           \/ /\ c \in live /\ flight' = Answered("answered", Fresh)
              /\ live' = (live \ {c}) \cup {Fresh} /\ UNCHANGED replayed
           \/ /\ c \notin live /\ c # NoCookie /\ flight' = Answered("refused", NoCookie)
              /\ live' = {} /\ replayed' = TRUE
    BY <1>1 DEF ServerRefreshes
  <2>2. Fresh \in Cookies
    BY FreshIsNew
  <2>3. CASE c = NoCookie
    BY <2>1, <2>3, CookiesSuffice
  <2>4. CASE c \in live
    BY <2>1, <2>2, <2>4, CookiesSuffice
  <2>5. CASE c \notin live /\ c # NoCookie
    <3>1. provoked
      BY <2>1, <2>5
    <3>2. Answered("refused", NoCookie) \in
            [Tabs -> [at : {"none", "sent", "answered", "refused"},
                      cookie : CookiesOrNone, new : CookiesOrNone]]
      BY ZenonT(30)
    <3>3. SessionTypes' /\ provoked'
      BY <2>1, <2>5, <3>1, <3>2
    <3> QED
      BY <3>3
  <2> QED
    BY <2>3, <2>4, <2>5
<1>2. CASE RefreshSucceeds(t)
  BY <1>2 DEF RefreshSucceeds, Settled, NoFlight
<1>3. CASE RefreshIsRefused(t)
  BY <1>3 DEF RefreshIsRefused, around, Settled, NoFlight
<1>4. CASE RefreshIsLost(t)
  BY <1>4 DEF RefreshIsLost, Settled, NoFlight
<1> QED
  BY <1>1, <1>2, <1>3, <1>4 DEF Refreshes

LEMMA CallsShareTheRefresh ==
  ASSUME NEW t, Tabs = {t}, SessionInv,
         (\E c \in Callers : Replies(t, c)) \/ \E r \in Requests : Asks(t, r)
  PROVE  SessionInv'
<1> USE DEF SessionInv, SessionTypes, CookieIsNewest, CookiesOrNone, around
<1>1. CASE \E r \in Requests : Asks(t, r)
  BY <1>1 DEF Asks
<1>2. CASE \E c \in Callers : IsAnswered(t, c) \/ CallFails(t, c)
  <2>1. UNCHANGED <<jar, live, flight, replayed, provoked>>
    BY <1>2 DEF IsAnswered, CallFails
  <2> QED
    BY <2>1
<1>3. CASE \E c \in Callers : IsUnauthorized(t, c)
  <2>1. flight' = [flight EXCEPT ![t] = Shared(t)] /\ UNCHANGED <<jar, live, replayed, provoked>>
    BY <1>3 DEF IsUnauthorized
  <2>2. CASE InFlight(t)
    BY <2>1, <2>2 DEF Shared
  <2>3. CASE ~InFlight(t)
    BY <2>1, <2>3 DEF Shared, InFlight, SentRefresh
  <2> QED
    BY <2>2, <2>3
<1> QED
  BY <1>1, <1>2, <1>3 DEF Replies

LEMMA UserChangesTheSession ==
  ASSUME NEW t, Tabs = {t}, SessionInv,
         SignsIn(t) \/ SignsOut(t) \/ Reloads(t) \/ TokenExpires(t) \/ SessionsAreEnded \/ Settles
           \/ UNCHANGED sessionVars
  PROVE  SessionInv'
<1> USE DEF SessionInv, SessionTypes, CookieIsNewest, CookiesOrNone, InFlight
<1>1. CASE SignsIn(t)
  BY <1>1, FreshIsNew DEF SignsIn
<1>2. CASE SignsOut(t)
  BY <1>2 DEF SignsOut
<1>3. CASE Reloads(t)
  BY <1>3 DEF Reloads, SentRefresh
<1>4. CASE TokenExpires(t) \/ Settles \/ SessionsAreEnded \/ UNCHANGED sessionVars
  <2>1. /\ UNCHANGED <<jar, flight, replayed>> /\ provoked' \in BOOLEAN
        /\ provoked' \/ UNCHANGED <<live, provoked>>
        /\ live' \subseteq live
    BY <1>4 DEF TokenExpires, Settles, SessionsAreEnded, around, sessionVars
  <2> QED
    BY <2>1
<1> QED
  BY <1>1, <1>2, <1>3, <1>4

-----------------------------------------------------------------------------
(* The page *)

DashboardInv == FrameInv /\ StreamInv /\ EditorInv

LEMMA DashboardInit == Init => DashboardInv
  BY FrameInitHolds, StreamInitHolds, EditorInitHolds DEF Init, DashboardInv

LEMMA DashboardKeeps ==
  ASSUME DashboardInv, [Next]_vars
  PROVE  DashboardInv'
<1>1. FrameInv'
  <2>1. FrameNext \/ UNCHANGED frameVars
    BY DEF Next, SessionStep, StreamStep, PictureStep, EditorStep, vars
  <2>2. CASE UNCHANGED frameVars
    BY <2>2 DEF frameVars, DashboardInv, FrameInv, SwapperOK, PictureOK
  <2> QED
    BY <2>1, <2>2, FrameKeeps DEF DashboardInv
<1>2. StreamInv'
  <2>1. StreamNext \/ UNCHANGED streamVars
    BY DEF Next, SessionStep, StreamStep, PictureStep, EditorStep, vars
  <2> QED
    BY <2>1, SocketKeeps, TimerKeeps, RefreshKeeps, UserKeeps, WorldKeeps
    DEF DashboardInv, StreamNext
<1>3. EditorInv'
  <2>1. EditorNext \/ UNCHANGED editorVars
    BY DEF Next, SessionStep, StreamStep, PictureStep, EditorStep, vars
  <2> QED
    BY <2>1, EditorKeeps DEF DashboardInv
<1> QED
  BY <1>1, <1>2, <1>3 DEF DashboardInv

THEOREM Inductive == Spec => []DashboardInv
<1>1. DashboardInv /\ [Next]_vars => DashboardInv'
  BY DashboardKeeps
<1> QED
  BY DashboardInit, <1>1, PTL DEF Spec

\* The picture shown is there, and is the newest of those loaded, for any number of frames
\* that load at a time, in any order (frame-url-swapper.ts).
THEOREM PictureIsNewest == Spec => []NewestPictureIsShown
<1>1. DashboardInv => NewestPictureIsShown
  BY PictureFollows DEF DashboardInv
<1> QED
  BY Inductive, <1>1, PTL

\* There is one connection, one scheduled reconnect, and none of both in a hidden tab, for
\* any number of closes and timers, as long as no refresh ends behind a reconnect
\* (camera-stream-manager.ts).
THEOREM ConnectionIsOne == Spec => []OneConnection
<1>1. DashboardInv => OneConnection
  BY ConnectionFollows DEF DashboardInv
<1> QED
  BY Inductive, <1>1, PTL

\* The editor knows whether there is something to save, and what it calls saved the server
\* has, for any map and any history (roi-editor-reducer.ts, use-roi-editor-save.ts).
THEOREM EditorKnows == Spec => []EditorKnowsWhatIsSaved
<1>1. DashboardInv => EditorKnowsWhatIsSaved
  BY EditorFollows DEF DashboardInv
<1> QED
  BY Inductive, <1>1, PTL

\* Nothing a page does while it loads presents a refresh token twice, when the browser has
\* one tab: whatever requests find their token expired, they share one refresh
\* (refresh-single-flight.ts).
THEOREM LoadingIsNoReplay ==
  ASSUME NEW t, Tabs = {t}
  PROVE  Spec => []LoadingAPageIsNoReplay
<1>1. Init => SessionInv
  BY SessionInitHolds DEF Init
<1>2. SessionInv /\ [Next]_vars => SessionInv'
  <2> SUFFICES ASSUME SessionInv, [Next]_vars PROVE SessionInv'
    OBVIOUS
  <2>1. SessionNext \/ UNCHANGED sessionVars
    BY DEF Next, SessionStep, StreamStep, PictureStep, EditorStep, vars
  <2> QED
    BY <2>1, RefreshIsOfTheNewest, CallsShareTheRefresh, UserChangesTheSession DEF SessionNext
<1>3. SessionInv => LoadingAPageIsNoReplay
  BY DEF SessionInv, SessionTypes, LoadingAPageIsNoReplay
<1> QED
  BY <1>1, <1>2, <1>3, PTL DEF Spec

-----------------------------------------------------------------------------
(* Undo and redo *)

Line(p, m, f) == p \o <<m>> \o f

LEMMA LineIs ==
  ASSUME NEW S, NEW p \in Seq(S), NEW m \in S, NEW f \in Seq(S)
  PROVE  /\ Line(p, m, f) \in Seq(S)
         /\ Len(Line(p, m, f)) = Len(p) + 1 + Len(f)
         /\ \A i \in 1..Len(p) + 1 + Len(f) :
              Line(p, m, f)[i] = IF i <= Len(p) THEN p[i]
                                 ELSE IF i = Len(p) + 1 THEN m ELSE f[i - (Len(p) + 1)]
<1>1. /\ <<m>> \in Seq(S) /\ Len(<<m>>) = 1 /\ <<m>>[1] = m
      /\ Len(p) \in Nat /\ Len(f) \in Nat
  OBVIOUS
<1>2. /\ p \o <<m>> \in Seq(S) /\ Len(p \o <<m>>) = Len(p) + 1
      /\ \A i \in 1..Len(p) + 1 : (p \o <<m>>)[i] = IF i <= Len(p) THEN p[i] ELSE m
  BY <1>1, ConcatProperties
<1>3. /\ Line(p, m, f) \in Seq(S) /\ Len(Line(p, m, f)) = Len(p) + 1 + Len(f)
      /\ \A i \in 1..Len(p) + 1 + Len(f) :
           Line(p, m, f)[i] = IF i <= Len(p) + 1 THEN (p \o <<m>>)[i] ELSE f[i - (Len(p) + 1)]
  BY <1>2, ConcatProperties DEF Line
<1>4. ASSUME NEW i \in 1..Len(p) + 1 + Len(f)
      PROVE  Line(p, m, f)[i] = IF i <= Len(p) THEN p[i]
                                ELSE IF i = Len(p) + 1 THEN m ELSE f[i - (Len(p) + 1)]
  <2>1. CASE i <= Len(p) + 1
    <3>1. Line(p, m, f)[i] = (p \o <<m>>)[i] /\ i \in 1..Len(p) + 1
      BY <1>1, <1>3, <2>1
    <3> QED
      BY <1>1, <1>2, <3>1
  <2>2. CASE ~(i <= Len(p) + 1)
    BY <1>1, <1>3, <2>2
  <2> QED
    BY <2>1, <2>2
<1> QED
  BY <1>3, <1>4

LEMMA LineEndsHere ==
  ASSUME NEW S, NEW p \in Seq(S), NEW m \in S
  PROVE  Line(p, m, <<>>) = Append(p, m)
<1>1. Append(p, m) = p \o <<m>> /\ Append(p, m) \in Seq(S)
  BY AppendIsConcat, AppendProperties
<1> QED
  BY <1>1, ConcatEmptySeq DEF Line

LEMMA LineToHere ==
  ASSUME NEW S, NEW p \in Seq(S), NEW m \in S, NEW f \in Seq(S)
  PROVE  SubSeq(Line(p, m, f), 1, Len(p) + 1) = Append(p, m)
<1> DEFINE sub == SubSeq(Line(p, m, f), 1, Len(p) + 1)
<1>1. /\ Append(p, m) \in Seq(S) /\ Len(Append(p, m)) = Len(p) + 1
      /\ \A i \in 1..Len(p) : Append(p, m)[i] = p[i]
      /\ Append(p, m)[Len(p) + 1] = m
  BY AppendProperties
<1>2. Len(p) \in Nat /\ Len(f) \in Nat
  OBVIOUS
<1>3. \A i \in 1..Len(p) + 1 : Line(p, m, f)[i] \in S
  BY <1>2, LineIs, ElementOfSeq
<1>4. /\ sub \in Seq(S) /\ Len(sub) = Len(p) + 1
      /\ \A i \in 1..Len(p) + 1 : sub[i] = Line(p, m, f)[i]
  BY <1>2, <1>3, SubSeqProperties
<1>5. ASSUME NEW i \in 1..Len(p) + 1 PROVE sub[i] = Append(p, m)[i]
  <2>1. \A j \in 1..Len(p) + 1 + Len(f) :
          Line(p, m, f)[j] = IF j <= Len(p) THEN p[j]
                             ELSE IF j = Len(p) + 1 THEN m ELSE f[j - (Len(p) + 1)]
    BY LineIs
  <2>2. i \in 1..Len(p) + 1 + Len(f)
    BY <1>2
  <2>3. CASE i <= Len(p)
    BY <1>1, <1>2, <1>4, <2>1, <2>2, <2>3
  <2>4. CASE i = Len(p) + 1
    BY <1>1, <1>2, <1>4, <2>1, <2>2, <2>4
  <2> QED
    BY <1>2, <2>3, <2>4
<1> HIDE DEF sub
<1> QED
  BY <1>1, <1>4, <1>5, SeqEqual

LEMMA LineChangedHere ==
  ASSUME NEW S, NEW p \in Seq(S), NEW m \in S, NEW f \in Seq(S), NEW v \in S
  PROVE  Line(p, v, f) = [Line(p, m, f) EXCEPT ![Len(p) + 1] = v]
<1> DEFINE old == Line(p, m, f)
           new == Line(p, v, f)
           changed == [old EXCEPT ![Len(p) + 1] = v]
<1> DEFINE At(w, i) == IF i <= Len(p) THEN p[i]
                       ELSE IF i = Len(p) + 1 THEN w ELSE f[i - (Len(p) + 1)]
<1>1. Len(p) \in Nat /\ Len(f) \in Nat
  OBVIOUS
<1>2. /\ old \in Seq(S) /\ Len(old) = Len(p) + 1 + Len(f)
      /\ \A i \in 1..Len(p) + 1 + Len(f) : old[i] = At(m, i)
  <2>1. /\ Line(p, m, f) \in Seq(S)
        /\ Len(Line(p, m, f)) = Len(p) + 1 + Len(f)
        /\ \A i \in 1..Len(p) + 1 + Len(f) :
             Line(p, m, f)[i] = IF i <= Len(p) THEN p[i]
                                ELSE IF i = Len(p) + 1 THEN m ELSE f[i - (Len(p) + 1)]
    BY LineIs
  <2> QED
    BY <2>1
<1>3. /\ new \in Seq(S) /\ Len(new) = Len(p) + 1 + Len(f)
      /\ \A i \in 1..Len(p) + 1 + Len(f) : new[i] = At(v, i)
  <2>1. /\ Line(p, v, f) \in Seq(S)
        /\ Len(Line(p, v, f)) = Len(p) + 1 + Len(f)
        /\ \A i \in 1..Len(p) + 1 + Len(f) :
             Line(p, v, f)[i] = IF i <= Len(p) THEN p[i]
                                ELSE IF i = Len(p) + 1 THEN v ELSE f[i - (Len(p) + 1)]
    BY LineIs
  <2> QED
    BY <2>1
<1> HIDE DEF old, new
<1>4. /\ changed \in Seq(S) /\ Len(changed) = Len(old)
      /\ \A j \in 1..Len(old) : changed[j] = IF j = Len(p) + 1 THEN v ELSE old[j]
  BY <1>1, <1>2, ExceptSeq
<1> HIDE DEF changed
<1>5. ASSUME NEW i \in 1..Len(new) PROVE new[i] = changed[i]
  <2>1. new[i] = At(v, i) /\ old[i] = At(m, i)
    BY <1>2, <1>3
  <2>2. changed[i] = IF i = Len(p) + 1 THEN v ELSE old[i]
    BY <1>2, <1>3, <1>4
  <2> QED
    BY <1>1, <2>1, <2>2
<1>6. new = changed
  BY <1>2, <1>3, <1>4, <1>5, SeqEqual
<1> QED
  BY <1>6 DEF old, new, changed

\* A step to the right along the line leaves it as it is.
Walks(p, m, g, q, v, f) ==
  /\ p \in Seq(Maps) /\ f \in Seq(Maps) /\ m \in Maps /\ v \in Maps
  /\ q = Append(p, m) /\ g = <<v>> \o f

LEMMA LineIsWalked ==
  ASSUME NEW p, NEW m, NEW g, NEW q, NEW v, NEW f, Walks(p, m, g, q, v, f)
  PROVE  Line(q, v, f) = Line(p, m, g)
<1>0. /\ p \in Seq(Maps) /\ f \in Seq(Maps) /\ m \in Maps /\ v \in Maps
      /\ q = Append(p, m) /\ g = <<v>> \o f
  BY DEF Walks
<1>1. /\ <<m>> \in Seq(Maps) /\ <<v>> \in Seq(Maps) /\ <<v>> \o f \in Seq(Maps)
      /\ p \o <<m>> \in Seq(Maps) /\ p \o <<m>> \o <<v>> \in Seq(Maps)
  BY <1>0
<1>2. Append(p, m) = p \o <<m>>
  BY <1>0, AppendIsConcat
<1>3. (p \o <<m>>) \o (<<v>> \o f) = ((p \o <<m>>) \o <<v>>) \o f
  <2> DEFINE a == p \o <<m>>
             b == <<v>>
  <2>1. a \in Seq(Maps) /\ b \in Seq(Maps) /\ f \in Seq(Maps)
    BY <1>0, <1>1
  <2> HIDE DEF a, b
  <2>2. (a \o b) \o f = a \o (b \o f)
    BY <2>1, ConcatAssociative
  <2> QED
    BY <2>2 DEF a, b
<1> QED
  BY <1>0, <1>2, <1>3 DEF Line

Here == Line(past, slots, future)
Place == Len(past) + 1

LEMMA PushIsEdit ==
  ASSUME EditorTypes, Push, slots' \in Maps
  PROVE  Document!Edit
<1> DEFINE all == Append(SubSeq(Here, 1, Place), slots')
           cut == IF Len(all) > Limit + 1 THEN Tail(all) ELSE all
           before == Append(past, slots)
<1>1. /\ past \in Seq(Maps) /\ slots \in Maps /\ future \in Seq(Maps) /\ Limit \in Nat
      /\ Len(past) \in Nat
  BY EditorBounds DEF EditorTypes
<1>2. before \in Seq(Maps) /\ before # <<>> /\ Len(before) = Len(past) + 1
  BY <1>1, AppendProperties
<1>3. SubSeq(Here, 1, Place) = before
  BY <1>1, LineToHere DEF Here, Place
<1>4. /\ past' = IF Len(before) > Limit THEN Tail(before) ELSE before
      /\ future' = <<>>
  BY DEF Push, FutureAfterEdit
<1>5. Tail(before) \in Seq(Maps)
  BY <1>2
<1> HIDE DEF before
<1>6. all = Append(before, slots')
  BY <1>3
<1> HIDE DEF all
<1>7. Tail(all) = Append(Tail(before), slots')
  BY <1>2, <1>6, HeadTailAppend
<1>8. Len(all) = Len(before) + 1
  BY <1>2, <1>6, AppendProperties
<1>9. past' \in Seq(Maps) /\ cut = Append(past', slots')
  BY <1>1, <1>2, <1>4, <1>5, <1>6, <1>7, <1>8
<1> HIDE DEF cut
<1>10. Here' = cut
  BY <1>4, <1>9, LineEndsHere DEF Here
<1>11. Place' = Len(cut)
  BY <1>9, AppendProperties DEF Place
<1>12. \E v \in Maps :
         LET every == Append(SubSeq(Here, 1, Place), v)
             kept == IF Len(every) > Limit + 1 THEN Tail(every) ELSE every
         IN Here' = kept /\ Place' = Len(kept)
  BY <1>10, <1>11 DEF cut, all
<1> QED
  BY <1>12 DEF Document!Edit, Here, Place, Line

LEMMA MoveIsAdjust ==
  ASSUME EditorTypes, slots' \in Maps, UNCHANGED <<past, future>>
  PROVE  Document!Adjust
<1>1. Here' = [Here EXCEPT ![Place] = slots'] /\ Place' = Place
  BY LineChangedHere DEF EditorTypes, Here, Place
<1> QED
  BY <1>1 DEF Document!Adjust, Here, Place, Line

LEMMA UndoIsUndo ==
  ASSUME EditorTypes, past # <<>>, slots' = past[Len(past)],
         past' = SubSeq(past, 1, Len(past) - 1), future' = FutureAfterUndo
  PROVE  Document!Undo
<1>1. /\ past \in Seq(Maps) /\ slots \in Maps /\ future \in Seq(Maps)
      /\ Len(past) \in Nat /\ Len(past) > 0
  BY DEF EditorTypes
<1>2. /\ past' \in Seq(Maps) /\ Len(past') = Len(past) - 1 /\ slots' \in Maps
      /\ \A i \in 1..Len(past) - 1 : past'[i] = past[i]
  <2>1. \A i \in 1..Len(past) - 1 : past[i] \in Maps
    BY <1>1, ElementOfSeq
  <2>2. /\ SubSeq(past, 1, Len(past) - 1) \in Seq(Maps)
        /\ Len(SubSeq(past, 1, Len(past) - 1)) =
             IF 1 <= Len(past) - 1 THEN (Len(past) - 1) - 1 + 1 ELSE 0
        /\ \A i \in 1..(Len(past) - 1) - 1 + 1 :
             SubSeq(past, 1, Len(past) - 1)[i] = past[1 + i - 1]
    <3>1. 1 \in Int /\ Len(past) - 1 \in Int
      BY <1>1
    <3> QED
      BY <2>1, <3>1, SubSeqProperties
  <2>3. slots' \in Maps
    BY <1>1, ElementOfSeq
  <2> DEFINE before == SubSeq(past, 1, Len(past) - 1)
  <2>4. before \in Seq(Maps) /\ Len(before) = Len(past) - 1
    <3>1. before \in Seq(Maps)
      BY <2>2
    <3>2. CASE Len(past) = 1
      BY <2>2, <3>2
    <3>3. CASE Len(past) > 1
      BY <1>1, <2>2, <3>3
    <3>4. Len(past) = 1 \/ Len(past) > 1
      <4> DEFINE n == Len(past)
      <4>1. n \in Nat /\ n > 0
        BY <1>1
      <4> HIDE DEF n
      <4>2. n = 1 \/ n > 1
        BY <4>1
      <4> QED
        BY <4>2 DEF n
    <3> QED
      BY <3>1, <3>2, <3>3, <3>4, Zenon
  <2>5. \A i \in 1..Len(past) - 1 : before[i] = past[i]
    BY <1>1, <2>2
  <2> HIDE DEF before
  <2>6. past' = before
    BY DEF before
  <2> QED
    BY <2>3, <2>4, <2>5, <2>6
<1>3. past = Append(past', slots')
  <2>1. Append(past', slots') \in Seq(Maps) /\ Len(Append(past', slots')) = Len(past)
    BY <1>1, <1>2, AppendProperties
  <2>2. ASSUME NEW i \in 1..Len(past) PROVE past[i] = Append(past', slots')[i]
    <3>1. CASE i = Len(past)
      BY <1>1, <1>2, <3>1, AppendProperties
    <3>2. CASE i < Len(past)
      BY <1>1, <1>2, <3>2, AppendProperties
    <3> QED
      BY <1>1, <3>1, <3>2
  <2> QED
    BY <1>1, <2>1, <2>2, SeqEqual
<1>4. Here' = Here
  <2>1. past' \in Seq(Maps) /\ future \in Seq(Maps) /\ slots \in Maps /\ slots' \in Maps
    BY <1>1, <1>2
  <2>2. Walks(past', slots', future', past, slots, future)
    BY <1>3, <2>1 DEF FutureAfterUndo, Walks
  <2>3. Line(past, slots, future) = Line(past', slots', future')
    BY <2>2, LineIsWalked
  <2> QED
    BY <2>3 DEF Here
<1>5. Place > 1 /\ Place' = Place - 1
  BY <1>1, <1>2 DEF Place
<1> QED
  BY <1>4, <1>5 DEF Document!Undo, Here, Place, Line

LEMMA RedoIsRedo ==
  ASSUME EditorTypes, future # <<>>, slots' = Head(future),
         past' = Append(past, slots), future' = Tail(future)
  PROVE  Document!Redo
<1>1. /\ past \in Seq(Maps) /\ slots \in Maps /\ future \in Seq(Maps)
      /\ Len(past) \in Nat /\ Len(future) \in Nat \ {0}
  BY DEF EditorTypes
<1>2. slots' \in Maps /\ future' \in Seq(Maps) /\ future = <<slots'>> \o future'
  BY <1>1
<1>3. Here' = Here
  <2>1. Walks(past, slots, future, past', slots', future')
    BY <1>1, <1>2 DEF Walks
  <2>2. Line(past', slots', future') = Line(past, slots, future)
    BY <2>1, LineIsWalked
  <2> QED
    BY <2>2 DEF Here
<1>4. Place' = Place + 1 /\ Place < Len(Here)
  BY <1>1, LineIs, AppendProperties DEF Place, Here
<1> QED
  BY <1>3, <1>4 DEF Document!Redo, Here, Place, Line

LEMMA LoadIsLoad ==
  ASSUME slots' \in Maps, past' = <<>>, future' = <<>>
  PROVE  Document!Load
<1>1. Here' = <<slots'>> /\ Place' = 1
  BY DEF Here, Place, Line
<1> QED
  BY <1>1 DEF Document!Load, Here, Place, Line

LEMMA HistoryStarts == EditorInit => Document!HistoryInit
<1> SUFFICES ASSUME EditorInit PROVE Document!HistoryInit
  OBVIOUS
<1>1. slots \in Maps /\ past = <<>> /\ future = <<>>
  BY DEF EditorInit
<1>2. Here = <<slots>> /\ Place = 1
  BY <1>1 DEF Here, Place, Line
<1> QED
  BY <1>1, <1>2 DEF Document!HistoryInit, Here, Place, Line

\* A step of the editor is one of the history's, or leaves the line and the place alone.
LEMMA HistoryGoesOn ==
  ASSUME EditorInv, EditorInv', EditorNext \/ UNCHANGED editorVars
  PROVE  Document!HistoryNext \/ UNCHANGED <<Here, Place>>
<1> USE DEF EditorInv
<1>1. slots' \in Maps /\ EditorTypes
  BY DEF EditorTypes
<1>2. CASE CloseDraft \/ Reshape \/ DeleteSlot \/ BeginDrag
  BY <1>1, <1>2, PushIsEdit
  DEF CloseDraft, Reshape, DeleteSlot, BeginDrag, Document!HistoryNext
<1>3. CASE Move
  BY <1>1, <1>3, MoveIsAdjust DEF Move, Document!HistoryNext
<1>4. CASE UndoKey
  <2>1. CASE UNCHANGED <<slots, past, future>>
    BY <2>1 DEF Here, Place
  <2>2. CASE /\ past # <<>> /\ slots' = past[Len(past)]
             /\ past' = SubSeq(past, 1, Len(past) - 1) /\ future' = FutureAfterUndo
    BY <1>1, <2>2, UndoIsUndo DEF Document!HistoryNext
  <2> QED
    BY <1>4, <2>1, <2>2 DEF UndoKey, Becomes
<1>5. CASE RedoKey
  BY <1>1, <1>5, RedoIsRedo DEF RedoKey, Becomes, Document!HistoryNext
<1>6. CASE Discard \/ LoadAgain
  BY <1>1, <1>6, LoadIsLoad DEF Discard, LoadAgain, Document!HistoryNext
<1>7. CASE \/ AddVertex \/ CancelDraft \/ Select \/ UNCHANGED editorVars
           \/ RequestSave \/ ConfirmSave \/ CancelConfirm \/ SaveEnds \/ SomebodySaves
  <2>1. UNCHANGED <<slots, past, future>>
    BY <1>7 DEF AddVertex, CancelDraft, Select, editorVars, RequestSave, ConfirmSave,
                CancelConfirm, SaveEnds, SomebodySaves, editing
  <2> QED
    BY <2>1 DEF Here, Place
<1> QED
  BY <1>2, <1>3, <1>4, <1>5, <1>6, <1>7 DEF EditorNext

\* The reducer's two stacks implement the line of versions with a place on it, for any map,
\* any limit and any history (roi-editor-reducer.ts: pushHistory, UNDO, REDO, LOAD).
THEOREM EditorWalksTheHistory == Spec => UndoWalksTheHistory
<1>1. Init => Document!HistoryInit
  BY HistoryStarts DEF Init
<1>2. DashboardInv /\ DashboardInv' /\ [Next]_vars
        => [Document!HistoryNext]_<<past \o <<slots>> \o future, Len(past) + 1>>
  <2> SUFFICES ASSUME DashboardInv, DashboardInv', [Next]_vars
               PROVE  [Document!HistoryNext]_<<past \o <<slots>> \o future, Len(past) + 1>>
    OBVIOUS
  <2>1. EditorNext \/ UNCHANGED editorVars
    BY DEF Next, SessionStep, StreamStep, PictureStep, EditorStep, vars
  <2>2. Document!HistoryNext \/ UNCHANGED <<Here, Place>>
    BY <2>1, HistoryGoesOn DEF DashboardInv
  <2> QED
    BY <2>2 DEF Here, Place, Line
<1> QED
  BY Inductive, <1>1, <1>2, PTL DEF Spec, UndoWalksTheHistory, Document!HistorySpec

-----------------------------------------------------------------------------
(* The other end of the live view: the hub and the endpoints of its viewers *)

HubInv == TypeOK /\ MembersAreConnected /\ FramesAreInPlace

LEMMA HubInitHolds == HubInit => HubInv
  BY HubBoundsAreNat
  DEF HubInit, HubInv, TypeOK, MembersAreConnected, FramesAreInPlace, NothingOutside,
      StillComesFirst, QueueHoldsNewest, FramesAreNew, Frames, NoStill, Outside

\* A publication, from the frame to the queues.
LEMMA PublishKeeps ==
  ASSUME HubInv, Publish
  PROVE  HubInv'
<1> USE HubBoundsAreNat DEF HubInv, TypeOK, Frames
<1>1. CASE SkipFrame
  BY <1>1 DEF SkipFrame, hub, stream, MembersAreConnected, FramesAreInPlace, NothingOutside,
              StillComesFirst, QueueHoldsNewest, FramesAreNew
<1>2. CASE EncodeFrame
  BY <1>2 DEF EncodeFrame, hub, stream, MembersAreConnected, FramesAreInPlace, NothingOutside,
              StillComesFirst, QueueHoldsNewest, FramesAreNew
<1>3. CASE KeepStill
  BY <1>3 DEF KeepStill, stream, MembersAreConnected, FramesAreInPlace, NothingOutside,
              StillComesFirst, QueueHoldsNewest, FramesAreNew
<1>4. CASE Offer
  <2>1. TypeOK'
    BY <1>4 DEF Offer, hub, QueueAfterOffer
  <2>2. MembersAreConnected' /\ StillComesFirst' /\ FramesAreNew'
    BY <1>4 DEF Offer, hub, MembersAreConnected, FramesAreInPlace, StillComesFirst, FramesAreNew
  <2>3. NothingOutside'
    BY <1>4 DEF Offer, hub, MembersAreConnected, FramesAreInPlace, NothingOutside, Outside
  <2>4. QueueHoldsNewest'
    BY <1>4 DEF Offer, hub, FramesAreInPlace, QueueHoldsNewest, FramesAreNew, QueueAfterOffer
  <2> QED
    BY <2>1, <2>2, <2>3, <2>4 DEF FramesAreInPlace
<1> QED
  BY <1>1, <1>2, <1>3, <1>4 DEF Publish

\* What leaves the streams alone: the deletion of the camera and the age of the still.
LEMMA CameraKeeps ==
  ASSUME HubInv, Delete \/ StillAges
  PROVE  HubInv'
<1> USE HubBoundsAreNat DEF HubInv, TypeOK, Frames, MembersAreConnected, FramesAreInPlace,
        NothingOutside, StillComesFirst, QueueHoldsNewest, FramesAreNew, stream
<1>1. CASE DeleteCommits
  BY <1>1 DEF DeleteCommits, hub
<1>2. CASE ForgetStill
  BY <1>2 DEF ForgetStill, NoStill
<1>3. CASE ForgetViewers
  BY <1>3 DEF ForgetViewers
<1>4. CASE LoopStops
  BY <1>4 DEF LoopStops, hub
<1>5. CASE StillAges
  BY <1>5 DEF StillAges, camera
<1> QED
  BY <1>1, <1>2, <1>3, <1>4, <1>5 DEF Delete

LEMMA JoinKeeps ==
  ASSUME HubInv, NEW v \in Viewers, Join(v)
  PROVE  HubInv'
<1> USE HubBoundsAreNat DEF HubInv, TypeOK, Frames, MembersAreConnected, FramesAreInPlace,
        NothingOutside, StillComesFirst, QueueHoldsNewest, FramesAreNew, Outside, camera
<1>1. CASE AskCamera(v)
  BY <1>1, ZenonT(30) DEF AskCamera, hub, stream
<1>2. CASE Refuse(v)
  BY <1>2 DEF Refuse, hub, stream
<1>3. CASE Admit(v)
  BY <1>3 DEF Admit, hub, stream
<1>4. CASE GreetingFails(v)
  BY <1>4 DEF GreetingFails, hub, stream
<1>5. CASE Subscribe(v)
  BY <1>5 DEF Subscribe, LoopIsFree, AllJobs
<1>6. CASE StillSent(v)
  BY <1>6 DEF StillSent, hub, AllJobs
<1>7. CASE StillFails(v)
  BY <1>7 DEF StillFails, hub, stream
<1>8. CASE Accept(v)
  BY <1>8 DEF Accept, hub, stream
<1>9. CASE AuthenticationFails(v)
  BY <1>9 DEF AuthenticationFails, hub, stream
<1>10. CASE Authenticated(v)
  BY <1>10 DEF Authenticated, hub, stream
<1> QED
  BY <1>1, <1>2, <1>3, <1>4, <1>5, <1>6, <1>7, <1>8, <1>9, <1>10 DEF Join

LEMMA StreamKeeps ==
  ASSUME HubInv, NEW v \in Viewers, Stream(v)
  PROVE  HubInv'
<1> USE HubBoundsAreNat DEF HubInv, TypeOK, Frames, MembersAreConnected, FramesAreInPlace,
        NothingOutside, StillComesFirst, QueueHoldsNewest, FramesAreNew, camera, hub, Runs
<1>1. CASE Collect(v)
  BY <1>1 DEF Collect, Outside
<1>2. CASE FrameSent(v)
  BY <1>2 DEF FrameSent, Outside
<1>3. CASE SenderFails(v)
  BY <1>3 DEF SenderFails, Finishes, stream
<1>4. CASE ReceiverEnds(v)
  BY <1>4 DEF ReceiverEnds, Finishes, stream
<1>5. CASE PingerEnds(v)
  BY <1>5 DEF PingerEnds, Finishes, stream
<1> QED
  BY <1>1, <1>2, <1>3, <1>4, <1>5 DEF Stream

LEMMA PartKeeps ==
  ASSUME HubInv, NEW v \in Viewers, Part(v)
  PROVE  HubInv'
<1> USE HubBoundsAreNat DEF HubInv, TypeOK, Frames, MembersAreConnected, FramesAreInPlace,
        NothingOutside, StillComesFirst, QueueHoldsNewest, FramesAreNew, Outside, camera
<1>1. CASE ConnectionEnds(v)
  BY <1>1 DEF ConnectionEnds, hub, stream
<1>2. CASE Leave(v)
  BY <1>2 DEF Leave
<1>3. CASE ClientGoes(v)
  BY <1>3 DEF ClientGoes, hub, stream
<1> QED
  BY <1>1, <1>2, <1>3 DEF Part

LEMMA HubStepHolds == HubInv /\ [HubNext]_hubVars => HubInv'
<1> SUFFICES ASSUME HubInv, [HubNext]_hubVars PROVE HubInv'
  OBVIOUS
<1>1. CASE UNCHANGED hubVars
  BY <1>1 DEF hubVars, camera, hub, stream, HubInv, TypeOK, MembersAreConnected, FramesAreInPlace,
              NothingOutside, StillComesFirst, QueueHoldsNewest, FramesAreNew
<1>2. CASE HubNext
  BY <1>2, PublishKeeps, CameraKeeps, JoinKeeps, StreamKeeps, PartKeeps DEF HubNext
<1> QED
  BY <1>1, <1>2

\* Frames, queues and hands are well typed, whatever viewers and the request thread do.
THEOREM HubTypeCorrect == HubSpec => []TypeOK
<1>1. HubInv => TypeOK
  BY DEF HubInv
<1> QED
  BY <1>1, HubInitHolds, HubStepHolds, PTL DEF HubSpec

\* Every member of the hub's set has an endpoint that is running (camera_stream's
\* finally clause runs on every way out).
THEOREM MembersConnected == HubSpec => []MembersAreConnected
<1>1. HubInv => MembersAreConnected
  BY DEF HubInv
<1> QED
  BY <1>1, HubInitHolds, HubStepHolds, PTL DEF HubSpec

\* The newest frame offered to a viewer is in its queue or in its sender's hand.
THEOREM FramesInPlace == HubSpec => []FramesAreInPlace
<1>1. HubInv => FramesAreInPlace
  BY DEF HubInv
<1> QED
  BY <1>1, HubInitHolds, HubStepHolds, PTL DEF HubSpec

-----------------------------------------------------------------------------
(* The refinement: each step is, for each viewer, a step of LatestWins or none. *)

LEMMA OfferRefines ==
  ASSUME HubInv, NEW v \in Viewers, Offer
  PROVE  [Feed(v)!Next]_(Feed(v)!vars)
<1>1. CASE v \in members
  <2>1. offered'[v] = frame /\ offered'[v] > offered[v] /\ hand' = hand /\ got' = got
    BY <1>1 DEF Offer, HubInv, TypeOK, Frames, FramesAreInPlace, FramesAreNew
  <2> QED
    BY <2>1 DEF Feed!Next, Feed!Offer
<1>2. CASE v \notin members
  BY <1>2 DEF Offer, HubInv, TypeOK, Feed!vars
<1> QED
  BY <1>1, <1>2

LEMMA ViewerRefines ==
  ASSUME HubInv, NEW v \in Viewers, NEW u \in Viewers, Join(u) \/ Stream(u) \/ Part(u)
  PROVE  [Feed(v)!Next]_(Feed(v)!vars)
<1>1. CASE UNCHANGED <<hand, got, offered>>
  BY <1>1 DEF Feed!vars
<1>2. CASE u # v /\ ~UNCHANGED <<hand, got, offered>>
  BY <1>2 DEF Join, Accept, AuthenticationFails, Authenticated, AskCamera, Refuse, Admit,
              GreetingFails, Subscribe, StillSent, StillFails,
              Stream, Collect, FrameSent, SenderFails, ReceiverEnds, PingerEnds,
              Part, ConnectionEnds, Leave, ClientGoes, stream, HubInv, TypeOK, Feed!vars
<1>3. CASE u = v /\ Subscribe(v)
  <2>1. CASE still.fresh
    <3>1. offered[v] = 0 /\ hand[v] = 0 /\ got[v] = 0
      BY <1>3 DEF Subscribe, HubInv, FramesAreInPlace, NothingOutside, Outside
    <3>2. offered'[v] = still.frame /\ hand'[v] = still.frame /\ got' = got /\ still.frame > 0
      BY <1>3, <2>1 DEF Subscribe, HubInv, TypeOK, FramesAreInPlace, FramesAreNew
    <3> QED
      BY <3>1, <3>2 DEF Feed!Next, Feed!Welcome
  <2>2. CASE ~still.fresh
    BY <1>3, <2>2 DEF Subscribe, Feed!vars
  <2> QED
    BY <2>1, <2>2
<1>4. CASE u = v /\ (StillSent(v) \/ FrameSent(v))
  <2>1. hand[v] # got[v] /\ got'[v] = hand[v] /\ hand' = hand /\ offered' = offered
    BY <1>4 DEF StillSent, FrameSent, HubInv, TypeOK, Frames, FramesAreInPlace, StillComesFirst
  <2> QED
    BY <2>1 DEF Feed!Next, Feed!Deliver
<1>5. CASE u = v /\ Collect(v)
  <2>1. /\ hand[v] = got[v] /\ hand[v] # offered[v]
        /\ hand'[v] = offered[v] /\ got' = got /\ offered' = offered
    BY <1>5 DEF Collect, HubInv, TypeOK, FramesAreInPlace, QueueHoldsNewest
  <2> QED
    BY <2>1 DEF Feed!Next, Feed!Collect
<1>6. CASE u = v /\ Leave(v)
  BY <1>6 DEF Leave, HubInv, TypeOK, Feed!Next, Feed!Leave
<1> QED
  BY <1>1, <1>2, <1>3, <1>4, <1>5, <1>6
  DEF Join, Accept, AuthenticationFails, Authenticated, AskCamera, Refuse, Admit,
      GreetingFails, StillFails, Stream, SenderFails, ReceiverEnds, PingerEnds, Part,
      ConnectionEnds, ClientGoes, stream

LEMMA StepRefines ==
  HubInv /\ [HubNext]_hubVars => [\A v \in Viewers : [Feed(v)!Next]_(Feed(v)!vars)]_hubVars
<1> SUFFICES ASSUME HubInv, HubNext, NEW v \in Viewers PROVE [Feed(v)!Next]_(Feed(v)!vars)
  OBVIOUS
<1>1. CASE SkipFrame \/ EncodeFrame \/ KeepStill \/ Delete \/ StillAges
  BY <1>1 DEF SkipFrame, EncodeFrame, KeepStill, Delete, DeleteCommits, ForgetStill,
              ForgetViewers, LoopStops, StillAges, stream, Feed!vars
<1> QED
  BY <1>1, OfferRefines, ViewerRefines DEF HubNext, Publish

\* For any number of viewers, what each is sent follows LatestWins: always the newest
\* frame published for it, never back (Subscriber.offer, camera_stream).
THEOREM ViewersFollowLatestWins == HubSpec => ViewersGetTheLatest
<1>1. HubInit => \A v \in Viewers : Feed(v)!Init
  BY DEF HubInit, Feed!Init
<1> QED
  BY <1>1, HubInitHolds, HubStepHolds, StepRefines, PTL DEF HubSpec, ViewersGetTheLatest
=============================================================================
