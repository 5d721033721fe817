------------------------------ MODULE SlotEditor ------------------------------
(***************************************************************************)
(* The editor of a camera's slot map (frontend features/roi-editor): the   *)
(* reducer with its undo history, the keyboard, the save dialog, and the   *)
(* map the server keeps (services/slot_map_service.py).                    *)
(*                                                                         *)
(* A map gives each code a shape, which stands for everything else a slot  *)
(* has: floor, vertices, place in the list, and the key of the session.    *)
(* No code is drawn twice: such a map is not sent.                         *)
(***************************************************************************)
EXTENDS Naturals, Sequences

CONSTANTS
  Codes,
  NoCode,
  Shapes,
  Limit,      \* HISTORY_LIMIT
  MinVertices \* MIN_SLOT_VERTICES

ASSUME EditorBounds == {Limit, MinVertices} \subseteq Nat \ {0} /\ NoCode \notin Codes

VARIABLES
  slots,     \* RoiEditorState, with past and future of its history
  past,
  future,
  baseline,
  dirty,
  draft,     \* vertices of the half-drawn polygon
  selection, \* the code of the selected polygon, or NoCode
  drag,      \* the code of the polygon being dragged, or NoCode
  dialog,    \* [open, removed]: confirmOpen, and the removed codes of the diff shown
  put,       \* the request under way: [sent, map, allow]
  stored,    \* the map on the server
  estranged  \* history: since the page was opened the map was changed while a request was
             \* under way, or an answer was lost, or somebody else has saved; or it was
             \* opened with an old answer

editorVars == <<slots, past, future, baseline, dirty, draft, selection, drag, dialog, put,
                stored, estranged>>

editing == <<slots, past, future, baseline, dirty, draft, selection, drag>>
saving == <<dialog, put, stored, estranged>>

Maps == UNION {[drawn -> Shapes] : drawn \in SUBSET Codes}
Empty == [c \in {} |-> CHOOSE s \in Shapes : TRUE]

NoRequest == [sent |-> FALSE, map |-> Empty, allow |-> FALSE]
Closed == [open |-> FALSE, removed |-> {}]

With(m, c, s) == [d \in DOMAIN m \cup {c} |-> IF d = c THEN s ELSE m[d]]
Without(m, c) == [d \in DOMAIN m \ {c} |-> m[d]]

EditorInit ==
  /\ stored \in Maps /\ slots = stored /\ baseline = stored
  /\ past = <<>> /\ future = <<>> /\ dirty = FALSE
  /\ draft = 0 /\ selection = NoCode /\ drag = NoCode
  /\ dialog = Closed /\ put = NoRequest
  /\ estranged = FALSE

-----------------------------------------------------------------------------
(* The reducer *)

\* !slotsEqual(slots, state.baseline)
IsDirty(map) == map # baseline

\* While a request is under way the map that will be marked as saved is changing.
Becomes(map) ==
  /\ slots' = map
  /\ dirty' = IsDirty(map)
  /\ estranged' = (estranged \/ (put.sent /\ map # slots))
  /\ UNCHANGED <<baseline, dialog, put, stored>>

\* A fresh edit after an undo invalidates what could be redone.
FutureAfterEdit == <<>>

\* pushHistory
Push ==
  LET all == Append(past, slots)
  IN /\ past' = IF Len(all) > Limit THEN Tail(all) ELSE all
     /\ future' = FutureAfterEdit

\* The mask of the dialog lies over the page, and the pointer drags one thing at a time;
\* the keyboard is heard all the same.
AtHand == ~dialog.open /\ drag = NoCode

\* More vertices than a polygon needs make no difference.
AddVertex ==
  /\ AtHand /\ draft < MinVertices
  /\ draft' = draft + 1
  /\ UNCHANGED <<slots, past, future, baseline, dirty, selection, drag, saving>>

\* CLOSE_DRAFT, by Enter or by a click: the first code that is free, under a new key, so
\* that it is not the polygon that once had that code.
CloseDraft ==
  /\ draft >= MinVertices
  /\ \E c \in Codes \ DOMAIN slots, s \in Shapes :
       /\ c \in DOMAIN baseline => baseline[c] # s
       /\ Becomes(With(slots, c, s)) /\ selection' = c
  /\ Push
  /\ draft' = 0
  /\ UNCHANGED drag

CancelDraft ==
  /\ draft > 0
  /\ draft' = 0
  /\ UNCHANGED <<slots, past, future, baseline, dirty, selection, drag, saving>>

\* INSERT_VERTEX, DELETE_VERTEX (also by the Delete key) and RENAME_SLOT, of a floor or a
\* code.
Reshape ==
  /\ \E c \in DOMAIN slots, s \in Shapes, d \in Codes :
       /\ d = c \/ (AtHand /\ s = slots[c] /\ d \notin DOMAIN slots)
       /\ Becomes(With(Without(slots, c), d, s))
       /\ selection' \in {d, NoCode}
  /\ Push
  /\ UNCHANGED <<draft, drag>>

\* DELETE_SLOT, by the inspector's button or by the Delete key.
DeleteSlot ==
  /\ selection # NoCode
  /\ Becomes(Without(slots, selection))
  /\ Push
  /\ selection' = NoCode
  /\ UNCHANGED <<draft, drag>>

Select ==
  /\ AtHand
  /\ selection' \in (DOMAIN slots \cup {NoCode}) \ {selection}
  /\ UNCHANGED <<slots, past, future, baseline, dirty, draft, drag, saving>>

BeginDrag ==
  /\ AtHand
  /\ drag' \in DOMAIN slots
  /\ Push
  /\ UNCHANGED <<slots, baseline, dirty, draft, selection, saving>>

\* MOVE_POLYGON or MOVE_VERTEX: nothing is pushed.  Undone in mid-drag, the polygon may be
\* gone, or be there under another code.
Move ==
  /\ drag # NoCode
  /\ \/ drag \notin DOMAIN slots /\ Becomes(slots)
     \/ \E c \in DOMAIN slots, s \in Shapes :
          (drag \in DOMAIN slots => c = drag) /\ Becomes(With(slots, c, s))
  /\ drag' \in {drag, NoCode}
  /\ UNCHANGED <<past, future, draft, selection>>

LastOfFuture == Append(future, slots)

\* What was undone is the next to be redone.
FutureAfterUndo == <<slots>> \o future

\* Ctrl+Z: while a polygon is being drawn, it takes back a vertex.
UndoKey ==
  \/ /\ draft > 0
     /\ draft' = draft - 1
     /\ UNCHANGED <<slots, past, future, baseline, dirty, selection, drag, saving>>
  \/ /\ draft = 0 /\ past # <<>>
     /\ Becomes(past[Len(past)])
     /\ past' = SubSeq(past, 1, Len(past) - 1) /\ future' = FutureAfterUndo
     /\ selection' = NoCode
     /\ UNCHANGED <<draft, drag>>

RedoKey ==
  /\ future # <<>>
  /\ Becomes(Head(future))
  /\ past' = Append(past, slots) /\ future' = Tail(future)
  /\ selection' = NoCode /\ draft' = 0
  /\ UNCHANGED drag

\* LOAD of the baseline, by the toolbar.
Discard ==
  /\ AtHand /\ dirty
  /\ slots' = baseline /\ past' = <<>> /\ future' = <<>> /\ dirty' = FALSE
  /\ draft' = 0 /\ selection' = NoCode
  /\ estranged' = (estranged \/ put.sent)
  /\ UNCHANGED <<baseline, drag, dialog, put, stored>>

-----------------------------------------------------------------------------
(* useRoiEditorSave *)

\* requestSave; the button shows that a request is under way, and takes no click.
RequestSave ==
  /\ AtHand /\ ~put.sent
  /\ dialog' = [open |-> TRUE, removed |-> DOMAIN baseline \ DOMAIN slots]
  /\ UNCHANGED <<editing, put, stored, estranged>>

ConfirmSave ==
  /\ dialog.open /\ ~put.sent
  /\ put' = [sent |-> TRUE, map |-> slots, allow |-> dialog.removed # {}]
  /\ UNCHANGED <<editing, dialog, stored, estranged>>

CancelConfirm ==
  /\ dialog.open
  /\ dialog' = [dialog EXCEPT !.open = FALSE]
  /\ UNCHANGED <<editing, put, stored, estranged>>

BaselineKept == baseline

\* MARK_SAVED takes what the editor holds now.
BaselineMarked == slots

MarkSaved ==
  /\ baseline' = BaselineMarked /\ dirty' = FALSE
  /\ dialog' = [dialog EXCEPT !.open = FALSE]

\* slot_map_service.replace: a code is only left out when that was allowed.
IsAllowed == put.allow \/ DOMAIN stored \subseteq DOMAIN put.map

IsRefused == ~IsAllowed

\* The request may have been lost.
MayBeStored == {stored} \cup IF put.sent /\ IsAllowed THEN {put.map} ELSE {}

\* The answer, and how the save ends: done, refused, or without an answer and the map
\* replaced or not.
SaveEnds ==
  /\ put.sent
  /\ put' = NoRequest
  /\ stored' \in MayBeStored
  /\ \/ /\ IsAllowed => stored' = put.map
        /\ IF IsRefused THEN UNCHANGED <<baseline, dirty, dialog>> ELSE MarkSaved
        /\ UNCHANGED estranged
     \/ /\ estranged' = (estranged \/ stored' # stored)
        /\ UNCHANGED <<baseline, dirty, dialog>>
  /\ UNCHANGED <<slots, past, future, draft, selection, drag>>

\* Another administrator, or the same in another tab, once between two loads of the page.
SomebodySaves ==
  /\ ~estranged
  /\ stored' \in Maps \ {stored}
  /\ estranged' = TRUE
  /\ UNCHANGED <<editing, dialog, put>>

\* The page is left, with a save under way or not, and opened again: useRoiEditorData loads
\* the answer useSlotMapQuery has at hand, the newest or one of before, and no other after it.
LoadAgain ==
  /\ put' = NoRequest /\ stored' \in MayBeStored
  /\ \E answer \in Maps :
       /\ slots' = answer /\ baseline' = answer
       /\ estranged' = (answer # stored')
  /\ past' = <<>> /\ future' = <<>> /\ dirty' = FALSE
  /\ draft' = 0 /\ selection' = NoCode /\ drag' = NoCode
  /\ dialog' = Closed

EditorNext ==
  \/ AddVertex \/ CloseDraft \/ CancelDraft \/ Reshape \/ DeleteSlot \/ Select
  \/ BeginDrag \/ Move \/ UndoKey \/ RedoKey \/ Discard
  \/ RequestSave \/ ConfirmSave \/ CancelConfirm \/ SaveEnds
  \/ SomebodySaves \/ LoadAgain

-----------------------------------------------------------------------------
(* Properties *)

Document == INSTANCE EditHistory WITH
  Versions <- Maps, line <- past \o <<slots>> \o future, place <- Len(past) + 1

\* The two stacks and the slots are one line of versions: undo and redo walk on it, an
\* edit drops what lies ahead, and only the oldest versions are forgotten.
UndoWalksTheHistory == Document!HistorySpec

\* The editor knows whether there is something to save, whatever was undone, redone,
\* dragged or saved in between.
DirtyIsTrue == dirty = (slots # baseline)

\* What the editor does not call unsaved is what the server has, unless the map was changed
\* while a request was under way, an answer was lost, or somebody else has saved.
SavedMeansStored == ~dirty /\ ~estranged /\ ~put.sent => slots = stored

\* The editor tells the operator the truth about what is saved (slotsEqual, MARK_SAVED).
EditorKnowsWhatIsSaved == DirtyIsTrue /\ SavedMeansStored
=============================================================================
