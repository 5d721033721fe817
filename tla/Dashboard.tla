------------------------------- MODULE Dashboard ------------------------------
(***************************************************************************)
(* The dashboard in a browser: its sign-in, the live view's socket, the    *)
(* picture of the live view, the editor of a slot map.  They share a page  *)
(* and no state; a behaviour is one of theirs.                             *)
(***************************************************************************)
EXTENDS BrowserSession, StreamManager, FrameSwapper, SlotEditor

VARIABLE part

vars == <<sessionVars, streamVars, frameVars, editorVars, part>>

Init ==
  /\ part \in {"session", "stream", "picture", "editor"}
  /\ SessionInit /\ (part # "session" => jar = NoCookie)
  /\ StreamInit /\ (part # "stream" => tab = "visible")
  /\ FrameInit
  /\ EditorInit /\ (part # "editor" => stored = Empty)

SessionStep(action) ==
  part = "session" /\ action /\ UNCHANGED <<streamVars, frameVars, editorVars, part>>
StreamStep(action) ==
  part = "stream" /\ action /\ UNCHANGED <<sessionVars, frameVars, editorVars, part>>
PictureStep(action) ==
  part = "picture" /\ action /\ UNCHANGED <<sessionVars, streamVars, editorVars, part>>
EditorStep(action) ==
  part = "editor" /\ action /\ UNCHANGED <<sessionVars, streamVars, frameVars, part>>

Next ==
  \/ SessionStep(SessionNext) \/ StreamStep(StreamNext)
  \/ PictureStep(FrameNext) \/ EditorStep(EditorNext)

\* A request is answered or fails: fetch does not wait for ever.  Sockets open or fail,
\* frames come, timers fire.  Nobody need show the tab, try again, choose a camera, or save.
Spec ==
  /\ Init /\ [][Next]_vars
  /\ \A t \in Tabs : WF_vars(SessionStep(Refreshes(t)))
  /\ \A t \in Tabs, c \in Callers : WF_vars(SessionStep(Replies(t, c)))
  /\ WF_vars(StreamStep(Opens))
  /\ WF_vars(StreamStep(TokenIsRefused \/ ViewIsRefused \/ Breaks))
  /\ WF_vars(StreamStep(TimerFires))
  /\ WF_vars(StreamStep(\E ok \in BOOLEAN : RefreshEnds(ok)))
  /\ WF_vars(StreamStep(FrameArrives))
=============================================================================
