CONSTANTS
  Tabs = {t}
  Requests = {r, q}
  Cookies = {c1, c2, c3, c4}
  NoCookie = none
  MaxWaits = 2
  MaxTimers = 2
  MaxFrames = 3
  Codes = {a, b}
  NoCode = nothing
  Shapes = {s}
  Limit = 2
  MinVertices = 2
SPECIFICATION Spec
INVARIANTS OneConnection NewestPictureIsShown EditorKnowsWhatIsSaved
PROPERTIES SessionsAreKept ViewComesBack UndoWalksTheHistory
CHECK_DEADLOCK FALSE
