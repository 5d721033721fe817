CONSTANTS
  Window = 2
  Threshold = 2
  Slots = {a}
  Places = {p, q}
  NoPlace = NoPlace
  MaxEdits = 1
  MaxMoves = 1
  MaxMisreads = 1
  MaxFailures = 1
SPECIFICATION Spec
INVARIANTS TrackerAgrees ReportedStateWasSeen
PROPERTY RowsChain
