CONSTANTS
  Window = 3
  Threshold = 2
  Slots = {a}
  Places = {p}
  NoPlace = NoPlace
  MaxEdits = 1
  MaxMoves = 1
  MaxMisreads = 1
  MaxFailures = 1
SPECIFICATION FairSpec
PROPERTIES StableSceneIsReported ReportReachesDatabase EditsAreLoaded
