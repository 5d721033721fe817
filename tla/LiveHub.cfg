CONSTANTS
  Viewers = {v, w}
  MaxViewers = 1
  MaxPublished = 2
SPECIFICATION FairSpec
PROPERTIES ViewersGetTheLatest GoneViewersLeave PatientViewersCatchUp
CHECK_DEADLOCK FALSE
