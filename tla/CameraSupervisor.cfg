\* Two cameras, one of which may be in the way of the other; requests are bounded.
SPECIFICATION FairSpec
CONSTANTS
  MaxCameras = 2
  MaxEdits = 2
INVARIANTS
  OneLoopPerCamera
  SourcesAreOwned
  StoppedIsQuiet
PROPERTIES
  FleetSettles
\* After stop() nothing more happens.
CHECK_DEADLOCK FALSE
