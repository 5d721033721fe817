\* One camera is enough: its loop crashes while a detection runs, and is disabled.
SPECIFICATION FairSpec
CONSTANTS
  MaxCameras = 1
  MaxEdits = 2
PROPERTY
  SignalsAreActedOn
CHECK_DEADLOCK FALSE
