CONSTANTS
  Oldest = 2
  MaxCuts = 1
  Cooldown = 1
  Windows = {1}
  MaxAlerts = 2
  Overstay = 1
  MaxRows = 4
  Writers = {"api", "cli"}
  Keep = 2
  MaxFiles = 4
  Cars = {"p", "q"}
  Confidences = {1, 2}
  SureFrom = 2
  MaxReads = 3
  Loops = {"c1", "c2"}
  Jobs = {"purge", "sweep"}
SPECIFICATION FairSpec
INVARIANTS OneOpenAlert SessionsAreStays GoodBackupRemains 
PROPERTIES AlertComesBack StopIsOrderly
CHECK_DEADLOCK FALSE
