CONSTANTS
  Kinds = {"rtsp", "esp32cam_stream", "esp32cam_http"}
  MaxAge = 2
  InitialBackoff = 1
  MaxBackoff = 3
  IdleRetry = 1
  JoinTimeout = 2
  ResyncLag = 1
  ReportEvery = 2
  StartBacklog = 1
  MaxBehind = 5
  ReopenAfter = 2
  BufferLimit = 2
  Bays = {x, y}
  Chars = {"0", "1"}
  MaxSlots = 1
  Refresh = 2
  PushTimeout = 1
  Stale = 3
  MillisWrap = 5
  Names = {n, m}
  Values = {p, q}
  Default = p
  Unset = none
  Updates = {u}
  OfflineAfter = 2
  HealthInterval = 2
SPECIFICATION FairSpec
INVARIANTS JoinProtectsReader SettingsHold
PROPERTIES ReadTellsTheTruth RingTellsTheTruth HealthIsOnRecord
CHECK_DEADLOCK FALSE
