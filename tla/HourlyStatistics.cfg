CONSTANTS
  Slots = {a}
  TicksPerHour = 2
  FirstPlausible = 1
  HoursPerRun = 2
  Retention = 2
  BatchSize = 1
  MaxTick = 8
  MaxRecorded = 2
  MaxBoots = 1
  MaxRebuilds = 1
SPECIFICATION FairStatisticsSpec
INVARIANTS StatsMatchHistory NoHourIsLeftOut
PROPERTIES AggregatedOnce HoursAreAggregated
