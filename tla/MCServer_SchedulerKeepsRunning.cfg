SPECIFICATION FairServerSpec

CONSTANTS
  Instance = {i1}
  Handler = {h1, h2}
  PoolMax = 2
  MaxOutages = 1

PROPERTY SchedulerKeepsRunning

CHECK_DEADLOCK FALSE
