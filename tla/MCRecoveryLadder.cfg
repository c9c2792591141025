SPECIFICATION LiveSpec
CONSTANTS
  Scenarios <- MCScenarios
  MaxWarm = 2
  MaxFault = 2
  FastCount = 3
  MemoryCount = 3
  StationCount = 2
  WarmCount = 3
  RebuildEvery = 1
  MemoryWait = 1
  Gate = 2
  Stable = 2
  AfterReady = 3
  ApTimeout = 4
  Long = 5
  OutageCap = 14
CHECK_DEADLOCK FALSE
INVARIANTS WarmReloadsBounded LadderSound SafeModeBounded OutageBounded
PROPERTY NeverStuck
