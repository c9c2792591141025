SPECIFICATION FairSpec
CONSTANTS
  configSet = configSet
  logsGet = logsGet
  channelSet = channelSet
  DeviceTopics <- MCDeviceTopics
  SwitchTopics <- MCSwitchTopics
  ConfigTopic = configSet
  HasSensor = TRUE
  Discovery = TRUE
  AllocFaults = TRUE
  Unclassified = TRUE
  SensorLoss = FALSE
  MaxFaults = 2
  MaxWork = 2
INVARIANTS OperationalSubscribed RecoveryReusesQueue ResultsSound
PROPERTIES SnapshotNeverRegresses EventuallyOperational
