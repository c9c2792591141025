SPECIFICATION Spec
CONSTANTS
  setup = setup
  restart = restart
  tune = tune
  both = both
  broken = broken
  state = state
  halt = halt
  offset = offset
  start = start
  cancel = cancel
  relay = relay
  prepare = prepare
  logs = logs
  broker = broker
  ssid = ssid
  topic = topic
  zone = zone
  ph = ph
  lamp = lamp
  Messages = {setup, restart, tune, both, broken, state, halt, offset, start, cancel, relay, prepare, logs}
  Kind <- MCKind
  Id <- MCId
  Updates <- MCUpdates
  Restarts = {tune, restart}
  Bearers = {setup, tune, both, state}
  Keys = {broker, ssid, topic, zone, ph, lamp}
  Durable = {broker, ssid, topic}
  OnlyStored <- MCOnlyStored
  Ph = ph
  Base = topic
  Relays = {lamp}
  Factory = 0
  Unknown = Unknown
  Poison = Poison
  Reference = 4
  SampleCount = 2
  Limit = 1
  MaxDeliveries = 3
  MaxFaults = 1
  NoId = NoId
  Idle = Idle
  NoCopies = NoCopies
INVARIANTS ReportsSound 
PROPERTIES NothingAfterHalt CalibrationExact
