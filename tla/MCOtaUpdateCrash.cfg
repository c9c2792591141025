SPECIFICATION FairSpec
CONSTANTS
  v1 = v1
  v2 = v2
  shared = shared
  both = both
  only1 = only1
  only2 = only2
  Versions = {v1, v2}
  Paths = {shared, only1, only2}
  Has <- MCHas
  Absent = Absent
  Torn = Torn
  NoTxn = NoTxn
  NoManifest = NoManifest
  NoPath = NoPath
  Down = Down
  NoTrial = NoTrial
  MaxFaults = 0
  MaxInbox = 2
INVARIANTS RollbackCovered NoWipeWhileGuarded ImageSound
PROPERTIES OneTrial TransferEnds
