SPECIFICATION Spec
CONSTANTS
  v1 = v1
  v2 = v2
  shared = shared
  both = both
  only1 = only1
  only2 = only2
  Versions = {v1, v2}
  Paths = {shared, both}
  Has <- MCHas
  Absent = Absent
  Torn = Torn
  NoTxn = NoTxn
  NoManifest = NoManifest
  NoPath = NoPath
  Down = Down
  NoTrial = NoTrial
  MaxFaults = 1
  MaxInbox = 1
SYMMETRY MCAlike
INVARIANT ReplacedNeverMixed
