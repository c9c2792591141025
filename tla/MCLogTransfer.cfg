SPECIFICATION FairSpec
CONSTANTS
  Files = {recovery}
  Clients = {a, b}
  MaxLog = 3
  ChunkSize = 2
  ReuseIds = FALSE
  MaxRequests = 2
  MaxAppends = 2
  MaxFaults = 1
  Missing = Missing
  Nobody = Nobody
INVARIANT StoreSound
PROPERTY DeviceEndsIt
CHECK_DEADLOCK FALSE
