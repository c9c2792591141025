SPECIFICATION Spec
CONSTANTS
  Size = 5
  ChunkSize = 2
  Faults = {"lost", "io", "flash", "hash"}
  MaxFaults = 3
CHECK_DEADLOCK FALSE
INVARIANT PushSound
PROPERTY PushIsOneStep
