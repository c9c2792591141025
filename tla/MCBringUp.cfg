CONSTANTS
  s1 = s1
  s2 = s2
  blank = blank
  custom = custom
  Serials <- MCSerials
  Unset = blank
  Chosen = custom
  Hardware <- MCHardware
  MaxFaults = 2
  ResetCount = 1
  RebootCount = 2
  Backoff = 1
  AfterReady = 1
  ApIdle = 1
  GiveUp = 2
  MaxOutages = 1
  MaxSaves = 1
  MaxDnsFailures = 2
  MaxResyncs = 1
SPECIFICATION FairSpec
INVARIANTS IdentitySound UsableSockets AsksTwoWindows
PROPERTIES NothingForgotten EventuallyJoined
