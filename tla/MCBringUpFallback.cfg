CONSTANTS
  s1 = s1
  s2 = s2
  blank = blank
  custom = custom
  Serials <- MCSerials
  Unset = blank
  Chosen = custom
  Hardware <- MCHardware
  MaxFaults = 0
  ResetCount = 1
  RebootCount = 2
  Backoff = 1
  AfterReady = 1
  ApIdle = 1
  GiveUp = 2
  MaxOutages = 0
  MaxSaves = 1
  MaxDnsFailures = 2
  MaxResyncs = 0
SPECIFICATION FairSpec
PROPERTIES WrongCredentialsReachAp
