SPECIFICATION FairSpec
CONSTANTS
  RuleIds = {r1, r2}
  Channels = {c1, c2}
  r1 = r1
  r2 = r2
  c1 = c1
  c2 = c2
  hot = hot
  late = late
  Scripts = {hot, late}
  Overlong = {hot}
  Groups <- MCGroups
  Actions <- MCActions
  MaxDelay = 1
  MaxRules = 2
  MaxFaults = 1
  NoRule = NoRule
  NoState = NoState
  Nobody = Nobody
  Missing = Missing
INVARIANTS InForce RulesSound
PROPERTIES OwnershipKept Settles
