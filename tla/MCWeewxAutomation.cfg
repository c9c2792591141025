SPECIFICATION FairSpec
CONSTANTS
  Names = {fan, lamp}
  fan = fan
  lamp = lamp
  Books <- MCBooks
  Timeout = 1
  CleanupRetry = 1
  Ids = {i1, i2, i3, i4, i5, i6}
  MaxOutbox = 1
  MaxWire = 4
  Allowed = {"weather", "manual", "loss", "link", "restart", "edit", "save", "unread"}
  MaxEvents = 2
  NoRule = NoRule
  Nothing = Nothing
INVARIANT DecisionsSound
PROPERTIES ForgottenOnceBack Followed
CHECK_DEADLOCK FALSE
