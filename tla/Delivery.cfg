SPECIFICATION FairSpec
CONSTANTS
  Messages = {m1, m3}
  Poison = {m3}
  NoCopy = NoCopy
  MaxRetryAttempts = 3
  MaxPublishes = 2
  MaxFaults = 2
INVARIANTS NothingLost RepeatsHaveReasons
PROPERTIES PublishedSettles
CHECK_DEADLOCK FALSE
