SPECIFICATION FairSpec
CONSTANTS
  Orders = {o1}
  Slots = {s1, s2}
  Hooks = {h1, h2}
  MaxFaults = 1
INVARIANTS PreparedOnlyIfPaid ConfirmedOnce GatewayAgrees
PROPERTIES NeverReopened KeepsPaymentOutcome PaidSettles
CHECK_DEADLOCK FALSE
