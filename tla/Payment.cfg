SPECIFICATION FairSpec
CONSTANTS
  Calls = {c1}
  Hooks = {h1, h2}
  Gateways = {g1, g2, g3}
  NoGateway = NoGateway
  MaxFaults = 2
INVARIANTS PayableIsReferenced
PROPERTIES KeepsPaymentOutcome PaidIsCredited
CHECK_DEADLOCK FALSE
