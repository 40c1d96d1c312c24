SPECIFICATION FairSpec
CONSTANTS
  Orders = {o1}
  Slots = {s1, s2}
  Hooks = {h1, h2}
  MaxFaults = 1
PROPERTIES PaymentIdUpdateKeepsStatus
CHECK_DEADLOCK FALSE
