SPECIFICATION Spec
CONSTANTS
  Addresses = {a1, a2}
  Orders = {k1, k2}
  MaxPhones = 2
  MaxRetries = 1
  NoPhone = NoPhone
  Idle = Idle
INVARIANTS AddressHasOwner PhoneSettles DefaultHasReason
CHECK_DEADLOCK FALSE
