SPECIFICATION Spec
CONSTANTS
  Requests = {r1, r2}
  Menus = {{margherita, salami}, {calzone}}
  MaxIds = 5
INVARIANTS OneRestaurant BoughtIsGone AcceptedStays EmptyCartHasReason
CHECK_DEADLOCK FALSE
