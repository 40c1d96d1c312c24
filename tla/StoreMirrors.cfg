SPECIFICATION StoreSpec
CONSTANTS
  Commands = {r1, r2, r3}
  Toppings = {t1, t2}
  None = None
INVARIANTS FieldsSettle PricesSettle
CHECK_DEADLOCK FALSE
