SPECIFICATION Spec
CONSTANTS
  Requests = {r1, r2, r3}
  Sizes = {s1, s2}
  Idle = Idle
  Done = Done
  NoEvent = NoEvent
  NoDoc = NoDoc
  Absent = Absent
SYMMETRY Symmetry
INVARIANTS MirrorsSettle
PROPERTIES FreshSavesAreAnnounced
CHECK_DEADLOCK FALSE
