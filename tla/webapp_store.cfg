SPECIFICATION Spec
CONSTANTS
  Node = {n1}
  Request = {r1, r2}
  MaxEvents = 1
INVARIANTS TypeOK LoadInFlight TreeFresh LoadedFresh
PROPERTIES SpinnerStops
CHECK_DEADLOCK FALSE
