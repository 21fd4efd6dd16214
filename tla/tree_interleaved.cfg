SPECIFICATION BoundedSpec
CONSTANTS
  NodeId = {n1, n2, n3}
  NoParent = NoParent
  Source = {hr}
  Local = Local
  ExtId = {x1}
  NoExt = NoExt
  MaxPathLen = 4
  MaxRequests = 6
  Session = {s1, s2}
  Strategies = {"cascade", "promote"}
  StaleIds = TRUE
SYMMETRY Symmetry
INVARIANTS TypeOK PathWellFormed ParentOnPath
CHECK_DEADLOCK FALSE
