SPECIFICATION BoundedSpec
CONSTANTS
  NodeId = {n1, n2, n3}
  NoParent = NoParent
  Source = {}
  Local = Local
  ExtId = {}
  NoExt = NoExt
  MaxPathLen = 3
  Session = {s1, s2}
  Strategies = {"cascade"}
  StaleIds = FALSE
  MaxRequests = 5
SYMMETRY Symmetry
INVARIANT Acyclic
CHECK_DEADLOCK FALSE
