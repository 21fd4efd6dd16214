SPECIFICATION Spec
CONSTANTS
  NodeId = {n1, n2}
  NoParent = NoParent
  Source = {hr}
  Local = Local
  ExtId = {x1}
  NoExt = NoExt
  MaxPathLen = 3
  Session = {s1, s2}
  Strategies = {"cascade"}
  StaleIds = FALSE
INVARIANT ExternalKeyUnique
CHECK_DEADLOCK FALSE
