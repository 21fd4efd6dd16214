SPECIFICATION Spec
CONSTANTS
  NodeId = {n1, n2, n3}
  NoParent = NoParent
  Source = {hr}
  Local = Local
  ExtId = {x1}
  NoExt = NoExt
  MaxPathLen = 3
  Session = {s1}
  Strategies = {"cascade"}
  StaleIds = FALSE
PROPERTY UpsertMoves
CHECK_DEADLOCK FALSE
