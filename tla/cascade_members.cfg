SPECIFICATION MCSpec
CONSTANTS
  NodeId = {n1, n2}
  Source = {hr}
  Local = Local
  ExtId = {x1, x2}
  NoExt = NoExt
  NoParent = NoParent
  MaxPathLen = 2
  MemberId = {m1}
  UserId = {u1}
  Role = {"member"}
  CascadeStrategy = "cascade_delete"
  MaxItems = 2
  MaxSyncs = 2
  MaxEdits = 2
PROPERTIES CascadeTakesMembers
CHECK_DEADLOCK FALSE
