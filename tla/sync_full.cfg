SPECIFICATION MCSpec
CONSTANTS
  NodeId = {n1, n2, n3}
  Source = {hr}
  Local = Local
  ExtId = {x1, x2}
  NoExt = NoExt
  NoParent = NoParent
  MaxPathLen = 2
  MemberId = {m1, m2}
  UserId = {u1, u2}
  Role = {"member"}
  CascadeStrategy = "cascade_delete"
  MaxItems = 2
  MaxSyncs = 2
  MaxEdits = 1
SYMMETRY Symmetry
INVARIANTS TypeOK FullSyncMirrors
PROPERTIES SyncTouchesNamed ParentsComeFirst ListedRootsSurvive
CHECK_DEADLOCK FALSE
