SPECIFICATION Spec
CONSTANTS
  NodeId = {n1}
  Source = {hr}
  Local = Local
  ExtId = {x1}
  NoExt = NoExt
  MemberId = {m1, m2}
  UserId = {u1, u2}
  Role = {"member", "admin"}
  NoMember = NoMember
  Session = {sync1, admin1}
  SyncSession = {sync1}
  Owner <- MCOwner
PROPERTY AddedIsMember
CHECK_DEADLOCK FALSE
