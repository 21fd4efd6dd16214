SPECIFICATION Spec
CONSTANTS
  NodeId = {n1, n2}
  Source = {hr, oa}
  Local = Local
  ExtId = {x1}
  NoExt = NoExt
  MemberId = {m1, m2, m3}
  UserId = {u1, u2}
  Role = {"member"}
  NoMember = NoMember
  Session = {sync1, admin1}
  SyncSession = {sync1}
  Owner <- MCOwner
SYMMETRY Symmetry
INVARIANTS TypeOK SourceOwnsNode ExternalIdUnique
CHECK_DEADLOCK FALSE
