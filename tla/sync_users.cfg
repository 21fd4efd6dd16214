SPECIFICATION Spec
CONSTANTS
  e1 = e1
  u1 = u1
  u2 = u2
  ExtUser = {e1}
  User = {u1, u2}
  NoUser = NoUser
  MappingId = {m1, m2}
  NoRow = NoRow
  SyncReq = {y1, y2}
  RegisterReq = {g1}
  MaxBusy = 2
  Configured <- MCConfigured
  ByEmail <- MCByEmail
  ByLowerEmail <- MCByLowerEmail
  ByUsername <- MCByUsername
  Items <- MCItems
  y1 = y1
INVARIANTS TypeOK OneMapping AppliedAsMapped
PROPERTIES LogTellsOutcome MatchKeepsMapping LogSettles
CHECK_DEADLOCK FALSE
