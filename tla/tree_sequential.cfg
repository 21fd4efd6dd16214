SPECIFICATION CascadeSpec
CONSTANTS
  NodeId = {n1, n2, n3, n4}
  NoParent = NoParent
  Source = {hr}
  Local = Local
  ExtId = {x1, x2}
  NoExt = NoExt
  MaxPathLen = 6
  Session = {s1}
  Strategies = {"cascade"}
  StaleIds = FALSE
SYMMETRY Symmetry
INVARIANTS TreeConsistent Acyclic SubTreeByPath BreadcrumbIsLineage RightsInherited EndpointsAgree ListingRebuildsTree
PROPERTY RefinesParentTree
CHECK_DEADLOCK FALSE
