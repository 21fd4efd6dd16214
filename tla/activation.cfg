SPECIFICATION Spec
CONSTANTS
  Server = {s1, s2}
  Latest = 3
  Release = {2, 3}
INVARIANTS TypeOK VersionTrue ActiveHasSchema MigrationsInOrder
PROPERTIES ActivationEnds
