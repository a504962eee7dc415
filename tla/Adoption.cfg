SPECIFICATION Spec
CONSTANTS
  Names <- TwoNames
  Offers <- Hosts
  k0 = k0
  k1 = k1
  k2 = k2
  Own <- k0
  None = None
  MaxEdits = 1
  MaxBinds = 2
  MaxCrashes = 2
INVARIANTS Preserved NothingForeign IdentityAgrees
PROPERTIES Adopts
CHECK_DEADLOCK FALSE
