SPECIFICATION Spec
CONSTANTS
  r1 = r1
  d1 = d1
  d2 = d2
  Root <- OneRoot
  Daemons <- OneDaemon
  None = None
  Authority = TRUE
  MaxEdits = 2
  MaxPackages = 2
  MaxInstances = 1
  MaxEpoch = 2
  MaxEvents = 1
INVARIANTS MirrorOfSelection
PROPERTIES NothingOlder MirrorCurrent
CHECK_DEADLOCK FALSE
