SPECIFICATION Spec
CONSTANTS
  Peer = {p1, p2}
  Job = {j1, j2}
  None = None
  Chunks = 2
  QueueLimit = 2
  JobLimit = 2
  MaxStarts = 2
  MaxChanges = 2
SYMMETRY Symmetry
INVARIANTS FinalIsFinal ImageOfJob QueuePumped
CHECK_DEADLOCK FALSE
