CONSTANTS
  a = a
  b = b
  Helpers <- TwoHelpers
  MaxSessions = 2
  MaxBeats = 2
  Together = FALSE
  MaxChanges = 2
  MaxFailures = 1
SPECIFICATION FairSpec
INVARIANTS NoGhost NoResurrection CycleBacked ActivityBacked
PROPERTIES DepartedForgotten
CHECK_DEADLOCK FALSE
