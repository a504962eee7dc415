CONSTANTS
  a = a
  b = b
  None = None
  Container <- OneDrive
  Path = {1}
  MaxRequests = 2
  MaxInspections = 1
  PageSize = 1
  MaxId = 2
  MaxRevision = 2
  MaxJobs = 1
  MaxRetry = 1
  MaxOpen = 3
SPECIFICATION DriveSpec
INVARIANTS JobRunsOnce WriteReported
