CONSTANTS
  a = a
  b = b
  None = None
  Container <- OneDrive
  Path = {1, 2}
  MaxRequests = 2
  MaxInspections = 1
  PageSize = 1
  MaxId = 4
  MaxRevision = 2
SPECIFICATION CatalogSpec
INVARIANTS AnsweredOnce MirrorIsSnapshot
PROPERTIES Answered RefreshServed
