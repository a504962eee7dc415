SPECIFICATION Spec
CONSTANTS
  None = None
  Size = 5
  ChunkBytes = 2
  Window = 2
  MaxVersion = 2
  MaxStarts = 2
  MaxFailures = 1
INVARIANTS PublishedWhole DownloadBacked
PROPERTIES NeverOlder Hydrated
CHECK_DEADLOCK FALSE
