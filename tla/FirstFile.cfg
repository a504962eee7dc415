CONSTANTS
  h = h
  c1 = c1
  Host <- h
  Clients <- OneClient
  Names <- OneName
  Parent <- Flat
  Seed <- NoSeed
  Folders <- Nobody
  PageLimit = 2
  Policies <- FullReplica
  EditCopies = TRUE
  MaxEdits <- TwoEdits
  MaxFailures = 0
SPECIFICATION Spec
PROPERTIES HostKeepsContent
