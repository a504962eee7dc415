CONSTANTS
  h = h
  c1 = c1
  Host <- h
  Clients <- OneClient
  Names <- TreeNames
  Parent <- Tree
  Seed <- TreeSeed
  Folders <- OnlyD
  PageLimit = 2
  Policies <- FullReplica
  EditCopies = TRUE
  MaxEdits <- Edits
  MaxFailures = 1
SPECIFICATION Spec
INVARIANTS NoLostEdit
