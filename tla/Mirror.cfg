CONSTANTS
  h = h
  c1 = c1
  Host <- h
  Clients <- OneClient
  Names <- OneName
  Parent <- Flat
  Seed <- FlatSeed
  Folders <- Nobody
  PageLimit = 2
  Policies <- EitherPolicy
  EditCopies = FALSE
  MaxEdits <- Edits
  MaxFailures = 1
SPECIFICATION FairSpec
INVARIANTS JournalPrefix NoLostEdit CursorSound OriginalsConfirmed
PROPERTIES OnlySuperseded Convergence RequestsServed
