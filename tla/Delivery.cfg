CONSTANTS
  d1 = d1
  d2 = d2
  i1 = i1
  i2 = i2
  app = app
  Daemons <- TwoDaemons
  Consumers <- OneConsumer
  Instances <- TwoReaders
  ConsumerOf <- SameConsumer
  Limit = 2
  MaxMessages = 4
  MaxCrashes = 2
SPECIFICATION FairSpec
INVARIANTS ExactlyOnce CheckpointHandled
PROPERTIES ImplementsChannel EventuallyHandled
