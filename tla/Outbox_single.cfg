CONSTANTS
  Events = {"e1", "e2"}
  Relays = {"A"}
  Loops = {1}
  MaxAttempts = 2
  Backoff = 1
  BatchSize = 1
  MaxFaults = 2
SPECIFICATION FairSpec
INVARIANTS
  TypeOK
  TriesAreBounded
PROPERTY ImplementsDelivery
