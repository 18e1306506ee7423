CONSTANTS
  Events = {"e1"}
  Relays = {"A", "B"}
  Loops = {1, 2}
  MaxAttempts = 2
  Backoff = 1
  BatchSize = 1
  MaxFaults = 1
SPECIFICATION FairSpec
INVARIANTS
  SentWasDelivered
  NeverGivesUpEarly
PROPERTIES
  StopEndsLoops
  EventuallySettled
