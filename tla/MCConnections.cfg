CONSTANTS
  Requests = {"q1", "q2", "q3", "q4"}
  Exempt = {"q4"}
  Waits = {"w1", "w2"}
  Sockets = {"c1", "c2", "c3"}
  Users = {"u1", "u2"}
  MaxPerUser = 2
  Streams = {"s1", "s2"}
  MaxMessages = 2
  Null = Null
SPECIFICATION MCSpec
CHECK_DEADLOCK FALSE
INVARIANTS
  DrainedIsDrained
  WaitingIsBusy
  HubIsSound
  FifoLossless
PROPERTIES
  WaitsEnd
  DeadAreDropped
  CloseDrains
