CONSTANTS
  None = "none"
  NoJob = "nojob"
  Publishers = {"p1"}
  Subscribers = {"s1", "s2"}
  MaxCloses = 1
  Subs = {"s1", "s2", "s3"}
  Pubs = {"p1"}
  Starts = {"a1", "a2", "a3"}
  Stops = {"o1", "o2"}
  Tasks = {"t1", "t2"}
  Registered = {"t1"}
  Jobs = {"j1", "j2"}
  Workers = {"w1", "w2"}
  Operators = {"o1", "o2"}
  MaxAttempts = 2
  MaxCrashes = 1
  Requests = {"q1", "q2", "q3"}
  MaxRetries = 2
  BaseDelay = 1
  Timeout = 2
  BreakerThreshold = 2
  BreakerCooldown = 3
SPECIFICATION Spec
CHECK_DEADLOCK FALSE
INVARIANTS
  AckedWasHandled
  ResolvedReachedAll
  FieldTellsTheTruth
  TerminalRowsAreWhole
  BreakerIsFair
PROPERTY WorkEnds
