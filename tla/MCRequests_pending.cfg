CONSTANTS
  None = None
  MaxFaults = 0
  Requests = {"r1", "r2", "r3"}
  Keys = {"k1", "k2"}
  Hits = {"a", "b", "c", "d"}
  MaxRequests = 2
  Window = 4
  Second = 2
  MaxDelay = 1
  MaxTime = 6
  MaxHits = 6
  Calls = {c1, c2, c3}
  Ids = {i1, i2}
  Passwords = {p1, p2, p3}
  ResetTokens = {r1}
  ActivationTokens = {"a1"}
  Secrets = {x1, x2}
SPECIFICATION Spec
CHECK_DEADLOCK FALSE
SYMMETRY Symmetry
INVARIANT PendingUntilConfirmed
