CONSTANTS
  Conns = {"c1", "c2"}
  Users = {"u1", "u2"}
  MaxPerUser = 1
SPECIFICATION Spec
CHECK_DEADLOCK FALSE
INVARIANT OnlineIsLive
