CONSTANTS
  Ids = {"i1", "i2"}
  Tenants = {"t1", "t2"}
  Notes = {"n"}
  Absent = Absent
  Callers = {"c1", "c2"}
  Null = Null
  Ttl = 2
  MaxRun = 1
  MaxWrites = 2
  MaxTime = 5
  Replicas = {"r1", "r2"}
  Streams = {"s1", "s2", "s3"}
  Home <- MCHome
  MaxMessages = 2
  MaxHurried = 1
  MaxFaults = 1
  HttpInputs <- MCHttpInputs
  BodyIsLimited = TRUE
  BodyLimit = 2
  JsonLimit = 4
  Exempt = {"/logs"}
  Bounds <- MCBounds
  Durations = {1, 2, 3}
  MaxServed = 2
  LogKinds <- MCLogKinds
  Threshold = "info"
  LogSource = "all"
  PageSize = 2
  MaxLogs = 3
  MaxOpens = 2
  Recipients = 3
  Concurrency = 2
  Loops = {"l1", "l2"}
  Silent = {2}
  MaxUpdate = 2
  AsyncChannels <- MCChannels
  AsyncMessages = {"m1", "m2"}
  AsyncOperations <- MCOperations
  MaxSize = 3
  MaxAsk = 4
  PathNames = {"a", "root"}
  MaxPath = 4
  MaxPages = 3
  MaxRetries = 2
  MaxCalls = 2
  MaxPosts = 2
  MaxFrames = 2
  SignInCalls = {"c1", "c2"}
  Users = {"u1", "u2"}
  AddressNames = {"n"}
  Roles = {"admin"}
  AccessTtl = 1
  RefreshTtl = 2
  Latency = 1
  MaxSeconds = 5
  MaxIssued = 2
  MaxRowChanges = 1
  Numbers <- MCNumbers
  Secrets <- MCSecrets
  CodeStep = 2
  CodeWindow = 1
  MaxDrift = 3
  MaxCodeTime = 7
  Backends = 2
  DefaultEnabled = FALSE
  MaxFlagChanges = 2
SPECIFICATION MCSpec
CHECK_DEADLOCK FALSE
INVARIANTS
  ServerAnswers
  ComputedByTheRule
  CacheIsFresh
  NothingGoesAstray
  NothingMissed
  InOrderOnce
PROPERTY TenantsKeepApart
