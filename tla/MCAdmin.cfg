CONSTANTS
  Accounts = {"a", "b"}
  Tabs = {t1, t2}
  Rows = {"r1"}
  Granted <- MCGranted
  Importable = 1
  MaxLogins = 2
  MaxFiles = 1
  MaxRequests = 4
  MaxChanges = 1
  PageSites <- PanelSites
  PagePolicies <- PanelPolicies
  SystemPages = {"logs", "tasks"}
  Children = {"r1", "r2"}
  Parent = "p1"
  OtherParent = "p2"
  InlineRowLimit = 2
  EmptyRow = ""
  ChildrenMayGo = TRUE
  MaxForeign = 2
  MaxPosts = 2
  SqlOperators = {"o1", "o2"}
  SqlTexts <- MCTexts
  SqlPolicies <- MCPolicies
  MaxFound = 1
  MaxTries = 2
  ModelColumns <- MCColumns
  ModelOptions <- MCOptions
  AutomapCalls <- MCAutomaps
  NeverListed = {"hash", "deletedAt"}
  NeverEditable = {"id", "createdAt", "createdBy", "deletedAt"}
  AuditFields = {"createdAt", "createdBy"}
  TrailRows = {"r1", "r2"}
  TrailValues = {"v", "w"}
  AuditHistoryLimit = 2
  MaxTime = 3
  MaxEntries = 3
  Resources = {"users"}
  ResourceIds = {"i", "_meta"}
SPECIFICATION MCSpec
CHECK_DEADLOCK FALSE
SYMMETRY Symmetry
INVARIANTS
  WritesAreGated
  StampsNameTheWriter
  DoorsOpen
  TypedIsKeptOnce
  InputsArrive
  DeedsAreAccounted
PROPERTY FormsetKeepsToItsPage
