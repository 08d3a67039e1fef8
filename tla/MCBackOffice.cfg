SPECIFICATION BackOfficeSpec
CONSTANTS
  GwRuns = {x1, x2}
  GwRoutes = 2
  GwAttempts = 2
  GwTools = 2
  GwBatch = 1
  GwBudget = 1
  GwThreshold = 2
  Products = {p1}
  Editors = {x1, x2}
  MaxProductVersion = 3
  MaxSchemaVersion = 2
  Images = {y1, y2}
  Callers = {x1, x2}
  Counted = {"rules"}
  Settings = {"settings"}
  Managers = {x1, x2}
  Quotes = {q1}
  MaxVersions = 3
  HistoryLimit = 2
  Inbound = {m1, m2}
  Senders = {s1}
  People = {y1, y2}
  Deliveries = {x1, x2}
  Contents = {y1, y2}
  MaxItems = 2
  NoOne = NoOne
  Unusable = Unusable
  Tenants = {y1, y2}
  Accounts = {ig1, ig2}
  Tokens = {k1}
  Requests = {x1, x2}
  Nothing = Nothing
  Prices = {99, 100}
  Offers = {20, 95, 200}
  Policies <- MCPolicies
  Precision = 10
  MaxPolicies = 2
  MaxDecisions = 2
  NoPrice = NoPrice
SYMMETRY Symmetry
CHECK_DEADLOCK FALSE
INVARIANTS
  BackOfficeTypeOK
  CommandsRunOnce
  RevisionsExplainProduct
  PublishedWasValid
  ReadyIsStored
  OneVersionGoverns
  DeliveriesAreKept
  ConnectionsAreLive
PROPERTY
  NothingReplacedUnseen
  OrderedWithinPolicy
