SPECIFICATION LogSpec
CONSTANTS
  Cap = 2
  Entry <- LogEntry
  NoEntry = NoEntry
  Client = {c1, c2}
  GatewayKey = {g1}
  Provider = {"acme"}
  Unset = ""
  Unresolved = "(unresolved)"
  Ending <- MCEnding
  MaxRequests = 4
  MaxTime = 3
SYMMETRY Symmetric
INVARIANTS
  TypeOK
  LiveWindow
  UnflaggedGapsAreOverlaps
  DashboardMatchesList
PROPERTY ImplementsRecentLog
