CONSTANTS
  t1 = t1
  w1 = w1
  w2 = w2
  Tasks        = {t1}
  Workers      = {w1, w2}
  ResumeBudget = 1
  LimitPauses  = 1
  MaxRuns      = 1
  MaxTurns     = 2
  MaxRequests  = 3
  Cap          = 1
  AutoRetryMax = 1
  Requests     = {"schedule", "prepare", "start", "discard", "restart", "chat", "comment", "pause", "cancel", "resume", "declare", "sweep"}
  Faults       = {"silence", "slow", "lost", "drop", "limit", "crash", "error"}
  MaxRows      = 2
  MaxFaults    = 1
  Deployers    = {"r1"}
  MaxCalls     = 0
  DeployFaults = {}
  Agents       = {"ann", "conductor"}
  System       = {"conductor"}
  Runtimes     = {"r1", "r2"}
  NoRuntime    = "none"
  MaxEdits     = 3
  Threads      = {w1, w2}
  Branches     = {"main", "feature"}
  Main         = "main"
  MaxBuilds    = 2
  MaxAsked     = 3
  Projects     = {1}
  Scan         = 5
  Interval     = 2
  MaxOther     = 1
  MaxRefresh   = 1
SPECIFICATION SuiteSpec
SYMMETRY Symmetry
INVARIANTS
  SentinelIsReconcilers VerdictIsTheAgents StopsAreStamped
PROPERTIES
   ListingKeepsBinding ListingShowsRailway
CHECK_DEADLOCK FALSE
