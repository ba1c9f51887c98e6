CONSTANTS
  MaxRows      = 2
  MaxFaults    = 1
  Deployers    = {"r1", "r2"}
  MaxCalls     = 3
  DeployFaults = {"offline", "post", "daemon", "hang"}
  Agents       = {"conductor"}
  System       = {"conductor"}
  Runtimes     = {"r1"}
  NoRuntime    = "none"
  MaxEdits     = 0
  Threads      = {"t1"}
  Branches     = {"main"}
  Main         = "main"
  MaxBuilds    = 1
  MaxAsked     = 0
  Projects     = {1}
  Scan         = 5
  Interval     = 2
  MaxOther     = 1
  MaxRefresh   = 1
SPECIFICATION FairSpec

  
PROPERTIES
  HeadLeaves DryQueueSpaced IdleIsPlanned QueueDrains
CHECK_DEADLOCK FALSE
