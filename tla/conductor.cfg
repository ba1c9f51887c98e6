CONSTANTS
  ann = ann
  bob = bob
  Nobody = Nobody
  tick = tick
  w = w
  Agents = {ann, bob}
  MaxTask = 2
  Ticker = tick
  Wakers = {w}
  Cap = 1
  MaxAttempts = 2
  MaxActs = 1
  MaxEnds = 1
  Acts = {"plan", "assign", "start", "move", "pause"}
  Faults = {"crash", "fail", "limit"}
SPECIFICATION FairSpec
PROPERTIES CompletedStaysCompleted AssignedIsDispatched
CHECK_DEADLOCK FALSE
