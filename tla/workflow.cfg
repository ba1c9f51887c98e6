CONSTANTS
  imp = imp
  rev = rev
  Nobody = Nobody
  Agents    = {imp, rev}
  Reviewers = {rev}
  Writers   = {imp}
  Threads   = {1}
  Jobs      = {1}
  MaxAttempts = 2
  MaxTurns = 3
  MaxHead  = 2
  MaxMoves = 1
  Faults   = {"crash", "lost", "refuse"}
SPECIFICATION FairSpec
INVARIANTS MergedIsVerified ClosedMeansMerged
PROPERTIES MergesAreReported
CHECK_DEADLOCK FALSE
