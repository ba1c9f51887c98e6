CONSTANTS
  s1 = s1
  r1 = r1
  Scopes     = {s1}
  Runs       = {r1}
  MaxTurns   = 2
  MaxActive  = 2
  MaxStops   = 1
  MaxCrashes = 1
  Faults     = {"lost", "deaf", "setup"}
SPECIFICATION FairSpec
INVARIANTS CancelDecides RecordedOrphansReaped
PROPERTIES SlotsReturn
CHECK_DEADLOCK FALSE
