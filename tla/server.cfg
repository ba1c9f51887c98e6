CONSTANTS
  b1 = b1
  b2 = b2
  Boots     = {b1, b2}
  Dialects  = {"sqlite", "postgresql"}
  MaxCrashes = 1
  MaxEdits  = 1
  MaxFrames = 2
  MaxConns  = 2
  SendBuf   = 1
  Kinds     = {"trigger", "integrate", "cancel", "pause"}
  Faults    = {"drop", "half", "restart"}
SPECIFICATION ServerSpec
INVARIANTS AckedIsRegistered 
PROPERTIES ImplementsChannel PendingSettles 
CHECK_DEADLOCK FALSE
