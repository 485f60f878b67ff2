CONSTANTS
  r1 = r1
  r2 = r2
  None = None
  Registrations = {r1, r2}
  MaxPendingWrites = 1
  MaxSignIns = 0
  MaxFaults = 1
SPECIFICATION FairSpec
INVARIANT TypeOK
PROPERTIES
  WriteAnswered
CHECK_DEADLOCK FALSE
