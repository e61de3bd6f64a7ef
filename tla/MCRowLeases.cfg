SPECIFICATION FairSpec
CONSTANTS
  Goroutine = {g1, g2}
  MaxOpen = 1
  MaxRows = 2
  MaxScans = 2
\* Calls that have ended are over, and hooks may exhaust the pool.
CHECK_DEADLOCK FALSE
INVARIANTS
  TypeOK
  OnlyHooksLeak
  ErrNoRowsMeansEmpty
  RowIsScannedOnce
  SelectIsComplete
PROPERTIES
  CallsEnd
