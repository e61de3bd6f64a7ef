SPECIFICATION Spec
CONSTANT Workloads <- MCWorkloads
\* Structs of full size take no more fields.
CHECK_DEADLOCK FALSE
INVARIANTS
  ShallowestFieldWins
  RecursionHidesNothing
  RawBytesAreFound
  RawBytesAreRefused
