SPECIFICATION NamedSpec
CONSTANT Workloads <- MCQueries
\* A call that was made is over.
CHECK_DEADLOCK FALSE
INVARIANTS
  ScannersMatchReference
  RebindAndInAgree
  EveryPlaceholderIsBound
  OnlyInListsExpand
  NamedPathsAgree
  EveryNameIsBound
  BatchRowsAreBound
