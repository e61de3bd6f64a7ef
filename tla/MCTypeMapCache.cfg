SPECIFICATION FairSpec
CONSTANTS
  Goroutine = {g1, g2, g3}
  Type = {t1, t2}
  NoOne = none
\* After a panic every goroutine may block on the lock.
CHECK_DEADLOCK FALSE
INVARIANTS
  NoMapRace
  OneMappingPerType
PROPERTIES
  CallsReturn
