SPECIFICATION Spec
CONSTANTS
  Goroutine = {g1, g2, g3}
  Func = {lower, upper}
  NoOne = none
  MaxSets = 2
INVARIANTS
  ReturnsCurrent
  OneMapperPerSetting
