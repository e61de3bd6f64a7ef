SPECIFICATION Spec
CONSTANTS
  global1 = global1
  global2 = global2
  call1 = call1
  call2 = call2
  DB = db
  NilHook = nil
  Goroutine = {g1, g2}
  Slot = {s1}
  Hook = {global1, global2, call1, call2}
  InitHooks <- MCSharedInit
  AddedHooks = {global2}
  CallHooks <- MCSharedCall
  Rewriters = {}
  Forgers = {}
  MaxHooks = 3
  ArrayLen = 4
INVARIANTS
  ChainIsolation
SYMMETRY MCSymmetry
