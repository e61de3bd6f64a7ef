SPECIFICATION FairSpec
CONSTANTS
  global1 = global1
  global2 = global2
  call1 = call1
  call2 = call2
  DB = db
  NilHook = nil
  Goroutine = {g1}
  Slot = {s1}
  Hook = {global1, global2, call1, call2}
  InitHooks <- MCInitHooks
  AddedHooks = {nil, global2}
  CallHooks <- MCCallHooks
  Rewriters = {global2}
  Forgers = {global2, call1}
  MaxHooks = 4
  ArrayLen = 6
INVARIANTS
  TypeOK
  NoNilHook
  AfterSeesOutcome
  RewritesTravelTogether
PROPERTIES
  OperationsEnd
  SnapshotsAreFixed
  ImplementsOnion
