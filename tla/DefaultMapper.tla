---------------------------- MODULE DefaultMapper ----------------------------
(***************************************************************************)
(* mapper() (sqlx.go): the Mapper that Open, NewDB, Select and Get use     *)
(* when nothing else is configured.  One atomic pointer holds the Mapper   *)
(* and the NameMapper function it was built from; the fast path is a load, *)
(* and a rebuild is serialised by a mutex, under which the pointer is      *)
(* looked at again.  NameMapper is a plain variable that programs set when *)
(* nothing else runs.                                                      *)
(***************************************************************************)
EXTENDS Naturals

CONSTANTS
  Goroutine,   \* the goroutines that call mapper()
  Func,        \* the functions NameMapper is set to
  NoOne,       \* no goroutine
  MaxSets      \* bound: the assignments to NameMapper

ASSUME NoOneAssumption == NoOne \notin Goroutine
ASSUME MaxSetsAssumption == MaxSets \in Nat

VARIABLES
  NameMapper,  \* the global variable
  sets,        \* the assignments to it so far
  mpr,         \* the atomic pointer: the Mapper (numbered, 0 for nil) and its function
  made,        \* the Mappers made so far
  pc,          \* the step of mapper() every goroutine is at
  holder,      \* the goroutine that holds mprMu
  result       \* what mapper() last returned to every goroutine

vars == <<NameMapper, sets, mpr, made, pc, holder, result>>

State == [m : Nat, fn : Func]

Init ==
  /\ NameMapper \in Func
  /\ sets = 0
  /\ mpr = [m |-> 0, fn |-> NameMapper]
  /\ made = 0
  /\ pc = [g \in Goroutine |-> "idle"]
  /\ holder = NoOne
  /\ result = [g \in Goroutine |-> [m |-> 0, fn |-> NameMapper]]

\* The program replaces NameMapper while no goroutine is in mapper(): the variable
\* is documented as unsafe for concurrent use.  What was returned before is old.
SetNameMapper(f) ==
  /\ \A g \in Goroutine : pc[g] = "idle"
  /\ sets < MaxSets
  /\ NameMapper' = f
  /\ sets' = sets + 1
  /\ result' = [g \in Goroutine |-> [m |-> 0, fn |-> f]]
  /\ UNCHANGED <<mpr, made, pc, holder>>

\* Mutated form: any Mapper will do.
Usable_Any(s) == s.m # 0

\* A state is usable when its Mapper exists and was built from the current function.
Usable(s) == s.m # 0 /\ s.fn = NameMapper

Go(g, to) == pc' = [pc EXCEPT ![g] = to]

\* The fast path: one atomic load.
Load(g) ==
  /\ pc[g] = "idle"
  /\ IF Usable(mpr)
     THEN result' = [result EXCEPT ![g] = mpr] /\ UNCHANGED pc
     ELSE Go(g, "lock") /\ UNCHANGED result
  /\ UNCHANGED <<NameMapper, sets, mpr, made, holder>>

Lock(g) ==
  /\ pc[g] = "lock"
  /\ holder = NoOne
  /\ holder' = g
  /\ Go(g, "reload")
  /\ UNCHANGED <<NameMapper, sets, mpr, made, result>>

\* Mutated form: the pointer is not looked at again under the mutex.
Reload_Skip(g) ==
  /\ pc[g] = "reload"
  /\ Go(g, "build")
  /\ UNCHANGED <<NameMapper, sets, mpr, made, holder, result>>

\* The second look, under the mutex.
Reload(g) ==
  /\ pc[g] = "reload"
  /\ IF Usable(mpr)
     THEN result' = [result EXCEPT ![g] = mpr] /\ Go(g, "unlock")
     ELSE Go(g, "build") /\ UNCHANGED result
  /\ UNCHANGED <<NameMapper, sets, mpr, made, holder>>

\* NewMapperFunc and the store of the pointer.
Build(g) ==
  /\ pc[g] = "build"
  /\ made' = made + 1
  /\ mpr' = [m |-> made + 1, fn |-> NameMapper]
  /\ result' = [result EXCEPT ![g] = mpr']
  /\ Go(g, "unlock")
  /\ UNCHANGED <<NameMapper, sets, holder>>

\* The deferred unlock, and the return.
Unlock(g) ==
  /\ pc[g] = "unlock"
  /\ holder' = NoOne
  /\ Go(g, "idle")
  /\ UNCHANGED <<NameMapper, sets, mpr, made, result>>

Step(g) == Lock(g) \/ Reload(g) \/ Build(g) \/ Unlock(g)

Next ==
  \/ \E f \in Func : SetNameMapper(f)
  \/ \E g \in Goroutine : Load(g) \/ Step(g)

Spec == Init /\ [][Next]_vars

-----------------------------------------------------------------------------
\* The type invariant: mprMu has one holder or none, the pointer and every answer
\* are a Mapper with its function (sqlx.go:29).
TypeOK ==
  /\ NameMapper \in Func
  /\ sets \in 0..MaxSets
  /\ mpr \in State
  /\ made \in Nat
  /\ pc \in [Goroutine -> {"idle", "lock", "reload", "build", "unlock"}]
  /\ holder \in Goroutine \cup {NoOne}
  /\ result \in [Goroutine -> State]

\* mapper() returns "a valid mapper using the configured NameMapper func"
\* (sqlx.go:42), also after NameMapper has been replaced.
ReturnsCurrent ==
  \A g \in Goroutine : pc[g] = "idle" /\ result[g].m # 0 => result[g].fn = NameMapper

\* Callers that race to rebuild must end up with one Mapper: its cache of struct
\* mappings is shared, and a second Mapper would build everything again.
OneMapperPerSetting ==
  /\ made <= sets + 1
  /\ \A g, h \in Goroutine :
       pc[g] = "idle" /\ pc[h] = "idle" /\ result[g].m # 0 /\ result[h].m # 0 => result[g].m = result[h].m
=============================================================================
