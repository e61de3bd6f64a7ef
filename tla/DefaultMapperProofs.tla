------------------------ MODULE DefaultMapperProofs ------------------------
(***************************************************************************)
(* Proofs about DefaultMapper, for any number of goroutines, of functions  *)
(* and of assignments to NameMapper.                                       *)
(***************************************************************************)
EXTENDS DefaultMapper, TLAPS

\* The mutex is held where the code holds it; a Mapper is made only while the last
\* one is out of date, so that there is at most one for every value of NameMapper;
\* and what a caller was given since NameMapper was set is the current one.
MapperInv ==
  /\ TypeOK
  /\ \A g \in Goroutine : pc[g] \in {"reload", "build", "unlock"} <=> holder = g
  /\ \A g \in Goroutine : pc[g] = "build" => ~Usable(mpr)
  /\ made <= sets + 1
  /\ ~Usable(mpr) => made <= sets
  /\ \A g \in Goroutine : result[g].m # 0 => result[g] = mpr /\ Usable(mpr)

\* The inductive invariant that both theorems below rest on.
LEMMA MapperInvariant == Spec => []MapperInv
<1> USE NoOneAssumption, MaxSetsAssumption DEF MapperInv, TypeOK, State, Usable, Go
<1>1. Init => MapperInv
  BY DEF Init
<1>2. MapperInv /\ [Next]_vars => MapperInv'
  <2> SUFFICES ASSUME MapperInv, [Next]_vars PROVE MapperInv'
    OBVIOUS
  <2>1. ASSUME NEW f \in Func, SetNameMapper(f) PROVE MapperInv'
    BY <2>1 DEF SetNameMapper
  <2>2. ASSUME NEW g \in Goroutine, Load(g) PROVE MapperInv'
    BY <2>2 DEF Load
  <2>3. ASSUME NEW g \in Goroutine, Lock(g) PROVE MapperInv'
    BY <2>3 DEF Lock
  <2>4. ASSUME NEW g \in Goroutine, Reload(g) PROVE MapperInv'
    BY <2>4 DEF Reload
  <2>5. ASSUME NEW g \in Goroutine, Build(g) PROVE MapperInv'
    BY <2>5 DEF Build
  <2>6. ASSUME NEW g \in Goroutine, Unlock(g) PROVE MapperInv'
    BY <2>6 DEF Unlock
  <2>7. CASE UNCHANGED vars
    BY <2>7 DEF vars
  <2> QED
    BY <2>1, <2>2, <2>3, <2>4, <2>5, <2>6, <2>7 DEF Next, Step
<1> QED
  BY <1>1, <1>2, PTL DEF Spec

\* mapper() (sqlx.go:45) never hands out a Mapper made from a NameMapper that has
\* been replaced.
THEOREM Current == Spec => []ReturnsCurrent
<1>1. MapperInv => ReturnsCurrent
  BY DEF MapperInv, ReturnsCurrent, Usable
<1> QED
  BY <1>1, MapperInvariant, PTL

\* Goroutines that race to rebuild the default Mapper make one and share it.
THEOREM OneMapper == Spec => []OneMapperPerSetting
<1>1. MapperInv => OneMapperPerSetting
  BY DEF MapperInv, OneMapperPerSetting
<1> QED
  BY <1>1, MapperInvariant, PTL
=============================================================================
