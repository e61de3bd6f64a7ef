------------------------- MODULE TypeMapCacheProofs -------------------------
(***************************************************************************)
(* Proofs about TypeMapCache, for any number of goroutines and types and   *)
(* whether or not a mapping function panics.  The discipline of the lock   *)
(* is inductive together with the types; the absence of map races follows  *)
(* from it, and it is what makes the invariant about mappings inductive.   *)
(***************************************************************************)
EXTENDS TypeMapCache, TLAPS

\* The types of the variables (TypeMap's locals, the cache and the mutex).
THEOREM TypeCorrect == Spec => []TypeOK
<1>1. Init => TypeOK
  BY DEF Init, TypeOK, Steps
<1>2. TypeOK /\ [Next]_vars => TypeOK'
  <2> SUFFICES ASSUME TypeOK, [Next]_vars PROVE TypeOK'
    OBVIOUS
  <2> USE DEF TypeOK, Steps, Transition
  <2>1. ASSUME NEW g \in Goroutine, NEW t \in Type, Call(g, t) PROVE TypeOK'
    BY <2>1 DEF Call
  <2>2. ASSUME NEW g \in Goroutine, RLock(g) PROVE TypeOK'
    BY <2>2 DEF RLock
  <2>3. ASSUME NEW g \in Goroutine, Read(g) PROVE TypeOK'
    BY <2>3 DEF Read
  <2>4. ASSUME NEW g \in Goroutine, RUnlock(g) PROVE TypeOK'
    BY <2>4 DEF RUnlock
  <2>5. ASSUME NEW g \in Goroutine, Lock(g) PROVE TypeOK'
    BY <2>5 DEF Lock
  <2>6. ASSUME NEW g \in Goroutine, LockGranted(g) PROVE TypeOK'
    BY <2>6 DEF LockGranted
  <2>7. ASSUME NEW g \in Goroutine, Recheck(g) PROVE TypeOK'
    BY <2>7 DEF Recheck
  <2>8. ASSUME NEW g \in Goroutine, Build(g) PROVE TypeOK'
    BY <2>8 DEF Build
  <2>9. ASSUME NEW g \in Goroutine, Store(g) PROVE TypeOK'
    BY <2>9 DEF Store
  <2>10. ASSUME NEW g \in Goroutine, Unlock(g) PROVE TypeOK'
    BY <2>10 DEF Unlock
  <2>11. ASSUME NEW g \in Goroutine, BuildPanics(g) PROVE TypeOK'
    BY <2>11 DEF BuildPanics
  <2>12. CASE UNCHANGED vars
    BY <2>12 DEF vars
  <2> QED
    BY <2>1, <2>2, <2>3, <2>4, <2>5, <2>6, <2>7, <2>8, <2>9, <2>10, <2>11, <2>12 DEF Next, Step
<1> QED
  BY <1>1, <1>2, PTL DEF Spec

\* Where a goroutine holds the write lock.
Exclusive == {"recheck", "build", "store", "unlock", "dead"}

\* The RWMutex as TypeMap uses it: who holds the read lock, that one writer at
\* most owns the write lock, and that no reader is inside while it is held.
LockDiscipline ==
  /\ readers = {g \in Goroutine : pc[g] \in {"read", "runlock"}}
  /\ \A g \in Goroutine : pc[g] \in {"lwait"} \cup Exclusive <=> writer = g
  /\ \A g \in Goroutine : pc[g] \in Exclusive => readers = {}
  /\ \A g \in Goroutine : pc[g] = "rwait" => writer # NoOne

\* The discipline of the lock is an invariant (reflect.go:110-124): both locks are
\* given back where the code says so, and a panic keeps the write lock.
LEMMA Locking == Spec => []LockDiscipline
<1>1. Init => LockDiscipline
  BY NoOneAssumption DEF Init, LockDiscipline, Exclusive
<1>2. TypeOK /\ LockDiscipline /\ [Next]_vars => LockDiscipline'
  <2> SUFFICES ASSUME TypeOK, LockDiscipline, [Next]_vars PROVE LockDiscipline'
    OBVIOUS
  <2> USE NoOneAssumption DEF TypeOK, LockDiscipline, Exclusive, Steps, Transition
  <2>1. ASSUME NEW g \in Goroutine, NEW t \in Type, Call(g, t) PROVE LockDiscipline'
    BY <2>1 DEF Call
  <2>2. ASSUME NEW g \in Goroutine, RLock(g) PROVE LockDiscipline'
    BY <2>2 DEF RLock
  <2>3. ASSUME NEW g \in Goroutine, Read(g) PROVE LockDiscipline'
    BY <2>3 DEF Read
  <2>4. ASSUME NEW g \in Goroutine, RUnlock(g) PROVE LockDiscipline'
    BY <2>4 DEF RUnlock
  <2>5. ASSUME NEW g \in Goroutine, Lock(g) PROVE LockDiscipline'
    BY <2>5 DEF Lock
  <2>6. ASSUME NEW g \in Goroutine, LockGranted(g) PROVE LockDiscipline'
    BY <2>6 DEF LockGranted
  <2>7. ASSUME NEW g \in Goroutine, Recheck(g) PROVE LockDiscipline'
    BY <2>7 DEF Recheck
  <2>8. ASSUME NEW g \in Goroutine, Build(g) PROVE LockDiscipline'
    BY <2>8 DEF Build
  <2>9. ASSUME NEW g \in Goroutine, Store(g) PROVE LockDiscipline'
    BY <2>9 DEF Store
  <2>10. ASSUME NEW g \in Goroutine, Unlock(g) PROVE LockDiscipline'
    BY <2>10 DEF Unlock
  <2>11. ASSUME NEW g \in Goroutine, BuildPanics(g) PROVE LockDiscipline'
    BY <2>11 DEF BuildPanics
  <2>12. CASE UNCHANGED vars
    BY <2>12 DEF vars
  <2> QED
    BY <2>1, <2>2, <2>3, <2>4, <2>5, <2>6, <2>7, <2>8, <2>9, <2>10, <2>11, <2>12 DEF Next, Step
<1> QED
  BY <1>1, <1>2, TypeCorrect, PTL DEF Spec

\* The cache of the Mapper, a plain Go map, is never written while another
\* goroutine reads or writes it (reflect.go:111, 119 and 122).
THEOREM NoRace == Spec => []NoMapRace
<1>1. LockDiscipline => NoMapRace
  BY DEF LockDiscipline, NoMapRace, Exclusive, Writing, Accessing
<1> QED
  BY <1>1, Locking, PTL

\* What makes OneMappingPerType inductive.  A mapping that was built is in the
\* cache, or the writer is about to store it; a goroutine that builds has seen,
\* under the write lock, that there is none; and what a goroutine holds otherwise
\* is what the cache holds for its type.
MappingInv ==
  /\ \A t \in Type : built[t] \in 0..1 /\ cache[t] \in 0..built[t]
  /\ \A t \in Type : cache[t] # built[t] => \E g \in Goroutine : pc[g] = "store" /\ type[g] = t
  /\ \A g \in Goroutine :
       /\ pc[g] = "build" => cache[type[g]] = 0 /\ mapping[g] = 0
       /\ pc[g] = "store" => cache[type[g]] = 0 /\ mapping[g] = 1 /\ built[type[g]] = 1
       /\ pc[g] # "store" /\ mapping[g] # 0 => mapping[g] = cache[type[g]]

\* The second look of the double-checked locking does its work (reflect.go:119): the
\* mapping of a type is built once, and every caller is handed that one.
THEOREM OneMapping == Spec => []OneMappingPerType
<1>1. Init => MappingInv
  BY DEF Init, MappingInv
<1>2. TypeOK /\ LockDiscipline /\ MappingInv /\ [Next]_vars => MappingInv'
  <2> SUFFICES ASSUME TypeOK, LockDiscipline, MappingInv, [Next]_vars PROVE MappingInv'
    OBVIOUS
  <2> USE DEF TypeOK, MappingInv, Steps, Transition
  <2>1. ASSUME NEW g \in Goroutine, NEW t \in Type, Call(g, t) PROVE MappingInv'
    BY <2>1 DEF Call
  <2>2. ASSUME NEW g \in Goroutine, RLock(g) PROVE MappingInv'
    BY <2>2 DEF RLock
  <2>3. ASSUME NEW g \in Goroutine, Read(g) PROVE MappingInv'
    BY <2>3 DEF Read
  <2>4. ASSUME NEW g \in Goroutine, RUnlock(g) PROVE MappingInv'
    BY <2>4 DEF RUnlock
  <2>5. ASSUME NEW g \in Goroutine, Lock(g) PROVE MappingInv'
    BY <2>5 DEF Lock
  <2>6. ASSUME NEW g \in Goroutine, LockGranted(g) PROVE MappingInv'
    BY <2>6 DEF LockGranted
  <2>7. ASSUME NEW g \in Goroutine, Recheck(g) PROVE MappingInv'
    BY <2>7 DEF Recheck
  <2>8. ASSUME NEW g \in Goroutine, Build(g) PROVE MappingInv'
    <3>1. \A h \in Goroutine : pc[h] # "store"
      BY <2>8 DEF LockDiscipline, Exclusive, Build
    <3>2. built[type[g]] = 0
      BY <2>8, <3>1 DEF Build
    <3> QED
      BY <2>8, <3>1, <3>2 DEF Build
  <2>9. ASSUME NEW g \in Goroutine, Store(g) PROVE MappingInv'
    <3>1. \A h \in Goroutine : h # g => pc[h] \notin {"build", "store"}
      BY <2>9 DEF LockDiscipline, Exclusive, Store
    <3> QED
      BY <2>9, <3>1 DEF Store
  <2>10. ASSUME NEW g \in Goroutine, Unlock(g) PROVE MappingInv'
    BY <2>10 DEF Unlock
  <2>11. ASSUME NEW g \in Goroutine, BuildPanics(g) PROVE MappingInv'
    BY <2>11 DEF BuildPanics
  <2>12. CASE UNCHANGED vars
    BY <2>12 DEF vars
  <2> QED
    BY <2>1, <2>2, <2>3, <2>4, <2>5, <2>6, <2>7, <2>8, <2>9, <2>10, <2>11, <2>12 DEF Next, Step
<1>3. TypeOK /\ MappingInv => OneMappingPerType
  BY DEF TypeOK, MappingInv, OneMappingPerType
<1> QED
  BY <1>1, <1>2, <1>3, TypeCorrect, Locking, PTL DEF Spec
=============================================================================
