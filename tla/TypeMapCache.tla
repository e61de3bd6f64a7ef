---------------------------- MODULE TypeMapCache ----------------------------
(***************************************************************************)
(* Mapper.TypeMap (reflectx/reflect.go): the cache of struct mappings that *)
(* every scan and every named binding of a DB shares.  A lookup reads the  *)
(* map under the read lock of a sync.RWMutex; a miss takes the write lock, *)
(* looks again, builds the mapping with the program's mapping functions    *)
(* and stores it.  The locks are released by plain calls, not by defer.    *)
(*                                                                         *)
(* The RWMutex is modelled as the runtime has it: a writer first excludes  *)
(* other writers and turns new readers away, then waits for the readers    *)
(* inside to leave; when it unlocks, the readers that waited are let in.   *)
(***************************************************************************)
EXTENDS Naturals

CONSTANTS
  Goroutine,   \* the goroutines that use the mapper
  Type,        \* the struct types they look up
  NoOne        \* no goroutine

ASSUME NoOneAssumption == NoOne \notin Goroutine

VARIABLES
  pc,          \* the step of TypeMap every goroutine is at
  type,        \* the type it looks up
  mapping,     \* its local variable, 0 for none: mappings are numbered per type
  cache,       \* the mapping stored for every type, 0 when it is absent
  built,       \* the mappings built so far for every type
  readers,     \* the goroutines that hold the read lock
  writer       \* the goroutine that holds the write lock or is about to

vars == <<pc, type, mapping, cache, built, readers, writer>>

Init ==
  /\ pc = [g \in Goroutine |-> "idle"]
  /\ type \in [Goroutine -> Type]
  /\ mapping = [g \in Goroutine |-> 0]
  /\ cache = [t \in Type |-> 0]
  /\ built = [t \in Type |-> 0]
  /\ readers = {}
  /\ writer = NoOne

\* Goroutine g goes from one step to another.
Transition(g, from, to) ==
  /\ pc[g] = from
  /\ pc' = [pc EXCEPT ![g] = to]

\* A scan or a binding needs the mapping of t.
Call(g, t) ==
  /\ Transition(g, "idle", "rlock")
  /\ type' = [type EXCEPT ![g] = t]
  /\ mapping' = [mapping EXCEPT ![g] = 0]
  /\ UNCHANGED <<cache, built, readers, writer>>

\* Mutated form: the map is read without the read lock.
RLock_None(g) ==
  /\ Transition(g, "rlock", "read")
  /\ UNCHANGED <<type, mapping, cache, built, readers, writer>>

RLock(g) ==
  /\ IF writer = NoOne
     THEN Transition(g, "rlock", "read") /\ readers' = readers \cup {g}
     ELSE Transition(g, "rlock", "rwait") /\ UNCHANGED readers
  /\ UNCHANGED <<type, mapping, cache, built, writer>>

\* mapping, ok := m.cache[t]
Read(g) ==
  /\ Transition(g, "read", "runlock")
  /\ mapping' = [mapping EXCEPT ![g] = cache[type[g]]]
  /\ UNCHANGED <<type, cache, built, readers, writer>>

\* Mutated form: the read lock is kept on a hit.
RUnlock_OnMiss(g) ==
  /\ Transition(g, "runlock", IF mapping[g] # 0 THEN "idle" ELSE "lock")
  /\ readers' = IF mapping[g] # 0 THEN readers ELSE readers \ {g}
  /\ UNCHANGED <<type, mapping, cache, built, writer>>

RUnlock(g) ==
  /\ Transition(g, "runlock", IF mapping[g] # 0 THEN "idle" ELSE "lock")
  /\ readers' = readers \ {g}
  /\ UNCHANGED <<type, mapping, cache, built, writer>>

\* Lock excludes the other writers and new readers ...
Lock(g) ==
  /\ writer = NoOne
  /\ Transition(g, "lock", "lwait")
  /\ writer' = g
  /\ UNCHANGED <<type, mapping, cache, built, readers>>

\* ... and waits for the readers inside.
LockGranted(g) ==
  /\ readers = {}
  /\ Transition(g, "lwait", "recheck")
  /\ UNCHANGED <<type, mapping, cache, built, readers, writer>>

\* Mutated form: no second look after the write lock is taken.
Recheck_Skip(g) ==
  /\ Transition(g, "recheck", "build")
  /\ UNCHANGED <<type, mapping, cache, built, readers, writer>>

\* The second look of the double-checked locking.
Recheck(g) ==
  /\ Transition(g, "recheck", IF cache[type[g]] # 0 THEN "unlock" ELSE "build")
  /\ mapping' = [mapping EXCEPT ![g] = cache[type[g]]]
  /\ UNCHANGED <<type, cache, built, readers, writer>>

\* getMapping makes a new StructMap.
Build(g) ==
  /\ Transition(g, "build", "store")
  /\ built' = [built EXCEPT ![type[g]] = @ + 1]
  /\ mapping' = [mapping EXCEPT ![g] = built[type[g]] + 1]
  /\ UNCHANGED <<type, cache, readers, writer>>

\* A mapping function panics inside getMapping: the goroutine unwinds out of
\* TypeMap, and the write lock stays taken.
BuildPanics(g) ==
  /\ Transition(g, "build", "dead")
  /\ UNCHANGED <<type, mapping, cache, built, readers, writer>>

\* m.cache[t] = mapping
Store(g) ==
  /\ Transition(g, "store", "unlock")
  /\ cache' = [cache EXCEPT ![type[g]] = mapping[g]]
  /\ UNCHANGED <<type, mapping, built, readers, writer>>

\* Unlock lets in the readers that wait, and TypeMap returns.
Unlock(g) ==
  /\ pc[g] = "unlock"
  /\ pc' = [h \in Goroutine |-> IF h = g THEN "idle" ELSE IF pc[h] = "rwait" THEN "read" ELSE pc[h]]
  /\ readers' = readers \cup {h \in Goroutine : pc[h] = "rwait"}
  /\ writer' = NoOne
  /\ UNCHANGED <<type, mapping, cache, built>>

Step(g) ==
  \/ RLock(g) \/ Read(g) \/ RUnlock(g) \/ Lock(g) \/ LockGranted(g)
  \/ Recheck(g) \/ Build(g) \/ Store(g) \/ Unlock(g)

Next ==
  \E g \in Goroutine :
    \/ \E t \in Type : Call(g, t)
    \/ Step(g)
    \/ BuildPanics(g)

Spec == Init /\ [][Next]_vars

\* A goroutine inside TypeMap is scheduled again and again.  Weak fairness is
\* enough for Lock: writers pass one another only while some type is absent.
FairSpec == Spec /\ \A g \in Goroutine : WF_vars(Step(g))

-----------------------------------------------------------------------------
Steps == {"idle", "rlock", "rwait", "read", "runlock", "lock", "lwait",
          "recheck", "build", "store", "unlock", "dead"}

\* The type invariant: every goroutine is at a step of TypeMap, the locks are held by
\* goroutines (reflect.go:109).
TypeOK ==
  /\ pc \in [Goroutine -> Steps]
  /\ type \in [Goroutine -> Type]
  /\ mapping \in [Goroutine -> Nat]
  /\ cache \in [Type -> Nat]
  /\ built \in [Type -> Nat]
  /\ readers \in SUBSET Goroutine
  /\ writer \in Goroutine \cup {NoOne}

\* Where a goroutine accesses the map, and where it writes it.
Accessing == {"read", "recheck", "store"}
Writing == {"store"}

\* A Go map may not be written while it is read or written: the runtime kills the
\* process.  TypeMap is called from every goroutine that scans or binds.
NoMapRace ==
  \A g, h \in Goroutine : g # h /\ pc[g] \in Writing => pc[h] \notin Accessing

\* Two goroutines that miss together must not build two mappings: the mapping of
\* a type is built once, and a caller has the one in the cache.
OneMappingPerType ==
  /\ \A t \in Type : built[t] <= 1
  /\ \A g \in Goroutine : pc[g] = "idle" /\ mapping[g] # 0 => mapping[g] = cache[type[g]]

\* Every call of TypeMap returns unless a mapping function panics: no reader and
\* no writer waits for ever.  The exception is needed, as reflect.go:121 runs the
\* mapping functions between Lock and an Unlock that is not deferred.
CallsReturn ==
  \A g \in Goroutine : pc[g] # "idle" ~> pc[g] = "idle" \/ \E h \in Goroutine : pc[h] = "dead"
=============================================================================
