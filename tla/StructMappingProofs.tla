------------------------- MODULE StructMappingProofs -------------------------
(***************************************************************************)
(* Proofs about StructMapping, for any declarations of any number of       *)
(* types: the walk of containsRawBytes finds a RawBytes exactly when there *)
(* is one to be reached, and getMapping gives no name to one that the walk *)
(* has not found, but inside a Scanner or past a field that the tag db     *)
(* takes out and the tag of the Mapper in use does not.                    *)
(***************************************************************************)
EXTENDS StructMapping, SequenceTheorems, FiniteSetTheorems, WellFoundedInduction, TLAPS

\* Induction over the natural numbers, for a set instead of a formula.
LEMMA Upward ==
  ASSUME NEW S \in SUBSET Nat, 0 \in S, \A n \in Nat : n \in S => n + 1 \in S
  PROVE  Nat \subseteq S
<1> SUFFICES ASSUME Nat \ S # {} PROVE FALSE
  OBVIOUS
<1> DEFINE R == OpToRel(<, Nat)
<1>1. IsWellFoundedOn(R, Nat)
  BY NatLessThanWellFounded, Zenon
<1>2. \A m, k \in Nat : m < k => <<m, k>> \in R
  BY Zenon DEF OpToRel
<1> HIDE DEF R
<1>3. PICK n \in Nat \ S : \A m \in Nat \ S : <<m, n>> \notin R
  BY <1>1, WFMin, Zenon
<1>4. n # 0 /\ n - 1 \in Nat /\ n - 1 < n /\ (n - 1) + 1 = n
  OBVIOUS
<1> QED
  BY <1>2, <1>3, <1>4

\* FlattenSeq puts the elements together one after the other.
LEMMA FlattenSteps ==
  ASSUME NEW list, Len(list) \in Nat
  PROVE  /\ Len(list) = 0 => FlattenSeq(list) = list
         /\ Len(list) # 0 => \E f : /\ FlattenSeq(list) = f[Len(list)]
                                    /\ \A i \in 1..Len(list) : f[i] = IF i = 1 THEN list[i] ELSE f[i - 1] \o list[i]
<1> DEFINE n == Len(list)
           Loop(f, i) == IF i = 1 THEN list[i] ELSE f[i - 1] \o list[i]
           flat == CHOOSE f : f = [i \in 1..n |-> Loop(f, i)]
<1>1. n \in Nat
  OBVIOUS
<1>2. n = 0 => FlattenSeq(list) = list
  BY Zenon DEF FlattenSeq
<1>3. n # 0 => FlattenSeq(list) = flat[n]
  BY Zenon DEF FlattenSeq
<1>4. \E f : f = [i \in 1..n |-> Loop(f, i)]
  <2> HIDE DEF n
  <2> DEFINE T == {k \in Nat : \E f : f = [i \in 1..k |-> Loop(f, i)]}
  <2>1. 0 \in T
    <3> DEFINE f == [i \in 1..0 |-> <<>>]
    <3>1. f = [i \in 1..0 |-> Loop(f, i)]
      OBVIOUS
    <3> QED
      BY <3>1
  <2>2. ASSUME NEW k \in Nat, k \in T PROVE k + 1 \in T
    <3>1. PICK f : f = [i \in 1..k |-> Loop(f, i)]
      BY <2>2
    <3>2. \A j \in 1..k : f[j] = Loop(f, j)
      BY <3>1
    <3> DEFINE h == [i \in 1..(k + 1) |-> IF i <= k THEN f[i] ELSE Loop(f, i)]
    <3>3. ASSUME NEW i \in 1..(k + 1) PROVE h[i] = Loop(h, i)
      <4>1. i # 1 => h[i - 1] = f[i - 1]
        OBVIOUS
      <4>2. Loop(h, i) = Loop(f, i)
        BY <4>1
      <4> QED
        BY <3>2, <4>2
    <3>4. h = [i \in 1..(k + 1) |-> Loop(h, i)]
      BY <3>3
    <3> HIDE DEF h
    <3>5. \E g : g = [i \in 1..(k + 1) |-> Loop(g, i)]
      BY <3>4
    <3>6. k + 1 \in Nat
      OBVIOUS
    <3> QED
      BY <3>5, <3>6, Zenon
  <2>3. n \in T
    <3> HIDE DEF T
    <3> QED
      BY <1>1, <2>1, <2>2, Upward DEF T
  <2> QED
    BY <2>3
<1>5. flat = [i \in 1..n |-> Loop(flat, i)]
  BY <1>4
<1> HIDE DEF flat
<1>6. \A i \in 1..n : flat[i] = Loop(flat, i)
  BY <1>5
<1> QED
  BY <1>2, <1>3, <1>6

\* The elements of a list at the positions in K.
Picked(list, n, K) == FlattenSeq([k \in 1..n |-> IF k \in K THEN <<list[k]>> ELSE <<>>])

\* What is picked is in the list and the other way round.
LEMMA WhatIsPicked ==
  ASSUME NEW S, NEW n \in Nat, NEW K, NEW list, \A k \in 1..n : list[k] \in S
  PROVE  /\ Picked(list, n, K) \in Seq(S) /\ Len(Picked(list, n, K)) <= n
         /\ \A k \in 1..n : k \in K =>
              \E j \in 1..Len(Picked(list, n, K)) : Picked(list, n, K)[j] = list[k]
         /\ \A j \in 1..Len(Picked(list, n, K)) :
              \E k \in 1..n : k \in K /\ Picked(list, n, K)[j] = list[k]
<1> DEFINE pick == [k \in 1..n |-> IF k \in K THEN <<list[k]>> ELSE <<>>]
<1>0. Picked(list, n, K) = FlattenSeq(pick)
  BY DEF Picked
<1>a. \A k \in 1..n : pick[k] = IF k \in K THEN <<list[k]>> ELSE <<>>
  OBVIOUS
<1>1. pick \in Seq(Seq(S)) /\ Len(pick) = n
  <2>1. pick \in [1..n -> Seq(S)]
    OBVIOUS
  <2> HIDE DEF pick
  <2> QED
    BY <2>1, IsASeq, LenProperties
<1> HIDE DEF pick
<1>2. CASE n = 0
  <2>1. FlattenSeq(pick) = pick /\ Len(pick) = 0
    BY <1>1, <1>2, FlattenSteps
  <2>2. FlattenSeq(pick) = <<>>
    BY <1>1, <2>1, EmptySeq
  <2> QED
    BY <1>0, <1>2, <2>2, EmptySeq
<1>3. CASE n # 0
  <2>1. PICK f : /\ FlattenSeq(pick) = f[n]
                 /\ \A i \in 1..n : f[i] = IF i = 1 THEN pick[i] ELSE f[i - 1] \o pick[i]
    BY <1>1, <1>3, FlattenSteps
  <2> DEFINE Good(i) == /\ f[i] \in Seq(S) /\ Len(f[i]) <= i
                        /\ \A k \in 1..i : k \in K => \E j \in 1..Len(f[i]) : f[i][j] = list[k]
                        /\ \A j \in 1..Len(f[i]) : \E k \in 1..i : k \in K /\ f[i][j] = list[k]
             T == {i \in Nat : i \in 1..n => Good(i)}
  <2>2. 0 \in T
    OBVIOUS
  <2>3. ASSUME NEW i \in Nat, i \in T PROVE i + 1 \in T
    <3> SUFFICES ASSUME i + 1 \in 1..n PROVE Good(i + 1)
      <4> HIDE DEF Good
      <4> QED
        OBVIOUS
    <3>1. pick[i + 1] = IF i + 1 \in K THEN <<list[i + 1]>> ELSE <<>>
      BY <1>a
    <3>2. list[i + 1] \in S
      OBVIOUS
    <3>3. CASE i = 0
      <4>1. f[i + 1] = pick[1] /\ i + 1 = 1
        BY <2>1, <3>3
      <4>2. f[i + 1] = pick[i + 1] /\ \A k \in 1..(i + 1) : k = i + 1
        BY <3>3, <4>1
      <4>3. CASE i + 1 \notin K
        <5>1. f[i + 1] = <<>>
          BY <3>1, <4>2, <4>3
        <5> QED
          BY <3>3, <4>2, <4>3, <5>1, EmptySeq
      <4>4. CASE i + 1 \in K
        <5>1. f[i + 1] = <<list[i + 1]>>
          BY <3>1, <4>2, <4>4
        <5>2. Len(f[i + 1]) = 1 /\ f[i + 1][1] = list[i + 1] /\ f[i + 1] \in Seq(S) /\ i + 1 \in K
          BY <3>2, <4>4, <5>1
        <5> HIDE DEF T
        <5> QED
          BY <3>3, <4>2, <5>2
      <4> QED
        BY <4>3, <4>4
    <3>4. CASE i # 0
      <4>1. f[i + 1] = f[i] \o pick[i + 1]
        <5>1. i + 1 # 1 /\ (i + 1) - 1 = i
          BY <3>4
        <5>2. f[i + 1] = IF i + 1 = 1 THEN pick[i + 1] ELSE f[(i + 1) - 1] \o pick[i + 1]
          BY <2>1
        <5> QED
          BY <5>1, <5>2, Zenon
      <4>2. Good(i)
        <5>1. i \in 1..n
          BY <3>4
        <5> HIDE DEF Good
        <5> QED
          BY <2>3, <5>1
      <4>3. CASE i + 1 \notin K
        <5>1. f[i + 1] = f[i]
          BY <3>1, <4>1, <4>2, <4>3
        <5>2. \A k \in 1..(i + 1) : k \in K => k \in 1..i
          BY <4>3
        <5>3. \A k \in 1..(i + 1) : k \in K => \E j \in 1..Len(f[i]) : f[i][j] = list[k]
          BY <4>2, <5>2
        <5>4. \A j \in 1..Len(f[i]) : \E k \in 1..(i + 1) : k \in K /\ f[i][j] = list[k]
          BY <4>2
        <5> QED
          BY <4>2, <5>1, <5>3, <5>4
      <4>4. CASE i + 1 \in K
        <5>1. f[i + 1] = Append(f[i], list[i + 1])
          BY <3>1, <3>2, <4>1, <4>2, <4>4
        <5>2. f[i + 1] \in Seq(S) /\ Len(f[i + 1]) = Len(f[i]) + 1 /\ Len(f[i]) \in Nat
          BY <3>2, <4>2, <5>1
        <5>3. f[i + 1][Len(f[i]) + 1] = list[i + 1]
              /\ \A j \in 1..Len(f[i]) : f[i + 1][j] = f[i][j]
          BY <3>2, <4>2, <5>1
        <5>4. ASSUME NEW k \in 1..(i + 1), k \in K PROVE \E j \in 1..Len(f[i + 1]) : f[i + 1][j] = list[k]
          <6>1. CASE k \in 1..i
            <7>1. PICK j \in 1..Len(f[i]) : f[i][j] = list[k]
              BY <4>2, <5>4, <6>1
            <7> QED
              BY <5>2, <5>3, <7>1
          <6>2. CASE k = i + 1
            BY <5>2, <5>3, <6>2
          <6> QED
            BY <6>1, <6>2
        <5>5. \A j \in 1..Len(f[i + 1]) : \E k \in 1..(i + 1) : k \in K /\ f[i + 1][j] = list[k]
          <6> SUFFICES ASSUME NEW j \in 1..Len(f[i + 1])
                       PROVE  \E k \in 1..(i + 1) : k \in K /\ f[i + 1][j] = list[k]
            OBVIOUS
          <6>1. CASE j \in 1..Len(f[i])
            BY <4>2, <5>3, <6>1
          <6>2. CASE j = Len(f[i]) + 1
            <7>1. i + 1 \in K /\ f[i + 1][j] = list[i + 1]
              BY <4>4, <5>3, <6>2
            <7> QED
              BY <7>1
          <6> QED
            BY <5>2, <6>1, <6>2
        <5> QED
          BY <4>2, <5>2, <5>4, <5>5
      <4> QED
        BY <4>3, <4>4
    <3> QED
      BY <3>3, <3>4
  <2>4. n \in T
    <3> HIDE DEF T
    <3> QED
      BY <2>2, <2>3, Upward DEF T
  <2> QED
    BY <1>0, <1>3, <2>1, <2>4
<1> QED
  BY <1>2, <1>3

-----------------------------------------------------------------------------
(* The declarations                                                        *)

\* What is declared: every struct has no more than maxFields of the workload's fields.
TypeInv ==
  /\ workload \in Workloads
  /\ fields \in [workload.structs -> Seq(workload.fields)]
  /\ \A s \in workload.structs : Len(fields[s]) <= workload.maxFields

\* A Go program declares lists of fields (reflect.go:320 walks them by position), of at
\* most the length it is bounded to.
THEOREM FieldsAreLists == Spec => []TypeInv
<1>1. Init => TypeInv
  <2> SUFFICES ASSUME Init PROVE TypeInv
    OBVIOUS
  <2>1. <<>> \in Seq(workload.fields) /\ Len(<<>>) = 0
    BY EmptySeq
  <2>2. workload.maxFields \in Nat
    BY WorkloadAssumption DEF Init
  <2> QED
    BY <2>1, <2>2 DEF Init, TypeInv
<1>2. TypeInv /\ [Next]_vars => TypeInv'
  <2> SUFFICES ASSUME TypeInv, [Next]_vars PROVE TypeInv'
    OBVIOUS
  <2>1. ASSUME NEW s \in Structs, NEW f \in workload.fields, Declare(s, f) PROVE TypeInv'
    <3>1. /\ fields[s] \in Seq(workload.fields) /\ Len(fields[s]) \in Nat
          /\ Len(fields[s]) < workload.maxFields /\ workload.maxFields \in Nat
      BY <2>1, WorkloadAssumption, LenProperties DEF TypeInv, Structs, Declare
    <3> DEFINE longer == Append(fields[s], f)
    <3>2. longer \in Seq(workload.fields) /\ Len(longer) <= workload.maxFields
      <4> HIDE DEF longer
      <4>1. longer \in Seq(workload.fields) /\ Len(longer) = Len(fields[s]) + 1
        <5> DEFINE F == workload.fields
                   list == fields[s]
        <5>1. list \in Seq(F) /\ f \in F
          BY <3>1
        <5> HIDE DEF F, list
        <5>2. Append(list, f) \in Seq(F) /\ Len(Append(list, f)) = Len(list) + 1
          BY <5>1, AppendProperties
        <5> QED
          BY <5>2 DEF F, list, longer
      <4> QED
        BY <3>1, <4>1
    <3>3. workload' = workload /\ fields' = [fields EXCEPT ![s] = longer]
      BY <2>1 DEF Declare
    <3> HIDE DEF longer
    <3> QED
      BY <3>2, <3>3 DEF TypeInv, Structs
  <2>2. CASE UNCHANGED vars
    BY <2>2 DEF TypeInv, vars
  <2> QED
    BY <2>1, <2>2 DEF Next
<1> QED
  BY <1>1, <1>2, PTL DEF Spec

\* A field of a struct is one of the workload's, and so has a type and a name of Go.
LEMMA FieldTypes ==
  ASSUME TypeInv, NEW s \in Structs
  PROVE  /\ Len(fields[s]) \in Nat /\ Len(fields[s]) <= workload.maxFields
         /\ DOMAIN fields[s] = 1..Len(fields[s]) /\ fields[s] \in Seq(workload.fields)
         /\ \A i \in 1..Len(fields[s]) :
              /\ fields[s][i] \in workload.fields
              /\ fields[s][i].type \in [base : STRING, wrap : {"none", "ptr", "slice"}]
              /\ fields[s][i].anonymous => fields[s][i].type.wrap # "slice"
              /\ fields[s][i].name # <<"-">>
<1>1. fields[s] \in Seq(workload.fields) /\ Len(fields[s]) <= workload.maxFields
  BY DEF TypeInv, Structs
<1>2. Len(fields[s]) \in Nat /\ DOMAIN fields[s] = 1..Len(fields[s])
  BY <1>1, LenProperties
<1>3. \A i \in 1..Len(fields[s]) : fields[s][i] \in workload.fields
  BY <1>1, ElementOfSeq
<1> QED
  BY <1>1, <1>2, <1>3, WorkloadAssumption DEF TypeInv

\* There are finitely many types to walk to.
LEMMA FiniteScanTypes ==
  ASSUME TypeInv
  PROVE  IsFiniteSet(ScanTypes) /\ Cardinality(ScanTypes) \in Nat
<1> DEFINE F == workload.fields
           base == [f \in F |-> f.type.base]
           bases == {f.type.base : f \in F}
           B == bases \cup {workload.root}
           W == {"none", "slice"}
           pairs == [p \in B \X W |-> [base |-> p[1], wrap |-> p[2]]]
<1>1. IsFiniteSet(F)
  BY WorkloadAssumption DEF TypeInv
<1>2. base \in Surjection(F, bases)
  BY DEF Surjection
<1>3. IsFiniteSet(bases)
  BY <1>1, <1>2, FS_Surjection
<1>4. IsFiniteSet(B)
  BY <1>3, FS_AddElement, Zenon
<1>5. IsFiniteSet(W)
  <2>1. IsFiniteSet({"none"})
    BY FS_Singleton, Zenon
  <2>2. W = {"none"} \cup {"slice"}
    OBVIOUS
  <2> QED
    BY <2>1, <2>2, FS_AddElement, Zenon
<1> HIDE DEF B, W
<1>6. IsFiniteSet(B \X W)
  BY <1>4, <1>5, FS_Product
<1>7. pairs \in Surjection(B \X W, [base : B, wrap : W])
  <2>1. pairs \in [B \X W -> [base : B, wrap : W]]
    OBVIOUS
  <2>2. ASSUME NEW t \in [base : B, wrap : W] PROVE \E p \in B \X W : pairs[p] = t
    <3>1. <<t.base, t.wrap>> \in B \X W /\ pairs[<<t.base, t.wrap>>] = t
      OBVIOUS
    <3> QED
      BY <3>1
  <2> HIDE DEF pairs
  <2> QED
    BY <2>1, <2>2 DEF Surjection
<1>8. ScanTypes = [base : B, wrap : W]
  BY DEF ScanTypes, B, W
<1> HIDE DEF pairs
<1>9. IsFiniteSet(ScanTypes)
  BY <1>6, <1>7, <1>8, FS_Surjection
<1> QED
  BY <1>9, FS_CardinalityType

-----------------------------------------------------------------------------
(* The types that can be reached                                           *)

\* The type that is mapped.
RootType == [base |-> workload.root, wrap |-> "none"]

\* Reached is the last of its levels.
LEMMA ReachedLevels ==
  ASSUME NEW n \in Nat, n = Cardinality(ScanTypes)
  PROVE  \E level : /\ level[0] = {RootType} /\ Reached = level[n]
                    /\ \A d \in 1..n : level[d] = Below(level[d - 1])
<1> DEFINE Loop(f, i) == IF i = 0 THEN {RootType} ELSE Below(f[i - 1])
           after == CHOOSE f : f = [i \in 0..n |-> Loop(f, i)]
<1>1. n \in Nat
  OBVIOUS
<1>2. Reached = after[n]
  BY Zenon DEF Reached, RootType
<1>3. \E f : f = [i \in 0..n |-> Loop(f, i)]
  <2> DEFINE S == {k \in Nat : \E f : f = [i \in 0..k |-> Loop(f, i)]}
  <2>1. 0 \in S
    <3> DEFINE f == [i \in 0..0 |-> {RootType}]
    <3>1. f = [i \in 0..0 |-> Loop(f, i)]
      OBVIOUS
    <3> QED
      BY <3>1
  <2>2. ASSUME NEW k \in Nat, k \in S PROVE k + 1 \in S
    <3>1. PICK f : f = [i \in 0..k |-> Loop(f, i)]
      BY <2>2
    <3>2. \A j \in 0..k : f[j] = Loop(f, j)
      BY <3>1
    <3> DEFINE h == [i \in 0..(k + 1) |-> IF i <= k THEN f[i] ELSE Loop(f, i)]
    <3>3. ASSUME NEW i \in 0..(k + 1) PROVE h[i] = Loop(h, i)
      <4>1. i # 0 => h[i - 1] = f[i - 1]
        OBVIOUS
      <4>2. Loop(h, i) = Loop(f, i)
        BY <4>1
      <4>3. h[i] = IF i <= k THEN f[i] ELSE Loop(f, i)
        OBVIOUS
      <4>4. i <= k => f[i] = Loop(f, i)
        BY <3>2
      <4> HIDE DEF h, Loop
      <4> QED
        BY <4>2, <4>3, <4>4
    <3>4. h = [i \in 0..(k + 1) |-> Loop(h, i)]
      BY <3>3
    <3> HIDE DEF h
    <3>5. \E g : g = [i \in 0..(k + 1) |-> Loop(g, i)]
      BY <3>4
    <3>6. k + 1 \in Nat
      OBVIOUS
    <3> QED
      BY <3>5, <3>6, Zenon
  <2>3. n \in S
    <3> HIDE DEF S
    <3> QED
      BY <1>1, <2>1, <2>2, Upward DEF S
  <2> QED
    BY <2>3
<1>4. after = [i \in 0..n |-> Loop(after, i)]
  BY <1>3
<1> HIDE DEF after
<1>5. \A i \in 0..n : after[i] = Loop(after, i)
  BY <1>4
<1>6. after[0] = {RootType} /\ \A k \in 1..n : after[k] = Below(after[k - 1])
  <2> QED
    BY <1>1, <1>5
<1> QED
  BY <1>2, <1>6

\* What is below types of the workload is of the workload.
LEMMA BelowTypes ==
  ASSUME TypeInv, NEW types \in SUBSET ScanTypes
  PROVE  types \subseteq Below(types) /\ Below(types) \subseteq ScanTypes
<1>1. ASSUME NEW t \in types PROVE [t EXCEPT !.wrap = "none"] \in ScanTypes
  BY DEF ScanTypes
<1>2. ASSUME NEW t \in types, NEW f \in FieldsOf(t.base) PROVE Deref(f.type) \in ScanTypes
  <2>1. t.base \in Structs /\ f \in ToSet(fields[t.base])
    BY <1>2 DEF FieldsOf
  <2>2. PICK i \in 1..Len(fields[t.base]) : f = fields[t.base][i]
    BY <2>1, FieldTypes DEF ToSet
  <2>3. f \in workload.fields /\ f.type \in [base : STRING, wrap : {"none", "ptr", "slice"}]
    BY <2>1, <2>2, FieldTypes
  <2>4. f.type.base \in {g.type.base : g \in workload.fields}
    BY <2>3
  <2>5. Deref(f.type) = [base |-> f.type.base, wrap |-> IF f.type.wrap = "ptr" THEN "none" ELSE f.type.wrap]
    BY <2>3 DEF Deref
  <2> QED
    BY <2>3, <2>4, <2>5 DEF ScanTypes
<1> QED
  BY <1>1, <1>2 DEF Below

\* What is below a larger set is more.
LEMMA BelowGrows ==
  ASSUME NEW A, NEW B, A \subseteq B
  PROVE  Below(A) \subseteq Below(B)
BY DEF Below

\* Reached is closed: as many levels as there are types leave nothing below it out.
LEMMA ReachedIsClosed ==
  ASSUME TypeInv
  PROVE  Reached \subseteq ScanTypes /\ RootType \in Reached /\ Below(Reached) = Reached
<1> DEFINE n == Cardinality(ScanTypes)
<1>1. IsFiniteSet(ScanTypes) /\ n \in Nat
  BY FiniteScanTypes
<1>2. PICK level : /\ level[0] = {RootType} /\ Reached = level[n]
                   /\ \A d \in 1..n : level[d] = Below(level[d - 1])
  BY <1>1, ReachedLevels
<1> HIDE DEF n
<1> DEFINE Wide(d) == Below(level[d]) = level[d] \/ d + 1 <= Cardinality(level[d])
           T == {d \in Nat : d <= n => level[d] \subseteq ScanTypes /\ RootType \in level[d] /\ Wide(d)}
<1>3. 0 \in T
  <2>1. RootType \in ScanTypes
    BY DEF RootType, ScanTypes
  <2>2. Cardinality({RootType}) = 1
    BY FS_Singleton, Zenon
  <2> QED
    BY <1>2, <2>1, <2>2
<1>4. ASSUME NEW d \in Nat, d \in T PROVE d + 1 \in T
  <2> SUFFICES ASSUME d + 1 <= n
               PROVE  level[d + 1] \subseteq ScanTypes /\ RootType \in level[d + 1] /\ Wide(d + 1)
    <3> HIDE DEF Wide
    <3> QED
      OBVIOUS
  <2>1. level[d] \subseteq ScanTypes /\ RootType \in level[d] /\ Wide(d)
    <3> HIDE DEF Wide
    <3> QED
      BY <1>1, <1>4
  <2>2. level[d + 1] = Below(level[d])
    <3>1. d + 1 \in 1..n /\ (d + 1) - 1 = d
      BY <1>1
    <3> QED
      BY <1>2, <3>1
  <2>3. level[d] \subseteq level[d + 1] /\ level[d + 1] \subseteq ScanTypes
    BY <2>1, <2>2, BelowTypes
  <2>4. IsFiniteSet(level[d + 1]) /\ Cardinality(level[d + 1]) \in Nat
    BY <1>1, <2>3, FS_Subset, FS_CardinalityType
  <2>5. CASE level[d + 1] = level[d]
    BY <2>1, <2>2, <2>3, <2>5
  <2>6. CASE level[d + 1] # level[d]
    <3>1. Cardinality(level[d]) \in Nat /\ Cardinality(level[d]) <= Cardinality(level[d + 1])
          /\ Cardinality(level[d]) # Cardinality(level[d + 1])
      <4>1. level[d] \in SUBSET level[d + 1]
        BY <2>3
      <4> QED
        BY <2>4, <2>6, <4>1, FS_Subset, FS_CardinalityType
    <3>2. d + 1 <= Cardinality(level[d])
      BY <2>1, <2>2, <2>6
    <3>3. (d + 1) + 1 <= Cardinality(level[d + 1])
      BY <2>4, <3>1, <3>2
    <3> QED
      BY <2>1, <2>3, <3>3
  <2> QED
    BY <2>5, <2>6
<1>5. n \in T
  <2> HIDE DEF T
  <2> QED
    BY <1>1, <1>3, <1>4, Upward DEF T
<1>6. level[n] \subseteq ScanTypes /\ RootType \in level[n] /\ Wide(n)
  <2> HIDE DEF Wide
  <2> QED
    BY <1>1, <1>5
<1>7. Cardinality(level[n]) \in Nat /\ Cardinality(level[n]) <= n
  <2>1. level[n] \in SUBSET ScanTypes
    BY <1>6
  <2> QED
    BY <1>1, <2>1, FS_Subset, FS_CardinalityType DEF n
<1>8. Below(level[n]) = level[n]
  BY <1>1, <1>6, <1>7
<1> QED
  BY <1>2, <1>6, <1>8

\* Reached is the least closed set: it is in every one that the root is in.
LEMMA ReachedIsLeast ==
  ASSUME TypeInv, NEW S, RootType \in S, \A types \in SUBSET S : Below(types) \subseteq S
  PROVE  Reached \subseteq S
<1> DEFINE n == Cardinality(ScanTypes)
<1>1. n \in Nat
  BY FiniteScanTypes
<1>2. PICK level : /\ level[0] = {RootType} /\ Reached = level[n]
                   /\ \A d \in 1..n : level[d] = Below(level[d - 1])
  BY <1>1, ReachedLevels
<1> HIDE DEF n
<1> DEFINE T == {d \in Nat : d <= n => level[d] \subseteq S}
<1>3. 0 \in T
  BY <1>2
<1>4. ASSUME NEW d \in Nat, d \in T PROVE d + 1 \in T
  <2>1. ASSUME d + 1 <= n PROVE level[d + 1] \subseteq S
    <3>1. d + 1 \in 1..n /\ (d + 1) - 1 = d /\ d <= n
      BY <1>1, <2>1
    <3>2. level[d + 1] = Below(level[d]) /\ level[d] \in SUBSET S
      BY <1>2, <1>4, <3>1
    <3> QED
      BY <3>2
  <2> QED
    BY <2>1
<1>5. n \in T
  <2> HIDE DEF T
  <2> QED
    BY <1>1, <1>3, <1>4, Upward DEF T
<1> QED
  BY <1>1, <1>2, <1>5

-----------------------------------------------------------------------------
(* The walk                                                                *)

\* The walk before its first call, and one turn of it.
WalkStart == [found |-> FALSE, seen |-> {}, calls |-> <<RootType>>]

WalkTurn(r) == IF r.found \/ r.calls = <<>> THEN r ELSE walkRawBytes(r)

\* containsRawBytes goes through the turns of the walk.
LEMMA WalkSteps ==
  ASSUME NEW n \in Nat, n = maxCalls
  PROVE  \E walk : /\ walk[0] = WalkStart /\ containsRawBytes(workload.root) = walk[n].found
                   /\ \A k \in 1..n : walk[k] = WalkTurn(walk[k - 1])
<1> DEFINE Loop(f, i) == IF i = 0 THEN WalkStart ELSE WalkTurn(f[i - 1])
           after == CHOOSE f : f = [i \in 0..n |-> Loop(f, i)]
<1>1. n \in Nat
  OBVIOUS
<1>2. containsRawBytes(workload.root) = after[n].found
  BY Zenon DEF containsRawBytes, RootType, WalkStart, WalkTurn
<1>3. \E f : f = [i \in 0..n |-> Loop(f, i)]
  <2> DEFINE S == {k \in Nat : \E f : f = [i \in 0..k |-> Loop(f, i)]}
  <2>1. 0 \in S
    <3> DEFINE f == [i \in 0..0 |-> WalkStart]
    <3>1. f = [i \in 0..0 |-> Loop(f, i)]
      OBVIOUS
    <3> QED
      BY <3>1
  <2>2. ASSUME NEW k \in Nat, k \in S PROVE k + 1 \in S
    <3>1. PICK f : f = [i \in 0..k |-> Loop(f, i)]
      BY <2>2
    <3>2. \A j \in 0..k : f[j] = Loop(f, j)
      BY <3>1
    <3> DEFINE h == [i \in 0..(k + 1) |-> IF i <= k THEN f[i] ELSE Loop(f, i)]
    <3>3. ASSUME NEW i \in 0..(k + 1) PROVE h[i] = Loop(h, i)
      <4>1. i # 0 => h[i - 1] = f[i - 1]
        OBVIOUS
      <4>2. Loop(h, i) = Loop(f, i)
        BY <4>1
      <4>3. h[i] = IF i <= k THEN f[i] ELSE Loop(f, i)
        OBVIOUS
      <4>4. i <= k => f[i] = Loop(f, i)
        BY <3>2
      <4> HIDE DEF h, Loop
      <4> QED
        BY <4>2, <4>3, <4>4
    <3>4. h = [i \in 0..(k + 1) |-> Loop(h, i)]
      BY <3>3
    <3> HIDE DEF h
    <3>5. \E g : g = [i \in 0..(k + 1) |-> Loop(g, i)]
      BY <3>4
    <3>6. k + 1 \in Nat
      OBVIOUS
    <3> QED
      BY <3>5, <3>6, Zenon
  <2>3. n \in S
    <3> HIDE DEF S
    <3> QED
      BY <1>1, <2>1, <2>2, Upward DEF S
  <2> QED
    BY <2>3
<1>4. after = [i \in 0..n |-> Loop(after, i)]
  BY <1>3
<1> HIDE DEF after
<1>5. \A i \in 0..n : after[i] = Loop(after, i)
  BY <1>4
<1>6. after[0] = WalkStart /\ \A k \in 1..n : after[k] = WalkTurn(after[k - 1])
  <2> QED
    BY <1>1, <1>5
<1> QED
  BY <1>2, <1>6

\* The types that walkRawBytes is called with.
CallTypes == ScanTypes \cup {f.type : f \in workload.fields}

\* Behind its pointer, each of them can be walked to.
LEMMA CallsAreTypes ==
  ASSUME TypeInv, NEW c \in CallTypes
  PROVE  Deref(c) \in ScanTypes
<1>1. CASE c \in ScanTypes
  BY <1>1 DEF ScanTypes, Deref
<1>2. ASSUME NEW f \in workload.fields, c = f.type PROVE Deref(c) \in ScanTypes
  <2>1. f.type \in [base : STRING, wrap : {"none", "ptr", "slice"}]
    BY WorkloadAssumption DEF TypeInv
  <2>2. Deref(c) = [base |-> f.type.base, wrap |-> IF f.type.wrap = "ptr" THEN "none" ELSE f.type.wrap]
    BY <1>2, <2>1 DEF Deref
  <2> QED
    BY <2>1, <2>2 DEF ScanTypes
<1> QED
  BY <1>1, <1>2 DEF CallTypes

\* TargetsOf is the types of the fields that can be mapped: isScanTarget and the default
\* Mapper leave out the same fields.
LEMMA WhatTargetsAre ==
  ASSUME TypeInv, NEW s \in Structs
  PROVE  /\ TargetsOf(s) \in Seq(CallTypes) /\ Len(TargetsOf(s)) <= workload.maxFields
         /\ \A k \in 1..Len(TargetsOf(s)) : \E f \in ToSet(fields[s]) : MappedByDefault(f) /\ TargetsOf(s)[k] = f.type
         /\ \A f \in ToSet(fields[s]) : MappedByDefault(f) => \E k \in 1..Len(TargetsOf(s)) : TargetsOf(s)[k] = f.type
<1> DEFINE list == fields[s]
           n == Len(list)
           K == {k \in 1..n : isScanTarget(list[k])}
           targets == Picked(list, n, K)
<1>1. n \in Nat /\ n <= workload.maxFields /\ DOMAIN list = 1..n /\ \A k \in 1..n : list[k] \in workload.fields
  BY FieldTypes
<1>2. \A k \in 1..n : isScanTarget(list[k]) <=> MappedByDefault(list[k])
  <2> TAKE k \in 1..n
  <2>1. list[k].name # <<"-">>
    BY FieldTypes
  <2> HIDE DEF list
  <2> QED
    BY <2>1 DEF isScanTarget, MappedByDefault, MappedBy, NameBy
<1>3. TargetsOf(s) = [k \in DOMAIN targets |-> targets[k].type]
  <2>1. \A k \in 1..n : isScanTarget(list[k]) <=> k \in K
    OBVIOUS
  <2> DEFINE pick == [k \in 1..n |-> IF isScanTarget(list[k]) THEN <<list[k]>> ELSE <<>>]
             same == [k \in 1..n |-> IF k \in K THEN <<list[k]>> ELSE <<>>]
  <2>2. pick = same
    <3> HIDE DEF K, list, n
    <3> QED
      BY <2>1
  <2>3. Chosen(list, isScanTarget) = FlattenSeq(pick)
    <3> HIDE DEF K, n
    <3> QED
      BY <1>1, Zenon DEF Chosen
  <2>4. Chosen(list, isScanTarget) = targets
    <3> HIDE DEF K, n, pick
    <3> QED
      BY <2>2, <2>3, Zenon DEF Picked
  <2> QED
    BY <2>4, Zenon DEF TargetsOf
<1> HIDE DEF list, n, K
<1>4. /\ targets \in Seq(workload.fields) /\ Len(targets) <= n
      /\ \A k \in 1..n : k \in K => \E j \in 1..Len(targets) : targets[j] = list[k]
      /\ \A j \in 1..Len(targets) : \E k \in 1..n : k \in K /\ targets[j] = list[k]
  <2> DEFINE F == workload.fields
  <2> SUFFICES /\ targets \in Seq(F) /\ Len(targets) <= n
               /\ \A k \in 1..n : k \in K => \E j \in 1..Len(targets) : targets[j] = list[k]
               /\ \A j \in 1..Len(targets) : \E k \in 1..n : k \in K /\ targets[j] = list[k]
    OBVIOUS
  <2>1. n \in Nat
    BY <1>1
  <2>2. \A k \in 1..n : list[k] \in F
    BY <1>1
  <2> HIDE DEF F
  <2> QED
    BY <2>1, <2>2, WhatIsPicked
<1> HIDE DEF targets
<1>5. Len(targets) \in Nat /\ DOMAIN targets = 1..Len(targets) /\ \A j \in 1..Len(targets) : targets[j] \in workload.fields
  BY <1>4, LenProperties, ElementOfSeq
<1>6. TargetsOf(s) = [k \in 1..Len(targets) |-> targets[k].type]
  BY <1>3, <1>5
<1>7. TargetsOf(s) \in Seq(CallTypes) /\ Len(TargetsOf(s)) = Len(targets)
  <2>1. TargetsOf(s) \in [1..Len(targets) -> CallTypes]
    BY <1>5, <1>6 DEF CallTypes
  <2> QED
    BY <1>5, <2>1, IsASeq, LenProperties
<1>8. ToSet(fields[s]) = {list[k] : k \in 1..n}
  BY <1>1 DEF ToSet, list
<1>9. \A k \in 1..n : k \in K <=> MappedByDefault(list[k])
  BY <1>2 DEF K
<1> QED
  <2>1. Len(TargetsOf(s)) <= workload.maxFields
    <3>1. workload.maxFields \in Nat
      BY WorkloadAssumption DEF TypeInv
    <3> QED
      BY <1>1, <1>4, <1>5, <1>7, <3>1
  <2>2. ASSUME NEW j \in 1..Len(TargetsOf(s))
        PROVE  \E f \in ToSet(fields[s]) : MappedByDefault(f) /\ TargetsOf(s)[j] = f.type
    <3>1. PICK k \in 1..n : k \in K /\ targets[j] = list[k]
      BY <1>4, <1>7
    <3>2. list[k] \in ToSet(fields[s]) /\ MappedByDefault(list[k])
      BY <1>8, <1>9, <3>1
    <3>3. TargetsOf(s)[j] = list[k].type
      BY <1>6, <1>7, <3>1
    <3> QED
      BY <3>2, <3>3
  <2>3. \A f \in ToSet(fields[s]) : MappedByDefault(f) => \E k \in 1..Len(TargetsOf(s)) : TargetsOf(s)[k] = f.type
    BY <1>4, <1>6, <1>7, <1>8, <1>9
  <2> QED
    BY <1>7, <2>1, <2>2, <2>3

\* What walkRawBytes goes on with: the element of a slice, the fields of a struct.
LEMMA WhatIsInside ==
  ASSUME TypeInv, NEW t \in ScanTypes
  PROVE  /\ Inside(t) \in Seq(CallTypes) /\ Len(Inside(t)) <= workload.maxFields + 1
         /\ \A k \in 1..Len(Inside(t)) : Deref(Inside(t)[k]) \in Below({t})
         /\ t.wrap = "slice" => \E k \in 1..Len(Inside(t)) : Deref(Inside(t)[k]) = [t EXCEPT !.wrap = "none"]
         /\ t.wrap # "slice" => \A f \in FieldsOf(t.base) : \E k \in 1..Len(Inside(t)) : Inside(t)[k] = f.type
<1>0. workload.maxFields \in Nat
  BY WorkloadAssumption DEF TypeInv
<1>1. CASE t.wrap = "slice"
  <2> DEFINE e == [t EXCEPT !.wrap = "none"]
  <2>1. Inside(t) = <<e>>
    BY <1>1 DEF Inside
  <2>2. e \in ScanTypes /\ e.wrap = "none" /\ Deref(e) = e /\ e \in Below({t})
    BY DEF ScanTypes, Deref, Below
  <2> HIDE DEF e
  <2>3. Len(Inside(t)) = 1 /\ Inside(t)[1] = e /\ Inside(t) \in Seq(CallTypes)
    BY <2>1, <2>2 DEF CallTypes
  <2>4. Len(Inside(t)) <= workload.maxFields + 1
    BY <1>0, <2>3
  <2>5. \A k \in 1..Len(Inside(t)) : Deref(Inside(t)[k]) \in Below({t})
    BY <2>2, <2>3
  <2>6. \E k \in 1..Len(Inside(t)) : Deref(Inside(t)[k]) = e
    BY <2>2, <2>3
  <2>7. \E k \in 1..Len(Inside(t)) : Deref(Inside(t)[k]) = [t EXCEPT !.wrap = "none"]
    BY <2>6 DEF e
  <2>8. t.wrap # "slice" => \A f \in FieldsOf(t.base) : \E k \in 1..Len(Inside(t)) : Inside(t)[k] = f.type
    BY <1>1
  <2>9. t.wrap = "slice" => \E k \in 1..Len(Inside(t)) : Deref(Inside(t)[k]) = [t EXCEPT !.wrap = "none"]
    BY <2>7
  <2>10. Inside(t) \in Seq(CallTypes)
    BY <2>3
  <2> QED
    BY <2>4, <2>5, <2>8, <2>9, <2>10, Zenon
<1>2. CASE t.wrap # "slice" /\ t.base \in Structs \ workload.scanners
  <2>1. Inside(t) = TargetsOf(t.base)
    BY <1>2 DEF Inside
  <2>2. FieldsOf(t.base) = {f \in ToSet(fields[t.base]) : MappedByDefault(f)}
    BY <1>2 DEF FieldsOf
  <2>3. \A f \in FieldsOf(t.base) : Deref(f.type) \in Below({t})
    BY DEF Below
  <2>4. Len(Inside(t)) \in Nat /\ Len(Inside(t)) <= workload.maxFields /\ Inside(t) \in Seq(CallTypes)
    BY <1>2, <2>1, WhatTargetsAre, LenProperties
  <2>5. \A k \in 1..Len(Inside(t)) : \E f \in FieldsOf(t.base) : Inside(t)[k] = f.type
    BY <1>2, <2>1, <2>2, WhatTargetsAre
  <2>6. \A f \in FieldsOf(t.base) : \E k \in 1..Len(Inside(t)) : Inside(t)[k] = f.type
    BY <1>2, <2>1, <2>2, WhatTargetsAre
  <2>7. Len(Inside(t)) <= workload.maxFields + 1
    BY <1>0, <2>4
  <2>8. \A k \in 1..Len(Inside(t)) : Deref(Inside(t)[k]) \in Below({t})
    BY <2>3, <2>5, Zenon
  <2> QED
    BY <1>2, <2>4, <2>6, <2>7, <2>8, Zenon
<1>3. CASE t.wrap # "slice" /\ t.base \notin Structs \ workload.scanners
  <2>1. Inside(t) = <<>>
    BY <1>3 DEF Inside
  <2>2. FieldsOf(t.base) = {}
    BY <1>3 DEF FieldsOf
  <2> QED
    BY <1>0, <1>3, <2>1, <2>2, EmptySeq
<1> QED
  BY <1>1, <1>2, <1>3

\* A type has been walked from, or a call for it is still to be made.
Awaits(r, t) == t \in r.seen \/ \E k \in 1..Len(r.calls) : Deref(r.calls[k]) = t

\* What holds of a walk: it only comes to types that can be reached and, until it has
\* found a RawBytes, what is inside the types it has seen is seen or awaited.
WalkInv(r) ==
  /\ r \in [found : BOOLEAN, seen : SUBSET ScanTypes, calls : Seq(CallTypes)]
  /\ r.found => RawBytes \in Reached
  /\ \A k \in 1..Len(r.calls) : Deref(r.calls[k]) \in Reached
  /\ ~r.found =>
       /\ RawBytes \notin r.seen
       /\ Awaits(r, RootType)
       /\ \A t \in r.seen : \A k \in 1..Len(Inside(t)) : Awaits(r, Deref(Inside(t)[k]))

\* The calls that can still be made.
Measure(r) == (workload.maxFields + 1) * Cardinality(ScanTypes \ r.seen) + Len(r.calls)

\* The walk starts with one call.
LEMMA WalkStarts ==
  ASSUME TypeInv
  PROVE  WalkInv(WalkStart) /\ Measure(WalkStart) \in Nat /\ Measure(WalkStart) <= maxCalls
<1>1. RootType \in ScanTypes /\ Deref(RootType) = RootType /\ RootType \in Reached
  BY ReachedIsClosed DEF RootType, ScanTypes, Deref
<1>2. WalkStart.calls = <<RootType>> /\ WalkStart.seen = {} /\ WalkStart.found = FALSE
  BY DEF WalkStart
<1>3. Len(WalkStart.calls) = 1 /\ WalkStart.calls[1] = RootType /\ WalkStart.calls \in Seq(CallTypes)
  BY <1>1, <1>2 DEF CallTypes
<1>4. WalkStart \in [found : BOOLEAN, seen : SUBSET ScanTypes, calls : Seq(CallTypes)]
  BY <1>3 DEF WalkStart
<1>5. Awaits(WalkStart, RootType) /\ \A k \in 1..Len(WalkStart.calls) : Deref(WalkStart.calls[k]) \in Reached
  BY <1>1, <1>3 DEF Awaits
<1>6. WalkInv(WalkStart)
  BY <1>2, <1>4, <1>5 DEF WalkInv
<1>7. ScanTypes \ WalkStart.seen = ScanTypes
  BY <1>2
<1>8. workload.maxFields + 1 \in Nat /\ Cardinality(ScanTypes) \in Nat
  BY FiniteScanTypes, WorkloadAssumption DEF TypeInv
<1>9. Measure(WalkStart) = (workload.maxFields + 1) * Cardinality(ScanTypes) + 1
  BY <1>3, <1>7, Zenon DEF Measure
<1> DEFINE a == workload.maxFields + 1
           b == Cardinality(ScanTypes)
<1>10. a * b \in Nat
  <2>1. a \in Nat /\ b \in Nat
    BY <1>8
  <2> HIDE DEF a, b
  <2> QED
    BY <2>1
<1>11. Measure(WalkStart) = a * b + 1 /\ maxCalls = a * b + 1
  BY <1>9, Zenon DEF maxCalls
<1> HIDE DEF a, b
<1> QED
  BY <1>6, <1>10, <1>11

\* Every call of walkRawBytes keeps what holds of the walk, and leaves fewer to be made.
LEMMA WalkGoesOn ==
  ASSUME TypeInv, NEW r, WalkInv(r), ~r.found, r.calls # <<>>
  PROVE  /\ WalkInv(walkRawBytes(r))
         /\ ~walkRawBytes(r).found => Measure(walkRawBytes(r)) \in Nat /\ Measure(walkRawBytes(r)) < Measure(r)
<1> DEFINE c == Head(r.calls)
           t == Deref(c)
           rest == Tail(r.calls)
           n == Len(r.calls)
           next == walkRawBytes(r)
<1>1. r \in [found : BOOLEAN, seen : SUBSET ScanTypes, calls : Seq(CallTypes)]
  BY DEF WalkInv
<1>2. /\ n \in Nat /\ n # 0 /\ c = r.calls[1] /\ c \in CallTypes /\ rest \in Seq(CallTypes) /\ Len(rest) = n - 1
      /\ \A k \in 1..(n - 1) : rest[k] = r.calls[k + 1]
  BY <1>1, HeadTailProperties, LenProperties, EmptySeq
<1>3. t \in ScanTypes /\ t \in Reached
  <2>1. 1 \in 1..n /\ t = Deref(r.calls[1])
    BY <1>2
  <2> QED
    BY <1>2, <2>1, CallsAreTypes DEF WalkInv
<1>4. \A k \in 1..Len(rest) : Deref(rest[k]) \in Reached
  <2> TAKE k \in 1..Len(rest)
  <2>1. k + 1 \in 1..n /\ rest[k] = r.calls[k + 1]
    BY <1>2
  <2> QED
    BY <2>1 DEF WalkInv
<1>5. \A x : Awaits(r, x) => x \in r.seen \/ x = t \/ \E k \in 1..Len(rest) : Deref(rest[k]) = x
  <2> SUFFICES ASSUME NEW x, NEW k \in 1..n, Deref(r.calls[k]) = x
               PROVE  x = t \/ \E j \in 1..Len(rest) : Deref(rest[j]) = x
    BY DEF Awaits
  <2>1. CASE k = 1
    BY <1>2, <2>1
  <2>2. CASE k # 1
    <3>1. k - 1 \in 1..Len(rest) /\ rest[k - 1] = r.calls[k]
      BY <1>2, <2>2
    <3> QED
      BY <3>1
  <2> QED
    BY <2>1, <2>2
<1>6. RawBytes \notin r.seen /\ Awaits(r, RootType)
      /\ \A x \in r.seen : \A k \in 1..Len(Inside(x)) : Awaits(r, Deref(Inside(x)[k]))
  BY DEF WalkInv
<1>7. IsFiniteSet(ScanTypes \ r.seen) /\ Cardinality(ScanTypes \ r.seen) \in Nat
  BY FiniteScanTypes, FS_Difference, FS_CardinalityType
<1>8. workload.maxFields + 1 \in Nat
  BY WorkloadAssumption DEF TypeInv
<1> HIDE DEF c, rest, n
<1>9. CASE t = RawBytes
  <2>1. next = [r EXCEPT !.found = TRUE]
    BY <1>9 DEF walkRawBytes, c, rest
  <2> HIDE DEF t, next
  <2>2. next.found = TRUE /\ next.calls = r.calls
        /\ next \in [found : BOOLEAN, seen : SUBSET ScanTypes, calls : Seq(CallTypes)]
    BY <1>1, <2>1
  <2>3. WalkInv(next)
    BY <1>3, <1>9, <2>2 DEF WalkInv
  <2> QED
    BY <2>2, <2>3 DEF next
<1>10. CASE t # RawBytes /\ t \in r.seen
  <2>1. next = [r EXCEPT !.calls = rest]
    BY <1>10 DEF walkRawBytes, c, rest
  <2> HIDE DEF t, next
  <2>2. next.found = FALSE /\ next.calls = rest /\ next.seen = r.seen
        /\ next \in [found : BOOLEAN, seen : SUBSET ScanTypes, calls : Seq(CallTypes)]
    BY <1>1, <1>2, <2>1
  <2>3. \A x : Awaits(r, x) => Awaits(next, x)
    BY <1>5, <1>10, <2>2 DEF Awaits
  <2>4. WalkInv(next)
    BY <1>4, <1>6, <2>2, <2>3 DEF WalkInv
  <2>5. Measure(next) \in Nat /\ Measure(next) < Measure(r)
    <3> DEFINE a == (workload.maxFields + 1) * Cardinality(ScanTypes \ r.seen)
    <3>1. a \in Nat
      BY <1>7, <1>8
    <3>2. Measure(r) = a + n /\ Measure(next) = a + Len(rest)
      BY <2>2 DEF Measure, n
    <3> HIDE DEF a
    <3> QED
      BY <1>2, <3>1, <3>2
  <2> QED
    BY <2>4, <2>5 DEF next
<1>11. CASE t # RawBytes /\ t \notin r.seen
  <2> DEFINE more == Inside(t)
             calls == more \o rest
  <2>1. next = [r EXCEPT !.seen = r.seen \cup {t}, !.calls = calls]
    BY <1>1, <1>11 DEF walkRawBytes, c, rest
  <2>2. /\ more \in Seq(CallTypes) /\ Len(more) \in Nat /\ Len(more) <= workload.maxFields + 1
        /\ \A k \in 1..Len(more) : Deref(more[k]) \in Below({t})
    BY <1>3, WhatIsInside, LenProperties
  <2>3. \A k \in 1..Len(more) : Deref(more[k]) \in Reached
    <3>1. Below({t}) \subseteq Reached
      <4>1. {t} \subseteq Reached
        BY <1>3
      <4>2. Below({t}) \subseteq Below(Reached)
        BY <4>1, BelowGrows, Zenon
      <4> QED
        BY <4>2, ReachedIsClosed
    <3> QED
      BY <2>2, <3>1
  <2> HIDE DEF t, next, more
  <2>4. /\ calls \in Seq(CallTypes) /\ Len(calls) = Len(more) + Len(rest)
        /\ \A k \in 1..Len(calls) : calls[k] = IF k <= Len(more) THEN more[k] ELSE rest[k - Len(more)]
    BY <1>2, <2>2, ConcatProperties
  <2>5. \A k \in 1..Len(more) : k \in 1..Len(calls) /\ calls[k] = more[k]
    BY <1>2, <2>2, <2>4
  <2>6. \A k \in 1..Len(rest) : k + Len(more) \in 1..Len(calls) /\ calls[k + Len(more)] = rest[k]
    BY <1>2, <2>2, <2>4
  <2> HIDE DEF calls
  <2>7. next.found = FALSE /\ next.calls = calls /\ next.seen = r.seen \cup {t}
        /\ next \in [found : BOOLEAN, seen : SUBSET ScanTypes, calls : Seq(CallTypes)]
    BY <1>1, <1>3, <2>1, <2>4
  <2>8. ASSUME NEW x, Awaits(r, x) PROVE Awaits(next, x)
    <3>1. CASE x \in r.seen \cup {t}
      BY <2>7, <3>1 DEF Awaits
    <3>2. CASE \E k \in 1..Len(rest) : Deref(rest[k]) = x
      <4>1. PICK k \in 1..Len(rest) : Deref(rest[k]) = x
        BY <3>2
      <4> QED
        BY <2>6, <2>7, <4>1 DEF Awaits
    <3> QED
      BY <1>5, <2>8, <3>1, <3>2
  <2>9. ASSUME NEW x \in next.seen, NEW k \in 1..Len(Inside(x)) PROVE Awaits(next, Deref(Inside(x)[k]))
    <3>1. CASE x \in r.seen
      BY <1>6, <2>8, <2>9, <3>1
    <3>2. CASE x = t
      <4>1. k \in 1..Len(more) /\ Inside(x)[k] = more[k]
        BY <2>9, <3>2 DEF more
      <4> QED
        BY <2>5, <2>7, <4>1 DEF Awaits
    <3> QED
      BY <2>7, <3>1, <3>2
  <2>10. \A k \in 1..Len(next.calls) : Deref(next.calls[k]) \in Reached
    <3> SUFFICES ASSUME NEW k \in 1..Len(calls) PROVE Deref(calls[k]) \in Reached
      BY <2>7
    <3>1. CASE k <= Len(more)
      BY <2>2, <2>3, <2>4, <3>1
    <3>2. CASE k > Len(more)
      <4>1. k - Len(more) \in 1..Len(rest) /\ calls[k] = rest[k - Len(more)]
        BY <1>2, <2>2, <2>4, <3>2
      <4> QED
        BY <1>4, <4>1
    <3> QED
      BY <2>2, <3>1, <3>2
  <2>11. WalkInv(next)
    <3>1. RawBytes \notin next.seen
      BY <1>6, <1>11, <2>7
    <3> QED
      BY <1>6, <2>7, <2>8, <2>9, <2>10, <3>1 DEF WalkInv
  <2>12. Measure(next) \in Nat /\ Measure(next) < Measure(r)
    <3> DEFINE a == workload.maxFields + 1
               k == Cardinality(ScanTypes \ r.seen)
               j == Cardinality(ScanTypes \ next.seen)
    <3>1. k \in Nat /\ k # 0 /\ j = k - 1
      <4>1. ScanTypes \ next.seen = (ScanTypes \ r.seen) \ {t} /\ t \in ScanTypes \ r.seen
        BY <1>3, <1>11, <2>7
      <4>2. Cardinality((ScanTypes \ r.seen) \ {t}) = Cardinality(ScanTypes \ r.seen) - 1
        BY <1>7, <4>1, FS_RemoveElement
      <4>3. Cardinality(ScanTypes \ r.seen) # 0
        BY <1>7, <4>1, FS_EmptySet
      <4> QED
        BY <1>7, <4>1, <4>2, <4>3
    <3>2. a \in Nat /\ Measure(r) = a * k + n /\ Measure(next) = a * j + Len(calls)
      BY <1>8, <2>7 DEF Measure, n
    <3>3. Len(more) <= a
      BY <2>2
    <3> HIDE DEF a, k, j
    <3>4. a * k = a * j + a /\ a * j \in Nat
      BY <3>1, <3>2
    <3> QED
      BY <1>2, <2>2, <2>4, <3>2, <3>3, <3>4
  <2> QED
    BY <2>11, <2>12 DEF next
<1> QED
  BY <1>9, <1>10, <1>11

\* A walk that ends without having found a RawBytes has seen all that can be reached.
LEMMA WalkEnds ==
  ASSUME TypeInv, NEW r, WalkInv(r), r.calls = <<>>, ~r.found
  PROVE  RawBytes \notin Reached
<1>1. r.seen \subseteq ScanTypes /\ \A x : Awaits(r, x) => x \in r.seen
  <2>1. Len(r.calls) = 0
    BY EmptySeq
  <2> QED
    BY <2>1 DEF WalkInv, Awaits
<1>2. RawBytes \notin r.seen /\ RootType \in r.seen
      /\ \A t \in r.seen : \A k \in 1..Len(Inside(t)) : Deref(Inside(t)[k]) \in r.seen
  BY <1>1 DEF WalkInv
<1>3. ASSUME NEW t \in r.seen PROVE [t EXCEPT !.wrap = "none"] \in r.seen
  <2>1. t \in ScanTypes
    BY <1>1
  <2>2. CASE t.wrap = "slice"
    BY <1>2, <2>1, <2>2, WhatIsInside
  <2>3. CASE t.wrap # "slice"
    <3>1. [t EXCEPT !.wrap = "none"] = t
      BY <2>1, <2>3 DEF ScanTypes
    <3> QED
      BY <3>1
  <2> QED
    BY <2>2, <2>3
<1>4. ASSUME NEW t \in r.seen, NEW f \in FieldsOf(t.base) PROVE Deref(f.type) \in r.seen
  <2> DEFINE u == [t EXCEPT !.wrap = "none"]
  <2>1. u \in r.seen /\ u \in ScanTypes
    BY <1>1, <1>3
  <2>2. u.wrap # "slice" /\ u.base = t.base
    BY <1>1 DEF ScanTypes
  <2> HIDE DEF u
  <2>3. PICK k \in 1..Len(Inside(u)) : Inside(u)[k] = f.type
    BY <1>4, <2>1, <2>2, WhatIsInside
  <2> QED
    BY <1>2, <2>1, <2>3
<1>5. ASSUME NEW types \in SUBSET r.seen PROVE Below(types) \subseteq r.seen
  <2>1. \A t \in types : [t EXCEPT !.wrap = "none"] \in r.seen
    BY <1>3
  <2>2. \A t \in types : \A f \in FieldsOf(t.base) : Deref(f.type) \in r.seen
    BY <1>4
  <2> QED
    BY <2>1, <2>2 DEF Below
<1>6. Reached \subseteq r.seen
  BY <1>2, <1>5, ReachedIsLeast
<1> QED
  BY <1>2, <1>6

\* containsRawBytes answers what it is asked.
LEMMA WalkFinds ==
  ASSUME TypeInv
  PROVE  RawBytesAreFound
<1> DEFINE n == maxCalls
<1>1. n \in Nat
  <2>1. workload.maxFields \in Nat /\ Cardinality(ScanTypes) \in Nat
    BY FiniteScanTypes, WorkloadAssumption DEF TypeInv
  <2> QED
    BY <2>1 DEF maxCalls
<1>2. PICK walk : /\ walk[0] = WalkStart /\ containsRawBytes(workload.root) = walk[n].found
                  /\ \A k \in 1..n : walk[k] = WalkTurn(walk[k - 1])
  BY <1>1, WalkSteps
<1> HIDE DEF n
<1> DEFINE Done(r) == r.found \/ r.calls = <<>>
           Good(k) == WalkInv(walk[k]) /\ (Done(walk[k]) \/ (Measure(walk[k]) \in Nat /\ Measure(walk[k]) <= n - k))
           T == {k \in Nat : k <= n => Good(k)}
<1>3. 0 \in T
  BY <1>1, <1>2, WalkStarts DEF n
<1>4. ASSUME NEW k \in Nat, k \in T PROVE k + 1 \in T
  <2> SUFFICES ASSUME k + 1 <= n PROVE Good(k + 1)
    <3> HIDE DEF Good
    <3> QED
      OBVIOUS
  <2>1. Good(k)
    <3> HIDE DEF Good
    <3> QED
      BY <1>1, <1>4
  <2>2. walk[k + 1] = WalkTurn(walk[k])
    <3>1. k + 1 \in 1..n /\ (k + 1) - 1 = k
      BY <1>1
    <3> QED
      BY <1>2, <3>1
  <2>3. CASE Done(walk[k])
    BY <2>1, <2>2, <2>3 DEF WalkTurn
  <2>4. CASE ~Done(walk[k])
    <3>1. walk[k + 1] = walkRawBytes(walk[k])
      BY <2>2, <2>4 DEF WalkTurn
    <3>2. WalkInv(walk[k]) /\ Measure(walk[k]) \in Nat /\ Measure(walk[k]) <= n - k
      BY <2>1, <2>4
    <3>3. /\ WalkInv(walk[k + 1])
          /\ ~walk[k + 1].found => Measure(walk[k + 1]) \in Nat /\ Measure(walk[k + 1]) < Measure(walk[k])
      BY <2>4, <3>1, <3>2, WalkGoesOn
    <3> QED
      BY <1>1, <3>2, <3>3
  <2> QED
    BY <2>3, <2>4
<1>5. Good(n)
  <2>1. n \in T
    <3> HIDE DEF T
    <3> QED
      BY <1>1, <1>3, <1>4, Upward DEF T
  <2> HIDE DEF Good
  <2> QED
    BY <1>1, <2>1
<1>6. Done(walk[n])
  <2>1. ASSUME ~Done(walk[n]) PROVE FALSE
    <3>1. Measure(walk[n]) \in Nat /\ Measure(walk[n]) <= 0 /\ WalkInv(walk[n])
      BY <1>1, <1>5, <2>1
    <3> DEFINE r == walk[n]
               a == (workload.maxFields + 1) * Cardinality(ScanTypes \ r.seen)
    <3>2. r.calls \in Seq(CallTypes)
      BY <3>1 DEF WalkInv
    <3>3. a \in Nat
      <4>1. workload.maxFields + 1 \in Nat
        BY WorkloadAssumption DEF TypeInv
      <4>2. Cardinality(ScanTypes \ r.seen) \in Nat
        BY FiniteScanTypes, FS_Difference, FS_CardinalityType
      <4> QED
        BY <4>1, <4>2
    <3>4. Measure(r) = a + Len(r.calls)
      BY DEF Measure
    <3>5. Len(r.calls) \in Nat
      BY <3>2, LenProperties
    <3> HIDE DEF a
    <3>6. Len(r.calls) = 0
      BY <3>1, <3>3, <3>4, <3>5
    <3>7. r.calls = <<>>
      BY <3>2, <3>6, EmptySeq
    <3> QED
      BY <2>1, <3>7
  <2> QED
    BY <2>1
<1>7. walk[n].found \in BOOLEAN /\ WalkInv(walk[n])
  BY <1>5 DEF WalkInv
<1>8. walk[n].found => RawBytes \in Reached
  BY <1>7 DEF WalkInv
<1>9. ~walk[n].found => RawBytes \notin Reached
  BY <1>6, <1>7, WalkEnds
<1> QED
  BY <1>2, <1>7, <1>8, <1>9 DEF RawBytesAreFound, n

\* The walk of containsRawBytes (scan.go:268) finds a RawBytes exactly when one can be
\* reached, for every declaration: the set that breaks cycles, shared by calls of which
\* some are not over, hides none.
THEOREM WalkMissesNothing == Spec => []RawBytesAreFound
<1>1. TypeInv => RawBytesAreFound
  BY WalkFinds
<1> QED
  BY <1>1, FieldsAreLists, PTL

-----------------------------------------------------------------------------
(* The mapping                                                             *)

\* QueueLoop before its first turn, and one turn of it.
QueueStart == [queue |-> <<Root>>, m |-> <<>>]

LoopTurn(r) == IF r.queue = <<>> THEN r ELSE QueueTurn(r)

\* QueueLoop goes through its turns.
LEMMA QueueSteps ==
  ASSUME NEW n \in Nat, n = workload.maxTurns
  PROVE  \E loop : /\ loop[0] = QueueStart /\ QueueLoop = loop[n]
                   /\ \A k \in 1..n : loop[k] = LoopTurn(loop[k - 1])
<1> DEFINE Loop(f, i) == IF i = 0 THEN QueueStart ELSE LoopTurn(f[i - 1])
           after == CHOOSE f : f = [i \in 0..n |-> Loop(f, i)]
<1>1. n \in Nat
  OBVIOUS
<1>2. QueueLoop = after[n]
  BY Zenon DEF QueueLoop, QueueStart, LoopTurn
<1>3. \E f : f = [i \in 0..n |-> Loop(f, i)]
  <2> DEFINE S == {k \in Nat : \E f : f = [i \in 0..k |-> Loop(f, i)]}
  <2>1. 0 \in S
    <3> DEFINE f == [i \in 0..0 |-> QueueStart]
    <3>1. f = [i \in 0..0 |-> Loop(f, i)]
      OBVIOUS
    <3> QED
      BY <3>1
  <2>2. ASSUME NEW k \in Nat, k \in S PROVE k + 1 \in S
    <3>1. PICK f : f = [i \in 0..k |-> Loop(f, i)]
      BY <2>2
    <3>2. \A j \in 0..k : f[j] = Loop(f, j)
      BY <3>1
    <3> DEFINE h == [i \in 0..(k + 1) |-> IF i <= k THEN f[i] ELSE Loop(f, i)]
    <3>3. ASSUME NEW i \in 0..(k + 1) PROVE h[i] = Loop(h, i)
      <4>1. i # 0 => h[i - 1] = f[i - 1]
        OBVIOUS
      <4>2. Loop(h, i) = Loop(f, i)
        BY <4>1
      <4>3. h[i] = IF i <= k THEN f[i] ELSE Loop(f, i)
        OBVIOUS
      <4>4. i <= k => f[i] = Loop(f, i)
        BY <3>2
      <4> HIDE DEF h, Loop
      <4> QED
        BY <4>2, <4>3, <4>4
    <3>4. h = [i \in 0..(k + 1) |-> Loop(h, i)]
      BY <3>3
    <3> HIDE DEF h
    <3>5. \E g : g = [i \in 0..(k + 1) |-> Loop(g, i)]
      BY <3>4
    <3>6. k + 1 \in Nat
      OBVIOUS
    <3> QED
      BY <3>5, <3>6, Zenon
  <2>3. n \in S
    <3> HIDE DEF S
    <3> QED
      BY <1>1, <2>1, <2>2, Upward DEF S
  <2> QED
    BY <2>3
<1>4. after = [i \in 0..n |-> Loop(after, i)]
  BY <1>3
<1> HIDE DEF after
<1>5. \A i \in 0..n : after[i] = Loop(after, i)
  BY <1>4
<1>6. after[0] = QueueStart /\ \A k \in 1..n : after[k] = LoopTurn(after[k - 1])
  <2> QED
    BY <1>1, <1>5
<1> QED
  BY <1>2, <1>6

\* The maps before the first field, and after one more.
NoNames == [paths |-> <<>>, names |-> <<>>]

\* NamesOf puts the fields in one after the other.
LEMMA NameSteps ==
  ASSUME NEW m, Len(m) \in Nat
  PROVE  \E maps : /\ maps[0] = NoNames /\ NamesOf(m) = maps[Len(m)].names
                   /\ \A k \in 1..Len(m) : maps[k] = Put(maps[k - 1], m[k])
<1> DEFINE n == Len(m)
           Loop(f, i) == IF i = 0 THEN NoNames ELSE Put(f[i - 1], m[i])
           after == CHOOSE f : f = [i \in 0..n |-> Loop(f, i)]
<1>1. n \in Nat
  OBVIOUS
<1>2. NamesOf(m) = after[n].names
  BY Zenon DEF NamesOf, NoNames
<1>3. \E f : f = [i \in 0..n |-> Loop(f, i)]
  <2> HIDE DEF n
  <2> DEFINE S == {k \in Nat : \E f : f = [i \in 0..k |-> Loop(f, i)]}
  <2>1. 0 \in S
    <3> DEFINE f == [i \in 0..0 |-> NoNames]
    <3>1. f = [i \in 0..0 |-> Loop(f, i)]
      OBVIOUS
    <3> QED
      BY <3>1
  <2>2. ASSUME NEW k \in Nat, k \in S PROVE k + 1 \in S
    <3>1. PICK f : f = [i \in 0..k |-> Loop(f, i)]
      BY <2>2
    <3>2. \A j \in 0..k : f[j] = Loop(f, j)
      BY <3>1
    <3> DEFINE h == [i \in 0..(k + 1) |-> IF i <= k THEN f[i] ELSE Loop(f, i)]
    <3>3. ASSUME NEW i \in 0..(k + 1) PROVE h[i] = Loop(h, i)
      <4>1. i # 0 => h[i - 1] = f[i - 1]
        OBVIOUS
      <4>2. Loop(h, i) = Loop(f, i)
        BY <4>1
      <4>3. h[i] = IF i <= k THEN f[i] ELSE Loop(f, i)
        OBVIOUS
      <4>4. i <= k => f[i] = Loop(f, i)
        BY <3>2
      <4> HIDE DEF h, Loop
      <4> QED
        BY <4>2, <4>3, <4>4
    <3>4. h = [i \in 0..(k + 1) |-> Loop(h, i)]
      BY <3>3
    <3> HIDE DEF h
    <3>5. \E g : g = [i \in 0..(k + 1) |-> Loop(g, i)]
      BY <3>4
    <3>6. k + 1 \in Nat
      OBVIOUS
    <3> QED
      BY <3>5, <3>6, Zenon
  <2>3. n \in S
    <3> HIDE DEF S
    <3> QED
      BY <1>1, <2>1, <2>2, Upward DEF S
  <2> QED
    BY <2>3
<1>4. after = [i \in 0..n |-> Loop(after, i)]
  BY <1>3
<1> HIDE DEF after
<1>5. \A i \in 0..n : after[i] = Loop(after, i)
  BY <1>4
<1>6. after[0] = NoNames /\ \A k \in 1..n : after[k] = Put(after[k - 1], m[k])
  <2> HIDE DEF n
  <2> QED
    BY <1>1, <1>5
<1> QED
  BY <1>2, <1>6

\* What has a name is one of the fields that were found.
LEMMA NamedFields ==
  ASSUME NEW m, Len(m) \in Nat
  PROVE  \A p \in DOMAIN NamesOf(m) : \E j \in 1..Len(m) : NamesOf(m)[p] = m[j]
<1> DEFINE n == Len(m)
<1>1. PICK maps : /\ maps[0] = NoNames /\ NamesOf(m) = maps[n].names
                  /\ \A k \in 1..n : maps[k] = Put(maps[k - 1], m[k])
  BY NameSteps
<1> DEFINE Good(k) == \A p \in DOMAIN maps[k].names : \E j \in 1..k : maps[k].names[p] = m[j]
           T == {k \in Nat : k <= n => Good(k)}
<1>2. n \in Nat
  OBVIOUS
<1> HIDE DEF n
<1>3. 0 \in T
  <2>1. maps[0].names = <<>>
    BY <1>1 DEF NoNames
  <2> QED
    BY <2>1
<1>4. ASSUME NEW k \in Nat, k \in T PROVE k + 1 \in T
  <2> SUFFICES ASSUME k + 1 <= n PROVE Good(k + 1)
    <3> HIDE DEF Good
    <3> QED
      OBVIOUS
  <2>1. Good(k)
    <3> HIDE DEF Good
    <3> QED
      BY <1>2, <1>4
  <2>2. maps[k + 1] = Put(maps[k], m[k + 1])
    <3>1. k + 1 \in 1..n /\ (k + 1) - 1 = k
      BY <1>2
    <3> QED
      BY <1>1, <3>1
  <2> DEFINE fi == m[k + 1]
             more == Stored(maps[k].names, fi)
  <2>3. maps[k + 1].names = maps[k].names \/ maps[k + 1].names = more
    <3> DEFINE taken == fi.path \in DOMAIN maps[k].paths /\ ~maps[k].paths[fi.path].embedded
               named == fi.name # <<"">> /\ ~fi.embedded
               paths == Stored(maps[k].paths, fi)
    <3>1. Put(maps[k], fi) = IF taken THEN maps[k]
                             ELSE [paths |-> paths, names |-> IF named THEN more ELSE maps[k].names]
      BY Zenon DEF Put
    <3> HIDE DEF taken, named, paths, more
    <3>2. maps[k + 1] = IF taken THEN maps[k]
                        ELSE [paths |-> paths, names |-> IF named THEN more ELSE maps[k].names]
      BY <2>2, <3>1
    <3> QED
      BY <3>2
  <2>4. \A p \in DOMAIN more : more[p] = fi \/ (p \in DOMAIN maps[k].names /\ more[p] = maps[k].names[p])
    BY DEF Stored
  <2> HIDE DEF more
  <2>5. k + 1 \in 1..(k + 1) /\ \A j \in 1..k : j \in 1..(k + 1)
    OBVIOUS
  <2> QED
    BY <2>1, <2>3, <2>4, <2>5
<1>5. Good(n)
  <2>1. n \in T
    <3> HIDE DEF T
    <3> QED
      BY <1>2, <1>3, <1>4, Upward DEF T
  <2> HIDE DEF Good
  <2> QED
    BY <1>2, <2>1
<1> QED
  BY <1>1, <1>5 DEF n

\* The elements of a list are those of two others.
OneOrOther(list, a, b) ==
  \A k \in 1..Len(list) : (\E j \in 1..Len(a) : list[k] = a[j]) \/ \E j \in 1..Len(b) : list[k] = b[j]

\* Lists of any two kinds, one after the other.
LEMMA JoinLists ==
  ASSUME NEW A, NEW B, NEW a \in Seq(A), NEW b \in Seq(B)
  PROVE  /\ a \o b \in Seq(A \cup B) /\ Len(a \o b) = Len(a) + Len(b)
         /\ OneOrOther(a \o b, a, b)
<1>1. Len(a) \in Nat /\ Len(b) \in Nat
  BY LenProperties
<1>2. a \in Seq(A \cup B) /\ b \in Seq(A \cup B)
  <2>1. a \in [1..Len(a) -> A \cup B] /\ b \in [1..Len(b) -> A \cup B]
    BY LenProperties, ElementOfSeq
  <2> QED
    BY <1>1, <2>1, IsASeq
<1>3. /\ a \o b \in Seq(A \cup B) /\ Len(a \o b) = Len(a) + Len(b)
      /\ \A k \in 1..(Len(a) + Len(b)) : (a \o b)[k] = IF k <= Len(a) THEN a[k] ELSE b[k - Len(a)]
  BY <1>2, ConcatProperties
<1>4. ASSUME NEW k \in 1..Len(a \o b)
      PROVE  \/ \E j \in 1..Len(a) : (a \o b)[k] = a[j]
             \/ \E j \in 1..Len(b) : (a \o b)[k] = b[j]
  <2>1. CASE k <= Len(a)
    BY <1>1, <1>3, <2>1
  <2>2. CASE k > Len(a)
    <3>1. k - Len(a) \in 1..Len(b) /\ (a \o b)[k] = b[k - Len(a)]
      BY <1>1, <1>3, <2>2
    <3> QED
      BY <3>1
  <2> QED
    BY <1>1, <1>3, <2>1, <2>2
<1> QED
  BY <1>3, <1>4 DEF OneOrOther

\* The children of a field are its fields that can be mapped.
LEMMA WhatChildrenAre ==
  ASSUME TypeInv, NEW fi
  PROVE  /\ \E S : Children(fi) \in Seq(S)
         /\ fi.t \notin Structs => Children(fi) = <<>>
         /\ fi.t \in Structs => \A j \in 1..Len(Children(fi)) :
              \E i \in 1..Len(fields[fi.t]) : CanBeMapped(fields[fi.t][i]) /\ Children(fi)[j] = FieldInfo(fi, i)
<1>1. CASE fi.t \notin Structs
  <2>1. Children(fi) = <<>>
    BY <1>1 DEF Children
  <2>2. Children(fi) \in Seq({})
    BY <2>1, EmptySeq
  <2> QED
    BY <1>1, <2>1, <2>2
<1>2. CASE fi.t \in Structs
  <2> DEFINE s == fi.t
             n == Len(fields[s])
             list == [i \in 1..n |-> i]
             K == {i \in 1..n : CanBeMapped(fields[s][list[i]])}
             mapped == Picked(list, n, K)
             pick == [k \in 1..n |-> IF CanBeMapped(fields[s][list[k]]) THEN <<list[k]>> ELSE <<>>]
             same == [k \in 1..n |-> IF k \in K THEN <<list[k]>> ELSE <<>>]
  <2>1. n \in Nat /\ DOMAIN fields[s] = 1..n
    BY <1>2, FieldTypes
  <2>2. \A k \in 1..n : CanBeMapped(fields[s][list[k]]) <=> k \in K
    <3> HIDE DEF n, s, list
    <3> QED
      OBVIOUS
  <2>3. pick = same
    <3> HIDE DEF K, list, n, s
    <3> QED
      BY <2>2
  <2>4. Children(fi) = [k \in DOMAIN mapped |-> FieldInfo(fi, mapped[k])]
    <3>1. DOMAIN list = 1..n /\ list = [i \in DOMAIN fields[s] |-> i]
      BY <2>1
    <3> DEFINE IsMapped(i) == CanBeMapped(fields[s][i])
    <3>2. Chosen(list, IsMapped) = FlattenSeq(pick)
      <4> HIDE DEF list, n, s
      <4> QED
        BY <3>1, Zenon DEF Chosen
    <3>3. Chosen(list, IsMapped) = mapped
      <4> HIDE DEF K, n, pick, list, s, IsMapped
      <4> QED
        BY <2>3, <3>2, Zenon DEF Picked
    <3>4. Children(fi) = LET chosen == Chosen(list, IsMapped) IN [k \in DOMAIN chosen |-> FieldInfo(fi, chosen[k])]
      <4> HIDE DEF list, n
      <4> QED
        BY <1>2, <3>1, Zenon DEF Children
    <3> QED
      <4> HIDE DEF list, n, K, mapped, IsMapped
      <4> QED
        BY <3>3, <3>4, Zenon
  <2>5. \A k \in 1..n : list[k] \in 1..n
    OBVIOUS
  <2>6. \A k \in 1..n : list[k] = k
    OBVIOUS
  <2>7. \A i \in K : i \in 1..n /\ CanBeMapped(fields[s][i])
    BY <2>6
  <2> HIDE DEF n, s, list, K
  <2>8. /\ mapped \in Seq(1..n)
        /\ \A j \in 1..Len(mapped) : \E k \in 1..n : k \in K /\ mapped[j] = list[k]
    <3> DEFINE N == 1..n
    <3>1. \A k \in 1..n : list[k] \in N
      BY <2>5
    <3> SUFFICES /\ mapped \in Seq(N)
                 /\ \A j \in 1..Len(mapped) : \E k \in 1..n : k \in K /\ mapped[j] = list[k]
      OBVIOUS
    <3> HIDE DEF N
    <3> QED
      BY <2>1, <3>1, WhatIsPicked
  <2> HIDE DEF mapped
  <2>9. DOMAIN mapped = 1..Len(mapped) /\ Len(mapped) \in Nat
    BY <2>8, LenProperties
  <2>10. Children(fi) \in Seq({FieldInfo(fi, mapped[k]) : k \in 1..Len(mapped)}) /\ Len(Children(fi)) = Len(mapped)
    <3> DEFINE S == {FieldInfo(fi, mapped[k]) : k \in 1..Len(mapped)}
    <3>1. Children(fi) \in [1..Len(mapped) -> S]
      BY <2>4, <2>9
    <3> HIDE DEF S
    <3>2. Children(fi) \in Seq(S) /\ Len(Children(fi)) = Len(mapped)
      BY <2>9, <3>1, IsASeq, LenProperties
    <3> QED
      BY <3>2 DEF S
  <2>11. ASSUME NEW j \in 1..Len(Children(fi))
         PROVE  \E i \in 1..n : CanBeMapped(fields[s][i]) /\ Children(fi)[j] = FieldInfo(fi, i)
    <3>1. PICK k \in 1..n : k \in K /\ mapped[j] = list[k]
      BY <2>8, <2>10
    <3>2. mapped[j] = k /\ CanBeMapped(fields[s][k])
      BY <2>6, <2>7, <3>1
    <3>3. Children(fi)[j] = FieldInfo(fi, mapped[j])
      BY <2>4, <2>9, <2>10
    <3> QED
      BY <3>2, <3>3, Zenon
  <2>12. \E S : Children(fi) \in Seq(S)
    BY <2>10, Zenon
  <2> QED
    BY <1>2, <2>11, <2>12, Zenon DEF s, n
<1> QED
  BY <1>1, <1>2

\* What may be above a field: the root, or a field.
AboveFields == {NoField} \cup workload.fields

\* A field that the Mapper in use maps and the default Mapper does not.
Hidden(f) == f.tag # f.db /\ ~MappedByDefault(f)

\* No Scanner and no hidden field is above a field.
Clear(fi) == \A k \in DOMAIN fi.above : fi.above[k].type.base \notin workload.scanners /\ ~Hidden(fi.above[k])

\* What holds of a field that was found: unless it is hidden or inside a Scanner,
\* scanning could write to its type.
FieldOk(fi) == Clear(fi) /\ ~Hidden(fi.field) => Deref(fi.field.type) \in Reached

\* What holds of a field in the queue: unless it is hidden or inside a Scanner, the
\* struct that it stands for can be reached.
QueueOk(fi) ==
  /\ fi.above \in Seq(AboveFields) /\ fi.field \in AboveFields
  /\ fi.t \in workload.scanners => fi.field.type.base \in workload.scanners
  /\ Clear(fi) /\ ~Hidden(fi.field) => [base |-> fi.t, wrap |-> "none"] \in Reached

\* A field below one of the queue can be reached as well.
LEMMA FieldBelow ==
  ASSUME TypeInv, NEW fi, QueueOk(fi), fi.t \in Structs,
         NEW i \in 1..Len(fields[fi.t]), CanBeMapped(fields[fi.t][i])
  PROVE  /\ FieldOk(FieldInfo(fi, i))
         /\ FieldInfo(fi, i).embedded \/ IsStruct(FieldInfo(fi, i).field.type) => QueueOk(FieldInfo(fi, i))
<1> DEFINE f == fields[fi.t][i]
           c == FieldInfo(fi, i)
<1>1. /\ f \in workload.fields /\ f \in ToSet(fields[fi.t])
      /\ f.type \in [base : STRING, wrap : {"none", "ptr", "slice"}]
      /\ f.anonymous => f.type.wrap # "slice"
  BY FieldTypes DEF ToSet
<1>2. c.field = f /\ c.t = f.type.base /\ c.embedded = f.anonymous /\ c.above = Append(fi.above, fi.field)
  BY DEF FieldInfo
<1> HIDE DEF f, c
<1>3. fi.above \in Seq(AboveFields) /\ fi.field \in AboveFields
  BY DEF QueueOk
<1>4. /\ c.above \in Seq(AboveFields) /\ Len(c.above) = Len(fi.above) + 1 /\ Len(fi.above) \in Nat
      /\ DOMAIN c.above = 1..(Len(fi.above) + 1) /\ DOMAIN fi.above = 1..Len(fi.above)
      /\ \A k \in 1..Len(fi.above) : c.above[k] = fi.above[k]
      /\ c.above[Len(fi.above) + 1] = fi.field
  <2>1. Len(fi.above) \in Nat /\ DOMAIN fi.above = 1..Len(fi.above)
    BY <1>3, LenProperties
  <2>2. c.above \in Seq(AboveFields) /\ Len(c.above) = Len(fi.above) + 1
    BY <1>2, <1>3, AppendProperties
  <2>3. /\ \A k \in 1..Len(fi.above) : c.above[k] = fi.above[k]
        /\ c.above[Len(fi.above) + 1] = fi.field
    BY <1>2, <1>3, AppendProperties
  <2>4. DOMAIN c.above = 1..(Len(fi.above) + 1)
    BY <2>2, LenProperties
  <2> QED
    BY <2>1, <2>2, <2>3, <2>4
<1>5. Clear(c) => Clear(fi) /\ fi.field.type.base \notin workload.scanners /\ ~Hidden(fi.field)
  <2> SUFFICES ASSUME Clear(c)
               PROVE  Clear(fi) /\ fi.field.type.base \notin workload.scanners /\ ~Hidden(fi.field)
    OBVIOUS
  <2>1. DOMAIN fi.above \subseteq DOMAIN c.above /\ Len(fi.above) + 1 \in DOMAIN c.above
    BY <1>4
  <2>2. \A k \in DOMAIN fi.above : c.above[k] = fi.above[k]
    BY <1>4
  <2>3. \A k \in DOMAIN c.above : c.above[k].type.base \notin workload.scanners /\ ~Hidden(c.above[k])
    BY Zenon DEF Clear
  <2>4. \A k \in DOMAIN fi.above : fi.above[k].type.base \notin workload.scanners /\ ~Hidden(fi.above[k])
    BY <2>1, <2>2, <2>3, Zenon
  <2>5. c.above[Len(fi.above) + 1] = fi.field
    BY <1>4
  <2> QED
    BY <2>1, <2>3, <2>4, <2>5, Zenon DEF Clear
<1>6. Clear(c) /\ ~Hidden(f) => Deref(f.type) \in Reached
  <2> SUFFICES ASSUME Clear(c), ~Hidden(f) PROVE Deref(f.type) \in Reached
    OBVIOUS
  <2> DEFINE t == [base |-> fi.t, wrap |-> "none"]
  <2>1. t \in Reached /\ fi.t \notin workload.scanners
    BY <1>5 DEF QueueOk
  <2>2. MappedByDefault(f)
    <3>1. CanBeMapped(f)
      BY DEF f
    <3> QED
      BY <3>1 DEF Hidden, CanBeMapped, MappedByDefault
  <2>3. f \in FieldsOf(t.base)
    BY <1>1, <2>1, <2>2 DEF FieldsOf, f
  <2> HIDE DEF t
  <2>4. Deref(f.type) \in Below(Reached)
    BY <2>1, <2>3 DEF Below
  <2> QED
    BY <2>4, ReachedIsClosed
<1>7. FieldOk(c)
  BY <1>2, <1>6 DEF FieldOk
<1>8. ASSUME c.embedded \/ IsStruct(c.field.type) PROVE QueueOk(c)
  <2>1. f.type.wrap # "slice"
    BY <1>1, <1>2, <1>8 DEF IsStruct
  <2>2. Deref(f.type) = [base |-> c.t, wrap |-> "none"]
    BY <1>1, <1>2, <2>1 DEF Deref
  <2>3. c.field \in AboveFields
    BY <1>1, <1>2 DEF AboveFields
  <2> QED
    BY <1>2, <1>4, <1>6, <2>2, <2>3 DEF QueueOk
<1> QED
  BY <1>7, <1>8 DEF c

\* What holds of QueueLoop, turn after turn.
QueueInv(r) ==
  /\ \E S : r.queue \in Seq(S)
  /\ \E S : r.m \in Seq(S)
  /\ \A k \in 1..Len(r.queue) : QueueOk(r.queue[k])
  /\ \A k \in 1..Len(r.m) : FieldOk(r.m[k])

\* What is put into the queue is chosen of the children.
LEMMA WhatIsQueued ==
  ASSUME NEW children, NEW S, children \in Seq(S)
  PROVE  LET HasFields(c) == c.embedded \/ IsStruct(c.field.type)
             more == Chosen(children, HasFields)
         IN /\ more \in Seq(S)
            /\ \A j \in 1..Len(more) : \E k \in 1..Len(children) :
                 (children[k].embedded \/ IsStruct(children[k].field.type)) /\ more[j] = children[k]
<1> DEFINE HasFields(c) == c.embedded \/ IsStruct(c.field.type)
           n == Len(children)
           K == {k \in 1..n : HasFields(children[k])}
           pick == [k \in 1..n |-> IF HasFields(children[k]) THEN <<children[k]>> ELSE <<>>]
           same == [k \in 1..n |-> IF k \in K THEN <<children[k]>> ELSE <<>>]
           more == Picked(children, n, K)
<1>1. n \in Nat /\ DOMAIN children = 1..n /\ \A k \in 1..n : children[k] \in S
  BY LenProperties, ElementOfSeq
<1>2. \A k \in 1..n : HasFields(children[k]) <=> k \in K
  <2> HIDE DEF HasFields, n
  <2> QED
    OBVIOUS
<1>3. pick = same
  <2> HIDE DEF HasFields, n, K
  <2> QED
    BY <1>2
<1>4. Chosen(children, HasFields) = more
  <2>1. Chosen(children, HasFields) = FlattenSeq(pick)
    <3> HIDE DEF n
    <3> QED
      BY <1>1, Zenon DEF Chosen
  <2> HIDE DEF HasFields, n, K, pick
  <2> QED
    BY <1>3, <2>1, Zenon DEF Picked
<1>5. \A k \in K : children[k].embedded \/ IsStruct(children[k].field.type)
  OBVIOUS
<1> HIDE DEF n, K
<1>6. more \in Seq(S) /\ \A j \in 1..Len(more) : \E k \in 1..n : k \in K /\ more[j] = children[k]
  <2>1. n \in Nat
    BY <1>1
  <2>2. \A k \in 1..n : children[k] \in S
    BY <1>1
  <2> QED
    BY <2>1, <2>2, WhatIsPicked
<1> HIDE DEF more
<1>7. \A j \in 1..Len(more) : \E k \in 1..n : (children[k].embedded \/ IsStruct(children[k].field.type)) /\ more[j] = children[k]
  BY <1>5, <1>6
<1> QED
  BY <1>4, <1>6, <1>7, Zenon DEF n

\* One turn of QueueLoop keeps that.
LEMMA QueueGoesOn ==
  ASSUME TypeInv, NEW r, QueueInv(r), r.queue # <<>>, r = [queue |-> r.queue, m |-> r.m]
  PROVE  /\ QueueInv(QueueTurn(r))
         /\ QueueTurn(r) = [queue |-> QueueTurn(r).queue, m |-> QueueTurn(r).m]
<1> DEFINE fi == Head(r.queue)
           rest == Tail(r.queue)
           children == Children(fi)
           HasFields(c) == c.embedded \/ IsStruct(c.field.type)
           more == Chosen(children, HasFields)
           next == QueueTurn(r)
<1>1. PICK Q : r.queue \in Seq(Q)
  BY DEF QueueInv
<1>2. PICK M : r.m \in Seq(M)
  BY DEF QueueInv
<1>3. /\ QueueOk(fi) /\ rest \in Seq(Q)
      /\ \A k \in 1..Len(rest) : QueueOk(rest[k])
  <2>1. Len(r.queue) \in Nat /\ Len(r.queue) # 0
    BY <1>1, LenProperties, EmptySeq
  <2>2. /\ fi = r.queue[1] /\ rest \in Seq(Q) /\ Len(rest) = Len(r.queue) - 1
        /\ \A k \in 1..Len(rest) : rest[k] = r.queue[k + 1]
    BY <1>1, HeadTailProperties
  <2>3. 1 \in 1..Len(r.queue) /\ \A k \in 1..Len(rest) : k + 1 \in 1..Len(r.queue)
    BY <2>1, <2>2
  <2>4. \A k \in 1..Len(r.queue) : QueueOk(r.queue[k])
    BY DEF QueueInv
  <2>5. QueueOk(fi)
    BY <2>2, <2>3, <2>4
  <2> HIDE DEF rest, fi
  <2> QED
    BY <2>2, <2>3, <2>4, <2>5
<1>4. \A k \in 1..Len(r.m) : FieldOk(r.m[k])
  BY DEF QueueInv
<1> HIDE DEF fi, rest
<1>5. CASE IsRecursive(fi)
  <2>1. next = [r EXCEPT !.queue = rest]
    BY <1>5, Zenon DEF QueueTurn, fi, rest
  <2> HIDE DEF next
  <2>2. next = [queue |-> rest, m |-> r.m]
    BY <2>1
  <2>3. next.queue = rest /\ next.m = r.m
    BY <2>2
  <2>4. QueueInv(next)
    BY <1>2, <1>3, <1>4, <2>3 DEF QueueInv
  <2> QED
    BY <2>2, <2>3, <2>4 DEF next
<1>6. CASE ~IsRecursive(fi)
  <2>1. next = [queue |-> rest \o more, m |-> r.m \o children]
    BY <1>6, Zenon DEF QueueTurn, Queue, fi, rest
  <2>2. PICK S : children \in Seq(S)
    BY WhatChildrenAre, Zenon
  <2> HIDE DEF next, children
  <2>3. /\ more \in Seq(S)
        /\ \A j \in 1..Len(more) : \E k \in 1..Len(children) : HasFields(children[k]) /\ more[j] = children[k]
    BY <2>2, WhatIsQueued, Zenon
  <2> HIDE DEF more
  <2>4. \A j \in 1..Len(children) : FieldOk(children[j]) /\ (HasFields(children[j]) => QueueOk(children[j]))
    <3>1. CASE fi.t \notin Structs
      <4>1. Len(children) = 0
        BY <3>1, WhatChildrenAre, EmptySeq DEF children
      <4> QED
        BY <4>1
    <3>2. CASE fi.t \in Structs
      <4> TAKE j \in 1..Len(children)
      <4>1. PICK i \in 1..Len(fields[fi.t]) : CanBeMapped(fields[fi.t][i]) /\ children[j] = FieldInfo(fi, i)
        BY <3>2, WhatChildrenAre DEF children
      <4> QED
        BY <1>3, <3>2, <4>1, FieldBelow
    <3> QED
      BY <3>1, <3>2
  <2> HIDE DEF HasFields
  <2>5. \A j \in 1..Len(more) : QueueOk(more[j])
    BY <2>3, <2>4
  <2> DEFINE queue == rest \o more
             m == r.m \o children
  <2>6. queue \in Seq(Q \cup S) /\ \A k \in 1..Len(queue) : QueueOk(queue[k])
    <3>1. rest \in Seq(Q) /\ more \in Seq(S)
      BY <1>3, <2>3
    <3>2. queue \in Seq(Q \cup S) /\ OneOrOther(queue, rest, more)
      BY <3>1, JoinLists
    <3> HIDE DEF queue
    <3> QED
      BY <1>3, <2>5, <3>2 DEF OneOrOther
  <2>7. m \in Seq(M \cup S) /\ \A k \in 1..Len(m) : FieldOk(m[k])
    <3>1. m \in Seq(M \cup S) /\ OneOrOther(m, r.m, children)
      BY <1>2, <2>2, JoinLists
    <3> HIDE DEF m
    <3> QED
      BY <1>4, <2>4, <3>1 DEF OneOrOther
  <2> HIDE DEF queue, m
  <2>8. next = [queue |-> queue, m |-> m]
    BY <2>1 DEF queue, m
  <2>9. next.queue = queue /\ next.m = m
    BY <2>8
  <2>10. QueueInv(next)
    BY <2>6, <2>7, <2>9, Zenon DEF QueueInv
  <2> QED
    BY <2>8, <2>9, <2>10 DEF next
<1> QED
  BY <1>5, <1>6

\* The fields that are found, unless they are inside a Scanner, can be reached.
LEMMA FoundFields ==
  ASSUME TypeInv, workload.root \notin workload.scanners
  PROVE  Len(Index) \in Nat /\ \A k \in 1..Len(Index) : FieldOk(Index[k])
<1> DEFINE n == workload.maxTurns
<1>1. n \in Nat
  BY WorkloadAssumption DEF TypeInv
<1>2. PICK loop : /\ loop[0] = QueueStart /\ QueueLoop = loop[n]
                  /\ \A k \in 1..n : loop[k] = LoopTurn(loop[k - 1])
  BY <1>1, QueueSteps
<1> HIDE DEF n
<1> DEFINE Good(r) == QueueInv(r) /\ r = [queue |-> r.queue, m |-> r.m]
           T == {k \in Nat : k <= n => Good(loop[k])}
<1>3. 0 \in T
  <2>1. Good(QueueStart)
    <3>1. QueueOk(Root)
      <4>1. Root.above = <<>> /\ Root.field = NoField /\ Root.t = workload.root
        BY Zenon DEF Root
      <4>2. <<>> \in Seq(AboveFields)
        BY EmptySeq
      <4>3. RootType \in Reached
        BY ReachedIsClosed
      <4> QED
        BY <4>1, <4>2, <4>3 DEF QueueOk, AboveFields, RootType
    <3>2. QueueStart.queue = <<Root>> /\ QueueStart.m = <<>> /\ QueueStart = [queue |-> QueueStart.queue, m |-> QueueStart.m]
      BY DEF QueueStart
    <3>3. QueueStart.queue \in Seq({Root}) /\ Len(QueueStart.queue) = 1 /\ QueueStart.queue[1] = Root
      BY <3>2
    <3>4. QueueStart.m \in Seq({}) /\ Len(QueueStart.m) = 0
      BY <3>2, EmptySeq
    <3>5. \A k \in 1..Len(QueueStart.queue) : QueueOk(QueueStart.queue[k])
      BY <3>1, <3>3
    <3>6. \A k \in 1..Len(QueueStart.m) : FieldOk(QueueStart.m[k])
      BY <3>4
    <3> QED
      BY <3>2, <3>3, <3>4, <3>5, <3>6, Zenon DEF QueueInv
  <2> HIDE DEF Good
  <2> QED
    BY <1>2, <2>1
<1>4. ASSUME NEW k \in Nat, k \in T PROVE k + 1 \in T
  <2> SUFFICES ASSUME k + 1 <= n PROVE Good(loop[k + 1])
    <3> HIDE DEF Good
    <3> QED
      OBVIOUS
  <2>1. Good(loop[k])
    <3> HIDE DEF Good
    <3> QED
      BY <1>1, <1>4
  <2>2. loop[k + 1] = LoopTurn(loop[k])
    <3>1. k + 1 \in 1..n /\ (k + 1) - 1 = k
      BY <1>1
    <3> QED
      BY <1>2, <3>1
  <2>3. CASE loop[k].queue = <<>>
    <3>1. loop[k + 1] = loop[k]
      BY <2>2, <2>3 DEF LoopTurn
    <3> HIDE DEF Good
    <3> QED
      BY <2>1, <3>1
  <2>4. CASE loop[k].queue # <<>>
    <3>1. loop[k + 1] = QueueTurn(loop[k])
      BY <2>2, <2>4 DEF LoopTurn
    <3>2. Good(QueueTurn(loop[k]))
      BY <2>1, <2>4, QueueGoesOn, Zenon
    <3> HIDE DEF Good
    <3> QED
      BY <3>1, <3>2
  <2> QED
    BY <2>3, <2>4
<1>5. QueueInv(QueueLoop)
  <2>1. n \in T
    <3> HIDE DEF T
    <3> QED
      BY <1>1, <1>3, <1>4, Upward DEF T
  <2>2. Good(loop[n])
    <3> HIDE DEF Good
    <3> QED
      BY <1>1, <2>1
  <2> QED
    BY <1>2, <2>2
<1>6. \A k \in 1..Len(Index) : FieldOk(Index[k])
  BY <1>5 DEF QueueInv, Index
<1>7. Len(Index) \in Nat
  <2>1. PICK S : QueueLoop.m \in Seq(S)
    BY <1>5 DEF QueueInv
  <2> QED
    BY <2>1, LenProperties DEF Index
<1> QED
  BY <1>6, <1>7

\* What the walk refuses is all that the mapping could name.
LEMMA NamesAvoidRawBytes ==
  ASSUME TypeInv
  PROVE  RawBytesAreRefused
<1> SUFFICES ASSUME ~isScannable(workload.root), ~containsRawBytes(workload.root),
                    NEW p \in DOMAIN Names, Deref(Names[p].field.type) = RawBytes
             PROVE  \/ \E k \in DOMAIN Names[p].above : Names[p].above[k].type.base \in workload.scanners
                    \/ \E f \in {Names[p].field} \cup ToSet(Names[p].above) : f.tag # f.db /\ ~MappedByDefault(f)
  BY Zenon DEF RawBytesAreRefused
<1>1. workload.root \notin workload.scanners
  BY DEF isScannable
<1>2. RawBytes \notin Reached
  BY WalkFinds DEF RawBytesAreFound
<1>3. PICK j \in 1..Len(Index) : Names[p] = Index[j]
  BY <1>1, FoundFields, NamedFields DEF Names
<1>4. FieldOk(Names[p])
  BY <1>1, <1>3, FoundFields
<1>5. ~(Clear(Names[p]) /\ ~Hidden(Names[p].field))
  BY <1>2, <1>4 DEF FieldOk
<1>6. CASE Hidden(Names[p].field)
  BY <1>6, Zenon DEF Hidden
<1>7. CASE ~Clear(Names[p])
  <2>1. PICK k \in DOMAIN Names[p].above : \/ Names[p].above[k].type.base \in workload.scanners
                                          \/ Hidden(Names[p].above[k])
    BY <1>7, Zenon DEF Clear
  <2>2. Names[p].above[k] \in ToSet(Names[p].above)
    BY Zenon DEF ToSet
  <2> QED
    BY <2>1, <2>2, Zenon DEF Hidden
<1> QED
  BY <1>5, <1>6, <1>7, Zenon

\* Select scans into a RawBytes (scan.go:81) in no way but the two that the property
\* states, inside a Scanner (scan.go:280) or past a field that only the default Mapper
\* leaves out (scan.go:309), for every declaration and every tag a Mapper reads:
\* otherwise getMapping, breadth first and by names, and walkRawBytes, depth first and
\* by types, agree.
THEOREM NoNameReachesRawBytes == Spec => []RawBytesAreRefused
<1>1. TypeInv => RawBytesAreRefused
  BY NamesAvoidRawBytes
<1> QED
  BY <1>1, FieldsAreLists, PTL
=============================================================================
