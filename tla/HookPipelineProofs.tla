------------------------- MODULE HookPipelineProofs -------------------------
(***************************************************************************)
(* Proofs about HookPipeline, for any number of goroutines, of handles and *)
(* of hooks: first what the handles, contexts and calls hold, then what    *)
(* happens along the chain of an operation.                                *)
(***************************************************************************)
EXTENDS HookPipeline, SequenceTheorems, WellFoundedInduction, TLAPS

\* Induction over the natural numbers, for a set instead of a formula.
LEMMA NatSetInduction ==
  ASSUME NEW S \in SUBSET Nat, 0 \in S, \A n \in Nat : n \in S => n + 1 \in S
  PROVE  Nat \subseteq S
<1> SUFFICES ASSUME Nat \ S # {} PROVE FALSE
  OBVIOUS
<1> DEFINE R == OpToRel(<, Nat)
<1>1. IsWellFoundedOn(R, Nat)
  BY NatLessThanWellFounded, Zenon
<1>2. \A m, k \in Nat : m < k => <<m, k>> \in R
  BY Zenon DEF OpToRel
<1> HIDE DEF R
<1>3. PICK n \in Nat \ S : \A m \in Nat \ S : <<m, n>> \notin R
  BY <1>1, WFMin, Zenon
<1>4. n # 0 /\ n - 1 \in Nat /\ n - 1 < n /\ (n - 1) + 1 = n
  OBVIOUS
<1> QED
  BY <1>2, <1>3, <1>4

\* filterHooks (hook.go:118): what it returns is a list of hooks, without the nil value,
\* and no longer than the list it was given.
LEMMA FilterLemma ==
  ASSUME NEW list \in Seq(AnyHook)
  PROVE  filterHooks(list) \in Seq(Hook) /\ Len(filterHooks(list)) <= Len(list)
<1> DEFINE n == Len(list)
           Loop(f, i) == IF i = 0 THEN <<>>
                         ELSE IF list[i] = NilHook THEN f[i - 1] ELSE Append(f[i - 1], list[i])
           kept == CHOOSE f : f = [i \in 0..n |-> Loop(f, i)]
<1>1. n \in Nat /\ \A i \in 1..n : list[i] \in AnyHook
  BY LenProperties, ElementOfSeq
<1>2. filterHooks(list) = kept[n]
  BY Zenon DEF filterHooks
<1>3. \E f : f = [i \in 0..n |-> Loop(f, i)]
  <2> DEFINE S == {k \in Nat : \E f : f = [i \in 0..k |-> Loop(f, i)]}
  <2>1. 0 \in S
    <3> DEFINE f == [i \in 0..0 |-> <<>>]
    <3>1. f = [i \in 0..0 |-> Loop(f, i)]
      OBVIOUS
    <3> QED
      BY <3>1
  <2>2. ASSUME NEW k \in Nat, k \in S PROVE k + 1 \in S
    <3>1. PICK f : f = [i \in 0..k |-> Loop(f, i)]
      BY <2>2
    <3>0. \A j \in 0..k : f[j] = Loop(f, j)
      BY <3>1
    <3> DEFINE h == [i \in 0..(k + 1) |-> IF i <= k THEN f[i] ELSE Loop(f, i)]
    <3>2. ASSUME NEW i \in 0..(k + 1) PROVE h[i] = Loop(h, i)
      <4>1. i # 0 => h[i - 1] = f[i - 1]
        OBVIOUS
      <4>2. Loop(h, i) = Loop(f, i)
        BY <4>1
      <4>3. i <= k => f[i] = Loop(f, i)
        BY <3>0
      <4> QED
        BY <4>2, <4>3
    <3>3. h = [i \in 0..(k + 1) |-> Loop(h, i)]
      BY <3>2
    <3> HIDE DEF h
    <3>4. \E g : g = [i \in 0..(k + 1) |-> Loop(g, i)]
      BY <3>3
    <3>5. k + 1 \in Nat
      OBVIOUS
    <3> QED
      BY <3>4, <3>5, Zenon
  <2>3. n \in S
    <3> HIDE DEF S
    <3> QED
      BY <1>1, <2>1, <2>2, NatSetInduction DEF S
  <2> QED
    BY <2>3
<1>4. \A i \in 0..n : kept[i] = Loop(kept, i)
  <2>1. kept = [i \in 0..n |-> Loop(kept, i)]
    BY <1>3
  <2> QED
    BY <2>1
<1> HIDE DEF kept
<1>5. \A k \in Nat : k <= n => kept[k] \in Seq(Hook) /\ Len(kept[k]) <= k
  <2> DEFINE S == {k \in Nat : k <= n => kept[k] \in Seq(Hook) /\ Len(kept[k]) <= k}
  <2>1. 0 \in S
    <3>1. kept[0] = <<>>
      BY <1>1, <1>4
    <3>2. <<>> \in Seq(Hook) /\ Len(<<>>) = 0
      OBVIOUS
    <3>3. kept[0] \in Seq(Hook) /\ Len(kept[0]) <= 0
      BY <3>1, <3>2
    <3> HIDE DEF Loop
    <3> QED
      BY <3>3
  <2>2. ASSUME NEW k \in Nat, k \in S PROVE k + 1 \in S
    <3> SUFFICES ASSUME k + 1 <= n PROVE kept[k + 1] \in Seq(Hook) /\ Len(kept[k + 1]) <= k + 1
      OBVIOUS
    <3>1. k <= n /\ k + 1 \in 1..n /\ k + 1 \in 0..n /\ k + 1 # 0 /\ (k + 1) - 1 = k
      BY <1>1
    <3>2. kept[k] \in Seq(Hook) /\ Len(kept[k]) <= k /\ Len(kept[k]) \in Nat
      BY <2>2, <3>1
    <3>3. kept[k + 1] = IF list[k + 1] = NilHook THEN kept[k] ELSE Append(kept[k], list[k + 1])
      BY <1>4, <3>1
    <3>4. list[k + 1] # NilHook => list[k + 1] \in Hook
      BY <1>1, <3>1 DEF AnyHook
    <3> QED
      BY <3>2, <3>3, <3>4
  <2> HIDE DEF S
  <2>3. Nat \subseteq S
    BY <2>1, <2>2, NatSetInduction DEF S
  <2> QED
    BY <2>3 DEF S
<1> QED
  BY <1>1, <1>2, <1>5

\* What a slice holds is a sequence of hooks, as long as the slice.
LEMMA HeldIsSequence ==
  ASSUME NEW hp \in [ArrayId -> Array], NEW s \in Slice
  PROVE  /\ Held(hp, s) \in Seq(AnyHook)
         /\ Len(Held(hp, s)) = s.len
         /\ \A i \in 1..s.len : Held(hp, s)[i] = hp[s.arr][i]
<1>1. s.len \in Nat /\ s.len <= ArrayLen /\ s.arr \in ArrayId
  BY BoundAssumption DEF Slice
<1>2. Held(hp, s) \in [1..s.len -> AnyHook]
  BY <1>1, BoundAssumption DEF Held, Array
<1>3. Held(hp, s) \in Seq(AnyHook)
  BY <1>1, <1>2, SeqDef
<1> QED
  BY <1>1, <1>2, <1>3, LenProperties DEF Held

\* A slice whose array is the same in two heaps holds the same in both.
LEMMA HeldSame ==
  ASSUME NEW hp, NEW hp2, NEW s, hp[s.arr] = hp2[s.arr]
  PROVE  Held(hp, s) = Held(hp2, s)
BY DEF Held

\* hookChain (hook.go:139): the chain is the handle's hooks, then the call's, and no
\* array is written but the caller's own.
LEMMA ChainLemma ==
  ASSUME heap \in [ArrayId -> Array],
         NEW g \in Goroutine, NEW global \in Slice, NEW call \in Seq(AnyHook),
         global.arr # g, global.len + Len(call) <= ArrayLen,
         NEW r, r = hookChain(g, global, call)
  PROVE  /\ r.heap \in [ArrayId -> Array]
         /\ r.slice \in Slice
         /\ r.slice = global \/ r.slice.arr = g
         /\ \A a \in ArrayId : a # g => r.heap[a] = heap[a]
         /\ Held(r.heap, r.slice) = Value(global) \o call
<1> DEFINE n == global.len + Len(call)
<1>1. Value(global) \in Seq(AnyHook) /\ Len(Value(global)) = global.len
  BY HeldIsSequence DEF Value
<1>2. Len(call) \in Nat /\ global.len \in 0..ArrayLen /\ n \in 0..ArrayLen /\ g \in ArrayId
  BY LenProperties, BoundAssumption DEF Slice, ArrayId
<1>3. CASE Len(call) = 0
  <2>1. r = [slice |-> global, heap |-> heap]
    BY <1>3 DEF hookChain
  <2>2. call = <<>>
    BY <1>3, EmptySeq
  <2>3. Value(global) \o call = Value(global)
    BY <1>1, <2>2, ConcatEmptySeq
  <2> QED
    BY <2>1, <2>3 DEF Value
<1>4. CASE Len(call) # 0
  <2> DEFINE own == [i \in 1..ArrayLen |->
                       IF i <= global.len THEN heap[global.arr][i]
                       ELSE IF i <= n THEN call[i - global.len] ELSE NilHook]
  <2>1. r = [slice |-> [arr |-> g, len |-> n, cap |-> n], heap |-> [heap EXCEPT ![g] = own]]
    BY <1>4 DEF hookChain
  <2>2. own \in Array
    <3>1. ASSUME NEW i \in 1..ArrayLen PROVE own[i] \in AnyHook
      <4>1. CASE i <= global.len
        BY <4>1 DEF Slice, Array
      <4>2. CASE ~(i <= global.len) /\ i <= n
        <5>1. i - global.len \in 1..Len(call)
          BY <4>2, <1>2
        <5> QED
          BY <4>2, <5>1, ElementOfSeq
      <4>3. CASE ~(i <= global.len) /\ ~(i <= n)
        BY <4>3 DEF AnyHook
      <4> QED
        BY <4>1, <4>2, <4>3
    <3> QED
      BY <3>1 DEF Array
  <2>3. r.heap \in [ArrayId -> Array] /\ r.slice \in Slice /\ r.slice.arr = g
    BY <2>1, <2>2, <1>2 DEF Slice
  <2>4. \A a \in ArrayId : a # g => r.heap[a] = heap[a]
    BY <2>1
  <2>5. r.slice.len = n /\ r.heap[r.slice.arr] = own
    BY <2>1, <1>2
  <2>6. Held(r.heap, r.slice) = Value(global) \o call
    <3> HIDE DEF n, own
    <3>1. /\ Held(r.heap, r.slice) \in Seq(AnyHook)
          /\ Len(Held(r.heap, r.slice)) = n
          /\ \A i \in 1..n : Held(r.heap, r.slice)[i] = own[i]
      BY <2>3, <2>5, HeldIsSequence
    <3>2. /\ Value(global) \o call \in Seq(AnyHook)
          /\ Len(Value(global) \o call) = n
          /\ \A i \in 1..n : (Value(global) \o call)[i] =
               IF i <= global.len THEN Value(global)[i] ELSE call[i - global.len]
      BY <1>1, ConcatProperties, SMTT(30) DEF n
    <3>3. ASSUME NEW i \in 1..n
          PROVE  own[i] = IF i <= global.len THEN Value(global)[i] ELSE call[i - global.len]
      <4>1. i \in 1..ArrayLen /\ global.len \in Nat
        BY <1>2, BoundAssumption
      <4>2. own[i] = IF i <= global.len THEN heap[global.arr][i]
                     ELSE IF i <= n THEN call[i - global.len] ELSE NilHook
        BY <4>1 DEF own
      <4>3. i <= global.len => Value(global)[i] = heap[global.arr][i]
        BY <4>1 DEF Value, Held
      <4>4. i <= n
        BY <1>2, BoundAssumption
      <4> QED
        BY <4>2, <4>3, <4>4
    <3>4. \A i \in 1..n : Held(r.heap, r.slice)[i] = (Value(global) \o call)[i]
      BY <3>1, <3>2, <3>3
    <3> QED
      BY <3>1, <3>2, <3>4, SeqEqual
  <2> QED
    BY <2>3, <2>4, <2>6
<1> QED
  BY <1>3, <1>4

\* append of one hook (db.go:120): the slice is one longer, holds what it held and the
\* hook, and no slot of an array is written that a slice of the list covers.
LEMMA AppendLemma ==
  ASSUME heap \in [ArrayId -> Array],
         NEW s \in Slice, s.len < MaxHooks, s.arr \in 0..s.len,
         NEW h \in AnyHook, NEW r, r = AppendHook(s, h)
  PROVE  /\ r.heap \in [ArrayId -> Array]
         /\ r.slice \in Slice
         /\ r.slice.len = s.len + 1
         /\ r.slice.arr \in 0..r.slice.len
         /\ \/ r.slice.arr = s.arr /\ \A i \in 1..ArrayLen : i # s.len + 1 => r.heap[s.arr][i] = heap[s.arr][i]
            \/ r.slice.arr = s.len + 1
         /\ \A a \in ArrayId : a # r.slice.arr => r.heap[a] = heap[a]
<1>1. /\ s.len \in Nat /\ s.len + 1 \in 1..MaxHooks /\ s.len + 1 \in 1..ArrayLen /\ s.cap \in Nat
      /\ s.arr \in ArrayId /\ s.arr \in 0..s.len /\ s.len + 1 \in ArrayId
  BY BoundAssumption, GoroutineAssumption DEF Slice, ArrayId
<1>2. CASE s.len < s.cap
  <2>1. r = [slice |-> [s EXCEPT !.len = @ + 1], heap |-> [heap EXCEPT ![s.arr][s.len + 1] = h]]
    BY <1>2 DEF AppendHook
  <2> QED
    BY <2>1, <1>1 DEF Slice, Array
<1>3. CASE ~(s.len < s.cap)
  <2> DEFINE n == s.len + 1
             grown == [i \in 1..ArrayLen |->
                         IF i <= s.len THEN heap[s.arr][i] ELSE IF i = n THEN h ELSE NilHook]
  <2>1. r = [slice |-> [arr |-> n, len |-> n, cap |-> IF s.cap = 0 THEN 1 ELSE 2 * s.cap],
             heap  |-> [heap EXCEPT ![n] = grown]]
    BY <1>3 DEF AppendHook
  <2>2. grown \in Array
    BY <1>1 DEF Array, AnyHook
  <2> HIDE DEF grown
  <2> QED
    BY <2>1, <2>2, <1>1, BoundAssumption DEF Slice
<1> QED
  BY <1>2, <1>3

\* The bounds TypeOK needs to be inductive: the slices of handles are in the arrays
\* of the DB's list, and a chain of them and of a call's hooks fits an array.
Bounded ==
  /\ \A h \in Handle : hooks[h].arr \in 0..MaxHooks /\ hooks[h].len <= MaxHooks
  /\ \A g \in Goroutine : MaxHooks + Len(ctx[g]) <= ArrayLen

\* The driver has answered before the AfterQuery hooks, and before all hooks of a
\* commit or a rollback.
Answered ==
  \A g \in Goroutine : pc[g] = "after" \/ (pc[g] = "before" /\ op[g] \in TxOp) => drv[g] # "no"

TypeInv == TypeOK /\ Bounded /\ Answered

\* What WithHooks and WithCallHooks make of their lists.
LEMMA FilteredList ==
  ASSUME NEW list \in Seq(AnyHook), NEW bound \in Nat, Len(list) <= bound
  PROVE  /\ filterHooks(list) \in Seq(Hook) /\ filterHooks(list) \in Seq(AnyHook)
         /\ Len(filterHooks(list)) \in 0..bound
<1>1. filterHooks(list) \in Seq(Hook) /\ Len(filterHooks(list)) <= Len(list)
  BY FilterLemma
<1>2. Len(filterHooks(list)) \in Nat /\ Len(list) \in Nat
  BY <1>1, LenProperties
<1>3. filterHooks(list) \in Seq(AnyHook)
  BY <1>1 DEF AnyHook
<1> QED
  BY <1>1, <1>2, <1>3

\* The hooks given to an option are a list without nil, and no longer than lists may be.
LEMMA FilteredInit ==
  ASSUME NEW hs \in InitHooks
  PROVE  /\ filterHooks(hs) \in Seq(Hook) /\ filterHooks(hs) \in Seq(AnyHook)
         /\ Len(filterHooks(hs)) \in 0..MaxHooks
BY ListAssumption, BoundAssumption, FilteredList

\* A hook that forges the outcome in the event leaves an event.
LEMMA ForgedEvent ==
  ASSUME NEW e \in Event
  PROVE  [e EXCEPT !.err = "forged"] \in Event
BY DEF Event

\* The types are right at first.
LEMMA TypeInvInit == Init => TypeInv
<1> SUFFICES ASSUME Init PROVE TypeInv
  OBVIOUS
<1> PICK hs \in InitHooks :
       LET n == Len(filterHooks(hs)) IN
         /\ heap = [a \in ArrayId |-> ArrayOf(IF a = n THEN filterHooks(hs) ELSE <<>>)]
         /\ hooks = [h \in Handle |-> IF h = DB THEN [arr |-> n, len |-> n, cap |-> n] ELSE Empty]
  BY DEF Init
<1> DEFINE n == Len(filterHooks(hs))
<1>1. filterHooks(hs) \in Seq(AnyHook) /\ n \in 0..MaxHooks /\ n \in 0..ArrayLen /\ n \in Nat
  BY FilteredInit, BoundAssumption
<1>2. \A seq \in Seq(AnyHook) : ArrayOf(seq) \in Array
  BY ElementOfSeq, LenProperties DEF ArrayOf, Array, AnyHook
<1>3. heap \in [ArrayId -> Array]
  BY <1>1, <1>2, EmptySeq
<1>4. hooks \in [Handle -> Slice] /\ Bounded
  BY <1>1, BoundAssumption, EmptySeq DEF Init, Bounded, Slice, Empty, ArrayId
<1>5. Answered
  BY DEF Init, Answered
<1>6. TypeOK
  BY <1>3, <1>4, BoundAssumption, EmptySeq, DBAssumption
     DEF Init, TypeOK, Handle, Op, NewEvent, Event, Empty, Slice, ArrayId, Outcome
<1> QED
  BY <1>4, <1>5, <1>6 DEF TypeInv

\* The array a handle's slice points to is none of a goroutine's.
LEMMA SharedNotOwn == ASSUME Bounded, NEW h \in Handle, NEW g \in Goroutine PROVE hooks[h].arr # g
BY GoroutineAssumption DEF Bounded

\* What WithCallHooks puts in a ctx.
LEMMA CallHooksTyped ==
  ASSUME NEW hs \in CallHooks
  PROVE  /\ WithCallHooks(hs) \in Seq(Hook) /\ WithCallHooks(hs) \in Seq(AnyHook)
         /\ MaxHooks + Len(WithCallHooks(hs)) <= ArrayLen
<1>1. hs \in Seq(AnyHook) /\ MaxHooks + Len(hs) <= ArrayLen
  BY ListAssumption
<1>2. Len(hs) \in Nat /\ ArrayLen - MaxHooks \in Nat /\ Len(hs) <= ArrayLen - MaxHooks
  BY <1>1, BoundAssumption, LenProperties
<1>3. /\ filterHooks(hs) \in Seq(Hook) /\ filterHooks(hs) \in Seq(AnyHook)
      /\ Len(filterHooks(hs)) \in 0..(ArrayLen - MaxHooks)
  BY <1>1, <1>2, FilteredList
<1> QED
  BY <1>2, <1>3, BoundAssumption DEF WithCallHooks

\* Sequences of hooks can be joined.
LEMMA ValueJoin ==
  ASSUME heap \in [ArrayId -> Array], NEW s \in Slice, NEW call \in Seq(AnyHook)
  PROVE  Value(s) \o call \in Seq(AnyHook)
BY HeldIsSequence, ConcatProperties DEF Value

\* A call that ends leaves its goroutine as it was at the start.
LEMMA ForgetTyped ==
  ASSUME TypeInv, NEW g \in Goroutine, Forget(g)
  PROVE  /\ heap' \in [ArrayId -> Array]
         /\ pc' \in [Goroutine -> {"idle", "before", "after", "closing"}]
         /\ on' \in [Goroutine -> Handle]
         /\ op' \in [Goroutine -> Op]
         /\ ctx' \in [Goroutine -> Seq(AnyHook)]
         /\ chain' \in [Goroutine -> Slice]
         /\ idx' \in [Goroutine -> 0..(ArrayLen + 1)]
         /\ ev' \in [Goroutine -> Event]
         /\ sent' \in [Goroutine -> ({"sql", "none"} \cup Hook) \X ({"sql", "none"} \cup Hook)]
         /\ drv' \in [Goroutine -> {"no"} \cup Outcome]
         /\ want' \in [Goroutine -> Seq(AnyHook)]
         /\ \A f \in Goroutine : MaxHooks + Len(ctx'[f]) <= ArrayLen
         /\ Answered'
<1> USE DEF TypeInv, TypeOK, Forget
<1>1. ArrayOf(<<>>) \in Array /\ Empty \in Slice /\ NewEvent("nil") \in Event /\ <<>> \in Seq(AnyHook)
  BY BoundAssumption, EmptySeq DEF ArrayOf, Array, AnyHook, Empty, Slice, ArrayId, NewEvent, Event
<1>2. heap' \in [ArrayId -> Array]
  BY <1>1
<1>3. on' \in [Goroutine -> Handle] /\ op' \in [Goroutine -> Op] /\ pc' \in [Goroutine -> {"idle", "before", "after", "closing"}]
  BY DEF Handle, Op
<1>4. /\ ctx' \in [Goroutine -> Seq(AnyHook)] /\ want' \in [Goroutine -> Seq(AnyHook)]
      /\ chain' \in [Goroutine -> Slice] /\ ev' \in [Goroutine -> Event]
  BY <1>1
<1>5. /\ idx' \in [Goroutine -> 0..(ArrayLen + 1)] /\ drv' \in [Goroutine -> {"no"} \cup Outcome]
      /\ sent' \in [Goroutine -> ({"sql", "none"} \cup Hook) \X ({"sql", "none"} \cup Hook)]
  BY BoundAssumption
<1>6. \A f \in Goroutine : MaxHooks + Len(ctx'[f]) <= ArrayLen
  BY BoundAssumption, EmptySeq DEF Bounded
<1>7. Answered'
  BY DEF Answered
<1> QED
  BY <1>2, <1>3, <1>4, <1>5, <1>6, <1>7

\* Every step keeps the types; that the DB's list has an array no longer than itself
\* is needed for AddHook, and is proved below.
LEMMA TypeInvStep ==
  ASSUME TypeInv, [Next]_vars, hooks[DB].arr <= hooks[DB].len
  PROVE  TypeInv'
<1> USE DEF TypeInv, TypeOK, handleVars, callVars
<1>1. ASSUME NEW h \in AddedHooks, AddHook(h) PROVE TypeInv'
  <2> DEFINE r == AppendHook(hooks[DB], h)
  <2>1. hooks[DB] \in Slice /\ hooks[DB].len < MaxHooks /\ hooks[DB].arr \in 0..hooks[DB].len /\ h \in AnyHook
    BY <1>1, HookAssumption, BoundAssumption DEF AddHook, Handle, Bounded, Slice
  <2>2. /\ r.heap \in [ArrayId -> Array] /\ r.slice \in Slice
        /\ r.slice.len = hooks[DB].len + 1 /\ r.slice.arr \in 0..r.slice.len
    BY <2>1, AppendLemma
  <2> HIDE DEF r
  <2>3. heap' = r.heap /\ hooks' = [hooks EXCEPT ![DB] = r.slice]
    BY <1>1 DEF AddHook, r
  <2>4. r.slice.len \in 0..MaxHooks /\ r.slice.arr \in 0..MaxHooks
    BY <2>1, <2>2, BoundAssumption DEF Slice
  <2>5. hooks' \in [Handle -> Slice] /\ heap' \in [ArrayId -> Array]
    BY <2>2, <2>3
  <2>6. \A f \in Handle : hooks'[f].arr \in 0..MaxHooks /\ hooks'[f].len <= MaxHooks
    <3> TAKE f \in Handle
    <3>1. CASE f = DB
      BY <3>1, <2>3, <2>4, BoundAssumption
    <3>2. CASE f # DB
      BY <3>2, <2>3 DEF Bounded
    <3> QED
      BY <3>1, <3>2
  <2> QED
    BY <1>1, <2>5, <2>6 DEF AddHook, Bounded, Answered
<1>2. ASSUME NEW s \in Slot, NEW p \in Handle, NEW k \in {"conn", "stmt"}, Derive(s, p, k) PROVE TypeInv'
  BY <1>2 DEF Derive, Bounded, Answered, Handle
<1>3. ASSUME NEW g \in Goroutine, NEW h \in Handle, NEW o \in Op, ArgError(g, h, o) PROVE TypeInv'
  BY <1>3 DEF ArgError, Bounded, Answered
<1>4. ASSUME NEW g \in Goroutine, NEW h \in Handle, NEW o \in Op, NEW hs \in CallHooks,
             Start(g, h, o, hs)
      PROVE  TypeInv'
  <2> DEFINE call == WithCallHooks(hs)
             r == hookChain(g, hooks[h], call)
  <2>1. call \in Seq(AnyHook) /\ MaxHooks + Len(call) <= ArrayLen
    BY CallHooksTyped
  <2>2. hooks[h].len + Len(call) <= ArrayLen
    BY <2>1, BoundAssumption, LenProperties, SMTT(30) DEF Bounded, Slice
  <2>3. r.heap \in [ArrayId -> Array] /\ r.slice \in Slice
    BY <2>1, <2>2, SharedNotOwn, ChainLemma
  <2>4. Value(hooks[h]) \o call \in Seq(AnyHook)
    BY <2>1, ValueJoin
  <2> HIDE DEF call, r
  <2>5. /\ chain' = [chain EXCEPT ![g] = r.slice]
        /\ heap' = r.heap
        /\ ctx' = [ctx EXCEPT ![g] = call]
        /\ want' = [want EXCEPT ![g] = Value(hooks[h]) \o call]
    BY <1>4 DEF Start, call, r
  <2>6. TypeOK'
    BY <1>4, <2>1, <2>3, <2>4, <2>5, BoundAssumption DEF Start, NewEvent, Event
  <2>7. Bounded' /\ Answered'
    BY <1>4, <2>1, <2>5 DEF Start, Bounded, Answered
  <2> QED
    BY <2>6, <2>7
<1>5. ASSUME NEW g \in Goroutine, NEW h \in Handle, NEW o \in Op, NEW hs \in CallHooks,
             StartClose(g, h, o, hs)
      PROVE  TypeInv'
  <2> DEFINE call == WithCallHooks(hs)
  <2>1. call \in Seq(AnyHook) /\ MaxHooks + Len(call) <= ArrayLen
    BY CallHooksTyped
  <2>2. Value(hooks[h]) \o call \in Seq(AnyHook)
    BY <2>1, ValueJoin
  <2> HIDE DEF call
  <2>3. ctx' = [ctx EXCEPT ![g] = call] /\ want' = [want EXCEPT ![g] = Value(hooks[h]) \o call]
    BY <1>5 DEF StartClose, call
  <2> QED
    BY <1>5, <2>1, <2>2, <2>3 DEF StartClose, Bounded, Answered
<1>6. ASSUME NEW g \in Goroutine, BeforeQuery(g) PROVE TypeInv'
  <2>1. idx' \in [Goroutine -> 0..(ArrayLen + 1)]
    BY <1>6, BoundAssumption, SMTT(30) DEF BeforeQuery, Slice
  <2>2. ev' \in [Goroutine -> Event]
    <3>1. ASSUME NEW h \in Rewriters PROVE [query |-> h, args |-> h, err |-> ev[g].err] \in Event
      BY HookAssumption DEF Event
    <3> DEFINE h == heap[chain[g].arr][idx[g]]
    <3>2. \/ ev' = ev
          \/ h \in Rewriters /\ ev' = [ev EXCEPT ![g] = [query |-> h, args |-> h, err |-> ev[g].err]]
      BY <1>6 DEF BeforeQuery
    <3> HIDE DEF h
    <3> QED
      BY <3>1, <3>2, ZenonT(60)
  <2> QED
    BY <1>6, <2>1, <2>2 DEF BeforeQuery, Bounded, Answered
<1>7. ASSUME NEW g \in Goroutine, Driver(g) PROVE TypeInv'
  <2>1. idx' \in [Goroutine -> 0..(ArrayLen + 1)]
    BY <1>7, BoundAssumption DEF Driver, Slice
  <2>2. ev' \in [Goroutine -> Event]
    <3>1. PICK e \in {"err", "nil"} : ev' = [ev EXCEPT ![g].err = e]
      BY <1>7 DEF Driver
    <3>2. [ev[g] EXCEPT !.err = e] \in Event
      BY <3>1, ZenonT(60) DEF Event
    <3> QED
      BY <3>1, <3>2
  <2>3. sent' \in [Goroutine -> ({"sql", "none"} \cup Hook) \X ({"sql", "none"} \cup Hook)]
    BY <1>7 DEF Driver, Sent, Event
  <2>4. drv' \in [Goroutine -> {"no"} \cup Outcome] /\ drv'[g] # "no"
    BY <1>7 DEF Driver, Outcome
  <2> QED
    BY <1>7, <2>1, <2>2, <2>3, <2>4 DEF Driver, Bounded, Answered
<1>8. ASSUME NEW g \in Goroutine, Turn(g) PROVE TypeInv'
  <2>1. idx' \in [Goroutine -> 0..(ArrayLen + 1)]
    BY <1>8, BoundAssumption DEF Turn, Slice
  <2> QED
    BY <1>8, <2>1 DEF Turn, Bounded, Answered
<1>9. ASSUME NEW g \in Goroutine, AfterQuery(g) PROVE TypeInv'
  <2>1. idx' \in [Goroutine -> 0..(ArrayLen + 1)]
    BY <1>9, BoundAssumption DEF AfterQuery
  <2>2. ev' \in [Goroutine -> Event]
    <3>1. ev[g] \in Event
      OBVIOUS
    <3>2. [ev[g] EXCEPT !.err = "forged"] \in Event
      BY <3>1, ForgedEvent
    <3> QED
      BY <1>9, <3>2 DEF AfterQuery
  <2> QED
    BY <1>9, <2>1, <2>2 DEF AfterQuery, Bounded, Answered
<1>10. ASSUME NEW g \in Goroutine, Return(g) PROVE TypeInv'
  <2>1. out' \in [Goroutine -> {"none", "argerr", "panic"} \cup Outcome]
    BY <1>10 DEF Return, Answer, Answered, Outcome
  <2>2. /\ kind' \in [Handle -> {"none", "db", "conn", "tx", "stmt"}]
        /\ hooks' \in [Handle -> Slice]
        /\ \A h \in Handle : hooks'[h].arr \in 0..MaxHooks /\ hooks'[h].len <= MaxHooks
    <3>1. ASSUME NEW s \in Slot,
                 kind' = [kind EXCEPT ![s] = "tx"], hooks' = [hooks EXCEPT ![s] = hooks[on[g]]]
          PROVE  <2>2!:
      BY <3>1 DEF Handle, Bounded
    <3> QED
      BY <1>10, <3>1 DEF Return, Bounded
  <2> QED
    BY <1>10, <2>1, <2>2, ForgetTyped DEF Return, Bounded
<1>11. ASSUME NEW g \in Goroutine, Close(g) PROVE TypeInv'
  <2> DEFINE r == hookChain(g, hooks[on[g]], ctx[g])
  <2>1. hooks[on[g]].len + Len(ctx[g]) <= ArrayLen
    BY BoundAssumption, LenProperties DEF Bounded, Slice
  <2>2. r.heap \in [ArrayId -> Array] /\ r.slice \in Slice
    <3>1. on[g] \in Handle /\ hooks[on[g]] \in Slice /\ ctx[g] \in Seq(AnyHook)
      OBVIOUS
    <3>2. hooks[on[g]].arr # g
      BY <3>1, SharedNotOwn
    <3> QED
      BY <2>1, <3>1, <3>2, ChainLemma
  <2> HIDE DEF r
  <2>3. chain' = [chain EXCEPT ![g] = r.slice] /\ heap' = r.heap
    BY <1>11 DEF Close, r
  <2>4. /\ drv' \in [Goroutine -> {"no"} \cup Outcome] /\ drv'[g] # "no"
        /\ ev' \in [Goroutine -> Event]
    BY <1>11 DEF Close, Outcome, NewEvent, Event
  <2> QED
    BY <1>11, <2>2, <2>3, <2>4, BoundAssumption DEF Close, Bounded, Answered
<1>12. ASSUME NEW g \in Goroutine, Panic(g) PROVE TypeInv'
  <2>1. out' \in [Goroutine -> {"none", "argerr", "panic"} \cup Outcome]
    BY <1>12 DEF Panic
  <2> QED
    BY <1>12, <2>1, ForgetTyped DEF Panic, Bounded
<1>13. CASE UNCHANGED vars
  BY <1>13 DEF vars, Bounded, Answered
<1> QED
  BY <1>1, <1>2, <1>3, <1>4, <1>5, <1>6, <1>7, <1>8, <1>9, <1>10, <1>11, <1>12, <1>13 DEF Next, Step

-----------------------------------------------------------------------------
(* The arrays the handles share                                            *)

\* The DB's list is in the newest array of its line, and no handle that shares that
\* array reaches past the DB's own length: append writes where nobody looks.
Sharing ==
  /\ hooks[DB].arr <= hooks[DB].len
  /\ \A h \in Handle : /\ hooks[h].arr <= hooks[DB].len
                       /\ hooks[h].arr = hooks[DB].arr => hooks[h].len <= hooks[DB].len

\* A handle in use keeps its slice, the arrays of the DB's list included.
HandlesKept ==
  \A h \in Handle : kind[h] # "none" => kind'[h] = kind[h] /\ hooks'[h] = hooks[h]

\* A step of a goroutine writes no array but its own.
WritesOwn(g) == \A a \in ArrayId : a # g => heap'[a] = heap[a]

\* The call of a goroutine is no other's business.
CallKept(f) ==
  /\ pc'[f] = pc[f] /\ on'[f] = on[f] /\ ctx'[f] = ctx[f]
  /\ chain'[f] = chain[f] /\ want'[f] = want[f]

\* AddHook: the list of a Tx, Conn or Stmt is not written.
LEMMA AddHookShares ==
  ASSUME TypeInv, Sharing, NEW h \in AddedHooks, AddHook(h)
  PROVE  /\ Sharing'
         /\ \A s \in Slot : hooks'[s] = hooks[s] /\ Value(hooks[s])' = Value(hooks[s])
<1> USE DEF TypeInv, TypeOK
<1> DEFINE r == AppendHook(hooks[DB], h)
<1>1. /\ hooks[DB] \in Slice /\ hooks[DB].len < MaxHooks /\ hooks[DB].arr \in 0..hooks[DB].len
      /\ h \in AnyHook
  BY HookAssumption, BoundAssumption DEF AddHook, Handle, Bounded, Slice, Sharing
<1>2. /\ r.slice \in Slice
      /\ r.slice.len = hooks[DB].len + 1
      /\ r.slice.arr \in 0..r.slice.len
      /\ \/ /\ r.slice.arr = hooks[DB].arr
            /\ \A i \in 1..ArrayLen : i # hooks[DB].len + 1 => r.heap[hooks[DB].arr][i] = heap[hooks[DB].arr][i]
         \/ r.slice.arr = hooks[DB].len + 1
      /\ \A a \in ArrayId : a # r.slice.arr => r.heap[a] = heap[a]
  BY <1>1, AppendLemma, ZenonT(60)
<1> HIDE DEF r
<1>3. heap' = r.heap /\ hooks' = [hooks EXCEPT ![DB] = r.slice]
  BY DEF AddHook, r
<1>4. \A s \in Slot : s # DB /\ s \in Handle /\ hooks'[s] = hooks[s]
  BY <1>3, DBAssumption DEF Handle
<1>5. hooks'[DB] = r.slice /\ DB \in Handle
  BY <1>3 DEF Handle
<1>6. \A f \in Handle : hooks[f].len \in Nat /\ hooks[f].len <= ArrayLen /\ hooks[f].arr \in Nat
  BY BoundAssumption DEF Bounded, Slice
<1>7. Sharing'
  <2>1. ASSUME NEW f \in Handle
        PROVE  /\ hooks'[f].arr <= hooks'[DB].len
               /\ hooks'[f].arr = hooks'[DB].arr => hooks'[f].len <= hooks'[DB].len
    <3>1. CASE f = DB
      BY <3>1, <1>1, <1>2, <1>5, <1>6 DEF Slice
    <3>2. CASE f # DB
      <4>1. hooks'[f] = hooks[f]
        BY <3>2, <1>4 DEF Handle
      <4>2. hooks[f].arr <= hooks[DB].len /\ (hooks[f].arr = hooks[DB].arr => hooks[f].len <= hooks[DB].len)
        BY DEF Sharing
      <4> QED
        BY <4>1, <4>2, <1>1, <1>2, <1>5, <1>6
    <3> QED
      BY <3>1, <3>2
  <2> QED
    BY <2>1, <1>2, <1>5, <1>6 DEF Sharing
<1>8. ASSUME NEW s \in Slot PROVE Held(heap', hooks[s]) = Held(heap, hooks[s])
  <2>1. hooks[s].arr \in ArrayId /\ s \in Handle
    BY <1>4 DEF Slice
  <2>2. CASE hooks[s].arr # r.slice.arr
    <3>1. heap'[hooks[s].arr] = heap[hooks[s].arr]
      BY <2>1, <2>2, <1>2, <1>3
    <3> QED
      BY <3>1, HeldSame
  <2>3. CASE hooks[s].arr = r.slice.arr
    <3>1. hooks[s].arr = hooks[DB].arr /\ hooks[s].len <= hooks[DB].len
      BY <2>1, <2>3, <1>1, <1>2, <1>5, <1>6 DEF Sharing
    <3>2. \A i \in 1..hooks[s].len : heap'[hooks[s].arr][i] = heap[hooks[s].arr][i]
      BY <2>1, <2>3, <3>1, <1>1, <1>2, <1>3, <1>5, <1>6, BoundAssumption
    <3> QED
      BY <3>2 DEF Held
  <2> QED
    BY <2>2, <2>3
<1> QED
  BY <1>4, <1>7, <1>8 DEF Value

\* Every other step: handles in use keep their slices, and a new handle gets the
\* slice of one in use.
LEMMA OtherShares ==
  ASSUME TypeInv, Sharing, HandlesKept, kind[DB] # "none",
         \A h \in Handle : \E p \in Handle : hooks'[h] = hooks[p]
  PROVE  Sharing'
<1>1. hooks'[DB] = hooks[DB]
  BY DEF HandlesKept, Handle
<1> QED
  BY <1>1 DEF Sharing

\* What a handle in use holds does not change when a goroutine writes its own array.
LEMMA OwnArrayOnly ==
  ASSUME TypeInv, NEW g \in Goroutine, WritesOwn(g), NEW h \in Handle
  PROVE  Held(heap', hooks[h]) = Held(heap, hooks[h])
<1>1. hooks[h].arr # g /\ hooks[h].arr \in ArrayId
  BY SharedNotOwn DEF TypeInv, TypeOK, Slice
<1> QED
  BY <1>1, HeldSame DEF WritesOwn

-----------------------------------------------------------------------------
(* The chain of a call                                                     *)

\* The chain of a call in progress is its handle's hooks and its ctx's, in an array
\* of its own or in a shared one; a commit or a rollback has yet to make its chain
\* from a handle in use.
CallInv(g) ==
  /\ pc[g] \in {"before", "after"} =>
       /\ chain[g].arr = g \/ chain[g].arr \in 0..MaxHooks
       /\ Value(chain[g]) = want[g]
  /\ pc[g] # "idle" => kind[on[g]] # "none"
  /\ pc[g] = "closing" => want[g] = Value(hooks[on[g]]) \o ctx[g]

IInv == /\ TypeInv
        /\ Sharing
        /\ kind[DB] = "db"
        /\ \A g \in Goroutine : CallInv(g)

\* A step that writes another array and keeps the handles in use leaves a call alone.
LEMMA CallUntouched ==
  ASSUME IInv, NEW g \in Goroutine, NEW f \in Goroutine, f # g,
         WritesOwn(g), HandlesKept, CallKept(f)
  PROVE  CallInv(f)'
<1> USE DEF IInv, TypeInv, TypeOK
<1>1. on[f] \in Handle /\ chain[f] \in Slice
  OBVIOUS
<1>2. pc[f] # "idle" => kind'[on[f]] # "none" /\ hooks'[on[f]] = hooks[on[f]]
  BY <1>1 DEF CallInv, HandlesKept
<1>3. Held(heap', hooks[on[f]]) = Held(heap, hooks[on[f]])
  BY <1>1, OwnArrayOnly
<1>4. ASSUME pc[f] \in {"before", "after"} PROVE Held(heap', chain[f]) = Held(heap, chain[f])
  <2>1. chain[f].arr # g /\ chain[f].arr \in ArrayId
    BY <1>1, <1>4, GoroutineAssumption DEF CallInv, Slice
  <2>2. heap'[chain[f].arr] = heap[chain[f].arr]
    BY <2>1 DEF WritesOwn
  <2> QED
    BY <2>2, HeldSame
<1> QED
  BY <1>2, <1>3, <1>4, ZenonT(60) DEF CallInv, CallKept, Value

\* A step of a goroutine that starts no chain and writes no array.
LEMMA CallGoesOn ==
  ASSUME IInv, NEW g \in Goroutine, UNCHANGED <<heap, kind, hooks, on, ctx, chain, want>>,
         pc[g] \in {"before", "after"}, pc'[g] \in {"before", "after"},
         \A f \in Goroutine : f # g => pc'[f] = pc[f]
  PROVE  \A f \in Goroutine : CallInv(f)'
BY DEF IInv, CallInv, Value

\* Only idle goroutines see AddHook, and only they can.
LEMMA AddHookCalls ==
  ASSUME IInv, NEW h \in AddedHooks, AddHook(h)
  PROVE  \A f \in Goroutine : CallInv(f)'
BY DEF AddHook, AllIdle, CallInv, callVars

\* A chain hookChain made for a call of a handle in use.
LEMMA ChainMade ==
  ASSUME IInv, NEW g \in Goroutine, NEW h \in Handle, NEW call \in Seq(AnyHook),
         MaxHooks + Len(call) <= ArrayLen,
         heap' = hookChain(g, hooks[h], call).heap,
         chain' = [chain EXCEPT ![g] = hookChain(g, hooks[h], call).slice]
  PROVE  /\ WritesOwn(g)
         /\ chain'[g].arr = g \/ chain'[g].arr \in 0..MaxHooks
         /\ Value(chain[g])' = Value(hooks[h]) \o call
<1> USE DEF IInv, TypeInv, TypeOK
<1> DEFINE r == hookChain(g, hooks[h], call)
<1>1. hooks[h] \in Slice /\ hooks[h].arr # g /\ hooks[h].arr \in 0..MaxHooks
  BY SharedNotOwn DEF Bounded
<1>2. hooks[h].len + Len(call) <= ArrayLen
  BY <1>1, BoundAssumption, LenProperties DEF Bounded, Slice
<1>3. /\ r.slice = hooks[h] \/ r.slice.arr = g
      /\ \A a \in ArrayId : a # g => r.heap[a] = heap[a]
      /\ Held(r.heap, r.slice) = Value(hooks[h]) \o call
  BY <1>1, <1>2, ChainLemma
<1>4. heap' = r.heap /\ chain'[g] = r.slice
  OBVIOUS
<1> HIDE DEF r
<1> QED
  BY <1>1, <1>3, <1>4 DEF WritesOwn, Value

\* A call that ends.
LEMMA CallForgotten ==
  ASSUME IInv, NEW g \in Goroutine, Forget(g), HandlesKept
  PROVE  \A f \in Goroutine : CallInv(f)'
<1> USE DEF IInv, TypeInv, TypeOK, Forget
<1>1. WritesOwn(g)
  BY DEF WritesOwn
<1>2. ASSUME NEW f \in Goroutine, f # g PROVE CallInv(f)'
  <2>1. CallKept(f)
    BY <1>2 DEF CallKept
  <2> QED
    BY <1>1, <1>2, <2>1, CallUntouched
<1>3. CallInv(g)'
  BY DEF CallInv
<1> QED
  BY <1>2, <1>3

-----------------------------------------------------------------------------
(* The invariant is inductive                                              *)

\* The invariant holds at first.
LEMMA InvInit == Init => IInv
<1> SUFFICES ASSUME Init PROVE IInv
  OBVIOUS
<1>1. TypeInv
  BY TypeInvInit
<1>2. PICK hs \in InitHooks :
        LET n == Len(filterHooks(hs)) IN
          hooks = [h \in Handle |-> IF h = DB THEN [arr |-> n, len |-> n, cap |-> n] ELSE Empty]
  BY DEF Init
<1>3. Len(filterHooks(hs)) \in Nat
  BY FilteredInit
<1>4. Sharing
  BY <1>2, <1>3 DEF Sharing, Empty, Handle
<1>5. kind[DB] = "db" /\ \A g \in Goroutine : CallInv(g)
  BY DEF Init, CallInv, Handle
<1> QED
  BY <1>1, <1>4, <1>5 DEF IInv

\* A step of goroutine g after its chain was chosen: it writes no array.
LEMMA QuietStep ==
  ASSUME IInv, NEW g \in Goroutine,
         BeforeQuery(g) \/ Driver(g) \/ Turn(g) \/ AfterQuery(g)
  PROVE  HandlesKept /\ hooks' = hooks /\ WritesOwn(g) /\ \A f \in Goroutine : CallInv(f)'
<1>1. UNCHANGED <<heap, kind, hooks, on, ctx, chain, want>>
  BY DEF BeforeQuery, Driver, Turn, AfterQuery, handleVars, callVars
<1>2. /\ pc[g] \in {"before", "after"} /\ pc'[g] \in {"before", "after"}
      /\ \A f \in Goroutine : f # g => pc'[f] = pc[f]
  BY DEF BeforeQuery, Driver, Turn, AfterQuery, IInv, TypeInv, TypeOK
<1> QED
  BY <1>1, <1>2, CallGoesOn DEF HandlesKept, WritesOwn

\* Every step of the calls, seen from the handles: those in use keep their slices,
\* and only the caller's own array is written.
LEMMA StepInv ==
  ASSUME IInv, NEW g \in Goroutine,
         \/ Step(g) \/ Panic(g)
         \/ \E h \in Handle, o \in Op :
              ArgError(g, h, o) \/ \E hs \in CallHooks : Start(g, h, o, hs) \/ StartClose(g, h, o, hs)
  PROVE  /\ HandlesKept /\ WritesOwn(g)
         /\ \A h \in Handle : \E p \in Handle : hooks'[h] = hooks[p]
         /\ \A f \in Goroutine : CallInv(f)'
<1> USE DEF IInv, TypeInv, TypeOK
<1>1. CASE BeforeQuery(g) \/ Driver(g) \/ Turn(g) \/ AfterQuery(g)
  BY <1>1, QuietStep
<1>2. CASE Return(g)
  <2>1. HandlesKept /\ \A h \in Handle : \E p \in Handle : hooks'[h] = hooks[p]
    <3>1. on[g] \in Handle
      OBVIOUS
    <3> QED
      BY <1>2, <3>1 DEF Return, HandlesKept, Handle
  <2>2. Forget(g)
    BY <1>2 DEF Return
  <2>3. WritesOwn(g)
    BY <2>2 DEF Forget, WritesOwn
  <2> QED
    BY <2>1, <2>2, <2>3, CallForgotten
<1>3. CASE Panic(g)
  <2>1. HandlesKept /\ \A h \in Handle : \E p \in Handle : hooks'[h] = hooks[p]
    BY <1>3 DEF Panic, HandlesKept
  <2>2. Forget(g)
    BY <1>3 DEF Panic
  <2>3. WritesOwn(g)
    BY <2>2 DEF Forget, WritesOwn
  <2> QED
    BY <2>1, <2>2, <2>3, CallForgotten
<1>4. CASE Close(g)
  <2>1. /\ heap' = hookChain(g, hooks[on[g]], ctx[g]).heap
        /\ chain' = [chain EXCEPT ![g] = hookChain(g, hooks[on[g]], ctx[g]).slice]
        /\ kind' = kind /\ hooks' = hooks
        /\ on' = on /\ op' = op /\ ctx' = ctx /\ want' = want
        /\ pc[g] = "closing" /\ pc' = [pc EXCEPT ![g] = "before"]
    BY <1>4 DEF Close, callVars
  <2>2. on[g] \in Handle /\ ctx[g] \in Seq(AnyHook) /\ MaxHooks + Len(ctx[g]) <= ArrayLen
    BY DEF Bounded
  <2>3. /\ WritesOwn(g)
        /\ chain'[g].arr = g \/ chain'[g].arr \in 0..MaxHooks
        /\ Value(chain[g])' = Value(hooks[on[g]]) \o ctx[g]
    BY <2>1, <2>2, ChainMade
  <2>4. HandlesKept
    BY <2>1 DEF HandlesKept
  <2>5. CallInv(g)'
    BY <2>1, <2>3 DEF CallInv
  <2>6. ASSUME NEW f \in Goroutine, f # g PROVE CallInv(f)'
    <3>1. CallKept(f)
      BY <2>1, <2>6 DEF CallKept
    <3> QED
      BY <2>3, <2>4, <2>6, <3>1, CallUntouched
  <2> QED
    BY <2>1, <2>3, <2>4, <2>5, <2>6
<1>5. ASSUME NEW h \in Handle, NEW o \in Op, ArgError(g, h, o)
      PROVE  /\ HandlesKept /\ WritesOwn(g) /\ hooks' = hooks
             /\ \A f \in Goroutine : CallInv(f)'
  BY <1>5 DEF ArgError, handleVars, callVars, HandlesKept, WritesOwn, CallInv, Value
<1>6. ASSUME NEW h \in Handle, NEW o \in Op, NEW hs \in CallHooks, Start(g, h, o, hs)
      PROVE  /\ HandlesKept /\ WritesOwn(g) /\ hooks' = hooks
             /\ \A f \in Goroutine : CallInv(f)'
  <2> DEFINE call == WithCallHooks(hs)
  <2>1. call \in Seq(AnyHook) /\ MaxHooks + Len(call) <= ArrayLen
    BY CallHooksTyped
  <2> HIDE DEF call
  <2>2. /\ heap' = hookChain(g, hooks[h], call).heap
        /\ chain' = [chain EXCEPT ![g] = hookChain(g, hooks[h], call).slice]
        /\ kind' = kind /\ hooks' = hooks
        /\ on' = [on EXCEPT ![g] = h] /\ ctx' = [ctx EXCEPT ![g] = call]
        /\ want' = [want EXCEPT ![g] = Value(hooks[h]) \o call]
        /\ pc' = [pc EXCEPT ![g] = "before"]
    BY <1>6 DEF Start, call
  <2>3. kind[h] # "none"
    BY <1>6 DEF Start, Ops
  <2>4. /\ WritesOwn(g)
        /\ chain'[g].arr = g \/ chain'[g].arr \in 0..MaxHooks
        /\ Value(chain[g])' = Value(hooks[h]) \o call
    BY <2>1, <2>2, ChainMade
  <2>5. HandlesKept
    BY <2>2 DEF HandlesKept
  <2>6. CallInv(g)'
    BY <2>2, <2>3, <2>4 DEF CallInv
  <2>7. ASSUME NEW f \in Goroutine, f # g PROVE CallInv(f)'
    <3>1. CallKept(f)
      BY <2>2, <2>7 DEF CallKept
    <3> QED
      BY <2>4, <2>5, <2>7, <3>1, CallUntouched
  <2> QED
    BY <2>2, <2>4, <2>5, <2>6, <2>7
<1>7. ASSUME NEW h \in Handle, NEW o \in Op, NEW hs \in CallHooks, StartClose(g, h, o, hs)
      PROVE  /\ HandlesKept /\ WritesOwn(g) /\ hooks' = hooks
             /\ \A f \in Goroutine : CallInv(f)'
  <2> DEFINE call == WithCallHooks(hs)
  <2>1. /\ heap' = heap /\ chain' = chain /\ kind' = kind /\ hooks' = hooks
        /\ on' = [on EXCEPT ![g] = h] /\ ctx' = [ctx EXCEPT ![g] = call]
        /\ want' = [want EXCEPT ![g] = Value(hooks[h]) \o call]
        /\ pc' = [pc EXCEPT ![g] = "closing"]
    BY <1>7 DEF StartClose, handleVars
  <2> HIDE DEF call
  <2>2. kind[h] # "none"
    BY <1>7 DEF StartClose, Ops
  <2>3. HandlesKept /\ WritesOwn(g)
    BY <2>1 DEF HandlesKept, WritesOwn
  <2>4. CallInv(g)'
    BY <2>1, <2>2 DEF CallInv, Value
  <2>5. ASSUME NEW f \in Goroutine, f # g PROVE CallInv(f)'
    <3>1. CallKept(f)
      BY <2>1, <2>5 DEF CallKept
    <3> QED
      BY <2>3, <2>5, <3>1, CallUntouched
  <2> QED
    BY <2>1, <2>3, <2>4, <2>5
<1> QED
  BY <1>1, <1>2, <1>3, <1>4, <1>5, <1>6, <1>7 DEF Step

\* hooksFor: a handle derived from one in use shares its slice; no array is written.
LEMMA DeriveInv ==
  ASSUME IInv, NEW s \in Slot, NEW p \in Handle, NEW k \in {"conn", "stmt"}, Derive(s, p, k)
  PROVE  /\ HandlesKept /\ heap' = heap
         /\ \A h \in Handle : \E q \in Handle : hooks'[h] = hooks[q]
         /\ \A f \in Goroutine : CallInv(f)'
<1> USE DEF IInv, TypeInv, TypeOK
<1>1. HandlesKept /\ heap' = heap /\ \A h \in Handle : \E q \in Handle : hooks'[h] = hooks[q]
  BY DEF Derive, HandlesKept, Handle
<1>2. UNCHANGED <<heap, pc, on, ctx, chain, want>>
  BY DEF Derive, callVars
<1>3. ASSUME NEW f \in Goroutine PROVE CallInv(f)'
  <2>1. on[f] \in Handle /\ CallInv(f)
    OBVIOUS
  <2>2. pc[f] # "idle" => kind'[on[f]] # "none" /\ hooks'[on[f]] = hooks[on[f]]
    BY <1>1, <2>1 DEF CallInv, HandlesKept
  <2> QED
    BY <1>2, <2>1, <2>2 DEF CallInv, Value
<1> QED
  BY <1>1, <1>3

\* A stuttering step.
LEMMA StutterInv ==
  ASSUME IInv, UNCHANGED vars
  PROVE  Sharing' /\ kind'[DB] = "db" /\ \A f \in Goroutine : CallInv(f)'
BY DEF IInv, vars, Sharing, CallInv, Value

\* Every step preserves it.
LEMMA InvStep == IInv /\ [Next]_vars => IInv'
<1> SUFFICES ASSUME IInv, [Next]_vars PROVE IInv'
  OBVIOUS
<1>1. TypeInv'
  BY TypeInvStep DEF IInv, Sharing
<1>2. Sharing' /\ kind'[DB] = "db" /\ \A f \in Goroutine : CallInv(f)'
  <2>1. ASSUME NEW h \in AddedHooks, AddHook(h) PROVE <1>2!:
    BY <2>1, AddHookShares, AddHookCalls DEF IInv, AddHook
  <2>2. ASSUME NEW s \in Slot, NEW p \in Handle, NEW k \in {"conn", "stmt"}, Derive(s, p, k) PROVE <1>2!:
    BY <2>2, DeriveInv, OtherShares DEF IInv, HandlesKept, Handle
  <2>3. ASSUME NEW g \in Goroutine,
               \/ Step(g) \/ Panic(g)
               \/ \E h \in Handle, o \in Op :
                    ArgError(g, h, o) \/ \E hs \in CallHooks : Start(g, h, o, hs) \/ StartClose(g, h, o, hs)
        PROVE  <1>2!:
    BY <2>3, StepInv, OtherShares DEF IInv, HandlesKept, Handle
  <2>4. CASE UNCHANGED vars
    BY <2>4, StutterInv
  <2> QED
    BY <2>1, <2>2, <2>3, <2>4 DEF Next
<1> QED
  BY <1>1, <1>2 DEF IInv

\* A handle in use holds the same hooks after a step as before it.
LEMMA SnapshotStep ==
  ASSUME IInv, [Next]_vars
  PROVE  \A s \in Slot : kind[s] # "none" => Value(hooks[s])' = Value(hooks[s])
<1> TAKE s \in Slot
<1> HAVE kind[s] # "none"
<1> USE DEF IInv
<1>1. s \in Handle
  BY DEF Handle
<1>2. ASSUME NEW h \in AddedHooks, AddHook(h) PROVE Value(hooks[s])' = Value(hooks[s])
  BY <1>2, AddHookShares
<1>3. ASSUME NEW t \in Slot, NEW p \in Handle, NEW k \in {"conn", "stmt"}, Derive(t, p, k)
      PROVE  Value(hooks[s])' = Value(hooks[s])
  BY <1>1, <1>3, DeriveInv DEF HandlesKept, Value
<1>4. ASSUME NEW g \in Goroutine,
             \/ Step(g) \/ Panic(g)
             \/ \E h \in Handle, o \in Op :
                  ArgError(g, h, o) \/ \E hs \in CallHooks : Start(g, h, o, hs) \/ StartClose(g, h, o, hs)
      PROVE  Value(hooks[s])' = Value(hooks[s])
  <2>1. HandlesKept /\ WritesOwn(g)
    BY <1>4, StepInv
  <2>2. hooks'[s] = hooks[s]
    BY <1>1, <2>1 DEF HandlesKept
  <2>3. Held(heap', hooks[s]) = Held(heap, hooks[s])
    BY <1>1, <2>1, OwnArrayOnly
  <2> QED
    BY <2>2, <2>3 DEF Value
<1>5. CASE UNCHANGED vars
  BY <1>5 DEF vars, Value
<1> QED
  BY <1>2, <1>3, <1>4, <1>5 DEF Next

-----------------------------------------------------------------------------
(* The theorems                                                            *)

\* It always holds.
LEMMA Invariance == Spec => []IInv
<1>1. Init => IInv
  BY InvInit
<1>2. IInv /\ [Next]_vars => IInv'
  BY InvStep
<1> QED
  BY <1>1, <1>2, PTL DEF Spec

\* Every variable has its type: the arrays are never written outside their bounds, and
\* no operation returns before the driver or the argument check answered.
THEOREM TypeCorrect == Spec => []TypeOK
<1>1. IInv => TypeOK
  BY DEF IInv, TypeInv
<1> QED
  BY <1>1, Invariance, PTL

\* hookChain (hook.go:139): whatever the other goroutines and AddHook do, an operation
\* runs from its first hook to its last the chain it started with.
THEOREM Isolation == Spec => []ChainIsolation
<1>1. IInv => ChainIsolation
  BY DEF IInv, CallInv, ChainIsolation
<1> QED
  BY <1>1, Invariance, PTL

\* hooksFor, wrapStmt and NewTx copy a slice header only (db.go:113): the hooks of a
\* Tx, a Conn or a Stmt are nevertheless the ones it was created with, for good.
THEOREM Snapshots == Spec => SnapshotsAreFixed
<1>1. IInv /\ [Next]_vars =>
        [\A s \in Slot : kind[s] # "none" => Value(hooks[s])' = Value(hooks[s])]_vars
  BY SnapshotStep
<1> QED
  BY <1>1, Invariance, PTL DEF Spec, SnapshotsAreFixed

-----------------------------------------------------------------------------
(* Along the chain of an operation: what the hooks see, what the driver is  *)
(* given, and that HookPipeline implements HookOnion.  IInv says that the   *)
(* chain of a call always holds want, the hooks it had at its start; the    *)
(* invariant added here says of want what has to be said of the chain, and  *)
(* so no longer mentions the heap.                                          *)


\* No list of hooks has a nil hook in it: not a handle's, a ctx's or a call's.
NilFree ==
  /\ \A h \in Handle : Value(hooks[h]) \in Seq(Hook)
  /\ \A g \in Goroutine : ctx[g] \in Seq(Hook) /\ want[g] \in Seq(Hook)

\* The error an event carries when the driver has answered.
Told(answer) == IF answer = "err" THEN "err" ELSE "nil"

\* The progress of a call: the indices are within its chain, and the driver has not
\* been called before its time.
Progress(g) ==
  /\ pc[g] \in {"idle", "closing"} => drv[g] = "no"
  /\ pc[g] = "closing" => op[g] \in TxOp
  /\ pc[g] = "before" => idx[g] \in 1..(Len(want[g]) + 1) /\ (op[g] \notin TxOp => drv[g] = "no")
  /\ pc[g] = "after" => idx[g] \in 0..Len(want[g])

\* The event of a call: its query and arguments are of one rewriter, and its error is
\* the driver's or was forged by a hook whose AfterQuery has run.
EventInv(g) ==
  /\ pc[g] = "before" => ev[g].query = ev[g].args /\ (op[g] \in TxOp => ev[g].err = Told(drv[g]))
  /\ pc[g] = "after" =>
       /\ \/ ev[g].err = Told(drv[g])
          \/ ev[g].err = "forged" /\ \E i \in (idx[g] + 1)..Len(want[g]) : want[g][i] \in Forgers
       /\ op[g] \in {"exec", "query"} /\ kind[on[g]] # "stmt" =>
            sent[g][1] = sent[g][2] /\ sent[g] = <<ev[g].query, ev[g].args>>

OnionInv == IInv /\ NilFree /\ \A g \in Goroutine : Progress(g) /\ EventInv(g)

-----------------------------------------------------------------------------
(* The invariant is inductive                                              *)

\* append of one hook (db.go:120): the longer slice holds what the shorter one held,
\* and the hook.
LEMMA AppendValue ==
  ASSUME heap \in [ArrayId -> Array],
         NEW s \in Slice, s.len < MaxHooks, s.arr \in 0..s.len,
         NEW h \in AnyHook, NEW r, r = AppendHook(s, h)
  PROVE  Held(r.heap, r.slice) = Append(Value(s), h)
<1>1. /\ r.heap \in [ArrayId -> Array] /\ r.slice \in Slice /\ r.slice.len = s.len + 1
  BY AppendLemma
<1>2. /\ s.len \in Nat /\ s.len + 1 \in 1..ArrayLen /\ s.arr \in ArrayId /\ s.len + 1 \in ArrayId
      /\ s.cap \in Nat
  BY BoundAssumption DEF Slice, ArrayId
<1>3. /\ Value(s) \in Seq(AnyHook) /\ Len(Value(s)) = s.len
      /\ \A i \in 1..s.len : Value(s)[i] = heap[s.arr][i]
  BY HeldIsSequence DEF Value
<1>4. /\ Held(r.heap, r.slice) \in Seq(AnyHook) /\ Len(Held(r.heap, r.slice)) = s.len + 1
      /\ \A i \in 1..(s.len + 1) : Held(r.heap, r.slice)[i] = r.heap[r.slice.arr][i]
  BY <1>1, HeldIsSequence, SMTT(30)
<1>5. \A i \in 1..(s.len + 1) : r.heap[r.slice.arr][i] = IF i <= s.len THEN heap[s.arr][i] ELSE h
  <2>1. CASE s.len < s.cap
    <3>1. r = [slice |-> [s EXCEPT !.len = @ + 1], heap |-> [heap EXCEPT ![s.arr][s.len + 1] = h]]
      BY <2>1 DEF AppendHook
    <3>2. r.slice.arr = s.arr /\ r.heap[s.arr] = [heap[s.arr] EXCEPT ![s.len + 1] = h]
      BY <3>1, <1>2 DEF Slice
    <3>3. heap[s.arr] \in [1..ArrayLen -> AnyHook]
      BY <1>2 DEF Array
    <3> QED
      BY <3>2, <3>3, <1>2, BoundAssumption
  <2>2. CASE ~(s.len < s.cap)
    <3>1. r = [slice |-> [arr |-> s.len + 1, len |-> s.len + 1, cap |-> IF s.cap = 0 THEN 1 ELSE 2 * s.cap],
               heap  |-> [heap EXCEPT ![s.len + 1] = [i \in 1..ArrayLen |->
                            IF i <= s.len THEN heap[s.arr][i] ELSE IF i = s.len + 1 THEN h ELSE NilHook]]]
      BY <2>2 DEF AppendHook
    <3>2. /\ r.slice.arr = s.len + 1
          /\ r.heap[s.len + 1] = [i \in 1..ArrayLen |->
               IF i <= s.len THEN heap[s.arr][i] ELSE IF i = s.len + 1 THEN h ELSE NilHook]
      BY <3>1, <1>2
    <3> QED
      BY <3>2, <1>2, BoundAssumption
  <2> QED
    BY <2>1, <2>2
<1>6. /\ Append(Value(s), h) \in Seq(AnyHook) /\ Len(Append(Value(s), h)) = s.len + 1
      /\ \A i \in 1..(s.len + 1) :
           Append(Value(s), h)[i] = IF i <= s.len THEN Value(s)[i] ELSE h
  BY <1>2, <1>3, AppendProperties
<1>7. \A i \in 1..(s.len + 1) : Held(r.heap, r.slice)[i] = Append(Value(s), h)[i]
  BY <1>2, <1>3, <1>4, <1>5, <1>6
<1> QED
  BY <1>4, <1>6, <1>7, SeqEqual

\* AddHook: the DB's list has one more hook, and the lists of the others do not change.
LEMMA AddHookValue ==
  ASSUME IInv, NEW h \in AddedHooks, AddHook(h)
  PROVE  /\ h \in Hook
         /\ Value(hooks[DB])' = Append(Value(hooks[DB]), h)
         /\ \A s \in Slot : s # DB /\ Value(hooks[s])' = Value(hooks[s])
<1>1. h \in Hook /\ h \in AnyHook
  BY HookAssumption DEF AddHook, AnyHook
<1>2. hooks[DB] \in Slice /\ hooks[DB].len < MaxHooks /\ hooks[DB].arr \in 0..hooks[DB].len
  BY BoundAssumption DEF AddHook, Handle, IInv, TypeInv, TypeOK, Bounded, Slice, Sharing
<1> DEFINE r == AppendHook(hooks[DB], h)
<1>3. heap' = r.heap /\ hooks'[DB] = r.slice
  BY DEF AddHook, IInv, TypeInv, TypeOK, Handle
<1>4. Held(r.heap, r.slice) = Append(Value(hooks[DB]), h)
  BY <1>1, <1>2, AppendValue DEF IInv, TypeInv, TypeOK
<1> HIDE DEF r
<1>5. Value(hooks[DB])' = Append(Value(hooks[DB]), h)
  BY <1>3, <1>4 DEF Value
<1>6. \A s \in Slot : s # DB /\ Value(hooks[s])' = Value(hooks[s])
  BY AddHookShares, DBAssumption DEF IInv
<1> QED
  BY <1>1, <1>5, <1>6

\* The calls of the other goroutines.
OthersKept(g) ==
  \A f \in Goroutine : f # g =>
    /\ pc'[f] = pc[f] /\ on'[f] = on[f] /\ op'[f] = op[f] /\ ctx'[f] = ctx[f] /\ want'[f] = want[f]
    /\ idx'[f] = idx[f] /\ ev'[f] = ev[f] /\ sent'[f] = sent[f] /\ drv'[f] = drv[f]

\* What holds of the call of one goroutine: its lists have no nil in them, its
\* indices are within its chain, and its event is right.
OneCall(g) == ctx[g] \in Seq(Hook) /\ want[g] \in Seq(Hook) /\ Progress(g) /\ EventInv(g)

\* A call in which its goroutine does nothing.
LEMMA OtherCall ==
  ASSUME IInv, HandlesKept, NEW g \in Goroutine, OthersKept(g),
         NEW f \in Goroutine, f # g, OneCall(f)
  PROVE  OneCall(f)'
<1>1. on[f] \in Handle /\ (pc[f] # "idle" => kind'[on[f]] = kind[on[f]])
  BY DEF IInv, TypeInv, TypeOK, CallInv, HandlesKept
<1> QED
  BY <1>1 DEF OthersKept, OneCall, Progress, EventInv

\* The length of a chain, and what it holds, are those of want.
LEMMA ChainIsWant ==
  ASSUME IInv, NEW g \in Goroutine, pc[g] \in {"before", "after"}
  PROVE  /\ chain[g].len = Len(want[g]) /\ Len(want[g]) \in Nat
         /\ \A i \in 1..Len(want[g]) : heap[chain[g].arr][i] = want[g][i]
<1>1. heap \in [ArrayId -> Array] /\ chain[g] \in Slice
  BY DEF IInv, TypeInv, TypeOK
<1>2. Held(heap, chain[g]) = want[g]
  BY DEF IInv, CallInv, Value
<1>3. chain[g].len \in Nat
  BY <1>1, BoundAssumption DEF Slice
<1> QED
  BY <1>1, <1>2, <1>3, HeldIsSequence

\* BeforeQuery: a hook that rewrites the query rewrites the arguments too.
LEMMA BeforeQueryCall ==
  ASSUME IInv, NEW g \in Goroutine, BeforeQuery(g), OneCall(g)
  PROVE  OneCall(g)' /\ OthersKept(g)
<1> USE DEF BeforeQuery, callVars, IInv, TypeInv, TypeOK
<1>1. pc[g] = "before" /\ idx[g] <= Len(want[g]) /\ Len(want[g]) \in Nat
  BY ChainIsWant
<1>2. idx'[g] \in 1..(Len(want[g]) + 1)
  BY <1>1 DEF OneCall, Progress
<1>3. ev'[g].query = ev'[g].args /\ ev'[g].err = ev[g].err
  BY <1>1 DEF OneCall, EventInv
<1> QED
  BY <1>1, <1>2, <1>3 DEF OneCall, Progress, EventInv, OthersKept

\* The driver call: the event gets its outcome, and the driver got the event's pair.
LEMMA DriverCall ==
  ASSUME IInv, NEW g \in Goroutine, Driver(g), OneCall(g)
  PROVE  OneCall(g)' /\ OthersKept(g)
<1> USE DEF Driver, callVars, handleVars, IInv, TypeInv, TypeOK
<1>1. pc[g] = "before" /\ pc'[g] = "after" /\ idx'[g] = Len(want[g]) /\ Len(want[g]) \in Nat
  BY ChainIsWant
<1>2. PICK res \in Outcome :
        /\ drv' = [drv EXCEPT ![g] = res]
        /\ ev' = [ev EXCEPT ![g].err = IF res = "err" THEN "err" ELSE "nil"]
  OBVIOUS
<1>3. ev'[g].err = Told(drv'[g]) /\ ev'[g].query = ev[g].query /\ ev'[g].args = ev[g].args
  BY <1>2 DEF Told, Event
<1>4. sent'[g] = Sent(kind[on[g]], op[g], ev[g])
  OBVIOUS
<1>5. op[g] \in {"exec", "query"} /\ kind[on[g]] # "stmt" =>
        sent'[g] = <<ev'[g].query, ev'[g].args>> /\ sent'[g][1] = sent'[g][2]
  BY <1>1, <1>3, <1>4 DEF Sent, OneCall, EventInv
<1> QED
  BY <1>1, <1>2, <1>3, <1>5 DEF OneCall, Progress, EventInv, OthersKept

\* fireTxHook between its two loops: nothing but the index changes.
LEMMA TurnCall ==
  ASSUME IInv, NEW g \in Goroutine, Turn(g), OneCall(g)
  PROVE  OneCall(g)' /\ OthersKept(g)
<1> USE DEF Turn, callVars, handleVars, IInv, TypeInv, TypeOK
<1>1. pc[g] = "before" /\ pc'[g] = "after" /\ idx'[g] = Len(want[g]) /\ Len(want[g]) \in Nat
  BY ChainIsWant
<1> QED
  BY <1>1 DEF OneCall, Progress, EventInv, OthersKept, TxOp

\* AfterQuery: a hook may forge the error for the hooks that run after it, and those
\* are the ones before it in the chain.
LEMMA AfterQueryCall ==
  ASSUME IInv, NEW g \in Goroutine, AfterQuery(g), OneCall(g)
  PROVE  OneCall(g)' /\ OthersKept(g)
<1> USE DEF AfterQuery, callVars, handleVars, IInv, TypeInv, TypeOK
<1>1. pc[g] = "after" /\ pc'[g] = "after" /\ Len(want[g]) \in Nat /\ idx[g] \in 1..Len(want[g])
  BY ChainIsWant DEF OneCall, Progress
<1>2. heap[chain[g].arr][idx[g]] = want[g][idx[g]]
  BY <1>1, ChainIsWant
<1>3. idx'[g] = idx[g] - 1 /\ idx[g] \in (idx'[g] + 1)..Len(want[g])
  BY <1>1
<1>4. ev'[g].query = ev[g].query /\ ev'[g].args = ev[g].args
  BY DEF Event
<1>5. \/ ev'[g].err = Told(drv[g])
      \/ ev'[g].err = "forged" /\ \E i \in (idx'[g] + 1)..Len(want[g]) : want[g][i] \in Forgers
  <2>1. CASE ev' = ev
    <3>1. \A i \in (idx[g] + 1)..Len(want[g]) : i \in (idx'[g] + 1)..Len(want[g])
      BY <1>1, <1>3
    <3> QED
      BY <1>1, <2>1, <3>1 DEF OneCall, EventInv
  <2>2. CASE heap[chain[g].arr][idx[g]] \in Forgers /\ ev' = [ev EXCEPT ![g].err = "forged"]
    <3>1. ev'[g].err = "forged"
      BY <2>2 DEF Event
    <3> QED
      BY <1>2, <1>3, <2>2, <3>1
  <2> QED
    BY <2>1, <2>2
<1>6. idx'[g] \in 0..Len(want[g])
  BY <1>1, <1>3
<1>7. /\ \A f \in Goroutine : f # g => idx'[f] = idx[f] /\ ev'[f] = ev[f]
      /\ UNCHANGED <<pc, on, op, ctx, want, kind, sent, drv>>
  OBVIOUS
<1>8. Progress(g)'
  BY <1>1, <1>6, <1>7 DEF Progress
<1>9. EventInv(g)'
  BY <1>1, <1>4, <1>5, <1>7 DEF OneCall, EventInv
<1> QED
  BY <1>7, <1>8, <1>9 DEF OneCall, OthersKept

\* The hooks of a handle and those of a ctx, joined.
LEMMA JoinedHooks ==
  ASSUME NilFree, NEW h \in Handle, NEW call \in Seq(Hook)
  PROVE  Value(hooks[h]) \o call \in Seq(Hook)
BY ConcatProperties DEF NilFree

\* prepare: a new event and the first hook next.
LEMMA StartCall ==
  ASSUME IInv, NilFree, NEW g \in Goroutine, NEW h \in Handle, NEW o \in Op, NEW hs \in CallHooks,
         Start(g, h, o, hs), OneCall(g)
  PROVE  OneCall(g)' /\ OthersKept(g)
<1> DEFINE call == WithCallHooks(hs)
<1>1. call \in Seq(Hook) /\ Value(hooks[h]) \o call \in Seq(Hook)
  BY CallHooksTyped, JoinedHooks
<1> HIDE DEF call
<1>2. /\ ctx' = [ctx EXCEPT ![g] = call] /\ want' = [want EXCEPT ![g] = Value(hooks[h]) \o call]
      /\ pc[g] = "idle" /\ pc' = [pc EXCEPT ![g] = "before"] /\ idx' = [idx EXCEPT ![g] = 1]
      /\ op' = [op EXCEPT ![g] = o] /\ on' = [on EXCEPT ![g] = h] /\ o \notin TxOp
      /\ ev' = [ev EXCEPT ![g] = NewEvent("nil")] /\ sent' = sent /\ drv' = drv
  BY DEF Start, call
<1> USE DEF IInv, TypeInv, TypeOK
<1>3. ctx'[g] \in Seq(Hook) /\ want'[g] \in Seq(Hook) /\ Len(want'[g]) \in Nat
  BY <1>1, <1>2
<1>4. Progress(g)'
  BY <1>2, <1>3 DEF OneCall, Progress
<1>5. EventInv(g)'
  BY <1>2 DEF EventInv, NewEvent
<1> QED
  BY <1>2, <1>3, <1>4, <1>5 DEF OneCall, OthersKept

\* CloseWithErrContext up to the commit or the rollback.
LEMMA StartCloseCall ==
  ASSUME IInv, NilFree, NEW g \in Goroutine, NEW h \in Handle, NEW o \in Op, NEW hs \in CallHooks,
         StartClose(g, h, o, hs), OneCall(g)
  PROVE  OneCall(g)' /\ OthersKept(g)
<1> DEFINE call == WithCallHooks(hs)
<1>1. call \in Seq(Hook) /\ Value(hooks[h]) \o call \in Seq(Hook)
  BY CallHooksTyped, JoinedHooks
<1> HIDE DEF call
<1>2. /\ ctx' = [ctx EXCEPT ![g] = call] /\ want' = [want EXCEPT ![g] = Value(hooks[h]) \o call]
      /\ pc[g] = "idle" /\ pc' = [pc EXCEPT ![g] = "closing"]
      /\ op' = [op EXCEPT ![g] = o] /\ on' = [on EXCEPT ![g] = h] /\ o \in TxOp
      /\ UNCHANGED <<idx, ev, sent, drv>>
  BY DEF StartClose, call
<1> USE DEF IInv, TypeInv, TypeOK
<1>3. ctx'[g] \in Seq(Hook) /\ want'[g] \in Seq(Hook)
  BY <1>1, <1>2
<1>4. Progress(g)' /\ EventInv(g)'
  BY <1>2 DEF OneCall, Progress, EventInv
<1> QED
  BY <1>2, <1>3, <1>4 DEF OneCall, OthersKept

\* fireTxHook starts: the event has the outcome of the commit or the rollback.
LEMMA CloseCall ==
  ASSUME IInv, NEW g \in Goroutine, Close(g), OneCall(g)
  PROVE  OneCall(g)' /\ OthersKept(g)
<1> USE DEF IInv, TypeInv, TypeOK
<1>1. /\ pc[g] = "closing" /\ pc' = [pc EXCEPT ![g] = "before"] /\ idx' = [idx EXCEPT ![g] = 1]
      /\ UNCHANGED <<on, op, ctx, want, kind, sent>>
  BY DEF Close, callVars
<1>2. PICK res \in Outcome :
        /\ drv' = [drv EXCEPT ![g] = res]
        /\ ev' = [ev EXCEPT ![g] = NewEvent(IF res = "err" THEN "err" ELSE "nil")]
  BY DEF Close
<1>3. ev'[g].query = ev'[g].args /\ ev'[g].err = Told(drv'[g])
  BY <1>2 DEF NewEvent, Told
<1>4. Progress(g)'
  BY <1>1, LenProperties DEF OneCall, Progress
<1>5. EventInv(g)'
  BY <1>1, <1>3 DEF EventInv
<1> QED
  BY <1>1, <1>2, <1>4, <1>5 DEF OneCall, OthersKept

\* A call ends.
LEMMA ForgetCall ==
  ASSUME IInv, NEW g \in Goroutine, Forget(g), OneCall(g)
  PROVE  OneCall(g)' /\ OthersKept(g)
<1> USE DEF Forget, IInv, TypeInv, TypeOK
<1>1. ctx'[g] \in Seq(Hook) /\ want'[g] \in Seq(Hook)
  BY EmptySeq
<1>2. Progress(g)' /\ EventInv(g)'
  BY DEF Progress, EventInv
<1> QED
  BY <1>1, <1>2 DEF OneCall, OthersKept

\* A step of a goroutine: its own call stays right, and the others' are left alone.
LEMMA StepCall ==
  ASSUME IInv, NilFree, NEW g \in Goroutine, OneCall(g),
         \/ Step(g) \/ Panic(g)
         \/ \E h \in Handle, o \in Op :
              ArgError(g, h, o) \/ \E hs \in CallHooks : Start(g, h, o, hs) \/ StartClose(g, h, o, hs)
  PROVE  OneCall(g)' /\ OthersKept(g)
<1>1. CASE BeforeQuery(g) \/ Driver(g) \/ Turn(g) \/ AfterQuery(g)
  BY <1>1, BeforeQueryCall, DriverCall, TurnCall, AfterQueryCall
<1>2. CASE Return(g) \/ Panic(g)
  BY <1>2, ForgetCall DEF Return, Panic
<1>3. CASE Close(g)
  BY <1>3, CloseCall
<1>4. CASE \E h \in Handle, o \in Op, hs \in CallHooks : Start(g, h, o, hs) \/ StartClose(g, h, o, hs)
  BY <1>4, StartCall, StartCloseCall
<1>5. CASE \E h \in Handle, o \in Op : ArgError(g, h, o)
  BY <1>5 DEF ArgError, handleVars, callVars, OneCall, Progress, EventInv, OthersKept
<1> QED
  BY <1>1, <1>2, <1>3, <1>4, <1>5 DEF Step

\* What the handles hold after a step of a goroutine, begin's new Tx included.
LEMMA HandlesAfterStep ==
  ASSUME IInv, NEW g \in Goroutine,
         \/ Step(g) \/ Panic(g)
         \/ \E h \in Handle, o \in Op :
              ArgError(g, h, o) \/ \E hs \in CallHooks : Start(g, h, o, hs) \/ StartClose(g, h, o, hs)
  PROVE  /\ \A h \in Handle : Held(heap', hooks[h]) = Value(hooks[h])
         /\ \A h \in Handle : \E p \in Handle : Value(hooks[h])' = Value(hooks[p])
<1>1. WritesOwn(g) /\ \A h \in Handle : \E p \in Handle : hooks'[h] = hooks[p]
  BY StepInv
<1>2. \A h \in Handle : Held(heap', hooks[h]) = Value(hooks[h])
  BY <1>1, OwnArrayOnly DEF IInv, Value
<1>3. ASSUME NEW h \in Handle PROVE \E p \in Handle : Value(hooks[h])' = Value(hooks[p])
  <2>1. PICK p \in Handle : hooks'[h] = hooks[p]
    BY <1>1
  <2>2. Value(hooks[h])' = Held(heap', hooks[p])
    BY <2>1 DEF Value
  <2> QED
    BY <1>2, <2>2
<1> QED
  BY <1>2, <1>3

\* The invariant holds at first.
LEMMA OnionInvInit == Init => OnionInv
<1> SUFFICES ASSUME Init PROVE OnionInv
  OBVIOUS
<1>1. IInv
  BY InvInit
<1> PICK hs \in InitHooks :
       LET n == Len(filterHooks(hs)) IN
         /\ heap = [a \in ArrayId |-> ArrayOf(IF a = n THEN filterHooks(hs) ELSE <<>>)]
         /\ hooks = [h \in Handle |-> IF h = DB THEN [arr |-> n, len |-> n, cap |-> n] ELSE Empty]
  BY DEF Init
<1> DEFINE list == filterHooks(hs)
           n == Len(list)
<1>2. list \in Seq(Hook) /\ n \in Nat /\ n \in 0..MaxHooks /\ n \in ArrayId /\ n <= ArrayLen
  BY FilteredInit, BoundAssumption DEF ArrayId
<1>3. ASSUME NEW h \in Handle PROVE Value(hooks[h]) \in Seq(Hook)
  <2>0. hooks[h] \in Slice /\ heap \in [ArrayId -> Array]
    BY <1>1 DEF IInv, TypeInv, TypeOK
  <2>1. /\ Value(hooks[h]) \in Seq(AnyHook)
        /\ Len(Value(hooks[h])) = hooks[h].len
        /\ \A i \in 1..hooks[h].len : Value(hooks[h])[i] = heap[hooks[h].arr][i]
    BY <2>0, HeldIsSequence DEF Value
  <2>2. CASE h = DB
    <3>1. hooks[h].arr = n /\ hooks[h].len = n
      BY <2>2
    <3>2. heap[n] = ArrayOf(list)
      BY <1>2
    <3>3. \A i \in 1..n : heap[n][i] = list[i]
      BY <1>2, <3>2, BoundAssumption DEF ArrayOf
    <3>4. \A i \in 1..n : Value(hooks[h])[i] = list[i]
      BY <2>1, <3>1, <3>3, SMTT(30)
    <3>5. Value(hooks[h]) = list
      BY <1>2, <2>1, <3>1, <3>4, SeqEqual
    <3> QED
      BY <1>2, <3>5
  <2>3. CASE h # DB
    <3>1. Len(Value(hooks[h])) = 0
      BY <2>1, <2>3 DEF Empty
    <3> QED
      BY <2>1, <3>1, EmptySeq
  <2> QED
    BY <2>2, <2>3
<1>4. \A g \in Goroutine : OneCall(g)
  BY EmptySeq DEF Init, OneCall, Progress, EventInv
<1> QED
  BY <1>1, <1>3, <1>4 DEF OnionInv, NilFree, OneCall

\* Every step preserves it.
LEMMA OnionInvStep == OnionInv /\ [Next]_vars => OnionInv'
<1> SUFFICES ASSUME OnionInv, [Next]_vars PROVE OnionInv'
  OBVIOUS
<1> USE DEF OnionInv
<1>1. IInv'
  BY InvStep
<1>2. \A g \in Goroutine : OneCall(g)
  BY DEF NilFree, OneCall
<1>3. (\A h \in Handle : Value(hooks[h])' \in Seq(Hook)) /\ \A g \in Goroutine : OneCall(g)'
  <2>1. ASSUME NEW h \in AddedHooks, AddHook(h) PROVE <1>3!:
    <3>1. \A f \in Handle : Value(hooks[f])' \in Seq(Hook)
      BY <2>1, AddHookValue, AppendProperties DEF NilFree, Handle
    <3>2. \A g \in Goroutine : OneCall(g)'
      BY <1>2, <2>1 DEF AddHook, callVars, OneCall, Progress, EventInv
    <3> QED
      BY <3>1, <3>2
  <2>2. ASSUME NEW s \in Slot, NEW p \in Handle, NEW k \in {"conn", "stmt"}, Derive(s, p, k)
        PROVE  <1>3!:
    <3>1. \A f \in Handle : \E q \in Handle : Value(hooks[f])' = Value(hooks[q])
      BY <2>2, DeriveInv DEF Value
    <3>2. ASSUME NEW g \in Goroutine PROVE OneCall(g)'
      <4>1. on[g] \in Handle /\ (pc[g] # "idle" => kind'[on[g]] = kind[on[g]])
        BY <2>2, DeriveInv DEF IInv, TypeInv, TypeOK, CallInv, HandlesKept
      <4> QED
        BY <1>2, <2>2, <4>1 DEF Derive, callVars, OneCall, Progress, EventInv
    <3> QED
      BY <3>1, <3>2 DEF NilFree
  <2>3. ASSUME NEW g \in Goroutine,
               \/ Step(g) \/ Panic(g)
               \/ \E h \in Handle, o \in Op :
                    ArgError(g, h, o) \/ \E hs \in CallHooks : Start(g, h, o, hs) \/ StartClose(g, h, o, hs)
        PROVE  <1>3!:
    <3>1. \A f \in Handle : \E q \in Handle : Value(hooks[f])' = Value(hooks[q])
      BY <2>3, HandlesAfterStep
    <3>2. OneCall(g)' /\ OthersKept(g) /\ HandlesKept
      BY <1>2, <2>3, StepCall, StepInv
    <3>3. \A f \in Goroutine : OneCall(f)'
      BY <1>2, <3>2, OtherCall
    <3> QED
      BY <3>1, <3>3 DEF NilFree
  <2>4. CASE UNCHANGED vars
    BY <1>2, <2>4 DEF vars, NilFree, Value, OneCall, Progress, EventInv
  <2> QED
    BY <2>1, <2>2, <2>3, <2>4 DEF Next
<1> QED
  BY <1>1, <1>3 DEF NilFree, OneCall

\* It always holds.
LEMMA OnionInvariance == Spec => []OnionInv
<1> QED
  BY OnionInvInit, OnionInvStep, PTL DEF Spec

-----------------------------------------------------------------------------
(* What the hooks and the driver see                                       *)

\* executeHooks and afterFunc (hook.go:176, hook.go:196) call the hooks of a chain without
\* looking: there is never a nil hook among them.
THEOREM NoHookIsNil == Spec => []NoNilHook
<1>1. OnionInv => NoNilHook
  <2> SUFFICES ASSUME OnionInv, NEW g \in Goroutine, pc[g] \in {"before", "after"},
                      NEW i \in 1..chain[g].len
               PROVE  heap[chain[g].arr][i] # NilHook
    BY DEF NoNilHook
  <2>1. i \in 1..Len(want[g]) /\ heap[chain[g].arr][i] = want[g][i] /\ want[g] \in Seq(Hook)
    BY ChainIsWant DEF OnionInv, NilFree
  <2> QED
    BY <2>1, ElementOfSeq, HookAssumption
<1> QED
  BY <1>1, OnionInvariance, PTL

\* AfterQuery hooks are told the outcome of the driver call, unless a hook further in has
\* overwritten it: for a commit and a rollback as well, whose outcome came first.
THEOREM OutcomeIsSeen == Spec => []AfterSeesOutcome
<1>1. OnionInv => AfterSeesOutcome
  <2> SUFFICES ASSUME OnionInv, NEW g \in Goroutine, pc[g] = "after"
               PROVE  \/ ev[g].err = (IF drv[g] = "err" THEN "err" ELSE "nil")
                      \/ /\ ev[g].err = "forged"
                         /\ \E i \in (idx[g] + 1)..chain[g].len : heap[chain[g].arr][i] \in Forgers
    BY DEF AfterSeesOutcome
  <2>1. /\ chain[g].len = Len(want[g]) /\ Len(want[g]) \in Nat /\ idx[g] \in 0..Len(want[g])
        /\ \A i \in 1..Len(want[g]) : heap[chain[g].arr][i] = want[g][i]
    BY ChainIsWant DEF OnionInv, Progress
  <2> QED
    BY <2>1 DEF OnionInv, EventInv, Told
<1> QED
  BY <1>1, OnionInvariance, PTL

\* A hook that rewrites the SQL and its arguments has both sent or neither: nothing on the
\* way to the driver keeps the text of the caller with the arguments of a hook.
THEOREM PairsAreSent == Spec => []RewritesTravelTogether
<1>1. OnionInv => RewritesTravelTogether
  BY DEF OnionInv, EventInv, RewritesTravelTogether
<1> QED
  BY <1>1, OnionInvariance, PTL

-----------------------------------------------------------------------------
(* The refinement                                                          *)

\* The hooks entered, read from want instead of from the chain in the heap.
EnteredOf(p, i, full) == IF p = "before" THEN SubSeq(full, 1, i - 1)
                         ELSE IF p = "after" THEN SubSeq(full, 1, i)
                         ELSE <<>>

\* The answer of HookOnion.
AnswerOf(g) == IF drv[g] = "no" THEN "no" ELSE Answer(g)

\* The hooks that the mapping counts as entered are those of the promised chain, as far
\* as the index has come.
LEMMA EnteredIsWant ==
  ASSUME IInv, NEW g \in Goroutine
  PROVE  Entered(g) = EnteredOf(pc[g], idx[g], want[g])
BY DEF Entered, EnteredOf, IInv, CallInv

\* The values of the abstract variables.
chains == [h \in Handle |-> Value(hooks[h])]
alive == {h \in Handle : kind[h] # "none"}
phases == [g \in Goroutine |-> Phase(g)]
stacks == [g \in Goroutine |-> Entered(g)]
answers == [g \in Goroutine |-> AnswerOf(g)]

\* The goroutines other than g: nothing of what HookOnion sees of them changes.
LEMMA OthersSeen ==
  ASSUME IInv, IInv', NEW g \in Goroutine, OthersKept(g)
  PROVE  /\ phases' = [phases EXCEPT ![g] = Phase(g)']
         /\ stacks' = [stacks EXCEPT ![g] = EnteredOf(pc[g], idx[g], want[g])']
         /\ answers' = [answers EXCEPT ![g] = AnswerOf(g)']
<1>1. \A f \in Goroutine : Entered(f) = EnteredOf(pc[f], idx[f], want[f])
  BY EnteredIsWant
<1>2. \A f \in Goroutine : Entered(f)' = EnteredOf(pc'[f], idx'[f], want'[f])
  <2>1. ASSUME NEW f \in Goroutine, pc'[f] \in {"before", "after"}
        PROVE  Value(chain[f])' = want'[f]
    BY <2>1 DEF IInv, CallInv
  <2> QED
    BY <2>1 DEF Entered, EnteredOf
<1>3. \A f \in Goroutine : f # g => Entered(f)' = Entered(f)
  BY <1>1, <1>2 DEF OthersKept
<1>4. \A f \in Goroutine : f # g => Phase(f)' = Phase(f)
  BY DEF OthersKept, Phase
<1>5. \A f \in Goroutine : f # g => AnswerOf(f)' = AnswerOf(f)
  BY DEF OthersKept, AnswerOf, Answer
<1>6. stacks' = [stacks EXCEPT ![g] = EnteredOf(pc[g], idx[g], want[g])']
  BY <1>2, <1>3 DEF stacks
<1>7. phases' = [phases EXCEPT ![g] = Phase(g)']
  BY <1>4 DEF phases
<1>8. answers' = [answers EXCEPT ![g] = AnswerOf(g)']
  BY <1>5 DEF answers
<1> QED
  BY <1>6, <1>7, <1>8

\* A step of goroutine g that HookOnion sees on its phase, stack and answer alone.
LEMMA SeenAlone ==
  ASSUME IInv, IInv', NEW g \in Goroutine, OthersKept(g), HandlesKept, WritesOwn(g),
         hooks' = hooks, kind' = kind
  PROVE  chains' = chains /\ alive' = alive
<1>1. \A h \in Handle : Value(hooks[h])' = Value(hooks[h])
  BY OwnArrayOnly DEF IInv, Value
<1> QED
  BY <1>1 DEF chains, alive

\* BeforeQuery enters one hook more.
LEMMA BeforeQueryEnters ==
  ASSUME OnionInv, IInv', NEW g \in Goroutine, BeforeQuery(g)
  PROVE  Onion!Enter(g)
<1>1. OneCall(g) /\ IInv
  BY DEF OnionInv, OneCall, NilFree
<1>2. OthersKept(g) /\ HandlesKept /\ WritesOwn(g)
  BY <1>1, BeforeQueryCall, QuietStep
<1>3. /\ pc[g] = "before" /\ idx[g] <= Len(want[g]) /\ Len(want[g]) \in Nat /\ idx[g] \in 1..Len(want[g])
      /\ want[g] \in Seq(Hook)
  BY <1>1, ChainIsWant DEF BeforeQuery, OneCall, Progress
<1>4. /\ idx'[g] = idx[g] + 1 /\ UNCHANGED <<heap, kind, hooks, pc, op, want, drv, out>>
  BY <1>1 DEF BeforeQuery, handleVars, callVars, IInv, TypeInv, TypeOK
<1>5. chains' = chains /\ alive' = alive
  BY <1>1, <1>2, <1>4, SeenAlone
<1>6. /\ phases' = [phases EXCEPT ![g] = Phase(g)']
      /\ stacks' = [stacks EXCEPT ![g] = EnteredOf(pc[g], idx[g], want[g])']
      /\ answers' = [answers EXCEPT ![g] = AnswerOf(g)']
  BY <1>1, <1>2, OthersSeen
<1>7. /\ stacks[g] = SubSeq(want[g], 1, idx[g] - 1)
      /\ EnteredOf(pc[g], idx[g], want[g])' = SubSeq(want[g], 1, idx[g])
  BY <1>1, <1>3, <1>4, EnteredIsWant DEF stacks, EnteredOf
<1>8. /\ Len(SubSeq(want[g], 1, idx[g] - 1)) = idx[g] - 1
      /\ SubSeq(want[g], 1, idx[g]) = Append(SubSeq(want[g], 1, idx[g] - 1), want[g][idx[g]])
  BY <1>3
<1>9. /\ Len(stacks[g]) < Len(want[g])
      /\ stacks' = [stacks EXCEPT ![g] = Append(stacks[g], want[g][Len(stacks[g]) + 1])]
  <2>1. Len(stacks[g]) = idx[g] - 1 /\ Len(stacks[g]) + 1 = idx[g] /\ Len(stacks[g]) < Len(want[g])
    BY <1>3, <1>7, <1>8
  <2>2. EnteredOf(pc[g], idx[g], want[g])' = Append(stacks[g], want[g][Len(stacks[g]) + 1])
    BY <1>7, <1>8, <2>1
  <2> QED
    BY <1>6, <2>1, <2>2
<1>10. phases' = phases /\ answers' = answers
  <2>1. Phase(g)' = Phase(g) /\ AnswerOf(g)' = AnswerOf(g)
    BY <1>4 DEF Phase, AnswerOf, Answer
  <2> QED
    BY <1>6, <2>1 DEF phases, answers
<1>11. phases[g] = "wrap" \/ (phases[g] = "report" /\ answers[g] # "no")
  BY <1>1, <1>3 DEF phases, answers, Phase, AnswerOf, Answer, IInv, TypeInv, Answered
<1> QED
  BY <1>4, <1>5, <1>9, <1>10, <1>11 DEF Onion!Enter, phases, stacks, answers, chains, alive, AnswerOf

\* AfterQuery leaves the innermost hook.
LEMMA AfterQueryLeaves ==
  ASSUME OnionInv, IInv', NEW g \in Goroutine, AfterQuery(g)
  PROVE  Onion!Leave(g)
<1>1. OneCall(g) /\ IInv
  BY DEF OnionInv, OneCall, NilFree
<1>2. OthersKept(g) /\ HandlesKept /\ WritesOwn(g)
  BY <1>1, AfterQueryCall, QuietStep
<1>3. /\ pc[g] = "after" /\ Len(want[g]) \in Nat /\ idx[g] \in 1..Len(want[g]) /\ want[g] \in Seq(Hook)
  BY <1>1, ChainIsWant DEF AfterQuery, OneCall, Progress
<1>4. /\ idx'[g] = idx[g] - 1 /\ UNCHANGED <<heap, kind, hooks, pc, op, want, drv, out>>
  BY <1>1 DEF AfterQuery, handleVars, callVars, IInv, TypeInv, TypeOK
<1>5. chains' = chains /\ alive' = alive
  BY <1>1, <1>2, <1>4, SeenAlone
<1>6. /\ phases' = [phases EXCEPT ![g] = Phase(g)']
      /\ stacks' = [stacks EXCEPT ![g] = EnteredOf(pc[g], idx[g], want[g])']
      /\ answers' = [answers EXCEPT ![g] = AnswerOf(g)']
  BY <1>1, <1>2, OthersSeen
<1>7. /\ stacks[g] = SubSeq(want[g], 1, idx[g])
      /\ EnteredOf(pc[g], idx[g], want[g])' = SubSeq(want[g], 1, idx[g] - 1)
  BY <1>1, <1>3, <1>4, EnteredIsWant DEF stacks, EnteredOf
<1>8. /\ Len(SubSeq(want[g], 1, idx[g])) = idx[g]
      /\ SubSeq(SubSeq(want[g], 1, idx[g]), 1, idx[g] - 1) = SubSeq(want[g], 1, idx[g] - 1)
  BY <1>3
<1>9. /\ stacks[g] # <<>>
      /\ stacks' = [stacks EXCEPT ![g] = SubSeq(stacks[g], 1, Len(stacks[g]) - 1)]
  <2>1. Len(stacks[g]) = idx[g] /\ SubSeq(stacks[g], 1, Len(stacks[g]) - 1) = SubSeq(want[g], 1, idx[g] - 1)
    BY <1>7, <1>8
  <2>2. EnteredOf(pc[g], idx[g], want[g])' = SubSeq(stacks[g], 1, Len(stacks[g]) - 1)
    BY <1>7, <2>1
  <2>3. stacks[g] # <<>>
    BY <1>3, <2>1
  <2> QED
    BY <1>6, <2>2, <2>3
<1>10. phases' = phases /\ answers' = answers
  <2>1. Phase(g)' = Phase(g) /\ AnswerOf(g)' = AnswerOf(g)
    BY <1>4 DEF Phase, AnswerOf, Answer
  <2> QED
    BY <1>6, <2>1 DEF phases, answers
<1>11. phases[g] = "leaving"
  BY <1>3 DEF phases, Phase
<1> QED
  BY <1>4, <1>5, <1>9, <1>10, <1>11 DEF Onion!Leave, phases, stacks, answers, chains, alive, AnswerOf

\* The loop of BeforeQuery calls is over: every hook of the chain has been entered, and
\* AfterQuery starts from the last.
LEMMA AllEntered ==
  ASSUME OnionInv, IInv', NEW g \in Goroutine, OthersKept(g), UNCHANGED want,
         pc[g] = "before", idx[g] > chain[g].len, pc'[g] = "after", idx'[g] = chain[g].len
  PROVE  stacks[g] = want[g] /\ stacks' = stacks
<1>1. IInv
  BY DEF OnionInv
<1>2. want[g] \in Seq(Hook) /\ Len(want[g]) \in Nat /\ idx[g] = Len(want[g]) + 1 /\ idx'[g] = Len(want[g])
  BY <1>1, ChainIsWant DEF OnionInv, NilFree, Progress
<1>3. SubSeq(want[g], 1, Len(want[g])) = want[g]
  BY <1>2
<1>4. stacks[g] = want[g] /\ EnteredOf(pc[g], idx[g], want[g])' = want[g]
  <2>1. stacks[g] = SubSeq(want[g], 1, idx[g] - 1)
    BY <1>1, EnteredIsWant DEF stacks, EnteredOf
  <2>2. EnteredOf(pc[g], idx[g], want[g])' = SubSeq(want[g], 1, idx'[g])
    BY DEF EnteredOf
  <2>3. idx[g] - 1 = Len(want[g])
    BY <1>2
  <2> QED
    BY <1>2, <1>3, <2>1, <2>2, <2>3
<1>5. stacks' = [stacks EXCEPT ![g] = want[g]]
  BY <1>1, <1>4, OthersSeen
<1> QED
  BY <1>4, <1>5 DEF stacks

\* The driver call is dispatched from inside every layer.
LEMMA DriverDispatches ==
  ASSUME OnionInv, IInv', NEW g \in Goroutine, Driver(g)
  PROVE  Onion!Dispatch(g)
<1>1. OneCall(g) /\ IInv
  BY DEF OnionInv, OneCall, NilFree
<1>2. OthersKept(g) /\ HandlesKept /\ WritesOwn(g)
  BY <1>1, DriverCall, QuietStep
<1>3. /\ pc[g] = "before" /\ op[g] \notin TxOp /\ idx[g] > chain[g].len
      /\ pc'[g] = "after" /\ idx'[g] = chain[g].len /\ drv'[g] \in Outcome
      /\ UNCHANGED <<heap, kind, hooks, op, want, out>>
  BY <1>1 DEF Driver, handleVars, callVars, IInv, TypeInv, TypeOK
<1>4. chains' = chains /\ alive' = alive
  BY <1>1, <1>2, <1>3, SeenAlone
<1>5. stacks[g] = want[g] /\ stacks' = stacks
  BY <1>2, <1>3, AllEntered
<1>6. phases[g] = "wrap" /\ phases' = [phases EXCEPT ![g] = "leaving"]
  <2>1. Phase(g) = "wrap" /\ Phase(g)' = "leaving"
    BY <1>3 DEF Phase
  <2> QED
    BY <1>1, <1>2, <2>1, OthersSeen DEF phases
<1>7. \E r \in {"ok", "err"} : answers' = [answers EXCEPT ![g] = r]
  <2>1. AnswerOf(g)' \in {"ok", "err"}
    BY <1>3 DEF AnswerOf, Answer, Outcome
  <2> QED
    BY <1>1, <1>2, <2>1, OthersSeen
<1> QED
  BY <1>3, <1>4, <1>5, <1>6, <1>7 DEF Onion!Dispatch, phases, stacks, answers, chains, alive, AnswerOf

\* fireTxHook turns round with the answer it already had.
LEMMA TurnTurns ==
  ASSUME OnionInv, IInv', NEW g \in Goroutine, Turn(g)
  PROVE  Onion!Turn(g)
<1>1. OneCall(g) /\ IInv
  BY DEF OnionInv, OneCall, NilFree
<1>2. OthersKept(g) /\ HandlesKept /\ WritesOwn(g)
  BY <1>1, TurnCall, QuietStep
<1>3. /\ pc[g] = "before" /\ op[g] \in TxOp /\ idx[g] > chain[g].len
      /\ pc'[g] = "after" /\ idx'[g] = chain[g].len
      /\ UNCHANGED <<heap, kind, hooks, op, want, drv, out>>
  BY <1>1 DEF Turn, handleVars, callVars, IInv, TypeInv, TypeOK
<1>4. chains' = chains /\ alive' = alive
  BY <1>1, <1>2, <1>3, SeenAlone
<1>5. stacks[g] = want[g] /\ stacks' = stacks
  BY <1>2, <1>3, AllEntered
<1>6. phases[g] = "report" /\ phases' = [phases EXCEPT ![g] = "leaving"]
  <2>1. Phase(g) = "report" /\ Phase(g)' = "leaving"
    BY <1>3 DEF Phase
  <2> QED
    BY <1>1, <1>2, <2>1, OthersSeen DEF phases
<1>7. answers[g] # "no" /\ answers' = answers
  <2>1. AnswerOf(g)' = AnswerOf(g) /\ AnswerOf(g) # "no"
    BY <1>1, <1>3 DEF AnswerOf, Answer, IInv, TypeInv, Answered
  <2> QED
    BY <1>1, <1>2, <2>1, OthersSeen DEF answers
<1> QED
  BY <1>3, <1>4, <1>5, <1>6, <1>7 DEF Onion!Turn, phases, stacks, answers, chains, alive, AnswerOf

\* The commit or the rollback settles the answer before any hook is entered.
LEMMA CloseSettles ==
  ASSUME OnionInv, IInv', NEW g \in Goroutine, Close(g)
  PROVE  Onion!Settle(g)
<1>1. OneCall(g) /\ IInv
  BY DEF OnionInv, OneCall, NilFree
<1>2. OthersKept(g) /\ HandlesKept /\ WritesOwn(g)
  BY <1>1, CloseCall, StepInv DEF Step
<1>3. /\ pc[g] = "closing" /\ op[g] \in TxOp /\ drv[g] = "no"
      /\ pc'[g] = "before" /\ idx'[g] = 1 /\ drv'[g] \in Outcome
      /\ UNCHANGED <<kind, hooks, op, want, out>>
  BY <1>1 DEF Close, callVars, IInv, TypeInv, TypeOK, OneCall, Progress
<1>4. chains' = chains /\ alive' = alive
  BY <1>1, <1>2, <1>3, SeenAlone
<1>5. stacks' = stacks
  <2>1. stacks[g] = <<>> /\ EnteredOf(pc[g], idx[g], want[g])' = <<>>
    BY <1>1, <1>3, EnteredIsWant DEF stacks, EnteredOf, OneCall
  <2>2. stacks' = [stacks EXCEPT ![g] = <<>>]
    BY <1>1, <1>2, <2>1, OthersSeen
  <2> QED
    BY <2>1, <2>2 DEF stacks
<1>6. phases[g] = "report" /\ phases' = phases
  <2>1. Phase(g) = "report" /\ Phase(g)' = "report"
    BY <1>3 DEF Phase
  <2> QED
    BY <1>1, <1>2, <2>1, OthersSeen DEF phases
<1>7. answers[g] = "no" /\ \E r \in {"ok", "err"} : answers' = [answers EXCEPT ![g] = r]
  <2>1. AnswerOf(g) = "no" /\ AnswerOf(g)' \in {"ok", "err"}
    BY <1>3 DEF AnswerOf, Answer, Outcome
  <2> QED
    BY <1>1, <1>2, <2>1, OthersSeen DEF answers
<1> QED
  BY <1>3, <1>4, <1>5, <1>6, <1>7 DEF Onion!Settle, phases, stacks, answers, chains, alive, AnswerOf

\* A call starts with the chain of its handle and of its ctx.
LEMMA StartCalls ==
  ASSUME OnionInv, IInv', NEW g \in Goroutine, NEW h \in Handle, NEW o \in Op, NEW hs \in CallHooks,
         Start(g, h, o, hs) \/ StartClose(g, h, o, hs)
  PROVE  Onion!Call(g)
<1>1. OneCall(g) /\ IInv /\ NilFree
  BY DEF OnionInv, OneCall, NilFree
<1>2. OthersKept(g)
  BY <1>1, StartCall, StartCloseCall
<1>3. HandlesKept /\ WritesOwn(g)
  BY <1>1, StepInv
<1> DEFINE call == WithCallHooks(hs)
<1>4. /\ pc[g] = "idle" /\ kind[h] # "none"
      /\ pc'[g] = "closing" \/ (pc'[g] = "before" /\ idx'[g] = 1)
      /\ want' = [want EXCEPT ![g] = Value(hooks[h]) \o call]
      /\ out' = [out EXCEPT ![g] = "none"]
      /\ UNCHANGED <<kind, hooks, drv>>
  BY <1>1 DEF Start, StartClose, Ops, handleVars, IInv, TypeInv, TypeOK
<1>5. chains' = chains /\ alive' = alive
  BY <1>1, <1>2, <1>3, <1>4, SeenAlone
<1>6. \E f \in alive, c \in {WithCallHooks(l) : l \in CallHooks} : want' = [want EXCEPT ![g] = chains[f] \o c]
  <2>1. h \in alive /\ chains[h] = Value(hooks[h]) /\ call \in {WithCallHooks(l) : l \in CallHooks}
    BY <1>4 DEF alive, chains
  <2> HIDE DEF call
  <2> QED
    BY <1>4, <2>1
<1>7. phases[g] = "idle" /\ \E p \in {"wrap", "report"} : phases' = [phases EXCEPT ![g] = p]
  <2>1. Phase(g) = "idle" /\ Phase(g)' \in {"wrap", "report"}
    BY <1>4 DEF Phase
  <2> QED
    BY <1>1, <1>2, <2>1, OthersSeen DEF phases
<1>8. stacks' = stacks
  <2>1. stacks[g] = <<>>
    BY <1>4 DEF stacks, Entered
  <2>2. EnteredOf(pc[g], idx[g], want[g])' = SubSeq(want'[g], 1, 0) \/ EnteredOf(pc[g], idx[g], want[g])' = <<>>
    BY <1>4 DEF EnteredOf
  <2>3. want'[g] \in Seq(AnyHook)
    BY DEF IInv, TypeInv, TypeOK
  <2>4. EnteredOf(pc[g], idx[g], want[g])' = <<>>
    BY <2>2, <2>3
  <2> QED
    BY <1>1, <1>2, <2>1, <2>4, OthersSeen DEF stacks
<1>9. answers' = answers
  <2>1. AnswerOf(g)' = "no" /\ AnswerOf(g) = "no"
    BY <1>1, <1>4 DEF AnswerOf, OneCall, Progress
  <2> QED
    BY <1>1, <1>2, <2>1, OthersSeen DEF answers
<1> QED
  BY <1>4, <1>5, <1>6, <1>7, <1>8, <1>9 DEF Onion!Call, phases, stacks, answers, chains, alive, AnswerOf

\* Bad arguments are refused.
LEMMA ArgErrorRejects ==
  ASSUME OnionInv, NEW g \in Goroutine, NEW h \in Handle, NEW o \in Op, ArgError(g, h, o)
  PROVE  Onion!Reject(g)
<1>1. /\ pc[g] = "idle" /\ out' = [out EXCEPT ![g] = "argerr"]
      /\ UNCHANGED <<heap, kind, hooks, pc, op, chain, idx, drv, want>>
  BY DEF ArgError, handleVars, callVars
<1>2. chains' = chains /\ alive' = alive /\ phases' = phases /\ stacks' = stacks /\ answers' = answers
  BY <1>1 DEF chains, alive, phases, stacks, answers, Value, Phase, Entered, AnswerOf, Answer
<1>3. phases[g] = "idle"
  BY <1>1 DEF phases, Phase
<1> QED
  BY <1>1, <1>2, <1>3 DEF Onion!Reject, phases, stacks, answers, chains, alive, AnswerOf

\* A call that ends has no hook entered, no chain and no answer.
LEMMA Forgotten ==
  ASSUME OnionInv, IInv', NEW g \in Goroutine, Forget(g)
  PROVE  /\ phases' = [phases EXCEPT ![g] = "idle"]
         /\ stacks' = [stacks EXCEPT ![g] = <<>>]
         /\ answers' = [answers EXCEPT ![g] = "no"]
         /\ want' = [want EXCEPT ![g] = <<>>]
         /\ WritesOwn(g)
<1>1. IInv /\ OneCall(g)
  BY DEF OnionInv, NilFree, OneCall
<1>2. OthersKept(g)
  BY <1>1, ForgetCall
<1>3. pc'[g] = "idle" /\ drv'[g] = "no" /\ want' = [want EXCEPT ![g] = <<>>] /\ WritesOwn(g)
  BY <1>1 DEF Forget, IInv, TypeInv, TypeOK, WritesOwn
<1>4. Phase(g)' = "idle" /\ EnteredOf(pc[g], idx[g], want[g])' = <<>> /\ AnswerOf(g)' = "no"
  BY <1>3 DEF Phase, EnteredOf, AnswerOf
<1> QED
  BY <1>1, <1>2, <1>3, <1>4, OthersSeen

\* A new handle, seen from HookOnion.
LEMMA Spawned ==
  ASSUME IInv, NEW s \in Slot, NEW p \in Handle, NEW k \in {"conn", "tx", "stmt"},
         kind[s] = "none", kind[p] # "none",
         kind' = [kind EXCEPT ![s] = k], hooks' = [hooks EXCEPT ![s] = hooks[p]],
         \A h \in Handle : Held(heap', hooks[h]) = Value(hooks[h])
  PROVE  Onion!Spawn(s, p)
<1>1. s \in Handle /\ s \notin alive /\ p \in alive
  BY DEF Handle, alive
<1>2. alive' = alive \cup {s}
  BY <1>1 DEF alive, IInv, TypeInv, TypeOK
<1>3. ASSUME NEW h \in Handle PROVE Value(hooks[h])' = IF h = s THEN Value(hooks[p]) ELSE Value(hooks[h])
  <2>1. hooks'[h] = IF h = s THEN hooks[p] ELSE hooks[h]
    BY DEF IInv, TypeInv, TypeOK
  <2> QED
    BY <2>1 DEF Value
<1>4. chains' = [chains EXCEPT ![s] = chains[p]]
  BY <1>1, <1>3 DEF chains
<1> QED
  BY <1>1, <1>2, <1>4 DEF Onion!Spawn, chains, alive

\* The call returns the answer of the driver, and a begin that succeeded makes a Tx.
LEMMA ReturnReturns ==
  ASSUME OnionInv, IInv', NEW g \in Goroutine, Return(g)
  PROVE  Onion!Return(g)
<1>1. IInv /\ OneCall(g)
  BY DEF OnionInv, NilFree, OneCall
<1>2. /\ phases' = [phases EXCEPT ![g] = "idle"]
      /\ stacks' = [stacks EXCEPT ![g] = <<>>]
      /\ answers' = [answers EXCEPT ![g] = "no"]
      /\ want' = [want EXCEPT ![g] = <<>>]
      /\ WritesOwn(g)
  BY Forgotten DEF Return
<1>3. pc[g] = "after" /\ idx[g] = 0 /\ out' = [out EXCEPT ![g] = Answer(g)]
  BY DEF Return
<1>4. phases[g] = "leaving" /\ stacks[g] = <<>>
  <2>1. want[g] \in Seq(Hook)
    BY <1>1 DEF OneCall
  <2>2. SubSeq(want[g], 1, 0) = <<>>
    BY <2>1
  <2> QED
    BY <1>1, <1>3, <2>2, EnteredIsWant DEF phases, stacks, Phase, EnteredOf
<1>5. answers[g] = Answer(g) /\ (op[g] = "begin" /\ drv[g] = "ok" => answers[g] = "ok")
  BY <1>1, <1>3 DEF answers, AnswerOf, Answer, IInv, TypeInv, Answered
<1>6. \A h \in Handle : Held(heap', hooks[h]) = Value(hooks[h])
  BY <1>1, <1>2, OwnArrayOnly DEF IInv, Value
<1>7. \/ chains' = chains /\ alive' = alive
      \/ answers[g] = "ok" /\ \E s \in Slot, p \in alive : Onion!Spawn(s, p)
  <2>1. CASE UNCHANGED <<kind, hooks>>
    <3>1. \A h \in Handle : Value(hooks[h])' = Value(hooks[h])
      BY <1>6, <2>1 DEF Value
    <3> QED
      BY <2>1, <3>1 DEF chains, alive
  <2>2. ASSUME op[g] = "begin", drv[g] = "ok", NEW s \in Slot, kind[s] = "none",
               kind' = [kind EXCEPT ![s] = "tx"], hooks' = [hooks EXCEPT ![s] = hooks[on[g]]]
        PROVE  answers[g] = "ok" /\ \E p \in alive : Onion!Spawn(s, p)
    <3>1. PICK p \in Handle : p = on[g] /\ kind[p] # "none"
      BY <1>1, <1>3 DEF IInv, CallInv, TypeInv, TypeOK
    <3>2. Onion!Spawn(s, p)
      BY <1>1, <1>6, <2>2, <3>1, Spawned
    <3>3. p \in alive
      BY <3>1 DEF alive
    <3> QED
      BY <1>5, <2>2, <3>2, <3>3
  <2> QED
    BY <2>1, <2>2 DEF Return
<1>8. stacks' = stacks
  BY <1>2, <1>4 DEF stacks
<1> QED
  BY <1>2, <1>3, <1>4, <1>5, <1>7, <1>8 DEF Onion!Return, phases, stacks, answers, chains, alive, AnswerOf

\* A hook or the driver panics.
LEMMA PanicPanics ==
  ASSUME OnionInv, IInv', NEW g \in Goroutine, Panic(g)
  PROVE  Onion!Panic(g)
<1>1. IInv
  BY DEF OnionInv
<1>2. /\ phases' = [phases EXCEPT ![g] = "idle"]
      /\ stacks' = [stacks EXCEPT ![g] = <<>>]
      /\ answers' = [answers EXCEPT ![g] = "no"]
      /\ want' = [want EXCEPT ![g] = <<>>]
      /\ WritesOwn(g)
  BY Forgotten DEF Panic
<1>3. pc[g] # "idle" /\ out' = [out EXCEPT ![g] = "panic"] /\ kind' = kind /\ hooks' = hooks
  BY DEF Panic
<1>4. phases[g] # "idle"
  BY <1>1, <1>3 DEF phases, Phase, IInv, TypeInv, TypeOK, TxOp
<1>5. chains' = chains /\ alive' = alive
  <2>1. \A h \in Handle : Value(hooks[h])' = Value(hooks[h])
    BY <1>1, <1>2, <1>3, OwnArrayOnly DEF IInv, Value
  <2> QED
    BY <1>3, <2>1 DEF chains, alive
<1> QED
  BY <1>2, <1>3, <1>4, <1>5 DEF Onion!Panic, phases, stacks, answers, chains, alive, AnswerOf

\* A Conn or a Stmt is made.
LEMMA DeriveDerives ==
  ASSUME OnionInv, NEW s \in Slot, NEW p \in Handle, NEW k \in {"conn", "stmt"}, Derive(s, p, k)
  PROVE  Onion!Derive
<1>1. IInv
  BY DEF OnionInv
<1>2. /\ kind[s] = "none" /\ kind[p] # "none"
      /\ kind' = [kind EXCEPT ![s] = k] /\ hooks' = [hooks EXCEPT ![s] = hooks[p]]
      /\ UNCHANGED <<heap, pc, op, chain, idx, drv, want, out>>
  BY DEF Derive, Parents, callVars
<1>3. Onion!Spawn(s, p) /\ p \in alive
  BY <1>1, <1>2, Spawned DEF Value, alive
<1>4. phases' = phases /\ stacks' = stacks /\ answers' = answers
  BY <1>2 DEF phases, stacks, answers, Value, Phase, Entered, AnswerOf, Answer
<1> QED
  BY <1>2, <1>3, <1>4 DEF Onion!Derive, phases, stacks, answers, chains, alive, AnswerOf

\* AddHook registers with the DB alone.
LEMMA AddHookRegisters ==
  ASSUME OnionInv, NEW h \in AddedHooks, AddHook(h)
  PROVE  Onion!Register
<1>1. IInv
  BY DEF OnionInv
<1>2. /\ h \in Hook
      /\ Value(hooks[DB])' = Append(Value(hooks[DB]), h)
      /\ \A s \in Slot : s # DB /\ Value(hooks[s])' = Value(hooks[s])
  BY <1>1, AddHookValue
<1>3. /\ \A g \in Goroutine : pc[g] = "idle"
      /\ UNCHANGED <<kind, pc, op, chain, idx, drv, want, out>>
  BY DEF AddHook, AllIdle, callVars
<1>4. chains' = [chains EXCEPT ![DB] = Append(chains[DB], h)]
  BY <1>2 DEF chains, Handle
<1>5. \A g \in Goroutine : phases[g] = "idle"
  BY <1>3 DEF phases, Phase
<1>6. alive' = alive /\ phases' = phases /\ stacks' = stacks /\ answers' = answers
  BY <1>3 DEF alive, phases, stacks, answers, Phase, Entered, AnswerOf, Answer
<1> QED
  BY <1>2, <1>3, <1>4, <1>5, <1>6 DEF Onion!Register, phases, stacks, answers, chains, alive, AnswerOf

\* The initial states are those of the abstract specification.
LEMMA OnionInit == Init => Onion!Init
<1> SUFFICES ASSUME Init PROVE Onion!Init
  OBVIOUS
<1>1. NilFree
  BY OnionInvInit DEF OnionInv
<1>2. chains \in [Handle -> Seq(Hook)]
  BY <1>1 DEF NilFree, chains
<1>3. alive = {DB}
  BY DEF Init, alive, Handle
<1>4. /\ phases = [g \in Goroutine |-> "idle"] /\ stacks = [g \in Goroutine |-> <<>>]
      /\ answers = [g \in Goroutine |-> "no"]
  BY DEF Init, phases, stacks, answers, Phase, Entered, AnswerOf
<1> QED
  BY <1>2, <1>3, <1>4 DEF Init, Onion!Init, Onion!Handle, Handle, phases, stacks, answers, chains, alive, AnswerOf

\* Every step is one of the abstract specification, or changes nothing there.
LEMMA OnionStep == OnionInv /\ IInv' /\ [Next]_vars => [Onion!Next]_(Onion!vars)
<1> SUFFICES ASSUME OnionInv, IInv', [Next]_vars PROVE [Onion!Next]_(Onion!vars)
  OBVIOUS
<1>1. ASSUME NEW h \in AddedHooks, AddHook(h) PROVE Onion!Next
  BY <1>1, AddHookRegisters DEF Onion!Next
<1>2. ASSUME NEW s \in Slot, NEW p \in Handle, NEW k \in {"conn", "stmt"}, Derive(s, p, k) PROVE Onion!Next
  BY <1>2, DeriveDerives DEF Onion!Next
<1>3. ASSUME NEW g \in Goroutine, NEW h \in Handle, NEW o \in Op, ArgError(g, h, o) PROVE Onion!Next
  BY <1>3, ArgErrorRejects DEF Onion!Next
<1>4. ASSUME NEW g \in Goroutine, NEW h \in Handle, NEW o \in Op, NEW hs \in CallHooks,
             Start(g, h, o, hs) \/ StartClose(g, h, o, hs)
      PROVE  Onion!Next
  BY <1>4, StartCalls DEF Onion!Next
<1>5. ASSUME NEW g \in Goroutine, Step(g) \/ Panic(g) PROVE Onion!Next
  BY <1>5, BeforeQueryEnters, DriverDispatches, TurnTurns, AfterQueryLeaves, ReturnReturns,
     CloseSettles, PanicPanics DEF Step, Onion!Next
<1>6. CASE UNCHANGED vars
  <2>1. UNCHANGED <<heap, kind, hooks, pc, op, chain, idx, drv, want, out>>
    BY <1>6 DEF vars
  <2>2. chains' = chains /\ alive' = alive /\ phases' = phases /\ stacks' = stacks /\ answers' = answers
    BY <2>1 DEF chains, alive, phases, stacks, answers, Value, Phase, Entered, AnswerOf, Answer
  <2> QED
    BY <2>1, <2>2 DEF Onion!vars, phases, stacks, answers, chains, alive, AnswerOf
<1> QED
  BY <1>1, <1>2, <1>3, <1>4, <1>5, <1>6 DEF Next

\* The slices, the indices and the events of hook.go implement the onion: a chain fixed at
\* the start of a call, entered hook by hook, left in the reverse order, around the driver
\* call or, for a commit or a rollback, after it.
THEOREM Refinement == Spec => ImplementsOnion
<1>1. Init => Onion!Init
  BY OnionInit
<1>2. OnionInv /\ OnionInv' /\ [Next]_vars => [Onion!Next]_(Onion!vars)
  BY OnionStep DEF OnionInv
<1> QED
  BY <1>1, <1>2, OnionInvariance, PTL DEF Spec, ImplementsOnion, Onion!Spec
=============================================================================
