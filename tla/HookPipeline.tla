---------------------------- MODULE HookPipeline ----------------------------
(***************************************************************************)
(* The execution path every operation of a DB, a Conn, a Tx or a Stmt goes *)
(* through (hook.go, db.go, conn.go, tx.go, stmt.go): argument errors,     *)
(* the choice of the hook chain, BeforeQuery in order, the driver call,    *)
(* AfterQuery in reverse order, the answer to the caller.  Goroutines run  *)
(* operations concurrently; every hook call and every driver call is a     *)
(* step of its own.                                                        *)
(*                                                                         *)
(* Hook chains are Go slices: a pointer to a backing array, a length and a *)
(* capacity.  Two slices may share an array, and append writes in place    *)
(* when there is room, so what a chain holds is read from the heap.        *)
(***************************************************************************)
EXTENDS Naturals, Sequences

CONSTANTS
  Goroutine,   \* the goroutines that call into the library
  DB,          \* the database handle
  Slot,        \* bound: the handles a program derives (a Tx, a Conn, a Stmt)
  Hook,        \* the hooks a program registers
  NilHook,     \* the nil interface value, which a program may also pass
  InitHooks,   \* the lists of hooks passed to WithHooks at Open
  AddedHooks,  \* the hooks passed to AddHook
  CallHooks,   \* the lists of hooks passed to WithCallHooks
  Rewriters,   \* the hooks whose BeforeQuery may rewrite the event
  Forgers,     \* the hooks whose AfterQuery may overwrite event.Error
  MaxHooks,    \* bound: the hooks registered with the DB
  ArrayLen     \* the size of the arrays of the model's heap

AnyHook == Hook \cup {NilHook}
Handle == {DB} \cup Slot

\* Mutated form: nil hooks are kept.
filterHooks_KeepNil(hooks) == hooks

\* filterHooks drops the nil hooks of a list.
filterHooks(hooks) ==
  LET kept[i \in 0..Len(hooks)] ==
        IF i = 0 THEN <<>>
        ELSE IF hooks[i] = NilHook THEN kept[i - 1] ELSE Append(kept[i - 1], hooks[i])
  IN kept[Len(hooks)]

ASSUME GoroutineAssumption == Goroutine \cap Nat = {}
ASSUME DBAssumption == DB \notin Slot
ASSUME HookAssumption ==
  /\ NilHook \notin Hook
  /\ AddedHooks \subseteq AnyHook
  /\ Rewriters \subseteq Hook
  /\ Forgers \subseteq Hook
ASSUME BoundAssumption == MaxHooks \in Nat /\ ArrayLen \in Nat /\ MaxHooks <= ArrayLen
\* The lists a program passes: the chains they make fit the model's arrays.
ASSUME ListAssumption ==
  /\ \A hooks \in InitHooks : hooks \in Seq(AnyHook) /\ Len(hooks) <= MaxHooks
  /\ \A hooks \in CallHooks : hooks \in Seq(AnyHook) /\ MaxHooks + Len(hooks) <= ArrayLen

(***************************************************************************)
(* Backing arrays are named by their owner: a goroutine owns the array     *)
(* hookChain allocates for its operation; the array append allocates when  *)
(* the DB's list grows to n hooks is named n, and lengths only grow.       *)
(***************************************************************************)
ArrayId == (0..MaxHooks) \cup Goroutine
Array == [1..ArrayLen -> AnyHook]
Slice == [arr : ArrayId, len : 0..ArrayLen, cap : Nat]
Empty == [arr |-> 0, len |-> 0, cap |-> 0]

TxOp == {"commit", "rollback"}
Op == {"exec", "query", "begin"} \cup TxOp
Event == [query : {"sql"} \cup Hook, args : {"sql"} \cup Hook, err : {"nil", "err", "forged"}]
Outcome == {"ok", "err"}

VARIABLES
  heap,    \* the backing arrays
  kind,    \* what every handle is, "none" before it is derived
  hooks,   \* the slice of global hooks every handle holds
  pc,      \* where every goroutine is in the path
  on, op,  \* the handle and the operation of the call in progress
  ctx,     \* the call-scoped hooks of the ctx of the call
  chain,   \* the slice of hooks of the call
  idx,     \* the hook whose BeforeQuery or AfterQuery is next
  ev,      \* the QueryEvent of the call
  sent,    \* the query and the arguments the driver was given
  drv,     \* the outcome of the driver call, "no" before it
  out,     \* what the last call returned, "none" while one is in progress
  want     \* history: the hooks the call must run, as they were at its start

handleVars == <<heap, kind, hooks>>
callVars == <<on, op, ctx, want>>
vars == <<heap, kind, hooks, pc, on, op, ctx, chain, idx, ev, sent, drv, out, want>>

\* The hooks a slice holds, in a given heap and now.
Held(hp, s) == [i \in 1..s.len |-> hp[s.arr][i]]
Value(s) == Held(heap, s)

\* An array that holds a sequence and then nothing.
ArrayOf(seq) == [i \in 1..ArrayLen |-> IF i <= Len(seq) THEN seq[i] ELSE NilHook]

NewEvent(err) == [query |-> "sql", args |-> "sql", err |-> err]

AllIdle == \A g \in Goroutine : pc[g] = "idle"

-----------------------------------------------------------------------------
(* Registration                                                            *)

\* NewDB with WithHooks: append(nil, filterHooks(hooks)...).
Init ==
  /\ \E hs \in InitHooks : LET n == Len(filterHooks(hs)) IN
       /\ heap = [a \in ArrayId |-> ArrayOf(IF a = n THEN filterHooks(hs) ELSE <<>>)]
       /\ hooks = [h \in Handle |-> IF h = DB THEN [arr |-> n, len |-> n, cap |-> n] ELSE Empty]
  /\ kind = [h \in Handle |-> IF h = DB THEN "db" ELSE "none"]
  /\ pc = [g \in Goroutine |-> "idle"]
  /\ on = [g \in Goroutine |-> DB]
  /\ op = [g \in Goroutine |-> "exec"]
  /\ ctx = [g \in Goroutine |-> <<>>]
  /\ chain = [g \in Goroutine |-> Empty]
  /\ idx = [g \in Goroutine |-> 0]
  /\ ev = [g \in Goroutine |-> NewEvent("nil")]
  /\ sent = [g \in Goroutine |-> <<"none", "none">>]
  /\ drv = [g \in Goroutine |-> "no"]
  /\ out = [g \in Goroutine |-> "none"]
  /\ want = [g \in Goroutine |-> <<>>]

\* Mutated form: the new hook goes first, and the others move up in place.
AppendHook_InFront(s, h) ==
  IF s.len < s.cap
  THEN [slice |-> [s EXCEPT !.len = @ + 1],
        heap  |-> [heap EXCEPT ![s.arr] = [i \in 1..ArrayLen |->
                     IF i = 1 THEN h ELSE IF i <= s.len + 1 THEN @[i - 1] ELSE @[i]]]]
  ELSE LET n == s.len + 1 IN
       [slice |-> [arr |-> n, len |-> n, cap |-> IF s.cap = 0 THEN 1 ELSE 2 * s.cap],
        heap  |-> [heap EXCEPT ![n] = [i \in 1..ArrayLen |->
                     IF i = 1 THEN h ELSE IF i <= n THEN heap[s.arr][i - 1] ELSE NilHook]]]

\* append(s, h) of the DB's list: in place when the array has room, otherwise in
\* an array of twice the capacity.
AppendHook(s, h) ==
  IF s.len < s.cap
  THEN [slice |-> [s EXCEPT !.len = @ + 1],
        heap  |-> [heap EXCEPT ![s.arr][s.len + 1] = h]]
  ELSE LET n == s.len + 1 IN
       [slice |-> [arr |-> n, len |-> n, cap |-> IF s.cap = 0 THEN 1 ELSE 2 * s.cap],
        heap  |-> [heap EXCEPT ![n] = [i \in 1..ArrayLen |->
                     IF i <= s.len THEN heap[s.arr][i] ELSE IF i = n THEN h ELSE NilHook]]]

\* AddHook is a setup-time call: no operation is in progress, but Tx, Conn and
\* Stmt values may exist.  A nil hook is ignored.
AddHook(h) ==
  /\ AllIdle
  /\ h # NilHook
  /\ hooks[DB].len < MaxHooks
  /\ LET r == AppendHook(hooks[DB], h) IN
       /\ heap' = r.heap
       /\ hooks' = [hooks EXCEPT ![DB] = r.slice]
  /\ UNCHANGED <<kind, pc, callVars, chain, idx, ev, sent, drv, out>>

\* The parents a handle of each kind is made from outside the hook path: Connx
\* of a DB, Preparex of a DB, Conn or Tx, Stmtx of a Tx.
Parents(k) == IF k = "conn" THEN {"db"} ELSE {"db", "conn", "tx"}

\* hooksFor and wrapStmt copy the slice header, and no more, into the new handle.
Derive(s, p, k) ==
  /\ kind[s] = "none"
  /\ kind[p] \in Parents(k)
  /\ kind' = [kind EXCEPT ![s] = k]
  /\ hooks' = [hooks EXCEPT ![s] = hooks[p]]
  /\ UNCHANGED <<heap, pc, callVars, chain, idx, ev, sent, drv, out>>

-----------------------------------------------------------------------------
(* One operation                                                           *)

\* WithCallHooks(context.Background(), hooks...): the hooks the ctx then carries.
WithCallHooks(hs) == filterHooks(hs)

\* Mutated form: append(global, call...), which writes in the shared array when
\* it has room.
hookChain_InPlace(g, global, call) ==
  LET n == global.len + Len(call)
      a == IF n <= global.cap THEN global.arr ELSE g
  IN [slice |-> [arr |-> a, len |-> n, cap |-> n],
      heap  |-> [heap EXCEPT ![a] = [i \in 1..ArrayLen |->
                   IF i <= global.len THEN heap[global.arr][i]
                   ELSE IF i <= n THEN call[i - global.len] ELSE @[i]]]]

\* hookChain: the global slice itself when the ctx carries no hooks, a copy of
\* both lists in a fresh array when it does.  A handle without hooks is given the
\* ctx's own slice, which nothing writes: a private copy stands for it.
hookChain(g, global, call) ==
  IF Len(call) = 0
  THEN [slice |-> global, heap |-> heap]
  ELSE LET n == global.len + Len(call) IN
       [slice |-> [arr |-> g, len |-> n, cap |-> n],
        heap  |-> [heap EXCEPT ![g] = [i \in 1..ArrayLen |->
                     IF i <= global.len THEN heap[global.arr][i]
                     ELSE IF i <= n THEN call[i - global.len] ELSE NilHook]]]

\* The operations each kind of handle has.
Ops(k) == CASE k \in {"db", "conn"} -> {"exec", "query", "begin"}
            [] k = "tx"             -> {"exec", "query"} \cup TxOp
            [] k = "stmt"           -> {"exec", "query"}
            [] OTHER                -> {}

\* prepare and executeHooks up to the first hook: an event, and the chain of the
\* handle's hooks and the ctx's.
Start(g, h, o, hs) ==
  LET r == hookChain(g, hooks[h], WithCallHooks(hs)) IN
  /\ pc[g] = "idle"
  /\ o \in Ops(kind[h]) \ TxOp
  /\ chain' = [chain EXCEPT ![g] = r.slice]
  /\ heap' = r.heap
  /\ ev' = [ev EXCEPT ![g] = NewEvent("nil")]
  /\ idx' = [idx EXCEPT ![g] = 1]
  /\ pc' = [pc EXCEPT ![g] = "before"]
  /\ on' = [on EXCEPT ![g] = h]
  /\ op' = [op EXCEPT ![g] = o]
  /\ ctx' = [ctx EXCEPT ![g] = WithCallHooks(hs)]
  /\ want' = [want EXCEPT ![g] = Value(hooks[h]) \o WithCallHooks(hs)]
  /\ out' = [out EXCEPT ![g] = "none"]
  /\ UNCHANGED <<kind, hooks, sent, drv>>

\* autoIn fails: the operation returns before the hook chain starts.  A Stmt has
\* no such step, and a begin has no arguments.
ArgError(g, h, o) ==
  /\ pc[g] = "idle"
  /\ o \in Ops(kind[h]) \cap {"exec", "query"}
  /\ kind[h] # "stmt"
  /\ out' = [out EXCEPT ![g] = "argerr"]
  /\ UNCHANGED <<handleVars, pc, callVars, chain, idx, ev, sent, drv>>

\* CloseWithErrContext: a nil error asks for a commit, another for a rollback.
StartClose(g, h, o, hs) ==
  /\ pc[g] = "idle"
  /\ o \in Ops(kind[h]) \cap TxOp
  /\ pc' = [pc EXCEPT ![g] = "closing"]
  /\ on' = [on EXCEPT ![g] = h]
  /\ op' = [op EXCEPT ![g] = o]
  /\ ctx' = [ctx EXCEPT ![g] = WithCallHooks(hs)]
  /\ want' = [want EXCEPT ![g] = Value(hooks[h]) \o WithCallHooks(hs)]
  /\ out' = [out EXCEPT ![g] = "none"]
  /\ UNCHANGED <<handleVars, chain, idx, ev, sent, drv>>

\* Commit or Rollback, then fireTxHook: the event already carries the outcome.
Close(g) ==
  LET r == hookChain(g, hooks[on[g]], ctx[g]) IN
  /\ pc[g] = "closing"
  /\ \E res \in Outcome :
       /\ drv' = [drv EXCEPT ![g] = res]
       /\ ev' = [ev EXCEPT ![g] = NewEvent(IF res = "err" THEN "err" ELSE "nil")]
  /\ chain' = [chain EXCEPT ![g] = r.slice]
  /\ heap' = r.heap
  /\ idx' = [idx EXCEPT ![g] = 1]
  /\ pc' = [pc EXCEPT ![g] = "before"]
  /\ UNCHANGED <<kind, hooks, callVars, sent, out>>

\* Mutated form: a rewrite sends the event through the chain once more.
BeforeQuery_Restart(g) ==
  LET h == heap[chain[g].arr][idx[g]] IN
  /\ pc[g] = "before"
  /\ idx[g] <= chain[g].len
  /\ \/ UNCHANGED ev /\ idx' = [idx EXCEPT ![g] = @ + 1]
     \/ /\ h \in Rewriters
        /\ ev' = [ev EXCEPT ![g] = [query |-> h, args |-> h, err |-> @.err]]
        /\ idx' = [idx EXCEPT ![g] = 1]
  /\ UNCHANGED <<handleVars, pc, callVars, chain, sent, drv, out>>

\* One turn of the loop of executeHooks.  A hook may rewrite the query and its
\* arguments.
BeforeQuery(g) ==
  LET h == heap[chain[g].arr][idx[g]] IN
  /\ pc[g] = "before"
  /\ idx[g] <= chain[g].len
  /\ \/ UNCHANGED ev
     \/ h \in Rewriters /\ ev' = [ev EXCEPT ![g] = [query |-> h, args |-> h, err |-> @.err]]
  /\ idx' = [idx EXCEPT ![g] = @ + 1]
  /\ UNCHANGED <<handleVars, pc, callVars, chain, sent, drv, out>>

\* Mutated form: the method's own query is sent, not the event's.
Sent_LocalQuery(k, o, e) == IF o = "begin" THEN <<"none", "none">> ELSE <<"sql", e.args>>

\* What the driver is given: the event's query and arguments, but a prepared
\* statement was fixed when it was prepared, and a begin has neither.
Sent(k, o, e) ==
  IF o = "begin" THEN <<"none", "none">> ELSE <<IF k = "stmt" THEN "sql" ELSE e.query, e.args>>

\* Mutated form: event.Error is assigned too late for the AfterQuery hooks.
Driver_LateError(g) ==
  /\ pc[g] = "before"
  /\ idx[g] > chain[g].len
  /\ op[g] \notin TxOp
  /\ sent' = [sent EXCEPT ![g] = Sent(kind[on[g]], op[g], ev[g])]
  /\ \E res \in Outcome : drv' = [drv EXCEPT ![g] = res]
  /\ idx' = [idx EXCEPT ![g] = chain[g].len]
  /\ pc' = [pc EXCEPT ![g] = "after"]
  /\ UNCHANGED <<handleVars, callVars, chain, ev, out>>

\* The driver call, the assignment of event.Error, and the turn to afterFunc.
Driver(g) ==
  /\ pc[g] = "before"
  /\ idx[g] > chain[g].len
  /\ op[g] \notin TxOp
  /\ sent' = [sent EXCEPT ![g] = Sent(kind[on[g]], op[g], ev[g])]
  /\ \E res \in Outcome :
       /\ drv' = [drv EXCEPT ![g] = res]
       /\ ev' = [ev EXCEPT ![g].err = IF res = "err" THEN "err" ELSE "nil"]
  /\ idx' = [idx EXCEPT ![g] = chain[g].len]
  /\ pc' = [pc EXCEPT ![g] = "after"]
  /\ UNCHANGED <<handleVars, callVars, chain, out>>

\* Mutated form: the loop of afterFunc starts one hook too far out.
Turn_OffByOne(g) ==
  /\ pc[g] = "before"
  /\ idx[g] > chain[g].len
  /\ op[g] \in TxOp
  /\ idx' = [idx EXCEPT ![g] = IF chain[g].len = 0 THEN 0 ELSE chain[g].len - 1]
  /\ pc' = [pc EXCEPT ![g] = "after"]
  /\ UNCHANGED <<handleVars, callVars, chain, ev, sent, drv, out>>

\* fireTxHook calls afterFunc right after the last BeforeQuery.
Turn(g) ==
  /\ pc[g] = "before"
  /\ idx[g] > chain[g].len
  /\ op[g] \in TxOp
  /\ idx' = [idx EXCEPT ![g] = chain[g].len]
  /\ pc' = [pc EXCEPT ![g] = "after"]
  /\ UNCHANGED <<handleVars, callVars, chain, ev, sent, drv, out>>

\* One turn of the loop of afterFunc.  A hook holds a pointer to the event and may
\* overwrite its Error.
AfterQuery(g) ==
  LET h == heap[chain[g].arr][idx[g]] IN
  /\ pc[g] = "after"
  /\ idx[g] >= 1
  /\ \/ UNCHANGED ev
     \/ h \in Forgers /\ ev' = [ev EXCEPT ![g].err = "forged"]
  /\ idx' = [idx EXCEPT ![g] = @ - 1]
  /\ UNCHANGED <<handleVars, pc, callVars, chain, sent, drv, out>>

\* The locals of a call, its private array included, are gone when it ends.
Forget(g) ==
  /\ heap' = [heap EXCEPT ![g] = ArrayOf(<<>>)]
  /\ pc' = [pc EXCEPT ![g] = "idle"]
  /\ on' = [on EXCEPT ![g] = DB]
  /\ op' = [op EXCEPT ![g] = "exec"]
  /\ ctx' = [ctx EXCEPT ![g] = <<>>]
  /\ chain' = [chain EXCEPT ![g] = Empty]
  /\ idx' = [idx EXCEPT ![g] = 0]
  /\ ev' = [ev EXCEPT ![g] = NewEvent("nil")]
  /\ sent' = [sent EXCEPT ![g] = <<"none", "none">>]
  /\ drv' = [drv EXCEPT ![g] = "no"]
  /\ want' = [want EXCEPT ![g] = <<>>]

\* Mutated form: the event's Error is returned, which hooks may overwrite.
Answer_FromEvent(g) == ev[g].err

\* What the caller gets: the driver's error, kept in a local of the method; a
\* rollback gives the caller its own error back.
Answer(g) == IF op[g] = "rollback" THEN "err" ELSE drv[g]

\* The call returns.  A begin that succeeded makes a Tx from the hooks the parent
\* holds now (when no slot is free, the program drops it).
Return(g) ==
  /\ pc[g] = "after"
  /\ idx[g] = 0
  /\ out' = [out EXCEPT ![g] = Answer(g)]
  /\ \/ /\ op[g] = "begin" /\ drv[g] = "ok"
        /\ \E s \in Slot :
             /\ kind[s] = "none"
             /\ kind' = [kind EXCEPT ![s] = "tx"]
             /\ hooks' = [hooks EXCEPT ![s] = hooks[on[g]]]
     \/ /\ op[g] = "begin" /\ drv[g] = "ok" => \A s \in Slot : kind[s] # "none"
        /\ UNCHANGED <<kind, hooks>>
  /\ Forget(g)

\* A hook or the driver panics.  Nothing is deferred or recovered on this path:
\* the hooks entered before get no AfterQuery.
Panic(g) ==
  /\ pc[g] # "idle"
  /\ out' = [out EXCEPT ![g] = "panic"]
  /\ UNCHANGED <<kind, hooks>>
  /\ Forget(g)

-----------------------------------------------------------------------------
Step(g) ==
  \/ BeforeQuery(g) \/ Driver(g) \/ Turn(g) \/ AfterQuery(g) \/ Return(g)
  \/ Close(g)

Next ==
  \/ \E h \in AddedHooks : AddHook(h)
  \/ \E s \in Slot, p \in Handle, k \in {"conn", "stmt"} : Derive(s, p, k)
  \/ \E g \in Goroutine, h \in Handle, o \in Op :
       \/ ArgError(g, h, o)
       \/ \E hs \in CallHooks : Start(g, h, o, hs) \/ StartClose(g, h, o, hs)
  \/ \E g \in Goroutine : Step(g) \/ Panic(g)

Spec == Init /\ [][Next]_vars

\* A goroutine that is inside an operation keeps running: the hooks and the
\* driver return (or panic).  Nothing forces a program to start an operation.
FairSpec == Spec /\ \A g \in Goroutine : WF_vars(Step(g))

-----------------------------------------------------------------------------
(* What must hold                                                          *)

\* The type invariant: indices stay within the arrays, events and answers are of the
\* kinds the hooks and the callers may see, and no forged error is an answer.
TypeOK ==
  /\ heap \in [ArrayId -> Array]
  /\ kind \in [Handle -> {"none", "db", "conn", "tx", "stmt"}]
  /\ hooks \in [Handle -> Slice]
  /\ pc \in [Goroutine -> {"idle", "before", "after", "closing"}]
  /\ on \in [Goroutine -> Handle]
  /\ op \in [Goroutine -> Op]
  /\ ctx \in [Goroutine -> Seq(AnyHook)]
  /\ chain \in [Goroutine -> Slice]
  /\ idx \in [Goroutine -> 0..(ArrayLen + 1)]
  /\ ev \in [Goroutine -> Event]
  /\ sent \in [Goroutine -> ({"sql", "none"} \cup Hook) \X ({"sql", "none"} \cup Hook)]
  /\ drv \in [Goroutine -> {"no"} \cup Outcome]
  /\ out \in [Goroutine -> {"none", "argerr", "panic"} \cup Outcome]
  /\ want \in [Goroutine -> Seq(AnyHook)]

\* hookChain (hook.go:137) may hand out the shared global slice or a private copy.
\* Whatever other goroutines do between two hook calls, the chain an operation
\* reads stays the one it started with: its handle's hooks, then its own ctx's.
ChainIsolation ==
  \A g \in Goroutine : pc[g] \in {"before", "after"} => Value(chain[g]) = want[g]

\* executeHooks does not check for nil (hook.go:176): every way into a chain must
\* have filtered nil hooks out, or a call would dereference one.
NoNilHook ==
  \A g \in Goroutine : pc[g] \in {"before", "after"} =>
    \A i \in 1..chain[g].len : heap[chain[g].arr][i] # NilHook

\* AfterQuery hooks observe the outcome of the driver call, success included,
\* unless a hook that runs earlier in the chain of AfterQuery calls overwrote it.
AfterSeesOutcome ==
  \A g \in Goroutine : pc[g] = "after" =>
    \/ ev[g].err = (IF drv[g] = "err" THEN "err" ELSE "nil")
    \/ /\ ev[g].err = "forged"
       /\ \E i \in (idx[g] + 1)..chain[g].len : heap[chain[g].arr][i] \in Forgers

\* A hook that rewrites the SQL and its arguments together never has one of them
\* sent without the other, except on a prepared statement, whose SQL is fixed: a
\* DB, Conn or Tx sends the pair of the last rewriter.
RewritesTravelTogether ==
  \A g \in Goroutine : pc[g] = "after" /\ op[g] \in {"exec", "query"} /\ kind[on[g]] # "stmt" =>
    sent[g][1] = sent[g][2] /\ sent[g] = <<ev[g].query, ev[g].args>>

\* Tx, Conn and Stmt values keep the hooks they were created with, although they
\* share the backing array of the DB's list and AddHook appends to it (db.go:113).
SnapshotsAreFixed ==
  [][\A s \in Slot : kind[s] # "none" => Value(hooks[s])' = Value(hooks[s])]_vars

\* An operation that started comes to an end, with an answer to its caller.
OperationsEnd == \A g \in Goroutine : pc[g] # "idle" ~> pc[g] = "idle"

\* The chain as a stack of nested calls: BeforeQuery enters, AfterQuery leaves.
Entered(g) == IF pc[g] = "before" THEN SubSeq(Value(chain[g]), 1, idx[g] - 1)
              ELSE IF pc[g] = "after" THEN SubSeq(Value(chain[g]), 1, idx[g])
              ELSE <<>>

Phase(g) == CASE pc[g] = "idle"  -> "idle"
              [] pc[g] = "after" -> "leaving"
              [] OTHER           -> IF op[g] \in TxOp THEN "report" ELSE "wrap"

\* The hook mechanism implements the onion of HookOnion, step for step.
Onion == INSTANCE HookOnion WITH
  CallChain <- {WithCallHooks(hs) : hs \in CallHooks},
  chainOf   <- [h \in Handle |-> Value(hooks[h])],
  live      <- {h \in Handle : kind[h] # "none"},
  phase     <- [g \in Goroutine |-> Phase(g)],
  full      <- want,
  stack     <- [g \in Goroutine |-> Entered(g)],
  answer    <- [g \in Goroutine |-> IF drv[g] = "no" THEN "no" ELSE Answer(g)]

ImplementsOnion == Onion!Spec
=============================================================================
