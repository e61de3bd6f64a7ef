------------------------------ MODULE HookOnion ------------------------------
(***************************************************************************)
(* What the hook mechanism of sqlex promises its users, without slices,    *)
(* indices or events: every operation owns a chain of hooks, fixed when it *)
(* starts, and the hooks nest around the driver call like the layers of an *)
(* onion.  The chain is the hooks of the handle, then those of the ctx.    *)
(* Commit and rollback through CloseWithErr differ: the driver call comes  *)
(* first and the onion is run around nothing, as a report of the outcome.  *)
(* HookPipeline implements this module.                                    *)
(***************************************************************************)
EXTENDS Naturals, Sequences

CONSTANTS
  Goroutine,   \* the goroutines that call into the library
  DB,          \* the database handle
  Slot,        \* the handles a program can derive: a Tx, a Conn or a Stmt
  Hook,        \* the hooks, nil excluded
  CallChain    \* the chains of hooks a ctx can carry, the empty one included

Handle == {DB} \cup Slot

VARIABLES
  chainOf,     \* the hooks of every handle
  live,        \* the handles that exist
  phase,       \* what every goroutine is doing
  full,        \* the chain of the operation in progress
  stack,       \* the hooks entered and not yet left, outermost first
  answer,      \* what the operation will return, "no" before the driver call
  out          \* what the last operation returned, "none" while one is in progress

vars == <<chainOf, live, phase, full, stack, answer, out>>

Init ==
  /\ chainOf \in [Handle -> Seq(Hook)]
  /\ live = {DB}
  /\ phase = [g \in Goroutine |-> "idle"]
  /\ full = [g \in Goroutine |-> <<>>]
  /\ stack = [g \in Goroutine |-> <<>>]
  /\ answer = [g \in Goroutine |-> "no"]
  /\ out = [g \in Goroutine |-> "none"]

\* An operation starts on a live handle: it wraps the driver call or reports it.
Call(g) ==
  /\ phase[g] = "idle"
  /\ \E h \in live, c \in CallChain : full' = [full EXCEPT ![g] = chainOf[h] \o c]
  /\ \E p \in {"wrap", "report"} : phase' = [phase EXCEPT ![g] = p]
  /\ out' = [out EXCEPT ![g] = "none"]
  /\ UNCHANGED <<chainOf, live, stack, answer>>

\* Bad arguments are refused before any hook runs.
Reject(g) ==
  /\ phase[g] = "idle"
  /\ out' = [out EXCEPT ![g] = "argerr"]
  /\ UNCHANGED <<chainOf, live, phase, full, stack, answer>>

\* BeforeQuery of the next hook inwards.
Enter(g) ==
  /\ phase[g] = "wrap" \/ (phase[g] = "report" /\ answer[g] # "no")
  /\ Len(stack[g]) < Len(full[g])
  /\ stack' = [stack EXCEPT ![g] = Append(@, full[g][Len(@) + 1])]
  /\ UNCHANGED <<chainOf, live, phase, full, answer, out>>

\* The driver call of an ordinary operation, inside every layer of the onion.
Dispatch(g) ==
  /\ phase[g] = "wrap"
  /\ stack[g] = full[g]
  /\ \E r \in {"ok", "err"} : answer' = [answer EXCEPT ![g] = r]
  /\ phase' = [phase EXCEPT ![g] = "leaving"]
  /\ UNCHANGED <<chainOf, live, full, stack, out>>

\* The commit or the rollback, outside every layer.
Settle(g) ==
  /\ phase[g] = "report"
  /\ answer[g] = "no"
  /\ \E r \in {"ok", "err"} : answer' = [answer EXCEPT ![g] = r]
  /\ UNCHANGED <<chainOf, live, phase, full, stack, out>>

\* The innermost point of a report: only AfterQuery calls remain.
Turn(g) ==
  /\ phase[g] = "report"
  /\ answer[g] # "no"
  /\ stack[g] = full[g]
  /\ phase' = [phase EXCEPT ![g] = "leaving"]
  /\ UNCHANGED <<chainOf, live, full, stack, answer, out>>

\* AfterQuery of the innermost hook still entered.
Leave(g) ==
  /\ phase[g] = "leaving"
  /\ stack[g] # <<>>
  /\ stack' = [stack EXCEPT ![g] = SubSeq(@, 1, Len(@) - 1)]
  /\ UNCHANGED <<chainOf, live, phase, full, answer, out>>

\* A derived handle comes to life with the hooks its parent has at that moment.
Spawn(s, p) ==
  /\ s \in Slot \ live
  /\ p \in live
  /\ live' = live \cup {s}
  /\ chainOf' = [chainOf EXCEPT ![s] = chainOf[p]]

\* The operation returns the driver's outcome once every hook has been left; a
\* begin that succeeded brings a Tx to life.
Return(g) ==
  /\ phase[g] = "leaving"
  /\ stack[g] = <<>>
  /\ phase' = [phase EXCEPT ![g] = "idle"]
  /\ full' = [full EXCEPT ![g] = <<>>]
  /\ answer' = [answer EXCEPT ![g] = "no"]
  /\ out' = [out EXCEPT ![g] = answer[g]]
  /\ UNCHANGED stack
  /\ \/ UNCHANGED <<chainOf, live>>
     \/ answer[g] = "ok" /\ \E s \in Slot, p \in live : Spawn(s, p)

\* A hook or the driver panics: the hooks entered are never left.
Panic(g) ==
  /\ phase[g] # "idle"
  /\ phase' = [phase EXCEPT ![g] = "idle"]
  /\ full' = [full EXCEPT ![g] = <<>>]
  /\ stack' = [stack EXCEPT ![g] = <<>>]
  /\ answer' = [answer EXCEPT ![g] = "no"]
  /\ out' = [out EXCEPT ![g] = "panic"]
  /\ UNCHANGED <<chainOf, live>>

\* A Conn or a Stmt is derived without running a hook.
Derive ==
  /\ \E s \in Slot, p \in live : Spawn(s, p)
  /\ UNCHANGED <<phase, full, stack, answer, out>>

\* Registration at setup time reaches the DB alone.
Register ==
  /\ \A g \in Goroutine : phase[g] = "idle"
  /\ \E h \in Hook : chainOf' = [chainOf EXCEPT ![DB] = Append(@, h)]
  /\ UNCHANGED <<live, phase, full, stack, answer, out>>

Next ==
  \/ \E g \in Goroutine :
       \/ Call(g) \/ Reject(g) \/ Enter(g) \/ Dispatch(g) \/ Settle(g)
       \/ Turn(g) \/ Leave(g) \/ Return(g) \/ Panic(g)
  \/ Derive
  \/ Register

Spec == Init /\ [][Next]_vars
=============================================================================
