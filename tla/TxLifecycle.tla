----------------------------- MODULE TxLifecycle -----------------------------
(***************************************************************************)
(* The life of a transaction: Beginx or BeginTxx, the program's body, and  *)
(* its end through CloseWithErr (tx.go) or through the Commit and Rollback *)
(* that Tx inherits from database/sql.  A context may be cancelled at any  *)
(* moment, and a goroutine of database/sql then rolls the transaction back *)
(* on its own, racing with the program's close.                            *)
(*                                                                         *)
(* Errors are sets of causes: {} is the nil error and errors.Join is the   *)
(* union.  The parts of database/sql are modelled from how tx.go and db.go *)
(* use them: a Tx ends once (tx.done), Commit looks at the context first,  *)
(* and the connection goes back to the pool when the end has been sent.    *)
(***************************************************************************)
EXTENDS Naturals, Sequences, SequencesExt

CONSTANTS
  MaxCloses    \* bound: the attempts to end one transaction

ASSUME MaxClosesAssumption == MaxCloses \in Nat

Cause == {"body", "canceled", "begin", "commit", "rollback", "txdone"}
Error == SUBSET Cause
nil == {}

\* What the body of the program may end with: success, a failure of its own, or a
\* cancellation error that some operation returned (its context need not be the
\* transaction's).
BodyErrors == {nil, {"body"}, {"canceled"}}

VARIABLES
  pc,        \* where the program is
  op,        \* the end in progress or done last: "commit" or "rollback"
  hooked,    \* whether it goes through CloseWithErr, which reports it to the hooks
  err,       \* the error CloseWithErr was given
  answer,    \* what the inherited Commit or Rollback returned to it
  ret,       \* what the program got from its last call
  closes,    \* the ends attempted so far
  given,     \* whether the program passed a context to the begin
  cancelled, \* whether the caller's context is cancelled
  done,      \* tx.done of database/sql
  waiter,    \* the goroutine of database/sql that waits for the context
  conn,      \* the connection of the transaction
  db,        \* the transaction as the server has it
  reports,   \* history: what the hooks were told, in order
  tooLate    \* history: the context was cancelled before the first close began

vars == <<pc, op, hooked, err, answer, ret, closes, given, cancelled, done,
          waiter, conn, db, reports, tooLate>>
sqlVars == <<done, waiter, conn, db>>

Init ==
  /\ pc = "start" /\ op = "none" /\ hooked = FALSE
  /\ err = nil /\ answer = nil /\ ret = nil
  /\ closes = 0 /\ given = FALSE /\ cancelled = FALSE
  /\ done = FALSE /\ waiter = "none" /\ conn = "free" /\ db = "none"
  /\ reports = <<>> /\ tooLate = FALSE

Report(o, e) == Append(reports, [op |-> o, err |-> e])

\* Mutated form: the transaction is begun without the caller's context.
ContextOf_Background(withCtx) == FALSE

\* Beginx runs with context.Background(), BeginTxx with the caller's context, as
\* the hooks returned it.
ContextOf(withCtx) == withCtx

\* The context of the transaction, as database/sql has it, is done.
ContextEnded == ContextOf(given) /\ cancelled

\* Begin: the hooks learn the outcome, and a waiter is started for the context.
Begin(withCtx) ==
  /\ pc = "start"
  /\ given' = withCtx
  /\ \/ /\ ~(ContextOf(withCtx) /\ cancelled)
        /\ pc' = "body" /\ ret' = nil
        /\ conn' = "held" /\ db' = "open" /\ waiter' = "waiting"
     \/ /\ pc' = "failed"
        /\ ret' = IF ContextOf(withCtx) /\ cancelled THEN {"canceled"} ELSE {"begin"}
        /\ UNCHANGED <<conn, db, waiter>>
  /\ reports' = Report("begin", ret')
  /\ UNCHANGED <<op, hooked, err, answer, closes, cancelled, done, tooLate>>

\* The caller's context ends: a timeout, a disconnected client, a hook's cancel.
Cancel ==
  /\ ~cancelled
  /\ cancelled' = TRUE
  /\ UNCHANGED <<pc, op, hooked, err, answer, ret, closes, given, sqlVars, reports, tooLate>>

StartClose(o, viaHook, e) ==
  /\ pc \in {"body", "returned"}
  /\ closes < MaxCloses
  /\ closes' = closes + 1
  /\ op' = o /\ hooked' = viaHook /\ err' = e
  /\ pc' = o
  /\ tooLate' = IF closes = 0 THEN given /\ cancelled ELSE tooLate
  /\ UNCHANGED <<answer, ret, given, cancelled, sqlVars, reports>>

\* Mutated form: a cancellation error is left to database/sql to act on.
CloseWithErr_SkipCanceled(e) ==
  IF e = {"canceled"}
  THEN /\ pc = "body" /\ pc' = "returned" /\ ret' = e
       /\ UNCHANGED <<op, hooked, err, answer, closes, given, cancelled, sqlVars, reports, tooLate>>
  ELSE StartClose(IF e # nil THEN "rollback" ELSE "commit", TRUE, e)

\* Mutated form: the error is forgotten.
CloseWithErr_Commit(e) == StartClose("commit", TRUE, e)

\* CloseWithErrContext: rollback on an error, commit otherwise.
CloseWithErr(e) == StartClose(IF e # nil THEN "rollback" ELSE "commit", TRUE, e)

\* tx.Commit() and tx.Rollback(), promoted from the embedded sql.Tx.
Direct(o) == StartClose(o, FALSE, nil)

-----------------------------------------------------------------------------
(* database/sql                                                            *)

\* Commit and Rollback of database/sql have an answer for their caller.
Answer(e) == answer' = e /\ pc' = "answered"

\* sql.Tx.Commit looks at the context first.
CommitCheck ==
  /\ pc = "commit"
  /\ IF ContextEnded
     THEN Answer(IF done THEN {"txdone"} ELSE {"canceled"})
     ELSE pc' = "commit-take" /\ UNCHANGED answer
  /\ UNCHANGED <<op, hooked, err, ret, closes, given, cancelled, sqlVars, reports, tooLate>>

\* One of the program and the waiter takes the right to end the transaction.
Take ==
  /\ pc \in {"commit-take", "rollback"}
  /\ IF done
     THEN Answer({"txdone"}) /\ UNCHANGED done
     ELSE done' = TRUE /\ pc' = "sending" /\ UNCHANGED answer
  /\ UNCHANGED <<op, hooked, err, ret, closes, given, cancelled, waiter, conn, db, reports, tooLate>>

\* The driver call.  A commit that fails may have reached the server or not.
Send ==
  /\ pc = "sending"
  /\ \/ /\ Answer(nil)
        /\ db' = IF op = "commit" THEN "committed" ELSE "rolledback"
     \/ /\ Answer({op})
        /\ db' \in IF op = "commit" THEN {"committed", "rolledback"} ELSE {"rolledback"}
  /\ conn' = "free"
  /\ UNCHANGED <<op, hooked, err, ret, closes, given, cancelled, done, waiter, reports, tooLate>>

\* The waiter wakes up when the context or the transaction has ended.
WaiterWakes ==
  /\ waiter = "waiting"
  /\ ContextEnded \/ done
  /\ waiter' = IF done THEN "finished" ELSE "sending"
  /\ done' = TRUE
  /\ UNCHANGED <<pc, op, hooked, err, answer, ret, closes, given, cancelled, conn, db, reports, tooLate>>

\* It rolls back and gives the connection up; nobody sees its error.
WaiterRollsBack ==
  /\ waiter = "sending"
  /\ waiter' = "finished"
  /\ db' = "rolledback"
  /\ conn' = "free"
  /\ UNCHANGED <<pc, op, hooked, err, answer, ret, closes, given, cancelled, done, reports, tooLate>>

-----------------------------------------------------------------------------
(* CloseWithErr, after Commit or Rollback                                  *)

\* Mutated form: the caller's error takes the place of the rollback's.
Returned_NoJoin(o, e, a) == IF o = "rollback" THEN e ELSE a

\* What CloseWithErr returns: the commit's error, or the caller's error joined
\* with the rollback's.
Returned(o, e, a) == IF o = "rollback" THEN e \cup a ELSE a

\* Mutated form: a failed rollback is reported with the caller's error.
Reported_Caller(o, e, a) == IF o = "rollback" /\ a = nil THEN e ELSE a

\* What fireTxHook is told: the outcome of the driver call alone.
Reported(o, e, a) == a

\* Mutated form: the error of the inherited call is dropped.
Return_Swallow ==
  /\ pc = "answered"
  /\ pc' = "returned"
  /\ ret' = err
  /\ reports' = IF hooked THEN Report(op, answer) ELSE reports
  /\ UNCHANGED <<op, hooked, err, answer, closes, given, cancelled, sqlVars, tooLate>>

\* The hooks are told before CloseWithErr returns; a direct call just returns.
Return ==
  /\ pc = "answered"
  /\ pc' = "returned"
  /\ IF hooked
     THEN ret' = Returned(op, err, answer) /\ reports' = Report(op, Reported(op, err, answer))
     ELSE ret' = answer /\ UNCHANGED reports
  /\ UNCHANGED <<op, hooked, err, answer, closes, given, cancelled, sqlVars, tooLate>>

\* The program goes on to its next transaction, with a context of its own.
Again ==
  /\ pc = "failed" \/ (pc = "returned" /\ conn = "free" /\ waiter = "finished")
  /\ pc' = "start" /\ op' = "none" /\ hooked' = FALSE
  /\ err' = nil /\ answer' = nil /\ ret' = nil
  /\ closes' = 0 /\ given' = FALSE /\ cancelled' = FALSE
  /\ done' = FALSE /\ waiter' = "none" /\ conn' = "free" /\ db' = "none"
  /\ reports' = <<>> /\ tooLate' = FALSE

Library == CommitCheck \/ Take \/ Send \/ Return
Waiter == WaiterWakes \/ WaiterRollsBack

Next ==
  \/ \E withCtx \in BOOLEAN : Begin(withCtx)
  \/ Cancel
  \/ \E e \in BodyErrors : CloseWithErr(e)
  \/ \E o \in {"commit", "rollback"} : Direct(o)
  \/ Library
  \/ Waiter
  \/ Again

Spec == Init /\ [][Next]_vars

\* The library's calls run to their end, database/sql's goroutine is scheduled, and
\* the program closes what it began (the defer of the documented pattern).
FairSpec ==
  /\ Spec
  /\ WF_vars(Library)
  /\ WF_vars(Waiter)
  /\ WF_vars(pc = "body" /\ \E e \in BodyErrors : CloseWithErr(e))

-----------------------------------------------------------------------------
\* The type invariant: the causes of errors, and that the hooks are never told of the
\* error of the body (tx.go:340).
TypeOK ==
  /\ pc \in {"start", "failed", "body", "commit", "commit-take", "rollback", "sending",
             "answered", "returned"}
  /\ op \in {"none", "commit", "rollback"}
  /\ hooked \in BOOLEAN
  /\ err \in Error /\ answer \in Error /\ ret \in Error
  /\ closes \in 0..MaxCloses
  /\ given \in BOOLEAN /\ cancelled \in BOOLEAN
  /\ done \in BOOLEAN
  /\ waiter \in {"none", "waiting", "sending", "finished"}
  /\ conn \in {"free", "held"}
  /\ db \in {"none", "open", "committed", "rolledback"}
  /\ reports \in Seq([op : {"begin", "commit", "rollback"}, err : SUBSET (Cause \ {"body"})])
  /\ tooLate \in BOOLEAN

\* CloseWithErr has been given an error, by the close in hand or by an earlier one.
BodyFailed ==
  \/ hooked /\ err # nil
  \/ \E i \in DOMAIN reports : reports[i].op = "rollback"

\* Once CloseWithErr has been given an error (tx.go:335) nothing commits the
\* transaction any more: not that call, whatever becomes of its rollback, and no
\* Commit or CloseWithErr(nil) after it.  What an explicit Commit had committed
\* before the error came stays committed.
ErrorNeverCommits ==
  [][BodyFailed /\ db' = "committed" => db = "committed"]_vars

\* A close whose error is nil has committed: the caller is never told of success
\* when the transaction was lost to a cancellation, a failed commit or an earlier
\* rollback.
SuccessMeansCommitted ==
  pc = "returned" /\ hooked /\ ret = nil => db = "committed"

\* The caller gets its own error back, and learns of a rollback that failed.
NoErrorIsLost ==
  pc = "returned" /\ hooked => err \subseteq ret /\ answer \subseteq ret

\* Every close is reported once, with the outcome of the driver call: tracing never
\* sees a failed rollback that succeeded nor the success of a commit that was lost.
ReportsAreTrue ==
  /\ pc = "returned" /\ hooked => Last(reports) = [op |-> op, err |-> answer]
  /\ \A i \in DOMAIN reports : reports[i].err = nil =>
       CASE reports[i].op = "commit"   -> db = "committed"
         [] reports[i].op = "rollback" -> db = "rolledback"
         [] OTHER                      -> TRUE

\* "If the context is canceled, the sql package will roll back the transaction.
\* Tx.Commit will return an error" (db.go:203): a context cancelled before the
\* close begins leaves nothing committed.
CancelledIsNotCommitted ==
  tooLate => db # "committed" /\ (pc = "returned" /\ op = "commit" => ret # nil)

\* A transaction that was begun gives its connection back to the pool.
ConnectionIsReleased == conn = "held" ~> conn = "free"
=============================================================================
