-------------------------- MODULE TxLifecycleProofs --------------------------
(***************************************************************************)
(* Proofs about TxLifecycle, for any number of closes of one transaction:  *)
(* what the caller of CloseWithErr and the hooks are told is what happened *)
(* to the transaction, whoever ends it.                                    *)
(***************************************************************************)
EXTENDS TxLifecycle, TLAPS

Ended == {"committed", "rolledback"}
Ending == pc = "sending" \/ waiter = "sending"

\* tx.done lets one party end the transaction, and what it decides is final.
OneEnd ==
  /\ ~(pc = "sending" /\ waiter = "sending")
  /\ Ending => done /\ db = "open"
  /\ done /\ ~Ending => db \in Ended
  /\ ~done => db \notin Ended
  /\ pc \in {"start", "failed"} => ~done /\ waiter = "none" /\ db = "none"
  /\ pc \notin {"start", "failed"} => db # "none"

\* The end in progress is the one asked for, and CloseWithErr rolls back on an error.
AsAsked ==
  /\ pc \in {"commit", "commit-take"} => op = "commit"
  /\ pc = "rollback" => op = "rollback"
  /\ pc \in {"sending", "answered", "returned"} => op # "none"
  /\ pc \in {"commit", "commit-take", "rollback", "sending", "answered", "returned"} /\ hooked =>
       (op = "rollback" <=> err # nil)
  /\ pc \in {"start", "failed", "body"} <=> closes = 0
  /\ closes = 0 => db # "committed"

\* An answer without an error is what the server did, and it reaches the program.
TrueAnswer ==
  /\ "body" \notin answer
  /\ pc \in {"answered", "returned"} /\ answer = nil =>
       db = IF op = "commit" THEN "committed" ELSE "rolledback"
  /\ pc = "returned" => ret = IF hooked THEN Returned(op, err, answer) ELSE answer

\* Once the context has ended before the first close, no commit gets past its check.
NoCommitTooLate ==
  tooLate =>
    /\ given /\ cancelled /\ closes > 0
    /\ pc # "commit-take"
    /\ ~(pc = "sending" /\ op = "commit")
    /\ db # "committed"

TxInv == TypeOK /\ OneEnd /\ AsAsked /\ TrueAnswer /\ NoCommitTooLate /\ ReportsAreTrue

\* The invariant holds at first.
LEMMA InitTx == Init => TxInv
<1> SUFFICES ASSUME Init PROVE TxInv
  OBVIOUS
<1>1. TypeOK
  <2>1. nil \in Error /\ 0 \in 0..MaxCloses /\ <<>> \in Seq([op : {"begin", "commit", "rollback"}, err : SUBSET (Cause \ {"body"})])
    BY MaxClosesAssumption DEF Error, nil
  <2> QED
    BY <2>1 DEF Init, TypeOK
<1>2. ReportsAreTrue
  BY DEF Init, ReportsAreTrue
<1> QED
  BY <1>1, <1>2 DEF Init, TxInv, OneEnd, AsAsked, TrueAnswer, NoCommitTooLate, Ending, Ended, nil

-----------------------------------------------------------------------------
(* Types                                                                   *)

Told == Cause \ {"body"}

\* A report of an outcome the hooks may see.
LEMMA ReportTyped ==
  ASSUME reports \in Seq([op : {"begin", "commit", "rollback"}, err : SUBSET Told]),
         NEW o \in {"begin", "commit", "rollback"}, NEW e \in SUBSET Told
  PROVE  /\ Report(o, e) \in Seq([op : {"begin", "commit", "rollback"}, err : SUBSET Told])
         /\ Len(Report(o, e)) = Len(reports) + 1
         /\ Report(o, e)[Len(Report(o, e))] = [op |-> o, err |-> e]
         /\ \A i \in DOMAIN reports : Report(o, e)[i] = reports[i]
  BY DEF Report

\* Every step keeps the types.
LEMMA TypeStep ==
  ASSUME TypeOK, AsAsked, TrueAnswer, [Next]_vars
  PROVE  TypeOK'
<1> USE DEF TypeOK
<1>1. /\ nil \in Error /\ {"body"} \in Error
      /\ \A c \in Cause : {c} \in Error /\ (c # "body" => {c} \in SUBSET Told)
      /\ nil \in SUBSET Told
  BY DEF nil, Error, Told, Cause
<1>2. ASSUME NEW withCtx \in BOOLEAN, Begin(withCtx) PROVE TypeOK'
  <2>1. ret' \in {nil, {"canceled"}, {"begin"}}
    BY <1>2 DEF Begin
  <2>2. ret' \in Error /\ ret' \in SUBSET Told
    BY <1>1, <2>1 DEF Cause
  <2>3. reports' \in Seq([op : {"begin", "commit", "rollback"}, err : SUBSET Told])
    BY <1>2, <2>2, ReportTyped DEF Begin, Told
  <2> QED
    BY <1>2, <2>2, <2>3 DEF Begin, Told
<1>3. CASE Cancel
  BY <1>3 DEF Cancel, sqlVars
<1>4. ASSUME NEW o \in {"commit", "rollback"}, NEW viaHook \in BOOLEAN, NEW e \in Error, StartClose(o, viaHook, e) PROVE TypeOK'
  BY <1>4, MaxClosesAssumption DEF StartClose, sqlVars
<1>5. CASE \E e \in BodyErrors : CloseWithErr(e)
  <2> PICK e \in BodyErrors : CloseWithErr(e)
    BY <1>5
  <2>1. e \in Error
    BY <1>1 DEF BodyErrors, Cause
  <2> QED
    BY <1>4, <2>1 DEF CloseWithErr
<1>6. CASE \E o \in {"commit", "rollback"} : Direct(o)
  BY <1>1, <1>4, <1>6 DEF Direct
<1>7. CASE CommitCheck
  BY <1>1, <1>7, ZenonT(60) DEF CommitCheck, Answer, Cause, sqlVars
<1>8. CASE Take
  BY <1>1, <1>8, ZenonT(60) DEF Take, Answer, Cause
<1>9. CASE Send
  <2>1. answer' \in {nil, {op}} /\ pc' = "answered" /\ db' \in {"committed", "rolledback"}
    BY <1>9 DEF Send, Answer
  <2>2. op # "none"
    BY <1>9 DEF Send, AsAsked
  <2> QED
    BY <1>1, <1>9, <2>1, <2>2 DEF Send, Cause
<1>10. CASE Return
  <2>1. answer \in SUBSET Told /\ op # "none"
    BY <1>10 DEF Told, Error, TrueAnswer, AsAsked, Return
  <2>2. ret' \in Error
    BY <1>10 DEF Return, Returned, Error
  <2>3. reports' \in Seq([op : {"begin", "commit", "rollback"}, err : SUBSET Told])
    BY <1>10, <2>1, ReportTyped DEF Return, Reported, Told
  <2> QED
    BY <1>10, <2>2, <2>3 DEF Return, sqlVars, Told
<1>11. CASE Waiter
  BY <1>11 DEF Waiter, WaiterWakes, WaiterRollsBack
<1>12. CASE Again
  <2>1. <<>> \in Seq([op : {"begin", "commit", "rollback"}, err : SUBSET (Cause \ {"body"})]) /\ 0 \in 0..MaxCloses
    BY MaxClosesAssumption
  <2> QED
    BY <1>1, <1>12, <2>1 DEF Again
<1>13. CASE UNCHANGED vars
  BY <1>13 DEF vars
<1> HIDE DEF TypeOK
<1>14. CASE \E withCtx \in BOOLEAN : Begin(withCtx)
  BY <1>2, <1>14
<1> QED
  BY <1>14, <1>3, <1>5, <1>6, <1>7, <1>8, <1>9, <1>10, <1>11, <1>12, <1>13 DEF Next, Library

-----------------------------------------------------------------------------
(* What a step keeps                                                       *)

Kept == OneEnd' /\ AsAsked' /\ TrueAnswer' /\ NoCommitTooLate' /\ ReportsAreTrue'

\* Starting a close: the program is in its body or after an earlier close.
LEMMA StartCloseKeeps ==
  ASSUME TxInv, NEW o \in {"commit", "rollback"}, NEW viaHook \in BOOLEAN, NEW e \in Error,
         viaHook => (o = "rollback" <=> e # nil), StartClose(o, viaHook, e)
  PROVE  Kept
<1> USE DEF Kept, TxInv, StartClose, sqlVars
<1>1. OneEnd'
  BY DEF OneEnd, Ending, Ended
<1>2. AsAsked'
  BY DEF AsAsked, TypeOK
<1>3. TrueAnswer'
  BY DEF TrueAnswer
<1>4. NoCommitTooLate'
  <2>1. tooLate' => given' /\ cancelled' /\ db' # "committed"
    BY DEF NoCommitTooLate, AsAsked
  <2>2. closes' > 0
    BY DEF TypeOK
  <2> QED
    BY <2>1, <2>2 DEF NoCommitTooLate
<1>5. ReportsAreTrue'
  BY DEF ReportsAreTrue
<1> QED
  BY <1>1, <1>2, <1>3, <1>4, <1>5

\* No report of a commit or a rollback that succeeded comes before the end.
LEMMA OpenIsUnreported ==
  ASSUME ReportsAreTrue, db \notin Ended, NEW i \in DOMAIN reports, reports[i].err = nil
  PROVE  reports[i].op \notin {"commit", "rollback"}
  BY DEF ReportsAreTrue, Ended

\* A transaction begins, with a context that can end or without.
LEMMA BeginKeeps ==
  ASSUME TxInv, NEW withCtx \in BOOLEAN, Begin(withCtx)
  PROVE  Kept
<1> USE DEF Kept, TxInv, Begin
<1>1. OneEnd'
  BY DEF OneEnd, Ending, Ended
<1>2. AsAsked'
  BY DEF AsAsked
<1>3. TrueAnswer'
  BY DEF TrueAnswer
<1>4. NoCommitTooLate'
  BY DEF NoCommitTooLate, AsAsked
<1>5. ReportsAreTrue'
  <2>1. ret' \in SUBSET Told
    BY DEF nil, Told, Cause
  <2>2. \A i \in DOMAIN reports' : reports'[i].err = nil => reports'[i].op \notin {"commit", "rollback"}
    <3>1. reports \in Seq([op : {"begin", "commit", "rollback"}, err : SUBSET Told])
      BY DEF TypeOK, Told
    <3>2. \A i \in DOMAIN reports : reports[i].err = nil => reports[i].op \notin {"commit", "rollback"}
      BY OpenIsUnreported DEF OneEnd, Ended
    <3>3. reports' = Report("begin", ret')
      OBVIOUS
    <3>4. /\ Len(reports') = Len(reports) + 1
          /\ reports'[Len(reports')] = [op |-> "begin", err |-> ret']
          /\ \A i \in DOMAIN reports : reports'[i] = reports[i]
          /\ DOMAIN reports' = 1..Len(reports') /\ DOMAIN reports = 1..Len(reports) /\ Len(reports) \in Nat
      BY <2>1, <3>1, <3>3, ReportTyped
    <3>5. ASSUME NEW i \in DOMAIN reports', reports'[i].err = nil PROVE reports'[i].op \notin {"commit", "rollback"}
      <4>1. CASE i = Len(reports')
        BY <3>4, <4>1
      <4>2. CASE i # Len(reports')
        BY <3>2, <3>4, <3>5, <4>2
      <4> QED
        BY <4>1, <4>2
    <3> QED
      BY <3>5
  <2>3. pc' # "returned"
    OBVIOUS
  <2> QED
    BY <2>2, <2>3 DEF ReportsAreTrue
<1> QED
  BY <1>1, <1>2, <1>3, <1>4, <1>5

\* The context ends.
LEMMA CancelKeeps ==
  ASSUME TxInv, Cancel
  PROVE  Kept
  BY DEF Kept, TxInv, Cancel, sqlVars, OneEnd, Ending, AsAsked, TrueAnswer, NoCommitTooLate, ReportsAreTrue, TypeOK

\* A commit looks at the context before it takes the flag.
LEMMA CommitCheckKeeps ==
  ASSUME TxInv, CommitCheck
  PROVE  Kept
<1> USE DEF Kept, TxInv, CommitCheck, Answer, sqlVars
<1>1. OneEnd' /\ AsAsked' /\ ReportsAreTrue'
  BY DEF OneEnd, Ending, AsAsked, ReportsAreTrue
<1>2. TrueAnswer'
  BY DEF TrueAnswer, nil
<1>3. NoCommitTooLate'
  BY DEF NoCommitTooLate, ContextEnded, ContextOf
<1> QED
  BY <1>1, <1>2, <1>3

\* A close takes the flag, or finds it taken.
LEMMA TakeKeeps ==
  ASSUME TxInv, Take
  PROVE  Kept
<1> USE DEF Kept, TxInv, Take, Answer
<1>1. OneEnd'
  BY DEF OneEnd, Ending, Ended, TypeOK
<1>2. AsAsked' /\ ReportsAreTrue'
  BY DEF AsAsked, ReportsAreTrue
<1>3. TrueAnswer'
  BY DEF TrueAnswer, nil
<1>4. NoCommitTooLate'
  BY DEF NoCommitTooLate, AsAsked
<1> QED
  BY <1>1, <1>2, <1>3, <1>4

\* A close sends COMMIT or ROLLBACK.
LEMMA SendKeeps ==
  ASSUME TxInv, Send
  PROVE  Kept
<1> USE DEF Kept, TxInv, Send, Answer
<1>1. op \in {"commit", "rollback"} /\ db \notin Ended
  BY DEF AsAsked, TypeOK, OneEnd, Ending, Ended
<1>2. OneEnd'
  BY <1>1 DEF OneEnd, Ending, Ended
<1>3. AsAsked'
  BY <1>1 DEF AsAsked
<1>4. TrueAnswer'
  BY <1>1 DEF TrueAnswer, nil
<1>5. NoCommitTooLate'
  BY <1>1 DEF NoCommitTooLate
<1>6. ReportsAreTrue'
  <2>1. pc' # "returned" /\ reports' = reports
    OBVIOUS
  <2>2. \A i \in DOMAIN reports : reports[i].err = nil => reports[i].op \notin {"commit", "rollback"}
    BY <1>1, OpenIsUnreported
  <2> QED
    BY <2>1, <2>2 DEF ReportsAreTrue
<1> QED
  BY <1>2, <1>3, <1>4, <1>5, <1>6

\* The goroutine of database/sql rolls back when the context has ended.
LEMMA WaiterKeeps ==
  ASSUME TxInv, Waiter
  PROVE  Kept
<1> USE DEF Kept, TxInv, Waiter
<1>1. CASE WaiterWakes
  <2>1. OneEnd'
    BY <1>1 DEF WaiterWakes, OneEnd, Ending, Ended, TypeOK
  <2> QED
    BY <1>1, <2>1 DEF WaiterWakes, AsAsked, TrueAnswer, NoCommitTooLate, ReportsAreTrue
<1>2. CASE WaiterRollsBack
  <2>1. db \notin Ended
    BY <1>2 DEF WaiterRollsBack, OneEnd, Ending, Ended
  <2>2. OneEnd'
    BY <1>2 DEF WaiterRollsBack, OneEnd, Ending, Ended, TypeOK
  <2>3. AsAsked' /\ NoCommitTooLate'
    BY <1>2 DEF WaiterRollsBack, AsAsked, NoCommitTooLate
  <2>4. TrueAnswer'
    BY <1>2, <2>1 DEF WaiterRollsBack, TrueAnswer, Ended
  <2>5. ReportsAreTrue'
    <3>1. \A i \in DOMAIN reports : reports[i].err = nil => reports[i].op \notin {"commit", "rollback"}
      BY <2>1, OpenIsUnreported
    <3> QED
      BY <1>2, <3>1 DEF WaiterRollsBack, ReportsAreTrue
  <2> QED
    BY <2>2, <2>3, <2>4, <2>5
<1> QED
  BY <1>1, <1>2

\* A close reports and returns.
LEMMA ReturnKeeps ==
  ASSUME TxInv, Return
  PROVE  Kept
<1> USE DEF Kept, TxInv, Return, sqlVars
<1>1. OneEnd' /\ AsAsked' /\ NoCommitTooLate'
  BY DEF OneEnd, Ending, AsAsked, NoCommitTooLate
<1>2. TrueAnswer'
  BY DEF TrueAnswer, Returned
<1>3. ReportsAreTrue'
  <2>1. CASE ~hooked
    BY <2>1 DEF ReportsAreTrue
  <2>2. CASE hooked
    <3>1. op \in {"commit", "rollback"} /\ answer \in SUBSET Told
      BY DEF AsAsked, TypeOK, TrueAnswer, Error, Told
    <3>2. reports' = Report(op, answer) /\ pc' = "returned" /\ UNCHANGED <<op, hooked, answer, db>>
      BY <2>2 DEF Reported
    <3>3. reports \in Seq([op : {"begin", "commit", "rollback"}, err : SUBSET Told])
      BY DEF TypeOK, Told
    <3>4. /\ reports' \in Seq([op : {"begin", "commit", "rollback"}, err : SUBSET Told])
          /\ Len(reports') = Len(reports) + 1
          /\ reports'[Len(reports')] = [op |-> op, err |-> answer]
          /\ \A i \in DOMAIN reports : reports'[i] = reports[i]
      <4>1. op \in {"begin", "commit", "rollback"}
        BY <3>1
      <4>2. /\ Report(op, answer) \in Seq([op : {"begin", "commit", "rollback"}, err : SUBSET Told])
            /\ Len(Report(op, answer)) = Len(reports) + 1
            /\ Report(op, answer)[Len(Report(op, answer))] = [op |-> op, err |-> answer]
            /\ \A i \in DOMAIN reports : Report(op, answer)[i] = reports[i]
        BY <3>1, <3>3, <4>1, ReportTyped
      <4> QED
        BY <3>2, <4>2
    <3>5. answer = nil => db = IF op = "commit" THEN "committed" ELSE "rolledback"
      BY DEF TrueAnswer
    <3>6. ASSUME NEW i \in DOMAIN reports', reports'[i].err = nil
          PROVE  CASE reports'[i].op = "commit"   -> db = "committed"
                   [] reports'[i].op = "rollback" -> db = "rolledback"
                   [] OTHER                       -> TRUE
      <4>1. CASE i = Len(reports')
        BY <3>1, <3>4, <3>5, <3>6, <4>1
      <4>2. CASE i # Len(reports')
        <5>1. i \in DOMAIN reports
          BY <3>3, <3>4, <4>2
        <5> QED
          BY <3>4, <3>6, <5>1 DEF ReportsAreTrue
      <4> QED
        BY <4>1, <4>2
    <3> QED
      BY <3>2, <3>4, <3>6 DEF ReportsAreTrue, Last
  <2> QED
    BY <2>1, <2>2 DEF TypeOK
<1> QED
  BY <1>1, <1>2, <1>3

-----------------------------------------------------------------------------
(* The theorems                                                            *)

\* Every step preserves the invariant.
LEMMA StepKeeps ==
  ASSUME TxInv, [Next]_vars
  PROVE  Kept
<1>1. CASE \E withCtx \in BOOLEAN : Begin(withCtx)
  BY <1>1, BeginKeeps
<1>2. CASE \E e \in BodyErrors : CloseWithErr(e)
  <2> PICK e \in BodyErrors : CloseWithErr(e)
    BY <1>2
  <2>1. e \in Error
    BY DEF BodyErrors, nil, Error, Cause
  <2> QED
    BY <2>1, StartCloseKeeps DEF CloseWithErr
<1>3. CASE \E o \in {"commit", "rollback"} : Direct(o)
  <2>1. nil \in Error
    BY DEF nil, Error
  <2> QED
    BY <1>3, <2>1, StartCloseKeeps DEF Direct
<1>4. CASE Library
  BY <1>4, CommitCheckKeeps, TakeKeeps, SendKeeps, ReturnKeeps DEF Library
<1>5. CASE Again
  <2>1. ReportsAreTrue'
    BY <1>5 DEF Again, ReportsAreTrue
  <2> QED
    BY <1>5, <2>1 DEF Again, Kept, OneEnd, AsAsked, TrueAnswer, NoCommitTooLate, Ending, Ended, nil
<1>6. CASE UNCHANGED vars
  BY <1>6 DEF vars, Kept, TxInv, OneEnd, Ending, AsAsked, TrueAnswer, NoCommitTooLate, ReportsAreTrue
<1> QED
  BY <1>1, <1>2, <1>3, <1>4, <1>5, <1>6, CancelKeeps, WaiterKeeps DEF Next

\* It always holds.
LEMMA TxInvariant == Spec => []TxInv
<1>1. TxInv /\ [Next]_vars => TxInv'
  BY TypeStep, StepKeeps DEF TxInv, Kept
<1> QED
  BY <1>1, InitTx, PTL DEF Spec

\* Types, and the hooks are never told of the error of the body.
THEOREM TypeCorrect == Spec => []TypeOK
<1>1. TxInv => TypeOK
  BY DEF TxInv
<1> QED
  BY <1>1, TxInvariant, PTL

\* A rollback has been asked for by CloseWithErr and reported.
ToldOfRollback == \E i \in DOMAIN reports : reports[i].op = "rollback"

\* A rollback that has an answer leaves tx.done set, by itself or by who came first,
\* so that no close after it gets as far as the driver.
Refused ==
  /\ pc = "answered" /\ op = "rollback" => done
  /\ ToldOfRollback => done /\ pc # "sending"

\* A report of something else than a rollback is no report of a rollback.
LEMMA ReportsNothingNew ==
  ASSUME TypeOK, NEW o \in {"begin", "commit"}, NEW e, reports' = Report(o, e)
  PROVE  ToldOfRollback' => ToldOfRollback
  BY DEF TypeOK, ToldOfRollback, Report

\* Every step preserves it.
LEMMA RefusedStep ==
  ASSUME TxInv, Refused, [Next]_vars
  PROVE  Refused'
<1> USE DEF TxInv, Refused
<1>1. CASE \E withCtx \in BOOLEAN : Begin(withCtx)
  <2>1. ToldOfRollback' => ToldOfRollback
    BY <1>1, ReportsNothingNew DEF Begin
  <2> QED
    BY <1>1, <2>1 DEF Begin, OneEnd
<1>2. CASE Cancel
  BY <1>2 DEF Cancel, sqlVars, ToldOfRollback
<1>3. ASSUME NEW o \in {"commit", "rollback"}, NEW viaHook, NEW e, StartClose(o, viaHook, e) PROVE Refused'
  BY <1>3 DEF StartClose, sqlVars, ToldOfRollback
<1>4. CASE \E e \in BodyErrors : CloseWithErr(e)
  BY <1>3, <1>4 DEF CloseWithErr
<1>5. CASE \E o \in {"commit", "rollback"} : Direct(o)
  BY <1>3, <1>5 DEF Direct
<1>6. CASE CommitCheck
  BY <1>6 DEF CommitCheck, Answer, sqlVars, ToldOfRollback, AsAsked
<1>7. CASE Take
  BY <1>7 DEF Take, Answer, ToldOfRollback
<1>8. CASE Send
  BY <1>8 DEF Send, Answer, ToldOfRollback, OneEnd, Ending
<1>9. CASE Return
  <2>1. op = "rollback" => done
    BY <1>9 DEF Return
  <2>2. ToldOfRollback' => ToldOfRollback \/ op = "rollback"
    <3>1. CASE hooked /\ op # "rollback"
      <4>1. op = "commit"
        BY <1>9, <3>1 DEF Return, AsAsked, TypeOK
      <4> QED
        BY <1>9, <3>1, <4>1, ReportsNothingNew DEF Return
    <3>2. CASE ~hooked
      BY <1>9, <3>2 DEF Return, ToldOfRollback
    <3> QED
      BY <3>1, <3>2
  <2> QED
    BY <1>9, <2>1, <2>2 DEF Return, sqlVars
<1>10. CASE Waiter
  BY <1>10 DEF Waiter, WaiterWakes, WaiterRollsBack, ToldOfRollback
<1>11. CASE Again
  BY <1>11 DEF Again, ToldOfRollback
<1>12. CASE UNCHANGED vars
  BY <1>12 DEF vars, ToldOfRollback
<1> QED
  BY <1>1, <1>2, <1>4, <1>5, <1>6, <1>7, <1>8, <1>9, <1>10, <1>11, <1>12 DEF Next, Library

\* Once CloseWithErr has been given an error, no step of anyone commits the
\* transaction.
THEOREM FailedIsNotCommitted == Spec => ErrorNeverCommits
<1>1. Init => Refused
  BY DEF Init, Refused, ToldOfRollback
<1>2. TxInv /\ Refused /\ [Next]_vars => Refused'
  BY RefusedStep
<1>3. TxInv /\ Refused /\ [Next]_vars => [BodyFailed /\ db' = "committed" => db = "committed"]_vars
  <2> SUFFICES ASSUME TxInv, Refused, Next, BodyFailed, db' = "committed", db # "committed"
               PROVE  FALSE
    OBVIOUS
  <2>1. Send /\ op = "commit"
    <3>1. ~WaiterRollsBack /\ ~WaiterWakes /\ ~Again /\ ~Cancel /\ ~CommitCheck /\ ~Take /\ ~Return
      BY DEF WaiterRollsBack, WaiterWakes, Again, Cancel, CommitCheck, Take, Return, sqlVars
    <3>2. /\ \A withCtx \in BOOLEAN : ~Begin(withCtx)
          /\ \A e \in BodyErrors : ~CloseWithErr(e)
          /\ \A o \in {"commit", "rollback"} : ~Direct(o)
      BY DEF Begin, CloseWithErr, Direct, StartClose, sqlVars
    <3>3. Send
      BY <3>1, <3>2 DEF Next, Library, Waiter
    <3> QED
      BY <3>3 DEF Send, Answer
  <2>2. ~(hooked /\ err # nil)
    BY <2>1 DEF Send, TxInv, AsAsked
  <2>3. ~ToldOfRollback
    BY <2>1 DEF Send, Refused
  <2> QED
    BY <2>2, <2>3 DEF BodyFailed, ToldOfRollback
<1> QED
  BY <1>1, <1>2, <1>3, TxInvariant, PTL DEF Spec, ErrorNeverCommits

\* CloseWithErr answers nil only if the server has committed.
THEOREM SuccessIsTrue == Spec => []SuccessMeansCommitted
<1>1. \A e, a : e \cup a = nil => e = nil
  BY DEF nil
<1>2. TxInv => SuccessMeansCommitted
  <2> SUFFICES ASSUME TxInv, pc = "returned", hooked, ret = nil PROVE db = "committed"
    BY DEF SuccessMeansCommitted
  <2>1. (op = "rollback" <=> err # nil) /\ ret = Returned(op, err, answer)
    BY DEF TxInv, AsAsked, TrueAnswer
  <2>2. op = "commit" /\ answer = nil
    BY <1>1, <2>1 DEF Returned, TxInv, TypeOK, AsAsked
  <2> QED
    BY <2>2 DEF TxInv, TrueAnswer
<1> QED
  BY <1>2, TxInvariant, PTL

\* CloseWithErr returns the error it was given and the error of the end.
THEOREM ErrorsAreKept == Spec => []NoErrorIsLost
<1>1. TxInv => NoErrorIsLost
  BY DEF TxInv, AsAsked, TrueAnswer, Returned, NoErrorIsLost, nil
<1> QED
  BY <1>1, TxInvariant, PTL

\* The hooks are told once of every close, and of no success that did not happen.
THEOREM HooksAreToldTheTruth == Spec => []ReportsAreTrue
<1>1. TxInv => ReportsAreTrue
  BY DEF TxInv
<1> QED
  BY <1>1, TxInvariant, PTL

\* A context that ended before the first close leaves nothing committed.
THEOREM CancelWins == Spec => []CancelledIsNotCommitted
<1>1. TxInv => CancelledIsNotCommitted
  BY DEF TxInv, TrueAnswer, NoCommitTooLate, AsAsked, Returned, CancelledIsNotCommitted
<1> QED
  BY <1>1, TxInvariant, PTL
=============================================================================
