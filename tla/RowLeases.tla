----------------------------- MODULE RowLeases -----------------------------
(***************************************************************************)
(* Who closes the rows of a query.  An open sql.Rows keeps a connection of *)
(* the pool, so Get, Select and the methods of a Row must close it on all  *)
(* of their ways out (row.go, scan.go, sqlx.go, db.go): destinations that  *)
(* are refused, columns that do not fit, rows that fail half-way, panics   *)
(* of a mapping or of a Scanner.  Until they get to it the AfterQuery      *)
(* hooks run, which may panic or query the same pool.                      *)
(*                                                                         *)
(* Every goroutine makes one call.  The pool, the driver and the closing   *)
(* of rows after a cancellation are database/sql's (external); which rows  *)
(* the driver has, and which destinations are refused, is left open.       *)
(***************************************************************************)
EXTENDS Naturals, Sequences, FiniteSets

CONSTANTS
  Goroutine,
  MaxOpen,    \* SetMaxOpenConns: the connections of the pool
  MaxRows,    \* bound on the rows of a result
  MaxScans    \* bound on the scans of one Row

ASSUME BoundAssumption == MaxOpen \in Nat \ {0} /\ MaxRows \in Nat /\ MaxScans \in Nat

VARIABLES
  pc,       \* where each goroutine is
  op,       \* what it calls: "get", "select", or "row" for QueryRowx and a scan of the Row
  ctx,      \* its context: "background", "live" or "done"
  qerr,     \* the error of the query: err of Queryx, Row.err
  rows,     \* its sql.Rows: open or not, the rows given out, and what ended them
  dest,     \* the elements of the destination, as numbers of rows; 0 is an old one
  answer,   \* what the call returned
  scans     \* how often the program has called a scanning method of its Row

vars == <<pc, op, ctx, qerr, rows, dest, answer, scans>>

Waiting == {"acquire", "beforeWait", "afterWait"}
HookRuns == {"beforeExec", "afterExec"}
Ended == {"done", "panicked", "hookPanicked"}

NoRows == [open |-> FALSE, given |-> 0, end |-> "none"]

Init ==
  /\ pc = [g \in Goroutine |-> "idle"]
  /\ op = [g \in Goroutine |-> "get"]
  /\ ctx = [g \in Goroutine |-> "background"]
  /\ qerr = [g \in Goroutine |-> "nil"]
  /\ rows = [g \in Goroutine |-> NoRows]
  /\ dest = [g \in Goroutine |-> <<0>>]
  /\ answer = [g \in Goroutine |-> "none"]
  /\ scans = [g \in Goroutine |-> 0]

\* The connections in use: by open rows, by queries under way, and by the
\* statements that hooks execute.
InUse ==
  Cardinality({g \in Goroutine : rows[g].open})
  + Cardinality({g \in Goroutine : pc[g] = "query" \/ pc[g] \in HookRuns})

Free == InUse < MaxOpen

Goto(g, label) == pc' = [pc EXCEPT ![g] = label]

\* rows.Close: it may be called again.
Closed(g) == [rows EXCEPT ![g].open = FALSE]

\* Mutated form: nothing is deferred.
Unwind_Nothing(g, label, a) ==
  /\ Goto(g, label)
  /\ answer' = [answer EXCEPT ![g] = a]
  /\ UNCHANGED <<op, ctx, qerr, rows, dest, scans>>

\* Leaving a function that has deferred rows.Close(), by return or by panic.
Unwind(g, label, a) ==
  /\ Goto(g, label)
  /\ answer' = [answer EXCEPT ![g] = a]
  /\ rows' = Closed(g)
  /\ UNCHANGED <<op, ctx, qerr, dest, scans>>

\* Returning before anything was deferred.
Return(g, a) ==
  /\ Goto(g, "done")
  /\ answer' = [answer EXCEPT ![g] = a]
  /\ UNCHANGED <<op, ctx, qerr, rows, dest, scans>>

Proceed(g, label) == Goto(g, label) /\ UNCHANGED <<op, ctx, qerr, rows, dest, answer, scans>>

-----------------------------------------------------------------------------
(* The query: QueryxContext and QueryRowxContext of a DB                   *)

Call(g, o, c) ==
  /\ pc[g] = "idle"
  /\ Goto(g, "prepare")
  /\ op' = [op EXCEPT ![g] = o]
  /\ ctx' = [ctx EXCEPT ![g] = c]
  /\ UNCHANGED <<qerr, rows, dest, answer, scans>>

\* Where a call goes on once the query is over: Select returns its error or scans
\* all rows, Get scans the Row, the program scans a Row when it likes.
AfterQueryx(g, err) ==
  CASE op[g] = "row"                    -> "row"
    [] op[g] = "get"                    -> "scanAny"
    [] op[g] = "select" /\ err = "nil"  -> "scanAll"
    [] op[g] = "select" /\ err # "nil"  -> "queryFailed"

QueryFailed(g) == pc[g] = "queryFailed" /\ Return(g, qerr[g])

\* prepare: autoIn refuses an argument, and no hook runs.
ArgError(g) ==
  /\ pc[g] = "prepare"
  /\ qerr' = [qerr EXCEPT ![g] = "argument"]
  /\ Goto(g, AfterQueryx(g, "argument"))
  /\ UNCHANGED <<op, ctx, rows, dest, answer, scans>>

\* The BeforeQuery hooks: they return, execute a statement of their own, or panic.
BeforeHooks(g) ==
  /\ pc[g] = "prepare"
  /\ \/ \E next \in {"acquire", "beforeWait"} : Proceed(g, next)
     \/ Goto(g, "panicked") /\ answer' = [answer EXCEPT ![g] = "panic"]
        /\ UNCHANGED <<op, ctx, qerr, rows, dest, scans>>

\* A connection of the pool for the query, or for the statement of a hook.
Acquire(g) ==
  /\ pc[g] \in Waiting /\ Free
  /\ Proceed(g, CASE pc[g] = "acquire"    -> "query"
                  [] pc[g] = "beforeWait" -> "beforeExec"
                  [] pc[g] = "afterWait"  -> "afterExec")

\* QueryContext gives up waiting when the context is done.
AcquireCancelled(g) ==
  /\ pc[g] = "acquire" /\ ctx[g] = "done"
  /\ qerr' = [qerr EXCEPT ![g] = "ctx"]
  /\ Goto(g, "after")
  /\ UNCHANGED <<op, ctx, rows, dest, answer, scans>>

\* The statement of a hook ends, or its wait does.
HookExecuted(g) ==
  /\ pc[g] \in HookRuns \/ (pc[g] \in {"beforeWait", "afterWait"} /\ ctx[g] = "done")
  /\ Proceed(g, IF pc[g] \in {"beforeWait", "beforeExec"} THEN "acquire" ELSE AfterQueryx(g, qerr[g]))

\* The driver answers with rows, which keep the connection, or with an error.
Query(g) ==
  /\ pc[g] = "query"
  /\ Goto(g, "after")
  /\ \/ rows' = [rows EXCEPT ![g].open = TRUE] /\ qerr' = qerr
     \/ qerr' = [qerr EXCEPT ![g] = "driver"] /\ rows' = rows
  /\ UNCHANGED <<op, ctx, dest, answer, scans>>

\* The AfterQuery hooks, while the rows are open and only QueryxContext knows them.
AfterHooks(g) ==
  /\ pc[g] = "after"
  /\ \/ \E next \in {AfterQueryx(g, qerr[g]), "afterWait"} : Proceed(g, next)
     \/ Goto(g, "hookPanicked") /\ answer' = [answer EXCEPT ![g] = "panic"]
        /\ UNCHANGED <<op, ctx, qerr, rows, dest, scans>>

-----------------------------------------------------------------------------
(* A Row                                                                   *)

\* The program calls Scan, StructScan, SliceScan or MapScan on the Row it got.
ScanRow(g) ==
  /\ pc[g] = "row"
  /\ scans' = [scans EXCEPT ![g] = @ + 1]
  /\ \E method \in {"scanAny", "rowColumns", "rowScan"} : Goto(g, method)
  /\ UNCHANGED <<op, ctx, qerr, rows, dest, answer>>

\* It may do so again.
ScanRowAgain(g) ==
  /\ pc[g] = "done" /\ op[g] = "row" /\ scans[g] < MaxScans
  /\ Proceed(g, "row")

\* Mutated form: the destination is checked before the close is deferred.
scanAny_LateDefer(g) ==
  /\ pc[g] = "scanAny"
  /\ IF qerr[g] # "nil" THEN Return(g, qerr[g]) ELSE Return(g, "destination") \/ Proceed(g, "columns")

\* scanAny (Get and Row.StructScan) up to its look at the columns: a Row with an error
\* returns it; with the close deferred, destinations that are no pointers, nil, or no
\* structs where one is asked for are refused; looking at the type may panic.
scanAny(g) ==
  /\ pc[g] = "scanAny"
  /\ \/ qerr[g] # "nil" /\ Return(g, qerr[g])
     \/ qerr[g] = "nil" /\
        \/ Unwind(g, "done", "destination")
        \/ Unwind(g, "panicked", "panic")
        \/ Proceed(g, "columns")

\* The error of closed rows: what ended them, if that was an error.
RowsErr(g) == IF rows[g].end \in {"none", "eof"} THEN "nil" ELSE rows[g].end
ClosedErr(g) == IF RowsErr(g) = "nil" THEN "closed" ELSE RowsErr(g)

\* Columns, which only closed rows refuse; then the traversals, where a mapping may
\* panic, and the checks of columns against the destination.
Columns(g) ==
  /\ pc[g] = "columns"
  /\ \/ ~rows[g].open /\ Unwind(g, "done", ClosedErr(g))
     \/ rows[g].open /\
        \/ Unwind(g, "done", "destination")
        \/ Unwind(g, "panicked", "panic")
        \/ Proceed(g, IF op[g] = "select" THEN "next" ELSE "rowScan")

\* SliceScan and MapScan of a Row, which have deferred nothing.
RowColumns(g) ==
  /\ pc[g] = "rowColumns"
  /\ CASE qerr[g] # "nil"                   -> Return(g, qerr[g])
       [] qerr[g] = "nil" /\ ~rows[g].open  -> Return(g, ClosedErr(g))
       [] qerr[g] = "nil" /\ rows[g].open   -> Proceed(g, "rowScan")

\* Row.Scan up to Next: it refuses RawBytes.
RowScan(g) ==
  /\ pc[g] = "rowScan"
  /\ \/ qerr[g] # "nil" /\ Return(g, qerr[g])
     \/ qerr[g] = "nil" /\ (Unwind(g, "done", "destination") \/ Proceed(g, "next"))

-----------------------------------------------------------------------------
(* All rows                                                                *)

\* scanAll up to its look at the columns, Select having deferred the close: a
\* destination that is no pointer to a slice is refused, the slice is emptied, and then
\* an element type with RawBytes in it is refused; looking at the type may panic.
scanAll(g) ==
  /\ pc[g] = "scanAll"
  /\ \/ Unwind(g, "done", "destination")
     \/ /\ dest' = [dest EXCEPT ![g] = <<>>]
        /\ UNCHANGED <<op, ctx, qerr, scans>>
        /\ \/ Goto(g, "columns") /\ UNCHANGED <<rows, answer>>
           \/ /\ rows' = Closed(g)
              /\ \/ Goto(g, "done") /\ answer' = [answer EXCEPT ![g] = "destination"]
                 \/ Goto(g, "panicked") /\ answer' = [answer EXCEPT ![g] = "panic"]

-----------------------------------------------------------------------------
(* Rows (database/sql)                                                     *)

\* Next: a row; the end, which closes the rows unless another result set follows; an
\* error of the driver.  Closed rows have no next.
RowsNext(g) ==
  /\ pc[g] = "next"
  /\ \/ /\ rows[g].open /\ rows[g].end = "none" /\ rows[g].given < MaxRows
        /\ rows' = [rows EXCEPT ![g].given = @ + 1]
        /\ Goto(g, "assign")
     \/ /\ rows[g].open /\ rows[g].end = "none"
        /\ \E more \in BOOLEAN : rows' = [rows EXCEPT ![g].end = "eof", ![g].open = more]
        /\ Goto(g, "err")
     \/ /\ rows[g].open /\ rows[g].end = "none"
        /\ rows' = [rows EXCEPT ![g].end = "driver", ![g].open = FALSE]
        /\ Goto(g, "err")
     \/ ~rows[g].open /\ rows' = rows /\ Goto(g, "err")
  /\ UNCHANGED <<op, ctx, qerr, dest, answer, scans>>

\* Mutated form: the loop of scanAll is over, so all went well.
EndAnswer_All(g) == IF op[g] = "select" THEN "nil" ELSE IF RowsErr(g) = "nil" THEN "norows" ELSE RowsErr(g)

\* Mutated form: an empty result is an error of every call.
EndAnswer_NoRows(g) == IF RowsErr(g) = "nil" THEN "norows" ELSE RowsErr(g)

\* Mutated form: Row.Scan returns the error of the rows, which is nil when there are none.
EndAnswer_Nil(g) == RowsErr(g)

\* Mutated form: Row.Scan, like sql.Row.Scan once did, does not ask the rows for an error.
EndAnswer_Row(g) == IF op[g] = "select" THEN RowsErr(g) ELSE "norows"

\* When Next says there is no more, the rows are asked for an error; without one a
\* Row had no row and Select has all.
EndAnswer(g) ==
  IF RowsErr(g) # "nil" THEN RowsErr(g) ELSE IF op[g] = "select" THEN "nil" ELSE "norows"

Err(g) == pc[g] = "err" /\ Unwind(g, "done", EndAnswer(g))

\* Rows.Scan: it fails on rows closed meanwhile and on values that do not convert, and
\* a Scanner may panic.  Select appends the new element; a Row wrote into the destination.
Assign(g) ==
  /\ pc[g] = "assign"
  /\ \/ ~rows[g].open /\ Unwind(g, "done", ClosedErr(g))
     \/ rows[g].open /\ (Unwind(g, "done", "scan") \/ Unwind(g, "panicked", "panic"))
     \/ /\ rows[g].open
        /\ dest' = [dest EXCEPT ![g] = IF op[g] = "select" THEN Append(@, rows[g].given) ELSE <<rows[g].given>>]
        /\ Goto(g, IF op[g] = "select" THEN "next" ELSE "close")
        /\ UNCHANGED <<op, ctx, qerr, rows, answer, scans>>

\* The explicit Close of Row.Scan, whose error is the answer.
Close(g) ==
  /\ pc[g] = "close"
  /\ \E a \in {"nil"} \cup (IF rows[g].open THEN {"driver"} ELSE {}) : Unwind(g, "done", a)

\* The program, or a deadline, cancels the context.  It matters to nobody once the call
\* has ended and its rows are closed.
Cancel(g) ==
  /\ ctx[g] = "live" /\ pc[g] # "idle"
  /\ pc[g] \notin Ended \/ rows[g].open
  /\ ctx' = [ctx EXCEPT ![g] = "done"]
  /\ UNCHANGED <<pc, op, qerr, rows, dest, answer, scans>>

\* A goroutine of database/sql then closes the rows.
AwaitDone(g) ==
  /\ ctx[g] = "done" /\ rows[g].open
  /\ rows' = [rows EXCEPT ![g].open = FALSE, ![g].end = "ctx"]
  /\ UNCHANGED <<pc, op, ctx, qerr, dest, answer, scans>>

-----------------------------------------------------------------------------
Step(g) ==
  \/ QueryFailed(g) \/ ArgError(g) \/ BeforeHooks(g) \/ Acquire(g) \/ AcquireCancelled(g)
  \/ HookExecuted(g) \/ Query(g) \/ AfterHooks(g)
  \/ ScanRow(g) \/ scanAny(g) \/ Columns(g) \/ RowColumns(g) \/ RowScan(g) \/ scanAll(g)
  \/ RowsNext(g) \/ Err(g) \/ Assign(g) \/ Close(g)

Next ==
  \E g \in Goroutine :
    \/ \E o \in {"get", "select", "row"}, c \in {"background", "live"} : Call(g, o, c)
    \/ Step(g)
    \/ ScanRowAgain(g)
    \/ Cancel(g)
    \/ AwaitDone(g)

Spec == Init /\ [][Next]_vars

\* Hooks, drivers and scans go on, and a program scans the Row it asked for: that is
\* what closes it.
FairSpec == Spec /\ \A g \in Goroutine : WF_vars(Step(g)) /\ WF_vars(AwaitDone(g))

-----------------------------------------------------------------------------
(* What must hold                                                          *)

Error == {"argument", "driver", "ctx", "destination", "scan", "closed"}

\* The variables stay in their types, no more connections are in use than the pool
\* has, and an empty result is an error of Get and Row (ErrNoRows) but not of Select.
TypeOK ==
  /\ pc \in [Goroutine -> Waiting \cup HookRuns \cup Ended \cup
                {"idle", "prepare", "query", "queryFailed", "after", "row", "scanAny", "columns",
                 "rowColumns", "rowScan", "scanAll", "next", "err", "assign", "close"}]
  /\ op \in [Goroutine -> {"get", "select", "row"}]
  /\ ctx \in [Goroutine -> {"background", "live", "done"}]
  /\ qerr \in [Goroutine -> {"nil", "argument", "driver", "ctx"}]
  /\ rows \in [Goroutine -> [open : BOOLEAN, given : 0..MaxRows, end : {"none", "eof", "driver", "ctx"}]]
  /\ \A g \in Goroutine : dest[g] \in Seq(0..MaxRows)
  /\ answer \in [Goroutine -> Error \cup {"none", "nil", "norows", "panic"}]
  /\ scans \in [Goroutine -> Nat]
  /\ InUse <= MaxOpen
  /\ \A g \in Goroutine : op[g] = "select" => answer[g] # "norows"

\* "if something happens here, we want to make sure the rows are Closed"
\* (sqlx.go:402, 421): when Get, Select or the first scan of a Row is over, by whatever
\* return or panic, the rows are closed and the connection is back in the pool.  The
\* one way out that keeps it is a panic of an AfterQuery hook, which happens before
\* anybody can defer the close.
OnlyHooksLeak ==
  \A g \in Goroutine : pc[g] \in {"done", "panicked"} => ~rows[g].open

\* What ErrNoRows says, on which programs insert.  At any scan: no error of the driver
\* and no cancellation has been turned into it (row.go:21: Scan "does not discard the
\* underlying error from the internal rows object").  From Get and from the first scan of
\* a Row: the driver had no row, and was read to the end to learn it.  Only of those: a
\* later scan finds the rows closed by the one before and answers ErrNoRows whatever the
\* result was (row.go:51-56), as database/sql's own Row does.
ErrNoRowsMeansEmpty ==
  \A g \in Goroutine : pc[g] = "done" /\ answer[g] = "norows" =>
    /\ RowsErr(g) = "nil"
    /\ scans[g] <= 1 => rows[g].given = 0 /\ rows[g].end = "eof"

\* Get and a Row answer nil for the first row of the result, and for it once: a Row that
\* is scanned again has closed its rows and never claims to have scanned something.
RowIsScannedOnce ==
  \A g \in Goroutine :
    pc[g] = "done" /\ op[g] # "select" /\ answer[g] = "nil" => dest[g] = <<1>> /\ scans[g] <= 1

\* Select answers nil only with every row of the result, in order, in the
\* destination.  With any other answer the destination is untouched or holds the rows
\* from the first up to some row: none of an older call, none that failed.
SelectIsComplete ==
  \A g \in Goroutine : op[g] = "select" =>
    /\ pc[g] = "done" /\ answer[g] = "nil" => rows[g].end = "eof" /\ Len(dest[g]) = rows[g].given
    /\ \/ dest[g] = [i \in 1..Len(dest[g]) |-> i]
       \/ dest[g] = <<0>> /\ answer[g] # "nil"

\* The pool has no connection to give: each is kept by rows that a panicking hook has
\* left behind, or by a call whose AfterQuery hook waits for a second one.
Exhausted == Cardinality({g \in Goroutine : rows[g].open /\ pc[g] \in {"hookPanicked", "afterWait"}}) = MaxOpen

\* Every call ends, whoever else waits for the pool, unless hooks exhaust it for good.
CallsEnd == \A g \in Goroutine : pc[g] # "idle" ~> (pc[g] \in Ended \/ []Exhausted)
=============================================================================
