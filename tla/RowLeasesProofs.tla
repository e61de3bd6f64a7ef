--------------------------- MODULE RowLeasesProofs ---------------------------
(***************************************************************************)
(* Proofs about RowLeases, for any number of goroutines, connections, rows *)
(* and scans: the rows of Get, Select and Row are closed, and what these   *)
(* calls answer is true.                                                   *)
(***************************************************************************)
EXTENDS RowLeases, FiniteSetTheorems, TLAPS

Location ==
  Waiting \cup HookRuns \cup Ended \cup
  {"idle", "prepare", "query", "queryFailed", "after", "row", "scanAny", "columns",
   "rowColumns", "rowScan", "scanAll", "next", "err", "assign", "close"}

\* The types of the variables: TypeOK without its statements about the pool and about
\* the answers of Select.
Typed ==
  /\ pc \in [Goroutine -> Location]
  /\ op \in [Goroutine -> {"get", "select", "row"}]
  /\ ctx \in [Goroutine -> {"background", "live", "done"}]
  /\ qerr \in [Goroutine -> {"nil", "argument", "driver", "ctx"}]
  /\ rows \in [Goroutine -> [open : BOOLEAN, given : 0..MaxRows, end : {"none", "eof", "driver", "ctx"}]]
  /\ dest \in [Goroutine -> Seq(0..MaxRows)]
  /\ answer \in [Goroutine -> Error \cup {"none", "nil", "norows", "panic"}]
  /\ scans \in [Goroutine -> Nat]

\* The first n rows of a result.
Rows(n) == [i \in 1..n |-> i]

Early == {"idle", "prepare", "beforeWait", "beforeExec", "acquire", "query"}
After == {"after", "afterWait", "afterExec"}
OfRow == {"row", "scanAny", "rowColumns", "rowScan", "close"}
Reading == {"columns", "next", "assign", "err"}

\* Rows that nobody has read from: open, unless the context has ended.
Unread(g) ==
  rows[g].given = 0 /\ rows[g].end \in {"none", "ctx"} /\ (rows[g].end = "none" => rows[g].open)

\* The query: no rows before it and none with its error; open rows are in the hands of
\* the AfterQuery hooks or of a function that will close them.
QueryInv(g) ==
  /\ pc[g] \in Early => rows[g] = NoRows /\ qerr[g] = "nil"
  /\ qerr[g] # "nil" => rows[g] = NoRows
  /\ rows[g].open => pc[g] \in After \cup OfRow \cup Reading \cup {"scanAll", "hookPanicked"}
  /\ pc[g] \in Early \cup After => scans[g] = 0 /\ dest[g] = <<0>> /\ answer[g] = "none"
  /\ pc[g] \in After /\ qerr[g] = "nil" => Unread(g)
  /\ pc[g] = "queryFailed" => qerr[g] # "nil" /\ op[g] = "select" /\ dest[g] = <<0>>
  /\ pc[g] = "scanAll" => qerr[g] = "nil" /\ op[g] = "select" /\ dest[g] = <<0>> /\ Unread(g)
  /\ pc[g] \in OfRow => op[g] # "select"
  /\ pc[g] \in Reading \cup {"close"} => qerr[g] = "nil"

\* A Row, of Get too: unread until its first scan, closed from then on.
RowInv(g) ==
  op[g] # "select" =>
    /\ op[g] = "row" /\ pc[g] \in (OfRow \cup Reading \cup {"done"}) \ {"row"} => scans[g] > 0
    /\ pc[g] = "row" /\ scans[g] = 0 /\ qerr[g] = "nil" => Unread(g)
    /\ pc[g] = "row" /\ scans[g] > 0 => ~rows[g].open
    /\ pc[g] \in OfRow \cup Reading /\ scans[g] > 1 => ~rows[g].open
    /\ pc[g] \in {"scanAny", "rowColumns", "rowScan", "columns", "next"} /\ scans[g] <= 1 /\ qerr[g] = "nil" => Unread(g)
    /\ pc[g] = "assign" => rows[g].given = 1 /\ scans[g] <= 1
    /\ pc[g] = "close" => dest[g] = <<1>> /\ scans[g] <= 1
    /\ pc[g] = "err" /\ scans[g] <= 1 => rows[g].end # "none" /\ (rows[g].end = "eof" => rows[g].given = 0)
    /\ pc[g] = "done" /\ answer[g] = "norows" =>
         rows[g].end \in {"none", "eof"} /\ (scans[g] <= 1 => rows[g].given = 0 /\ rows[g].end = "eof")
    /\ pc[g] = "done" /\ answer[g] = "nil" => dest[g] = <<1>> /\ scans[g] <= 1

\* Select: the destination is what it was, or the rows read so far.
SelectInv(g) ==
  op[g] = "select" =>
    /\ answer[g] # "norows"
    /\ pc[g] # "done" => answer[g] # "nil"
    /\ pc[g] \in {"columns", "next", "assign"} =>
         rows[g].end \in {"none", "ctx"} /\ (rows[g].end = "none" => rows[g].open)
    /\ pc[g] \in {"columns", "next", "err"} => dest[g] = Rows(rows[g].given)
    /\ pc[g] = "assign" => rows[g].given > 0 /\ dest[g] = Rows(rows[g].given - 1)
    /\ pc[g] = "err" => rows[g].end # "none"
    /\ pc[g] = "done" /\ answer[g] = "nil" => rows[g].end = "eof" /\ dest[g] = Rows(rows[g].given)
    /\ dest[g] = <<0>> \/ \E n \in Nat : dest[g] = Rows(n)

CallInv(g) == QueryInv(g) /\ RowInv(g) /\ SelectInv(g)

LeaseInv == Typed /\ \A g \in Goroutine : CallInv(g)

-----------------------------------------------------------------------------
(* Every action is a step of one call                                      *)

\* A row appended to the rows before it.
LEMMA RowsAppend ==
  /\ Rows(0) = <<>>
  /\ \A n \in Nat : Rows(n) \in Seq(Nat) /\ Len(Rows(n)) = n /\ Append(Rows(n), n + 1) = Rows(n + 1)
  BY DEF Rows

Keeps(h) ==
  /\ pc'[h] = pc[h] /\ op'[h] = op[h] /\ ctx'[h] = ctx[h] /\ qerr'[h] = qerr[h]
  /\ rows'[h] = rows[h] /\ dest'[h] = dest[h] /\ answer'[h] = answer[h] /\ scans'[h] = scans[h]

\* What an action of g's call has to show.
Local(g) == Typed' /\ CallInv(g)' /\ \A h \in Goroutine \ {g} : Keeps(h)

\* A call depends on its own variables only.
LEMMA OthersKeep ==
  ASSUME NEW h \in Goroutine, CallInv(h), Keeps(h)
  PROVE  CallInv(h)'
  BY DEF CallInv, QueryInv, RowInv, SelectInv, Unread, Keeps

\* A call that starts.
LEMMA CallIsLocal ==
  ASSUME LeaseInv, NEW g \in Goroutine, NEW o \in {"get", "select", "row"}, NEW c \in {"background", "live"}, Call(g, o, c)
  PROVE  Local(g)
<1> USE DEF Typed, Location, Waiting, HookRuns, Ended, Error, Goto, Keeps
<1>1. Typed' /\ \A h \in Goroutine \ {g} : Keeps(h)
  BY DEF LeaseInv, Call
<1>2. CallInv(g)'
  BY DEF LeaseInv, CallInv, QueryInv, RowInv, SelectInv, Unread, Early, After, OfRow, Reading, NoRows, Call
<1> QED
  BY <1>1, <1>2 DEF Local

RowsType == [open : BOOLEAN, given : 0..MaxRows, end : {"none", "eof", "driver", "ctx"}]

\* Closing changes nothing but open, of one call.
LEMMA ClosedRows ==
  ASSUME Typed, NEW g \in Goroutine
  PROVE  /\ Closed(g) \in [Goroutine -> RowsType]
         /\ Closed(g)[g] \in RowsType
         /\ ~Closed(g)[g].open /\ Closed(g)[g].given = rows[g].given /\ Closed(g)[g].end = rows[g].end
         /\ \A h \in Goroutine \ {g} : Closed(g)[h] = rows[h]
  BY ZenonT(60) DEF Typed, Closed, RowsType

\* Where rows are closed on the way out, and what an answer given there has to say.
Closing == (OfRow \cup Reading \cup {"scanAll"}) \ {"row"}

IsTrue(g, label, a) ==
  /\ a = "norows" => /\ op[g] # "select" /\ rows[g].end \in {"none", "eof"}
                     /\ scans[g] <= 1 => rows[g].given = 0 /\ rows[g].end = "eof"
  /\ a = "nil" => /\ op[g] = "select" => label = "done" /\ rows[g].end = "eof" /\ dest[g] = Rows(rows[g].given)
                  /\ op[g] # "select" => dest[g] = <<1>> /\ scans[g] <= 1

\* Leaving a function that closes the rows, with an answer that is true.
LEMMA UnwindIsLocal ==
  ASSUME LeaseInv, NEW g \in Goroutine, pc[g] \in Closing, qerr[g] = "nil",
         NEW label \in {"done", "panicked"}, NEW a \in Error \cup {"nil", "norows", "panic"},
         Unwind(g, label, a), IsTrue(g, label, a)
  PROVE  Local(g)
<1> USE DEF Closing, IsTrue, Location, Waiting, HookRuns, Ended, Error, Goto, Early, After, OfRow, Reading
<1>1. Typed
  BY DEF LeaseInv
<1>2. /\ pc'[g] = label /\ answer'[g] = a
      /\ UNCHANGED <<op, ctx, qerr, dest, scans>>
      /\ ~rows'[g].open /\ rows'[g].given = rows[g].given /\ rows'[g].end = rows[g].end
  BY <1>1, ClosedRows DEF Unwind, Typed
<1>3. \A h \in Goroutine \ {g} : Keeps(h)
  BY <1>1, ClosedRows DEF Unwind, Typed, Keeps
<1>4. Typed'
  <2>1. rows' \in [Goroutine -> RowsType]
    BY <1>1, ClosedRows DEF Unwind
  <2>2. pc' \in [Goroutine -> Location] /\ answer' \in [Goroutine -> Error \cup {"none", "nil", "norows", "panic"}]
    BY <1>1 DEF Typed, Unwind
  <2> QED
    BY <1>1, <1>2, <2>1, <2>2 DEF Typed, RowsType
<1>5. QueryInv(g)'
  BY <1>2 DEF LeaseInv, CallInv, QueryInv, Unread
<1>6. RowInv(g)'
  BY <1>2 DEF LeaseInv, CallInv, QueryInv, RowInv, Unread
<1>7. SelectInv(g)'
  BY <1>2 DEF LeaseInv, CallInv, SelectInv
<1> QED
  BY <1>3, <1>4, <1>5, <1>6, <1>7 DEF Local, CallInv

\* Leaving with an error before a close was deferred: there are no rows.
LEMMA ReturnIsLocal ==
  ASSUME LeaseInv, NEW g \in Goroutine, pc[g] \in {"queryFailed", "scanAny", "rowColumns", "rowScan"},
         NEW a \in Error, Return(g, a), ~rows[g].open
  PROVE  Local(g)
<1> USE DEF Location, Waiting, HookRuns, Ended, Error, Goto, Early, After, OfRow, Reading
<1>1. Typed' /\ \A h \in Goroutine \ {g} : Keeps(h)
  BY DEF LeaseInv, Return, Typed, Keeps
<1>2. pc'[g] = "done" /\ answer'[g] = a /\ UNCHANGED <<op, ctx, qerr, rows, dest, scans>>
  BY DEF LeaseInv, Return, Typed
<1>3. QueryInv(g)' /\ RowInv(g)' /\ SelectInv(g)'
  BY <1>2 DEF LeaseInv, CallInv, QueryInv, RowInv, SelectInv, Unread
<1> QED
  BY <1>1, <1>3 DEF Local, CallInv

-----------------------------------------------------------------------------
(* The query                                                               *)

\* Where a call goes on, by what it calls.
LEMMA GoesOn ==
  ASSUME Typed, NEW g \in Goroutine, NEW err
  PROVE  /\ op[g] = "row" => AfterQueryx(g, err) = "row"
         /\ op[g] = "get" => AfterQueryx(g, err) = "scanAny"
         /\ op[g] = "select" => AfterQueryx(g, err) = IF err = "nil" THEN "scanAll" ELSE "queryFailed"
         /\ AfterQueryx(g, err) \in {"row", "scanAny", "scanAll", "queryFailed"}
<1>1. op[g] \in {"get", "select", "row"}
  BY DEF Typed
<1> QED
  BY <1>1 DEF AfterQueryx

\* The error of the query is returned.
LEMMA QueryFailedIsLocal ==
  ASSUME LeaseInv, NEW g \in Goroutine, QueryFailed(g)
  PROVE  Local(g)
<1>1. qerr[g] \in Error /\ ~rows[g].open
  BY DEF LeaseInv, Typed, CallInv, QueryInv, QueryFailed, Error, NoRows
<1> QED
  BY <1>1, ReturnIsLocal DEF QueryFailed

\* Arguments that are refused before the query.
LEMMA ArgErrorIsLocal ==
  ASSUME LeaseInv, NEW g \in Goroutine, ArgError(g)
  PROVE  Local(g)
<1> DEFINE next == AfterQueryx(g, "argument")
<1> USE DEF Location, Waiting, HookRuns, Ended, Error, Goto
<1>1. Typed /\ CallInv(g)
  BY DEF LeaseInv
<1>2. /\ next \in {"row", "scanAny", "queryFailed"} /\ next # "scanAll"
      /\ op[g] = "select" <=> next = "queryFailed"
      /\ op[g] = "row" => next = "row"
  BY <1>1, GoesOn DEF Typed
<1>3. pc' = [pc EXCEPT ![g] = next] /\ qerr' = [qerr EXCEPT ![g] = "argument"] /\ UNCHANGED <<op, ctx, rows, dest, answer, scans>>
  BY DEF ArgError
<1> HIDE DEF next
<1>4. Typed' /\ \A h \in Goroutine \ {g} : Keeps(h)
  BY <1>1, <1>2, <1>3 DEF Typed, Keeps
<1>5. pc'[g] = next /\ qerr'[g] = "argument"
  BY <1>1, <1>3 DEF Typed
<1>6. CallInv(g)'
  BY <1>1, <1>2, <1>3, <1>5 DEF ArgError, CallInv, QueryInv, RowInv, SelectInv, Unread, Early, After, OfRow, Reading, NoRows
<1> QED
  BY <1>4, <1>6 DEF Local

\* A hook panics, before the query or after it.
LEMMA HookPanicIsLocal ==
  ASSUME LeaseInv, NEW g \in Goroutine,
         \/ pc[g] = "prepare" /\ Goto(g, "panicked")
         \/ pc[g] = "after" /\ Goto(g, "hookPanicked"),
         answer' = [answer EXCEPT ![g] = "panic"],
         UNCHANGED <<op, ctx, qerr, rows, dest, scans>>
  PROVE  Local(g)
<1> USE DEF Location, Waiting, HookRuns, Ended, Error, Goto
<1>1. Typed /\ CallInv(g)
  BY DEF LeaseInv
<1>2. Typed'
  BY <1>1 DEF Typed
<1>3. \A h \in Goroutine \ {g} : Keeps(h)
  BY <1>1 DEF Typed, Keeps
<1>4. CallInv(g)'
  BY <1>1 DEF Typed, CallInv, QueryInv, RowInv, SelectInv, Unread, Early, After, OfRow, Reading, NoRows
<1> QED
  BY <1>2, <1>3, <1>4 DEF Local

\* A step before the query that changes nothing but the place, or gives up.
LEMMA WaitingIsLocal ==
  ASSUME LeaseInv, NEW g \in Goroutine, BeforeHooks(g) \/ Acquire(g) \/ AcquireCancelled(g)
  PROVE  Local(g)
<1> USE DEF Location, Waiting, HookRuns, Ended, Error, Goto, Proceed
<1>1. Typed /\ CallInv(g)
  BY DEF LeaseInv
<1>2. CASE BeforeHooks(g)
  <2>1. CASE \E next \in {"acquire", "beforeWait"} : Proceed(g, next)
    <3>1. Typed' /\ \A h \in Goroutine \ {g} : Keeps(h)
      BY <1>1, <2>1 DEF Typed, Keeps
    <3>2. CallInv(g)'
      BY <1>1, <1>2, <2>1 DEF Typed, CallInv, QueryInv, RowInv, SelectInv, Unread, Early, After, OfRow, Reading, NoRows, BeforeHooks
    <3> QED
      BY <3>1, <3>2 DEF Local
  <2> QED
    BY <1>2, <2>1, HookPanicIsLocal DEF BeforeHooks
<1>3. CASE Acquire(g)
  <2>1. \E next \in {"query", "beforeExec", "afterExec"} :
          /\ Proceed(g, next)
          /\ next = "afterExec" <=> pc[g] = "afterWait"
    BY <1>3 DEF Acquire
  <2>2. Typed' /\ \A h \in Goroutine \ {g} : Keeps(h)
    BY <1>1, <2>1 DEF Typed, Keeps
  <2>3. CallInv(g)'
    BY <1>1, <1>3, <2>1 DEF Typed, CallInv, QueryInv, RowInv, SelectInv, Unread, Early, After, OfRow, Reading, NoRows, Acquire
  <2> QED
    BY <2>2, <2>3 DEF Local
<1>4. CASE AcquireCancelled(g)
  <2>1. Typed' /\ \A h \in Goroutine \ {g} : Keeps(h)
    BY <1>1, <1>4 DEF Typed, Keeps, AcquireCancelled
  <2>2. CallInv(g)'
    BY <1>1, <1>4 DEF Typed, CallInv, QueryInv, RowInv, SelectInv, Unread, Early, After, OfRow, Reading, NoRows, AcquireCancelled
  <2> QED
    BY <2>1, <2>2 DEF Local
<1> QED
  BY <1>2, <1>3, <1>4

\* The rows after the hooks are as the driver gave them.
LEMMA GoesOnLocally ==
  ASSUME LeaseInv, NEW g \in Goroutine, pc[g] \in After, Proceed(g, AfterQueryx(g, qerr[g]))
  PROVE  Local(g)
<1> DEFINE next == AfterQueryx(g, qerr[g])
<1> USE DEF Location, Waiting, HookRuns, Ended, Error, Goto
<1>1. Typed /\ CallInv(g)
  BY DEF LeaseInv
<1>2. /\ next \in {"row", "scanAny", "scanAll", "queryFailed"}
      /\ op[g] = "select" <=> next \in {"queryFailed", "scanAll"}
      /\ op[g] = "row" => next = "row"
      /\ next = "scanAll" => qerr[g] = "nil"
      /\ next = "queryFailed" => qerr[g] # "nil"
  BY <1>1, GoesOn DEF Typed
<1>3. pc' = [pc EXCEPT ![g] = next] /\ UNCHANGED <<op, ctx, qerr, rows, dest, answer, scans>>
  BY DEF Proceed
<1> HIDE DEF next
<1>4. Typed' /\ \A h \in Goroutine \ {g} : Keeps(h)
  BY <1>1, <1>2, <1>3 DEF Typed, Keeps
<1>5. pc'[g] = next
  BY <1>1, <1>3 DEF Typed
<1>6. CallInv(g)'
  BY <1>1, <1>2, <1>3, <1>5 DEF CallInv, QueryInv, RowInv, SelectInv, Unread, Early, After, OfRow, Reading, NoRows
<1> QED
  BY <1>4, <1>6 DEF Local

\* A hook around the query returns without an error of its own.
LEMMA HookExecutedIsLocal ==
  ASSUME LeaseInv, NEW g \in Goroutine, HookExecuted(g)
  PROVE  Local(g)
<1>1. CASE pc[g] \in {"beforeWait", "beforeExec"}
  <2> USE DEF Typed, Location, Waiting, HookRuns, Ended, Error, Goto, Proceed
  <2>1. Typed' /\ \A h \in Goroutine \ {g} : Keeps(h)
    BY <1>1 DEF LeaseInv, Keeps, HookExecuted
  <2>2. CallInv(g)'
    BY <1>1 DEF LeaseInv, CallInv, QueryInv, RowInv, SelectInv, Unread, Early, After, OfRow, Reading, NoRows, HookExecuted
  <2> QED
    BY <2>1, <2>2 DEF Local
<1>2. CASE pc[g] \in {"afterWait", "afterExec"}
  BY <1>2, GoesOnLocally DEF HookExecuted, After
<1> QED
  BY <1>1, <1>2 DEF HookExecuted, HookRuns

\* The query, which takes a connection.
LEMMA QueryIsLocal ==
  ASSUME LeaseInv, NEW g \in Goroutine, Query(g)
  PROVE  Local(g)
<1> USE DEF Location, Waiting, HookRuns, Ended, Error, Goto
<1>1. Typed /\ CallInv(g)
  BY DEF LeaseInv
<1>2. rows[g] = NoRows /\ qerr[g] = "nil" /\ scans[g] = 0 /\ dest[g] = <<0>> /\ answer[g] = "none"
  BY <1>1 DEF CallInv, QueryInv, Query, Early
<1>3. CASE rows' = [rows EXCEPT ![g].open = TRUE] /\ qerr' = qerr
  <2> DEFINE r == [rows[g] EXCEPT !.open = TRUE]
  <2>1. rows' = [rows EXCEPT ![g] = r]
    BY <1>3
  <2>2. r \in RowsType /\ r.open /\ r.given = 0 /\ r.end = "none"
    <3>1. rows[g] \in RowsType /\ rows[g].given = 0 /\ rows[g].end = "none"
      BY <1>1, <1>2 DEF Typed, NoRows, RowsType
    <3> QED
      BY <3>1 DEF RowsType
  <2> HIDE DEF r
  <2>3. /\ rows' \in [Goroutine -> RowsType]
        /\ rows'[g].open /\ rows'[g].given = 0 /\ rows'[g].end = "none"
        /\ \A h \in Goroutine \ {g} : rows'[h] = rows[h]
    BY <1>1, <2>1, <2>2 DEF Typed, RowsType
  <2>4. Typed' /\ \A h \in Goroutine \ {g} : Keeps(h)
    BY <1>1, <1>3, <2>3 DEF Typed, Keeps, Query, RowsType
  <2>5. CallInv(g)'
    BY <1>1, <1>2, <1>3, <2>3 DEF Typed, Query, CallInv, QueryInv, RowInv, SelectInv, Unread, Early, After, OfRow, Reading, NoRows
  <2> QED
    BY <2>4, <2>5 DEF Local
<1>4. CASE qerr' = [qerr EXCEPT ![g] = "driver"] /\ rows' = rows
  <2>1. Typed' /\ \A h \in Goroutine \ {g} : Keeps(h)
    BY <1>1, <1>4 DEF Typed, Keeps, Query
  <2>2. CallInv(g)'
    BY <1>1, <1>2, <1>4 DEF Typed, Query, CallInv, QueryInv, RowInv, SelectInv, Unread, Early, After, OfRow, Reading, NoRows
  <2> QED
    BY <2>1, <2>2 DEF Local
<1> QED
  BY <1>3, <1>4 DEF Query

\* The AfterQuery hooks, with rows open.
LEMMA AfterHooksIsLocal ==
  ASSUME LeaseInv, NEW g \in Goroutine, AfterHooks(g)
  PROVE  Local(g)
<1> USE DEF Location, Waiting, HookRuns, Ended, Error
<1>1. Typed /\ CallInv(g) /\ pc[g] = "after"
  BY DEF LeaseInv, AfterHooks
<1>2. CASE Proceed(g, AfterQueryx(g, qerr[g]))
  BY <1>1, <1>2, GoesOnLocally DEF After
<1>3. CASE Proceed(g, "afterWait")
  <2>1. Typed' /\ \A h \in Goroutine \ {g} : Keeps(h)
    BY <1>1, <1>3 DEF Typed, Keeps, Proceed, Goto
  <2>2. CallInv(g)'
    BY <1>1, <1>3 DEF Typed, Proceed, Goto, CallInv, QueryInv, RowInv, SelectInv, Unread, Early, After, OfRow, Reading, NoRows
  <2> QED
    BY <2>1, <2>2 DEF Local
<1> QED
  BY <1>1, <1>2, <1>3, HookPanicIsLocal DEF AfterHooks

-----------------------------------------------------------------------------
(* Scanning                                                                *)

\* Going on with a scan, without touching anything else.
LEMMA ProceedIsLocal ==
  ASSUME LeaseInv, NEW g \in Goroutine, NEW label \in Location, Proceed(g, label),
         \/ pc[g] = "scanAny" /\ label = "columns" /\ qerr[g] = "nil"
         \/ pc[g] = "columns" /\ label = (IF op[g] = "select" THEN "next" ELSE "rowScan")
         \/ pc[g] = "rowColumns" /\ label = "rowScan"
         \/ pc[g] = "rowScan" /\ label = "next" /\ qerr[g] = "nil"
         \/ pc[g] = "done" /\ label = "row" /\ op[g] = "row"
  PROVE  Local(g)
<1> USE DEF Waiting, HookRuns, Ended, Error, Goto, Proceed
<1>1. Typed /\ CallInv(g)
  BY DEF LeaseInv
<1>2. Typed' /\ \A h \in Goroutine \ {g} : Keeps(h)
  BY <1>1 DEF Typed, Keeps
<1>3. pc'[g] = label /\ UNCHANGED <<op, ctx, qerr, rows, dest, answer, scans>>
  BY <1>1 DEF Typed
<1>4. CallInv(g)'
  BY <1>1, <1>3 DEF CallInv, QueryInv, RowInv, SelectInv, Unread, Early, After, OfRow, Reading, NoRows
<1> QED
  BY <1>2, <1>4 DEF Local

\* A scan of a Row begins.
LEMMA ScanRowIsLocal ==
  ASSUME LeaseInv, NEW g \in Goroutine, ScanRow(g)
  PROVE  Local(g)
<1> USE DEF Location, Waiting, HookRuns, Ended, Error, Goto
<1>1. Typed /\ CallInv(g)
  BY DEF LeaseInv
<1>2. Typed' /\ \A h \in Goroutine \ {g} : Keeps(h)
  BY <1>1 DEF Typed, Keeps, ScanRow
<1>3. CallInv(g)'
  BY <1>1 DEF Typed, ScanRow, CallInv, QueryInv, RowInv, SelectInv, Unread, Early, After, OfRow, Reading, NoRows
<1> QED
  BY <1>2, <1>3 DEF Local

\* scanAny, which checks the destination.
LEMMA scanAnyIsLocal ==
  ASSUME LeaseInv, NEW g \in Goroutine, scanAny(g)
  PROVE  Local(g)
<1>1. CASE qerr[g] # "nil" /\ Return(g, qerr[g])
  <2>1. qerr[g] \in Error /\ ~rows[g].open
    BY <1>1 DEF LeaseInv, Typed, CallInv, QueryInv, Error, NoRows
  <2> QED
    BY <1>1, <2>1, ReturnIsLocal DEF scanAny
<1>2. CASE qerr[g] = "nil" /\ (Unwind(g, "done", "destination") \/ Unwind(g, "panicked", "panic"))
  BY <1>2, UnwindIsLocal DEF scanAny, OfRow, Error, Closing, IsTrue
<1>3. CASE qerr[g] = "nil" /\ Proceed(g, "columns")
  BY <1>3, ProceedIsLocal DEF scanAny, Location
<1> QED
  BY <1>1, <1>2, <1>3 DEF scanAny

\* The error of closed rows is one.
LEMMA ClosedError ==
  ASSUME Typed, NEW g \in Goroutine
  PROVE  ClosedErr(g) \in Error /\ RowsErr(g) \in Error \cup {"nil"}
  BY DEF Typed, ClosedErr, RowsErr, Error

\* The columns of the result.
LEMMA ColumnsIsLocal ==
  ASSUME LeaseInv, NEW g \in Goroutine, Columns(g)
  PROVE  Local(g)
<1>1. qerr[g] = "nil" /\ ClosedErr(g) \in Error
  BY ClosedError DEF LeaseInv, CallInv, QueryInv, Columns, Reading
<1>2. CASE \/ Unwind(g, "done", ClosedErr(g)) \/ Unwind(g, "done", "destination")
           \/ Unwind(g, "panicked", "panic")
  BY <1>1, <1>2, UnwindIsLocal DEF Columns, Reading, Error, Closing, IsTrue
<1>3. CASE Proceed(g, IF op[g] = "select" THEN "next" ELSE "rowScan")
  BY <1>3, ProceedIsLocal DEF Columns, Location
<1> QED
  BY <1>2, <1>3 DEF Columns

\* Columns and values of the one row.
LEMMA RowScanIsLocal ==
  ASSUME LeaseInv, NEW g \in Goroutine, RowColumns(g) \/ RowScan(g)
  PROVE  Local(g)
<1>1. /\ qerr[g] # "nil" => qerr[g] \in Error /\ ~rows[g].open
      /\ ClosedErr(g) \in Error
  BY ClosedError DEF LeaseInv, Typed, CallInv, QueryInv, Error, NoRows
<1>2. CASE RowColumns(g)
  BY <1>1, <1>2, ReturnIsLocal, ProceedIsLocal DEF RowColumns, Location
<1>3. CASE RowScan(g)
  BY <1>1, <1>3, ReturnIsLocal, ProceedIsLocal, UnwindIsLocal DEF RowScan, Location, OfRow, Error, Closing, IsTrue
<1> QED
  BY <1>2, <1>3

\* scanAll, which checks the destination and empties it.
LEMMA scanAllIsLocal ==
  ASSUME LeaseInv, NEW g \in Goroutine, scanAll(g)
  PROVE  Local(g)
<1> USE DEF Location, Waiting, HookRuns, Ended, Error, Goto, Reading
<1>1. Typed /\ CallInv(g) /\ pc[g] = "scanAll"
  BY DEF LeaseInv, scanAll
<1>2. /\ qerr[g] = "nil" /\ op[g] = "select" /\ Unread(g) /\ rows[g].given = 0
  BY <1>1 DEF CallInv, QueryInv, Unread
<1>3. CASE Unwind(g, "done", "destination")
  BY <1>1, <1>2, <1>3, UnwindIsLocal DEF Closing, IsTrue
<1>4. CASE /\ dest' = [dest EXCEPT ![g] = <<>>] /\ UNCHANGED <<op, ctx, qerr, scans>>
           /\ Goto(g, "columns") /\ UNCHANGED <<rows, answer>>
  <2>1. Typed' /\ \A h \in Goroutine \ {g} : Keeps(h)
    BY <1>1, <1>4 DEF Typed, Keeps
  <2>2. dest'[g] = Rows(0) /\ pc'[g] = "columns"
    BY <1>1, <1>4, RowsAppend DEF Typed
  <2>3. CallInv(g)'
    BY <1>1, <1>2, <1>4, <2>2 DEF CallInv, QueryInv, RowInv, SelectInv, Unread, Early, After, OfRow
  <2> QED
    BY <2>1, <2>3 DEF Local
<1>5. ASSUME NEW label \in {"done", "panicked"}, NEW a \in {"destination", "panic"},
             dest' = [dest EXCEPT ![g] = <<>>], UNCHANGED <<op, ctx, qerr, scans>>,
             rows' = Closed(g), Goto(g, label), answer' = [answer EXCEPT ![g] = a]
      PROVE  Local(g)
  <2>1. Typed'
    BY <1>1, <1>5, ClosedRows DEF Typed, RowsType
  <2>2. \A h \in Goroutine \ {g} : Keeps(h)
    BY <1>1, <1>5, ClosedRows DEF Typed, Keeps
  <2>3. /\ dest'[g] = Rows(0) /\ pc'[g] = label /\ answer'[g] = a /\ ~rows'[g].open
    BY <1>1, <1>5, RowsAppend, ClosedRows DEF Typed
  <2>4. CallInv(g)'
    BY <1>1, <1>2, <1>5, <2>3 DEF CallInv, QueryInv, RowInv, SelectInv, Unread, Early, After, OfRow
  <2> QED
    BY <2>1, <2>2, <2>4 DEF Local
<1> QED
  BY <1>3, <1>4, <1>5 DEF scanAll

-----------------------------------------------------------------------------
(* Reading                                                                 *)

\* Next gives out the first row of a Row once, and the rows of a Select one by one; and
\* it knows why there is no more.
LEMMA RowsNextIsLocal ==
  ASSUME LeaseInv, NEW g \in Goroutine, RowsNext(g)
  PROVE  Local(g)
<1> USE DEF Location, Waiting, HookRuns, Ended, Goto
<1>1. Typed /\ CallInv(g) /\ pc[g] = "next" /\ UNCHANGED <<op, ctx, qerr, dest, answer, scans>>
  BY DEF LeaseInv, RowsNext
<1>2. qerr[g] = "nil" /\ rows[g] \in RowsType
  BY <1>1 DEF CallInv, QueryInv, Reading, Typed, RowsType
<1>3. ASSUME NEW r \in RowsType, NEW label \in {"assign", "err"},
             rows' = [rows EXCEPT ![g] = r], Goto(g, label),
             r.open => rows[g].open,
             label = "assign" => /\ rows[g].open /\ r.open
                                 /\ r.given = rows[g].given + 1 /\ rows[g].end = "none" /\ r.end = "none",
             label = "err" => /\ r.given = rows[g].given
                              /\ (r = rows[g] /\ ~rows[g].open) \/ r.end = "driver" \/ (r.end = "eof" /\ rows[g].open)
      PROVE  Local(g)
  <2>1. Typed' /\ \A h \in Goroutine \ {g} : Keeps(h)
    BY <1>1, <1>3 DEF Typed, Keeps, RowsType
  <2>2. pc'[g] = label /\ rows'[g] = r
    BY <1>1, <1>3 DEF Typed
  <2>3. QueryInv(g)'
    BY <1>1, <1>2, <1>3, <2>2 DEF CallInv, QueryInv, Unread, Early, After, OfRow, Reading
  <2>4. RowInv(g)'
    BY <1>1, <1>2, <1>3, <2>2 DEF CallInv, RowInv, Unread, OfRow, Reading, Typed, RowsType
  <2>5. SelectInv(g)'
    BY <1>1, <1>2, <1>3, <2>2 DEF CallInv, SelectInv, RowsType
  <2> QED
    BY <2>1, <2>3, <2>4, <2>5 DEF Local, CallInv
<1>4. CASE /\ rows[g].open /\ rows[g].end = "none" /\ rows[g].given < MaxRows
           /\ rows' = [rows EXCEPT ![g].given = @ + 1] /\ Goto(g, "assign")
  <2> DEFINE r == [rows[g] EXCEPT !.given = @ + 1]
  <2>1. r \in RowsType /\ r.open /\ r.given = rows[g].given + 1 /\ r.end = "none"
    BY <1>2, <1>4, BoundAssumption DEF RowsType
  <2>2. rows' = [rows EXCEPT ![g] = r]
    BY <1>4
  <2> QED
    BY <1>3, <1>4, <2>1, <2>2
<1>5. ASSUME NEW more \in BOOLEAN, NEW why \in {"eof", "driver"},
             rows[g].open, rows[g].end = "none",
             rows' = [rows EXCEPT ![g].end = why, ![g].open = more], Goto(g, "err")
      PROVE  Local(g)
  <2> DEFINE ended == [rows[g] EXCEPT !.end = why]
             r == [ended EXCEPT !.open = more]
  <2>1. rows' = [[rows EXCEPT ![g] = ended] EXCEPT ![g] = [[rows EXCEPT ![g] = ended][g] EXCEPT !.open = more]]
    BY <1>5
  <2>2. rows' = [rows EXCEPT ![g] = r]
    BY <1>1, <2>1 DEF Typed
  <2>3. r \in RowsType /\ r.given = rows[g].given /\ r.end = why
    BY <1>2 DEF RowsType
  <2> QED
    BY <1>3, <1>5, <2>2, <2>3
<1>6. CASE ~rows[g].open /\ rows' = rows /\ Goto(g, "err")
  <2>1. rows' = [rows EXCEPT ![g] = rows[g]]
    BY <1>1, <1>6 DEF Typed
  <2> QED
    BY <1>2, <1>3, <1>6, <2>1
<1> QED
  BY <1>4, <1>5, <1>6 DEF RowsNext

\* The loop asks the rows why they have ended.
LEMMA ErrIsLocal ==
  ASSUME LeaseInv, NEW g \in Goroutine, Err(g)
  PROVE  Local(g)
<1>1. Typed /\ CallInv(g) /\ pc[g] = "err" /\ qerr[g] = "nil" /\ op[g] \in {"get", "select", "row"}
  BY DEF LeaseInv, Err, CallInv, QueryInv, Reading, Typed
<1>2. EndAnswer(g) \in Error \cup {"nil", "norows"}
  BY <1>1, ClosedError DEF EndAnswer
<1>3. EndAnswer(g) = "norows" => /\ op[g] # "select" /\ rows[g].end \in {"none", "eof"}
                                 /\ scans[g] <= 1 => rows[g].given = 0 /\ rows[g].end = "eof"
  BY <1>1 DEF EndAnswer, RowsErr, CallInv, RowInv, Typed
<1>4. EndAnswer(g) = "nil" => op[g] = "select" /\ rows[g].end = "eof" /\ dest[g] = Rows(rows[g].given)
  BY <1>1 DEF EndAnswer, RowsErr, CallInv, SelectInv, Typed
<1>5. IsTrue(g, "done", EndAnswer(g))
  BY <1>3, <1>4 DEF IsTrue
<1>6. pc[g] \in Closing /\ Unwind(g, "done", EndAnswer(g))
  BY <1>1 DEF Err, Reading, Closing
<1> QED
  BY <1>1, <1>2, <1>5, <1>6, UnwindIsLocal

\* The loop puts a row into the destination.
LEMMA AssignIsLocal ==
  ASSUME LeaseInv, NEW g \in Goroutine, Assign(g)
  PROVE  Local(g)
<1> USE DEF Location, Waiting, HookRuns, Ended, Goto
<1>1. Typed /\ CallInv(g) /\ pc[g] = "assign" /\ qerr[g] = "nil" /\ rows[g] \in RowsType /\ dest[g] \in Seq(0..MaxRows)
  BY DEF LeaseInv, Assign, CallInv, QueryInv, Reading, Typed, RowsType
<1>2. CASE \/ Unwind(g, "done", ClosedErr(g)) \/ Unwind(g, "done", "scan") \/ Unwind(g, "panicked", "panic")
  BY <1>1, <1>2, ClosedError, UnwindIsLocal DEF Reading, Error, Closing, IsTrue
<1>3. ASSUME NEW d, rows[g].open,
             d = IF op[g] = "select" THEN Append(dest[g], rows[g].given) ELSE <<rows[g].given>>,
             dest' = [dest EXCEPT ![g] = d],
             Goto(g, IF op[g] = "select" THEN "next" ELSE "close"),
             UNCHANGED <<op, ctx, qerr, rows, answer, scans>>
      PROVE  Local(g)
  <2>1. d \in Seq(0..MaxRows)
    <3>1. rows[g].given \in 0..MaxRows
      BY <1>1 DEF RowsType
    <3>2. Append(dest[g], rows[g].given) \in Seq(0..MaxRows) /\ <<rows[g].given>> \in Seq(0..MaxRows)
      BY <1>1, <3>1
    <3> QED
      BY <1>3, <3>2
  <2>2. op[g] = "select" => d = Rows(rows[g].given)
    <3>1. SUFFICES ASSUME op[g] = "select" PROVE d = Rows(rows[g].given)
      OBVIOUS
    <3>2. rows[g].given > 0 /\ dest[g] = Rows(rows[g].given - 1)
      BY <1>1, <3>1 DEF CallInv, SelectInv
    <3>3. rows[g].given - 1 \in Nat /\ rows[g].given = (rows[g].given - 1) + 1
      BY <1>1, <3>2, BoundAssumption DEF RowsType
    <3> QED
      BY <1>3, <3>1, <3>2, <3>3, RowsAppend
  <2>3. op[g] # "select" => d = <<1>>
    BY <1>1, <1>3 DEF CallInv, RowInv
  <2>4. dest'[g] = d /\ pc'[g] = IF op[g] = "select" THEN "next" ELSE "close"
    BY <1>1, <1>3 DEF Typed
  <2>5. Typed'
    BY <1>1, <1>3, <2>1 DEF Typed
  <2>6. \A h \in Goroutine \ {g} : Keeps(h)
    BY <1>1, <1>3 DEF Typed, Keeps
  <2>7. QueryInv(g)' /\ RowInv(g)'
    BY <1>1, <1>3, <2>3, <2>4 DEF CallInv, QueryInv, RowInv, Unread, Early, After, OfRow, Reading
  <2>8. SelectInv(g)'
    <3>1. rows[g].given \in Nat
      BY <1>1 DEF RowsType
    <3>2. CASE op[g] = "select"
      <4>1. pc'[g] = "next" /\ dest'[g] = Rows(rows[g].given) /\ UNCHANGED <<op, rows, answer>>
        BY <1>3, <2>2, <2>4, <3>2
      <4> QED
        BY <1>1, <3>1, <3>2, <4>1 DEF CallInv, SelectInv
    <3>3. CASE op[g] # "select"
      BY <1>3, <3>3 DEF SelectInv
    <3> QED
      BY <3>2, <3>3
  <2> QED
    BY <2>5, <2>6, <2>7, <2>8 DEF Local, CallInv
<1> QED
  BY <1>2, <1>3 DEF Assign

\* The rows are closed.
LEMMA CloseIsLocal ==
  ASSUME LeaseInv, NEW g \in Goroutine, Close(g)
  PROVE  Local(g)
<1>1. /\ qerr[g] = "nil" /\ op[g] # "select" /\ dest[g] = <<1>> /\ scans[g] <= 1
  BY DEF LeaseInv, CallInv, QueryInv, RowInv, Close, OfRow
<1>2. Unwind(g, "done", "nil") \/ Unwind(g, "done", "driver")
  BY DEF Close
<1> QED
  BY <1>1, <1>2, UnwindIsLocal DEF Close, OfRow, Error, Closing, IsTrue

-----------------------------------------------------------------------------
(* The context                                                             *)

\* The context of one call ends, and with it rows that are open.
LEMMA CancelIsLocal ==
  ASSUME LeaseInv, NEW g \in Goroutine, Cancel(g)
  PROVE  Local(g)
<1>1. Typed' /\ \A h \in Goroutine \ {g} : Keeps(h)
  BY DEF LeaseInv, Typed, Cancel, Keeps
<1>2. CallInv(g)'
  BY DEF LeaseInv, Cancel, CallInv, QueryInv, RowInv, SelectInv, Unread
<1> QED
  BY <1>1, <1>2 DEF Local

\* Rows closed by the context are not taken for read to the end.
LEMMA AwaitDoneIsLocal ==
  ASSUME LeaseInv, NEW g \in Goroutine, AwaitDone(g)
  PROVE  Local(g)
<1>1. Typed /\ CallInv(g) /\ rows[g].open /\ UNCHANGED <<pc, op, ctx, qerr, dest, answer, scans>>
  BY DEF LeaseInv, AwaitDone
<1> DEFINE closed == [rows[g] EXCEPT !.open = FALSE]
           r == [closed EXCEPT !.end = "ctx"]
<1>2. rows' = [[rows EXCEPT ![g] = closed] EXCEPT ![g] = [[rows EXCEPT ![g] = closed][g] EXCEPT !.end = "ctx"]]
  BY DEF AwaitDone
<1>3. rows' = [rows EXCEPT ![g] = r]
  BY <1>1, <1>2 DEF Typed
<1>4. r \in RowsType /\ ~r.open /\ r.given = rows[g].given /\ r.end = "ctx"
  BY <1>1 DEF RowsType, Typed
<1> HIDE DEF r
<1>5. Typed' /\ rows'[g] = r /\ \A h \in Goroutine \ {g} : Keeps(h)
  BY <1>1, <1>3, <1>4 DEF Typed, Keeps, RowsType
<1>6. qerr[g] = "nil" /\ pc[g] \notin Early \cup (Ended \ {"hookPanicked"})
  BY <1>1 DEF CallInv, QueryInv, NoRows, Early, Ended, After, OfRow, Reading
<1>7. CallInv(g)'
  BY <1>1, <1>4, <1>5, <1>6 DEF CallInv, QueryInv, RowInv, SelectInv, Unread, Ended
<1> QED
  BY <1>5, <1>7 DEF Local

\* Every step of a call.
LEMMA StepIsLocal ==
  ASSUME LeaseInv, NEW g \in Goroutine, Step(g)
  PROVE  Local(g)
  BY QueryFailedIsLocal, ArgErrorIsLocal, WaitingIsLocal, HookExecutedIsLocal, QueryIsLocal, AfterHooksIsLocal,
     ScanRowIsLocal, scanAnyIsLocal, ColumnsIsLocal, RowScanIsLocal, scanAllIsLocal, RowsNextIsLocal, ErrIsLocal,
     AssignIsLocal, CloseIsLocal
  DEF Step

-----------------------------------------------------------------------------
(* The pool                                                                *)

\* The goroutines whose rows hold a connection, and those that hold one without rows.
Leasing == {g \in Goroutine : rows[g].open}
Busy == {g \in Goroutine : pc[g] = "query" \/ pc[g] \in HookRuns}

\* A number of goroutines that is always finite uses the pool, however many there are.
PoolInv == IsFiniteSet(Leasing) /\ IsFiniteSet(Busy) /\ InUse <= MaxOpen

\* A step that takes no connection, and may give some back.
LEMMA GivesBack ==
  ASSUME PoolInv, Leasing' \subseteq Leasing, Busy' \subseteq Busy
  PROVE  PoolInv'
<1>1. /\ IsFiniteSet(Leasing') /\ Cardinality(Leasing') <= Cardinality(Leasing)
      /\ IsFiniteSet(Busy') /\ Cardinality(Busy') <= Cardinality(Busy)
  BY FS_Subset DEF PoolInv
<1>2. /\ Cardinality(Leasing) \in Nat /\ Cardinality(Busy) \in Nat
      /\ Cardinality(Leasing') \in Nat /\ Cardinality(Busy') \in Nat
  BY <1>1, FS_CardinalityType DEF PoolInv
<1>3. InUse = Cardinality(Leasing) + Cardinality(Busy) /\ InUse' = Cardinality(Leasing') + Cardinality(Busy')
  BY DEF InUse, Leasing, Busy
<1> QED
  BY <1>1, <1>2, <1>3, BoundAssumption DEF PoolInv

\* Only a query and the statement of a hook take a connection, and only a query opens rows.
LEMMA OtherSteps ==
  ASSUME LeaseInv, NEW g \in Goroutine, Local(g), ~Acquire(g), ~Query(g),
         \/ Step(g) \/ ScanRowAgain(g) \/ Cancel(g) \/ AwaitDone(g)
         \/ \E o \in {"get", "select", "row"}, c \in {"background", "live"} : Call(g, o, c)
  PROVE  Leasing' \subseteq Leasing /\ Busy' \subseteq Busy
<1> USE DEF Goto, Proceed, Unwind, Return
<1>1. Typed /\ pc \in [Goroutine -> Location] /\ rows \in [Goroutine -> RowsType]
  BY DEF LeaseInv, Typed, RowsType
<1>2. pc'[g] \notin {"query"} \cup HookRuns \/ pc'[g] = pc[g]
  <2>1. AfterQueryx(g, qerr[g]) \in {"row", "scanAny", "scanAll", "queryFailed"}
        /\ AfterQueryx(g, "argument") \in {"row", "scanAny", "scanAll", "queryFailed"}
    BY <1>1, GoesOn
  <2>2. CASE HookExecuted(g) \/ ArgError(g) \/ AfterHooks(g)
    BY <1>1, <2>1, <2>2 DEF HookExecuted, ArgError, AfterHooks, HookRuns
  <2>3. CASE QueryFailed(g) \/ BeforeHooks(g) \/ AcquireCancelled(g) \/ ScanRow(g) \/ scanAny(g)
    BY <1>1, <2>3 DEF QueryFailed, BeforeHooks, AcquireCancelled, ScanRow, scanAny, HookRuns
  <2>4. CASE Columns(g) \/ RowColumns(g) \/ RowScan(g) \/ scanAll(g) \/ RowsNext(g)
    BY <1>1, <2>4 DEF Columns, RowColumns, RowScan, scanAll, RowsNext, HookRuns
  <2>5. CASE Err(g) \/ Assign(g) \/ Close(g)
    BY <1>1, <2>5 DEF Err, Assign, Close, HookRuns
  <2>6. CASE ScanRowAgain(g) \/ Cancel(g) \/ AwaitDone(g)
    BY <1>1, <2>6 DEF ScanRowAgain, Cancel, AwaitDone, HookRuns
  <2>7. CASE \E o \in {"get", "select", "row"}, c \in {"background", "live"} : Call(g, o, c)
    BY <1>1, <2>7 DEF Call, HookRuns
  <2> QED
    BY <2>2, <2>3, <2>4, <2>5, <2>6, <2>7 DEF Step
<1>3. rows'[g].open => rows[g].open
  <2>1. CASE rows' = rows
    BY <2>1
  <2>2. CASE rows' = Closed(g)
    BY <1>1, <2>2, ClosedRows
  <2>3. CASE RowsNext(g)
    BY <1>1, <2>3 DEF RowsNext, RowsType
  <2>4. CASE AwaitDone(g)
    BY <2>4 DEF AwaitDone
  <2>5. CASE HookExecuted(g) \/ ArgError(g) \/ AfterHooks(g) \/ QueryFailed(g) \/ BeforeHooks(g) \/ AcquireCancelled(g) \/ ScanRow(g)
    BY <2>1, <2>5 DEF HookExecuted, ArgError, AfterHooks, QueryFailed, BeforeHooks, AcquireCancelled, ScanRow
  <2>6. CASE scanAny(g) \/ Columns(g) \/ RowColumns(g) \/ RowScan(g) \/ scanAll(g)
    BY <2>1, <2>2, <2>6 DEF scanAny, Columns, RowColumns, RowScan, scanAll
  <2>7. CASE Err(g) \/ Assign(g) \/ Close(g) \/ ScanRowAgain(g) \/ Cancel(g)
    BY <2>1, <2>2, <2>7 DEF Err, Assign, Close, ScanRowAgain, Cancel
  <2>8. CASE \E o \in {"get", "select", "row"}, c \in {"background", "live"} : Call(g, o, c)
    BY <2>1, <2>8 DEF Call
  <2> QED
    BY <2>3, <2>4, <2>5, <2>6, <2>7, <2>8 DEF Step
<1>4. \A h \in Goroutine \ {g} : Keeps(h)
  BY DEF Local
<1> QED
  BY <1>2, <1>3, <1>4 DEF Leasing, Busy, Keeps

\* A connection is taken while one is free.
LEMMA AcquireTakes ==
  ASSUME LeaseInv, PoolInv, NEW g \in Goroutine, Local(g), Acquire(g)
  PROVE  PoolInv'
<1>1. /\ rows' = rows /\ pc[g] \in Waiting /\ InUse < MaxOpen
      /\ \A h \in Goroutine \ {g} : Keeps(h)
  BY DEF Acquire, Free, Proceed, Local
<1>2. Leasing' = Leasing /\ Busy' \subseteq Busy \cup {g}
  BY <1>1 DEF Leasing, Busy, Keeps
<1>3. IsFiniteSet(Busy \cup {g}) /\ Cardinality(Busy \cup {g}) <= Cardinality(Busy) + 1
  <2>1. IsFiniteSet(Busy) /\ Cardinality(Busy) \in Nat
    BY FS_CardinalityType DEF PoolInv
  <2>2. /\ IsFiniteSet(Busy \cup {g})
        /\ Cardinality(Busy \cup {g}) = IF g \in Busy THEN Cardinality(Busy) ELSE Cardinality(Busy) + 1
    BY <2>1, FS_AddElement, Zenon
  <2> QED
    BY <2>1, <2>2
<1>4. IsFiniteSet(Busy') /\ Cardinality(Busy') <= Cardinality(Busy \cup {g})
  BY <1>2, <1>3, FS_Subset
<1>5. /\ Cardinality(Leasing) \in Nat /\ Cardinality(Busy) \in Nat
      /\ Cardinality(Busy') \in Nat /\ Cardinality(Busy \cup {g}) \in Nat
  BY <1>3, <1>4, FS_CardinalityType DEF PoolInv
<1>6. InUse = Cardinality(Leasing) + Cardinality(Busy) /\ InUse' = Cardinality(Leasing') + Cardinality(Busy')
  BY DEF InUse, Leasing, Busy
<1>7. InUse' <= MaxOpen
  BY <1>1, <1>2, <1>3, <1>4, <1>5, <1>6, BoundAssumption
<1> QED
  BY <1>2, <1>4, <1>7 DEF PoolInv

\* The connection of a query becomes the one of its rows, or goes back.
LEMMA QueryHandsOver ==
  ASSUME LeaseInv, PoolInv, NEW g \in Goroutine, Local(g), Query(g)
  PROVE  PoolInv'
<1>1. pc[g] = "query" /\ pc'[g] = "after" /\ \A h \in Goroutine \ {g} : Keeps(h)
  BY DEF Query, Goto, Local, LeaseInv, Typed
<1>2. Leasing' \subseteq Leasing \cup {g} /\ Busy' = Busy \ {g} /\ g \in Busy
  BY <1>1 DEF Leasing, Busy, Keeps, HookRuns
<1>3. Cardinality(Leasing) \in Nat /\ Cardinality(Busy) \in Nat
  BY FS_CardinalityType DEF PoolInv
<1>4. IsFiniteSet(Leasing \cup {g}) /\ Cardinality(Leasing \cup {g}) <= Cardinality(Leasing) + 1
  <2>1. IsFiniteSet(Leasing)
    BY DEF PoolInv
  <2>2. /\ IsFiniteSet(Leasing \cup {g})
        /\ Cardinality(Leasing \cup {g}) = IF g \in Leasing THEN Cardinality(Leasing) ELSE Cardinality(Leasing) + 1
    BY <2>1, FS_AddElement, Zenon
  <2> QED
    BY <1>3, <2>2
<1>5. IsFiniteSet(Leasing') /\ Cardinality(Leasing') <= Cardinality(Leasing \cup {g})
  BY <1>2, <1>4, FS_Subset
<1>6. IsFiniteSet(Busy') /\ Cardinality(Busy') = Cardinality(Busy) - 1
  BY <1>2, FS_RemoveElement DEF PoolInv
<1>7. Cardinality(Leasing') \in Nat /\ Cardinality(Busy') \in Nat /\ Cardinality(Leasing \cup {g}) \in Nat
  BY <1>4, <1>5, <1>6, FS_CardinalityType
<1>8. InUse = Cardinality(Leasing) + Cardinality(Busy) /\ InUse' = Cardinality(Leasing') + Cardinality(Busy')
  BY DEF InUse, Leasing, Busy
<1>9. InUse' <= MaxOpen
  BY <1>3, <1>4, <1>5, <1>6, <1>7, <1>8, BoundAssumption DEF PoolInv
<1> QED
  BY <1>5, <1>6, <1>9 DEF PoolInv

\* A step adds one connection while there is room, or none.
LEMMA PoolStep == LeaseInv /\ PoolInv /\ [Next]_vars => PoolInv'
<1> SUFFICES ASSUME LeaseInv, PoolInv, [Next]_vars PROVE PoolInv'
  OBVIOUS
<1>1. CASE UNCHANGED vars
  BY <1>1, GivesBack DEF vars, Leasing, Busy
<1>2. ASSUME NEW g \in Goroutine,
             \/ Step(g) \/ ScanRowAgain(g) \/ Cancel(g) \/ AwaitDone(g)
             \/ \E o \in {"get", "select", "row"}, c \in {"background", "live"} : Call(g, o, c)
      PROVE  PoolInv'
  <2>1. Local(g)
    BY <1>2, CallIsLocal, StepIsLocal, ProceedIsLocal, CancelIsLocal, AwaitDoneIsLocal DEF ScanRowAgain, Location
  <2>2. CASE Acquire(g)
    BY <2>1, <2>2, AcquireTakes
  <2>3. CASE Query(g)
    BY <2>1, <2>3, QueryHandsOver
  <2>4. CASE ~Acquire(g) /\ ~Query(g)
    BY <1>2, <2>1, <2>4, OtherSteps, GivesBack
  <2> QED
    BY <2>2, <2>3, <2>4
<1> QED
  BY <1>1, <1>2 DEF Next

-----------------------------------------------------------------------------
(* The theorems                                                            *)

\* The inductive invariant that the theorems below rest on.
LEMMA LeaseInvariant == Spec => []LeaseInv
<1>1. Init => LeaseInv
  <2> SUFFICES ASSUME Init PROVE LeaseInv
    OBVIOUS
  <2>1. Typed
    BY BoundAssumption DEF Init, Typed, Location, NoRows
  <2>2. ASSUME NEW g \in Goroutine PROVE CallInv(g)
    BY <2>2 DEF Init, CallInv, QueryInv, RowInv, SelectInv, Unread, Early, After, OfRow, Reading, NoRows
  <2> QED
    BY <2>1, <2>2 DEF LeaseInv
<1>2. LeaseInv /\ [Next]_vars => LeaseInv'
  <2> SUFFICES ASSUME LeaseInv, [Next]_vars PROVE LeaseInv'
    OBVIOUS
  <2>1. ASSUME NEW g \in Goroutine, Local(g) PROVE LeaseInv'
    BY <2>1, OthersKeep DEF Local, LeaseInv
  <2>2. ASSUME NEW g \in Goroutine, ScanRowAgain(g) PROVE Local(g)
    BY <2>2, ProceedIsLocal DEF ScanRowAgain, Location
  <2>3. CASE UNCHANGED vars
    <3>1. Typed' /\ \A h \in Goroutine : Keeps(h)
      BY <2>3 DEF vars, LeaseInv, Typed, Keeps
    <3> QED
      BY <3>1, OthersKeep DEF LeaseInv
  <2> QED
    BY <2>1, <2>2, <2>3, CallIsLocal, StepIsLocal, CancelIsLocal, AwaitDoneIsLocal DEF Next
<1> QED
  BY <1>1, <1>2, PTL DEF Spec

\* The variables keep their types, an empty result is an error of Get and Row but not of
\* Select, and the calls never hold more connections than the pool has, whatever they,
\* their hooks and the contexts do.
THEOREM TypeCorrect == Spec => []TypeOK
<1>1. Init => PoolInv
  <2> SUFFICES ASSUME Init PROVE PoolInv
    OBVIOUS
  <2>1. Leasing = {} /\ Busy = {}
    BY DEF Init, Leasing, Busy, NoRows, HookRuns
  <2>2. InUse = 0
    BY <2>1, FS_EmptySet DEF InUse, Leasing, Busy
  <2> QED
    BY <2>1, <2>2, FS_EmptySet, BoundAssumption DEF PoolInv
<1>2. LeaseInv /\ PoolInv => TypeOK
  BY DEF LeaseInv, PoolInv, Typed, Location, CallInv, SelectInv, TypeOK
<1> QED
  BY <1>1, <1>2, PoolStep, LeaseInvariant, PTL DEF Spec

\* No return and no panic of Get, Select or a scan of a Row leaves rows open: only an
\* AfterQuery hook that panics does.
THEOREM RowsAreClosed == Spec => []OnlyHooksLeak
<1>1. LeaseInv => OnlyHooksLeak
  BY DEF LeaseInv, CallInv, QueryInv, OnlyHooksLeak, After, OfRow, Reading
<1> QED
  BY <1>1, LeaseInvariant, PTL

\* ErrNoRows never stands for an error of the driver or a cancellation, and from Get and
\* the first scan of a Row it says that the result was empty.  A later scan of a Row
\* answers it for any result.
THEOREM NoRowsIsTrue == Spec => []ErrNoRowsMeansEmpty
<1>1. LeaseInv => ErrNoRowsMeansEmpty
  BY DEF LeaseInv, CallInv, RowInv, SelectInv, RowsErr, ErrNoRowsMeansEmpty
<1> QED
  BY <1>1, LeaseInvariant, PTL

\* A Row answers nil once, with its first row.
THEOREM ScannedOnce == Spec => []RowIsScannedOnce
<1>1. LeaseInv => RowIsScannedOnce
  BY DEF LeaseInv, CallInv, RowInv, RowIsScannedOnce
<1> QED
  BY <1>1, LeaseInvariant, PTL

\* Select answers nil with the whole result only.
THEOREM SelectsAll == Spec => []SelectIsComplete
<1>1. LeaseInv => SelectIsComplete
  <2> SUFFICES ASSUME LeaseInv, NEW g \in Goroutine, op[g] = "select"
               PROVE  /\ pc[g] = "done" /\ answer[g] = "nil" => rows[g].end = "eof" /\ Len(dest[g]) = rows[g].given
                      /\ \/ dest[g] = [i \in 1..Len(dest[g]) |-> i]
                         \/ dest[g] = <<0>> /\ answer[g] # "nil"
    BY DEF SelectIsComplete
  <2>1. SelectInv(g) /\ rows[g].given \in Nat
    BY DEF LeaseInv, CallInv, Typed
  <2>2. ASSUME NEW n \in Nat, dest[g] = Rows(n) PROVE Len(dest[g]) = n /\ dest[g] = [i \in 1..Len(dest[g]) |-> i]
    <3>1. Len(Rows(n)) = n
      BY RowsAppend
    <3> QED
      BY <2>2, <3>1 DEF Rows
  <2>3. pc[g] = "done" /\ answer[g] = "nil" => rows[g].end = "eof" /\ dest[g] = Rows(rows[g].given)
    BY <2>1 DEF SelectInv
  <2>4. answer[g] = "nil" => \E n \in Nat : dest[g] = Rows(n)
    BY <2>1, <2>3 DEF SelectInv
  <2>5. dest[g] = <<0>> \/ \E n \in Nat : dest[g] = Rows(n)
    BY <2>1 DEF SelectInv
  <2> QED
    BY <2>1, <2>2, <2>3, <2>4, <2>5
<1> QED
  BY <1>1, LeaseInvariant, PTL
=============================================================================
