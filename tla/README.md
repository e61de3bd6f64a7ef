# A verification of sqlex

[sqlex](../src) wraps Go's `database/sql`: hooks around every operation, `IN`
expansion, driver-independent placeholders, named parameters, struct scanning
and a transaction helper. This directory holds TLA+ models of those parts, the
TLC configurations that check them on small instances, and TLAPS proofs of the
properties for instances of every size: of the concurrent parts, of the scanners,
placeholders and names for queries of every length, and of the walks over struct types for
all declarations.

    tlc -workers 2 -config MCHookEvents.cfg MCHookPipeline   # one run
    tlapm HookPipelineProofs.tla                             # one module of proofs

`PROJECT.json` lists the runs, the mutants that show each property can fail, the
lines of the source every definition stands for, the hazards and the findings.

## 1. Inventory

| Part | State it keeps | Operations | What is hard |
|---|---|---|---|
| Hook pipeline (`hook.go`, and the operations of `db.go`, `conn.go`, `tx.go`, `stmt.go`) | the hook slice of every DB, Conn, Tx, Stmt; per operation a `QueryEvent` and a chain | `WithHooks`, `AddHook`, `WithCallHooks`; Exec, Query, QueryRow, Begin, CloseWithErr; deriving handles | slices that share backing arrays, concurrent operations, hooks that rewrite the event, panics |
| Transactions (`tx.go`) | `sql.Tx`: done flag, context, connection | `Beginx`, `BeginTxx`, `CloseWithErr`, inherited `Commit`/`Rollback` | cancellation racing a close, a second close, errors of both body and rollback |
| Type-map cache (`reflectx.Mapper.TypeMap`) | a map under an `RWMutex` | lookup, double-checked fill | data race, double build, deadlock, a panic under the lock |
| Default mapper (`sqlx.go mapper()`) | atomic pointer to (Mapper, function) | load, rebuild under a mutex | stale Mapper after `NameMapper` changed, racing rebuilds |
| Row iteration (`rows.go`) | cached traversals keyed by destination type | `Next`, `NextResultSet`, `StructScan`, `Close` | stale cache across types and result sets, a half-done update |
| SQL lexer (`lexer.go`) | none | skip a literal, quoted name, dollar quote, comment | five scanners, unclosed regions, doubling, tags |
| Placeholders (`bind.go`, `needsInRewrite`/`autoIn`) | none | `In`, `Rebind`, `autoIn` | two loops that must agree on what a placeholder is; where a slice is spread |
| Named queries (`named.go`) | none (NamedStmt: compiled query and names) | compile, bind one, bind a batch, prepare | two ways to the driver's SQL, missing names, finding the `VALUES` group |
| Single rows and whole results (`row.go`, `scan.go`) | a pooled connection held by `sql.Rows`; the destination | `Row.Scan`, `StructScan`, `SliceScan`, `MapScan`, `Get`, `Select`, `scanAll` | closing on every path, three reasons for `Next` to be false, hooks that need the pool, cancellation between rows |
| Struct mapping (`reflectx.getMapping`, `containsRawBytes`) | none | two walks over struct types | recursive types, name conflicts, two notions of what can be scanned into |
| Bind-type registry, opening, `types/`, `testutil/` | a `sync.Map`; none | registration; constructors; encoders | little |

How they meet. An operation of a DB, Conn or Tx runs `autoIn`, `Rebind`, the
`BeforeQuery` hooks, the driver call, the `AfterQuery` hooks, and wraps the rows
(`pipeline.prepare`, `hook.go:155`); a Stmt skips the first two. Named methods
compile and bind first and then call the same operation. Scans ask the handle's
Mapper for traversals, so every goroutine meets in the type-map cache.
`BeginTxx` and the factories copy the handle's hook slice, not the array behind
it. `CloseWithErr` calls `sql.Tx` first and reports to the hooks afterwards,
while a goroutine of `database/sql` may roll back at any time after a
cancellation.

What makes each part correct:

- *Hooks*: a call runs the hooks of its handle and then those of its ctx, as they
  were when it started, nested; a derived handle keeps its hooks; what the driver
  gets is what the last rewriter wrote; `AfterQuery` sees the outcome; the caller
  gets the driver's error.
- *Transactions*: a failed body is never committed, a nil answer means committed,
  no error is lost, the hooks are told the truth, the connection is released.
- *Type map*: no race on the map, one mapping per type, every call returns.
- *Default mapper*: current, and one per setting.
- *Rows*: a scan writes the fields of its own destination for the columns of the
  result set it is in; strict mode never lets a column through.
- *Single rows and whole results*: the connection comes back whatever happens; ErrNoRows,
  from a first scan, means an empty result; nil means the first row, or all rows; every call ends.
- *Struct mapping*: a name belongs to the shallowest field; recursion ends and hides
  nothing; no column of `Select` reaches a `RawBytes`.
- *Lexer, placeholders, names*: every scanner agrees with one automaton; `In` and
  `Rebind` agree; after a rewrite there is one value per placeholder; only `IN`
  lists are spread; prepared and executed named queries are the same SQL, if names stand
  apart from what surrounds them; a batch drops no row.

## 2. Modules

| Module | Models | Checked by | Proofs |
|---|---|---|---|
| `HookOnion` | abstract specification: what hooks promise, without slices or indices | refined by `HookPipeline` | with `HookPipeline` |
| `HookPipeline` | `hook.go` and the operations that use it | `MCHookPipeline`: `hook_events`, `hook_chains` | `HookPipelineProofs` |
| `TypeMapCache` | `reflectx/reflect.go:108-126` and `sync.RWMutex` | `MCTypeMapCache`: `type_map` | `TypeMapCacheProofs` |
| `DefaultMapper` | `sqlx.go:19-60` | `MCDefaultMapper`: `default_mapper` | `DefaultMapperProofs` |
| `TxLifecycle` | `tx.go:319-362`, `Beginx`/`BeginTxx`, `database/sql`'s Tx (external) | `MCTxLifecycle`: `tx_lifecycle` | `TxLifecycleProofs` |
| `RowsScan` | `rows.go`, the parts of `scan.go` it calls | `MCRowsScan`: `rows`, `rows_keyed` | `RowsScanProofs` |
| `SqlLexer` | `lexer.go`, and a reference automaton | with `SqlPlaceholders` | `SqlProofs` |
| `SqlBind` | `bind.go`, `autoIn`: the algorithms | with `SqlPlaceholders` | `SqlProofs` |
| `SqlPlaceholders` | a query and arguments being put together; properties of `SqlLexer` and `SqlBind` | `MCSqlPlaceholders`: `sql_comment`; extended by the next | `SqlProofs` |
| `NamedQuery` | `named.go`: compile, bind, batch, prepare and execute; extends `SqlPlaceholders` by the calls | `MCNamedQuery`: `queries`, `named_batch_comment` | `SqlProofs` |
| `RowLeases` | `row.go`, `scanAll`, `Get`, `Select`, `QueryxContext`, `QueryRowxContext`; the pool and `sql.Rows` (external) | `MCRowLeases`: `row_leases` | `RowLeasesProofs` |
| `StructMapping` | `getMapping`, `parseName`, `containsRawBytes`, `isScannable` | `MCStructMapping`: `struct_mapping` | `StructMappingProofs` |

Operators called `X_Something`, commented "Mutated form", are X with a plausible
bug. No specification uses them; each shows that a property would notice.

### HookPipeline

`heap` holds backing arrays and a slice is `[arr, len, cap]`, because whether two
chains share memory is the question. An array is named by who allocated it: the
DB's list, by its length at the time (lengths only grow, so the name is never
reused), or the goroutine whose operation `hookChain` copied for. `AppendHook`
is Go's `append`, in place when `len < cap` and otherwise in an array of twice the
capacity (exact for the small slices of the model, `cap` matters only in being
larger than `len`). `hooks` is each handle's slice; `Derive` (Connx, Preparex,
Stmtx) and `Return` of a begin copy the slice header. An operation is `Start`
(or `ArgError`), `BeforeQuery` per hook, `Driver`, `AfterQuery` per hook,
`Return`; a transaction's end is `StartClose`, `Close` (the driver call),
`BeforeQuery` per hook, `Turn`, `AfterQuery` per hook, `Return`. Every one of
these is a step, so goroutines interleave at every hook call and driver call.
`Panic` may take the place of any of them. `AddHook` requires that no operation is
running (it is documented as setup-time), but handles may exist.

Abstractions: the query and the arguments of an event are the name of their last
rewriter, an error is nil, the driver's, or forged by a hook; times and row counts
are left out; a hook keeps or rewrites both query and arguments; contexts are the
hooks they carry. Several `WithHooks` options are one list followed by `AddHook`s,
which append the same way. Hooks that change the ctx for the driver are not
modelled beyond that.

The refinement (`Onion`, property `ImplementsOnion`): `stack` is the hooks entered
and not left, computed from `chain` and `idx`; `full` is the history variable
`want`; `answer` is what the method's local error holds. `HookOnion` knows
nothing of arrays, so every write that a chain would notice breaks it.

### TypeMapCache and DefaultMapper

One action per statement of `TypeMap`, with the `RWMutex` as the runtime has it: a
writer announces itself (`Lock`), new readers queue (`rwait`), it waits for the
readers inside (`LockGranted`), and its `Unlock` lets the queue in. Mappings and
Mappers are numbered in the order they are made, so "the same one" can be stated.
The mutex of `mapper()` is a holder variable. `SetNameMapper` happens while no
goroutine is inside: the variable is documented as unsafe to set at runtime.

### TxLifecycle

Errors are sets of causes; `errors.Join` is union. The program begins, ends its
body with success, an error of its own or a cancellation, closes through
`CloseWithErr` or directly, and may close again. `database/sql` is external and
taken from how `tx.go` and `db.go` use it and what `db.go:203-208` says of it:
`Commit` looks at the context (`CommitCheck`), one party takes `tx.done`
(`Take`, `WaiterWakes`), the winner sends (`Send`, `WaiterRollsBack`). A commit
that fails may or may not have reached the server. `Again` starts the program's
next transaction.

### RowsScan

The cache of a `Rows` is its four fields; a traversal is the pair of the struct
type and the column it was computed for. A strict refusal happens where the code
returns: `r.fields` is set, the rest is not. Scanning with traversals of another
struct may work, fail or panic, as reflection would have it. The program goes on
after an error, switches types and result sets at will, or closes early.

### SqlLexer, SqlBind, SqlPlaceholders, NamedQuery

Queries are sequences of one-character strings (positions count from 1, an end is
the position after the last byte, as in the code). The alphabet of identifiers is
lower case, so keywords are compared without folding; `\r` and other spaces are left
out because they behave as `\n` and blank do there. A loop of the code is a turn
(`RebindTurn`, `PlaceholderTurn`, `InTurn`, `CompileTurn`: the loop's body, on a record of its
variables) and a recursive function that repeats it. `compileNamedQueryWith` is given the names that
`nameExists` accepts, as a set: those of the element, or all (`AnyName`). The state machines only put
a query together from fragments and pass arguments; every prefix is a state, so a
run checks all queries up to the bound. `NamedQuery` extends that state by a call with
names: `CallWithOne` (bindStruct, bindMap), `CallWithSlice` (bindArray) and
`CallStmt` (PrepareNamed, then a method of the NamedStmt). `compiled` is what the query
was compiled to, `bound` the SQL and the values that binding returned, `Rewritten` what
the `autoIn` of the operation behind the call makes of them.

Arguments of `In` are classes: plain value, slice, "lazy" slice (seen by `In`, not by
`needsInRewrite`), AsValue, AsList, AsList of something else, a Valuer that fails.
An argument in the result is its index and its element. A struct, a map or an element of a
batch is a function from the names it has a value for to the classes of the values.

`Protected` in `SqlLexer` and `InList`, `Expected`, `Group` in the others are
references, written as definitions rather than as scans. `NamesIn` is one for the names.

### RowLeases

One call per goroutine: `op` is Get, Select, or "row" for a QueryRowx whose Row the
program scans, once or twice. `rows` is its `sql.Rows` (open, rows given, what ended
them), `dest` the numbers of the rows in the destination, 0 for what was there before.
The query is `ArgError`, `BeforeHooks`, `Acquire`, `Query`, `AfterHooks`; hooks may return,
panic, or execute a statement of their own, which takes a connection of the same pool
(`beforeWait`, `afterWait`). A Row goes through `scanAny` (Get, StructScan), `Columns` and
`RowScan`, or `RowColumns` (SliceScan, MapScan), or `RowScan` alone; Select through `scanAll`
and `Columns`; both then read `RowsNext`, `Assign`, and `Err` or `Close`. `Unwind` leaves a
function with a deferred Close, by return or panic; `Return` leaves one before. `Cancel` may
happen at any step, and `AwaitDone`, database/sql's goroutine, closes the rows after it.

Which rows the driver has, when it fails, which destinations and columns are refused, and
where a mapping or a Scanner panics is left open: every early return of the code is
a disjunct. The methods of Conn, Tx and Stmt differ only in whose connection is
used. A Row without rows and without error does not come out of the library.

### StructMapping

`Declare` adds a field to one of a few struct types, as the language allows it; every
prefix is a state. A field has a name, two tags (`tag`, which the Mapper in use reads,
and `db`, which containsRawBytes and the default Mapper read; each absent, or a name and
options, either maybe empty; the same in three of the four workloads), and a type: a struct, a base type or RawBytes, plain, behind a pointer, or in
a slice. A path is the sequence of its parts. `QueueTurn` is a turn of getMapping's loop with
the FieldInfos and the queue's entries as one record; `above` stands for the Parent links.
`QueueLoop` repeats it up to `maxTurns` times: the queue is empty before that (a declaration
for which it were not would miss fields, which `ShallowestFieldWins` would report).
`walkRawBytes` is one call of that function: `seen` is the set one walk shares, `calls` the
calls still to be made, innermost first, and `maxCalls` a number of them that is proved to be enough;
the memo by type in front of it (rawBytesCache) is left out. `Chains` is the reference: all ways
down a type by definition, compared with what the two walks find; `Reached` the types at
the end of such ways of any length.

## 3. Runs

Passing runs, their bounds and their size (distinct states):

| Run | Bounds | States | Shows |
|---|---|---|---|
| `hook_events` | 1 goroutine, 1 derived handle, lists with nil and empty lists, up to 4 global hooks, one that rewrites, two that forge | 40 073 | TypeOK, NoNilHook, AfterSeesOutcome, RewritesTravelTogether, OperationsEnd, SnapshotsAreFixed, ImplementsOnion |
| `hook_chains` | 2 goroutines, 1 derived handle, a list of 2 that AddHook grows to 3 in an array of 4, two ctx chains; goroutines symmetric | 284 862 | ChainIsolation |
| `type_map` | 3 goroutines, 2 types, any build may panic | 14 692 | NoMapRace, OneMappingPerType, CallsReturn |
| `default_mapper` | 3 goroutines, 2 functions, 2 assignments | 1 250 | ReturnsCurrent, OneMapperPerSetting |
| `tx_lifecycle` | 3 closes of one transaction, any number of transactions in turn | 7 976 | ErrorNeverCommits, SuccessMeansCommitted, NoErrorIsLost, ReportsAreTrue, CancelledIsNotCommitted, ConnectionIsReleased |
| `rows` | 3 struct types, 3 result sets that differ in width and order, strict or not | 274 | ScansOwnFields, StrictRefuses |
| `queries` | 11 lexical pieces, queries of up to 5; 8 pieces, up to 5, with up to 2 arguments of 4 classes, and 5 pieces with 9 classes; names: 10 pieces, up to 4, two names, one element; 5 pieces with slices, up to 5; 6 pieces of batches, up to 5, two elements | 923 816 | ScannersMatchReference, RebindAndInAgree, EveryPlaceholderIsBound, OnlyInListsExpand, NamedPathsAgree, EveryNameIsBound, BatchRowsAreBound |
| `row_leases` | 2 goroutines with one call each, a pool of 1, results of up to 2 rows, up to 2 scans of a Row | 465 372 | TypeOK, OnlyHooksLeak, ErrNoRowsMeansEmpty, RowIsScannedOnce, SelectIsComplete, CallsEnd |
| `struct_mapping` | 2 structs of up to 3 of 11 fields; 2 of up to 2 of 8 recursive ones, chains of up to 6; 3 of up to 2 of 8 with RawBytes; 2 of up to 3 of 7 under a Mapper that reads another tag than db; 40 turns of the queue | 172 516 | ShallowestFieldWins, RecursionHidesNothing, RawBytesAreFound, RawBytesAreRefused |

Why the bounds are enough. The interference `ChainIsolation` excludes needs two
chains, one shared array and room in it: two goroutines, one list with
`len < cap`, two different call hooks. `SnapshotsAreFixed` needs a handle derived
before an append in place and one that reallocates: lists from 0 to 4 pass through
capacities 0, 1, 2 and 4. A reader, a writer and a second writer meet in three
goroutines, and a second type makes hits and misses differ. A cache entry is
stale after one switch, and wrong in width or in order with three result sets. An
`IN` list takes four pieces (`in ( ? )`) and one before or after it, an opening and a
closing tag around a byte five (`$t` `$` `1` `$t` `$`), and a batch with another
VALUES before its group five. Two elements are enough for a group to be
repeated. One connection and two goroutines let a leak starve a caller and a
hook starve itself; two rows are the least for a Select to stop half-way. A conflict of
names takes two structs, a type that hides behind itself three. The
proofs remove the bounds of `HookPipeline`, `TypeMapCache` and `DefaultMapper`
altogether, those of `RowLeases`, `RowsScan` and `TxLifecycle` for their safety
properties, the length of queries, with the fragments they are made of, for the scanners,
for what Rebind and In take for a placeholder and for what In takes for a list, and the structs,
fields, chains and turns of `StructMapping` for its properties of RawBytes.

`CHECK_DEADLOCK FALSE` stands where a state machine stops at a bound (a query or a
declaration of full length), in `row_leases`, where calls end and hooks may exhaust the
pool (CallsEnd says when), and in `type_map`, where every goroutine may block after a panic
of a mapping function (see Divergences).

Fairness. `HookPipeline`: weak fairness on each goroutine's step inside an
operation, since hooks and drivers return; nothing obliges a program to start one.
`TypeMapCache`: weak fairness on each goroutine inside `TypeMap`, the Go scheduler.
It suffices for `Lock`: writers overtake one another only while some type is
absent. `TxLifecycle`: weak fairness on the library's calls, on `database/sql`'s
goroutine, and on the program's first close, which is the documented
`defer tx.CloseWithErr(err)`; without that defer a connection is held for ever.
`RowLeases`: weak fairness on each goroutine's step once it has made its call (the
hooks, the driver and the scans return, and the program scans the Row it asked
for, which is what closes it) and on database/sql's goroutine. Nothing obliges a
context to end.

### Findings

Three runs expect a violation; each checks one statement of the repository that the
code does not keep.

| Run | Where | What TLC finds |
|---|---|---|
| `rows_keyed` | `rows.go:78` | Scan into A; a strict scan into B is refused, but B's traversals are now stored under A's key; the next scan into A takes them. `rows` shows that this is the only way. |
| `sql_comment` | `bind.go:388` | `-- in`, a new line, `(?)` with a slice: the word in the comment makes it an IN list. |
| `named_batch_comment` | `named.go:422` | `values /*(*/ (:a)` with two elements: one placeholder, two arguments. |

Divergences met while reading and modelling, which no run checks, as each is a fact about
one step:

- Prepared and executed named queries differ where a name touches what Rebind looks at, although
  `bind.go:62` calls its rules "symmetric with compileNamedQuery". `:a??` compiles to `???`, in
  which Rebind reads an escape and then a placeholder: PrepareNamed gives `$1?`, NamedExec `?$1`.
  `:a:b` compiles to `??` and `\:a` to `\?`, escapes both, so NamedExec loses placeholders.
  `$:a` compiles to `$$1` for PrepareNamed, which opens a dollar quote. A space before or after the name avoids it.
  `NamedPathsAgree`, `EveryNameIsBound` and `BatchRowsAreBound` except these queries
  by name (`NamesApart`, `NoTagMeetsName`); the fragments of `queries` write them.
- A column reaches a RawBytes that Select was to refuse (`scan.go:81`) when the Mapper reads another tag than
  db: `isScanTarget` looks the literal tag db up (`scan.go:309`), `parseName` the tag of the
  Mapper (`reflect.go:251-285`), and `DB.Mapper` is exported. A field `db:"-" json:"raw"` under
  `NewMapper("json")` is mapped and not refused. So is a RawBytes inside a
  Scanner, by a dotted column, although `scan.go:280` says that its fields are never bound.
  `RawBytesAreRefused` states both ways as exceptions; both occur in `struct_mapping`.
- A mapping function that panics leaves the write lock of the Mapper taken
  (`reflect.go:117-124`, Unlock is not deferred): if the program recovers, every later call of
  `TypeMap` waits for ever. `BuildPanics` models it and `CallsReturn` excepts it.
- A second scan of a Row answers ErrNoRows for a result that had rows (`row.go:51-56`): it finds the rows
  closed. `database/sql`'s own Row does the same; `ErrNoRowsMeansEmpty` says of what it speaks.
- Of a transaction that was committed by hand, a later `CloseWithErr(err)` answers err joined with ErrTxDone; it
  stays committed, which is what the exception of `ErrorNeverCommits` for an earlier commit says.

Further: A NamedStmt drops the
values of names its argument lacks (`named.go:242`), which `named.go:284` says were filtered
when it was compiled. Select says "The *sql.Rows are closed automatically"
(`sqlx.go:391`); after a panic in an AfterQuery hook they are not. The `BeforeQuery` of a commit's report sees Error already set
(`tx.go:356`; `hook.go:31` says AfterQuery only); `tx.Commit()`, inherited from
`sql.Tx`, reaches no hook (`README.md:450` reads as if it did); Rebind turns `??` into
`?`, so rebinding twice is not safe in general (`README.md:683`); a batch passes names
its elements lack to functions that say they were filtered out (`named.go:449`,
`named.go:285`).

## 4. Proofs

All proofs hold for arbitrary sets of goroutines, hooks, handles and types and for
any bound, from the assumptions stated with the constants (they say that
identifiers are distinct and that lists fit the model's arrays).

**HookPipelineProofs.** `TypeCorrect`, `Isolation` and `Snapshots` follow from one
inductive invariant `IInv`:

- `TypeInv`: TypeOK; every handle's list is in an array of the DB's (named by a number,
  not a goroutine) and no longer than `MaxHooks`; a chain fits an array; the driver
  has answered before the AfterQuery hooks run. TypeOK alone does not bound the
  indices and the lengths.
- `Sharing`: no handle's array has a name above the length of the DB's list, and a
  handle that shares the DB's array is no longer than the DB's list. This is
  why an append in place, which writes just beyond the DB's length, is beyond
  what any snapshot reads, and why one that reallocates, into the array named by
  the new length, writes nothing that anyone holds.
- `kind[DB] = "db"`, and `CallInv(g)`: during a call the chain of g is in g's own array
  or in one of the DB's and holds `want[g]`; the handle of the call exists; a
  close that has not built its chain yet would build `want[g]`.

`ChainIsolation` alone is not inductive: that another goroutine's `Start` or an
`AddHook` leaves a chain alone depends on who owns the array, and `Sharing` is
preserved by `AddHook` only because all operations are idle. Each action has its
step; `Snapshots` is an action property from the same invariant. `filterHooks` is a recursive
function; what it returns (the hooks of the list that are not nil, in order, no more than the list
has) is proved by induction over the length of the list, as a set of naturals.

Its second part is about the abstract specification. What an operation does with its chain is in
`OnionInv`, on top of `IInv`:

- `NilFree`: no list of a handle and no chain holds nil.
- `Progress(g)`: where the operation is: the index lies within the chain, and the driver has
  not been called before its time.
- `EventInv(g)`: the query and the arguments in the event have one author, the driver was
  given what that author wrote, and the outcome in the event is the driver's until a hook
  replaces it.

`NoHookIsNil`, `OutcomeIsSeen` and `PairsAreSent` follow. `Refinement` takes every action of
`HookPipeline` to one of `HookOnion` or to a stutter, in one lemma per action: the stack
that the mapping computes from `chain` and `idx` grows and shrinks by its last element,
and `want`, which stands for the chain that was promised, is the chain
that runs because of `IInv`.

**TypeMapCacheProofs.** That the locks are held where the program counters say so
(`LockDiscipline`), with TypeOK, is inductive and gives
`NoMapRace`. `OneMapping` adds `MappingInv`: a type is built at most once, its cache
entry is behind only while a goroutine is about to store it, and a goroutine that
builds has found none.

**DefaultMapperProofs.** The pointer, the mutex and the counter of Mappers move
together: without a usable Mapper `made <= sets`, a goroutine that builds has seen that
there is none, and every Mapper handed out since the last assignment is the one
in the pointer. `Current` and `OneMapper` follow.

**RowLeasesProofs.** The invariants speak of calls that have ended; what makes them
inductive is what each program counter knows (`LeaseInv`):

- `QueryInv`: there are no rows before the query and none with its error; open rows
  are in the hands of the AfterQuery hooks or of a function that has a close deferred
  or calls one.
- `RowInv`: a Row is unread until its first scan and closed from then on, so a second
  scan finds nothing to read.
- `SelectInv`: the destination is what the caller gave, or the rows read so far, in order;
  the reason why there is no more row is known when `Err` is asked.

Every action changes the variables of one call (`...IsLocal`), and a call depends on
its own variables only (`OthersKeep`). Those proofs do not need the pool: `Typed`
is `TypeOK` without its bound on the connections in use. `TypeCorrect` proves that bound too:
the connections in use are a finite set (`PoolInv`), a step adds one call's connection to it only
while there are fewer than the pool has, and every other step takes one away or none.

**TxLifecycleProofs.** `TxInv` relates the flag `done` of `sql.Tx`, the server, the goroutine
of `database/sql` and the close that is under way:

- `OneEnd`: whoever has taken `done`, and nobody else, may still send to the server;
  the server is open until then.
- `AsAsked`: a commit is sent only by a close that was asked to commit, so the error of the
  body decides what can reach the server.
- `TrueAnswer`: what the close has in hand (nothing, the driver's error, ErrTxDone or that of
  the context) says what the server did, a failed commit apart, which may have reached it.
- `NoCommitTooLate`: once the context has ended before the first close, no commit is past
  its look at the context.
- `ReportsAreTrue` itself.

`FailedIsNotCommitted` is about every step after the error was given: none of
them, by whatever close or goroutine, makes the server commit. It needs `Refused` on top: a
rollback that has its answer leaves `done` set, whoever took it, so no later close gets as far as
the server. None of the properties is inductive: that a second close, or database/sql's rollback, changes
nothing depends on who holds `done`.

**RowsScanProofs.** The last scan is right because of what is in the cache: `CacheInv` says
that a started cache holds the traversals of its own type for the current result set,
unless there was a strict refusal, and that in strict mode its type is one
that was not refused. No typing is needed.

**SqlProofs.** `TextIsQuery` and `CallIsTyped` say that the state is a query put
together from sequences of bytes, and arguments; everything else is about the operators, for
every query and all arguments. A byte is any string, which is how the model writes bytes, and the
proofs need nothing of it but which bytes differ.

- `ScannersAreRight`. For each kind of region two lemmas say that the scanner and the
  automaton `Region` end it at the same byte: one for quoted text, which may double its
  closing byte (`DelimitedEnds`), one for regions that end with a pattern, comments and dollar
  quotes (`PatternEnds`, with `TagsAgree` for the tags). `Segments` combines them: a
  scanner that starts where the automaton is in SQL text, `Ready`, ends where it is again.
  `SkippedIsProtected` then goes down from the end of the query.
- `PlaceholdersAgree`. `Marks` is the list of placeholders from each byte on, defined by what the
  two loops have in common. A turn of Rebind moves the byte it passes from the front of
  `Marks` to the end of what it wrote down (`RebindTurns`, `RebindWalk`); `nextPlaceholder` finds the head of `Marks`
  (`NextIsHead`), so starting over after each one yields all of them (`InVarsAreMarks`).
- `PlaceholdersAreBound`. What In writes is read again, by Rebind, from the start, so the question
  is whether a piece of a query that was copied behind other text still reads as it did. It
  does not in general: a `?` in front of one that is copied makes an escape, and `-` in
  front of `-` a comment. `Same` says that two queries have the same bytes over a stretch that
  ends before a placeholder or at the end of both; scanner by scanner, what begins there ends at the same byte
  (`SameSegment`), so the placeholders are the same (`SameMarks`). `Counts(w, c)` is the
  invariant of what In has written: w, which is empty or ends in a placeholder, holds c placeholders
  whatever follows, unless a `?` does, and `GoesOn` says that none does: the query
  is copied from a byte that is no `?`, because two in a row are an escape. Copying up to the next placeholder keeps it
  (`CountsCopy`), as does `, ?` for another element (`CountsMore`, `CountsSpread`). With as many
  arguments put down as placeholders counted this is `Binds`, which holds after every turn of the loop
  (`InTurns`, `InBinds`), and copying the rest, where there are no more placeholders, adds none
  (`CountsRest`, `InRestBinds`).

- `ListsExpand`. What In takes for an IN list is one by the reference, and the other way round, unless
  the word in that stands in front of the parenthesis ends a comment (`InEndsComment`); this is
  the one case in which `precededByIn`, which reads backwards without the scanners,
  is wrong, and `sql_comment` shows it. A turn of `nextPlaceholder` knows the last parenthesis that
  only spaces separate from it (`JudgedRight`, `NextTells`), a parenthesis in SQL text; the turns of In meet
  the placeholders in their order (`InPlaces`), so what they put down is `Expected`
  (`ExpectedPlaces`).

- `NamesAreRecorded`. A turn of the compiler copies what it passes or takes a name
  (`CompileWays`). The reference, `NamesIn`, knows nothing of turns: it counts the colons that
  stand right before a colon. Between two turns the compiler is at a byte of SQL text, or past a region, with an
  even number of colons before it (`Stops`), so that it takes a name where the reference has
  one begin. What it has recorded, with the names that begin later (`NameList`), is always
  the whole list (`Records`). It holds for every kind of placeholders, hence
  `StmtsPassTheSame`; with `BindsEveryName` it yields the values of a batch too, `BatchValuesInOrder`.
- `NamesAreBound`. The number of placeholders in what was compiled is the question of
  `PlaceholdersAreBound` again, with more that can go wrong, since a name is replaced by
  something shorter. The comparison is with `Marked`, the query with a `?` where every known name begins and
  the rest of it in place: the scanners do not look for `:` or `?`, so they read it as they
  read the query (`AlikeSegment`), and it differs from what was compiled in the bytes of names alone. `Holds` is
  the invariant: what was written up to the last name holds a placeholder for every name recorded (`Counts`), and what
  follows is a copy of the query. When a call has slices, `autoIn` refuses one whose placeholders do not add up,
  and the two theorems about In finish the argument (`AutoInBinds`, `AutoInPlaces`), whatever was
  compiled. When it has none, the driver gets the compiled query as it is, and names must stand apart
  (`NamesApart`): `\:a` compiles to `\?` and `:a:b` to `??`, escapes both, so a
  placeholder is lost, and `:a??` to `???`, where Rebind takes the first two for the escape. A slice that only In
  recognises (a pointer to one, a Valuer) is passed whole when no other argument makes `autoIn`
  call In. `BindsAsWritten`, the premise of the property, collects these exceptions and the one of `ListsExpand`.

**StructMappingProofs.** Nothing is assumed of the declarations but `WorkloadAssumption`: types
and fields are finitely many, RawBytes is no struct, no name is a dash, and no slice is embedded, all of which
Go sees to.

- `WalkMissesNothing`: walkRawBytes answers yes exactly for the types below which there is a RawBytes
  (`RawBytesAreFound`), recursive declarations included. `WalkInv` is kept by every call: the
  types to come are reachable, and what lies directly inside a type already seen is seen or
  still to come. Each call makes `Measure` smaller, a number that counts the types not seen before the
  calls to come, so the calls end within `maxCalls`. With none left, the types seen are closed
  under what lies inside, hence all that can be reached: `Reached`, which is defined by levels,
  is closed because a level that adds nothing comes no later than there are types (`ReachedIsClosed`),
  and is the least such set (`ReachedIsLeast`).
- `NoNameReachesRawBytes`: a type that Select accepts maps no name to a RawBytes
  (`RawBytesAreRefused`), apart from what is inside a Scanner, or past a field that the tag db takes out
  and the tag of the Mapper in use does not (`Hidden`). `QueueInv` says of every entry of getMapping's
  queue, and of every field in the map, that its type can be reached from the struct, if no field on
  its way is of those (`Clear`): the two walks agree on the rest, whatever tag the Mapper reads.

The library's induction theorems take operators, which the provers cannot instantiate.
`LeastOf`, `Upward` and `Downward` state induction over the naturals for sets instead; with
them a recursive function is shown to exist, and to have the value that is claimed, for every
length.

Only model-checked:

- liveness (`OperationsEnd`, `CallsReturn`, `ConnectionIsReleased`, `CallsEnd`), which needs ENABLED;
- `BatchRowsAreBound`, which holds in the run whose queries have no comment in the wrong place and
  is refuted by `named_batch_comment` (its half about values is `BatchValuesInOrder`);
  `OnlyInListsExpand` is proved for the queries that do not meet the other such case;
- `NamedPathsAgree`: its half about values is `StmtsPassTheSame`; its half about the queries compares `$1`, `$2`
  written by the compiler with those written by Rebind, and what TLC's `ToString` makes of a number is
  not something the provers know;
- `ShallowestFieldWins` and `RecursionHidesNothing`: their reference lists the chains of fields up
  to a length that the workload fixes, so the statement itself is bounded, and its proof would be an
  induction over all chains.

## 5. Not modelled

- `FieldByIndexes`, `GetByTraversal` and tag options: what a traversal does to one value.
- `Rows.SliceScan`, `Rows.MapScan`, and ScanAll on rows that the program closes: no state of
  their own; the loop is `scanAll`'s.
- The strict flag and the Mapper that a handle gives to the Rows and handles derived from
  it: copied at creation, together with the hooks.
- `types/`: encoders without shared state, apart from `JSONText.Scan`, which reuses its
  buffer (see the hazards).
- The bind-type registry, `Open`/`Connect`, options: straight lines of calls.
- Drivers, pooling and statement caching of `database/sql`.

## 6. Plan

Done, most important behaviour first:

1. `HookOnion`, `HookPipeline`: hooks and handles, the refinement, chain isolation.
2. `TypeMapCache`, 3. `DefaultMapper`: the shared caches.
4. `TxLifecycle`: closing, cancelling, reporting.
5. `RowsScan`: the scan cache.
6. `SqlLexer`, `SqlBind`, `SqlPlaceholders`, `NamedQuery`: the algorithms, NamedStmt included.
7. `RowLeases`: Row, Get, Select and who closes their rows.
8. `StructMapping`: getMapping and the walk for RawBytes.

Left:

9. Proofs: the queries of `NamedPathsAgree`, with numerals of the model's own for `ToString`;
   `ShallowestFieldWins`, with a reference that does not bound the chains.
10. `Session`: `TxLifecycle` composed with `HookPipeline`, so that a hook can cancel
    the ctx of the operation it wraps.
