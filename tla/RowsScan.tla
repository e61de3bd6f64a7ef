------------------------------- MODULE RowsScan -------------------------------
(***************************************************************************)
(* Rows.StructScan (rows.go): scanning row after row into structs, with    *)
(* the traversals from columns to struct fields cached between calls.  The *)
(* program may switch the destination type and the result set, and goes on *)
(* after an error.  A traversal is abstracted to the struct type it was    *)
(* computed for and the column it serves; <<>> is a column without field.  *)
(* The iteration of database/sql's Rows is modelled from its use here.     *)
(***************************************************************************)
EXTENDS Naturals, Sequences

CONSTANTS
  StructType,  \* the struct types the program scans into
  FieldsOf,    \* the columns each of them has a field for
  Columns      \* the columns of every result set of the query, in order

ASSUME ColumnsAssumption == Len(Columns) > 0 /\ \A s \in DOMAIN Columns : Len(Columns[s]) > 0

NoType == "none"

VARIABLES
  strict,                             \* strict mode, as the handle had it
  started, destType, fields, values,  \* the cache of a Rows (values: its length)
  set,                                \* the current result set
  cursor,                             \* where the iteration is in it
  last,                               \* history: the last StructScan of the result set
  refused                             \* history: a strict refusal since the cache was filled or dropped

cacheVars == <<started, destType, fields, values>>
vars == <<strict, started, destType, fields, values, set, cursor, last, refused>>

None == [dest |-> NoType, used |-> <<>>, cols |-> <<>>, res |-> "none"]

Init ==
  /\ strict \in BOOLEAN /\ refused = FALSE
  /\ started = FALSE /\ destType = NoType /\ fields = <<>> /\ values = 0
  /\ set = 1 /\ cursor = "before" /\ last = None

\* TraversalsByName: the traversal of every column for struct type t.
TraversalsByName(t, cols) ==
  [i \in DOMAIN cols |-> IF cols[i] \in FieldsOf[t] THEN <<t, cols[i]>> ELSE <<>>]

\* checkMissingFields refuses traversals with a column that has no field.
Missing(traversals) == \E i \in DOMAIN traversals : traversals[i] = <<>>

Cache(isStarted, t, f, n) ==
  /\ started' = isStarted /\ destType' = t /\ fields' = f /\ values' = n

\* Next of database/sql: a row, or the end of the result set; the end of the last
\* one closes the Rows.
NextRow ==
  /\ cursor \in {"before", "row"}
  /\ cursor' \in {"row", IF set = Len(Columns) THEN "closed" ELSE "end"}
  /\ UNCHANGED <<strict, cacheVars, set, last, refused>>

\* NextResultSet drops the cache, whether there is another result set or not.
NextResultSet ==
  /\ Cache(FALSE, NoType, <<>>, 0)
  /\ IF cursor # "closed" /\ set < Len(Columns)
     THEN set' = set + 1 /\ cursor' = "before"
     ELSE cursor' = "closed" /\ UNCHANGED set
  /\ last' = None /\ refused' = FALSE
  /\ UNCHANGED strict

\* Mutated form: the type of the destination is not compared.
Cached_AnyType(t) == started

\* The cached traversals are used for a destination of type t.
Cached(t) == started /\ destType = t

\* Fields filled and rows scanned with the traversals now in the cache: the driver
\* may fail, a number of values other than the number of columns does, and an
\* index past the values, or a field of another struct, may panic.
Scanned(t, used, n) ==
  LET cols == Columns[set] IN
  \E res \in IF Len(used) > n THEN {"panic"}
             ELSE (IF cursor = "row" /\ n = Len(cols) THEN {"ok", "err"} ELSE {"err"})
                  \cup (IF used # TraversalsByName(t, cols) THEN {"panic"} ELSE {}) :
    last' = [dest |-> t, used |-> used, cols |-> cols, res |-> res]

\* Mutated form: the cache is filled before the strict check.
StructScan_CacheFirst(t) ==
  /\ LET cols == Columns[set]
         trav == TraversalsByName(t, cols)
     IN
     \/ /\ Cached(t)
        /\ Scanned(t, fields, values)
        /\ UNCHANGED <<cacheVars, refused>>
     \/ /\ ~Cached(t) /\ cursor # "closed"
        /\ Cache(TRUE, t, trav, Len(cols))
        /\ refused' = (strict /\ Missing(trav))
        /\ IF strict /\ Missing(trav)
           THEN last' = [dest |-> t, used |-> <<>>, cols |-> cols, res |-> "strict"]
           ELSE Scanned(t, trav, Len(cols))
  /\ UNCHANGED <<strict, set, cursor>>

\* StructScan into a struct of type t.  In strict mode a column without a field is
\* an error, returned when the traversals are stored but the type is not.
StructScan(t) ==
  /\ LET cols == Columns[set]
         trav == TraversalsByName(t, cols)
     IN
     \/ /\ Cached(t)
        /\ Scanned(t, fields, values)
        /\ UNCHANGED <<cacheVars, refused>>
     \/ /\ ~Cached(t) /\ cursor = "closed"
        /\ last' = [dest |-> t, used |-> <<>>, cols |-> <<>>, res |-> "err"]
        /\ UNCHANGED <<cacheVars, refused>>
     \/ /\ ~Cached(t) /\ cursor # "closed" /\ strict /\ Missing(trav)
        /\ refused' = TRUE
        /\ Cache(started, destType, trav, values)
        /\ last' = [dest |-> t, used |-> <<>>, cols |-> cols, res |-> "strict"]
     \/ /\ ~Cached(t) /\ cursor # "closed" /\ ~(strict /\ Missing(trav))
        /\ refused' = FALSE
        /\ Cache(TRUE, t, trav, Len(cols))
        /\ Scanned(t, trav, Len(cols))
  /\ UNCHANGED <<strict, set, cursor>>

\* The program may stop early.
Close ==
  /\ cursor # "closed"
  /\ cursor' = "closed"
  /\ UNCHANGED <<strict, cacheVars, set, last, refused>>

Next ==
  \/ NextRow
  \/ NextResultSet
  \/ \E t \in StructType : StructScan(t)
  \/ Close

Spec == Init /\ [][Next]_vars

-----------------------------------------------------------------------------
Results == {"none", "ok", "err", "strict", "panic"}

\* The type invariant of the scan cache: it is started exactly when it has a type, and
\* its slices are never longer than the columns of the current result set.
TypeOK ==
  /\ strict \in BOOLEAN /\ refused \in BOOLEAN
  /\ started \in BOOLEAN
  /\ destType \in StructType \cup {NoType}
  /\ started <=> destType # NoType
  /\ Len(fields) \in 0..Len(Columns[set]) /\ values \in 0..Len(Columns[set])
  /\ set \in DOMAIN Columns
  /\ cursor \in {"before", "row", "end", "closed"}
  /\ last.res \in Results

OwnFields == last.res = "ok" => last.used = TraversalsByName(last.dest, last.cols)

\* "A different destination type would reuse traversals computed for another struct
\* and write to the wrong fields" (rows.go:69): every StructScan that succeeds has
\* written the fields of its own destination, for the columns of the result set it
\* was in.
CacheIsKeyed == OwnFields

\* The same as long as the cache was not left half updated by a strict refusal: no
\* switch of type or of result set, and no error of a scan, makes it stale.
ScansOwnFields == ~refused => OwnFields

\* In strict mode no StructScan succeeds on a column its destination has no field
\* for, whatever was scanned or refused before.
StrictRefuses ==
  strict /\ last.res = "ok" => ~Missing(TraversalsByName(last.dest, last.cols))
=============================================================================
