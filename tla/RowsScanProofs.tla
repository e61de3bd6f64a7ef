---------------------------- MODULE RowsScanProofs ----------------------------
(***************************************************************************)
(* Proofs about RowsScan, for any struct types, fields and result sets:    *)
(* what a StructScan that succeeds has scanned into.                       *)
(***************************************************************************)
EXTENDS RowsScan, TLAPS

\* The traversals of type t for the current result set.
Own(t) == TraversalsByName(t, Columns[set])

\* What the cache is known to hold: the traversals of its type for the current result
\* set, unless a strict refusal has left it half updated, and in strict mode a type
\* that was not refused.
CacheInv ==
  /\ started /\ ~refused => fields = Own(destType)
  /\ started /\ strict => ~Missing(Own(destType))

ScanInv == CacheInv /\ ScansOwnFields /\ StrictRefuses

\* The scan records the traversals it used and the columns it used them for.
LEMMA ScannedRecords ==
  ASSUME NEW t, NEW used, NEW n, Scanned(t, used, n)
  PROVE  last'.dest = t /\ last'.used = used /\ last'.cols = Columns[set]
  BY DEF Scanned

\* A StructScan, with the checks it makes and the cache it fills, preserves the
\* invariant.
LEMMA StructScanPreserves ==
  ASSUME ScanInv, NEW t \in StructType, StructScan(t)
  PROVE  ScanInv'
<1> USE DEF ScanInv, CacheInv, ScansOwnFields, OwnFields, StrictRefuses, Own, Cache
<1>1. UNCHANGED <<strict, set>>
  BY DEF StructScan
\* Cached: the traversals are those of t unless there was a refusal, and t was not refused.
<1>2. CASE Cached(t) /\ Scanned(t, fields, values) /\ UNCHANGED <<cacheVars, refused>>
  BY <1>1, <1>2, ScannedRecords DEF Cached, cacheVars
<1>3. CASE last'.res = "err" /\ UNCHANGED <<cacheVars, refused>>
  BY <1>1, <1>3 DEF cacheVars
\* Refused: the traversals no longer belong to the type, and refused remembers it.
<1>4. CASE last'.res = "strict" /\ refused' = TRUE /\ Cache(started, destType, Own(t), values)
  BY <1>1, <1>4
\* Filled again.
<1>5. CASE /\ ~(strict /\ Missing(Own(t))) /\ refused' = FALSE
           /\ Cache(TRUE, t, Own(t), Len(Columns[set])) /\ Scanned(t, Own(t), Len(Columns[set]))
  BY <1>1, <1>5, ScannedRecords
<1>6. CASE ~Cached(t) /\ cursor = "closed"
  <2>1. last' = [dest |-> t, used |-> <<>>, cols |-> <<>>, res |-> "err"] /\ UNCHANGED <<cacheVars, refused>>
    BY <1>6 DEF StructScan
  <2> QED
    BY <1>3, <2>1
<1>7. CASE ~Cached(t) /\ cursor # "closed" /\ strict /\ Missing(Own(t))
  <2>1. /\ last' = [dest |-> t, used |-> <<>>, cols |-> Columns[set], res |-> "strict"]
        /\ refused' = TRUE /\ Cache(started, destType, Own(t), values)
    BY <1>7 DEF StructScan
  <2> QED
    BY <1>4, <2>1
<1>8. CASE ~Cached(t) /\ cursor # "closed" /\ ~(strict /\ Missing(Own(t)))
  <2>1. /\ refused' = FALSE
        /\ Cache(TRUE, t, Own(t), Len(Columns[set])) /\ Scanned(t, Own(t), Len(Columns[set]))
    BY <1>8 DEF StructScan
  <2> QED
    BY <1>5, <1>8, <2>1
<1>9. CASE Cached(t)
  BY <1>2, <1>9 DEF StructScan
<1> QED
  BY <1>6, <1>7, <1>8, <1>9

\* The invariant always holds.
LEMMA ScanInvariant == Spec => []ScanInv
<1> USE DEF ScanInv, CacheInv, ScansOwnFields, OwnFields, StrictRefuses, Own
<1>1. Init => ScanInv
  BY DEF Init, None
<1>2. ScanInv /\ [Next]_vars => ScanInv'
  <2> SUFFICES ASSUME ScanInv, [Next]_vars PROVE ScanInv'
    OBVIOUS
  <2>1. CASE NextRow
    BY <2>1 DEF NextRow, cacheVars
  <2>2. CASE NextResultSet
    BY <2>2 DEF NextResultSet, Cache, None
  <2>3. CASE \E t \in StructType : StructScan(t)
    BY <2>3, StructScanPreserves
  <2>4. CASE Close
    BY <2>4 DEF Close, cacheVars
  <2>5. CASE UNCHANGED vars
    BY <2>5 DEF vars, cacheVars
  <2> QED
    BY <2>1, <2>2, <2>3, <2>4, <2>5 DEF Next
<1> QED
  BY <1>1, <1>2, PTL DEF Spec

\* Every StructScan that succeeds has written the fields of its own destination, for the
\* columns of the result set it was in, unless a strict refusal came before.
THEOREM OwnFieldsOnly == Spec => []ScansOwnFields
<1>1. ScanInv => ScansOwnFields
  BY DEF ScanInv
<1> QED
  BY <1>1, ScanInvariant, PTL

\* In strict mode no StructScan succeeds on a column its destination has no field for,
\* not even after a refusal has left its traversals in the cache.
THEOREM StrictIsStrict == Spec => []StrictRefuses
<1>1. ScanInv => StrictRefuses
  BY DEF ScanInv
<1> QED
  BY <1>1, ScanInvariant, PTL
=============================================================================
