--------------------------- MODULE SqlPlaceholders ---------------------------
(***************************************************************************)
(* What happens to a query and its arguments before the hooks see them     *)
(* (bind.go, named.go): autoIn expands slices into IN lists, then Rebind   *)
(* turns the ? placeholders into those of the driver.  In and Rebind each  *)
(* walk the query on their own; they must agree on what a placeholder is.  *)
(*                                                                         *)
(* The state is a call being written: a query put together from fragments, *)
(* and the arguments passed with it.  The algorithms are operators on it.  *)
(***************************************************************************)
EXTENDS SqlBind

\* The kinds of calls that are enumerated.  Each is a record: the fragments
\* (sequences of bytes) its queries are made of and the arguments passed, with
\* the bounds maxFragments and maxArgs on their numbers.
CONSTANT Workloads

ASSUME WorkloadAssumption ==
  \A w \in Workloads : w.fragments \subseteq Seq(STRING) /\ w.args \subseteq Arg

VARIABLES workload, query, args

vars == <<workload, query, args>>

Init == workload \in Workloads /\ query = <<>> /\ args = <<>>

Write(f) ==
  /\ Len(query) < workload.maxFragments
  /\ query' = Append(query, f)
  /\ UNCHANGED <<workload, args>>

Pass(a) ==
  /\ Len(args) < workload.maxArgs
  /\ args' = Append(args, a)
  /\ UNCHANGED <<workload, query>>

Next == (\E f \in workload.fragments : Write(f)) \/ (\E a \in workload.args : Pass(a))

Spec == Init /\ [][Next]_vars

\* The bytes of the query.
Text == FlattenSeq(query)

-----------------------------------------------------------------------------
(* What must hold.  The first two depend on the query alone, and are        *)
(* evaluated where it has no arguments yet.                                *)

\* scanSkipSegment (lexer.go:47), called from left to right, skips the bytes of
\* literals, quoted identifiers, dollar quotes and comments and no others: the
\* scanners, each with its own rules for doubling, tags and unclosed regions,
\* agree with an automaton that reads the query once.
ScannersMatchReference == args = <<>> => Skipped(Text) = Protected(Text)

\* Rebind and In "keep treating any ? preceded by a backslash as escaped"
\* (CHANGELOG.md:28) and must find the same placeholders: they walk the query in
\* two separate loops, and In starts over after every placeholder.
RebindAndInAgree == args = <<>> => RebindVars(Text) = InVars(Text)

\* When autoIn has rewritten a call, the driver's query has one placeholder for
\* every argument that goes with it: nothing is left unbound, nothing is bound twice.
EveryPlaceholderIsBound ==
  LET r == autoIn(Text, args) IN
  needsInRewrite(args) /\ r.err = "" => Len(RebindVars(r.query)) = Len(r.args)

\* The reference for an IN list: the placeholder at p stands between parentheses
\* alone, after the word in, and all of that is SQL text, not a comment.
InList(q, p) ==
  LET blank == {i \in 1..Len(q) : q[i] \in isASCIISpace}
      solid == (1..Len(q)) \ blank
      Before(i) == Max({0} \cup {j \in solid : j < i})
      open == Before(p)
      word == Before(open)
      next == {j \in solid : j > p}
  IN /\ At(q, open) = "(" /\ next # {} /\ q[Min(next)] = ")"
     /\ word >= 2 /\ q[word] = "n" /\ q[word - 1] = "i"
     /\ {word - 1, word, open} \cap Protected(q) = {}
     /\ At(q, word - 2) \notin isIdentByte \cup {"."}

\* The arguments a call should end up with: slices are spread over IN lists, and
\* over any placeholder when the program asks for it, and nowhere else.
Expected(q, as) ==
  LET vs == RebindVars(q) IN
  FlattenSeq([k \in DOMAIN as |->
    IF as[k].kind = "list" \/ (IsSlice(as[k]) /\ InList(q, vs[k]))
    THEN IF as[k].len = 0 THEN Whole(k) ELSE Elements(k, as[k].len)
    ELSE Whole(k)])

\* Only blanks stand from lo to hi.
Blank(q, lo, hi) == \A j \in lo..hi : q[j] \in isASCIISpace

\* The word in at the end of a comment, and only blanks between it and a ( of SQL text.
InEndsComment(q) ==
  \E open \in 1..Len(q) : \E word \in 2..(open - 1) :
    /\ q[open] = "(" /\ open \notin Protected(q) /\ Blank(q, word + 1, open - 1)
    /\ q[word - 1] = "i" /\ q[word] = "n"
    /\ {word - 1, word} \cap Protected(q) # {}

\* In spreads the slices of IN lists, and only those ("Other positions + slice ->
\* single value", bind.go:181), in the order of the arguments.
OnlyInListsExpand ==
  LET r == autoIn(Text, args) IN
  needsInRewrite(args) /\ r.err = "" => r.args = Expected(Text, args)
=============================================================================
