----------------------------- MODULE NamedQuery -----------------------------
(***************************************************************************)
(* Named queries (named.go): compileNamedQueryWith turns :name into the    *)
(* placeholders of a driver, bindStruct and bindMap take the values from   *)
(* one struct or map, bindArray from a slice of them, for which fixBound   *)
(* repeats the VALUES group.  NamedExec, NamedQuery and the others compile *)
(* to ? and hand query and values to the operation, whose autoIn and       *)
(* Rebind then work on what the compilation wrote (SqlBind).  PrepareNamed *)
(* compiles to the driver's own placeholders, which Preparex rebinds, and  *)
(* a NamedStmt passes the values of the names to it as they are.           *)
(*                                                                         *)
(* The state is a call being written, as in SqlPlaceholders, with the      *)
(* elements passed to it: each gives some names a value, known by its      *)
(* class.                                                                  *)
(***************************************************************************)
EXTENDS SqlPlaceholders

\* A workload has four more fields: the names that occur in its fragments, the
\* elements passed (functions from names to classes of arguments), slices of them of
\* up to maxElems, and the calls ("one", "slice", "stmt") made with them.
ASSUME ElementAssumption ==
  \A w \in Workloads : \A e \in w.elems :
    DOMAIN e \subseteq w.names /\ \A n \in DOMAIN e : e[n] \in Arg

VARIABLES
  elems,      \* the elements passed: one struct or map, or those of a slice
  call,       \* the operation that was called, "none" before
  compiled,   \* what it compiled the query to, and the names in it
  bound       \* the SQL and the values that binding returned

namedVars == <<elems, call, compiled, bound>>

None == [query |-> <<>>, names |-> <<>>]
Unbound == [query |-> <<>>, args |-> <<>>]
Names == workload.names
Elems == workload.elems

NamedInit == Init /\ elems = <<>> /\ call = "none" /\ compiled = None /\ bound = Unbound

\* Writing the query: the steps of SqlPlaceholders.
WriteMore == call = "none" /\ Next /\ UNCHANGED namedVars

-----------------------------------------------------------------------------
(* Compilation                                                             *)

isBindStartByte == Letter \cup {"_"}
isBindNameByte == isBindStartByte \cup Digit \cup {"."}

\* The name that starts at i: bytes of names as far as they go.
NameAt(q, i) ==
  LET ends == {j \in i..Len(q) : \A k \in i..j : q[k] \in isBindNameByte}
  IN SubSeq(q, i, Max(ends))

\* Mutated form: the counter of the numbered placeholders stands still.
emitParam_SameNumber(type, names, name) == IF type = "NAMED" THEN <<":">> \o name ELSE Bindvar(type, 1)

\* emitParam: the placeholder for a name, the one after those already there.
emitParam(type, names, name) == IF type = "NAMED" THEN <<":">> \o name ELSE Bindvar(type, Len(names) + 1)

\* Mutated form: every name is a parameter.
Written_Always(type, known, names, name) == emitParam(type, names, name)

\* known are the names nameExists accepts; another is written back as it was (emitLiteral).
Written(type, known, names, name) ==
  IF name \in known THEN emitParam(type, names, name) ELSE <<":">> \o name

\* One turn of the loop of compileNamedQueryWith, at byte r.pos: r.query is what was
\* written so far, r.names the names recorded.
CompileTurn(type, q, known, r) ==
  LET i == r.pos
      end == scanSkipSegment(q, i)
      next == At(q, i + 1)
      name == NameAt(q, i + 1)
      Copy(to) == [r EXCEPT !.pos = to, !.query = @ \o SubSeq(q, i, to - 1)]
  IN IF end > i THEN Copy(end)
     ELSE IF q[i] # ":" THEN Copy(i + 1)
     ELSE IF next \in {":", "="} THEN Copy(i + 2)
     ELSE IF next \notin isBindStartByte THEN Copy(i + 1)
     ELSE [pos   |-> i + 1 + Len(name),
           query |-> r.query \o Written(type, known, r.names, name),
           names |-> IF name \in known THEN Append(r.names, name) ELSE r.names]

\* The loop.  A turn moves on by a byte or more.
CompileLoop(type, q, known) ==
  LET after[k \in 0..Len(q)] ==
        IF k = 0 THEN [pos |-> 1, query |-> <<>>, names |-> <<>>]
        ELSE LET r == after[k - 1] IN IF r.pos > Len(q) THEN r ELSE CompileTurn(type, q, known, r)
  IN after[Len(q)]

compileNamedQueryWith(type, q, known) ==
  LET r == CompileLoop(type, q, known) IN [query |-> r.query, names |-> r.names]

\* Without a nameExists every name is a parameter.
AnyName == Seq(STRING)

compileNamedQuery(type, q) == compileNamedQueryWith(type, q, AnyName)

-----------------------------------------------------------------------------
(* Binding                                                                 *)

\* bindArgs and bindMapArgs: the value of every name the element has, in order.
bindAnyArgs(names, as, k) ==
  FlattenSeq([i \in DOMAIN names |->
    IF names[i] \in DOMAIN as[k] THEN <<[elem |-> k, name |-> names[i]]>> ELSE <<>>])

\* The SQL text of a query from position start on, as the scanners see it from there.
SqlText(s, start) == (start..Len(s)) \ SkippedFrom(s, start)

\* How many parentheses of a text are open before position i.
Depth(s, text, i) ==
  Cardinality({j \in text : j < i /\ s[j] = "("}) - Cardinality({j \in text : j < i /\ s[j] = ")"})

\* The first of some positions, 0 when there is none.
First(positions) == IF positions = {} THEN 0 ELSE Min(positions)

VALUES == <<"v", "a", "l", "u", "e", "s">>

\* isKeywordAt: the word stands at i, whole.
isKeywordAt(s, i, word) ==
  HasAt(s, i, word) /\ At(s, i - 1) \notin isIdentByte /\ At(s, i + Len(word)) \notin isIdentByte

\* Mutated form: the first VALUES is taken, wherever it is.
findValuesKeyword_First(s) ==
  First({i \in SqlText(s, 1) : isKeywordAt(s, i, VALUES)})

\* findValuesKeyword: the first VALUES outside parentheses, or else the first one;
\* 0 when there is none.
findValuesKeyword(s) ==
  LET text == SqlText(s, 1)
      hits == {i \in text : isKeywordAt(s, i, VALUES)}
      top == {i \in hits : Depth(s, text, i) = 0}
  IN First(IF top # {} THEN top ELSE hits)

\* findMatchingClosingBracketIndex: the ) that closes the ( at open, 0 for none.  The
\* scanners start at open.
findMatchingClosingBracketIndex(s, open) ==
  LET text == SqlText(s, open)
  IN First({i \in text : s[i] = ")" /\ Depth(s, text, i) = 1})

\* The group fixBound repeats, by its ends, as a set of at most one: after VALUES, the
\* first ( of any kind and the ) that closes it.
Groups(s) ==
  UNION {{<<open, findMatchingClosingBracketIndex(s, open)>> :
            open \in {First({i \in (v + Len(VALUES))..Len(s) : s[i] = "("})} \ {0}} :
          v \in {findValuesKeyword(s)} \ {0}}

\* fixBound: the group after VALUES, repeated until it is there loop times.
fixBound(s, loop) ==
  LET closed == {g \in Groups(s) : g[2] # 0}
      Repeated(g) ==
        SubSeq(s, 1, g[2])
        \o FlattenSeq([i \in 1..(loop - 1) |-> <<",">> \o SubSeq(s, g[1], g[2])])
        \o SubSeq(s, g[2] + 1, Len(s))
  IN IF closed = {} THEN s ELSE Repeated(CHOOSE g \in closed : TRUE)

\* bindArray, for a slice that is not empty, on the query it has compiled to ?: the
\* group repeated for every element.
bindArray(type, c, as) ==
  [query |-> Rebind(type, IF Len(as) > 1 THEN fixBound(c.query, Len(as)) ELSE c.query),
   args  |-> FlattenSeq([k \in DOMAIN as |-> bindAnyArgs(c.names, as, k)])]

-----------------------------------------------------------------------------
(* The calls                                                               *)

\* One struct or map (bindStruct, bindMap): names it has no value for stay in the query.
CallWithOne(e) ==
  /\ call = "none" /\ "one" \in workload.calls
  /\ call' = "one" /\ elems' = <<e>>
  /\ compiled' = compileNamedQueryWith("QUESTION", Text, DOMAIN e)
  /\ bound' = [query |-> compiled'.query, args |-> bindAnyArgs(compiled'.names, <<e>>, 1)]
  /\ UNCHANGED vars

\* A slice of them.
CallWithSlice(es) ==
  /\ call = "none" /\ "slice" \in workload.calls
  /\ call' = "slice" /\ elems' = es
  /\ compiled' = compileNamedQuery("QUESTION", Text)
  /\ bound' = bindArray("QUESTION", compiled', es)
  /\ UNCHANGED vars

\* prepareNamed, for a driver with numbered placeholders: Preparex rebinds what was
\* compiled for the driver already.  Nobody asks which names there are values for.
prepareNamed(q) ==
  LET c == compileNamedQuery("DOLLAR", q) IN [query |-> Rebind("DOLLAR", c.query), names |-> c.names]

\* Exec, Query or QueryRow of a NamedStmt: the Stmt gets the values, its query stays.
ExecStmt(stmt, e) == [query |-> stmt.query, args |-> bindAnyArgs(stmt.names, <<e>>, 1)]

\* PrepareNamed, then a method of the NamedStmt with one struct or map.
CallStmt(e) ==
  /\ call = "none" /\ "stmt" \in workload.calls
  /\ call' = "stmt" /\ elems' = <<e>>
  /\ compiled' = prepareNamed(Text)
  /\ bound' = ExecStmt(compiled', e)
  /\ UNCHANGED vars

NamedNext ==
  \/ WriteMore
  \/ \E e \in Elems : CallWithOne(e) \/ CallStmt(e)
  \/ \E n \in 1..workload.maxElems : \E es \in [1..n -> Elems] : CallWithSlice(es)

NamedSpec == NamedInit /\ [][NamedNext]_<<vars, namedVars>>

\* The values that were bound, by their classes.
BoundValues == [i \in DOMAIN bound.args |-> elems[bound.args[i].elem][bound.args[i].name]]

\* What autoIn, the first step of the operation that CallWithOne and CallWithSlice end
\* in, makes of the bound query.  Its arguments name their place in bound.args.
Rewritten == autoIn(bound.query, BoundValues)

-----------------------------------------------------------------------------
(* What must hold                                                          *)

\* Every ? of the program's own is escaped or inside a literal.
NoBareMarks == RebindVars(Text) = <<>>

\* The reference for the names of a query that are known, by their colons: colons of the
\* SQL text that the ones right before them pair off without, with a letter or an
\* underscore after them.
NameStarts(q, known) ==
  LET text == (1..Len(q)) \ Protected(q)
      Colon(i) == i \in text /\ q[i] = ":"
      Run(i) == {j \in 1..(i - 1) : \A k \in j..(i - 1) : Colon(k)}
  IN {i \in text : /\ Colon(i) /\ Cardinality(Run(i)) % 2 = 0
                   /\ At(q, i + 1) \in isBindStartByte /\ NameAt(q, i + 1) \in known}

\* The names, in the order of the query.
NamesIn(q, known) ==
  LET starts == NameStarts(q, known)
      from[i \in 1..(Len(q) + 1)] ==
        IF i > Len(q) THEN <<>>
        ELSE IF i \in starts THEN <<NameAt(q, i + 1)>> \o from[i + 1] ELSE from[i + 1]
  IN from[1]

\* Names that stand apart: no \ before one, no ? and no other name right behind it.
NamesApart(q, known) ==
  \A i \in NameStarts(q, known) :
    LET end == i + 1 + Len(NameAt(q, i + 1))
    IN At(q, i - 1) # "\\" /\ At(q, end) # "?" /\ end \notin NameStarts(q, known)

\* No name follows a $, or the beginning of a dollar tag, which a $1 in its place
\* would complete.
NoTagMeetsName(q, known) ==
  \A i \in NameStarts(q, known), j \in 1..Len(q) :
    j < i /\ q[j] = "$" => \E k \in (j + 1)..(i - 1) : q[k] \notin isDollarTagByte

\* A named query gets the same SQL and the same values whether it is prepared
\* (PrepareNamed, then NamedStmt.Exec) or executed (NamedExec, NamedQuery), although
\* one way compiles to $1 at once and the other to ? first: when every name has a value
\* and no value is a slice, which a NamedStmt would not spread, and when the names stand
\* apart from each other, from the backslashes and question marks of the program and
\* from dollar tags.  Otherwise the two ways do differ, for \:a, :a:b, :a?? and $:a: the
\* rules of Rebind are not symmetric with the compiler's, as bind.go:62 says, about what
\* the compiler has written itself.
NamedPathsAgree ==
  LET executed == compileNamedQueryWith("QUESTION", Text, DOMAIN elems[1]) IN
  /\ call = "stmt" /\ NoBareMarks /\ ~needsInRewrite(BoundValues)
  /\ ToSet(NamesIn(Text, AnyName)) \subseteq DOMAIN elems[1]
  /\ NamesApart(Text, AnyName) /\ NoTagMeetsName(Text, AnyName)
  => bound.query = Rebind("DOLLAR", executed.query) /\ bound.args = bindAnyArgs(executed.names, elems, 1)

\* autoIn rewrites a call with a slice among its values, and takes the placeholders by
\* their places: a comment that ends in the word in may mislead it.  Otherwise the
\* driver gets what was compiled: names may not meet each other, nor a backslash or a ?
\* of the program, and a slice that only In recognises is passed whole.
BindsAsWritten ==
  IF needsInRewrite(BoundValues) THEN ~InEndsComment(bound.query)
  ELSE NamesApart(Text, DOMAIN elems[1]) /\ \A k \in DOMAIN BoundValues : BoundValues[k].kind # "lazy"

\* Binding one struct or map: the driver's query has a placeholder for every argument
\* that goes with it, after compilation, IN expansion and rebinding together, also
\* when names without a value are left in it, and the arguments are the values of
\* the names that have one, in the order of the query, slices spread over their
\* IN lists.  The exceptions are those of BindsAsWritten: in a call without slices \:a
\* and :a:b each lose a placeholder and :a?? moves one.
EveryNameIsBound ==
  call = "one" /\ NoBareMarks /\ BindsAsWritten =>
    LET r == Rewritten
        known == NamesIn(Text, DOMAIN elems[1])
    IN /\ bound.args = [i \in DOMAIN known |-> [elem |-> 1, name |-> known[i]]]
       /\ r.err = "" =>
            /\ Len(RebindVars(r.query)) = Len(r.args)
            /\ r.args = Expected(bound.query, [i \in DOMAIN known |-> elems[1][known[i]]])

\* The group a batch insert repeats, by the reference scanner: the parentheses
\* after the first VALUES outside parentheses, or else after the first VALUES.
Group(s) ==
  LET text == (1..Len(s)) \ Protected(s)
      hits == {i \in text : isKeywordAt(s, i, VALUES)}
      top == {i \in hits : Depth(s, text, i) = 0}
      v == Min(IF top = {} THEN hits ELSE top)
      opens == {i \in text : i > v /\ s[i] = "("}
      closes == {i \in text : i > Min(opens) /\ s[i] = ")" /\ Depth(s, text, i) = Depth(s, text, Min(opens)) + 1}
  IN IF hits = {} \/ opens = {} \/ closes = {} THEN {} ELSE Min(opens)..Min(closes)

\* A batch (bindArray) drops no row: when the elements have all names of the query, and
\* those are in its VALUES group, apart from each other and from escapes, the driver's
\* query has a placeholder for every value of every element, the rows one after the
\* other.
BatchRowsAreBound ==
  /\ call = "slice" /\ \A k \in DOMAIN elems : ToSet(NamesIn(Text, AnyName)) \subseteq DOMAIN elems[k]
  /\ NoBareMarks /\ NamesApart(Text, AnyName)
  /\ ToSet(RebindVars(compiled.query)) \subseteq Group(compiled.query)
  => /\ Len(RebindVars(bound.query)) = Len(bound.args)
     /\ bound.args = FlattenSeq([k \in DOMAIN elems |->
          [i \in DOMAIN NamesIn(Text, AnyName) |-> [elem |-> k, name |-> NamesIn(Text, AnyName)[i]]]])
=============================================================================
