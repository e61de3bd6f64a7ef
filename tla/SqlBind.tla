------------------------------- MODULE SqlBind -------------------------------
(***************************************************************************)
(* The two algorithms of bind.go that every query goes through: In, which  *)
(* expands slices into IN lists, and Rebind, which turns the ? placeholders *)
(* into those of the driver.  Each walks the query in a loop of its own.    *)
(***************************************************************************)
EXTENDS SqlLexer, TLC

-----------------------------------------------------------------------------
(* Rebind                                                                  *)

\* The j-th placeholder of a driver of type DOLLAR, NAMED or AT.  The others, QUESTION
\* and UNKNOWN, which the code treats alike, take ?.
Bindvar(type, j) ==
  CASE type = "DOLLAR" -> <<"$", ToString(j)>>
    [] type = "NAMED"  -> <<":", "a", "r", "g", ToString(j)>>
    [] type = "AT"     -> <<"@", "p", ToString(j)>>
    [] OTHER           -> <<"?">>

\* One turn of the loop of Rebind, at byte r.pos: r.query is what was written so far,
\* r.vars where the placeholders stood.  \? and ?? are written as a literal ?.
RebindTurn(type, q, r) ==
  LET i == r.pos
      end == scanSkipSegment(q, i)
      Copy(bytes, next) == [r EXCEPT !.pos = next, !.query = @ \o bytes]
  IN IF end > i THEN Copy(SubSeq(q, i, end - 1), end)
     ELSE IF q[i] # "?" THEN Copy(<<q[i]>>, i + 1)
     ELSE IF At(q, i - 1) = "\\"
          THEN [r EXCEPT !.pos = i + 1, !.query = Append(Front(@), "?")]
     ELSE IF At(q, i + 1) = "?" THEN Copy(<<"?">>, i + 2)
     ELSE [pos   |-> i + 1,
           query |-> r.query \o Bindvar(type, Len(r.vars) + 1),
           vars  |-> Append(r.vars, i)]

\* The loop of Rebind.  A turn moves on by a byte or more.
RebindLoop(type, q) ==
  LET after[k \in 0..Len(q)] ==
        IF k = 0 THEN [pos |-> 1, query |-> <<>>, vars |-> <<>>]
        ELSE LET r == after[k - 1] IN IF r.pos > Len(q) THEN r ELSE RebindTurn(type, q, r)
  IN after[Len(q)]

\* A driver that takes ? gets the query as it is.
Rebind(type, q) ==
  IF type = "QUESTION" THEN q ELSE RebindLoop(type, q).query

\* Where Rebind sees placeholders.
RebindVars(q) == RebindLoop("DOLLAR", q).vars

-----------------------------------------------------------------------------
(***************************************************************************)
(* What In tells arguments apart by: a plain value, a slice, a slice that  *)
(* only In itself recognises ("lazy": a pointer to a slice, or a Valuer    *)
(* that yields one), an AsValue or AsList wrapper of a slice, an AsList of *)
(* something else ("bad") and a Valuer that fails ("failing").  len is the *)
(* length of the slice.                                                    *)
(***************************************************************************)
Arg == [kind : {"value", "slice", "lazy", "single", "list", "bad", "failing"}, len : Nat]

\* hasMatchingCloseParen: the next byte that is not a space is a ).
hasMatchingCloseParen(q, start) ==
  \E i \in start..Len(q) : q[i] = ")" /\ \A j \in start..(i - 1) : q[j] \in isASCIISpace

\* Mutated form: a column named in, as in t.in, is taken for the keyword.
precededByIn_Qualified(q, paren) ==
  \E e \in 2..(paren - 1) :
    /\ \A j \in (e + 1)..(paren - 1) : q[j] \in isASCIISpace
    /\ q[e - 1] = "i" /\ q[e] = "n"
    /\ At(q, e - 2) \notin isIdentByte

\* precededByIn: the word before the ( is in, not part of a longer or a qualified one.
precededByIn(q, paren) ==
  \E e \in 2..(paren - 1) :
    /\ \A j \in (e + 1)..(paren - 1) : q[j] \in isASCIISpace
    /\ q[e - 1] = "i" /\ q[e] = "n"
    /\ At(q, e - 2) \notin isIdentByte \cup {"."}

\* Mutated form: \? is a placeholder.
PlaceholderTurn_Backslash(q, r) ==
  LET i == r.pos
      end == scanSkipSegment(q, i)
      To(next, paren) == [r EXCEPT !.pos = next, !.paren = paren]
  IN IF end > i THEN To(end, 0)
     ELSE IF q[i] # "?"
          THEN To(i + 1, IF q[i] = "(" THEN i ELSE IF q[i] \in isASCIISpace THEN r.paren ELSE 0)
     ELSE IF At(q, i + 1) = "?" THEN To(i + 2, 0)
     ELSE [r EXCEPT !.idx = i,
                    !.inParen = r.paren # 0 /\ hasMatchingCloseParen(q, i + 1) /\ precededByIn(q, r.paren)]

\* One turn of the loop of nextPlaceholder, at byte r.pos: r.paren is the position of
\* the ( that only spaces separate from it, 0 for none.
PlaceholderTurn(q, r) ==
  LET i == r.pos
      end == scanSkipSegment(q, i)
      To(next, paren) == [r EXCEPT !.pos = next, !.paren = paren]
  IN IF end > i THEN To(end, 0)
     ELSE IF q[i] # "?"
          THEN To(i + 1, IF q[i] = "(" THEN i ELSE IF q[i] \in isASCIISpace THEN r.paren ELSE 0)
     ELSE IF At(q, i - 1) = "\\" THEN To(i + 1, 0)
     ELSE IF At(q, i + 1) = "?" THEN To(i + 2, 0)
     ELSE [r EXCEPT !.idx = i,
                    !.inParen = r.paren # 0 /\ hasMatchingCloseParen(q, i + 1) /\ precededByIn(q, r.paren)]

\* The next placeholder (idx) at start or after it, 0 for none, and whether it is an
\* IN list (inParen).
nextPlaceholder(q, start) ==
  LET turns == Len(q) + 1 - start
      after[k \in 0..turns] ==
        IF k = 0 THEN [pos |-> start, paren |-> 0, idx |-> 0, inParen |-> FALSE]
        ELSE LET r == after[k - 1] IN IF r.idx # 0 \/ r.pos > Len(q) THEN r ELSE PlaceholderTurn(q, r)
  IN after[turns]

\* Where In sees placeholders.
InVars(q) ==
  LET from[i \in 1..(Len(q) + 1)] ==
        LET p == nextPlaceholder(q, i) IN IF p.idx = 0 THEN <<>> ELSE <<p.idx>> \o from[p.idx + 1]
  IN from[1]

Failed(why) == [err |-> why, query |-> <<>>, args |-> <<>>]

\* The elements of the k-th argument of len elements, and the argument as a whole.
Elements(k, len) == [e \in 1..len |-> [arg |-> k, el |-> e]]
Whole(k) == <<[arg |-> k, el |-> 0]>>

IsSlice(a) == a.kind \in {"slice", "lazy", "list"}

\* AsList forces expansion, an IN list invites it.
ShouldExpand(a, inParen) == IsSlice(a) /\ a.len > 0 /\ (inParen \/ a.kind = "list")

\* Mutated form: the placeholder that is already there is written again.
MorePlaceholders_All(len) == FlattenSeq([e \in 1..len |-> <<",", " ", "?">>])

\* The placeholder in the query stands for the first element.
MorePlaceholders(len) == FlattenSeq([e \in 1..(len - 1) |-> <<",", " ", "?">>])

\* One turn of the main loop of In: the query is copied up to the next placeholder p,
\* which takes the k-th argument.
InTurn(q, a, k, p, r) ==
  LET spread == ShouldExpand(a, p.inParen)
  IN CASE p.idx = 0 -> [r EXCEPT !.err = "few placeholders"]
       [] p.idx # 0 /\ IsSlice(a) /\ a.len = 0 /\ p.inParen -> [r EXCEPT !.err = "empty IN list"]
       [] OTHER ->
            [err   |-> "",
             pos   |-> p.idx + 1,
             query |-> r.query \o SubSeq(q, r.pos, p.idx) \o (IF spread THEN MorePlaceholders(a.len) ELSE <<>>),
             args  |-> r.args \o (IF spread THEN Elements(k, a.len) ELSE Whole(k))]

\* The main loop of In, argument by argument.
InLoop(q, as) ==
  LET after[k \in 0..Len(as)] ==
        IF k = 0 THEN [err |-> "", pos |-> 1, query |-> <<>>, args |-> <<>>]
        ELSE LET r == after[k - 1] IN
             IF r.err # "" THEN r ELSE InTurn(q, as[k], k, nextPlaceholder(q, r.pos), r)
  IN after[Len(as)]

\* After the last argument there may be no placeholder left.
InRest(q, r) ==
  IF r.err # "" THEN Failed(r.err)
  ELSE IF nextPlaceholder(q, r.pos).idx # 0 THEN Failed("few arguments")
  ELSE [err |-> "", query |-> r.query \o SubSeq(q, r.pos, Len(q)), args |-> r.args]

\* In: arguments it refuses fail the call; without a slice or a wrapper the query
\* and the arguments are returned as they are, not counted.
In(q, as) ==
  IF \E k \in DOMAIN as : as[k].kind \in {"bad", "failing"} \/ (as[k].kind = "list" /\ as[k].len = 0)
  THEN Failed("argument")
  ELSE IF \A k \in DOMAIN as : as[k].kind = "value"
  THEN [err |-> "", query |-> q, args |-> [k \in DOMAIN as |-> [arg |-> k, el |-> 0]]]
  ELSE InRest(q, InLoop(q, as))

\* needsInRewrite looks at neither Valuers nor pointers to slices.
needsInRewrite(as) == \E k \in DOMAIN as : as[k].kind \in {"slice", "single", "list", "bad"}

\* autoIn, the first step of every operation of a DB, a Conn and a Tx.
autoIn(q, as) ==
  IF needsInRewrite(as)
  THEN In(q, as)
  ELSE [err |-> "", query |-> q, args |-> [k \in DOMAIN as |-> [arg |-> k, el |-> 0]]]
=============================================================================
