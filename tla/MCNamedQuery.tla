---------------------------- MODULE MCNamedQuery ----------------------------
(* Small instances of NamedQuery, and of SqlPlaceholders as its part, for TLC. *)
EXTENDS NamedQuery, MCSqlPlaceholders

a == <<"a">>
b == <<"b">>
value == [kind |-> "value", len |-> 0]
lazy == [kind |-> "lazy", len |-> 2]
slice == [kind |-> "slice", len |-> 2]

\* A call without names.
Positional(w) == w @@ [names |-> {}, elems |-> {}, maxElems |-> 0, calls |-> {}]

\* Names that may stand apart or meet what comes next, colons that are none, escapes,
\* dollar tags and literals.
MCNames == [
  fragments    |-> {<<":", "a">>, <<":", "b", " ">>, <<":">>, <<"=">>, <<"1">>, <<"$", "t">>, <<"?", "?">>, <<"\\", "?">>, <<"\\">>, <<"'">>},
  maxFragments |-> 4,
  args         |-> {},
  maxArgs      |-> 0,
  names        |-> {a, b},
  elems        |-> {<<>>, a :> value, b :> value, a :> value @@ b :> value},
  maxElems     |-> 1,
  calls        |-> {"one", "stmt"}]

\* IN lists of names, some of them slices.
MCNamedIn == [
  fragments    |-> {<<"i", "n">>, <<"(">>, <<")">>, <<":", "a">>, <<":", "b", " ">>},
  maxFragments |-> 5,
  args         |-> {},
  maxArgs      |-> 0,
  names        |-> {a, b},
  elems        |-> {a :> slice, b :> slice, a :> slice @@ b :> value, a :> slice @@ b :> slice, a :> lazy @@ b :> slice},
  maxElems     |-> 1,
  calls        |-> {"one"}]

VALUESgroup == <<"(">> \o VALUES \o <<"(", "1", ")", ")">>
VALUESliteral == <<"'">> \o VALUES \o <<"'">>

\* Batch inserts, with a literal and a VALUES in parentheses of its own.
MCBatch == [
  fragments    |-> {VALUES, <<"(">>, <<")">>, <<":", "a">>, VALUESliteral, VALUESgroup},
  maxFragments |-> 5,
  args         |-> {},
  maxArgs      |-> 0,
  names        |-> {a},
  elems        |-> {<<>>, a :> value},
  maxElems     |-> 2,
  calls        |-> {"slice"}]

\* Batch inserts with a comment before the group.
MCBatchComment == [
  fragments    |-> {VALUES, <<"(">>, <<")">>, <<":", "a">>, <<"/", "*", "(", "*", "/">>},
  maxFragments |-> 6,
  args         |-> {},
  maxArgs      |-> 0,
  names        |-> {a},
  elems        |-> {a :> value},
  maxElems     |-> 2,
  calls        |-> {"slice"}]

MCQueries == {Positional(w) : w \in {MCLexing, MCInLists, MCArguments}} \cup {MCNames, MCNamedIn, MCBatch}
MCBatchCommentWorkloads == {MCBatchComment}
=============================================================================
