------------------------- MODULE MCSqlPlaceholders -------------------------
(* Small instances of SqlPlaceholders for TLC. *)
EXTENDS SqlPlaceholders

\* Everything the scanners look at, nearly always one byte at a time.
MCLexing == [
  fragments    |-> {<<"'">>, <<"[">>, <<"]">>, <<"$">>, <<"$", "t">>, <<"1">>, <<"t">>, <<"-">>, <<"/">>, <<"*">>, <<"\n">>},
  maxFragments |-> 5,
  args         |-> {},
  maxArgs      |-> 0]

\* What Rebind and In look at: IN lists, escapes, literals, qualified names.
MCInFragments == {<<"?">>, <<"\\">>, <<"(">>, <<")">>, <<"i", "n">>, <<" ">>, <<".">>, <<"'">>}

\* Room for two placeholders, one of them an IN list.
MCInLists == [
  fragments    |-> MCInFragments,
  maxFragments |-> 5,
  args         |-> {[kind |-> "value", len |-> 0], [kind |-> "slice", len |-> 2], [kind |-> "list", len |-> 2]},
  maxArgs      |-> 2]

\* Arguments of every kind, the empty and the refused ones included.
MCArguments == [
  fragments    |-> {<<"?">>, <<"\\">>, <<"(">>, <<")">>, <<"i", "n">>},
  maxFragments |-> 4,
  args         |-> {[kind |-> "value", len |-> 0], [kind |-> "slice", len |-> 0], [kind |-> "slice", len |-> 2],
                    [kind |-> "single", len |-> 2], [kind |-> "list", len |-> 0], [kind |-> "list", len |-> 2],
                    [kind |-> "lazy", len |-> 2], [kind |-> "bad", len |-> 0], [kind |-> "failing", len |-> 0]},
  maxArgs      |-> 2]

\* A slice for a list of values that may follow a line comment.
MCComments == [
  fragments    |-> {<<"?">>, <<"(">>, <<")">>, <<"i", "n">>, <<"-", "-">>, <<"\n">>},
  maxFragments |-> 6,
  args         |-> {[kind |-> "slice", len |-> 2]},
  maxArgs      |-> 1]

MCCommentWorkloads == {MCComments}
=============================================================================
