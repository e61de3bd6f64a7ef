----------------------------- MODULE MCRowsScan -----------------------------
(* A small instance of RowsScan for TLC. *)
EXTENDS RowsScan

CONSTANTS A, B, C   \* struct types

MCTypes == {A, B, C}

\* A has a field for every column, B for some, C for only one.
MCFieldsOf ==
  [t \in MCTypes |-> IF t = A THEN {"id", "name", "age"} ELSE IF t = B THEN {"id"} ELSE {"age"}]

\* Result sets that differ in width, and in the order of their columns.
MCColumns == <<<<"id", "name", "age">>, <<"id", "name">>, <<"name", "id">>>>
=============================================================================
