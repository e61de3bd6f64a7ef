--------------------------- MODULE MCStructMapping ---------------------------
(* Small instances of StructMapping for TLC. *)
EXTENDS StructMapping

Type(base, wrap) == [base |-> base, wrap |-> wrap]

Tag(name) == [present |-> TRUE, name |-> name, options |-> FALSE]
Options == [present |-> TRUE, name |-> <<"">>, options |-> TRUE]

\* With one tag, db, for the Mapper in use and for the default one.
Field(name, type, tag) ==
  [name |-> name, tag |-> tag, db |-> tag, exported |-> TRUE, anonymous |-> FALSE, type |-> type]
Unexported(f) == [f EXCEPT !.exported = FALSE]

\* The name of an embedded field is that of its type.
Embedded(type, tag) == [Field(<<type.base>>, type, tag) EXCEPT !.anonymous = TRUE]

\* With another tag that the Mapper in use reads.
ReadAs(f, tag) == [f EXCEPT !.tag = tag]

A == Type("A", "none")
B == Type("B", "none")
C == Type("C", "none")
Pointer(type) == [type EXCEPT !.wrap = "ptr"]
SliceOf(type) == [type EXCEPT !.wrap = "slice"]

x == <<"x">>
y == <<"y">>

\* Two fields of one name: tags with dots, empty tags, embedding.
MCConflicts == [
  structs   |-> {"A", "B"},
  root      |-> "A",
  scanners  |-> {},
  fields    |-> {Field(x, IntType, NoTag), Field(y, IntType, Tag(x)), Field(<<"z">>, IntType, Tag(<<"x", "x">>)),
                 Field(<<"w">>, IntType, Tag(<<"-">>)), Unexported(Field(<<"v">>, IntType, Tag(y))),
                 Field(x, B, NoTag), Field(y, Pointer(B), Tag(<<"">>)), Field(<<"u">>, B, Tag(x)),
                 Embedded(B, NoTag), Embedded(B, Tag(x)), Embedded(B, Options)},
  maxFields |-> 3,
  maxTurns  |-> 40,
  maxDepth  |-> 3]

\* Types that contain each other.
MCRecursion == [
  structs   |-> {"A", "B"},
  root      |-> "A",
  scanners  |-> {},
  fields    |-> {Field(x, IntType, NoTag),
                 Field(x, Pointer(A), NoTag), Field(y, Pointer(A), NoTag), Embedded(Pointer(A), NoTag),
                 Field(x, B, NoTag), Field(y, Pointer(B), NoTag), Embedded(Pointer(B), NoTag), Embedded(Pointer(B), Tag(y))},
  maxFields |-> 2,
  maxTurns  |-> 40,
  maxDepth  |-> 6]

\* RawBytes in and behind fields of all kinds, with a Scanner among the types.
MCRawBytes == [
  structs   |-> {"A", "B", "C"},
  root      |-> "A",
  scanners  |-> {"C"},
  fields    |-> {Field(x, RawBytes, NoTag), Field(x, Pointer(RawBytes), Tag(<<"-">>)), Embedded(RawBytes, NoTag),
                 Field(x, SliceOf(B), NoTag), Field(y, Pointer(A), NoTag), Field(y, C, NoTag),
                 Unexported(Embedded(B, NoTag)), Unexported(Field(y, B, NoTag))},
  maxFields |-> 2,
  maxTurns  |-> 40,
  maxDepth  |-> 5]

\* A Mapper that reads another tag than db: fields taken out for one and not the other.
Out == Tag(<<"-">>)
MCTwoTags == [
  structs   |-> {"A", "B"},
  root      |-> "A",
  scanners  |-> {},
  fields    |-> {ReadAs(Field(x, RawBytes, Out), Tag(<<"raw">>)), ReadAs(Field(x, RawBytes, NoTag), Out), Field(x, RawBytes, Out),
                 ReadAs(Field(y, B, Out), NoTag), ReadAs(Embedded(Pointer(B), Out), NoTag), Embedded(B, NoTag),
                 Field(<<"z">>, IntType, NoTag)},
  maxFields |-> 3,
  maxTurns  |-> 40,
  maxDepth  |-> 3]

MCWorkloads == {MCConflicts, MCRecursion, MCRawBytes, MCTwoTags}
=============================================================================
