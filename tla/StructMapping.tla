---------------------------- MODULE StructMapping ----------------------------
(***************************************************************************)
(* From column names to struct fields: getMapping (reflectx/reflect.go)    *)
(* walks a struct type breadth first, with a guard against recursive       *)
(* types, and records which field every path names.  containsRawBytes      *)
(* (scan.go) walks the same types on its own, depth first, to keep         *)
(* sql.RawBytes out of the destinations of Select; the two must agree on   *)
(* what can be scanned into.  A field has two tags: the one the Mapper in  *)
(* use reads (NewMapper takes any tag name) and db, which containsRawBytes *)
(* and the default Mapper read.                                            *)
(*                                                                         *)
(* The state is a set of struct types being declared, field by field.  A   *)
(* name or a path is the sequence of its parts between the dots.           *)
(***************************************************************************)
EXTENDS SequencesExt

\* The kinds of declarations that are enumerated.  Each is a record: the struct types
\* declared (structs), the one to be mapped (root), those that implement sql.Scanner
\* (scanners), the fields they are made of, with the bound maxFields on their number
\* in a struct, the bound maxTurns on the turns of QueueLoop, and the bound maxDepth on
\* the chains of fields the properties look at.
CONSTANT Workloads

\* A type is a struct or another base type, plain, behind a pointer, or in a slice.
IntType == [base |-> "int", wrap |-> "none"]
RawBytes == [base |-> "rawbytes", wrap |-> "none"]

\* The zero StructField, which the root of a mapping has.
NoTag == [present |-> FALSE, name |-> <<"">>, options |-> FALSE]
NoField == [name |-> <<"">>, tag |-> NoTag, db |-> NoTag, exported |-> TRUE, anonymous |-> FALSE,
            type |-> [base |-> "none", wrap |-> "none"]]

\* No name in Go is a dash, and only the elements of slices, not slices, are embedded.
ASSUME WorkloadAssumption ==
  \A w \in Workloads :
    /\ IsFiniteSet(w.structs) /\ w.root \in w.structs /\ RawBytes.base \notin w.structs
    /\ IsFiniteSet(w.fields) /\ w.maxFields \in Nat /\ w.maxTurns \in Nat
    /\ \A f \in w.fields :
         /\ f.type \in [base : STRING, wrap : {"none", "ptr", "slice"}]
         /\ f.anonymous => f.type.wrap # "slice"
         /\ f.name # <<"-">>

VARIABLES
  workload,
  fields     \* the fields of every struct type, in order of declaration

vars == <<workload, fields>>

Structs == workload.structs

Init == workload \in Workloads /\ fields = [s \in workload.structs |-> <<>>]

\* What a struct contains by value, itself included.
ByValue(s) ==
  LET Held(types) ==
        types \cup {f.type.base : f \in {g \in UNION {ToSet(fields[x]) : x \in types} :
                                           g.type.wrap = "none" /\ g.type.base \in Structs}}
      level[d \in 0..Cardinality(Structs)] == IF d = 0 THEN {s} ELSE Held(level[d - 1])
  IN level[Cardinality(Structs)]

\* Go has no two fields of one name in a struct and no struct inside itself, and what
\* embeds a Scanner is one.
Declare(s, f) ==
  /\ Len(fields[s]) < workload.maxFields
  /\ \A i \in DOMAIN fields[s] : fields[s][i].name # f.name
  /\ f.type.wrap = "none" /\ f.type.base \in Structs => s \notin ByValue(f.type.base)
  /\ f.anonymous /\ f.type.base \in workload.scanners => s \in workload.scanners
  /\ fields' = [fields EXCEPT ![s] = Append(@, f)]
  /\ UNCHANGED workload

Next == \E s \in Structs, f \in workload.fields : Declare(s, f)

Spec == Init /\ [][Next]_vars

-----------------------------------------------------------------------------
(* getMapping                                                              *)

\* parseName.  A tag is present or not; its text is a name and options, and either may
\* be empty.  Without one the name of the field counts, as NameMapper maps it.
NameBy(tag, f) == IF tag.present THEN tag.name ELSE f.name

\* The Mapper in use reads its own tag, which tagMapFunc may have rewritten.
NameOf(f) == NameBy(f.tag, f)
HasTag(f) == f.tag.present /\ (f.tag.name # <<"">> \/ f.tag.options)

\* A path, and a name below it.
Join(path, name) ==
  IF path # <<>> THEN path \o name ELSE IF name = <<"">> THEN <<>> ELSE name

Deref(type) == IF type.wrap = "ptr" THEN [type EXCEPT !.wrap = "none"] ELSE type

IsStruct(type) == type.base \in Structs /\ type.wrap # "slice"

\* A FieldInfo, with the type its own fields are looked up in (t), the path they are
\* put under (pp), and the fields above it.
Root == [index |-> <<>>, path |-> <<>>, name |-> <<>>, embedded |-> FALSE,
         field |-> NoField, t |-> workload.root, pp |-> <<>>, above |-> <<>>]

FieldInfo(parent, pos) ==
  LET f == fields[parent.t][pos]
      path == Join(parent.pp, NameOf(f))
  IN [index    |-> Append(parent.index, pos),
      path     |-> path,
      name     |-> NameOf(f),
      embedded |-> f.anonymous,
      field    |-> f,
      t        |-> f.type.base,
      pp       |-> IF f.anonymous /\ ~HasTag(f) THEN parent.pp ELSE path,
      above    |-> Append(parent.above, parent.field)]

\* What Test chooses of a list, in its order.
Chosen(list, Test(_)) == FlattenSeq([k \in DOMAIN list |-> IF Test(list[k]) THEN <<list[k]>> ELSE <<>>])

\* Those named "-" are not mapped, and unexported ones are only looked at when they are
\* embedded.
MappedBy(tag, f) == NameBy(tag, f) # <<"-">> /\ (f.exported \/ f.anonymous)
CanBeMapped(f) == MappedBy(f.tag, f)

\* The fields of fi that are mapped.
Children(fi) ==
  IF fi.t \notin Structs THEN <<>>
  ELSE LET IsMapped(i) == CanBeMapped(fields[fi.t][i])
           mapped == Chosen([i \in DOMAIN fields[fi.t] |-> i], IsMapped)
       IN [k \in DOMAIN mapped |-> FieldInfo(fi, mapped[k])]

\* Mutated form: a pointer to a type counts as the type.
IsRecursive_Deref(fi) == \E k \in DOMAIN fi.above : Deref(fi.above[k].type) = Deref(fi.field.type)

\* "ignore recursive field": a field above has the same type.
IsRecursive(fi) == \E k \in DOMAIN fi.above : fi.above[k].type = fi.field.type

\* Mutated form: the fields of a field are walked before its neighbours.
Queue_Front(queue, more) == more \o queue

Queue(queue, more) == queue \o more

\* One turn of QueueLoop: the first of the queue is left out, or its fields are found.
QueueTurn(r) ==
  LET fi == Head(r.queue)
      rest == Tail(r.queue)
      HasFields(c) == c.embedded \/ IsStruct(c.field.type)
  IN IF IsRecursive(fi) THEN [r EXCEPT !.queue = rest]
     ELSE [queue |-> Queue(rest, Chosen(Children(fi), HasFields)), m |-> r.m \o Children(fi)]

\* QueueLoop: m is the fields found so far (StructMap.Index).
QueueLoop ==
  LET after[k \in 0..workload.maxTurns] ==
        IF k = 0 THEN [queue |-> <<Root>>, m |-> <<>>]
        ELSE LET r == after[k - 1] IN IF r.queue = <<>> THEN r ELSE QueueTurn(r)
  IN after[workload.maxTurns]

Index == QueueLoop.m

\* A map with fi under its path.
Stored(map, fi) == [p \in DOMAIN map \cup {fi.path} |-> IF p = fi.path THEN fi ELSE map[p]]

\* Paths and Names: the first field of a path stays, unless it is an embedded one;
\* embedded fields and those without a name get no name.
Put(maps, fi) ==
  IF fi.path \in DOMAIN maps.paths /\ ~maps.paths[fi.path].embedded THEN maps
  ELSE [paths |-> Stored(maps.paths, fi),
        names |-> IF fi.name # <<"">> /\ ~fi.embedded THEN Stored(maps.names, fi) ELSE maps.names]

NamesOf(m) ==
  LET after[k \in 0..Len(m)] ==
        IF k = 0 THEN [paths |-> <<>>, names |-> <<>>] ELSE Put(after[k - 1], m[k])
  IN after[Len(m)].names

Names == NamesOf(Index)

\* The default Mapper reads the tag db.
MappedByDefault(f) == MappedBy(f.db, f)

\* isScannable, for a struct: a Scanner, or one in which the default Mapper, which need
\* not be the one in use, finds no field.
isScannable(s) == s \in workload.scanners \/ ~\E i \in DOMAIN fields[s] : MappedByDefault(fields[s][i])

-----------------------------------------------------------------------------
(* containsRawBytes                                                        *)

\* Mutated form: embedded structs that are not exported are passed over.
isScanTarget_Exported(f) == f.exported /\ ~(f.db.present /\ f.db.name = <<"-">>)

\* Mutated form: tags are not looked at.
isScanTarget_Tagged(f) == f.exported \/ f.anonymous

\* Whatever Mapper is in use, the tag that counts is db.
isScanTarget(f) ==
  /\ f.exported \/ f.anonymous
  /\ ~(f.db.present /\ f.db.name = <<"-">>)

\* The types that a walk can come to.
ScanTypes ==
  [base : {workload.root} \cup {f.type.base : f \in workload.fields}, wrap : {"none", "slice"}]

\* The types of the fields of a struct that can be written to, in order.
TargetsOf(s) ==
  LET targets == Chosen(fields[s], isScanTarget) IN [k \in DOMAIN targets |-> targets[k].type]

\* What walkRawBytes calls itself with for a type that it has not seen.
Inside(t) ==
  CASE t.wrap = "slice" -> <<[t EXCEPT !.wrap = "none"]>>
    [] t.wrap # "slice" /\ t.base \in Structs \ workload.scanners -> TargetsOf(t.base)
    [] OTHER -> <<>>

\* One call of walkRawBytes: calls are those still to be made, the innermost first, and
\* seen are the types that the calls of one walk share.
walkRawBytes(r) ==
  LET t == Deref(Head(r.calls))
      rest == Tail(r.calls)
  IN IF t = RawBytes THEN [r EXCEPT !.found = TRUE]
     ELSE IF t \in r.seen THEN [r EXCEPT !.calls = rest]
     ELSE [r EXCEPT !.seen = @ \cup {t}, !.calls = Inside(t) \o rest]

\* The calls of a walk: after the first one, at most maxFields for every type.
maxCalls == (workload.maxFields + 1) * Cardinality(ScanTypes) + 1

containsRawBytes(s) ==
  LET after[k \in 0..maxCalls] ==
        IF k = 0 THEN [found |-> FALSE, seen |-> {}, calls |-> <<[base |-> s, wrap |-> "none"]>>]
        ELSE LET r == after[k - 1] IN IF r.found \/ r.calls = <<>> THEN r ELSE walkRawBytes(r)
  IN after[maxCalls].found

-----------------------------------------------------------------------------
(* What must hold                                                          *)

\* A chain is a way down from the root, a sequence of fields by struct and position.
FieldAt(hop) == fields[hop[1]][hop[2]]

\* One field further down, where there is a struct to go down into.
Longer(c) ==
  LET s == IF c = <<>> THEN workload.root ELSE FieldAt(Last(c)).type.base IN
  IF c = <<>> \/ IsStruct(FieldAt(Last(c)).type)
  THEN {Append(c, <<s, i>>) : i \in {j \in DOMAIN fields[s] : CanBeMapped(fields[s][j])}}
  ELSE {}

\* The chains of up to n fields, through recursive types too.
Chains(n) ==
  LET level[d \in 0..n] == IF d = 0 THEN {<<>>} ELSE UNION {Longer(c) : c \in level[d - 1]}
  IN UNION {level[d] : d \in 1..n}

\* The fields of a chain that add to its path: all but the embedded ones without a tag.
Spelled(f) == ~f.anonymous \/ HasTag(f)

PathOf(c) == FoldLeft(LAMBDA path, hop : IF Spelled(FieldAt(hop)) THEN Join(path, NameOf(FieldAt(hop))) ELSE path, <<>>, c)

\* Chains that end in a field a column can name.
Named(cs) == {c \in cs : ~FieldAt(Last(c)).anonymous /\ NameOf(FieldAt(Last(c))) # <<"">>}

\* No type occurs twice among the fields a chain goes through.
Simple(c) == \A i, j \in 1..(Len(c) - 1) : FieldAt(c[i]).type = FieldAt(c[j]).type => i = j

\* a comes before b: it is shorter, or goes through fields declared earlier.
Before(a, b) ==
  \/ Len(a) < Len(b)
  \/ Len(a) = Len(b) /\ \E i \in DOMAIN a : a[i][2] < b[i][2] /\ \A j \in 1..(i - 1) : a[j][2] = b[j][2]

\* Every name belongs to the shallowest field it can stand for, and among those to the
\* one declared first (reflect.go:358, "bfs search of anonymous embedded structs"):
\* the queue, the guard and the two maps together choose what this definition says.
ShallowestFieldWins ==
  LET cs == {c \in Named(Chains(workload.maxDepth)) : Simple(c)}
      winners == {c \in cs : \A d \in cs : PathOf(d) = PathOf(c) => d = c \/ Before(c, d)}
      names == Names
  IN {<<p, names[p].index>> : p \in DOMAIN names} = {<<PathOf(c), [i \in DOMAIN c |-> c[i][2]]>> : c \in winners}

\* The guard against recursive types hides no field that can be named without spelling
\* one type twice: of a chain that is cut off because it meets a type again, what it
\* leads to has the same name by a shorter way.
RecursionHidesNothing ==
  LET known == DOMAIN Names IN
  \A c \in Named(Chains(workload.maxDepth)) :
    (\A i, j \in 1..(Len(c) - 1) :
       i < j /\ FieldAt(c[i]).type = FieldAt(c[j]).type
       => \A k \in (i + 1)..j : ~Spelled(FieldAt(c[k])))
    => PathOf(c) \in known

\* The types that scanning with the default Mapper could write to, from the root, by
\* what scan.go:257 and scan.go:303 say: fields but those the tag db takes out, elements
\* of slices and pointers, but nothing inside a Scanner.
FieldsOf(s) == IF s \in Structs \ workload.scanners THEN {f \in ToSet(fields[s]) : MappedByDefault(f)} ELSE {}

Below(types) ==
  types \cup {[t EXCEPT !.wrap = "none"] : t \in types}
        \cup {Deref(f.type) : f \in UNION {FieldsOf(t.base) : t \in types}}

Reached ==
  LET level[d \in 0..Cardinality(ScanTypes)] ==
        IF d = 0 THEN {[base |-> workload.root, wrap |-> "none"]} ELSE Below(level[d - 1])
  IN level[Cardinality(ScanTypes)]

\* containsRawBytes finds a RawBytes exactly when there is one to be reached, although
\* the set that breaks cycles also stops it at types whose own walk is not over.
RawBytesAreFound == containsRawBytes(workload.root) <=> RawBytes \in Reached

\* A column of Select reaches a RawBytes, whose bytes the driver reuses for the next row
\* (scan.go:81), in two ways only: when a name of the mapping leads to one although
\* containsRawBytes has let the destination through, it goes through a Scanner, into
\* whose fields the walk does not look (scan.go:280), or through a field that says
\* db:"-" to a Mapper that reads another tag (scan.go:309).  With the default Mapper, and
\* with every one that reads db as it is written, the second way does not exist.
RawBytesAreRefused ==
  ~isScannable(workload.root) /\ ~containsRawBytes(workload.root) =>
    LET names == Names IN
    \A p \in DOMAIN names :
      Deref(names[p].field.type) = RawBytes =>
        \/ \E k \in DOMAIN names[p].above : names[p].above[k].type.base \in workload.scanners
        \/ \E f \in {names[p].field} \cup ToSet(names[p].above) : f.tag # f.db /\ ~MappedByDefault(f)
=============================================================================
