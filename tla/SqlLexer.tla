------------------------------ MODULE SqlLexer ------------------------------
(***************************************************************************)
(* The lexical scanner of lexer.go, which Rebind, In and the compilation   *)
(* of named queries share.  A query is a sequence of bytes (one-character  *)
(* strings, and "backtick"), counted from 1; the end of a segment is the   *)
(* position after its last byte, as in the code.                           *)
(***************************************************************************)
EXTENDS Integers, SequencesExt

Digit == {"0", "1", "2", "3", "4", "5", "6", "7", "8", "9"}
Letter == {"a", "b", "c", "d", "e", "f", "g", "h", "i", "j", "k", "l", "m",
           "n", "o", "p", "q", "r", "s", "t", "u", "v", "w", "x", "y", "z"}
isIdentByte == Letter \cup Digit \cup {"_"}
isDollarTagByte == isIdentByte
isASCIISpace == {" ", "\t", "\n"}
Quote == {"'", "\"", "backtick"}

\* query[i], or no byte at all beyond its ends.
At(q, i) == IF i \in 1..Len(q) THEN q[i] ELSE ""

\* Whether s stands in q at position i.
HasAt(q, i, s) == i >= 1 /\ i + Len(s) - 1 <= Len(q) /\ SubSeq(q, i, i + Len(s) - 1) = s

\* The position after the first s at or after position from, the end without one.
AfterFirst(q, from, s) ==
  LET found == {i \in from..(Len(q) - Len(s) + 1) : HasAt(q, i, s)}
  IN IF found = {} THEN Len(q) + 1 ELSE Min(found) + Len(s)

\* scanQuoted and scanBracketIdentifier: up to the first closing byte that is not
\* doubled.
scanDelimited(q, start, close) ==
  LET end[i \in 1..(Len(q) + 1)] ==
        IF i > Len(q) THEN i
        ELSE IF q[i] # close THEN end[i + 1]
        ELSE IF At(q, i + 1) = close THEN end[i + 2]
        ELSE i + 1
  IN end[start + 1]

\* Mutated form: a tag may start with a digit.
dollarTags_Digit(q, start) ==
  {SubSeq(q, start, j) : j \in {k \in (start + 1)..Len(q) :
     q[k] = "$" /\ \A l \in (start + 1)..(k - 1) : q[l] \in isDollarTagByte}}

\* The opening $tag$ at start, if there is one: no digit comes first.
dollarTags(q, start) ==
  {SubSeq(q, start, j) : j \in {k \in (start + 1)..Len(q) :
     /\ q[k] = "$"
     /\ \A l \in (start + 1)..(k - 1) : q[l] \in isDollarTagByte
     /\ q[start + 1] \notin Digit}}

\* scanDollarQuote: up to the same tag again; start itself when no tag opens.
scanDollarQuote(q, start) ==
  IF dollarTags(q, start) = {} THEN start
  ELSE LET tag == CHOOSE t \in dollarTags(q, start) : TRUE
       IN AfterFirst(q, start + Len(tag), tag)

scanLineComment(q, start) == AfterFirst(q, start + 2, <<"\n">>)

scanBlockComment(q, start) == AfterFirst(q, start + 2, <<"*", "/">>)

\* The end of the segment to skip that starts at start, or start when none does.
scanSkipSegment(q, start) ==
  LET c == At(q, start)
      next == At(q, start + 1)
  IN CASE c \in Quote            -> scanDelimited(q, start, c)
       [] c = "["                -> scanDelimited(q, start, "]")
       [] c = "$"                -> scanDollarQuote(q, start)
       [] c = "-" /\ next = "-"  -> scanLineComment(q, start)
       [] c = "/" /\ next = "*"  -> scanBlockComment(q, start)
       [] OTHER                  -> start

\* The bytes a caller skips when it scans a query from position start to its end.
SkippedFrom(q, start) ==
  LET from[i \in 1..(Len(q) + 1)] ==
        LET end == scanSkipSegment(q, i) IN
        IF i > Len(q) THEN {}
        ELSE IF end > i THEN (i..(end - 1)) \cup from[end]
        ELSE from[i + 1]
  IN from[start]

Skipped(q) == SkippedFrom(q, 1)

-----------------------------------------------------------------------------
(* The reference: an automaton that reads a query byte by byte and knows,   *)
(* after every byte, which kind of region it is in and where that opened.   *)
(* "done" says that the byte read last may have closed the region.          *)

Normal == [in |-> "normal", open |-> 0, done |-> FALSE]

\* The tag that opens at i, by PostgreSQL's rule for tags.
Tag(q, i) ==
  {t \in {SubSeq(q, i, j) : j \in (i + 1)..Len(q)} :
     /\ t[Len(t)] = "$"
     /\ \A k \in 2..(Len(t) - 1) : t[k] \in Letter \cup {"_"} \cup (IF k = 2 THEN {} ELSE Digit)}

\* The byte at i is read in normal text.
Enter(q, i) ==
  LET region == CASE q[i] \in Quote                       -> q[i]
                  [] q[i] = "["                           -> "]"
                  [] HasAt(q, i, <<"-", "-">>)            -> "line"
                  [] HasAt(q, i, <<"/", "*">>)            -> "block"
                  [] q[i] = "$" /\ Tag(q, i) # {}         -> "dollar"
                  [] OTHER                                -> "normal"
  IN IF region = "normal" THEN Normal ELSE [in |-> region, open |-> i, done |-> FALSE]

\* Whether the byte at i may close the region m.
Closes(q, m, i) ==
  CASE m.in \in Quote \cup {"]"} -> q[i] = m.in
    [] m.in = "line"   -> q[i] = "\n"
    [] m.in = "block"  -> i >= m.open + 3 /\ HasAt(q, i - 1, <<"*", "/">>)
    [] m.in = "dollar" -> \E t \in Tag(q, m.open) :
                            i >= m.open + 2 * Len(t) - 1 /\ HasAt(q, i - Len(t) + 1, t)

\* The region after every byte.  A quote right after its closing one reopens it.
Region(q) ==
  LET after[i \in 0..Len(q)] ==
        IF i = 0 THEN Normal
        ELSE LET m == after[i - 1] IN
             IF m.done /\ m.in \in Quote \cup {"]"} /\ q[i] = m.in THEN [m EXCEPT !.done = FALSE]
             ELSE IF m.in = "normal" \/ m.done THEN Enter(q, i)
             ELSE [m EXCEPT !.done = Closes(q, m, i)]
  IN after

\* The bytes of literals, quoted identifiers and comments.
Protected(q) == LET after == Region(q) IN {i \in 1..Len(q) : after[i].in # "normal"}
=============================================================================
