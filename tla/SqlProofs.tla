------------------------------ MODULE SqlProofs ------------------------------
(***************************************************************************)
(* Proofs about SqlPlaceholders and NamedQuery, for every query and all    *)
(* arguments.  The scanners of lexer.go agree with the reference           *)
(* automaton, and Rebind and In see the same placeholders: both by         *)
(* induction over the positions of the query.  What In writes has a        *)
(* placeholder for every argument that it returns, and puts them where     *)
(* they belong, unless a comment misleads it: by induction over the        *)
(* arguments.  The compiler of named queries records the names of the      *)
(* query, in order, by induction over the positions again; what it writes  *)
(* has a placeholder for every name that has a value: it is compared with  *)
(* the query it was made from, byte by byte, with a ? where every name     *)
(* begins.  Both meet in the theorem about a call with names.              *)
(***************************************************************************)
EXTENDS NamedQuery, SequenceTheorems, FiniteSetTheorems, WellFoundedInduction, TLAPS

\* What the bytes of a query are modelled as, among them those that In writes, and
\* queries.
Byte == STRING \cup {",", " ", "?"}
Query == Seq(Byte)

\* What At answers beyond the ends of a query.
NoByte == ""

-----------------------------------------------------------------------------
(* Induction over numbers, for sets                                        *)

\* A set of naturals that is not empty has a least one.
LEMMA LeastOf ==
  ASSUME NEW S \in SUBSET Nat, S # {}
  PROVE  Min(S) \in S /\ \A m \in S : Min(S) <= m
<1> DEFINE R == OpToRel(<, Nat)
<1>1. IsWellFoundedOn(R, Nat)
  BY NatLessThanWellFounded, Zenon
<1>2. \A m, k \in Nat : m < k => <<m, k>> \in R
  BY Zenon DEF OpToRel
<1> HIDE DEF R
<1>3. PICK n \in S : \A m \in S : <<m, n>> \notin R
  BY <1>1, WFMin, Zenon
<1>4. ASSUME NEW m \in S PROVE n <= m
  <2>1. m \in Nat /\ n \in Nat /\ <<m, n>> \notin R
    BY <1>3
  <2> QED
    BY <1>2, <2>1
<1>5. \E x \in S : \A y \in S : x <= y
  BY <1>4
<1> QED
  BY <1>5 DEF Min

\* Induction from 0 upwards.
LEMMA Upward ==
  ASSUME NEW S \in SUBSET Nat, 0 \in S, \A n \in Nat : n \in S => n + 1 \in S
  PROVE  Nat \subseteq S
<1> SUFFICES ASSUME Nat \ S # {} PROVE FALSE
  OBVIOUS
<1>1. PICK n \in Nat \ S : \A m \in Nat \ S : n <= m
  <2>1. Nat \ S \in SUBSET Nat
    OBVIOUS
  <2> QED
    BY <2>1, LeastOf
<1>2. n # 0 /\ n - 1 \in Nat /\ n - 1 < n /\ (n - 1) + 1 = n
  BY <1>1
<1> QED
  BY <1>1, <1>2

\* Induction from the end of a query to its start.
LEMMA Downward ==
  ASSUME NEW n \in Nat, NEW S,
         \A i \in 1..(n + 1) : (\A j \in (i + 1)..(n + 1) : j \in S) => i \in S
  PROVE  \A i \in 1..(n + 1) : i \in S
<1> DEFINE T == {k \in Nat : \A i \in 1..(n + 1) : i + k > n => i \in S}
<1>1. 0 \in T
  <2>1. ASSUME NEW i \in 1..(n + 1), i + 0 > n PROVE i \in S
    BY <2>1
  <2> QED
    BY <2>1
<1>2. ASSUME NEW k \in Nat, k \in T PROVE k + 1 \in T
  <2>1. ASSUME NEW i \in 1..(n + 1), i + (k + 1) > n PROVE i \in S
    <3>1. \A j \in (i + 1)..(n + 1) : j \in 1..(n + 1) /\ j + k > n
      BY <2>1
    <3> QED
      BY <1>2, <3>1
  <2> QED
    BY <2>1
<1>3. n + 1 \in T
  <2> HIDE DEF T
  <2> QED
    BY <1>1, <1>2, Upward DEF T
<1> QED
  BY <1>3

-----------------------------------------------------------------------------
(* The scanners                                                            *)

\* What the reference automaton does at byte i, in region m.
NextRegion(q, m, i) ==
  IF m.done /\ m.in \in Quote \cup {"]"} /\ q[i] = m.in THEN [m EXCEPT !.done = FALSE]
  ELSE IF m.in = "normal" \/ m.done THEN Enter(q, i)
  ELSE [m EXCEPT !.done = Closes(q, m, i)]

\* The automaton exists: it reads the query byte by byte.
LEMMA RegionSteps ==
  ASSUME NEW q \in Query
  PROVE  /\ Region(q)[0] = Normal
         /\ \A i \in 1..Len(q) : Region(q)[i] = NextRegion(q, Region(q)[i - 1], i)
<1> DEFINE n == Len(q)
           Loop(f, i) == IF i = 0 THEN Normal ELSE NextRegion(q, f[i - 1], i)
           after == CHOOSE f : f = [i \in 0..n |-> Loop(f, i)]
<1>1. n \in Nat
  BY LenProperties DEF Query
<1>2. Region(q) = after
  BY Zenon DEF Region, NextRegion
<1>3. \E f : f = [i \in 0..n |-> Loop(f, i)]
  <2> DEFINE S == {k \in Nat : \E f : f = [i \in 0..k |-> Loop(f, i)]}
  <2>1. 0 \in S
    <3> DEFINE f == [i \in 0..0 |-> Normal]
    <3>1. f = [i \in 0..0 |-> Loop(f, i)]
      OBVIOUS
    <3> QED
      BY <3>1
  <2>2. ASSUME NEW k \in Nat, k \in S PROVE k + 1 \in S
    <3>1. PICK f : f = [i \in 0..k |-> Loop(f, i)]
      BY <2>2
    <3>2. \A j \in 0..k : f[j] = Loop(f, j)
      BY <3>1
    <3> DEFINE h == [i \in 0..(k + 1) |-> IF i <= k THEN f[i] ELSE Loop(f, i)]
    <3>3. ASSUME NEW i \in 0..(k + 1) PROVE h[i] = Loop(h, i)
      <4>1. i # 0 => h[i - 1] = f[i - 1]
        OBVIOUS
      <4>2. Loop(h, i) = Loop(f, i)
        BY <4>1
      <4> QED
        BY <4>2, <3>2
    <3>4. h = [i \in 0..(k + 1) |-> Loop(h, i)]
      BY <3>3
    <3> HIDE DEF h
    <3>5. \E g : g = [i \in 0..(k + 1) |-> Loop(g, i)]
      BY <3>4
    <3>6. k + 1 \in Nat
      OBVIOUS
    <3> QED
      BY <3>5, <3>6, Zenon
  <2>3. n \in S
    <3> HIDE DEF S
    <3> QED
      BY <1>1, <2>1, <2>2, Upward DEF S
  <2> QED
    BY <2>3
<1>4. after = [i \in 0..n |-> Loop(after, i)]
  BY <1>3
<1> HIDE DEF after
<1>5. \A i \in 0..n : after[i] = Loop(after, i)
  BY <1>4
<1> QED
  BY <1>1, <1>2, <1>5

\* A query has a length, and bytes.
LEMMA QueryBytes ==
  ASSUME NEW q \in Query
  PROVE  Len(q) \in Nat /\ \A i \in 1..Len(q) : q[i] \in Byte
BY LenProperties, ElementOfSeq DEF Query

\* What HasAt means, byte by byte.
LEMMA HasAtBytes ==
  ASSUME NEW S, NEW q \in Seq(S), NEW i \in Int, NEW s \in Seq(S)
  PROVE  HasAt(q, i, s) <=> /\ i >= 1 /\ i + Len(s) - 1 <= Len(q)
                            /\ \A k \in 1..Len(s) : q[i + k - 1] = s[k]
<1>1. Len(q) \in Nat /\ Len(s) \in Nat
  BY LenProperties
<1> SUFFICES ASSUME i >= 1, i + Len(s) - 1 <= Len(q)
             PROVE  SubSeq(q, i, i + Len(s) - 1) = s <=> \A k \in 1..Len(s) : q[i + k - 1] = s[k]
  BY DEF HasAt
<1> DEFINE m == i + Len(s) - 1
           t == SubSeq(q, i, m)
<1>2. m \in Int /\ \A k \in i..m : q[k] \in S
  BY <1>1, ElementOfSeq
<1>3. m - i + 1 = Len(s) /\ (IF i <= m THEN m - i + 1 ELSE 0) = Len(s)
  BY <1>1
<1>4. t \in Seq(S) /\ Len(t) = Len(s) /\ \A k \in 1..Len(s) : t[k] = q[i + k - 1]
  BY <1>2, <1>3, SubSeqProperties
<1>5. (\A k \in 1..Len(s) : t[k] = s[k]) => t = s
  BY <1>4, SeqEqual
<1> QED
  BY <1>4, <1>5

\* The byte at a position, if there is one.
LEMMA AtValue ==
  ASSUME NEW q, NEW i
  PROVE  At(q, i) = IF i \in 1..Len(q) THEN q[i] ELSE NoByte
BY Zenon DEF At, NoByte

\* The bytes that the scanners tell apart are different, and all of them are bytes.
LEMMA NoByteIsNone ==
  /\ NoByte # "?" /\ NoByte # "\\" /\ NoByte # "-" /\ NoByte # "*"
  /\ NoByte # "\n" /\ NoByte \notin Quote /\ NoByte # "[" /\ NoByte # "$" /\ NoByte # "/"
BY Zenon DEF NoByte, Quote

\* A pattern of two bytes, and of one.
LEMMA HasPair ==
  ASSUME NEW q \in Query, NEW i \in Int, NEW c, NEW d, c # NoByte, d # NoByte
  PROVE  HasAt(q, i, <<c, d>>) <=> At(q, i) = c /\ At(q, i + 1) = d
<1> DEFINE w == <<c, d>>
           U == Byte \cup {c, d}
<1>1. w \in Seq(U) /\ Len(w) = 2 /\ w[1] = c /\ w[2] = d
  OBVIOUS
<1>2. q \in Seq(U)
  BY SeqMonotonic DEF Query
<1> HIDE DEF w, U
<1>3. HasAt(q, i, w) <=> i >= 1 /\ i + 1 <= Len(q) /\ \A k \in 1..2 : q[i + k - 1] = w[k]
  <2>1. HasAt(q, i, w) <=> /\ i >= 1 /\ i + Len(w) - 1 <= Len(q)
                           /\ \A k \in 1..Len(w) : q[i + k - 1] = w[k]
    <3>1. \A x \in Seq(U) : HasAt(q, i, x) <=> /\ i >= 1 /\ i + Len(x) - 1 <= Len(q)
                                               /\ \A k \in 1..Len(x) : q[i + k - 1] = x[k]
      BY <1>2, HasAtBytes
    <3> QED
      BY <1>1, <3>1
  <2> QED
    BY <1>1, <2>1, QueryBytes
<1>4. (\A k \in 1..2 : q[i + k - 1] = w[k]) <=> q[i] = c /\ q[i + 1] = d
  <2>1. \A k \in 1..2 : k = 1 \/ k = 2
    OBVIOUS
  <2> QED
    BY <1>1, <2>1
<1> QED
  BY <1>3, <1>4, QueryBytes, AtValue DEF w

\* A pattern of one byte.
LEMMA HasOne ==
  ASSUME NEW q \in Query, NEW i \in Int, NEW c, c # NoByte
  PROVE  HasAt(q, i, <<c>>) <=> At(q, i) = c
<1> DEFINE w == <<c>>
           U == Byte \cup {c}
<1>1. w \in Seq(U) /\ Len(w) = 1 /\ w[1] = c
  OBVIOUS
<1>2. q \in Seq(U)
  BY SeqMonotonic DEF Query
<1> HIDE DEF w, U
<1>3. HasAt(q, i, w) <=> i >= 1 /\ i <= Len(q) /\ \A k \in 1..1 : q[i + k - 1] = w[k]
  <2>1. HasAt(q, i, w) <=> /\ i >= 1 /\ i + Len(w) - 1 <= Len(q)
                           /\ \A k \in 1..Len(w) : q[i + k - 1] = w[k]
    <3>1. \A x \in Seq(U) : HasAt(q, i, x) <=> /\ i >= 1 /\ i + Len(x) - 1 <= Len(q)
                                               /\ \A k \in 1..Len(x) : q[i + k - 1] = x[k]
      BY <1>2, HasAtBytes
    <3> QED
      BY <1>1, <3>1
  <2> QED
    BY <1>1, <2>1, QueryBytes
<1>4. (\A k \in 1..1 : q[i + k - 1] = w[k]) <=> q[i] = c
  <2>1. \A k \in 1..1 : k = 1
    OBVIOUS
  <2> QED
    BY <1>1, <2>1
<1> QED
  BY <1>3, <1>4, QueryBytes, AtValue DEF w

\* AfterFirst ends right after the first pattern that begins at position from or after it.
LEMMA AfterFirstMeets ==
  ASSUME NEW q \in Query, NEW from \in Nat, NEW s, Len(s) \in Nat, Len(s) # 0, from >= 1
  PROVE  /\ AfterFirst(q, from, s) \in Nat
         /\ AfterFirst(q, from, s) <= Len(q) + 1
         /\ \/ AfterFirst(q, from, s) = Len(q) + 1
            \/ /\ AfterFirst(q, from, s) >= from + Len(s)
               /\ HasAt(q, AfterFirst(q, from, s) - Len(s), s)
         /\ \A j \in Nat : j >= from /\ HasAt(q, j, s) => AfterFirst(q, from, s) <= j + Len(s)
<1> DEFINE n == Len(s)
           e == AfterFirst(q, from, s)
           found == {i \in from..(Len(q) - n + 1) : HasAt(q, i, s)}
<1>1. Len(q) \in Nat
  BY QueryBytes
<1>2. e = IF found = {} THEN Len(q) + 1 ELSE Min(found) + n
  BY DEF AfterFirst
<1>3. ASSUME NEW j \in Nat, j >= from, HasAt(q, j, s) PROVE j \in found
  BY <1>1, <1>3 DEF HasAt
<1> HIDE DEF e
<1> SUFFICES /\ e \in Nat /\ e <= Len(q) + 1
             /\ e = Len(q) + 1 \/ (e >= from + n /\ HasAt(q, e - n, s))
             /\ \A j \in Nat : j >= from /\ HasAt(q, j, s) => e <= j + n
  BY DEF e
<1>4. CASE found = {}
  BY <1>1, <1>2, <1>3, <1>4
<1>5. CASE found # {}
  <2>1. found \in SUBSET Nat
    BY <1>1
  <2> HIDE DEF found
  <2>2. Min(found) \in found /\ \A m \in found : Min(found) <= m
    BY <1>5, <2>1, LeastOf
  <2>3. PICK k \in found : k = Min(found)
    BY <2>2
  <2>4. k \in Nat /\ k >= from /\ k + n <= Len(q) + 1 /\ HasAt(q, k, s)
    BY <1>1, <2>3 DEF found
  <2>5. e = k + n /\ e - n = k
    BY <1>2, <1>5, <2>3, <2>4
  <2> QED
    BY <1>1, <1>3, <2>1, <2>2, <2>3, <2>4, <2>5
<1> QED
  BY <1>4, <1>5

\* The loop of scanDelimited, as a function of the position.
DelimitedLoop(q, close, f, i) ==
  IF i > Len(q) THEN i
  ELSE IF q[i] # close THEN f[i + 1]
  ELSE IF At(q, i + 1) = close THEN f[i + 2]
  ELSE i + 1

\* The loop ends, at every position.
LEMMA DelimitedSteps ==
  ASSUME NEW q \in Query, NEW close, close # NoByte
  PROVE  \E f : /\ \A start : scanDelimited(q, start, close) = f[start + 1]
                /\ \A i \in 1..(Len(q) + 1) : f[i] = DelimitedLoop(q, close, f, i)
<1> DEFINE n == Len(q)
           Loop(f, i) == DelimitedLoop(q, close, f, i)
           end == CHOOSE f : f = [i \in 1..(n + 1) |-> Loop(f, i)]
           S == {i \in 1..(n + 1) : \E f : f = [j \in i..(n + 1) |-> Loop(f, j)]}
<1>1. n \in Nat
  BY QueryBytes
<1>2. \A start : scanDelimited(q, start, close) = end[start + 1]
  BY Zenon DEF scanDelimited, DelimitedLoop
<1>3. ASSUME NEW i \in 1..(n + 1), NEW f, NEW h, \A j \in (i + 1)..(n + 1) : h[j] = f[j]
      PROVE  Loop(h, i) = Loop(f, i)
  <2>1. i <= n => i + 1 \in (i + 1)..(n + 1)
    BY <1>1
  <2>2. At(q, i + 1) = close => i + 1 <= n
    BY <1>1, AtValue
  <2>3. At(q, i + 1) = close => i + 2 \in (i + 1)..(n + 1)
    BY <1>1, <2>2
  <2> QED
    BY <1>1, <1>3, <2>1, <2>3 DEF DelimitedLoop
<1>4. ASSUME NEW i \in 1..(n + 1), \A j \in (i + 1)..(n + 1) : j \in S PROVE i \in S
  <2>1. PICK f : \A j \in (i + 1)..(n + 1) : f[j] = Loop(f, j)
    <3>1. CASE i = n + 1
      BY <1>1, <3>1
    <3>2. CASE i # n + 1
      <4>1. i + 1 \in S
        BY <1>1, <1>4, <3>2
      <4>2. PICK g : g = [j \in (i + 1)..(n + 1) |-> Loop(g, j)]
        BY <4>1
      <4>3. \A j \in (i + 1)..(n + 1) : g[j] = Loop(g, j)
        BY <4>2
      <4> QED
        BY <4>3
    <3> QED
      BY <3>1, <3>2
  <2> DEFINE h == [j \in i..(n + 1) |-> IF j = i THEN Loop(f, i) ELSE f[j]]
  <2>2. \A j \in (i + 1)..(n + 1) : h[j] = f[j]
    BY <1>1
  <2>3. ASSUME NEW j \in i..(n + 1) PROVE h[j] = Loop(h, j)
    <3>1. j \in 1..(n + 1) /\ \A k \in (j + 1)..(n + 1) : h[k] = f[k]
      BY <1>1, <2>2
    <3>2. Loop(h, j) = Loop(f, j)
      BY <1>3, <3>1
    <3>3. j # i => f[j] = Loop(f, j)
      BY <1>1, <2>1
    <3> QED
      BY <3>2, <3>3
  <2>4. h = [j \in i..(n + 1) |-> Loop(h, j)]
    BY <2>3
  <2> HIDE DEF h
  <2>5. \E g : g = [j \in i..(n + 1) |-> Loop(g, j)]
    BY <2>4
  <2> QED
    BY <2>5
<1>5. 1 \in S
  <2>1. \A i \in 1..(n + 1) : i \in S
    <3> HIDE DEF S, Loop
    <3> QED
      BY <1>1, <1>4, Downward
  <2>2. 1 \in 1..(n + 1)
    BY <1>1
  <2> QED
    BY <2>1, <2>2
<1>6. end = [i \in 1..(n + 1) |-> Loop(end, i)]
  BY <1>5
<1> HIDE DEF end
<1>7. \A i \in 1..(n + 1) : end[i] = Loop(end, i)
  BY <1>6
<1> QED
  BY <1>2, <1>7

\* In normal text the automaton enters whatever begins at byte i.
Ready(q, i) == i \in 1..Len(q) => Region(q)[i] = Enter(q, i)

\* A closed region is left, unless a quote reopens it.
LEMMA LeftRegion ==
  ASSUME NEW q \in Query, NEW i \in Nat, i >= 1, Region(q)[i - 1].done,
         Region(q)[i - 1].in \in Quote \cup {"]"} => i > Len(q) \/ q[i] # Region(q)[i - 1].in
  PROVE  Ready(q, i)
<1> SUFFICES ASSUME i \in 1..Len(q) PROVE Region(q)[i] = Enter(q, i)
  BY DEF Ready
<1>1. Region(q)[i] = NextRegion(q, Region(q)[i - 1], i)
  BY RegionSteps
<1>2. ~(i > Len(q))
  BY QueryBytes
<1> QED
  BY <1>1, <1>2, Zenon DEF NextRegion

\* Normal text is not left by itself.
LEMMA StaysNormal ==
  ASSUME NEW q \in Query, NEW i \in Nat, i >= 1, Region(q)[i - 1] = Normal
  PROVE  Ready(q, i)
<1> SUFFICES ASSUME i \in 1..Len(q) PROVE Region(q)[i] = Enter(q, i)
  BY DEF Ready
<1>1. Region(q)[i] = NextRegion(q, Normal, i)
  BY RegionSteps
<1>2. Normal.in = "normal" /\ Normal.done = FALSE
  BY DEF Normal
<1> QED
  BY <1>1, <1>2, Zenon DEF NextRegion

\* The names of the regions are not closing bytes.
LEMMA ClosingBytes ==
  ASSUME NEW close \in Quote \cup {"]"}
  PROVE  close # NoByte /\ close # "normal" /\ close # "line" /\ close # "block" /\ close # "dollar"
BY Zenon DEF Quote, NoByte

\* A region with another "done".
LEMMA SetDone ==
  ASSUME NEW c, NEW o, NEW x, NEW y
  PROVE  [[in |-> c, open |-> o, done |-> x] EXCEPT !.done = y] = [in |-> c, open |-> o, done |-> y]
OBVIOUS

\* Inside quotes or brackets.
LEMMA InDelimited ==
  ASSUME NEW q, NEW i, NEW close \in Quote \cup {"]"}, NEW o
  PROVE  LET m == [in |-> close, open |-> o, done |-> FALSE]
             d == [in |-> close, open |-> o, done |-> TRUE]
         IN /\ q[i] # close => NextRegion(q, m, i) = m
            /\ q[i] = close => NextRegion(q, m, i) = d /\ NextRegion(q, d, i) = m
<1> DEFINE m == [in |-> close, open |-> o, done |-> FALSE]
           d == [in |-> close, open |-> o, done |-> TRUE]
<1> SUFFICES /\ q[i] # close => NextRegion(q, m, i) = m
             /\ q[i] = close => NextRegion(q, m, i) = d /\ NextRegion(q, d, i) = m
  BY Zenon
<1>1. close # "normal"
  BY ClosingBytes
<1>2. Closes(q, m, i) = (q[i] = close)
  <2>1. m.in \in Quote \cup {"]"} /\ m.in = close
    OBVIOUS
  <2> QED
    BY <2>1, ClosingBytes DEF Closes
<1>3. NextRegion(q, m, i) = [m EXCEPT !.done = Closes(q, m, i)]
  BY <1>1 DEF NextRegion
<1>4. CASE q[i] = close
  <2>1. NextRegion(q, m, i) = d
    BY <1>2, <1>3, <1>4
  <2>2. d.done /\ d.in \in Quote \cup {"]"} /\ q[i] = d.in
    BY <1>4
  <2>3. [d EXCEPT !.done = FALSE] = m
    BY SetDone, Zenon
  <2>4. NextRegion(q, d, i) = m
    BY <2>2, <2>3, Zenon DEF NextRegion
  <2> QED
    BY <1>4, <2>1, <2>4
<1>5. CASE q[i] # close
  <2>1. Closes(q, m, i) = FALSE
    BY <1>2, <1>5
  <2>2. [m EXCEPT !.done = FALSE] = m
    BY SetDone, Zenon
  <2> QED
    BY <1>3, <1>5, <2>1, <2>2, Zenon
<1> QED
  BY <1>4, <1>5

\* scanQuoted and scanBracketIdentifier end where the automaton leaves the region, whatever
\* is doubled and whether or not it is closed.
LEMMA DelimitedEnds ==
  ASSUME NEW q \in Query, NEW close \in Quote \cup {"]"}, NEW start \in 1..Len(q),
         NEW e, e = scanDelimited(q, start, close)
  PROVE  /\ e \in (start + 1)..(Len(q) + 1)
         /\ Region(q)[start] = [in |-> close, open |-> start, done |-> FALSE] =>
              Ready(q, e) /\ \A j \in start..(e - 1) : Region(q)[j].in = close
<1> DEFINE n == Len(q)
           m == [in |-> close, open |-> start, done |-> FALSE]
           d == [in |-> close, open |-> start, done |-> TRUE]
<1>1. n \in Nat
  BY QueryBytes
<1>2. close # NoByte
  BY ClosingBytes
<1>3. PICK f : /\ \A s : scanDelimited(q, s, close) = f[s + 1]
               /\ \A i \in 1..(n + 1) : f[i] = DelimitedLoop(q, close, f, i)
  BY <1>2, DelimitedSteps
<1> DEFINE Good(i) ==
             /\ f[i] \in i..(n + 1)
             /\ i <= n => f[i] > i
             /\ i > 1 /\ Region(q)[i - 1] = m =>
                  Ready(q, f[i]) /\ \A j \in i..(f[i] - 1) : Region(q)[j].in = close
           S == {i \in 1..(n + 1) : Good(i)}
<1>a. \A i \in 1..n : Region(q)[i] = NextRegion(q, Region(q)[i - 1], i)
  BY RegionSteps
<1>b. ASSUME NEW i
      PROVE  /\ q[i] # close => NextRegion(q, m, i) = m
             /\ q[i] = close => NextRegion(q, m, i) = d /\ NextRegion(q, d, i) = m
  BY InDelimited
<1>c. d.done /\ d.in = close /\ m.in = close
  OBVIOUS
<1> HIDE DEF m, d
<1>4. ASSUME NEW i \in 1..(n + 1), \A j \in (i + 1)..(n + 1) : j \in S PROVE i \in S
  <2> HIDE DEF S
  <2>1. f[i] = DelimitedLoop(q, close, f, i)
    BY <1>3
  <2>2. CASE i > n
    <3>1. f[i] = i /\ i = n + 1
      BY <1>1, <2>1, <2>2 DEF DelimitedLoop
    <3>2. Ready(q, i)
      BY <1>1, <3>1 DEF Ready
    <3> QED
      BY <1>1, <3>1, <3>2 DEF S
  <2>3. CASE i <= n /\ q[i] # close
    <3>0. i + 1 \in S
      BY <1>1, <1>4, <2>3
    <3>1. f[i] = f[i + 1] /\ Good(i + 1)
      BY <2>1, <2>3, <3>0 DEF DelimitedLoop, S
    <3>2. i > 1 /\ Region(q)[i - 1] = m => Region(q)[i] = m
      BY <1>1, <1>a, <1>b, <2>3
    <3> QED
      BY <1>1, <1>c, <2>3, <3>1, <3>2 DEF S
  <2>4. CASE i <= n /\ q[i] = close /\ At(q, i + 1) = close
    <3>1. i + 1 <= n /\ q[i + 1] = close
      BY <1>1, <1>2, <2>4, AtValue
    <3>0. i + 2 \in S
      BY <1>1, <1>4, <3>1
    <3>2. f[i] = f[i + 2] /\ Good(i + 2)
      BY <2>1, <2>4, <3>0 DEF DelimitedLoop, S
    <3>3. i > 1 /\ Region(q)[i - 1] = m => Region(q)[i] = d
      BY <1>1, <1>a, <1>b, <2>4
    <3>4. i > 1 /\ Region(q)[i - 1] = m => Region(q)[i + 1] = m
      BY <1>1, <1>a, <1>b, <3>1, <3>3
    <3> QED
      BY <1>1, <1>c, <3>1, <3>2, <3>3, <3>4 DEF S
  <2>5. CASE i <= n /\ q[i] = close /\ At(q, i + 1) # close
    <3>1. f[i] = i + 1
      BY <1>1, <2>1, <2>5 DEF DelimitedLoop
    <3>2. i > 1 /\ Region(q)[i - 1] = m => Region(q)[i] = d
      BY <1>1, <1>a, <1>b, <2>5
    <3>3. i + 1 > n \/ q[i + 1] # close
      BY <1>1, <2>5, AtValue
    <3>4. i > 1 /\ Region(q)[i - 1] = m => Ready(q, i + 1)
      BY <1>1, <1>c, <3>2, <3>3, LeftRegion
    <3> QED
      BY <1>1, <1>c, <2>5, <3>1, <3>2, <3>4 DEF S
  <2> QED
    BY <1>1, <2>2, <2>3, <2>4, <2>5
<1>5. start + 1 \in S
  <2>1. \A i \in 1..(n + 1) : i \in S
    <3> HIDE DEF S
    <3> QED
      BY <1>1, <1>4, Downward
  <2>2. start + 1 \in 1..(n + 1)
    BY <1>1
  <2> QED
    BY <2>1, <2>2
<1>6. e = f[start + 1]
  BY <1>3
<1>7. (start + 1) - 1 = start
  BY <1>1
<1> QED
  BY <1>1, <1>5, <1>6, <1>7 DEF m

\* What closes a comment and a dollar quote.
LEMMA ClosesPattern ==
  ASSUME NEW q, NEW i, NEW o
  PROVE  /\ Closes(q, [in |-> "line", open |-> o, done |-> FALSE], i) = (q[i] = "\n")
         /\ Closes(q, [in |-> "block", open |-> o, done |-> FALSE], i)
              = (i >= o + 3 /\ HasAt(q, i - 1, <<"*", "/">>))
         /\ Closes(q, [in |-> "dollar", open |-> o, done |-> FALSE], i)
              = \E t \in Tag(q, o) : i >= o + 2 * Len(t) - 1 /\ HasAt(q, i - Len(t) + 1, t)
<1>1. \A x \in {"line", "block", "dollar"} : x \notin Quote \cup {"]"}
  BY Zenon DEF Quote
<1>2. Closes(q, [in |-> "line", open |-> o, done |-> FALSE], i) = (q[i] = "\n")
  BY <1>1 DEF Closes
<1>3. Closes(q, [in |-> "block", open |-> o, done |-> FALSE], i)
        = (i >= o + 3 /\ HasAt(q, i - 1, <<"*", "/">>))
  BY <1>1 DEF Closes
<1>4. Closes(q, [in |-> "dollar", open |-> o, done |-> FALSE], i)
        = \E t \in Tag(q, o) : i >= o + 2 * Len(t) - 1 /\ HasAt(q, i - Len(t) + 1, t)
  BY <1>1 DEF Closes
<1> QED
  BY <1>2, <1>3, <1>4

\* The regions that a pattern closes.
Pattern == {"line", "block", "dollar"}

\* A region by its kind and its place, open and perhaps closed.
Opened(kind, o) == [in |-> kind, open |-> o, done |-> FALSE]
Closed(kind, o) == [in |-> kind, open |-> o, done |-> TRUE]

\* Inside a comment or a dollar quote.
LEMMA InPattern ==
  ASSUME NEW q, NEW i, NEW o, NEW kind \in Pattern
  PROVE  /\ ~Closes(q, Opened(kind, o), i) =>
              NextRegion(q, Opened(kind, o), i) = Opened(kind, o)
         /\ Closes(q, Opened(kind, o), i) =>
              NextRegion(q, Opened(kind, o), i) = Closed(kind, o)
<1> DEFINE m == [in |-> kind, open |-> o, done |-> FALSE]
           d == [in |-> kind, open |-> o, done |-> TRUE]
           c == Closes(q, m, i)
<1> SUFFICES (~c => NextRegion(q, m, i) = m) /\ (c => NextRegion(q, m, i) = d)
  BY Zenon DEF Opened, Closed
<1>1. c \in BOOLEAN
  <2>1. kind = "line" \/ kind = "block" \/ kind = "dollar"
    BY DEF Pattern
  <2>2. kind \notin Quote \cup {"]"}
    BY Zenon DEF Quote, Pattern
  <2> QED
    BY <2>1, <2>2 DEF Closes
<1>2. NextRegion(q, m, i) = [m EXCEPT !.done = c]
  BY DEF NextRegion, Pattern
<1> HIDE DEF c
<1>3. [m EXCEPT !.done = c] = [in |-> kind, open |-> o, done |-> c]
  BY SetDone
<1>4. (c => c = TRUE) /\ (~c => c = FALSE)
  BY <1>1, Zenon
<1> QED
  BY <1>2, <1>3, <1>4, Zenon

\* A comment or a dollar quote ends after the first pattern that may close it.
LEMMA PatternEnds ==
  ASSUME NEW q \in Query, NEW start \in 1..Len(q), NEW kind \in Pattern,
         Region(q)[start] = Opened(kind, start),
         NEW e \in (start + 1)..(Len(q) + 1),
         \A j \in (start + 1)..(e - 2) : ~Closes(q, Opened(kind, start), j),
         e <= Len(q) => e - 1 > start /\ Closes(q, Opened(kind, start), e - 1)
  PROVE  Ready(q, e) /\ \A j \in start..(e - 1) : Region(q)[j].in = kind
<1> DEFINE m == Opened(kind, start)
           d == Closed(kind, start)
<1>1. Len(q) \in Nat /\ \A i \in 1..Len(q) : Region(q)[i] = NextRegion(q, Region(q)[i - 1], i)
  BY QueryBytes, RegionSteps
<1>2. ASSUME NEW i
      PROVE  (~Closes(q, m, i) => NextRegion(q, m, i) = m) /\ (Closes(q, m, i) => NextRegion(q, m, i) = d)
  BY InPattern, Zenon
<1>3. m.in = kind /\ d.in = kind /\ d.done
  BY DEF Opened, Closed
<1> HIDE DEF m, d
<1> DEFINE S == {k \in Nat : start + k <= e - 2 => Region(q)[start + k] = m}
<1>4. 0 \in S
  BY DEF m
<1>5. ASSUME NEW k \in Nat, k \in S PROVE k + 1 \in S
  <2>1. ASSUME start + (k + 1) <= e - 2 PROVE Region(q)[start + (k + 1)] = m
    <3>1. start + (k + 1) \in (start + 1)..(e - 2) /\ start + (k + 1) \in 1..Len(q)
          /\ (start + (k + 1)) - 1 = start + k /\ start + k <= e - 2
      BY <1>1, <2>1
    <3> QED
      BY <1>1, <1>2, <1>5, <3>1 DEF m
  <2> QED
    BY <2>1
<1>6. Nat \subseteq S
  <2> HIDE DEF S
  <2> QED
    BY <1>4, <1>5, Upward DEF S
<1>7. ASSUME NEW j \in start..(e - 2) PROVE Region(q)[j] = m
  <2>1. j - start \in Nat /\ start + (j - start) = j /\ j <= e - 2
    OBVIOUS
  <2> QED
    BY <1>6, <2>1
<1>8. e - 1 = start \/ (e - 1 > start /\ e - 1 \in 1..Len(q) /\ (e - 1) - 1 \in start..(e - 2))
  BY <1>1
<1>9. Region(q)[e - 1] = m \/ Region(q)[e - 1] = d
  <2>1. CASE e - 1 = start
    BY <2>1 DEF m
  <2>2. CASE e - 1 > start /\ e - 1 \in 1..Len(q) /\ (e - 1) - 1 \in start..(e - 2)
    BY <1>1, <1>2, <1>7, <2>2
  <2> QED
    BY <1>8, <2>1, <2>2
<1>10. Ready(q, e)
  <2>1. CASE e <= Len(q)
    <3>1. Region(q)[e - 1] = d
      <4>1. e - 1 \in 1..Len(q) /\ (e - 1) - 1 \in start..(e - 2) /\ Closes(q, m, e - 1)
        BY <1>1, <2>1 DEF m
      <4> QED
        BY <1>1, <1>2, <1>7, <4>1
    <3>2. kind \notin Quote \cup {"]"}
      BY Zenon DEF Quote, Pattern
    <3> QED
      BY <1>1, <1>3, <3>1, <3>2, LeftRegion
  <2>2. CASE ~(e <= Len(q))
    BY <1>1, <2>2 DEF Ready
  <2> QED
    BY <2>1, <2>2
<1>11. ASSUME NEW j \in start..(e - 1) PROVE Region(q)[j].in = kind
  <2>1. j = e - 1 \/ j \in start..(e - 2)
    BY <1>1
  <2> QED
    BY <1>3, <1>7, <1>9, <2>1
<1> QED
  BY <1>10, <1>11

\* The bytes of a tag.
LEMMA TagBytes ==
  ASSUME NEW q \in Query, NEW i \in 1..Len(q), NEW j \in (i + 1)..Len(q), NEW t, t = SubSeq(q, i, j)
  PROVE  t \in Query /\ Len(t) = j - i + 1 /\ \A k \in 1..Len(t) : t[k] = q[i + k - 1]
<1>1. \A k \in i..j : q[k] \in Byte
  BY QueryBytes
<1>2. i \in Int /\ j \in Int /\ i <= j
  BY QueryBytes
<1>3. /\ SubSeq(q, i, j) \in Seq(Byte)
      /\ Len(SubSeq(q, i, j)) = IF i <= j THEN j - i + 1 ELSE 0
      /\ \A k \in 1..(j - i + 1) : SubSeq(q, i, j)[k] = q[i + k - 1]
  BY <1>1, <1>2, SubSeqProperties
<1> QED
  BY <1>2, <1>3 DEF Query

\* The code and PostgreSQL mean the same by a tag.
LEMMA TagsAgree ==
  ASSUME NEW q \in Query, NEW i \in 1..Len(q)
  PROVE  dollarTags(q, i) = Tag(q, i)
<1> DEFINE LeadByte == Letter \cup {"_"}
           P(j) == /\ q[j] = "$"
                   /\ \A l \in (i + 1)..(j - 1) : q[l] \in isDollarTagByte
                   /\ q[i + 1] \notin Digit
           R(t) == /\ t[Len(t)] = "$"
                   /\ \A k \in 2..(Len(t) - 1) :
                        t[k] \in Letter \cup {"_"} \cup (IF k = 2 THEN {} ELSE Digit)
<1>1. \A x \in LeadByte : x \notin Digit
  BY DEF Letter, Digit
<1>2. "$" \notin Digit
  BY DEF Digit
<1>3. isDollarTagByte = LeadByte \cup Digit
  BY DEF isDollarTagByte, isIdentByte
<1>4. Len(q) \in Nat
  BY QueryBytes
<1> HIDE DEF LeadByte
<1>5. ASSUME NEW j \in (i + 1)..Len(q) PROVE P(j) <=> R(SubSeq(q, i, j))
  <2> DEFINE t == SubSeq(q, i, j)
  <2>1. Len(t) = j - i + 1 /\ \A k \in 1..Len(t) : t[k] = q[i + k - 1]
    BY TagBytes
  <2> HIDE DEF t
  <2>2. t[Len(t)] = q[j]
    BY <2>1, <1>4
  <2>3. \A k : Letter \cup {"_"} \cup (IF k = 2 THEN {} ELSE Digit) = LeadByte \cup (IF k = 2 THEN {} ELSE Digit)
    BY DEF LeadByte
  <2>4. ASSUME P(j) PROVE R(t)
    <3>1. ASSUME NEW k \in 2..(Len(t) - 1)
          PROVE  t[k] \in LeadByte \cup (IF k = 2 THEN {} ELSE Digit)
      <4>1. t[k] = q[i + k - 1] /\ i + k - 1 \in (i + 1)..(j - 1)
        BY <2>1, <1>4
      <4>2. t[k] \in LeadByte \cup Digit
        BY <2>4, <4>1, <1>3
      <4>3. k = 2 => t[k] = q[i + 1]
        BY <4>1, <1>4
      <4> QED
        BY <2>4, <4>2, <4>3
    <3> QED
      BY <2>2, <2>3, <2>4, <3>1
  <2>5. ASSUME R(t) PROVE P(j)
    <3>1. ASSUME NEW l \in (i + 1)..(j - 1)
          PROVE  q[l] \in LeadByte \cup Digit /\ (l = i + 1 => q[l] \in LeadByte)
      <4>1. l - i + 1 \in 2..(Len(t) - 1) /\ l - i + 1 \in 1..Len(t) /\ i + (l - i + 1) - 1 = l
        BY <2>1, <1>4
      <4>2. t[l - i + 1] = q[l]
        BY <2>1, <4>1
      <4>3. t[l - i + 1] \in LeadByte \cup (IF l - i + 1 = 2 THEN {} ELSE Digit)
        BY <2>3, <2>5, <4>1
      <4> QED
        BY <4>2, <4>3, <1>4
    <3>2. q[j] = "$"
      BY <2>2, <2>5
    <3>3. q[i + 1] \notin Digit
      <4>1. CASE j = i + 1
        BY <1>2, <3>2, <4>1
      <4>2. CASE j # i + 1
        BY <1>1, <1>4, <3>1, <4>2
      <4> QED
        BY <4>1, <4>2
    <3> QED
      BY <1>3, <3>1, <3>2, <3>3
  <2> QED
    BY <2>4, <2>5 DEF t
<1>6. dollarTags(q, i) = {SubSeq(q, i, j) : j \in {k \in (i + 1)..Len(q) : P(k)}}
  BY Zenon DEF dollarTags
<1>7. Tag(q, i) = {t \in {SubSeq(q, i, j) : j \in (i + 1)..Len(q)} : R(t)}
  BY Zenon DEF Tag
<1> HIDE DEF P, R
<1> QED
  BY <1>5, <1>6, <1>7

\* There is at most one tag, and it fits into the query.
LEMMA OneTag ==
  ASSUME NEW q \in Query, NEW i \in 1..Len(q), NEW t \in dollarTags(q, i)
  PROVE  /\ t \in Query /\ Len(t) \in Nat /\ Len(t) >= 2 /\ i + Len(t) <= Len(q) + 1
         /\ dollarTags(q, i) = {t}
<1> DEFINE P(j) == /\ q[j] = "$"
                   /\ \A l \in (i + 1)..(j - 1) : q[l] \in isDollarTagByte
                   /\ q[i + 1] \notin Digit
<1>1. dollarTags(q, i) = {SubSeq(q, i, j) : j \in {k \in (i + 1)..Len(q) : P(k)}}
  BY Zenon DEF dollarTags
<1>2. "$" \notin isDollarTagByte
  BY DEF isDollarTagByte, isIdentByte, Letter, Digit
<1>3. Len(q) \in Nat
  BY QueryBytes
<1>4. PICK j \in (i + 1)..Len(q) : P(j) /\ t = SubSeq(q, i, j)
  BY <1>1
<1>5. t \in Query /\ Len(t) = j - i + 1
  BY <1>4, TagBytes
<1>6. ASSUME NEW u \in dollarTags(q, i) PROVE u = t
  <2>1. PICK k \in (i + 1)..Len(q) : P(k) /\ u = SubSeq(q, i, k)
    BY <1>1
  <2>2. ~(j < k) /\ ~(k < j)
    BY <1>2, <1>3, <1>4, <2>1
  <2> QED
    BY <1>3, <1>4, <2>1, <2>2
<1> QED
  BY <1>3, <1>5, <1>6

\* What the reference automaton enters at a byte of normal text.
LEMMA Enters ==
  ASSUME NEW q \in Query, NEW i \in 1..Len(q)
  PROVE  /\ q[i] \in Quote => Enter(q, i) = Opened(q[i], i)
         /\ q[i] = "[" => Enter(q, i) = Opened("]", i)
         /\ q[i] = "-" /\ At(q, i + 1) = "-" => Enter(q, i) = Opened("line", i)
         /\ q[i] = "/" /\ At(q, i + 1) = "*" => Enter(q, i) = Opened("block", i)
         /\ q[i] = "$" /\ dollarTags(q, i) # {} => Enter(q, i) = Opened("dollar", i)
         /\ ~ \/ q[i] \in Quote \cup {"["}
              \/ q[i] = "-" /\ At(q, i + 1) = "-"
              \/ q[i] = "/" /\ At(q, i + 1) = "*"
              \/ q[i] = "$" /\ dollarTags(q, i) # {}
            => Enter(q, i) = Normal
<1>1. \A c \in Quote : c # "[" /\ c # "-" /\ c # "/" /\ c # "$" /\ c # "normal"
  BY Zenon DEF Quote
<1>2. At(q, i) = q[i]
  BY AtValue
<1>3. HasAt(q, i, <<"-", "-">>) <=> q[i] = "-" /\ At(q, i + 1) = "-"
  BY <1>2, HasPair, NoByteIsNone
<1>4. HasAt(q, i, <<"/", "*">>) <=> q[i] = "/" /\ At(q, i + 1) = "*"
  BY <1>2, HasPair, NoByteIsNone
<1>5. dollarTags(q, i) = Tag(q, i)
  BY TagsAgree
<1> QED
  BY <1>1, <1>3, <1>4, <1>5 DEF Enter, Opened

\* A segment that scanSkipSegment (lexer.go:47) skips is a region of the automaton, whole,
\* and normal text is read where it skips nothing.
LEMMA Segments ==
  ASSUME NEW q \in Query, NEW i \in 1..Len(q), NEW e, e = scanSkipSegment(q, i)
  PROVE  /\ e \in i..(Len(q) + 1)
         /\ Ready(q, i) /\ e = i => Region(q)[i] = Normal
         /\ Ready(q, i) /\ e # i => Ready(q, e) /\ \A j \in i..(e - 1) : Region(q)[j].in # "normal"
<1> DEFINE n == Len(q)
           Good == /\ e \in (i + 1)..(n + 1)
                   /\ Ready(q, i) => Ready(q, e) /\ \A j \in i..(e - 1) : Region(q)[j].in # "normal"
<1>1. n \in Nat /\ At(q, i) = q[i]
  BY QueryBytes, AtValue
<1>2. Ready(q, i) => Region(q)[i] = Enter(q, i)
  BY DEF Ready
<1>3. \A c \in Quote : c # "[" /\ c # "-" /\ c # "/" /\ c # "$" /\ c # "normal"
  BY Zenon DEF Quote
<1>4. SUFFICES \/ Good
               \/ e = i /\ Enter(q, i) = Normal
  BY <1>1, <1>2
<1>5. ASSUME NEW close \in Quote \cup {"]"}, e = scanDelimited(q, i, close), Enter(q, i) = Opened(close, i)
      PROVE  Good
  <2>1. e \in (i + 1)..(n + 1)
    BY <1>5, DelimitedEnds
  <2>2. Ready(q, i) => Ready(q, e) /\ \A j \in i..(e - 1) : Region(q)[j].in = close
    BY <1>2, <1>5, DelimitedEnds DEF Opened
  <2> QED
    BY <1>3, <2>1, <2>2
<1>6. ASSUME NEW kind \in Pattern, Enter(q, i) = Opened(kind, i), e \in (i + 1)..(n + 1),
             \A j \in (i + 1)..(e - 2) : ~Closes(q, Opened(kind, i), j),
             e <= n => e - 1 > i /\ Closes(q, Opened(kind, i), e - 1)
      PROVE  Good
  <2>1. Ready(q, i) => Ready(q, e) /\ \A j \in i..(e - 1) : Region(q)[j].in = kind
    BY <1>2, <1>6, PatternEnds
  <2>2. kind # "normal"
    BY DEF Pattern
  <2> QED
    BY <1>6, <2>1, <2>2
<1>7. CASE q[i] \in Quote
  <2>1. e = scanDelimited(q, i, q[i])
    BY <1>1, <1>3, <1>7 DEF scanSkipSegment
  <2> QED
    BY <1>5, <1>7, <2>1, Enters
<1>8. CASE q[i] = "["
  <2>1. e = scanDelimited(q, i, "]")
    BY <1>1, <1>3, <1>8 DEF scanSkipSegment
  <2> QED
    BY <1>5, <1>8, <2>1, Enters
<1>9. CASE q[i] = "-" /\ At(q, i + 1) = "-"
  <2>1. e = AfterFirst(q, i + 2, <<"\n">>)
    BY <1>1, <1>3, <1>9 DEF scanSkipSegment, scanLineComment
  <2>2. i + 1 \in 1..n
    BY <1>1, <1>9, AtValue, NoByteIsNone
  <2>3. \A j \in Nat : HasAt(q, j, <<"\n">>) <=> At(q, j) = "\n"
    BY HasOne, NoByteIsNone
  <2>4. /\ e \in Nat /\ e <= n + 1
        /\ e = n + 1 \/ (e >= i + 2 + 1 /\ HasAt(q, e - 1, <<"\n">>))
        /\ \A j \in Nat : j >= i + 2 /\ HasAt(q, j, <<"\n">>) => e <= j + 1
    <3> DEFINE s == <<"\n">>
    <3>1. Len(s) = 1 /\ i + 2 \in Nat /\ i + 2 >= 1
      OBVIOUS
    <3> HIDE DEF s
    <3>2. /\ e \in Nat /\ e <= n + 1
          /\ e = n + 1 \/ (e >= i + 2 + Len(s) /\ HasAt(q, e - Len(s), s))
          /\ \A j \in Nat : j >= i + 2 /\ HasAt(q, j, s) => e <= j + Len(s)
      <4>1. e = AfterFirst(q, i + 2, s)
        BY <2>1 DEF s
      <4>2. Len(s) \in Nat /\ Len(s) # 0
        BY <3>1
      <4> QED
        BY <3>1, <4>1, <4>2, AfterFirstMeets, Zenon
    <3> QED
      BY <3>1, <3>2 DEF s
  <2>5. \A j \in 1..n : Closes(q, Opened("line", i), j) <=> At(q, j) = "\n"
    BY ClosesPattern, AtValue DEF Opened
  <2>6. e \in (i + 1)..(n + 1)
    BY <1>1, <2>2, <2>4
  <2>7. ASSUME NEW j \in (i + 1)..(e - 2) PROVE ~Closes(q, Opened("line", i), j)
    <3>1. CASE j = i + 1
      <4>1. At(q, j) = "-" /\ j \in 1..n
        BY <1>9, <2>2, <3>1
      <4> QED
        BY <2>5, <4>1
    <3>2. CASE j # i + 1
      <4>1. j >= i + 2 /\ j \in Nat /\ j \in 1..n /\ ~(e <= j + 1)
        BY <1>1, <2>4, <3>2
      <4> QED
        BY <2>3, <2>4, <2>5, <4>1
    <3> QED
      BY <3>1, <3>2
  <2>8. ASSUME e <= n PROVE e - 1 > i /\ Closes(q, Opened("line", i), e - 1)
    <3>1. e - 1 > i /\ e - 1 \in Nat /\ e - 1 \in 1..n /\ HasAt(q, e - 1, <<"\n">>)
      BY <1>1, <2>4, <2>8
    <3> QED
      BY <2>3, <2>5, <3>1
  <2>9. "line" \in Pattern
    BY DEF Pattern
  <2> QED
    BY <1>6, <1>9, <2>6, <2>7, <2>8, <2>9, Enters
<1>10. CASE q[i] = "/" /\ At(q, i + 1) = "*"
  <2>1. e = AfterFirst(q, i + 2, <<"*", "/">>)
    BY <1>1, <1>3, <1>10 DEF scanSkipSegment, scanBlockComment
  <2>2. i + 1 \in 1..n
    BY <1>1, <1>10, AtValue, NoByteIsNone
  <2> DEFINE s == <<"*", "/">>
  <2>3. Len(s) = 2 /\ i + 2 \in Nat /\ i + 2 >= 1
    OBVIOUS
  <2>4. \A j \in Nat : Closes(q, Opened("block", i), j) <=> j >= i + 3 /\ HasAt(q, j - 1, s)
    BY ClosesPattern DEF Opened
  <2> HIDE DEF s
  <2>5. /\ e \in Nat /\ e <= n + 1
        /\ e = n + 1 \/ (e >= i + 2 + 2 /\ HasAt(q, e - 2, s))
        /\ \A j \in Nat : j >= i + 2 /\ HasAt(q, j, s) => e <= j + 2
    <3>1. /\ e \in Nat /\ e <= n + 1
          /\ e = n + 1 \/ (e >= i + 2 + Len(s) /\ HasAt(q, e - Len(s), s))
          /\ \A j \in Nat : j >= i + 2 /\ HasAt(q, j, s) => e <= j + Len(s)
      <4>1. e = AfterFirst(q, i + 2, s)
        BY <2>1 DEF s
      <4>2. Len(s) \in Nat /\ Len(s) # 0
        BY <2>3
      <4> QED
        BY <2>3, <4>1, <4>2, AfterFirstMeets, Zenon
    <3> QED
      BY <2>3, <3>1
  <2>6. e \in (i + 1)..(n + 1)
    BY <1>1, <2>2, <2>5
  <2>7. ASSUME NEW j \in (i + 1)..(e - 2) PROVE ~Closes(q, Opened("block", i), j)
    <3>1. j \in Nat /\ j - 1 \in Nat /\ ~(e <= (j - 1) + 2) /\ (j >= i + 3 => j - 1 >= i + 2)
      BY <2>5
    <3> QED
      BY <2>4, <2>5, <3>1
  <2>8. ASSUME e <= n PROVE e - 1 > i /\ Closes(q, Opened("block", i), e - 1)
    <3>1. e - 1 > i /\ e - 1 \in Nat /\ e - 1 >= i + 3 /\ (e - 1) - 1 = e - 2 /\ HasAt(q, e - 2, s)
      BY <1>1, <2>5, <2>8
    <3> QED
      BY <2>4, <3>1
  <2>9. "block" \in Pattern
    BY DEF Pattern
  <2> QED
    BY <1>6, <1>10, <2>6, <2>7, <2>8, <2>9, Enters
<1>11. CASE q[i] = "$" /\ dollarTags(q, i) # {}
  <2>1. PICK t \in dollarTags(q, i) : TRUE
    BY <1>11
  <2>2. /\ Len(t) \in Nat /\ Len(t) >= 2 /\ i + Len(t) <= n + 1
        /\ dollarTags(q, i) = {t} /\ Tag(q, i) = {t}
    BY OneTag, TagsAgree
  <2>3. e = AfterFirst(q, i + Len(t), t)
    <3>1. (CHOOSE u \in dollarTags(q, i) : TRUE) = t
      BY <2>2
    <3>2. e = scanDollarQuote(q, i)
      BY <1>1, <1>3, <1>11 DEF scanSkipSegment
    <3> QED
      BY <1>11, <3>1, <3>2 DEF scanDollarQuote
  <2> DEFINE l == Len(t)
  <2>4. ASSUME NEW j \in Nat
        PROVE  Closes(q, Opened("dollar", i), j) <=> j >= i + 2 * l - 1 /\ HasAt(q, j - l + 1, t)
    BY <2>2, ClosesPattern DEF Opened
  <2>5. /\ e \in Nat /\ e <= n + 1
        /\ e = n + 1 \/ (e >= i + l + l /\ HasAt(q, e - l, t))
        /\ \A j \in Nat : j >= i + l /\ HasAt(q, j, t) => e <= j + l
    <3>1. i + l \in Nat /\ i + l >= 1 /\ l # 0
      BY <2>2
    <3> QED
      BY <2>2, <2>3, <3>1, AfterFirstMeets
  <2>6. e \in (i + 1)..(n + 1)
    BY <1>1, <2>2, <2>5
  <2>7. ASSUME NEW j \in (i + 1)..(e - 2) PROVE ~Closes(q, Opened("dollar", i), j)
    <3>1. SUFFICES ASSUME j >= i + 2 * l - 1, HasAt(q, j - l + 1, t) PROVE FALSE
      BY <2>4
    <3>2. j - l + 1 \in Nat /\ j - l + 1 >= i + l /\ (j - l + 1) + l = j + 1
      BY <2>2, <3>1
    <3>3. e <= j + 1
      BY <2>5, <3>1, <3>2
    <3> QED
      BY <2>5, <3>3
  <2>8. ASSUME e <= n PROVE e - 1 > i /\ Closes(q, Opened("dollar", i), e - 1)
    <3>1. e - 1 > i /\ e - 1 \in Nat /\ e - 1 >= i + 2 * l - 1 /\ (e - 1) - l + 1 = e - l /\ HasAt(q, e - l, t)
      BY <1>1, <2>2, <2>5, <2>8
    <3> QED
      BY <2>4, <3>1
  <2>9. "dollar" \in Pattern
    BY DEF Pattern
  <2> QED
    BY <1>6, <1>11, <2>6, <2>7, <2>8, <2>9, Enters
<1>12. CASE ~ \/ q[i] \in Quote \cup {"["}
              \/ q[i] = "-" /\ At(q, i + 1) = "-"
              \/ q[i] = "/" /\ At(q, i + 1) = "*"
              \/ q[i] = "$" /\ dollarTags(q, i) # {}
  <2>1. e = i
    BY <1>1, <1>12 DEF scanSkipSegment, scanDollarQuote
  <2> QED
    BY <1>12, <2>1, Enters
<1> QED
  BY <1>7, <1>8, <1>9, <1>10, <1>11, <1>12

\* The loop of a caller that collects what it skips.
SkipLoop(q, f, i) ==
  LET end == scanSkipSegment(q, i) IN
  IF i > Len(q) THEN {}
  ELSE IF end > i THEN (i..(end - 1)) \cup f[end]
  ELSE f[i + 1]

\* A caller of scanSkipSegment comes to the end of the query.
LEMMA SkipSteps ==
  ASSUME NEW q \in Query
  PROVE  \E f : /\ \A start : SkippedFrom(q, start) = f[start]
                /\ \A i \in 1..(Len(q) + 1) : f[i] = SkipLoop(q, f, i)
<1> DEFINE n == Len(q)
           Loop(f, i) == SkipLoop(q, f, i)
           from == CHOOSE f : f = [i \in 1..(n + 1) |-> Loop(f, i)]
           S == {i \in 1..(n + 1) : \E f : f = [j \in i..(n + 1) |-> Loop(f, j)]}
<1>1. n \in Nat
  BY QueryBytes
<1>2. \A start : SkippedFrom(q, start) = from[start]
  BY Zenon DEF SkippedFrom, SkipLoop
<1>3. ASSUME NEW i \in 1..(n + 1), NEW f, NEW h, \A j \in (i + 1)..(n + 1) : h[j] = f[j]
      PROVE  Loop(h, i) = Loop(f, i)
  <2> DEFINE e == scanSkipSegment(q, i)
  <2>1. i <= n => i + 1 \in (i + 1)..(n + 1) /\ e \in i..(n + 1)
    BY <1>1, Segments
  <2> HIDE DEF e
  <2>2. i <= n /\ e > i => e \in (i + 1)..(n + 1)
    BY <1>1, <2>1
  <2>3. \A g : Loop(g, i) = IF i > n THEN {} ELSE IF e > i THEN (i..(e - 1)) \cup g[e] ELSE g[i + 1]
    BY Zenon DEF SkipLoop, e
  <2>4. i > n \/ (i <= n /\ (e > i => h[e] = f[e]) /\ h[i + 1] = f[i + 1])
    BY <1>1, <1>3, <2>1, <2>2
  <2> QED
    BY <2>3, <2>4
<1>4. ASSUME NEW i \in 1..(n + 1), \A j \in (i + 1)..(n + 1) : j \in S PROVE i \in S
  <2>1. PICK f : \A j \in (i + 1)..(n + 1) : f[j] = Loop(f, j)
    <3>1. CASE i = n + 1
      BY <1>1, <3>1
    <3>2. CASE i # n + 1
      <4>1. i + 1 \in S
        BY <1>1, <1>4, <3>2
      <4>2. PICK g : g = [j \in (i + 1)..(n + 1) |-> Loop(g, j)]
        BY <4>1
      <4>3. \A j \in (i + 1)..(n + 1) : g[j] = Loop(g, j)
        BY <4>2
      <4> QED
        BY <4>3
    <3> QED
      BY <3>1, <3>2
  <2> DEFINE h == [j \in i..(n + 1) |-> IF j = i THEN Loop(f, i) ELSE f[j]]
  <2>2. \A j \in (i + 1)..(n + 1) : h[j] = f[j]
    BY <1>1
  <2>3. ASSUME NEW j \in i..(n + 1) PROVE h[j] = Loop(h, j)
    <3>1. j \in 1..(n + 1) /\ \A k \in (j + 1)..(n + 1) : h[k] = f[k]
      BY <1>1, <2>2
    <3>2. Loop(h, j) = Loop(f, j)
      BY <1>3, <3>1
    <3>3. j # i => f[j] = Loop(f, j)
      BY <1>1, <2>1
    <3> QED
      BY <3>2, <3>3
  <2>4. h = [j \in i..(n + 1) |-> Loop(h, j)]
    BY <2>3
  <2> HIDE DEF h
  <2>5. \E g : g = [j \in i..(n + 1) |-> Loop(g, j)]
    BY <2>4
  <2> QED
    BY <2>5
<1>5. 1 \in S
  <2>1. \A i \in 1..(n + 1) : i \in S
    <3> HIDE DEF S, Loop
    <3> QED
      BY <1>1, <1>4, Downward
  <2>2. 1 \in 1..(n + 1)
    BY <1>1
  <2> QED
    BY <2>1, <2>2
<1>6. from = [i \in 1..(n + 1) |-> Loop(from, i)]
  BY <1>5
<1> HIDE DEF from
<1>7. \A i \in 1..(n + 1) : from[i] = Loop(from, i)
  BY <1>6
<1> QED
  BY <1>2, <1>7

\* The scanners, called from left to right, skip exactly what the automaton protects.
LEMMA SkippedIsProtected ==
  ASSUME NEW q \in Query
  PROVE  Skipped(q) = Protected(q)
<1> DEFINE n == Len(q)
           Rest(i) == {j \in i..n : Region(q)[j].in # "normal"}
<1>1. n \in Nat
  BY QueryBytes
<1>2. PICK f : /\ \A start : SkippedFrom(q, start) = f[start]
               /\ \A i \in 1..(n + 1) : f[i] = SkipLoop(q, f, i)
  BY SkipSteps
<1> DEFINE S == {i \in 1..(n + 1) : Ready(q, i) => f[i] = Rest(i)}
<1>3. ASSUME NEW i \in 1..(n + 1), \A j \in (i + 1)..(n + 1) : j \in S PROVE i \in S
  <2> HIDE DEF S
  <2> SUFFICES ASSUME Ready(q, i) PROVE f[i] = Rest(i)
    BY DEF S
  <2>1. f[i] = SkipLoop(q, f, i)
    BY <1>2
  <2>2. CASE i = n + 1
    <3>1. f[i] = {}
      BY <1>1, <2>1, <2>2 DEF SkipLoop
    <3> QED
      BY <1>1, <2>2, <3>1
  <2>3. CASE i # n + 1
    <3> DEFINE e == scanSkipSegment(q, i)
    <3>1. /\ i \in 1..n /\ e \in i..(n + 1)
          /\ e = i => Region(q)[i] = Normal
          /\ e # i => Ready(q, e) /\ \A j \in i..(e - 1) : Region(q)[j].in # "normal"
      BY <1>1, <2>3, Segments
    <3> HIDE DEF e
    <3>2. CASE e = i
      <4>1. f[i] = f[i + 1]
        BY <1>1, <2>1, <3>1, <3>2 DEF SkipLoop, e
      <4>2. Ready(q, i + 1)
        <5>1. (i + 1) - 1 = i /\ i + 1 \in Nat /\ i + 1 >= 1
          BY <1>1
        <5> QED
          BY <3>1, <3>2, <5>1, StaysNormal
      <4>3. i + 1 \in S
        BY <1>1, <1>3, <3>1
      <4>4. f[i + 1] = Rest(i + 1)
        BY <4>2, <4>3 DEF S
      <4>5. Region(q)[i].in = "normal"
        BY <3>1, <3>2 DEF Normal
      <4>6. Rest(i + 1) = Rest(i)
        BY <1>1, <4>5
      <4> QED
        BY <4>1, <4>4, <4>6
    <3>3. CASE e # i
      <4>1. f[i] = (i..(e - 1)) \cup f[e]
        BY <1>1, <2>1, <3>1, <3>3 DEF SkipLoop, e
      <4>2. e \in S
        BY <1>1, <1>3, <3>1, <3>3
      <4>3. f[e] = Rest(e)
        BY <3>1, <3>3, <4>2 DEF S
      <4>4. (i..(e - 1)) \cup Rest(e) = Rest(i)
        BY <1>1, <3>1, <3>3
      <4> QED
        BY <4>1, <4>3, <4>4
    <3> QED
      BY <3>2, <3>3
  <2> QED
    BY <2>2, <2>3
<1>4. 1 \in S
  <2>1. \A i \in 1..(n + 1) : i \in S
    <3> HIDE DEF S
    <3> QED
      BY <1>1, <1>3, Downward
  <2>2. 1 \in 1..(n + 1)
    BY <1>1
  <2> QED
    BY <2>1, <2>2
<1>5. Ready(q, 1)
  <2>1. 1 - 1 = 0 /\ 1 \in Nat /\ 1 >= 1
    OBVIOUS
  <2> QED
    BY <2>1, RegionSteps, StaysNormal
<1>6. Skipped(q) = Rest(1)
  BY <1>2, <1>4, <1>5 DEF Skipped
<1> QED
  BY <1>6, Zenon DEF Protected

-----------------------------------------------------------------------------
(* The text of a query                                                     *)

\* FlattenSeq puts the elements together one after the other.
LEMMA FlattenSteps ==
  ASSUME NEW list, Len(list) \in Nat
  PROVE  /\ Len(list) = 0 => FlattenSeq(list) = list
         /\ Len(list) # 0 => \E f : /\ FlattenSeq(list) = f[Len(list)]
                                    /\ \A i \in 1..Len(list) : f[i] = IF i = 1 THEN list[i] ELSE f[i - 1] \o list[i]
<1> DEFINE n == Len(list)
           Loop(f, i) == IF i = 1 THEN list[i] ELSE f[i - 1] \o list[i]
           flat == CHOOSE f : f = [i \in 1..n |-> Loop(f, i)]
<1>1. n \in Nat
  OBVIOUS
<1>2. n = 0 => FlattenSeq(list) = list
  BY Zenon DEF FlattenSeq
<1>3. n # 0 => FlattenSeq(list) = flat[n]
  BY Zenon DEF FlattenSeq
<1>4. \E f : f = [i \in 1..n |-> Loop(f, i)]
  <2> HIDE DEF n
  <2> DEFINE T == {k \in Nat : \E f : f = [i \in 1..k |-> Loop(f, i)]}
  <2>1. 0 \in T
    <3> DEFINE f == [i \in 1..0 |-> <<>>]
    <3>1. f = [i \in 1..0 |-> Loop(f, i)]
      OBVIOUS
    <3> QED
      BY <3>1
  <2>2. ASSUME NEW k \in Nat, k \in T PROVE k + 1 \in T
    <3>1. PICK f : f = [i \in 1..k |-> Loop(f, i)]
      BY <2>2
    <3>2. \A j \in 1..k : f[j] = Loop(f, j)
      BY <3>1
    <3> DEFINE h == [i \in 1..(k + 1) |-> IF i <= k THEN f[i] ELSE Loop(f, i)]
    <3>3. ASSUME NEW i \in 1..(k + 1) PROVE h[i] = Loop(h, i)
      <4>1. i # 1 => h[i - 1] = f[i - 1]
        OBVIOUS
      <4>2. Loop(h, i) = Loop(f, i)
        BY <4>1
      <4> QED
        BY <3>2, <4>2
    <3>4. h = [i \in 1..(k + 1) |-> Loop(h, i)]
      BY <3>3
    <3> HIDE DEF h
    <3>5. \E g : g = [i \in 1..(k + 1) |-> Loop(g, i)]
      BY <3>4
    <3>6. k + 1 \in Nat
      OBVIOUS
    <3> QED
      BY <3>5, <3>6, Zenon
  <2>3. n \in T
    <3> HIDE DEF T
    <3> QED
      BY <1>1, <2>1, <2>2, Upward DEF T
  <2> QED
    BY <2>3
<1>5. flat = [i \in 1..n |-> Loop(flat, i)]
  BY <1>4
<1> HIDE DEF flat
<1>6. \A i \in 1..n : flat[i] = Loop(flat, i)
  BY <1>5
<1> QED
  BY <1>2, <1>3, <1>6

\* Fragments put one after the other are a query.
LEMMA FlattenType ==
  ASSUME NEW S, NEW list \in Seq(Seq(S))
  PROVE  FlattenSeq(list) \in Seq(S)
<1> DEFINE n == Len(list)
<1>1. n \in Nat /\ \A i \in 1..n : list[i] \in Seq(S)
  BY LenProperties, ElementOfSeq
<1>2. CASE n = 0
  <2>1. list = <<>>
    BY <1>2, EmptySeq
  <2>2. FlattenSeq(list) = list
    BY <1>2, FlattenSteps
  <2> QED
    BY <2>1, <2>2, EmptySeq
<1>3. CASE n # 0
  <2>1. PICK f : /\ FlattenSeq(list) = f[n]
                 /\ \A i \in 1..n : f[i] = IF i = 1 THEN list[i] ELSE f[i - 1] \o list[i]
    BY <1>1, <1>3, FlattenSteps
  <2> DEFINE T == {k \in Nat : k \in 1..n => f[k] \in Seq(S)}
  <2> HIDE DEF n
  <2>2. 0 \in T
    OBVIOUS
  <2>3. ASSUME NEW k \in Nat, k \in T PROVE k + 1 \in T
    <3>1. ASSUME k + 1 \in 1..n PROVE f[k + 1] \in Seq(S)
      <4>1. CASE k = 0
        BY <1>1, <2>1, <3>1, <4>1
      <4>2. CASE k # 0
        <5>1. k \in 1..n /\ k + 1 # 1 /\ (k + 1) - 1 = k
          BY <1>1, <3>1, <4>2
        <5>2. f[k + 1] = f[k] \o list[k + 1]
          BY <2>1, <3>1, <5>1
        <5>3. f[k] \in Seq(S) /\ list[k + 1] \in Seq(S)
          BY <1>1, <2>3, <3>1, <5>1
        <5> QED
          BY <5>2, <5>3, ConcatProperties
      <4> QED
        BY <4>1, <4>2
    <3> QED
      BY <3>1
  <2>4. Nat \subseteq T
    <3> HIDE DEF T
    <3> QED
      BY <2>2, <2>3, Upward DEF T
  <2>5. n \in 1..n /\ n \in T
    BY <1>1, <1>3, <2>4
  <2> QED
    BY <2>1, <2>5
<1> QED
  BY <1>2, <1>3

\* What is written is a query.
TextInv == workload \in Workloads /\ query \in Seq(Query)

\* Whatever a program puts together is a query of bytes.
THEOREM TextIsQuery == Spec => []TextInv
<1>1. Init => TextInv
  BY DEF Init, TextInv
<1>2. TextInv /\ [Next]_vars => TextInv'
  <2> SUFFICES ASSUME TextInv, [Next]_vars PROVE TextInv'
    OBVIOUS
  <2>1. ASSUME NEW f \in workload.fragments, Write(f) PROVE TextInv'
    <3>1. f \in Query
      <4>1. f \in Seq(STRING)
        BY WorkloadAssumption DEF TextInv
      <4>2. STRING \subseteq Byte
        BY Zenon DEF Byte
      <4> QED
        BY <4>1, <4>2, SeqMonotonic DEF Query
    <3> QED
      BY <2>1, <3>1, AppendProperties DEF Write, TextInv
  <2>2. ASSUME NEW a \in workload.args, Pass(a) PROVE TextInv'
    BY <2>2 DEF Pass, TextInv
  <2>3. CASE UNCHANGED vars
    BY <2>3 DEF TextInv, vars
  <2> QED
    BY <2>1, <2>2, <2>3 DEF Next
<1> QED
  BY <1>1, <1>2, PTL DEF Spec

\* Whatever a program puts together, the scanners of lexer.go skip the bytes of literals,
\* quoted identifiers, dollar quotes and comments, and no others.
THEOREM ScannersAreRight == Spec => []ScannersMatchReference
<1>1. TextInv => ScannersMatchReference
  <2> SUFFICES ASSUME TextInv PROVE Skipped(Text) = Protected(Text)
    BY DEF ScannersMatchReference
  <2>1. Text \in Query
    BY FlattenType DEF TextInv, Text, Query
  <2> QED
    BY <2>1, SkippedIsProtected
<1> QED
  BY <1>1, TextIsQuery, PTL

-----------------------------------------------------------------------------
(* Placeholders: what Rebind and In must agree on                          *)

\* The placeholders from byte i on, with those of later positions in f.
MarksLoop(q, f, i) ==
  LET end == scanSkipSegment(q, i) IN
  IF i > Len(q) THEN <<>>
  ELSE IF end > i THEN f[end]
  ELSE IF q[i] # "?" THEN f[i + 1]
  ELSE IF At(q, i - 1) = "\\" THEN f[i + 1]
  ELSE IF At(q, i + 1) = "?" THEN f[i + 2]
  ELSE <<i>> \o f[i + 1]

\* The placeholders of a query, from every position on.
Marks(q) == CHOOSE f : f = [i \in 1..(Len(q) + 1) |-> MarksLoop(q, f, i)]

\* The four ways on from a byte.
LEMMA WaysOn ==
  ASSUME NEW q \in Query, NEW i \in 1..Len(q), NEW e, e = scanSkipSegment(q, i)
  PROVE  /\ i + 1 \in (i + 1)..(Len(q) + 1)
         /\ e \in i..(Len(q) + 1)
         /\ e > i => e \in (i + 1)..(Len(q) + 1)
         /\ At(q, i + 1) = "?" => i + 2 \in (i + 1)..(Len(q) + 1)
<1>1. Len(q) \in Nat /\ e \in i..(Len(q) + 1)
  BY QueryBytes, Segments
<1>2. At(q, i + 1) = "?" => i + 1 <= Len(q)
  BY <1>1, AtValue, NoByteIsNone
<1> QED
  BY <1>1, <1>2

\* Marks, byte by byte from the end.
LEMMA MarksSteps ==
  ASSUME NEW q \in Query
  PROVE  \A i \in 1..(Len(q) + 1) : Marks(q)[i] = MarksLoop(q, Marks(q), i)
<1> DEFINE n == Len(q)
           Loop(f, i) == MarksLoop(q, f, i)
           from == Marks(q)
           S == {i \in 1..(n + 1) : \E f : f = [j \in i..(n + 1) |-> Loop(f, j)]}
<1>1. n \in Nat
  BY QueryBytes
<1>3. ASSUME NEW i \in 1..(n + 1), NEW f, NEW h, \A j \in (i + 1)..(n + 1) : h[j] = f[j]
      PROVE  Loop(h, i) = Loop(f, i)
  <2>1. CASE i > n
    BY <2>1 DEF MarksLoop
  <2>2. CASE ~(i > n)
    <3> DEFINE e == scanSkipSegment(q, i)
    <3>1. i \in 1..n
      BY <1>1, <2>2
    <3>2. /\ h[i + 1] = f[i + 1]
          /\ e > i => h[e] = f[e]
          /\ At(q, i + 1) = "?" => h[i + 2] = f[i + 2]
      BY <1>3, <3>1, WaysOn
    <3>3. \A g : Loop(g, i) = IF e > i THEN g[e]
                              ELSE IF q[i] # "?" THEN g[i + 1]
                              ELSE IF At(q, i - 1) = "\\" THEN g[i + 1]
                              ELSE IF At(q, i + 1) = "?" THEN g[i + 2]
                              ELSE <<i>> \o g[i + 1]
      BY <2>2, Zenon DEF MarksLoop
    <3> HIDE DEF e, Loop
    <3> QED
      BY <3>2, <3>3
  <2> QED
    BY <2>1, <2>2
<1>4. ASSUME NEW i \in 1..(n + 1), \A j \in (i + 1)..(n + 1) : j \in S PROVE i \in S
  <2>1. PICK f : \A j \in (i + 1)..(n + 1) : f[j] = Loop(f, j)
    <3>1. CASE i = n + 1
      BY <1>1, <3>1
    <3>2. CASE i # n + 1
      <4>1. i + 1 \in S
        BY <1>1, <1>4, <3>2
      <4>2. PICK g : g = [j \in (i + 1)..(n + 1) |-> Loop(g, j)]
        BY <4>1
      <4>3. \A j \in (i + 1)..(n + 1) : g[j] = Loop(g, j)
        BY <4>2
      <4> QED
        BY <4>3
    <3> QED
      BY <3>1, <3>2
  <2> DEFINE h == [j \in i..(n + 1) |-> IF j = i THEN Loop(f, i) ELSE f[j]]
  <2>2. \A j \in (i + 1)..(n + 1) : h[j] = f[j]
    BY <1>1
  <2>3. ASSUME NEW j \in i..(n + 1) PROVE h[j] = Loop(h, j)
    <3>1. j \in 1..(n + 1) /\ \A k \in (j + 1)..(n + 1) : h[k] = f[k]
      BY <1>1, <2>2
    <3>2. Loop(h, j) = Loop(f, j)
      BY <1>3, <3>1
    <3>3. j # i => f[j] = Loop(f, j)
      BY <1>1, <2>1
    <3> QED
      BY <3>2, <3>3
  <2>4. h = [j \in i..(n + 1) |-> Loop(h, j)]
    BY <2>3
  <2> HIDE DEF h
  <2>5. \E g : g = [j \in i..(n + 1) |-> Loop(g, j)]
    BY <2>4
  <2> QED
    BY <2>5
<1>5. 1 \in S
  <2>1. \A i \in 1..(n + 1) : i \in S
    <3> HIDE DEF S, Loop
    <3> QED
      BY <1>1, <1>4, Downward
  <2>2. 1 \in 1..(n + 1)
    BY <1>1
  <2> QED
    BY <2>1, <2>2
<1>6. from = [i \in 1..(n + 1) |-> Loop(from, i)]
  BY <1>5 DEF Marks
<1> HIDE DEF from
<1>7. \A i \in 1..(n + 1) : from[i] = Loop(from, i)
  BY <1>6
<1> QED
  BY <1>7 DEF from

\* What the placeholders from a byte on are, way by way.
LEMMA MarksCases ==
  ASSUME NEW q \in Query, NEW i \in 1..Len(q), NEW e, e = scanSkipSegment(q, i)
  PROVE  /\ e > i => Marks(q)[i] = Marks(q)[e]
         /\ ~(e > i) /\ q[i] # "?" => Marks(q)[i] = Marks(q)[i + 1]
         /\ ~(e > i) /\ q[i] = "?" /\ At(q, i - 1) = "\\" => Marks(q)[i] = Marks(q)[i + 1]
         /\ ~(e > i) /\ q[i] = "?" /\ At(q, i - 1) # "\\" /\ At(q, i + 1) = "?" => Marks(q)[i] = Marks(q)[i + 2]
         /\ ~(e > i) /\ q[i] = "?" /\ At(q, i - 1) # "\\" /\ At(q, i + 1) # "?" =>
              Marks(q)[i] = <<i>> \o Marks(q)[i + 1]
<1>1. ~(i > Len(q)) /\ i \in 1..(Len(q) + 1)
  BY QueryBytes
<1>2. Marks(q)[i] = MarksLoop(q, Marks(q), i)
  BY <1>1, MarksSteps
<1> QED
  BY <1>1, <1>2, Zenon DEF MarksLoop

\* There is no placeholder behind the last byte.
LEMMA NoMarksAtEnd ==
  ASSUME NEW q \in Query
  PROVE  Marks(q)[Len(q) + 1] = <<>>
<1>1. Len(q) + 1 > Len(q) /\ Len(q) + 1 \in 1..(Len(q) + 1)
  BY QueryBytes
<1>2. Marks(q)[Len(q) + 1] = MarksLoop(q, Marks(q), Len(q) + 1)
  BY <1>1, MarksSteps
<1> QED
  BY <1>1, <1>2, Zenon DEF MarksLoop

\* The placeholders from a byte on are a list of positions.
LEMMA MarksType ==
  ASSUME NEW q \in Query
  PROVE  \A i \in 1..(Len(q) + 1) : Marks(q)[i] \in Seq(Nat)
<1> DEFINE n == Len(q)
           S == {i \in 1..(n + 1) : Marks(q)[i] \in Seq(Nat)}
<1>1. n \in Nat
  BY QueryBytes
<1>2. ASSUME NEW i \in 1..(n + 1), \A j \in (i + 1)..(n + 1) : j \in S PROVE i \in S
  <2> SUFFICES Marks(q)[i] \in Seq(Nat)
    OBVIOUS
  <2>1. CASE i = n + 1
    BY <2>1, NoMarksAtEnd, EmptySeq
  <2>2. CASE i # n + 1
    <3>1. i \in 1..n
      BY <1>1, <2>2
    <3> DEFINE e == scanSkipSegment(q, i)
    <3>2. /\ e > i => Marks(q)[e] \in Seq(Nat)
          /\ Marks(q)[i + 1] \in Seq(Nat)
          /\ At(q, i + 1) = "?" => Marks(q)[i + 2] \in Seq(Nat)
      BY <1>2, <3>1, WaysOn
    <3>3. <<i>> \in Seq(Nat)
      BY <3>1
    <3>4. <<i>> \o Marks(q)[i + 1] \in Seq(Nat)
      BY <3>2, <3>3, ConcatProperties
    <3>5. \/ e > i /\ Marks(q)[i] = Marks(q)[e]
          \/ Marks(q)[i] = Marks(q)[i + 1]
          \/ At(q, i + 1) = "?" /\ Marks(q)[i] = Marks(q)[i + 2]
          \/ Marks(q)[i] = <<i>> \o Marks(q)[i + 1]
      BY <3>1, MarksCases, Zenon
    <3> QED
      BY <3>2, <3>4, <3>5
  <2> QED
    BY <2>1, <2>2
<1>3. \A i \in 1..(n + 1) : i \in S
  <2> HIDE DEF S
  <2> QED
    BY <1>1, <1>2, Downward
<1> QED
  BY <1>3

\* The record of the loop of Rebind.
Walked(pos, written, found) == [pos |-> pos, query |-> written, vars |-> found]

\* The step of a turn that passes no placeholder.
Moved(s, next, written) == [s EXCEPT !.pos = next, !.query = written]

\* What a turn of Rebind that passes no placeholder does to its record.
LEMMA Moves ==
  \A i, query0, vars0, next, written :
    Moved(Walked(i, query0, vars0), next, written) = Walked(next, written, vars0)
<1> TAKE i, query0, vars0, next, written
<1>1. [Walked(i, query0, vars0) EXCEPT !.pos = next] = Walked(next, query0, vars0)
  BY DEF Walked
<1>2. [Walked(next, query0, vars0) EXCEPT !.query = written] = Walked(next, written, vars0)
  BY DEF Walked
<1> QED
  BY <1>1, <1>2, Zenon DEF Moved

\* What a turn of Rebind is, way by way.
LEMMA RebindWays ==
  ASSUME NEW q \in Query, NEW type, NEW i, NEW query0, NEW vars0,
         NEW e, NEW r
  PROVE  e = scanSkipSegment(q, i) /\ r = RebindTurn(type, q, Walked(i, query0, vars0)) =>
         /\ e > i => \E w : r = Walked(e, w, vars0)
         /\ ~(e > i) /\ q[i] # "?" => \E w : r = Walked(i + 1, w, vars0)
         /\ ~(e > i) /\ q[i] = "?" /\ At(q, i - 1) = "\\" =>
              \E w : r = Walked(i + 1, w, vars0)
         /\ ~(e > i) /\ q[i] = "?" /\ At(q, i - 1) # "\\" /\ At(q, i + 1) = "?" =>
              \E w : r = Walked(i + 2, w, vars0)
         /\ ~(e > i) /\ q[i] = "?" /\ At(q, i - 1) # "\\" /\ At(q, i + 1) # "?" =>
              \E w : r = Walked(i + 1, w, Append(vars0, i))
<1> HAVE e = scanSkipSegment(q, i) /\ r = RebindTurn(type, q, Walked(i, query0, vars0))
<1> DEFINE s == Walked(i, query0, vars0)
           To(next, written) == Moved(s, next, written)
<1>1. r = IF e > s.pos THEN To(e, s.query \o SubSeq(q, s.pos, e - 1))
          ELSE IF q[s.pos] # "?" THEN To(s.pos + 1, s.query \o <<q[s.pos]>>)
          ELSE IF At(q, s.pos - 1) = "\\" THEN To(s.pos + 1, Append(Front(s.query), "?"))
          ELSE IF At(q, s.pos + 1) = "?" THEN To(s.pos + 2, s.query \o <<"?">>)
          ELSE Walked(s.pos + 1, s.query \o Bindvar(type, Len(s.vars) + 1), Append(s.vars, s.pos))
  <2>1. e = scanSkipSegment(q, s.pos) /\ r = RebindTurn(type, q, s)
    BY DEF Walked
  <2> HIDE DEF s
  <2> QED
    BY <2>1, Zenon DEF RebindTurn, Walked, Moved
<1>2. s.pos = i /\ s.query = query0 /\ s.vars = vars0
  BY DEF Walked
<1>3. \A next, written : To(next, written) = Walked(next, written, vars0)
  BY Moves
<1> HIDE DEF s, To
<1>4. r = IF e > i THEN To(e, query0 \o SubSeq(q, i, e - 1))
          ELSE IF q[i] # "?" THEN To(i + 1, query0 \o <<q[i]>>)
          ELSE IF At(q, i - 1) = "\\" THEN To(i + 1, Append(Front(query0), "?"))
          ELSE IF At(q, i + 1) = "?" THEN To(i + 2, query0 \o <<"?">>)
          ELSE Walked(i + 1, query0 \o Bindvar(type, Len(vars0) + 1), Append(vars0, i))
  BY <1>1, <1>2, Zenon
<1> QED
  BY <1>3, <1>4, Zenon

\* Three lists one after the other, either way.
LEMMA ConcatNat ==
  \A s1, s2, s3 \in Seq(Nat) : (s1 \o s2) \o s3 = s1 \o (s2 \o s3)
BY ConcatAssociative, SMTT(30)

\* Byte i is passed, and with it the placeholder that is there: r is what is left to do
\* after vars0 was written down.
WalksOn(q, i, vars0, r) ==
  \E next \in (i + 1)..(Len(q) + 1), vars1 \in Seq(Nat) : \E written :
    /\ r = Walked(next, written, vars1)
    /\ vars1 \o Marks(q)[next] = vars0 \o Marks(q)[i]

\* One turn of Rebind: it moves on, and writes down the placeholder that it passes.
LEMMA RebindTurns ==
  ASSUME NEW q \in Query, NEW type, NEW i \in 1..Len(q), NEW query0, NEW vars0 \in Seq(Nat)
  PROVE  WalksOn(q, i, vars0, RebindTurn(type, q, Walked(i, query0, vars0)))
<1> DEFINE e == scanSkipSegment(q, i)
           r == RebindTurn(type, q, Walked(i, query0, vars0))
           Goal == \E next \in (i + 1)..(Len(q) + 1), vars1 \in Seq(Nat) : \E written :
                     /\ r = Walked(next, written, vars1)
                     /\ vars1 \o Marks(q)[next] = vars0 \o Marks(q)[i]
<1>1. /\ i + 1 \in (i + 1)..(Len(q) + 1)
      /\ e > i => e \in (i + 1)..(Len(q) + 1)
      /\ At(q, i + 1) = "?" => i + 2 \in (i + 1)..(Len(q) + 1)
  BY WaysOn
<1>2. ASSUME NEW next \in (i + 1)..(Len(q) + 1), Marks(q)[i] = Marks(q)[next],
             \E w : r = Walked(next, w, vars0)
      PROVE  Goal
  BY <1>2, Zenon
<1>3. /\ e > i => Marks(q)[i] = Marks(q)[e]
      /\ ~(e > i) /\ q[i] # "?" => Marks(q)[i] = Marks(q)[i + 1]
      /\ ~(e > i) /\ q[i] = "?" /\ At(q, i - 1) = "\\" => Marks(q)[i] = Marks(q)[i + 1]
      /\ ~(e > i) /\ q[i] = "?" /\ At(q, i - 1) # "\\" /\ At(q, i + 1) = "?" => Marks(q)[i] = Marks(q)[i + 2]
      /\ ~(e > i) /\ q[i] = "?" /\ At(q, i - 1) # "\\" /\ At(q, i + 1) # "?" =>
           Marks(q)[i] = <<i>> \o Marks(q)[i + 1]
  BY MarksCases
<1>4. /\ e > i => \E w : r = Walked(e, w, vars0)
      /\ ~(e > i) /\ q[i] # "?" => \E w : r = Walked(i + 1, w, vars0)
      /\ ~(e > i) /\ q[i] = "?" /\ At(q, i - 1) = "\\" =>
           \E w : r = Walked(i + 1, w, vars0)
      /\ ~(e > i) /\ q[i] = "?" /\ At(q, i - 1) # "\\" /\ At(q, i + 1) = "?" =>
           \E w : r = Walked(i + 2, w, vars0)
      /\ ~(e > i) /\ q[i] = "?" /\ At(q, i - 1) # "\\" /\ At(q, i + 1) # "?" =>
           \E w : r = Walked(i + 1, w, Append(vars0, i))
  <2>1. e = scanSkipSegment(q, i) /\ r = RebindTurn(type, q, Walked(i, query0, vars0))
    OBVIOUS
  <2> HIDE DEF e, r
  <2> QED
    BY <2>1, RebindWays
<1> HIDE DEF r
<1> SUFFICES Goal
  BY DEF r, WalksOn
<1>5. ASSUME ~(e > i), q[i] = "?", At(q, i - 1) # "\\", At(q, i + 1) # "?" PROVE Goal
  <2>1. /\ i \in Nat /\ Marks(q)[i + 1] \in Seq(Nat) /\ <<i>> \in Seq(Nat)
        /\ i + 1 \in (i + 1)..(Len(q) + 1)
    <3>1. i \in Nat /\ i + 1 \in 1..(Len(q) + 1)
      BY <1>1
    <3> QED
      BY <1>1, <3>1, MarksType
  <2> DEFINE rest == Marks(q)[i + 1]
             more == vars0 \o <<i>>
  <2>2. Marks(q)[i] = <<i>> \o rest
    BY <1>3, <1>5, Zenon
  <2>3. Append(vars0, i) = more
    BY <2>1, AppendIsConcat
  <2>4. more \in Seq(Nat)
    BY <2>1, ConcatProperties
  <2>5. more \o rest = vars0 \o (<<i>> \o rest)
    BY <2>1, ConcatNat, Zenon
  <2>6. PICK w : r = Walked(i + 1, w, more)
    BY <1>4, <1>5, <2>3, Zenon
  <2> HIDE DEF more, rest
  <2>7. more \o rest = vars0 \o Marks(q)[i]
    BY <2>2, <2>5
  <2> QED
    BY <2>1, <2>4, <2>6, <2>7, Zenon DEF rest
<1> HIDE DEF Goal, e
<1> QED
  BY <1>1, <1>2, <1>3, <1>4, <1>5, Zenon

\* The turns of Rebind.
RebindNext(type, q, r) == IF r.pos > Len(q) THEN r ELSE RebindTurn(type, q, r)
RebindStart == [pos |-> 1, query |-> <<>>, vars |-> <<>>]
RebindAfter(type, q) ==
  CHOOSE f : f = [k \in 0..Len(q) |-> IF k = 0 THEN RebindStart ELSE RebindNext(type, q, f[k - 1])]

\* The loop of Rebind is its start and then a turn for every byte that is left.
LEMMA RebindSteps ==
  ASSUME NEW q \in Query, NEW type
  PROVE  /\ RebindLoop(type, q) = RebindAfter(type, q)[Len(q)]
         /\ RebindAfter(type, q)[0] = RebindStart
         /\ \A k \in 1..Len(q) :
              RebindAfter(type, q)[k] = RebindNext(type, q, RebindAfter(type, q)[k - 1])
<1> DEFINE n == Len(q)
           Loop(f, k) == IF k = 0 THEN RebindStart ELSE RebindNext(type, q, f[k - 1])
           after == RebindAfter(type, q)
<1>1. n \in Nat
  BY QueryBytes
<1>2. RebindLoop(type, q) = after[n]
  BY Zenon DEF RebindLoop, RebindAfter, RebindNext, RebindStart
<1>3. \E f : f = [k \in 0..n |-> Loop(f, k)]
  <2> DEFINE S == {m \in Nat : \E f : f = [k \in 0..m |-> Loop(f, k)]}
  <2>1. 0 \in S
    <3> DEFINE f == [k \in 0..0 |-> RebindStart]
    <3>1. f = [k \in 0..0 |-> Loop(f, k)]
      OBVIOUS
    <3> QED
      BY <3>1
  <2>2. ASSUME NEW m \in Nat, m \in S PROVE m + 1 \in S
    <3>1. PICK f : f = [k \in 0..m |-> Loop(f, k)]
      BY <2>2
    <3>2. \A k \in 0..m : f[k] = Loop(f, k)
      BY <3>1
    <3> DEFINE h == [k \in 0..(m + 1) |-> IF k <= m THEN f[k] ELSE Loop(f, k)]
    <3>3. ASSUME NEW k \in 0..(m + 1) PROVE h[k] = Loop(h, k)
      <4>1. k # 0 => h[k - 1] = f[k - 1]
        OBVIOUS
      <4>2. Loop(h, k) = Loop(f, k)
        BY <4>1
      <4> QED
        BY <4>2, <3>2
    <3>4. h = [k \in 0..(m + 1) |-> Loop(h, k)]
      BY <3>3
    <3> HIDE DEF h
    <3>5. \E g : g = [k \in 0..(m + 1) |-> Loop(g, k)]
      BY <3>4
    <3>6. m + 1 \in Nat
      OBVIOUS
    <3> QED
      BY <3>5, <3>6, Zenon
  <2>3. n \in S
    <3> HIDE DEF S
    <3> QED
      BY <1>1, <2>1, <2>2, Upward DEF S
  <2> QED
    BY <2>3
<1>4. after = [k \in 0..n |-> Loop(after, k)]
  BY <1>3 DEF RebindAfter
<1> HIDE DEF after
<1>5. \A k \in 0..n : after[k] = Loop(after, k)
  BY <1>4
<1> QED
  BY <1>1, <1>2, <1>5 DEF after

\* What Rebind writes down are the placeholders of the query.
LEMMA RebindWalk ==
  ASSUME NEW q \in Query, NEW type
  PROVE  RebindLoop(type, q).vars = Marks(q)[1]
<1> DEFINE n == Len(q)
           after == RebindAfter(type, q)
           Walking(k) == \E pos \in 1..(n + 1), vs \in Seq(Nat) : \E written :
                           /\ after[k] = Walked(pos, written, vs)
                           /\ vs \o Marks(q)[pos] = Marks(q)[1]
                           /\ pos > k
           S == {k \in Nat : k <= n => Walking(k)}
<1>1. n \in Nat
  BY QueryBytes
<1>2. 0 \in S
  <2>1. after[0] = Walked(1, <<>>, <<>>)
    BY RebindSteps DEF RebindStart, Walked
  <2>2. <<>> \in Seq(Nat) /\ 1 \in 1..(n + 1) /\ 1 > 0
    BY <1>1
  <2>3. <<>> \o Marks(q)[1] = Marks(q)[1]
    BY <2>2, MarksType, ConcatEmptySeq
  <2>4. Walking(0)
    BY <2>1, <2>2, <2>3, Zenon
  <2> QED
    BY <2>4
<1>3. ASSUME NEW k \in Nat, k \in S PROVE k + 1 \in S
  <2> SUFFICES ASSUME k + 1 <= n PROVE Walking(k + 1)
    <3> HIDE DEF Walking
    <3> QED
      OBVIOUS
  <2>1. Walking(k)
    <3> HIDE DEF Walking
    <3> QED
      BY <1>1, <1>3
  <2>2. PICK pos \in 1..(n + 1), vs \in Seq(Nat) : \E written :
          after[k] = Walked(pos, written, vs) /\ vs \o Marks(q)[pos] = Marks(q)[1] /\ pos > k
    BY <2>1, Zenon
  <2>7. PICK written :
          after[k] = Walked(pos, written, vs) /\ vs \o Marks(q)[pos] = Marks(q)[1] /\ pos > k
    BY <2>2, Zenon
  <2>3. after[k + 1] = RebindNext(type, q, after[k])
    <3>1. k + 1 \in 1..n /\ (k + 1) - 1 = k
      BY <1>1
    <3> HIDE DEF after, n
    <3> QED
      BY <3>1, RebindSteps DEF after, n
  <2>4. after[k].pos = pos
    BY <2>7 DEF Walked
  <2>5. CASE pos > n
    <3>1. after[k + 1] = after[k]
      BY <2>3, <2>4, <2>5 DEF RebindNext
    <3>2. pos > k + 1
      BY <1>1, <2>5
    <3> HIDE DEF after
    <3> QED
      BY <2>7, <3>1, <3>2
  <2>6. CASE ~(pos > n)
    <3>1. after[k + 1] = RebindTurn(type, q, Walked(pos, written, vs))
      BY <2>7, <2>3, <2>4, <2>6, Zenon DEF RebindNext
    <3>2. pos \in 1..n
      BY <1>1, <2>6
    <3>3. PICK next \in (pos + 1)..(n + 1), vs2 \in Seq(Nat) : \E written2 :
            /\ after[k + 1] = Walked(next, written2, vs2)
            /\ vs2 \o Marks(q)[next] = vs \o Marks(q)[pos]
      <4>1. WalksOn(q, pos, vs, RebindTurn(type, q, Walked(pos, written, vs)))
        BY <3>2, RebindTurns
      <4> HIDE DEF after
      <4> QED
        BY <3>1, <4>1, Zenon DEF WalksOn
    <3>4. next \in 1..(n + 1) /\ next > k + 1
      BY <1>1, <2>7, <3>2
    <3> HIDE DEF after
    <3> QED
      BY <2>7, <3>3, <3>4
  <2> QED
    BY <2>5, <2>6
<1>4. Walking(n)
  <2>1. n \in S
    <3> HIDE DEF Walking
    <3>1. S \in SUBSET Nat
      OBVIOUS
    <3> HIDE DEF S
    <3> QED
      BY <1>1, <1>2, <1>3, <3>1, Upward
  <2> QED
    BY <1>1, <2>1
<1>5. PICK pos \in 1..(n + 1), vs \in Seq(Nat) : \E written :
        after[n] = Walked(pos, written, vs) /\ vs \o Marks(q)[pos] = Marks(q)[1] /\ pos > n
  BY <1>4, Zenon
<1>6. pos = n + 1
  BY <1>1, <1>5
<1>7. vs \o <<>> = vs
  BY ConcatEmptySeq
<1>8. vs = Marks(q)[1]
  BY <1>5, <1>6, <1>7, NoMarksAtEnd
<1>9. after[n].vars = vs
  BY <1>5 DEF Walked
<1>10. RebindLoop(type, q) = after[n]
  BY RebindSteps
<1> QED
  BY <1>8, <1>9, <1>10, Zenon

\* The record of the loop of nextPlaceholder.
Sought(pos, paren, idx, inParen) == [pos |-> pos, paren |-> paren, idx |-> idx, inParen |-> inParen]

\* The steps of a turn that finds no placeholder, and of one that does.
Passed(s, next, paren) == [s EXCEPT !.pos = next, !.paren = paren]
Found(s, i, b) == [s EXCEPT !.idx = i, !.inParen = b]

\* What a turn of the search changes.
LEMMA Seeks ==
  \A i, paren, idx, b, next, paren1, idx1, b1 :
    /\ Passed(Sought(i, paren, idx, b), next, paren1) = Sought(next, paren1, idx, b)
    /\ Found(Sought(i, paren, idx, b), idx1, b1) = Sought(i, paren, idx1, b1)
<1> TAKE i, paren, idx, b, next, paren1, idx1, b1
<1>1. [Sought(i, paren, idx, b) EXCEPT !.pos = next] = Sought(next, paren, idx, b)
  BY DEF Sought
<1>2. [Sought(next, paren, idx, b) EXCEPT !.paren = paren1] = Sought(next, paren1, idx, b)
  BY DEF Sought
<1>3. [Sought(i, paren, idx, b) EXCEPT !.idx = idx1] = Sought(i, paren, idx1, b)
  BY DEF Sought
<1>4. [Sought(i, paren, idx1, b) EXCEPT !.inParen = b1] = Sought(i, paren, idx1, b1)
  BY DEF Sought
<1>5. Passed(Sought(i, paren, idx, b), next, paren1) = Sought(next, paren1, idx, b)
  BY <1>1, <1>2, Zenon DEF Passed
<1>6. Found(Sought(i, paren, idx, b), idx1, b1) = Sought(i, paren, idx1, b1)
  BY <1>3, <1>4, Zenon DEF Found
<1> QED
  BY <1>5, <1>6, Zenon

\* The ( that is kept in mind behind byte i, and what makes a placeholder at i an IN list
\* for nextPlaceholder.
KeptParen(q, i, paren) == IF q[i] = "(" THEN i ELSE IF q[i] \in isASCIISpace THEN paren ELSE 0
Judged(q, i, paren) == paren # 0 /\ hasMatchingCloseParen(q, i + 1) /\ precededByIn(q, paren)

\* What a turn of nextPlaceholder is, way by way.
LEMMA PlaceholderWays ==
  ASSUME NEW q \in Query, NEW i, NEW paren, NEW b, NEW e, NEW r
  PROVE  e = scanSkipSegment(q, i) /\ r = PlaceholderTurn(q, Sought(i, paren, 0, b)) =>
         /\ e > i => r = Sought(e, 0, 0, b)
         /\ ~(e > i) /\ q[i] # "?" => r = Sought(i + 1, KeptParen(q, i, paren), 0, b)
         /\ ~(e > i) /\ q[i] = "?" /\ At(q, i - 1) = "\\" => r = Sought(i + 1, 0, 0, b)
         /\ ~(e > i) /\ q[i] = "?" /\ At(q, i - 1) # "\\" /\ At(q, i + 1) = "?" => r = Sought(i + 2, 0, 0, b)
         /\ ~(e > i) /\ q[i] = "?" /\ At(q, i - 1) # "\\" /\ At(q, i + 1) # "?" =>
              r = Sought(i, paren, i, Judged(q, i, paren))
<1> HAVE e = scanSkipSegment(q, i) /\ r = PlaceholderTurn(q, Sought(i, paren, 0, b))
<1> DEFINE s == Sought(i, paren, 0, b)
           kept == KeptParen(q, s.pos, s.paren)
           inList == Judged(q, s.pos, s.paren)
<1>1. r = IF e > s.pos THEN Passed(s, e, 0)
          ELSE IF q[s.pos] # "?" THEN Passed(s, s.pos + 1, kept)
          ELSE IF At(q, s.pos - 1) = "\\" THEN Passed(s, s.pos + 1, 0)
          ELSE IF At(q, s.pos + 1) = "?" THEN Passed(s, s.pos + 2, 0)
          ELSE Found(s, s.pos, inList)
  <2>1. e = scanSkipSegment(q, s.pos) /\ r = PlaceholderTurn(q, s)
    BY DEF Sought
  <2> HIDE DEF s
  <2> QED
    BY <2>1, Zenon DEF PlaceholderTurn, Passed, Found, KeptParen, Judged
<1>2. s.pos = i /\ s.paren = paren
  BY DEF Sought
<1>3. kept = KeptParen(q, i, paren) /\ inList = Judged(q, i, paren)
  BY <1>2, Zenon
<1> HIDE DEF kept, inList
<1>4. /\ Passed(s, e, 0) = Sought(e, 0, 0, b)
      /\ Passed(s, i + 1, kept) = Sought(i + 1, kept, 0, b)
      /\ Passed(s, i + 1, 0) = Sought(i + 1, 0, 0, b)
      /\ Passed(s, i + 2, 0) = Sought(i + 2, 0, 0, b)
      /\ Found(s, i, inList) = Sought(i, paren, i, inList)
  BY Seeks
<1> HIDE DEF s
<1>5. r = IF e > i THEN Passed(s, e, 0)
          ELSE IF q[i] # "?" THEN Passed(s, i + 1, kept)
          ELSE IF At(q, i - 1) = "\\" THEN Passed(s, i + 1, 0)
          ELSE IF At(q, i + 1) = "?" THEN Passed(s, i + 2, 0)
          ELSE Found(s, i, inList)
  BY <1>1, <1>2, Zenon
<1> QED
  BY <1>3, <1>4, <1>5, Zenon

\* Byte i is passed where there is no placeholder, or is the one that was sought.
SeeksOn(q, i, r) ==
  \/ \E next \in (i + 1)..(Len(q) + 1) : \E paren, b :
       r = Sought(next, paren, 0, b) /\ Marks(q)[i] = Marks(q)[next]
  \/ /\ \E paren, b : r = Sought(i, paren, i, b)
     /\ Marks(q)[i] = <<i>> \o Marks(q)[i + 1]

\* One turn of nextPlaceholder: it moves on, or stops at the first placeholder.
LEMMA PlaceholderTurns ==
  ASSUME NEW q \in Query, NEW i \in 1..Len(q), NEW paren, NEW b
  PROVE  SeeksOn(q, i, PlaceholderTurn(q, Sought(i, paren, 0, b)))
<1> DEFINE e == scanSkipSegment(q, i)
           r == PlaceholderTurn(q, Sought(i, paren, 0, b))
<1>1. /\ i + 1 \in (i + 1)..(Len(q) + 1)
      /\ e > i => e \in (i + 1)..(Len(q) + 1)
      /\ At(q, i + 1) = "?" => i + 2 \in (i + 1)..(Len(q) + 1)
  BY WaysOn
<1>2. ASSUME NEW next \in (i + 1)..(Len(q) + 1), Marks(q)[i] = Marks(q)[next],
             \E p : r = Sought(next, p, 0, b)
      PROVE  SeeksOn(q, i, r)
  <2> HIDE DEF r
  <2> QED
    BY <1>2, Zenon DEF SeeksOn
<1>3. /\ e > i => Marks(q)[i] = Marks(q)[e]
      /\ ~(e > i) /\ q[i] # "?" => Marks(q)[i] = Marks(q)[i + 1]
      /\ ~(e > i) /\ q[i] = "?" /\ At(q, i - 1) = "\\" => Marks(q)[i] = Marks(q)[i + 1]
      /\ ~(e > i) /\ q[i] = "?" /\ At(q, i - 1) # "\\" /\ At(q, i + 1) = "?" => Marks(q)[i] = Marks(q)[i + 2]
      /\ ~(e > i) /\ q[i] = "?" /\ At(q, i - 1) # "\\" /\ At(q, i + 1) # "?" =>
           Marks(q)[i] = <<i>> \o Marks(q)[i + 1]
  BY MarksCases
<1>4. /\ e > i => \E p : r = Sought(e, p, 0, b)
      /\ ~(e > i) /\ q[i] # "?" => \E p : r = Sought(i + 1, p, 0, b)
      /\ ~(e > i) /\ q[i] = "?" /\ At(q, i - 1) = "\\" => \E p : r = Sought(i + 1, p, 0, b)
      /\ ~(e > i) /\ q[i] = "?" /\ At(q, i - 1) # "\\" /\ At(q, i + 1) = "?" =>
           \E p : r = Sought(i + 2, p, 0, b)
      /\ ~(e > i) /\ q[i] = "?" /\ At(q, i - 1) # "\\" /\ At(q, i + 1) # "?" =>
           \E b1 : r = Sought(i, paren, i, b1)
  <2>1. e = scanSkipSegment(q, i) /\ r = PlaceholderTurn(q, Sought(i, paren, 0, b))
    OBVIOUS
  <2> HIDE DEF e, r
  <2>2. /\ e > i => r = Sought(e, 0, 0, b)
        /\ ~(e > i) /\ q[i] # "?" => r = Sought(i + 1, KeptParen(q, i, paren), 0, b)
        /\ ~(e > i) /\ q[i] = "?" /\ At(q, i - 1) = "\\" => r = Sought(i + 1, 0, 0, b)
        /\ ~(e > i) /\ q[i] = "?" /\ At(q, i - 1) # "\\" /\ At(q, i + 1) = "?" => r = Sought(i + 2, 0, 0, b)
        /\ ~(e > i) /\ q[i] = "?" /\ At(q, i - 1) # "\\" /\ At(q, i + 1) # "?" =>
             r = Sought(i, paren, i, Judged(q, i, paren))
    BY <2>1, PlaceholderWays
  <2> QED
    BY <2>2, Zenon
<1> HIDE DEF r
<1>5. ASSUME ~(e > i), q[i] = "?", At(q, i - 1) # "\\", At(q, i + 1) # "?" PROVE SeeksOn(q, i, r)
  BY <1>3, <1>4, <1>5, Zenon DEF SeeksOn
<1> HIDE DEF e
<1>6. SeeksOn(q, i, r)
  BY <1>1, <1>2, <1>3, <1>4, <1>5, Zenon
<1> QED
  BY <1>6 DEF r

\* The turns of nextPlaceholder.
SeekNext(q, r) == IF r.idx # 0 \/ r.pos > Len(q) THEN r ELSE PlaceholderTurn(q, r)
SeekStart(start) == [pos |-> start, paren |-> 0, idx |-> 0, inParen |-> FALSE]
SeekAfter(q, start) ==
  CHOOSE f : f = [k \in 0..(Len(q) + 1 - start) |->
                    IF k = 0 THEN SeekStart(start) ELSE SeekNext(q, f[k - 1])]

\* nextPlaceholder is its start and then a turn for every byte that is left.
LEMMA SeekSteps ==
  ASSUME NEW q \in Query, NEW start \in 1..(Len(q) + 1)
  PROVE  /\ nextPlaceholder(q, start) = SeekAfter(q, start)[Len(q) + 1 - start]
         /\ SeekAfter(q, start)[0] = SeekStart(start)
         /\ \A k \in 1..(Len(q) + 1 - start) :
              SeekAfter(q, start)[k] = SeekNext(q, SeekAfter(q, start)[k - 1])
<1> DEFINE n == Len(q) + 1 - start
           Loop(f, k) == IF k = 0 THEN SeekStart(start) ELSE SeekNext(q, f[k - 1])
           after == SeekAfter(q, start)
<1>1. n \in Nat
  BY QueryBytes
<1>2. nextPlaceholder(q, start) = after[n]
  BY Zenon DEF nextPlaceholder, SeekAfter, SeekNext, SeekStart
<1>3. \E f : f = [k \in 0..n |-> Loop(f, k)]
  <2> HIDE DEF n
  <2> DEFINE S == {m \in Nat : \E f : f = [k \in 0..m |-> Loop(f, k)]}
  <2>1. 0 \in S
    <3> DEFINE f == [k \in 0..0 |-> SeekStart(start)]
    <3>1. f = [k \in 0..0 |-> Loop(f, k)]
      OBVIOUS
    <3> QED
      BY <3>1
  <2>2. ASSUME NEW m \in Nat, m \in S PROVE m + 1 \in S
    <3>1. PICK f : f = [k \in 0..m |-> Loop(f, k)]
      BY <2>2
    <3>2. \A k \in 0..m : f[k] = Loop(f, k)
      BY <3>1
    <3> DEFINE h == [k \in 0..(m + 1) |-> IF k <= m THEN f[k] ELSE Loop(f, k)]
    <3>3. ASSUME NEW k \in 0..(m + 1) PROVE h[k] = Loop(h, k)
      <4>1. k # 0 => h[k - 1] = f[k - 1]
        OBVIOUS
      <4>2. Loop(h, k) = Loop(f, k)
        BY <4>1
      <4> QED
        BY <4>2, <3>2
    <3>4. h = [k \in 0..(m + 1) |-> Loop(h, k)]
      BY <3>3
    <3> HIDE DEF h
    <3>5. \E g : g = [k \in 0..(m + 1) |-> Loop(g, k)]
      BY <3>4
    <3>6. m + 1 \in Nat
      OBVIOUS
    <3> QED
      BY <3>5, <3>6, Zenon
  <2>3. n \in S
    <3> HIDE DEF S
    <3> QED
      BY <1>1, <2>1, <2>2, Upward DEF S
  <2> QED
    BY <2>3
<1>4. after = [k \in 0..n |-> Loop(after, k)]
  BY <1>3 DEF SeekAfter
<1> HIDE DEF after
<1>5. \A k \in 0..n : after[k] = Loop(after, k)
  BY <1>4
<1> QED
  BY <1>1, <1>2, <1>5 DEF after

\* What nextPlaceholder has found after k turns: nothing, up to a byte at least k further,
\* or the first of the placeholders.
Seeking(q, start, k, r) ==
  \/ \E pos \in start..(Len(q) + 1) : \E paren, b :
       r = Sought(pos, paren, 0, b) /\ Marks(q)[start] = Marks(q)[pos] /\ pos >= start + k
  \/ \E i \in start..Len(q) : \E paren, b :
       r = Sought(i, paren, i, b) /\ Marks(q)[start] = <<i>> \o Marks(q)[i + 1]

\* One turn of the search keeps what it has found out.
LEMMA SeekTurns ==
  ASSUME NEW q \in Query, NEW start \in 1..(Len(q) + 1), NEW k \in Nat, k + 1 <= Len(q) + 1 - start,
         NEW r, Seeking(q, start, k, r)
  PROVE  Seeking(q, start, k + 1, SeekNext(q, r))
<1>1. Len(q) \in Nat
  BY QueryBytes
<1>2. ASSUME NEW i \in start..Len(q), NEW paren, NEW b,
             r = Sought(i, paren, i, b), Marks(q)[start] = <<i>> \o Marks(q)[i + 1]
      PROVE  Seeking(q, start, k + 1, SeekNext(q, r))
  <2>1. r.idx # 0
    <3>1. r.idx = i
      BY <1>2 DEF Sought
    <3> QED
      BY <3>1
  <2>2. SeekNext(q, r) = r
    BY <2>1 DEF SeekNext
  <2> QED
    BY <1>2, <2>2, Zenon DEF Seeking
<1>3. ASSUME NEW pos \in start..(Len(q) + 1), NEW paren, NEW b,
             r = Sought(pos, paren, 0, b), Marks(q)[start] = Marks(q)[pos], pos >= start + k
      PROVE  Seeking(q, start, k + 1, SeekNext(q, r))
  <2>1. r.idx = 0 /\ r.pos = pos
    BY <1>3 DEF Sought
  <2>2. CASE pos > Len(q)
    <3>1. SeekNext(q, r) = r
      BY <2>1, <2>2 DEF SeekNext
    <3>2. pos >= start + (k + 1)
      BY <1>1, <2>2
    <3> QED
      BY <1>3, <3>1, <3>2, Zenon DEF Seeking
  <2>3. CASE ~(pos > Len(q))
    <3>1. SeekNext(q, r) = PlaceholderTurn(q, Sought(pos, paren, 0, b))
      BY <1>3, <2>1, <2>3, Zenon DEF SeekNext
    <3>2. pos \in 1..Len(q) /\ pos \in start..Len(q)
      BY <1>1, <2>3
    <3>3. SeeksOn(q, pos, SeekNext(q, r))
      BY <3>1, <3>2, PlaceholderTurns
    <3>4. ASSUME NEW next \in (pos + 1)..(Len(q) + 1), NEW paren1, NEW b1,
                 SeekNext(q, r) = Sought(next, paren1, 0, b1), Marks(q)[pos] = Marks(q)[next]
          PROVE  Seeking(q, start, k + 1, SeekNext(q, r))
      <4>1. next \in start..(Len(q) + 1) /\ next >= start + (k + 1)
        BY <1>1, <1>3, <3>2
      <4>2. Marks(q)[start] = Marks(q)[next]
        BY <1>3, <3>4
      <4> QED
        BY <3>4, <4>1, <4>2, Zenon DEF Seeking
    <3>5. ASSUME NEW paren1, NEW b1,
                 SeekNext(q, r) = Sought(pos, paren1, pos, b1), Marks(q)[pos] = <<pos>> \o Marks(q)[pos + 1]
          PROVE  Seeking(q, start, k + 1, SeekNext(q, r))
      <4>1. Marks(q)[start] = <<pos>> \o Marks(q)[pos + 1]
        BY <1>3, <3>5
      <4> QED
        BY <3>2, <3>5, <4>1, Zenon DEF Seeking
    <3> QED
      BY <3>3, <3>4, <3>5, Zenon DEF SeeksOn
  <2> QED
    BY <2>2, <2>3
<1> QED
  BY <1>2, <1>3, Zenon DEF Seeking

\* nextPlaceholder finds the first of the placeholders, or none where there is none.
LEMMA NextIsHead ==
  ASSUME NEW q \in Query, NEW start \in 1..(Len(q) + 1), NEW p, p = nextPlaceholder(q, start)
  PROVE  \/ p.idx = 0 /\ Marks(q)[start] = <<>>
         \/ /\ p.idx \in start..Len(q) /\ p.idx # 0
            /\ Marks(q)[start] = <<p.idx>> \o Marks(q)[p.idx + 1]
<1> DEFINE n == Len(q) + 1 - start
           after == SeekAfter(q, start)
           S == {k \in Nat : k <= n => Seeking(q, start, k, after[k])}
<1>1. Len(q) \in Nat /\ n \in Nat
  BY QueryBytes
<1>2. 0 \in S
  <2>1. after[0] = Sought(start, 0, 0, FALSE)
    BY SeekSteps DEF SeekStart, Sought
  <2>2. start \in start..(Len(q) + 1) /\ start >= start + 0
    BY <1>1
  <2> HIDE DEF after
  <2>3. Seeking(q, start, 0, after[0])
    BY <2>1, <2>2, Zenon DEF Seeking
  <2> QED
    BY <2>3
<1>3. ASSUME NEW k \in Nat, k \in S PROVE k + 1 \in S
  <2>1. ASSUME k + 1 <= n PROVE Seeking(q, start, k + 1, after[k + 1])
    <3>1. k + 1 \in 1..n /\ (k + 1) - 1 = k /\ k <= n
      BY <1>1, <2>1
    <3>2. after[k + 1] = SeekNext(q, after[k])
      BY <3>1, SeekSteps
    <3>3. Seeking(q, start, k, after[k])
      BY <1>3, <3>1
    <3> HIDE DEF after
    <3>4. Seeking(q, start, k + 1, SeekNext(q, after[k]))
      BY <2>1, <3>3, SeekTurns
    <3> QED
      BY <3>2, <3>4
  <2> QED
    BY <2>1
<1>4. Seeking(q, start, n, after[n])
  <2>1. S \in SUBSET Nat
    OBVIOUS
  <2>2. n \in S
    <3> HIDE DEF S
    <3> QED
      BY <1>1, <1>2, <1>3, <2>1, Upward
  <2> QED
    BY <1>1, <2>2
<1>5. p = after[n]
  BY SeekSteps
<1> HIDE DEF after
<1>6. ASSUME NEW pos \in start..(Len(q) + 1), NEW paren, NEW b,
             p = Sought(pos, paren, 0, b), Marks(q)[start] = Marks(q)[pos], pos >= start + n
      PROVE  p.idx = 0 /\ Marks(q)[start] = <<>>
  <2>1. p.idx = 0
    BY <1>6 DEF Sought
  <2>2. pos = Len(q) + 1
    BY <1>1, <1>6
  <2> QED
    BY <1>6, <2>1, <2>2, NoMarksAtEnd
<1>7. ASSUME NEW i \in start..Len(q), NEW paren, NEW b,
             p = Sought(i, paren, i, b), Marks(q)[start] = <<i>> \o Marks(q)[i + 1]
      PROVE  /\ p.idx \in start..Len(q) /\ p.idx # 0
             /\ Marks(q)[start] = <<p.idx>> \o Marks(q)[p.idx + 1]
  <2>1. p.idx = i
    BY <1>7 DEF Sought
  <2>2. i # 0
    OBVIOUS
  <2> QED
    BY <1>7, <2>1, <2>2
<1> HIDE DEF n
<1>8. Seeking(q, start, n, p)
  BY <1>4, <1>5
<1> QED
  BY <1>6, <1>7, <1>8, Zenon DEF Seeking

\* What In sees are the placeholders of the query.
LEMMA InVarsAreMarks ==
  ASSUME NEW q \in Query
  PROVE  InVars(q) = Marks(q)[1]
<1> DEFINE n == Len(q)
           NextFrom(i) == nextPlaceholder(q, i)
           Loop(f, i) == IF NextFrom(i).idx = 0 THEN <<>> ELSE <<NextFrom(i).idx>> \o f[NextFrom(i).idx + 1]
           from == CHOOSE f : f = [i \in 1..(n + 1) |-> Loop(f, i)]
           S == {i \in 1..(n + 1) : \E f : f = [j \in i..(n + 1) |-> Loop(f, j)]}
           T == {i \in 1..(n + 1) : from[i] = Marks(q)[i]}
<1>1. n \in Nat
  BY QueryBytes
<1>2. InVars(q) = from[1]
  BY Zenon DEF InVars
<1>3. ASSUME NEW i \in 1..(n + 1)
      PROVE  \/ NextFrom(i).idx = 0 /\ Marks(q)[i] = <<>>
             \/ /\ NextFrom(i).idx \in i..n /\ NextFrom(i).idx # 0
                /\ Marks(q)[i] = <<NextFrom(i).idx>> \o Marks(q)[NextFrom(i).idx + 1]
  BY NextIsHead
<1> HIDE DEF NextFrom
<1>4. ASSUME NEW i \in 1..(n + 1), NEW f, NEW h, \A j \in (i + 1)..(n + 1) : h[j] = f[j]
      PROVE  Loop(h, i) = Loop(f, i)
  <2>1. CASE NextFrom(i).idx = 0
    BY <2>1
  <2>2. CASE NextFrom(i).idx # 0
    <3>1. NextFrom(i).idx \in i..n
      BY <1>3, <2>2
    <3>2. NextFrom(i).idx + 1 \in (i + 1)..(n + 1)
      BY <1>1, <3>1
    <3>3. h[NextFrom(i).idx + 1] = f[NextFrom(i).idx + 1]
      BY <1>4, <3>2
    <3> QED
      BY <2>2, <3>3
  <2> QED
    BY <2>1, <2>2
<1>5. ASSUME NEW i \in 1..(n + 1), \A j \in (i + 1)..(n + 1) : j \in S PROVE i \in S
  <2>1. PICK f : \A j \in (i + 1)..(n + 1) : f[j] = Loop(f, j)
    <3>1. CASE i = n + 1
      BY <1>1, <3>1
    <3>2. CASE i # n + 1
      <4>1. i + 1 \in S
        <5> HIDE DEF S
        <5>1. i + 1 \in (i + 1)..(n + 1)
          BY <1>1, <3>2
        <5> QED
          BY <1>5, <5>1
      <4>2. PICK g : g = [j \in (i + 1)..(n + 1) |-> Loop(g, j)]
        BY <4>1
      <4>3. \A j \in (i + 1)..(n + 1) : g[j] = Loop(g, j)
        BY <4>2
      <4> QED
        BY <4>3
    <3> QED
      BY <3>1, <3>2
  <2> DEFINE h == [j \in i..(n + 1) |-> IF j = i THEN Loop(f, i) ELSE f[j]]
  <2>2. \A j \in (i + 1)..(n + 1) : h[j] = f[j]
    BY <1>1
  <2>3. ASSUME NEW j \in i..(n + 1) PROVE h[j] = Loop(h, j)
    <3>1. j \in 1..(n + 1) /\ \A k \in (j + 1)..(n + 1) : h[k] = f[k]
      BY <1>1, <2>2
    <3>2. Loop(h, j) = Loop(f, j)
      <4> HIDE DEF h, Loop
      <4> QED
        BY <1>4, <3>1
    <3>3. j # i => f[j] = Loop(f, j)
      BY <1>1, <2>1
    <3> QED
      BY <3>2, <3>3
  <2>4. h = [j \in i..(n + 1) |-> Loop(h, j)]
    BY <2>3
  <2> HIDE DEF h
  <2>5. \E g : g = [j \in i..(n + 1) |-> Loop(g, j)]
    BY <2>4
  <2> QED
    BY <2>5
<1>6. 1 \in S
  <2>1. \A i \in 1..(n + 1) : i \in S
    <3> HIDE DEF S, Loop
    <3> QED
      BY <1>1, <1>5, Downward
  <2>2. 1 \in 1..(n + 1)
    BY <1>1
  <2> QED
    BY <2>1, <2>2
<1>7. from = [i \in 1..(n + 1) |-> Loop(from, i)]
  BY <1>6
<1> HIDE DEF from
<1>8. \A i \in 1..(n + 1) : from[i] = Loop(from, i)
  BY <1>7
<1>9. ASSUME NEW i \in 1..(n + 1), \A j \in (i + 1)..(n + 1) : j \in T PROVE i \in T
  <2>1. CASE NextFrom(i).idx = 0
    BY <1>3, <1>8, <2>1
  <2>2. CASE NextFrom(i).idx # 0
    <3>1. /\ NextFrom(i).idx \in i..n
          /\ Marks(q)[i] = <<NextFrom(i).idx>> \o Marks(q)[NextFrom(i).idx + 1]
      BY <1>3, <2>2
    <3>2. NextFrom(i).idx + 1 \in (i + 1)..(n + 1)
      BY <1>1, <3>1
    <3>3. from[NextFrom(i).idx + 1] = Marks(q)[NextFrom(i).idx + 1]
      BY <1>9, <3>2
    <3>4. from[i] = <<NextFrom(i).idx>> \o from[NextFrom(i).idx + 1]
      BY <1>8, <2>2
    <3> QED
      BY <3>1, <3>3, <3>4
  <2> QED
    BY <2>1, <2>2
<1>10. \A i \in 1..(n + 1) : i \in T
  <2> HIDE DEF T
  <2> QED
    BY <1>1, <1>9, Downward
<1>11. 1 \in 1..(n + 1)
  BY <1>1
<1> QED
  BY <1>2, <1>10, <1>11

\* Rebind and In, each in a loop of its own, see the same placeholders in every
\* query that can be written, whatever its length.
THEOREM PlaceholdersAgree == Spec => []RebindAndInAgree
<1>1. TextInv => RebindAndInAgree
  <2> SUFFICES ASSUME TextInv PROVE RebindVars(Text) = InVars(Text)
    BY DEF RebindAndInAgree
  <2>1. Text \in Query
    BY FlattenType DEF TextInv, Text, Query
  <2>2. RebindVars(Text) = Marks(Text)[1]
    BY <2>1, RebindWalk DEF RebindVars
  <2>3. InVars(Text) = Marks(Text)[1]
    BY <2>1, InVarsAreMarks
  <2> QED
    BY <2>2, <2>3
<1> QED
  BY <1>1, TextIsQuery, PTL

-----------------------------------------------------------------------------
(* What is written into a query does not change how the rest of it reads   *)

\* v reads as u does from byte lo to byte hi, d bytes further on.
Same(u, v, lo, hi, d) ==
  /\ lo >= 1 /\ hi <= Len(u) /\ lo + d >= 1 /\ hi + d <= Len(v)
  /\ \A j \in lo..hi : v[j + d] = u[j]

\* Both end there.
Ends(u, v, hi, d) == hi = Len(u) /\ hi + d = Len(v)

\* What begins at byte i ends the same, when it ends before a ? at hi or hi is the end.
Inside(u, v, hi, d, e) == Ends(u, v, hi, d) \/ (hi <= Len(u) /\ e <= hi)

\* There At finds the same byte, or none, at the end of both.
LEMMA SameAt ==
  ASSUME NEW u \in Query, NEW v \in Query, NEW lo \in Nat, NEW hi \in Nat, NEW d \in Int,
         Same(u, v, lo, hi, d), NEW i \in Int, i >= lo, i <= hi \/ (Ends(u, v, hi, d) /\ i = hi + 1)
  PROVE  At(v, i + d) = At(u, i)
<1>1. Len(u) \in Nat /\ Len(v) \in Nat
  BY QueryBytes
<1>2. CASE i <= hi
  <2>1. i \in 1..Len(u) /\ i + d \in 1..Len(v) /\ i \in lo..hi
    BY <1>1, <1>2 DEF Same
  <2> QED
    BY <2>1, AtValue DEF Same
<1>3. CASE ~(i <= hi)
  <2>1. i \notin 1..Len(u) /\ i + d \notin 1..Len(v)
    BY <1>1, <1>3 DEF Ends
  <2> QED
    BY <2>1, AtValue
<1> QED
  BY <1>2, <1>3

\* AfterFirst, where the pattern is found in the same places.
LEMMA SameAfterFirst ==
  ASSUME NEW u \in Query, NEW v \in Query, NEW hi \in Nat, NEW d \in Int,
         hi <= Len(u), hi + d <= Len(v),
         NEW from \in Nat, from >= 1, from + d \in Nat, from + d >= 1,
         NEW s, Len(s) \in Nat, Len(s) # 0,
         \A j \in Nat : j >= from /\ j + Len(s) - 1 <= hi => (HasAt(v, j + d, s) <=> HasAt(u, j, s)),
         Inside(u, v, hi, d, AfterFirst(u, from, s))
  PROVE  AfterFirst(v, from + d, s) = AfterFirst(u, from, s) + d
<1> DEFINE e == AfterFirst(u, from, s)
           e2 == AfterFirst(v, from + d, s)
           l == Len(s)
<1>1. Len(u) \in Nat /\ Len(v) \in Nat
  BY QueryBytes
<1>2. /\ e \in Nat /\ e <= Len(u) + 1
      /\ e = Len(u) + 1 \/ (e >= from + l /\ HasAt(u, e - l, s))
      /\ \A j \in Nat : j >= from /\ HasAt(u, j, s) => e <= j + l
  BY AfterFirstMeets
<1>3. /\ e2 \in Nat /\ e2 <= Len(v) + 1
      /\ e2 = Len(v) + 1 \/ (e2 >= from + d + l /\ HasAt(v, e2 - l, s))
      /\ \A j \in Nat : j >= from + d /\ HasAt(v, j, s) => e2 <= j + l
  <2> DEFINE from2 == from + d
  <2>1. from2 \in Nat /\ from2 >= 1
    OBVIOUS
  <2> HIDE DEF from2
  <2>2. LET e3 == AfterFirst(v, from2, s) IN
        /\ e3 \in Nat /\ e3 <= Len(v) + 1
        /\ e3 = Len(v) + 1 \/ (e3 >= from2 + l /\ HasAt(v, e3 - l, s))
        /\ \A j \in Nat : j >= from2 /\ HasAt(v, j, s) => e3 <= j + l
    BY <2>1, AfterFirstMeets
  <2> QED
    BY <2>2 DEF from2
<1>4. Ends(u, v, hi, d) \/ e <= hi
  BY DEF Inside
<1> HIDE DEF e, e2
<1>5. e <= hi => e2 <= e + d
  <2> SUFFICES ASSUME e <= hi PROVE e2 <= e + d
    OBVIOUS
  <2> DEFINE j == e - l
  <2>1. e >= from + l /\ HasAt(u, j, s)
    BY <1>1, <1>2
  <2>2. j \in Nat /\ j >= from /\ j + l - 1 <= hi
    BY <1>2, <2>1
  <2>3. HasAt(v, j + d, s)
    BY <2>1, <2>2
  <2>4. j + d \in Nat /\ j + d >= from + d /\ (j + d) + l = e + d
    BY <1>2, <2>2
  <2> HIDE DEF j
  <2>5. e2 <= (j + d) + l
    BY <1>3, <2>3, <2>4
  <2> QED
    BY <2>4, <2>5
<1>6. e2 <= hi + d => e <= e2 - d
  <2> SUFFICES ASSUME e2 <= hi + d PROVE e <= e2 - d
    OBVIOUS
  <2> DEFINE j == e2 - l - d
  <2>1. e2 >= from + d + l /\ HasAt(v, e2 - l, s)
    BY <1>1, <1>3
  <2>2. j \in Nat /\ j >= from /\ j + l - 1 <= hi /\ j + d = e2 - l /\ j + l = e2 - d
    BY <1>3, <2>1
  <2> HIDE DEF j
  <2>3. HasAt(u, j, s)
    BY <2>1, <2>2
  <2>4. e <= j + l
    BY <1>2, <2>2, <2>3
  <2> QED
    BY <2>2, <2>4
<1>7. CASE e <= hi
  <2>1. e2 <= e + d /\ e2 <= hi + d
    BY <1>2, <1>3, <1>5, <1>7
  <2>2. e <= e2 - d
    BY <1>6, <2>1
  <2>3. e2 = e + d
    BY <1>2, <1>3, <2>1, <2>2
  <2> QED
    BY <2>3 DEF e, e2
<1>8. CASE ~(e <= hi)
  <2>1. hi = Len(u) /\ hi + d = Len(v)
    BY <1>4, <1>8 DEF Ends
  <2>2. e = hi + 1
    BY <1>2, <1>8, <2>1
  <2>3. ~(e2 <= hi + d)
    BY <1>6, <2>2, <1>3
  <2>4. e2 = hi + d + 1
    <3>1. e2 \in Nat /\ e2 <= Len(v) + 1
      BY <1>3
    <3> QED
      BY <1>1, <2>1, <2>3, <3>1
  <2> QED
    BY <2>2, <2>4 DEF e, e2
<1> QED
  BY <1>7, <1>8

\* scanDelimited moves on.
LEMMA SameDelimited ==
  ASSUME NEW u \in Query, NEW v \in Query, NEW lo \in Nat, NEW hi \in Nat, NEW d \in Int,
         Same(u, v, lo, hi, d), NEW i \in lo..hi, NEW close, close # NoByte,
         Ends(u, v, hi, d) \/ (u[hi] # close /\ scanDelimited(u, i, close) <= hi)
  PROVE  scanDelimited(v, i + d, close) = scanDelimited(u, i, close) + d
<1>1. Len(u) \in Nat /\ Len(v) \in Nat
  BY QueryBytes
<1>2. lo >= 1 /\ hi <= Len(u) /\ lo + d >= 1 /\ hi + d <= Len(v) /\ \A j \in lo..hi : v[j + d] = u[j]
  BY DEF Same
<1>3. PICK f : /\ \A start : scanDelimited(u, start, close) = f[start + 1]
               /\ \A k \in 1..(Len(u) + 1) : f[k] = DelimitedLoop(u, close, f, k)
  BY DelimitedSteps
<1>4. PICK g : /\ \A start : scanDelimited(v, start, close) = g[start + 1]
               /\ \A k \in 1..(Len(v) + 1) : g[k] = DelimitedLoop(v, close, g, k)
  BY DelimitedSteps
<1> DEFINE End == Ends(u, v, hi, d)
<1> HIDE DEF End
<1>5. \A k \in 1..(Len(u) + 1) : f[k] \in Nat /\ f[k] >= k
  <2> DEFINE S == {k \in 1..(Len(u) + 1) : f[k] \in Nat /\ f[k] >= k}
  <2>1. ASSUME NEW k \in 1..(Len(u) + 1), \A j \in (k + 1)..(Len(u) + 1) : j \in S PROVE k \in S
    <3>1. f[k] = DelimitedLoop(u, close, f, k)
      BY <1>3
    <3>2. k <= Len(u) => k + 1 \in (k + 1)..(Len(u) + 1)
      BY <1>1
    <3>3. k <= Len(u) /\ At(u, k + 1) = close => k + 2 \in (k + 1)..(Len(u) + 1)
      BY <1>1, AtValue
    <3>4. /\ k <= Len(u) => f[k + 1] \in Nat /\ f[k + 1] >= k + 1
          /\ k <= Len(u) /\ At(u, k + 1) = close => f[k + 2] \in Nat /\ f[k + 2] >= k + 2
      BY <2>1, <3>2, <3>3
    <3>5. f[k] \in Nat /\ f[k] >= k
      BY <1>1, <3>1, <3>4 DEF DelimitedLoop
    <3> QED
      BY <3>5
  <2>2. \A k \in 1..(Len(u) + 1) : k \in S
    <3> HIDE DEF S
    <3> QED
      BY <1>1, <2>1, Downward
  <2> QED
    BY <2>2
<1> DEFINE T == {k \in 1..(hi + 1) : k < lo \/ ~(End \/ (u[hi] # close /\ f[k] <= hi)) \/ g[k + d] = f[k] + d}
<1>6. ASSUME NEW k \in 1..(hi + 1), \A j \in (k + 1)..(hi + 1) : j \in T PROVE k \in T
  <2> SUFFICES ASSUME k >= lo, End \/ (u[hi] # close /\ f[k] <= hi) PROVE g[k + d] = f[k] + d
    BY <1>2
  <2>1. /\ k \in 1..(Len(u) + 1) /\ k + d \in 1..(Len(v) + 1)
        /\ f[k] = DelimitedLoop(u, close, f, k) /\ g[k + d] = DelimitedLoop(v, close, g, k + d)
        /\ f[k] >= k
    BY <1>1, <1>2, <1>3, <1>4, <1>5
  <2>2. CASE k = hi + 1
    <3>1. ~(f[k] <= hi)
      BY <1>5, <2>1, <2>2
    <3>2. hi = Len(u) /\ hi + d = Len(v)
      BY <3>1 DEF End, Ends
    <3>3. k > Len(u) /\ k + d > Len(v)
      BY <1>1, <2>2, <3>2
    <3> QED
      BY <2>1, <3>3 DEF DelimitedLoop
  <2>3. CASE k # hi + 1
    <3>1. k \in lo..hi /\ k <= Len(u) /\ k + d <= Len(v) /\ v[k + d] = u[k]
      BY <1>1, <1>2, <2>3
    <3>2. ASSUME NEW j \in (k + 1)..(hi + 1), f[j] = f[k] PROVE g[j + d] = f[k] + d
      <4>1. j \in T /\ ~(j < lo)
        BY <1>6, <3>1, <3>2
      <4> QED
        BY <3>2, <4>1
    <3>3. CASE u[k] # close
      <4>1. f[k] = f[k + 1] /\ g[k + d] = g[k + d + 1]
        BY <1>1, <2>1, <3>1, <3>3 DEF DelimitedLoop
      <4>2. k + 1 \in (k + 1)..(hi + 1) /\ (k + 1) + d = k + d + 1
        BY <3>1
      <4> QED
        BY <3>2, <4>1, <4>2
    <3>4. CASE u[k] = close
      <4>1. k + 1 <= hi \/ (End /\ k + 1 = hi + 1)
        BY <3>1, <3>4
      <4>2. At(v, (k + 1) + d) = At(u, k + 1)
        <5> DEFINE m == k + 1
        <5>1. m \in Int /\ m >= lo /\ (m <= hi \/ (Ends(u, v, hi, d) /\ m = hi + 1))
          BY <3>1, <4>1 DEF End
        <5> HIDE DEF m
        <5>2. At(v, m + d) = At(u, m)
          BY <5>1, SameAt
        <5> QED
          BY <5>2 DEF m
      <4>3. At(v, k + d + 1) = At(u, k + 1)
        BY <3>1, <4>2
      <4>4. CASE At(u, k + 1) = close
        <5>1. k + 1 <= Len(u)
          BY <1>1, <4>4, AtValue
        <5>2. k + 1 <= hi
          BY <4>1, <5>1, <1>1 DEF End, Ends
        <5>3. f[k] = f[k + 2] /\ g[k + d] = g[k + d + 2]
          BY <1>1, <2>1, <3>1, <3>4, <4>3, <4>4 DEF DelimitedLoop
        <5>4. k + 2 \in (k + 1)..(hi + 1) /\ (k + 2) + d = k + d + 2
          BY <3>1, <5>2
        <5> QED
          BY <3>2, <5>3, <5>4
      <4>5. CASE At(u, k + 1) # close
        <5>1. f[k] = k + 1 /\ g[k + d] = k + d + 1
          BY <1>1, <2>1, <3>1, <3>4, <4>3, <4>5 DEF DelimitedLoop
        <5> QED
          BY <3>1, <5>1
      <4> QED
        BY <4>4, <4>5
    <3> QED
      BY <3>3, <3>4
  <2> QED
    BY <2>2, <2>3
<1>7. \A k \in 1..(hi + 1) : k \in T
  <2> HIDE DEF T
  <2> QED
    BY <1>6, Downward
<1>8. i + 1 \in 1..(hi + 1) /\ ~(i + 1 < lo) /\ (i + 1) + d = (i + d) + 1
  BY <1>2
<1>9. scanDelimited(u, i, close) = f[i + 1] /\ scanDelimited(v, i + d, close) = g[(i + d) + 1]
  BY <1>3, <1>4
<1>10. g[(i + 1) + d] = f[i + 1] + d
  BY <1>7, <1>8, <1>9 DEF End
<1> QED
  BY <1>8, <1>9, <1>10

\* The same tag opens.
LEMMA SameTags ==
  ASSUME NEW u \in Query, NEW v \in Query, NEW lo \in Nat, NEW hi \in Nat, NEW d \in Int,
         Same(u, v, lo, hi, d), NEW i \in lo..hi,
         Ends(u, v, hi, d) \/ u[hi] = "?", u[i] = "$"
  PROVE  /\ dollarTags(v, i + d) \subseteq dollarTags(u, i)
         /\ \A t \in dollarTags(u, i) : i + Len(t) <= hi + 1 => t \in dollarTags(v, i + d)
<1>1. Len(u) \in Nat /\ Len(v) \in Nat
  BY QueryBytes
<1>2. lo >= 1 /\ hi <= Len(u) /\ lo + d >= 1 /\ hi + d <= Len(v) /\ \A j \in lo..hi : v[j + d] = u[j]
  BY DEF Same
<1>3. i \in 1..Len(u) /\ i + d \in 1..Len(v)
  BY <1>1, <1>2
<1>4. "?" \notin isDollarTagByte /\ "?" # "$"
  BY DEF isDollarTagByte, isIdentByte, Letter, Digit
<1> DEFINE P(q, m, j) == /\ q[j] = "$"
                         /\ \A l \in (m + 1)..(j - 1) : q[l] \in isDollarTagByte
                         /\ q[m + 1] \notin Digit
<1>5. \A q, m : dollarTags(q, m) = {SubSeq(q, m, j) : j \in {k \in (m + 1)..Len(q) : P(q, m, k)}}
  BY Zenon DEF dollarTags
<1>6. ASSUME NEW j \in (i + 1)..hi
      PROVE  /\ SubSeq(v, i + d, j + d) = SubSeq(u, i, j)
             /\ P(v, i + d, j + d) <=> P(u, i, j)
  <2>1. j \in (i + 1)..Len(u) /\ j + d \in (i + d + 1)..Len(v) /\ j \in lo..hi
    BY <1>1, <1>2
  <2> DEFINE a == i + d
             b == j + d
             t == SubSeq(u, i, j)
             w == SubSeq(v, a, b)
  <2>2. t \in Query /\ Len(t) = j - i + 1 /\ \A k \in 1..Len(t) : t[k] = u[i + k - 1]
    <3> DEFINE k1 == j
    <3>1. t = SubSeq(u, i, k1) /\ i \in 1..Len(u) /\ k1 \in (i + 1)..Len(u) /\ k1 - i + 1 = j - i + 1
      BY <1>3, <2>1
    <3> HIDE DEF t, k1
    <3>2. t \in Query /\ Len(t) = k1 - i + 1 /\ \A k \in 1..Len(t) : t[k] = u[i + k - 1]
      BY <3>1, TagBytes, ZenonT(60)
    <3> QED
      BY <3>1, <3>2
  <2>3. w \in Query /\ Len(w) = j - i + 1 /\ \A k \in 1..Len(w) : w[k] = v[a + k - 1]
    <3>1. a \in 1..Len(v) /\ b \in (a + 1)..Len(v) /\ b - a + 1 = j - i + 1
      BY <1>1, <1>3, <2>1
    <3>2. w = SubSeq(v, a, b)
      OBVIOUS
    <3> HIDE DEF a, b, w
    <3>3. w \in Query /\ Len(w) = b - a + 1 /\ \A k \in 1..Len(w) : w[k] = v[a + k - 1]
      BY <3>1, <3>2, TagBytes, ZenonT(60)
    <3> QED
      BY <3>1, <3>3
  <2> HIDE DEF t, w
  <2>4. ASSUME NEW k \in 1..(j - i + 1) PROVE t[k] = w[k]
    <3>1. i + k - 1 \in lo..hi /\ (i + k - 1) + d = a + k - 1
      BY <1>3, <2>1
    <3>2. v[(i + k - 1) + d] = u[i + k - 1]
      BY <1>2, <3>1
    <3> QED
      BY <2>2, <2>3, <3>1, <3>2
  <2>5. t = w
    BY <2>2, <2>3, <2>4, SeqEqual DEF Query
  <2>6. v[b] = u[j] /\ v[a + 1] = u[i + 1]
    <3>1. i + 1 \in lo..hi /\ (i + 1) + d = a + 1
      BY <1>3, <2>1
    <3> QED
      BY <1>2, <2>1, <3>1
  <2>7. (\A l \in (a + 1)..(b - 1) : v[l] \in isDollarTagByte) <=> (\A l \in (i + 1)..(j - 1) : u[l] \in isDollarTagByte)
    <3>1. ASSUME NEW l \in (a + 1)..(b - 1) PROVE l - d \in (i + 1)..(j - 1) /\ v[l] = u[l - d]
      <4>1. l - d \in lo..hi /\ (l - d) + d = l /\ l - d \in (i + 1)..(j - 1)
        BY <1>3, <2>1
      <4> QED
        BY <1>2, <4>1
    <3>2. ASSUME NEW l \in (i + 1)..(j - 1) PROVE l + d \in (a + 1)..(b - 1) /\ v[l + d] = u[l]
      <4>1. l \in lo..hi /\ l + d \in (a + 1)..(b - 1)
        BY <1>3, <2>1
      <4> QED
        BY <1>2, <4>1
    <3> QED
      BY <3>1, <3>2
  <2> QED
    BY <2>5, <2>6, <2>7 DEF t, w
<1>7. ASSUME NEW t \in dollarTags(v, i + d) PROVE t \in dollarTags(u, i)
  <2>1. PICK b \in (i + d + 1)..Len(v) : P(v, i + d, b) /\ t = SubSeq(v, i + d, b)
    <3> DEFINE a == i + d
    <3>1. dollarTags(v, a) = {SubSeq(v, a, j) : j \in {k \in (a + 1)..Len(v) : P(v, a, k)}}
      BY <1>5
    <3> HIDE DEF P
    <3> QED
      BY <1>7, <3>1
  <2>2. b - d \in (i + 1)..hi
    <3>1. CASE Ends(u, v, hi, d)
      BY <1>1, <1>3, <2>1, <3>1 DEF Ends
    <3>2. CASE u[hi] = "?"
      <4>1. v[hi + d] = "?" /\ i # hi
        BY <1>2, <1>3, <1>4, <3>2
      <4>2. hi + d \in (i + d + 1)..Len(v)
        BY <1>2, <1>3, <4>1
      <4>3. ~(hi + d < b) /\ hi + d # b
        <5>1. hi + d < b => hi + d \in (i + d + 1)..(b - 1)
          BY <2>1, <4>2
        <5> QED
          BY <1>4, <2>1, <4>1, <5>1
      <4> QED
        BY <1>3, <2>1, <4>2, <4>3
    <3> QED
      BY <3>1, <3>2
  <2>3. (b - d) + d = b /\ b - d \in (i + 1)..Len(u)
    BY <1>1, <1>2, <2>1, <2>2
  <2> DEFINE j == b - d
  <2>4. t = SubSeq(u, i, j) /\ P(u, i, j) /\ j \in (i + 1)..Len(u)
    <3>1. j \in (i + 1)..hi /\ j + d = b /\ j \in (i + 1)..Len(u)
      BY <2>2, <2>3
    <3> HIDE DEF j, P
    <3> QED
      BY <1>6, <2>1, <3>1
  <2> HIDE DEF P, j
  <2> QED
    BY <1>5, <2>4
<1>8. ASSUME NEW t \in dollarTags(u, i), i + Len(t) <= hi + 1 PROVE t \in dollarTags(v, i + d)
  <2>1. PICK j \in (i + 1)..Len(u) : P(u, i, j) /\ t = SubSeq(u, i, j)
    <3> HIDE DEF P
    <3> QED
      BY <1>5, <1>8
  <2>2. Len(t) = j - i + 1
    BY <1>3, <2>1, TagBytes
  <2>3. j \in (i + 1)..hi
    BY <1>8, <2>2
  <2> DEFINE a == i + d
             b == j + d
  <2>4. t = SubSeq(v, a, b) /\ P(v, a, b) /\ b \in (a + 1)..Len(v)
    <3>1. b \in (a + 1)..Len(v)
      BY <1>1, <1>2, <1>3, <2>3
    <3> HIDE DEF P
    <3> QED
      BY <1>6, <2>1, <2>3, <3>1
  <2>5. t \in dollarTags(v, a)
    <3> HIDE DEF P, a, b
    <3> QED
      BY <1>5, <2>4
  <2> QED
    BY <2>5
<1> QED
  BY <1>7, <1>8

\* A pattern is found in the same places.
LEMMA SameHasAt ==
  ASSUME NEW u \in Query, NEW v \in Query, NEW lo \in Nat, NEW hi \in Nat, NEW d \in Int,
         Same(u, v, lo, hi, d), NEW S, NEW s \in Seq(S),
         NEW j \in Int, j >= lo, j + Len(s) - 1 <= hi
  PROVE  HasAt(v, j + d, s) <=> HasAt(u, j, s)
<1> DEFINE U == Byte \cup S
           l == Len(s)
           k0 == j + d
<1>1. Len(u) \in Nat /\ Len(v) \in Nat /\ l \in Nat
  BY QueryBytes, LenProperties
<1>2. u \in Seq(U) /\ v \in Seq(U) /\ s \in Seq(U)
  BY SeqMonotonic DEF Query
<1>3. lo >= 1 /\ hi <= Len(u) /\ lo + d >= 1 /\ hi + d <= Len(v) /\ \A m \in lo..hi : v[m + d] = u[m]
  BY DEF Same
<1>4. HasAt(u, j, s) <=> j >= 1 /\ j + Len(s) - 1 <= Len(u) /\ \A k \in 1..Len(s) : u[j + k - 1] = s[k]
  <2> DEFINE j0 == j
  <2>1. j0 \in Int
    OBVIOUS
  <2> HIDE DEF U, j0
  <2>2. HasAt(u, j0, s) <=> j0 >= 1 /\ j0 + Len(s) - 1 <= Len(u) /\ \A k \in 1..Len(s) : u[j0 + k - 1] = s[k]
    BY <1>2, <2>1, HasAtBytes
  <2> QED
    BY <2>2 DEF j0
<1>5. HasAt(v, k0, s) <=> k0 >= 1 /\ k0 + Len(s) - 1 <= Len(v) /\ \A k \in 1..Len(s) : v[k0 + k - 1] = s[k]
  <2>1. k0 \in Int
    OBVIOUS
  <2> HIDE DEF U, k0
  <2> QED
    BY <1>2, <2>1, HasAtBytes
<1>6. ASSUME NEW k \in 1..l PROVE v[k0 + k - 1] = u[j + k - 1]
  <2>1. j + k - 1 \in lo..hi /\ (j + k - 1) + d = k0 + k - 1
    BY <1>1
  <2> QED
    BY <1>3, <2>1
<1>7. j >= 1 /\ j + l - 1 <= Len(u) /\ k0 >= 1 /\ k0 + l - 1 <= Len(v)
  BY <1>1, <1>3
<1> HIDE DEF k0
<1> QED
  BY <1>4, <1>5, <1>6, <1>7 DEF k0

\* What a scanner looks for after the byte it begins at is found in the same place.
LEMMA SameAfter ==
  ASSUME NEW u \in Query, NEW v \in Query, NEW lo \in Nat, NEW hi \in Nat, NEW d \in Int,
         Same(u, v, lo, hi, d), NEW i \in Nat, i >= lo, NEW S, NEW s \in Seq(S), Len(s) # 0,
         Inside(u, v, hi, d, AfterFirst(u, i, s))
  PROVE  AfterFirst(v, i + d, s) = AfterFirst(u, i, s) + d
<1>1. Len(u) \in Nat /\ Len(v) \in Nat /\ Len(s) \in Nat
  BY QueryBytes, LenProperties
<1>2. lo >= 1 /\ hi <= Len(u) /\ lo + d >= 1 /\ hi + d <= Len(v)
  BY DEF Same
<1>3. i >= 1 /\ i + d \in Nat /\ i + d >= 1
  BY <1>2
<1>4. \A j \in Nat : j >= i /\ j + Len(s) - 1 <= hi => (HasAt(v, j + d, s) <=> HasAt(u, j, s))
  <2> TAKE j \in Nat
  <2> HAVE j >= i /\ j + Len(s) - 1 <= hi
  <2>1. j \in Int /\ j >= lo
    BY <1>1
  <2> QED
    BY <2>1, SameHasAt
<1> QED
  BY <1>1, <1>2, <1>3, <1>4, SameAfterFirst

\* scanSkipSegment, scanner by scanner.
LEMMA SegmentWays ==
  ASSUME NEW q \in Query, NEW i \in 1..Len(q)
  PROVE  /\ q[i] \in Quote => scanSkipSegment(q, i) = scanDelimited(q, i, q[i])
         /\ q[i] = "[" => scanSkipSegment(q, i) = scanDelimited(q, i, "]")
         /\ q[i] = "$" /\ dollarTags(q, i) = {} => scanSkipSegment(q, i) = i
         /\ \A t : q[i] = "$" /\ dollarTags(q, i) = {t} =>
              scanSkipSegment(q, i) = AfterFirst(q, i + Len(t), t)
         /\ q[i] = "-" /\ At(q, i + 1) = "-" => scanSkipSegment(q, i) = AfterFirst(q, i + 2, <<"\n">>)
         /\ q[i] = "/" /\ At(q, i + 1) = "*" => scanSkipSegment(q, i) = AfterFirst(q, i + 2, <<"*", "/">>)
         /\ ~ \/ q[i] \in Quote \cup {"[", "$"}
              \/ q[i] = "-" /\ At(q, i + 1) = "-"
              \/ q[i] = "/" /\ At(q, i + 1) = "*"
            => scanSkipSegment(q, i) = i
<1>1. \A c \in Quote : c # "[" /\ c # "-" /\ c # "/" /\ c # "$"
  BY Zenon DEF Quote
<1>2. At(q, i) = q[i]
  BY AtValue
<1>3. \A t : dollarTags(q, i) = {t} => scanDollarQuote(q, i) = AfterFirst(q, i + Len(t), t)
  BY DEF scanDollarQuote
<1>4. dollarTags(q, i) = {} => scanDollarQuote(q, i) = i
  BY DEF scanDollarQuote
<1> QED
  BY <1>1, <1>2, <1>3, <1>4 DEF scanSkipSegment, scanLineComment, scanBlockComment

\* A segment that begins in what v has of u ends the same.
LEMMA SameSegment ==
  ASSUME NEW u \in Query, NEW v \in Query, NEW lo \in Nat, NEW hi \in Nat, NEW d \in Int,
         Same(u, v, lo, hi, d), NEW i \in lo..hi,
         Ends(u, v, hi, d) \/ (u[hi] = "?" /\ scanSkipSegment(u, i) <= hi)
  PROVE  scanSkipSegment(v, i + d) = scanSkipSegment(u, i) + d
<1> DEFINE e == scanSkipSegment(u, i)
           a == i + d
<1>1. Len(u) \in Nat /\ Len(v) \in Nat
  BY QueryBytes
<1>2. lo >= 1 /\ hi <= Len(u) /\ lo + d >= 1 /\ hi + d <= Len(v) /\ \A j \in lo..hi : v[j + d] = u[j]
  BY DEF Same
<1>3. i \in 1..Len(u) /\ a \in 1..Len(v) /\ v[a] = u[i] /\ i \in Nat /\ i >= lo
  BY <1>1, <1>2
<1>4. i = hi => Ends(u, v, hi, d) \/ u[i] = "?"
  OBVIOUS
<1>5. i # hi \/ Ends(u, v, hi, d) => At(v, a + 1) = At(u, i + 1)
  <2> SUFFICES ASSUME i # hi \/ Ends(u, v, hi, d) PROVE At(v, a + 1) = At(u, i + 1)
    OBVIOUS
  <2> DEFINE m == i + 1
  <2>1. m \in Int /\ m >= lo /\ (m <= hi \/ (Ends(u, v, hi, d) /\ m = hi + 1)) /\ m + d = a + 1
    <3>1. i # hi => m <= hi
      OBVIOUS
    <3> QED
      BY <3>1, <1>3
  <2> HIDE DEF m
  <2>2. At(v, m + d) = At(u, m)
    BY <2>1, SameAt
  <2> QED
    BY <2>1, <2>2 DEF m
<1>6. "?" \notin Quote /\ "?" # "[" /\ "?" # "]" /\ "?" # "$" /\ "?" # "-" /\ "?" # "/"
      /\ \A c \in Quote : c # "["
  BY Zenon DEF Quote
<1>7. /\ u[i] \in Quote => e = scanDelimited(u, i, u[i])
      /\ u[i] = "[" => e = scanDelimited(u, i, "]")
      /\ u[i] = "$" /\ dollarTags(u, i) = {} => e = i
      /\ \A t : u[i] = "$" /\ dollarTags(u, i) = {t} => e = AfterFirst(u, i + Len(t), t)
      /\ u[i] = "-" /\ At(u, i + 1) = "-" => e = AfterFirst(u, i + 2, <<"\n">>)
      /\ u[i] = "/" /\ At(u, i + 1) = "*" => e = AfterFirst(u, i + 2, <<"*", "/">>)
      /\ ~ \/ u[i] \in Quote \cup {"[", "$"}
           \/ u[i] = "-" /\ At(u, i + 1) = "-"
           \/ u[i] = "/" /\ At(u, i + 1) = "*"
         => e = i
  BY <1>3, SegmentWays
<1> HIDE DEF e, a
<1>8. /\ v[a] \in Quote => scanSkipSegment(v, a) = scanDelimited(v, a, v[a])
      /\ v[a] = "[" => scanSkipSegment(v, a) = scanDelimited(v, a, "]")
      /\ v[a] = "$" /\ dollarTags(v, a) = {} => scanSkipSegment(v, a) = a
      /\ \A t : v[a] = "$" /\ dollarTags(v, a) = {t} => scanSkipSegment(v, a) = AfterFirst(v, a + Len(t), t)
      /\ v[a] = "-" /\ At(v, a + 1) = "-" => scanSkipSegment(v, a) = AfterFirst(v, a + 2, <<"\n">>)
      /\ v[a] = "/" /\ At(v, a + 1) = "*" => scanSkipSegment(v, a) = AfterFirst(v, a + 2, <<"*", "/">>)
      /\ ~ \/ v[a] \in Quote \cup {"[", "$"}
           \/ v[a] = "-" /\ At(v, a + 1) = "-"
           \/ v[a] = "/" /\ At(v, a + 1) = "*"
         => scanSkipSegment(v, a) = a
  BY <1>3, SegmentWays
<1>9. Inside(u, v, hi, d, e)
  BY <1>2 DEF Inside, e
<1>10. SUFFICES scanSkipSegment(v, a) = e + d
  BY DEF a, e
<1>11. a = i + d
  BY DEF a
<1>12. Ends(u, v, hi, d) \/ (u[hi] = "?" /\ e <= hi)
  BY DEF e
<1>13. ASSUME NEW close, close # NoByte, close # "?", e = scanDelimited(u, i, close)
       PROVE  scanDelimited(v, a, close) = e + d
  <2>1. Ends(u, v, hi, d) \/ (u[hi] # close /\ scanDelimited(u, i, close) <= hi)
    BY <1>12, <1>13
  <2>2. scanDelimited(v, i + d, close) = scanDelimited(u, i, close) + d
    BY <1>13, <2>1, SameDelimited
  <2> QED
    BY <1>11, <1>13, <2>2
<1>14. ASSUME NEW S, NEW s \in Seq(S), Len(s) # 0, NEW k \in Nat, e = AfterFirst(u, i + k, s)
       PROVE  AfterFirst(v, a + k, s) = e + d
  <2> DEFINE m == i + k
  <2>1. m \in Nat /\ m >= lo /\ m + d = a + k
    BY <1>3, <1>11
  <2> HIDE DEF m
  <2>2. Inside(u, v, hi, d, AfterFirst(u, m, s))
    BY <1>9, <1>14 DEF m
  <2>3. AfterFirst(v, m + d, s) = AfterFirst(u, m, s) + d
    BY <1>14, <2>1, <2>2, SameAfter
  <2> QED
    BY <1>14, <2>1, <2>3 DEF m
<1>15. CASE u[i] \in Quote \/ u[i] = "["
  <2>1. \A c \in Quote : c # "[" /\ c # NoByte /\ c # "?"
    BY <1>6, NoByteIsNone
  <2>2. "]" # NoByte
    BY Zenon DEF NoByte
  <2> QED
    BY <1>3, <1>6, <1>7, <1>8, <1>13, <1>15, <2>1, <2>2
<1>16. CASE u[i] = "$"
  <2>1. Ends(u, v, hi, d) \/ u[hi] = "?"
    BY <1>12
  <2>2. /\ dollarTags(v, a) \subseteq dollarTags(u, i)
        /\ \A t \in dollarTags(u, i) : i + Len(t) <= hi + 1 => t \in dollarTags(v, a)
    BY <1>11, <1>16, <2>1, SameTags
  <2>3. CASE dollarTags(u, i) = {}
    <3>1. dollarTags(v, a) = {}
      BY <2>2, <2>3
    <3> QED
      BY <1>3, <1>7, <1>8, <1>11, <1>16, <2>3, <3>1
  <2>4. CASE dollarTags(u, i) # {}
    <3>1. PICK t : t \in dollarTags(u, i)
      BY <2>4
    <3>2. t \in Query /\ Len(t) \in Nat /\ Len(t) >= 2 /\ i + Len(t) <= Len(u) + 1 /\ dollarTags(u, i) = {t}
      BY <1>3, <3>1, OneTag
    <3>3. e = AfterFirst(u, i + Len(t), t)
      BY <1>7, <1>16, <3>2
    <3>4. i + Len(t) <= hi + 1
      <4>1. CASE Ends(u, v, hi, d)
        BY <3>2, <4>1 DEF Ends
      <4>2. CASE e <= hi
        <5> DEFINE m == i + Len(t)
        <5>1. m \in Nat /\ m >= 1
          BY <1>3, <3>2
        <5> HIDE DEF m
        <5>2. e \in Nat /\ (e = Len(u) + 1 \/ e >= m + Len(t))
          BY <3>2, <3>3, <5>1, AfterFirstMeets DEF m
        <5>3. e >= m + Len(t)
          BY <1>1, <1>2, <4>2, <5>2
        <5> QED
          BY <1>3, <3>2, <4>2, <5>2, <5>3 DEF m
      <4> QED
        BY <1>12, <4>1, <4>2
    <3>5. dollarTags(v, a) = {t}
      BY <2>2, <3>2, <3>4
    <3>6. scanSkipSegment(v, a) = AfterFirst(v, a + Len(t), t)
      BY <1>3, <1>8, <1>16, <3>5
    <3>7. AfterFirst(v, a + Len(t), t) = e + d
      <4>1. t \in Seq(Byte) /\ Len(t) # 0
        BY <3>2 DEF Query
      <4> QED
        BY <1>14, <3>2, <3>3, <4>1
    <3> QED
      BY <3>6, <3>7
  <2> QED
    BY <2>3, <2>4
<1>17. CASE u[i] = "-" /\ At(u, i + 1) = "-"
  <2>1. At(v, a + 1) = "-"
    BY <1>4, <1>5, <1>6, <1>17
  <2> DEFINE s == <<"\n">>
  <2>2. s \in Seq({"\n"}) /\ Len(s) # 0
    OBVIOUS
  <2>3. e = AfterFirst(u, i + 2, s) /\ scanSkipSegment(v, a) = AfterFirst(v, a + 2, s)
    BY <1>3, <1>7, <1>8, <1>17, <2>1
  <2> HIDE DEF s
  <2>4. AfterFirst(v, a + 2, s) = e + d
    BY <1>14, <2>2, <2>3
  <2> QED
    BY <2>3, <2>4
<1>18. CASE u[i] = "/" /\ At(u, i + 1) = "*"
  <2>1. At(v, a + 1) = "*"
    BY <1>4, <1>5, <1>6, <1>18
  <2> DEFINE s == <<"*", "/">>
  <2>2. s \in Seq({"*", "/"}) /\ Len(s) # 0
    OBVIOUS
  <2>3. e = AfterFirst(u, i + 2, s) /\ scanSkipSegment(v, a) = AfterFirst(v, a + 2, s)
    BY <1>3, <1>7, <1>8, <1>18, <2>1
  <2> HIDE DEF s
  <2>4. AfterFirst(v, a + 2, s) = e + d
    BY <1>14, <2>2, <2>3
  <2> QED
    BY <2>3, <2>4
<1>19. CASE ~ \/ u[i] \in Quote \cup {"[", "$"}
              \/ u[i] = "-" /\ At(u, i + 1) = "-"
              \/ u[i] = "/" /\ At(u, i + 1) = "*"
  <2>1. ~ \/ v[a] \in Quote \cup {"[", "$"}
          \/ v[a] = "-" /\ At(v, a + 1) = "-"
          \/ v[a] = "/" /\ At(v, a + 1) = "*"
    <3>1. CASE i # hi \/ Ends(u, v, hi, d)
      BY <1>3, <1>5, <1>19, <3>1
    <3>2. CASE u[i] = "?"
      BY <1>3, <1>6, <3>2
    <3> QED
      BY <1>4, <3>1, <3>2
  <2>2. scanSkipSegment(v, a) = a /\ e = i
    BY <1>7, <1>8, <1>19, <2>1
  <2> QED
    BY <1>11, <2>2
<1> QED
  BY <1>15, <1>16, <1>17, <1>18, <1>19

\* From byte i on, the first placeholder is at h.
FirstMark(q, i, h) == \E rest \in Seq(Nat) : Marks(q)[i] = <<h>> \o rest

\* A list that begins with i begins with nothing else.
LEMMA HeadOf ==
  ASSUME NEW i \in Nat, NEW rest \in Seq(Nat)
  PROVE  /\ <<i>> \o rest # <<>>
         /\ \A h \in Nat, other \in Seq(Nat) : <<i>> \o rest = <<h>> \o other => h = i
<1>1. \A m \in Nat : <<m>> \in Seq(Nat) /\ Len(<<m>>) = 1 /\ <<m>>[1] = m
  OBVIOUS
<1>2. ASSUME NEW m \in Nat, NEW s \in Seq(Nat)
      PROVE  Len(<<m>> \o s) = 1 + Len(s) /\ (<<m>> \o s)[1] = m /\ Len(s) \in Nat
  <2> DEFINE w == <<m>>
  <2>1. w \in Seq(Nat) /\ Len(w) = 1 /\ w[1] = m
    BY <1>1
  <2> HIDE DEF w
  <2>2. Len(w \o s) = Len(w) + Len(s) /\ Len(s) \in Nat
    BY <2>1, ConcatProperties, LenProperties
  <2>3. 1 \in 1..Len(w \o s)
    BY <2>1, <2>2
  <2>4. (w \o s)[1] = w[1]
    BY <2>1, <2>2, <2>3, ConcatProperties
  <2> QED
    BY <2>1, <2>2, <2>4 DEF w
<1>3. <<i>> \o rest # <<>>
  BY <1>2
<1>4. ASSUME NEW h \in Nat, NEW other \in Seq(Nat), <<i>> \o rest = <<h>> \o other PROVE h = i
  BY <1>2, <1>4
<1> QED
  BY <1>3, <1>4

\* The first placeholder from a byte on is that byte or after it, and a ? that no
\* other one follows.
LEMMA MarksHead ==
  ASSUME NEW q \in Query, NEW i \in 1..(Len(q) + 1), NEW h \in Nat, FirstMark(q, i, h)
  PROVE  h \in i..Len(q) /\ q[h] = "?" /\ At(q, h + 1) # "?"
<1> DEFINE n == Len(q)
           S == {j \in 1..(n + 1) : FirstMark(q, j, h) => h \in j..n /\ q[h] = "?" /\ At(q, h + 1) # "?"}
<1>1. n \in Nat
  BY QueryBytes
<1>2. ASSUME NEW j \in 1..(n + 1), \A k \in (j + 1)..(n + 1) : k \in S PROVE j \in S
  <2> SUFFICES ASSUME FirstMark(q, j, h) PROVE h \in j..n /\ q[h] = "?" /\ At(q, h + 1) # "?"
    OBVIOUS
  <2>1. PICK rest \in Seq(Nat) : Marks(q)[j] = <<h>> \o rest
    BY DEF FirstMark
  <2>2. j # n + 1
    <3>1. <<h>> \o rest # <<>>
      BY HeadOf
    <3> QED
      BY <2>1, <3>1, NoMarksAtEnd
  <2>3. j \in 1..n
    BY <1>1, <2>2
  <2> DEFINE e == scanSkipSegment(q, j)
  <2>4. ASSUME NEW k \in (j + 1)..(n + 1), Marks(q)[j] = Marks(q)[k] PROVE h \in j..n /\ q[h] = "?" /\ At(q, h + 1) # "?"
    <3>1. FirstMark(q, k, h)
      BY <2>1, <2>4 DEF FirstMark
    <3>2. k \in S
      BY <1>2
    <3> QED
      BY <2>3, <3>1, <3>2
  <2>5. ASSUME q[j] = "?", At(q, j + 1) # "?", Marks(q)[j] = <<j>> \o Marks(q)[j + 1] PROVE h \in j..n /\ q[h] = "?" /\ At(q, h + 1) # "?"
    <3>1. j \in Nat /\ j + 1 \in 1..(n + 1)
      BY <2>3
    <3>2. Marks(q)[j + 1] \in Seq(Nat)
      BY <3>1, MarksType
    <3>3. h = j
      BY <2>1, <2>5, <3>1, <3>2, HeadOf
    <3> QED
      BY <2>3, <2>5, <3>3
  <2>6. /\ j + 1 \in (j + 1)..(n + 1)
        /\ e > j => e \in (j + 1)..(n + 1)
        /\ At(q, j + 1) = "?" => j + 2 \in (j + 1)..(n + 1)
    BY <2>3, WaysOn
  <2>7. \/ e > j /\ Marks(q)[j] = Marks(q)[e]
        \/ Marks(q)[j] = Marks(q)[j + 1]
        \/ At(q, j + 1) = "?" /\ Marks(q)[j] = Marks(q)[j + 2]
        \/ q[j] = "?" /\ At(q, j + 1) # "?" /\ Marks(q)[j] = <<j>> \o Marks(q)[j + 1]
    BY <2>3, MarksCases, Zenon
  <2> HIDE DEF e
  <2> QED
    BY <2>4, <2>5, <2>6, <2>7
<1>3. \A j \in 1..(n + 1) : j \in S
  <2> HIDE DEF S
  <2> QED
    BY <1>1, <1>2, Downward
<1> QED
  BY <1>3

\* Nothing before lo makes a ? at lo an escaped one.
NoEscape(u, v, lo, d) == At(u, lo - 1) # "\\" /\ At(v, lo + d - 1) # "\\"

\* What is left to read from byte i on, up to a first placeholder or the end.
UpTo(u, v, hi, d, i) == (Ends(u, v, hi, d) /\ Marks(u)[i] = <<>>) \/ FirstMark(u, i, hi)

\* Byte i is passed in both queries, or is the placeholder in both.
LEMMA SameWay ==
  ASSUME NEW u \in Query, NEW v \in Query, NEW lo \in Nat, NEW hi \in Nat, NEW d \in Int,
         Same(u, v, lo, hi, d), NoEscape(u, v, lo, d), NEW i \in lo..hi, UpTo(u, v, hi, d, i)
  PROVE  \/ \E j \in (i + 1)..(hi + 1) : Marks(u)[i] = Marks(u)[j] /\ Marks(v)[i + d] = Marks(v)[j + d]
         \/ /\ i = hi /\ FirstMark(u, i, hi)
            /\ At(v, i + d + 1) # "?" => Marks(v)[i + d] = <<i + d>> \o Marks(v)[i + d + 1]
<1> DEFINE e == scanSkipSegment(u, i)
           a == i + d
           f == scanSkipSegment(v, a)
           Goal == \/ \E j \in (i + 1)..(hi + 1) : Marks(u)[i] = Marks(u)[j] /\ Marks(v)[a] = Marks(v)[j + d]
                   \/ /\ i = hi /\ FirstMark(u, i, hi)
                      /\ At(v, a + 1) # "?" => Marks(v)[a] = <<a>> \o Marks(v)[a + 1]
<1>1. Len(u) \in Nat /\ Len(v) \in Nat
  BY QueryBytes
<1>2. lo >= 1 /\ hi <= Len(u) /\ lo + d >= 1 /\ hi + d <= Len(v) /\ \A j \in lo..hi : v[j + d] = u[j]
  BY DEF Same
<1>3. i \in 1..Len(u) /\ a \in 1..Len(v) /\ v[a] = u[i] /\ i \in Nat
  BY <1>1, <1>2
<1>4. /\ i + 1 \in (i + 1)..(Len(u) + 1)
      /\ e \in i..(Len(u) + 1)
      /\ e > i => e \in (i + 1)..(Len(u) + 1)
      /\ At(u, i + 1) = "?" => i + 2 \in (i + 1)..(Len(u) + 1)
  BY <1>3, WaysOn
\* What comes next, with its first placeholder.
<1>5. ASSUME NEW j \in (i + 1)..(Len(u) + 1), Marks(u)[i] = Marks(u)[j]
      PROVE  j <= hi + 1 /\ (j <= hi \/ Ends(u, v, hi, d))
  <2>1. CASE Ends(u, v, hi, d)
    BY <1>1, <2>1 DEF Ends
  <2>2. CASE FirstMark(u, i, hi)
    <3>1. FirstMark(u, j, hi)
      BY <1>5, <2>2 DEF FirstMark
    <3>2. j \in 1..(Len(u) + 1)
      BY <1>3
    <3>3. hi \in j..Len(u)
      BY <3>1, <3>2, MarksHead
    <3> QED
      BY <3>3
  <2> QED
    BY <2>1, <2>2 DEF UpTo
<1>6. Ends(u, v, hi, d) \/ u[hi] = "?"
  <2>1. FirstMark(u, i, hi) => u[hi] = "?"
    BY <1>3, MarksHead
  <2> QED
    BY <2>1 DEF UpTo
<1>7. /\ e > i => Marks(u)[i] = Marks(u)[e]
      /\ ~(e > i) /\ u[i] # "?" => Marks(u)[i] = Marks(u)[i + 1]
      /\ ~(e > i) /\ u[i] = "?" /\ At(u, i - 1) = "\\" => Marks(u)[i] = Marks(u)[i + 1]
      /\ ~(e > i) /\ u[i] = "?" /\ At(u, i - 1) # "\\" /\ At(u, i + 1) = "?" => Marks(u)[i] = Marks(u)[i + 2]
      /\ ~(e > i) /\ u[i] = "?" /\ At(u, i - 1) # "\\" /\ At(u, i + 1) # "?" =>
           Marks(u)[i] = <<i>> \o Marks(u)[i + 1]
  BY <1>3, MarksCases
<1> HIDE DEF a
<1>8. /\ f > a => Marks(v)[a] = Marks(v)[f]
      /\ ~(f > a) /\ v[a] # "?" => Marks(v)[a] = Marks(v)[a + 1]
      /\ ~(f > a) /\ v[a] = "?" /\ At(v, a - 1) = "\\" => Marks(v)[a] = Marks(v)[a + 1]
      /\ ~(f > a) /\ v[a] = "?" /\ At(v, a - 1) # "\\" /\ At(v, a + 1) = "?" => Marks(v)[a] = Marks(v)[a + 2]
      /\ ~(f > a) /\ v[a] = "?" /\ At(v, a - 1) # "\\" /\ At(v, a + 1) # "?" =>
           Marks(v)[a] = <<a>> \o Marks(v)[a + 1]
  BY <1>3, MarksCases
<1> SUFFICES Goal
  BY DEF a
<1>9. a = i + d
  BY DEF a
<1>10. f = e + d
  <2>1. e > i => e <= hi \/ Ends(u, v, hi, d)
    BY <1>4, <1>5, <1>7
  <2>2. ~(e > i) => e <= hi
    BY <1>4
  <2>3. Ends(u, v, hi, d) \/ (u[hi] = "?" /\ e <= hi)
    BY <1>6, <2>1, <2>2
  <2>4. scanSkipSegment(v, i + d) = e + d
    BY <2>3, SameSegment
  <2> QED
    BY <1>9, <2>4
<1> HIDE DEF e, f
<1>11. At(u, i - 1) = "\\" <=> At(v, a - 1) = "\\"
  <2>1. CASE i = lo
    BY <1>9, <2>1 DEF NoEscape
  <2>2. CASE i # lo
    <3>1. i - 1 \in lo..hi /\ (i - 1) + d = a - 1 /\ i - 1 \in 1..Len(u) /\ a - 1 \in 1..Len(v)
      BY <1>2, <1>3, <1>9, <2>2
    <3>2. v[a - 1] = u[i - 1]
      BY <1>2, <3>1
    <3> QED
      BY <3>1, <3>2, AtValue
  <2> QED
    BY <2>1, <2>2
<1>12. i # hi \/ Ends(u, v, hi, d) => At(v, a + 1) = At(u, i + 1)
  <2> SUFFICES ASSUME i # hi \/ Ends(u, v, hi, d) PROVE At(v, a + 1) = At(u, i + 1)
    OBVIOUS
  <2> DEFINE m == i + 1
  <2>1. m \in Int /\ m >= lo /\ (m <= hi \/ (Ends(u, v, hi, d) /\ m = hi + 1)) /\ m + d = a + 1
    <3>1. i # hi => m <= hi
      OBVIOUS
    <3> QED
      BY <1>9, <3>1, <1>3
  <2> HIDE DEF m
  <2>2. At(v, m + d) = At(u, m)
    BY <2>1, SameAt
  <2> QED
    BY <2>1, <2>2 DEF m
<1>13. ASSUME NEW j \in (i + 1)..(Len(u) + 1), Marks(u)[i] = Marks(u)[j], Marks(v)[a] = Marks(v)[j + d]
       PROVE  Goal
  <2>1. j \in (i + 1)..(hi + 1)
    BY <1>5, <1>13
  <2> QED
    BY <1>13, <2>1
<1>14. CASE e > i
  BY <1>3, <1>4, <1>7, <1>8, <1>9, <1>10, <1>13, <1>14
<1>15. CASE ~(e > i)
  <2>1. e = i /\ f = a
    BY <1>3, <1>4, <1>9, <1>10, <1>15
  <2>2. ~(f > a) /\ (i + 1) + d = a + 1 /\ (i + 2) + d = a + 2
    BY <1>3, <1>9, <2>1
  <2>3. CASE u[i] # "?" \/ At(u, i - 1) = "\\"
    <3>1. Marks(u)[i] = Marks(u)[i + 1]
      BY <1>7, <1>15, <2>3
    <3>2. Marks(v)[a] = Marks(v)[a + 1]
      BY <1>3, <1>8, <1>11, <2>2, <2>3
    <3> QED
      BY <1>4, <1>13, <2>2, <3>1, <3>2
  <2>4. CASE u[i] = "?" /\ At(u, i - 1) # "\\" /\ At(u, i + 1) = "?"
    <3>1. Marks(u)[i] = Marks(u)[i + 2]
      BY <1>7, <1>15, <2>4
    <3>2. i # hi \/ Ends(u, v, hi, d)
      BY <1>3, <1>4, <1>5, <2>4, <3>1
    <3>3. Marks(v)[a] = Marks(v)[a + 2]
      BY <1>3, <1>8, <1>11, <1>12, <2>2, <2>4, <3>2
    <3> QED
      BY <1>4, <1>13, <2>2, <2>4, <3>1, <3>3
  <2>5. CASE u[i] = "?" /\ At(u, i - 1) # "\\" /\ At(u, i + 1) # "?"
    <3>1. Marks(u)[i] = <<i>> \o Marks(u)[i + 1] /\ Marks(u)[i + 1] \in Seq(Nat)
      <4>1. i + 1 \in 1..(Len(u) + 1)
        BY <1>3
      <4> QED
        BY <1>7, <1>15, <2>5, <4>1, MarksType
    <3>2. FirstMark(u, i, hi)
      BY <1>3, <3>1, HeadOf DEF UpTo
    <3>3. i = hi
      BY <1>3, <3>1, <3>2, HeadOf DEF FirstMark
    <3>4. At(v, a + 1) # "?" => Marks(v)[a] = <<a>> \o Marks(v)[a + 1]
      BY <1>3, <1>8, <1>11, <2>2, <2>5
    <3> QED
      BY <3>2, <3>3, <3>4
  <2> QED
    BY <2>3, <2>4, <2>5
<1> QED
  BY <1>14, <1>15

\* From byte lo on, v has the placeholders that u has, up to the first or to the end.
MarksOn(u, v, lo, hi, d) ==
  /\ Ends(u, v, hi, d) /\ Marks(u)[lo] = <<>> => Marks(v)[lo + d] = <<>>
  /\ FirstMark(u, lo, hi) /\ At(v, hi + d + 1) # "?" =>
       Marks(v)[lo + d] = <<hi + d>> \o Marks(v)[hi + d + 1]

\* What reads the same, and is not escaped in one of them alone, has the same placeholders:
\* by induction over the bytes.
LEMMA SameMarks ==
  ASSUME NEW u \in Query, NEW v \in Query, NEW lo \in Nat, NEW hi \in Nat, NEW d \in Int,
         Same(u, v, lo, hi, d), NoEscape(u, v, lo, d), lo <= hi + 1
  PROVE  MarksOn(u, v, lo, hi, d)
<1> DEFINE T == {i \in 1..(hi + 1) : i < lo \/
                   /\ Ends(u, v, hi, d) /\ Marks(u)[i] = <<>> => Marks(v)[i + d] = <<>>
                   /\ FirstMark(u, i, hi) /\ At(v, hi + d + 1) # "?" =>
                        Marks(v)[i + d] = <<hi + d>> \o Marks(v)[hi + d + 1]}
<1>1. Len(u) \in Nat /\ Len(v) \in Nat
  BY QueryBytes
<1>2. lo >= 1 /\ hi <= Len(u)
  BY DEF Same
<1>3. ASSUME NEW i \in 1..(hi + 1), \A j \in (i + 1)..(hi + 1) : j \in T PROVE i \in T
  <2> SUFFICES ASSUME i >= lo
               PROVE  /\ Ends(u, v, hi, d) /\ Marks(u)[i] = <<>> => Marks(v)[i + d] = <<>>
                      /\ FirstMark(u, i, hi) /\ At(v, hi + d + 1) # "?" =>
                           Marks(v)[i + d] = <<hi + d>> \o Marks(v)[hi + d + 1]
    OBVIOUS
  <2>1. CASE i = hi + 1
    <3>1. ~FirstMark(u, i, hi)
      <4>1. i \in 1..(Len(u) + 1) /\ ~(hi \in i..Len(u))
        BY <1>1, <1>2, <2>1
      <4> QED
        BY <4>1, MarksHead
    <3>2. Ends(u, v, hi, d) => i + d = Len(v) + 1
      BY <2>1 DEF Ends
    <3> QED
      BY <3>1, <3>2, NoMarksAtEnd
  <2>2. CASE i # hi + 1
    <3>1. i \in lo..hi
      BY <1>2, <2>2
    <3>2. SUFFICES ASSUME UpTo(u, v, hi, d, i)
                   PROVE  /\ Ends(u, v, hi, d) /\ Marks(u)[i] = <<>> => Marks(v)[i + d] = <<>>
                          /\ FirstMark(u, i, hi) /\ At(v, hi + d + 1) # "?" =>
                               Marks(v)[i + d] = <<hi + d>> \o Marks(v)[hi + d + 1]
      BY DEF UpTo
    <3>3. \/ \E j \in (i + 1)..(hi + 1) : Marks(u)[i] = Marks(u)[j] /\ Marks(v)[i + d] = Marks(v)[j + d]
          \/ /\ i = hi /\ FirstMark(u, i, hi)
             /\ At(v, i + d + 1) # "?" => Marks(v)[i + d] = <<i + d>> \o Marks(v)[i + d + 1]
      BY <3>1, <3>2, SameWay
    <3>4. ASSUME NEW j \in (i + 1)..(hi + 1), Marks(u)[i] = Marks(u)[j], Marks(v)[i + d] = Marks(v)[j + d]
          PROVE  /\ Ends(u, v, hi, d) /\ Marks(u)[i] = <<>> => Marks(v)[i + d] = <<>>
                 /\ FirstMark(u, i, hi) /\ At(v, hi + d + 1) # "?" =>
                      Marks(v)[i + d] = <<hi + d>> \o Marks(v)[hi + d + 1]
      <4>1. j \in T /\ ~(j < lo)
        BY <1>3, <3>1, <3>4
      <4>2. FirstMark(u, i, hi) => FirstMark(u, j, hi)
        BY <3>4 DEF FirstMark
      <4> QED
        BY <3>4, <4>1, <4>2
    <3>5. CASE i = hi /\ FirstMark(u, i, hi)
               /\ (At(v, i + d + 1) # "?" => Marks(v)[i + d] = <<i + d>> \o Marks(v)[i + d + 1])
      <4>1. Marks(u)[i] # <<>>
        BY <3>5, HeadOf DEF FirstMark
      <4> QED
        BY <3>5, <4>1
    <3> QED
      BY <3>3, <3>4, <3>5
  <2> QED
    BY <2>1, <2>2
<1>4. \A i \in 1..(hi + 1) : i \in T
  <2> HIDE DEF T
  <2> QED
    BY <1>3, Downward
<1>5. lo \in T /\ ~(lo < lo)
  BY <1>2, <1>4
<1> QED
  BY <1>5 DEF MarksOn

\* The bytes of a query that is written after another.
LEMMA ConcatBytes ==
  ASSUME NEW x \in Query, NEW y \in Query
  PROVE  /\ x \o y \in Query
         /\ Len(x \o y) = Len(x) + Len(y)
         /\ \A i \in 1..Len(x) : (x \o y)[i] = x[i]
         /\ \A i \in 1..Len(y) : (x \o y)[Len(x) + i] = y[i]
         /\ At(x \o y, Len(x) + 1) = At(y, 1)
<1> DEFINE z == x \o y
<1>1. Len(x) \in Nat /\ Len(y) \in Nat
  BY QueryBytes
<1>2. /\ z \in Query /\ Len(z) = Len(x) + Len(y)
      /\ \A i \in 1..Len(z) : z[i] = IF i <= Len(x) THEN x[i] ELSE y[i - Len(x)]
  BY ConcatProperties DEF Query
<1> HIDE DEF z
<1>3. \A i \in 1..Len(x) : z[i] = x[i]
  BY <1>1, <1>2
<1>4. ASSUME NEW i \in 1..Len(y) PROVE z[Len(x) + i] = y[i]
  <2>1. Len(x) + i \in 1..Len(z) /\ ~(Len(x) + i <= Len(x)) /\ (Len(x) + i) - Len(x) = i
    BY <1>1, <1>2
  <2> QED
    BY <1>2, <2>1
<1>5. At(z, Len(x) + 1) = At(y, 1)
  <2>1. Len(x) + 1 \in 1..Len(z) <=> 1 \in 1..Len(y)
    BY <1>1, <1>2
  <2> QED
    BY <1>4, <2>1, AtValue
<1> QED
  BY <1>2, <1>3, <1>4, <1>5 DEF z

\* Three texts one after the other, either way.
LEMMA ConcatQuery ==
  \A x, y, z \in Query : (x \o y) \o z = x \o (y \o z)
BY ConcatAssociative DEF Query

\* A part of a query, byte by byte.
LEMMA SubSeqBytes ==
  ASSUME NEW q \in Query, NEW i \in 1..(Len(q) + 1), NEW j \in Nat, j <= Len(q), i <= j + 1
  PROVE  /\ SubSeq(q, i, j) \in Query
         /\ Len(SubSeq(q, i, j)) = j - i + 1
         /\ \A k \in 1..(j - i + 1) : SubSeq(q, i, j)[k] = q[i + k - 1]
<1>1. \A k \in i..j : q[k] \in Byte
  BY QueryBytes
<1>2. i \in Int /\ j \in Int /\ Len(q) \in Nat
  BY QueryBytes
<1>3. /\ SubSeq(q, i, j) \in Seq(Byte)
      /\ Len(SubSeq(q, i, j)) = IF i <= j THEN j - i + 1 ELSE 0
      /\ \A k \in 1..(j - i + 1) : SubSeq(q, i, j)[k] = q[i + k - 1]
  BY <1>1, <1>2, SubSeqProperties
<1>4. (IF i <= j THEN j - i + 1 ELSE 0) = j - i + 1
  BY <1>2
<1> QED
  BY <1>3, <1>4 DEF Query

-----------------------------------------------------------------------------
(* What In has written holds its placeholders, whatever follows it         *)

\* t may follow w: the placeholder at the end of w stays one.
FollowedBy(w, t) == w = <<>> \/ At(t, 1) # "?"

\* w, which is empty or ends in a placeholder, holds c of them, whatever follows it.
Counts(w, c) ==
  /\ w \in Query /\ c \in Nat
  /\ w = <<>> \/ (Len(w) # 0 /\ w[Len(w)] = "?")
  /\ \A t \in Query : FollowedBy(w, t) =>
       Len(Marks(w \o t)[1]) = c + Len(Marks(w \o t)[Len(w) + 1])

\* The query q goes on at byte pos where w ends.
GoesOn(q, pos, w) ==
  /\ pos \in 1..(Len(q) + 1)
  /\ (w = <<>> /\ pos = 1) \/ (w # <<>> /\ pos # 1 /\ q[pos - 1] # "\\" /\ At(q, pos) # "?")

\* Nothing holds no placeholder.
LEMMA CountsNone == Counts(<<>>, 0)
<1>1. <<>> \in Query
  BY DEF Query
<1>2. ASSUME NEW t \in Query PROVE Len(Marks(<<>> \o t)[1]) = 0 + Len(Marks(<<>> \o t)[Len(<<>>) + 1])
  <2>1. Len(<<>>) + 1 = 1
    OBVIOUS
  <2>2. <<>> \o t = t
    BY ConcatEmptySeq DEF Query
  <2>3. 1 \in 1..(Len(t) + 1)
    BY QueryBytes
  <2>4. Marks(t)[1] \in Seq(Nat)
    BY <2>3, MarksType
  <2>5. Len(Marks(t)[1]) \in Nat
    BY <2>4, LenProperties
  <2> QED
    BY <2>1, <2>2, <2>5
<1> QED
  BY <1>1, <1>2 DEF Counts

\* The bytes of q from pos to hi.
Part(q, pos, hi) == SubSeq(q, pos, hi)

\* With s written after w and t after that, s reads as the bytes of q from pos to hi.
ReadsOn(q, pos, hi, w, s, t, d, v) ==
  /\ s \in Query /\ s \o t \in Query /\ v \in Query /\ v = w \o (s \o t) /\ (w \o s) \o t = v
  /\ w \o s \in Query /\ Len(w \o s) = hi + d /\ Len(v) = hi + d + Len(t)
  /\ Same(q, v, pos, hi, d) /\ NoEscape(q, v, pos, d) /\ At(v, hi + d + 1) = At(t, 1)
  /\ d \in Int /\ pos + d = Len(w) + 1

\* The part s of q from pos to hi is copied to the end of w.
LEMMA CopyReads ==
  ASSUME NEW q \in Query, NEW pos, NEW w, NEW c, Counts(w, c), GoesOn(q, pos, w),
         NEW hi \in Nat, hi <= Len(q), pos <= hi + 1,
         NEW s, s = Part(q, pos, hi), NEW t \in Query
  PROVE  \E d, v : ReadsOn(q, pos, hi, w, s, t, d, v)
<1> DEFINE v == w \o (s \o t)
           d == Len(w) - pos + 1
           n == Len(q)
           x == s \o t
<1>1. /\ w \in Query /\ Len(w) \in Nat /\ n \in Nat /\ Len(t) \in Nat
      /\ w = <<>> \/ (Len(w) # 0 /\ w[Len(w)] = "?")
  BY QueryBytes DEF Counts
<1>2. pos \in 1..(n + 1) /\ pos \in Nat /\ pos >= 1
  BY <1>1 DEF GoesOn
<1>3. s \in Query /\ Len(s) = hi - pos + 1 /\ \A k \in 1..(hi - pos + 1) : s[k] = q[pos + k - 1]
  BY <1>2, SubSeqBytes DEF Part
<1>4. /\ x \in Query /\ Len(x) = Len(s) + Len(t)
      /\ \A i \in 1..Len(s) : x[i] = s[i]
      /\ At(x, Len(s) + 1) = At(t, 1)
  BY <1>3, ConcatBytes
<1> HIDE DEF x
<1>5. /\ v \in Query /\ Len(v) = Len(w) + Len(x)
      /\ \A i \in 1..Len(w) : v[i] = w[i]
      /\ \A i \in 1..Len(x) : v[Len(w) + i] = x[i]
  <2>1. LET z == w \o x IN
        /\ z \in Query /\ Len(z) = Len(w) + Len(x)
        /\ \A i \in 1..Len(w) : z[i] = w[i]
        /\ \A i \in 1..Len(x) : z[Len(w) + i] = x[i]
    BY <1>1, <1>4, ConcatBytes
  <2>2. v = w \o x
    BY DEF x
  <2> HIDE DEF v
  <2> QED
    BY <2>1, <2>2
<1>6. (w \o s) \o t = v
  BY <1>1, <1>3, ConcatQuery
<1>7. w \o s \in Query /\ Len(w \o s) = Len(w) + Len(s)
  BY <1>1, <1>3, ConcatBytes
<1> HIDE DEF v
<1>8. /\ hi + d = Len(w) + Len(s) /\ hi + d <= Len(v) /\ d \in Int
      /\ Len(s) \in Nat /\ Len(v) = Len(w) + Len(s) + Len(t)
  <2>1. Len(s) = hi - pos + 1 /\ Len(s) \in Nat
    BY <1>1, <1>2, <1>3
  <2>2. Len(v) = Len(w) + Len(s) + Len(t)
    BY <1>1, <1>4, <1>5, <2>1
  <2> QED
    BY <1>1, <1>2, <2>1, <2>2
<1>9. Same(q, v, pos, hi, d)
  <2>1. ASSUME NEW j \in pos..hi PROVE v[j + d] = q[j]
    <3> DEFINE k == j - pos + 1
    <3>1. k \in 1..(hi - pos + 1) /\ k \in 1..Len(s) /\ k \in 1..Len(x) /\ Len(w) + k = j + d /\ pos + k - 1 = j
      BY <1>1, <1>2, <1>3, <1>4
    <3> HIDE DEF k, d
    <3>2. v[Len(w) + k] = x[k] /\ x[k] = s[k] /\ s[k] = q[pos + k - 1]
      BY <1>3, <1>4, <1>5, <3>1
    <3> QED
      BY <3>1, <3>2
  <2>2. pos + d >= 1
    BY <1>1, <1>2
  <2> QED
    BY <1>2, <1>8, <2>1, <2>2 DEF Same
<1>10. At(v, Len(w)) # "\\"
  <2>1. CASE w = <<>>
    <3>1. Len(w) \notin 1..Len(v)
      BY <2>1
    <3> QED
      BY <3>1, AtValue, NoByteIsNone
  <2>2. CASE Len(w) # 0 /\ w[Len(w)] = "?"
    <3>1. Len(w) \in 1..Len(w) /\ Len(w) \in 1..Len(v)
      BY <1>1, <1>3, <1>4, <1>5, <2>2
    <3>2. At(v, Len(w)) = "?"
      BY <1>5, <2>2, <3>1, AtValue
    <3> QED
      BY <3>2
  <2> QED
    BY <1>1, <2>1, <2>2
<1>11. At(q, pos - 1) # "\\"
  <2>1. CASE pos = 1
    <3>1. pos - 1 \notin 1..Len(q)
      BY <2>1
    <3> QED
      BY <3>1, AtValue, NoByteIsNone
  <2>2. CASE pos # 1
    <3>1. pos - 1 \in 1..Len(q) /\ q[pos - 1] # "\\"
      BY <1>1, <1>2, <2>2 DEF GoesOn
    <3> QED
      BY <3>1, AtValue
  <2> QED
    BY <2>1, <2>2
<1>12. NoEscape(q, v, pos, d)
  <2>1. pos + d - 1 = Len(w)
    BY <1>1, <1>2
  <2> QED
    BY <1>10, <1>11, <2>1 DEF NoEscape
<1> HIDE DEF d
<1>13. At(v, hi + d + 1) = At(t, 1)
  <2> DEFINE k == Len(s) + 1
  <2>1. k \in Nat /\ k >= 1 /\ hi + d + 1 = Len(w) + k
    BY <1>1, <1>8
  <2>2. Len(w) + k \in 1..Len(v) <=> k \in 1..Len(x)
    BY <1>1, <1>4, <1>8
  <2>3. At(v, Len(w) + k) = At(x, k)
    <3> HIDE DEF k
    <3> QED
      BY <1>5, <2>2, AtValue
  <2>4. At(x, k) = At(t, 1)
    BY <1>4
  <2> QED
    BY <2>1, <2>3, <2>4
<1>14. Len(v) = hi + d + Len(t)
  BY <1>1, <1>8
<1>15. v \in Query /\ x \in Query /\ Len(w \o s) = hi + d
  BY <1>4, <1>5, <1>7, <1>8
<1>16. pos + d = Len(w) + 1
  BY <1>1, <1>2 DEF d
<1>17. v = w \o (s \o t) /\ x = s \o t
  BY DEF v, x
<1>18. ReadsOn(q, pos, hi, w, s, t, d, v)
  BY <1>3, <1>6, <1>7, <1>8, <1>9, <1>12, <1>13, <1>14, <1>15, <1>16, <1>17 DEF ReadsOn
<1> QED
  BY <1>18

\* v has c placeholders in w, with which it begins, and those of what follows.
CountsOn(w, c, v) == Len(Marks(v)[1]) = c + Len(Marks(v)[Len(w) + 1])

\* Whatever follows, the copy is read from where w ends.
LEMMA CopyFollows ==
  ASSUME NEW q \in Query, NEW pos, NEW w, NEW c, Counts(w, c), GoesOn(q, pos, w),
         NEW hi \in Nat, hi <= Len(q), pos <= hi + 1,
         NEW s, s = Part(q, pos, hi), NEW t \in Query, pos <= hi \/ t = <<>>
  PROVE  CountsOn(w, c, w \o (s \o t))
<1> DEFINE x == s \o t
<1>1. s \in Query /\ x \in Query
  BY CopyReads DEF ReadsOn
<1>2. FollowedBy(w, x)
  <2>1. CASE w = <<>>
    BY <2>1 DEF FollowedBy
  <2>2. CASE w # <<>>
    <3>1. /\ pos \in 1..(Len(q) + 1) /\ At(q, pos) # "?"
          /\ Len(s) = hi - pos + 1 /\ \A k \in 1..(hi - pos + 1) : s[k] = q[pos + k - 1]
      <4>1. pos \in 1..(Len(q) + 1) /\ At(q, pos) # "?"
        BY <2>2 DEF GoesOn
      <4> QED
        BY <4>1, SubSeqBytes DEF Part
    <3>2. At(x, 1) # "?"
      <4>1. CASE pos <= hi
        <5>1. 1 \in 1..Len(s) /\ s[1] = q[pos] /\ pos \in 1..Len(q)
          <6>1. 1 \in 1..(hi - pos + 1) /\ pos + 1 - 1 = pos /\ Len(q) \in Nat
            BY <3>1, <4>1, QueryBytes
          <6> QED
            BY <3>1, <4>1, <6>1
        <5>2. 1 \in 1..Len(x) /\ x[1] = s[1]
          <6>1. Len(x) = Len(s) + Len(t) /\ Len(s) \in Nat /\ Len(t) \in Nat /\ \A i \in 1..Len(s) : x[i] = s[i]
            BY <1>1, ConcatBytes, QueryBytes
          <6> HIDE DEF x
          <6> QED
            BY <5>1, <6>1
        <5>3. At(x, 1) = At(q, pos)
          <6> HIDE DEF x
          <6> QED
            BY <5>1, <5>2, AtValue
        <5> QED
          BY <3>1, <5>3
      <4>2. CASE ~(pos <= hi)
        <5>1. Len(s) = 0 /\ Len(t) = 0
          BY <3>1, <4>2
        <5>2. Len(x) = 0
          BY <1>1, <5>1, ConcatBytes
        <5> HIDE DEF x
        <5>3. 1 \notin 1..Len(x)
          BY <5>2
        <5> QED
          BY <5>3, AtValue, NoByteIsNone
      <4> QED
        BY <4>1, <4>2
    <3> QED
      BY <3>2 DEF FollowedBy
  <2> QED
    BY <2>1, <2>2
<1> HIDE DEF x
<1>3. CountsOn(w, c, w \o x)
  BY <1>1, <1>2 DEF Counts, CountsOn
<1> QED
  BY <1>3 DEF x

\* A placeholder more, when the query is copied up to the next one.
LEMMA CountsCopy ==
  ASSUME NEW q \in Query, NEW pos, NEW w, NEW c, Counts(w, c), GoesOn(q, pos, w),
         NEW h \in Nat, FirstMark(q, pos, h)
  PROVE  Counts(w \o SubSeq(q, pos, h), c + 1) /\ GoesOn(q, h + 1, w \o SubSeq(q, pos, h))
<1> DEFINE s == Part(q, pos, h)
           y == w \o s
           c1 == c + 1
<1>1. w \in Query /\ c \in Nat /\ c1 \in Nat /\ Len(w) \in Nat /\ Len(q) \in Nat
  BY QueryBytes DEF Counts
<1>2. pos \in 1..(Len(q) + 1) /\ pos \in Nat
  BY <1>1 DEF GoesOn
<1>3. h \in pos..Len(q) /\ q[h] = "?" /\ At(q, h + 1) # "?"
  BY <1>2, MarksHead
<1>4. h <= Len(q) /\ pos <= h + 1 /\ pos <= h
  BY <1>1, <1>2, <1>3
<1>5. s = Part(q, pos, h)
  OBVIOUS
<1> HIDE DEF s
<1>6. ASSUME NEW t \in Query PROVE \E d, v : ReadsOn(q, pos, h, w, s, t, d, v)
  BY <1>4, <1>5, CopyReads
<1>7. y \in Query /\ Len(y) # 0 /\ y # <<>> /\ y[Len(y)] = "?"
  <2>1. <<>> \in Query
    BY DEF Query
  <2>2. PICK d, v : ReadsOn(q, pos, h, w, s, <<>>, d, v)
    BY <1>6, <2>1
  <2>3. /\ y \in Query /\ y \o <<>> = v /\ Len(y) = h + d /\ Same(q, v, pos, h, d)
        /\ d \in Int /\ pos + d = Len(w) + 1
    BY <2>2 DEF ReadsOn
  <2> HIDE DEF y
  <2>4. v = y
    BY <2>3, ConcatEmptySeq DEF Query
  <2>5. h \in pos..h
    BY <1>3
  <2>6. y[h + d] = "?"
    BY <1>3, <2>3, <2>4, <2>5 DEF Same
  <2>7. h + d >= 1
    BY <1>1, <1>2, <1>4, <2>3
  <2>8. Len(y) # 0 /\ y[Len(y)] = "?"
    BY <2>3, <2>6, <2>7
  <2>9. y # <<>>
    BY <2>8
  <2> QED
    BY <2>3, <2>8, <2>9
<1>8. ASSUME NEW t \in Query, FollowedBy(y, t)
      PROVE  Len(Marks(y \o t)[1]) = c1 + Len(Marks(y \o t)[Len(y) + 1])
  <2>1. PICK d, v : ReadsOn(q, pos, h, w, s, t, d, v)
    BY <1>6
  <2>2. /\ y \o t = v /\ v = w \o (s \o t) /\ v \in Query /\ Len(y) = h + d /\ Len(v) = h + d + Len(t)
        /\ Same(q, v, pos, h, d) /\ NoEscape(q, v, pos, d) /\ At(v, h + d + 1) = At(t, 1)
        /\ d \in Int /\ pos + d = Len(w) + 1
    BY <2>1 DEF ReadsOn
  <2>3. CountsOn(w, c, w \o (s \o t))
    BY <1>4, <1>5, CopyFollows
  <2> HIDE DEF y
  <2>4. At(v, h + d + 1) # "?"
    BY <1>7, <1>8, <2>2 DEF FollowedBy
  <2>5. MarksOn(q, v, pos, h, d)
    BY <1>2, <1>4, <2>2, SameMarks
  <2>6. Marks(v)[pos + d] = <<h + d>> \o Marks(v)[h + d + 1]
    BY <2>4, <2>5 DEF MarksOn
  <2>7. h + d + 1 \in 1..(Len(v) + 1) /\ h + d \in Nat /\ h + d + 1 = Len(y) + 1
    BY <1>1, <1>2, <1>4, <2>2, QueryBytes
  <2> DEFINE rest == Marks(v)[h + d + 1]
             one == <<h + d>>
  <2>8. rest \in Seq(Nat)
    BY <2>2, <2>7, MarksType
  <2>9. one \in Seq(Nat) /\ Len(one) = 1
    BY <2>7
  <2>10. Marks(v)[Len(w) + 1] = one \o rest
    BY <2>2, <2>6
  <2>11. Marks(v)[Len(y) + 1] = rest
    BY <2>7
  <2>12. Len(Marks(v)[1]) = c + Len(Marks(v)[Len(w) + 1])
    BY <2>2, <2>3 DEF CountsOn
  <2> HIDE DEF rest, one
  <2>13. Len(one \o rest) = 1 + Len(rest) /\ Len(rest) \in Nat
    BY <2>8, <2>9, ConcatProperties, LenProperties, ZenonT(60)
  <2>14. Len(Marks(v)[1]) = c + (1 + Len(rest))
    BY <2>10, <2>12, <2>13
  <2>15. Len(Marks(v)[1]) = c1 + Len(rest)
    BY <1>1, <2>13, <2>14
  <2> QED
    BY <2>2, <2>11, <2>15
<1>9. Counts(y, c1)
  <2> HIDE DEF y, c1
  <2> QED
    BY <1>1, <1>7, <1>8 DEF Counts
<1>10. GoesOn(q, h + 1, y)
  <2>1. h + 1 \in 1..(Len(q) + 1) /\ h + 1 # 1 /\ (h + 1) - 1 = h
    BY <1>1, <1>2, <1>3
  <2> HIDE DEF y
  <2> QED
    BY <1>3, <1>7, <2>1 DEF GoesOn
<1>11. y = w \o SubSeq(q, pos, h)
  BY DEF Part, s
<1> HIDE DEF y
<1> QED
  BY <1>9, <1>10, <1>11

\* No placeholder more, when none is left and the query is copied to its end.
LEMMA CountsRest ==
  ASSUME NEW q \in Query, NEW pos, NEW w, NEW c, Counts(w, c), GoesOn(q, pos, w), Marks(q)[pos] = <<>>
  PROVE  /\ w \o SubSeq(q, pos, Len(q)) \in Query
         /\ Len(Marks(w \o SubSeq(q, pos, Len(q)))[1]) = c
<1> DEFINE n == Len(q)
           s == Part(q, pos, n)
<1>1. w \in Query /\ c \in Nat /\ Len(w) \in Nat /\ n \in Nat /\ <<>> \in Query
  BY QueryBytes DEF Counts, Query
<1>2. pos \in 1..(n + 1) /\ pos \in Nat
  BY <1>1 DEF GoesOn
<1>3. pos <= n + 1 /\ n <= Len(q)
  BY <1>1, <1>2
<1>4. s = Part(q, pos, n)
  OBVIOUS
<1> HIDE DEF s, n
<1>5. PICK d, v : ReadsOn(q, pos, n, w, s, <<>>, d, v)
  BY <1>1, <1>3, <1>4, CopyReads
<1>6. /\ s \in Query /\ w \o s \in Query /\ v \in Query /\ v = w \o (s \o <<>>) /\ (w \o s) \o <<>> = v
      /\ Len(v) = n + d + Len(<<>>) /\ Same(q, v, pos, n, d) /\ NoEscape(q, v, pos, d)
      /\ d \in Int /\ pos + d = Len(w) + 1
  BY <1>5 DEF ReadsOn
<1>7. v = w \o s
  <2> DEFINE y == w \o s
  <2>1. y \in Query /\ y \o <<>> = v
    BY <1>6
  <2> HIDE DEF y
  <2>2. v = y
    BY <2>1, ConcatEmptySeq DEF Query
  <2> QED
    BY <2>2 DEF y
<1>8. CountsOn(w, c, w \o (s \o <<>>))
  BY <1>1, <1>3, <1>4, CopyFollows
<1>9. Ends(q, v, n, d)
  <2>1. Len(<<>>) = 0
    OBVIOUS
  <2>2. n + d = Len(v)
    BY <1>1, <1>6, <2>1
  <2> QED
    BY <2>2 DEF Ends, n
<1>10. MarksOn(q, v, pos, n, d)
  BY <1>1, <1>2, <1>3, <1>6, SameMarks
<1>11. Marks(v)[Len(w) + 1] = <<>>
  BY <1>6, <1>9, <1>10 DEF MarksOn
<1>12. Len(Marks(v)[1]) = c
  <2>1. Len(Marks(v)[1]) = c + Len(Marks(v)[Len(w) + 1])
    BY <1>6, <1>8 DEF CountsOn
  <2>2. Len(<<>>) = 0
    OBVIOUS
  <2> QED
    BY <1>1, <1>11, <2>1, <2>2
<1> QED
  BY <1>6, <1>7, <1>12 DEF s, n, Part

\* What In writes for every element of a slice but the first.
Another == <<",", " ", "?">>

\* It is a query that ends in its only placeholder and opens no segment.
LEMMA AnotherBytes ==
  /\ Another \in Query /\ Len(Another) = 3 /\ Another # <<>> /\ Another[3] = "?"
  /\ \A k \in 1..2 : Another[k] # "?" /\ Another[k] # "\\"
  /\ \A k \in 1..3 : Another[k] \notin Quote \cup {"[", "$"} /\ Another[k] # "-" /\ Another[k] # "/"
<1> DEFINE c == ","
           b == " "
           m == "?"
           Plain(x) == x \notin Quote \cup {"[", "$"} /\ x # "-" /\ x # "/"
<1>1. c \in Byte /\ c # "?" /\ c # "\\" /\ Plain(c)
  BY Zenon DEF Byte, Quote
<1>2. b \in Byte /\ b # "?" /\ b # "\\" /\ Plain(b)
  BY Zenon DEF Byte, Quote
<1>3. m \in Byte /\ m = "?" /\ Plain(m)
  BY Zenon DEF Byte, Quote
<1>4. Another = <<c, b, m>>
  BY Zenon DEF Another
<1> HIDE DEF c, b, m, Plain
<1>5. <<c, b, m>> \in Query /\ Len(<<c, b, m>>) = 3 /\ <<c, b, m>>[1] = c /\ <<c, b, m>>[2] = b /\ <<c, b, m>>[3] = m
  BY <1>1, <1>2, <1>3 DEF Query
<1>6. Another \in Query /\ Len(Another) = 3 /\ Another[1] = c /\ Another[2] = b /\ Another[3] = m
  BY <1>4, <1>5
<1>7. Another # <<>>
  BY <1>6
<1>8. (\A k \in 1..2 : k = 1 \/ k = 2) /\ \A k \in 1..3 : k = 1 \/ k = 2 \/ k = 3
  OBVIOUS
<1>9. \A k \in 1..2 : Another[k] # "?" /\ Another[k] # "\\"
  BY <1>1, <1>2, <1>6, <1>8
<1>10. \A k \in 1..3 : Plain(Another[k])
  BY <1>1, <1>2, <1>3, <1>6, <1>8
<1> QED
  BY <1>3, <1>6, <1>7, <1>9, <1>10 DEF Plain

\* A placeholder more after the one that w ends in.
LEMMA CountsMore ==
  ASSUME NEW w, NEW c, Counts(w, c), w # <<>>
  PROVE  Counts(w \o Another, c + 1) /\ w \o Another # <<>>
<1> DEFINE y == w \o Another
           c1 == c + 1
           m == Len(w)
           A == Another
<1>1. w \in Query /\ c \in Nat /\ c1 \in Nat /\ m \in Nat
  BY QueryBytes DEF Counts
<1>2. /\ A \in Query /\ Len(A) = 3 /\ A[3] = "?"
      /\ \A k \in 1..2 : A[k] # "?" /\ A[k] # "\\"
      /\ \A k \in 1..3 : A[k] \notin Quote \cup {"[", "$"} /\ A[k] # "-" /\ A[k] # "/"
  BY AnotherBytes
<1>3. /\ y \in Query /\ Len(y) = m + 3
      /\ \A k \in 1..3 : y[m + k] = A[k]
  <2> HIDE DEF A
  <2>1. LET z == w \o A IN z \in Query /\ Len(z) = m + Len(A) /\ \A i \in 1..Len(A) : z[m + i] = A[i]
    BY <1>1, <1>2, ConcatBytes
  <2>2. y = w \o A
    BY DEF A
  <2> HIDE DEF y, m
  <2> QED
    BY <1>2, <2>1, <2>2
<1> HIDE DEF y, A
<1>4. Len(y) # 0 /\ y[Len(y)] = "?"
  <2>1. 3 \in 1..3 /\ m + 3 # 0
    BY <1>1
  <2> QED
    BY <1>2, <1>3, <2>1
<1>5. y # <<>>
  BY <1>4
<1>6. ASSUME NEW t \in Query, FollowedBy(y, t)
      PROVE  Len(Marks(y \o t)[1]) = c1 + Len(Marks(y \o t)[Len(y) + 1])
  <2> DEFINE x == A \o t
             v == w \o x
             rest == Marks(v)[m + 4]
             one == <<m + 3>>
  <2>1. y \o t = v
    BY <1>1, <1>2, ConcatQuery DEF y, A
  <2>2. x \in Query /\ Len(x) = 3 + Len(t) /\ Len(t) \in Nat /\ \A k \in 1..3 : x[k] = A[k]
    <3>1. x \in Query /\ Len(x) = Len(A) + Len(t) /\ Len(t) \in Nat /\ \A i \in 1..Len(A) : x[i] = A[i]
      BY <1>2, ConcatBytes, QueryBytes
    <3> HIDE DEF x
    <3> QED
      BY <1>2, <3>1
  <2>3. At(x, 4) = At(t, 1)
    <3>1. At(x, Len(A) + 1) = At(t, 1)
      BY <1>2, ConcatBytes
    <3> QED
      BY <1>2, <3>1
  <2> HIDE DEF x
  <2>4. v \in Query /\ Len(v) = m + Len(x) /\ \A k \in 1..Len(x) : v[m + k] = x[k]
    BY <1>1, <2>2, ConcatBytes
  <2> HIDE DEF v
  <2>5. /\ m + 1 \in 1..Len(v) /\ m + 2 \in 1..Len(v) /\ m + 3 \in 1..Len(v) /\ m + 4 \in 1..(Len(v) + 1)
        /\ \A k \in 1..3 : m + k \in 1..Len(v) /\ v[m + k] = A[k]
    BY <1>1, <2>2, <2>4
  <2>6. At(v, m + 4) # "?"
    <3>1. m + 4 \in 1..Len(v) <=> 4 \in 1..Len(x)
      BY <1>1, <2>2, <2>4
    <3>2. At(v, m + 4) = At(x, 4)
      BY <2>4, <3>1, AtValue
    <3>3. At(t, 1) # "?"
      BY <1>5, <1>6 DEF FollowedBy
    <3> QED
      BY <2>3, <3>2, <3>3
  <2>7. ASSUME NEW k \in 1..3 PROVE ~(scanSkipSegment(v, m + k) > m + k)
    <3> DEFINE i == m + k
    <3>1. i \in 1..Len(v) /\ v[i] = A[k] /\ i \in Nat
      BY <1>1, <2>5
    <3>2. v[i] \notin Quote \cup {"[", "$"} /\ v[i] # "-" /\ v[i] # "/"
      BY <1>2, <3>1
    <3> HIDE DEF i
    <3>3. scanSkipSegment(v, i) = i
      BY <2>4, <3>1, <3>2, SegmentWays
    <3>4. ~(scanSkipSegment(v, i) > i)
      BY <3>1, <3>3
    <3> QED
      BY <3>4 DEF i
  <2>8. ASSUME NEW k \in 1..2 PROVE Marks(v)[m + k] = Marks(v)[m + k + 1]
    <3> DEFINE i == m + k
    <3>1. i \in 1..Len(v) /\ v[i] # "?" /\ ~(scanSkipSegment(v, i) > i)
      <4>1. k \in 1..3
        OBVIOUS
      <4> QED
        BY <1>2, <2>5, <2>7, <4>1
    <3> HIDE DEF i
    <3>2. Marks(v)[i] = Marks(v)[i + 1]
      BY <2>4, <3>1, MarksCases
    <3> QED
      BY <3>2 DEF i
  <2>9. Marks(v)[m + 3] = one \o rest
    <3> DEFINE i == m + 3
    <3>1. i \in 1..Len(v) /\ v[i] = "?" /\ ~(scanSkipSegment(v, i) > i)
      <4>1. 3 \in 1..3
        OBVIOUS
      <4> QED
        BY <1>2, <2>5, <2>7, <4>1
    <3>2. At(v, i - 1) # "\\"
      <4>1. 2 \in 1..3 /\ 2 \in 1..2 /\ i - 1 = m + 2
        BY <1>1
      <4>2. At(v, m + 2) = A[2]
        BY <2>5, <4>1, AtValue
      <4> HIDE DEF i
      <4> QED
        BY <1>2, <4>1, <4>2
    <3>3. At(v, i + 1) # "?" /\ i + 1 = m + 4
      <4>1. i + 1 = m + 4
        BY <1>1
      <4> HIDE DEF i
      <4> QED
        BY <2>6, <4>1
    <3> HIDE DEF i
    <3>4. Marks(v)[i] = <<i>> \o Marks(v)[i + 1]
      BY <2>4, <3>1, <3>2, <3>3, MarksCases
    <3> QED
      BY <3>3, <3>4 DEF i
  <2>10. Marks(v)[m + 1] = one \o rest
    <3>1. 1 \in 1..2 /\ 2 \in 1..2 /\ m + 1 + 1 = m + 2 /\ m + 2 + 1 = m + 3
      BY <1>1
    <3>2. Marks(v)[m + 1] = Marks(v)[m + 1 + 1] /\ Marks(v)[m + 2] = Marks(v)[m + 2 + 1]
      BY <2>8, <3>1
    <3> HIDE DEF one, rest
    <3> QED
      BY <2>9, <3>1, <3>2
  <2>11. rest \in Seq(Nat) /\ one \in Seq(Nat) /\ Len(one) = 1
    BY <1>1, <2>4, <2>5, MarksType
  <2>12. Len(Marks(v)[1]) = c + Len(Marks(v)[m + 1])
    <3>1. At(x, 1) # "?"
      <4>1. 1 \in 1..Len(x) /\ 1 \in 1..3 /\ 1 \in 1..2
        BY <2>2
      <4>2. At(x, 1) = A[1]
        BY <2>2, <4>1, AtValue
      <4> QED
        BY <1>2, <4>1, <4>2
    <3>2. FollowedBy(w, x)
      BY <3>1 DEF FollowedBy
    <3> QED
      BY <2>2, <3>2 DEF Counts, v
  <2>13. Marks(v)[Len(y) + 1] = rest
    <3>1. Len(y) + 1 = m + 4
      BY <1>1, <1>3
    <3> QED
      BY <3>1
  <2> HIDE DEF rest, one
  <2>14. Len(one \o rest) = 1 + Len(rest) /\ Len(rest) \in Nat
    BY <2>11, ConcatProperties, LenProperties, ZenonT(60)
  <2>15. Len(Marks(v)[1]) = c + (1 + Len(rest))
    BY <2>10, <2>12, <2>14
  <2>16. Len(Marks(v)[1]) = c1 + Len(rest)
    BY <1>1, <2>14, <2>15
  <2> QED
    BY <2>1, <2>13, <2>16
<1>7. Counts(y, c1)
  <2> HIDE DEF c1
  <2> QED
    BY <1>1, <1>3, <1>4, <1>6 DEF Counts
<1> QED
  BY <1>5, <1>7 DEF y

\* As many placeholders more as a slice has elements after the first.
LEMMA CountsSpread ==
  ASSUME NEW w, NEW c, Counts(w, c), w # <<>>, NEW len \in Nat, len # 0
  PROVE  /\ Counts(w \o MorePlaceholders(len), c + (len - 1))
         /\ w \o MorePlaceholders(len) # <<>>
<1> DEFINE n == len - 1
           list == [e \in 1..n |-> Another]
           more == FlattenSeq(list)
<1>1. w \in Query /\ c \in Nat /\ n \in Nat /\ Another \in Query
  BY AnotherBytes DEF Counts
<1>2. more = MorePlaceholders(len)
  BY DEF MorePlaceholders, Another
<1>3. SUFFICES Counts(w \o more, c + n) /\ w \o more # <<>>
  BY <1>2
<1> HIDE DEF n
<1>4. list \in Seq(Query) /\ Len(list) = n /\ \A e \in 1..n : list[e] = Another
  BY <1>1
<1> HIDE DEF list
<1>5. CASE n = 0
  <2>1. more = <<>>
    <3>1. FlattenSeq(list) = list
      BY <1>1, <1>4, <1>5, FlattenSteps
    <3>2. list = <<>>
      BY <1>4, <1>5, EmptySeq
    <3> QED
      BY <3>1, <3>2
  <2>2. w \o <<>> = w
    BY <1>1, ConcatEmptySeq DEF Query
  <2>3. c + n = c
    BY <1>1, <1>5
  <2> HIDE DEF more
  <2> QED
    BY <2>1, <2>2, <2>3
<1>6. CASE n # 0
  <2>1. PICK f : /\ more = f[n]
                 /\ \A i \in 1..n : f[i] = IF i = 1 THEN Another ELSE f[i - 1] \o Another
    <3>1. PICK f : /\ FlattenSeq(list) = f[Len(list)]
                   /\ \A i \in 1..Len(list) : f[i] = IF i = 1 THEN list[i] ELSE f[i - 1] \o list[i]
      BY <1>1, <1>4, <1>6, FlattenSteps
    <3>2. \A i \in 1..n : f[i] = IF i = 1 THEN Another ELSE f[i - 1] \o Another
      BY <1>4, <3>1
    <3>3. more = f[n]
      BY <1>4, <3>1
    <3> HIDE DEF more
    <3> QED
      BY <3>2, <3>3
  <2> HIDE DEF more
  <2> DEFINE Spread(k) == f[k] \in Query /\ Counts(w \o f[k], c + k) /\ w \o f[k] # <<>>
             T == {k \in Nat : k \in 1..n => Spread(k)}
  <2>2. 0 \in T
    OBVIOUS
  <2>3. ASSUME NEW k \in Nat, k \in T PROVE k + 1 \in T
    <3> DEFINE k1 == k + 1
    <3>1. ASSUME k1 \in 1..n PROVE Spread(k1)
      <4>1. CASE k = 0
        <5>1. k1 = 1 /\ c + k1 = c + 1
          BY <4>1
        <5>2. f[k1] = Another
          BY <2>1, <3>1, <5>1
        <5>3. Counts(w \o Another, c + 1) /\ w \o Another # <<>>
          BY CountsMore
        <5> HIDE DEF k1
        <5> QED
          BY <1>1, <5>1, <5>2, <5>3
      <4>2. CASE k # 0
        <5>1. k \in 1..n /\ k1 # 1 /\ k1 - 1 = k /\ c + k1 = (c + k) + 1
          BY <1>1, <3>1, <4>2
        <5> HIDE DEF k1
        <5>2. f[k1] = f[k] \o Another
          BY <2>1, <3>1, <5>1
        <5>3. Spread(k)
          <6> HIDE DEF Spread
          <6> QED
            BY <2>3, <5>1
        <5> DEFINE w1 == w \o f[k]
                   c2 == c + k
        <5>4. Counts(w1, c2) /\ w1 # <<>>
          BY <5>3
        <5>5. w \o (f[k] \o Another) = w1 \o Another /\ f[k] \o Another \in Query
          BY <1>1, <5>3, ConcatQuery, ConcatBytes, ZenonT(60)
        <5> HIDE DEF w1, c2
        <5>6. Counts(w1 \o Another, c2 + 1) /\ w1 \o Another # <<>>
          BY <5>4, CountsMore
        <5>7. c + k1 = c2 + 1
          BY <5>1 DEF c2
        <5> QED
          BY <5>2, <5>5, <5>6, <5>7
      <4> QED
        BY <4>1, <4>2
    <3> HIDE DEF Spread
    <3> QED
      BY <3>1
  <2>4. n \in T
    <3>1. T \in SUBSET Nat
      OBVIOUS
    <3> HIDE DEF T
    <3> QED
      BY <1>1, <2>2, <2>3, <3>1, Upward
  <2>5. Spread(n)
    <3> HIDE DEF Spread
    <3> QED
      BY <1>1, <1>6, <2>4
  <2> QED
    BY <2>1, <2>5
<1> QED
  BY <1>5, <1>6

-----------------------------------------------------------------------------
(* In binds every placeholder                                              *)

\* No error, and the places of the arguments that In returns.
NoError == ""
Place == [arg : Nat, el : Nat]

\* The record of the loop of In.
Rewrites(err, pos, w, places) == [err |-> err, pos |-> pos, query |-> w, args |-> places]

\* As long as there is no error, what In has written has a placeholder for every argument
\* it has put down, and goes on with the rest of the query.
Binds(q, r) ==
  \E err, pos, w, places :
    /\ r = Rewrites(err, pos, w, places)
    /\ err = NoError =>
         places \in Seq(Place) /\ Counts(w, Len(places)) /\ GoesOn(q, pos, w)

\* What a turn of In is, way by way.
LEMMA InWays ==
  ASSUME NEW q, NEW a, NEW k, NEW p, NEW pos, NEW w, NEW places, NEW r1, NEW x,
         p.idx = x
  PROVE  r1 = InTurn(q, a, k, p, Rewrites(NoError, pos, w, places)) =>
         \/ \E err : r1 = Rewrites(err, pos, w, places) /\ err # NoError
         \/ /\ x # 0
            /\ \/ /\ ShouldExpand(a, p.inParen) /\ a.len > 0
                  /\ r1 = Rewrites(NoError, x + 1, (w \o SubSeq(q, pos, x)) \o MorePlaceholders(a.len),
                                   places \o Elements(k, a.len))
               \/ /\ ~ShouldExpand(a, p.inParen)
                  /\ r1 = Rewrites(NoError, x + 1, (w \o SubSeq(q, pos, x)) \o <<>>, places \o Whole(k))
<1> HAVE r1 = InTurn(q, a, k, p, Rewrites(NoError, pos, w, places))
<1> DEFINE few == "few placeholders"
           empty == "empty IN list"
           spread == ShouldExpand(a, p.inParen)
           none == IsSlice(a) /\ a.len = 0 /\ p.inParen
           s == Rewrites(NoError, pos, w, places)
           Fails(why) == [s EXCEPT !.err = why]
           copy == s.query \o SubSeq(q, s.pos, p.idx)
           done == Rewrites(NoError, p.idx + 1, copy \o (IF spread THEN MorePlaceholders(a.len) ELSE <<>>),
                            s.args \o (IF spread THEN Elements(k, a.len) ELSE Whole(k)))
<1>1. few # NoError /\ empty # NoError
  BY Zenon DEF NoError
<1>2. r1 = CASE p.idx = 0 -> Fails(few)
             [] p.idx # 0 /\ IsSlice(a) /\ a.len = 0 /\ p.inParen -> Fails(empty)
             [] OTHER -> done
  <2>1. r1 = InTurn(q, a, k, p, s)
    OBVIOUS
  <2> HIDE DEF s
  <2> QED
    BY <2>1, Zenon DEF InTurn, Rewrites, NoError
<1>3. spread => a.len > 0
  BY DEF ShouldExpand
<1>4. \A why : Fails(why) = Rewrites(why, pos, w, places)
  BY DEF Rewrites
<1>5. s.query = w /\ s.pos = pos /\ s.args = places
  BY DEF Rewrites
<1> HIDE DEF few, empty, spread, none, s, Fails
<1>6. \/ r1 = Fails(few)
      \/ r1 = Fails(empty)
      \/ p.idx # 0 /\ r1 = done
  <2>1. CASE p.idx = 0
    <3> HIDE DEF done
    <3> QED
      BY <1>2, <2>1
  <2>2. CASE p.idx # 0
    <3> HIDE DEF done
    <3> QED
      BY <1>2, <2>2
  <2> QED
    BY <2>1, <2>2
<1>7. CASE p.idx # 0 /\ r1 = done
  <2>1. done = Rewrites(NoError, x + 1,
                 (w \o SubSeq(q, pos, x)) \o (IF spread THEN MorePlaceholders(a.len) ELSE <<>>),
                 places \o (IF spread THEN Elements(k, a.len) ELSE Whole(k)))
    BY <1>5, Zenon
  <2> HIDE DEF done
  <2>2. CASE spread
    BY <1>3, <1>7, <2>1, <2>2, Zenon DEF spread
  <2>3. CASE ~spread
    BY <1>7, <2>1, <2>3, Zenon DEF spread
  <2> QED
    BY <2>2, <2>3
<1> HIDE DEF done
<1> QED
  BY <1>1, <1>4, <1>6, <1>7, Zenon

\* The places of an argument that is spread, and of one that is not.
LEMMA PlacesOf ==
  ASSUME NEW k \in Nat, NEW len \in Nat
  PROVE  /\ Elements(k, len) \in Seq(Place) /\ Len(Elements(k, len)) = len
         /\ Whole(k) \in Seq(Place) /\ Len(Whole(k)) = 1
<1>1. \A e \in 1..len : [arg |-> k, el |-> e] \in Place
  BY DEF Place
<1>2. [arg |-> k, el |-> 0] \in Place
  BY DEF Place
<1>3. Elements(k, len) \in Seq(Place) /\ Len(Elements(k, len)) = len
  BY <1>1 DEF Elements
<1> DEFINE whole == [arg |-> k, el |-> 0]
<1>4. Whole(k) = <<whole>>
  BY DEF Whole
<1> HIDE DEF whole
<1>5. Whole(k) \in Seq(Place) /\ Len(Whole(k)) = 1
  BY <1>2, <1>4 DEF whole
<1> QED
  BY <1>3, <1>5

\* One turn of In: an argument is put down for the placeholder that is passed, or as many
\* of both as the slice has elements.
LEMMA InTurns ==
  ASSUME NEW q \in Query, NEW a \in Arg, NEW k \in Nat, NEW p,
         NEW pos, NEW w, NEW places \in Seq(Place), Counts(w, Len(places)), GoesOn(q, pos, w),
         p = nextPlaceholder(q, pos)
  PROVE  Binds(q, InTurn(q, a, k, p, Rewrites(NoError, pos, w, places)))
<1> DEFINE r1 == InTurn(q, a, k, p, Rewrites(NoError, pos, w, places))
           c == Len(places)
           x == p.idx
           y == w \o SubSeq(q, pos, x)
<1>1. a.len \in Nat
  BY DEF Arg
<1>2. pos \in 1..(Len(q) + 1) /\ c \in Nat /\ Len(q) \in Nat
  BY QueryBytes, LenProperties DEF GoesOn
<1>3. \/ \E err : r1 = Rewrites(err, pos, w, places) /\ err # NoError
      \/ /\ x # 0
         /\ \/ /\ a.len > 0
               /\ r1 = Rewrites(NoError, x + 1, y \o MorePlaceholders(a.len), places \o Elements(k, a.len))
            \/ r1 = Rewrites(NoError, x + 1, y \o <<>>, places \o Whole(k))
  <2>1. p.idx = x
    OBVIOUS
  <2>2. r1 = InTurn(q, a, k, p, Rewrites(NoError, pos, w, places))
    OBVIOUS
  <2> HIDE DEF r1, x
  <2> QED
    BY <2>1, <2>2, InWays
<1> HIDE DEF r1
<1>4. ASSUME x # 0
      PROVE  /\ x \in Nat /\ Counts(y, c + 1) /\ GoesOn(q, x + 1, y) /\ y # <<>> /\ y \in Query
             /\ x + 1 # 1
  <2>1. x \in pos..Len(q) /\ Marks(q)[pos] = <<x>> \o Marks(q)[x + 1]
    BY <1>2, <1>4, NextIsHead
  <2> HIDE DEF x
  <2>2. x \in Nat /\ x + 1 \in 1..(Len(q) + 1) /\ x + 1 # 1
    BY <1>2, <2>1
  <2>3. FirstMark(q, pos, x)
    BY <2>1, <2>2, MarksType DEF FirstMark
  <2>4. Counts(w \o SubSeq(q, pos, x), c + 1) /\ GoesOn(q, x + 1, w \o SubSeq(q, pos, x))
    BY <2>2, <2>3, CountsCopy
  <2> HIDE DEF y
  <2>5. Counts(y, c + 1) /\ GoesOn(q, x + 1, y)
    BY <2>4 DEF y
  <2>6. y # <<>> /\ y \in Query
    BY <2>2, <2>5 DEF GoesOn, Counts
  <2> QED
    BY <2>2, <2>5, <2>6
<1> HIDE DEF x, y
<1>5. ASSUME NEW err, r1 = Rewrites(err, pos, w, places), err # NoError PROVE Binds(q, r1)
  BY <1>5, Zenon DEF Binds
<1>6. ASSUME x # 0, a.len > 0,
             r1 = Rewrites(NoError, x + 1, y \o MorePlaceholders(a.len), places \o Elements(k, a.len))
      PROVE  Binds(q, r1)
  <2> DEFINE len == a.len
             c1 == c + 1
             next == x + 1
             z == y \o MorePlaceholders(len)
             more == places \o Elements(k, len)
  <2>1. len \in Nat /\ len # 0
    BY <1>1, <1>6
  <2>2. Counts(y, c1) /\ GoesOn(q, next, y) /\ y # <<>> /\ next # 1
    BY <1>4, <1>6
  <2> HIDE DEF len, c1, next
  <2>3. Counts(z, c1 + (len - 1)) /\ z # <<>>
    BY <2>1, <2>2, CountsSpread
  <2>4. more \in Seq(Place) /\ Len(more) = c + len
    <3> DEFINE those == Elements(k, len)
    <3>1. those \in Seq(Place) /\ Len(those) = len
      BY <2>1, PlacesOf
    <3> HIDE DEF those
    <3>2. places \o those \in Seq(Place) /\ Len(places \o those) = Len(places) + Len(those)
      BY <3>1, ConcatProperties
    <3> QED
      BY <3>1, <3>2 DEF those
  <2>5. c1 + (len - 1) = c + len
    BY <1>2, <2>1 DEF c1
  <2> HIDE DEF z, more, c
  <2>6. Counts(z, Len(more))
    BY <2>3, <2>4, <2>5
  <2>7. GoesOn(q, next, z)
    BY <2>2, <2>3 DEF GoesOn
  <2>8. r1 = Rewrites(NoError, next, z, more)
    BY <1>6, Zenon DEF next, z, more, len
  <2> QED
    BY <2>4, <2>6, <2>7, <2>8, Zenon DEF Binds
<1>7. ASSUME x # 0, r1 = Rewrites(NoError, x + 1, y \o <<>>, places \o Whole(k)) PROVE Binds(q, r1)
  <2> DEFINE next == x + 1
             more == places \o Whole(k)
  <2>1. Counts(y, c + 1) /\ GoesOn(q, next, y) /\ y \in Query
    BY <1>4, <1>7
  <2>2. y \o <<>> = y
    BY <2>1, ConcatEmptySeq DEF Query
  <2>3. more \in Seq(Place) /\ Len(more) = c + 1
    <3> DEFINE that == Whole(k)
    <3>1. that \in Seq(Place) /\ Len(that) = 1
      BY <1>1, PlacesOf
    <3> HIDE DEF that
    <3>2. places \o that \in Seq(Place) /\ Len(places \o that) = Len(places) + Len(that)
      BY <3>1, ConcatProperties
    <3> QED
      BY <3>1, <3>2 DEF that
  <2>4. r1 = Rewrites(NoError, next, y, more)
    BY <1>7, <2>2, Zenon
  <2> HIDE DEF next, more, c
  <2>5. Counts(y, Len(more))
    BY <2>1, <2>3
  <2> QED
    BY <2>1, <2>3, <2>4, <2>5, Zenon DEF Binds
<1>8. Binds(q, r1)
  <2> HIDE DEF c
  <2> QED
    BY <1>3, <1>5, <1>6, <1>7, Zenon
<1> QED
  BY <1>8 DEF r1

\* The turns of In.
InNext(q, as, k, r) ==
  IF r.err # NoError THEN r ELSE InTurn(q, as[k], k, nextPlaceholder(q, r.pos), r)
InStart == [err |-> NoError, pos |-> 1, query |-> <<>>, args |-> <<>>]
InAfter(q, as) ==
  CHOOSE f : f = [k \in 0..Len(as) |-> IF k = 0 THEN InStart ELSE InNext(q, as, k, f[k - 1])]

\* The loop of In is its start and then a turn for every argument.
LEMMA InSteps ==
  ASSUME NEW q, NEW as, Len(as) \in Nat
  PROVE  /\ InLoop(q, as) = InAfter(q, as)[Len(as)]
         /\ InAfter(q, as)[0] = InStart
         /\ \A k \in 1..Len(as) : InAfter(q, as)[k] = InNext(q, as, k, InAfter(q, as)[k - 1])
<1> DEFINE n == Len(as)
           Loop(f, k) == IF k = 0 THEN InStart ELSE InNext(q, as, k, f[k - 1])
           after == InAfter(q, as)
<1>1. n \in Nat
  OBVIOUS
<1>2. InLoop(q, as) = after[n]
  BY Zenon DEF InLoop, InAfter, InNext, InStart, NoError
<1>3. \E f : f = [k \in 0..n |-> Loop(f, k)]
  <2> DEFINE S == {m \in Nat : \E f : f = [k \in 0..m |-> Loop(f, k)]}
  <2>1. 0 \in S
    <3> DEFINE f == [k \in 0..0 |-> InStart]
    <3>1. f = [k \in 0..0 |-> Loop(f, k)]
      OBVIOUS
    <3> QED
      BY <3>1
  <2>2. ASSUME NEW m \in Nat, m \in S PROVE m + 1 \in S
    <3>1. PICK f : f = [k \in 0..m |-> Loop(f, k)]
      BY <2>2
    <3>2. \A k \in 0..m : f[k] = Loop(f, k)
      BY <3>1
    <3> DEFINE h == [k \in 0..(m + 1) |-> IF k <= m THEN f[k] ELSE Loop(f, k)]
    <3>3. ASSUME NEW k \in 0..(m + 1) PROVE h[k] = Loop(h, k)
      <4>1. k # 0 => h[k - 1] = f[k - 1]
        OBVIOUS
      <4>2. Loop(h, k) = Loop(f, k)
        BY <4>1
      <4> QED
        BY <4>2, <3>2
    <3>4. h = [k \in 0..(m + 1) |-> Loop(h, k)]
      BY <3>3
    <3> HIDE DEF h
    <3>5. \E g : g = [k \in 0..(m + 1) |-> Loop(g, k)]
      BY <3>4
    <3>6. m + 1 \in Nat
      OBVIOUS
    <3> QED
      BY <3>5, <3>6, Zenon
  <2>3. n \in S
    <3> HIDE DEF S
    <3> QED
      BY <1>1, <2>1, <2>2, Upward DEF S
  <2> QED
    BY <2>3
<1>4. after = [k \in 0..n |-> Loop(after, k)]
  BY <1>3 DEF InAfter
<1> HIDE DEF after, n
<1>5. \A k \in 0..n : after[k] = Loop(after, k)
  BY <1>4
<1>6. after[0] = InStart
  <2>1. 0 \in 0..n
    BY <1>1
  <2> QED
    BY <1>5, <2>1, Zenon
<1>7. ASSUME NEW k \in 1..n PROVE after[k] = InNext(q, as, k, after[k - 1])
  <2>1. k \in 0..n /\ k # 0
    BY <1>1
  <2> QED
    BY <1>5, <2>1
<1> QED
  BY <1>2, <1>6, <1>7 DEF after, n

\* The loop of In binds every placeholder that it passes.
LEMMA InBinds ==
  ASSUME NEW q \in Query, NEW as \in Seq(Arg)
  PROVE  Binds(q, InLoop(q, as))
<1> DEFINE n == Len(as)
           after == InAfter(q, as)
           S == {k \in Nat : k <= n => Binds(q, after[k])}
<1>1. n \in Nat
  BY LenProperties
<1>2. 0 \in S
  <2> DEFINE nothing == <<>>
  <2>1. after[0] = Rewrites(NoError, 1, nothing, nothing)
    BY <1>1, InSteps DEF InStart, Rewrites
  <2>2. nothing \in Seq(Place) /\ Len(nothing) = 0
    BY EmptySeq
  <2>3. Counts(nothing, Len(nothing)) /\ nothing = <<>>
    BY <2>2, CountsNone
  <2>4. GoesOn(q, 1, nothing)
    <3>1. 1 \in 1..(Len(q) + 1)
      BY QueryBytes
    <3> QED
      BY <3>1 DEF GoesOn
  <2> HIDE DEF after, nothing
  <2>5. Binds(q, after[0])
    BY <2>1, <2>2, <2>3, <2>4, Zenon DEF Binds
  <2> QED
    BY <2>5
<1>3. ASSUME NEW k \in Nat, k \in S PROVE k + 1 \in S
  <2> DEFINE k1 == k + 1
  <2> HIDE DEF n
  <2>1. ASSUME k1 <= n PROVE Binds(q, after[k1])
    <3>1. k1 \in 1..n /\ k1 - 1 = k /\ k <= n /\ k1 \in Nat
      BY <1>1, <2>1
    <3> HIDE DEF k1
    <3>2. as[k1] \in Arg
      BY <3>1, ElementOfSeq DEF n
    <3>3. after[k1] = InNext(q, as, k1, after[k])
      <4>1. after[k1] = InNext(q, as, k1, after[k1 - 1])
        BY <1>1, <3>1, InSteps DEF n
      <4> QED
        BY <3>1, <4>1
    <3>4. Binds(q, after[k])
      BY <1>3, <3>1
    <3> DEFINE r == after[k]
               a == as[k1]
    <3> HIDE DEF after, a
    <3>5. PICK err, pos, w, places :
            /\ r = Rewrites(err, pos, w, places)
            /\ err = NoError =>
                 places \in Seq(Place) /\ Counts(w, Len(places)) /\ GoesOn(q, pos, w)
      BY <3>4, Zenon DEF Binds
    <3>6. r.err = err /\ r.pos = pos
      BY <3>5 DEF Rewrites
    <3>7. CASE err # NoError
      <4>1. after[k1] = r
        BY <3>3, <3>6, <3>7, Zenon DEF InNext
      <4> QED
        BY <3>4, <4>1
    <3>8. CASE err = NoError
      <4> DEFINE p == nextPlaceholder(q, pos)
      <4>1. after[k1] = InTurn(q, a, k1, p, Rewrites(NoError, pos, w, places))
        BY <3>3, <3>5, <3>6, <3>8, Zenon DEF InNext, a
      <4>2. p = nextPlaceholder(q, pos)
        OBVIOUS
      <4> HIDE DEF p
      <4>3. Binds(q, InTurn(q, a, k1, p, Rewrites(NoError, pos, w, places)))
        BY <3>1, <3>2, <3>5, <3>8, <4>2, InTurns DEF a
      <4> QED
        BY <4>1, <4>3
    <3> QED
      BY <3>7, <3>8
  <2>2. k1 \in Nat
    OBVIOUS
  <2> HIDE DEF after, k1
  <2>3. k1 \in S
    BY <2>1, <2>2
  <2> QED
    BY <2>3 DEF k1
<1>4. Binds(q, after[n])
  <2>1. S \in SUBSET Nat
    OBVIOUS
  <2>2. n \in S
    <3> HIDE DEF S
    <3> QED
      BY <1>1, <1>2, <1>3, <2>1, Upward
  <2> HIDE DEF after, n
  <2> QED
    BY <1>1, <2>2
<1> HIDE DEF after, n
<1>5. InLoop(q, as) = after[n]
  BY <1>1, InSteps DEF after, n
<1> QED
  BY <1>4, <1>5

\* What In returns without an error has a placeholder for every argument.
LEMMA InRestBinds ==
  ASSUME NEW q \in Query, NEW r, Binds(q, r), InRest(q, r).err = NoError
  PROVE  /\ InRest(q, r).query \in Query
         /\ Len(Marks(InRest(q, r).query)[1]) = Len(InRest(q, r).args)
<1>1. PICK err, pos, w, places :
        /\ r = Rewrites(err, pos, w, places)
        /\ err = NoError =>
             places \in Seq(Place) /\ Counts(w, Len(places)) /\ GoesOn(q, pos, w)
  BY Zenon DEF Binds
<1>2. r.err = err /\ r.pos = pos /\ r.query = w /\ r.args = places
  BY <1>1 DEF Rewrites
<1> DEFINE many == "few arguments"
           p == nextPlaceholder(q, r.pos)
           out == InRest(q, r)
           done == [err |-> NoError, query |-> r.query \o SubSeq(q, r.pos, Len(q)), args |-> r.args]
<1>3. many # NoError
  BY Zenon DEF NoError
<1>4. out = IF r.err # NoError THEN Failed(r.err)
            ELSE IF p.idx # 0 THEN Failed(many)
            ELSE done
  BY Zenon DEF InRest, NoError
<1>5. \A why : Failed(why).err = why
  BY DEF Failed
<1>6. p = nextPlaceholder(q, pos)
  BY <1>2
<1>7. out.err = NoError
  OBVIOUS
<1> HIDE DEF many, out, p
<1>8. err = NoError /\ p.idx = 0 /\ out = done
  <2> HIDE DEF done
  <2> QED
    BY <1>2, <1>3, <1>4, <1>5, <1>7
<1>9. pos \in 1..(Len(q) + 1)
  BY <1>1, <1>8 DEF GoesOn
<1>10. Marks(q)[pos] = <<>>
  BY <1>6, <1>8, <1>9, NextIsHead
<1>11. LET z == w \o SubSeq(q, pos, Len(q)) IN z \in Query /\ Len(Marks(z)[1]) = Len(places)
  BY <1>1, <1>8, <1>10, CountsRest
<1>12. out.query = w \o SubSeq(q, pos, Len(q)) /\ out.args = places
  BY <1>2, <1>8
<1> QED
  BY <1>11, <1>12 DEF out

\* A call being written has a query and arguments.
CallInv == TextInv /\ args \in Seq(Arg)

\* What is written and what is passed have the types the algorithms expect.
THEOREM CallIsTyped == Spec => []CallInv
<1>1. Init => args \in Seq(Arg)
  BY DEF Init
<1>2. TextInv /\ args \in Seq(Arg) /\ [Next]_vars => (args \in Seq(Arg))'
  <2> SUFFICES ASSUME TextInv, args \in Seq(Arg), [Next]_vars PROVE args' \in Seq(Arg)
    OBVIOUS
  <2>1. ASSUME NEW f \in workload.fragments, Write(f) PROVE args' \in Seq(Arg)
    BY <2>1 DEF Write
  <2>2. ASSUME NEW a \in workload.args, Pass(a) PROVE args' \in Seq(Arg)
    <3>1. a \in Arg
      BY WorkloadAssumption DEF TextInv
    <3> QED
      BY <2>2, <3>1, AppendProperties DEF Pass
  <2>3. CASE UNCHANGED vars
    BY <2>3 DEF vars
  <2> QED
    BY <2>1, <2>2, <2>3 DEF Next
<1> QED
  BY <1>1, <1>2, TextIsQuery, PTL DEF Spec, CallInv

\* What autoIn has rewritten has a placeholder for every argument.
LEMMA AutoInBinds ==
  ASSUME NEW q \in Query, NEW as \in Seq(Arg), needsInRewrite(as), autoIn(q, as).err = NoError
  PROVE  Len(RebindVars(autoIn(q, as).query)) = Len(autoIn(q, as).args)
<1> DEFINE r == autoIn(q, as)
           bad == \E k \in DOMAIN as : as[k].kind \in {"bad", "failing"} \/ (as[k].kind = "list" /\ as[k].len = 0)
           refused == "argument"
           rest == InRest(q, InLoop(q, as))
<1>1. ~(\A k \in DOMAIN as : as[k].kind = "value")
  BY DEF needsInRewrite
<1>2. r = In(q, as)
  BY Zenon DEF autoIn
<1>3. r = IF bad THEN Failed(refused) ELSE rest
  BY <1>1, <1>2, Zenon DEF In
<1>4. refused # NoError
  BY Zenon DEF NoError
<1>5. Failed(refused).err = refused
  BY DEF Failed
<1>6. r.err = NoError
  OBVIOUS
<1> HIDE DEF r, bad, refused, rest
<1>7. r = rest
  BY <1>3, <1>4, <1>5, <1>6
<1>8. rest.err = NoError
  BY <1>6, <1>7
<1>9. rest.query \in Query /\ Len(Marks(rest.query)[1]) = Len(rest.args)
  BY <1>8, InBinds, InRestBinds DEF rest
<1>10. RebindVars(r.query) = Marks(r.query)[1]
  BY <1>7, <1>9, RebindWalk DEF RebindVars
<1> QED
  BY <1>7, <1>9, <1>10 DEF r

\* Every query and all arguments that a program can pass: whenever autoIn rewrites the
\* call, because a slice or a wrapper is among the arguments, Rebind finds as many placeholders
\* in its query as there are arguments with it.  (Plain values autoIn passes on without
\* counting, named.go:741; a driver counts them.)
THEOREM PlaceholdersAreBound == Spec => []EveryPlaceholderIsBound
<1>1. CallInv => EveryPlaceholderIsBound
  <2> SUFFICES ASSUME CallInv, needsInRewrite(args), autoIn(Text, args).err = NoError
               PROVE  Len(RebindVars(autoIn(Text, args).query)) = Len(autoIn(Text, args).args)
    BY Zenon DEF EveryPlaceholderIsBound, NoError
  <2>1. Text \in Query /\ args \in Seq(Arg)
    BY FlattenType DEF CallInv, TextInv, Text, Query
  <2> QED
    BY <2>1, AutoInBinds
<1> QED
  BY <1>1, CallIsTyped, PTL

-----------------------------------------------------------------------------
(* What In takes for an IN list                                            *)

\* A ( of SQL text at o, with only blanks between it and pos.
OpenAt(q, o, pos) == q[o] = "(" /\ o \notin Protected(q) /\ Blank(q, o + 1, pos - 1)

\* The ( that a search from start on keeps in mind at pos is the one that stands there,
\* and 0 says that there is none.
Opens(q, start, pos, paren) ==
  /\ paren = 0 \/ paren \in start..(pos - 1)
  /\ \A o \in start..(pos - 1) : OpenAt(q, o, pos) <=> o = paren

\* The bytes that In looks for are no blanks.
LEMMA SolidBytes ==
  /\ "(" \notin isASCIISpace /\ ")" \notin isASCIISpace /\ "?" \notin isASCIISpace
  /\ "n" \notin isASCIISpace /\ "i" \notin isASCIISpace
  /\ "[" \notin isASCIISpace /\ "$" \notin isASCIISpace
  /\ "-" \notin isASCIISpace /\ "/" \notin isASCIISpace
  /\ \A c \in Quote : c \notin isASCIISpace
BY Zenon DEF isASCIISpace, Quote

\* What scanSkipSegment (lexer.go:47) skips does not begin with a blank.
LEMMA SegmentIsSolid ==
  ASSUME NEW q \in Query, NEW i \in 1..Len(q), scanSkipSegment(q, i) # i
  PROVE  q[i] \notin isASCIISpace
<1>1. \/ q[i] \in Quote \cup {"[", "$"}
      \/ q[i] = "-" /\ At(q, i + 1) = "-"
      \/ q[i] = "/" /\ At(q, i + 1) = "*"
  BY SegmentWays
<1> QED
  BY <1>1, SolidBytes, Zenon

\* Normal text begins with normal text.
LEMMA ReadyAtStart ==
  ASSUME NEW q \in Query
  PROVE  Ready(q, 1)
<1>1. Region(q)[1 - 1] = Normal
  BY RegionSteps
<1> QED
  BY <1>1, StaysNormal

\* A byte of normal text where no segment begins: it is no protected one, and normal
\* text goes on behind it.
LEMMA ReadsNormal ==
  ASSUME NEW q \in Query, NEW i \in 1..Len(q), Ready(q, i), scanSkipSegment(q, i) = i
  PROVE  i \notin Protected(q) /\ Ready(q, i + 1)
<1>1. Region(q)[i] = Normal
  BY Segments
<1>2. i + 1 \in Nat /\ i + 1 >= 1 /\ (i + 1) - 1 = i
  OBVIOUS
<1>3. Ready(q, i + 1)
  BY <1>1, <1>2, StaysNormal
<1>4. Normal.in = "normal"
  BY DEF Normal
<1>5. i \notin Protected(q)
  BY <1>1, <1>4 DEF Protected
<1> QED
  BY <1>3, <1>5

\* Behind ?? normal text goes on.
LEMMA ReadsDoubled ==
  ASSUME NEW q \in Query, NEW i \in 1..Len(q), Ready(q, i), scanSkipSegment(q, i) = i,
         At(q, i + 1) = "?"
  PROVE  i + 1 \in 1..Len(q) /\ q[i + 1] = "?" /\ i + 1 \notin Protected(q) /\ Ready(q, i + 2)
<1>1. i + 1 \in 1..Len(q) /\ q[i + 1] = "?"
  BY AtValue, NoByteIsNone
<1>2. Ready(q, i + 1)
  BY ReadsNormal
<1>3. "?" \notin Quote /\ "?" # "[" /\ "?" # "$" /\ "?" # "-" /\ "?" # "/"
  BY Zenon DEF Quote
<1>4. scanSkipSegment(q, i + 1) = i + 1
  BY <1>1, <1>3, SegmentWays
<1>5. (i + 1) + 1 = i + 2
  OBVIOUS
<1> DEFINE j == i + 1
<1> HIDE DEF j
<1>6. j \notin Protected(q) /\ Ready(q, j + 1)
  BY <1>1, <1>2, <1>4, ReadsNormal DEF j
<1> QED
  BY <1>1, <1>5, <1>6 DEF j

\* A byte that is no blank, and from it on no ( of SQL text: then none is kept in mind.
LEMMA OpensNone ==
  ASSUME NEW q \in Query, NEW start \in Nat, start >= 1, NEW next \in Nat,
         NEW s \in start..(next - 1), q[s] \notin isASCIISpace,
         \A o \in s..(next - 1) : ~(q[o] = "(" /\ o \notin Protected(q))
  PROVE  Opens(q, start, next, 0)
<1>1. ASSUME NEW o \in start..(next - 1), OpenAt(q, o, next) PROVE FALSE
  <2>1. q[o] = "(" /\ o \notin Protected(q) /\ Blank(q, o + 1, next - 1)
    BY <1>1 DEF OpenAt
  <2>2. CASE s \in (o + 1)..(next - 1)
    BY <2>1, <2>2 DEF Blank
  <2>3. CASE ~(s \in (o + 1)..(next - 1))
    <3>1. o \in s..(next - 1)
      BY <2>3
    <3> QED
      BY <2>1, <3>1
  <2> QED
    BY <2>2, <2>3
<1>2. \A o \in start..(next - 1) : o # 0
  OBVIOUS
<1> QED
  BY <1>1, <1>2 DEF Opens

\* What is kept in mind behind a byte of SQL text.
LEMMA OpensKept ==
  ASSUME NEW q \in Query, NEW start \in 1..Len(q), NEW i \in start..Len(q), NEW paren,
         Opens(q, start, i, paren), i \notin Protected(q)
  PROVE  Opens(q, start, i + 1, KeptParen(q, i, paren))
<1>1. Len(q) \in Nat /\ start \in Nat /\ start >= 1 /\ i \in Nat /\ (i + 1) - 1 = i
  BY QueryBytes
<1>2. CASE q[i] = "("
  <2>1. KeptParen(q, i, paren) = i
    BY <1>2 DEF KeptParen
  <2>2. OpenAt(q, i, i + 1)
    <3>1. Blank(q, i + 1, i)
      BY <1>1 DEF Blank
    <3> QED
      BY <1>1, <1>2, <3>1 DEF OpenAt
  <2>3. ASSUME NEW o \in start..i, OpenAt(q, o, i + 1) PROVE o = i
    <3>1. Blank(q, o + 1, i)
      BY <1>1, <2>3 DEF OpenAt
    <3>2. q[i] \notin isASCIISpace
      BY <1>2, SolidBytes
    <3> QED
      BY <1>1, <3>1, <3>2 DEF Blank
  <2>4. i \in start..i
    BY <1>1
  <2> QED
    BY <1>1, <2>1, <2>2, <2>3, <2>4 DEF Opens
<1>3. CASE q[i] # "(" /\ q[i] \in isASCIISpace
  <2>1. KeptParen(q, i, paren) = paren
    BY <1>3 DEF KeptParen
  <2>2. ASSUME NEW o \in start..(i - 1) PROVE OpenAt(q, o, i + 1) <=> OpenAt(q, o, i)
    <3>1. Blank(q, o + 1, i) <=> Blank(q, o + 1, i - 1)
      BY <1>1, <1>3 DEF Blank
    <3> QED
      BY <1>1, <3>1 DEF OpenAt
  <2>3. ~OpenAt(q, i, i + 1)
    BY <1>3 DEF OpenAt
  <2>4. ASSUME NEW o \in start..i PROVE OpenAt(q, o, i + 1) <=> o = paren
    <3>1. CASE o = i
      <4>1. paren # i
        BY <1>1 DEF Opens
      <4> QED
        BY <2>3, <3>1, <4>1
    <3>2. CASE o # i
      <4>1. o \in start..(i - 1)
        BY <1>1, <3>2
      <4> QED
        BY <2>2, <4>1 DEF Opens
    <3> QED
      BY <3>1, <3>2
  <2>5. paren = 0 \/ paren \in start..i
    BY <1>1 DEF Opens
  <2> QED
    BY <1>1, <2>1, <2>4, <2>5 DEF Opens
<1>4. CASE q[i] # "(" /\ q[i] \notin isASCIISpace
  <2>1. KeptParen(q, i, paren) = 0
    BY <1>4 DEF KeptParen
  <2>2. \A o \in i..i : o = i
    BY <1>1
  <2> QED
    BY <1>1, <1>4, <2>1, <2>2, OpensNone
<1> QED
  BY <1>2, <1>3, <1>4

\* The search moves on, or has found a placeholder, with the right ( in mind.
Opening(q, start, i, paren, b, r) ==
  \/ \E next \in (i + 1)..(Len(q) + 1) : \E kept :
       r = Sought(next, kept, 0, b) /\ Ready(q, next) /\ Opens(q, start, next, kept)
  \/ r = Sought(i, paren, i, Judged(q, i, paren)) /\ q[i] = "?" /\ Ready(q, i + 1)

\* One turn of nextPlaceholder keeps the right ( in mind.
LEMMA OpensTurns ==
  ASSUME NEW q \in Query, NEW start \in 1..Len(q), NEW i \in start..Len(q), NEW paren, NEW b,
         Ready(q, i), Opens(q, start, i, paren)
  PROVE  Opening(q, start, i, paren, b, PlaceholderTurn(q, Sought(i, paren, 0, b)))
<1> DEFINE e == scanSkipSegment(q, i)
           r == PlaceholderTurn(q, Sought(i, paren, 0, b))
<1>1. /\ i \in 1..Len(q) /\ i \in Nat /\ start \in Nat /\ start >= 1 /\ Len(q) \in Nat
      /\ i + 1 \in (i + 1)..(Len(q) + 1) /\ (i + 1) - 1 = i /\ (i + 2) - 1 = i + 1
  BY QueryBytes
<1>2. /\ e > i => r = Sought(e, 0, 0, b)
      /\ ~(e > i) /\ q[i] # "?" => r = Sought(i + 1, KeptParen(q, i, paren), 0, b)
      /\ ~(e > i) /\ q[i] = "?" /\ At(q, i - 1) = "\\" => r = Sought(i + 1, 0, 0, b)
      /\ ~(e > i) /\ q[i] = "?" /\ At(q, i - 1) # "\\" /\ At(q, i + 1) = "?" => r = Sought(i + 2, 0, 0, b)
      /\ ~(e > i) /\ q[i] = "?" /\ At(q, i - 1) # "\\" /\ At(q, i + 1) # "?" =>
           r = Sought(i, paren, i, Judged(q, i, paren))
  <2>1. e = scanSkipSegment(q, i) /\ r = PlaceholderTurn(q, Sought(i, paren, 0, b))
    OBVIOUS
  <2> HIDE DEF e, r
  <2> QED
    BY <2>1, PlaceholderWays
<1>3. e \in i..(Len(q) + 1) /\ e = scanSkipSegment(q, i)
  BY <1>1, Segments
<1> HIDE DEF e, r
<1> SUFFICES Opening(q, start, i, paren, b, r)
  BY DEF r
<1>4. ASSUME NEW next \in (i + 1)..(Len(q) + 1), NEW kept,
             r = Sought(next, kept, 0, b), Ready(q, next), Opens(q, start, next, kept)
      PROVE  Opening(q, start, i, paren, b, r)
  BY <1>4, Zenon DEF Opening
<1>5. CASE e > i
  <2>1. e # i /\ e \in (i + 1)..(Len(q) + 1) /\ e \in Nat
    BY <1>1, <1>3, <1>5
  <2>2. Ready(q, e) /\ \A j \in i..(e - 1) : Region(q)[j].in # "normal"
    BY <1>1, <1>3, <2>1, Segments
  <2>3. \A j \in i..(e - 1) : j \in Protected(q)
    BY <1>1, <2>1, <2>2 DEF Protected
  <2>4. i \in start..(e - 1) /\ q[i] \notin isASCIISpace
    BY <1>1, <1>3, <2>1, SegmentIsSolid
  <2>5. Opens(q, start, e, 0)
    BY <1>1, <2>1, <2>3, <2>4, OpensNone
  <2> QED
    BY <1>2, <1>4, <1>5, <2>1, <2>2, <2>5
<1>6. CASE ~(e > i)
  <2>1. e = i
    BY <1>1, <1>3, <1>6
  <2>2. i \notin Protected(q) /\ Ready(q, i + 1)
    BY <1>1, <1>3, <2>1, ReadsNormal
  <2>3. CASE q[i] # "?"
    <3>1. Opens(q, start, i + 1, KeptParen(q, i, paren))
      BY <2>2, OpensKept
    <3> QED
      BY <1>1, <1>2, <1>4, <1>6, <2>2, <2>3, <3>1
  <2>4. CASE q[i] = "?" /\ At(q, i - 1) = "\\"
    <3>1. q[i] # "(" /\ q[i] \notin isASCIISpace
      BY <2>4, SolidBytes
    <3>2. i \in start..((i + 1) - 1) /\ i + 1 \in Nat /\ \A o \in i..((i + 1) - 1) : o = i
      BY <1>1
    <3>3. Opens(q, start, i + 1, 0)
      BY <1>1, <3>1, <3>2, OpensNone
    <3> QED
      BY <1>1, <1>2, <1>4, <1>6, <2>2, <2>4, <3>3
  <2>5. CASE q[i] = "?" /\ At(q, i - 1) # "\\" /\ At(q, i + 1) = "?"
    <3>1. i + 1 \in 1..Len(q) /\ q[i + 1] = "?" /\ Ready(q, i + 2)
      BY <1>1, <1>3, <2>1, <2>5, ReadsDoubled
    <3>2. q[i + 1] \notin isASCIISpace /\ q[i + 1] # "("
      BY <3>1, SolidBytes
    <3>3. /\ i + 1 \in start..((i + 2) - 1) /\ i + 2 \in Nat /\ i + 2 \in (i + 1)..(Len(q) + 1)
          /\ \A o \in (i + 1)..((i + 2) - 1) : o = i + 1
      BY <1>1, <3>1
    <3>4. Opens(q, start, i + 2, 0)
      BY <1>1, <3>2, <3>3, OpensNone
    <3> QED
      BY <1>2, <1>4, <1>6, <2>5, <3>1, <3>3, <3>4
  <2>6. CASE q[i] = "?" /\ At(q, i - 1) # "\\" /\ At(q, i + 1) # "?"
    <3>1. r = Sought(i, paren, i, Judged(q, i, paren))
      BY <1>2, <1>6, <2>6
    <3> QED
      BY <2>2, <2>6, <3>1, Zenon DEF Opening
  <2> QED
    BY <2>3, <2>4, <2>5, <2>6
<1> QED
  BY <1>5, <1>6

\* What nextPlaceholder holds while it searches from start on: the byte it has come to, in
\* normal text, with the ( kept in mind, or the placeholder it has found and judged.
Holding(q, start, r) ==
  \/ \E pos \in start..(Len(q) + 1) : \E paren, b :
       r = Sought(pos, paren, 0, b) /\ Ready(q, pos) /\ Opens(q, start, pos, paren)
  \/ \E i \in start..Len(q) : \E paren :
       /\ r = Sought(i, paren, i, Judged(q, i, paren))
       /\ q[i] = "?" /\ Ready(q, i + 1) /\ Opens(q, start, i, paren)

\* One turn of the search holds on to it.
LEMMA HoldingTurns ==
  ASSUME NEW q \in Query, NEW start \in 1..(Len(q) + 1), NEW r, Holding(q, start, r)
  PROVE  Holding(q, start, SeekNext(q, r))
<1>1. Len(q) \in Nat
  BY QueryBytes
<1>2. ASSUME NEW i \in start..Len(q), NEW paren,
             r = Sought(i, paren, i, Judged(q, i, paren))
      PROVE  Holding(q, start, SeekNext(q, r))
  <2>1. r.idx = i
    BY <1>2 DEF Sought
  <2>2. r.idx # 0
    BY <2>1
  <2>3. SeekNext(q, r) = r
    BY <2>2 DEF SeekNext
  <2> QED
    BY <2>3
<1>3. ASSUME NEW pos \in start..(Len(q) + 1), NEW paren, NEW b,
             r = Sought(pos, paren, 0, b), Ready(q, pos), Opens(q, start, pos, paren)
      PROVE  Holding(q, start, SeekNext(q, r))
  <2>1. r.idx = 0 /\ r.pos = pos
    BY <1>3 DEF Sought
  <2>2. CASE pos > Len(q)
    <3>1. SeekNext(q, r) = r
      BY <2>1, <2>2 DEF SeekNext
    <3> QED
      BY <3>1
  <2>3. CASE ~(pos > Len(q))
    <3> DEFINE next == SeekNext(q, r)
    <3>1. next = PlaceholderTurn(q, Sought(pos, paren, 0, b))
      BY <1>3, <2>1, <2>3, Zenon DEF SeekNext
    <3>2. pos \in start..Len(q) /\ start \in 1..Len(q)
      BY <1>1, <2>3
    <3>3. Opening(q, start, pos, paren, b, next)
      BY <1>3, <3>1, <3>2, OpensTurns
    <3> HIDE DEF next
    <3>4. ASSUME NEW pos1 \in (pos + 1)..(Len(q) + 1), NEW kept,
                 next = Sought(pos1, kept, 0, b), Ready(q, pos1), Opens(q, start, pos1, kept)
          PROVE  Holding(q, start, next)
      <4>1. pos1 \in start..(Len(q) + 1)
        BY <1>1, <3>2
      <4> QED
        BY <3>4, <4>1, Zenon DEF Holding
    <3>5. ASSUME next = Sought(pos, paren, pos, Judged(q, pos, paren)), q[pos] = "?", Ready(q, pos + 1)
          PROVE  Holding(q, start, next)
      BY <1>3, <3>2, <3>5, Zenon DEF Holding
    <3>6. Holding(q, start, next)
      BY <3>3, <3>4, <3>5, Zenon DEF Opening
    <3> QED
      BY <3>6 DEF next
  <2> QED
    BY <2>2, <2>3
<1> QED
  BY <1>2, <1>3, Zenon DEF Holding

\* The placeholder that nextPlaceholder finds, with the ( it was judged by.
LEMMA NextIsJudged ==
  ASSUME NEW q \in Query, NEW start \in 1..(Len(q) + 1), Ready(q, start),
         NEW p, p = nextPlaceholder(q, start), p.idx # 0
  PROVE  /\ p.idx \in start..Len(q) /\ q[p.idx] = "?" /\ Ready(q, p.idx + 1)
         /\ \E paren : p.inParen = Judged(q, p.idx, paren) /\ Opens(q, start, p.idx, paren)
<1> DEFINE n == Len(q) + 1 - start
           after == SeekAfter(q, start)
           S == {k \in Nat : k <= n => Holding(q, start, after[k])}
<1>1. Len(q) \in Nat /\ n \in Nat /\ start \in Nat
  BY QueryBytes
<1>2. 0 \in S
  <2>1. after[0] = Sought(start, 0, 0, FALSE)
    BY SeekSteps DEF SeekStart, Sought
  <2>2. start \in start..(Len(q) + 1)
    BY <1>1
  <2>3. Opens(q, start, start, 0)
    BY <1>1 DEF Opens
  <2> HIDE DEF after
  <2>4. Holding(q, start, after[0])
    BY <2>1, <2>2, <2>3, Zenon DEF Holding
  <2> QED
    BY <2>4
<1>3. ASSUME NEW k \in Nat, k \in S PROVE k + 1 \in S
  <2>1. ASSUME k + 1 <= n PROVE Holding(q, start, after[k + 1])
    <3>1. k + 1 \in 1..n /\ (k + 1) - 1 = k /\ k <= n
      BY <1>1, <2>1
    <3>2. after[k + 1] = SeekNext(q, after[k])
      BY <3>1, SeekSteps
    <3>3. Holding(q, start, after[k])
      BY <1>3, <3>1
    <3> HIDE DEF after
    <3>4. Holding(q, start, SeekNext(q, after[k]))
      BY <3>3, HoldingTurns
    <3> QED
      BY <3>2, <3>4
  <2> QED
    BY <2>1
<1>4. Holding(q, start, after[n])
  <2>1. S \in SUBSET Nat
    OBVIOUS
  <2>2. n \in S
    <3> HIDE DEF S
    <3> QED
      BY <1>1, <1>2, <1>3, <2>1, Upward
  <2> QED
    BY <1>1, <2>2
<1>5. p = after[n]
  BY SeekSteps
<1> HIDE DEF after
<1>6. ASSUME NEW pos, NEW paren, NEW b, p = Sought(pos, paren, 0, b) PROVE FALSE
  BY <1>6 DEF Sought
<1>7. PICK i \in start..Len(q) : \E paren :
        /\ p = Sought(i, paren, i, Judged(q, i, paren))
        /\ q[i] = "?" /\ Ready(q, i + 1) /\ Opens(q, start, i, paren)
  BY <1>4, <1>5, <1>6, Zenon DEF Holding
<1>8. PICK paren : /\ p = Sought(i, paren, i, Judged(q, i, paren))
                   /\ q[i] = "?" /\ Ready(q, i + 1) /\ Opens(q, start, i, paren)
  BY <1>7, Zenon
<1>9. p.idx = i /\ p.inParen = Judged(q, i, paren)
  <2> DEFINE b == Judged(q, i, paren)
  <2>1. p = Sought(i, paren, i, b)
    BY <1>8
  <2> HIDE DEF b
  <2>2. p.idx = i /\ p.inParen = b
    BY <2>1 DEF Sought
  <2> QED
    BY <2>2 DEF b
<1> QED
  BY <1>8, <1>9, Zenon

\* A set of naturals that is not empty and has a bound has a greatest one.
LEMMA GreatestOf ==
  ASSUME NEW S \in SUBSET Nat, S # {}, NEW n \in Nat, \A m \in S : m <= n
  PROVE  Max(S) \in S /\ \A m \in S : m <= Max(S)
<1> DEFINE T == {k \in Nat : \A m \in S : m <= k}
<1>1. T \in SUBSET Nat /\ n \in T
  OBVIOUS
<1> DEFINE least == Min(T)
<1>2. least \in T /\ \A k \in T : least <= k
  <2> HIDE DEF T
  <2> QED
    BY <1>1, LeastOf
<1> HIDE DEF least
<1>3. least \in S
  <2> SUFFICES ASSUME least \notin S PROVE FALSE
    OBVIOUS
  <2>1. \A m \in S : m < least
    BY <1>2
  <2>2. PICK m \in S : TRUE
    OBVIOUS
  <2>3. least - 1 \in T
    BY <1>2, <2>1, <2>2
  <2> QED
    BY <1>2, <2>3
<1>4. \E m \in S : \A k \in S : m >= k
  BY <1>2, <1>3
<1>5. Max(S) \in S /\ \A k \in S : Max(S) >= k
  BY <1>4 DEF Max
<1> QED
  BY <1>5

\* The bytes that are no blanks, and the last one of them before i, 0 for none.
Solid(q) == (1..Len(q)) \ {i \in 1..Len(q) : q[i] \in isASCIISpace}
LastSolid(q, i) == Max({0} \cup {j \in Solid(q) : j < i})

\* The last byte before i that is no blank has only blanks behind it.
LEMMA LastSolidIs ==
  ASSUME NEW q \in Query, NEW i \in 1..(Len(q) + 1)
  PROVE  /\ LastSolid(q, i) \in 0..(i - 1)
         /\ Blank(q, LastSolid(q, i) + 1, i - 1)
         /\ LastSolid(q, i) # 0 => q[LastSolid(q, i)] \notin isASCIISpace
         /\ \A o \in 1..(i - 1) : q[o] \notin isASCIISpace /\ Blank(q, o + 1, i - 1) => o = LastSolid(q, i)
<1> DEFINE S == {0} \cup {j \in Solid(q) : j < i}
           last == Max(S)
<1>1. Len(q) \in Nat /\ i \in Nat
  BY QueryBytes
<1>2. \A j : j \in Solid(q) <=> j \in 1..Len(q) /\ q[j] \notin isASCIISpace
  BY DEF Solid
<1>3. S \in SUBSET Nat /\ S # {} /\ \A m \in S : m <= i - 1
  BY <1>1, <1>2
<1>4. i - 1 \in Nat
  BY <1>1
<1>5. last \in S /\ \A m \in S : m <= last
  <2> HIDE DEF S
  <2> QED
    BY <1>3, <1>4, GreatestOf
<1>6. LastSolid(q, i) = last
  BY DEF LastSolid
<1> HIDE DEF last
<1>7. last \in 0..(i - 1) /\ (last # 0 => q[last] \notin isASCIISpace)
  BY <1>1, <1>2, <1>3, <1>5
<1>8. Blank(q, last + 1, i - 1)
  <2>1. ASSUME NEW j \in (last + 1)..(i - 1), q[j] \notin isASCIISpace PROVE FALSE
    <3>1. j \in S
      BY <1>1, <1>2, <1>7, <2>1
    <3> QED
      BY <1>1, <1>5, <1>7, <3>1
  <2> QED
    BY <2>1 DEF Blank
<1>9. ASSUME NEW o \in 1..(i - 1), q[o] \notin isASCIISpace, Blank(q, o + 1, i - 1) PROVE o = last
  <2>1. o \in S
    BY <1>1, <1>2, <1>9
  <2>2. o <= last
    BY <1>5, <2>1
  <2>3. ~(last \in (o + 1)..(i - 1))
    BY <1>1, <1>7, <1>9 DEF Blank
  <2> QED
    BY <1>1, <1>7, <2>2, <2>3
<1> QED
  BY <1>6, <1>7, <1>8, <1>9

\* hasMatchingCloseParen finds a ) when that is the next byte that is no blank.
LEMMA ClosesNext ==
  ASSUME NEW q \in Query, NEW x \in 1..Len(q), NEW S, S = {j \in Solid(q) : j > x}
  PROVE  hasMatchingCloseParen(q, x + 1) <=> S # {} /\ q[Min(S)] = ")"
<1>1. Len(q) \in Nat /\ S \in SUBSET Nat
  BY QueryBytes DEF Solid
<1>2. \A j : j \in S <=> j \in (x + 1)..Len(q) /\ q[j] \notin isASCIISpace
  BY <1>1 DEF Solid
<1>3. ASSUME hasMatchingCloseParen(q, x + 1) PROVE S # {} /\ q[Min(S)] = ")"
  <2>1. PICK i \in (x + 1)..Len(q) : q[i] = ")" /\ \A j \in (x + 1)..(i - 1) : q[j] \in isASCIISpace
    BY <1>3 DEF hasMatchingCloseParen
  <2>2. i \in S
    BY <1>2, <2>1, SolidBytes
  <2>3. Min(S) \in S /\ Min(S) <= i
    BY <1>1, <2>2, LeastOf
  <2>4. ~(Min(S) \in (x + 1)..(i - 1))
    BY <1>2, <2>1, <2>3
  <2>5. Min(S) = i
    BY <1>1, <1>2, <2>2, <2>3, <2>4
  <2> QED
    BY <2>1, <2>2, <2>5
<1>4. ASSUME S # {}, q[Min(S)] = ")" PROVE hasMatchingCloseParen(q, x + 1)
  <2> DEFINE i == Min(S)
  <2>1. i \in S /\ \A m \in S : i <= m
    BY <1>1, <1>4, LeastOf
  <2>2. q[i] = ")"
    BY <1>4
  <2> HIDE DEF i
  <2>3. i \in (x + 1)..Len(q)
    BY <1>2, <2>1
  <2>4. ASSUME NEW j \in (x + 1)..(i - 1), q[j] \notin isASCIISpace PROVE FALSE
    <3>1. j \in S
      BY <1>1, <1>2, <2>3, <2>4
    <3> QED
      BY <1>1, <2>1, <2>3, <3>1
  <2> QED
    BY <2>2, <2>3, <2>4 DEF hasMatchingCloseParen
<1> QED
  BY <1>3, <1>4

\* InList with the bytes it looks at named.
LEMMA InListIs ==
  ASSUME NEW q, NEW x, NEW open, open = LastSolid(q, x), NEW word, word = LastSolid(q, open),
         NEW S, S = {j \in Solid(q) : j > x}
  PROVE  InList(q, x) <=> /\ At(q, open) = "(" /\ S # {} /\ q[Min(S)] = ")"
                          /\ word >= 2 /\ q[word] = "n" /\ q[word - 1] = "i"
                          /\ {word - 1, word, open} \cap Protected(q) = {}
                          /\ At(q, word - 2) \notin isIdentByte \cup {"."}
BY DEF InList, LastSolid, Solid

\* What nextPlaceholder takes for an IN list is one, unless a comment ends in the word.
LEMMA JudgedRight ==
  ASSUME NEW q \in Query, ~InEndsComment(q),
         NEW start \in 1..(Len(q) + 1), start = 1 \/ q[start - 1] = "?",
         NEW x \in start..Len(q), NEW paren, Opens(q, start, x, paren)
  PROVE  Judged(q, x, paren) <=> InList(q, x)
<1> DEFINE open == LastSolid(q, x)
           word == LastSolid(q, open)
           S == {j \in Solid(q) : j > x}
<1>1. Len(q) \in Nat /\ start \in Nat /\ x \in Nat /\ x \in 1..Len(q) /\ x \in 1..(Len(q) + 1)
  BY QueryBytes
<1>2. /\ open \in 0..(x - 1) /\ Blank(q, open + 1, x - 1)
      /\ \A o \in 1..(x - 1) : q[o] \notin isASCIISpace /\ Blank(q, o + 1, x - 1) => o = open
  BY <1>1, LastSolidIs
<1>3. hasMatchingCloseParen(q, x + 1) <=> S # {} /\ q[Min(S)] = ")"
  BY <1>1, ClosesNext
<1>4. InList(q, x) <=> /\ At(q, open) = "(" /\ S # {} /\ q[Min(S)] = ")"
                       /\ word >= 2 /\ q[word] = "n" /\ q[word - 1] = "i"
                       /\ {word - 1, word, open} \cap Protected(q) = {}
                       /\ At(q, word - 2) \notin isIdentByte \cup {"."}
  BY InListIs
<1>5. open # 0 => /\ word \in 0..(open - 1) /\ Blank(q, word + 1, open - 1)
                  /\ \A o \in 1..(open - 1) : q[o] \notin isASCIISpace /\ Blank(q, o + 1, open - 1) => o = word
  <2> SUFFICES ASSUME open # 0
               PROVE  /\ word \in 0..(open - 1) /\ Blank(q, word + 1, open - 1)
                      /\ \A o \in 1..(open - 1) : q[o] \notin isASCIISpace /\ Blank(q, o + 1, open - 1) => o = word
    OBVIOUS
  <2> HIDE DEF open
  <2>1. open \in 1..(Len(q) + 1)
    BY <1>1, <1>2
  <2> QED
    BY <2>1, LastSolidIs
<1> HIDE DEF open, word, S
<1>6. ASSUME Judged(q, x, paren) PROVE InList(q, x)
  <2>1. paren # 0 /\ hasMatchingCloseParen(q, x + 1) /\ precededByIn(q, paren)
    BY <1>6 DEF Judged
  <2>2. paren \in start..(x - 1) /\ OpenAt(q, paren, x)
    BY <2>1 DEF Opens
  <2>3. q[paren] = "(" /\ paren \notin Protected(q) /\ Blank(q, paren + 1, x - 1)
    BY <2>2 DEF OpenAt
  <2>4. paren = open
    BY <1>1, <1>2, <2>2, <2>3, SolidBytes
  <2>5. open # 0 /\ open \in 1..Len(q) /\ open \in Nat
    BY <1>1, <2>2, <2>4
  <2>6. At(q, open) = "("
    BY <2>3, <2>4, <2>5, AtValue
  <2>7. PICK e \in 2..(open - 1) :
          /\ \A j \in (e + 1)..(open - 1) : q[j] \in isASCIISpace
          /\ q[e - 1] = "i" /\ q[e] = "n"
          /\ At(q, e - 2) \notin isIdentByte \cup {"."}
    BY <2>1, <2>4, Zenon DEF precededByIn
  <2>8. e = word
    <3>1. Blank(q, e + 1, open - 1) /\ e \in 1..(open - 1)
      BY <2>7 DEF Blank
    <3>2. q[e] \notin isASCIISpace
      BY <2>7, SolidBytes
    <3> QED
      BY <1>5, <2>5, <3>1, <3>2
  <2>9. {word - 1, word} \cap Protected(q) = {}
    <3>1. q[open] = "(" /\ open \notin Protected(q)
      BY <2>3, <2>4
    <3>2. word \in 2..(open - 1) /\ Blank(q, word + 1, open - 1) /\ q[word - 1] = "i" /\ q[word] = "n"
      BY <1>5, <2>5, <2>7, <2>8
    <3> QED
      BY <2>5, <3>1, <3>2, Zenon DEF InEndsComment
  <2>10. {word - 1, word, open} \cap Protected(q) = {}
    BY <2>3, <2>4, <2>9
  <2>11. word >= 2 /\ q[word] = "n" /\ q[word - 1] = "i"
    BY <2>5, <2>7, <2>8
  <2>12. At(q, word - 2) \notin isIdentByte \cup {"."}
    BY <2>7, <2>8
  <2> QED
    BY <1>3, <1>4, <2>1, <2>6, <2>10, <2>11, <2>12
<1>7. ASSUME InList(q, x) PROVE Judged(q, x, paren)
  <2>1. /\ At(q, open) = "(" /\ S # {} /\ q[Min(S)] = ")"
        /\ word >= 2 /\ q[word] = "n" /\ q[word - 1] = "i"
        /\ {word - 1, word, open} \cap Protected(q) = {}
        /\ At(q, word - 2) \notin isIdentByte \cup {"."}
    BY <1>4, <1>7
  <2>2. NoByte # "("
    BY Zenon DEF NoByte
  <2>3. open \in 1..Len(q) /\ q[open] = "("
    BY <2>1, <2>2, AtValue
  <2>4. open \in start..(x - 1)
    <3>1. CASE start = 1
      BY <1>1, <1>2, <2>3, <3>1
    <3>2. CASE start # 1
      <4>1. q[start - 1] = "?" /\ start - 1 \in Nat
        BY <1>1, <3>2
      <4>2. "?" # "("
        OBVIOUS
      <4>3. open # start - 1
        BY <2>3, <4>1, <4>2
      <4>4. ~(start - 1 \in (open + 1)..(x - 1))
        BY <1>2, <4>1, SolidBytes DEF Blank
      <4> QED
        BY <1>1, <1>2, <2>3, <4>1, <4>3, <4>4
    <3> QED
      BY <3>1, <3>2
  <2>5. OpenAt(q, open, x)
    BY <1>2, <2>1, <2>3 DEF OpenAt
  <2>6. open = paren
    BY <2>4, <2>5 DEF Opens
  <2>7. word \in 2..(open - 1) /\ Blank(q, word + 1, open - 1)
    BY <1>1, <1>5, <2>1, <2>3
  <2>8. precededByIn(q, open)
    <3>1. \A j \in (word + 1)..(open - 1) : q[j] \in isASCIISpace
      BY <2>7 DEF Blank
    <3> QED
      BY <2>1, <2>7, <3>1, Zenon DEF precededByIn
  <2>9. hasMatchingCloseParen(q, x + 1)
    BY <1>3, <2>1
  <2>10. paren # 0
    BY <2>3, <2>6
  <2> QED
    BY <2>6, <2>8, <2>9, <2>10 DEF Judged
<1> QED
  BY <1>6, <1>7

\* What nextPlaceholder says of the placeholder it finds is what the reference says.
LEMMA NextTells ==
  ASSUME NEW q \in Query, ~InEndsComment(q),
         NEW start \in 1..(Len(q) + 1), start = 1 \/ q[start - 1] = "?", Ready(q, start),
         NEW p, p = nextPlaceholder(q, start), p.idx # 0
  PROVE  /\ p.idx \in start..Len(q) /\ q[p.idx] = "?" /\ Ready(q, p.idx + 1)
         /\ p.inParen <=> InList(q, p.idx)
<1>1. /\ p.idx \in start..Len(q) /\ q[p.idx] = "?" /\ Ready(q, p.idx + 1)
      /\ \E paren : p.inParen = Judged(q, p.idx, paren) /\ Opens(q, start, p.idx, paren)
  BY NextIsJudged
<1>2. PICK paren : p.inParen = Judged(q, p.idx, paren) /\ Opens(q, start, p.idx, paren)
  BY <1>1, Zenon
<1>3. Judged(q, p.idx, paren) <=> InList(q, p.idx)
  BY <1>1, <1>2, JudgedRight
<1>4. p.inParen <=> InList(q, p.idx)
  BY <1>2, <1>3, Zenon
<1> QED
  BY <1>1, <1>4

\* The places that the k-th argument should get.
PlacesFor(q, as, k) ==
  IF as[k].kind = "list" \/ (IsSlice(as[k]) /\ InList(q, Marks(q)[1][k]))
  THEN IF as[k].len = 0 THEN Whole(k) ELSE Elements(k, as[k].len)
  ELSE Whole(k)

\* In has come to pos, behind the k placeholders of its first k arguments.
Behind(q, k, pos) ==
  /\ pos \in 1..(Len(q) + 1) /\ (pos = 1 \/ q[pos - 1] = "?") /\ Ready(q, pos)
  /\ \E s \in Seq(Nat) : Len(s) = k /\ Marks(q)[1] = s \o Marks(q)[pos]

\* One more placeholder, written down behind those that were passed.
LEMMA OneMore ==
  ASSUME NEW s \in Seq(Nat), NEW rest \in Seq(Nat), NEW x \in Nat
  PROVE  /\ s \o <<x>> \in Seq(Nat) /\ Len(s \o <<x>>) = Len(s) + 1
         /\ s \o (<<x>> \o rest) = (s \o <<x>>) \o rest
         /\ (s \o (<<x>> \o rest))[Len(s) + 1] = x
<1> DEFINE one == <<x>>
           more == s \o one
<1>1. one \in Seq(Nat) /\ Len(one) = 1 /\ one[1] = x
  OBVIOUS
<1> HIDE DEF one
<1>2. Len(s) \in Nat /\ Len(rest) \in Nat
  BY LenProperties
<1>3. more \in Seq(Nat) /\ Len(more) = Len(s) + 1 /\ more[Len(s) + 1] = x
  <2>1. more \in Seq(Nat) /\ Len(more) = Len(s) + Len(one)
    BY <1>1, ConcatProperties
  <2>2. Len(s) + 1 \in 1..Len(more) /\ ~(Len(s) + 1 <= Len(s)) /\ (Len(s) + 1) - Len(s) = 1
    BY <1>1, <1>2, <2>1
  <2>3. more[Len(s) + 1] = one[(Len(s) + 1) - Len(s)]
    BY <1>1, <1>2, <2>1, <2>2, ConcatProperties
  <2> QED
    BY <1>1, <2>1, <2>2, <2>3
<1> HIDE DEF more
<1>4. (more \o rest)[Len(s) + 1] = x
  <2>1. Len(s) + 1 \in 1..Len(more \o rest) /\ Len(s) + 1 <= Len(more)
    <3>1. Len(more \o rest) = Len(more) + Len(rest)
      BY <1>3, ConcatProperties
    <3> QED
      BY <1>2, <1>3, <3>1
  <2>2. (more \o rest)[Len(s) + 1] = more[Len(s) + 1]
    BY <1>3, <2>1, ConcatProperties
  <2> QED
    BY <1>3, <2>2
<1>5. s \o (one \o rest) = more \o rest
  BY <1>1, ConcatNat DEF more
<1> QED
  BY <1>3, <1>4, <1>5 DEF one, more

\* A turn of In that gives the k-th argument its places, or fails.
PutsDown(q, as, k, pos, w, places, r1) ==
  \/ \E err : r1 = Rewrites(err, pos, w, places) /\ err # NoError
  \/ \E next, w1 : r1 = Rewrites(NoError, next, w1, places \o PlacesFor(q, as, k)) /\ Behind(q, k, next)

\* One turn of In: the argument gets the places it should get.
LEMMA PlacesTurns ==
  ASSUME NEW q \in Query, ~InEndsComment(q), NEW as \in Seq(Arg), NEW k \in 1..Len(as),
         NEW pos, NEW w, NEW places, Behind(q, k - 1, pos), NEW p, p = nextPlaceholder(q, pos),
         NEW r1, r1 = InTurn(q, as[k], k, p, Rewrites(NoError, pos, w, places))
  PROVE  PutsDown(q, as, k, pos, w, places, r1)
<1> DEFINE a == as[k]
           x == p.idx
           y == w \o SubSeq(q, pos, x)
<1>1. a \in Arg
  BY ElementOfSeq, LenProperties
<1>2. a.len \in Nat /\ k \in Nat /\ Len(q) \in Nat /\ pos \in 1..(Len(q) + 1)
  <2>1. k \in Nat /\ Len(q) \in Nat
    BY QueryBytes, LenProperties
  <2>2. pos \in 1..(Len(q) + 1)
    BY DEF Behind
  <2>3. a.len \in Nat
    BY <1>1 DEF Arg
  <2> QED
    BY <2>1, <2>2, <2>3
<1>3. \/ \E err : r1 = Rewrites(err, pos, w, places) /\ err # NoError
      \/ /\ x # 0
         /\ \/ /\ ShouldExpand(a, p.inParen) /\ a.len > 0
               /\ r1 = Rewrites(NoError, x + 1, y \o MorePlaceholders(a.len), places \o Elements(k, a.len))
            \/ /\ ~ShouldExpand(a, p.inParen)
               /\ r1 = Rewrites(NoError, x + 1, y \o <<>>, places \o Whole(k))
  <2>1. p.idx = x /\ r1 = InTurn(q, a, k, p, Rewrites(NoError, pos, w, places))
    OBVIOUS
  <2> HIDE DEF a, x
  <2> QED
    BY <2>1, InWays
<1>4. ASSUME x # 0
      PROVE  Behind(q, k, x + 1) /\ (p.inParen <=> InList(q, Marks(q)[1][k]))
  <2>1. /\ x \in pos..Len(q) /\ q[x] = "?" /\ Ready(q, x + 1)
        /\ p.inParen <=> InList(q, x)
    BY <1>2, <1>4, NextTells DEF Behind
  <2>2. Marks(q)[pos] = <<x>> \o Marks(q)[x + 1]
    BY <1>2, <1>4, NextIsHead
  <2> HIDE DEF x
  <2>3. PICK s \in Seq(Nat) : Len(s) = k - 1 /\ Marks(q)[1] = s \o Marks(q)[pos]
    BY DEF Behind
  <2>4. x \in Nat /\ x + 1 \in 1..(Len(q) + 1) /\ (x + 1) - 1 = x
    BY <1>2, <2>1
  <2>5. Marks(q)[x + 1] \in Seq(Nat)
    BY <2>4, MarksType
  <2> DEFINE rest == Marks(q)[x + 1]
             more == s \o <<x>>
  <2>6. more \in Seq(Nat) /\ Len(more) = Len(s) + 1
        /\ s \o (<<x>> \o rest) = more \o rest /\ (s \o (<<x>> \o rest))[Len(s) + 1] = x
    BY <2>4, <2>5, OneMore, ZenonT(60)
  <2>7. Marks(q)[1] = s \o (<<x>> \o rest)
    BY <2>2, <2>3
  <2> HIDE DEF more
  <2>8. Len(s) + 1 = k
    BY <1>2, <2>3
  <2>9. Len(more) = k /\ Marks(q)[1] = more \o rest /\ Marks(q)[1][k] = x
    BY <2>6, <2>7, <2>8
  <2>10. Behind(q, k, x + 1)
    BY <2>1, <2>4, <2>6, <2>9 DEF Behind
  <2> QED
    BY <2>1, <2>9, <2>10
<1> HIDE DEF x, y
<1>5. ASSUME x # 0, ShouldExpand(a, p.inParen), a.len > 0 PROVE PlacesFor(q, as, k) = Elements(k, a.len)
  <2>1. IsSlice(a) /\ (p.inParen \/ a.kind = "list")
    BY <1>5, Zenon DEF ShouldExpand
  <2>2. a.kind = "list" \/ (IsSlice(a) /\ InList(q, Marks(q)[1][k]))
    BY <1>4, <1>5, <2>1, Zenon
  <2>3. a.len # 0
    <3> DEFINE len == a.len
    <3>1. len \in Nat /\ len > 0
      BY <1>2, <1>5
    <3> HIDE DEF len
    <3>2. len # 0
      BY <3>1
    <3> QED
      BY <3>2 DEF len
  <2> QED
    BY <2>2, <2>3, Zenon DEF PlacesFor
<1>6. ASSUME x # 0, ~ShouldExpand(a, p.inParen) PROVE PlacesFor(q, as, k) = Whole(k)
  <2>1. a.kind = "list" => IsSlice(a)
    BY Zenon DEF IsSlice
  <2>2. ~(a.kind = "list" \/ (IsSlice(a) /\ InList(q, Marks(q)[1][k]))) \/ ~(a.len > 0)
    BY <1>4, <1>6, <2>1, Zenon DEF ShouldExpand
  <2>3. ~(a.len > 0) => a.len = 0
    <3> DEFINE len == a.len
    <3>1. len \in Nat
      BY <1>2
    <3> HIDE DEF len
    <3>2. ~(len > 0) => len = 0
      BY <3>1
    <3> QED
      BY <3>2 DEF len
  <2> QED
    BY <2>2, <2>3, Zenon DEF PlacesFor
<1>7. ASSUME x # 0, ShouldExpand(a, p.inParen), a.len > 0,
             r1 = Rewrites(NoError, x + 1, y \o MorePlaceholders(a.len), places \o Elements(k, a.len))
      PROVE  \E next, w1 : r1 = Rewrites(NoError, next, w1, places \o PlacesFor(q, as, k)) /\ Behind(q, k, next)
  BY <1>4, <1>5, <1>7, Zenon
<1>8. ASSUME x # 0, ~ShouldExpand(a, p.inParen),
             r1 = Rewrites(NoError, x + 1, y \o <<>>, places \o Whole(k))
      PROVE  \E next, w1 : r1 = Rewrites(NoError, next, w1, places \o PlacesFor(q, as, k)) /\ Behind(q, k, next)
  BY <1>4, <1>6, <1>8, Zenon
<1> QED
  BY <1>3, <1>7, <1>8, Zenon DEF PutsDown

\* The loop of In without an error: it has passed a placeholder for every argument, and
\* the arguments have the places they should get.
LEMMA InPlaces ==
  ASSUME NEW q \in Query, ~InEndsComment(q), NEW as \in Seq(Arg), Len(as) # 0, NEW f,
         \A k \in 1..Len(as) : f[k] = IF k = 1 THEN PlacesFor(q, as, k) ELSE f[k - 1] \o PlacesFor(q, as, k)
  PROVE  InLoop(q, as).err = NoError => InLoop(q, as).args = f[Len(as)]
<1> DEFINE n == Len(as)
           after == InAfter(q, as)
           UpTo1(k) == IF k = 0 THEN <<>> ELSE f[k]
           Placed(k, r) == \E err, pos, w, places :
                             /\ r = Rewrites(err, pos, w, places)
                             /\ err = NoError => Behind(q, k, pos) /\ places = UpTo1(k)
           S == {k \in Nat : k <= n => Placed(k, after[k])}
<1>1. n \in Nat
  BY LenProperties
<1>2. 0 \in S
  <2> DEFINE nothing == <<>>
  <2>1. after[0] = Rewrites(NoError, 1, nothing, nothing)
    BY <1>1, InSteps DEF InStart, Rewrites
  <2>2. Behind(q, 0, 1)
    <3>1. 1 \in 1..(Len(q) + 1) /\ Ready(q, 1)
      BY QueryBytes, ReadyAtStart
    <3>2. <<>> \in Seq(Nat) /\ Len(<<>>) = 0 /\ Marks(q)[1] \in Seq(Nat)
      BY <3>1, MarksType, EmptySeq
    <3>3. Marks(q)[1] = <<>> \o Marks(q)[1]
      BY <3>2, ConcatEmptySeq
    <3> QED
      BY <3>1, <3>2, <3>3 DEF Behind
  <2>3. nothing = UpTo1(0)
    OBVIOUS
  <2> HIDE DEF after, nothing, UpTo1
  <2>4. Placed(0, after[0])
    BY <2>1, <2>2, <2>3, Zenon
  <2> QED
    BY <2>4
<1>3. ASSUME NEW k \in Nat, k \in S PROVE k + 1 \in S
  <2> DEFINE k1 == k + 1
  <2> HIDE DEF n
  <2>1. ASSUME k1 <= n PROVE Placed(k1, after[k1])
    <3>1. k1 \in 1..n /\ k1 - 1 = k /\ k <= n /\ k1 \in Nat
      BY <1>1, <2>1
    <3>2. k = 0 => UpTo1(k1) = PlacesFor(q, as, k1)
      <4>1. k = 0 => k1 = 1 /\ k1 # 0
        OBVIOUS
      <4> HIDE DEF k1
      <4> QED
        BY <3>1, <4>1 DEF n
    <3>3. k # 0 => UpTo1(k1) = UpTo1(k) \o PlacesFor(q, as, k1)
      <4>1. k # 0 => k1 # 1 /\ k1 # 0
        OBVIOUS
      <4> HIDE DEF k1
      <4> QED
        BY <3>1, <4>1 DEF n
    <3>4. k = 0 => UpTo1(k1) = <<>> \o PlacesFor(q, as, k1) /\ UpTo1(k) = <<>>
      <4>1. k1 # 0
        OBVIOUS
      <4> HIDE DEF k1
      <4>2. as[k1].len \in Nat
        <5>1. as[k1] \in Arg
          BY <3>1, ElementOfSeq DEF n
        <5> QED
          BY <5>1 DEF Arg
      <4>3. PlacesFor(q, as, k1) \in Seq(Place)
        <5>1. Elements(k1, as[k1].len) \in Seq(Place) /\ Whole(k1) \in Seq(Place)
          BY <3>1, <4>2, PlacesOf
        <5> QED
          BY <5>1, Zenon DEF PlacesFor
      <4>4. <<>> \o PlacesFor(q, as, k1) = PlacesFor(q, as, k1)
        BY <4>3, ConcatEmptySeq
      <4> QED
        BY <3>2, <4>4
    <3> HIDE DEF k1, UpTo1
    <3>5. UpTo1(k1) = UpTo1(k) \o PlacesFor(q, as, k1)
      BY <3>3, <3>4
    <3>6. after[k1] = InNext(q, as, k1, after[k])
      <4>1. after[k1] = InNext(q, as, k1, after[k1 - 1])
        BY <1>1, <3>1, InSteps, ZenonT(60) DEF n
      <4> QED
        BY <3>1, <4>1
    <3> DEFINE r == after[k]
               r1 == after[k1]
    <3> HIDE DEF after
    <3>7. PICK err, pos, w, places :
            r = Rewrites(err, pos, w, places) /\ (err = NoError => Behind(q, k, pos) /\ places = UpTo1(k))
      BY <1>3, <3>1, Zenon
    <3>8. r.err = err /\ r.pos = pos
      BY <3>7 DEF Rewrites
    <3>9. CASE err # NoError
      <4>1. r1 = r
        BY <3>6, <3>8, <3>9, Zenon DEF InNext
      <4>2. r1 = Rewrites(err, pos, w, places)
        BY <3>7, <4>1
      <4> HIDE DEF r1
      <4>3. Placed(k1, r1)
        BY <3>9, <4>2, Zenon
      <4> QED
        BY <4>3 DEF r1
    <3>10. CASE err = NoError
      <4> DEFINE p == nextPlaceholder(q, pos)
      <4>1. r1 = InTurn(q, as[k1], k1, p, Rewrites(NoError, pos, w, places))
        BY <3>6, <3>7, <3>8, <3>10, Zenon DEF InNext
      <4>2. Behind(q, k1 - 1, pos) /\ p = nextPlaceholder(q, pos)
        BY <3>1, <3>7, <3>10
      <4> HIDE DEF p, r1
      <4>3. PutsDown(q, as, k1, pos, w, places, r1)
        <5>1. k1 \in 1..Len(as)
          BY <3>1 DEF n
        <5> QED
          BY <4>1, <4>2, <5>1, PlacesTurns
      <4>4. places \o PlacesFor(q, as, k1) = UpTo1(k1)
        BY <3>5, <3>7, <3>10
      <4>5. Placed(k1, r1)
        BY <4>3, <4>4, Zenon DEF PutsDown
      <4> QED
        BY <4>5 DEF r1
    <3> QED
      BY <3>9, <3>10
  <2>2. k1 \in Nat
    OBVIOUS
  <2> HIDE DEF Placed, after, k1
  <2>3. k1 \in S
    BY <2>1, <2>2
  <2> QED
    BY <2>3 DEF k1
<1>4. Placed(n, after[n])
  <2>1. S \in SUBSET Nat
    OBVIOUS
  <2>2. n \in S
    <3> HIDE DEF S
    <3> QED
      BY <1>1, <1>2, <1>3, <2>1, Upward
  <2> HIDE DEF after, n, Placed
  <2> QED
    BY <1>1, <2>2
<1>5. UpTo1(n) = f[n]
  OBVIOUS
<1>6. InLoop(q, as) = after[n]
  BY <1>1, InSteps
<1> HIDE DEF after, n, UpTo1
<1>7. PICK err, pos, w, places :
        after[n] = Rewrites(err, pos, w, places) /\ (err = NoError => Behind(q, n, pos) /\ places = UpTo1(n))
  BY <1>4, Zenon
<1>8. InLoop(q, as).err = err /\ InLoop(q, as).args = places
  BY <1>6, <1>7 DEF Rewrites
<1>9. InLoop(q, as).err = NoError => InLoop(q, as).args = f[n]
  BY <1>5, <1>7, <1>8
<1> QED
  BY <1>9 DEF n

\* What InRest returns without an error are the places that the loop has put down.
LEMMA RestKeeps ==
  ASSUME NEW q, NEW r, InRest(q, r).err = NoError
  PROVE  r.err = NoError /\ InRest(q, r).args = r.args
<1> DEFINE many == "few arguments"
           out == InRest(q, r)
           done == [err |-> NoError, query |-> r.query \o SubSeq(q, r.pos, Len(q)), args |-> r.args]
           more == nextPlaceholder(q, r.pos).idx # 0
<1>1. many # NoError
  BY Zenon DEF NoError
<1>2. out = IF r.err # NoError THEN Failed(r.err) ELSE IF more THEN Failed(many) ELSE done
  BY Zenon DEF InRest, NoError
<1>3. \A why : Failed(why).err = why
  BY DEF Failed
<1>4. done.args = r.args
  OBVIOUS
<1>5. out.err = NoError
  OBVIOUS
<1> HIDE DEF many, out, done, more
<1>6. r.err = NoError /\ out = done
  BY <1>1, <1>2, <1>3, <1>5
<1> QED
  BY <1>4, <1>6 DEF out

\* The places of all arguments are those of the reference.
LEMMA ExpectedPlaces ==
  ASSUME NEW q \in Query, NEW as \in Seq(Arg), Len(as) # 0
  PROVE  \E f : /\ Expected(q, as) = f[Len(as)]
                /\ \A k \in 1..Len(as) :
                     f[k] = IF k = 1 THEN PlacesFor(q, as, k) ELSE f[k - 1] \o PlacesFor(q, as, k)
<1> DEFINE n == Len(as)
           list == [k \in DOMAIN as |-> PlacesFor(q, as, k)]
<1>1. n \in Nat /\ DOMAIN as = 1..n /\ n # 0
  BY LenProperties
<1>2. Expected(q, as) = FlattenSeq(list)
  <2>1. RebindVars(q) = Marks(q)[1]
    BY RebindWalk DEF RebindVars
  <2> QED
    BY <2>1, Zenon DEF Expected, PlacesFor
<1>3. Len(list) = n /\ \A k \in 1..n : list[k] = PlacesFor(q, as, k)
  <2> HIDE DEF n
  <2>1. list = [k \in 1..n |-> PlacesFor(q, as, k)]
    BY <1>1
  <2> HIDE DEF list
  <2>2. Len(list) = n
    BY <1>1, <2>1
  <2>3. \A k \in 1..n : list[k] = PlacesFor(q, as, k)
    BY <2>1
  <2> QED
    BY <2>2, <2>3
<1> HIDE DEF list, n
<1>4. \E f : /\ FlattenSeq(list) = f[n]
             /\ \A k \in 1..n : f[k] = IF k = 1 THEN list[k] ELSE f[k - 1] \o list[k]
  BY <1>1, <1>3, FlattenSteps
<1>5. PICK f : /\ FlattenSeq(list) = f[n]
               /\ \A k \in 1..n : f[k] = IF k = 1 THEN list[k] ELSE f[k - 1] \o list[k]
  BY <1>4
<1>6. \A k \in 1..n : f[k] = IF k = 1 THEN PlacesFor(q, as, k) ELSE f[k - 1] \o PlacesFor(q, as, k)
  BY <1>3, <1>5
<1> QED
  BY <1>2, <1>5, <1>6, Zenon DEF n

\* autoIn puts the arguments where the reference has them.
LEMMA AutoInPlaces ==
  ASSUME NEW q \in Query, ~InEndsComment(q), NEW as \in Seq(Arg),
         needsInRewrite(as), autoIn(q, as).err = NoError
  PROVE  autoIn(q, as).args = Expected(q, as)
<1> DEFINE r == autoIn(q, as)
           bad == \E k \in DOMAIN as : as[k].kind \in {"bad", "failing"} \/ (as[k].kind = "list" /\ as[k].len = 0)
           refused == "argument"
           loop == InLoop(q, as)
           rest == InRest(q, loop)
<1>1. ~(\A k \in DOMAIN as : as[k].kind = "value") /\ Len(as) # 0
  <2>1. \E k \in DOMAIN as : as[k].kind # "value"
    BY DEF needsInRewrite
  <2>2. PICK k : k \in DOMAIN as
    BY <2>1, Zenon
  <2>3. DOMAIN as = 1..Len(as) /\ Len(as) \in Nat
    BY LenProperties
  <2> DEFINE n == Len(as)
  <2>4. k \in 1..n /\ n \in Nat
    BY <2>2, <2>3
  <2> HIDE DEF n
  <2>5. n # 0
    BY <2>4
  <2> QED
    BY <2>1, <2>5 DEF n
<1>2. r = In(q, as)
  BY Zenon DEF autoIn
<1>3. r = IF bad THEN Failed(refused) ELSE rest
  BY <1>1, <1>2, Zenon DEF In
<1>4. refused # NoError
  BY Zenon DEF NoError
<1>5. Failed(refused).err = refused
  BY DEF Failed
<1>6. r.err = NoError
  OBVIOUS
<1> HIDE DEF r, bad, refused, rest
<1>7. r = rest /\ rest.err = NoError
  BY <1>3, <1>4, <1>5, <1>6
<1>8. loop.err = NoError /\ rest.args = loop.args
  BY <1>7, RestKeeps DEF rest
<1>9. loop.args = Expected(q, as)
  <2>1. PICK f : /\ Expected(q, as) = f[Len(as)]
                 /\ \A k \in 1..Len(as) :
                      f[k] = IF k = 1 THEN PlacesFor(q, as, k) ELSE f[k - 1] \o PlacesFor(q, as, k)
    BY <1>1, ExpectedPlaces
  <2>2. loop.err = NoError => loop.args = f[Len(as)]
    BY <1>1, <2>1, InPlaces
  <2> QED
    BY <1>8, <2>1, <2>2
<1> QED
  BY <1>7, <1>8, <1>9 DEF r

\* Every query and all arguments that a program can pass: In spreads the slices of IN lists
\* and those the program asks for, and no others, in the order of the arguments. The one
\* exception is a query with a comment that ends in the word in, right before a ( of SQL
\* text: precededByIn (bind.go) looks backwards and does not know of comments.
THEOREM ListsExpand == Spec => [](~InEndsComment(Text) => OnlyInListsExpand)
<1>1. CallInv => (~InEndsComment(Text) => OnlyInListsExpand)
  <2> SUFFICES ASSUME CallInv, ~InEndsComment(Text), needsInRewrite(args), autoIn(Text, args).err = NoError
               PROVE  autoIn(Text, args).args = Expected(Text, args)
    BY Zenon DEF OnlyInListsExpand, NoError
  <2>1. Text \in Query /\ args \in Seq(Arg)
    BY FlattenType DEF CallInv, TextInv, Text, Query
  <2> QED
    BY <2>1, AutoInPlaces
<1> QED
  BY <1>1, CallIsTyped, PTL

-----------------------------------------------------------------------------
(* The names of a query                                                     *)

\* Bytes that begin no segment, wherever they stand.
PlainBytes == isBindNameByte \cup {":", "?", "="}

\* No byte of a name is one that the scanners or the loops look for.
LEMMA NoNameByte ==
  /\ ":" \notin isBindNameByte /\ "?" \notin isBindNameByte /\ "\\" \notin isBindNameByte
  /\ "=" \notin isBindNameByte /\ NoByte \notin isBindNameByte
  /\ isBindStartByte \subseteq isBindNameByte
<1>1. ":" \notin isBindNameByte /\ "?" \notin isBindNameByte /\ "\\" \notin isBindNameByte
  BY DEF isBindNameByte, isBindStartByte, Letter, Digit
<1>2. "=" \notin isBindNameByte /\ NoByte \notin isBindNameByte
  BY DEF isBindNameByte, isBindStartByte, Letter, Digit, NoByte
<1>3. isBindStartByte \subseteq isBindNameByte
  BY Zenon DEF isBindNameByte
<1> QED
  BY <1>1, <1>2, <1>3

\* What is not a name either, a colon, a ? or a =, begins no segment.
LEMMA PlainIsNoOpener ==
  \A c \in PlainBytes : c \notin Quote /\ c # "[" /\ c # "$" /\ c # "-" /\ c # "/"
<1>1. "[" \notin isBindNameByte /\ "$" \notin isBindNameByte /\ "-" \notin isBindNameByte /\ "/" \notin isBindNameByte
  BY DEF isBindNameByte, isBindStartByte, Letter, Digit
<1>2. "'" \notin isBindNameByte /\ "\"" \notin isBindNameByte /\ "backtick" \notin isBindNameByte
  BY DEF isBindNameByte, isBindStartByte, Letter, Digit
<1>3. \A c \in {":", "?", "="} : c \notin Quote /\ c # "[" /\ c # "$" /\ c # "-" /\ c # "/"
  BY DEF Quote
<1>4. \A c \in isBindNameByte : c \notin Quote
  BY <1>2, Zenon DEF Quote
<1> QED
  BY <1>1, <1>3, <1>4, Zenon DEF PlainBytes

\* There the query reads on.
LEMMA ReadsPlain ==
  ASSUME NEW q \in Query, NEW i \in 1..Len(q), q[i] \in PlainBytes
  PROVE  /\ scanSkipSegment(q, i) = i
         /\ Ready(q, i) => i \notin Protected(q) /\ Ready(q, i + 1)
<1>1. ~ \/ q[i] \in Quote \cup {"[", "$"}
        \/ q[i] = "-" /\ At(q, i + 1) = "-"
        \/ q[i] = "/" /\ At(q, i + 1) = "*"
  BY PlainIsNoOpener
<1>2. scanSkipSegment(q, i) = i
  BY <1>1, SegmentWays
<1> QED
  BY <1>2, ReadsNormal

\* A stretch of such bytes is normal text, from end to end.
LEMMA ReadsStretch ==
  ASSUME NEW q \in Query, NEW lo \in 1..(Len(q) + 1), NEW hi \in lo..(Len(q) + 1),
         \A j \in lo..(hi - 1) : q[j] \in PlainBytes, Ready(q, lo)
  PROVE  Ready(q, hi) /\ \A j \in lo..(hi - 1) : j \notin Protected(q)
<1> DEFINE S == {k \in Nat : lo + k <= hi => Ready(q, lo + k) /\ \A j \in lo..(lo + k - 1) : j \notin Protected(q)}
<1>1. Len(q) \in Nat
  BY QueryBytes
<1>2. 0 \in S
  <2>1. lo + 0 = lo /\ ~ \E j \in lo..(lo + 0 - 1) : TRUE
    BY <1>1
  <2> QED
    BY <2>1
<1>3. ASSUME NEW k \in Nat, k \in S PROVE k + 1 \in S
  <2> SUFFICES ASSUME lo + (k + 1) <= hi
               PROVE  Ready(q, lo + (k + 1)) /\ \A j \in lo..(lo + (k + 1) - 1) : j \notin Protected(q)
    OBVIOUS
  <2> DEFINE i == lo + k
  <2>1. i \in 1..Len(q) /\ i \in lo..(hi - 1) /\ lo + (k + 1) = i + 1 /\ lo + (k + 1) - 1 = i /\ i <= hi /\ i \in Nat
    BY <1>1
  <2>2. Ready(q, i) /\ \A j \in lo..(i - 1) : j \notin Protected(q)
    BY <1>3, <2>1
  <2> HIDE DEF i
  <2>3. q[i] \in PlainBytes
    BY <2>1
  <2>4. i \notin Protected(q) /\ Ready(q, i + 1)
    BY <2>1, <2>2, <2>3, ReadsPlain
  <2>5. \A j \in lo..i : j \in lo..(i - 1) \/ j = i
    BY <2>1
  <2> QED
    BY <2>1, <2>2, <2>4, <2>5
<1>4. hi - lo \in S /\ lo + (hi - lo) = hi
  <2>1. Nat \subseteq S
    <3> HIDE DEF S
    <3>1. S \subseteq Nat
      BY DEF S
    <3> QED
      BY <1>2, <1>3, <3>1, Upward
  <2>2. hi - lo \in Nat /\ lo + (hi - lo) = hi
    BY <1>1
  <2> QED
    BY <2>1, <2>2
<1> QED
  BY <1>4

\* A name begins with a letter or an underscore and goes on over bytes of names.
LEMMA NameBytes ==
  ASSUME NEW q \in Query, NEW i \in 1..Len(q), q[i] \in isBindStartByte, NEW m, m = Len(NameAt(q, i))
  PROVE  /\ NameAt(q, i) \in Query /\ m \in Nat /\ m >= 1 /\ i + m <= Len(q) + 1
         /\ NameAt(q, i) = SubSeq(q, i, i + m - 1)
         /\ \A j \in i..(i + m - 1) : q[j] \in isBindNameByte
<1> DEFINE ends == {j \in i..Len(q) : \A k \in i..j : q[k] \in isBindNameByte}
           last == Max(ends)
<1>1. Len(q) \in Nat
  BY QueryBytes
<1>2. ends \in SUBSET Nat /\ i \in ends /\ ends # {} /\ \A j \in ends : j <= Len(q)
  <2>1. \A k \in i..i : k = i
    OBVIOUS
  <2>2. q[i] \in isBindNameByte
    BY NoNameByte
  <2> QED
    BY <1>1, <2>1, <2>2
<1>3. NameAt(q, i) = SubSeq(q, i, last)
  BY Zenon DEF NameAt
<1>4. last \in ends
  <2> HIDE DEF ends
  <2> QED
    BY <1>1, <1>2, GreatestOf
<1>5. last \in i..Len(q) /\ \A k \in i..last : q[k] \in isBindNameByte
  BY <1>4
<1> HIDE DEF last, ends
<1>6. last \in Nat /\ last <= Len(q) /\ i <= last + 1 /\ i \in 1..(Len(q) + 1)
  BY <1>1, <1>5
<1>7. SubSeq(q, i, last) \in Query /\ Len(SubSeq(q, i, last)) = last - i + 1
  BY <1>6, SubSeqBytes
<1>8. m = last - i + 1
  BY <1>3, <1>7
<1>9. m \in Nat /\ m >= 1 /\ i + m <= Len(q) + 1 /\ i + m - 1 = last
  BY <1>1, <1>5, <1>8
<1> QED
  BY <1>3, <1>5, <1>7, <1>9

\* The colons of the SQL text, and how many of them stand right before a byte.
Colons(q) == {i \in 1..Len(q) : i \notin Protected(q) /\ q[i] = ":"}
RunBefore(q, i) == {j \in 1..(i - 1) : \A k \in j..(i - 1) : k \in Colons(q)}
Even(q, i) == Cardinality(RunBefore(q, i)) % 2 = 0

\* Where a name begins: at a colon that is not the second of a pair.
LEMMA StartsAre ==
  ASSUME NEW q, NEW known
  PROVE  \A i : i \in NameStarts(q, known) <=>
           /\ i \in Colons(q) /\ Even(q, i)
           /\ At(q, i + 1) \in isBindStartByte /\ NameAt(q, i + 1) \in known
<1> DEFINE text == (1..Len(q)) \ Protected(q)
           Colon(i) == i \in text /\ q[i] = ":"
           Run(i) == {j \in 1..(i - 1) : \A k \in j..(i - 1) : Colon(k)}
           P(i) == /\ Colon(i) /\ Cardinality(Run(i)) % 2 = 0
                   /\ At(q, i + 1) \in isBindStartByte /\ NameAt(q, i + 1) \in known
<1>1. NameStarts(q, known) = {i \in text : P(i)}
  BY Zenon DEF NameStarts
<1>2. \A i : Colon(i) <=> i \in Colons(q)
  BY DEF Colons
<1> HIDE DEF Colon
<1>3. \A i : Run(i) = RunBefore(q, i)
  BY <1>2 DEF RunBefore
<1> HIDE DEF Run
<1>4. \A i : P(i) <=> /\ i \in Colons(q) /\ Even(q, i)
                      /\ At(q, i + 1) \in isBindStartByte /\ NameAt(q, i + 1) \in known
  BY <1>2, <1>3 DEF Even
<1>5. \A i : i \in Colons(q) => i \in text
  BY DEF Colons
<1> HIDE DEF P, text
<1> QED
  BY <1>1, <1>4, <1>5

\* Behind another byte there is no run.
LEMMA RunNone ==
  ASSUME NEW q \in Query, NEW i \in 1..(Len(q) + 1), i - 1 \notin Colons(q)
  PROVE  Even(q, i)
<1>1. RunBefore(q, i) = {}
  <2> SUFFICES ASSUME NEW j \in RunBefore(q, i) PROVE FALSE
    OBVIOUS
  <2>1. j \in 1..(i - 1) /\ \A k \in j..(i - 1) : k \in Colons(q)
    BY DEF RunBefore
  <2>2. i - 1 \in j..(i - 1)
    BY <2>1, QueryBytes
  <2> QED
    BY <2>1, <2>2
<1>2. Cardinality({}) = 0
  BY FS_EmptySet
<1> QED
  BY <1>1, <1>2 DEF Even

\* A colon is one more.
LEMMA RunMore ==
  ASSUME NEW q \in Query, NEW i \in Colons(q)
  PROVE  Even(q, i + 1) <=> ~Even(q, i)
<1> DEFINE R == RunBefore(q, i)
<1>1. i \in 1..Len(q) /\ i \in Nat
  BY QueryBytes DEF Colons
<1>2. RunBefore(q, i + 1) = R \cup {i}
  <2>1. (i + 1) - 1 = i
    BY <1>1
  <2>2. RunBefore(q, i + 1) = {j \in 1..i : \A k \in j..i : k \in Colons(q)}
    BY <2>1 DEF RunBefore
  <2>3. ASSUME NEW j \in 1..i PROVE (\A k \in j..i : k \in Colons(q)) <=> j \in R \cup {i}
    <3>1. \A k \in j..i : k \in j..(i - 1) \/ k = i
      BY <1>1
    <3>2. j # i => (j \in 1..(i - 1) /\ \A k \in j..(i - 1) : k \in j..i)
      BY <1>1
    <3>3. i \in j..i
      BY <1>1
    <3>4. j = i => j \in R \cup {i}
      OBVIOUS
    <3>5. j # i => ((\A k \in j..i : k \in Colons(q)) <=> j \in R)
      BY <3>1, <3>2 DEF RunBefore
    <3>6. j = i => \A k \in j..i : k \in Colons(q)
      BY <1>1
    <3> QED
      BY <3>4, <3>5, <3>6
  <2>4. R \cup {i} \subseteq 1..i
    BY <1>1 DEF RunBefore
  <2> HIDE DEF R
  <2> QED
    BY <2>2, <2>3, <2>4
<1>3. IsFiniteSet(R) /\ i \notin R
  <2>1. R \subseteq 1..(i - 1)
    BY DEF RunBefore
  <2>2. IsFiniteSet(1..(i - 1))
    BY <1>1, FS_Interval
  <2>3. IsFiniteSet(R)
    BY <2>1, <2>2, FS_Subset
  <2> QED
    BY <1>1, <2>1, <2>3
<1>4. Cardinality(R \cup {i}) = Cardinality(R) + 1 /\ Cardinality(R) \in Nat
  BY <1>3, FS_AddElement, FS_CardinalityType
<1> DEFINE n == Cardinality(R)
<1>5. n \in Nat /\ (Even(q, i) <=> n % 2 = 0) /\ (Even(q, i + 1) <=> (n + 1) % 2 = 0)
  BY <1>2, <1>4 DEF Even
<1> HIDE DEF n
<1>6. (n + 1) % 2 = 0 <=> ~(n % 2 = 0)
  BY <1>5
<1> QED
  BY <1>5, <1>6

\* The names from byte i on, with those of later positions in f.
NamesLoop(q, starts, f, i) ==
  IF i > Len(q) THEN <<>>
  ELSE IF i \in starts THEN <<NameAt(q, i + 1)>> \o f[i + 1] ELSE f[i + 1]

\* The names of a query, from every position on.
NameList(q, known) ==
  CHOOSE f : f = [i \in 1..(Len(q) + 1) |-> NamesLoop(q, NameStarts(q, known), f, i)]

\* NamesIn, name by name.
LEMMA NameListSteps ==
  ASSUME NEW q \in Query, NEW known
  PROVE  /\ NamesIn(q, known) = NameList(q, known)[1]
         /\ \A i \in 1..(Len(q) + 1) :
              NameList(q, known)[i] = NamesLoop(q, NameStarts(q, known), NameList(q, known), i)
<1> DEFINE n == Len(q)
           Loop(f, i) == NamesLoop(q, NameStarts(q, known), f, i)
           from == NameList(q, known)
           S == {i \in 1..(n + 1) : \E f : f = [j \in i..(n + 1) |-> Loop(f, j)]}
<1>1. n \in Nat
  BY QueryBytes
<1>2. NamesIn(q, known) = from[1]
  BY Zenon DEF NamesIn, NameList, NamesLoop
<1>3. ASSUME NEW i \in 1..(n + 1), NEW f, NEW h, \A j \in (i + 1)..(n + 1) : h[j] = f[j]
      PROVE  Loop(h, i) = Loop(f, i)
  <2>1. CASE i > n
    BY <2>1 DEF NamesLoop
  <2>2. CASE ~(i > n)
    <3>1. h[i + 1] = f[i + 1]
      BY <1>1, <1>3, <2>2
    <3> QED
      BY <3>1, Zenon DEF NamesLoop
  <2> QED
    BY <2>1, <2>2
<1>4. ASSUME NEW i \in 1..(n + 1), \A j \in (i + 1)..(n + 1) : j \in S PROVE i \in S
  <2>1. PICK f : \A j \in (i + 1)..(n + 1) : f[j] = Loop(f, j)
    <3>1. CASE i = n + 1
      BY <1>1, <3>1
    <3>2. CASE i # n + 1
      <4>1. i + 1 \in S
        BY <1>1, <1>4, <3>2
      <4>2. PICK g : g = [j \in (i + 1)..(n + 1) |-> Loop(g, j)]
        BY <4>1
      <4>3. \A j \in (i + 1)..(n + 1) : g[j] = Loop(g, j)
        BY <4>2
      <4> QED
        BY <4>3
    <3> QED
      BY <3>1, <3>2
  <2> DEFINE h == [j \in i..(n + 1) |-> IF j = i THEN Loop(f, i) ELSE f[j]]
  <2>2. \A j \in (i + 1)..(n + 1) : h[j] = f[j]
    BY <1>1
  <2>3. ASSUME NEW j \in i..(n + 1) PROVE h[j] = Loop(h, j)
    <3>1. j \in 1..(n + 1) /\ \A k \in (j + 1)..(n + 1) : h[k] = f[k]
      BY <1>1, <2>2
    <3>2. Loop(h, j) = Loop(f, j)
      BY <1>3, <3>1
    <3>3. j # i => f[j] = Loop(f, j)
      BY <1>1, <2>1
    <3> QED
      BY <3>2, <3>3
  <2>4. h = [j \in i..(n + 1) |-> Loop(h, j)]
    BY <2>3
  <2> HIDE DEF h
  <2>5. \E g : g = [j \in i..(n + 1) |-> Loop(g, j)]
    BY <2>4
  <2> QED
    BY <2>5
<1>5. 1 \in S
  <2>1. \A i \in 1..(n + 1) : i \in S
    <3> HIDE DEF S, Loop
    <3> QED
      BY <1>1, <1>4, Downward
  <2>2. 1 \in 1..(n + 1)
    BY <1>1
  <2> QED
    BY <2>1, <2>2
<1>6. from = [i \in 1..(n + 1) |-> Loop(from, i)]
  BY <1>5 DEF NameList
<1> HIDE DEF from
<1>7. \A i \in 1..(n + 1) : from[i] = Loop(from, i)
  BY <1>6
<1> QED
  BY <1>2, <1>7 DEF from

\* The names from a byte on: one more where a name begins.
LEMMA NameListCases ==
  ASSUME NEW q \in Query, NEW known
  PROVE  /\ NameList(q, known)[Len(q) + 1] = <<>>
         /\ \A i \in 1..Len(q) :
              /\ i \in NameStarts(q, known) =>
                   NameList(q, known)[i] = <<NameAt(q, i + 1)>> \o NameList(q, known)[i + 1]
              /\ i \notin NameStarts(q, known) => NameList(q, known)[i] = NameList(q, known)[i + 1]
<1>1. Len(q) + 1 > Len(q) /\ Len(q) + 1 \in 1..(Len(q) + 1)
  BY QueryBytes
<1>2. NameList(q, known)[Len(q) + 1] = <<>>
  <2>1. NameList(q, known)[Len(q) + 1] = NamesLoop(q, NameStarts(q, known), NameList(q, known), Len(q) + 1)
    BY <1>1, NameListSteps
  <2> QED
    BY <1>1, <2>1, Zenon DEF NamesLoop
<1>3. ASSUME NEW i \in 1..Len(q)
      PROVE  /\ i \in NameStarts(q, known) =>
                  NameList(q, known)[i] = <<NameAt(q, i + 1)>> \o NameList(q, known)[i + 1]
             /\ i \notin NameStarts(q, known) => NameList(q, known)[i] = NameList(q, known)[i + 1]
  <2>1. ~(i > Len(q)) /\ i \in 1..(Len(q) + 1)
    BY QueryBytes
  <2>2. NameList(q, known)[i] = NamesLoop(q, NameStarts(q, known), NameList(q, known), i)
    BY <2>1, NameListSteps
  <2> QED
    BY <2>1, <2>2, Zenon DEF NamesLoop
<1> QED
  BY <1>2, <1>3

\* Where no name begins, none is left out.
LEMMA NameListSkips ==
  ASSUME NEW q \in Query, NEW known, NEW hi \in 1..(Len(q) + 1), NEW lo \in 1..hi,
         \A j \in lo..(hi - 1) : j \notin NameStarts(q, known)
  PROVE  NameList(q, known)[lo] = NameList(q, known)[hi]
<1> DEFINE S == {i \in 1..(Len(q) + 1) : i \in lo..hi => NameList(q, known)[i] = NameList(q, known)[hi]}
<1>1. Len(q) \in Nat
  BY QueryBytes
<1>2. ASSUME NEW i \in 1..(Len(q) + 1), \A j \in (i + 1)..(Len(q) + 1) : j \in S PROVE i \in S
  <2> SUFFICES ASSUME i \in lo..hi, i # hi PROVE NameList(q, known)[i] = NameList(q, known)[hi]
    OBVIOUS
  <2>1. i \in 1..Len(q) /\ i \in lo..(hi - 1) /\ i + 1 \in (i + 1)..(Len(q) + 1) /\ i + 1 \in lo..hi
    BY <1>1
  <2>2. NameList(q, known)[i + 1] = NameList(q, known)[hi]
    BY <1>2, <2>1
  <2>3. i \notin NameStarts(q, known)
    BY <2>1
  <2> QED
    BY <2>1, <2>2, <2>3, NameListCases
<1>3. \A i \in 1..(Len(q) + 1) : i \in S
  <2> HIDE DEF S
  <2> QED
    BY <1>1, <1>2, Downward
<1>4. lo \in 1..(Len(q) + 1) /\ lo \in lo..hi
  BY <1>1
<1> QED
  BY <1>3, <1>4

\* The names are known ones, and texts.
LEMMA NameListKnown ==
  ASSUME NEW q \in Query, NEW known, NEW i \in 1..(Len(q) + 1)
  PROVE  NameList(q, known)[i] \in Seq(Query \cap known)
<1> DEFINE Texts == Query \cap known
           S == {j \in 1..(Len(q) + 1) : NameList(q, known)[j] \in Seq(Texts)}
<1>1. Len(q) \in Nat
  BY QueryBytes
<1>2. ASSUME NEW j \in 1..(Len(q) + 1), \A k \in (j + 1)..(Len(q) + 1) : k \in S PROVE j \in S
  <2>1. CASE j = Len(q) + 1
    <3>1. <<>> \in Seq(Texts)
      OBVIOUS
    <3> QED
      BY <2>1, <3>1, NameListCases
  <2>2. CASE j # Len(q) + 1
    <3>1. j \in 1..Len(q) /\ j + 1 \in (j + 1)..(Len(q) + 1)
      BY <1>1, <2>2
    <3>2. NameList(q, known)[j + 1] \in Seq(Texts)
      BY <1>2, <3>1
    <3>3. CASE j \notin NameStarts(q, known)
      BY <3>1, <3>2, <3>3, NameListCases
    <3>4. CASE j \in NameStarts(q, known)
      <4>1. NameAt(q, j + 1) \in Texts
        <5>1. At(q, j + 1) \in isBindStartByte /\ NameAt(q, j + 1) \in known
          BY <3>4, StartsAre
        <5>2. j + 1 \in 1..Len(q) /\ q[j + 1] \in isBindStartByte
          BY <5>1, AtValue, NoNameByte
        <5> QED
          BY <5>1, <5>2, NameBytes
      <4> DEFINE a == <<NameAt(q, j + 1)>>
                 rest == NameList(q, known)[j + 1]
      <4>2. a \in Seq(Texts)
        BY <4>1
      <4>3. NameList(q, known)[j] = a \o rest
        BY <3>1, <3>4, NameListCases
      <4>4. rest \in Seq(Texts)
        BY <3>2
      <4> HIDE DEF a, rest
      <4>5. a \o rest \in Seq(Texts)
        BY <4>2, <4>4, ConcatProperties
      <4> QED
        BY <4>3, <4>5
    <3> QED
      BY <3>3, <3>4
  <2> QED
    BY <2>1, <2>2
<1>3. \A j \in 1..(Len(q) + 1) : j \in S
  <2> HIDE DEF S
  <2> QED
    BY <1>1, <1>2, Downward
<1> QED
  BY <1>3

\* They are texts.
LEMMA NameListType ==
  ASSUME NEW q \in Query, NEW known, NEW i \in 1..(Len(q) + 1)
  PROVE  NameList(q, known)[i] \in Seq(Query)
<1>1. Query \cap known \subseteq Query
  OBVIOUS
<1>2. NameList(q, known)[i] \in Seq(Query \cap known)
  BY NameListKnown
<1> HIDE DEF Query
<1> QED
  BY <1>1, <1>2, SeqMonotonic

\* The state of the compiler's loop.
Compiling(i, w, names) == [pos |-> i, query |-> w, names |-> names]

\* Between two pieces of the query, where a colon begins a pair, if there is one.
Stops(q, i) ==
  /\ i \in 1..(Len(q) + 1) /\ Ready(q, i)
  /\ i \in Colons(q) => Even(q, i)

\* A turn that copies what it passes.
CopiesOn(q, known, r, r1) ==
  \E to \in (r.pos + 1)..(Len(q) + 1) :
    /\ r1 = Compiling(to, r.query \o SubSeq(q, r.pos, to - 1), r.names)
    /\ Stops(q, to) /\ \A j \in r.pos..(to - 1) : j \notin NameStarts(q, known)

\* A turn that writes a placeholder for a name.
TakesName(type, q, known, r, r1) ==
  \E to \in (r.pos + 2)..(Len(q) + 1) : \E name :
    /\ r.pos \in NameStarts(q, known) /\ name = NameAt(q, r.pos + 1) /\ to = r.pos + 1 + Len(name)
    /\ r1 = Compiling(to, r.query \o emitParam(type, r.names, name), Append(r.names, name))
    /\ Stops(q, to) /\ \A j \in (r.pos + 1)..(to - 1) : q[j] \in isBindNameByte

\* CompileTurn, way by way.
LEMMA CompileCases ==
  ASSUME NEW type, NEW q \in Query, NEW known, NEW i \in 1..Len(q), NEW w, NEW names,
         NEW e, e = scanSkipSegment(q, i), NEW next, next = At(q, i + 1), NEW name, name = NameAt(q, i + 1),
         NEW r1, r1 = CompileTurn(type, q, known, Compiling(i, w, names))
  PROVE  /\ e > i => r1 = Compiling(e, w \o SubSeq(q, i, e - 1), names)
         /\ ~(e > i) /\ q[i] # ":" => r1 = Compiling(i + 1, w \o SubSeq(q, i, i), names)
         /\ ~(e > i) /\ q[i] = ":" /\ next \in {":", "="} =>
              r1 = Compiling(i + 2, w \o SubSeq(q, i, i + 1), names)
         /\ ~(e > i) /\ q[i] = ":" /\ next \notin {":", "="} /\ next \notin isBindStartByte =>
              r1 = Compiling(i + 1, w \o SubSeq(q, i, i), names)
         /\ ~(e > i) /\ q[i] = ":" /\ next \notin {":", "="} /\ next \in isBindStartByte =>
              r1 = Compiling(i + 1 + Len(name), w \o Written(type, known, names, name),
                             IF name \in known THEN Append(names, name) ELSE names)
<1> DEFINE r == Compiling(i, w, names)
           Copy(to) == [r EXCEPT !.pos = to, !.query = @ \o SubSeq(q, i, to - 1)]
<1>1. r.pos = i /\ r.query = w /\ r.names = names
  BY DEF Compiling
<1>2. ASSUME NEW to PROVE Copy(to) = Compiling(to, w \o SubSeq(q, i, to - 1), names)
  <2> DEFINE y == w \o SubSeq(q, i, to - 1)
  <2>1. Copy(to) = [r EXCEPT !.pos = to, !.query = y]
    <3> HIDE DEF r
    <3> QED
      BY <1>1
  <2> HIDE DEF y, Copy
  <2>2. [r EXCEPT !.pos = to, !.query = y] = Compiling(to, y, names)
    <3>1. [r EXCEPT !.pos = to] = Compiling(to, w, names)
      BY DEF Compiling
    <3>2. [Compiling(to, w, names) EXCEPT !.query = y] = Compiling(to, y, names)
      BY DEF Compiling
    <3> HIDE DEF r
    <3> QED
      BY <3>1, <3>2, Zenon
  <2> QED
    BY <2>1, <2>2 DEF y
<1>3. r1 = IF e > i THEN Copy(e)
           ELSE IF q[i] # ":" THEN Copy(i + 1)
           ELSE IF next \in {":", "="} THEN Copy(i + 2)
           ELSE IF next \notin isBindStartByte THEN Copy(i + 1)
           ELSE Compiling(i + 1 + Len(name), w \o Written(type, known, names, name),
                          IF name \in known THEN Append(names, name) ELSE names)
  <2> DEFINE C(to) == [r EXCEPT !.pos = to, !.query = @ \o SubSeq(q, r.pos, to - 1)]
             m == NameAt(q, r.pos + 1)
             skip == scanSkipSegment(q, r.pos)
             after == At(q, r.pos + 1)
  <2>1. r1 = IF skip > r.pos THEN C(skip)
             ELSE IF q[r.pos] # ":" THEN C(r.pos + 1)
             ELSE IF after \in {":", "="} THEN C(r.pos + 2)
             ELSE IF after \notin isBindStartByte THEN C(r.pos + 1)
             ELSE [pos |-> r.pos + 1 + Len(m), query |-> r.query \o Written(type, known, r.names, m),
                   names |-> IF m \in known THEN Append(r.names, m) ELSE r.names]
    <3> HIDE DEF r
    <3>1. r1 = CompileTurn(type, q, known, r)
      BY DEF r
    <3> QED
      BY <3>1, Zenon DEF CompileTurn
  <2> HIDE DEF r
  <2>2. skip = e /\ after = next /\ m = name
    BY <1>1
  <2> HIDE DEF skip, after, m
  <2>3. \A to : C(to) = Copy(to)
    BY <1>1
  <2> HIDE DEF C, Copy
  <2>4. r1 = IF e > i THEN Copy(e)
             ELSE IF q[i] # ":" THEN Copy(i + 1)
             ELSE IF next \in {":", "="} THEN Copy(i + 2)
             ELSE IF next \notin isBindStartByte THEN Copy(i + 1)
             ELSE [pos |-> i + 1 + Len(name), query |-> w \o Written(type, known, names, name),
                   names |-> IF name \in known THEN Append(names, name) ELSE names]
    BY <1>1, <2>1, <2>2, <2>3, Zenon
  <2> QED
    BY <2>4, Zenon DEF Compiling
<1> HIDE DEF Copy, r
<1>4. (i + 1) - 1 = i /\ (i + 2) - 1 = i + 1
  BY QueryBytes
<1> QED
  BY <1>2, <1>3, <1>4, Zenon

\* What stands for a name that is not known.
LEMMA NameWritten ==
  ASSUME NEW q \in Query, NEW i \in 1..Len(q), q[i] = ":", i + 1 \in 1..Len(q), q[i + 1] \in isBindStartByte,
         NEW name, name = NameAt(q, i + 1)
  PROVE  <<":">> \o name = SubSeq(q, i, i + Len(name))
<1> DEFINE m == Len(name)
           s == SubSeq(q, i, i + m)
           c == <<":">>
<1>1. /\ name \in Query /\ m \in Nat /\ m >= 1 /\ (i + 1) + m <= Len(q) + 1
      /\ name = SubSeq(q, i + 1, (i + 1) + m - 1)
  BY NameBytes
<1>2. i \in Nat /\ i >= 1 /\ Len(q) \in Nat /\ (i + 1) + m - 1 = i + m /\ i + m <= Len(q) /\ i + m \in Nat
  BY <1>1, QueryBytes
<1> HIDE DEF m
<1>3. \A k \in 1..m : name[k] = q[(i + 1) + k - 1]
  <2>1. i + 1 \in 1..(Len(q) + 1) /\ i + 1 <= (i + m) + 1 /\ (i + m) - (i + 1) + 1 = m
    BY <1>1, <1>2
  <2>2. name = SubSeq(q, i + 1, i + m)
    BY <1>1, <1>2
  <2> QED
    <3> DEFINE hi == i + m
               lo == i + 1
    <3>1. hi \in Nat /\ hi <= Len(q) /\ lo \in 1..(Len(q) + 1) /\ lo <= hi + 1 /\ hi - lo + 1 = m
      BY <1>2, <2>1
    <3>2. name = SubSeq(q, lo, hi)
      BY <2>2
    <3> HIDE DEF hi
    <3>3. \A k \in 1..(hi - lo + 1) : SubSeq(q, lo, hi)[k] = q[lo + k - 1]
      <4> HIDE DEF lo
      <4> QED
        BY <3>1, SubSeqBytes
    <3> QED
      BY <3>1, <3>2, <3>3
<1>4. s \in Query /\ Len(s) = m + 1 /\ \A k \in 1..(m + 1) : s[k] = q[i + k - 1]
  <2>1. i \in 1..(Len(q) + 1) /\ i <= (i + m) + 1 /\ (i + m) - i + 1 = m + 1
    BY <1>1, <1>2
  <2> QED
    BY <1>2, <2>1, SubSeqBytes
<1>5. c \in Query /\ Len(c) = 1 /\ c[1] = ":"
  <2>1. ":" \in Byte
    BY QueryBytes
  <2> QED
    BY <2>1 DEF Query
<1> HIDE DEF s, c
<1> DEFINE z == c \o name
<1>6. /\ z \in Query /\ Len(z) = 1 + m /\ z[1] = ":" /\ \A k \in 1..m : z[1 + k] = name[k]
  <2>1. /\ z \in Query /\ Len(z) = Len(c) + Len(name)
        /\ \A k \in 1..Len(c) : z[k] = c[k]
        /\ \A k \in 1..Len(name) : z[Len(c) + k] = name[k]
    BY <1>1, <1>5, ConcatBytes
  <2> HIDE DEF z
  <2> QED
    BY <1>1, <1>5, <2>1 DEF m
<1> HIDE DEF z
<1>7. ASSUME NEW k \in 1..(m + 1) PROVE z[k] = s[k]
  <2>1. CASE k = 1
    <3>1. s[1] = q[i]
      BY <1>1, <1>2, <1>4
    <3> QED
      BY <1>6, <2>1, <3>1
  <2>2. CASE k # 1
    <3> DEFINE l == k - 1
    <3>1. l \in 1..m /\ k = 1 + l /\ (i + 1) + l - 1 = i + k - 1
      BY <1>1, <1>2, <2>2
    <3> HIDE DEF l
    <3>2. z[k] = q[i + k - 1]
      BY <1>3, <1>6, <3>1
    <3> QED
      BY <1>4, <3>2
  <2> QED
    BY <2>1, <2>2
<1>8. z = s
  <2>1. Len(z) = Len(s) /\ z \in Seq(Byte) /\ s \in Seq(Byte)
    BY <1>1, <1>4, <1>6 DEF Query
  <2>2. \A k \in 1..Len(z) : z[k] = s[k]
    BY <1>1, <1>6, <1>7
  <2> QED
    BY <2>1, <2>2, SeqEqual
<1> QED
  BY <1>8 DEF z, c, s, m

\* A turn copies what it passes or takes a name, and stops between two pieces.
LEMMA CompileWays ==
  ASSUME NEW type, NEW q \in Query, NEW known, NEW i \in 1..Len(q), Stops(q, i), NEW w, NEW names,
         NEW r, r = Compiling(i, w, names), NEW r1, r1 = CompileTurn(type, q, known, r)
  PROVE  CopiesOn(q, known, r, r1) \/ TakesName(type, q, known, r, r1)
<1> DEFINE n == Len(q)
           e == scanSkipSegment(q, i)
           next == At(q, i + 1)
           name == NameAt(q, i + 1)
           starts == NameStarts(q, known)
<1>1. n \in Nat /\ i \in Nat /\ i + 1 \in 1..(n + 1) /\ e \in i..(n + 1)
  BY QueryBytes, Segments
<1>2. Ready(q, i) /\ (i \in Colons(q) => Even(q, i))
  BY DEF Stops
<1>3. r.pos = i /\ r.query = w /\ r.names = names
  BY DEF Compiling
<1>4. /\ e > i => r1 = Compiling(e, w \o SubSeq(q, i, e - 1), names)
      /\ ~(e > i) /\ q[i] # ":" => r1 = Compiling(i + 1, w \o SubSeq(q, i, i), names)
      /\ ~(e > i) /\ q[i] = ":" /\ next \in {":", "="} =>
           r1 = Compiling(i + 2, w \o SubSeq(q, i, i + 1), names)
      /\ ~(e > i) /\ q[i] = ":" /\ next \notin {":", "="} /\ next \notin isBindStartByte =>
           r1 = Compiling(i + 1, w \o SubSeq(q, i, i), names)
      /\ ~(e > i) /\ q[i] = ":" /\ next \notin {":", "="} /\ next \in isBindStartByte =>
           r1 = Compiling(i + 1 + Len(name), w \o Written(type, known, names, name),
                          IF name \in known THEN Append(names, name) ELSE names)
  BY CompileCases
<1>5. \A j : j \in starts <=> /\ j \in Colons(q) /\ Even(q, j)
                              /\ At(q, j + 1) \in isBindStartByte /\ NameAt(q, j + 1) \in known
  BY StartsAre
<1>6. \A j : j \in Colons(q) => j \in 1..n /\ q[j] = ":" /\ j \notin Protected(q)
  BY DEF Colons
<1>7. ~(e > i) => i \notin Protected(q) /\ Ready(q, i + 1)
  <2> SUFFICES ASSUME ~(e > i) PROVE i \notin Protected(q) /\ Ready(q, i + 1)
    OBVIOUS
  <2>1. e = i
    BY <1>1
  <2> QED
    BY <1>2, <2>1, ReadsNormal
<1>8. next = IF i + 1 \in 1..n THEN q[i + 1] ELSE NoByte
  BY AtValue
<1> HIDE DEF e, next, name, starts
\* Copying up to byte to, which the last byte before it leaves to no colon.
<1>9. ASSUME NEW to \in (i + 1)..(n + 1), r1 = Compiling(to, w \o SubSeq(q, i, to - 1), names),
             Ready(q, to), to \in Colons(q) => Even(q, to), \A j \in i..(to - 1) : j \notin starts
      PROVE  CopiesOn(q, known, r, r1)
  <2>1. to \in (r.pos + 1)..(Len(q) + 1) /\ to \in 1..(Len(q) + 1)
    BY <1>1, <1>3, <1>9
  <2>2. Stops(q, to)
    BY <1>9, <2>1 DEF Stops
  <2>3. /\ r1 = Compiling(to, r.query \o SubSeq(q, r.pos, to - 1), r.names)
        /\ \A j \in r.pos..(to - 1) : j \notin NameStarts(q, known)
    BY <1>3, <1>9 DEF starts
  <2> QED
    BY <2>1, <2>2, <2>3 DEF CopiesOn
<1>10. CASE e > i
  <2>1. Ready(q, e) /\ \A j \in i..(e - 1) : Region(q)[j].in # "normal"
    <3>1. e # i
      BY <1>1, <1>10
    <3> QED
      BY <1>2, <3>1, Segments DEF e
  <2>2. \A j \in i..(e - 1) : j \in Protected(q)
    <3>1. \A j \in i..(e - 1) : j \in 1..n
      BY <1>1
    <3> QED
      BY <2>1, <3>1 DEF Protected
  <2>3. \A j \in i..(e - 1) : j \notin starts
    BY <1>5, <1>6, <2>2
  <2>4. e - 1 \in i..(e - 1) /\ e \in (i + 1)..(n + 1) /\ e \in 1..(n + 1)
    BY <1>1, <1>10
  <2>5. Even(q, e)
    BY <1>6, <2>2, <2>4, RunNone
  <2> QED
    BY <1>4, <1>9, <1>10, <2>1, <2>3, <2>4, <2>5
<1>11. CASE ~(e > i) /\ q[i] # ":"
  <2>1. i \notin Colons(q) /\ i \notin starts
    BY <1>5, <1>6, <1>11
  <2>2. (i + 1) - 1 = i /\ i + 1 \in (i + 1)..(n + 1) /\ \A j \in i..((i + 1) - 1) : j = i
    BY <1>1
  <2>3. Even(q, i + 1)
    BY <1>1, <2>1, <2>2, RunNone
  <2> QED
    BY <1>4, <1>7, <1>9, <1>11, <2>1, <2>2, <2>3
<1>12. CASE ~(e > i) /\ q[i] = ":"
  <2>1. i \in Colons(q) /\ Even(q, i)
    <3>1. i \in Colons(q)
      BY <1>7, <1>12 DEF Colons
    <3> QED
      BY <1>2, <3>1
  <2>2. ":" \notin isBindStartByte /\ "=" \notin isBindStartByte /\ NoByte \notin isBindStartByte
        /\ NoByte # ":" /\ NoByte # "="
    <3>1. NoByte # ":" /\ NoByte # "="
      BY DEF NoByte
    <3> QED
      BY <3>1, NoNameByte
  <2>3. next # NoByte => i + 1 \in 1..n /\ next = q[i + 1]
    BY <1>8
  <2>4. ~Even(q, i + 1)
    BY <2>1, RunMore
  <2>5. (i + 1) - 1 = i /\ (i + 1) + 1 = i + 2 /\ (i + 2) - 1 = i + 1
    BY <1>1
  <2>6. CASE next \in {":", "="}
    <3>1. i + 1 \in 1..n /\ q[i + 1] = next
      BY <2>2, <2>3, <2>6
    <3>2. q[i + 1] \in PlainBytes
      BY <2>6, <3>1 DEF PlainBytes
    <3>3. i + 1 \notin Protected(q) /\ Ready(q, i + 2)
      BY <1>7, <1>12, <2>5, <3>1, <3>2, ReadsPlain
    <3>4. i + 2 \in 1..(n + 1) /\ i + 2 \in (i + 1)..(n + 1)
      BY <1>1, <3>1
    <3>5. i + 2 \in Colons(q) => Even(q, i + 2)
      <4>1. CASE next = ":"
        <5>1. i + 1 \in Colons(q)
          BY <3>1, <3>3, <4>1 DEF Colons
        <5> QED
          BY <2>4, <2>5, <5>1, RunMore
      <4>2. CASE next # ":"
        <5>1. i + 1 \notin Colons(q)
          BY <1>6, <3>1, <4>2
        <5> QED
          BY <2>5, <3>4, <5>1, RunNone
      <4> QED
        BY <4>1, <4>2
    <3>6. \A j \in i..((i + 2) - 1) : j \notin starts
      <4>1. \A j \in i..(i + 1) : j = i \/ j = i + 1
        BY <1>1
      <4>2. i \notin starts
        BY <1>5, <2>2, <2>6 DEF next
      <4>3. i + 1 \notin starts
        BY <1>5, <2>4
      <4> QED
        BY <2>5, <4>1, <4>2, <4>3
    <3> QED
      BY <1>4, <1>9, <1>12, <2>5, <2>6, <3>3, <3>4, <3>5, <3>6
  <2>7. CASE next \notin {":", "="} /\ next \notin isBindStartByte
    <3>1. i \notin starts
      BY <1>5, <2>7 DEF next
    <3>2. i + 1 \notin Colons(q)
      <4>1. i + 1 \in Colons(q) => next = ":"
        BY <1>6, <1>8
      <4> QED
        BY <2>7, <4>1
    <3>3. \A j \in i..((i + 1) - 1) : j = i
      BY <1>1
    <3>4. i + 1 \in (i + 1)..(n + 1)
      BY <1>1
    <3> QED
      BY <1>4, <1>7, <1>9, <1>12, <2>5, <2>7, <3>1, <3>2, <3>3, <3>4
  <2>8. CASE next \notin {":", "="} /\ next \in isBindStartByte
    <3> DEFINE m == Len(name)
               to == i + 1 + m
    <3>1. i + 1 \in 1..n /\ q[i + 1] = next /\ q[i + 1] \in isBindStartByte
      BY <2>2, <2>3, <2>8
    <3>2. /\ m \in Nat /\ m >= 1 /\ (i + 1) + m <= n + 1
          /\ \A j \in (i + 1)..((i + 1) + m - 1) : q[j] \in isBindNameByte
      BY <3>1, NameBytes DEF name
    <3> HIDE DEF m
    <3>3. to \in (i + 2)..(n + 1) /\ to \in 1..(n + 1) /\ to \in (i + 1)..(n + 1) /\ to - 1 \in (i + 1)..(to - 1)
          /\ to - 1 = i + m /\ to = (i + 1) + m /\ to \in Nat
      BY <1>1, <3>1, <3>2
    <3>4. \A j \in (i + 1)..(to - 1) : q[j] \in isBindNameByte /\ q[j] \in PlainBytes /\ q[j] # ":"
      BY <1>1, <3>2, <3>3, NoNameByte DEF PlainBytes
    <3> HIDE DEF to
    <3>5. Ready(q, to)
      <4>1. i + 1 \in 1..(n + 1) /\ to \in (i + 1)..(n + 1)
        BY <1>1, <3>3
      <4> QED
        BY <1>7, <1>12, <3>4, <4>1, ReadsStretch
    <3>6. Even(q, to)
      <4>1. to - 1 \notin Colons(q)
        BY <1>6, <3>3, <3>4
      <4> QED
        BY <3>3, <4>1, RunNone
    <3>7. r1 = Compiling(to, w \o Written(type, known, names, name),
                         IF name \in known THEN Append(names, name) ELSE names)
      BY <1>4, <1>12, <2>8, <3>3 DEF m, to
    <3>8. i \in starts <=> name \in known
      BY <1>5, <2>1, <2>8 DEF next, name
    <3>9. CASE name \in known
      <4>1. Stops(q, to)
        BY <3>3, <3>5, <3>6 DEF Stops
      <4>2. r1 = Compiling(to, w \o emitParam(type, names, name), Append(names, name))
        BY <3>7, <3>9 DEF Written
      <4>3. /\ r.pos \in NameStarts(q, known) /\ name = NameAt(q, r.pos + 1) /\ to = r.pos + 1 + Len(name)
            /\ to \in (r.pos + 2)..(Len(q) + 1)
        BY <1>3, <3>3, <3>8, <3>9 DEF starts, name, to, m
      <4>4. r1 = Compiling(to, r.query \o emitParam(type, r.names, name), Append(r.names, name))
        BY <1>3, <4>2
      <4>5. \A j \in (r.pos + 1)..(to - 1) : q[j] \in isBindNameByte
        BY <1>3, <3>4
      <4> QED
        BY <4>1, <4>3, <4>4, <4>5 DEF TakesName
    <3>10. CASE name \notin known
      <4>1. <<":">> \o name = SubSeq(q, i, i + Len(name))
        BY <1>12, <3>1, NameWritten DEF name
      <4>2. r1 = Compiling(to, w \o SubSeq(q, i, to - 1), names)
        BY <3>3, <3>7, <3>10, <4>1 DEF Written, m
      <4>3. \A j \in i..(to - 1) : j \notin starts
        <5>1. \A j \in i..(to - 1) : j = i \/ j \in (i + 1)..(to - 1)
          BY <1>1, <3>3
        <5>2. \A j \in (i + 1)..(to - 1) : j \notin starts
          BY <1>5, <1>6, <3>4
        <5> QED
          BY <3>8, <3>10, <5>1, <5>2
      <4> QED
        BY <1>9, <3>3, <3>5, <3>6, <4>2, <4>3
    <3> QED
      BY <3>9, <3>10
  <2> QED
    BY <2>6, <2>7, <2>8
<1> QED
  BY <1>10, <1>11, <1>12

\* The turns of the compiler's loop.
CompileStart == [pos |-> 1, query |-> <<>>, names |-> <<>>]
CompileNext(type, q, known, r) == IF r.pos > Len(q) THEN r ELSE CompileTurn(type, q, known, r)
CompileAfter(type, q, known) ==
  CHOOSE f : f = [k \in 0..Len(q) |-> IF k = 0 THEN CompileStart ELSE CompileNext(type, q, known, f[k - 1])]

\* The compiler's loop is its start and then a turn for every byte that is left.
LEMMA CompileSteps ==
  ASSUME NEW q \in Query, NEW type, NEW known
  PROVE  /\ CompileLoop(type, q, known) = CompileAfter(type, q, known)[Len(q)]
         /\ CompileAfter(type, q, known)[0] = CompileStart
         /\ \A k \in 1..Len(q) :
              CompileAfter(type, q, known)[k] = CompileNext(type, q, known, CompileAfter(type, q, known)[k - 1])
<1> DEFINE n == Len(q)
           Loop(f, k) == IF k = 0 THEN CompileStart ELSE CompileNext(type, q, known, f[k - 1])
           after == CompileAfter(type, q, known)
<1>1. n \in Nat
  BY QueryBytes
<1>2. CompileLoop(type, q, known) = after[n]
  BY Zenon DEF CompileLoop, CompileAfter, CompileNext, CompileStart
<1>3. \E f : f = [k \in 0..n |-> Loop(f, k)]
  <2> DEFINE S == {m \in Nat : \E f : f = [k \in 0..m |-> Loop(f, k)]}
  <2>1. 0 \in S
    <3> DEFINE f == [k \in 0..0 |-> CompileStart]
    <3>1. f = [k \in 0..0 |-> Loop(f, k)]
      OBVIOUS
    <3> QED
      BY <3>1
  <2>2. ASSUME NEW m \in Nat, m \in S PROVE m + 1 \in S
    <3>1. PICK f : f = [k \in 0..m |-> Loop(f, k)]
      BY <2>2
    <3>2. \A k \in 0..m : f[k] = Loop(f, k)
      BY <3>1
    <3> DEFINE h == [k \in 0..(m + 1) |-> IF k <= m THEN f[k] ELSE Loop(f, k)]
    <3>3. ASSUME NEW k \in 0..(m + 1) PROVE h[k] = Loop(h, k)
      <4>1. k # 0 => h[k - 1] = f[k - 1]
        OBVIOUS
      <4>2. Loop(h, k) = Loop(f, k)
        BY <4>1
      <4> QED
        BY <4>2, <3>2
    <3>4. h = [k \in 0..(m + 1) |-> Loop(h, k)]
      BY <3>3
    <3> HIDE DEF h
    <3>5. \E g : g = [k \in 0..(m + 1) |-> Loop(g, k)]
      BY <3>4
    <3>6. m + 1 \in Nat
      OBVIOUS
    <3> QED
      BY <3>5, <3>6, Zenon
  <2>3. n \in S
    <3> HIDE DEF S
    <3> QED
      BY <1>1, <2>1, <2>2, Upward DEF S
  <2> QED
    BY <2>3
<1>4. after = [k \in 0..n |-> Loop(after, k)]
  BY <1>3 DEF CompileAfter
<1> HIDE DEF after
<1>5. \A k \in 0..n : after[k] = Loop(after, k)
  BY <1>4
<1> QED
  BY <1>1, <1>2, <1>5 DEF after

\* A list that grows by one element at its end.
LEMMA AppendOne ==
  ASSUME NEW S, NEW x \in Seq(S), NEW a \in S, NEW y \in Seq(S)
  PROVE  /\ Append(x, a) \in Seq(S) /\ Len(Append(x, a)) = Len(x) + 1
         /\ Append(x, a) \o y = x \o (<<a>> \o y)
<1>1. <<a>> \in Seq(S) /\ Append(x, a) = x \o <<a>> /\ Append(x, a) \in Seq(S) /\ Len(Append(x, a)) = Len(x) + 1
  BY AppendProperties, AppendIsConcat
<1>2. (x \o <<a>>) \o y = x \o (<<a>> \o y)
  BY <1>1, ConcatAssociative
<1> QED
  BY <1>1, <1>2

\* The compiler begins between two pieces.
LEMMA StopsAtStart ==
  ASSUME NEW q \in Query
  PROVE  Stops(q, 1)
<1>1. 1 \in 1..(Len(q) + 1) /\ 1 - 1 = 0
  BY QueryBytes
<1>2. 0 \notin Colons(q)
  BY DEF Colons
<1>3. Even(q, 1)
  BY <1>1, <1>2, RunNone
<1> QED
  BY <1>1, <1>3, ReadyAtStart DEF Stops

\* The compiler at byte r.pos has recorded the names that begin before it.
Records(q, known, k, r) ==
  \E i \in 1..(Len(q) + 1), names \in Seq(Query) : \E w :
    /\ r = Compiling(i, w, names) /\ Stops(q, i) /\ i > k
    /\ names \o NameList(q, known)[i] = NameList(q, known)[1]

\* Every turn records the name that it takes.
LEMMA RecordsTurns ==
  ASSUME NEW type, NEW q \in Query, NEW known, NEW k \in Nat, k + 1 <= Len(q),
         NEW r, Records(q, known, k, r)
  PROVE  Records(q, known, k + 1, CompileNext(type, q, known, r))
<1> DEFINE n == Len(q)
           list == NameList(q, known)
<1>1. PICK i \in 1..(n + 1), names \in Seq(Query) : \E w :
        /\ r = Compiling(i, w, names) /\ Stops(q, i) /\ i > k
        /\ names \o list[i] = list[1]
  BY DEF Records
<1>2. PICK w : r = Compiling(i, w, names) /\ Stops(q, i) /\ i > k /\ names \o list[i] = list[1]
  BY <1>1
<1>3. n \in Nat /\ n = Len(q) /\ r.pos = i /\ r.query = w /\ r.names = names
  BY <1>2, QueryBytes DEF Compiling
<1> DEFINE r1 == CompileNext(type, q, known, r)
<1> HIDE DEF list, n
\* What a turn leaves behind.
<1>6. ASSUME NEW to \in 1..(n + 1), NEW w1, NEW names1 \in Seq(Query), r1 = Compiling(to, w1, names1),
             Stops(q, to), to > k + 1, names1 \o list[to] = list[1]
      PROVE  Records(q, known, k + 1, r1)
  <2>1. \E w2 : r1 = Compiling(to, w2, names1) /\ Stops(q, to) /\ to > k + 1 /\ names1 \o list[to] = list[1]
    BY <1>6, Zenon
  <2> HIDE DEF r1
  <2> QED
    BY <1>6, <2>1, Zenon DEF Records, list, n
<1>4. CASE i > n
  <2>1. r1 = r /\ i > k + 1
    BY <1>3, <1>4 DEF CompileNext
  <2> HIDE DEF r1
  <2> QED
    BY <1>2, <1>6, <2>1 DEF r1
<1>5. CASE ~(i > n)
  <2>1. i \in 1..n
    BY <1>3, <1>5
  <2>2. r1 = CompileTurn(type, q, known, r)
    BY <1>3, <1>5, Zenon DEF CompileNext
  <2> HIDE DEF r1
  <2>3. CopiesOn(q, known, r, r1) \/ TakesName(type, q, known, r, r1)
    BY <1>2, <2>1, <2>2, CompileWays DEF n
  <2>4. CASE CopiesOn(q, known, r, r1)
    <3>1. PICK to \in (i + 1)..(n + 1) :
            /\ r1 = Compiling(to, w \o SubSeq(q, i, to - 1), names)
            /\ Stops(q, to) /\ \A j \in i..(to - 1) : j \notin NameStarts(q, known)
      BY <1>3, <2>4, Zenon DEF CopiesOn
    <3>2. to \in 1..(n + 1) /\ i \in 1..to /\ to > k + 1
      BY <1>2, <1>3
    <3>3. list[i] = list[to]
      BY <3>1, <3>2, NameListSkips DEF list, n
    <3> QED
      BY <1>2, <1>6, <3>1, <3>2, <3>3 DEF r1
  <2>5. CASE TakesName(type, q, known, r, r1)
    <3>1. PICK to \in (i + 2)..(n + 1) : \E name :
            /\ i \in NameStarts(q, known) /\ name = NameAt(q, i + 1) /\ to = i + 1 + Len(name)
            /\ r1 = Compiling(to, w \o emitParam(type, names, name), Append(names, name))
            /\ Stops(q, to) /\ \A j \in (i + 1)..(to - 1) : q[j] \in isBindNameByte
      BY <1>3, <2>5, Zenon DEF TakesName
    <3>2. PICK name :
            /\ i \in NameStarts(q, known) /\ name = NameAt(q, i + 1) /\ to = i + 1 + Len(name)
            /\ r1 = Compiling(to, w \o emitParam(type, names, name), Append(names, name))
            /\ Stops(q, to) /\ \A j \in (i + 1)..(to - 1) : q[j] \in isBindNameByte
      BY <3>1
    <3>3. /\ to \in 1..(n + 1) /\ i + 1 \in 1..(n + 1) /\ i + 1 \in 1..to /\ to > k + 1
      BY <1>2, <1>3
    <3>4. \A j \in (i + 1)..(to - 1) : j \notin NameStarts(q, known)
      <4>1. \A j \in (i + 1)..(to - 1) : q[j] # ":"
        BY <3>2, NoNameByte
      <4> QED
        BY <4>1, StartsAre DEF Colons
    <3>5. list[i + 1] = list[to]
      BY <3>3, <3>4, NameListSkips DEF list, n
    <3>6. list[i] = <<name>> \o list[to]
      BY <2>1, <3>2, <3>5, NameListCases DEF list, n
    <3>7. name \in Query
      <4>1. At(q, i + 1) \in isBindStartByte
        BY <3>2, StartsAre
      <4>2. i + 1 \in 1..n /\ q[i + 1] \in isBindStartByte
        BY <4>1, AtValue, NoNameByte DEF n
      <4> QED
        BY <3>2, <4>2, NameBytes DEF n
    <3>8. list[to] \in Seq(Query)
      BY <3>3, NameListType DEF list, n
    <3>9. Append(names, name) \in Seq(Query) /\ Append(names, name) \o list[to] = names \o (<<name>> \o list[to])
      <4> DEFINE rest == list[to]
      <4>1. rest \in Seq(Query)
        BY <3>8
      <4> HIDE DEF rest
      <4>2. Append(names, name) \in Seq(Query) /\ Append(names, name) \o rest = names \o (<<name>> \o rest)
        BY <3>7, <4>1, AppendOne
      <4> QED
        BY <4>2 DEF rest
    <3>10. Append(names, name) \o list[to] = list[1]
      BY <1>2, <3>6, <3>9
    <3> QED
      BY <1>6, <3>2, <3>3, <3>9, <3>10 DEF r1
  <2> QED
    BY <2>3, <2>4, <2>5
<1> QED
  BY <1>4, <1>5

\* What compileNamedQueryWith records are the known names of the query, in order, whatever
\* the placeholders are.
LEMMA CompiledNames ==
  ASSUME NEW type, NEW q \in Query, NEW known
  PROVE  compileNamedQueryWith(type, q, known).names = NamesIn(q, known)
<1> DEFINE n == Len(q)
           list == NameList(q, known)
           after == CompileAfter(type, q, known)
           S == {k \in Nat : k <= n => Records(q, known, k, after[k])}
<1>1. n \in Nat
  BY QueryBytes
<1>2. 0 \in S
  <2> DEFINE nothing == <<>>
  <2>1. after[0] = Compiling(1, nothing, nothing)
    BY CompileSteps DEF CompileStart, Compiling
  <2>2. nothing \in Seq(Query) /\ 1 \in 1..(n + 1) /\ 1 > 0
    BY <1>1
  <2>3. nothing \o list[1] = list[1]
    BY <2>2, NameListType
  <2>4. Stops(q, 1)
    BY StopsAtStart
  <2> HIDE DEF after, nothing, list
  <2> QED
    BY <2>1, <2>2, <2>3, <2>4 DEF Records, list
<1>3. ASSUME NEW k \in Nat, k \in S PROVE k + 1 \in S
  <2>1. ASSUME k + 1 <= n PROVE Records(q, known, k + 1, after[k + 1])
    <3>1. k + 1 \in 1..n /\ (k + 1) - 1 = k /\ k <= n
      BY <1>1, <2>1
    <3>2. after[k + 1] = CompileNext(type, q, known, after[k])
      BY <3>1, CompileSteps
    <3>3. Records(q, known, k, after[k])
      BY <1>3, <3>1
    <3> HIDE DEF after
    <3> QED
      BY <3>1, <3>2, <3>3, RecordsTurns
  <2> QED
    BY <2>1
<1>4. Records(q, known, n, after[n])
  <2>1. Nat \subseteq S
    <3> HIDE DEF S
    <3>1. S \subseteq Nat
      BY DEF S
    <3> QED
      BY <1>2, <1>3, <3>1, Upward
  <2> QED
    BY <1>1, <2>1
<1>5. CompileLoop(type, q, known) = after[n]
  BY CompileSteps
<1> HIDE DEF after
<1>6. PICK i \in 1..(n + 1), names \in Seq(Query) : \E w :
        /\ after[n] = Compiling(i, w, names) /\ Stops(q, i) /\ i > n
        /\ names \o list[i] = list[1]
  BY <1>4 DEF Records
<1>7. i = n + 1 /\ after[n].names = names /\ names \o list[i] = list[1]
  BY <1>1, <1>6 DEF Compiling
<1>8. list[i] = <<>>
  BY <1>7, NameListCases
<1>9. names = list[1]
  BY <1>7, <1>8, ConcatEmptySeq
<1>10. compileNamedQueryWith(type, q, known).names = names
  BY <1>5, <1>7 DEF compileNamedQueryWith
<1> QED
  BY <1>9, <1>10, NameListSteps

-----------------------------------------------------------------------------
(* A query with ? in the place of its names reads the same                  *)

\* The bytes that no scanner looks for.
Unseen == {":", "?"}

\* Queries that differ in such bytes alone.
Alike(q, u) ==
  Len(u) = Len(q) /\ \A j \in 1..Len(q) : u[j] = q[j] \/ (q[j] \in Unseen /\ u[j] \in Unseen)

\* It goes both ways.
LEMMA AlikeTurns ==
  ASSUME NEW q, NEW u, Alike(q, u)
  PROVE  Alike(u, q)
BY DEF Alike

\* Every other byte is found in the same places.
LEMMA AlikeAt ==
  ASSUME NEW q \in Query, NEW u \in Query, Alike(q, u), NEW c, c \notin Unseen
  PROVE  \A j : At(u, j) = c <=> At(q, j) = c
<1> SUFFICES ASSUME NEW j PROVE At(u, j) = c <=> At(q, j) = c
  OBVIOUS
<1>1. Len(u) = Len(q)
  BY DEF Alike
<1>2. j \in 1..Len(q) => (u[j] = c <=> q[j] = c)
  BY DEF Alike
<1> QED
  BY <1>1, <1>2, AtValue

\* And every pattern of them.
LEMMA AlikeHasAt ==
  ASSUME NEW q \in Query, NEW u \in Query, Alike(q, u), NEW s \in Query,
         \A k \in 1..Len(s) : s[k] \notin Unseen, NEW i \in Int
  PROVE  HasAt(u, i, s) <=> HasAt(q, i, s)
<1>1. Len(u) = Len(q) /\ Len(q) \in Nat /\ Len(s) \in Nat
  BY QueryBytes DEF Alike
<1>2. /\ HasAt(u, i, s) <=> /\ i >= 1 /\ i + Len(s) - 1 <= Len(u)
                            /\ \A k \in 1..Len(s) : u[i + k - 1] = s[k]
      /\ HasAt(q, i, s) <=> /\ i >= 1 /\ i + Len(s) - 1 <= Len(q)
                            /\ \A k \in 1..Len(s) : q[i + k - 1] = s[k]
  <2>1. q \in Seq(Byte) /\ u \in Seq(Byte) /\ s \in Seq(Byte)
    BY DEF Query
  <2> HIDE DEF Byte
  <2> QED
    BY <2>1, HasAtBytes
<1>3. ASSUME i >= 1, i + Len(s) - 1 <= Len(q), NEW k \in 1..Len(s)
      PROVE  u[i + k - 1] = s[k] <=> q[i + k - 1] = s[k]
  <2> DEFINE j == i + k - 1
  <2>1. j \in 1..Len(q)
    BY <1>1, <1>3
  <2> HIDE DEF j
  <2>2. u[j] = q[j] \/ (q[j] \in Unseen /\ u[j] \in Unseen)
    BY <2>1 DEF Alike
  <2>3. s[k] \notin Unseen
    OBVIOUS
  <2>4. u[j] = s[k] <=> q[j] = s[k]
    BY <2>2, <2>3
  <2> QED
    BY <2>4 DEF j
<1> QED
  BY <1>1, <1>2, <1>3

\* A pattern that is found in the same places is the first one in the same place.
LEMMA AlikeAfter ==
  ASSUME NEW q \in Query, NEW u \in Query, Alike(q, u), NEW s, Len(s) \in Nat, NEW from \in Int,
         \A i \in Int : HasAt(u, i, s) <=> HasAt(q, i, s)
  PROVE  AfterFirst(u, from, s) = AfterFirst(q, from, s)
<1> DEFINE F(v) == {i \in from..(Len(v) - Len(s) + 1) : HasAt(v, i, s)}
<1>1. Len(u) = Len(q) /\ Len(q) \in Nat
  BY QueryBytes DEF Alike
<1>2. \A i \in Int : HasAt(u, i, s) <=> HasAt(q, i, s)
  OBVIOUS
<1>3. F(u) = F(q)
  BY <1>1, <1>2
<1>4. \A v : AfterFirst(v, from, s) = IF F(v) = {} THEN Len(v) + 1 ELSE Min(F(v)) + Len(s)
  BY Zenon DEF AfterFirst
<1> HIDE DEF F
<1> QED
  BY <1>1, <1>3, <1>4

\* Quoted text ends in the same place.
LEMMA AlikeDelimited ==
  ASSUME NEW q \in Query, NEW u \in Query, Alike(q, u), NEW close, close # NoByte, close \notin Unseen,
         NEW i \in 1..Len(q)
  PROVE  scanDelimited(u, i, close) = scanDelimited(q, i, close)
<1> DEFINE n == Len(q)
<1>1. n \in Nat /\ Len(u) = n
  BY QueryBytes DEF Alike
<1>2. PICK f : /\ \A start : scanDelimited(q, start, close) = f[start + 1]
               /\ \A k \in 1..(n + 1) : f[k] = DelimitedLoop(q, close, f, k)
  BY DelimitedSteps
<1>3. PICK g : /\ \A start : scanDelimited(u, start, close) = g[start + 1]
               /\ \A k \in 1..(n + 1) : g[k] = DelimitedLoop(u, close, g, k)
  BY <1>1, DelimitedSteps
<1> DEFINE S == {k \in 1..(n + 1) : g[k] = f[k]}
<1>4. ASSUME NEW k \in 1..(n + 1), \A j \in (k + 1)..(n + 1) : j \in S PROVE k \in S
  <2>1. f[k] = DelimitedLoop(q, close, f, k) /\ g[k] = DelimitedLoop(u, close, g, k)
    BY <1>2, <1>3
  <2>2. CASE k = n + 1
    BY <1>1, <2>1, <2>2 DEF DelimitedLoop
  <2>3. CASE k # n + 1
    <3>1. k \in 1..n /\ k <= n /\ k + 1 \in (k + 1)..(n + 1)
      BY <1>1, <2>3
    <3>2. g[k + 1] = f[k + 1]
      BY <1>4, <3>1
    <3>3. At(u, k + 1) = close <=> At(q, k + 1) = close
      BY AlikeAt
    <3>4. At(q, k + 1) = close => g[k + 2] = f[k + 2]
      <4>1. At(q, k + 1) = close => k + 2 \in (k + 1)..(n + 1)
        BY <1>1, <3>1, AtValue
      <4> QED
        BY <1>4, <4>1
    <3>5. u[k] = close <=> q[k] = close
      BY <3>1 DEF Alike
    <3>6. g[k] = f[k]
      BY <1>1, <2>1, <3>1, <3>2, <3>3, <3>4, <3>5 DEF DelimitedLoop
    <3> QED
      BY <3>6
  <2> QED
    BY <2>2, <2>3
<1>5. \A k \in 1..(n + 1) : k \in S
  <2> HIDE DEF S
  <2> QED
    BY <1>1, <1>4, Downward
<1>6. i + 1 \in 1..(n + 1)
  BY <1>1
<1>7. g[i + 1] = f[i + 1]
  BY <1>5, <1>6
<1> QED
  BY <1>2, <1>3, <1>7

\* A tag is made of other bytes.
LEMMA TagIsSeen ==
  ASSUME NEW q \in Query, NEW i \in 1..Len(q), q[i] = "$", NEW t \in dollarTags(q, i)
  PROVE  \A k \in 1..Len(t) : t[k] \notin Unseen
<1> DEFINE P(j) == /\ q[j] = "$"
                   /\ \A l \in (i + 1)..(j - 1) : q[l] \in isDollarTagByte
                   /\ q[i + 1] \notin Digit
<1>1. dollarTags(q, i) = {SubSeq(q, i, j) : j \in {k \in (i + 1)..Len(q) : P(k)}}
  BY Zenon DEF dollarTags
<1>2. "$" \notin Unseen /\ \A c \in isDollarTagByte : c \notin Unseen
  BY DEF isDollarTagByte, isIdentByte, Letter, Digit, Unseen
<1>3. PICK j \in (i + 1)..Len(q) : P(j) /\ t = SubSeq(q, i, j)
  BY <1>1
<1>4. Len(t) = j - i + 1 /\ \A k \in 1..Len(t) : t[k] = q[i + k - 1]
  BY <1>3, TagBytes
<1>5. ASSUME NEW k \in 1..Len(t) PROVE t[k] \notin Unseen
  <2> DEFINE l == i + k - 1
  <2>1. l = i \/ l = j \/ l \in (i + 1)..(j - 1)
    BY <1>4, QueryBytes
  <2>2. t[k] = q[l]
    BY <1>4
  <2> HIDE DEF l
  <2>3. q[l] = "$" \/ q[l] \in isDollarTagByte
    BY <1>3, <2>1
  <2> QED
    BY <1>2, <2>2, <2>3
<1> QED
  BY <1>5

\* The same tag opens.
LEMMA AlikeTag ==
  ASSUME NEW q \in Query, NEW u \in Query, Alike(q, u), NEW i \in 1..Len(q), q[i] = "$",
         NEW t \in dollarTags(q, i)
  PROVE  t \in dollarTags(u, i)
<1> DEFINE P(v, j) == /\ v[j] = "$"
                      /\ \A l \in (i + 1)..(j - 1) : v[l] \in isDollarTagByte
                      /\ v[i + 1] \notin Digit
<1>1. \A v : dollarTags(v, i) = {SubSeq(v, i, j) : j \in {k \in (i + 1)..Len(v) : P(v, k)}}
  BY Zenon DEF dollarTags
<1>2. Len(u) = Len(q) /\ Len(q) \in Nat
  BY QueryBytes DEF Alike
<1>3. PICK j \in (i + 1)..Len(q) : P(q, j) /\ t = SubSeq(q, i, j)
  <2> HIDE DEF P
  <2> QED
    BY <1>1
<1>4. t \in Query /\ Len(t) = j - i + 1 /\ \A k \in 1..Len(t) : t[k] = q[i + k - 1]
  <2> DEFINE s == SubSeq(q, i, j)
  <2>1. i \in 1..(Len(q) + 1) /\ j \in Nat /\ j <= Len(q) /\ i <= j + 1
    BY <1>2, <1>3
  <2>2. s \in Query /\ Len(s) = j - i + 1 /\ \A k \in 1..(j - i + 1) : s[k] = q[i + k - 1]
    BY <2>1, SubSeqBytes
  <2>3. t = s
    BY <1>3
  <2> HIDE DEF s
  <2> QED
    BY <2>2, <2>3
<1>5. \A k \in 1..Len(t) : t[k] \notin Unseen
  BY TagIsSeen
<1>6. \A l \in i..j : u[l] = q[l]
  <2> SUFFICES ASSUME NEW l \in i..j PROVE u[l] = q[l]
    OBVIOUS
  <2> DEFINE k == l - i + 1
  <2>1. k \in 1..Len(t) /\ i + k - 1 = l /\ l \in 1..Len(q)
    BY <1>2, <1>3, <1>4
  <2> HIDE DEF k
  <2>2. t[k] = q[l] /\ t[k] \notin Unseen
    BY <1>4, <1>5, <2>1
  <2> QED
    BY <2>1, <2>2 DEF Alike
<1>7. P(u, j)
  <2>1. j \in i..j /\ i + 1 \in i..j /\ \A l \in (i + 1)..(j - 1) : l \in i..j
    BY <1>2, <1>3
  <2> QED
    BY <1>3, <1>6, <2>1
<1>8. SubSeq(u, i, j) = t
  <2> DEFINE s == SubSeq(u, i, j)
  <2>1. s \in Query /\ Len(s) = j - i + 1 /\ \A k \in 1..Len(s) : s[k] = u[i + k - 1]
    <3>1. i \in 1..(Len(u) + 1) /\ j \in Nat /\ j <= Len(u) /\ i <= j + 1
      BY <1>2, <1>3
    <3>2. s \in Query /\ Len(s) = j - i + 1 /\ \A k \in 1..(j - i + 1) : s[k] = u[i + k - 1]
      BY <3>1, SubSeqBytes
    <3> HIDE DEF s
    <3> QED
      BY <3>2
  <2> HIDE DEF s
  <2>2. \A k \in 1..Len(s) : s[k] = t[k]
    <3> SUFFICES ASSUME NEW k \in 1..Len(s) PROVE s[k] = t[k]
      OBVIOUS
    <3>1. i + k - 1 \in i..j
      BY <1>2, <1>3, <2>1
    <3>2. u[i + k - 1] = q[i + k - 1]
      BY <1>6, <3>1
    <3> QED
      BY <1>4, <2>1, <3>2
  <2>3. s = t
    BY <1>4, <2>1, <2>2, SeqEqual DEF Query
  <2> QED
    BY <2>3 DEF s
<1> HIDE DEF P
<1>9. j \in (i + 1)..Len(u)
  BY <1>2
<1> QED
  BY <1>1, <1>7, <1>8, <1>9

\* Every segment ends in the same place.
LEMMA AlikeSegment ==
  ASSUME NEW q \in Query, NEW u \in Query, Alike(q, u), NEW i \in 1..Len(q)
  PROVE  scanSkipSegment(u, i) = scanSkipSegment(q, i)
<1>1. Len(u) = Len(q) /\ i \in 1..Len(u) /\ Len(q) \in Nat /\ i \in Int
  BY QueryBytes DEF Alike
<1>2. /\ \A c \in Quote : c \notin Unseen /\ c # NoByte
      /\ "[" \notin Unseen /\ "]" \notin Unseen /\ "$" \notin Unseen /\ "-" \notin Unseen /\ "/" \notin Unseen
      /\ "*" \notin Unseen /\ "\n" \notin Unseen /\ "]" # NoByte
  <2>1. /\ "[" \notin Unseen /\ "]" \notin Unseen /\ "$" \notin Unseen /\ "-" \notin Unseen /\ "/" \notin Unseen
        /\ "*" \notin Unseen /\ "\n" \notin Unseen /\ "]" # NoByte
    BY DEF Unseen, NoByte
  <2>2. \A c \in Quote : c \notin Unseen
    BY DEF Unseen, Quote
  <2>3. \A c \in Quote : c # NoByte
    BY NoByteIsNone
  <2> QED
    BY <2>1, <2>2, <2>3
<1>3. \A c : c \notin Unseen => (u[i] = c <=> q[i] = c)
  BY DEF Alike
<1>4. \A c : c \notin Unseen => (At(u, i + 1) = c <=> At(q, i + 1) = c)
  BY AlikeAt
<1>5. CASE q[i] \in Quote
  <2>1. u[i] = q[i]
    BY <1>2, <1>3, <1>5
  <2>2. scanDelimited(u, i, q[i]) = scanDelimited(q, i, q[i])
    BY <1>2, <1>5, AlikeDelimited
  <2> QED
    BY <1>1, <1>5, <2>1, <2>2, SegmentWays
<1>6. CASE q[i] = "["
  <2>1. u[i] = "["
    BY <1>2, <1>3, <1>6
  <2>2. scanDelimited(u, i, "]") = scanDelimited(q, i, "]")
    BY <1>2, AlikeDelimited
  <2> QED
    BY <1>1, <1>6, <2>1, <2>2, SegmentWays
<1>7. CASE q[i] = "$"
  <2>1. u[i] = "$"
    BY <1>2, <1>3, <1>7
  <2>2. dollarTags(u, i) = dollarTags(q, i)
    <3>1. \A t \in dollarTags(q, i) : t \in dollarTags(u, i)
      BY <1>7, AlikeTag
    <3>2. \A t \in dollarTags(u, i) : t \in dollarTags(q, i)
      BY <1>1, <2>1, AlikeTag, AlikeTurns
    <3> QED
      BY <3>1, <3>2
  <2>3. CASE dollarTags(q, i) = {}
    BY <1>1, <1>7, <2>1, <2>2, <2>3, SegmentWays
  <2>4. CASE dollarTags(q, i) # {}
    <3>1. PICK t \in dollarTags(q, i) : TRUE
      BY <2>4
    <3>2. dollarTags(q, i) = {t} /\ t \in Query /\ Len(t) \in Nat
      BY <3>1, OneTag
    <3>3. \A k \in 1..Len(t) : t[k] \notin Unseen
      BY <1>7, <3>1, TagIsSeen
    <3> DEFINE from == i + Len(t)
    <3>4. from \in Int
      BY <1>1, <3>2
    <3> HIDE DEF from
    <3>5. AfterFirst(u, from, t) = AfterFirst(q, from, t)
      BY <3>2, <3>3, <3>4, AlikeHasAt, AlikeAfter
    <3>6. scanSkipSegment(q, i) = AfterFirst(q, from, t)
      BY <1>7, <3>2, SegmentWays DEF from
    <3>7. scanSkipSegment(u, i) = AfterFirst(u, from, t)
      BY <1>1, <2>1, <2>2, <3>2, SegmentWays DEF from
    <3> QED
      BY <3>5, <3>6, <3>7
  <2> QED
    BY <2>3, <2>4
<1>8. CASE q[i] = "-" /\ At(q, i + 1) = "-"
  <2>1. u[i] = "-" /\ At(u, i + 1) = "-"
    BY <1>2, <1>3, <1>4, <1>8
  <2> DEFINE s == <<"\n">>
             from == i + 2
  <2>2. Len(s) \in Nat /\ from \in Int
    BY <1>1
  <2>4. \A j \in Int : HasAt(u, j, s) <=> HasAt(q, j, s)
    <3>1. "\n" # NoByte
      BY NoByteIsNone
    <3>2. \A j \in Int : (HasAt(u, j, s) <=> At(u, j) = "\n") /\ (HasAt(q, j, s) <=> At(q, j) = "\n")
      BY <3>1, HasOne
    <3> QED
      BY <1>2, <3>2, AlikeAt
  <2> HIDE DEF s, from
  <2>3. AfterFirst(u, from, s) = AfterFirst(q, from, s)
    BY <2>2, <2>4, AlikeAfter
  <2> QED
    BY <1>1, <1>8, <2>1, <2>3, SegmentWays DEF s, from
<1>9. CASE q[i] = "/" /\ At(q, i + 1) = "*"
  <2>1. u[i] = "/" /\ At(u, i + 1) = "*"
    BY <1>2, <1>3, <1>4, <1>9
  <2> DEFINE s == <<"*", "/">>
             from == i + 2
  <2>2. Len(s) \in Nat /\ from \in Int
    BY <1>1
  <2>4. \A j \in Int : HasAt(u, j, s) <=> HasAt(q, j, s)
    <3>1. "*" # NoByte /\ "/" # NoByte
      BY NoByteIsNone
    <3>2. \A j \in Int : /\ HasAt(u, j, s) <=> At(u, j) = "*" /\ At(u, j + 1) = "/"
                         /\ HasAt(q, j, s) <=> At(q, j) = "*" /\ At(q, j + 1) = "/"
      BY <3>1, HasPair
    <3> QED
      BY <1>2, <3>2, AlikeAt
  <2> HIDE DEF s, from
  <2>3. AfterFirst(u, from, s) = AfterFirst(q, from, s)
    BY <2>2, <2>4, AlikeAfter
  <2> QED
    BY <1>1, <1>9, <2>1, <2>3, SegmentWays DEF s, from
<1> DEFINE None1(v) == ~ \/ v[i] \in Quote \cup {"[", "$"}
                         \/ v[i] = "-" /\ At(v, i + 1) = "-"
                         \/ v[i] = "/" /\ At(v, i + 1) = "*"
<1>10. CASE None1(q)
  <2>1. u[i] \notin Quote \cup {"[", "$"}
    BY <1>2, <1>3, <1>10
  <2>2. ~(u[i] = "-" /\ At(u, i + 1) = "-") /\ ~(u[i] = "/" /\ At(u, i + 1) = "*")
    BY <1>2, <1>3, <1>4, <1>10
  <2>3. scanSkipSegment(q, i) = i
    BY <1>10, SegmentWays
  <2>4. scanSkipSegment(u, i) = i
    BY <1>1, <2>1, <2>2, SegmentWays
  <2> QED
    BY <2>3, <2>4
<1> QED
  BY <1>5, <1>6, <1>7, <1>8, <1>9, <1>10

\* The query with ? in the place of the names that are known.
Marked(q, known) == [i \in 1..Len(q) |-> IF i \in NameStarts(q, known) THEN "?" ELSE q[i]]

\* The query with a ? where every known name begins differs from it there and nowhere else.
LEMMA MarkedBytes ==
  ASSUME NEW q \in Query, NEW known, NEW u, u = Marked(q, known)
  PROVE  /\ u \in Query /\ Len(u) = Len(q) /\ Alike(q, u)
         /\ \A j \in 1..Len(q) : j \in NameStarts(q, known) => u[j] = "?" /\ q[j] = ":"
         /\ \A j \in 1..Len(q) : j \notin NameStarts(q, known) => u[j] = q[j]
<1> DEFINE n == Len(q)
           starts == NameStarts(q, known)
<1>1. n \in Nat /\ \A i \in 1..n : q[i] \in Byte
  BY QueryBytes
<1>2. \A j : j \in starts => q[j] = ":"
  BY StartsAre DEF Colons
<1>3. u = [i \in 1..n |-> IF i \in starts THEN "?" ELSE q[i]]
  BY DEF Marked
<1> HIDE DEF starts, n
<1>4. "?" \in Byte
  BY DEF Byte
<1> HIDE DEF Query
<1>5. \A i \in 1..n : (IF i \in starts THEN "?" ELSE q[i]) \in Byte
  BY <1>1, <1>4
<1>6. u \in [1..n -> Byte] /\ \A j \in 1..n : (j \in starts => u[j] = "?") /\ (j \notin starts => u[j] = q[j])
  BY <1>3, <1>5
<1>7. u \in Query /\ Len(u) = n
  <2> HIDE DEF Byte
  <2> QED
    BY <1>1, <1>6 DEF Query
<1>8. Alike(q, u)
  BY <1>2, <1>6, <1>7 DEF Alike, Unseen, n
<1> QED
  BY <1>2, <1>6, <1>7, <1>8 DEF n, starts

\* There is no placeholder where no ? is.
LEMMA MarksStretch ==
  ASSUME NEW q \in Query, NEW hi \in 1..(Len(q) + 1), NEW lo \in 1..hi,
         \A j \in lo..(hi - 1) : q[j] \in PlainBytes /\ q[j] # "?"
  PROVE  Marks(q)[lo] = Marks(q)[hi]
<1> DEFINE S == {i \in 1..(Len(q) + 1) : i \in lo..hi => Marks(q)[i] = Marks(q)[hi]}
<1>1. Len(q) \in Nat
  BY QueryBytes
<1>2. ASSUME NEW i \in 1..(Len(q) + 1), \A j \in (i + 1)..(Len(q) + 1) : j \in S PROVE i \in S
  <2> SUFFICES ASSUME i \in lo..hi, i # hi PROVE Marks(q)[i] = Marks(q)[hi]
    OBVIOUS
  <2>1. i \in 1..Len(q) /\ i \in lo..(hi - 1) /\ i + 1 \in (i + 1)..(Len(q) + 1) /\ i + 1 \in lo..hi
    BY <1>1
  <2>2. Marks(q)[i + 1] = Marks(q)[hi]
    BY <1>2, <2>1
  <2>3. q[i] \in PlainBytes /\ q[i] # "?"
    BY <2>1
  <2>4. scanSkipSegment(q, i) = i
    BY <2>1, <2>3, ReadsPlain
  <2>5. ~(i > i)
    BY <2>1
  <2>6. Marks(q)[i] = Marks(q)[i + 1]
    BY <2>1, <2>3, <2>4, <2>5, MarksCases
  <2> QED
    BY <2>2, <2>6
<1>3. \A i \in 1..(Len(q) + 1) : i \in S
  <2> HIDE DEF S
  <2> QED
    BY <1>1, <1>2, Downward
<1>4. lo \in 1..(Len(q) + 1) /\ lo \in lo..hi
  BY <1>1
<1> QED
  BY <1>3, <1>4

\* Where q has no placeholder left, one that reads as q up to x has none before x.
LEMMA MarksAlike ==
  ASSUME NEW q \in Query, NEW u \in Query, Alike(q, u),
         NEW x \in 1..(Len(q) + 1), NEW lo \in 1..x, \A j \in lo..(x - 1) : u[j] = q[j],
         x = Len(q) + 1 \/ (x \notin Protected(q) /\ q[x] # "?"),
         Ready(q, lo), Marks(q)[lo] = <<>>
  PROVE  Marks(u)[lo] = Marks(u)[x] /\ Marks(q)[x] = <<>>
<1> DEFINE n == Len(q)
           S == {i \in 1..(n + 1) : i \in lo..x /\ Ready(q, i) /\ Marks(q)[i] = <<>> =>
                                      Marks(u)[i] = Marks(u)[x] /\ Marks(q)[x] = <<>>}
<1>1. n \in Nat /\ Len(u) = n
  BY QueryBytes DEF Alike
<1>2. ASSUME NEW i \in 1..(n + 1), \A j \in (i + 1)..(n + 1) : j \in S PROVE i \in S
  <2> SUFFICES ASSUME i \in lo..x, Ready(q, i), Marks(q)[i] = <<>>, i # x
               PROVE  Marks(u)[i] = Marks(u)[x] /\ Marks(q)[x] = <<>>
    OBVIOUS
  <2>1. i \in 1..n /\ i \in lo..(x - 1) /\ i \in 1..Len(u)
    BY <1>1
  <2> DEFINE e == scanSkipSegment(q, i)
  <2>2. e = scanSkipSegment(u, i) /\ e \in i..(n + 1) /\ u[i] = q[i]
    BY <2>1, AlikeSegment, Segments
  <2>3. /\ At(u, i - 1) = "\\" <=> At(q, i - 1) = "\\"
    <3>1. "\\" \notin Unseen
      BY DEF Unseen
    <3> QED
      BY <3>1, AlikeAt
  \* The way on is the same in both.
  <2>4. ASSUME NEW next \in (i + 1)..(n + 1), next \in lo..x, Ready(q, next),
               Marks(q)[i] = Marks(q)[next], Marks(u)[i] = Marks(u)[next]
        PROVE  Marks(u)[i] = Marks(u)[x] /\ Marks(q)[x] = <<>>
    BY <1>2, <2>4
  <2> HIDE DEF e
  <2>5. CASE e > i
    <3>1. Ready(q, e) /\ \A j \in i..(e - 1) : Region(q)[j].in # "normal"
      <4>1. e # i
        BY <2>1, <2>5
      <4> QED
        BY <2>1, <4>1, Segments DEF e
    <3>2. e <= x
      <4> SUFFICES ASSUME ~(e <= x) PROVE FALSE
        OBVIOUS
      <4>1. x \in i..(e - 1) /\ x \in 1..n /\ x # n + 1
        BY <1>1, <2>1, <2>2
      <4>2. x \in Protected(q)
        BY <3>1, <4>1 DEF Protected
      <4> QED
        BY <4>1, <4>2
    <3>3. Marks(q)[i] = Marks(q)[e] /\ Marks(u)[i] = Marks(u)[e]
      BY <2>1, <2>2, <2>5, MarksCases DEF e
    <3>4. e \in (i + 1)..(n + 1) /\ e \in lo..x
      BY <1>1, <2>1, <2>2, <2>5, <3>2
    <3> QED
      BY <2>4, <3>1, <3>3, <3>4
  <2>6. CASE ~(e > i)
    <3>1. e = i /\ i \notin Protected(q) /\ Ready(q, i + 1)
      <4>1. e = i
        BY <2>1, <2>2, <2>6
      <4> QED
        BY <2>1, <4>1, ReadsNormal DEF e
    <3>2. i + 1 \in (i + 1)..(n + 1) /\ i + 1 \in lo..x
      BY <1>1, <2>1
    <3>3. CASE q[i] # "?" \/ At(q, i - 1) = "\\"
      <4>1. Marks(q)[i] = Marks(q)[i + 1]
        BY <2>1, <2>6, <3>3, MarksCases DEF e
      <4>2. Marks(u)[i] = Marks(u)[i + 1]
        BY <2>1, <2>2, <2>3, <2>6, <3>3, MarksCases
      <4> QED
        BY <2>4, <3>1, <3>2, <4>1, <4>2
    <3>4. CASE q[i] = "?" /\ At(q, i - 1) # "\\" /\ At(q, i + 1) = "?"
      <4>1. i + 1 \in 1..n /\ q[i + 1] = "?" /\ i + 1 \notin Protected(q) /\ Ready(q, i + 2)
        BY <2>1, <3>1, <3>4, ReadsDoubled DEF e
      <4>2. i + 1 # x
        BY <1>1, <4>1
      <4>3. i + 1 \in lo..(x - 1) /\ i + 2 \in lo..x /\ i + 2 \in (i + 1)..(n + 1)
        BY <1>1, <2>1, <4>1, <4>2
      <4>4. At(u, i + 1) = "?"
        BY <1>1, <4>1, <4>3, AtValue
      <4>5. Marks(q)[i] = Marks(q)[i + 2]
        BY <2>1, <2>6, <3>4, MarksCases DEF e
      <4>6. Marks(u)[i] = Marks(u)[i + 2]
        BY <2>1, <2>2, <2>3, <2>6, <3>4, <4>4, MarksCases
      <4> QED
        BY <2>4, <4>1, <4>3, <4>5, <4>6
    <3>5. CASE q[i] = "?" /\ At(q, i - 1) # "\\" /\ At(q, i + 1) # "?"
      <4>1. Marks(q)[i] = <<i>> \o Marks(q)[i + 1]
        BY <2>1, <2>6, <3>5, MarksCases DEF e
      <4>2. Marks(q)[i + 1] \in Seq(Nat) /\ i \in Nat
        BY <1>1, <2>1, <3>2, MarksType
      <4>3. <<i>> \o Marks(q)[i + 1] # <<>>
        BY <4>2, HeadOf
      <4> QED
        BY <4>1, <4>3
    <3> QED
      BY <3>3, <3>4, <3>5
  <2> QED
    BY <2>5, <2>6
<1>3. \A i \in 1..(n + 1) : i \in S
  <2> HIDE DEF S
  <2> QED
    BY <1>1, <1>2, Downward
<1>4. lo \in 1..(n + 1) /\ lo \in lo..x
  BY <1>1
<1> QED
  BY <1>3, <1>4

\* Parts that are the same byte by byte.
LEMMA PartSame ==
  ASSUME NEW q \in Query, NEW u \in Query, Len(u) = Len(q), NEW lo \in 1..(Len(q) + 1),
         NEW hi \in Nat, hi <= Len(q), lo <= hi + 1, \A j \in lo..hi : u[j] = q[j]
  PROVE  SubSeq(u, lo, hi) = SubSeq(q, lo, hi)
<1> DEFINE x == SubSeq(u, lo, hi)
           y == SubSeq(q, lo, hi)
           n == hi - lo + 1
<1>1. Len(q) \in Nat /\ n \in Nat
  BY QueryBytes
<1>2. x \in Query /\ Len(x) = n /\ \A k \in 1..n : x[k] = u[lo + k - 1]
  BY SubSeqBytes
<1>3. y \in Query /\ Len(y) = n /\ \A k \in 1..n : y[k] = q[lo + k - 1]
  BY SubSeqBytes
<1>4. \A k \in 1..n : lo + k - 1 \in lo..hi
  BY <1>1
<1> HIDE DEF x, y, n
<1>5. \A k \in 1..n : x[k] = y[k]
  BY <1>2, <1>3, <1>4
<1>6. x = y
  <2>1. x \in Seq(Byte) /\ y \in Seq(Byte)
    BY <1>2, <1>3 DEF Query
  <2> QED
    BY <1>2, <1>3, <1>5, <2>1, SeqEqual
<1> QED
  BY <1>6 DEF x, y

\* Two parts of a query, one after the other.
LEMMA PartsJoin ==
  ASSUME NEW q \in Query, NEW lo \in 1..(Len(q) + 1), NEW mid \in lo..(Len(q) + 1), NEW hi \in mid..(Len(q) + 1)
  PROVE  SubSeq(q, lo, mid - 1) \o SubSeq(q, mid, hi - 1) = SubSeq(q, lo, hi - 1)
<1> DEFINE k == mid - 1
           n == hi - 1
<1>1. Len(q) \in Nat
  BY QueryBytes
<1>2. k \in lo - 1..Len(q) /\ n \in k..Len(q) /\ k + 1 = mid
  BY <1>1
<1> HIDE DEF k, n
<1>3. SubSeq(q, lo, k) \o SubSeq(q, k + 1, n) = SubSeq(q, lo, n)
  <2>1. q \in Seq(Byte)
    BY DEF Query
  <2> QED
    BY <1>2, <2>1, ConcatAdjacentSubSeq
<1> QED
  BY <1>2, <1>3 DEF k, n

\* A part, and the byte behind it.
LEMMA PartMore ==
  ASSUME NEW q \in Query, NEW lo \in 1..(Len(q) + 1), NEW x \in lo..Len(q)
  PROVE  SubSeq(q, lo, x) = SubSeq(q, lo, x - 1) \o <<q[x]>>
<1> DEFINE one == SubSeq(q, x, x)
<1>1. Len(q) \in Nat
  BY QueryBytes
<1>2. one = <<q[x]>>
  <2>1. x \in 1..(Len(q) + 1) /\ x \in Nat /\ x <= Len(q) /\ x <= x + 1 /\ x - x + 1 = 1
    BY <1>1
  <2>2. one \in Query /\ Len(one) = 1 /\ \A k \in 1..1 : one[k] = q[x + k - 1]
    BY <2>1, SubSeqBytes
  <2>3. one[1] = q[x]
    BY <1>1, <2>2
  <2> HIDE DEF one
  <2>4. one \in Seq(Byte)
    BY <2>2 DEF Query
  <2> QED
    BY <2>2, <2>3, <2>4
<1>3. x \in lo..(Len(q) + 1) /\ x + 1 \in x..(Len(q) + 1) /\ (x + 1) - 1 = x
  BY <1>1
<1>4. SubSeq(q, lo, x - 1) \o SubSeq(q, x, x) = SubSeq(q, lo, x)
  <2> DEFINE hi == x + 1
  <2>1. hi \in x..(Len(q) + 1) /\ hi - 1 = x
    BY <1>3
  <2> HIDE DEF hi
  <2>2. SubSeq(q, lo, x - 1) \o SubSeq(q, x, hi - 1) = SubSeq(q, lo, hi - 1)
    BY <1>3, <2>1, PartsJoin
  <2> QED
    BY <2>1, <2>2
<1> QED
  BY <1>2, <1>4

-----------------------------------------------------------------------------
(* Compilation writes a placeholder for every name                          *)

\* What the compiler has written holds a placeholder for every name: w, which ends in the
\* last one, and a copy of the query from byte mark on.
Holds(q, known, i, mark, w, c) ==
  /\ Counts(w, c) /\ GoesOn(Marked(q, known), mark, w)
  /\ mark \in 1..i /\ Ready(q, mark) /\ Marks(q)[mark] = <<>>
  /\ \A j \in mark..(i - 1) : j \notin NameStarts(q, known)

\* The compiler at byte r.pos.
Writes(q, known, k, r) ==
  \E i \in 1..(Len(q) + 1), names \in Seq(Query) : \E mark, w :
    /\ r = Compiling(i, w \o SubSeq(q, mark, i - 1), names) /\ Stops(q, i) /\ i > k
    /\ Holds(q, known, i, mark, w, Len(names))

\* The compiler goes on from byte i to byte to, with no name between them.
Skips(q, known, i, to) ==
  i \in 1..(Len(q) + 1) /\ to \in i..(Len(q) + 1) /\ \A j \in i..(to - 1) : j \notin NameStarts(q, known)

\* A name with its colon at i ends before byte to.
NameEnds(q, known, i, to) ==
  /\ i \in NameStarts(q, known) /\ to \in (i + 2)..(Len(q) + 1) /\ to = i + 1 + Len(NameAt(q, i + 1))
  /\ Ready(q, to) /\ \A j \in (i + 1)..(to - 1) : q[j] \in isBindNameByte

\* What is then held: as many, or one more.
Copied(q, known, i, to, mark, w, c) ==
  /\ Holds(q, known, to, mark, w, c)
  /\ (w \o SubSeq(q, mark, i - 1)) \o SubSeq(q, i, to - 1) = w \o SubSeq(q, mark, to - 1)
Taken(q, known, i, to, mark, w, c) ==
  \E w1 : /\ Holds(q, known, to, to, w1, c + 1)
          /\ (w \o SubSeq(q, mark, i - 1)) \o <<"?">> = w1 \o SubSeq(q, to, to - 1)

\* Copying on, it holds as many.
LEMMA HoldsCopied ==
  ASSUME NEW q \in Query, NEW known, NEW i, NEW to, Skips(q, known, i, to),
         NEW mark, NEW w, NEW c, Holds(q, known, i, mark, w, c)
  PROVE  Copied(q, known, i, to, mark, w, c)
<1>1. /\ Len(q) \in Nat /\ mark \in 1..i /\ w \in Query
      /\ i \in 1..(Len(q) + 1) /\ to \in i..(Len(q) + 1) /\ \A j \in i..(to - 1) : j \notin NameStarts(q, known)
  BY QueryBytes DEF Holds, Counts, Skips
<1>2. \A j \in mark..(to - 1) : j \in mark..(i - 1) \/ j \in i..(to - 1)
  BY <1>1
<1>3. mark \in 1..to
  BY <1>1
<1>4. Holds(q, known, to, mark, w, c)
  BY <1>1, <1>2, <1>3 DEF Holds
<1> DEFINE x == SubSeq(q, mark, i - 1)
           y == SubSeq(q, i, to - 1)
           b == i - 1
           d == to - 1
<1>5. x \in Query
  <2>1. mark \in 1..(Len(q) + 1) /\ b \in Nat /\ b <= Len(q) /\ mark <= b + 1
    BY <1>1
  <2>2. x = SubSeq(q, mark, b)
    OBVIOUS
  <2> HIDE DEF x, b
  <2> QED
    BY <2>1, <2>2, SubSeqBytes
<1>6. y \in Query
  <2>1. i \in 1..(Len(q) + 1) /\ d \in Nat /\ d <= Len(q) /\ i <= d + 1
    BY <1>1
  <2>2. y = SubSeq(q, i, d)
    OBVIOUS
  <2> HIDE DEF y, d
  <2> QED
    BY <2>1, <2>2, SubSeqBytes
<1>7. x \o y = SubSeq(q, mark, to - 1)
  BY <1>1, PartsJoin
<1> HIDE DEF x, y
<1>8. (w \o x) \o y = w \o (x \o y)
  BY <1>1, <1>5, <1>6, ConcatQuery
<1> QED
  BY <1>4, <1>7, <1>8 DEF x, y, Copied

\* A placeholder of a driver that takes ?.
LEMMA QuestionMark ==
  ASSUME NEW names, NEW name
  PROVE  emitParam("QUESTION", names, name) = <<"?">>
BY DEF emitParam, Bindvar

\* With the placeholder for a name, it holds one more.
LEMMA HoldsTaken ==
  ASSUME NEW q \in Query, NEW known, NamesApart(q, known), NEW i, NEW to, NameEnds(q, known, i, to),
         NEW mark, NEW w, NEW c, Holds(q, known, i, mark, w, c)
  PROVE  Taken(q, known, i, to, mark, w, c)
<1> DEFINE n == Len(q)
           starts == NameStarts(q, known)
           u == Marked(q, known)
<1>0. /\ i \in starts /\ to \in (i + 2)..(n + 1) /\ to = i + 1 + Len(NameAt(q, i + 1))
      /\ Ready(q, to) /\ \A j \in (i + 1)..(to - 1) : q[j] \in isBindNameByte
  BY DEF NameEnds
<1>1. n \in Nat /\ mark \in 1..i /\ w \in Query /\ i \in 1..n /\ i \in Colons(q) /\ i \notin Protected(q)
  <2>1. i \in Colons(q)
    BY <1>0, StartsAre
  <2> QED
    BY <2>1, QueryBytes DEF Holds, Counts, Colons
<1>2. /\ Counts(w, c) /\ GoesOn(u, mark, w) /\ Ready(q, mark) /\ Marks(q)[mark] = <<>>
      /\ \A j \in mark..(i - 1) : j \notin starts
  BY DEF Holds
<1>3. /\ u \in Query /\ Len(u) = n /\ Alike(q, u)
      /\ \A j \in 1..n : (j \in starts => u[j] = "?" /\ q[j] = ":") /\ (j \notin starts => u[j] = q[j])
  BY MarkedBytes
<1>4. At(q, i - 1) # "\\" /\ At(q, to) # "?" /\ to \notin starts
  BY <1>0, Zenon DEF NamesApart
<1>5. u[i] = "?" /\ q[i] = ":"
  BY <1>0, <1>1, <1>3
<1> HIDE DEF u
<1>6. At(u, i - 1) # "\\"
  <2>1. "\\" \notin Unseen
    BY DEF Unseen
  <2> QED
    BY <1>3, <1>4, <2>1, AlikeAt
\* The bytes of the name are the same in u.
<1>7. \A j \in (i + 1)..(to - 1) : j \in 1..n /\ j \notin starts /\ u[j] = q[j] /\ q[j] # "?" /\ q[j] # "\\" /\ q[j] # ":"
  <2> SUFFICES ASSUME NEW j \in (i + 1)..(to - 1)
               PROVE  j \in 1..n /\ j \notin starts /\ u[j] = q[j] /\ q[j] # "?" /\ q[j] # "\\" /\ q[j] # ":"
    OBVIOUS
  <2>1. j \in 1..n
    BY <1>0, <1>1
  <2>2. q[j] # "?" /\ q[j] # "\\" /\ q[j] # ":"
    BY <1>0, NoNameByte
  <2> QED
    BY <1>3, <2>1, <2>2
<1>8. i + 1 \in (i + 1)..(to - 1) /\ to - 1 \in (i + 1)..(to - 1) /\ to \in 1..(n + 1) /\ to # 1
  BY <1>0, <1>1
<1>9. At(u, i + 1) # "?"
  BY <1>3, <1>7, <1>8, AtValue
<1>10. Marks(u)[mark] = Marks(u)[i] /\ Marks(q)[i] = <<>>
  <2>1. \A j \in mark..(i - 1) : u[j] = q[j]
    <3>1. \A j \in mark..(i - 1) : j \in 1..n
      BY <1>1
    <3> QED
      BY <1>2, <1>3, <3>1
  <2>2. i \in 1..(n + 1) /\ i \notin Protected(q) /\ q[i] # "?"
    BY <1>1, <1>5
  <2> QED
    BY <1>1, <1>2, <1>3, <2>1, <2>2, MarksAlike
<1>11. FirstMark(u, mark, i)
  <2>1. i \in 1..Len(u) /\ u[i] \in PlainBytes /\ i + 1 \in 1..(Len(u) + 1) /\ ~(i > i)
    BY <1>1, <1>3, <1>5 DEF PlainBytes
  <2>2. scanSkipSegment(u, i) = i
    BY <1>3, <2>1, ReadsPlain
  <2>3. Marks(u)[i] = <<i>> \o Marks(u)[i + 1]
    BY <1>3, <1>5, <1>6, <1>9, <2>1, <2>2, MarksCases
  <2>4. Marks(u)[i + 1] \in Seq(Nat)
    BY <1>3, <2>1, MarksType
  <2> QED
    BY <1>10, <2>3, <2>4 DEF FirstMark
<1> DEFINE w1 == w \o SubSeq(u, mark, i)
<1>12. Counts(w1, c + 1) /\ GoesOn(u, i + 1, w1)
  <2>1. i \in Nat
    BY <1>1
  <2> QED
    BY <1>2, <1>3, <1>11, <2>1, CountsCopy
<1>13. w1 # <<>> /\ w1 \in Query
  <2>1. i + 1 # 1
    BY <1>1
  <2> HIDE DEF w1
  <2> QED
    BY <1>12, <2>1 DEF GoesOn, Counts
<1>14. GoesOn(u, to, w1)
  <2>1. u[to - 1] # "\\"
    BY <1>7, <1>8
  <2>2. At(u, to) # "?"
    <3>1. to \in 1..n => u[to] = q[to]
      BY <1>3, <1>4
    <3> QED
      BY <1>3, <1>4, <3>1, AtValue
  <2> HIDE DEF w1
  <2> QED
    BY <1>3, <1>8, <1>13, <2>1, <2>2 DEF GoesOn
<1>15. Marks(q)[to] = <<>>
  <2>1. \A j \in i..(to - 1) : q[j] \in PlainBytes /\ q[j] # "?"
    <3>1. \A j \in i..(to - 1) : j = i \/ j \in (i + 1)..(to - 1)
      BY <1>0, <1>1
    <3>2. q[i] \in PlainBytes /\ q[i] # "?"
      BY <1>5 DEF PlainBytes
    <3>3. \A j \in (i + 1)..(to - 1) : q[j] \in PlainBytes
      BY <1>0 DEF PlainBytes
    <3> QED
      BY <1>7, <3>1, <3>2, <3>3
  <2>2. i \in 1..to
    BY <1>0, <1>1
  <2> QED
    BY <1>8, <1>10, <2>1, <2>2, MarksStretch
<1>16. Holds(q, known, to, to, w1, c + 1)
  <2>1. to \in 1..to /\ \A j \in to..(to - 1) : FALSE
    BY <1>8
  <2> HIDE DEF w1
  <2> QED
    BY <1>0, <1>12, <1>14, <1>15, <2>1 DEF Holds, u
<1>17. (w \o SubSeq(q, mark, i - 1)) \o <<"?">> = w1
  <2> DEFINE x == SubSeq(q, mark, i - 1)
             y == <<"?">>
             b == i - 1
  <2>1. SubSeq(u, mark, i) = SubSeq(u, mark, i - 1) \o <<u[i]>>
    <3>1. mark \in 1..(Len(u) + 1) /\ i \in mark..Len(u)
      BY <1>1, <1>3
    <3> QED
      BY <1>3, <3>1, PartMore
  <2>2. b \in Nat /\ b <= n /\ mark <= b + 1 /\ mark \in 1..(n + 1)
    BY <1>1
  <2>3. SubSeq(u, mark, b) = SubSeq(q, mark, b) /\ SubSeq(q, mark, b) \in Query
    <3>1. \A j \in mark..b : u[j] = q[j]
      <4>1. \A j \in mark..b : j \in 1..n /\ j \in mark..(i - 1)
        BY <1>1
      <4> QED
        BY <1>2, <1>3, <4>1
    <3> HIDE DEF b
    <3> QED
      BY <1>3, <2>2, <3>1, PartSame, SubSeqBytes
  <2>4. x \in Query /\ SubSeq(u, mark, i) = x \o y
    BY <1>5, <2>1, <2>3
  <2>5. y \in Query
    <3>1. "?" \in Byte
      BY DEF Byte
    <3> QED
      BY <3>1 DEF Query
  <2> HIDE DEF x, y
  <2>6. (w \o x) \o y = w \o (x \o y)
    BY <1>1, <2>4, <2>5, ConcatQuery
  <2> QED
    BY <2>4, <2>6 DEF x, y
<1>18. w1 \o SubSeq(q, to, to - 1) = w1
  <2> DEFINE b == to - 1
             none == SubSeq(q, to, b)
  <2>1. b \in Nat /\ b <= n /\ to <= b + 1 /\ b - to + 1 = 0
    BY <1>0, <1>1, <1>8
  <2>2. none \in Query /\ Len(none) = 0
    <3> HIDE DEF b
    <3> QED
      BY <1>8, <2>1, SubSeqBytes
  <2>3. none = <<>>
    <3> HIDE DEF none
    <3> QED
      BY <2>2, EmptySeq DEF Query
  <2> HIDE DEF w1
  <2>4. w1 \o <<>> = w1
    BY <1>13, ConcatEmptySeq DEF Query
  <2> QED
    BY <2>3, <2>4
<1> HIDE DEF w1
<1> QED
  BY <1>16, <1>17, <1>18, Zenon DEF Taken

\* Every turn of the compiler writes a placeholder for the name that it takes.
LEMMA WritesTurns ==
  ASSUME NEW q \in Query, NEW known, NamesApart(q, known), NEW k \in Nat, k + 1 <= Len(q),
         NEW r, Writes(q, known, k, r)
  PROVE  Writes(q, known, k + 1, CompileNext("QUESTION", q, known, r))
<1> DEFINE n == Len(q)
           type == "QUESTION"
           r1 == CompileNext(type, q, known, r)
<1>1. PICK i \in 1..(n + 1), names \in Seq(Query) : \E mark, w :
        /\ r = Compiling(i, w \o SubSeq(q, mark, i - 1), names) /\ Stops(q, i) /\ i > k
        /\ Holds(q, known, i, mark, w, Len(names))
  BY Zenon DEF Writes
<1>2. PICK mark, w :
        /\ r = Compiling(i, w \o SubSeq(q, mark, i - 1), names) /\ Stops(q, i) /\ i > k
        /\ Holds(q, known, i, mark, w, Len(names))
  BY <1>1
<1> DEFINE written == w \o SubSeq(q, mark, i - 1)
<1>3. n \in Nat /\ r.pos = i /\ r.query = written /\ r.names = names
  BY <1>2, QueryBytes DEF Compiling
<1> HIDE DEF n, r1, type
\* What a turn leaves behind.
<1>4. ASSUME NEW to \in 1..(n + 1), NEW names1 \in Seq(Query), NEW mark1, NEW v,
             r1 = Compiling(to, v \o SubSeq(q, mark1, to - 1), names1), Stops(q, to), to > k + 1,
             Holds(q, known, to, mark1, v, Len(names1))
      PROVE  Writes(q, known, k + 1, r1)
  BY <1>4, Zenon DEF Writes, n
<1>5. CASE i > n
  <2>1. r1 = r /\ i > k + 1
    BY <1>3, <1>5 DEF CompileNext, r1, n
  <2>2. Writes(q, known, k + 1, r1)
    BY <1>2, <1>4, <2>1
  <2> QED
    BY <2>2 DEF r1, type
<1>6. CASE ~(i > n)
  <2>1. i \in 1..n
    BY <1>3, <1>6
  <2>2. r1 = CompileTurn(type, q, known, r)
    BY <1>3, <1>6, Zenon DEF CompileNext, r1, n
  <2>3. CopiesOn(q, known, r, r1) \/ TakesName(type, q, known, r, r1)
    <3> HIDE DEF written
    <3>1. r = Compiling(i, written, names)
      BY <1>2 DEF written
    <3> QED
      BY <1>2, <2>1, <2>2, <3>1, CompileWays DEF n
  <2> HIDE DEF written
  <2>4. CASE CopiesOn(q, known, r, r1)
    <3>1. PICK to \in (i + 1)..(Len(q) + 1) :
            /\ r1 = Compiling(to, written \o SubSeq(q, i, to - 1), names)
            /\ Stops(q, to) /\ \A j \in i..(to - 1) : j \notin NameStarts(q, known)
      BY <1>3, <2>4, Zenon DEF CopiesOn
    <3>2. to \in 1..(n + 1) /\ to \in i..(Len(q) + 1) /\ i \in 1..(Len(q) + 1) /\ to > k + 1
      BY <1>2, <1>3 DEF n
    <3>3. /\ Holds(q, known, to, mark, w, Len(names))
          /\ written \o SubSeq(q, i, to - 1) = w \o SubSeq(q, mark, to - 1)
      <4> DEFINE c == Len(names)
      <4>1. Holds(q, known, i, mark, w, c) /\ Skips(q, known, i, to)
        BY <1>2, <3>1, <3>2 DEF Skips
      <4> HIDE DEF c
      <4>2. Copied(q, known, i, to, mark, w, c)
        BY <4>1, HoldsCopied
      <4> QED
        BY <4>2, Zenon DEF written, c, Copied
    <3>4. Writes(q, known, k + 1, r1)
      BY <1>4, <3>1, <3>2, <3>3
    <3> QED
      BY <3>4 DEF r1, type
  <2>5. CASE TakesName(type, q, known, r, r1)
    <3>1. PICK to \in (i + 2)..(Len(q) + 1) : \E name :
            /\ i \in NameStarts(q, known) /\ name = NameAt(q, i + 1) /\ to = i + 1 + Len(name)
            /\ r1 = Compiling(to, written \o emitParam(type, names, name), Append(names, name))
            /\ Stops(q, to) /\ \A j \in (i + 1)..(to - 1) : q[j] \in isBindNameByte
      BY <1>3, <2>5, Zenon DEF TakesName
    <3>2. PICK name :
            /\ i \in NameStarts(q, known) /\ name = NameAt(q, i + 1) /\ to = i + 1 + Len(name)
            /\ r1 = Compiling(to, written \o emitParam(type, names, name), Append(names, name))
            /\ Stops(q, to) /\ \A j \in (i + 1)..(to - 1) : q[j] \in isBindNameByte
      BY <3>1
    <3>3. to \in 1..(n + 1) /\ to > k + 1
      BY <1>2, <1>3 DEF n
    <3>4. Ready(q, to)
      BY <3>2 DEF Stops
    <3>5. PICK w1 : /\ Holds(q, known, to, to, w1, Len(names) + 1)
                    /\ written \o <<"?">> = w1 \o SubSeq(q, to, to - 1)
      <4> DEFINE c == Len(names)
      <4>1. Holds(q, known, i, mark, w, c) /\ NameEnds(q, known, i, to)
        BY <1>2, <3>1, <3>2, <3>4 DEF NameEnds
      <4> HIDE DEF c
      <4>2. Taken(q, known, i, to, mark, w, c)
        BY <4>1, HoldsTaken
      <4> QED
        BY <4>2, Zenon DEF written, c, Taken
    <3>6. emitParam(type, names, name) = <<"?">>
      BY QuestionMark DEF type
    <3>7. Append(names, name) \in Seq(Query) /\ Len(Append(names, name)) = Len(names) + 1
      <4>1. At(q, i + 1) \in isBindStartByte
        BY <3>2, StartsAre
      <4>2. i + 1 \in 1..Len(q) /\ q[i + 1] \in isBindStartByte
        BY <4>1, AtValue, NoNameByte
      <4>3. name \in Query
        BY <3>2, <4>2, NameBytes
      <4> QED
        BY <4>3, AppendOne
    <3>8. Writes(q, known, k + 1, r1)
      BY <1>4, <3>2, <3>3, <3>5, <3>6, <3>7
    <3> QED
      BY <3>8 DEF r1, type
  <2> QED
    BY <2>3, <2>4, <2>5
<1> QED
  BY <1>5, <1>6

\* Where no ? is a placeholder, the compiled query has one for every name recorded.
LEMMA CompiledBinds ==
  ASSUME NEW q \in Query, NEW known, NamesApart(q, known), Marks(q)[1] = <<>>,
         NEW c, c = compileNamedQueryWith("QUESTION", q, known)
  PROVE  /\ c.query \in Query /\ c.names \in Seq(Query)
         /\ Len(Marks(c.query)[1]) = Len(c.names)
<1> DEFINE n == Len(q)
           type == "QUESTION"
           u == Marked(q, known)
           after == CompileAfter(type, q, known)
           S == {k \in Nat : k <= n => Writes(q, known, k, after[k])}
<1>1. n \in Nat
  BY QueryBytes
<1>2. 0 \in S
  <2> DEFINE nothing == <<>>
             part == SubSeq(q, 1, 1 - 1)
  <2>1. after[0] = Compiling(1, nothing, nothing)
    BY CompileSteps DEF CompileStart, Compiling
  <2>2. nothing \in Seq(Query) /\ nothing \in Query /\ Len(nothing) = 0 /\ 1 \in 1..(n + 1) /\ 1 > 0
    <3>1. nothing \in Seq(Query) /\ Len(nothing) = 0
      BY EmptySeq
    <3>2. nothing \in Query
      BY EmptySeq DEF Query
    <3> QED
      BY <1>1, <3>1, <3>2
  <2>3. nothing \o part = nothing
    <3>1. 0 \in Nat /\ 0 <= Len(q) /\ 1 <= 0 + 1 /\ 0 - 1 + 1 = 0 /\ 1 - 1 = 0 /\ 1 \in 1..(Len(q) + 1)
      BY <1>1
    <3>2. part \in Query /\ Len(part) = 0
      BY <3>1, SubSeqBytes
    <3> HIDE DEF part
    <3>3. part = <<>>
      BY <3>2, EmptySeq DEF Query
    <3> QED
      BY <3>3, ConcatEmptySeq DEF Query
  <2>4. Stops(q, 1)
    BY StopsAtStart
  <2>5. Holds(q, known, 1, 1, nothing, Len(nothing))
    <3>1. Counts(nothing, 0)
      BY CountsNone
    <3>2. GoesOn(u, 1, nothing)
      <4>1. Len(u) = n
        BY MarkedBytes
      <4> HIDE DEF u
      <4> QED
        BY <1>1, <4>1 DEF GoesOn
    <3>3. 1 \in 1..1 /\ \A j \in 1..(1 - 1) : FALSE
      OBVIOUS
    <3> HIDE DEF nothing
    <3> QED
      BY <2>2, <3>1, <3>2, <3>3, ReadyAtStart DEF Holds
  <2>6. after[0] = Compiling(1, nothing \o part, nothing)
    BY <2>1, <2>3
  <2> HIDE DEF after, nothing
  <2>7. Writes(q, known, 0, after[0])
    BY <2>2, <2>4, <2>5, <2>6, Zenon DEF Writes
  <2> QED
    BY <2>7
<1>3. ASSUME NEW k \in Nat, k \in S PROVE k + 1 \in S
  <2>1. ASSUME k + 1 <= n PROVE Writes(q, known, k + 1, after[k + 1])
    <3>1. k + 1 \in 1..n /\ (k + 1) - 1 = k /\ k <= n
      BY <1>1, <2>1
    <3>2. after[k + 1] = CompileNext(type, q, known, after[k])
      BY <3>1, CompileSteps
    <3>3. Writes(q, known, k, after[k])
      BY <1>3, <3>1
    <3> HIDE DEF after
    <3> QED
      BY <3>1, <3>2, <3>3, WritesTurns
  <2> QED
    BY <2>1
<1>4. Writes(q, known, n, after[n])
  <2>1. Nat \subseteq S
    <3> HIDE DEF S
    <3>1. S \subseteq Nat
      BY DEF S
    <3> QED
      BY <1>2, <1>3, <3>1, Upward
  <2> QED
    BY <1>1, <2>1
<1>5. CompileLoop(type, q, known) = after[n]
  BY CompileSteps
<1> HIDE DEF after
<1>6. PICK i \in 1..(n + 1), names \in Seq(Query) : \E mark, w :
        /\ after[n] = Compiling(i, w \o SubSeq(q, mark, i - 1), names) /\ Stops(q, i) /\ i > n
        /\ Holds(q, known, i, mark, w, Len(names))
  BY <1>4, Zenon DEF Writes
<1>7. PICK mark, w :
        /\ after[n] = Compiling(i, w \o SubSeq(q, mark, i - 1), names) /\ i > n
        /\ Holds(q, known, i, mark, w, Len(names))
  BY <1>6
<1>8. i = n + 1 /\ i - 1 = n
  BY <1>1, <1>7
<1> DEFINE text == w \o SubSeq(q, mark, n)
<1>9. c.query = text /\ c.names = names
  <2> HIDE DEF text
  <2>1. after[n] = Compiling(i, text, names)
    BY <1>7, <1>8 DEF text
  <2> QED
    BY <1>5, <2>1 DEF compileNamedQueryWith, Compiling
<1>10. /\ Counts(w, Len(names)) /\ GoesOn(u, mark, w) /\ mark \in 1..(n + 1) /\ Ready(q, mark)
       /\ Marks(q)[mark] = <<>> /\ \A j \in mark..n : j \notin NameStarts(q, known)
  BY <1>7, <1>8 DEF Holds
<1>11. /\ u \in Query /\ Len(u) = n /\ Alike(q, u) /\ \A j \in 1..n : j \notin NameStarts(q, known) => u[j] = q[j]
  BY MarkedBytes
<1> HIDE DEF u
<1>12. \A j \in mark..n : u[j] = q[j]
  <2>1. \A j \in mark..n : j \in 1..n
    BY <1>1, <1>10
  <2> QED
    BY <1>10, <1>11, <2>1
<1>13. Marks(u)[mark] = <<>>
  <2> DEFINE x == n + 1
  <2>1. x \in 1..(Len(q) + 1) /\ mark \in 1..x /\ x = Len(q) + 1 /\ x - 1 = n
    BY <1>1, <1>10
  <2> HIDE DEF x
  <2>2. Marks(u)[mark] = Marks(u)[x]
    <3>1. \A j \in mark..(x - 1) : u[j] = q[j]
      BY <1>12, <2>1
    <3>2. Alike(q, u) /\ u \in Query /\ Ready(q, mark) /\ Marks(q)[mark] = <<>>
      BY <1>10, <1>11
    <3> QED
      BY <2>1, <3>1, <3>2, MarksAlike
  <2>3. Marks(u)[x] = <<>>
    BY <1>11, <2>1, NoMarksAtEnd
  <2> QED
    BY <2>2, <2>3
<1>14. w \o SubSeq(u, mark, n) \in Query /\ Len(Marks(w \o SubSeq(u, mark, n))[1]) = Len(names)
  BY <1>10, <1>11, <1>13, CountsRest
<1>15. SubSeq(u, mark, n) = SubSeq(q, mark, n)
  <2>1. n \in Nat /\ n <= Len(q) /\ mark <= n + 1
    BY <1>1, <1>10
  <2> QED
    BY <1>10, <1>11, <1>12, <2>1, PartSame
<1> HIDE DEF n
<1> QED
  BY <1>9, <1>14, <1>15

\* What is compiled to ? is a query, turn by turn.
TextSoFar(q, r) == \E i \in 1..(Len(q) + 1), w \in Query : \E names : r = Compiling(i, w, names) /\ Stops(q, i)

\* Every query, with names anywhere, compiles to a query.
LEMMA CompiledIsQuery ==
  ASSUME NEW q \in Query, NEW known
  PROVE  compileNamedQueryWith("QUESTION", q, known).query \in Query
<1> DEFINE n == Len(q)
           type == "QUESTION"
           after == CompileAfter(type, q, known)
           S == {k \in Nat : k <= n => TextSoFar(q, after[k])}
<1>1. n \in Nat
  BY QueryBytes
<1>2. 0 \in S
  <2> DEFINE nothing == <<>>
  <2>1. after[0] = Compiling(1, nothing, nothing)
    BY CompileSteps DEF CompileStart, Compiling
  <2>2. nothing \in Query /\ 1 \in 1..(n + 1)
    BY <1>1, EmptySeq DEF Query
  <2>3. Stops(q, 1)
    BY StopsAtStart
  <2> HIDE DEF after, nothing
  <2> QED
    BY <2>1, <2>2, <2>3 DEF TextSoFar
<1>3. ASSUME NEW k \in Nat, k \in S PROVE k + 1 \in S
  <2> DEFINE r == after[k]
             r1 == after[k + 1]
  <2>1. ASSUME k + 1 <= n PROVE TextSoFar(q, r1)
    <3>1. k + 1 \in 1..n /\ (k + 1) - 1 = k /\ k <= n
      BY <1>1, <2>1
    <3>2. r1 = CompileNext(type, q, known, r)
      BY <3>1, CompileSteps
    <3>3. TextSoFar(q, r)
      BY <1>3, <3>1
    <3> HIDE DEF r, r1
    <3>4. PICK i \in 1..(n + 1), w \in Query : \E names : r = Compiling(i, w, names) /\ Stops(q, i)
      BY <3>3 DEF TextSoFar
    <3>5. PICK names : r = Compiling(i, w, names) /\ Stops(q, i)
      BY <3>4
    <3>6. r.pos = i /\ r.query = w /\ r.names = names
      BY <3>5 DEF Compiling
    <3>7. CASE i > n
      BY <3>2, <3>3, <3>6, <3>7 DEF CompileNext
    <3>8. CASE ~(i > n)
      <4>1. i \in 1..n
        BY <1>1, <3>8
      <4>2. r1 = CompileTurn(type, q, known, r)
        BY <3>2, <3>6, <3>8, Zenon DEF CompileNext
      <4>3. CopiesOn(q, known, r, r1) \/ TakesName(type, q, known, r, r1)
        BY <3>5, <4>1, <4>2, CompileWays
      <4>4. CASE CopiesOn(q, known, r, r1)
        <5>1. PICK to \in (i + 1)..(n + 1) : r1 = Compiling(to, w \o SubSeq(q, i, to - 1), names) /\ Stops(q, to)
          BY <3>6, <4>4, Zenon DEF CopiesOn
        <5> DEFINE m == to - 1
                   part == SubSeq(q, i, m)
        <5>2. to \in 1..(n + 1) /\ m \in Nat /\ m <= Len(q) /\ i <= m + 1 /\ i \in 1..(Len(q) + 1)
          BY <1>1, <4>1
        <5>3. part \in Query
          <6> HIDE DEF m
          <6> QED
            BY <5>2, SubSeqBytes
        <5>4. w \o part \in Query
          <6> HIDE DEF part
          <6> QED
            BY <5>3, ConcatBytes
        <5> QED
          BY <5>1, <5>2, <5>4 DEF TextSoFar
      <4>5. CASE TakesName(type, q, known, r, r1)
        <5>1. PICK to \in (i + 2)..(n + 1) : \E name :
                /\ r1 = Compiling(to, w \o emitParam(type, names, name), Append(names, name)) /\ Stops(q, to)
          BY <3>6, <4>5, Zenon DEF TakesName
        <5>2. PICK name : r1 = Compiling(to, w \o emitParam(type, names, name), Append(names, name)) /\ Stops(q, to)
          BY <5>1
        <5>3. to \in 1..(n + 1)
          BY <1>1, <4>1
        <5>4. emitParam(type, names, name) = <<"?">>
          BY QuestionMark DEF type
        <5> DEFINE mark == <<"?">>
        <5>5. mark \in Query
          <6>1. "?" \in Byte
            BY DEF Byte
          <6> HIDE DEF mark
          <6>2. mark = <<"?">>
            BY DEF mark
          <6> QED
            BY <6>1, <6>2 DEF Query
        <5>6. w \o mark \in Query
          <6> HIDE DEF mark
          <6> QED
            BY <5>5, ConcatBytes
        <5> QED
          BY <5>2, <5>3, <5>4, <5>6 DEF TextSoFar
      <4> QED
        BY <4>3, <4>4, <4>5
    <3> QED
      BY <3>7, <3>8
  <2> QED
    BY <2>1
<1>4. TextSoFar(q, after[n])
  <2>1. Nat \subseteq S
    <3> HIDE DEF S
    <3>1. S \subseteq Nat
      BY DEF S
    <3> QED
      BY <1>2, <1>3, <3>1, Upward
  <2> QED
    BY <1>1, <2>1
<1>5. CompileLoop(type, q, known) = after[n]
  BY CompileSteps
<1> HIDE DEF after
<1>6. after[n].query \in Query
  BY <1>4 DEF TextSoFar, Compiling
<1> QED
  BY <1>5, <1>6 DEF compileNamedQueryWith

-----------------------------------------------------------------------------
(* The calls                                                               *)

\* The part of a list that is one element.
LEMMA OneOf ==
  ASSUME NEW S, NEW x \in Seq(S), NEW i \in 1..Len(x)
  PROVE  SubSeq(x, i, i) = <<x[i]>>
<1> DEFINE a == SubSeq(x, i, i)
           b == <<x[i]>>
<1>1. Len(x) \in Nat /\ i \in Int /\ x[i] \in S
  BY LenProperties, ElementOfSeq
<1>2. \A k \in i..i : x[k] \in S
  BY <1>1
<1>3. a \in Seq(S) /\ Len(a) = 1 /\ a[1] = x[i]
  <2>1. /\ a \in Seq(S) /\ Len(a) = IF i <= i THEN i - i + 1 ELSE 0
        /\ \A k \in 1..(i - i + 1) : a[k] = x[i + k - 1]
    BY <1>1, <1>2, SubSeqProperties
  <2> HIDE DEF a
  <2>2. i <= i /\ i - i + 1 = 1 /\ i + 1 - 1 = i /\ 1 \in 1..1
    BY <1>1
  <2> QED
    BY <2>1, <2>2
<1>4. b \in Seq(S) /\ Len(b) = 1 /\ b[1] = x[i]
  BY <1>1
<1> HIDE DEF a, b
<1>5. Len(a) = Len(b) /\ \A k \in 1..Len(a) : a[k] = b[k]
  BY <1>3, <1>4
<1>6. a = b
  BY <1>3, <1>4, <1>5, SeqEqual
<1> QED
  BY <1>6 DEF a, b

\* Lists of one element, put one after the other: the elements.
LEMMA FlattenOnes ==
  ASSUME NEW S, NEW x \in Seq(S), NEW list \in Seq(Seq(S)),
         Len(list) = Len(x), \A i \in 1..Len(x) : list[i] = <<x[i]>>
  PROVE  FlattenSeq(list) = x
<1> DEFINE n == Len(x)
<1>1. n \in Nat /\ DOMAIN x = 1..n /\ \A i \in 1..n : x[i] \in S
  BY LenProperties, ElementOfSeq
<1>2. list \in Seq(Seq(S)) /\ Len(list) = n /\ \A i \in 1..n : list[i] = <<x[i]>>
  OBVIOUS
<1>3. x = <<>> <=> n = 0
  BY EmptySeq
<1> HIDE DEF n
<1>4. CASE n = 0
  <2>1. list = <<>> /\ x = <<>>
    BY <1>2, <1>4, <1>3, EmptySeq
  <2> QED
    BY <1>2, <1>4, <2>1, FlattenSteps
<1>5. CASE n # 0
  <2>1. PICK f : /\ FlattenSeq(list) = f[n]
                 /\ \A i \in 1..n : f[i] = IF i = 1 THEN list[i] ELSE f[i - 1] \o list[i]
    <3>1. Len(list) = n /\ Len(list) \in Nat /\ Len(list) # 0
      BY <1>1, <1>2, <1>5
    <3>2. \E f : /\ FlattenSeq(list) = f[Len(list)]
                 /\ \A i \in 1..Len(list) : f[i] = IF i = 1 THEN list[i] ELSE f[i - 1] \o list[i]
      BY <3>1, FlattenSteps
    <3> QED
      BY <3>1, <3>2
  <2> DEFINE T == {k \in Nat : k + 1 <= n => f[k + 1] = SubSeq(x, 1, k + 1)}
  <2>2. 0 \in T
    <3>1. f[1] = <<x[1]>>
      <4>1. 1 \in 1..n
        BY <1>1, <1>5
      <4>2. f[1] = list[1]
        BY <2>1, <4>1
      <4> QED
        BY <1>2, <4>1, <4>2
    <3>2. SubSeq(x, 1, 1) = <<x[1]>>
      <4>1. 1 \in 1..n
        BY <1>1, <1>5
      <4> QED
        BY <4>1, OneOf DEF n
    <3> QED
      BY <3>1, <3>2
  <2>3. ASSUME NEW k \in Nat, k \in T PROVE k + 1 \in T
    <3> SUFFICES ASSUME (k + 1) + 1 <= n PROVE f[(k + 1) + 1] = SubSeq(x, 1, (k + 1) + 1)
      OBVIOUS
    <3> DEFINE m == k + 1
               a == SubSeq(x, 1, m)
    <3>1. m \in Nat /\ m + 1 \in 1..n /\ m \in 1..n /\ m + 1 # 1 /\ (m + 1) - 1 = m
      BY <1>1
    <3>2. f[m] = a
      BY <2>3, <3>1
    <3> HIDE DEF m
    <3>3. f[m + 1] = a \o <<x[m + 1]>>
      <4>1. f[m + 1] = f[m] \o list[m + 1]
        BY <2>1, <3>1
      <4>2. list[m + 1] = <<x[m + 1]>>
        BY <1>2, <3>1
      <4> QED
        BY <3>2, <4>1, <4>2, Zenon
    <3>4. SubSeq(x, 1, m + 1) = a \o <<x[m + 1]>>
      <4> DEFINE l == m + 1
      <4>1. 1 \in 1..(Len(x) + 1) /\ m \in 1 - 1..Len(x) /\ l \in m..Len(x)
        BY <1>1, <3>1 DEF n
      <4>2. SubSeq(x, 1, m) \o SubSeq(x, m + 1, l) = SubSeq(x, 1, l)
        <5> HIDE DEF l
        <5> QED
          BY <4>1, ConcatAdjacentSubSeq
      <4>3. SubSeq(x, l, l) = <<x[l]>>
        <5>1. l \in 1..n
          BY <3>1
        <5> HIDE DEF l
        <5> QED
          BY <5>1, OneOf DEF n
      <4> QED
        BY <4>2, <4>3
    <3>5. f[m + 1] = SubSeq(x, 1, m + 1)
      BY <3>3, <3>4
    <3> QED
      BY <3>5 DEF m
  <2>4. n - 1 \in T /\ (n - 1) + 1 = n
    <3>1. n - 1 \in Nat /\ (n - 1) + 1 = n
      BY <1>1, <1>5
    <3> HIDE DEF T
    <3>2. T \subseteq Nat
      BY DEF T
    <3> QED
      BY <2>2, <2>3, <3>1, <3>2, Upward
  <2>5. f[n] = SubSeq(x, 1, n)
    BY <1>1, <1>5, <2>4
  <2>6. SubSeq(x, 1, n) = x
    BY SubSeqFull DEF n
  <2> QED
    BY <2>1, <2>5, <2>6
<1> QED
  BY <1>4, <1>5

\* The same, written as a function.
LEMMA FlattenSingles ==
  ASSUME NEW S, NEW x \in Seq(S), NEW list, list = [i \in DOMAIN x |-> <<x[i]>>]
  PROVE  FlattenSeq(list) = x
<1> DEFINE n == Len(x)
<1>1. n \in Nat /\ DOMAIN x = 1..n /\ \A i \in 1..n : x[i] \in S
  BY LenProperties, ElementOfSeq
<1>2. list \in Seq(Seq(S)) /\ Len(list) = n /\ \A i \in 1..n : list[i] = <<x[i]>>
  <2> HIDE DEF n
  <2>1. list = [i \in 1..n |-> <<x[i]>>]
    BY <1>1
  <2>2. \A i \in 1..n : <<x[i]>> \in Seq(S)
    BY <1>1
  <2>3. list \in [1..n -> Seq(S)]
    BY <2>1, <2>2
  <2> QED
    BY <1>1, <2>1, <2>3
<1> QED
  <2> HIDE DEF n
  <2>1. Len(list) = n
    BY <1>2
  <2> QED
    BY <1>2, <2>1, FlattenOnes DEF n

\* A struct or a map gives every name that is known its value.
LEMMA BindsEveryName ==
  ASSUME NEW S, NEW names \in Seq(S), NEW as, NEW k, \A i \in DOMAIN names : names[i] \in DOMAIN as[k]
  PROVE  bindAnyArgs(names, as, k) = [i \in DOMAIN names |-> [elem |-> k, name |-> names[i]]]
<1> DEFINE x == [i \in DOMAIN names |-> [elem |-> k, name |-> names[i]]]
           R == {[elem |-> k, name |-> names[i]] : i \in DOMAIN names}
           list == [i \in DOMAIN names |-> IF names[i] \in DOMAIN as[k] THEN <<[elem |-> k, name |-> names[i]]>> ELSE <<>>]
<1>1. Len(names) \in Nat /\ DOMAIN names = 1..Len(names)
  BY LenProperties
<1>2. DOMAIN x = DOMAIN names /\ \A i \in DOMAIN names : x[i] = [elem |-> k, name |-> names[i]]
  OBVIOUS
<1>3. x \in Seq(R)
  <2> DEFINE n == Len(names)
  <2>1. x \in [1..n -> R]
    BY <1>1
  <2> HIDE DEF x, R
  <2> QED
    BY <1>1, <2>1
<1>4. list = [i \in DOMAIN x |-> <<x[i]>>]
  <2>1. list = [i \in DOMAIN names |-> <<[elem |-> k, name |-> names[i]]>>]
    OBVIOUS
  <2> QED
    BY <1>2, <2>1
<1>5. bindAnyArgs(names, as, k) = FlattenSeq(list)
  BY Zenon DEF bindAnyArgs
<1> HIDE DEF x, R, list
<1>6. FlattenSeq(list) = x
  BY <1>3, <1>4, FlattenSingles
<1> QED
  BY <1>5, <1>6 DEF x

\* What a call has compiled and bound.
CalledOne(e) ==
  /\ elems = <<e>> /\ compiled = compileNamedQueryWith("QUESTION", Text, DOMAIN e)
  /\ bound = [query |-> compiled.query, args |-> bindAnyArgs(compiled.names, <<e>>, 1)]
CalledSlice ==
  compiled = compileNamedQuery("QUESTION", Text) /\ bound = bindArray("QUESTION", compiled, elems)
CalledStmt(e) ==
  /\ elems = <<e>> /\ compiled = prepareNamed(Text)
  /\ bound = ExecStmt(compiled, e)

\* What each operation leaves behind.
CalledInv ==
  /\ call \in {"none", "one", "slice", "stmt"}
  /\ call = "one" => \E e \in Elems : CalledOne(e)
  /\ call = "slice" => CalledSlice
  /\ call = "stmt" => \E e \in Elems : CalledStmt(e)

\* Named queries are written as the others are: what holds of every query that is
\* written holds of them.
THEOREM NamedIsWritten == NamedSpec => Spec
<1>1. NamedInit => Init
  BY DEF NamedInit
<1>2. [NamedNext]_<<vars, namedVars>> => [Next]_vars
  <2> SUFFICES ASSUME [NamedNext]_<<vars, namedVars>> PROVE [Next]_vars
    OBVIOUS
  <2>1. CASE WriteMore
    BY <2>1 DEF WriteMore
  <2>2. ASSUME NEW e \in Elems, CallWithOne(e) \/ CallStmt(e) PROVE UNCHANGED vars
    BY <2>2 DEF CallWithOne, CallStmt
  <2>3. ASSUME NEW es, CallWithSlice(es) PROVE UNCHANGED vars
    BY <2>3 DEF CallWithSlice
  <2>4. CASE UNCHANGED <<vars, namedVars>>
    BY <2>4
  <2> QED
    BY <2>1, <2>2, <2>3, <2>4 DEF NamedNext
<1> QED
  BY <1>1, <1>2, PTL DEF NamedSpec, Spec

\* After a call the query is written no more, and what the call made of it stays.
LEMMA CallsStand == NamedSpec => []CalledInv
<1>1. NamedInit => CalledInv
  BY DEF NamedInit, CalledInv
<1>2. CalledInv /\ [NamedNext]_<<vars, namedVars>> => CalledInv'
  <2> SUFFICES ASSUME CalledInv, [NamedNext]_<<vars, namedVars>> PROVE CalledInv'
    OBVIOUS
  <2>1. CASE WriteMore
    <3>1. call' = call /\ call = "none"
      BY <2>1 DEF WriteMore, namedVars
    <3> QED
      BY <3>1 DEF CalledInv
  <2>2. UNCHANGED vars => Text' = Text /\ Elems' = Elems
    <3> SUFFICES ASSUME UNCHANGED vars PROVE Text' = Text /\ Elems' = Elems
      OBVIOUS
    <3>1. query' = query /\ workload' = workload
      BY DEF vars
    <3> QED
      BY <3>1 DEF Text, Elems
  <2>3. ASSUME NEW e \in Elems, CallWithOne(e) PROVE CalledInv'
    <3>1. call' = "one" /\ Text' = Text /\ Elems' = Elems
      BY <2>2, <2>3 DEF CallWithOne
    <3>2. CalledOne(e)'
      BY <2>3, <3>1 DEF CallWithOne, CalledOne
    <3> QED
      BY <3>1, <3>2 DEF CalledInv
  <2>4. ASSUME NEW e \in Elems, CallStmt(e) PROVE CalledInv'
    <3>1. call' = "stmt" /\ Text' = Text /\ Elems' = Elems
      BY <2>2, <2>4 DEF CallStmt
    <3>2. CalledStmt(e)'
      BY <2>4, <3>1 DEF CallStmt, CalledStmt
    <3> QED
      BY <3>1, <3>2 DEF CalledInv
  <2>5. ASSUME NEW es, CallWithSlice(es) PROVE CalledInv'
    <3>1. call' = "slice" /\ Text' = Text
      BY <2>2, <2>5 DEF CallWithSlice
    <3>2. CalledSlice'
      BY <2>5, <3>1 DEF CallWithSlice, CalledSlice
    <3> QED
      BY <3>1, <3>2 DEF CalledInv
  <2>6. CASE UNCHANGED <<vars, namedVars>>
    <3>1. UNCHANGED namedVars /\ Text' = Text /\ Elems' = Elems
      BY <2>2, <2>6
    <3>2. call' = call /\ elems' = elems /\ compiled' = compiled /\ bound' = bound
      BY <3>1 DEF namedVars
    <3> QED
      BY <3>1, <3>2 DEF CalledInv, CalledOne, CalledSlice, CalledStmt
  <2> QED
    BY <2>1, <2>3, <2>4, <2>5, <2>6 DEF NamedNext
<1> QED
  BY <1>1, <1>2, PTL DEF NamedSpec

\* Every text of a call is a query.
LEMMA NamedTextIsQuery == NamedSpec => [](TextInv /\ Text \in Query)
<1>1. TextInv => Text \in Query
  BY FlattenType DEF TextInv, Text, Query
<1> QED
  BY <1>1, NamedIsWritten, TextIsQuery, PTL

\* The names that a call has compiled.
NamesAreThose ==
  /\ call = "one" => compiled.names = NamesIn(Text, DOMAIN elems[1])
  /\ call \in {"slice", "stmt"} => compiled.names = NamesIn(Text, AnyName)

\* Every call, whatever the query, the values and the placeholders of the driver:
\* compileNamedQueryWith (named.go) records the names of the query in their order, those
\* the scanner does not skip and :: does not hide, and no others.
THEOREM NamesAreRecorded == NamedSpec => []NamesAreThose
<1>1. CalledInv /\ Text \in Query => NamesAreThose
  <2> SUFFICES ASSUME CalledInv, Text \in Query PROVE NamesAreThose
    OBVIOUS
  <2>1. CASE call = "one"
    <3>1. PICK e \in Elems : CalledOne(e)
      BY <2>1 DEF CalledInv
    <3>2. elems[1] = e
      BY <3>1 DEF CalledOne
    <3> QED
      BY <2>1, <3>1, <3>2, CompiledNames DEF CalledOne, NamesAreThose
  <2>2. CASE call = "slice"
    BY <2>2, CompiledNames DEF CalledInv, CalledSlice, compileNamedQuery, NamesAreThose
  <2>3. CASE call = "stmt"
    <3>1. PICK e \in Elems : CalledStmt(e)
      BY <2>3 DEF CalledInv
    <3>2. compiled.names = compileNamedQuery("DOLLAR", Text).names
      BY <3>1 DEF CalledStmt, prepareNamed
    <3> QED
      BY <2>3, <3>2, CompiledNames DEF compileNamedQuery, NamesAreThose
  <2>4. CASE call = "none"
    BY <2>4 DEF NamesAreThose
  <2> QED
    BY <2>1, <2>2, <2>3, <2>4 DEF CalledInv
<1> QED
  BY <1>1, CallsStand, NamedTextIsQuery, PTL

\* A call with no slice passes its values on as they are.
LEMMA PassedWhole ==
  ASSUME NEW q, NEW vs \in Seq(Arg), ~needsInRewrite(vs), \A k \in DOMAIN vs : vs[k].kind # "lazy"
  PROVE  /\ autoIn(q, vs).query = q /\ Len(autoIn(q, vs).args) = Len(vs)
         /\ autoIn(q, vs).args = Expected(q, vs)
<1> DEFINE W(k) == [arg |-> k, el |-> 0]
           x == [k \in DOMAIN vs |-> W(k)]
           R == {W(k) : k \in DOMAIN vs}
           list == [k \in DOMAIN x |-> <<x[k]>>]
<1>1. autoIn(q, vs) = [err |-> NoError, query |-> q, args |-> x]
  BY Zenon DEF autoIn, NoError
<1>2. Len(vs) \in Nat /\ DOMAIN vs = 1..Len(vs)
  BY LenProperties
<1>3. x \in Seq(R) /\ Len(x) = Len(vs) /\ DOMAIN x = DOMAIN vs
  <2> DEFINE n == Len(vs)
  <2>1. x \in [1..n -> R] /\ DOMAIN x = 1..n
    BY <1>2
  <2> HIDE DEF x, R, n
  <2>2. n \in Nat
    BY <1>2 DEF n
  <2>3. x \in Seq(R)
    BY <2>1, <2>2
  <2>4. Len(x) = n
    BY <2>1, <2>2, <2>3
  <2> QED
    BY <1>2, <2>1, <2>3, <2>4 DEF n
<1>4. ASSUME NEW k \in DOMAIN vs
      PROVE  vs[k].kind # "list" /\ ~IsSlice(vs[k])
  <2>1. vs[k].kind # "slice" /\ vs[k].kind # "list" /\ vs[k].kind # "lazy"
    BY DEF needsInRewrite
  <2> QED
    BY <2>1 DEF IsSlice
<1>5. Expected(q, vs) = FlattenSeq([k \in DOMAIN vs |-> Whole(k)])
  <2>1. [k \in DOMAIN vs |->
           IF vs[k].kind = "list" \/ (IsSlice(vs[k]) /\ InList(q, RebindVars(q)[k]))
           THEN IF vs[k].len = 0 THEN Whole(k) ELSE Elements(k, vs[k].len)
           ELSE Whole(k)] = [k \in DOMAIN vs |-> Whole(k)]
    BY <1>4, Zenon
  <2> QED
    BY <2>1, Zenon DEF Expected
<1>6. [k \in DOMAIN vs |-> Whole(k)] = list
  BY DEF Whole
<1> HIDE DEF x, R
<1>7. FlattenSeq(list) = x
  BY <1>3, FlattenSingles
<1> HIDE DEF list
<1>8. Expected(q, vs) = x
  BY <1>5, <1>6, <1>7
<1>9. autoIn(q, vs).query = q /\ autoIn(q, vs).args = x
  BY <1>1
<1> QED
  BY <1>3, <1>8, <1>9

\* What a struct or a map gives the names of a query: the values are its own.
LEMMA OneBinds ==
  ASSUME TextInv, Text \in Query, NEW e \in Elems, CalledOne(e),
         NEW known, known = NamesIn(Text, DOMAIN e),
         NEW vs, vs = [i \in DOMAIN known |-> e[known[i]]]
  PROVE  /\ known \in Seq(Query) /\ compiled.names = known
         /\ bound.args = [i \in DOMAIN known |-> [elem |-> 1, name |-> known[i]]]
         /\ BoundValues = vs /\ vs \in Seq(Arg) /\ Len(vs) = Len(known)
<1> DEFINE dom == DOMAIN e
           as == [i \in DOMAIN known |-> [elem |-> 1, name |-> known[i]]]
<1>1. compiled.names = known
  BY CompiledNames DEF CalledOne
<1>2. known \in Seq(Query \cap dom)
  <2>1. known = NameList(Text, dom)[1]
    BY NameListSteps
  <2>2. 1 \in 1..(Len(Text) + 1)
    BY QueryBytes
  <2> QED
    BY <2>1, <2>2, NameListKnown
<1>3. Len(known) \in Nat /\ DOMAIN known = 1..Len(known) /\ \A i \in DOMAIN known : known[i] \in Query /\ known[i] \in dom
  <2> DEFINE B == Query \cap dom
  <2>1. B \subseteq Query /\ B \subseteq dom
    OBVIOUS
  <2> HIDE DEF B
  <2>2. known \in Seq(B)
    BY <1>2 DEF B
  <2> HIDE DEF dom
  <2> QED
    BY <2>1, <2>2, LenProperties, ElementOfSeq
<1>4. known \in Seq(Query)
  <2> DEFINE n == Len(known)
  <2>1. known \in [1..n -> Query]
    <3>1. known = [i \in 1..n |-> known[i]]
      BY <1>2, <1>3
    <3> QED
      BY <1>3, <3>1
  <2> QED
    BY <1>3, <2>1
<1>5. bound.args = as
  <2>1. bound.args = bindAnyArgs(known, <<e>>, 1)
    BY <1>1 DEF CalledOne
  <2> DEFINE one == <<e>>
  <2>2. \A i \in DOMAIN known : known[i] \in DOMAIN one[1]
    BY <1>3
  <2> HIDE DEF one
  <2>3. bindAnyArgs(known, one, 1) = as
    BY <1>4, <2>2, BindsEveryName
  <2> QED
    BY <2>1, <2>3 DEF one
<1>6. BoundValues = vs
  <2>1. elems[1] = e
    BY DEF CalledOne
  <2>2. BoundValues = [i \in DOMAIN as |-> elems[as[i].elem][as[i].name]]
    BY <1>5 DEF BoundValues
  <2>3. DOMAIN as = DOMAIN known /\ \A i \in DOMAIN known : as[i].elem = 1 /\ as[i].name = known[i]
    OBVIOUS
  <2> HIDE DEF as
  <2> QED
    BY <2>1, <2>2, <2>3
<1>7. \A i \in DOMAIN known : e[known[i]] \in Arg
  BY <1>3, ElementAssumption DEF TextInv, Elems
<1>8. vs \in Seq(Arg) /\ Len(vs) = Len(known)
  <2> DEFINE n == Len(known)
  <2>1. vs \in [1..n -> Arg] /\ n \in Nat /\ DOMAIN vs = 1..n
    BY <1>3, <1>7
  <2> HIDE DEF n
  <2>2. vs \in Seq(Arg)
    BY <2>1
  <2>3. Len(vs) = n
    BY <2>1, <2>2
  <2> QED
    BY <2>2, <2>3 DEF n
<1> QED
  BY <1>1, <1>4, <1>5, <1>6, <1>8

\* Every query and every struct or map: after compilation, IN expansion and rebinding
\* together (named.go, bind.go), the driver's query has a placeholder for every argument
\* that goes with it, and the arguments are the values of the names that have one, in the
\* order of the query, slices spread over their IN lists, but for the exceptions that the
\* property states.
THEOREM NamesAreBound == NamedSpec => []EveryNameIsBound
<1>1. CalledInv /\ TextInv /\ Text \in Query => EveryNameIsBound
  <2> SUFFICES ASSUME CalledInv, TextInv, Text \in Query, call = "one", BindsAsWritten, NoBareMarks
               PROVE  EveryNameIsBound
    BY DEF EveryNameIsBound
  <2>1. PICK e \in Elems : CalledOne(e)
    BY DEF CalledInv
  <2> DEFINE dom == DOMAIN e
             known == NamesIn(Text, dom)
             vs == [i \in DOMAIN known |-> e[known[i]]]
             c == compileNamedQueryWith("QUESTION", Text, dom)
             r == autoIn(c.query, vs)
  <2>2. elems[1] = e /\ compiled = c /\ bound.query = c.query
    BY <2>1 DEF CalledOne
  <2>3. /\ known \in Seq(Query) /\ compiled.names = known
        /\ bound.args = [i \in DOMAIN known |-> [elem |-> 1, name |-> known[i]]]
        /\ BoundValues = vs /\ vs \in Seq(Arg) /\ Len(vs) = Len(known)
    <3> HIDE DEF known, vs
    <3> QED
      BY <2>1, OneBinds DEF known, vs
  <2>4. Rewritten = r
    BY <2>2, <2>3 DEF Rewritten, BoundValues
  <2>5. Marks(Text)[1] = <<>>
    BY RebindWalk DEF NoBareMarks, RebindVars
  <2>6. c.query \in Query
    BY CompiledIsQuery
  <2> HIDE DEF known, vs, c, r
  <2>7. CASE needsInRewrite(vs)
    <3>1. ~InEndsComment(c.query)
      BY <2>2, <2>3, <2>7 DEF BindsAsWritten
    <3>2. r.err = NoError => Len(RebindVars(r.query)) = Len(r.args)
      BY <2>3, <2>6, <2>7, AutoInBinds DEF r
    <3>3. r.err = NoError => r.args = Expected(c.query, vs)
      BY <2>3, <2>6, <2>7, <3>1, AutoInPlaces DEF r
    <3> QED
      BY <2>2, <2>3, <2>4, <3>2, <3>3 DEF EveryNameIsBound, NoError, known, vs
  <2>8. CASE ~needsInRewrite(vs)
    <3>1. NamesApart(Text, dom) /\ \A k \in DOMAIN vs : vs[k].kind # "lazy"
      BY <2>2, <2>3, <2>8 DEF BindsAsWritten
    <3>2. r.query = c.query /\ Len(r.args) = Len(vs) /\ r.args = Expected(c.query, vs)
      BY <2>3, <2>8, <3>1, PassedWhole DEF r
    <3>3. Len(Marks(c.query)[1]) = Len(c.names)
      BY <2>5, <3>1, CompiledBinds DEF c
    <3>4. RebindVars(c.query) = Marks(c.query)[1]
      BY <2>6, RebindWalk DEF RebindVars
    <3>5. Len(RebindVars(r.query)) = Len(r.args)
      BY <2>2, <2>3, <3>2, <3>3, <3>4
    <3> QED
      BY <2>2, <2>3, <2>4, <3>2, <3>5 DEF EveryNameIsBound, known, vs
  <2> QED
    BY <2>7, <2>8
<1> QED
  BY <1>1, CallsStand, NamedTextIsQuery, PTL

\* Every query and every struct or map: a NamedStmt passes the values that an execution
\* of the same query would, although it was compiled for another kind of placeholders.
THEOREM StmtsPassTheSame ==
  NamedSpec => [](call = "stmt" => bound.args = bindAnyArgs(compileNamedQuery("QUESTION", Text).names, elems, 1))
<1>1. CalledInv /\ Text \in Query =>
        (call = "stmt" => bound.args = bindAnyArgs(compileNamedQuery("QUESTION", Text).names, elems, 1))
  <2> SUFFICES ASSUME CalledInv, Text \in Query, call = "stmt"
               PROVE  bound.args = bindAnyArgs(compileNamedQuery("QUESTION", Text).names, elems, 1)
    OBVIOUS
  <2>1. PICK e \in Elems : CalledStmt(e)
    BY DEF CalledInv
  <2>2. elems = <<e>> /\ bound.args = bindAnyArgs(compiled.names, <<e>>, 1)
    BY <2>1 DEF CalledStmt, ExecStmt
  <2>3. compiled.names = compileNamedQuery("DOLLAR", Text).names
    BY <2>1 DEF CalledStmt, prepareNamed
  <2>4. compileNamedQuery("DOLLAR", Text).names = compileNamedQuery("QUESTION", Text).names
    BY CompiledNames DEF compileNamedQuery
  <2> QED
    BY <2>2, <2>3, <2>4
<1> QED
  BY <1>1, CallsStand, NamedTextIsQuery, PTL

\* Every batch whose elements have all the names of the query: the values of every
\* element (bindArray), the rows one after the other, each in the order of the query.
THEOREM BatchValuesInOrder ==
  NamedSpec => [](call = "slice" =>
    LET known == NamesIn(Text, AnyName)
    IN (\A k \in DOMAIN elems : \A i \in DOMAIN known : known[i] \in DOMAIN elems[k]) =>
         bound.args = FlattenSeq([k \in DOMAIN elems |->
                        [i \in DOMAIN known |-> [elem |-> k, name |-> known[i]]]]))
<1> DEFINE known == NamesIn(Text, AnyName)
           Rows == FlattenSeq([k \in DOMAIN elems |-> [i \in DOMAIN known |-> [elem |-> k, name |-> known[i]]]])
           Complete == \A k \in DOMAIN elems : \A i \in DOMAIN known : known[i] \in DOMAIN elems[k]
<1>1. CalledInv /\ Text \in Query => (call = "slice" => (Complete => bound.args = Rows))
  <2> SUFFICES ASSUME CalledInv, Text \in Query, call = "slice", Complete PROVE bound.args = Rows
    OBVIOUS
  <2>1. CalledSlice
    BY DEF CalledInv
  <2>2. compiled.names = known
    BY <2>1, CompiledNames DEF CalledSlice, compileNamedQuery
  <2>3. bound.args = FlattenSeq([k \in DOMAIN elems |-> bindAnyArgs(known, elems, k)])
    BY <2>1, <2>2, Zenon DEF CalledSlice, bindArray
  <2>4. known \in Seq(Query)
    <3>1. known = NameList(Text, AnyName)[1] /\ 1 \in 1..(Len(Text) + 1)
      BY NameListSteps, QueryBytes
    <3> HIDE DEF known
    <3> QED
      BY <3>1, NameListType
  <2> HIDE DEF known
  <2>5. \A k \in DOMAIN elems : bindAnyArgs(known, elems, k) = [i \in DOMAIN known |-> [elem |-> k, name |-> known[i]]]
    BY <2>4, BindsEveryName
  <2>6. [k \in DOMAIN elems |-> bindAnyArgs(known, elems, k)]
          = [k \in DOMAIN elems |-> [i \in DOMAIN known |-> [elem |-> k, name |-> known[i]]]]
    BY <2>5, Zenon
  <2> QED
    BY <2>3, <2>6, Zenon
<1> QED
  BY <1>1, CallsStand, NamedTextIsQuery, PTL
=============================================================================
