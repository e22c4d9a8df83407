---------------------------- MODULE TapInfoProof ----------------------------
(***************************************************************************)
(* Theorems about the information of a test case (option -i) in TapInfo,   *)
(* as part of TapParams, for every section, line length and text.          *)
(***************************************************************************)
EXTENDS TapParamsProof

-----------------------------------------------------------------------------
(* The invariant *)

Text == Seq(STRING)
Item == Seq(Text)
Part == [name : Text, items : Seq(Item)]

\* The types of TapInfo.
InfoTyped ==
    /\ section \in Seq(InfoEntry)
    /\ records \in Seq(Record)
    /\ rec \in 0..Len(records) /\ pos \in 0..Over
    /\ rest \in Text
    /\ shown \in Seq(Part)
    /\ Len(shown) = rec
    /\ \A k \in 1..rec : shown[k].name = records[k].name
    /\ pos = 0 => rec = 0
    /\ rec = 0 => pos \in {0, Over} /\ rest = <<>>

\* Where a tag appears among the first n entries.
PlacesTo(tag, n) == Places(tag) \cap 1..n

\* The records after n entries: one for each tag, in the order in which the
\* tags appear, and an array where a tag appears twice.
Recordings(recs, n) ==
    /\ \A i \in Entries \cap 1..n : \E k \in 1..Len(recs) : recs[k].name = section[i].tag
    /\ \A k \in 1..Len(recs) :
           /\ PlacesTo(recs[k].name, n) # {}
           /\ recs[k].count >= 1
           /\ recs[k].count = 1 => \A i, j \in PlacesTo(recs[k].name, n) : i = j
    /\ \A k, l \in 1..Len(recs) : k < l =>
           \A j \in PlacesTo(recs[l].name, n) : \E i \in PlacesTo(recs[k].name, n) : i < j

\* How far the section was searched for a record.
Searched(k) == IF k < rec THEN Len(section) ELSE pos - 1

\* The items show entries of the section; of the last one, left is still to be
\* printed.
ItemsShow(sec, items, own, left) ==
    /\ Len(items) = Cardinality(own)
    /\ \A i \in own :
           LET n == Cardinality(own \cap 1..i)
           IN  FlattenSeq(items[n]) \o (IF n = Len(items) THEN left ELSE <<>>) = sec[i].value

\* A record shows the entries of its own that were found so far.
Found(k) == PlacesTo(records[k].name, Searched(k))
Shows(k) == ItemsShow(section, shown[k].items, Found(k), IF k = rec THEN rest ELSE <<>>)

\* A line as LinesFold wants it.
Folded(line, width) ==
    /\ line # <<>>
    /\ \/ Len(line) <= width /\ ~Contains(Front(line), Newline)
       \/ Len(line) > width /\ ~Contains(line, Blank)

\* An item whose lines are all folded; one that was not folded has one line.
FoldedItem(item, entries) ==
    \A l \in 1..Len(item) : Folded(item[l], LineLen - IF entries > 1 THEN 6 ELSE 4)

Foldings ==
    /\ rest # <<>> =>
           LET items == shown[rec].items
           IN  Len(items) > 0 /\ FoldedItem(items[Len(items)], records[rec].count)
    /\ \A k \in 1..rec : \A n \in 1..Len(shown[k].items) :
           Len(shown[k].items[n]) > 1 => FoldedItem(shown[k].items[n], records[k].count)

InfoInv ==
    /\ InfoTyped
    /\ pos # 0 => Recordings(records, Len(section))
    /\ \A k \in 1..rec : Apart(records[k].name) => Shows(k)
    /\ Foldings

-----------------------------------------------------------------------------
(* Texts *)

LEMMA MinFirst ==
    ASSUME NEW S \in SUBSET Nat, S # {}
    PROVE  Min(S) \in S /\ \A i \in S : Min(S) <= i
<1>1. \E x \in S : \A y \in S : x =< y
  BY Least
<1> QED  BY <1>1 DEF Min

\* The first place of a character, or 0.
LEMMA FirstPlace ==
    ASSUME NEW text \in Text, NEW c, NEW i, i = FirstOf(text, c)
    PROVE  /\ i \in 0..Len(text)
           /\ i = 0 => \A j \in 1..Len(text) : text[j] # c
           /\ i # 0 => text[i] = c /\ \A j \in 1..i-1 : text[j] # c
<1> DEFINE I == {j \in 1..Len(text) : text[j] = c}
<1>1. i = IF I # {} THEN Min(I) ELSE 0
  BY DEF FirstOf, SelectInSeq
<1>2. Len(text) \in Nat /\ I \in SUBSET Nat
  BY DEF Text
<1>3. CASE I = {}
  <2>1. i = 0
    BY <1>1, <1>3
  <2>2. \A j \in 1..Len(text) : text[j] # c
    BY <1>3
  <2> QED  BY <1>2, <2>1, <2>2
<1>4. CASE I # {}
  <2>1. Min(I) \in I /\ \A j \in I : Min(I) <= j
    BY <1>2, <1>4, MinFirst
  <2>2. i = Min(I)
    BY <1>1, <1>4
  <2>3. i \in 1..Len(text) /\ text[i] = c
    BY <2>1, <2>2
  <2>4. \A j \in 1..i-1 : j \notin I
    <3>1. \A j \in I : i <= j
      BY <2>1, <2>2
    <3> HIDE DEF I
    <3> QED  BY <1>2, <2>3, <3>1
  <2>5. \A j \in 1..i-1 : text[j] # c
    BY <1>2, <2>3, <2>4
  <2> QED  BY <1>2, <2>3, <2>5
<1> QED  BY <1>3, <1>4

\* A line ends within the text, behind its first character, and is one that
\* LinesFold wants.
LEMMA LineEnds ==
    ASSUME NEW text \in Text, text # <<>>, NEW width \in Nat \ {0}
    PROVE  /\ LineEnd(text, width) \in 1..Len(text)
           /\ Folded(SubSeq(text, 1, LineEnd(text, width)), width)
<1> DEFINE newline == FirstOf(text, Newline)
           blanks == {i \in DOMAIN text : text[i] = Blank}
           fitting == {i \in blanks : i <= width}
           n == LineEnd(text, width)
<1>1. n = IF newline \in 1..width THEN newline
          ELSE IF Len(text) <= width THEN Len(text)
          ELSE IF fitting # {} THEN Max(fitting)
          ELSE IF blanks # {} THEN Min(blanks) - 1
          ELSE Len(text)
  BY DEF LineEnd, FirstOf
<1>2. /\ newline \in 0..Len(text)
      /\ newline = 0 => \A j \in 1..Len(text) : text[j] # Newline
      /\ newline # 0 => text[newline] = Newline /\ \A j \in 1..newline-1 : text[j] # Newline
  BY FirstPlace
<1>3. /\ Len(text) \in Nat /\ Len(text) > 0 /\ DOMAIN text = 1..Len(text)
      /\ text \in Seq(STRING)
  BY DEF Text
<1>4. /\ fitting \subseteq 1..Len(text) /\ fitting \in SUBSET (1..Len(text))
      /\ blanks \in SUBSET Nat
  BY <1>3
<1>5. fitting # {} => Max(fitting) \in fitting
  BY <1>3, <1>4, MaxIn
<1>6. blanks # {} => Min(blanks) \in blanks /\ \A i \in blanks : Min(blanks) <= i
  BY <1>4, MinFirst
<1> HIDE DEF n, newline
<1>7. n \in 1..Len(text)
  <2>1. CASE newline \in 1..width
    BY <1>1, <1>2, <2>1
  <2>2. CASE newline \notin 1..width /\ blanks # {} /\ fitting = {}
    <3>1. Min(blanks) > width /\ Min(blanks) \in 1..Len(text)
      BY <1>3, <1>6, <2>2
    <3> HIDE DEF blanks, fitting
    <3> QED  BY <1>1, <1>3, <2>2, <3>1
  <2>3. CASE newline \notin 1..width /\ (blanks = {} \/ fitting # {})
    <3>1. fitting # {} => Max(fitting) \in 1..Len(text)
      BY <1>4, <1>5
    <3>2. blanks = {} => fitting = {}
      OBVIOUS
    <3> HIDE DEF blanks, fitting
    <3> QED  BY <1>1, <1>3, <2>3, <3>1, <3>2
  <2> QED  BY <2>1, <2>2, <2>3
<1> DEFINE line == SubSeq(text, 1, n)
<1>8. /\ line \in Seq(STRING) /\ Len(line) = n /\ line # <<>>
      /\ \A j \in 1..n : line[j] = text[j]
  BY <1>3, <1>7
<1>9. /\ Front(line) \in Seq(STRING) /\ Len(Front(line)) = n - 1
      /\ \A j \in 1..n-1 : Front(line)[j] = text[j]
  BY <1>3, <1>7 DEF Front
<1>10. ASSUME \A j \in 1..n-1 : text[j] # Newline PROVE ~Contains(Front(line), Newline)
  BY <1>9, <1>10 DEF Contains
<1>11. ASSUME \A j \in 1..n : text[j] # Blank PROVE ~Contains(line, Blank)
  BY <1>8, <1>11 DEF Contains
<1> HIDE DEF line
<1>12. ASSUME newline \in 1..width PROVE Folded(line, width)
  <2>1. n = newline
    BY <1>1, <1>12
  <2>2. \A j \in 1..n-1 : text[j] # Newline
    BY <1>2, <1>12, <2>1
  <2> QED  BY <1>7, <1>8, <1>10, <1>12, <2>1, <2>2 DEF Folded
<1>13. ASSUME newline \notin 1..width, n <= width PROVE Folded(line, width)
  <2>1. \A j \in 1..n-1 : text[j] # Newline
    BY <1>2, <1>7, <1>13
  <2> QED  BY <1>8, <1>10, <1>13, <2>1 DEF Folded
<1>14. ASSUME newline \notin 1..width, n > width PROVE Folded(line, width)
  <2>1. fitting = {} /\ Len(text) > width
    <3>1. fitting # {} => Max(fitting) \in Nat /\ Max(fitting) <= width
      BY <1>3, <1>5
    <3> HIDE DEF fitting, blanks
    <3>2. ~ (Len(text) <= width)
      BY <1>1, <1>3, <1>14
    <3>3. fitting = {}
      <4> SUFFICES ASSUME fitting # {} PROVE FALSE
        OBVIOUS
      <4>1. n = Max(fitting)
        BY <1>1, <1>14, <3>2, Zenon
      <4>2. Max(fitting) <= width /\ Max(fitting) \in Nat
        BY <3>1
      <4> QED  BY <1>14, <4>1, <4>2
    <3> QED  BY <1>3, <3>2, <3>3
  <2>2. \A j \in 1..n : j \notin blanks
    <3>1. CASE blanks = {}
      BY <3>1
    <3>2. CASE blanks # {}
      <4>1. n = Min(blanks) - 1
        <5> HIDE DEF fitting, blanks
        <5> QED  BY <1>1, <1>14, <2>1, <3>2
      <4>2. Min(blanks) \in Nat
        BY <1>4, <1>6, <3>2
      <4>3. \A j \in blanks : Min(blanks) <= j /\ j \in Nat
        BY <1>4, <1>6, <3>2
      <4> HIDE DEF blanks
      <4> QED  BY <4>1, <4>2, <4>3
    <3> QED  BY <3>1, <3>2
  <2>3. \A j \in 1..n : text[j] # Blank
    BY <1>3, <1>7, <2>2
  <2> QED  BY <1>8, <1>11, <1>14, <2>3 DEF Folded
<1>15. n <= width \/ n > width
  BY <1>7
<1> QED  BY <1>7, <1>12, <1>13, <1>14, <1>15 DEF n, line

-----------------------------------------------------------------------------
(* FlattenSeq(), one line more at a time *)

Flattens(g, item) ==
    g = [i \in 1..Len(item) |-> IF i = 1 THEN item[i] ELSE g[i-1] \o item[i]]

LEMMA Flattened ==
    ASSUME NEW item \in Item, item # <<>>
    PROVE  \E g \in [1..Len(item) -> Text] :
               /\ g[1] = item[1]
               /\ \A i \in 2..Len(item) : g[i] = g[i-1] \o item[i]
               /\ FlattenSeq(item) = g[Len(item)]
<1> DEFINE D == 1..Len(item)
           size == [i \in D |-> i - 1]
           prev == [i \in D |-> i - 1]
           step == [i \in D |-> [b \in Text |-> b \o item[i]]]
           f == CHOOSE h : Flattens(h, item)
<1>1. /\ Len(item) \in Nat /\ Len(item) > 0 /\ item[1] \in Text
      /\ \A i \in D : item[i] \in Text
  BY DEF Item
<1>2. \A i \in D : size[i] = i - 1 /\ prev[i] = i - 1
  OBVIOUS
<1>3. \A i \in D : \A b \in Text : step[i][b] = b \o item[i] /\ b \o item[i] \in Text
  <2>1. \A i \in D : \A b \in Text : step[i][b] = b \o item[i]
    OBVIOUS
  <2>2. \A b, c \in Seq(STRING) : b \o c \in Seq(STRING)
    OBVIOUS
  <2> QED  BY <1>1, <2>1, <2>2 DEF Text
<1>4. FlattenSeq(item) = f[Len(item)]
  <2>1. Len(item) # 0
    BY <1>1
  <2> QED  BY <2>1 DEF FlattenSeq, Flattens
<1> HIDE DEF size, prev, step, f
<1>5. Recurs(D, size, Len(item), prev, Text, item[1], step)
  <2>1. \A i \in D : size[i] \in 0..Len(item)
    BY <1>1, <1>2
  <2>2. \A i \in D : size[i] > 0 => prev[i] \in D /\ size[prev[i]] < size[i]
    BY <1>1, <1>2
  <2>3. \A i \in D : \A b \in Text : step[i][b] \in Text
    BY <1>3
  <2> HIDE DEF D
  <2> QED  BY <1>1, <2>1, <2>2, <2>3 DEF Recurs
<1>6. PICK g \in [D -> Text] :
          \A i \in D : g[i] = IF size[i] = 0 THEN item[1] ELSE step[i][g[prev[i]]]
  <2> HIDE DEF D
  <2> QED  BY <1>5, Recursion
<1>7. ASSUME NEW i \in D
      PROVE  g[i] = IF i = 1 THEN item[i] ELSE g[i-1] \o item[i]
  <2>1. CASE i = 1
    BY <1>2, <1>6, <2>1
  <2>2. CASE i # 1
    <3>1. i - 1 \in D /\ size[i] # 0 /\ prev[i] = i - 1
      BY <1>1, <1>2, <2>2
    <3>2. g[i-1] \in Text
      BY <1>6, <3>1
    <3>3. g[i] = step[i][g[i-1]]
      BY <1>6, <3>1
    <3> QED  BY <1>3, <2>2, <3>2, <3>3
  <2> QED  BY <2>1, <2>2
<1>8. Flattens(g, item)
  BY <1>6, <1>7 DEF Flattens
<1>9. Flattens(f, item)
  BY <1>8 DEF f
<1>10. ASSUME NEW i \in D
       PROVE  f[i] = IF i = 1 THEN item[i] ELSE f[i-1] \o item[i]
  <2>1. f = [j \in 1..Len(item) |-> IF j = 1 THEN item[j] ELSE f[j-1] \o item[j]]
    BY <1>9 DEF Flattens
  <2> QED  BY <2>1, Zenon
<1>11. /\ f[1] = item[1]
       /\ \A i \in 2..Len(item) : f[i] = f[i-1] \o item[i]
  <2>1. 1 \in D
    BY <1>1
  <2>2. \A i \in 2..Len(item) : i \in D /\ i # 1
    BY <1>1
  <2> QED  BY <1>10, <2>1, <2>2
<1>12. \A i \in D : f[i] \in Text
  <2> DEFINE N == {n \in Nat : n + 1 \in D => f[n + 1] \in Text}
  <2>1. 0 \in N
    BY <1>1, <1>11
  <2>2. ASSUME NEW n \in Nat, n \in N PROVE n + 1 \in N
    <3> SUFFICES ASSUME (n + 1) + 1 \in D PROVE f[(n + 1) + 1] \in Text
      OBVIOUS
    <3> DEFINE i == (n + 1) + 1
    <3>1. n + 1 \in D /\ i \in 2..Len(item) /\ i - 1 = n + 1 /\ i \in D
      BY <1>1
    <3>2. f[n + 1] \in Text
      BY <2>2, <3>1
    <3> HIDE DEF i
    <3>3. f[i] = f[n + 1] \o item[i]
      BY <1>11, <3>1
    <3>4. f[i] \in Text
      BY <1>3, <3>1, <3>2, <3>3
    <3> QED  BY <3>4 DEF i
  <2> HIDE DEF N
  <2>3. Nat \subseteq N
    BY <2>1, <2>2, Induction
  <2>4. ASSUME NEW i \in D PROVE f[i] \in Text
    <3>1. i - 1 \in N /\ (i - 1) + 1 = i
      BY <1>1, <2>3
    <3> QED  BY <3>1 DEF N
  <2> QED  BY <2>4
<1> DEFINE g2 == [i \in D |-> f[i]]
<1>13. g2 \in [D -> Text] /\ \A i \in D : g2[i] = f[i]
  BY <1>12
<1> HIDE DEF g2
<1>14. /\ g2[1] = item[1]
       /\ \A i \in 2..Len(item) : g2[i] = g2[i-1] \o item[i]
       /\ FlattenSeq(item) = g2[Len(item)]
  <2>1. 1 \in D /\ Len(item) \in D /\ \A i \in 2..Len(item) : i \in D /\ i - 1 \in D
    BY <1>1
  <2> HIDE DEF D
  <2> QED  BY <1>4, <1>11, <1>13, <2>1
<1> QED  BY <1>13, <1>14

LEMMA FlattenType == ASSUME NEW item \in Item PROVE FlattenSeq(item) \in Text
<1>1. CASE item = <<>>
  BY <1>1 DEF FlattenSeq, Text
<1>2. CASE item # <<>>
  <2>1. Len(item) \in 1..Len(item)
    BY <1>2 DEF Item
  <2> QED  BY <1>2, <2>1, Flattened
<1> QED  BY <1>1, <1>2

\* A line more is a part of the text more.
LEMMA FlattenAppend ==
    ASSUME NEW item \in Item, NEW line \in Text
    PROVE  FlattenSeq(Append(item, line)) = FlattenSeq(item) \o line
<1> DEFINE more == Append(item, line)
           n == Len(item)
<1>1. /\ more \in Item /\ more # <<>> /\ n \in Nat /\ Len(more) = n + 1
      /\ more[n+1] = line /\ \A i \in 1..n : more[i] = item[i]
  BY DEF Item
<1> HIDE DEF more
<1>2. PICK h \in [1..Len(more) -> Text] :
          /\ h[1] = more[1]
          /\ \A i \in 2..Len(more) : h[i] = h[i-1] \o more[i]
          /\ FlattenSeq(more) = h[Len(more)]
  BY <1>1, Flattened
<1>3. CASE item = <<>>
  <2>1. n = 0 /\ FlattenSeq(item) = <<>>
    BY <1>3 DEF FlattenSeq
  <2>2. FlattenSeq(more) = line
    BY <1>1, <1>2, <2>1
  <2>3. line \in Seq(STRING)
    BY DEF Text
  <2> QED  BY <2>1, <2>2, <2>3 DEF more
<1>4. CASE item # <<>>
  <2>1. PICK g \in [1..n -> Text] :
            /\ g[1] = item[1]
            /\ \A i \in 2..n : g[i] = g[i-1] \o item[i]
            /\ FlattenSeq(item) = g[n]
    BY <1>4, Flattened
  <2>2. n > 0
    BY <1>1, <1>4 DEF Item
  <2> HIDE DEF n
  <2> DEFINE N == {k \in Nat : k + 1 <= n => h[k + 1] = g[k + 1]}
  <2>3. 0 \in N
    BY <1>1, <1>2, <2>1, <2>2
  <2>4. ASSUME NEW k \in Nat, k \in N PROVE k + 1 \in N
    <3> SUFFICES ASSUME (k + 1) + 1 <= n PROVE h[(k + 1) + 1] = g[(k + 1) + 1]
      OBVIOUS
    <3> DEFINE i == (k + 1) + 1
    <3>1. i \in 2..n /\ i \in 2..Len(more) /\ i \in 1..n /\ i - 1 = k + 1 /\ k + 1 <= n
      BY <1>1
    <3>2. h[k + 1] = g[k + 1]
      BY <2>4, <3>1
    <3> HIDE DEF i
    <3>3. h[i] = g[i]
      <4>1. h[i] = h[k + 1] \o more[i]
        BY <1>2, <3>1
      <4>2. g[i] = g[k + 1] \o item[i]
        BY <2>1, <3>1
      <4> QED  BY <1>1, <3>1, <3>2, <4>1, <4>2
    <3> QED  BY <3>3 DEF i
  <2> HIDE DEF N
  <2>5. n - 1 \in N /\ (n - 1) + 1 = n
    BY <1>1, <2>2, <2>3, <2>4, Induction
  <2>6. h[n] = g[n]
    BY <1>1, <2>5 DEF N
  <2>7. h[n + 1] = h[n] \o line
    <3>1. n + 1 \in 2..Len(more) /\ (n + 1) - 1 = n
      BY <1>1, <2>2
    <3> QED  BY <1>1, <1>2, <3>1
  <2> QED  BY <1>1, <1>2, <2>1, <2>6, <2>7 DEF more
<1> QED  BY <1>3, <1>4

-----------------------------------------------------------------------------
(* Collect: the records of all entries *)

\* The entry n is a place of its own tag and of no other.
LEMMA PlacesStep ==
    ASSUME section \in Seq(InfoEntry), NEW n \in 1..Len(section), NEW tag
    PROVE  PlacesTo(tag, n) = PlacesTo(tag, n - 1)
               \cup {i \in {n} : section[n].sep /\ section[n].tag = tag}
<1>1. DOMAIN section = 1..Len(section) /\ Len(section) \in Nat
  OBVIOUS
<1>2. 1..n = (1..(n - 1)) \cup {n} /\ n \in DOMAIN section
  BY <1>1
<1> QED  BY <1>2 DEF PlacesTo, Places, Entries

\* The records with one more entry: as before, one more, or one of them grown.
Extends(recs, e, new) ==
    /\ ~e.sep => new = recs
    /\ e.sep =>
         \/ /\ \A j \in 1..Len(recs) : recs[j].name # e.tag
            /\ Len(new) = Len(recs) + 1
            /\ \A j \in 1..Len(recs) : new[j] = recs[j]
            /\ new[Len(recs) + 1].name = e.tag
            /\ new[Len(recs) + 1].count = 1
         \/ \E k \in 1..Len(recs) :
                /\ recs[k].name = e.tag
                /\ Len(new) = Len(recs)
                /\ \A j \in 1..Len(recs) : new[j].name = recs[j].name
                /\ \A j \in 1..Len(recs) \ {k} : new[j] = recs[j]
                /\ new[k].count = recs[k].count + 1

LEMMA RecordedCases ==
    ASSUME NEW recs \in Seq(Record), NEW e \in InfoEntry,
           NEW new, new = Recorded(recs, e)
    PROVE  /\ new \in Seq(Record)
           /\ Extends(recs, e, new)
<1> DEFINE I == {i \in 1..Len(recs) : recs[i].name = e.tag}
           k == IF I # {} THEN Min(I) ELSE 0
<1>1. new = IF ~e.sep THEN recs
            ELSE IF k = 0 THEN Append(recs, [name |-> e.tag, count |-> 1])
            ELSE [recs EXCEPT ![k].count = @ + 1]
  BY DEF Recorded, SelectInSeq
<1>2. /\ Len(recs) \in Nat /\ I \in SUBSET Nat /\ DOMAIN recs = 1..Len(recs)
      /\ \A j \in 1..Len(recs) : recs[j] \in Record
  OBVIOUS
<1>3. (k = 0 /\ I = {}) \/ (k \in I /\ k \in 1..Len(recs) /\ k # 0)
  <2>1. I # {} => Min(I) \in I
    BY <1>2, MinIn
  <2>2. \A j \in I : j \in 1..Len(recs) /\ j # 0
    BY <1>2
  <2> QED  BY <2>1, <2>2
<1>4. new \in Seq(Record)
  BY RecordedType
<1>5. CASE ~e.sep
  BY <1>1, <1>4, <1>5 DEF Extends
<1>6. CASE e.sep /\ k = 0 /\ I = {}
  <2>1. new = Append(recs, [name |-> e.tag, count |-> 1])
    <3> HIDE DEF k
    <3> QED  BY <1>1, <1>6
  <2>2. \A j \in 1..Len(recs) : recs[j].name # e.tag
    BY <1>6
  <2> DEFINE one == [name |-> e.tag, count |-> 1]
  <2>3. one.name = e.tag /\ one.count = 1
    OBVIOUS
  <2> HIDE DEF k, I, one
  <2>4. /\ Len(new) = Len(recs) + 1
        /\ \A j \in 1..Len(recs) : new[j] = recs[j]
        /\ new[Len(recs) + 1] = one
    BY <1>2, <2>1 DEF one
  <2> QED  BY <1>4, <1>6, <2>2, <2>3, <2>4 DEF Extends
<1>7. CASE e.sep /\ k \in I /\ k \in 1..Len(recs) /\ k # 0
  <2>1. recs[k].name = e.tag
    BY <1>7
  <2> HIDE DEF k, I
  <2>2. new = [recs EXCEPT ![k].count = @ + 1]
    BY <1>1, <1>7
  <2>3. new = [recs EXCEPT ![k] = [recs[k] EXCEPT !.count = @ + 1]]
    BY <2>2
  <2> DEFINE one == [recs[k] EXCEPT !.count = @ + 1]
  <2>4. one.name = recs[k].name /\ one.count = recs[k].count + 1
    BY <1>2, <1>7 DEF Record
  <2> HIDE DEF one
  <2>5. /\ Len(new) = Len(recs) /\ new[k] = one
        /\ \A j \in 1..Len(recs) \ {k} : new[j] = recs[j]
    BY <1>2, <1>7, <2>3 DEF one
  <2>6. \A j \in 1..Len(recs) : new[j].name = recs[j].name
    BY <2>4, <2>5
  <2> QED  BY <1>4, <1>7, <2>1, <2>4, <2>5, <2>6 DEF Extends
<1> HIDE DEF k, I
<1> QED  BY <1>3, <1>5, <1>6, <1>7 DEF Extends

LEMMA RecordingsStep ==
    ASSUME section \in Seq(InfoEntry), NEW n \in 1..Len(section),
           NEW recs \in Seq(Record), Recordings(recs, n - 1),
           NEW e, e = section[n], NEW new, new = Recorded(recs, e)
    PROVE  Recordings(new, n)
<1> DEFINE P(tag) == PlacesTo(tag, n - 1)
           Q(tag) == PlacesTo(tag, n)
<1>1. /\ e \in InfoEntry /\ DOMAIN section = 1..Len(section) /\ Len(recs) \in Nat
      /\ \A k \in 1..Len(recs) : recs[k].count \in Nat
  <2>1. e \in InfoEntry
    OBVIOUS
  <2>2. \A k \in 1..Len(recs) : recs[k] \in Record
    OBVIOUS
  <2> QED  BY <2>1, <2>2 DEF Record
<1>2. new \in Seq(Record) /\ Extends(recs, e, new)
  BY <1>1, RecordedCases
<1>3. \A tag : P(tag) \subseteq Q(tag) /\ \A i \in P(tag) : i \in Nat /\ i < n
  <2>1. \A tag : P(tag) \subseteq 1..(n - 1)
    BY DEF PlacesTo
  <2>2. \A tag : P(tag) \subseteq Q(tag)
    BY PlacesStep
  <2> HIDE DEF P, Q
  <2> QED  BY <2>1, <2>2
<1>4. \A tag : ~ (e.sep /\ e.tag = tag) => Q(tag) = P(tag)
  BY PlacesStep
<1>5. e.sep => \A i \in Q(e.tag) : i \in P(e.tag) \/ i = n
  BY PlacesStep
<1>6. e.sep => n \in Q(e.tag)
  BY PlacesStep
<1>7. /\ \A i \in Entries \cap 1..(n - 1) : \E k \in 1..Len(recs) : recs[k].name = section[i].tag
      /\ \A k \in 1..Len(recs) :
             /\ P(recs[k].name) # {}
             /\ recs[k].count >= 1
             /\ recs[k].count = 1 => \A i, j \in P(recs[k].name) : i = j
      /\ \A k, l \in 1..Len(recs) : k < l =>
             \A j \in P(recs[l].name) : \E i \in P(recs[k].name) : i < j
  BY DEF Recordings
<1>8. /\ \A i \in Entries \cap 1..n : i \in Entries \cap 1..(n - 1) \/ (i = n /\ e.sep)
      /\ \A tag : \A i \in P(tag) : i \in Entries \cap 1..(n - 1) /\ section[i].tag = tag
  BY <1>1 DEF Entries, PlacesTo, Places
<1> DEFINE Good(k) ==
               /\ P(recs[k].name) # {}
               /\ recs[k].count >= 1
               /\ recs[k].count = 1 => \A i, j \in P(recs[k].name) : i = j
<1> HIDE DEF P, Q
<1>12. \A k \in 1..Len(recs) : Good(k)
  BY <1>7
<1>9. CASE ~e.sep
  <2>1. new = recs /\ \A tag : Q(tag) = P(tag)
    BY <1>2, <1>4, <1>9 DEF Extends
  <2>2. \A i \in Entries \cap 1..n : \E k \in 1..Len(new) : new[k].name = section[i].tag
    BY <1>7, <1>8, <1>9, <2>1
  <2>3. \A k \in 1..Len(new) :
            /\ Q(new[k].name) # {}
            /\ new[k].count >= 1
            /\ new[k].count = 1 => \A i, j \in Q(new[k].name) : i = j
    BY <1>7, <2>1
  <2>4. \A k, l \in 1..Len(new) : k < l =>
            \A j \in Q(new[l].name) : \E i \in Q(new[k].name) : i < j
    BY <1>7, <2>1
  <2> QED  BY <2>2, <2>3, <2>4 DEF Recordings, Q
<1>10. CASE e.sep /\ \A j \in 1..Len(recs) : recs[j].name # e.tag
  <2> DEFINE m == Len(recs) + 1
  <2>1. /\ Len(new) = m /\ m \in Nat
        /\ \A j \in 1..Len(recs) : new[j] = recs[j] /\ Q(new[j].name) = P(new[j].name)
        /\ new[m].name = e.tag /\ new[m].count = 1
    BY <1>1, <1>2, <1>4, <1>10 DEF Extends
  <2>2. P(e.tag) = {} /\ \A i \in Q(e.tag) : i = n
    <3>1. ASSUME NEW i \in P(e.tag) PROVE FALSE
      <4>1. i \in Entries \cap 1..(n - 1) /\ section[i].tag = e.tag
        BY <1>8, <3>1
      <4>2. \E k \in 1..Len(recs) : recs[k].name = section[i].tag
        BY <1>7, <4>1
      <4> QED  BY <1>10, <4>1, <4>2
    <3> QED  BY <1>5, <1>10, <3>1
  <2>3. \A j \in 1..m : j \in 1..Len(recs) \/ j = m
    BY <1>1
  <2>4. m \in 1..m /\ \A j \in 1..Len(recs) : j \in 1..m /\ j < m
    BY <1>1
  <2> HIDE DEF m
  <2>5. \A i \in Entries \cap 1..n : \E k \in 1..m : new[k].name = section[i].tag
    <3>1. ASSUME NEW i \in Entries \cap 1..(n - 1) PROVE \E k \in 1..m : new[k].name = section[i].tag
      BY <1>7, <2>1, <2>4
    <3>2. new[m].name = section[n].tag
      BY <2>1
    <3> QED  BY <1>8, <2>4, <3>1, <3>2
  <2>6. ASSUME NEW k \in 1..m
        PROVE  /\ Q(new[k].name) # {}
               /\ new[k].count >= 1
               /\ new[k].count = 1 => \A i, j \in Q(new[k].name) : i = j
    <3>1. CASE k = m
      BY <1>6, <1>10, <2>1, <2>2, <3>1
    <3>2. CASE k \in 1..Len(recs)
      <4>1. new[k] = recs[k] /\ Q(new[k].name) = P(recs[k].name)
        BY <2>1, <3>2
      <4>2. Good(k)
        BY <1>12, <3>2
      <4> QED  BY <4>1, <4>2, Zenon
    <3> QED  BY <2>3, <3>1, <3>2
  <2>7. ASSUME NEW k \in 1..m, NEW l \in 1..m, k < l, NEW j \in Q(new[l].name)
        PROVE  \E i \in Q(new[k].name) : i < j
    <3>1. k \in 1..Len(recs) /\ k \in Nat
      BY <1>1, <2>3, <2>7 DEF m
    <3>2. CASE l \in 1..Len(recs)
      <4>1. Q(new[k].name) = P(recs[k].name) /\ Q(new[l].name) = P(recs[l].name)
        BY <2>1, <3>1, <3>2
      <4>2. \A y \in P(recs[l].name) : \E i \in P(recs[k].name) : i < y
        BY <1>7, <2>7, <3>1, <3>2
      <4> QED  BY <2>7, <4>1, <4>2
    <3>3. CASE l = m
      <4>1. j = n
        BY <2>1, <2>2, <2>7, <3>3
      <4>2. PICK i : i \in P(recs[k].name)
        BY <1>7, <3>1
      <4>3. i \in Q(new[k].name) /\ i < n
        BY <1>3, <2>1, <3>1, <4>2
      <4> QED  BY <4>1, <4>3
    <3> QED  BY <2>3, <3>2, <3>3
  <2>8. Len(new) = m
    BY <2>1
  <2> QED  BY <2>5, <2>6, <2>7, <2>8 DEF Recordings, Q
<1>11. ASSUME e.sep, NEW k \in 1..Len(recs),
              /\ recs[k].name = e.tag
              /\ Len(new) = Len(recs)
              /\ \A j \in 1..Len(recs) : new[j].name = recs[j].name
              /\ \A j \in 1..Len(recs) \ {k} : new[j] = recs[j]
              /\ new[k].count = recs[k].count + 1
       PROVE  Recordings(new, n)
  <2>1. \A i \in Entries \cap 1..n : \E j \in 1..Len(recs) : new[j].name = section[i].tag
    <3>1. ASSUME NEW i \in Entries \cap 1..(n - 1)
          PROVE  \E j \in 1..Len(recs) : new[j].name = section[i].tag
      BY <1>7, <1>11
    <3>2. new[k].name = section[n].tag
      BY <1>11
    <3> QED  BY <1>8, <3>1, <3>2
  <2>2. ASSUME NEW j \in 1..Len(recs)
        PROVE  /\ Q(new[j].name) # {}
               /\ new[j].count >= 1
               /\ new[j].count = 1 => \A x, y \in Q(new[j].name) : x = y
    <3>1. Q(new[j].name) # {}
      BY <1>3, <1>7, <1>11
    <3>2. CASE j = k
      <4>1. new[j].count >= 2
        BY <1>1, <1>11, <1>12, <3>2
      <4>2. new[j].count \in Nat
        BY <1>1, <1>11, <3>2
      <4> QED  BY <3>1, <4>1, <4>2
    <3>3. CASE j # k /\ recs[j].name # e.tag
      <4>1. new[j] = recs[j] /\ Q(new[j].name) = P(recs[j].name)
        BY <1>4, <1>11, <3>3
      <4>2. Good(j)
        BY <1>12
      <4> QED  BY <4>1, <4>2, Zenon
    <3>4. CASE j # k /\ recs[j].name = e.tag
      <4>1. j \in Nat /\ k \in Nat /\ (j < k \/ k < j)
        BY <3>4
      <4>2. P(e.tag) # {} /\ \A y \in P(e.tag) : \E x \in P(e.tag) : x < y
        <5>1. P(recs[j].name) = P(e.tag) /\ P(recs[k].name) = P(e.tag)
          BY <1>11, <3>4
        <5>2. Good(k)
          BY <1>12
        <5>3. \/ \A y \in P(recs[j].name) : \E x \in P(recs[k].name) : x < y
              \/ \A y \in P(recs[k].name) : \E x \in P(recs[j].name) : x < y
          BY <1>7, <4>1
        <5> QED  BY <5>1, <5>2, <5>3
      <4>3. P(e.tag) \in SUBSET Nat
        BY <1>3
      <4>4. PICK y \in P(e.tag) : \A x \in P(e.tag) : y <= x
        BY <4>2, <4>3, Least
      <4>5. PICK x \in P(e.tag) : x < y
        BY <4>2
      <4>6. y <= x /\ x \in Nat /\ y \in Nat
        BY <4>3, <4>4, <4>5
      <4> QED  BY <4>5, <4>6
    <3> QED  BY <3>2, <3>3, <3>4
  <2>3. ASSUME NEW i \in 1..Len(recs), NEW l \in 1..Len(recs), i < l, NEW j \in Q(new[l].name)
        PROVE  \E x \in Q(new[i].name) : x < j
    <3>1. CASE j \in P(recs[l].name)
      BY <1>3, <1>7, <1>11, <2>3, <3>1
    <3>2. CASE j \notin P(recs[l].name)
      <4>1. j = n
        BY <1>4, <1>5, <1>11, <2>3, <3>2
      <4>2. PICK x : x \in P(recs[i].name)
        BY <1>7
      <4>3. x \in Q(new[i].name) /\ x < n
        BY <1>3, <1>11, <4>2
      <4> QED  BY <4>1, <4>3
    <3> QED  BY <3>1, <3>2
  <2>4. Len(new) = Len(recs)
    BY <1>11
  <2> DEFINE m == Len(new)
  <2>5. \A i \in Entries \cap 1..n : \E j \in 1..m : new[j].name = section[i].tag
    BY <2>1, <2>4, Zenon
  <2>6. ASSUME NEW j \in 1..m
        PROVE  /\ Q(new[j].name) # {}
               /\ new[j].count >= 1
               /\ new[j].count = 1 => \A x, y \in Q(new[j].name) : x = y
    BY <2>2, <2>4, Zenon
  <2>7. ASSUME NEW i \in 1..m, NEW l \in 1..m, i < l, NEW j \in Q(new[l].name)
        PROVE  \E x \in Q(new[i].name) : x < j
    BY <2>3, <2>4, <2>7, Zenon
  <2> QED  BY <2>5, <2>6, <2>7 DEF Recordings, Q
<1> QED  BY <1>2, <1>9, <1>10, <1>11 DEF Extends

LEMMA Collected ==
    ASSUME section \in Seq(InfoEntry)
    PROVE  Recordings(FoldLeft(Recorded, <<>>, section), Len(section))
<1>1. PICK g \in [0..Len(section) -> Seq(Record)] :
          /\ g[0] = <<>>
          /\ \A n \in 1..Len(section) : g[n] = Recorded(g[n-1], section[n])
          /\ FoldLeft(Recorded, <<>>, section) = g[Len(section)]
  BY Collecting
<1> DEFINE N == {n \in Nat : n <= Len(section) => Recordings(g[n], n)}
<1>2. 0 \in N
  <2>1. Recordings(<<>>, 0)
    BY DEF Recordings
  <2> QED  BY <1>1, <2>1
<1>3. ASSUME NEW n \in Nat, n \in N PROVE n + 1 \in N
  <2> SUFFICES ASSUME n + 1 <= Len(section) PROVE Recordings(g[n + 1], n + 1)
    OBVIOUS
  <2>1. /\ n + 1 \in 1..Len(section) /\ (n + 1) - 1 = n /\ g[n] \in Seq(Record)
        /\ Recordings(g[n], n)
    BY <1>3
  <2>2. Recordings(Recorded(g[n], section[n + 1]), n + 1)
    BY <2>1, RecordingsStep
  <2>3. g[n + 1] = Recorded(g[n], section[n + 1])
    BY <1>1, <2>1
  <2> QED  BY <2>2, <2>3
<1> HIDE DEF N
<1>4. Len(section) \in N
  <2>1. Len(section) \in Nat
    OBVIOUS
  <2> QED  BY <1>2, <1>3, <2>1, Induction
<1>5. Recordings(g[Len(section)], Len(section))
  BY <1>4 DEF N
<1> QED  BY <1>1, <1>5

-----------------------------------------------------------------------------
(* What is shown of a record *)

LEMMA Ranks ==
    ASSUME NEW n \in Nat, NEW own \in SUBSET (1..n)
    PROVE  /\ IsFiniteSet(own) /\ Cardinality(own) \in Nat
           /\ \A i \in own : Cardinality(own \cap 1..i) \in 1..Cardinality(own)
<1>1. IsFiniteSet(own)
  <2>1. IsFiniteSet(1..n)
    BY FS_Interval
  <2> QED  BY <2>1, FS_Subset
<1>2. Cardinality(own) \in Nat
  BY <1>1, FS_CardinalityType
<1>3. ASSUME NEW i \in own PROVE Cardinality(own \cap 1..i) \in 1..Cardinality(own)
  <2> DEFINE S == own \cap 1..i
  <2>1. S \in SUBSET own /\ i \in S
    OBVIOUS
  <2> HIDE DEF S
  <2>2. IsFiniteSet(S) /\ Cardinality(S) <= Cardinality(own)
    BY <1>1, <2>1, FS_Subset
  <2>3. Cardinality(S) \in Nat /\ Cardinality(S) # 0
    BY <2>1, <2>2, FS_CardinalityType, FS_EmptySet
  <2>4. Cardinality(S) \in 1..Cardinality(own)
    BY <1>2, <2>2, <2>3
  <2> QED  BY <2>4 DEF S
<1> QED  BY <1>1, <1>2, <1>3

\* One more entry is one more item.
LEMMA ItemsShowMore ==
    ASSUME NEW sec, NEW items \in Seq(Item), NEW p \in Nat \ {0}, NEW own \in SUBSET (1..(p - 1)),
           ItemsShow(sec, items, own, <<>>),
           NEW item \in Item, NEW left, FlattenSeq(item) \o left = sec[p].value
    PROVE  ItemsShow(sec, Append(items, item), own \cup {p}, left)
<1> DEFINE more == Append(items, item)
           now == own \cup {p}
<1>1. /\ IsFiniteSet(own) /\ Cardinality(own) \in Nat
      /\ \A i \in own : Cardinality(own \cap 1..i) \in 1..Cardinality(own)
  <2>1. p - 1 \in Nat
    OBVIOUS
  <2> QED  BY <2>1, Ranks
<1>2. /\ Len(items) = Cardinality(own) /\ Len(more) = Len(items) + 1
      /\ \A n \in 1..Len(items) : more[n] = items[n]
      /\ more[Len(items) + 1] = item
  BY DEF ItemsShow
<1>3. p \notin own
  OBVIOUS
<1>4. Cardinality(now) = Cardinality(own) + 1
  BY <1>1, <1>3, FS_AddElement
<1>5. now \cap 1..p = now
  <2>1. \A i \in now : i \in 1..p
    OBVIOUS
  <2> HIDE DEF now
  <2> QED  BY <2>1
<1> HIDE DEF more
<1>6. ASSUME NEW i \in own
      PROVE  LET n == Cardinality(now \cap 1..i)
             IN  FlattenSeq(more[n]) \o (IF n = Len(more) THEN left ELSE <<>>) = sec[i].value
  <2> DEFINE n == Cardinality(own \cap 1..i)
  <2>1. now \cap 1..i = own \cap 1..i
    OBVIOUS
  <2>2. FlattenSeq(items[n]) \o (IF n = Len(items) THEN <<>> ELSE <<>>) = sec[i].value
    BY DEF ItemsShow
  <2>3. FlattenSeq(items[n]) \o <<>> = sec[i].value
    BY <2>2
  <2>4. n \in 1..Len(items)
    BY <1>1, <1>2
  <2> HIDE DEF n
  <2>5. n # Len(more) /\ more[n] = items[n]
    BY <1>1, <1>2, <2>4
  <2>6. FlattenSeq(more[n]) \o (IF n = Len(more) THEN left ELSE <<>>) = sec[i].value
    BY <2>3, <2>5
  <2> HIDE DEF now
  <2> QED  BY <2>1, <2>6 DEF n
<1>7. LET n == Cardinality(now \cap 1..p)
      IN  FlattenSeq(more[n]) \o (IF n = Len(more) THEN left ELSE <<>>) = sec[p].value
  <2> HIDE DEF now
  <2>1. Cardinality(now \cap 1..p) = Len(more) /\ more[Len(more)] = item
    BY <1>2, <1>4, <1>5
  <2> QED  BY <2>1
<1>8. \A i \in now : i \in own \/ i = p
  OBVIOUS
<1>9. Len(more) = Cardinality(now)
  BY <1>2, <1>4
<1> HIDE DEF now
<1>10. ItemsShow(sec, more, now, left)
  <2>1. ASSUME NEW i \in now
        PROVE  LET n == Cardinality(now \cap 1..i)
               IN  FlattenSeq(more[n]) \o (IF n = Len(more) THEN left ELSE <<>>) = sec[i].value
    BY <1>6, <1>7, <1>8
  <2> QED  BY <1>9, <2>1 DEF ItemsShow
<1> QED  BY <1>10 DEF more, now

LEMMA Associates ==
    ASSUME NEW a \in Text, NEW b \in Text, NEW c \in Text
    PROVE  (a \o b) \o c = a \o (b \o c)
  BY ConcatAssociative DEF Text

\* A line of the last item is one less to print.
LEMMA ItemsShowLine ==
    ASSUME NEW sec, NEW items \in Seq(Item), NEW p \in Nat, NEW own \in SUBSET (1..p),
           NEW line \in Text, NEW left \in Text, NEW whole, whole = line \o left,
           ItemsShow(sec, items, own, whole), Len(items) > 0,
           NEW new, new = [items EXCEPT ![Len(items)] = Append(@, line)]
    PROVE  ItemsShow(sec, new, own, left)
<1> DEFINE m == Len(items)
<1>1. \A i \in own : Cardinality(own \cap 1..i) \in 1..m
  BY Ranks DEF ItemsShow
<1>2. /\ m \in Nat /\ m \in 1..m /\ items[m] \in Item /\ Len(new) = m
      /\ new[m] = Append(items[m], line)
      /\ \A n \in 1..m : n # m => new[n] = items[n]
  OBVIOUS
<1>3. FlattenSeq(new[m]) \o left = FlattenSeq(items[m]) \o whole
  <2> DEFINE text == FlattenSeq(items[m])
  <2>1. text \in Text
    BY <1>2, FlattenType
  <2>2. FlattenSeq(new[m]) = text \o line
    BY <1>2, FlattenAppend
  <2> HIDE DEF text, m
  <2>3. (text \o line) \o left = text \o (line \o left)
    BY <2>1, Associates, Zenon
  <2>4. FlattenSeq(new[m]) \o left = text \o whole
    BY <2>2, <2>3
  <2> QED  BY <2>4 DEF text
<1> HIDE DEF m
<1>4. ASSUME NEW i \in own
      PROVE  LET n == Cardinality(own \cap 1..i)
             IN  FlattenSeq(new[n]) \o (IF n = Len(new) THEN left ELSE <<>>) = sec[i].value
  <2> DEFINE n == Cardinality(own \cap 1..i)
  <2>1. n \in 1..m
    BY <1>1
  <2>2. FlattenSeq(items[n]) \o (IF n = m THEN whole ELSE <<>>) = sec[i].value
    BY DEF ItemsShow, m
  <2> HIDE DEF n
  <2>3. CASE n = m
    BY <1>2, <1>3, <2>2, <2>3 DEF n
  <2>4. CASE n # m
    BY <1>2, <2>1, <2>2, <2>4 DEF n
  <2> QED  BY <2>3, <2>4
<1>5. Len(new) = Cardinality(own)
  BY <1>2 DEF ItemsShow, m
<1> QED  BY <1>4, <1>5 DEF ItemsShow

-----------------------------------------------------------------------------
(* The steps of -i *)

\* The types as facts of their own.
LEMMA InfoTypes ==
    ASSUME InfoTyped
    PROVE  /\ Len(section) \in Nat /\ DOMAIN section = 1..Len(section)
           /\ \A i \in 1..Len(section) : section[i] \in InfoEntry
           /\ Len(records) \in Nat /\ \A k \in 1..Len(records) : records[k] \in Record
           /\ Over = Len(section) + 1
           /\ rec \in Nat /\ rec <= Len(records) /\ pos \in Nat /\ pos <= Over
           /\ \A k \in 1..rec : k \in 1..Len(records) /\ shown[k] \in Part
                                /\ shown[k].items \in Seq(Item)
<1>1. section \in Seq(InfoEntry) /\ records \in Seq(Record) /\ shown \in Seq(Part) /\ Len(shown) = rec
  BY DEF InfoTyped
<1>2. /\ Len(section) \in Nat /\ DOMAIN section = 1..Len(section)
      /\ \A i \in 1..Len(section) : section[i] \in InfoEntry
  BY <1>1
<1>3. Len(records) \in Nat /\ \A k \in 1..Len(records) : records[k] \in Record
  BY <1>1
<1>4. Over = Len(section) + 1
  BY DEF Over
<1>5. rec \in Nat /\ rec <= Len(records) /\ pos \in Nat /\ pos <= Over
  BY <1>2, <1>3, <1>4 DEF InfoTyped
<1>6. ASSUME NEW k \in 1..rec PROVE k \in 1..Len(records) /\ shown[k] \in Part /\ shown[k].items \in Seq(Item)
  <2>1. shown[k] \in Part
    BY <1>1
  <2> QED  BY <1>3, <1>5, <2>1 DEF Part
<1> QED  BY <1>2, <1>3, <1>4, <1>5, <1>6

\* The section stays, and with it where the tags are.
LEMMA SectionStays ==
    ASSUME section' = section
    PROVE  /\ Entries' = Entries /\ Over' = Over
           /\ \A tag : Apart(tag)' <=> Apart(tag)
           /\ \A tag, n : PlacesTo(tag, n)' = PlacesTo(tag, n)
<1>1. Entries' = Entries
  BY DEF Entries
<1>2. \A tag : Places(tag)' = Places(tag)
  BY <1>1 DEF Places
<1>3. \A tag, n : PlacesTo(tag, n)' = PlacesTo(tag, n)
  BY <1>2 DEF PlacesTo
<1>4. \A tag : Apart(tag)' <=> Apart(tag)
  BY <1>1 DEF Apart
<1> QED  BY <1>1, <1>3, <1>4 DEF Over

\* Only the items of one record change.
LEMMA ItemsChange ==
    ASSUME shown \in Seq(Part), NEW r \in 1..Len(shown), NEW items \in Seq(Item),
           shown' = [shown EXCEPT ![r].items = items]
    PROVE  /\ shown' \in Seq(Part) /\ Len(shown') = Len(shown)
           /\ \A k \in 1..Len(shown) : shown'[k].name = shown[k].name
           /\ \A k \in 1..Len(shown) : k # r => shown'[k] = shown[k]
           /\ shown'[r].items = items
<1> DEFINE one == [shown[r] EXCEPT !.items = items]
<1>1. shown[r] \in Part
  OBVIOUS
<1>2. one \in Part /\ one.name = shown[r].name /\ one.items = items
  BY <1>1 DEF Part
<1>3. shown' = [shown EXCEPT ![r] = one]
  OBVIOUS
<1> HIDE DEF one
<1>4. shown' \in Seq(Part) /\ Len(shown') = Len(shown)
  <2>1. PICK S : S = Part
    OBVIOUS
  <2>2. PICK e \in S : e = one
    BY <1>2, <2>1
  <2>3. shown \in Seq(S) /\ shown' = [shown EXCEPT ![r] = e]
    BY <1>3, <2>1, <2>2
  <2>4. [shown EXCEPT ![r] = e] \in Seq(S) /\ Len([shown EXCEPT ![r] = e]) = Len(shown)
    BY <2>3, ExceptSeq
  <2> QED  BY <2>1, <2>3, <2>4
<1>5. shown'[r] = one /\ \A k \in 1..Len(shown) : k # r => shown'[k] = shown[k]
  BY <1>3
<1> QED  BY <1>2, <1>4, <1>5

\* What a record that has not changed shows stays.
LEMMA ShowsStays ==
    ASSUME InfoTyped, UNCHANGED <<section, records>>, NEW k, Shows(k),
           shown'[k].items = shown[k].items,
           Searched(k)' = Searched(k),
           (IF k = rec' THEN rest' ELSE <<>>) = (IF k = rec THEN rest ELSE <<>>)
    PROVE  Shows(k)'
<1>1. Found(k)' = Found(k)
  BY DEF Found, PlacesTo, Places, Entries
<1> QED  BY <1>1 DEF Shows

LEMMA RecordingsStay ==
    ASSUME section' = section, Recordings(records', Len(section))
    PROVE  Recordings(records, Len(section))'
<1>1. Entries' = Entries
  BY SectionStays
<1> DEFINE n == Len(section)
<1>2. \A i \in Entries \cap 1..n : \E k \in 1..Len(records') : records'[k].name = section[i].tag
  BY DEF Recordings
<1>3. /\ \A k \in 1..Len(records') :
             /\ PlacesTo(records'[k].name, n) # {}
             /\ records'[k].count >= 1
             /\ records'[k].count = 1 => \A i, j \in PlacesTo(records'[k].name, n) : i = j
      /\ \A k, l \in 1..Len(records') : k < l =>
             \A j \in PlacesTo(records'[l].name, n) : \E i \in PlacesTo(records'[k].name, n) : i < j
  BY DEF Recordings
<1>4. (\A i \in Entries \cap 1..Len(section) : \E k \in 1..Len(records) : records[k].name = section[i].tag)'
  BY <1>1, <1>2
<1>5. (\A k \in 1..Len(records) :
             /\ PlacesTo(records[k].name, Len(section)) # {}
             /\ records[k].count >= 1
             /\ records[k].count = 1 => \A i, j \in PlacesTo(records[k].name, Len(section)) : i = j)'
  BY <1>1, <1>3 DEF PlacesTo, Places
<1>6. (\A k, l \in 1..Len(records) : k < l =>
             \A j \in PlacesTo(records[l].name, Len(section)) :
                 \E i \in PlacesTo(records[k].name, Len(section)) : i < j)'
  BY <1>1, <1>3 DEF PlacesTo, Places
<1> QED  BY <1>4, <1>5, <1>6 DEF Recordings

LEMMA RecordingsKept ==
    ASSUME UNCHANGED <<section, records>>, Recordings(records, Len(section))
    PROVE  Recordings(records, Len(section))'
<1>1. records' = records /\ section' = section
  OBVIOUS
<1>2. Recordings(records', Len(section))
  BY <1>1
<1> QED  BY <1>1, <1>2, RecordingsStay

LEMMA InfoUnchanged == ASSUME InfoInv, UNCHANGED infoVars PROVE InfoInv'
<1> USE DEF infoVars
<1>1. InfoTyped'
  BY DEF InfoInv, InfoTyped, Over
<1>2. (pos # 0 => Recordings(records, Len(section)))'
  BY RecordingsKept DEF InfoInv
<1>3. (\A k \in 1..rec : Apart(records[k].name) => Shows(k))'
  <2>1. ASSUME NEW k \in 1..rec, Apart(records[k].name) PROVE Shows(k)'
    BY <2>1, ShowsStays DEF InfoInv, Searched
  <2> QED  BY <2>1, SectionStays
<1>4. Foldings'
  BY DEF InfoInv, Foldings
<1> QED  BY <1>1, <1>2, <1>3, <1>4 DEF InfoInv

LEMMA CollectInfo == ASSUME InfoInv, Collect PROVE InfoInv'
<1>1. section' = section /\ pos' = Over /\ rec' = 0 /\ rest' = <<>> /\ shown' = shown /\ Len(shown) = 0
  BY DEF Collect, InfoInv, InfoTyped
<1>2. records' = FoldLeft(Recorded, <<>>, section) /\ section \in Seq(InfoEntry)
  BY DEF Collect, InfoInv, InfoTyped
<1>3. records' \in Seq(Record)
  BY <1>2, CollectedType
<1>4. InfoTyped'
  <2>1. Len(records') \in Nat /\ Over \in Nat /\ rest' \in Text
    BY <1>1, <1>2, <1>3 DEF Over, Text
  <2> QED  BY <1>1, <1>3, <2>1, SectionStays DEF InfoInv, InfoTyped
<1>5. Recordings(records, Len(section))'
  <2>1. ASSUME NEW new, new = records' PROVE Recordings(new, Len(section))
    BY <1>2, <2>1, Collected
  <2>2. Recordings(records', Len(section))
    BY <2>1
  <2> QED  BY <1>1, <2>2, RecordingsStay
<1>6. 1..rec' = {}
  BY <1>1
<1>7. Foldings'
  BY <1>1, <1>6 DEF Foldings
<1> QED  BY <1>4, <1>5, <1>6, <1>7 DEF InfoInv

LEMMA NextRecordInfo == ASSUME InfoInv, NextRecord PROVE InfoInv'
<1> DEFINE part == [name |-> records[rec + 1].name, items |-> <<>>]
<1>1. /\ pos = Over /\ rest = <<>> /\ rec < Len(records)
      /\ rec' = rec + 1 /\ pos' = 1 /\ shown' = Append(shown, part)
      /\ section' = section /\ records' = records /\ rest' = rest
  BY DEF NextRecord
<1>2. InfoTyped /\ Foldings
  BY DEF InfoInv
<1>3. /\ Len(section) \in Nat /\ Over = Len(section) + 1
      /\ Len(records) \in Nat /\ rec \in Nat
      /\ \A k \in 1..Len(records) : records[k] \in Record
  BY <1>2, InfoTypes
<1>4. Recordings(records, Len(section))
  BY <1>1, <1>3 DEF InfoInv
<1>5. shown \in Seq(Part) /\ Len(shown) = rec /\ part \in Part /\ part.items = <<>> /\ part.name = records[rec + 1].name
  <2>1. rec + 1 \in 1..Len(records)
    BY <1>1, <1>3
  <2>2. records[rec + 1].name \in Text
    BY <1>3, <2>1 DEF Record, Text
  <2>3. <<>> \in Seq(Item)
    OBVIOUS
  <2> QED  BY <1>2, <2>2, <2>3 DEF InfoTyped, Part
<1> HIDE DEF part
<1>6. /\ shown' \in Seq(Part) /\ Len(shown') = rec + 1
      /\ \A k \in 1..rec : shown'[k] = shown[k]
      /\ shown'[rec + 1] = part
  BY <1>1, <1>5
<1>7. \A k \in 1..rec' : (k \in 1..rec /\ k # rec') \/ k = rec + 1
  BY <1>1, <1>3
<1>8. InfoTyped'
  <2>1. \A k \in 1..rec' : shown'[k].name = records'[k].name
    BY <1>1, <1>2, <1>5, <1>6, <1>7 DEF InfoTyped
  <2>2. rec' \in 0..Len(records') /\ rec' # 0 /\ pos' \in 0..Over' /\ pos' # 0
    BY <1>1, <1>3, SectionStays
  <2> QED  BY <1>1, <1>2, <1>6, <2>1, <2>2 DEF InfoTyped
<1>9. Recordings(records, Len(section))'
  BY <1>1, <1>4, RecordingsStay
<1>10. ASSUME NEW k \in 1..rec', Apart(records[k].name) PROVE Shows(k)'
  <2>1. CASE k \in 1..rec /\ k # rec'
    <3>1. Shows(k)
      BY <1>10, <2>1 DEF InfoInv
    <3>2. Searched(k)' = Searched(k)
      <4>1. k < rec'
        BY <1>1, <1>3, <2>1
      <4>2. pos - 1 = Len(section)
        BY <1>1, <1>3
      <4> QED  BY <1>1, <4>1, <4>2 DEF Searched
    <3>3. (IF k = rec' THEN rest' ELSE <<>>) = (IF k = rec THEN rest ELSE <<>>)
      BY <1>1, <2>1
    <3>4. shown'[k].items = shown[k].items
      BY <1>6, <2>1
    <3> QED  BY <1>1, <1>2, <3>1, <3>2, <3>3, <3>4, ShowsStays
  <2>2. CASE k = rec + 1
    <3>1. Found(k)' = {}
      <4>1. Searched(k)' = 0
        BY <1>1, <1>3, <2>2 DEF Searched
      <4> QED  BY <4>1 DEF Found, PlacesTo
    <3>2. shown'[k].items = <<>> /\ Len(<<>>) = 0
      BY <1>5, <1>6, <2>2
    <3>3. Cardinality({}) = 0
      BY FS_EmptySet
    <3> QED  BY <3>1, <3>2, <3>3 DEF Shows, ItemsShow
  <2> QED  BY <1>7, <2>1, <2>2
<1>11. (\A k \in 1..rec : Apart(records[k].name) => Shows(k))'
  BY <1>1, <1>10, SectionStays
<1>12. Foldings'
  <2>1. ASSUME NEW k \in 1..rec', NEW n \in 1..Len(shown'[k].items), Len(shown'[k].items[n]) > 1
        PROVE  FoldedItem(shown'[k].items[n], records'[k].count)
    <3>1. CASE k \in 1..rec /\ k # rec'
      BY <1>1, <1>2, <1>6, <2>1, <3>1 DEF Foldings
    <3>2. CASE k = rec + 1
      BY <1>5, <1>6, <2>1, <3>2
    <3> QED  BY <1>7, <3>1, <3>2
  <2> QED  BY <1>1, <2>1 DEF Foldings
<1> QED  BY <1>8, <1>9, <1>11, <1>12 DEF InfoInv

\* An entry of another tag is passed over.
LEMMA PassEntryInfo == ASSUME InfoInv, PassEntry PROVE InfoInv'
<1>1. /\ pos \in DOMAIN section /\ rest = <<>> /\ ~Matches(section[pos])
      /\ pos' = pos + 1
      /\ UNCHANGED <<section, records, rec, rest, shown>>
  BY DEF PassEntry, AtEntry
<1>2. InfoTyped /\ Foldings
  BY DEF InfoInv
<1>3. /\ Len(section) \in Nat /\ DOMAIN section = 1..Len(section) /\ Over = Len(section) + 1
      /\ rec \in Nat
  BY <1>2, InfoTypes
<1>4. pos \in 1..Len(section) /\ rec # 0
  BY <1>1, <1>2, <1>3 DEF InfoTyped
<1>5. InfoTyped'
  <2>1. pos' \in 0..Over' /\ pos' # 0
    BY <1>1, <1>3, <1>4, SectionStays
  <2> QED  BY <1>1, <1>2, <1>4, <2>1 DEF InfoTyped
<1>6. Recordings(records, Len(section))'
  BY <1>1, <1>4, RecordingsStay DEF InfoInv
<1>7. ASSUME NEW k \in 1..rec, Apart(records[k].name) PROVE Shows(k)'
  <2>1. Shows(k)
    BY <1>7 DEF InfoInv
  <2>2. CASE k # rec
    <3>1. Searched(k)' = Searched(k)
      BY <1>1, <1>3, <2>2 DEF Searched
    <3> QED  BY <1>1, <1>2, <2>1, <3>1, ShowsStays
  <2>3. CASE k = rec
    <3> DEFINE tag == records[rec].name
    <3>1. ~(section[pos].sep /\ section[pos].tag = tag)
      BY <1>1, <1>3 DEF Matches, IsPrefix
    <3>2. PlacesTo(tag, pos) = PlacesTo(tag, pos - 1)
      <4>1. PlacesTo(tag, pos) = PlacesTo(tag, pos - 1)
               \cup {i \in {pos} : section[pos].sep /\ section[pos].tag = tag}
        BY <1>2, <1>4, PlacesStep DEF InfoTyped
      <4> HIDE DEF tag
      <4> QED  BY <3>1, <4>1
    <3>3. Searched(k)' = pos /\ Searched(k) = pos - 1
      BY <1>1, <1>3, <1>4, <2>3 DEF Searched
    <3>4. Found(k)' = PlacesTo(tag, pos) /\ Found(k) = PlacesTo(tag, pos - 1)
      BY <1>1, <2>3, <3>3 DEF Found, PlacesTo, Places, Entries
    <3>5. Found(k)' = Found(k)
      BY <3>2, <3>4
    <3> QED  BY <1>1, <2>1, <3>5 DEF Shows
  <2> QED  BY <2>2, <2>3
<1>8. (\A k \in 1..rec : Apart(records[k].name) => Shows(k))'
  BY <1>1, <1>7, SectionStays
<1>9. Foldings'
  BY <1>1, <1>2 DEF Foldings
<1> QED  BY <1>5, <1>6, <1>8, <1>9 DEF InfoInv

\* Where no other tag is the beginning of that of a record, an entry that is found
\* for the record is one of its own.
LEMMA OwnEntry ==
    ASSUME InfoInv, pos \in 1..Len(section), rec # 0, Apart(records[rec].name),
           Matches(section[pos])
    PROVE  /\ Found(rec) \in SUBSET (1..(pos - 1))
           /\ PlacesTo(records[rec].name, pos) = Found(rec) \cup {pos}
<1> DEFINE tag == records[rec].name
           e == section[pos]
<1>1. /\ Len(section) \in Nat /\ DOMAIN section = 1..Len(section)
      /\ rec \in 1..Len(records) /\ pos # 0
  BY InfoTypes DEF InfoInv
<1>2. e.sep /\ IsPrefix(e.tag, tag)
  BY DEF Matches
<1>5. pos \in Entries
  BY <1>1, <1>2 DEF Entries
<1>6. ~IsStrictPrefix(e.tag, tag)
  BY <1>5 DEF Apart
<1>7. e.tag = tag
  BY <1>2, <1>6 DEF IsStrictPrefix
<1>8. PlacesTo(tag, pos) = PlacesTo(tag, pos - 1) \cup {i \in {pos} : e.sep /\ e.tag = tag}
  <2> HIDE DEF tag
  <2> QED  BY <1>1, PlacesStep DEF InfoInv, InfoTyped
<1>9. Found(rec) = PlacesTo(tag, pos - 1)
  BY <1>1 DEF Found, Searched
<1>10. Found(rec) \in SUBSET (1..(pos - 1))
  BY <1>9 DEF PlacesTo
<1>11. PlacesTo(tag, pos) = Found(rec) \cup {pos}
  <2> HIDE DEF tag, e
  <2> QED  BY <1>2, <1>7, <1>8, <1>9
<1> QED  BY <1>10, <1>11

\* A value begins to be shown: on one line, or folded.  The search ends with
\* the one value of a scalar.
LEMMA ShowInfo ==
    ASSUME InfoInv, AtEntry, Matches(section[pos]),
           NEW item \in Item, NEW left, left = rest',
           \/ item = <<section[pos].value>> /\ left = <<>>
           \/ item = <<>> /\ left = section[pos].value,
           Show(item), pos' = pos + 1 \/ (~Array /\ pos' = Over),
           UNCHANGED <<section, records, rec>>
    PROVE  InfoInv'
<1> DEFINE e == section[pos]
           items == shown[rec].items
<1>1. InfoTyped /\ Foldings /\ rest = <<>> /\ pos \in DOMAIN section
  BY DEF InfoInv, AtEntry
<1>2. /\ Len(section) \in Nat /\ DOMAIN section = 1..Len(section) /\ Over = Len(section) + 1
      /\ rec \in Nat
      /\ \A k \in 1..rec : k \in 1..Len(records) /\ shown[k].items \in Seq(Item)
      /\ \A i \in 1..Len(section) : section[i] \in InfoEntry
      /\ \A k \in 1..Len(records) : records[k] \in Record
  BY <1>1, InfoTypes
<1>3. pos \in 1..Len(section) /\ rec # 0 /\ rec \in 1..rec /\ rec \in 1..Len(shown)
  BY <1>1, <1>2 DEF InfoTyped
<1>4. e.value \in Text /\ left \in Text /\ <<>> \in Item
  <2>1. e \in InfoEntry
    BY <1>2, <1>3
  <2>2. e.value \in Text
    BY <2>1 DEF InfoEntry, Text
  <2>3. <<>> \in Text /\ <<>> \in Item
    BY DEF Text, Item
  <2> QED  BY <2>2, <2>3
<1>5. /\ items \in Seq(Item) /\ Append(items, item) \in Seq(Item)
      /\ Len(Append(items, item)) = Len(items) + 1 /\ Len(items) \in Nat
      /\ \A n \in 1..Len(items) : Append(items, item)[n] = items[n]
      /\ Append(items, item)[Len(items) + 1] = item
  BY <1>2, <1>3
<1>6. /\ shown' \in Seq(Part) /\ Len(shown') = Len(shown)
      /\ \A k \in 1..Len(shown) : shown'[k].name = shown[k].name
      /\ \A k \in 1..Len(shown) : k # rec => shown'[k] = shown[k]
      /\ shown'[rec].items = Append(items, item)
  <2>1. shown' = [shown EXCEPT ![rec].items = Append(items, item)]
    BY DEF Show
  <2>2. shown \in Seq(Part)
    BY <1>1 DEF InfoTyped
  <2> HIDE DEF items
  <2> QED  BY <1>3, <1>5, <2>1, <2>2, ItemsChange
<1>7. InfoTyped'
  <2>1. pos' \in 0..Over' /\ pos' # 0
    BY <1>2, <1>3, SectionStays
  <2>2. Len(shown) = rec
    BY <1>1 DEF InfoTyped
  <2> QED  BY <1>1, <1>3, <1>4, <1>6, <2>1, <2>2 DEF InfoTyped
<1>8. Recordings(records, Len(section))
  BY <1>3 DEF InfoInv
<1>9. Recordings(records, Len(section))'
  BY <1>8, RecordingsStay
<1>10. ASSUME NEW k \in 1..rec, Apart(records[k].name) PROVE Shows(k)'
  <2>1. Shows(k) /\ k \in 1..Len(shown)
    BY <1>1, <1>10 DEF InfoInv, InfoTyped
  <2>2. CASE k # rec
    <3>1. Searched(k)' = Searched(k)
      BY <1>2, <2>2 DEF Searched
    <3> QED  BY <1>1, <1>6, <2>1, <2>2, <3>1, ShowsStays
  <2>3. CASE k = rec
    <3> DEFINE tag == records[rec].name
    <3>1. /\ Found(rec) \in SUBSET (1..(pos - 1))
          /\ PlacesTo(tag, pos) = Found(rec) \cup {pos}
      BY <1>3, <1>10, <2>3, OwnEntry
    <3>2. PlacesTo(tag, Searched(rec)') = PlacesTo(tag, pos)
      <4>1. CASE pos' = pos + 1
        <5>1. Searched(rec)' = pos
          <6>1. rec' = rec /\ ~(rec < rec) /\ (pos + 1) - 1 = pos
            BY <1>2, <1>3
          <6> QED  BY <4>1, <6>1 DEF Searched
        <5> QED  BY <5>1
      <4>2. CASE ~Array /\ pos' = Over
        <5>1. Searched(rec)' = Len(section)
          BY <1>2, <4>2 DEF Searched
        <5>2. records[rec].count = 1
          <6>1. records[rec].count >= 1 /\ records[rec].count \in Nat
            BY <1>2, <1>3, <1>8 DEF Recordings, Record
          <6> QED  BY <4>2, <6>1 DEF Array
        <5>3. \A i, j \in PlacesTo(tag, Len(section)) : i = j
          BY <1>2, <1>3, <1>8, <5>2 DEF Recordings
        <5>4. pos \in PlacesTo(tag, pos)
          BY <3>1
        <5>5. PlacesTo(tag, pos) \subseteq PlacesTo(tag, Len(section))
          BY <1>2, <1>3 DEF PlacesTo
        <5>6. PlacesTo(tag, pos) = PlacesTo(tag, Len(section))
          BY <5>3, <5>4, <5>5
        <5> QED  BY <5>1, <5>6
      <4> QED  BY <4>1, <4>2
    <3>3. Found(rec)' = PlacesTo(tag, Searched(rec)')
      BY DEF Found, PlacesTo, Places, Entries
    <3>4. ItemsShow(section, items, Found(rec), <<>>)
      BY <1>1, <2>1, <2>3 DEF Shows
    <3>5. FlattenSeq(item) \o left = section[pos].value
      <4>1. CASE item = <<e.value>> /\ left = <<>>
        <5>1. FlattenSeq(<<>>) = <<>>
          BY DEF FlattenSeq
        <5>2. item = Append(<<>>, e.value)
          BY <4>1
        <5>3. FlattenSeq(Append(<<>>, e.value)) = FlattenSeq(<<>>) \o e.value
          <6> HIDE DEF e
          <6> QED  BY <1>4, FlattenAppend
        <5>4. FlattenSeq(item) = e.value
          <6>1. <<>> \o e.value = e.value
            BY <1>4 DEF Text
          <6> QED  BY <5>1, <5>2, <5>3, <6>1
        <5> QED  BY <1>4, <4>1, <5>4 DEF Text
      <4>2. CASE item = <<>> /\ left = e.value
        <5>1. FlattenSeq(item) = <<>>
          BY <4>2 DEF FlattenSeq
        <5> QED  BY <1>4, <4>2, <5>1 DEF Text
      <4> QED  BY <4>1, <4>2
    <3>6. ItemsShow(section, Append(items, item), Found(rec) \cup {pos}, left)
      <4>1. pos \in Nat \ {0}
        BY <1>2, <1>3
      <4> HIDE DEF items
      <4> QED  BY <1>5, <3>1, <3>4, <3>5, <4>1, ItemsShowMore
    <3>7. Found(rec)' = Found(rec) \cup {pos}
      BY <3>1, <3>2, <3>3
    <3> QED  BY <1>6, <2>3, <3>6, <3>7 DEF Shows
  <2> QED  BY <2>2, <2>3
<1>11. (\A k \in 1..rec : Apart(records[k].name) => Shows(k))'
  BY <1>10, SectionStays
<1>12. Foldings'
  <2>1. ASSUME NEW k \in 1..rec, NEW n \in 1..Len(shown'[k].items), Len(shown'[k].items[n]) > 1
        PROVE  FoldedItem(shown'[k].items[n], records[k].count)
    <3>1. CASE k # rec
      BY <1>1, <1>6, <2>1, <3>1 DEF Foldings, InfoTyped
    <3>2. CASE k = rec /\ n # Len(items) + 1
      <4>1. n \in 1..Len(items) /\ shown'[k].items[n] = items[n]
        BY <1>5, <1>6, <3>2
      <4> QED  BY <1>1, <2>1, <3>2, <4>1 DEF Foldings
    <3>3. CASE k = rec /\ n = Len(items) + 1
      <4>1. shown'[k].items[n] = item
        BY <1>5, <1>6, <3>3
      <4>2. Len(item) \in {0, 1}
        OBVIOUS
      <4>3. Len(item) > 1
        BY <2>1, <4>1, Zenon
      <4>4. \A c \in {0, 1} : ~(c > 1)
        OBVIOUS
      <4> QED  BY <4>2, <4>3, <4>4, Zenon
    <3> QED  BY <3>1, <3>2, <3>3
  <2>2. ASSUME left # <<>>
        PROVE  LET new == shown'[rec].items
               IN  Len(new) > 0 /\ FoldedItem(new[Len(new)], records[rec].count)
    <3>1. item = <<>>
      BY <2>2
    <3>2. FoldedItem(item, records[rec].count)
      BY <3>1 DEF FoldedItem
    <3> HIDE DEF items
    <3> QED  BY <1>5, <1>6, <3>2
  <2> QED  BY <2>1, <2>2 DEF Foldings
<1> QED  BY <1>7, <1>9, <1>11, <1>12 DEF InfoInv

LEMMA ShowLineInfo == ASSUME InfoInv, ShowLine PROVE InfoInv'
<1> DEFINE value == section[pos].value
<1>1. /\ AtEntry /\ Matches(section[pos]) /\ Show(<<value>>)
      /\ pos' = (IF Array THEN pos + 1 ELSE Over)
      /\ UNCHANGED <<section, records, rec, rest>>
  BY DEF ShowLine
<1>2. value \in Text
  <2>1. section[pos] \in InfoEntry
    BY <1>1 DEF AtEntry, InfoInv, InfoTyped
  <2> QED  BY <2>1 DEF InfoEntry, Text
<1>3. <<value>> \in Item
  BY <1>2 DEF Item
<1>4. rest' = <<>>
  BY <1>1 DEF AtEntry
<1> QED  BY <1>1, <1>3, <1>4, ShowInfo

LEMMA BeginFoldInfo == ASSUME InfoInv, BeginFold PROVE InfoInv'
<1>1. /\ AtEntry /\ Matches(section[pos]) /\ Show(<<>>)
      /\ rest' = section[pos].value /\ pos' = pos + 1
      /\ UNCHANGED <<section, records, rec>>
  BY DEF BeginFold
<1>2. <<>> \in Item
  BY DEF Item
<1> QED  BY <1>1, <1>2, ShowInfo

\* The next line of a folded value.
LEMMA FoldLineInfo == ASSUME InfoInv, FoldLine PROVE InfoInv'
<1> DEFINE n == LineEnd(rest, Width)
           items == shown[rec].items
           m == Len(items)
           line == SubSeq(rest, 1, n)
           left == SubSeq(rest, n + 1, Len(rest))
           new == [items EXCEPT ![m] = Append(@, line)]
<1>1. /\ rest # <<>> /\ rest' = left
      /\ shown' = [shown EXCEPT ![rec].items[m] = Append(@, line)]
      /\ UNCHANGED <<section, records, rec, pos>>
  BY DEF FoldLine
<1>2. InfoTyped /\ Foldings /\ rest \in Text
  BY DEF InfoInv, InfoTyped
<1>3. /\ Len(section) \in Nat /\ Over = Len(section) + 1
      /\ rec \in Nat /\ pos \in Nat /\ pos <= Over
      /\ \A k \in 1..rec : k \in 1..Len(records) /\ shown[k].items \in Seq(Item)
      /\ \A k \in 1..Len(records) : records[k] \in Record
  BY <1>2, InfoTypes
<1>4. rec # 0 /\ rec \in 1..rec /\ rec \in 1..Len(shown) /\ pos # 0
  BY <1>1, <1>2, <1>3 DEF InfoTyped
<1>5. Width \in Nat \ {0} /\ Width = LineLen - IF records[rec].count > 1 THEN 6 ELSE 4
  BY TapInfoAssumption DEF Width, Array
<1>6. n \in 1..Len(rest) /\ Folded(line, Width)
  BY <1>1, <1>2, <1>5, LineEnds
<1>7. items \in Seq(Item) /\ m > 0 /\ FoldedItem(items[m], records[rec].count)
  BY <1>1, <1>2, <1>3, <1>4 DEF Foldings
<1>8. line \in Text /\ left \in Text /\ line \o left = rest
  <2> HIDE DEF n
  <2>1. rest \in Seq(STRING) /\ Len(rest) \in Nat
    BY <1>2 DEF Text
  <2>2. line \o left = SubSeq(rest, 1, Len(rest))
    <3>1. 1 \in 1..Len(rest) + 1 /\ n \in 1 - 1..Len(rest) /\ Len(rest) \in n..Len(rest)
      BY <1>6, <2>1
    <3> QED  BY <2>1, <3>1, ConcatAdjacentSubSeq
  <2>3. SubSeq(rest, 1, Len(rest)) = rest
    BY <2>1
  <2>4. line \in Seq(STRING) /\ left \in Seq(STRING)
    BY <1>6, <2>1
  <2> QED  BY <2>2, <2>3, <2>4 DEF Text
<1> HIDE DEF n, line, left
<1>9. /\ m \in 1..m /\ m \in Nat /\ items[m] \in Item
      /\ new \in Seq(Item) /\ Len(new) = m
      /\ new[m] = Append(items[m], line)
      /\ \A i \in 1..m : i # m => new[i] = items[i]
  <2>1. m \in 1..m /\ m \in Nat /\ items[m] \in Item
    BY <1>7
  <2>2. Append(items[m], line) \in Item
    BY <1>8, <2>1 DEF Item
  <2>3. new = [items EXCEPT ![m] = Append(items[m], line)]
    OBVIOUS
  <2> QED  BY <1>7, <2>1, <2>2, <2>3, ExceptSeq
<1>10. /\ shown' \in Seq(Part) /\ Len(shown') = Len(shown)
       /\ \A k \in 1..Len(shown) : shown'[k].name = shown[k].name
       /\ \A k \in 1..Len(shown) : k # rec => shown'[k] = shown[k]
       /\ shown'[rec].items = new
  <2>1. shown' = [shown EXCEPT ![rec].items = new]
    BY <1>1
  <2>2. shown \in Seq(Part)
    BY <1>2 DEF InfoTyped
  <2> HIDE DEF items, m, new
  <2> QED  BY <1>4, <1>9, <2>1, <2>2, ItemsChange
<1>11. InfoTyped'
  <2>1. pos' \in 0..Over' /\ pos' # 0
    BY <1>1, <1>3, <1>4, SectionStays
  <2>2. Len(shown) = rec
    BY <1>2 DEF InfoTyped
  <2> QED  BY <1>1, <1>2, <1>4, <1>8, <1>10, <2>1, <2>2 DEF InfoTyped
<1>12. Recordings(records, Len(section))'
  BY <1>1, <1>4, RecordingsKept DEF InfoInv
<1>13. ASSUME NEW k \in 1..rec, Apart(records[k].name) PROVE Shows(k)'
  <2>1. Shows(k) /\ k \in 1..Len(shown)
    BY <1>2, <1>13 DEF InfoInv, InfoTyped
  <2>2. Searched(k)' = Searched(k)
    BY <1>1 DEF Searched
  <2>3. CASE k # rec
    BY <1>1, <1>2, <1>10, <2>1, <2>2, <2>3, ShowsStays
  <2>4. CASE k = rec
    <3>1. Found(k)' = Found(k)
      BY <1>1, <2>2 DEF Found, PlacesTo, Places, Entries
    <3>2. ItemsShow(section, items, Found(k), rest)
      BY <2>1, <2>4 DEF Shows
    <3>3. pos - 1 \in Nat /\ Found(k) \in SUBSET (1..(pos - 1))
      BY <1>3, <1>4, <2>4 DEF Found, Searched, PlacesTo
    <3>4. ItemsShow(section, new, Found(k), left)
      <4>1. \A p \in Nat : \A own \in SUBSET (1..p) :
                ItemsShow(section, items, own, rest) => ItemsShow(section, new, own, left)
        <5> HIDE DEF items
        <5> QED  BY <1>7, <1>8, ItemsShowLine DEF m
      <4> QED  BY <3>2, <3>3, <4>1
    <3> QED  BY <1>1, <1>10, <2>4, <3>1, <3>4 DEF Shows
  <2> QED  BY <2>3, <2>4
<1>14. (\A k \in 1..rec : Apart(records[k].name) => Shows(k))'
  BY <1>1, <1>13, SectionStays
<1>15. FoldedItem(new[m], records[rec].count)
  <2> DEFINE item == items[m]
  <2>1. item \in Seq(Text) /\ new[m] = Append(item, line)
    BY <1>9 DEF Item
  <2> HIDE DEF item, new, m
  <2>2. /\ Len(new[m]) = Len(item) + 1 /\ new[m][Len(item) + 1] = line
        /\ \A l \in 1..Len(item) : new[m][l] = item[l]
    BY <1>8, <2>1
  <2>3. \A l \in 1..Len(item) : Folded(item[l], Width)
    BY <1>5, <1>7 DEF FoldedItem, item
  <2>4. \A l \in 1..Len(new[m]) : l \in 1..Len(item) \/ l = Len(item) + 1
    BY <2>1, <2>2
  <2>5. \A l \in 1..Len(new[m]) : Folded(new[m][l], Width)
    BY <1>6, <2>2, <2>3, <2>4
  <2> QED  BY <1>5, <2>5 DEF FoldedItem
<1>16. Foldings'
  <2>1. ASSUME NEW k \in 1..rec, NEW i \in 1..Len(shown'[k].items), Len(shown'[k].items[i]) > 1
        PROVE  FoldedItem(shown'[k].items[i], records[k].count)
    <3>1. CASE k # rec
      BY <1>2, <1>10, <2>1, <3>1 DEF Foldings, InfoTyped
    <3>2. CASE k = rec /\ i # m
      <4>1. i \in 1..m /\ shown'[k].items[i] = items[i]
        BY <1>9, <1>10, <3>2
      <4> QED  BY <1>2, <2>1, <3>2, <4>1 DEF Foldings
    <3>3. CASE k = rec /\ i = m
      BY <1>10, <1>15, <3>3
    <3> QED  BY <3>1, <3>2, <3>3
  <2>2. LET now == shown'[rec].items
        IN  Len(now) > 0 /\ FoldedItem(now[Len(now)], records[rec].count)
    <3> HIDE DEF items, new
    <3> QED  BY <1>7, <1>9, <1>10, <1>15
  <2> QED  BY <1>1, <2>1, <2>2 DEF Foldings
<1> QED  BY <1>11, <1>12, <1>14, <1>16 DEF InfoInv

LEMMA InfoInit == ASSUME Init PROVE InfoInv
<1>1. /\ records = <<>> /\ rec = 0 /\ pos = 0 /\ rest = <<>> /\ shown = <<>>
      /\ program \in Program /\ section = program.section
  BY DEF Init, NoInfo
<1>2. section \in Seq(InfoEntry) /\ Len(section) \in Nat
  BY <1>1, Programs DEF InfoEntry
<1>3. InfoTyped
  <2>1. Len(records) = 0 /\ Over \in Nat /\ records \in Seq(Record) /\ rest \in Text /\ shown \in Seq(Part)
    BY <1>1, <1>2 DEF Over, Text
  <2> QED  BY <1>1, <1>2, <2>1 DEF InfoTyped
<1>4. 1..rec = {} /\ Foldings
  BY <1>1 DEF Foldings
<1> QED  BY <1>1, <1>3, <1>4 DEF InfoInv

\* Only -i and what follows it say something about the information.
LEMMA InfoNext == ASSUME InfoInv, [Next]_vars PROVE InfoInv'
<1>1. CASE ReadDefinition
  BY <1>1, InfoUnchanged DEF ReadDefinition
<1>2. ASSUME NEW o \in program.options,
             Help(o) \/ Information(o) \/ Verbose(o) \/ SkipRanges(o) \/ SetCount(o) \/ Override(o)
      PROVE  InfoInv'
  <2>1. CASE Information(o)
    BY <2>1, CollectInfo DEF Information
  <2>2. CASE Help(o)
    BY <2>2, InfoUnchanged DEF Help
  <2>3. CASE Verbose(o)
    BY <2>3, InfoUnchanged DEF Verbose
  <2>4. CASE SkipRanges(o)
    BY <2>4, InfoUnchanged DEF SkipRanges
  <2>5. CASE SetCount(o)
    BY <2>5, InfoUnchanged DEF SetCount
  <2>6. CASE Override(o)
    BY <2>6, InfoUnchanged DEF Override
  <2> QED  BY <1>2, <2>1, <2>2, <2>3, <2>4, <2>5, <2>6
<1>3. CASE TellInfo
  <2>1. UNCHANGED infoVars \/ InfoStep
    BY <1>3 DEF TellInfo
  <2> QED  BY <2>1, InfoUnchanged, NextRecordInfo, PassEntryInfo, ShowLineInfo,
              BeginFoldInfo, FoldLineInfo DEF InfoStep
<1>4. CASE StartRounds \/ SkipRound \/ RunRound \/ NextRound \/ Finish
  <2>1. UNCHANGED infoVars
    BY <1>4 DEF StartRounds, SkipRound, RunRound, NextRound, Finish
  <2> QED  BY <2>1, InfoUnchanged
<1>5. CASE Exited \/ UNCHANGED vars
  <2>1. UNCHANGED infoVars
    BY <1>5 DEF Exited, vars
  <2> QED  BY <2>1, InfoUnchanged
<1> QED  BY <1>1, <1>2, <1>3, <1>4, <1>5 DEF Next

LEMMA InfoSafe == Spec => []InfoInv
<1>1. Init => InfoInv
  BY InfoInit
<1>2. InfoInv /\ [Next]_vars => InfoInv'
  BY InfoNext
<1> QED  BY <1>1, <1>2, PTL DEF Spec

-----------------------------------------------------------------------------
(* The theorems *)

LEMMA ReadsBackHolds == ASSUME InfoInv PROVE InfoReadsBack
<1> SUFFICES ASSUME InfoDone
             PROVE  /\ {shown[k].name : k \in DOMAIN shown} = {section[i].tag : i \in Entries}
                    /\ \A k, l \in DOMAIN shown :
                           k < l => Min(Places(shown[k].name)) < Min(Places(shown[l].name))
                    /\ \A k \in DOMAIN shown : Apart(shown[k].name) =>
                           LET items == shown[k].items
                               own == Places(shown[k].name)
                           IN  /\ Len(items) = Cardinality(own)
                               /\ \A i \in own :
                                      FlattenSeq(items[Cardinality(own \cap 1..i)]) = section[i].value
  BY DEF InfoReadsBack
<1>1. InfoTyped /\ pos = Over /\ rest = <<>> /\ rec = Len(records)
  BY DEF InfoDone, InfoInv
<1>2. /\ Len(section) \in Nat /\ DOMAIN section = 1..Len(section) /\ Over = Len(section) + 1
      /\ rec \in Nat
      /\ \A k \in 1..rec : shown[k].items \in Seq(Item)
  BY <1>1, InfoTypes
<1>3. DOMAIN shown = 1..rec /\ \A k \in 1..rec : shown[k].name = records[k].name
  BY <1>1 DEF InfoTyped
<1>4. Recordings(records, Len(section))
  BY <1>1, <1>2 DEF InfoInv
<1>5. \A tag : PlacesTo(tag, Len(section)) = Places(tag) /\ Places(tag) \in SUBSET (1..Len(section))
  BY <1>2 DEF PlacesTo, Places, Entries
<1>6. /\ \A i \in Entries : \E k \in 1..rec : records[k].name = section[i].tag
      /\ \A k \in 1..rec : Places(records[k].name) # {}
      /\ \A k, l \in 1..rec : k < l =>
             \A j \in Places(records[l].name) : \E i \in Places(records[k].name) : i < j
  <2>1. \A i \in Entries : i \in Entries \cap 1..Len(section)
    BY <1>2 DEF Entries
  <2> DEFINE n == Len(section)
  <2>2. /\ \A i \in Entries \cap 1..n : \E k \in 1..rec : records[k].name = section[i].tag
        /\ \A k \in 1..rec : PlacesTo(records[k].name, n) # {}
        /\ \A k, l \in 1..rec : k < l =>
               \A j \in PlacesTo(records[l].name, n) : \E i \in PlacesTo(records[k].name, n) : i < j
    BY <1>1, <1>4 DEF Recordings
  <2>3. ASSUME NEW k \in 1..rec, NEW l \in 1..rec, k < l, NEW j \in Places(records[l].name)
        PROVE  \E i \in Places(records[k].name) : i < j
    <3>1. PlacesTo(records[k].name, n) = Places(records[k].name) /\ j \in PlacesTo(records[l].name, n)
      BY <1>5
    <3>2. \E i \in PlacesTo(records[k].name, n) : i < j
      BY <2>2, <2>3, <3>1
    <3> QED  BY <3>1, <3>2
  <2>4. \A k \in 1..rec : Places(records[k].name) # {}
    BY <1>5, <2>2
  <2>5. \A i \in Entries : \E k \in 1..rec : records[k].name = section[i].tag
    BY <2>1, <2>2
  <2> QED  BY <2>3, <2>4, <2>5
<1>7. {shown[k].name : k \in DOMAIN shown} = {section[i].tag : i \in Entries}
  <2>1. ASSUME NEW k \in 1..rec PROVE \E i \in Entries : section[i].tag = shown[k].name
    BY <1>3, <1>6 DEF Places
  <2>2. ASSUME NEW i \in Entries PROVE \E k \in 1..rec : section[i].tag = shown[k].name
    BY <1>3, <1>6
  <2> QED  BY <1>3, <2>1, <2>2
<1>8. ASSUME NEW k \in 1..rec, NEW l \in 1..rec, k < l
      PROVE  Min(Places(shown[k].name)) < Min(Places(shown[l].name))
  <2> DEFINE P == Places(records[k].name)
             Q == Places(records[l].name)
  <2>1. P \in SUBSET Nat /\ Q \in SUBSET Nat /\ P # {} /\ Q # {}
    <3>1. 1..Len(section) \subseteq Nat
      BY <1>2
    <3> QED  BY <1>5, <1>6, <3>1
  <2>2. \A j \in Q : \E i \in P : i < j
    BY <1>6, <1>8
  <2> HIDE DEF P, Q
  <2>3. /\ Min(P) \in P /\ \A i \in P : Min(P) <= i
        /\ Min(Q) \in Q
    BY <2>1, MinFirst
  <2>4. PICK i \in P : i < Min(Q)
    BY <2>2, <2>3
  <2>5. Min(P) <= i /\ i \in Nat /\ Min(P) \in Nat /\ Min(Q) \in Nat
    BY <2>1, <2>3
  <2>6. Min(P) < Min(Q)
    BY <2>4, <2>5
  <2> QED  BY <1>3, <2>6 DEF P, Q
<1>9. ASSUME NEW k \in 1..rec, Apart(shown[k].name)
      PROVE  LET items == shown[k].items
                 own == Places(shown[k].name)
             IN  /\ Len(items) = Cardinality(own)
                 /\ \A i \in own :
                        FlattenSeq(items[Cardinality(own \cap 1..i)]) = section[i].value
  <2> DEFINE items == shown[k].items
             own == Places(shown[k].name)
  <2>1. Found(k) = own
    <3>1. Searched(k) = Len(section)
      BY <1>1, <1>2 DEF Searched
    <3> QED  BY <1>3, <1>5, <3>1 DEF Found
  <2>2. ItemsShow(section, items, own, <<>>)
    <3>1. Shows(k)
      BY <1>3, <1>9 DEF InfoInv
    <3> HIDE DEF items, own
    <3> QED  BY <1>1, <2>1, <3>1 DEF Shows, items
  <2>3. own \in SUBSET (1..Len(section)) /\ items \in Seq(Item)
    BY <1>2, <1>5
  <2> HIDE DEF items, own
  <2>4. Len(items) = Cardinality(own)
    BY <2>2 DEF ItemsShow
  <2>5. ASSUME NEW i \in own PROVE FlattenSeq(items[Cardinality(own \cap 1..i)]) = section[i].value
    <3> DEFINE n == Cardinality(own \cap 1..i)
    <3>1. FlattenSeq(items[n]) \o (IF n = Len(items) THEN <<>> ELSE <<>>) = section[i].value
      BY <2>2 DEF ItemsShow
    <3>2. n \in 1..Len(items)
      BY <1>2, <2>3, <2>4, Ranks
    <3> HIDE DEF n
    <3>3. items[n] \in Item
      BY <2>3, <3>2
    <3>4. FlattenSeq(items[n]) \in Seq(STRING)
      BY <3>3, FlattenType DEF Text
    <3>5. FlattenSeq(items[n]) \o <<>> = FlattenSeq(items[n])
      BY <3>4
    <3>6. FlattenSeq(items[n]) = section[i].value
      BY <3>1, <3>5
    <3> QED  BY <3>6 DEF n
  <2> QED  BY <2>4, <2>5 DEF items, own
<1> QED  BY <1>3, <1>7, <1>8, <1>9

\* -i is complete: tap_print_info() shows every tag of the section once, in the
\* order of first appearance, with all its values in order and unabridged.
THEOREM ShowsTheInformation == Spec => []InfoReadsBack
<1>1. InfoInv => InfoReadsBack
  BY ReadsBackHolds
<1> QED  BY <1>1, InfoSafe, PTL

\* A long value is folded well: tap_print_multiline() prints lines that have
\* something on them and, but for single long words, fit.
THEOREM FoldsWell == Spec => []LinesFold
<1>1. InfoInv => LinesFold
  <2> SUFFICES ASSUME InfoInv, NEW k \in DOMAIN shown, NEW i \in DOMAIN shown[k].items,
                      Len(shown[k].items[i]) > 1, NEW l \in DOMAIN shown[k].items[i]
               PROVE  LET item == shown[k].items[i]
                          width == LineLen - IF records[k].count > 1 THEN 6 ELSE 4
                      IN  /\ item[l] # <<>>
                          /\ \/ Len(item[l]) <= width
                                   /\ ~Contains(Front(item[l]), Newline)
                             \/ Len(item[l]) > width /\ ~Contains(item[l], Blank)
    BY DEF LinesFold
  <2>1. InfoTyped /\ Foldings
    BY DEF InfoInv
  <2>2. k \in 1..rec
    BY <2>1 DEF InfoTyped
  <2>3. shown[k].items \in Seq(Item)
    BY <2>1, <2>2, InfoTypes
  <2>4. i \in 1..Len(shown[k].items) /\ shown[k].items[i] \in Item
    BY <2>3
  <2>5. l \in 1..Len(shown[k].items[i])
    BY <2>4 DEF Item
  <2>6. FoldedItem(shown[k].items[i], records[k].count)
    BY <2>1, <2>2, <2>4 DEF Foldings
  <2> QED  BY <2>5, <2>6 DEF FoldedItem, Folded
<1> QED  BY <1>1, InfoSafe, PTL
=============================================================================
