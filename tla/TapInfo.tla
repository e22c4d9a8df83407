------------------------------ MODULE TapInfo ------------------------------
(***************************************************************************)
(* The information about a test case (option -i, src/src/tap_main.c).      *)
(* Every TAP_INFO(tag, info) leaves an entry "tag=info" in the section     *)
(* __tap_info; padding between them has no "=".  tap_print_info() makes a  *)
(* record of every tag with the number of its entries, and                 *)
(* tap_print_record() looks through the section for the entries of one     *)
(* record, which it shows as a scalar or as an array.  A value is shown on *)
(* one line, or folded into several if it is long or has several itself.   *)
(* Texts are sequences of characters; only the blank and the newline       *)
(* matter.                                                                 *)
(***************************************************************************)
EXTENDS Integers, Sequences, FiniteSets, SequencesExt, FiniteSetsExt

CONSTANT LineLen      \* LINE_LEN

ASSUME TapInfoAssumption == LineLen \in Nat /\ LineLen > 6

VARIABLES
    section,   \* the entries of the section, in order
    records,   \* the records, in the order in which their tags appear
    rec,       \* the record that is printed
    pos,       \* the entry that tap_print_record() looks at; 0 before all
    rest,      \* what is still to be printed of a folded value
    shown      \* what was printed: a name and its items, which are lines

infoVars == <<section, records, rec, pos, rest, shown>>

Blank == " "
Newline == "\n"

\* An entry with the text tag=info.
TAP_INFO(tag, info) == [tag |-> tag, value |-> info, sep |-> TRUE]

NoInfo == records = <<>> /\ rec = 0 /\ pos = 0 /\ rest = <<>> /\ shown = <<>>

-----------------------------------------------------------------------------
(* tap_print_info() *)

\* The records with one more entry.
Recorded(recs, e) ==
    LET i == SelectInSeq(recs, LAMBDA r : r.name = e.tag)
    IN  IF ~e.sep THEN recs
        ELSE IF i = 0 THEN Append(recs, [name |-> e.tag, count |-> 1])
        ELSE [recs EXCEPT ![i].count = @ + 1]

Over == Len(section) + 1

Collect ==
    /\ pos = 0
    /\ records' = FoldLeft(Recorded, <<>>, section)
    /\ pos' = Over
    /\ UNCHANGED <<section, rec, rest, shown>>

NextRecord ==
    /\ pos = Over /\ rest = <<>>
    /\ rec < Len(records)
    /\ rec' = rec + 1
    /\ pos' = 1
    /\ shown' = Append(shown, [name |-> records[rec'].name, items |-> <<>>])
    /\ UNCHANGED <<section, records, rest>>

InfoDone == pos = Over /\ rest = <<>> /\ rec = Len(records)

-----------------------------------------------------------------------------
(* tap_print_record() *)

\* A tag with several entries.
Array == records[rec].count > 1
LongestName == Max({Len(records[i].name) : i \in DOMAIN records})

\* Mutation: as many characters are compared as the name of the record has.
Matches_Longer(e) == e.sep /\ IsPrefix(records[rec].name, e.tag)

\* strncmp(record->name, chr, len): every tag that begins the name will do.
Matches(e) == e.sep /\ IsPrefix(e.tag, records[rec].name)

\* A negative room for a scalar is a large one: it is compared as unsigned.
Fits(value) ==
    /\ ~Contains(value, Newline)
    /\ LET room == IF Array THEN LineLen - 6 ELSE LineLen - LongestName - 2
       IN  room < 0 \/ Len(value) < room

AtEntry == pos \in DOMAIN section /\ rest = <<>>
Show(item) == shown' = [shown EXCEPT ![rec].items = Append(@, item)]

PassEntry ==
    /\ AtEntry
    /\ ~Matches(section[pos])
    /\ pos' = pos + 1
    /\ UNCHANGED <<section, records, rec, rest, shown>>

\* A scalar on one line is the last thing shown of its record.
ShowLine ==
    /\ AtEntry
    /\ LET e == section[pos] IN Matches(e) /\ Fits(e.value) /\ Show(<<e.value>>)
    /\ pos' = IF Array THEN pos + 1 ELSE Over
    /\ UNCHANGED <<section, records, rec, rest>>

BeginFold ==
    /\ AtEntry
    /\ LET e == section[pos] IN Matches(e) /\ ~Fits(e.value) /\ rest' = e.value
    /\ Show(<<>>)
    /\ pos' = pos + 1
    /\ UNCHANGED <<section, records, rec>>

Width == LineLen - IF Array THEN 6 ELSE 4

\* Mutation: newlines are words like any other.
LineEnd_Words(text, width) ==
    LET blanks == {i \in DOMAIN text : text[i] = Blank /\ i <= width}
    IN  IF Len(text) <= width \/ blanks = {} THEN Len(text) ELSE Max(blanks)

\* How much of a text goes on the next line: up to a newline, all of it, as
\* many words as fit, or one word that does not.
LineEnd(text, width) ==
    LET newline == SelectInSeq(text, LAMBDA c : c = Newline)
        blanks == {i \in DOMAIN text : text[i] = Blank}
        fitting == {i \in blanks : i <= width}
    IN  IF newline \in 1..width THEN newline
        ELSE IF Len(text) <= width THEN Len(text)
        ELSE IF fitting # {} THEN Max(fitting)
        ELSE IF blanks # {} THEN Min(blanks) - 1
        ELSE Len(text)

FoldLine ==
    /\ rest # <<>>
    /\ LET n == LineEnd(rest, Width)
           items == shown[rec].items
       IN  /\ shown' = [shown EXCEPT ![rec].items[Len(items)] = Append(@, SubSeq(rest, 1, n))]
           /\ rest' = SubSeq(rest, n + 1, Len(rest))
    /\ UNCHANGED <<section, records, rec, pos>>

\* The rest of tap_print_info(), after Collect.
InfoStep == NextRecord \/ PassEntry \/ ShowLine \/ BeginFold \/ FoldLine

-----------------------------------------------------------------------------
(* Properties *)

Entries == {i \in DOMAIN section : section[i].sep}

\* No other tag is the beginning of this one.
Apart(tag) == \A i \in Entries : ~IsStrictPrefix(section[i].tag, tag)

\* Where a tag appears.
Places(tag) == {i \in Entries : section[i].tag = tag}

\* Whoever reads the output of -i gets back what TAP_INFO() put in: every tag
\* once, in the order of first appearance, with all its values in order and
\* unabridged, folded or not.  The exception are the values of a tag that begins
\* with another one: those of "author" are also found for "author_mail", but
\* never the other way round.
InfoReadsBack ==
    InfoDone =>
        /\ {shown[k].name : k \in DOMAIN shown} = {section[i].tag : i \in Entries}
        /\ \A k, l \in DOMAIN shown :
               k < l => Min(Places(shown[k].name)) < Min(Places(shown[l].name))
        /\ \A k \in DOMAIN shown : Apart(shown[k].name) =>
               LET items == shown[k].items
                   own == Places(shown[k].name)
               IN  /\ Len(items) = Cardinality(own)
                   /\ \A i \in own :
                          FlattenSeq(items[Cardinality(own \cap 1..i)]) = section[i].value

\* Every line of a folded value has something on it, so that folding ends, and
\* fits on a line with a newline at most at its end; only one word that is
\* longer than a line ("FIXME" at tap_main.c:129) runs over, and takes the
\* newlines in it along.
LinesFold ==
    \A k \in DOMAIN shown : \A i \in DOMAIN shown[k].items :
        LET item == shown[k].items[i]
            width == LineLen - IF records[k].count > 1 THEN 6 ELSE 4
        IN  Len(item) > 1 => \A l \in DOMAIN item :
                /\ item[l] # <<>>
                /\ \/ Len(item[l]) <= width
                         /\ ~Contains(Front(item[l]), Newline)
                   \/ Len(item[l]) > width /\ ~Contains(item[l], Blank)
=============================================================================
