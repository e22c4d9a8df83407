----------------------------- MODULE ParamsDef -----------------------------
(***************************************************************************)
(* The parameters of a test program (src/src/tap_params.c).  The macro     *)
(* TAP_PARAMS_DEFINITION makes a struct of its arguments and keeps them as *)
(* a string, from which tap_params_init() finds the names and types of the *)
(* parameters; TAP_PARAMS_VALUES_ARRAY keeps the initialisers as a string, *)
(* in which option -v looks up what to show.  A text is a sequence of      *)
(* words, punctuation and single blanks, as the preprocessor leaves them;  *)
(* a name or a type is such a sequence too.                                *)
(***************************************************************************)
EXTENDS Integers, Sequences, SequencesExt

VARIABLES
    def,       \* tap_params_def
    tokens,    \* parsed: what strsep() has left of the squeezed definition
    parsing,   \* "init", "members", "done" or "crashed"
    params     \* tap_param_list: names and types

defVars == <<def, tokens, parsing, params>>

\* The text of a struct from the texts of its members.
TAP_PARAMS_DEFINITION(members) == FlattenSeq(members)

\* The text of one round in TAP_PARAMS_VALUES_ARRAY.
TAP_PARAMS_VALUES(inits) == <<"TAP_PARAMS_VALUES", "(">> \o inits \o <<")">>

NoParams == tokens = <<>> /\ parsing = "init" /\ params = <<>>

-----------------------------------------------------------------------------
(* tap_params_init() *)

\* Mutation: what stands in braces stays.
Nested_Never(s) == FALSE

Nested(s) == s.depth > 0

\* A blank is kept unless it follows a blank or a semicolon.
SqueezeBlank(s) ==
    IF Nested(s) \/ s.blank THEN s ELSE [s EXCEPT !.out = Append(@, " "), !.blank = TRUE]

Squeeze(s, c) ==
    CASE c = "{" -> [s EXCEPT !.depth = @ + 1]
      [] c = "}" -> SqueezeBlank([s EXCEPT !.depth = @ - 1])
      [] c = " " -> SqueezeBlank(s)
      [] c = ";" /\ ~Nested(s) ->
             [s EXCEPT !.out = Append(IF s.blank THEN Front(@) ELSE @, c), !.blank = TRUE]
      [] OTHER -> IF Nested(s) THEN s ELSE [s EXCEPT !.out = Append(@, c), !.blank = FALSE]

\* The definition without nested parts and superfluous blanks.
RemoveNested ==
    /\ parsing = "init"
    /\ tokens' = FoldLeft(Squeeze, [out |-> <<>>, depth |-> 0, blank |-> TRUE], def).out
    /\ parsing' = "members"
    /\ UNCHANGED <<def, params>>

FirstOf(s, c) == SelectInSeq(s, LAMBDA x : x = c)
LastOf(s, c) == SelectLastInSeq(s, LAMBDA x : x = c)

\* A declaration without its last dimension.
Undimensioned(decl) ==
    LET i == LastOf(decl, "[")
    IN  IF i = 0 THEN decl ELSE SubSeq(decl, 1, IF decl[i-1] = " " THEN i - 2 ELSE i - 1)

\* Mutation: the stars stay with the name.
Stars_None(s) == 0

\* How many stars a name begins with.
Stars(s) == SelectInSeq(s, LAMBDA x : x # "*") - 1

\* The last blank separates type and name; the stars go to the type.
Entry(decl) ==
    LET bare == Undimensioned(decl)
        blank == LastOf(bare, " ")
        name == SubSeq(bare, blank + 1, Len(bare))
        stars == Stars(name)
    IN  [name |-> SubSeq(name, stars + 1, Len(name)),
         type |-> SubSeq(bare, 1, blank - 1) \o SubSeq(name, 1, stars)
                  \o (IF bare = decl THEN <<>> ELSE <<"[", "]">>)]

Added(e) == IF e.name = <<"_tap_skip">> THEN params ELSE Append(params, e)

\* The next declaration; one without any blank is a null pointer to rindex().
NextMember ==
    LET i == FirstOf(Append(tokens, ";"), ";")
        decl == SubSeq(tokens, 1, i - 1)
    IN  /\ parsing = "members"
        /\ tokens # <<>>
        /\ tokens' = SubSeq(tokens, i + 1, Len(tokens))
        /\ IF decl = <<>> THEN UNCHANGED <<parsing, params>>
           ELSE IF ~Contains(Undimensioned(decl), " ")
           THEN parsing' = "crashed" /\ UNCHANGED params
           ELSE params' = Added(Entry(decl)) /\ UNCHANGED parsing
        /\ UNCHANGED def

\* Nothing is left.
LastMember ==
    /\ parsing = "members"
    /\ tokens = <<>>
    /\ parsing' = "done"
    /\ UNCHANGED <<def, tokens, params>>

Parse == RemoveNested \/ NextMember \/ LastMember

-----------------------------------------------------------------------------
(* Types *)

\* The table of the types that -p can convert.
Numbers == { <<"unsigned", " ", "int">>, <<"int">>, <<"unsigned", " ", "long">>,
             <<"long">>, <<"unsigned", " ", "long", " ", "long">>,
             <<"long", " ", "long">>, <<"char">> }

Strings == { <<"const", " ", "char", "*">>, <<"const", " ", "char", " ", "*">>,
             <<"char", "*">>, <<"char", " ", "*">> }

Class(type) ==
    IF type \in Numbers THEN "number" ELSE IF type \in Strings THEN "string" ELSE "other"

-----------------------------------------------------------------------------
(* tap_params_dump_val(): the initialiser of a parameter, for option -v *)

\* Mutation: the quotes of a string are not looked at.
StringEnd_None(text, i) == i

\* tc_skip_string(): the next quote that does not follow a backslash.  Without
\* one the code reads on behind the text; here it ends.
StringEnd(text, i) ==
    LET ends == {j \in i+1..Len(text) : text[j] = "\"" /\ text[j-1] # "\\"}
    IN  IF ends = {} THEN Len(text) ELSE CHOOSE j \in ends : \A k \in ends : j <= k

\* From i on, where the initialiser found so far starts (0 before) and in how
\* many braces i is: where the initialiser starts and what follows it.
Scan(text, name) ==
    LET Names(i) == i < Len(text) /\ text[i] = "." /\ <<text[i+1]>> = name
        scan[i \in 1..Len(text)+1, start \in 0..Len(text), depth \in 0..Len(text)] ==
            IF i > Len(text) \/ text[i] = ")" \/ (text[i] = "," /\ depth = 0 /\ start > 0)
            THEN [start |-> start, end |-> i]
            ELSE CASE Names(i) /\ depth = 0 ->
                          LET eq == CHOOSE j \in i..Len(text) :
                                        /\ text[j] = "="
                                        /\ \A k \in i..j-1 : text[k] # "="
                              first == IF text[eq+1] = " " THEN eq + 2 ELSE eq + 1
                          IN  scan[first, first, depth]
                   [] text[i] = "\"" -> scan[StringEnd(text, i) + 1, start, depth]
                   [] text[i] = "{" -> scan[i + 1, start, depth + 1]
                   [] text[i] = "}" -> scan[i + 1, start, depth - 1]
                   [] OTHER -> scan[i + 1, start, depth]
    IN  scan[2, 0, 0]

\* What is shown of a parameter; the text is what follows the parenthesis.
DumpVal(text, name) ==
    LET found == Scan(text, name)
    IN  IF found.start = 0 THEN <<"0">> ELSE SubSeq(text, found.start, found.end - 1)

\* tap_params_dump_vals(): the text after the parenthesis of a round.
RoundText(vals, round) ==
    LET heads == SetToSortSeq({i \in DOMAIN vals : vals[i] = "TAP_PARAMS_VALUES"},
                              LAMBDA i, j : i < j)
        open == heads[round + 1] + FirstOf(SubSeq(vals, heads[round + 1], Len(vals)), "(")
    IN  IF round >= Len(heads) THEN <<")">> ELSE SubSeq(vals, open, Len(vals))
=============================================================================
