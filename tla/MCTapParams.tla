---------------------------- MODULE MCTapParams ----------------------------
(* Instances of TapParams for TLC: test programs with four rounds. *)
EXTENDS TapParams

CONSTANTS n1, n2, word       \* arguments of -p; n1 and n2 are numbers

Plans == [i \in Round |-> <<2, 1, 0, 3>>[i + 1]]
ArgNumbers == {n1, n2}
ArgWords == {word}

-----------------------------------------------------------------------------
(* Options *)

One(n) == [start |-> n, end |-> n]
From(a, b) == [start |-> a, end |-> b]
Bad == One(-1)

\* Two tokens, out of the table, the wrong way round, nothing, half wrong.
Ranges == { <<One(0)>>, <<One(3), One(1)>>, <<From(2, 9)>>, <<From(2, 1)>>, <<>>,
            <<One(0), Bad>> }

Set(name, value) == [opt |-> "p", sep |-> TRUE, name |-> <<name>>, value |-> value]

AllOptions ==
    {[opt |-> o] : o \in {"h", "v", "?"}}
    \cup {[opt |-> "r", tokens |-> r] : r \in Ranges}
    \cup {[opt |-> "c", number |-> TRUE, count |-> c] : c \in {-1, 0, 1, 2}}
    \cup {[opt |-> "c", number |-> FALSE, count |-> 1]}
    \cup {Set(p, v) : p \in {"flags", "data"}, v \in {n1, word}}
    \cup {Set(p, n2) : p \in {"flags", "command", "other"}}
    \cup {[Set("flags", n1) EXCEPT !.sep = FALSE]}

-----------------------------------------------------------------------------
(* Definitions and initialisers *)

Member(before, name, after, class) ==
    [text |-> before \o <<name>> \o after, name |-> <<name>>, class |-> class]

\* The last four are not understood.
Members(n) ==
    { Member(<<"int", " ">>, n, <<";">>, "number"),
      Member(<<"unsigned", " ", "long", " ">>, n, <<" ", ";", " ">>, "number"),
      Member(<<"char", " ", "*">>, n, <<";", " ">>, "string"),
      Member(<<"const", " ", "char", " ", "*", " ">>, n, <<";">>, "string"),
      Member(<<"char", " ", "*", "*">>, n, <<";">>, "other"),
      Member(<<"char", " ">>, n, <<"[", "8", "]", ";">>, "other"),
      Member(<<"int", " ">>, n, <<" ", "[", "8", "]", " ", ";">>, "other"),
      Member(<<"enum", " ", "{", " ", "A", ",", " ", "B", " ", "}", " ">>, n, <<";">>, "other"),
      Member(<<"struct", "{", " ", "int", " ", "x", ";", " ", "}">>, n, <<";", " ">>, "other"),
      Member(<<"int", " ">>, n, <<",", " ", "c", ";">>, "number"),
      Member(<<"int", " ">>, n, <<"[", "2", "]", "[", "3", "]", ";">>, "other"),
      Member(<<"int", " ">>, n, <<" ", ":", " ", "3", ";">>, "other"),
      Member(<<"char", "*">>, n, <<";">>, "string") }

\* The example of tap.h.
Example ==
    << Member(<<"unsigned", " ", "long", " ">>, "flags", <<";", " ">>, "number"),
       Member(<<"enum", " ", "{", " ", "A", ",", " ", "B", " ", "}", " ">>, "command", <<";", " ">>,
              "other"),
       Member(<<"char", " ", "*">>, "data", <<";">>, "string") >>

Quoted(s) == <<"\"">> \o s \o <<"\"">>

\* Numbers, lists, strings with everything that means something outside of
\* them; the last two are no plain text.
Initialisers ==
    { <<"42">>, <<"{", "1", ",", " ", "2", "}">>, Quoted(<<"x", ",", ")">>),
      Quoted(<<"\\", "\"", ".", "flags", " ", "=", "{">>),
      <<"(", "1", "|", "2", ")">>, Quoted(<<"\\", "\\">>) }

Init1(name, value) == <<",", " ", ".", name, " ", "=", " ">> \o value

RoundDef(plan, inits) ==
    TAP_PARAMS_VALUES(<<" ", ".", "tap", ".", "plan", " ", "=", " ", plan>> \o inits \o <<" ">>)
    \o <<",", " ">>

\* Four rounds of the example; the first two say x of flags and y of data.
Vals(x, y) ==
    RoundDef("2", Init1("flags", x) \o Init1("data", y)) \o RoundDef("1", Init1("data", y))
    \o RoundDef("0", <<>>) \o RoundDef("3", Init1("data", <<"0">>) \o Init1("flags", <<"7">>))
Inits(x, y) ==
    [r \in Round |-> CASE r = 0 -> <<"flags">> :> x @@ <<"data">> :> y
                       [] r = 1 -> <<"data">> :> y
                       [] r = 2 -> <<>>
                       [] OTHER -> <<"data">> :> <<"0">> @@ <<"flags">> :> <<"7">>]

-----------------------------------------------------------------------------
(* Information *)

Padding == [tag |-> <<>>, value |-> <<>>, sep |-> FALSE]
Texts(n) == BoundedSeq({"x", Blank, Newline}, n)
Long == <<"x", Blank, "x", "x", "x", "x">>

Sections ==
    {<<TAP_INFO(<<"a">>, t)>> : t \in Texts(7)}
    \cup {<<TAP_INFO(<<"a">>, t), TAP_INFO(<<"a">>, <<"x">>)>> : t \in Texts(5)}
    \cup BoundedSeq({TAP_INFO(tag, v) : tag \in {<<"a">>, <<"b">>, <<"a", "b">>},
                                    v \in {<<"x">>, Long}} \cup {Padding}, 3)

-----------------------------------------------------------------------------
(* Programs *)

Base == [members |-> Example, vals |-> Vals(<<"42">>, <<"1">>), inits |-> Inits(<<"42">>, <<"1">>),
         section |-> <<>>, presets |-> SUBSET Round, options |-> AllOptions, max |-> 3]

Programs ==
    {Base}
    \cup {[Base EXCEPT !.vals = Vals(x, y), !.inits = Inits(x, y), !.presets = {{}, {1}}, !.max = 2,
                       !.options = {[opt |-> "v"], Set("flags", n1), Set("data", word)}] :
              x \in Initialisers, y \in Initialisers}
    \cup {[Base EXCEPT !.members = <<a, b>>, !.presets = {{}}, !.max = 1,
                       !.options = {Set("a", n1), Set("b", n1)}] :
              a \in Members("a"), b \in Members("b")}
    \cup {[Base EXCEPT !.section = s, !.presets = {{}}, !.max = 1,
                       !.options = {[opt |-> "i"]}] : s \in Sections}
=============================================================================
