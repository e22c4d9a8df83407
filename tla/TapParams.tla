----------------------------- MODULE TapParams -----------------------------
(***************************************************************************)
(* The main program that libtap provides (src/src/tap_main.c and           *)
(* src/src/tap_params.c): it finds out which parameters there are, reads   *)
(* the options of the command line, plans the tests of the selected rounds,*)
(* and calls tap_main(round) for each of them, count times.  A round is one*)
(* TAP_PARAMS_VALUES of the test program, with the number of tests it runs *)
(* and a value for every parameter.                                        *)
(*                                                                         *)
(* getopt() hands the options over one by one: argv holds what was read    *)
(* so far, and any option of the program's may be next.  The definition of *)
(* the parameters is parsed by ParamsDef, and -i is left to TapInfo.       *)
(***************************************************************************)
EXTENDS Integers, Sequences, FiniteSets, FiniteSetsExt, ParamsDef, TapInfo

CONSTANTS
    Rounds,        \* tap_params_values_nmemb
    Plan,          \* the member tap.plan of each round
    Number,        \* the arguments that are numbers
    Word,          \* the arguments that are not
    Own,           \* the value that the round itself has for a parameter
    Program,       \* test programs, with the options they may be given
    IntSize        \* the values of an unsigned int are 0..IntSize-1

Round == 0..Rounds-1

\* The options that getopt() may return, with their arguments: a sequence of
\* numbers and ranges, a number, or a name and a value, as far as they are one.
Option ==
    [opt : {"h", "i", "v", "?"}]
    \cup [opt : {"r"}, tokens : Seq([start : Int, end : Int])]
    \cup [opt : {"c"}, number : BOOLEAN, count : Int]
    \cup [opt : {"p"}, sep : BOOLEAN, name : Seq(STRING), value : Number \cup Word]

\* A test program: its struct, member by member, with what C says of each; the
\* text of its initialisers, and what it has for each round; its information;
\* the options that are tried, and how many at once (a bound); and the sets of
\* rounds that it may skip by itself.
ASSUME TapParamsAssumption ==
    /\ Rounds \in Nat
    /\ Plan \in [Round -> Nat]
    /\ IntSize \in Nat \ {0}
    /\ Own \notin Number \cup Word
    /\ \A q \in Program :
           /\ DOMAIN q = {"members", "vals", "inits", "section", "options", "max",
                        "presets"}
           /\ q.max \in Nat /\ q.presets \subseteq SUBSET Round
           /\ q.options \subseteq Option
           /\ q.section \in Seq([tag : Seq(STRING), value : Seq(STRING), sep : BOOLEAN])

VARIABLES
    program,       \* the program that is run
    argv,          \* the options read so far
    preset,        \* the rounds that the program defines with tap.skip
    skip,          \* the rounds whose header says skip
    disabled,      \* the static flag of tap_param_skip()
    count,         \* the argument of -c
    override,      \* the overriding values of the parameters that have one
    active,        \* tap_params_override_active
    verbose,       \* tap_verbose
    planned,       \* e_tests, 0 before plan_tests()
    round,         \* i and j of the loops in tap_params_main()
    turn,
    rounds,        \* the calls of tap_main(): round and values of the parameters
    told,          \* what -v said of the parameters of each round
    test_count,
    code           \* the exit status, Running before

options == <<argv, preset, skip, disabled, count, override, active, verbose>>
loops == <<planned, round, turn, rounds, told, test_count>>
vars == <<program, options, loops, code, defVars, infoVars>>

Running == -1

Init ==
    /\ program \in Program
    /\ def = TAP_PARAMS_DEFINITION([i \in DOMAIN program.members |-> program.members[i].text])
    /\ section = program.section
    /\ NoParams /\ NoInfo
    /\ argv = <<>>
    /\ preset \in program.presets
    /\ skip = preset
    /\ disabled = FALSE
    /\ count = 1
    /\ override = <<>>
    /\ active = FALSE /\ verbose = FALSE
    /\ planned = 0
    /\ round = 0 /\ turn = 0
    /\ rounds = <<>> /\ told = <<>>
    /\ test_count = 0
    /\ code = Running

-----------------------------------------------------------------------------
(* The options *)

\* tap_params_init()
ReadDefinition ==
    /\ Parse
    /\ UNCHANGED <<program, options, loops, code, infoVars>>

Param == {params[i].name : i \in DOMAIN params}
TypeOf(name) == params[SelectInSeq(params, LAMBDA q : q.name = name)].type

\* A token of -r is a number or a range, or makes no sense: sscanf() fails.
Refused(token) == token.start < 0 \/ token.end < token.start
Named(token) == token.start..token.end

\* getopt() returns the option o.
Reads(o) ==
    /\ code = Running
    /\ parsing = "done"
    /\ pos = 0 /\ planned = 0
    /\ Len(argv) < program.max
    /\ argv' = Append(argv, o)
    /\ UNCHANGED <<program, preset, defVars, loops>>

\* -h prints and exits.
Help(o) ==
    /\ o.opt = "h"
    /\ Reads(o)
    /\ code' = 0
    /\ UNCHANGED <<skip, disabled, count, override, active, verbose, infoVars>>

\* -i prints and exits, too.
Information(o) ==
    /\ o.opt = "i"
    /\ Reads(o)
    /\ Collect
    /\ UNCHANGED <<skip, disabled, count, override, active, verbose, code>>

TellInfo ==
    /\ code = Running
    /\ IF InfoDone
       THEN code' = 0 /\ UNCHANGED infoVars
       ELSE InfoStep /\ UNCHANGED code
    /\ UNCHANGED <<program, options, loops, defVars>>

\* -v says more on stderr; an option that getopt() does not know has no case.
Verbose(o) ==
    /\ o.opt \in {"v", "?"}
    /\ Reads(o)
    /\ verbose' = (verbose \/ o.opt = "v")
    /\ UNCHANGED <<skip, disabled, count, override, active, infoVars, code>>

\* Mutation: the flag is not static.
Disables_Always == TRUE

\* The first -r skips every round.
Disables == ~disabled

\* Mutation: the tokens before one that is refused are enough.
RangeError_Never(o) == FALSE

RangeError(o) == \E i \in 1..Len(o.tokens) : Refused(o.tokens[i])

\* tap_param_skip(): the tokens up to one that is refused.
SkipRanges(o) ==
    LET Good == {i \in 1..Len(o.tokens) : \A j \in 1..i : ~Refused(o.tokens[j])}
        Wanted == UNION {Named(o.tokens[i]) : i \in Good}
    IN  /\ o.opt = "r"
        /\ Reads(o)
        /\ disabled' = TRUE
        /\ skip' = (IF Disables THEN Round ELSE skip) \ Wanted
        /\ code' = IF RangeError(o) THEN 1 ELSE Running
        /\ UNCHANGED <<count, override, active, verbose, infoVars>>

\* Mutation: any number will do.
GoodCount_Any(o) == o.number

GoodCount(o) == o.number /\ o.count >= 1

\* sscanf() stores the number before the test.
SetCount(o) ==
    /\ o.opt = "c"
    /\ Reads(o)
    /\ count' = IF o.number THEN o.count ELSE count
    /\ code' = IF GoodCount(o) THEN Running ELSE 1
    /\ UNCHANGED <<skip, disabled, override, active, verbose, infoVars>>

\* tap_param_override() takes numbers and strings.
Takes(name, value) ==
    /\ name \in Param
    /\ \/ Class(TypeOf(name)) = "number" /\ value \in Number
       \/ Class(TypeOf(name)) = "string"

\* Mutation: an override stays.
Overridden_First(o) ==
    [p \in DOMAIN override \cup {o.name} |-> IF p \in DOMAIN override THEN override[p] ELSE o.value]

Overridden(o) ==
    [p \in DOMAIN override \cup {o.name} |-> IF p = o.name THEN o.value ELSE override[p]]

\* -p name=value
Override(o) ==
    /\ o.opt = "p"
    /\ Reads(o)
    /\ IF o.sep /\ Takes(o.name, o.value)
       THEN /\ override' = Overridden(o)
            /\ active' = TRUE
            /\ UNCHANGED code
       ELSE code' = (IF o.sep THEN 255 ELSE 1) /\ UNCHANGED <<override, active>>
    /\ UNCHANGED <<skip, disabled, count, verbose, infoVars>>

-----------------------------------------------------------------------------
(* The rounds *)

\* Mutation: the rounds that are skipped count.
Total_All == MapThenSumSet(LAMBDA i : Plan[i], Round)

\* The sum over the rounds that are not skipped.
Total == MapThenSumSet(LAMBDA i : Plan[i], Round \ skip)

\* No more options: tap_params_main() up to plan_tests(), which refuses 0.
\* The product is an int that plan_tests() takes as unsigned; compilers wrap.
StartRounds ==
    /\ code = Running
    /\ parsing = "done"
    /\ pos = 0 /\ planned = 0
    /\ planned' = (Total * count) % IntSize
    /\ code' = IF planned' = 0 THEN 255 ELSE Running
    /\ UNCHANGED <<program, options, round, turn, rounds, told, test_count, defVars, infoVars>>

Looping == code = Running /\ planned > 0 /\ round < Rounds

SkipRound ==
    /\ Looping
    /\ round \in skip
    /\ round' = round + 1
    /\ UNCHANGED <<program, options, planned, turn, rounds, told, test_count, code,
                   defVars, infoVars>>

\* tap_get_override()
GetOverride(p, fallback) == IF p \in DOMAIN override THEN override[p] ELSE fallback

\* TAP_PARAM(): the value of an override, or that of the current round.
Value(p) == IF active THEN GetOverride(p, Own) ELSE Own

\* What tap_params_dump_vals() has to say: the parameters with their values and
\* initialisers.
Told ==
    LET text == RoundText(program.vals, round)
    IN  [p \in Param |-> [value |-> Value(p), default |-> DumpVal(text, p)]]

\* Mutation: the values are dumped for every call.
Dumps_EachTurn == TRUE

\* tap_params_dump_vals() is called once in a round, before tap_main().
Dumps == turn = 0

\* tap_main(round) runs the tests it announces.  tap_verbose_print() looks at
\* tap_verbose, so that a dump says nothing without -v.
RunRound ==
    /\ Looping
    /\ round \notin skip
    /\ turn < count
    /\ turn' = turn + 1
    /\ told' = IF Dumps /\ verbose THEN Append(told, [round |-> round, of |-> Told]) ELSE told
    /\ rounds' = Append(rounds, [round |-> round, values |-> [p \in Param |-> Value(p)]])
    /\ test_count' = (test_count + Plan[round]) % IntSize
    /\ UNCHANGED <<program, options, planned, round, code, defVars, infoVars>>

NextRound ==
    /\ Looping
    /\ round \notin skip
    /\ turn = count
    /\ turn' = 0
    /\ round' = round + 1
    /\ UNCHANGED <<program, options, planned, rounds, told, test_count, code,
                   defVars, infoVars>>

\* exit_status(), with every test good, and the status that exit() keeps.
Finish ==
    /\ code = Running
    /\ planned > 0
    /\ round = Rounds
    /\ code' = (IF planned < test_count THEN test_count - planned
                                        ELSE planned - test_count) % 256
    /\ UNCHANGED <<program, options, loops, defVars, infoVars>>

Exited == (code # Running \/ parsing = "crashed") /\ UNCHANGED vars

Next ==
    \/ ReadDefinition
    \/ \E o \in program.options :
           Help(o) \/ Information(o) \/ Verbose(o) \/ SkipRanges(o) \/ SetCount(o) \/ Override(o)
    \/ TellInfo
    \/ StartRounds \/ SkipRound \/ RunRound \/ NextRound \/ Finish
    \/ Exited

Spec == Init /\ [][Next]_vars

-----------------------------------------------------------------------------
(* Properties: what a command line means, whatever the order of its options *)

Given(opt) == {i \in 1..Len(argv) : argv[i].opt = opt}

\* The last argument in a set of positions, or a default.
LastArg(S, Arg(_), default) == IF S = {} THEN default ELSE Arg(argv[Max(S)])

\* The rounds that the command line asks for.
Selected ==
    IF Given("r") = {}
    THEN Round \ preset
    ELSE {r \in Round : \E i \in Given("r") : \E j \in 1..Len(argv[i].tokens) :
                            r \in Named(argv[i].tokens[j])}

Times == LastArg(Given("c"), LAMBDA o : o.count, 1)

Wanted(p) == LastArg({i \in Given("p") : argv[i].name = p}, LAMBDA o : o.value, Own)

\* The variables have their types: no counter leaves its loop or its integer.
TypeOK ==
    /\ argv \in Seq(program.options)
    /\ preset \subseteq Round /\ skip \subseteq Round
    /\ {disabled, active, verbose} \subseteq BOOLEAN
    /\ count \in Int
    /\ DOMAIN override \subseteq Param
    /\ parsing \in {"init", "members", "done", "crashed"}
    /\ pos \in 0..Len(section)+1 /\ rec \in 0..Len(records)
    /\ planned \in 0..IntSize-1 /\ test_count \in 0..IntSize-1
    /\ round \in 0..Rounds
    /\ code = Running => turn \in 0..count
    /\ \A i \in 1..Len(rounds) : rounds[i].round \in Round
    /\ code \in {Running} \cup 0..255

\* tap_main() is called for the rounds that the command line asks for and
\* no others, in the order of the table, each of them count times, however
\* the rounds were spread over several -r, whether some were outside of the
\* table, and whatever the program itself wanted to skip.
RunsTheSelected ==
    /\ \A i \in 1..Len(rounds) : rounds[i].round \in Selected
    /\ \A i, j \in 1..Len(rounds) : i < j => rounds[i].round <= rounds[j].round
    /\ \A r \in Round :
           LET n == Cardinality({i \in 1..Len(rounds) : rounds[i].round = r})
           IN  /\ n > 0 => n <= Times
               /\ (r \in Selected /\ planned > 0 /\ round > r) => n = Times

\* Every call of tap_main() sees the last value that -p gave to a parameter,
\* and the round's own value of the others.
SeesTheLastOverride ==
    \A i \in 1..Len(rounds) : \A p \in Param : rounds[i].values[p] = Wanted(p)

\* The plan that is printed before the first round is the number of tests
\* of all rounds together (modulo the size of an int), so that a run whose
\* tests are good ends with 0.
PlanMatchesRounds ==
    code # Running /\ planned > 0 => code = 0 /\ test_count = planned

\* A mistake on the command line, wherever it is, ends the program with a
\* failure before anything is planned or run, unless -h or -i came before.
Mistaken(o) ==
    \/ o.opt = "r" /\ \E j \in 1..Len(o.tokens) : Refused(o.tokens[j])
    \/ o.opt = "c" /\ (~o.number \/ o.count < 1)
    \/ o.opt = "p" /\ (~o.sep \/ ~Takes(o.name, o.value))

NothingAfterAMistake ==
    (\E i \in 1..Len(argv) : Mistaken(argv[i]))
    => code \in {1, 255} /\ planned = 0 /\ rounds = <<>>

\* The members that the parser of the definition understands: one declarator
\* with at most one dimension, its name after a blank, a brace or stars.
Understood(m) ==
    \E i, j \in DOMAIN m.text :
        /\ i < j /\ m.text[i] \in {" ", "}"} /\ <<m.text[j]>> = m.name
        /\ \A k \in i+1..j-1 : m.text[k] = "*"
        /\ \A k \in j+1..Len(m.text) : m.text[k] \notin {",", ":"}
        /\ Cardinality({k \in DOMAIN m.text : m.text[k] = "["}) <= 1

\* The parameters that -p, -v and TAP_PARAM() know are the members of the
\* struct that the compiler makes of the same text, under their names and
\* with what -p may do to them, wherever blanks, stars, braces and dimensions
\* stand.
ParamsAreMembers ==
    (\A i \in DOMAIN program.members : Understood(program.members[i])) =>
        /\ parsing # "crashed"
        /\ parsing = "done" =>
               [i \in DOMAIN params |-> [name |-> params[i].name, class |-> Class(params[i].type)]]
               = [i \in DOMAIN program.members |->
                     [name |-> program.members[i].name, class |-> program.members[i].class]]

\* Initialisers in which the end of a round is found: no parenthesis but that
\* of TAP_PARAMS_VALUES, a blank after it, and no backslash after another.
PlainText(vals) ==
    \A i \in DOMAIN vals :
        /\ vals[i] = "(" => vals[i-1] = "TAP_PARAMS_VALUES" /\ vals[i+1] = " "
        /\ vals[i] = "\\" => vals[i+1] # "\\"

Trimmed(s) == IF s # <<>> /\ Last(s) = " " THEN Front(s) ELSE s

\* With -v, every round that runs is told of once, in the order of the rounds,
\* with the values that each of its calls of tap_main() gets; without -v, and of
\* the rounds that are skipped, no values are told.
TellsWhatRuns ==
    /\ {told[i].round : i \in DOMAIN told}
       = IF Given("v") = {} THEN {} ELSE {rounds[i].round : i \in DOMAIN rounds}
    /\ \A i, j \in DOMAIN told : i < j => told[i].round < told[j].round
    /\ \A i \in DOMAIN told : \A j \in DOMAIN rounds : told[i].round = rounds[j].round =>
           \A p \in Param : told[i].of[p].value = rounds[j].values[p]

\* What -v says besides the value of a parameter is the initialiser that the
\* program has for it in this very round, or 0, whatever strings and braces are
\* in the text.
TellsTheRound ==
    PlainText(program.vals) =>
        \A i \in DOMAIN told : \A p \in Param :
            LET inits == program.inits[told[i].round]
            IN  Trimmed(told[i].of[p].default) = IF p \in DOMAIN inits THEN inits[p] ELSE <<"0">>
=============================================================================
