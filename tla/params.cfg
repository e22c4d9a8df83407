\* Programs with all kinds of definitions, initialisers and information; one of
\* them with command lines of up to three options; the counters wrap at 8: some
\* plans do.
SPECIFICATION Spec
CONSTANTS
    n1 = n1
    n2 = n2
    word = word
    Own = Own
    Rounds = 4
    Plan <- Plans
    Number <- ArgNumbers
    Word <- ArgWords
    Program <- Programs
    IntSize = 8
    LineLen = 9
INVARIANTS
    TypeOK
    RunsTheSelected
    SeesTheLastOverride
    PlanMatchesRounds
    NothingAfterAMistake
    ParamsAreMembers
    TellsWhatRuns
    TellsTheRound
    InfoReadsBack
    LinesFold
