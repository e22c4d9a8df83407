# A TLA+ model of libtap

libtap is a C library with which a test program reports its results in the Test
Anything Protocol: `ok 1 - name`, `not ok 2 - name`, a plan `1..n`, `Bail out!`.
It promises more than its size suggests: it "should be thread safe" (`tap.3`),
with `TAP_FLAGS_FORK` the results of several processes make one stream, and the
exit code sums up what all of them did. This directory models that program.

All paths below are relative to `src/src/`.

## 1. The system

| Component | State | Operations | Interacts with |
|---|---|---|---|
| Results (`tap.c`) | `test_count`, `failures`; stdout | `ok`, `pass`, `fail`, `is`, `isnt`, `cmp_ok`, all through `_vgen_result`; `skip_f`; `diag` | asks the TODO list whether a failure is excused; mandatory tests (`MP`) call `BAIL_OUT` |
| Plan (`tap.c`) | `have_plan`, `no_plan`, `skip_all`, `e_tests`, `test_died` | `plan_tests`, `plan_no_plan`, `plan_skip_all` | may `exit()` |
| Exit (`tap.c`) | exit code; closing diagnostics | `exit_status`, `_cleanup` (atexit), `BAIL_OUT_f` | read what results and plan left, in two critical sections |
| Shared structure (`tap.c`) | `struct tap_shm_s`, static or in shared memory, with a recursive, process-shared mutex | `LOCK`, `UNLOCK`, `main_pid` | every call above |
| Initialisation (`tap.c`) | `initialized`, `tap_flags`, `tap_shm` | `tap_init_f`, `tap_implicit_init` | replaces the shared structure; creates the keys of the lists |
| SKIP and TODO blocks (`tap_skip_todo.c`, `tap.h`) | two lists per thread | `SKIP2`, `skip`, `TODO`, `tap_todo_msg` | `_vgen_result` reads the list |
| Rounds and parameters (`tap_params.c`) | table of rounds, overrides | `-r`, `-c`, `-p`; `tap_params_main` | plans, then runs `tap_main(round)` |
| Parameter definitions (`tap_params.c`) | list of parameters | `tap_params_init`, the parser of the stringified `struct`; `tap_params_dump_vals`, the look-up in the stringified values | overrides, verbose output |
| Options (`tap_main.c`) | `tap_verbose` | `tap_start` | rounds, information |
| Information (`tap_main.c`) | records in a linker section | `tap_print_info`, `tap_print_record` | |

What is hard here, and why a test hardly reaches it:

- **Interleaving.** Threads and processes count, print piece by piece on an
  unbuffered stdout, plan, and exit. All tests of the repository are sequential.
- **Ends.** A process may end in a plan function, in `BAIL_OUT`, by returning from
  `main()`, or by a signal, while others go on; `_cleanup()` takes the mutex
  during `exit()`; the mutex outlives its holder.
- **Two judges.** The exit code is computed in `exit_status()`, the plan line at
  the end and the closing words in `_cleanup()`, from the same structure at two
  moments.
- **Blocks.** The library follows the blocks of the program by counting the
  evaluations of a loop condition; C has other ways out of a loop.
- **Initialisation.** The first call initialises the library, without excluding
  the calls of other threads.
- **Texts as tables.** The parameters, their initialisers and the information are
  found at run time in texts that the preprocessor left: by braces, blanks, quotes
  and prefixes.

The list of hazards, each with its line and the properties that watch it, is in
`PROJECT.json`.

What makes each component correct:

- results: numbers are consecutive in output order, lines are whole, counters
  agree with the output;
- plan: one plan line, first or last, that says the truth if it is last;
- exit: the code is 0 exactly for a good stream, the closing words agree with the
  code, every process ends and none takes the mutex with it;
- blocks: a failure is excused exactly in a TODO block, what was skipped is not
  run, every condition finds a node of its own kind;
- rounds: the plan is the number of tests that the selected rounds run;
- definitions and information: every parameter or record is found under its own
  name.

## 2. The modules

| Module | What it is |
|---|---|
| `TapStream` | Abstract specification: the lines a reader of stdout sees. |
| `TapCore` | `tap.c` after initialisation: results, plan, exit, mutex, threads, processes. Implements `TapStream`. |
| `TapCoreProof` | Theorems about `TapCore`: types, mutual exclusion, numbering, whole lines, counters that agree with the output. |
| `TapPlanProof` | The theorem that there is one plan line. |
| `TapStreamProof` | The theorem that `TapCore` implements `TapStream`. |
| `TapExitProof` | The theorems that exit code, closing words and output agree, and that nobody ends with the mutex. |
| `MCTapCore` | Values of the constants of `TapCore` for TLC. |
| `SkipTodo` | The SKIP2 and TODO blocks. |
| `SkipTodoProof` | Theorems about `SkipTodo`. |
| `TapInit` | `tap.c` until the library is initialised: `tap_init()`, the implicit initialisation, and the calls that race with them. |
| `TapInitProof` | Theorems about `TapInit`: one initialisation, no result lost. |
| `ParamsDef` | `tap_params.c`: the parser of the parameter definition, the types, the look-up of initialisers. |
| `TapInfo` | `tap_main.c`: the information of a test case and how it is printed. |
| `TapParams` | `tap_main.c` and `tap_params.c`: options, selection of rounds, overrides, plan, main loop. Composes `ParamsDef` and `TapInfo`. |
| `TapParamsProof` | Theorems about `TapParams`: the rounds that run, the values they see, the plan, mistakes, what `-v` tells. |
| `TapInfoProof` | Theorems about `TapInfo` in `TapParams`: every value is shown in full, lines fit. |
| `MCTapParams` | Values of the constants of `TapParams` for TLC. |

Each mutation of the code stands beside the definition that it changes, and is named
after it (`LockFree_Always`, `Closing_NoShort`, ...).

`TapCore` begins where `TapInit` ends. `TapParams` sees `tap.c` only through the plan
and the exit status, and `SkipTodo` through `tap_todo_msg()`.

### TapStream

A stream is a sequence of result, plan and bail lines. A result carries the next
number. There is at most one plan line; it precedes the results, or announces the
number of results so far and ends them, unless somebody bailed out (a thread that
bails out closes the stream while others may still write).

### TapCore

`shm` is `*tap_shm`; `held[t]` is how often `t` holds the mutex; `pc[t]` is where
thread `t` is: `idle` in the test program, or a label in a library call. `lines`
is what is on stdout, `bol` and `torn` say whether a line was begun in the middle
of another. `code[p]` is the wait status of a process and `verdict` the closing
words of `_cleanup()`.

| Code | Actions |
|---|---|
| `_vgen_result` 119-248 | `Enter`, `Count`, `PrintResult`, `Eol`, then `Return`, or `Bail` for a failed mandatory test |
| `skip_f` 419-445 | `Enter`, `Skip` for each round of its loop, `SkipEnd`, `Return` |
| `diag` 390-406 | `Enter`, `Return` (stderr is not modelled) |
| `plan_tests`, `plan_no_plan`, `_expected_tests` | `Enter`, then `PlanRefused`, `Leave`, or `PlanAccepted`, `PlanSet`, `Return` |
| `plan_skip_all` 340-357 | `Enter`, `PlanSkipAll`, `SkipAllEol`, `Leave` |
| `BAIL_OUT_f` 660-676 | `EnterBailOut`, `Bail`, `BailEol`: no mutex |
| `exit_status` 447-478 | `ReturnFromMain`, `ExitStatus`, and `LateStatus` when there is no plan: failures are read after the UNLOCK |
| `exit()`, `_cleanup` 484-535 | `RunHandlers`, `Cleanup`, `Halt`; `ExitTwice` for a second thread |
| the program around it | `Spawn` (thread or fork), `Finish`, `Kill` |

A step is what runs between two points where another thread could matter. Calls
nested in a critical section (`diag` in `_vgen_result`, `_expected_tests` in
`plan_tests`) lock again and unlock; since the mutex is recursive this shows
nothing, and `held` counts one for them. The order of the returns in `_cleanup()`
is the chain of conditions in `Closing`. `_cleanup()` holds the mutex from its
first to its last statement and writes at most one line to stdout, so that it is
one step. When a second thread calls `exit()` during the first one's, C says
nothing: the process may end at once, or the thread may wait.

What the program does is given by constants: the threads and their processes,
`Menu` (the calls of each thread, with their arguments), `PlanFirst` (the
documented rule that the first call plans, and that `plan_skip_all()` is used
*instead of* a plan), `Joins` (`main()` returns when its threads and children are
done), `Killable`. `MaxCalls` bounds the calls of a thread.

Not in `TapCore`: everything before `tap_init()` is complete (`TapInit`); flags that change
only the wording; allocations that fail; the value that plan functions return;
wrap-around of the counters at 2^32; the build without pthreads, which has one
thread.

### SkipTodo

`list[n][t]` is what thread `t` has stored with the key `n`: nodes, each with its kind and
its `cond_evals`; `block[t]` are the blocks the thread is in by the program text. `Start`
is `tap_todo_start`/`tap_skip_start`, `Cond` the condition of the loop, `EndBody` the
end of the body or a `continue`, `Skip` the macro `skip()`, which continues the
*innermost* loop, `Break` every other way out. `Test` looks at the list as
`_vgen_result` does, through `tap_todo_msg()`.

`TODO` and `SKIP2` do not initialise the library. `Initialise` enters `tap_init_f()`, and
`CreateKey` is `tap_skip_init()` and then `tap_todo_init()`, while the other threads go on.
A key variable that is not yet set is 0 (`KeyOf`), and glibc numbers keys from 0: the
list of an early block then goes to `tap_skip_key`, to a key 0 that the program itself
made (`own`), or nowhere (`Stores`). `early` are the threads that opened a block before
both keys existed, `left` those that left one by a `break`, `misled` those that called
`skip()` in a TODO block inside its SKIP2.
A node taken for one of the other kind is undefined behaviour and ends the model
(`status`), as do a null pointer and the library's own "flow broken".

### TapInit

`todo[t]` is what is left of the call that `t` is in, as a sequence of steps; an
`INIT` that finds `initialized` unset puts the initialisation in front of it. The
steps are as fine as the accesses to `initialized` and `tap_shm`, because those are
what is not locked: `SetFlag`, `Map` and `MutexInit` are three statements of
`tap_init_f()` in their order, and `LOCK` evaluates `tap_shm` (`Lock`) before it
waits (`Acquire`). `ptr` is `tap_shm`, with one of two structures behind it, each
with counters and a mutex; the static mutex of `tap_implicit_init()` is `guard`.
Three kinds of result differ in where `diag()` is called: nowhere, after the line
(failures), or between counting and printing (a test named like a number).
Unlocking a recursive mutex of somebody else does nothing (EPERM). Initialising a
mutex that is held is undefined; the model takes glibc's outcome, a free mutex, and
lets any of the waiting threads sleep for ever.

`first` and `overlap` record whether another call was made during one that began
before the library was ready, `early` that a result was begun then, `explicit`
that `tap_init()` was called.

### ParamsDef

`def` is the string that `TAP_PARAMS_DEFINITION` makes of the members of the struct,
as a sequence of words, punctuation and blanks. `RemoveNested` is the first loop of
`tap_params_init()`, which drops what is in braces and superfluous blanks;
`NextMember` is one turn of its second loop: the declaration up to the next
semicolon is cut into a name and a type, and one without a blank ends in a null
pointer. `params` is the list that results. `Class` is what the tables of
`tap_param_override()` make of a type.

`DumpVal` is `tap_params_dump_val()`: it goes once through the initialisers of a
round, over strings and nested braces, and returns what stands behind
`.name =`. `RoundText` finds the text of a round among those of all rounds.

### TapInfo

`section` is the linker section with an entry for each `TAP_INFO`, and padding.
`Collect` makes the records, `NextRecord` begins to print one; then `pos` goes
through the section as `tap_print_record()` does, past entries of others
(`PassEntry`) and one's own, each on one line (`ShowLine`) or folded (`BeginFold`,
`FoldLine`). `shown` is what was printed, without the colours, dashes and indentation.

### TapParams

A *program* is a struct, member by member, with what the compiler says of each; the
text of its initialisers, and what the compiler makes of it for each round; its
information; and the options that are tried. `TapParams` first lets `ParamsDef` parse
the definition (`ReadDefinition`). `argv` are the options read so far; each step
reads one more, so that every command line is tried. An option's action is the whole
`case` of `tap_start()` with the function it calls: `SkipRanges` is
`tap_param_skip()` token by token up to one that is refused, `Override` is
`tap_param_override()`, `Information` and `TellInfo` are `tap_print_info()` up to the
`exit()`. A refused option ends the program with 1 or 255. `StartRounds` is
`tap_params_main()` up to `plan_tests()`, `SkipRound`, `RunRound` and `NextRound` are
its two loops, `Finish` is `exit_status()`. `rounds` records each call of `tap_main()`
with the values that `TAP_PARAM()` has there, and `told` what `tap_verbose_print()` says
before, which is nothing without `-v`.
Numbers are `unsigned int` modulo `IntSize`. `Option` is what `getopt()` can return, each
argument being cut into the numbers and names that are in it; `Number` and `Word` are
the arguments of `-p`.

## 3. What is checked

| Run | Instance | What it shows |
|---|---|---|
| `core_threads` | one process, three threads, two calls each: `m` plans (any plan function, 0, 2 or 3 tests) and tests, `a` tests, fails a mandatory test, skips two or plans again, `b` tests | one plan line; whole lines; counters equal to the output when nobody holds the mutex; exit code and closing words agree with the stream, as far as the status fits into a byte (`StatusFits`); nobody waits with the mutex in hand, but for an `exit()` that is under way (`HolderMoves`); no deadlock |
| `core_fork` | the main process and two children, one thread each, two calls each | the exit code of main judges the tests of all; no process takes the mutex along; every process ends; no deadlock |
| `core_stream` | main with two threads, a child; tests, skips, everybody may bail out, the child may be killed at every step | refinement of `TapStream`; results numbered 1, 2, 3, ...; counters equal to the output when nobody holds the mutex; only "Bail out!" tears a line (`OnlyBailTears`) |
| `core_bail`, `core_must`, `core_status` | two threads | findings 1-3 |
| `blocks` | two threads, three blocks each, nested or in sequence | a failure is excused exactly in TODO blocks (`TodoIffInBlock`), and in them even after breaks out of other blocks (`InsideIsExcused`); skipped tests do not run, not even after breaks (`SkippedNotRun`); however blocks are left, no null pointer, no node of the other kind and no "flow broken" unless a block was opened before the keys were created (`BrokenOnlyBeforeInit`) |
| `blocks_left` | one thread, two blocks | finding 4 |
| `init` | two threads, two calls each, out of good, bad and oddly named results, `skip`, `plan_tests` (one thread, first) and `tap_init`; with and without fork mode | one initialisation, unless `tap_init()` overlaps with another first call; "Library is already initialized" only for a program that calls `tap_init()`, and during an implicit initialisation only if first calls overlap (`InitialisedOnce`); no result lost and every call returns if the first call does not overlap, and is no result in fork mode |
| `init_early`, `init_threads` | one thread; two threads | findings 5 and 6 |
| `params` | four rounds of 0 to 3 tests, any of them preset to be skipped, three parameters (a number, a string, an enum), command lines of up to three out of 21 options; the same rounds with 36 pairs of initialisers; 169 structs of two members; some 4000 sections; counters modulo 8, which 12 tests wrap | exactly the rounds that were asked for run, in order and `count` times; the last override counts; the plan is what runs; a mistake stops everything; the parameters are the members of the struct (`ParamsAreMembers`); `-v` tells once of each round that runs, and of no other, with the values that it gets (`TellsWhatRuns`) and its initialisers (`TellsTheRound`); `-i` shows every value under its tag and in full (`InfoReadsBack`), on lines that fit (`LinesFold`) |

**Bounds.** Three threads are needed for a holder, a waiter and one that ends at
the same time; two calls each let a plan meet a result, and a result another
result in every order, and let plans of 2 or 3 be missed, met and exceeded.
`skip` with 2 covers its loop. In `TapCore` the numbers wrap only in the exit status, which
has its own run with a plan of 256; in `params` `IntSize` is 8, so that the plan of
6 tests twice wraps, and one of 4 tests twice wraps to 0, which `plan_tests()` refuses. Three blocks are the smallest number with a
block between two others; nothing in the code looks further than one node. Two
threads with two calls each let a first call meet another first call, or a second
one of the thread that initialised. Three options are enough for two that interact
and one between or after them; tokens lie inside, across and the wrong way round
of the table of four. Two members let the end of one meet the beginning of the
next, in 13 forms each: with and without blanks, stars and dimensions, nested
braces, and four forms that the parser does not understand. The initialisers
have in them everything that means something outside: quotes, commas, braces,
parentheses, names. A line has 9 columns instead of 80 (`LineLen`): texts of up to
7 of three characters (a letter, the blank, the newline) then are shorter than a
line, as long, longer by a word, and one word; sections have up to three entries
of three tags, one the beginning of another.

**Deadlock** is checked where processes are not killed and nobody bails out with
the mutex; otherwise the mutex may stay with the dead, the survivors wait for
ever (finding 2), and the cfg says `CHECK_DEADLOCK FALSE`. The same goes for `TapInit`, where threads
whose first calls overlap may wait for a mutex that nobody will unlock.

**Fairness.** `FairSpec` has weak fairness on `Work(t)`, for each thread: the
scheduler eventually runs a thread that can move. That covers taking the mutex in
`exit_status()` and `_cleanup()`: other threads make finitely many calls, so that
it is eventually free for good. There is no fairness on what the program chooses
(`Enter`, `Spawn`), on `Kill`, or on `ExitTwice`. In `TapInit` it is weak fairness on
`Step(t)`, every step inside a call, and none on beginning one.

### Findings

1. `core_bail`: `BAIL_OUT()` in a child of fork mode ends the child only; main
   exits 0 after `Bail out!`, where `tap.h:152` says "Interrupt the execution and
   fail".
2. `core_must`: a mandatory test that fails in a child exits with the mutex
   locked (`tap.c:237`); main waits for ever.
3. `core_status`: the exit status keeps 8 bits; with 256 planned tests and none
   run the program exits 0 (`tap.h:116`).
4. `blocks_left`: after a `break` out of a TODO block, failures outside of it are
   excused (`tap_skip_todo.c:191`).
5. `init_early`: with `TAP_FLAGS(TAP_FLAGS_FORK)` and a first call that fails, `diag()`
   initialises the library in the middle of the call, the counters are replaced
   by fresh ones, and the program exits 0 (`tap.c:291`, `tap.c:458`).
6. `init_threads`: the implicit initialisation makes a mutex that another thread
   holds free again; two threads print the same number, where `tap.3:337` says that
   the library "should be thread safe".
Seen while modelling, and kept out of the properties by name:

- A plan refused in a child sets the shared `test_died` (`tap.c:324`), so that main writes no
  plan at the end, and still exits 0, where `tap.3:59-63` says that a second plan makes
  the program "exit prematurely". `VerdictAgrees` allows that one thing, and nothing
  else to be wrong with an output for which the code is 0.
- `skip()` in a TODO block inside its SKIP2 continues the TODO block (`tap.h:403`), and tests
  that it reported as skipped run (`misled`, the exception in `SkippedNotRun`).
- The entries of a record are found by prefix (`tap_main.c:92`): `author_mail` shows
  the value of `author` instead of its own. `InfoReadsBack` makes an exception of tags that
  begin with another one (`Apart`), and of no other tag of the section.
- Where first calls overlap, an implicit initialisation may end the program with "Library
  is already initialized": another thread's `tap_init()` sets the flag between the second
  look (`tap.c:69`) and the check that follows (`tap.c:278`) (the exception in
  `InitialisedOnce`).
- `BAIL_OUT` may begin in the middle of another thread's line (`LinesWhole` is checked
  where nobody calls it, `OnlyBailTears` where somebody does).
- Two threads that exit at the same time, one of them from a mandatory test with the
  mutex held, wait for each other if the C library lets one thread run `exit()` (the
  exception in `HolderMoves`). A process that ends while another of its threads holds
  the shared mutex leaves it locked (`NoOrphanLock` is checked for processes with one
  thread).
- A word longer than a line takes the newlines behind it along; a scalar whose name
  leaves no room has, compared as unsigned, very much room (`LinesFold`, `Fits`).
- The parser takes one declarator with at most one dimension: of `int a, b;`, of
  two dimensions and of bit-fields it makes other names, and `char*p;`, without a
  blank, ends in a null pointer (`Understood` in `ParamsAreMembers`).
- An initialiser with a parenthesis, a member directly behind the parenthesis of
  `TAP_PARAMS_VALUES(`, and a string that ends with two backslashes end or mislead the look-up
  of `-v` (`PlainText` in `TellsTheRound`); a parameter called `plan` or `skip` is
  found in `.tap.plan`.

## 4. What is proved

The theorems hold for every value of the constants that satisfies the assumption of
the module: all threads, processes, menus and bounds in `TapCore` (`CoreAssumption`),
threads and nestings in `SkipTodo`, threads and calls in `TapInit`
(`TapInitAssumption`), rounds, programs and command lines in `TapParams`
(`TapParamsAssumption`). Hypotheses beyond these are part of a theorem's statement,
and are named here; each is met by a run that checks the property.

`TapCoreProof`:

- `TypeCorrect`: `Spec => []TypeOK`. Releasing the mutex must not count below
  zero, so the induction needs `Exclusion` as well. The subtraction in
  `exit_status()` stays a natural number (`PlannedStatusNat`).
- `MutualExclusion`: `Spec => []Exclusion`. A thread in a critical label holds the
  mutex and no two threads hold it. Each step keeps the mutex (`Keeps`), takes it
  (`Takes`) or drops it on leaving the critical labels (`Drops`). Killing or ending
  a process keeps `held`: a dead thread still excludes the others.
- `ResultsNumberedInOrder`: `Spec => []NumberedInOrder`. That numbers increase and
  that none is missing is not inductive: a thread between counting and printing
  has a number that is not on the output. `Numbered` says that the numbers on the
  output are exactly `1..Printed`, with `Printed` one less than the counter while a
  thread is there; `Exclusion` says that there is at most one such thread. A step
  is quiet (`Quiet`), counts, or prints the number `Printed + 1` at the end of the
  output (`NewResult`).
- `OnlyBailOutTears`: `Spec => []OnlyBailTears`. As long as nobody bailed out, whoever
  began a line is still before its end and has the mutex (`Tearing`).
- `WholeWithoutBailOut`: if no menu has `BAIL_OUT`, `Spec => []LinesWhole`. Then
  bailing out comes from mandatory tests only, which hold the mutex (`Whole`).
- `CountersMatch`: `Spec => []CountersMatchStream`. `Counting` relates the
  cardinalities of the results and failures on the output to the counters also while
  a thread holds the mutex, one failure being owed between counting and printing.

`TapPlanProof`, `PlannedOnce`: with `PlanFirst`, `Spec => []OnePlanLine`. The lines alone
do not tell who may still write a plan. `Planned` adds: before the first call there
is only the main thread, and no plan (`Fresh`); who skips everything is alone until
the process ends (`SkipsAlone`); a plan line has its flag, and
there is none at the end after a refused plan (`Announced`); between
accepting a plan and writing it there is none (`Pending`); `_cleanup()` runs once in
a process (`Handlers`).

`TapStreamProof`, `StreamImplemented`: with `PlanFirst` and `Joins`, `TapCore` implements
`TapStream`. The hard line is the plan at the end: it must announce the results
that are there, and none may follow. `Streaming` says that until there is a plan
there is one thread and no result (`Opening`), that the main process ends for a
reason, and if for none of the bad ones, after everybody else (`Leaving`), and
that a plan behind results is that of `_cleanup()`, with nobody left (`Closes`). Each
step then writes a line that the stream allows, or none.

`SkipTodoProof`, without further hypotheses: `TypeCorrect`, `TodoExactlyInBlocks`,
`ExcusedAfterBreaks`, `SkippedStaysSkipped`, `OnlyEarlyBreaks`, for the five properties
that `blocks` checks. The invariant `Lists` speaks of the threads that opened no block
before both keys were created. Such a thread has neither blocks nor nodes until then
(`Untouched`); its lists have nodes of their own kind only (`Sorted`), at least one for
each open block of that kind (`Covered`), and all of them were evaluated once, but
perhaps that of a block just opened (`Entered`). `Covered` is what a `break` leaves
true: it adds a node too many, and the second evaluation of a condition takes away one
node with one block. If the thread has left
none that way, there is exactly one node for each block (`Matched`). A block whose rest is
skipped is the innermost one and about to be left (`Reported`), unless `skip()` was
called in a TODO block; any node will do for that, since all were evaluated once.

`TapExitProof`, for programs that plan first (`PlanFirst`), join their threads and
children (`Joins`), and whose children neither call `BAIL_OUT()` nor fail a mandatory
test (`NoBailInChildren`; finding 1 is what happens otherwise). Threads of the main
process may bail out.

- `ExitCodeAgrees`: `Spec => []VerdictAgrees`, and `DiagnosisMatches`:
  `Spec => []DiagnosisAgrees`. Both compare what `exit_status()` made of the structure
  with what is on the output after `_cleanup()`. They rest on `Counting`, `Numbered`,
  `Planned` and `Streaming`, and on `Exits`, which says for every place on the way out
  why the process ends and with which status: somebody bailed out and is on the way to
  exit with 255 (`Bailing`), a plan was refused (`Refused`), everything is
  skipped (`SkipsAll`), or `main()` returned (`Reasons`); that the plan on the output is
  the one in the structure (`Announces`); that the handlers run in one thread
  (`Handled`) and the code is that of the thread that ran them (`Coded`); and that what
  `exit_status()` computed stays true until the end (`Judging`), which is where the
  second critical section could disagree with the first.
  The exceptions are in the properties and not in hypotheses: a status above 255,
  of which the kernel keeps a byte (`StatusFits`, finding 3), and a plan refused in
  a child.
- `NobodyDiesHolding`: with one thread in each process (`OneThreadEach`), no mandatory
  test that fails (`MandatoryPass`, finding 2) and nobody killed, `Spec => []NoOrphanLock`.
  `Balanced` says that each thread holds the mutex once in its critical sections, and
  not at all elsewhere.

`TapInitProof`, without further hypotheses: `InitTypeCorrect`, `OneInitialisation`,
`NothingIsLost`, for the three invariants that `init` checks. `todo`, what a thread
has left to do, is too coarse to reason from, since two calls may have the same
rest. The invariant `InitInv` therefore says that there is for each thread a place
(the call, its step, and the stage within an `INIT` or a `LOCK`) from which exactly
`todo` is left (`At`), and that these places are sound together: exactly the
stages of an implicit initialisation have the guard (`Guarded`); who is in a call begun
before the library was ready, the holder of the guard included, is alone, unless calls
overlap (`Alone`); nobody is before the initialisation when it has happened, unless
somebody called `tap_init()`, and the holder of the guard is not even then, unless calls
overlap (`Once`); in
fork mode nothing is printed before the mapping (`Mapped`); each thread holds as
many locks as its place says, or one less after the initialisation in the middle of its
own critical section made the mutex anew (`Locked`); and the counters are what
is printed, but for one result that is owed (`Counted`).

`TapParamsProof`, without further hypotheses: `ParamsTypeCorrect`, `RunsSelected`,
`SeesOverrides`, `PlanIsMet`, `MistakesEndIt`, `TellsOfTheRuns`. The properties say what a whole command line
means; the code reads one option at a time. `Followed` therefore says that, unless
there was a mistake, the variables are at every moment what the options read so far
mean: the last `-c`, the tokens of all `-r`, the last `-p` of each name. `Looped`
says that the calls of `tap_main()` are those of the selected rounds before the current
one, `count` of each and in order, and `turn` of the current one; `Tested` that the tests
counted so far are theirs. The code sums the plans once, multiplies and wraps, and
counts tests with a wrap at every round: `PlanSumRemove` lets the sum be taken apart
at any round, and `AddRemainder` lets the wraps be put off. `Typed` and `Ordered` give
the types and what comes after what. `Said`, for `-v`, relates what was told to the
rounds that ran: the same rounds, in increasing order, with the values of the command
line. A round is told before its first call, and by `Looped` there was a call exactly
if `turn` is past 0.

`TapInfoProof`, without further hypotheses (the exception for tags that begin with
another one is part of `InfoReadsBack`): `ShowsTheInformation`, `FoldsWell`. `InfoInv` says
that the records are the tags of the section in the order of their first places, and that a
record is an array if its tag is there twice (`Recordings`, which the fold in
`Collect` builds entry by entry); that each record that was begun shows its entries up
to the current position, with `rest` still to come of the last one (`Shows`), an item being found
by the number of entries of its tag before it; and that a value of several lines is
folded as it should be, the one being printed included (`Foldings`). The last is what
`LineEnd` returns: a first line that fits, or one word, and never nothing
(`LineEnds`). Folds and `FlattenSeq` are recursive functions of the library; their
values are had from `Recursion` and `Induction`, which rest on the least element of a set.

Model-checked only:

- `EventuallyExits` and `CallsReturn`, liveness; `HolderMoves`, which has ENABLED.
- `ParamsAreMembers` and `TellsTheRound` (`ParamsDef`). They compare a parser of texts
  with what the compiler makes of the same texts. The instance gives both, as
  constants; a proof for every program would need the grammar of C as an
  assumption, and an induction along it.

## 5. Plan

Done: all modules above with their runs; the theorems of section 4. What is left:

1. `TapProgram`: rounds, blocks and core together.
2. `fork()` without `TAP_FLAGS_FORK`, where each process has its own counters and its
   own end (the hazard at `tap.c:284` that no property covers).

## 6. Not modelled

- The text of `-h` and its list of parameters (`tap_dump_def()`): no state changes.
- Which values `is()`, `isnt()` and `cmp_ok()` find equal, and what they print:
  conversions of C and printf; a comparison is a `test` with a free outcome.
- Flags that change the wording only (TRACE, ERRNO, YAMLISH), and stderr but for the
  closing words.
- Allocations that fail.
- The value that `sscanf()` makes of an override, in range or not.
- The build without pthreads (one thread), the build system, the C library, and the
  Perl side of the tests, which compares with Test::More.
