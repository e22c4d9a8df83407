------------------------------ MODULE TapCore ------------------------------
(***************************************************************************)
(* The core of libtap (src/src/tap.c, the build with HAVE_LIBPTHREAD) after*)
(* tap_init(): threads of several processes report test results, plan,     *)
(* skip and exit over one struct tap_shm_s guarded by one recursive,       *)
(* process-shared mutex, and write to one standard output.                 *)
(*                                                                         *)
(* A step is what runs between two points where another thread could       *)
(* matter: taking the mutex, each update of the shared structure, each     *)
(* piece of a line that is written on its own (stdout is unbuffered), and  *)
(* releasing the mutex.  What a call does before its LOCK (formatting its  *)
(* arguments) touches nothing shared and is part of taking it.             *)
(***************************************************************************)
EXTENDS Naturals, Sequences, FiniteSets

CONSTANTS
    Thread,      \* all threads the test program may ever have
    Process,     \* all processes
    ProcOf,      \* the process of each thread
    Leader,      \* the thread of each process that runs main()
    Main,        \* the process that called tap_init()
    ForkMode,    \* TAP_FLAGS_FORK: the structure is shared between processes
    Menu,        \* the calls that the code of each thread may make
    MaxCalls,    \* bound: library calls made by one thread
    PlanFirst,   \* the program follows "you must first specify a test plan"
    Joins,       \* main() returns only when its threads and children are done
    Killable     \* processes that a signal may kill at any time

\* A library call with its arguments; ok, todo and mp are those of a test:
\* did it pass, is the thread in a TODO block, is it mandatory to pass (MP).
Call == [op : {"test", "skip", "diag", "plan_tests", "plan_no_plan",
               "plan_skip_all", "BAIL_OUT", "exit_status"},
         n : Nat, ok : BOOLEAN, todo : BOOLEAN, mp : BOOLEAN]

PlanOps == {"plan_tests", "plan_no_plan", "plan_skip_all"}

ASSUME CoreAssumption ==
    /\ ProcOf \in [Thread -> Process]
    /\ Leader \in [Process -> Thread]
    /\ \A p \in Process : ProcOf[Leader[p]] = p
    /\ Main \in Process
    /\ ForkMode \in BOOLEAN
    /\ ~ForkMode => Process = {Main}
    /\ Menu \in [Thread -> SUBSET Call]
    /\ \A t \in Thread : \A c \in Menu[t] : c.op # "exit_status"
    /\ MaxCalls \in Nat
    /\ PlanFirst \in BOOLEAN
    /\ Joins \in BOOLEAN
    /\ Killable \subseteq Process

VARIABLES
    shm,       \* *tap_shm: the flags and counters
    held,      \* held[t]: how often t holds the recursive mutex tap_shm->lock
    pc,        \* where each thread is in the call it makes
    call,      \* the call each thread makes, or made last
    status,    \* the argument of the exit() each thread is in
    calls,     \* calls made by each thread, up to MaxCalls
    lines,     \* the lines begun on stdout, as TapStream has them
    bol,       \* stdout is at the beginning of a line
    torn,      \* some line was begun in the middle of another
    exiting,   \* processes whose atexit handler _cleanup() was taken
    code,      \* wait status of each process: Running, Killed or 0..255
    verdict    \* the closing diagnostic written by _cleanup(), "none" before

vars == <<shm, held, pc, call, status, calls, lines, bol, torn, exiting, code, verdict>>
local == <<call, status, calls>>
output == <<lines, bol, torn>>
process == <<exiting, code, verdict>>

Running == 256      \* not an exit code: the process has not ended
Killed == 257       \* not an exit code: ended by a signal

Labels == {"unborn", "idle", "done", "test", "print", "eol", "skip",
           "plan_tests", "plan_no_plan", "plan_set", "plan_skip_all", "skip_all_eol",
           "bail", "bail_eol", "unlock", "leave", "exit_status", "late",
           "exit", "cleanup", "halt"}

Verdicts == {"none", "no_output", "died", "extra", "short", "failed", "clean"}

Line == [kind : {"result", "plan", "bail"}, num : Nat, good : BOOLEAN]

Shm == [no_plan : BOOLEAN, skip_all : BOOLEAN, have_plan : BOOLEAN,
        test_count : Nat, e_tests : Nat, failures : Nat, test_died : BOOLEAN]

NoCall == [op |-> "diag", n |-> 0, ok |-> TRUE, todo |-> FALSE, mp |-> FALSE]

Init ==
    /\ shm = [no_plan |-> FALSE, skip_all |-> FALSE, have_plan |-> FALSE,
              test_count |-> 0, e_tests |-> 0, failures |-> 0, test_died |-> FALSE]
    /\ held = [t \in Thread |-> 0]
    /\ pc = [t \in Thread |-> IF t = Leader[Main] THEN "idle" ELSE "unborn"]
    /\ call = [t \in Thread |-> NoCall]
    /\ status = [t \in Thread |-> 0]
    /\ calls = [t \in Thread |-> 0]
    /\ lines = <<>> /\ bol = TRUE /\ torn = FALSE
    /\ exiting = {}
    /\ code = [p \in Process |-> Running]
    /\ verdict = "none"

-----------------------------------------------------------------------------
(* Helpers *)

Live(t) == code[ProcOf[t]] = Running
At(t, l) == pc[t] = l /\ Live(t)
Goto(t, l) == pc' = [pc EXCEPT ![t] = l]

\* Mutation: every process takes itself for the main one.
IsMain_Always(p) == TRUE

\* tap_shm->main_pid is set in fork mode only.
IsMain(p) == ~ForkMode \/ p = Main

\* Mutation: LOCK does nothing, as in the build without pthreads.
LockFree_Always(t) == TRUE

\* Mutation: the mutex is not recursive.
LockFree_Plain(t) == \A u \in Thread : held[u] = 0

\* The mutex.  It is recursive; it is not robust, so that a thread which dies
\* with it keeps it.
LockFree(t) == \A u \in Thread \ {t} : held[u] = 0
Lock(t) == LockFree(t) /\ held' = [held EXCEPT ![t] = @ + 1]
Unlock(t) == held' = [held EXCEPT ![t] = @ - 1]

\* Mutation: exit() without the UNLOCK.
UnlockToExit_Never(t) == UNCHANGED held

\* The UNLOCK of a call that exits, or of exit_status().
UnlockToExit(t) == Unlock(t)

\* Begin a line; newline says whether the same write also ends it.
Emit(kind, num, good, newline) ==
    /\ lines' = Append(lines, [kind |-> kind, num |-> num, good |-> good])
    /\ torn' = (torn \/ ~bol)
    /\ bol' = newline
EndLine == bol' = TRUE /\ UNCHANGED <<lines, torn>>

-----------------------------------------------------------------------------
(* The test program, as far as it constrains the calls *)

Started == \E t \in Thread : calls[t] > 0

\* The documented rule: the first call plans; plan_skip_all() replaces a plan.
Documented(c) ==
    PlanFirst => IF Started THEN c.op # "plan_skip_all" ELSE c.op \in PlanOps

MayCall(t, c) ==
    /\ At(t, "idle")
    /\ calls[t] < MaxCalls
    /\ Documented(c)

\* pthread_create() in the same process, or fork().
Spawn(t, u) ==
    /\ At(t, "idle")
    /\ pc[u] = "unborn"
    /\ ProcOf[u] = ProcOf[t] \/ u = Leader[ProcOf[u]]
    /\ PlanFirst => Started
    /\ Goto(u, "idle")
    /\ UNCHANGED <<shm, held, local, output, process>>

\* A thread other than the one running main() ends.
Finish(t) ==
    /\ At(t, "idle")
    /\ t # Leader[ProcOf[t]]
    /\ Goto(t, "done")
    /\ UNCHANGED <<shm, held, local, output, process>>

Joined(t) ==
    \A u \in Thread \ {t} :
        \/ pc[u] \in {"unborn", "done"}
        \/ ~Live(u)
        \/ ProcOf[t] # Main /\ ProcOf[u] # ProcOf[t]

-----------------------------------------------------------------------------
(* A call takes the mutex *)

Enter(t, c) ==
    /\ MayCall(t, c)
    /\ c.op # "BAIL_OUT"
    /\ Lock(t)
    /\ call' = [call EXCEPT ![t] = c]
    /\ calls' = [calls EXCEPT ![t] = @ + 1]
    /\ Goto(t, IF c.op = "diag" THEN "unlock" ELSE c.op)
    /\ UNCHANGED <<shm, status, output, process>>

\* The UNLOCK and return of every call that returns.
Return(t) ==
    /\ At(t, "unlock")
    /\ Unlock(t)
    /\ Goto(t, "idle")
    /\ UNCHANGED <<shm, local, output, process>>

\* The UNLOCK before an exit() inside a plan function.
Leave(t) ==
    /\ At(t, "leave")
    /\ UnlockToExit(t)
    /\ Goto(t, "exit")
    /\ UNCHANGED <<shm, local, output, process>>

-----------------------------------------------------------------------------
(* _vgen_result(): ok(), pass(), fail(), is(), isnt(), cmp_ok() *)

\* Mutation: a failure in a TODO block counts.
Excused_Never(c) == c.ok

Excused(c) == c.ok \/ c.todo

Count(t) ==
    /\ At(t, "test")
    /\ shm' = [shm EXCEPT !.test_count = @ + 1,
                          !.failures = IF Excused(call[t]) THEN @ ELSE @ + 1]
    /\ Goto(t, "print")
    /\ UNCHANGED <<held, local, output, process>>

PrintResult(t) ==
    /\ At(t, "print")
    /\ Emit("result", shm.test_count, call[t].ok \/ call[t].todo, FALSE)
    /\ Goto(t, "eol")
    /\ UNCHANGED <<shm, held, local, process>>

\* The end of the line, then the diagnostics on stderr; a mandatory test that
\* failed, TODO or not, bails out with the mutex held.
Eol(t) ==
    /\ At(t, "eol")
    /\ EndLine
    /\ Goto(t, IF ~call[t].ok /\ call[t].mp THEN "bail" ELSE "unlock")
    /\ UNCHANGED <<shm, held, local, process>>

\* Mutation: the number is taken before it is incremented.
SkipNumber_Stale == shm.test_count

SkipNumber == shm.test_count + 1

\* skip_f(): one round of its loop, or its end.
Skip(t) ==
    /\ At(t, "skip")
    /\ call[t].n > 0
    /\ shm' = [shm EXCEPT !.test_count = @ + 1]
    /\ Emit("result", SkipNumber, TRUE, TRUE)
    /\ call' = [call EXCEPT ![t].n = @ - 1]
    /\ UNCHANGED <<pc, held, status, calls, process>>

SkipEnd(t) ==
    /\ At(t, "skip")
    /\ call[t].n = 0
    /\ Goto(t, "unlock")
    /\ UNCHANGED <<shm, held, local, output, process>>

-----------------------------------------------------------------------------
(* plan_tests(), plan_no_plan(), plan_skip_all() *)

Planning(t) == At(t, "plan_tests") \/ At(t, "plan_no_plan")

\* Mutation: a second plan is not noticed.
BadPlan_Once(t) == call[t].op = "plan_tests" /\ call[t].n = 0

\* "You tried to plan twice!", "You said to run 0 tests!"
BadPlan(t) == shm.have_plan \/ (call[t].op = "plan_tests" /\ call[t].n = 0)

PlanRefused(t) ==
    /\ Planning(t)
    /\ BadPlan(t)
    /\ shm' = [shm EXCEPT !.test_died = TRUE]
    /\ status' = [status EXCEPT ![t] = 255]
    /\ Goto(t, "leave")
    /\ UNCHANGED <<held, call, calls, output, process>>

PlanAccepted(t) ==
    /\ Planning(t)
    /\ ~BadPlan(t)
    /\ shm' = [shm EXCEPT !.have_plan = TRUE, !.no_plan = (@ \/ call[t].op = "plan_no_plan")]
    /\ Goto(t, IF call[t].op = "plan_no_plan" THEN "unlock" ELSE "plan_set")
    /\ UNCHANGED <<held, local, output, process>>

\* _expected_tests()
PlanSet(t) ==
    /\ At(t, "plan_set")
    /\ Emit("plan", call[t].n, TRUE, TRUE)
    /\ shm' = [shm EXCEPT !.e_tests = call[t].n]
    /\ Goto(t, "unlock")
    /\ UNCHANGED <<held, local, process>>

PlanSkipAll(t) ==
    /\ At(t, "plan_skip_all")
    /\ shm' = [shm EXCEPT !.skip_all = TRUE]
    /\ Emit("plan", 0, TRUE, FALSE)
    /\ status' = [status EXCEPT ![t] = 0]
    /\ Goto(t, "skip_all_eol")
    /\ UNCHANGED <<held, call, calls, process>>

SkipAllEol(t) ==
    /\ At(t, "skip_all_eol")
    /\ EndLine
    /\ Goto(t, "leave")
    /\ UNCHANGED <<shm, held, local, process>>

-----------------------------------------------------------------------------
(* BAIL_OUT_f(): "not allowed to lock" *)

EnterBailOut(t, c) ==
    /\ MayCall(t, c)
    /\ c.op = "BAIL_OUT"
    /\ call' = [call EXCEPT ![t] = c]
    /\ calls' = [calls EXCEPT ![t] = @ + 1]
    /\ Goto(t, "bail")
    /\ UNCHANGED <<shm, held, status, output, process>>

Bail(t) ==
    /\ At(t, "bail")
    /\ Emit("bail", 0, FALSE, FALSE)
    /\ Goto(t, "bail_eol")
    /\ UNCHANGED <<shm, held, local, process>>

BailEol(t) ==
    /\ At(t, "bail_eol")
    /\ EndLine
    /\ status' = [status EXCEPT ![t] = 255]
    /\ Goto(t, "exit")
    /\ UNCHANGED <<shm, held, call, calls, process>>

-----------------------------------------------------------------------------
(* exit(exit_status()), _cleanup() and the end of a process *)

\* main() has run its tests and evaluates exit_status().
ReturnFromMain(t) ==
    /\ At(t, "idle")
    /\ t = Leader[ProcOf[t]]
    /\ Joins => Joined(t)
    /\ PlanFirst => Started
    /\ Lock(t)
    /\ call' = [call EXCEPT ![t] = [NoCall EXCEPT !.op = "exit_status"]]
    /\ Goto(t, "exit_status")
    /\ UNCHANGED <<shm, status, calls, output, process>>

Unplanned == shm.no_plan \/ ~shm.have_plan

\* Mutations: extra tests are not told apart; tests that did not run are not
\* counted.
PlannedStatus_Extra == shm.failures + shm.e_tests - shm.test_count
PlannedStatus_Short ==
    IF shm.e_tests < shm.test_count THEN shm.test_count - shm.e_tests ELSE shm.failures

\* The value computed under the mutex: tests that should not have run, or
\* failures plus tests that did not run.
PlannedStatus ==
    IF shm.e_tests < shm.test_count
    THEN shm.test_count - shm.e_tests
    ELSE shm.failures + shm.e_tests - shm.test_count

ExitStatus(t) ==
    /\ At(t, "exit_status")
    /\ UnlockToExit(t)
    /\ IF IsMain(ProcOf[t]) /\ Unplanned
       THEN Goto(t, "late") /\ UNCHANGED status
       ELSE /\ Goto(t, "exit")
            /\ status' = [status EXCEPT ![t] = IF IsMain(ProcOf[t]) THEN PlannedStatus ELSE 0]
    /\ UNCHANGED <<shm, call, calls, output, process>>

\* Without a plan the failures are read after the UNLOCK.
LateStatus(t) ==
    /\ At(t, "late")
    /\ status' = [status EXCEPT ![t] = shm.failures]
    /\ Goto(t, "exit")
    /\ UNCHANGED <<shm, held, call, calls, output, process>>

\* exit() runs the atexit handler in the first thread that gets here.
RunHandlers(t) ==
    /\ At(t, "exit")
    /\ ProcOf[t] \notin exiting
    /\ exiting' = exiting \union {ProcOf[t]}
    /\ Goto(t, "cleanup")
    /\ UNCHANGED <<shm, held, local, output, code, verdict>>

\* A second exit() while the first runs the handler is undefined: it may end
\* the process at once, or wait for ever (the step is not taken).
ExitTwice(t) ==
    /\ At(t, "exit")
    /\ ProcOf[t] \in exiting
    /\ code' = [code EXCEPT ![ProcOf[t]] = status[t] % 256]
    /\ Goto(t, "halt")
    /\ UNCHANGED <<shm, held, local, output, exiting, verdict>>

\* Mutation: the tests that did not run are not reported.
Closing_NoShort ==
    IF ~shm.no_plan /\ ~shm.have_plan /\ ~shm.skip_all THEN "no_output"
    ELSE IF shm.test_died THEN "died"
    ELSE IF shm.have_plan /\ ~shm.no_plan /\ shm.e_tests < shm.test_count THEN "extra"
    ELSE IF shm.failures > 0 THEN "failed"
    ELSE "clean"

\* The first of these that applies.
Closing ==
    IF ~shm.no_plan /\ ~shm.have_plan /\ ~shm.skip_all THEN "no_output"
    ELSE IF shm.test_died THEN "died"
    ELSE IF shm.have_plan /\ ~shm.no_plan /\ shm.e_tests < shm.test_count THEN "extra"
    ELSE IF (shm.have_plan \/ ~shm.no_plan) /\ shm.e_tests > shm.test_count THEN "short"
    ELSE IF shm.failures > 0 THEN "failed"
    ELSE "clean"

\* Mutation: the plan is printed even if it was announced before.
TrailingPlan_Always == ~shm.skip_all /\ Closing \notin {"no_output", "died"}

TrailingPlan == ~shm.skip_all /\ Unplanned /\ Closing \notin {"no_output", "died"}

Cleanup(t) ==
    /\ At(t, "cleanup")
    /\ LockFree(t)
    /\ Goto(t, "halt")
    /\ IF IsMain(ProcOf[t])
       THEN /\ verdict' = Closing
            /\ IF TrailingPlan
               THEN Emit("plan", shm.test_count, TRUE, TRUE)
               ELSE UNCHANGED output
       ELSE UNCHANGED <<verdict, output>>
    /\ UNCHANGED <<shm, held, local, exiting, code>>

Halt(t) ==
    /\ At(t, "halt")
    /\ code' = [code EXCEPT ![ProcOf[t]] = status[t] % 256]
    /\ UNCHANGED <<shm, held, pc, local, output, exiting, verdict>>

\* Mutation: the kernel frees the mutex of the dead.
HeldWithout_Robust(p) == [t \in Thread |-> IF ProcOf[t] = p THEN 0 ELSE held[t]]

\* The mutex is not robust: it stays with a thread that is killed.
HeldWithout(p) == held

\* The tested code crashes, or the process is killed from outside.
Kill(p) ==
    /\ p \in Killable
    /\ code[p] = Running
    /\ pc[Leader[p]] # "unborn"
    /\ code' = [code EXCEPT ![p] = Killed]
    /\ held' = HeldWithout(p)
    /\ UNCHANGED <<shm, pc, local, output, exiting, verdict>>

Over == \A t \in Thread : pc[t] \in {"unborn", "done"} \/ ~Live(t)

\* Every thread has ended: nothing is left to do.
Terminated == Over /\ UNCHANGED vars

-----------------------------------------------------------------------------

\* What a thread does by itself once it made a call, and its ends.
Work(t) ==
    \/ Count(t) \/ PrintResult(t) \/ Eol(t) \/ Skip(t) \/ SkipEnd(t)
    \/ PlanRefused(t) \/ PlanAccepted(t) \/ PlanSet(t) \/ PlanSkipAll(t) \/ SkipAllEol(t)
    \/ Bail(t) \/ BailEol(t) \/ Return(t) \/ Leave(t)
    \/ ReturnFromMain(t) \/ ExitStatus(t) \/ LateStatus(t)
    \/ RunHandlers(t) \/ Cleanup(t) \/ Halt(t) \/ Finish(t)

Step(t) ==
    \/ Work(t)
    \/ ExitTwice(t)
    \/ \E c \in Menu[t] : Enter(t, c) \/ EnterBailOut(t, c)
    \/ \E u \in Thread : Spawn(t, u)

Next ==
    \/ \E t \in Thread : Step(t)
    \/ \E p \in Process : Kill(p)
    \/ Terminated

Spec == Init /\ [][Next]_vars

\* The scheduler eventually runs every thread that can move, and a test
\* program makes finitely many calls (MaxCalls) before main() returns.
FairSpec == Spec /\ \A t \in Thread : WF_vars(Work(t))
-----------------------------------------------------------------------------
(* Properties *)

\* Every variable has its type.
TypeOK ==
    /\ shm \in Shm
    /\ held \in [Thread -> Nat]
    /\ pc \in [Thread -> Labels]
    /\ call \in [Thread -> Call]
    /\ status \in [Thread -> Nat]
    /\ calls \in [Thread -> 0..MaxCalls]
    /\ lines \in Seq(Line)
    /\ bol \in BOOLEAN
    /\ torn \in BOOLEAN
    /\ exiting \subseteq Process
    /\ code \in [Process -> 0..Killed]
    /\ verdict \in Verdicts

Results == {i \in DOMAIN lines : lines[i].kind = "result"}
Failed == {i \in Results : ~lines[i].good}
Plans == {i \in DOMAIN lines : lines[i].kind = "plan"}

\* Whatever threads and processes report at the same time, are killed or bail
\* out, the numbers on the result lines are 1, 2, 3, ... down the output:
\* counting and printing in _vgen_result() and skip_f() are one critical section.
NumberedInOrder ==
    /\ \A i, j \in Results : i < j => lines[i].num < lines[j].num
    /\ \A i \in Results : \A k \in 1..lines[i].num - 1 :
           \E j \in Results : j < i /\ lines[j].num = k

\* A program that plans first gets one plan line, whether it plans again from
\* another thread, skips everything, or leaves the plan to _cleanup().
OnePlanLine == \A i, j \in Plans : i = j

\* No line is begun in the middle of another: a result is written piece by
\* piece, and all its pieces under the mutex.
LinesWhole == ~torn

\* When nobody holds the mutex the counters say what the output says.
CountersMatchStream ==
    (\A t \in Thread : held[t] = 0) =>
        /\ shm.test_count = Cardinality(Results)
        /\ shm.failures = Cardinality(Failed)

\* Every result is good and nobody bailed out.
AllGood == Failed = {} /\ \A i \in DOMAIN lines : lines[i].kind # "bail"

\* What a harness accepts: the plan was kept, too.
StreamOK ==
    /\ \E i \in Plans : Plans = {i} /\ lines[i].num = Cardinality(Results)
    /\ AllGood

\* main() ended through exit_status(), not through an exit() in a call.
Returned == code[Main] < Running /\ call[Leader[Main]].op = "exit_status"

\* The status of main() fits into the byte that is kept of it.
StatusFits == status[Leader[Main]] < 256

\* The exit code of the main process and the output it leaves agree: 0 only
\* for a stream that a harness accepts, and always for one that main() ended
\* by returning (exit_status() and _cleanup(), two critical sections, judge
\* the same run).  A plan refused in a child sets test_died, which _cleanup()
\* obeys and exit_status() ignores: then the plan at the end may be missing, and
\* nothing else may be wrong.  The other exception is a status that does not
\* fit (ZeroMeansAllRun).
VerdictAgrees ==
    /\ code[Main] = 0 /\ StatusFits =>
           \/ StreamOK
           \/ ForkMode /\ shm.test_died /\ shm.no_plan /\ Plans = {} /\ AllGood
    /\ Returned /\ StreamOK => code[Main] = 0

\* The closing words of _cleanup() on stderr complain about the number of
\* tests or their failures exactly when the exit code does, if it fits.
DiagnosisAgrees ==
    Returned /\ StatusFits /\ verdict # "died" =>
        (verdict \in {"extra", "short", "failed"} <=> code[Main] # 0)

\* The process-shared mutex never stays with a thread of a process that ended:
\* it is not robust, so that everybody else would wait for ever.
NoOrphanLock == \A t \in Thread : held[t] > 0 => Live(t)

\* A thread that holds the mutex never waits for it again, not even in the
\* _cleanup() of a mandatory test that bailed out with the mutex held; what
\* it may wait for is another thread that is in exit() already.
HolderMoves ==
    \A t \in Thread : held[t] > 0 /\ Live(t) =>
        ENABLED Work(t) \/ (pc[t] = "exit" /\ ProcOf[t] \in exiting)

\* Only "Bail out!", which takes no mutex, may begin in the middle of the
\* line of another thread or make its rest run into a new line.
OnlyBailTears == torn => \E i \in DOMAIN lines : lines[i].kind = "bail"

\* The results already printed; a thread between counting and printing has
\* one to come.
Printed == IF \E t \in Thread : pc[t] = "print"
           THEN shm.test_count - 1
           ELSE shm.test_count

\* The inductive invariant behind NumberedInOrder (TapCoreProof).  In the
\* critical labels a thread holds the mutex, and only one thread does; so the
\* results on the output are numbered 1..Printed, and the next one comes last.
Critical == {"test", "print", "eol", "skip", "plan_tests", "plan_no_plan", "plan_set",
             "plan_skip_all", "skip_all_eol", "unlock", "leave", "exit_status"}

Exclusion ==
    /\ \A t \in Thread : pc[t] \in Critical => held[t] > 0
    /\ \A t, u \in Thread : held[t] > 0 /\ held[u] > 0 => t = u

Counted == \A t \in Thread : pc[t] = "print" => shm.test_count > 0

Numbered ==
    /\ \A i \in Results : lines[i].num \in 1..Printed
    /\ \A k \in 1..Printed : \E i \in Results : lines[i].num = k

Stream == INSTANCE TapStream WITH
              stream <- lines,
              ran <- Printed,
              Sizes <- {c.n : c \in UNION {Menu[t] : t \in Thread}}

\* What all the threads and processes write together is one TAP stream.
ImplementsStream == Stream!Spec

\* Once the program started, each of its processes eventually ends: nobody
\* waits for ever for the mutex, for main() or in exit().
EventuallyExits ==
    \A p \in Process : (Started /\ pc[Leader[p]] # "unborn") ~> code[p] # Running

\* "Bail out!" stops the program: tap.h calls it "interrupt the execution
\* and fail".
BailOutStops ==
    (\E i \in DOMAIN lines : lines[i].kind = "bail") ~> code[Main] # Running

\* "Bail out!" fails the program, in the same words.
BailOutFails ==
    (\E i \in DOMAIN lines : lines[i].kind = "bail") => code[Main] # 0

\* "0 if all tests were run, and every test which was expected to succeed
\* succeeded" (tap.h), else not 0.
ZeroMeansAllRun ==
    Returned /\ code[Main] = 0 /\ shm.have_plan /\ ~shm.no_plan =>
        shm.e_tests = shm.test_count
=============================================================================
