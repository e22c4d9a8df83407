------------------------------ MODULE TapInit ------------------------------
(***************************************************************************)
(* The initialisation of libtap (src/src/tap.c): tap_init(), and the       *)
(* implicit initialisation by the first call that has an INIT, while the   *)
(* threads of one process make their first calls.  Initialising replaces   *)
(* the shared structure in fork mode, and initialises its mutex again in   *)
(* any mode; LOCK, UNLOCK and every access read the pointer tap_shm anew.  *)
(*                                                                         *)
(* A call is the sequence of what it still has to do; an INIT that finds   *)
(* the library uninitialised puts the initialisation in front.             *)
(***************************************************************************)
EXTENDS Naturals, Sequences, FiniteSets

CONSTANTS Thread,
          NoThread,
          Planner,      \* the thread that plans, if any does, as its first call
          MaxCalls      \* bound: calls made by one thread

ASSUME TapInitAssumption ==
    NoThread \notin Thread /\ Planner \in Thread /\ MaxCalls \in Nat

VARIABLES
    fork,          \* tap_flags has TAP_FLAGS_FORK
    initialized,   \* the flag of that name
    guard,         \* the holder of the static mutex in tap_implicit_init()
    ptr,           \* tap_shm points to the "static" or to the "shared" structure
    mutex,         \* the mutex in each structure
    count,         \* test_count and failures in each structure
    todo,          \* what each thread has yet to do in its call
    calls,         \* calls made by each thread, up to MaxCalls
    lines,         \* the result lines: their numbers, and whether they are good
    inits,         \* how often the library was initialised
    bailed,        \* "Library is already initialized"
    first,         \* the threads in calls begun before the library was ready
    overlap,       \* another call was made during one of these
    early,         \* a result was begun before the library was ready
    explicit       \* somebody called tap_init()

vars == <<fork, initialized, guard, ptr, mutex, count, todo, calls, lines, inits,
          bailed, first, overlap, early, explicit>>
ghosts == <<calls, first, overlap, early, explicit>>

Structure == {"static", "shared"}

\* The zeroed mutex of a fresh mapping works, but is not recursive.
Fresh == [owner |-> NoThread, depth |-> 0, recursive |-> FALSE]
Recursive == [Fresh EXCEPT !.recursive = TRUE]

Init ==
    /\ fork \in BOOLEAN
    /\ initialized = FALSE
    /\ guard = NoThread
    /\ ptr = "static"
    /\ mutex = [s \in Structure |-> IF s = "static" THEN Recursive ELSE Fresh]
    /\ count = [s \in Structure |-> [tests |-> 0, failures |-> 0]]
    /\ todo = [t \in Thread |-> <<>>]
    /\ calls = [t \in Thread |-> 0]
    /\ lines = <<>>
    /\ inits = 0
    /\ bailed = FALSE
    /\ first = {}
    /\ overlap = FALSE
    /\ early = FALSE
    /\ explicit = FALSE

-----------------------------------------------------------------------------
(* What the calls do.  A nested call locks again. *)

\* _vgen_result() of a good and of a bad test, which calls diag() afterwards;
\* of a test whose name is a number, which calls diag() in between.
PassSteps == <<"lock", "pass", "print_good", "unlock">>
FailSteps == <<"lock", "fail", "print_bad", "INIT", "lock", "unlock", "unlock">>
DigitSteps == <<"lock", "pass", "INIT", "lock", "unlock", "print_good", "unlock">>
Results == {PassSteps, FailSteps, DigitSteps}

\* skip_f() of one test.
SkipSteps == <<"INIT", "lock", "pass", "print_good", "unlock">>

\* plan_tests(): _expected_tests() in it has an INIT and a LOCK of its own.
PlanSteps == <<"INIT", "lock", "INIT", "lock", "unlock", "unlock">>

\* tap_init_f(): its check, its flag, the mapping and the mutex.
InitSteps == <<"tap_init", "set", "map", "mutex_init">>

Calls == Results \cup {SkipSteps, PlanSteps, InitSteps}

-----------------------------------------------------------------------------
(* The steps of the calls *)

InCall(t) == todo[t] # <<>>
Ready == inits > 0
Does(t, step) == ~bailed /\ InCall(t) /\ Head(todo[t]) = step
Continue(t) == todo' = [todo EXCEPT ![t] = Tail(@)]

\* The threads that sleep until the mutex of a structure is unlocked.
Asleep(s) ==
    {t \in Thread : Does(t, s) /\ mutex[s].owner \notin {NoThread, t}}

First(t, steps) == todo' = [todo EXCEPT ![t] = steps \o Tail(@)]

\* The test program makes a call.
Begin(t, call) ==
    /\ ~bailed
    /\ ~InCall(t)
    /\ calls[t] < MaxCalls
    /\ call = PlanSteps => t = Planner /\ calls[t] = 0
    /\ calls' = [calls EXCEPT ![t] = @ + 1]
    /\ todo' = [todo EXCEPT ![t] = call]
    /\ first' = {u \in first : InCall(u)} \cup (IF Ready THEN {} ELSE {t})
    /\ overlap' = (overlap \/ \E u \in first : InCall(u))
    /\ early' = (early \/ (~Ready /\ call \in Results))
    /\ explicit' = (explicit \/ call = InitSteps)
    /\ UNCHANGED <<fork, initialized, guard, ptr, mutex, count, lines, inits, bailed>>

\* The macro INIT: a look at the flag without any lock.
Check(t) ==
    /\ Does(t, "INIT")
    /\ IF initialized THEN Continue(t) ELSE First(t, <<"guard">>)
    /\ UNCHANGED <<fork, initialized, guard, ptr, mutex, count, lines, inits, bailed, ghosts>>

\* Mutation: the flag is not looked at again.
AlreadyDone_Never == FALSE

AlreadyDone == initialized

\* tap_implicit_init(): its static mutex, and the second look.
Guard(t) ==
    /\ Does(t, "guard")
    /\ guard = NoThread
    /\ IF AlreadyDone
       THEN Continue(t) /\ UNCHANGED guard
       ELSE First(t, InitSteps \o <<"unguard">>) /\ guard' = t
    /\ UNCHANGED <<fork, initialized, ptr, mutex, count, lines, inits, bailed, ghosts>>

Unguard(t) ==
    /\ Does(t, "unguard")
    /\ guard' = NoThread
    /\ Continue(t)
    /\ UNCHANGED <<fork, initialized, ptr, mutex, count, lines, inits, bailed, ghosts>>

\* "Library is already initialized"
TapInitCheck(t) ==
    /\ Does(t, "tap_init")
    /\ bailed' = initialized
    /\ Continue(t)
    /\ UNCHANGED <<fork, initialized, guard, ptr, mutex, count, lines, inits, ghosts>>

\* The flag is set before anything is done.
SetFlag(t) ==
    /\ Does(t, "set")
    /\ initialized' = TRUE
    /\ Continue(t)
    /\ UNCHANGED <<fork, guard, ptr, mutex, count, lines, inits, bailed, ghosts>>

\* mmap(), and the pointer to it.
Map(t) ==
    /\ Does(t, "map")
    /\ ptr' = IF fork THEN "shared" ELSE ptr
    /\ count' = IF fork
                THEN [count EXCEPT !["shared"] = [tests |-> 0, failures |-> 0]]
                ELSE count
    /\ mutex' = IF fork THEN [mutex EXCEPT !["shared"] = Fresh] ELSE mutex
    /\ Continue(t)
    /\ UNCHANGED <<fork, initialized, guard, lines, inits, bailed, ghosts>>

\* Mutation: the attributes are not set: the mutex is not recursive.
NewMutex_Plain == Fresh

\* PTHREAD_MUTEX_RECURSIVE
NewMutex == Recursive

\* pthread_mutex_init(): free, whoever holds it.  That is undefined behaviour
\* when somebody does; those who sleep on it may never be woken up.
MutexInit(t) ==
    /\ Does(t, "mutex_init")
    /\ mutex' = [mutex EXCEPT ![ptr] = NewMutex]
    /\ inits' = inits + 1
    /\ \E lost \in SUBSET Asleep(ptr) :
           todo' = [u \in Thread |-> IF u = t THEN Tail(todo[t])
                                     ELSE IF u \in lost THEN <<"lost">>
                                     ELSE todo[u]]
    /\ UNCHANGED <<fork, initialized, guard, ptr, count, lines, bailed, ghosts>>

\* LOCK evaluates tap_shm first.
Lock(t) ==
    /\ Does(t, "lock")
    /\ First(t, <<ptr>>)
    /\ UNCHANGED <<fork, initialized, guard, ptr, mutex, count, lines, inits, bailed, ghosts>>

Acquire(t, s) ==
    /\ Does(t, s)
    /\ \/ mutex[s].owner = NoThread
       \/ mutex[s].owner = t /\ mutex[s].recursive
    /\ mutex' = [mutex EXCEPT ![s].owner = t, ![s].depth = @ + 1]
    /\ Continue(t)
    /\ UNCHANGED <<fork, initialized, guard, ptr, count, lines, inits, bailed, ghosts>>

\* Mutation: the owner is not looked at.
Released_Counts(s, t) ==
    [mutex[s] EXCEPT !.owner = IF mutex[s].depth > 1 THEN @ ELSE NoThread,
                     !.depth = @ - 1]

\* Mutation: the mutex does not count.
Released_All(s, t) == [mutex[s] EXCEPT !.owner = NoThread, !.depth = 0]

\* A mutex in s that t unlocks: a recursive one of somebody else is left alone
\* (EPERM), a plain one is released.
Released(s, t) ==
    IF mutex[s].owner = t /\ mutex[s].depth > 1
    THEN [mutex[s] EXCEPT !.depth = @ - 1]
    ELSE IF mutex[s].owner = t \/ ~mutex[s].recursive
    THEN [mutex[s] EXCEPT !.owner = NoThread, !.depth = 0]
    ELSE mutex[s]

Unlock(t) ==
    /\ Does(t, "unlock")
    /\ mutex' = [mutex EXCEPT ![ptr] = Released(ptr, t)]
    /\ Continue(t)
    /\ UNCHANGED <<fork, initialized, guard, ptr, count, lines, inits, bailed, ghosts>>

Count(t) ==
    /\ Does(t, "pass") \/ Does(t, "fail")
    /\ count' = [count EXCEPT ![ptr].tests = @ + 1,
                              ![ptr].failures = IF Does(t, "fail") THEN @ + 1 ELSE @]
    /\ Continue(t)
    /\ UNCHANGED <<fork, initialized, guard, ptr, mutex, lines, inits, bailed, ghosts>>

PrintResult(t) ==
    /\ Does(t, "print_good") \/ Does(t, "print_bad")
    /\ lines' = Append(lines, [num |-> count[ptr].tests, good |-> Does(t, "print_good")])
    /\ Continue(t)
    /\ UNCHANGED <<fork, initialized, guard, ptr, mutex, count, inits, bailed, ghosts>>

Step(t) ==
    \/ Check(t) \/ Guard(t) \/ Unguard(t)
    \/ TapInitCheck(t) \/ SetFlag(t) \/ Map(t) \/ MutexInit(t)
    \/ Lock(t) \/ \E s \in Structure : Acquire(t, s)
    \/ Unlock(t) \/ Count(t) \/ PrintResult(t)

Over == bailed \/ \A t \in Thread : ~InCall(t) /\ calls[t] = MaxCalls
Stopped == Over /\ UNCHANGED vars

Next ==
    \/ \E t \in Thread : Step(t) \/ \E call \in Calls : Begin(t, call)
    \/ Stopped

Spec == Init /\ [][Next]_vars

\* The scheduler runs every thread that can move.
FairSpec == Spec /\ \A t \in Thread : WF_vars(Step(t))

-----------------------------------------------------------------------------
(* Properties *)

Steps == {"INIT", "guard", "unguard", "tap_init", "set", "map", "mutex_init", "lock",
          "unlock", "pass", "fail", "print_good", "print_bad", "lost"} \cup Structure

\* The variables have their types; in particular no mutex is unlocked more
\* often than it was locked.
TypeOK ==
    /\ {fork, initialized, bailed, overlap, early, explicit} \subseteq BOOLEAN
    /\ guard \in Thread \cup {NoThread}
    /\ ptr \in Structure
    /\ mutex \in [Structure -> [owner : Thread \cup {NoThread}, depth : Nat,
                                recursive : BOOLEAN]]
    /\ count \in [Structure -> [tests : Nat, failures : Nat]]
    /\ \A t \in Thread : todo[t] \in Seq(Steps)
    /\ calls \in [Thread -> 0..MaxCalls]
    /\ lines \in Seq([num : Nat, good : BOOLEAN])
    /\ inits \in Nat
    /\ first \subseteq Thread

\* The library is initialised once, however many threads make their first
\* call at the same time (the second look in tap_implicit_init(), tap.c:69),
\* unless one of them is tap_init() itself, which no lock keeps apart from the
\* others.  "Library is already initialized" (tap.c:278) ends no program that
\* never calls tap_init(); and it ends no program while a thread is in an
\* implicit initialisation, unless its first calls overlapped: then a
\* tap_init() may set the flag between the second look of the implicit one
\* and the check that follows it, or be told because of the implicit one.
\* A second tap_init() is told, as it should be.
InitialisedOnce ==
    /\ inits > 1 => explicit /\ overlap
    /\ bailed => explicit
    /\ bailed /\ guard # NoThread => overlap

Quiet == \A t \in Thread : ~InCall(t)
Bad == {i \in 1..Len(lines) : ~lines[i].good}

\* A program whose first call returns before another begins, and in fork
\* mode is no result, loses nothing: the results are numbered 1, 2, 3, ...,
\* and the structure that exit_status() will look at counts them all.
NothingLost ==
    ~overlap /\ (fork => ~early)
    => /\ \A i \in 1..Len(lines) : lines[i].num = i
       /\ Quiet => /\ count[ptr].tests = Len(lines)
                   /\ count[ptr].failures = Cardinality(Bad)

\* Every call returns, the implicit initialisation inside a locked call
\* included, if the first call did not overlap with others.
CallsReturn ==
    \A t \in Thread : InCall(t) ~> (~InCall(t) \/ overlap \/ bailed)

\* "If there's no plan, just return the number of failures" (exit_status(),
\* tap.c:458): there are as many failures in the structure as on the output.
FailuresReturned == Quiet => count[ptr].failures = Cardinality(Bad)

\* "Should be thread safe" (tap.3:337): the threads of a program that never
\* calls tap_init() nor asks for fork mode get different numbers for their
\* results.
DistinctNumbers ==
    ~fork /\ ~explicit =>
        \A i, j \in 1..Len(lines) : lines[i].num = lines[j].num => i = j
=============================================================================
