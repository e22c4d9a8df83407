----------------------------- MODULE MCTapCore -----------------------------
(* Instances of TapCore for TLC. *)
EXTENDS TapCore

CONSTANTS main, child, sibling,   \* processes; main called tap_init()
          m, a, b                 \* threads; m runs main()

\* One process with two or three threads.
TwoThreads == {m, a}
ThreeThreads == {m, a, b}
OneProcess == {main}
AllInMain == [t \in Thread |-> main]

\* A process with the threads m and b, and a child with the thread a.
TwoProcesses == {main, child}
TwoAndOne == [t \in Thread |-> IF t = a THEN child ELSE main]

\* A process and two children, each with one thread.
ThreeProcesses == {main, child, sibling}
OneEach == [t \in Thread |-> CASE t = m -> main [] t = a -> child [] OTHER -> sibling]

Leads == [p \in Process |-> CASE p = main -> m [] p = child -> a [] OTHER -> b]

NoProcess == {}
OnlyChild == {child}

-----------------------------------------------------------------------------
(* Calls *)

Plain(op, n) == [op |-> op, n |-> n, ok |-> TRUE, todo |-> FALSE, mp |-> FALSE]
Test(ok, todo, mp) == [op |-> "test", n |-> 0, ok |-> ok, todo |-> todo, mp |-> mp]

Pass == Test(TRUE, FALSE, FALSE)
Fail == Test(FALSE, FALSE, FALSE)
TodoFail == Test(FALSE, TRUE, FALSE)
MustPass == Test(FALSE, FALSE, TRUE)    \* fails, and is mandatory
BailOut == Plain("BAIL_OUT", 0)
NoPlan == Plain("plan_no_plan", 0)

Planners == {Plain("plan_tests", n) : n \in {0, 2, 3}}
            \union {NoPlan, Plain("plan_skip_all", 0)}

\* m plans and tests; a tests, bails out of a mandatory test, or plans again.
ThreadMenu == [t \in Thread |->
    CASE t = m -> Planners \union {Pass, Fail}
      [] t = a -> {Fail, TodoFail, MustPass, Plain("skip", 2), Plain("plan_tests", 2)}
      [] OTHER -> {Pass, Plain("diag", 0)}]

\* The children test, skip or plan again; nobody bails out.
ForkMenu == [t \in Thread |->
    CASE t = m -> Planners \union {Fail}
      [] t = a -> {Fail, Plain("plan_tests", 2)}
      [] OTHER -> {Plain("skip", 1)}]

\* Everybody may bail out.
BailMenu == [t \in Thread |->
    CASE t = m -> {Plain("plan_tests", 2), NoPlan, Pass}
      [] t = a -> {Fail, MustPass, BailOut}
      [] OTHER -> {Plain("skip", 2), BailOut}]

\* For the runs that end in a counterexample.
BailChildMenu == [t \in Thread |-> IF t = m THEN {NoPlan} ELSE {BailOut}]
MustChildMenu == [t \in Thread |-> IF t = m THEN {NoPlan} ELSE {MustPass}]
BigPlanMenu == [t \in Thread |-> {Plain("plan_tests", 256), Pass}]
=============================================================================
