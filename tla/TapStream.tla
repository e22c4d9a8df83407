----------------------------- MODULE TapStream -----------------------------
(***************************************************************************)
(* What libtap promises to whoever reads its standard output: the lines of *)
(* a Test Anything Protocol stream.  Results are numbered 1, 2, 3, ... in  *)
(* the order in which they appear; there is at most one plan line; it comes*)
(* before the first result, or it announces exactly the results written so *)
(* far and then is the end of the results, unless somebody bailed out.     *)
(* How many threads and processes report, and what they do between two     *)
(* lines, is not visible here.                                             *)
(***************************************************************************)
EXTENDS Naturals, Sequences

CONSTANT Sizes      \* the plans that the program may announce in advance

VARIABLES stream,   \* the lines written so far, in order
          ran       \* how many of them are results

vars == <<stream, ran>>

Line == [kind : {"result", "plan", "bail"}, num : Nat, good : BOOLEAN]

Has(kind) == \E i \in DOMAIN stream : stream[i].kind = kind

\* The plan line, if any, came after results.
Closed == \E i \in DOMAIN stream :
              /\ stream[i].kind = "plan"
              /\ \E j \in 1..i-1 : stream[j].kind = "result"

Write(kind, num, good) ==
    stream' = Append(stream, [kind |-> kind, num |-> num, good |-> good])

Init == stream = <<>> /\ ran = 0

\* "ok 7 - name", "not ok 7 - name", "ok 7 # skip why".  A result is good
\* when it passed or was expected to fail (# TODO).
Result(good) ==
    /\ Closed => Has("bail")
    /\ Write("result", ran + 1, good)
    /\ ran' = ran + 1

\* "1..n" in advance.
LeadingPlan(n) ==
    /\ ~Has("plan")
    /\ ran = 0
    /\ Write("plan", n, TRUE)
    /\ UNCHANGED ran

\* "1..n" when the n results are there.
TrailingPlan ==
    /\ ~Has("plan")
    /\ Write("plan", ran, TRUE)
    /\ UNCHANGED ran

\* "Bail out! reason"
BailOut ==
    /\ Write("bail", 0, FALSE)
    /\ UNCHANGED ran

Next ==
    \/ \E good \in BOOLEAN : Result(good)
    \/ \E n \in Sizes : LeadingPlan(n)
    \/ TrailingPlan
    \/ BailOut

Spec == Init /\ [][Next]_vars
=============================================================================
