---------------------------- MODULE TapPlanProof ----------------------------
(***************************************************************************)
(* Theorems about the plan in TapCore (plan_tests(), plan_no_plan(),       *)
(* plan_skip_all() and the end of _cleanup()), for every set of threads    *)
(* and processes, every menu of calls and every bound.                     *)
(***************************************************************************)
EXTENDS TapCoreProof

First == Leader[Main]

\* The only thread is the first one.
Alone == \A t \in Thread \ {First} : pc[t] = "unborn"

Skipping == shm.skip_all \/ \E t \in Thread : pc[t] = "plan_skip_all"

\* Where a thread that skips everything can be.
SkipLabels == {"plan_skip_all", "skip_all_eol", "leave", "exit", "cleanup", "halt"}

-----------------------------------------------------------------------------
(* The invariant *)

\* Before the first call there is nothing but the main thread.
Fresh ==
    ~Started =>
        /\ Alone /\ pc[First] = "idle"
        /\ Plans = {}
        /\ ~shm.have_plan /\ ~shm.no_plan /\ ~shm.skip_all

\* plan_skip_all() is the first call: nobody else runs until the process ends.
SkipsAlone ==
    /\ Skipping => Alone /\ pc[First] \in SkipLabels /\ ~shm.have_plan
    /\ pc[First] = "plan_skip_all" => ~shm.skip_all

\* A plan line was written by plan_tests(), by plan_skip_all(), or at the end.
Announced ==
    /\ shm.no_plan => shm.have_plan
    /\ Plans # {} => shm.skip_all \/ shm.have_plan
    /\ Plans # {} /\ shm.no_plan => verdict \notin {"none", "died"}

\* plan_tests() accepted a plan and has not yet written it.
Pending ==
    \A t \in Thread : pc[t] = "plan_set" => shm.have_plan /\ ~shm.no_plan /\ Plans = {}

\* _cleanup() runs once in each process.
Handlers ==
    /\ \A t \in Thread : pc[t] = "cleanup" => ProcOf[t] \in exiting
    /\ \A t, u \in Thread :
           pc[t] = "cleanup" /\ pc[u] = "cleanup" /\ ProcOf[t] = ProcOf[u] => t = u
    /\ verdict # "none" =>
           Main \in exiting /\ \A t \in Thread : pc[t] = "cleanup" => ProcOf[t] # Main

Planned == Fresh /\ SkipsAlone /\ Announced /\ Pending /\ Handlers /\ OnePlanLine

LEMMA PlannedInit == Init => Planned
<1> SUFFICES ASSUME Init PROVE Planned
  OBVIOUS
<1>1. Plans = {}
  BY DEF Init, Plans
<1>2. First \in Thread /\ pc[First] = "idle" /\ \A t \in Thread : pc[t] \in {"idle", "unborn"}
  BY CoreAssumption DEF Init, First
<1>3. \A t \in Thread \ {First} : pc[t] = "unborn"
  BY DEF Init, First
<1>4. verdict = "none" /\ ~shm.no_plan /\ ~shm.skip_all /\ ~shm.have_plan
  BY DEF Init
<1> QED
  BY <1>1, <1>2, <1>3, <1>4
  DEF Planned, Fresh, Alone, SkipsAlone, Skipping, Announced, Pending, Handlers, OnePlanLine

-----------------------------------------------------------------------------
(* Steps that have nothing to do with the plan *)

Flags == <<shm.no_plan, shm.skip_all, shm.have_plan>>

\* Who is in a call or ends is a sign that the program started.
LEMMA Begun ==
    ASSUME Planned, NEW t \in Thread, pc[t] \notin {"idle", "unborn"} PROVE Started
  BY DEF Planned, Fresh, Alone

\* Nobody skips everything while a thread is elsewhere.
LEMMA NotSkipping ==
    ASSUME Planned, NEW t \in Thread, pc[t] \notin SkipLabels \cup {"unborn"}
    PROVE  ~Skipping
  BY DEF Planned, SkipsAlone, Alone

\* A thread moves on, and neither plans nor ends its process.
LEMMA MovesOn ==
    ASSUME TypeOK, Planned, Started', Flags' = Flags, Plans' = Plans,
           UNCHANGED <<verdict, exiting>>,
           NEW t \in Thread, NEW l, Goto(t, l),
           l \notin {"plan_skip_all", "plan_set", "cleanup"},
           pc[t] \in SkipLabels => l \in SkipLabels,
           pc[t] = "unborn" => ~Skipping
    PROVE  Planned'
<1>1. \A u \in Thread : pc'[u] = IF u = t THEN l ELSE pc[u]
  BY DEF TypeOK, Goto
<1>2. /\ shm'.no_plan = shm.no_plan /\ shm'.skip_all = shm.skip_all
      /\ shm'.have_plan = shm.have_plan
  BY DEF Flags
<1>3. First \in Thread
  BY CoreAssumption DEF First
<1>4. Skipping' => Skipping
  BY <1>1, <1>2 DEF Skipping
<1>5. SkipsAlone'
  <2>1. ASSUME Skipping' PROVE Alone' /\ pc'[First] \in SkipLabels /\ ~shm'.have_plan
    <3>1. Alone /\ pc[First] \in SkipLabels /\ ~shm.have_plan
      BY <1>4, <2>1 DEF Planned, SkipsAlone
    <3>2. t = First
      BY <1>4, <2>1, <3>1 DEF Alone
    <3> QED  BY <1>1, <1>2, <3>1, <3>2 DEF Alone
  <2>2. pc'[First] # "plan_skip_all" \/ ~shm'.skip_all
    BY <1>1, <1>2, <1>3 DEF Planned, SkipsAlone
  <2> QED  BY <2>1, <2>2 DEF SkipsAlone
<1>6. Announced'
  BY <1>2 DEF Planned, Announced
<1>7. Pending'
  BY <1>1, <1>2 DEF Planned, Pending
<1>8. Handlers'
  BY <1>1 DEF Planned, Handlers
<1>9. OnePlanLine'
  BY DEF Planned, OnePlanLine
<1> QED  BY <1>5, <1>6, <1>7, <1>8, <1>9 DEF Planned, Fresh

\* Nothing that the invariant is about changes.
LEMMA PlannedSame ==
    ASSUME Planned, Flags' = Flags, Plans' = Plans, UNCHANGED <<pc, calls, verdict, exiting>>
    PROVE  Planned'
<1>1. /\ shm'.no_plan = shm.no_plan /\ shm'.skip_all = shm.skip_all
      /\ shm'.have_plan = shm.have_plan
  BY DEF Flags
<1> QED
  BY <1>1 DEF Planned, Fresh, Started, Alone, SkipsAlone, Skipping, Announced, Pending,
              Handlers, OnePlanLine

-----------------------------------------------------------------------------
(* Lines *)

LEMMA SamePlans == ASSUME lines' = lines PROVE Plans' = Plans
  BY DEF Plans

\* The lines grow by one, which is a plan or is not.
LEMMA PlansOfEmit ==
    ASSUME TypeOK, NEW kind \in {"result", "plan", "bail"}, NEW num \in Nat,
           NEW good \in BOOLEAN, NEW newline \in BOOLEAN, Emit(kind, num, good, newline)
    PROVE  Plans' = IF kind = "plan" THEN Plans \cup {Len(lines) + 1} ELSE Plans
<1> DEFINE e == [kind |-> kind, num |-> num, good |-> good]
<1>1. e \in Line /\ e.kind = kind
  BY DEF Line
<1>2. lines \in Seq(Line) /\ Len(lines) \in Nat /\ lines' = Append(lines, e)
  BY LenProperties DEF TypeOK, Emit
<1> HIDE DEF e
<1>3. /\ DOMAIN lines = 1..Len(lines)
      /\ DOMAIN lines' = 1..Len(lines) + 1
      /\ \A i \in 1..Len(lines) : lines'[i] = lines[i]
      /\ lines'[Len(lines) + 1] = e
  BY <1>1, <1>2, AppendLine
<1> QED  BY <1>1, <1>2, <1>3 DEF Plans

\* The first plan line is the only one.
LEMMA FirstPlan ==
    ASSUME TypeOK, Plans = {}, NEW num \in Nat, NEW newline \in BOOLEAN,
           Emit("plan", num, TRUE, newline)
    PROVE  Plans' # {} /\ OnePlanLine'
<1>1. Plans' = {Len(lines) + 1}
  BY PlansOfEmit
<1> QED  BY <1>1 DEF OnePlanLine

-----------------------------------------------------------------------------
(* Steps that plan *)

\* The first call plans, and no later call skips everything.
LEMMA PlannedEnter ==
    ASSUME PlanFirst, TypeOK, Planned, NEW t \in Thread, NEW c \in Menu[t], Enter(t, c)
    PROVE  Planned'
<1> DEFINE l == IF c.op = "diag" THEN "unlock" ELSE c.op
<1>1. /\ pc[t] = "idle" /\ Goto(t, l) /\ UNCHANGED <<shm, lines, verdict, exiting>>
      /\ calls' = [calls EXCEPT ![t] = @ + 1]
      /\ IF Started THEN c.op # "plan_skip_all" ELSE c.op \in PlanOps
  BY DEF Enter, MayCall, At, Documented, output, process
<1>2. c \in Call
  BY CoreAssumption
<1>3. l \notin {"plan_set", "cleanup", "unborn", "idle"} /\ (l = "plan_skip_all" => ~Started)
  BY <1>1, <1>2 DEF Call, PlanOps
<1> HIDE DEF l
<1>4. Started'
  <2>1. calls'[t] = calls[t] + 1 /\ calls[t] \in Nat
    BY <1>1, CoreAssumption DEF TypeOK
  <2> QED  BY <2>1 DEF Started
<1>5. Plans' = Plans /\ Flags' = Flags
  BY <1>1, SamePlans DEF Flags
<1>6. CASE l # "plan_skip_all"
  BY <1>1, <1>3, <1>4, <1>5, <1>6, MovesOn DEF SkipLabels
<1>7. CASE l = "plan_skip_all"
  <2>1. /\ Alone /\ pc[First] = "idle" /\ Plans = {}
        /\ ~shm.have_plan /\ ~shm.no_plan /\ ~shm.skip_all
    BY <1>3, <1>7 DEF Planned, Fresh
  <2>2. t = First
    BY <1>1, <2>1 DEF Alone
  <2>3. \A u \in Thread : pc'[u] = IF u = t THEN "plan_skip_all" ELSE pc[u]
    BY <1>1, <1>7 DEF TypeOK, Goto
  <2>4. SkipsAlone'
    BY <1>1, <2>1, <2>2, <2>3 DEF SkipsAlone, Alone, SkipLabels
  <2>5. Announced' /\ Pending' /\ OnePlanLine'
    BY <1>1, <1>5, <2>1, <2>3 DEF Planned, Announced, Pending, OnePlanLine
  <2>6. Handlers'
    BY <1>1, <2>3 DEF Planned, Handlers
  <2> QED  BY <1>4, <2>4, <2>5, <2>6 DEF Planned, Fresh
<1> QED  BY <1>6, <1>7

LEMMA PlannedAccepted ==
    ASSUME TypeOK, Exclusion, Planned, NEW t \in Thread, PlanAccepted(t) PROVE Planned'
<1> DEFINE l == IF call[t].op = "plan_no_plan" THEN "unlock" ELSE "plan_set"
<1>1. /\ pc[t] \in {"plan_tests", "plan_no_plan"} /\ Goto(t, l)
      /\ UNCHANGED <<lines, calls, verdict, exiting>> /\ ~shm.have_plan
  BY DEF PlanAccepted, Planning, BadPlan, At, local, output, process
<1>2. /\ shm'.have_plan /\ shm'.skip_all = shm.skip_all
      /\ shm'.no_plan = (shm.no_plan \/ call[t].op = "plan_no_plan")
  BY DEF PlanAccepted, TypeOK, Shm
<1>3. l \in {"unlock", "plan_set"} /\ (l = "plan_set" => call[t].op # "plan_no_plan")
  OBVIOUS
<1> HIDE DEF l
<1>4. Started /\ Started'
  BY <1>1, Begun DEF Started
<1>5. ~Skipping
  BY <1>1, NotSkipping DEF SkipLabels
<1>6. ~shm.no_plan /\ Plans = {} /\ Plans' = {}
  BY <1>1, <1>5, SamePlans DEF Planned, Announced, Skipping
<1>7. \A u \in Thread : pc'[u] = IF u = t THEN l ELSE pc[u]
  BY <1>1 DEF TypeOK, Goto
<1>8. ~Skipping'
  BY <1>2, <1>3, <1>5, <1>7 DEF Skipping
<1>9. SkipsAlone'
  <2>1. First \in Thread
    BY CoreAssumption DEF First
  <2> QED  BY <1>8, <2>1 DEF SkipsAlone, Skipping
<1>10. Pending'
  <2> SUFFICES ASSUME NEW u \in Thread, pc'[u] = "plan_set"
               PROVE  shm'.have_plan /\ ~shm'.no_plan /\ Plans' = {}
    BY DEF Pending
  <2>1. CASE u = t
    BY <1>2, <1>3, <1>6, <1>7, <2>1
  <2>2. CASE u # t
    BY <1>1, <1>7, <2>2 DEF Exclusion, Critical
  <2> QED  BY <2>1, <2>2
<1>11. Handlers'
  BY <1>1, <1>3, <1>7 DEF Planned, Handlers
<1> QED  BY <1>2, <1>4, <1>6, <1>9, <1>10, <1>11 DEF Planned, Fresh, Announced, OnePlanLine

LEMMA PlannedSet ==
    ASSUME TypeOK, Exclusion, Planned, NEW t \in Thread, PlanSet(t) PROVE Planned'
<1>1. /\ pc[t] = "plan_set" /\ Goto(t, "unlock") /\ UNCHANGED <<calls, verdict, exiting>>
      /\ Emit("plan", call[t].n, TRUE, TRUE)
      /\ shm' = [shm EXCEPT !.e_tests = call[t].n]
  BY DEF PlanSet, At, local, process
<1>2. /\ shm'.no_plan = shm.no_plan /\ shm'.skip_all = shm.skip_all
      /\ shm'.have_plan = shm.have_plan
  BY <1>1 DEF TypeOK, Shm
<1>3. shm.have_plan /\ ~shm.no_plan /\ Plans = {}
  BY <1>1 DEF Planned, Pending
<1>4. Plans' # {} /\ OnePlanLine'
  <2>1. call[t].n \in Nat
    BY DEF TypeOK, Call
  <2> QED  BY <1>1, <1>3, <2>1, FirstPlan
<1>5. Started /\ Started' /\ ~Skipping
  BY <1>1, Begun, NotSkipping DEF Started, SkipLabels
<1>6. \A u \in Thread : pc'[u] = IF u = t THEN "unlock" ELSE pc[u]
  BY <1>1 DEF TypeOK, Goto
<1>7. SkipsAlone'
  <2>1. First \in Thread
    BY CoreAssumption DEF First
  <2> QED  BY <1>2, <1>5, <1>6, <2>1 DEF SkipsAlone, Skipping
<1>8. Pending'
  BY <1>1, <1>6 DEF Exclusion, Critical, Pending
<1>9. Handlers'
  BY <1>1, <1>6 DEF Planned, Handlers
<1> QED  BY <1>2, <1>3, <1>4, <1>5, <1>7, <1>8, <1>9 DEF Planned, Fresh, Announced

LEMMA PlannedSkipAll ==
    ASSUME TypeOK, Planned, NEW t \in Thread, PlanSkipAll(t) PROVE Planned'
<1>1. /\ pc[t] = "plan_skip_all" /\ Goto(t, "skip_all_eol")
      /\ UNCHANGED <<calls, verdict, exiting>>
      /\ Emit("plan", 0, TRUE, FALSE)
      /\ shm' = [shm EXCEPT !.skip_all = TRUE]
  BY DEF PlanSkipAll, At, process
<1>2. /\ shm'.no_plan = shm.no_plan /\ shm'.skip_all
      /\ shm'.have_plan = shm.have_plan
  BY <1>1 DEF TypeOK, Shm
<1>3. Alone /\ ~shm.have_plan /\ ~shm.no_plan /\ t = First
  BY <1>1 DEF Planned, SkipsAlone, Skipping, Alone, Announced
<1>4. Plans = {}
  BY <1>1, <1>3 DEF Planned, SkipsAlone, Announced
<1>5. Plans' # {} /\ OnePlanLine'
  BY <1>1, <1>4, FirstPlan
<1>6. Started /\ Started'
  BY <1>1, Begun DEF Started
<1>7. \A u \in Thread : pc'[u] = IF u = t THEN "skip_all_eol" ELSE pc[u]
  BY <1>1 DEF TypeOK, Goto
<1>8. SkipsAlone'
  BY <1>2, <1>3, <1>7 DEF SkipsAlone, Alone, SkipLabels
<1>9. Pending'
  BY <1>3, <1>7 DEF Alone, Pending
<1>10. Handlers'
  BY <1>1, <1>7 DEF Planned, Handlers
<1> QED  BY <1>2, <1>3, <1>5, <1>6, <1>8, <1>9, <1>10 DEF Planned, Fresh, Announced

-----------------------------------------------------------------------------
(* The end of a process *)

LEMMA PlannedHandlers ==
    ASSUME TypeOK, Planned, NEW t \in Thread, RunHandlers(t) PROVE Planned'
<1>1. /\ pc[t] = "exit" /\ Goto(t, "cleanup") /\ UNCHANGED <<shm, lines, calls, verdict>>
      /\ ProcOf[t] \notin exiting /\ exiting' = exiting \union {ProcOf[t]}
  BY DEF RunHandlers, At, local, output
<1>2. \A u \in Thread : pc'[u] = IF u = t THEN "cleanup" ELSE pc[u]
  BY <1>1 DEF TypeOK, Goto
<1>3. Started /\ Started' /\ Plans' = Plans
  BY <1>1, Begun, SamePlans DEF Started
<1>4. SkipsAlone'
  BY <1>1, <1>2 DEF Planned, SkipsAlone, Skipping, Alone, SkipLabels
<1>5. Announced' /\ Pending' /\ OnePlanLine'
  BY <1>1, <1>2, <1>3 DEF Planned, Announced, Pending, OnePlanLine
<1>6. Handlers'
  BY <1>1, <1>2 DEF Planned, Handlers
<1> QED  BY <1>3, <1>4, <1>5, <1>6 DEF Planned, Fresh

LEMMA PlannedCleanup ==
    ASSUME TypeOK, Exclusion, Planned, NEW t \in Thread, Cleanup(t) PROVE Planned'
<1>1. /\ pc[t] = "cleanup" /\ LockFree(t) /\ Goto(t, "halt")
      /\ UNCHANGED <<shm, calls, exiting>>
  BY DEF Cleanup, At, local
<1>2. Started /\ Started' /\ Flags' = Flags
  BY <1>1, Begun DEF Started, Flags
<1>3. CASE ~IsMain(ProcOf[t])
  <2>1. UNCHANGED <<verdict, lines>>
    BY <1>3 DEF Cleanup, output
  <2>2. Plans' = Plans
    BY <2>1, SamePlans
  <2> QED  BY <1>1, <1>2, <2>1, <2>2, MovesOn DEF SkipLabels
<1>4. CASE IsMain(ProcOf[t])
  <2>1. verdict' = Closing /\ IF TrailingPlan THEN Emit("plan", shm.test_count, TRUE, TRUE)
                              ELSE UNCHANGED output
    BY <1>4 DEF Cleanup
  <2>2. ProcOf[t] = Main
    BY <1>4, CoreAssumption DEF IsMain
  <2>3. verdict = "none" /\ verdict' # "none"
    BY <1>1, <2>1, <2>2 DEF Planned, Handlers, Closing
  <2>4. \A u \in Thread : pc'[u] = IF u = t THEN "halt" ELSE pc[u]
    BY <1>1 DEF TypeOK, Goto
  <2>5. Handlers'
    BY <1>1, <2>2, <2>3, <2>4 DEF Planned, Handlers
  <2>6. SkipsAlone'
    BY <1>1, <2>4 DEF Planned, SkipsAlone, Skipping, Alone, SkipLabels
  <2>7. \A u \in Thread : pc[u] # "plan_set"
    BY <1>1 DEF Exclusion, Critical, LockFree
  <2>8. Pending'
    BY <2>4, <2>7 DEF Pending
  <2>9. Announced' /\ OnePlanLine'
    <3>1. CASE TrailingPlan
      <4>1. shm.no_plan /\ shm.have_plan
        BY <3>1 DEF TrailingPlan, Unplanned, Closing, Planned, Announced
      <4>2. Plans = {}
        BY <2>3, <4>1 DEF Planned, Announced
      <4>3. shm.test_count \in Nat
        BY DEF TypeOK, Shm
      <4>4. OnePlanLine'
        BY <2>1, <3>1, <4>2, <4>3, FirstPlan
      <4>5. verdict' \notin {"none", "died"}
        BY <2>1, <2>3, <3>1 DEF TrailingPlan
      <4> QED  BY <1>1, <4>1, <4>4, <4>5 DEF Announced
    <3>2. CASE ~TrailingPlan
      <4>1. Plans' = Plans
        BY <2>1, <3>2, SamePlans DEF output
      <4> QED  BY <1>1, <2>3, <4>1 DEF Planned, Announced, OnePlanLine
    <3> QED  BY <3>1, <3>2
  <2> QED  BY <1>2, <2>5, <2>6, <2>8, <2>9 DEF Planned, Fresh
<1> QED  BY <1>3, <1>4

-----------------------------------------------------------------------------
(* Every step *)

LEMMA PlannedWork ==
    ASSUME PlanFirst, TypeOK, Exclusion, Planned, NEW t \in Thread, Work(t) PROVE Planned'
<1> USE DEF At, local, output, process, SkipLabels
<1>1. pc[t] \notin {"idle", "unborn"} => Started
  BY Begun
<1>2. calls' = calls => (Started => Started')
  BY DEF Started
<1>3. CASE Count(t)
  <2>1. Flags' = Flags
    BY <1>3 DEF Count, Flags, TypeOK, Shm
  <2> QED  BY <1>1, <1>2, <1>3, <2>1, SamePlans, MovesOn DEF Count
<1>4. CASE PrintResult(t)
  <2>1. shm.test_count \in Nat /\ (call[t].ok \/ call[t].todo) \in BOOLEAN
    BY DEF TypeOK, Shm, Call
  <2>2. Plans' = Plans
    BY <1>4, <2>1, PlansOfEmit DEF PrintResult
  <2> QED  BY <1>1, <1>2, <1>4, <2>2, MovesOn DEF PrintResult, Flags
<1>5. CASE Eol(t)
  BY <1>1, <1>2, <1>5, SamePlans, MovesOn DEF Eol, EndLine, Flags
<1>6. CASE Skip(t)
  <2>1. SkipNumber \in Nat
    BY DEF SkipNumber, TypeOK, Shm
  <2>2. Plans' = Plans
    BY <1>6, <2>1, PlansOfEmit DEF Skip
  <2>3. Flags' = Flags
    BY <1>6 DEF Skip, Flags, TypeOK, Shm
  <2> QED  BY <1>6, <2>2, <2>3, PlannedSame DEF Skip
<1>7. CASE SkipEnd(t)
  BY <1>1, <1>2, <1>7, SamePlans, MovesOn DEF SkipEnd, Flags
<1>8. CASE PlanRefused(t)
  <2>1. Flags' = Flags
    BY <1>8 DEF PlanRefused, Flags, TypeOK, Shm
  <2> QED  BY <1>1, <1>2, <1>8, <2>1, SamePlans, MovesOn DEF PlanRefused, Planning
<1>9. CASE PlanAccepted(t)
  BY <1>9, PlannedAccepted
<1>10. CASE PlanSet(t)
  BY <1>10, PlannedSet
<1>11. CASE PlanSkipAll(t)
  BY <1>11, PlannedSkipAll
<1>12. CASE SkipAllEol(t)
  BY <1>1, <1>2, <1>12, SamePlans, MovesOn DEF SkipAllEol, EndLine, Flags
<1>13. CASE Bail(t)
  <2>1. Plans' = Plans
    BY <1>13, PlansOfEmit DEF Bail
  <2> QED  BY <1>1, <1>2, <1>13, <2>1, MovesOn DEF Bail, Flags
<1>14. CASE BailEol(t)
  BY <1>1, <1>2, <1>14, SamePlans, MovesOn DEF BailEol, EndLine, Flags
<1>15. CASE Return(t)
  BY <1>1, <1>2, <1>15, SamePlans, MovesOn DEF Return, Flags
<1>16. CASE Leave(t)
  BY <1>1, <1>2, <1>16, SamePlans, MovesOn DEF Leave, Flags
<1>17. CASE ReturnFromMain(t)
  BY <1>2, <1>17, SamePlans, MovesOn DEF ReturnFromMain, Flags
<1>18. CASE ExitStatus(t)
  BY <1>1, <1>2, <1>18, SamePlans, MovesOn DEF ExitStatus, Flags
<1>19. CASE LateStatus(t)
  BY <1>1, <1>2, <1>19, SamePlans, MovesOn DEF LateStatus, Flags
<1>20. CASE RunHandlers(t)
  BY <1>20, PlannedHandlers
<1>21. CASE Cleanup(t)
  BY <1>21, PlannedCleanup
<1>22. CASE Halt(t)
  BY <1>22, SamePlans, PlannedSame DEF Halt, Flags
<1>23. CASE Finish(t)
  <2>1. Started
    BY <1>23, CoreAssumption DEF Finish, Planned, Fresh, Alone, First
  <2> QED  BY <1>2, <1>23, <2>1, SamePlans, MovesOn DEF Finish, Flags
<1> QED
  BY <1>3, <1>4, <1>5, <1>6, <1>7, <1>8, <1>9, <1>10, <1>11, <1>12, <1>13, <1>14, <1>15,
     <1>16, <1>17, <1>18, <1>19, <1>20, <1>21, <1>22, <1>23 DEF Work

LEMMA PlannedStep ==
    ASSUME PlanFirst, TypeOK, Exclusion, Planned, [Next]_vars PROVE Planned'
<1> USE DEF At, local, output, process, SkipLabels
<1>1. calls' = calls => (Started => Started')
  BY DEF Started
<1>2. ASSUME NEW t \in Thread, Work(t) PROVE Planned'
  BY <1>2, PlannedWork
<1>3. ASSUME NEW t \in Thread, ExitTwice(t) PROVE Planned'
  <2>1. Started
    BY <1>3, Begun DEF ExitTwice
  <2> QED  BY <1>1, <1>3, <2>1, SamePlans, MovesOn DEF ExitTwice, Flags
<1>4. ASSUME NEW t \in Thread, NEW c \in Menu[t], Enter(t, c) PROVE Planned'
  BY <1>4, PlannedEnter
<1>5. ASSUME NEW t \in Thread, NEW c \in Menu[t], EnterBailOut(t, c) PROVE Planned'
  <2>1. Started
    BY <1>5 DEF EnterBailOut, MayCall, Documented, PlanOps
  <2>2. Started'
    BY <1>5, <2>1, CoreAssumption DEF EnterBailOut, Started, TypeOK
  <2> QED  BY <1>5, <2>2, SamePlans, MovesOn DEF EnterBailOut, MayCall, Flags
<1>6. ASSUME NEW t \in Thread, NEW u \in Thread, Spawn(t, u) PROVE Planned'
  <2>1. ~Skipping
    BY <1>6, NotSkipping DEF Spawn
  <2> QED  BY <1>1, <1>6, <2>1, SamePlans, MovesOn DEF Spawn, Flags
<1>7. CASE UNCHANGED <<shm, pc, calls, lines, verdict, exiting>>
  BY <1>7, SamePlans, PlannedSame DEF Flags
<1> QED
  BY <1>2, <1>3, <1>4, <1>5, <1>6, <1>7 DEF Next, Step, Terminated, Kill, vars

\* A program that plans first gets at most one plan line, whatever its threads
\* and processes do: a second plan is refused, a program that skips everything
\* ends in that call, and _cleanup() writes the plan only if nobody did.
THEOREM PlannedOnce == ASSUME PlanFirst PROVE Spec => []OnePlanLine
<1>1. Init => TypeOK /\ Exclusion /\ Planned
  BY TypeInit, ExclusionInit, PlannedInit
<1>2. TypeOK /\ Exclusion /\ Planned /\ [Next]_vars => TypeOK' /\ Exclusion' /\ Planned'
  BY TypeStep, ExclusionStep, PlannedStep
<1>3. Planned => OnePlanLine
  BY DEF Planned
<1> QED  BY <1>1, <1>2, <1>3, PTL DEF Spec
=============================================================================
