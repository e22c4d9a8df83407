--------------------------- MODULE TapStreamProof ---------------------------
(***************************************************************************)
(* The threads and processes of TapCore together write one TAP stream: the *)
(* detailed specification implements TapStream, for every program that     *)
(* plans first and joins its threads and children before main() returns.   *)
(***************************************************************************)
EXTENDS TapPlanProof

\* The first call of the program has not yet planned.
FirstCall == ~shm.have_plan \/ \E t \in Thread : pc[t] = "plan_set"

\* Where the main thread can be then.
OpenLabels == {"idle", "plan_tests", "plan_no_plan", "plan_set", "plan_skip_all",
               "skip_all_eol", "leave", "exit", "cleanup", "halt"}

\* Where a thread is that ends its process.
LeaveLabels == {"skip_all_eol", "leave", "bail_eol", "exit_status", "late",
                "exit", "cleanup", "halt"}

\* Why the main process ends.
Gone(t) ==
    Bailed \/ shm.test_died \/ shm.skip_all \/ (t = First /\ Joined(First))

\* A plan line follows a result.
PlanClosed ==
    \E i \in Plans : \E j \in 1..i-1 : lines[j].kind = "result"

-----------------------------------------------------------------------------
(* The invariant *)

\* Until there is a plan there is one thread, and no result.
Opening ==
    FirstCall => /\ Alone /\ pc[First] \in OpenLabels /\ shm.test_count = 0
                 /\ pc[First] = "idle" => ~Started

\* A plan is one that the program may ask for.
Chosen ==
    \A t \in Thread :
        pc[t] \in {"plan_tests", "plan_no_plan", "plan_set"} => call[t] \in Menu[t]

\* The main process ends for a reason.
Leaving == \A t \in Thread : pc[t] \in LeaveLabels /\ ProcOf[t] = Main => Gone(t)

\* A plan that closes the stream is the one that _cleanup() writes, and then
\* nobody is left to write a result, unless somebody bailed out.
Closes ==
    PlanClosed =>
        /\ shm.no_plan
        /\ Bailed \/ (pc[First] = "halt" /\ Joined(First))

Streaming == Opening /\ Chosen /\ Leaving /\ Closes

LEMMA StreamingInit == Init => Streaming
<1> SUFFICES ASSUME Init PROVE Streaming
  OBVIOUS
<1>1. \A t \in Thread : pc[t] \in {"idle", "unborn"}
  BY DEF Init
<1>2. First \in Thread /\ pc[First] = "idle" /\ \A t \in Thread \ {First} : pc[t] = "unborn"
  BY CoreAssumption DEF Init, First
<1>3. shm.test_count = 0 /\ ~Started
  BY DEF Init, Started
<1>4. ~PlanClosed
  BY DEF Init, PlanClosed, Plans
<1> QED
  BY <1>1, <1>2, <1>3, <1>4
  DEF Streaming, Opening, Alone, OpenLabels, Chosen, Leaving, LeaveLabels, Closes

-----------------------------------------------------------------------------
(* What no step takes back *)

\* One line may be added; flags stay up; the dead stay dead; calls are counted.
Grows ==
    /\ lines' = lines \/ \E e \in Line : lines' = Append(lines, e)
    /\ shm.have_plan => shm'.have_plan
    /\ shm.no_plan => shm'.no_plan
    /\ shm.skip_all => shm'.skip_all
    /\ shm.test_died => shm'.test_died
    /\ \A t \in Thread : ~Live(t) => ~Live(t)'
    /\ Started => Started'

LEMMA GrowsEmit ==
    ASSUME NEW kind \in {"result", "plan", "bail"}, NEW num \in Nat, NEW good \in BOOLEAN,
           NEW newline \in BOOLEAN, Emit(kind, num, good, newline)
    PROVE  \E e \in Line : lines' = Append(lines, e)
<1>1. [kind |-> kind, num |-> num, good |-> good] \in Line
  BY DEF Line
<1> QED  BY <1>1 DEF Emit

\* A process that ends is not running.
LEMMA Ends ==
    ASSUME TypeOK, NEW p \in Process, NEW c \in 0..Killed, c # Running,
           code' = [code EXCEPT ![p] = c], NEW t \in Thread, ~Live(t)
    PROVE  ~Live(t)'
<1>1. ProcOf[t] \in Process
  BY CoreAssumption
<1> QED  BY <1>1 DEF TypeOK, Live

LEMMA EndStatus ==
    ASSUME TypeOK, NEW t \in Thread
    PROVE  status[t] % 256 \in 0..Killed /\ status[t] % 256 # Running /\ ProcOf[t] \in Process
<1>1. status[t] \in Nat /\ ProcOf[t] \in Process
  BY CoreAssumption DEF TypeOK
<1>2. status[t] % 256 \in 0..255
  BY <1>1, StatusByte
<1> QED  BY <1>1, <1>2 DEF Killed, Running

LEMMA GrowsWork == ASSUME TypeOK, NEW t \in Thread, Work(t) PROVE Grows
<1> USE DEF local, output, process
<1>1. /\ shm \in Shm /\ shm.test_count \in Nat /\ SkipNumber \in Nat /\ call[t].n \in Nat
      /\ (call[t].ok \/ call[t].todo) \in BOOLEAN
  BY DEF TypeOK, Shm, Call, SkipNumber
<1>2. lines' = lines \/ \E e \in Line : lines' = Append(lines, e)
  <2>1. CASE PrintResult(t)
    BY <1>1, <2>1, GrowsEmit DEF PrintResult
  <2>2. CASE Skip(t)
    BY <1>1, <2>2, GrowsEmit DEF Skip
  <2>3. CASE PlanSet(t)
    BY <1>1, <2>3, GrowsEmit DEF PlanSet
  <2>4. CASE PlanSkipAll(t)
    BY <1>1, <2>4, GrowsEmit DEF PlanSkipAll
  <2>5. CASE Bail(t)
    BY <1>1, <2>5, GrowsEmit DEF Bail
  <2>6. CASE Cleanup(t)
    BY <1>1, <2>6, GrowsEmit DEF Cleanup
  <2> QED
    BY <2>1, <2>2, <2>3, <2>4, <2>5, <2>6
    DEF Work, Count, Eol, SkipEnd, PlanRefused, PlanAccepted, SkipAllEol, BailEol, EndLine,
        Return, Leave, ReturnFromMain, ExitStatus, LateStatus, RunHandlers, Halt, Finish
<1>3. /\ shm.have_plan => shm'.have_plan
      /\ shm.no_plan => shm'.no_plan
      /\ shm.skip_all => shm'.skip_all
      /\ shm.test_died => shm'.test_died
  <2>1. CASE Count(t)
    BY <1>1, <2>1 DEF Count, Shm
  <2>2. CASE Skip(t)
    BY <1>1, <2>2 DEF Skip, Shm
  <2>3. CASE PlanRefused(t)
    BY <1>1, <2>3 DEF PlanRefused, Shm
  <2>4. CASE PlanAccepted(t)
    BY <1>1, <2>4 DEF PlanAccepted, Shm
  <2>5. CASE PlanSet(t)
    BY <1>1, <2>5 DEF PlanSet, Shm
  <2>6. CASE PlanSkipAll(t)
    BY <1>1, <2>6 DEF PlanSkipAll, Shm
  <2> QED
    BY <2>1, <2>2, <2>3, <2>4, <2>5, <2>6
    DEF Work, PrintResult, Eol, SkipEnd, SkipAllEol, Bail, BailEol,
        Return, Leave, ReturnFromMain, ExitStatus, LateStatus, RunHandlers, Cleanup, Halt, Finish
<1>4. \A u \in Thread : ~Live(u) => ~Live(u)'
  <2>1. CASE Halt(t)
    BY <2>1, EndStatus, Ends DEF Halt
  <2>2. CASE ~Halt(t)
    <3>1. code' = code
      BY <2>2
      DEF Work, Count, PrintResult, Eol, Skip, SkipEnd, PlanRefused, PlanAccepted, PlanSet,
          PlanSkipAll, SkipAllEol, Bail, BailEol, Return, Leave, ReturnFromMain, ExitStatus,
          LateStatus, RunHandlers, Cleanup, Finish
    <3> QED  BY <3>1 DEF Live
  <2> QED  BY <2>1, <2>2
<1>5. calls' = calls
  BY DEF Work, Count, PrintResult, Eol, Skip, SkipEnd, PlanRefused, PlanAccepted, PlanSet,
         PlanSkipAll, SkipAllEol, Bail, BailEol, Return, Leave, ReturnFromMain, ExitStatus,
         LateStatus, RunHandlers, Cleanup, Halt, Finish
<1> QED  BY <1>2, <1>3, <1>4, <1>5 DEF Grows, Started

LEMMA GrowsStep == ASSUME TypeOK, [Next]_vars PROVE Grows
<1> USE DEF local, output, process
<1>1. ASSUME NEW t \in Thread, Work(t) PROVE Grows
  BY <1>1, GrowsWork
<1>2. ASSUME NEW t \in Thread, ExitTwice(t) PROVE Grows
  BY <1>2, EndStatus, Ends DEF ExitTwice, Grows, Started
<1>3. ASSUME NEW t \in Thread, NEW c \in Menu[t], Enter(t, c) \/ EnterBailOut(t, c)
      PROVE  Grows
  <2>1. UNCHANGED <<lines, shm, code>> /\ calls' = [calls EXCEPT ![t] = @ + 1]
    BY <1>3 DEF Enter, EnterBailOut
  <2>2. calls \in [Thread -> 0..MaxCalls] /\ MaxCalls \in Nat
    BY CoreAssumption DEF TypeOK
  <2>3. Started => Started'
    BY <2>1, <2>2 DEF Started
  <2> QED  BY <2>1, <2>3 DEF Grows, Live
<1>4. ASSUME NEW t \in Thread, NEW u \in Thread, Spawn(t, u) PROVE Grows
  BY <1>4 DEF Spawn, Grows, Started, Live
<1>5. ASSUME NEW p \in Process, Kill(p) PROVE Grows
  <2>1. Killed \in 0..Killed /\ Killed # Running /\ code' = [code EXCEPT ![p] = Killed]
    BY <1>5 DEF Kill, Running, Killed
  <2>2. \A t \in Thread : ~Live(t) => ~Live(t)'
    BY <2>1, Ends
  <2> QED  BY <1>5, <2>2 DEF Kill, Grows, Started
<1>6. CASE UNCHANGED vars
  BY <1>6 DEF vars, Grows, Started, Live
<1> QED  BY <1>1, <1>2, <1>3, <1>4, <1>5, <1>6 DEF Next, Step, Terminated

-----------------------------------------------------------------------------
(* Who moves *)

\* Only a thread that runs moves, and it moves itself.
LEMMA WhoMoves ==
    ASSUME TypeOK, NEW t \in Thread, Work(t)
    PROVE  Live(t) /\ pc[t] \notin {"unborn", "done"} /\ \A u \in Thread \ {t} : pc'[u] = pc[u]
  BY DEF TypeOK, At, Goto, Work, Count, PrintResult, Eol, Skip, SkipEnd, PlanRefused,
         PlanAccepted, PlanSet, PlanSkipAll, SkipAllEol, Bail, BailEol, Return, Leave,
         ReturnFromMain, ExitStatus, LateStatus, RunHandlers, Cleanup, Halt, Finish, Planning

\* Once everybody else has ended, they stay so while main() ends.
LEMMA JoinedStays ==
    ASSUME TypeOK, [Next]_vars, Joined(First), pc[First] # "idle" PROVE Joined(First)'
<1>1. First \in Thread /\ ProcOf[First] = Main
  BY CoreAssumption DEF First
<1>2. \A u \in Thread \ {First} : pc[u] \in {"unborn", "done"} \/ ~Live(u)
  BY <1>1 DEF Joined
<1>3. \A u \in Thread \ {First} : ~Live(u) => ~Live(u)'
  BY GrowsStep DEF Grows
<1>4. \A u \in Thread \ {First} : Live(u) => pc'[u] = pc[u]
  <2>1. ASSUME NEW t \in Thread, Work(t)
        PROVE  \A u \in Thread \ {First} : Live(u) => pc'[u] = pc[u]
    BY <1>2, <2>1, WhoMoves
  <2>2. ASSUME NEW t \in Thread, ExitTwice(t)
        PROVE  \A u \in Thread \ {First} : Live(u) => pc'[u] = pc[u]
    BY <1>2, <2>2 DEF ExitTwice, At, Goto, TypeOK
  <2>3. ASSUME NEW t \in Thread, NEW c \in Menu[t], Enter(t, c) \/ EnterBailOut(t, c)
        PROVE  FALSE
    BY <1>2, <2>3 DEF Enter, EnterBailOut, MayCall, At
  <2>4. ASSUME NEW t \in Thread, NEW u \in Thread, Spawn(t, u) PROVE FALSE
    BY <1>2, <2>4 DEF Spawn, At
  <2>5. CASE UNCHANGED pc
    BY <2>5
  <2> QED
    BY <2>1, <2>2, <2>3, <2>4, <2>5 DEF Next, Step, Terminated, Kill, vars
<1> QED  BY <1>1, <1>2, <1>3, <1>4 DEF Joined

-----------------------------------------------------------------------------
(* Steps that do not plan *)

\* "Bail out!" is not taken back.
LEMMA BailedStays == ASSUME TypeOK, Grows, Bailed PROVE Bailed'
  BY StaysBailed DEF Grows, Bailed

\* A reason to end does not go away.
LEMMA GoneStays ==
    ASSUME TypeOK, [Next]_vars, NEW t \in Thread, pc[t] # "idle", Gone(t) PROVE Gone(t)'
  BY GrowsStep, BailedStays, JoinedStays DEF Gone, Grows

\* What is no plan does not close the stream.
LEMMA StaysOpen ==
    ASSUME TypeOK,
           \/ lines' = lines
           \/ \E e \in Line : e.kind # "plan" /\ lines' = Append(lines, e)
    PROVE  PlanClosed' => PlanClosed
<1>1. CASE lines' = lines
  BY <1>1, SamePlans DEF PlanClosed
<1>2. ASSUME NEW e \in Line, e.kind # "plan", lines' = Append(lines, e)
      PROVE  PlanClosed' => PlanClosed
  <2>1. /\ DOMAIN lines = 1..Len(lines) /\ Len(lines) \in Nat
        /\ DOMAIN lines' = 1..Len(lines) + 1
        /\ \A i \in 1..Len(lines) : lines'[i] = lines[i]
        /\ lines'[Len(lines) + 1] = e
    BY <1>2, AppendLine, LenProperties DEF TypeOK
  <2> SUFFICES ASSUME NEW i \in Plans', NEW j \in 1..i-1, lines'[j].kind = "result"
               PROVE  PlanClosed
    BY DEF PlanClosed
  <2>2. i \in Plans /\ i \in 1..Len(lines)
    <3>1. i \in 1..Len(lines) + 1 /\ lines'[i].kind = "plan"
      BY <2>1 DEF Plans
    <3>2. i # Len(lines) + 1
      BY <1>2, <2>1, <3>1
    <3>3. i \in 1..Len(lines) /\ lines[i].kind = "plan"
      BY <2>1, <3>1, <3>2
    <3> QED  BY <2>1, <3>3 DEF Plans
  <2>3. lines[j].kind = "result"
    BY <2>1, <2>2
  <2> QED  BY <2>2, <2>3 DEF PlanClosed
<1> QED  BY <1>1, <1>2

LEMMA EmitOther ==
    ASSUME NEW kind \in {"result", "bail"}, NEW num \in Nat, NEW good \in BOOLEAN,
           NEW newline \in BOOLEAN, Emit(kind, num, good, newline)
    PROVE  \E e \in Line : e.kind # "plan" /\ lines' = Append(lines, e)
<1>1. [kind |-> kind, num |-> num, good |-> good] \in Line
  BY DEF Line
<1> QED  BY <1>1 DEF Emit

LEMMA OpeningMoves ==
    ASSUME TypeOK, Opening, Grows, Started', NEW t \in Thread, NEW l, Goto(t, l),
           l # "plan_set",
           pc[t] = "idle" => Started,
           pc[t] = "unborn" => ~FirstCall,
           pc[t] \in OpenLabels \ {"idle"} =>
               l \in OpenLabels \ {"idle"} /\ shm'.test_count = shm.test_count
    PROVE  Opening'
<1>1. \A u \in Thread : pc'[u] = IF u = t THEN l ELSE pc[u]
  BY DEF TypeOK, Goto
<1>2. FirstCall' => FirstCall
  BY <1>1 DEF FirstCall, Grows
<1> SUFFICES ASSUME FirstCall'
             PROVE  /\ Alone' /\ pc'[First] \in OpenLabels /\ shm'.test_count = 0
                    /\ pc'[First] = "idle" => ~Started'
  BY DEF Opening
<1>3. /\ Alone /\ pc[First] \in OpenLabels /\ shm.test_count = 0
      /\ pc[First] = "idle" => ~Started
  BY <1>2 DEF Opening
<1>4. t = First
  BY <1>2, <1>3 DEF Alone
<1>5. l \in OpenLabels \ {"idle"} /\ shm'.test_count = 0
  BY <1>2, <1>3, <1>4
<1> QED  BY <1>1, <1>3, <1>4, <1>5 DEF Alone

LEMMA ChosenMoves ==
    ASSUME TypeOK, Chosen, NEW t \in Thread, NEW l, Goto(t, l),
           l \notin {"plan_tests", "plan_no_plan", "plan_set"},
           \A u \in Thread \ {t} : call'[u] = call[u]
    PROVE  Chosen'
  BY DEF TypeOK, Chosen, Goto

LEMMA LeavingMoves ==
    ASSUME TypeOK, [Next]_vars, Leaving, NEW t \in Thread, NEW l, Goto(t, l),
           l \in LeaveLabels /\ ProcOf[t] = Main => pc[t] \in LeaveLabels \/ Gone(t)'
    PROVE  Leaving'
<1>1. \A u \in Thread : pc'[u] = IF u = t THEN l ELSE pc[u]
  BY DEF TypeOK, Goto
<1>2. \A u \in Thread : pc[u] \in LeaveLabels /\ ProcOf[u] = Main => Gone(u)'
  BY GoneStays DEF Leaving, LeaveLabels
<1> QED  BY <1>1, <1>2 DEF Leaving

LEMMA ClosesMoves ==
    ASSUME TypeOK, [Next]_vars, Closes, PlanClosed' => PlanClosed,
           NEW t \in Thread, NEW l, Goto(t, l), pc[t] # "halt"
    PROVE  Closes'
<1> SUFFICES ASSUME PlanClosed
             PROVE  shm'.no_plan /\ (Bailed' \/ (pc'[First] = "halt" /\ Joined(First)'))
  BY DEF Closes
<1>1. shm'.no_plan
  BY GrowsStep DEF Closes, Grows
<1>2. CASE Bailed
  BY <1>1, <1>2, GrowsStep, BailedStays
<1>3. CASE pc[First] = "halt" /\ Joined(First)
  BY <1>1, <1>3, JoinedStays DEF TypeOK, Goto
<1> QED  BY <1>2, <1>3 DEF Closes

\* A step of a thread that does not plan, nor begins to end its process.
LEMMA Ordinary ==
    ASSUME TypeOK, [Next]_vars, Streaming, Started', NEW t \in Thread, NEW l, Goto(t, l),
           l \notin {"plan_tests", "plan_no_plan", "plan_set"},
           pc[t] # "halt",
           pc[t] = "idle" => Started,
           pc[t] = "unborn" => ~FirstCall,
           pc[t] \in OpenLabels \ {"idle"} =>
               l \in OpenLabels \ {"idle"} /\ shm'.test_count = shm.test_count,
           l \in LeaveLabels /\ ProcOf[t] = Main => pc[t] \in LeaveLabels \/ Gone(t)',
           \A u \in Thread \ {t} : call'[u] = call[u],
           \/ lines' = lines
           \/ \E e \in Line : e.kind # "plan" /\ lines' = Append(lines, e)
    PROVE  Streaming'
<1>1. Grows
  BY GrowsStep
<1>2. Opening'
  BY <1>1, OpeningMoves DEF Streaming
<1>3. Chosen'
  BY ChosenMoves DEF Streaming
<1>4. Leaving'
  BY LeavingMoves DEF Streaming
<1>5. PlanClosed' => PlanClosed
  BY StaysOpen
<1>6. Closes'
  BY <1>5, ClosesMoves DEF Streaming
<1> QED  BY <1>2, <1>3, <1>4, <1>6 DEF Streaming

\* A step that moves no thread.
LEMMA Unmoved ==
    ASSUME TypeOK, [Next]_vars, Streaming, UNCHANGED <<pc, calls>>,
           FirstCall => shm'.test_count = shm.test_count,
           \A t \in Thread : call'[t] = call[t] \/ pc[t] = "skip",
           \/ lines' = lines
           \/ \E e \in Line : e.kind # "plan" /\ lines' = Append(lines, e)
    PROVE  Streaming'
<1>1. Grows
  BY GrowsStep
<1>2. Opening'
  <2>1. FirstCall' => FirstCall
    BY <1>1 DEF FirstCall, Grows
  <2> QED  BY <2>1 DEF Streaming, Opening, Alone, Started
<1>3. Chosen'
  BY DEF Streaming, Chosen
<1>4. Leaving'
  BY GoneStays DEF Streaming, Leaving, LeaveLabels
<1>5. PlanClosed' => PlanClosed
  BY StaysOpen
<1>6. Closes'
  BY <1>1, <1>5, BailedStays, JoinedStays DEF Streaming, Closes, Grows
<1> QED  BY <1>2, <1>3, <1>4, <1>6 DEF Streaming

-----------------------------------------------------------------------------
(* Steps that plan, bail out or end the process *)

\* Before the plan nothing was counted or printed.
LEMMA NothingYet ==
    ASSUME TypeOK, Numbering, Opening, FirstCall PROVE Printed = 0 /\ Results = {}
<1>1. \A t \in Thread : pc[t] # "print"
  BY DEF Opening, Alone, OpenLabels
<1>2. Printed = 0
  BY <1>1 DEF Opening, Printed
<1> QED  BY <1>2 DEF Numbering, Numbered

\* A plan line before the first result does not close the stream.
LEMMA PlansEarly ==
    ASSUME TypeOK, Results = {}, NEW num \in Nat, NEW newline \in BOOLEAN,
           Emit("plan", num, TRUE, newline)
    PROVE  ~PlanClosed'
<1> DEFINE e == [kind |-> "plan", num |-> num, good |-> TRUE]
<1>1. e \in Line /\ e.kind = "plan"
  BY DEF Line
<1>2. lines' = Append(lines, e)
  BY DEF Emit
<1> HIDE DEF e
<1>3. Results' = {}
  BY <1>1, <1>2, ResultsOfAppend
<1>4. lines' \in Seq(Line)
  BY <1>1, <1>2, AppendLine DEF TypeOK
<1>5. DOMAIN lines' = 1..Len(lines') /\ Len(lines') \in Nat
  BY <1>4, LenProperties
<1> QED  BY <1>3, <1>5 DEF PlanClosed, Plans, Results

LEMMA BailLine == ASSUME TypeOK, NEW t \in Thread, Bail(t) PROVE Bailed'
<1> DEFINE e == [kind |-> "bail", num |-> 0, good |-> FALSE]
<1>1. e \in Line /\ e.kind = "bail"
  BY DEF Line
<1>2. lines' = Append(lines, e) /\ lines \in Seq(Line)
  BY DEF Bail, Emit, TypeOK
<1> HIDE DEF e
<1>3. Len(lines) + 1 \in DOMAIN lines' /\ lines'[Len(lines) + 1] = e
  BY <1>1, <1>2, AppendLine, LenProperties
<1> QED  BY <1>1, <1>3 DEF Bailed

LEMMA StreamingEnter ==
    ASSUME PlanFirst, TypeOK, [Next]_vars, Planned, Streaming,
           NEW t \in Thread, NEW c \in Menu[t], Enter(t, c)
    PROVE  Streaming'
<1> DEFINE l == IF c.op = "diag" THEN "unlock" ELSE c.op
<1>1. /\ pc[t] = "idle" /\ Goto(t, l) /\ UNCHANGED <<shm, lines>>
      /\ calls' = [calls EXCEPT ![t] = @ + 1]
      /\ call' = [call EXCEPT ![t] = c]
      /\ IF Started THEN c.op # "plan_skip_all" ELSE c.op \in PlanOps
  BY DEF Enter, MayCall, At, Documented, output
<1>2. c \in Call /\ c.op # "exit_status"
  BY CoreAssumption
<1>3. /\ l \notin LeaveLabels \cup {"plan_set", "idle"}
      /\ ~Started => l \in OpenLabels
  BY <1>1, <1>2 DEF Call, PlanOps, LeaveLabels, OpenLabels
<1> HIDE DEF l
<1>4. Started'
  <2>1. calls'[t] = calls[t] + 1 /\ calls[t] \in Nat
    BY <1>1, CoreAssumption DEF TypeOK
  <2> QED  BY <2>1 DEF Started
<1>5. \A u \in Thread : pc'[u] = IF u = t THEN l ELSE pc[u]
  BY <1>1 DEF TypeOK, Goto
<1>6. Opening'
  <2> SUFFICES ASSUME FirstCall'
               PROVE  /\ Alone' /\ pc'[First] \in OpenLabels /\ shm'.test_count = 0
                      /\ pc'[First] = "idle" => ~Started'
    BY DEF Opening
  <2>1. FirstCall
    BY <1>1, <1>3, <1>5 DEF FirstCall
  <2>2. /\ Alone /\ pc[First] \in OpenLabels /\ shm.test_count = 0
        /\ pc[First] = "idle" => ~Started
    BY <2>1 DEF Streaming, Opening
  <2>3. t = First /\ ~Started
    BY <1>1, <2>2 DEF Alone
  <2> QED  BY <1>1, <1>3, <1>5, <2>2, <2>3 DEF Alone
<1>7. Chosen'
  BY <1>1, <1>5 DEF Streaming, Chosen, TypeOK
<1>8. Leaving'
  BY <1>1, <1>3, LeavingMoves DEF Streaming
<1>9. Closes'
  <2>1. PlanClosed' => PlanClosed
    BY <1>1, StaysOpen
  <2> QED  BY <1>1, <2>1, ClosesMoves DEF Streaming
<1> QED  BY <1>6, <1>7, <1>8, <1>9 DEF Streaming

LEMMA StreamingAccepted ==
    ASSUME TypeOK, [Next]_vars, Planned, Streaming, NEW t \in Thread, PlanAccepted(t)
    PROVE  Streaming'
<1> DEFINE l == IF call[t].op = "plan_no_plan" THEN "unlock" ELSE "plan_set"
<1>1. /\ pc[t] \in {"plan_tests", "plan_no_plan"} /\ Goto(t, l)
      /\ UNCHANGED <<lines, calls, call>> /\ ~shm.have_plan
  BY DEF PlanAccepted, Planning, BadPlan, At, local, output
<1>2. shm'.have_plan /\ shm'.test_count = shm.test_count
  BY DEF PlanAccepted, TypeOK, Shm
<1>3. l \in {"unlock", "plan_set"}
  OBVIOUS
<1> HIDE DEF l
<1>4. Alone /\ shm.test_count = 0 /\ t = First
  BY <1>1 DEF Streaming, Opening, FirstCall, Alone
<1>5. \A u \in Thread : pc'[u] = IF u = t THEN l ELSE pc[u]
  BY <1>1 DEF TypeOK, Goto
<1>6. Opening'
  <2>1. CASE l = "plan_set"
    BY <1>2, <1>4, <1>5, <2>1 DEF Opening, Alone, OpenLabels
  <2>2. CASE l = "unlock"
    <3>1. ~FirstCall'
      BY <1>2, <1>4, <1>5, <2>2 DEF FirstCall, Alone
    <3> QED  BY <3>1 DEF Opening
  <2> QED  BY <1>3, <2>1, <2>2
<1>7. Chosen'
  BY <1>1, <1>3, <1>5 DEF Streaming, Chosen
<1>8. Leaving'
  BY <1>1, <1>3, LeavingMoves DEF Streaming, LeaveLabels
<1>9. Closes'
  <2>1. PlanClosed' => PlanClosed
    BY <1>1, StaysOpen
  <2> QED  BY <1>1, <2>1, ClosesMoves DEF Streaming
<1> QED  BY <1>6, <1>7, <1>8, <1>9 DEF Streaming

LEMMA StreamingSet ==
    ASSUME TypeOK, [Next]_vars, Numbering, Planned, Streaming, NEW t \in Thread, PlanSet(t)
    PROVE  Streaming'
<1>1. /\ pc[t] = "plan_set" /\ Goto(t, "unlock") /\ UNCHANGED <<calls, call>>
      /\ Emit("plan", call[t].n, TRUE, TRUE)
      /\ shm' = [shm EXCEPT !.e_tests = call[t].n]
  BY DEF PlanSet, At, local
<1>2. FirstCall
  BY <1>1 DEF FirstCall
<1>3. shm'.have_plan
  BY <1>1 DEF Planned, Pending, TypeOK, Shm
<1>4. \A u \in Thread : pc'[u] = IF u = t THEN "unlock" ELSE pc[u]
  BY <1>1 DEF TypeOK, Goto
<1>5. Opening'
  <2>1. Alone /\ t = First
    BY <1>1, <1>2 DEF Streaming, Opening, Alone
  <2>2. ~FirstCall'
    BY <1>3, <1>4, <2>1 DEF FirstCall, Alone
  <2> QED  BY <2>2 DEF Opening
<1>6. Chosen'
  BY <1>1, ChosenMoves DEF Streaming
<1>7. Leaving'
  BY <1>1, LeavingMoves DEF Streaming, LeaveLabels
<1>8. Closes'
  <2>1. call[t].n \in Nat
    BY DEF TypeOK, Call
  <2>2. Results = {}
    BY <1>2, NothingYet DEF Streaming
  <2>3. ~PlanClosed'
    BY <1>1, <2>1, <2>2, PlansEarly
  <2> QED  BY <2>3 DEF Closes
<1> QED  BY <1>5, <1>6, <1>7, <1>8 DEF Streaming

LEMMA StreamingSkipAll ==
    ASSUME TypeOK, [Next]_vars, Numbering, Planned, Streaming,
           NEW t \in Thread, PlanSkipAll(t)
    PROVE  Streaming'
<1>1. /\ pc[t] = "plan_skip_all" /\ Goto(t, "skip_all_eol") /\ UNCHANGED <<calls, call>>
      /\ Emit("plan", 0, TRUE, FALSE)
      /\ shm' = [shm EXCEPT !.skip_all = TRUE]
  BY DEF PlanSkipAll, At
<1>2. shm'.skip_all /\ shm'.test_count = shm.test_count
  BY <1>1 DEF TypeOK, Shm
<1>3. FirstCall
  BY <1>1 DEF Planned, SkipsAlone, Skipping, FirstCall
<1>4. Opening'
  <2>1. Started /\ Started'
    BY <1>1, Begun DEF Started
  <2>2. Grows
    BY GrowsStep
  <2> QED  BY <1>1, <1>2, <2>1, <2>2, OpeningMoves DEF Streaming, OpenLabels
<1>5. Chosen'
  BY <1>1, ChosenMoves DEF Streaming
<1>6. Leaving'
  BY <1>1, <1>2, LeavingMoves DEF Streaming, Gone
<1>7. Closes'
  <2>1. Results = {}
    BY <1>3, NothingYet DEF Streaming
  <2>2. ~PlanClosed'
    BY <1>1, <2>1, PlansEarly
  <2> QED  BY <2>2 DEF Closes
<1> QED  BY <1>4, <1>5, <1>6, <1>7 DEF Streaming

LEMMA StreamingBail ==
    ASSUME TypeOK, [Next]_vars, Planned, Streaming, NEW t \in Thread, Bail(t)
    PROVE  Streaming'
<1>1. pc[t] = "bail" /\ Goto(t, "bail_eol") /\ UNCHANGED <<shm, call, calls>>
      /\ Emit("bail", 0, FALSE, FALSE)
  BY DEF Bail, At, local
<1>2. Started /\ Started'
  BY <1>1, Begun DEF Started
<1>3. Gone(t)'
  BY BailLine DEF Gone
<1>4. \E e \in Line : e.kind # "plan" /\ lines' = Append(lines, e)
  BY <1>1, EmitOther
<1> QED  BY <1>1, <1>2, <1>3, <1>4, Ordinary DEF OpenLabels

LEMMA StreamingReturn ==
    ASSUME PlanFirst, Joins, TypeOK, [Next]_vars, Planned, Streaming,
           NEW t \in Thread, ReturnFromMain(t)
    PROVE  Streaming'
<1>1. /\ pc[t] = "idle" /\ Goto(t, "exit_status") /\ UNCHANGED <<shm, calls, lines, code>>
      /\ call' = [call EXCEPT ![t] = [NoCall EXCEPT !.op = "exit_status"]]
      /\ t = Leader[ProcOf[t]] /\ Joined(t) /\ Started
  BY DEF ReturnFromMain, At, output, process
<1>2. Started'
  BY <1>1 DEF Started
<1>3. \A u \in Thread : pc'[u] = IF u = t THEN "exit_status" ELSE pc[u]
  BY <1>1 DEF TypeOK, Goto
<1>4. ProcOf[t] = Main => Gone(t)'
  <2> SUFFICES ASSUME ProcOf[t] = Main PROVE t = First /\ Joined(First)'
    BY DEF Gone
  <2>1. t = First
    BY <1>1 DEF First
  <2> QED  BY <1>1, <1>3, <2>1 DEF Joined, Live
<1>5. \A u \in Thread \ {t} : call'[u] = call[u]
  BY <1>1 DEF TypeOK
<1> QED  BY <1>1, <1>2, <1>4, <1>5, Ordinary

LEMMA StreamingCleanup ==
    ASSUME TypeOK, [Next]_vars, Planned, Streaming, NEW t \in Thread, Cleanup(t)
    PROVE  Streaming'
<1>1. pc[t] = "cleanup" /\ Goto(t, "halt") /\ UNCHANGED <<shm, call, calls>>
  BY DEF Cleanup, At, local
<1>2. Started /\ Started' /\ Grows
  BY <1>1, Begun, GrowsStep DEF Started
<1>3. CASE ~(IsMain(ProcOf[t]) /\ TrailingPlan)
  <2>1. lines' = lines
    BY <1>3 DEF Cleanup, output
  <2> QED  BY <1>1, <1>2, <2>1, Ordinary DEF OpenLabels, LeaveLabels
<1>4. CASE IsMain(ProcOf[t]) /\ TrailingPlan
  <2>1. ProcOf[t] = Main
    BY <1>4, CoreAssumption DEF IsMain
  <2>2. shm.no_plan /\ ~shm.skip_all /\ ~shm.test_died
    BY <1>4 DEF TrailingPlan, Unplanned, Closing, Planned, Announced
  <2>3. Bailed \/ (t = First /\ Joined(First))
    BY <1>1, <2>1, <2>2 DEF Streaming, Leaving, LeaveLabels, Gone
  <2>4. Bailed' \/ (t = First /\ Joined(First)')
    BY <1>1, <1>2, <2>3, BailedStays, JoinedStays
  <2>5. Closes'
    BY <1>1, <2>2, <2>4 DEF Closes, TypeOK, Goto
  <2>6. Opening'
    BY <1>1, <1>2, OpeningMoves DEF Streaming, OpenLabels
  <2>7. Chosen'
    BY <1>1, ChosenMoves DEF Streaming
  <2>8. Leaving'
    BY <1>1, LeavingMoves DEF Streaming, LeaveLabels
  <2> QED  BY <2>5, <2>6, <2>7, <2>8 DEF Streaming
<1> QED  BY <1>3, <1>4

-----------------------------------------------------------------------------
(* Every step keeps the invariant *)

LEMMA StreamingWork ==
    ASSUME PlanFirst, Joins, TypeOK, Exclusion, [Next]_vars, Numbering, Planned, Streaming,
           NEW t \in Thread, Work(t)
    PROVE  Streaming'
<1> USE DEF At, local, output, process, OpenLabels, LeaveLabels
<1>1. pc[t] \notin {"idle", "unborn"} => Started
  BY Begun
<1>2. calls' = calls => (Started => Started')
  BY DEF Started
<1>3. CASE Count(t)
  BY <1>1, <1>2, <1>3, Ordinary DEF Count
<1>4. CASE PrintResult(t)
  <2>1. shm.test_count \in Nat /\ (call[t].ok \/ call[t].todo) \in BOOLEAN
    BY DEF TypeOK, Shm, Call
  <2>2. \E e \in Line : e.kind # "plan" /\ lines' = Append(lines, e)
    BY <1>4, <2>1, EmitOther DEF PrintResult
  <2> QED  BY <1>1, <1>2, <1>4, <2>2, Ordinary DEF PrintResult
<1>5. CASE Eol(t)
  BY <1>1, <1>2, <1>5, Ordinary DEF Eol, EndLine
<1>6. CASE Skip(t)
  <2>1. SkipNumber \in Nat
    BY DEF SkipNumber, TypeOK, Shm
  <2>2. \E e \in Line : e.kind # "plan" /\ lines' = Append(lines, e)
    BY <1>6, <2>1, EmitOther DEF Skip
  <2>3. ~FirstCall
    BY <1>6 DEF Skip, Streaming, Opening, Alone
  <2>4. \A u \in Thread : call'[u] = call[u] \/ pc[u] = "skip"
    BY <1>6 DEF Skip, TypeOK
  <2> QED  BY <1>6, <2>2, <2>3, <2>4, Unmoved DEF Skip
<1>7. CASE SkipEnd(t)
  BY <1>1, <1>2, <1>7, Ordinary DEF SkipEnd
<1>8. CASE PlanRefused(t)
  <2>1. shm'.test_died /\ shm'.test_count = shm.test_count
    BY <1>8 DEF PlanRefused, TypeOK, Shm
  <2> QED  BY <1>1, <1>2, <1>8, <2>1, Ordinary DEF PlanRefused, Planning, Gone
<1>9. CASE PlanAccepted(t)
  BY <1>9, StreamingAccepted
<1>10. CASE PlanSet(t)
  BY <1>10, StreamingSet
<1>11. CASE PlanSkipAll(t)
  BY <1>11, StreamingSkipAll
<1>12. CASE SkipAllEol(t)
  BY <1>1, <1>2, <1>12, Ordinary DEF SkipAllEol, EndLine
<1>13. CASE Bail(t)
  BY <1>13, StreamingBail
<1>14. CASE BailEol(t)
  BY <1>1, <1>2, <1>14, Ordinary DEF BailEol, EndLine
<1>15. CASE Return(t)
  BY <1>1, <1>2, <1>15, Ordinary DEF Return
<1>16. CASE Leave(t)
  BY <1>1, <1>2, <1>16, Ordinary DEF Leave
<1>17. CASE ReturnFromMain(t)
  BY <1>17, StreamingReturn
<1>18. CASE ExitStatus(t)
  BY <1>1, <1>2, <1>18, Ordinary DEF ExitStatus
<1>19. CASE LateStatus(t)
  BY <1>1, <1>2, <1>19, Ordinary DEF LateStatus
<1>20. CASE RunHandlers(t)
  BY <1>1, <1>2, <1>20, Ordinary DEF RunHandlers
<1>21. CASE Cleanup(t)
  BY <1>21, StreamingCleanup
<1>22. CASE Halt(t)
  BY <1>22, Unmoved DEF Halt
<1>23. CASE Finish(t)
  <2>1. Started
    BY <1>23, CoreAssumption DEF Finish, Planned, Fresh, Alone, First
  <2> QED  BY <1>2, <1>23, <2>1, Ordinary DEF Finish
<1> QED
  BY <1>3, <1>4, <1>5, <1>6, <1>7, <1>8, <1>9, <1>10, <1>11, <1>12, <1>13, <1>14, <1>15,
     <1>16, <1>17, <1>18, <1>19, <1>20, <1>21, <1>22, <1>23 DEF Work

LEMMA StreamingStep ==
    ASSUME PlanFirst, Joins, TypeOK, Exclusion, Numbering, Planned, Streaming, [Next]_vars
    PROVE  Streaming'
<1> USE DEF At, local, output, process, OpenLabels, LeaveLabels
<1>1. calls' = calls => (Started => Started')
  BY DEF Started
<1>2. ASSUME NEW t \in Thread, Work(t) PROVE Streaming'
  BY <1>2, StreamingWork
<1>3. ASSUME NEW t \in Thread, ExitTwice(t) PROVE Streaming'
  <2>1. Started
    BY <1>3, Begun DEF ExitTwice
  <2> QED  BY <1>1, <1>3, <2>1, Ordinary DEF ExitTwice
<1>4. ASSUME NEW t \in Thread, NEW c \in Menu[t], Enter(t, c) PROVE Streaming'
  BY <1>4, StreamingEnter
<1>5. ASSUME NEW t \in Thread, NEW c \in Menu[t], EnterBailOut(t, c) PROVE Streaming'
  <2>1. Started
    BY <1>5 DEF EnterBailOut, MayCall, Documented, PlanOps
  <2>2. Started' /\ \A u \in Thread \ {t} : call'[u] = call[u]
    BY <1>5, <2>1, CoreAssumption DEF EnterBailOut, Started, TypeOK
  <2> QED  BY <1>5, <2>1, <2>2, Ordinary DEF EnterBailOut, MayCall
<1>6. ASSUME NEW t \in Thread, NEW u \in Thread, Spawn(t, u) PROVE Streaming'
  <2>1. Started
    BY <1>6 DEF Spawn
  <2>2. ~FirstCall
    BY <1>6, <2>1 DEF Spawn, Streaming, Opening, Alone
  <2> QED  BY <1>1, <1>6, <2>1, <2>2, Ordinary DEF Spawn
<1>7. CASE UNCHANGED <<shm, pc, calls, call, lines>>
  BY <1>7, Unmoved
<1> QED
  BY <1>2, <1>3, <1>4, <1>5, <1>6, <1>7 DEF Next, Step, Terminated, Kill, vars

-----------------------------------------------------------------------------
(* Every step is one of the stream, or leaves it as it is *)

LEMMA StreamInit == Init => Stream!Init
<1> SUFFICES ASSUME Init PROVE Stream!Init
  OBVIOUS
<1>1. \A t \in Thread : pc[t] # "print"
  BY DEF Init
<1>2. Printed = 0
  BY <1>1 DEF Init, Printed
<1> QED  BY <1>2 DEF Init, Stream!Init

LEMMA PrintedSame ==
    ASSUME TypeOK, shm'.test_count = shm.test_count,
           NEW t \in Thread, NEW l, Goto(t, l), pc[t] # "print", l # "print"
    PROVE  Printed' = Printed
<1>1. \A u \in Thread : pc'[u] = "print" <=> pc[u] = "print"
  BY DEF Goto, TypeOK
<1> QED  BY <1>1 DEF Printed

\* A step that writes no line.
LEMMA Stutter ==
    ASSUME TypeOK, lines' = lines, shm'.test_count = shm.test_count,
           NEW t \in Thread, NEW l, Goto(t, l), pc[t] # "print", l # "print"
    PROVE  UNCHANGED Stream!vars
  BY PrintedSame DEF Stream!vars

\* After a plan that closes the stream a result comes only if somebody bailed out.
LEMMA MayReport ==
    ASSUME TypeOK, Streaming, NEW t \in Thread, Live(t), pc[t] \in {"print", "skip"}
    PROVE  Stream!Closed => Stream!Has("bail")
<1> SUFFICES ASSUME Stream!Closed PROVE Bailed
  BY DEF Stream!Has, Bailed
<1>1. PlanClosed
  BY DEF Stream!Closed, PlanClosed, Plans
<1>2. Bailed \/ (pc[First] = "halt" /\ Joined(First))
  BY <1>1 DEF Streaming, Closes
<1>3. ASSUME pc[First] = "halt", Joined(First) PROVE FALSE
  <2>1. First \in Thread /\ ProcOf[First] = Main
    BY CoreAssumption DEF First
  <2> QED  BY <1>3, <2>1 DEF Joined
<1> QED  BY <1>2, <1>3

LEMMA StreamPrint ==
    ASSUME TypeOK, Exclusion, Numbering, Streaming, NEW t \in Thread, PrintResult(t)
    PROVE  Stream!Next
<1>1. shm.test_count \in Nat /\ shm' = shm /\ pc[t] = "print" /\ Live(t)
  BY DEF TypeOK, Shm, PrintResult, At
<1>2. Printed = shm.test_count - 1
  BY <1>1 DEF Printed
<1>3. \A u \in Thread : pc'[u] # "print"
  BY <1>1, OnlyPrinter DEF PrintResult, Goto, TypeOK, Critical
<1>4. Printed' = shm.test_count
  BY <1>1, <1>3 DEF Printed
<1> DEFINE good == call[t].ok \/ call[t].todo
<1>5. good \in BOOLEAN
  OBVIOUS
<1>6. lines' = Append(lines, [kind |-> "result", num |-> shm.test_count, good |-> good])
  BY DEF PrintResult, Emit
<1> HIDE DEF good
<1>7. Stream!Closed => Stream!Has("bail")
  BY <1>1, MayReport
<1>8. Printed + 1 = shm.test_count
  BY <1>1, <1>2
<1>9. Stream!Result(good)
  BY <1>4, <1>6, <1>7, <1>8 DEF Stream!Result, Stream!Write
<1> QED  BY <1>5, <1>9 DEF Stream!Next

LEMMA StreamSkip ==
    ASSUME TypeOK, Exclusion, Numbering, Streaming, NEW t \in Thread, Skip(t)
    PROVE  Stream!Next
<1>1. shm.test_count \in Nat /\ shm'.test_count = shm.test_count + 1 /\ Live(t)
      /\ pc[t] = "skip"
  BY DEF TypeOK, Shm, Skip, At
<1>2. \A u \in Thread : pc[u] # "print" /\ pc'[u] # "print"
  BY OnlyPrinter DEF Skip, At, Critical
<1>3. Printed = shm.test_count /\ Printed' = shm.test_count + 1
  BY <1>1, <1>2 DEF Printed
<1>4. lines' = Append(lines, [kind |-> "result", num |-> shm.test_count + 1, good |-> TRUE])
  BY DEF Skip, SkipNumber, Emit
<1>5. Stream!Closed => Stream!Has("bail")
  BY <1>1, MayReport
<1>6. Stream!Result(TRUE)
  BY <1>3, <1>4, <1>5 DEF Stream!Result, Stream!Write
<1> QED  BY <1>6 DEF Stream!Next

LEMMA StreamSet ==
    ASSUME TypeOK, Numbering, Planned, Streaming, NEW t \in Thread, PlanSet(t)
    PROVE  Stream!Next
<1>1. /\ pc[t] = "plan_set" /\ Goto(t, "unlock")
      /\ lines' = Append(lines, [kind |-> "plan", num |-> call[t].n, good |-> TRUE])
      /\ shm'.test_count = shm.test_count
  BY DEF PlanSet, At, Emit, TypeOK, Shm
<1>2. Plans = {} /\ Printed = 0
  BY <1>1, NothingYet DEF Planned, Pending, Streaming, FirstCall
<1>3. ~Stream!Has("plan")
  BY <1>2 DEF Stream!Has, Plans
<1>4. Printed' = Printed
  BY <1>1, PrintedSame
<1>5. call[t].n \in {c.n : c \in UNION {Menu[u] : u \in Thread}}
  BY <1>1 DEF Streaming, Chosen
<1>6. Stream!LeadingPlan(call[t].n)
  BY <1>1, <1>2, <1>3, <1>4 DEF Stream!LeadingPlan, Stream!Write
<1> QED  BY <1>5, <1>6 DEF Stream!Next

LEMMA StreamSkipAll ==
    ASSUME TypeOK, Numbering, Planned, Streaming, NEW t \in Thread, PlanSkipAll(t)
    PROVE  Stream!Next
<1>1. /\ pc[t] = "plan_skip_all" /\ Goto(t, "skip_all_eol")
      /\ lines' = Append(lines, [kind |-> "plan", num |-> 0, good |-> TRUE])
      /\ shm'.test_count = shm.test_count
  BY DEF PlanSkipAll, At, Emit, TypeOK, Shm
<1>2. ~shm.have_plan /\ Alone /\ t = First
  BY <1>1 DEF Planned, SkipsAlone, Skipping, Alone
<1>3. Plans = {}
  BY <1>1, <1>2 DEF Planned, SkipsAlone, Announced
<1>4. Printed = 0
  BY <1>2, NothingYet DEF Streaming, FirstCall
<1>5. ~Stream!Has("plan")
  BY <1>3 DEF Stream!Has, Plans
<1>6. Printed' = Printed
  BY <1>1, PrintedSame
<1>7. Stream!TrailingPlan
  BY <1>1, <1>4, <1>5, <1>6 DEF Stream!TrailingPlan, Stream!Write
<1> QED  BY <1>7 DEF Stream!Next

LEMMA StreamCleanup ==
    ASSUME TypeOK, Exclusion, Planned, NEW t \in Thread, Cleanup(t)
    PROVE  [Stream!Next]_(Stream!vars)
<1>1. /\ pc[t] = "cleanup" /\ Goto(t, "halt") /\ shm' = shm /\ LockFree(t)
  BY DEF Cleanup, At
<1>2. CASE lines' = lines
  BY <1>1, <1>2, Stutter
<1>3. CASE lines' # lines
  <2>1. IsMain(ProcOf[t]) /\ TrailingPlan /\ verdict' = Closing
        /\ lines' = Append(lines, [kind |-> "plan", num |-> shm.test_count, good |-> TRUE])
    BY <1>3 DEF Cleanup, Emit, output
  <2>2. ProcOf[t] = Main
    BY <2>1, CoreAssumption DEF IsMain
  <2>3. verdict = "none"
    BY <1>1, <2>2 DEF Planned, Handlers
  <2>4. Plans = {}
    BY <2>1, <2>3 DEF TrailingPlan, Unplanned, Closing, Planned, Announced
  <2>5. ~Stream!Has("plan")
    BY <2>4 DEF Stream!Has, Plans
  <2>6. \A u \in Thread : pc[u] # "print"
    BY <1>1 DEF Exclusion, Critical, LockFree
  <2>7. Printed = shm.test_count /\ Printed' = Printed
    BY <1>1, <2>6, PrintedSame DEF Printed
  <2>8. Stream!TrailingPlan
    BY <2>1, <2>5, <2>7 DEF Stream!TrailingPlan, Stream!Write
  <2> QED  BY <2>8 DEF Stream!Next
<1> QED  BY <1>2, <1>3

LEMMA StreamBail ==
    ASSUME TypeOK, NEW t \in Thread, Bail(t) PROVE Stream!Next
<1>1. /\ pc[t] = "bail" /\ Goto(t, "bail_eol") /\ shm' = shm
      /\ lines' = Append(lines, [kind |-> "bail", num |-> 0, good |-> FALSE])
  BY DEF Bail, At, Emit
<1>2. Printed' = Printed
  BY <1>1, PrintedSame
<1> QED  BY <1>1, <1>2 DEF Stream!Next, Stream!BailOut, Stream!Write

LEMMA StreamWork ==
    ASSUME TypeOK, Exclusion, Numbering, Planned, Streaming, NEW t \in Thread, Work(t)
    PROVE  [Stream!Next]_(Stream!vars)
<1> USE DEF At, local, output, process
<1>1. CASE Count(t)
  <2>1. shm.test_count \in Nat /\ shm'.test_count = shm.test_count + 1
    BY <1>1 DEF TypeOK, Shm, Count
  <2>2. \A u \in Thread : pc[u] # "print"
    BY <1>1, OnlyPrinter DEF Count, Critical
  <2>3. pc'[t] = "print"
    BY <1>1 DEF Count, Goto, TypeOK
  <2>4. Printed' = Printed
    BY <2>1, <2>2, <2>3 DEF Printed
  <2> QED  BY <1>1, <2>4 DEF Count, Stream!vars
<1>2. CASE PrintResult(t)
  BY <1>2, StreamPrint
<1>3. CASE Eol(t)
  BY <1>3, Stutter DEF Eol, EndLine
<1>4. CASE Skip(t)
  BY <1>4, StreamSkip
<1>5. CASE SkipEnd(t)
  BY <1>5, Stutter DEF SkipEnd
<1>6. CASE PlanRefused(t)
  <2>1. shm'.test_count = shm.test_count
    BY <1>6 DEF PlanRefused, TypeOK, Shm
  <2> QED  BY <1>6, <2>1, Stutter DEF PlanRefused, Planning
<1>7. CASE PlanAccepted(t)
  <2>1. shm'.test_count = shm.test_count
    BY <1>7 DEF PlanAccepted, TypeOK, Shm
  <2> QED  BY <1>7, <2>1, Stutter DEF PlanAccepted, Planning
<1>8. CASE PlanSet(t)
  BY <1>8, StreamSet
<1>9. CASE PlanSkipAll(t)
  BY <1>9, StreamSkipAll
<1>10. CASE SkipAllEol(t)
  BY <1>10, Stutter DEF SkipAllEol, EndLine
<1>11. CASE Bail(t)
  BY <1>11, StreamBail
<1>12. CASE BailEol(t)
  BY <1>12, Stutter DEF BailEol, EndLine
<1>13. CASE Return(t)
  BY <1>13, Stutter DEF Return
<1>14. CASE Leave(t)
  BY <1>14, Stutter DEF Leave
<1>15. CASE ReturnFromMain(t)
  BY <1>15, Stutter DEF ReturnFromMain
<1>16. CASE ExitStatus(t)
  BY <1>16, Stutter DEF ExitStatus
<1>17. CASE LateStatus(t)
  BY <1>17, Stutter DEF LateStatus
<1>18. CASE RunHandlers(t)
  BY <1>18, Stutter DEF RunHandlers
<1>19. CASE Cleanup(t)
  BY <1>19, StreamCleanup
<1>20. CASE Halt(t)
  BY <1>20 DEF Halt, Stream!vars, Printed
<1>21. CASE Finish(t)
  BY <1>21, Stutter DEF Finish
<1> QED
  BY <1>1, <1>2, <1>3, <1>4, <1>5, <1>6, <1>7, <1>8, <1>9, <1>10, <1>11, <1>12, <1>13,
     <1>14, <1>15, <1>16, <1>17, <1>18, <1>19, <1>20, <1>21 DEF Work

LEMMA StreamStep ==
    ASSUME TypeOK, Exclusion, Numbering, Planned, Streaming, [Next]_vars
    PROVE  [Stream!Next]_(Stream!vars)
<1> USE DEF At, local, output, process
<1>1. ASSUME NEW t \in Thread, Work(t) PROVE [Stream!Next]_(Stream!vars)
  BY <1>1, StreamWork
<1>2. ASSUME NEW t \in Thread, ExitTwice(t) PROVE [Stream!Next]_(Stream!vars)
  BY <1>2, Stutter DEF ExitTwice
<1>3. ASSUME NEW t \in Thread, NEW c \in Menu[t], Enter(t, c)
      PROVE  [Stream!Next]_(Stream!vars)
  <2>1. c.op # "print"
    BY CoreAssumption DEF Call
  <2> QED  BY <1>3, <2>1, Stutter DEF Enter, MayCall
<1>4. ASSUME NEW t \in Thread, NEW c \in Menu[t], EnterBailOut(t, c)
      PROVE  [Stream!Next]_(Stream!vars)
  BY <1>4, Stutter DEF EnterBailOut, MayCall
<1>5. ASSUME NEW t \in Thread, NEW u \in Thread, Spawn(t, u)
      PROVE  [Stream!Next]_(Stream!vars)
  BY <1>5, Stutter DEF Spawn
<1>6. CASE UNCHANGED <<shm, pc, lines>>
  BY <1>6 DEF Stream!vars, Printed
<1> QED
  BY <1>1, <1>2, <1>3, <1>4, <1>5, <1>6 DEF Next, Step, Terminated, Kill, vars

\* What all threads and processes write together, with any interleaving, kills
\* and bail-outs, is one TAP stream: every line libtap begins is one that the
\* stream allows next, and the other steps do not show.
THEOREM StreamImplemented == ASSUME PlanFirst, Joins PROVE Spec => ImplementsStream
<1> DEFINE IInv == TypeOK /\ Exclusion /\ Numbering /\ Planned /\ Streaming
<1>1. Init => IInv
  BY TypeInit, ExclusionInit, NumberingInit, PlannedInit, StreamingInit
<1>2. IInv /\ [Next]_vars => IInv'
  BY TypeStep, ExclusionStep, NumberingStep, PlannedStep, StreamingStep
<1>3. Init => Stream!Init
  BY StreamInit
<1>4. IInv /\ [Next]_vars => [Stream!Next]_(Stream!vars)
  BY StreamStep
<1> HIDE DEF IInv
<1> QED  BY <1>1, <1>2, <1>3, <1>4, PTL DEF Spec, ImplementsStream, Stream!Spec
=============================================================================
