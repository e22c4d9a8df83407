---------------------------- MODULE TapExitProof ----------------------------
(***************************************************************************)
(* Theorems about the end of the processes of TapCore (exit_status() and   *)
(* _cleanup()), for every set of threads and processes, every menu of      *)
(* calls and every bound.                                                  *)
(***************************************************************************)
EXTENDS TapStreamProof

\* No child bails out, neither by BAIL_OUT() nor in a mandatory test.
NoBailInChildren ==
    \A t \in Thread : ProcOf[t] # Main =>
        \A c \in Menu[t] : c.op # "BAIL_OUT" /\ (c.op = "test" /\ c.mp => c.ok)

\* Where a thread is in exit().
Ending == {"exit", "cleanup", "halt"}

-----------------------------------------------------------------------------
(* The invariant *)

\* Nobody in a child bails out.
ChildrenStay ==
    \A t \in Thread : ProcOf[t] # Main =>
        /\ pc[t] \notin {"bail", "bail_eol"}
        /\ pc[t] \in {"test", "print", "eol"} => call[t].ok \/ ~call[t].mp

\* Who bailed out is a thread of the main process, and ends it.
Bailing ==
    Bailed => \E t \in Thread :
        /\ ProcOf[t] = Main
        /\ pc[t] \in {"bail_eol"} \cup Ending
        /\ pc[t] \in Ending => status[t] = 255

\* A plan was refused in a child, or by a thread that ends the main process.
Refused ==
    shm.test_died => ForkMode \/ \E t \in Thread : pc[t] \in {"leave"} \cup Ending

\* With what the main process exits.
Reasons ==
    \A t \in Thread : ProcOf[t] = Main =>
        /\ pc[t] = "skip_all_eol" => shm.skip_all
        /\ pc[t] \in {"exit_status", "late"} => t = First /\ call[t].op = "exit_status"
        /\ pc[t] \in {"leave"} \cup Ending =>
               status[t] = 255 \/ shm.skip_all \/ (t = First /\ call[t].op = "exit_status")

\* The plan on the output is the one that exit_status() looks at.
Announces ==
    /\ shm.have_plan /\ ~shm.no_plan =>
           \/ \E t \in Thread : pc[t] = "plan_set"
           \/ \E i \in Plans : lines[i].num = shm.e_tests
    /\ ~shm.have_plan \/ shm.no_plan => shm.e_tests = 0

\* Who skips everything exits with 0.
SkipsAll ==
    shm.skip_all =>
        /\ pc[First] \in {"skip_all_eol", "leave"} \cup Ending
        /\ status[First] = 0
        /\ \E i \in Plans : lines[i].num = 0

\* The handlers run in some thread of the main process.
Handled ==
    Main \in exiting => \E t \in Thread : ProcOf[t] = Main /\ pc[t] \in {"cleanup", "halt"}

\* The exit code is the status of a thread that exits.
Coded ==
    code[Main] < Running =>
        \E t \in Thread : ProcOf[t] = Main /\ pc[t] = "halt" /\ code[Main] = status[t] % 256

\* main() returned: it is the last one, and judges what the others left.
Judging ==
    call[First].op = "exit_status" =>
        /\ pc[First] \in {"exit_status", "late"} \cup Ending
        /\ \A u \in Thread \ {First} :
               /\ held[u] = 0
               /\ pc[u] \in {"unborn", "done"} \/ (ProcOf[u] # Main /\ ~Live(u))
        /\ ~Bailed
        /\ shm.have_plan
        /\ shm.test_died => ForkMode
        /\ pc[First] \in {"exit_status", "late", "exit"} => Main \notin exiting
        /\ pc[First] = "late" => Unplanned
        /\ pc[First] \in Ending =>
               status[First] = IF Unplanned THEN shm.failures ELSE PlannedStatus
        /\ pc[First] = "halt" =>
               /\ verdict = Closing
               /\ TrailingPlan => \E i \in Plans : lines[i].num = shm.test_count

-----------------------------------------------------------------------------
(* Who does what *)

LEMMA FirstThread == First \in Thread /\ ProcOf[First] = Main /\ Main \in Process
  BY CoreAssumption DEF First

\* What one thread does to itself.
Acts(t) == Work(t) \/ ExitTwice(t) \/ \E c \in Menu[t] : Enter(t, c) \/ EnterBailOut(t, c)

\* The others stay as they are.
LEMMA Others ==
    ASSUME TypeOK, NEW t \in Thread, Acts(t)
    PROVE  \A u \in Thread \ {t} :
               pc'[u] = pc[u] /\ status'[u] = status[u] /\ call'[u] = call[u]
  BY DEF TypeOK, At, Goto, Acts, Work, ExitTwice, Enter, EnterBailOut, local, process,
         Count, PrintResult, Eol, Skip, SkipEnd, PlanRefused,
         PlanAccepted, PlanSet, PlanSkipAll, SkipAllEol, Bail, BailEol, Return, Leave,
         ReturnFromMain, ExitStatus, LateStatus, RunHandlers, Cleanup, Halt, Finish

\* The ways out of a call that exits.
OnExit(t) ==
    /\ pc[t] = "skip_all_eol" => pc'[t] \in {"skip_all_eol", "leave"} /\ status'[t] = status[t]
    /\ pc[t] = "leave" => pc'[t] \in {"leave", "exit"} /\ status'[t] = status[t]
    /\ pc[t] = "bail_eol" => pc'[t] = "bail_eol" \/ (pc'[t] = "exit" /\ status'[t] = 255)
    /\ pc[t] = "exit" => pc'[t] \in Ending /\ status'[t] = status[t]
    /\ pc[t] = "cleanup" => pc'[t] \in {"cleanup", "halt"} /\ status'[t] = status[t]
    /\ pc[t] = "halt" => pc'[t] = "halt" /\ status'[t] = status[t]
    /\ pc[t] \in {"skip_all_eol", "leave", "bail_eol"} \cup Ending => call'[t] = call[t]

LEMMA ActsOnExit == ASSUME TypeOK, NEW t \in Thread, Acts(t) PROVE OnExit(t)
  BY DEF OnExit, Ending, TypeOK, At, Goto, Acts, Work, ExitTwice, Enter, EnterBailOut, MayCall,
         local, process, Count, PrintResult, Eol, Skip, SkipEnd, Planning, PlanRefused,
         PlanAccepted, PlanSet, PlanSkipAll, SkipAllEol, Bail, BailEol, Return, Leave,
         ReturnFromMain, ExitStatus, LateStatus, RunHandlers, Cleanup, Halt, Finish

LEMMA ExitPath == ASSUME TypeOK, [Next]_vars, NEW t \in Thread PROVE OnExit(t)
<1>1. ASSUME NEW u \in Thread, Acts(u) PROVE OnExit(t)
  BY <1>1, Others, ActsOnExit DEF OnExit, Ending
<1>2. ASSUME NEW u \in Thread, NEW v \in Thread, Spawn(u, v) PROVE OnExit(t)
  BY <1>2 DEF Spawn, Goto, TypeOK, OnExit, Ending, local
<1>3. ASSUME NEW p \in Process, Kill(p) PROVE OnExit(t)
  BY <1>3 DEF Kill, OnExit, Ending, local
<1>4. ASSUME UNCHANGED vars PROVE OnExit(t)
  BY <1>4 DEF vars, OnExit, Ending, local
<1> QED  BY <1>1, <1>2, <1>3, <1>4 DEF Next, Step, Acts, Terminated

-----------------------------------------------------------------------------
(* Who bails out *)

LEMMA ChildrenStayStep ==
    ASSUME NoBailInChildren, TypeOK, ChildrenStay, [Next]_vars PROVE ChildrenStay'
<1>1. ASSUME NEW t \in Thread, Acts(t) PROVE ChildrenStay'
  <2>1. ASSUME ProcOf[t] # Main
        PROVE  /\ pc'[t] \notin {"bail", "bail_eol"}
               /\ pc'[t] \in {"test", "print", "eol"} => call'[t].ok \/ ~call'[t].mp
    <3>1. /\ pc[t] \notin {"bail", "bail_eol"}
          /\ pc[t] \in {"test", "print", "eol"} => call[t].ok \/ ~call[t].mp
      BY <2>1 DEF ChildrenStay
    <3>2. CASE Work(t) \/ ExitTwice(t)
      BY <3>1, <3>2
      DEF TypeOK, At, Goto, Work, ExitTwice, local, process, Count, PrintResult, Eol, Skip,
          SkipEnd, PlanRefused, PlanAccepted, PlanSet, PlanSkipAll, SkipAllEol, Bail, BailEol,
          Return, Leave, ReturnFromMain, ExitStatus, LateStatus, RunHandlers, Cleanup, Halt,
          Finish
    <3>3. ASSUME NEW c \in Menu[t], Enter(t, c) \/ EnterBailOut(t, c)
          PROVE  /\ pc'[t] \notin {"bail", "bail_eol"}
                 /\ pc'[t] \in {"test", "print", "eol"} => call'[t].ok \/ ~call'[t].mp
      <4>1. c \in Call /\ c.op # "BAIL_OUT" /\ (c.op = "test" /\ c.mp => c.ok)
        BY <2>1, CoreAssumption DEF NoBailInChildren
      <4> QED  BY <3>3, <4>1 DEF Enter, EnterBailOut, Goto, TypeOK, Call
    <3> QED  BY <1>1, <3>2, <3>3 DEF Acts
  <2> QED  BY <1>1, <2>1, Others DEF ChildrenStay
<1>2. ASSUME NEW u \in Thread, NEW v \in Thread, Spawn(u, v) PROVE ChildrenStay'
  BY <1>2 DEF Spawn, Goto, TypeOK, ChildrenStay, local
<1>3. ASSUME NEW p \in Process, Kill(p) PROVE ChildrenStay'
  BY <1>3 DEF Kill, ChildrenStay, local
<1>4. CASE UNCHANGED vars
  BY <1>4 DEF vars, ChildrenStay, local
<1> QED  BY <1>1, <1>2, <1>3, <1>4 DEF Next, Step, Acts, Terminated

\* The lines that a step of t may begin.
Writes(t) ==
    \/ lines' = lines
    \/ \E e \in Line :
           /\ lines' = Append(lines, e)
           /\ e.kind = "bail" => pc[t] = "bail" /\ pc'[t] = "bail_eol"
           /\ e.kind = "plan" => pc[t] \in {"plan_set", "plan_skip_all", "cleanup"}

LEMMA ActsWrites == ASSUME TypeOK, NEW t \in Thread, Acts(t) PROVE Writes(t)
<1>1. ASSUME NEW kind \in {"result", "plan", "bail"}, NEW num \in Nat, NEW good \in BOOLEAN,
             NEW newline \in BOOLEAN, Emit(kind, num, good, newline)
      PROVE  \E e \in Line : lines' = Append(lines, e) /\ e.kind = kind
  <2>1. [kind |-> kind, num |-> num, good |-> good] \in Line
    BY DEF Line
  <2> QED  BY <1>1, <2>1 DEF Emit
<1>2. shm.test_count \in Nat /\ SkipNumber \in Nat
  BY DEF TypeOK, Shm, SkipNumber
<1>3. call[t].n \in Nat /\ (call[t].ok \/ call[t].todo) \in BOOLEAN
  BY DEF TypeOK, Call
<1>4. CASE PrintResult(t) \/ Skip(t)
  BY <1>1, <1>2, <1>3, <1>4 DEF PrintResult, Skip, Writes
<1>5. CASE PlanSet(t) \/ PlanSkipAll(t)
  BY <1>1, <1>3, <1>5 DEF PlanSet, PlanSkipAll, At, Writes
<1>6. CASE Bail(t)
  BY <1>1, <1>6 DEF Bail, At, Goto, Writes, TypeOK
<1>7. CASE Cleanup(t)
  BY <1>1, <1>2, <1>7 DEF Cleanup, At, Writes, output
<1> QED
  BY <1>4, <1>5, <1>6, <1>7
  DEF Writes, Acts, Work, ExitTwice, Enter, EnterBailOut, output, EndLine,
      Count, Eol, SkipEnd, PlanRefused, PlanAccepted, SkipAllEol, BailEol, Return, Leave,
      ReturnFromMain, ExitStatus, LateStatus, RunHandlers, Halt, Finish

\* Nobody bails out but at "bail".
LEMMA NoBailLine ==
    ASSUME TypeOK, ~Bailed,
           \/ lines' = lines
           \/ \E e \in Line : e.kind # "bail" /\ lines' = Append(lines, e)
    PROVE  ~Bailed'
<1>1. CASE lines' = lines
  BY <1>1 DEF Bailed
<1>2. ASSUME NEW e \in Line, e.kind # "bail", lines' = Append(lines, e) PROVE ~Bailed'
  <2>1. /\ DOMAIN lines' = 1..Len(lines) + 1 /\ Len(lines) \in Nat /\ DOMAIN lines = 1..Len(lines)
        /\ \A i \in 1..Len(lines) : lines'[i] = lines[i]
        /\ lines'[Len(lines) + 1] = e
    BY <1>2, AppendLine, LenProperties DEF TypeOK
  <2>2. \A i \in 1..Len(lines) + 1 : i \in 1..Len(lines) \/ i = Len(lines) + 1
    BY <2>1
  <2> QED  BY <1>2, <2>1, <2>2 DEF Bailed
<1> QED  BY <1>1, <1>2

LEMMA BailingStep ==
    ASSUME TypeOK, ChildrenStay, Bailing, [Next]_vars PROVE Bailing'
<1>1. CASE Bailed
  <2>1. PICK t \in Thread : /\ ProcOf[t] = Main
                            /\ pc[t] \in {"bail_eol"} \cup Ending
                            /\ pc[t] \in Ending => status[t] = 255
    BY <1>1 DEF Bailing
  <2>2. OnExit(t)
    BY ExitPath
  <2> QED  BY <2>1, <2>2 DEF OnExit, Bailing, Ending
<1>2. CASE ~Bailed
  <2>1. ASSUME NEW t \in Thread, Acts(t) PROVE Bailing'
    <3>1. Writes(t)
      BY <2>1, ActsWrites
    <3>2. CASE pc[t] = "bail" /\ pc'[t] = "bail_eol"
      BY <3>2 DEF ChildrenStay, Bailing, Ending
    <3>3. CASE ~(pc[t] = "bail" /\ pc'[t] = "bail_eol")
      BY <1>2, <3>1, <3>3, NoBailLine DEF Writes, Bailing
    <3> QED  BY <3>2, <3>3
  <2>2. CASE lines' = lines
    BY <1>2, <2>2, NoBailLine DEF Bailing
  <2> QED  BY <2>1, <2>2 DEF Next, Step, Acts, Terminated, Spawn, Kill, vars, output
<1> QED  BY <1>1, <1>2

-----------------------------------------------------------------------------
(* Why the main process ends *)

LEMMA RefusedStep == ASSUME TypeOK, Refused, [Next]_vars PROVE Refused'
<1>1. CASE shm.test_died
  BY <1>1, ExitPath DEF Refused, OnExit, Ending
<1>2. CASE ~shm.test_died
  <2>1. ASSUME NEW t \in Thread, PlanRefused(t) PROVE Refused'
    BY <2>1 DEF PlanRefused, Goto, TypeOK, Refused
  <2>2. CASE shm'.test_died = shm.test_died
    BY <1>2, <2>2 DEF Refused
  <2>3. ASSUME NEW t \in Thread, Work(t), ~PlanRefused(t) PROVE shm'.test_died = shm.test_died
    BY <2>3
    DEF TypeOK, Shm, Work, Count, PrintResult, Eol, Skip, SkipEnd, PlanAccepted, PlanSet,
        PlanSkipAll, SkipAllEol, Bail, BailEol, Return, Leave, ReturnFromMain, ExitStatus,
        LateStatus, RunHandlers, Cleanup, Halt, Finish
  <2> QED
    BY <2>1, <2>2, <2>3
    DEF Next, Step, Terminated, Spawn, Kill, vars, ExitTwice, Enter, EnterBailOut
<1> QED  BY <1>1, <1>2

LEMMA ReasonsStep == ASSUME TypeOK, Reasons, [Next]_vars PROVE Reasons'
<1> DEFINE R(t) ==
        /\ pc[t] = "skip_all_eol" => shm.skip_all
        /\ pc[t] \in {"exit_status", "late"} => t = First /\ call[t].op = "exit_status"
        /\ pc[t] \in {"leave"} \cup Ending =>
               status[t] = 255 \/ shm.skip_all \/ (t = First /\ call[t].op = "exit_status")
<1>1. shm.skip_all => shm'.skip_all
  BY GrowsStep DEF Grows
<1>2. ASSUME NEW t \in Thread, ProcOf[t] = Main, Acts(t) PROVE R(t)'
  <2>1. R(t)
    BY <1>2 DEF Reasons
  <2>2. CASE Work(t) \/ ExitTwice(t)
    <3>1. CASE PlanSkipAll(t)
      BY <3>1 DEF PlanSkipAll, Goto, TypeOK, Shm, Ending
    <3>2. CASE ReturnFromMain(t)
      BY <1>2, <3>2, NoCallType DEF ReturnFromMain, Goto, TypeOK, Ending, First, Call
    <3>3. CASE PlanRefused(t) \/ BailEol(t)
      BY <3>3 DEF PlanRefused, BailEol, Goto, TypeOK, Ending
    <3>4. CASE SkipAllEol(t) \/ Leave(t) \/ ExitStatus(t) \/ LateStatus(t) \/ RunHandlers(t)
               \/ ExitTwice(t) \/ Cleanup(t) \/ Halt(t)
      BY <1>1, <2>1, <3>4
      DEF Ending, TypeOK, At, Goto, local, SkipAllEol, Leave, ExitStatus, LateStatus,
          RunHandlers, ExitTwice, Cleanup, Halt
    <3>5. CASE Skip(t)
      BY <3>5 DEF Skip, At, Ending
    <3>6. CASE Count(t) \/ PrintResult(t) \/ Eol(t) \/ SkipEnd(t) \/ PlanAccepted(t)
               \/ PlanSet(t) \/ Bail(t) \/ Return(t) \/ Finish(t)
      <4>1. pc'[t] \notin {"skip_all_eol", "exit_status", "late", "leave"} \cup Ending
        BY <3>6 DEF Ending, TypeOK, Goto, Count, PrintResult, Eol, SkipEnd, PlanAccepted,
                    PlanSet, Bail, Return, Finish
      <4> QED  BY <4>1
    <3> QED  BY <2>2, <3>1, <3>2, <3>3, <3>4, <3>5, <3>6 DEF Work
  <2>3. ASSUME NEW c \in Menu[t], Enter(t, c) \/ EnterBailOut(t, c) PROVE R(t)'
    <3>1. c \in Call /\ c.op # "exit_status"
      BY CoreAssumption
    <3> QED  BY <2>3, <3>1 DEF Enter, EnterBailOut, Goto, TypeOK, Call, Ending
  <2> QED  BY <1>2, <2>2, <2>3 DEF Acts
<1>3. ASSUME NEW t \in Thread, Acts(t) PROVE Reasons'
  BY <1>1, <1>2, <1>3, Others DEF Reasons
<1>4. ASSUME NEW u \in Thread, NEW v \in Thread, Spawn(u, v) PROVE Reasons'
  BY <1>4 DEF Spawn, Goto, TypeOK, Reasons, Ending, local
<1>5. CASE UNCHANGED <<shm, pc, call, status>>
  BY <1>5 DEF Reasons
<1> QED  BY <1>3, <1>4, <1>5 DEF Next, Step, Acts, Terminated, Kill, vars, local

LEMMA HandledStep == ASSUME TypeOK, Handled, [Next]_vars PROVE Handled'
<1>1. CASE Main \in exiting
  BY <1>1, ExitPath DEF Handled, OnExit, Ending
<1>2. CASE Main \notin exiting
  <2>1. ASSUME NEW t \in Thread, RunHandlers(t) PROVE Handled'
    BY <1>2, <2>1 DEF RunHandlers, Goto, TypeOK, Handled
  <2>2. CASE exiting' = exiting
    BY <1>2, <2>2 DEF Handled
  <2> QED
    BY <2>1, <2>2
    DEF Next, Step, Terminated, Spawn, Kill, vars, ExitTwice, Enter, EnterBailOut, process,
        Work, Count, PrintResult, Eol, Skip, SkipEnd, PlanRefused, PlanAccepted, PlanSet,
        PlanSkipAll, SkipAllEol, Bail, BailEol, Return, Leave, ReturnFromMain, ExitStatus,
        LateStatus, Cleanup, Halt, Finish
<1> QED  BY <1>1, <1>2

LEMMA CodedStep == ASSUME TypeOK, Coded, [Next]_vars PROVE Coded'
<1> code \in [Process -> 0..Killed] /\ Main \in Process
  BY CoreAssumption DEF TypeOK
<1>1. CASE code'[Main] = code[Main]
  BY <1>1, ExitPath DEF Coded, OnExit
<1>2. ASSUME NEW t \in Thread, ExitTwice(t) \/ Halt(t), code'[Main] # code[Main] PROVE Coded'
  <2>1. ProcOf[t] = Main /\ code'[Main] = status[t] % 256
    BY <1>2, CoreAssumption DEF ExitTwice, Halt
  <2>2. pc'[t] = "halt" /\ status' = status
    BY <1>2 DEF ExitTwice, Halt, At, Goto, TypeOK, local
  <2> QED  BY <2>1, <2>2 DEF Coded
<1>3. ASSUME NEW p \in Process, Kill(p), code'[Main] # code[Main] PROVE Coded'
  <2>1. code'[Main] = Killed
    BY <1>3 DEF Kill
  <2> QED  BY <2>1 DEF Coded, Killed, Running
<1> QED
  BY <1>1, <1>2, <1>3
  DEF Next, Step, Terminated, Spawn, vars, Enter, EnterBailOut, process,
      Work, Count, PrintResult, Eol, Skip, SkipEnd, PlanRefused, PlanAccepted, PlanSet,
      PlanSkipAll, SkipAllEol, Bail, BailEol, Return, Leave, ReturnFromMain, ExitStatus,
      LateStatus, RunHandlers, Cleanup, Finish

-----------------------------------------------------------------------------
(* The plan on the output *)

HasPlan(n) == \E i \in Plans : lines[i].num = n

LEMMA PlanKept ==
    ASSUME TypeOK, [Next]_vars, NEW n \in Nat, HasPlan(n) PROVE HasPlan(n)'
<1>1. PICK i \in Plans : lines[i].num = n
  BY DEF HasPlan
<1>2. CASE lines' = lines
  BY <1>1, <1>2 DEF Plans, HasPlan
<1>3. ASSUME NEW e \in Line, lines' = Append(lines, e) PROVE HasPlan(n)'
  <2>1. /\ DOMAIN lines' = 1..Len(lines) + 1 /\ Len(lines) \in Nat /\ DOMAIN lines = 1..Len(lines)
        /\ \A j \in 1..Len(lines) : lines'[j] = lines[j]
    BY <1>3, AppendLine, LenProperties DEF TypeOK
  <2> QED  BY <1>1, <2>1 DEF Plans, HasPlan
<1> QED  BY <1>2, <1>3, GrowsStep DEF Grows

LEMMA PlanWritten ==
    ASSUME TypeOK, NEW n \in Nat, NEW newline \in BOOLEAN, Emit("plan", n, TRUE, newline)
    PROVE  HasPlan(n)'
<1> DEFINE e == [kind |-> "plan", num |-> n, good |-> TRUE]
<1>1. e \in Line /\ e.kind = "plan" /\ e.num = n
  BY DEF Line
<1>2. lines' = Append(lines, e)
  BY DEF Emit
<1> HIDE DEF e
<1>3. /\ DOMAIN lines' = 1..Len(lines) + 1 /\ Len(lines) \in Nat
      /\ lines'[Len(lines) + 1] = e
  BY <1>1, <1>2, AppendLine, LenProperties DEF TypeOK
<1> QED  BY <1>1, <1>3 DEF Plans, HasPlan

LEMMA SkipsAllStep ==
    ASSUME TypeOK, Planned, SkipsAll, [Next]_vars PROVE SkipsAll'
<1>1. CASE shm.skip_all
  <2>1. HasPlan(0)'
    BY <1>1, PlanKept DEF SkipsAll, HasPlan
  <2>2. OnExit(First)
    BY ExitPath, FirstThread
  <2> QED  BY <1>1, <2>1, <2>2 DEF SkipsAll, OnExit, Ending, HasPlan
<1>2. CASE ~shm.skip_all
  <2>1. ASSUME NEW t \in Thread, PlanSkipAll(t) PROVE SkipsAll'
    <3>1. t = First
      BY <2>1 DEF PlanSkipAll, At, Planned, SkipsAlone, Skipping, Alone
    <3>2. HasPlan(0)'
      BY <2>1, PlanWritten DEF PlanSkipAll
    <3> QED  BY <2>1, <3>1, <3>2 DEF PlanSkipAll, Goto, TypeOK, SkipsAll, HasPlan
  <2>2. CASE shm'.skip_all = shm.skip_all
    BY <1>2, <2>2 DEF SkipsAll
  <2>3. ASSUME NEW t \in Thread, Work(t), ~PlanSkipAll(t) PROVE shm'.skip_all = shm.skip_all
    BY <2>3
    DEF TypeOK, Shm, Work, Count, PrintResult, Eol, Skip, SkipEnd, PlanRefused, PlanAccepted,
        PlanSet, SkipAllEol, Bail, BailEol, Return, Leave, ReturnFromMain, ExitStatus,
        LateStatus, RunHandlers, Cleanup, Halt, Finish
  <2> QED
    BY <2>1, <2>2, <2>3
    DEF Next, Step, Terminated, Spawn, Kill, vars, ExitTwice, Enter, EnterBailOut
<1> QED  BY <1>1, <1>2

LEMMA AnnouncesStep ==
    ASSUME TypeOK, Planned, Announces, [Next]_vars PROVE Announces'
<1> /\ shm \in Shm /\ shm.e_tests \in Nat
  BY DEF TypeOK, Shm
<1>1. ASSUME NEW t \in Thread, PlanAccepted(t) PROVE Announces'
  <2>1. ~shm.have_plan /\ shm.e_tests = 0
    BY <1>1 DEF PlanAccepted, BadPlan, Announces
  <2>2. /\ shm'.e_tests = 0 /\ shm'.have_plan
        /\ call[t].op = "plan_no_plan" => shm'.no_plan
    BY <1>1, <2>1 DEF PlanAccepted, Shm
  <2>3. call[t].op # "plan_no_plan" => pc'[t] = "plan_set"
    BY <1>1 DEF PlanAccepted, Goto, TypeOK
  <2> QED  BY <2>2, <2>3 DEF Announces
<1>2. ASSUME NEW t \in Thread, PlanSet(t) PROVE Announces'
  <2>1. shm.have_plan /\ ~shm.no_plan /\ call[t].n \in Nat
    BY <1>2 DEF PlanSet, At, Planned, Pending, TypeOK, Call
  <2>2. PICK n \in Nat : n = call[t].n
    BY <2>1
  <2>3. shm'.e_tests = n /\ shm'.have_plan /\ ~shm'.no_plan
    BY <1>2, <2>1, <2>2 DEF PlanSet, Shm
  <2>4. HasPlan(n)'
    BY <1>2, <2>2, PlanWritten DEF PlanSet
  <2> QED  BY <2>3, <2>4 DEF Announces, HasPlan
<1>3. ASSUME /\ shm'.have_plan = shm.have_plan /\ shm'.no_plan = shm.no_plan
             /\ shm'.e_tests = shm.e_tests,
             \A t \in Thread : pc[t] = "plan_set" => pc'[t] = "plan_set"
      PROVE  Announces'
  <2>1. \A n \in Nat : HasPlan(n) => HasPlan(n)'
    BY PlanKept
  <2>2. PICK n \in Nat : n = shm.e_tests
    OBVIOUS
  <2> QED  BY <1>3, <2>1, <2>2 DEF Announces, HasPlan
<1>4. ASSUME NEW t \in Thread, Work(t), ~PlanAccepted(t), ~PlanSet(t)
      PROVE  /\ shm'.have_plan = shm.have_plan /\ shm'.no_plan = shm.no_plan
             /\ shm'.e_tests = shm.e_tests
  BY <1>4
  DEF Shm, Work, Count, PrintResult, Eol, Skip, SkipEnd, PlanRefused,
      PlanSkipAll, SkipAllEol, Bail, BailEol, Return, Leave, ReturnFromMain, ExitStatus,
      LateStatus, RunHandlers, Cleanup, Halt, Finish
<1>5. ASSUME NEW t \in Thread, Acts(t), ~PlanSet(t), pc[t] = "plan_set"
      PROVE  pc'[t] = "plan_set"
  BY <1>5 DEF TypeOK, At, Acts, Work, ExitTwice, Enter, EnterBailOut, MayCall, local,
         process, Count, PrintResult, Eol, Skip, SkipEnd, Planning, PlanRefused,
         PlanAccepted, PlanSkipAll, SkipAllEol, Bail, BailEol, Return, Leave,
         ReturnFromMain, ExitStatus, LateStatus, RunHandlers, Cleanup, Halt, Finish
<1>6. ASSUME NEW t \in Thread, Acts(t) PROVE Announces'
  <2>1. CASE PlanAccepted(t) \/ PlanSet(t)
    BY <1>1, <1>2, <2>1
  <2>2. CASE ~PlanAccepted(t) /\ ~PlanSet(t)
    <3>1. \A u \in Thread : pc[u] = "plan_set" => pc'[u] = "plan_set"
      BY <1>5, <1>6, <2>2, Others
    <3> QED  BY <1>3, <1>4, <1>6, <2>2, <3>1 DEF Acts, ExitTwice, Enter, EnterBailOut
  <2> QED  BY <2>1, <2>2
<1>7. ASSUME NEW u \in Thread, NEW v \in Thread, Spawn(u, v) PROVE Announces'
  BY <1>3, <1>7 DEF Spawn, Goto, TypeOK
<1>8. CASE UNCHANGED <<shm, pc>>
  BY <1>3, <1>8
<1> QED  BY <1>6, <1>7, <1>8 DEF Next, Step, Acts, Terminated, Kill, vars

-----------------------------------------------------------------------------
(* main() returns *)

LEMMA JudgingBegins ==
    ASSUME PlanFirst, Joins, TypeOK, Streaming, Bailing, Refused, Handled, ReturnFromMain(First)
    PROVE  Judging'
<1>1. /\ First \in Thread /\ ProcOf[First] = Main /\ pc[First] = "idle"
      /\ Live(First) /\ Joined(First) /\ Started
  BY FirstThread DEF ReturnFromMain, At
<1>2. \A u \in Thread \ {First} :
          pc[u] \in {"unborn", "done"} \/ (ProcOf[u] # Main /\ ~Live(u))
  BY <1>1 DEF Joined, Live
<1>3. \A u \in Thread : ProcOf[u] = Main => pc[u] \in {"unborn", "done", "idle"}
  BY <1>1, <1>2
<1>4. ~Bailed /\ Main \notin exiting
  BY <1>3 DEF Bailing, Handled, Ending
<1>5. shm.have_plan
  BY <1>1 DEF Streaming, Opening, FirstCall
<1>6. shm.test_died => ForkMode
  <2>1. ~ForkMode => \A t \in Thread : ProcOf[t] = Main
    BY CoreAssumption
  <2> QED  BY <1>3, <2>1 DEF Refused, Ending
<1>7. \A u \in Thread \ {First} : held'[u] = 0 /\ pc'[u] = pc[u] /\ (Live(u)' <=> Live(u))
  BY <1>1 DEF ReturnFromMain, Lock, LockFree, Goto, TypeOK, Live, process
<1>8. pc'[First] = "exit_status"
  BY <1>1 DEF ReturnFromMain, Goto, TypeOK
<1>9. shm' = shm /\ exiting' = exiting /\ (Bailed' <=> Bailed)
  BY DEF ReturnFromMain, process, output, Bailed
<1> QED  BY <1>2, <1>4, <1>5, <1>6, <1>7, <1>8, <1>9 DEF Judging, Ending

\* Only main() is left.
LEMMA OnlyMain ==
    ASSUME TypeOK, Judging, call[First].op = "exit_status", [Next]_vars
    PROVE  \/ ExitStatus(First) \/ LateStatus(First) \/ RunHandlers(First)
           \/ Cleanup(First) \/ Halt(First)
           \/ \E p \in Process : Kill(p)
           \/ UNCHANGED vars
<1>1. pc[First] \in {"exit_status", "late"} \cup Ending /\ First \in Thread
  BY FirstThread DEF Judging
<1>2. \A u \in Thread \ {First} : pc[u] \in {"unborn", "done"} \/ ~Live(u)
  BY DEF Judging
<1>3. ASSUME NEW u \in Thread, Acts(u) PROVE u = First
  BY <1>2, <1>3
  DEF At, Acts, Work, ExitTwice, Enter, EnterBailOut, MayCall,
      Count, PrintResult, Eol, Skip, SkipEnd, Planning, PlanRefused,
      PlanAccepted, PlanSet, PlanSkipAll, SkipAllEol, Bail, BailEol, Return, Leave,
      ReturnFromMain, ExitStatus, LateStatus, RunHandlers, Cleanup, Halt, Finish
<1>4. ASSUME NEW u \in Thread, NEW v \in Thread, Spawn(u, v) PROVE FALSE
  BY <1>1, <1>2, <1>4 DEF Spawn, At, Ending
<1>5. ~ExitTwice(First)
  BY FirstThread DEF ExitTwice, At, Judging
<1>6. Acts(First) => \/ ExitStatus(First) \/ LateStatus(First) \/ RunHandlers(First)
                     \/ Cleanup(First) \/ Halt(First)
  BY <1>1, <1>5
  DEF Ending, At, Acts, Work, Enter, EnterBailOut, MayCall,
      Count, PrintResult, Eol, Skip, SkipEnd, Planning, PlanRefused,
      PlanAccepted, PlanSet, PlanSkipAll, SkipAllEol, Bail, BailEol, Return, Leave,
      ReturnFromMain, Finish
<1> QED  BY <1>3, <1>4, <1>6 DEF Next, Step, Acts, Terminated

\* The last one goes on and leaves the others as they are.
LEMMA JudgingGoesOn ==
    ASSUME TypeOK, Judging, call[First].op = "exit_status",
           shm' = shm, call' = call,
           \A u \in Thread \ {First} : pc'[u] = pc[u] /\ held'[u] = held[u],
           \A u \in Thread : ~Live(u) => ~Live(u)',
           \/ lines' = lines
           \/ \E e \in Line : e.kind # "bail" /\ lines' = Append(lines, e),
           pc'[First] \in {"exit_status", "late"} \cup Ending,
           pc'[First] \in {"exit_status", "late", "exit"} => Main \notin exiting',
           pc'[First] = "late" => Unplanned,
           pc'[First] \in Ending =>
               status'[First] = IF Unplanned THEN shm.failures ELSE PlannedStatus,
           pc'[First] = "halt" =>
               /\ verdict' = Closing
               /\ TrailingPlan => HasPlan(shm.test_count)'
    PROVE  Judging'
<1>1. ~Bailed'
  BY NoBailLine DEF Judging
<1>2. /\ Unplanned' <=> Unplanned
      /\ PlannedStatus' = PlannedStatus
      /\ Closing' = Closing
      /\ TrailingPlan' <=> TrailingPlan
  BY DEF Unplanned, PlannedStatus, Closing, TrailingPlan
<1>3. \A u \in Thread \ {First} :
          /\ held'[u] = 0
          /\ pc'[u] \in {"unborn", "done"} \/ (ProcOf[u] # Main /\ ~Live(u)')
  BY DEF Judging
<1>4. shm.have_plan /\ (shm.test_died => ForkMode)
  BY DEF Judging
<1>5. pc'[First] = "halt" =>
          /\ verdict' = Closing'
          /\ TrailingPlan' => \E i \in Plans' : lines'[i].num = shm'.test_count
  BY <1>2 DEF HasPlan
<1> QED  BY <1>1, <1>2, <1>3, <1>4, <1>5 DEF Judging

LEMMA JudgingStep ==
    ASSUME PlanFirst, Joins, TypeOK, Streaming, Bailing, Refused, Handled, Judging, [Next]_vars
    PROVE  Judging'
<1> USE FirstThread
<1>1. CASE call[First].op # "exit_status"
  <2>1. ASSUME NEW t \in Thread, Acts(t), ~ReturnFromMain(First)
        PROVE  call'[First].op # "exit_status"
    <3>1. CASE t = First
      <4>1. ASSUME NEW c \in Menu[t], Enter(t, c) \/ EnterBailOut(t, c)
            PROVE  call'[First].op # "exit_status"
        BY <3>1, <4>1, CoreAssumption DEF Enter, EnterBailOut, TypeOK
      <4>2. CASE Skip(t)
        BY <1>1, <3>1, <4>2 DEF Skip, TypeOK, Call
      <4> QED
        BY <1>1, <2>1, <3>1, <4>1, <4>2
        DEF Acts, Work, ExitTwice, local, Count, PrintResult, Eol, SkipEnd, PlanRefused,
            PlanAccepted, PlanSet, PlanSkipAll, SkipAllEol, Bail, BailEol, Return, Leave,
            ExitStatus, LateStatus, RunHandlers, Cleanup, Halt, Finish
    <3>2. CASE t # First
      BY <1>1, <2>1, <3>2, Others
    <3> QED  BY <3>1, <3>2
  <2>2. CASE ReturnFromMain(First)
    BY <2>2, JudgingBegins
  <2>3. CASE call'[First].op # "exit_status"
    BY <2>3 DEF Judging
  <2> QED
    BY <1>1, <2>1, <2>2, <2>3 DEF Next, Step, Acts, Terminated, Spawn, Kill, vars, local
<1>2. CASE call[First].op = "exit_status"
  <2>1. \A u \in Thread : ~Live(u) => ~Live(u)'
    BY GrowsStep DEF Grows
  <2>2. IsMain(Main) /\ (pc[First] = "late" => Unplanned) /\ shm.test_count \in Nat
    BY <1>2 DEF IsMain, Judging, TypeOK, Shm
  <2>3. pc[First] \in Ending =>
            status[First] = IF Unplanned THEN shm.failures ELSE PlannedStatus
    BY <1>2 DEF Judging
  <2>4. CASE ExitStatus(First)
    BY <1>2, <2>1, <2>2, <2>4, JudgingGoesOn
    DEF ExitStatus, At, Goto, UnlockToExit, Unlock, TypeOK, Ending, output, process, Judging
  <2>5. CASE LateStatus(First)
    BY <1>2, <2>1, <2>2, <2>5, JudgingGoesOn
    DEF LateStatus, At, Goto, TypeOK, Ending, output, process, Judging
  <2>6. CASE RunHandlers(First)
    BY <1>2, <2>1, <2>3, <2>6, JudgingGoesOn
    DEF RunHandlers, At, Goto, TypeOK, Ending, local, output
  <2>7. CASE Cleanup(First)
    <3>1. verdict' = Closing /\ (TrailingPlan => Emit("plan", shm.test_count, TRUE, TRUE))
      BY <2>2, <2>7 DEF Cleanup
    <3>2. PICK n \in Nat : n = shm.test_count
      BY <2>2
    <3>3. TrailingPlan => HasPlan(n)'
      BY <3>1, <3>2, PlanWritten
    <3>4. \/ lines' = lines
          \/ \E e \in Line : e.kind # "bail" /\ lines' = Append(lines, e)
      <4>1. [kind |-> "plan", num |-> shm.test_count, good |-> TRUE] \in Line
        BY <2>2 DEF Line
      <4> QED  BY <2>7, <4>1 DEF Cleanup, Emit, output
    <3>5. /\ shm' = shm /\ call' = call /\ status' = status
          /\ pc'[First] = "halt" /\ pc[First] = "cleanup"
          /\ \A u \in Thread \ {First} : pc'[u] = pc[u] /\ held'[u] = held[u]
      BY <2>7 DEF Cleanup, At, Goto, TypeOK, local
    <3>6. TrailingPlan => HasPlan(shm.test_count)'
      BY <3>2, <3>3, <3>5 DEF HasPlan
    <3> QED  BY <1>2, <2>1, <2>3, <3>1, <3>4, <3>5, <3>6, JudgingGoesOn DEF Ending
  <2>8. CASE Halt(First) \/ (\E p \in Process : Kill(p)) \/ UNCHANGED vars
    <3>1. UNCHANGED <<shm, held, pc, call, status, lines, exiting, verdict>>
      BY <2>8 DEF Halt, Kill, HeldWithout, vars, local, output
    <3>2. UNCHANGED <<Unplanned, PlannedStatus, Closing, TrailingPlan, Plans, Bailed>>
      BY <3>1 DEF Unplanned, PlannedStatus, Closing, TrailingPlan, Plans, Bailed
    <3> QED  BY <2>1, <3>1, <3>2 DEF Judging
  <2> QED  BY <1>2, <2>4, <2>5, <2>6, <2>7, <2>8, OnlyMain
<1> QED  BY <1>1, <1>2

-----------------------------------------------------------------------------
(* The verdict *)

Exits ==
    ChildrenStay /\ Bailing /\ Refused /\ Reasons /\ Announces /\ SkipsAll /\ Handled /\ Coded
    /\ Judging

LEMMA ExitsInit == Init => Exits
<1> SUFFICES ASSUME Init PROVE Exits
  OBVIOUS
<1>1. /\ \A t \in Thread : pc[t] \in {"idle", "unborn"} /\ call[t].op = "diag"
      /\ lines = <<>> /\ exiting = {} /\ code[Main] = Running
  BY CoreAssumption DEF Init, NoCall
<1>2. ~Bailed
  BY <1>1 DEF Bailed
<1>3. ~shm.test_died /\ ~shm.have_plan /\ shm.e_tests = 0 /\ ~shm.skip_all
  BY DEF Init
<1>4. ChildrenStay /\ Bailing /\ Refused /\ Reasons /\ Announces
  BY <1>1, <1>2, <1>3 DEF ChildrenStay, Bailing, Refused, Reasons, Announces, Ending
<1>5. SkipsAll /\ Handled /\ Coded /\ Judging
  BY <1>1, <1>3, FirstThread DEF SkipsAll, Handled, Coded, Judging, Running
<1> QED  BY <1>4, <1>5 DEF Exits

ExitInv ==
    TypeOK /\ Exclusion /\ Numbering /\ Counting /\ Planned /\ Streaming /\ Exits

\* What main() judges is what the output says.
LEMMA Judged ==
    ASSUME ExitInv, Returned
    PROVE  /\ pc[First] = "halt" /\ code[Main] = status[First] % 256
           /\ shm.test_count = Cardinality(Results) /\ IsFiniteSet(Results)
           /\ shm.failures = Cardinality(Failed) /\ IsFiniteSet(Failed)
<1>1. call[First].op = "exit_status" /\ code[Main] < Running
  BY DEF Returned, First
<1>2. PICK t \in Thread : ProcOf[t] = Main /\ pc[t] = "halt" /\ code[Main] = status[t] % 256
  BY <1>1 DEF ExitInv, Exits, Coded
<1>3. t = First
  BY <1>1, <1>2 DEF ExitInv, Exits, Judging
<1>4. \A u \in Thread : pc[u] # "print"
  BY <1>1, <1>2, <1>3 DEF ExitInv, Exits, Judging, Exclusion, Critical
<1> QED  BY <1>2, <1>3, <1>4 DEF ExitInv, Counting, Printed, Owed

\* A child does not bail out, and main() does not return before its threads.
LEMMA ExitInvStep ==
    ASSUME PlanFirst, Joins, NoBailInChildren, ExitInv, [Next]_vars PROVE ExitInv'
<1>1. TypeOK' /\ Exclusion' /\ Numbering' /\ Counting' /\ Planned' /\ Streaming'
  BY TypeStep, ExclusionStep, NumberingStep, CountingStep, PlannedStep, StreamingStep
  DEF ExitInv, Numbering
<1>2. Exits'
  BY ChildrenStayStep, BailingStep, RefusedStep, ReasonsStep, AnnouncesStep, SkipsAllStep,
     HandledStep, CodedStep, JudgingStep DEF ExitInv, Exits
<1> QED  BY <1>1, <1>2 DEF ExitInv

\* Who skips everything leaves the line "1..0" and nothing else.
LEMMA SkippedStream ==
    ASSUME ExitInv, shm.skip_all PROVE StreamOK
<1>1. Alone /\ pc[First] \in SkipLabels /\ FirstCall
  BY DEF ExitInv, Planned, SkipsAlone, Skipping, FirstCall
<1>2. \A t \in Thread : pc[t] # "print"
  BY <1>1 DEF Alone, SkipLabels
<1>3. Cardinality(Results) = 0
  BY <1>1, <1>2 DEF ExitInv, Counting, Printed, Streaming, Opening
<1>4. Results = {} /\ Failed = {}
  BY <1>3, FS_EmptySet DEF ExitInv, Counting, Failed
<1>5. ~Bailed
  <2>1. pc[First] # "bail_eol" /\ status[First] = 0
    BY <1>1 DEF SkipLabels, ExitInv, Exits, SkipsAll
  <2> QED  BY <1>1, <2>1 DEF ExitInv, Exits, Bailing, Alone, Ending
<1>6. PICK i \in Plans : lines[i].num = 0
  BY DEF ExitInv, Exits, SkipsAll
<1>7. Plans = {i}
  BY <1>6 DEF ExitInv, Planned, OnePlanLine
<1> QED  BY <1>3, <1>4, <1>5, <1>6, <1>7 DEF StreamOK, AllGood, Bailed

\* main() ends with 0 exactly if the output is what a harness accepts; a plan
\* may only be missing, and only if one was refused in a child.
LEMMA JudgedStatus ==
    ASSUME ExitInv, Returned
    PROVE  /\ StreamOK => status[First] = 0
           /\ status[First] = 0 =>
                  StreamOK \/ (shm.test_died /\ shm.no_plan /\ Plans = {} /\ AllGood)
<1>1. /\ pc[First] = "halt" /\ call[First].op = "exit_status"
      /\ shm.test_count = Cardinality(Results) /\ IsFiniteSet(Results)
      /\ shm.failures = Cardinality(Failed) /\ IsFiniteSet(Failed)
  BY Judged DEF Returned, First
<1>2. /\ ~Bailed /\ shm.have_plan /\ verdict = Closing
      /\ status[First] = IF Unplanned THEN shm.failures ELSE PlannedStatus
      /\ TrailingPlan => HasPlan(shm.test_count)
      /\ \A u \in Thread : pc[u] # "plan_set"
  BY <1>1 DEF ExitInv, Exits, Judging, Ending, HasPlan, Exclusion, Critical
<1>3. /\ ~shm.skip_all
      /\ Unplanned <=> shm.no_plan
  BY <1>2 DEF ExitInv, Planned, SkipsAlone, Skipping, Unplanned
<1>4. shm.test_count \in Nat /\ shm.failures \in Nat /\ shm.e_tests \in Nat
  BY DEF ExitInv, TypeOK, Shm
<1>5. shm.failures = 0 <=> Failed = {}
  BY <1>1, FS_EmptySet
<1>6. \A n \in Nat : HasPlan(n) => \E i \in Plans : Plans = {i} /\ lines[i].num = n
  BY DEF HasPlan, ExitInv, Planned, OnePlanLine
<1>7. StreamOK <=> HasPlan(shm.test_count) /\ Failed = {}
  BY <1>1, <1>2, <1>4, <1>6 DEF StreamOK, AllGood, HasPlan, Bailed
<1>8. CASE Unplanned
  <2>1. HasPlan(shm.test_count) \/ (shm.test_died /\ Plans = {})
    <3>1. CASE shm.test_died
      <4>1. verdict = "died" /\ shm.no_plan
        BY <1>2, <1>3, <1>8, <3>1 DEF Closing
      <4>2. Plans = {}
        BY <4>1 DEF ExitInv, Planned, Announced
      <4> QED  BY <3>1, <4>2
    <3>2. CASE ~shm.test_died
      BY <1>2, <1>3, <1>8, <3>2 DEF TrailingPlan, Closing
    <3> QED  BY <3>1, <3>2
  <2>2. Failed = {} => AllGood
    BY <1>2 DEF AllGood, Bailed
  <2> QED  BY <1>2, <1>3, <1>5, <1>7, <1>8, <2>1, <2>2
<1>9. CASE ~Unplanned
  <2>1. HasPlan(shm.e_tests)
    BY <1>2, <1>3, <1>9 DEF HasPlan, ExitInv, Exits, Announces
  <2>2. HasPlan(shm.test_count) <=> shm.e_tests = shm.test_count
    BY <1>4, <1>6, <2>1 DEF HasPlan
  <2>3. PlannedStatus = 0 <=> shm.e_tests = shm.test_count /\ shm.failures = 0
    BY <1>4 DEF PlannedStatus
  <2> QED  BY <1>2, <1>5, <1>7, <1>9, <2>2, <2>3
<1> QED  BY <1>8, <1>9

\* The exit code of the main process and the output that all threads and
\* processes leave agree, for every program that plans first, joins its
\* threads and children before main() returns, and does not bail out in a
\* child: exit_status() and _cleanup() judge what was really written.
THEOREM ExitCodeAgrees ==
    ASSUME PlanFirst, Joins, NoBailInChildren PROVE Spec => []VerdictAgrees
<1>1. Init => ExitInv
  BY TypeInit, ExclusionInit, NumberingInit, CountingInit, PlannedInit, StreamingInit, ExitsInit
  DEF ExitInv
<1>2. ExitInv /\ [Next]_vars => ExitInv'
  BY ExitInvStep
<1>3. ExitInv => VerdictAgrees
  <2> SUFFICES ASSUME ExitInv PROVE VerdictAgrees
    OBVIOUS
  <2> First \in Thread /\ status[First] \in Nat
    BY FirstThread DEF ExitInv, TypeOK
  <2>1. ASSUME code[Main] = 0, StatusFits
        PROVE  \/ StreamOK
               \/ ForkMode /\ shm.test_died /\ shm.no_plan /\ Plans = {} /\ AllGood
    <3>1. PICK t \in Thread : ProcOf[t] = Main /\ pc[t] = "halt" /\ status[t] % 256 = 0
      BY <2>1 DEF ExitInv, Exits, Coded, Running
    <3>2. shm.skip_all \/ (t = First /\ call[t].op = "exit_status")
      <4>1. status[t] # 255
        BY <3>1
      <4> QED  BY <3>1, <4>1 DEF ExitInv, Exits, Reasons, Ending
    <3>3. CASE t = First /\ call[t].op = "exit_status"
      <4>1. Returned
        BY <2>1, <3>3 DEF Returned, First, Running
      <4>2. status[First] = 0
        BY <2>1, <3>1, <3>3 DEF StatusFits, First
      <4>3. shm.test_died => ForkMode
        BY <3>3 DEF ExitInv, Exits, Judging
      <4> QED  BY <4>1, <4>2, <4>3, JudgedStatus
    <3> QED  BY <3>2, <3>3, SkippedStream
  <2>2. ASSUME Returned, StreamOK PROVE code[Main] = 0
    BY <2>2, Judged, JudgedStatus
  <2> QED  BY <2>1, <2>2 DEF VerdictAgrees
<1> HIDE DEF ExitInv
<1> QED  BY <1>1, <1>2, <1>3, PTL DEF Spec

\* What _cleanup() says on stderr agrees with the exit code: it complains about
\* the number of tests or about failures exactly when exit_status(), an earlier
\* critical section, did so, for the same programs.
THEOREM DiagnosisMatches ==
    ASSUME PlanFirst, Joins, NoBailInChildren PROVE Spec => []DiagnosisAgrees
<1>1. Init => ExitInv
  BY TypeInit, ExclusionInit, NumberingInit, CountingInit, PlannedInit, StreamingInit, ExitsInit
  DEF ExitInv
<1>2. ExitInv /\ [Next]_vars => ExitInv'
  BY ExitInvStep
<1>3. ExitInv => DiagnosisAgrees
  <2> SUFFICES ASSUME ExitInv, Returned, StatusFits, verdict # "died"
               PROVE  verdict \in {"extra", "short", "failed"} <=> code[Main] # 0
    BY DEF DiagnosisAgrees
  <2>1. /\ shm.test_count \in Nat /\ shm.failures \in Nat /\ shm.e_tests \in Nat
        /\ status[First] \in Nat
    BY FirstThread DEF ExitInv, TypeOK, Shm
  <2>2. pc[First] = "halt" /\ call[First].op = "exit_status" /\ code[Main] = status[First]
    BY <2>1, Judged DEF Returned, StatusFits, First
  <2>3. /\ shm.have_plan /\ verdict = Closing
        /\ status[First] = IF Unplanned THEN shm.failures ELSE PlannedStatus
    BY <2>2 DEF ExitInv, Exits, Judging, Ending
  <2>4. ~shm.test_died
    BY <2>3 DEF Closing
  <2>5. CASE Unplanned
    <3>1. shm.no_plan /\ shm.e_tests = 0
      BY <2>3, <2>5 DEF Unplanned, ExitInv, Exits, Announces
    <3> QED  BY <2>1, <2>2, <2>3, <2>4, <2>5, <3>1 DEF Closing
  <2>6. CASE ~Unplanned
    BY <2>1, <2>2, <2>3, <2>4, <2>6 DEF Closing, Unplanned, PlannedStatus
  <2> QED  BY <2>5, <2>6
<1> HIDE DEF ExitInv
<1> QED  BY <1>1, <1>2, <1>3, PTL DEF Spec

-----------------------------------------------------------------------------
(* The mutex and the end of its holder *)

\* Every process has one thread.
OneThreadEach == \A t, u \in Thread : ProcOf[t] = ProcOf[u] => t = u

\* No mandatory test fails: it would exit with the mutex held.
MandatoryPass == \A t \in Thread : \A c \in Menu[t] : c.op = "test" /\ c.mp => c.ok

\* A thread holds the mutex once, in its critical section, and nowhere else.
HeldIn(t) ==
    /\ held[t] = IF pc[t] \in Critical THEN 1 ELSE 0
    /\ pc[t] \in {"test", "print", "eol"} => call[t].ok \/ ~call[t].mp
    /\ pc[t] \in Critical => Live(t)

Balanced == \A t \in Thread : HeldIn(t)

LEMMA BalancedActs ==
    ASSUME MandatoryPass, TypeOK, NEW t \in Thread, HeldIn(t), Acts(t) PROVE HeldIn(t)'
<1> ProcOf[t] \in Process
  BY CoreAssumption
<1> USE DEF HeldIn, TypeOK, At, Goto, Lock, local, process
<1>1. CASE Count(t) \/ PrintResult(t) \/ Eol(t) \/ SkipEnd(t) \/ PlanRefused(t)
           \/ PlanAccepted(t) \/ PlanSet(t) \/ PlanSkipAll(t) \/ SkipAllEol(t)
  BY <1>1 DEF Count, PrintResult, Eol, SkipEnd, Planning, PlanRefused, PlanAccepted, PlanSet,
              PlanSkipAll, SkipAllEol, Critical, Live
<1>2. CASE Skip(t)
  BY <1>2 DEF Skip, Live
<1>3. CASE Bail(t) \/ BailEol(t) \/ LateStatus(t) \/ RunHandlers(t) \/ ExitTwice(t)
           \/ Cleanup(t) \/ Halt(t) \/ Finish(t)
  BY <1>3 DEF Bail, BailEol, LateStatus, RunHandlers, ExitTwice, Cleanup, Halt, Finish, Critical
<1>4. CASE Return(t) \/ Leave(t) \/ ExitStatus(t)
  BY <1>4 DEF Return, Leave, ExitStatus, Unlock, UnlockToExit, Critical
<1>5. CASE ReturnFromMain(t)
  BY <1>5 DEF ReturnFromMain, Critical, Live
<1>6. ASSUME NEW c \in Menu[t], Enter(t, c) \/ EnterBailOut(t, c) PROVE HeldIn(t)'
  <2>1. c \in Call /\ (c.op = "test" /\ c.mp => c.ok)
    BY CoreAssumption DEF MandatoryPass
  <2> QED  BY <1>6, <2>1 DEF Enter, EnterBailOut, MayCall, Critical, Call, Live
<1> QED  BY <1>1, <1>2, <1>3, <1>4, <1>5, <1>6 DEF Acts, Work

LEMMA BalancedOthers ==
    ASSUME OneThreadEach, TypeOK, NEW t \in Thread, Acts(t), NEW u \in Thread \ {t}, HeldIn(u)
    PROVE  HeldIn(u)'
<1>1. pc'[u] = pc[u] /\ call'[u] = call[u]
  BY Others
<1>2. held'[u] = held[u]
  BY DEF TypeOK, Lock, Unlock, UnlockToExit, Acts, Work, ExitTwice, Enter, EnterBailOut,
         Count, PrintResult, Eol, Skip, SkipEnd, PlanRefused,
         PlanAccepted, PlanSet, PlanSkipAll, SkipAllEol, Bail, BailEol, Return, Leave,
         ReturnFromMain, ExitStatus, LateStatus, RunHandlers, Cleanup, Halt, Finish
<1>3. ProcOf[t] # ProcOf[u] /\ ProcOf[t] \in Process /\ ProcOf[u] \in Process
  BY CoreAssumption DEF OneThreadEach
<1>4. Live(u)' <=> Live(u)
  BY <1>3
  DEF TypeOK, Live, process, Acts, Work, ExitTwice, Enter, EnterBailOut,
      Count, PrintResult, Eol, Skip, SkipEnd, PlanRefused,
      PlanAccepted, PlanSet, PlanSkipAll, SkipAllEol, Bail, BailEol, Return, Leave,
      ReturnFromMain, ExitStatus, LateStatus, RunHandlers, Cleanup, Halt, Finish
<1> QED  BY <1>1, <1>2, <1>4 DEF HeldIn

LEMMA BalancedStep ==
    ASSUME OneThreadEach, MandatoryPass, Killable = {}, TypeOK, Balanced, [Next]_vars
    PROVE  Balanced'
<1>1. ASSUME NEW t \in Thread, Acts(t) PROVE Balanced'
  BY <1>1, BalancedActs, BalancedOthers DEF Balanced
<1>2. ASSUME NEW u \in Thread, NEW v \in Thread, Spawn(u, v) PROVE Balanced'
  BY <1>2 DEF Spawn, Goto, TypeOK, Balanced, HeldIn, Critical, Live, local, process
<1>3. ASSUME NEW p \in Process, Kill(p) PROVE FALSE
  BY <1>3 DEF Kill
<1>4. CASE UNCHANGED vars
  BY <1>4 DEF vars, process, Balanced, HeldIn, Live
<1> QED  BY <1>1, <1>2, <1>3, <1>4 DEF Next, Step, Acts, Terminated

\* The mutex never stays with the dead, so that nobody waits for it for ever,
\* if no process is killed from outside, no mandatory test fails and each
\* process has one thread: bailing out, skipping everything, a refused plan and
\* exit_status() all leave it free.
THEOREM NobodyDiesHolding ==
    ASSUME OneThreadEach, MandatoryPass, Killable = {} PROVE Spec => []NoOrphanLock
<1> DEFINE IInv == TypeOK /\ Exclusion /\ Balanced
<1>1. Init => IInv
  BY TypeInit, ExclusionInit DEF Init, Balanced, HeldIn, Critical
<1>2. IInv /\ [Next]_vars => IInv'
  BY TypeStep, ExclusionStep, BalancedStep
<1>3. IInv => NoOrphanLock
  BY DEF Balanced, HeldIn, NoOrphanLock
<1> HIDE DEF IInv
<1> QED  BY <1>1, <1>2, <1>3, PTL DEF Spec
=============================================================================
