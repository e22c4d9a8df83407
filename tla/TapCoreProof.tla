---------------------------- MODULE TapCoreProof ----------------------------
(***************************************************************************)
(* Theorems about TapCore for every set of threads and processes, every    *)
(* menu of calls and every bound, with their proofs.                       *)
(***************************************************************************)
EXTENDS TapCore, SequenceTheorems, FiniteSetTheorems, TLAPS

-----------------------------------------------------------------------------
(* Lemmas about the helpers *)

\* A status on its way to the parent process fits one byte.
LEMMA StatusByte == ASSUME NEW n \in Nat PROVE n % 256 \in 0..255
  OBVIOUS

\* A line that begins is the last one, and the others keep their places.
LEMMA AppendLine ==
    ASSUME NEW s \in Seq(Line), NEW e \in Line
    PROVE  /\ Append(s, e) \in Seq(Line)
           /\ Len(Append(s, e)) = Len(s) + 1
           /\ DOMAIN s = 1..Len(s)
           /\ DOMAIN Append(s, e) = 1..Len(s) + 1
           /\ \A i \in 1..Len(s) : Append(s, e)[i] = s[i]
           /\ Append(s, e)[Len(s) + 1] = e
  BY AppendProperties, LenProperties

\* The exit status is a number: the subtraction in exit_status() does not wrap.
LEMMA PlannedStatusNat == ASSUME shm \in Shm PROVE PlannedStatus \in Nat
  BY DEF Shm, PlannedStatus

LEMMA ShmCount ==
    ASSUME NEW s \in Shm, NEW n \in Nat, NEW f \in Nat
    PROVE  [s EXCEPT !.test_count = n, !.failures = f] \in Shm
  BY DEF Shm

LEMMA EmitType ==
    ASSUME lines \in Seq(Line), bol \in BOOLEAN, torn \in BOOLEAN,
           NEW kind \in {"result", "plan", "bail"}, NEW num \in Nat,
           NEW good \in BOOLEAN, NEW newline \in BOOLEAN,
           Emit(kind, num, good, newline)
    PROVE  lines' \in Seq(Line) /\ bol' \in BOOLEAN /\ torn' \in BOOLEAN
<1>1. [kind |-> kind, num |-> num, good |-> good] \in Line
  BY DEF Line
<1>2. lines' \in Seq(Line)
  BY <1>1, AppendLine DEF Emit
<1> QED  BY <1>2, Zenon DEF Emit

-----------------------------------------------------------------------------
(* Types and mutual exclusion *)

LEMMA NoCallType == NoCall \in Call /\ [NoCall EXCEPT !.op = "exit_status"] \in Call
  BY DEF NoCall, Call

LEMMA TypeInit == Init => TypeOK
<1> SUFFICES ASSUME Init PROVE TypeOK
  OBVIOUS
<1>1. shm \in Shm
  BY DEF Init, Shm
<1>2. call \in [Thread -> Call]
  BY NoCallType DEF Init
<1>3. pc \in [Thread -> Labels] /\ verdict \in Verdicts
  BY DEF Init, Labels, Verdicts
<1>4. code \in [Process -> 0..Killed] /\ calls \in [Thread -> 0..MaxCalls]
  BY CoreAssumption DEF Init, Running, Killed
<1>5. held \in [Thread -> Nat] /\ status \in [Thread -> Nat]
  BY DEF Init
<1>6. lines \in Seq(Line)
  BY DEF Init
<1>7. bol \in BOOLEAN /\ torn \in BOOLEAN /\ exiting \subseteq Process
  BY Zenon DEF Init
<1> QED  BY <1>1, <1>2, <1>3, <1>4, <1>5, <1>6, <1>7 DEF TypeOK

LEMMA TypeWork == ASSUME TypeOK, Exclusion, NEW t \in Thread, Work(t) PROVE TypeOK'
<1> USE DEF At, Goto, local, output, process
<1> ProcOf[t] \in Process
  BY CoreAssumption
<1>1. CASE Count(t)
  <2>1. shm' \in Shm
    <3> DEFINE f == IF Excused(call[t]) THEN shm.failures ELSE shm.failures + 1
    <3>1. shm' = [shm EXCEPT !.test_count = @ + 1, !.failures = f]
      BY <1>1 DEF Count
    <3>2. shm \in Shm
      BY DEF TypeOK
    <3>3. f \in Nat /\ shm.test_count + 1 \in Nat
      BY <3>2 DEF Shm
    <3> HIDE DEF f
    <3> QED  BY <3>1, <3>2, <3>3, ShmCount
  <2> QED  BY <1>1, <2>1 DEF Count, TypeOK, Labels
<1>2. CASE PrintResult(t)
  <2>1. shm.test_count \in Nat /\ (call[t].ok \/ call[t].todo) \in BOOLEAN
    BY DEF TypeOK, Shm, Call
  <2>2. lines' \in Seq(Line) /\ bol' \in BOOLEAN /\ torn' \in BOOLEAN
    BY <1>2, <2>1, EmitType DEF PrintResult, TypeOK
  <2> QED  BY <1>2, <2>2 DEF PrintResult, TypeOK, Labels
<1>3. CASE Eol(t)
  BY <1>3 DEF Eol, EndLine, TypeOK, Labels
<1>4. CASE Skip(t)
  <2>1. shm' \in Shm
    <3>1. shm' = [shm EXCEPT !.test_count = @ + 1]
      BY <1>4 DEF Skip
    <3>2. shm \in Shm
      BY DEF TypeOK
    <3> QED  BY <3>1, <3>2 DEF Shm
  <2> SkipNumber \in Nat
    BY DEF SkipNumber, TypeOK, Shm
  <2>2. lines' \in Seq(Line) /\ bol' \in BOOLEAN /\ torn' \in BOOLEAN
    BY <1>4, EmitType DEF Skip, TypeOK
  <2>3. call' \in [Thread -> Call]
    <3>1. call[t] \in Call /\ call[t].n - 1 \in Nat
      BY <1>4 DEF Skip, TypeOK, Call
    <3>2. [call[t] EXCEPT !.n = @ - 1] \in Call
      BY <3>1 DEF Call
    <3> QED  BY <1>4, <3>2 DEF Skip, TypeOK
  <2> QED  BY <1>4, <2>1, <2>2, <2>3 DEF Skip, TypeOK
<1>5. CASE SkipEnd(t)
  BY <1>5 DEF SkipEnd, TypeOK, Labels
<1>6. CASE PlanRefused(t)
  <2>1. shm' \in Shm
    BY <1>6 DEF PlanRefused, TypeOK, Shm
  <2> QED  BY <1>6, <2>1 DEF PlanRefused, TypeOK, Labels
<1>7. CASE PlanAccepted(t)
  <2>1. shm' \in Shm
    BY <1>7 DEF PlanAccepted, TypeOK, Shm
  <2> QED  BY <1>7, <2>1 DEF PlanAccepted, TypeOK, Labels
<1>8. CASE PlanSet(t)
  <2>1. call[t].n \in Nat
    BY DEF TypeOK, Call
  <2>2. lines' \in Seq(Line) /\ bol' \in BOOLEAN /\ torn' \in BOOLEAN
    BY <1>8, <2>1, EmitType DEF PlanSet, TypeOK
  <2>3. shm' \in Shm
    BY <1>8, <2>1 DEF PlanSet, TypeOK, Shm
  <2> QED  BY <1>8, <2>2, <2>3 DEF PlanSet, TypeOK, Labels
<1>9. CASE PlanSkipAll(t)
  <2>1. lines' \in Seq(Line) /\ bol' \in BOOLEAN /\ torn' \in BOOLEAN
    BY <1>9, EmitType DEF PlanSkipAll, TypeOK
  <2>2. shm' \in Shm
    BY <1>9 DEF PlanSkipAll, TypeOK, Shm
  <2> QED  BY <1>9, <2>1, <2>2 DEF PlanSkipAll, TypeOK, Labels
<1>10. CASE SkipAllEol(t)
  BY <1>10 DEF SkipAllEol, EndLine, TypeOK, Labels
<1>11. CASE Bail(t)
  <2>1. lines' \in Seq(Line) /\ bol' \in BOOLEAN /\ torn' \in BOOLEAN
    BY <1>11, EmitType DEF Bail, TypeOK
  <2> QED  BY <1>11, <2>1 DEF Bail, TypeOK, Labels
<1>12. CASE BailEol(t)
  BY <1>12 DEF BailEol, EndLine, TypeOK, Labels
<1>13. CASE Return(t)
  BY <1>13 DEF Return, Unlock, TypeOK, Exclusion, Critical, Labels
<1>14. CASE Leave(t)
  BY <1>14 DEF Leave, UnlockToExit, Unlock, TypeOK, Exclusion, Critical, Labels
<1>15. CASE ReturnFromMain(t)
  BY <1>15, NoCallType DEF ReturnFromMain, Lock, TypeOK, Labels
<1>16. CASE ExitStatus(t)
  <2>1. held' \in [Thread -> Nat]
    BY <1>16 DEF ExitStatus, UnlockToExit, Unlock, TypeOK, Exclusion, Critical
  <2>2. status' \in [Thread -> Nat]
    <3>1. PlannedStatus \in Nat
      BY PlannedStatusNat DEF TypeOK
    <3>2. status' = status \/ status' = [status EXCEPT ![t] = PlannedStatus]
                           \/ status' = [status EXCEPT ![t] = 0]
      BY <1>16, Zenon DEF ExitStatus
    <3>3. status \in [Thread -> Nat]
      BY DEF TypeOK
    <3> QED  BY <3>1, <3>2, <3>3
  <2> QED  BY <1>16, <2>1, <2>2 DEF ExitStatus, TypeOK, Labels
<1>17. CASE LateStatus(t)
  BY <1>17 DEF LateStatus, TypeOK, Shm, Labels
<1>18. CASE RunHandlers(t)
  BY <1>18 DEF RunHandlers, TypeOK, Labels
<1>19. CASE Cleanup(t)
  <2>1. shm.test_count \in Nat
    BY DEF TypeOK, Shm
  <2>2. lines' \in Seq(Line) /\ bol' \in BOOLEAN /\ torn' \in BOOLEAN
    BY <1>19, <2>1, EmitType DEF Cleanup, TypeOK
  <2>3. verdict' \in Verdicts
    BY <1>19 DEF Cleanup, TypeOK, Closing, Verdicts
  <2> QED  BY <1>19, <2>2, <2>3 DEF Cleanup, TypeOK, Labels
<1>20. CASE Halt(t)
  <2>1. status[t] % 256 \in 0..Killed
    <3>1. status[t] \in Nat
      BY DEF TypeOK
    <3> QED  BY <3>1, StatusByte DEF Killed
  <2> QED  BY <1>20, <2>1 DEF Halt, TypeOK
<1>21. CASE Finish(t)
  BY <1>21 DEF Finish, TypeOK, Labels
<1> QED
  BY <1>1, <1>2, <1>3, <1>4, <1>5, <1>6, <1>7, <1>8, <1>9, <1>10, <1>11, <1>12, <1>13,
     <1>14, <1>15, <1>16, <1>17, <1>18, <1>19, <1>20, <1>21 DEF Work

LEMMA TypeStep == ASSUME TypeOK, Exclusion, [Next]_vars PROVE TypeOK'
<1> USE DEF At, Goto, local, output, process
<1>1. ASSUME NEW t \in Thread, Work(t) PROVE TypeOK'
  BY <1>1, TypeWork
<1>2. ASSUME NEW t \in Thread, ExitTwice(t) PROVE TypeOK'
  <2>1. status[t] % 256 \in 0..Killed /\ ProcOf[t] \in Process
    <3>1. status[t] \in Nat /\ ProcOf[t] \in Process
      BY CoreAssumption DEF TypeOK
    <3> QED  BY <3>1, StatusByte DEF Killed
  <2> QED  BY <1>2, <2>1 DEF ExitTwice, TypeOK, Labels
<1>3. ASSUME NEW t \in Thread, NEW c \in Menu[t], Enter(t, c) \/ EnterBailOut(t, c)
      PROVE  TypeOK'
  <2>1. c \in Call
    BY CoreAssumption
  <2>2. c.op \in Labels \union {"diag", "BAIL_OUT"}
    BY <2>1 DEF Call, Labels
  <2>3. calls[t] \in 0..MaxCalls /\ calls[t] < MaxCalls /\ MaxCalls \in Nat
    BY <1>3, CoreAssumption DEF Enter, EnterBailOut, MayCall, TypeOK
  <2>4. CASE Enter(t, c)
    <3>1. calls' \in [Thread -> 0..MaxCalls]
      BY <2>3, <2>4 DEF Enter, TypeOK
    <3>2. pc' \in [Thread -> Labels]
      BY <2>2, <2>4 DEF Enter, TypeOK, Labels
    <3> QED  BY <2>1, <2>4, <3>1, <3>2 DEF Enter, Lock, TypeOK
  <2>5. CASE EnterBailOut(t, c)
    <3>1. calls' \in [Thread -> 0..MaxCalls]
      BY <2>3, <2>5 DEF EnterBailOut, TypeOK
    <3> QED  BY <2>1, <2>5, <3>1 DEF EnterBailOut, TypeOK, Labels
  <2> QED  BY <1>3, <2>4, <2>5
<1>4. ASSUME NEW t \in Thread, NEW u \in Thread, Spawn(t, u) PROVE TypeOK'
  BY <1>4 DEF Spawn, TypeOK, Labels
<1>5. ASSUME NEW p \in Process, Kill(p) PROVE TypeOK'
  BY <1>5 DEF Kill, HeldWithout, TypeOK, Killed
<1>6. CASE UNCHANGED vars
  BY <1>6 DEF vars, TypeOK
<1> QED  BY <1>1, <1>2, <1>3, <1>4, <1>5, <1>6 DEF Next, Step, Terminated

-----------------------------------------------------------------------------
(* Who holds the mutex *)

LEMMA Keeps ==
    ASSUME TypeOK, Exclusion, held' = held,
           NEW t \in Thread, NEW l, Goto(t, l), l \in Critical => pc[t] \in Critical
    PROVE  Exclusion'
  BY DEF TypeOK, Exclusion, Goto

LEMMA Takes ==
    ASSUME TypeOK, Exclusion, NEW t \in Thread, Lock(t), NEW l, Goto(t, l)
    PROVE  Exclusion'
  BY DEF TypeOK, Exclusion, Goto, Lock, LockFree

LEMMA Drops ==
    ASSUME TypeOK, Exclusion, NEW t \in Thread, Unlock(t),
           NEW l, Goto(t, l), l \notin Critical, pc[t] \in Critical
    PROVE  Exclusion'
  BY DEF TypeOK, Exclusion, Goto, Unlock

LEMMA ExclusionInit == Init => Exclusion
  BY DEF Init, Exclusion, Critical

LEMMA ExclusionWork == ASSUME TypeOK, Exclusion, NEW t \in Thread, Work(t) PROVE Exclusion'
<1> USE DEF At
<1>1. CASE Count(t)
  BY <1>1, Keeps DEF Count, Critical
<1>2. CASE PrintResult(t)
  BY <1>2, Keeps DEF PrintResult, Critical
<1>3. CASE Eol(t)
  BY <1>3, Keeps DEF Eol, Critical
<1>4. CASE Skip(t)
  BY <1>4 DEF Skip, Exclusion
<1>5. CASE SkipEnd(t)
  BY <1>5, Keeps DEF SkipEnd, Critical
<1>6. CASE PlanRefused(t)
  BY <1>6, Keeps DEF PlanRefused, Planning, Critical
<1>7. CASE PlanAccepted(t)
  BY <1>7, Keeps DEF PlanAccepted, Planning, Critical
<1>8. CASE PlanSet(t)
  BY <1>8, Keeps DEF PlanSet, Critical
<1>9. CASE PlanSkipAll(t)
  BY <1>9, Keeps DEF PlanSkipAll, Critical
<1>10. CASE SkipAllEol(t)
  BY <1>10, Keeps DEF SkipAllEol, Critical
<1>11. CASE Bail(t)
  BY <1>11, Keeps DEF Bail, Critical
<1>12. CASE BailEol(t)
  BY <1>12, Keeps DEF BailEol, Critical
<1>13. CASE Return(t)
  BY <1>13, Drops DEF Return, Critical
<1>14. CASE Leave(t)
  BY <1>14, Drops DEF Leave, UnlockToExit, Critical
<1>15. CASE ReturnFromMain(t)
  BY <1>15, Takes DEF ReturnFromMain
<1>16. CASE ExitStatus(t)
  BY <1>16, Drops DEF ExitStatus, UnlockToExit, Critical
<1>17. CASE LateStatus(t)
  BY <1>17, Keeps DEF LateStatus, Critical
<1>18. CASE RunHandlers(t)
  BY <1>18, Keeps DEF RunHandlers, Critical
<1>19. CASE Cleanup(t)
  BY <1>19, Keeps DEF Cleanup, Critical
<1>20. CASE Halt(t)
  BY <1>20 DEF Halt, Exclusion
<1>21. CASE Finish(t)
  BY <1>21, Keeps DEF Finish, Critical
<1> QED
  BY <1>1, <1>2, <1>3, <1>4, <1>5, <1>6, <1>7, <1>8, <1>9, <1>10, <1>11, <1>12, <1>13,
     <1>14, <1>15, <1>16, <1>17, <1>18, <1>19, <1>20, <1>21 DEF Work

LEMMA ExclusionStep == ASSUME TypeOK, Exclusion, [Next]_vars PROVE Exclusion'
<1>1. ASSUME NEW t \in Thread, Work(t) PROVE Exclusion'
  BY <1>1, ExclusionWork
<1>2. ASSUME NEW t \in Thread, ExitTwice(t) PROVE Exclusion'
  BY <1>2, Keeps DEF ExitTwice, Critical
<1>3. ASSUME NEW t \in Thread, NEW c \in Menu[t], Enter(t, c) PROVE Exclusion'
  BY <1>3, Takes DEF Enter
<1>4. ASSUME NEW t \in Thread, NEW c \in Menu[t], EnterBailOut(t, c) PROVE Exclusion'
  BY <1>4, Keeps DEF EnterBailOut, Critical
<1>5. ASSUME NEW t \in Thread, NEW u \in Thread, Spawn(t, u) PROVE Exclusion'
  BY <1>5, Keeps DEF Spawn, Critical
<1>6. ASSUME NEW p \in Process, Kill(p) PROVE Exclusion'
  BY <1>6 DEF Kill, HeldWithout, Exclusion
<1>7. CASE UNCHANGED vars
  BY <1>7 DEF vars, Exclusion
<1> QED  BY <1>1, <1>2, <1>3, <1>4, <1>5, <1>6, <1>7 DEF Next, Step, Terminated

\* Every value that a variable takes is one of its type, whatever the program
\* calls, in any number of threads and processes.
THEOREM TypeCorrect == Spec => []TypeOK
<1>1. Init => TypeOK /\ Exclusion
  BY TypeInit, ExclusionInit
<1>2. TypeOK /\ Exclusion /\ [Next]_vars => TypeOK' /\ Exclusion'
  BY TypeStep, ExclusionStep
<1> QED  BY <1>1, <1>2, PTL DEF Spec

\* At most one thread is between LOCK and UNLOCK, and who is there holds the mutex.
THEOREM MutualExclusion == Spec => []Exclusion
<1>1. Init => TypeOK /\ Exclusion
  BY TypeInit, ExclusionInit
<1>2. TypeOK /\ Exclusion /\ [Next]_vars => TypeOK' /\ Exclusion'
  BY TypeStep, ExclusionStep
<1> QED  BY <1>1, <1>2, PTL DEF Spec

-----------------------------------------------------------------------------
(* The numbers on the result lines *)

Numbering == Counted /\ Numbered /\ NumberedInOrder

\* The only results of a longer output are the old ones and, perhaps, its last line.
LEMMA ResultsOfAppend ==
    ASSUME TypeOK, NEW e \in Line, lines' = Append(lines, e)
    PROVE  /\ Results' = IF e.kind = "result" THEN Results \union {Len(lines) + 1} ELSE Results
           /\ \A i \in Results : lines'[i] = lines[i] /\ i \in 1..Len(lines)
           /\ lines'[Len(lines) + 1] = e
           /\ Len(lines) \in Nat
<1>1. lines \in Seq(Line) /\ Len(lines) \in Nat
  BY LenProperties DEF TypeOK
<1>2. /\ DOMAIN lines = 1..Len(lines)
      /\ DOMAIN lines' = 1..Len(lines) + 1
      /\ \A i \in 1..Len(lines) : lines'[i] = lines[i]
      /\ lines'[Len(lines) + 1] = e
  BY <1>1, AppendLine
<1> QED  BY <1>1, <1>2 DEF Results

\* A line that is not a result, when nothing is counted.
LEMMA NoNewResult ==
    ASSUME TypeOK, Numbering, Counted', Printed' = Printed,
           \/ lines' = lines
           \/ \E e \in Line : e.kind # "result" /\ lines' = Append(lines, e)
    PROVE  Numbering'
<1>1. CASE lines' = lines
  BY <1>1 DEF Numbering, Numbered, NumberedInOrder, Results
<1>2. ASSUME NEW e \in Line, e.kind # "result", lines' = Append(lines, e)
      PROVE  Numbering'
  <2>1. Results' = Results /\ \A i \in Results : lines'[i] = lines[i]
    BY <1>2, ResultsOfAppend
  <2> QED  BY <2>1 DEF Numbering, Numbered, NumberedInOrder
<1> QED  BY <1>1, <1>2

\* The next number, on a place after all the others, continues the numbering.
LEMMA NextNumber ==
    ASSUME Numbering, Counted', Printed \in Nat, Printed' = Printed + 1,
           NEW last \in Nat, Results' = Results \union {last},
           \A i \in Results : lines'[i] = lines[i] /\ i \in Nat /\ i < last,
           lines'[last].num = Printed + 1
    PROVE  Numbering'
<1>1. \A i \in Results : lines'[i].num = lines[i].num /\ lines'[i].num \in 1..Printed
  BY DEF Numbering, Numbered
<1>2. Numbered'
  <2>1. ASSUME NEW i \in Results' PROVE lines'[i].num \in 1..Printed'
    BY <1>1
  <2>2. ASSUME NEW k \in 1..Printed' PROVE \E i \in Results' : lines'[i].num = k
    <3>1. CASE k = Printed + 1
      BY <1>1, <3>1
    <3>2. CASE k # Printed + 1
      <4>1. k \in 1..Printed
        BY <3>2
      <4>2. PICK i \in Results : lines[i].num = k
        BY <4>1 DEF Numbering, Numbered
      <4> QED  BY <1>1, <4>2
    <3> QED  BY <3>1, <3>2
  <2> QED  BY <2>1, <2>2 DEF Numbered
<1>3. ASSUME NEW i \in Results', NEW j \in Results', i < j
      PROVE  lines'[i].num < lines'[j].num
  <2>1. i \in Results
    BY <1>3
  <2>2. CASE j = last
    BY <1>1, <2>1, <2>2
  <2>3. CASE j \in Results
    BY <1>1, <1>3, <2>1, <2>3 DEF Numbering, NumberedInOrder
  <2> QED  BY <1>1, <2>2, <2>3
<1>4. ASSUME NEW i \in Results', NEW k \in 1..lines'[i].num - 1
      PROVE  \E j \in Results' : j < i /\ lines'[j].num = k
  <2>1. CASE i = last
    <3>1. k \in 1..Printed
      BY <1>1, <2>1
    <3>2. PICK j \in Results : lines[j].num = k
      BY <3>1 DEF Numbering, Numbered
    <3> QED  BY <1>1, <2>1, <3>2
  <2>2. CASE i \in Results
    <3>1. PICK j \in Results : j < i /\ lines[j].num = k
      BY <1>1, <2>2 DEF Numbering, NumberedInOrder
    <3> QED  BY <1>1, <3>1
  <2> QED  BY <1>1, <2>1, <2>2
<1> QED  BY <1>2, <1>3, <1>4 DEF Numbering, NumberedInOrder

\* A new result carries the next number.
LEMMA NewResult ==
    ASSUME TypeOK, Numbering, Counted', Printed \in Nat, Printed' = Printed + 1,
           NEW e \in Line, e.kind = "result", e.num = Printed + 1, lines' = Append(lines, e)
    PROVE  Numbering'
<1>1. /\ Results' = Results \union {Len(lines) + 1}
      /\ \A i \in Results : lines'[i] = lines[i] /\ i \in Nat /\ i < Len(lines) + 1
      /\ lines'[Len(lines) + 1].num = Printed + 1
      /\ Len(lines) + 1 \in Nat
  BY ResultsOfAppend
<1> QED  BY <1>1, NextNumber

\* A step of a thread that neither counts nor prints a result.
LEMMA Quiet ==
    ASSUME TypeOK, Numbering, shm'.test_count = shm.test_count,
           NEW t \in Thread, NEW l, Goto(t, l), pc[t] # "print", l # "print",
           \/ lines' = lines
           \/ \E e \in Line : e.kind # "result" /\ lines' = Append(lines, e)
    PROVE  Numbering'
<1>1. \A u \in Thread : pc'[u] = "print" <=> pc[u] = "print"
  BY DEF Goto, TypeOK
<1>2. Printed' = Printed
  BY <1>1 DEF Printed
<1>3. Counted'
  BY <1>1 DEF Numbering, Counted
<1> QED  BY <1>2, <1>3, NoNewResult

LEMMA EmitQuietly ==
    ASSUME NEW kind \in {"plan", "bail"}, NEW num \in Nat, NEW good \in BOOLEAN,
           NEW newline \in BOOLEAN, Emit(kind, num, good, newline)
    PROVE  \E e \in Line : e.kind # "result" /\ lines' = Append(lines, e)
<1>1. [kind |-> kind, num |-> num, good |-> good] \in Line
  BY DEF Line
<1> QED  BY <1>1 DEF Emit

\* Nobody else prints while a thread is in a critical section.
LEMMA OnlyPrinter ==
    ASSUME Exclusion, NEW t \in Thread, pc[t] \in Critical,
           NEW u \in Thread, pc[u] = "print"
    PROVE  u = t
  BY DEF Exclusion, Critical

LEMMA NumberingInit == Init => Numbering
<1> SUFFICES ASSUME Init PROVE Numbering
  OBVIOUS
<1>1. Results = {}
  BY DEF Init, Results
<1>2. \A t \in Thread : pc[t] # "print"
  BY DEF Init
<1>3. Printed = 0
  BY <1>2 DEF Init, Printed
<1> QED  BY <1>1, <1>2, <1>3 DEF Numbering, Counted, Numbered, NumberedInOrder

LEMMA NumberingCount ==
    ASSUME TypeOK, Exclusion, Numbering, NEW t \in Thread, Count(t) PROVE Numbering'
<1>1. shm.test_count \in Nat /\ shm'.test_count = shm.test_count + 1
  BY DEF TypeOK, Shm, Count
<1>2. \A u \in Thread : pc[u] # "print"
  BY OnlyPrinter DEF Count, At, Critical
<1>3. Printed = shm.test_count
  BY <1>2 DEF Printed
<1>4. pc'[t] = "print"
  BY DEF Count, Goto, TypeOK
<1>5. Printed' = shm.test_count
  BY <1>1, <1>4 DEF Printed
<1>6. Counted'
  BY <1>1 DEF Counted
<1> QED  BY <1>3, <1>5, <1>6, NoNewResult DEF Count, output

LEMMA NumberingPrint ==
    ASSUME TypeOK, Exclusion, Numbering, NEW t \in Thread, PrintResult(t) PROVE Numbering'
<1>1. shm.test_count \in Nat /\ shm.test_count > 0 /\ shm' = shm /\ pc[t] = "print"
  BY DEF TypeOK, Shm, PrintResult, At, Numbering, Counted
<1>2. Printed = shm.test_count - 1
  BY <1>1 DEF Printed
<1>3. \A u \in Thread : pc'[u] # "print"
  BY <1>1, OnlyPrinter DEF PrintResult, Goto, TypeOK, Critical
<1>4. Printed' = shm.test_count
  BY <1>1, <1>3 DEF Printed
<1>5. Counted'
  BY <1>3 DEF Counted
<1> DEFINE e == [kind |-> "result", num |-> shm.test_count, good |-> call[t].ok \/ call[t].todo]
<1>6. e \in Line /\ e.kind = "result" /\ e.num = Printed + 1
  BY <1>1, <1>2 DEF Line
<1>7. lines' = Append(lines, e)
  BY DEF PrintResult, Emit
<1> HIDE DEF e
<1>8. Printed \in Nat /\ Printed' = Printed + 1
  BY <1>1, <1>2, <1>4
<1> QED  BY <1>5, <1>6, <1>7, <1>8, NewResult

LEMMA NumberingSkip ==
    ASSUME TypeOK, Exclusion, Numbering, NEW t \in Thread, Skip(t) PROVE Numbering'
<1>1. shm.test_count \in Nat /\ shm'.test_count = shm.test_count + 1
  BY DEF TypeOK, Shm, Skip
<1>2. \A u \in Thread : pc[u] # "print" /\ pc'[u] # "print"
  BY OnlyPrinter DEF Skip, At, Critical
<1>3. Printed = shm.test_count /\ Printed' = shm.test_count + 1
  BY <1>1, <1>2 DEF Printed
<1>4. Counted'
  BY <1>2 DEF Counted
<1> DEFINE e == [kind |-> "result", num |-> shm.test_count + 1, good |-> TRUE]
<1>5. e \in Line /\ e.kind = "result" /\ e.num = Printed + 1
  BY <1>1, <1>3 DEF Line
<1>6. lines' = Append(lines, e)
  BY <1>1 DEF Skip, SkipNumber, Emit
<1> HIDE DEF e
<1> QED  BY <1>1, <1>3, <1>4, <1>5, <1>6, NewResult

LEMMA NumberingWork ==
    ASSUME TypeOK, Exclusion, Numbering, NEW t \in Thread, Work(t) PROVE Numbering'
<1> USE DEF At, output
<1> /\ shm \in Shm /\ shm.test_count \in Nat /\ call[t].n \in Nat
  BY DEF TypeOK, Shm, Call
<1>1. CASE Count(t)
  BY <1>1, NumberingCount
<1>2. CASE PrintResult(t)
  BY <1>2, NumberingPrint
<1>3. CASE Eol(t)
  BY <1>3, Quiet DEF Eol, EndLine
<1>4. CASE Skip(t)
  BY <1>4, NumberingSkip
<1>5. CASE SkipEnd(t)
  BY <1>5, Quiet DEF SkipEnd
<1>6. CASE PlanRefused(t)
  <2>1. shm'.test_count = shm.test_count
    BY <1>6 DEF PlanRefused, Shm
  <2> QED  BY <1>6, <2>1, Quiet DEF PlanRefused, Planning
<1>7. CASE PlanAccepted(t)
  <2>1. shm'.test_count = shm.test_count
    BY <1>7 DEF PlanAccepted, Shm
  <2> QED  BY <1>7, <2>1, Quiet DEF PlanAccepted, Planning
<1>8. CASE PlanSet(t)
  <2>1. shm'.test_count = shm.test_count
    BY <1>8 DEF PlanSet, Shm
  <2> QED  BY <1>8, <2>1, EmitQuietly, Quiet DEF PlanSet
<1>9. CASE PlanSkipAll(t)
  <2>1. shm'.test_count = shm.test_count
    BY <1>9 DEF PlanSkipAll, Shm
  <2> QED  BY <1>9, <2>1, EmitQuietly, Quiet DEF PlanSkipAll
<1>10. CASE SkipAllEol(t)
  BY <1>10, Quiet DEF SkipAllEol, EndLine
<1>11. CASE Bail(t)
  BY <1>11, EmitQuietly, Quiet DEF Bail
<1>12. CASE BailEol(t)
  BY <1>12, Quiet DEF BailEol, EndLine
<1>13. CASE Return(t)
  BY <1>13, Quiet DEF Return
<1>14. CASE Leave(t)
  BY <1>14, Quiet DEF Leave
<1>15. CASE ReturnFromMain(t)
  BY <1>15, Quiet DEF ReturnFromMain
<1>16. CASE ExitStatus(t)
  BY <1>16, Quiet DEF ExitStatus
<1>17. CASE LateStatus(t)
  BY <1>17, Quiet DEF LateStatus
<1>18. CASE RunHandlers(t)
  BY <1>18, Quiet DEF RunHandlers
<1>19. CASE Cleanup(t)
  BY <1>19, EmitQuietly, Quiet DEF Cleanup
<1>20. CASE Halt(t)
  BY <1>20 DEF Halt, Numbering, Counted, Numbered, NumberedInOrder, Printed, Results
<1>21. CASE Finish(t)
  BY <1>21, Quiet DEF Finish
<1> QED
  BY <1>1, <1>2, <1>3, <1>4, <1>5, <1>6, <1>7, <1>8, <1>9, <1>10, <1>11, <1>12, <1>13,
     <1>14, <1>15, <1>16, <1>17, <1>18, <1>19, <1>20, <1>21 DEF Work

LEMMA NumberingStep == ASSUME TypeOK, Exclusion, Numbering, [Next]_vars PROVE Numbering'
<1> USE DEF At, output
<1>1. ASSUME NEW t \in Thread, Work(t) PROVE Numbering'
  BY <1>1, NumberingWork
<1>2. ASSUME NEW t \in Thread, ExitTwice(t) PROVE Numbering'
  BY <1>2, Quiet DEF ExitTwice
<1>3. ASSUME NEW t \in Thread, NEW c \in Menu[t], Enter(t, c) PROVE Numbering'
  <2>1. c.op # "print"
    BY CoreAssumption DEF Call
  <2> QED  BY <1>3, <2>1, Quiet DEF Enter, MayCall
<1>4. ASSUME NEW t \in Thread, NEW c \in Menu[t], EnterBailOut(t, c) PROVE Numbering'
  BY <1>4, Quiet DEF EnterBailOut, MayCall
<1>5. ASSUME NEW t \in Thread, NEW u \in Thread, Spawn(t, u) PROVE Numbering'
  BY <1>5, Quiet DEF Spawn
<1>6. CASE UNCHANGED <<shm, pc, lines>>
  BY <1>6 DEF Numbering, Counted, Numbered, NumberedInOrder, Printed, Results
<1> QED
  BY <1>1, <1>2, <1>3, <1>4, <1>5, <1>6 DEF Next, Step, Terminated, Kill, vars

\* The numbers on the result lines are 1, 2, 3, ... down the output, for any
\* threads in any processes, whatever they call and whoever is killed.
THEOREM ResultsNumberedInOrder == Spec => []NumberedInOrder
<1>1. Init => TypeOK /\ Exclusion /\ Numbering
  BY TypeInit, ExclusionInit, NumberingInit
<1>2. TypeOK /\ Exclusion /\ Numbering /\ [Next]_vars
        => TypeOK' /\ Exclusion' /\ Numbering'
  BY TypeStep, ExclusionStep, NumberingStep
<1>3. Numbering => NumberedInOrder
  BY DEF Numbering
<1> QED  BY <1>1, <1>2, <1>3, PTL DEF Spec

-----------------------------------------------------------------------------
(* Lines torn apart *)

Bailed == \E i \in DOMAIN lines : lines[i].kind = "bail"

\* Where a thread has begun a line with the mutex held.
Open == {"eol", "skip_all_eol"}

\* As long as nobody bailed out, whoever has begun a line still holds the mutex.
Tearing ==
    /\ OnlyBailTears
    /\ bol \/ Bailed \/ \E t \in Thread : pc[t] \in Open

LEMMA TearingInit == Init => Tearing
  BY DEF Init, Tearing, OnlyBailTears

\* "Bail out!" is not taken back.
LEMMA StaysBailed ==
    ASSUME TypeOK, Bailed, NEW e \in Line, lines' = Append(lines, e) PROVE Bailed'
<1>1. lines \in Seq(Line)
  BY DEF TypeOK
<1> QED  BY <1>1, AppendLine DEF Bailed

\* Who has the mutex, or finds it free, and has no line begun, begins a new one
\* at the start of a line.
LEMMA AtStart ==
    ASSUME Exclusion, Tearing, NEW t \in Thread, pc[t] \notin Open,
           held[t] > 0 \/ LockFree(t)
    PROVE  bol \/ Bailed
<1>1. ASSUME NEW u \in Thread, pc[u] \in Open PROVE FALSE
  <2>1. held[u] > 0 /\ u # t
    BY <1>1 DEF Exclusion, Open, Critical
  <2>2. CASE held[t] > 0
    BY <2>1, <2>2 DEF Exclusion
  <2>3. CASE LockFree(t)
    BY <2>1, <2>3 DEF LockFree
  <2> QED  BY <2>2, <2>3
<1> QED  BY <1>1 DEF Tearing

LEMMA BeginsLine ==
    ASSUME TypeOK, Tearing, bol \/ Bailed,
           NEW kind \in {"result", "plan", "bail"}, NEW num \in Nat,
           NEW good \in BOOLEAN, NEW newline \in BOOLEAN, Emit(kind, num, good, newline),
           newline \/ \E u \in Thread : pc'[u] \in Open
    PROVE  Tearing'
<1>1. [kind |-> kind, num |-> num, good |-> good] \in Line
  BY DEF Line
<1>2. Bailed => Bailed'
  BY <1>1, StaysBailed DEF Emit
<1>3. torn' => Bailed
  BY DEF Emit, Tearing, OnlyBailTears, Bailed
<1>4. OnlyBailTears'
  BY <1>2, <1>3 DEF OnlyBailTears, Bailed
<1>5. bol' = newline
  BY DEF Emit
<1> QED  BY <1>4, <1>5 DEF Tearing

LEMMA EndsLine == ASSUME Tearing, EndLine PROVE Tearing'
  BY DEF EndLine, Tearing, OnlyBailTears

\* A step of a thread that has no line begun and writes nothing.
LEMMA Silent ==
    ASSUME TypeOK, Tearing, UNCHANGED output,
           NEW t \in Thread, NEW l, Goto(t, l), pc[t] \notin Open
    PROVE  Tearing'
<1>1. \A u \in Thread : pc[u] \in Open => pc'[u] \in Open
  BY DEF Goto, TypeOK
<1>2. OnlyBailTears' /\ (Bailed => Bailed') /\ bol' = bol
  BY DEF output, Tearing, OnlyBailTears, Bailed
<1> QED  BY <1>1, <1>2 DEF Tearing

LEMMA TearingBail == ASSUME TypeOK, Tearing, NEW t \in Thread, Bail(t) PROVE Tearing'
<1> DEFINE e == [kind |-> "bail", num |-> 0, good |-> FALSE]
<1>1. e \in Line /\ e.kind = "bail"
  BY DEF Line
<1>2. lines' = Append(lines, e) /\ lines \in Seq(Line)
  BY DEF Bail, Emit, TypeOK
<1> HIDE DEF e
<1>3. Len(lines) + 1 \in DOMAIN lines' /\ lines'[Len(lines) + 1] = e
  BY <1>1, <1>2, AppendLine, LenProperties
<1>4. Bailed'
  BY <1>1, <1>3 DEF Bailed
<1> QED  BY <1>4 DEF Tearing, OnlyBailTears, Bailed

LEMMA TearingWork ==
    ASSUME TypeOK, Exclusion, Tearing, NEW t \in Thread, Work(t) PROVE Tearing'
<1> USE DEF At
<1>1. CASE Count(t)
  BY <1>1, Silent DEF Count, Open
<1>2. CASE PrintResult(t)
  <2>1. bol \/ Bailed
    BY <1>2, AtStart DEF PrintResult, Open, Exclusion, Critical
  <2>2. shm.test_count \in Nat /\ (call[t].ok \/ call[t].todo) \in BOOLEAN
    BY DEF TypeOK, Shm, Call
  <2>3. pc'[t] \in Open
    BY <1>2 DEF PrintResult, Goto, TypeOK, Open
  <2> QED  BY <1>2, <2>1, <2>2, <2>3, BeginsLine DEF PrintResult
<1>3. CASE Eol(t)
  BY <1>3, EndsLine DEF Eol
<1>4. CASE Skip(t)
  <2>1. bol \/ Bailed
    BY <1>4, AtStart DEF Skip, Open, Exclusion, Critical
  <2>2. SkipNumber \in Nat
    BY DEF SkipNumber, TypeOK, Shm
  <2> QED  BY <1>4, <2>1, <2>2, BeginsLine DEF Skip
<1>5. CASE SkipEnd(t)
  BY <1>5, Silent DEF SkipEnd, Open
<1>6. CASE PlanRefused(t)
  BY <1>6, Silent DEF PlanRefused, Planning, Open
<1>7. CASE PlanAccepted(t)
  BY <1>7, Silent DEF PlanAccepted, Planning, Open
<1>8. CASE PlanSet(t)
  <2>1. bol \/ Bailed
    BY <1>8, AtStart DEF PlanSet, Open, Exclusion, Critical
  <2>2. call[t].n \in Nat
    BY DEF TypeOK, Call
  <2> QED  BY <1>8, <2>1, <2>2, BeginsLine DEF PlanSet
<1>9. CASE PlanSkipAll(t)
  <2>1. bol \/ Bailed
    BY <1>9, AtStart DEF PlanSkipAll, Open, Exclusion, Critical
  <2>2. pc'[t] \in Open
    BY <1>9 DEF PlanSkipAll, Goto, TypeOK, Open
  <2> QED  BY <1>9, <2>1, <2>2, BeginsLine DEF PlanSkipAll
<1>10. CASE SkipAllEol(t)
  BY <1>10, EndsLine DEF SkipAllEol
<1>11. CASE Bail(t)
  BY <1>11, TearingBail
<1>12. CASE BailEol(t)
  BY <1>12, EndsLine DEF BailEol
<1>13. CASE Return(t)
  BY <1>13, Silent DEF Return, Open
<1>14. CASE Leave(t)
  BY <1>14, Silent DEF Leave, Open
<1>15. CASE ReturnFromMain(t)
  BY <1>15, Silent DEF ReturnFromMain, Open
<1>16. CASE ExitStatus(t)
  BY <1>16, Silent DEF ExitStatus, Open
<1>17. CASE LateStatus(t)
  BY <1>17, Silent DEF LateStatus, Open
<1>18. CASE RunHandlers(t)
  BY <1>18, Silent DEF RunHandlers, Open
<1>19. CASE Cleanup(t)
  <2>1. CASE UNCHANGED output
    BY <1>19, <2>1, Silent DEF Cleanup, Open
  <2>2. CASE Emit("plan", shm.test_count, TRUE, TRUE)
    <3>1. bol \/ Bailed
      BY <1>19, AtStart DEF Cleanup, Open
    <3>2. shm.test_count \in Nat
      BY DEF TypeOK, Shm
    <3> QED  BY <2>2, <3>1, <3>2, BeginsLine
  <2> QED  BY <1>19, <2>1, <2>2 DEF Cleanup, output
<1>20. CASE Halt(t)
  BY <1>20 DEF Halt, output, Tearing, OnlyBailTears, Bailed
<1>21. CASE Finish(t)
  BY <1>21, Silent DEF Finish, Open
<1> QED
  BY <1>1, <1>2, <1>3, <1>4, <1>5, <1>6, <1>7, <1>8, <1>9, <1>10, <1>11, <1>12, <1>13,
     <1>14, <1>15, <1>16, <1>17, <1>18, <1>19, <1>20, <1>21 DEF Work

LEMMA TearingStep == ASSUME TypeOK, Exclusion, Tearing, [Next]_vars PROVE Tearing'
<1> USE DEF At
<1>1. ASSUME NEW t \in Thread, Work(t) PROVE Tearing'
  BY <1>1, TearingWork
<1>2. ASSUME NEW t \in Thread, ExitTwice(t) PROVE Tearing'
  BY <1>2, Silent DEF ExitTwice, Open
<1>3. ASSUME NEW t \in Thread, NEW c \in Menu[t], Enter(t, c) \/ EnterBailOut(t, c)
      PROVE  Tearing'
  BY <1>3, Silent DEF Enter, EnterBailOut, MayCall, Open
<1>4. ASSUME NEW t \in Thread, NEW u \in Thread, Spawn(t, u) PROVE Tearing'
  BY <1>4, Silent DEF Spawn, Open
<1>5. CASE UNCHANGED <<pc, output>>
  BY <1>5 DEF output, Tearing, OnlyBailTears, Bailed
<1> QED
  BY <1>1, <1>2, <1>3, <1>4, <1>5 DEF Next, Step, Terminated, Kill, vars, output

\* Only "Bail out!" tears lines apart, whatever threads and processes write at
\* the same time, and although stdout is unbuffered.
THEOREM OnlyBailOutTears == Spec => []OnlyBailTears
<1>1. Init => TypeOK /\ Exclusion /\ Tearing
  BY TypeInit, ExclusionInit, TearingInit
<1>2. TypeOK /\ Exclusion /\ Tearing /\ [Next]_vars => TypeOK' /\ Exclusion' /\ Tearing'
  BY TypeStep, ExclusionStep, TearingStep
<1>3. Tearing => OnlyBailTears
  BY DEF Tearing
<1> QED  BY <1>1, <1>2, <1>3, PTL DEF Spec

-----------------------------------------------------------------------------
(* Lines kept whole *)

\* Where a thread of a program without BAIL_OUT() has begun a line.
Begins == {"eol", "skip_all_eol", "bail_eol"}

\* A mandatory test bails out with the mutex held, and keeps it.
Whole ==
    /\ \A t \in Thread : pc[t] \in {"bail", "bail_eol"} => held[t] > 0
    /\ ~torn
    /\ bol \/ \E t \in Thread : pc[t] \in Begins

LEMMA WholeInit == Init => Whole
<1> SUFFICES ASSUME Init PROVE Whole
  OBVIOUS
<1>1. \A t \in Thread : pc[t] \notin {"bail", "bail_eol"}
  BY DEF Init
<1> QED  BY <1>1 DEF Init, Whole

\* Who has the mutex, or finds it free, is at the start of a line.
LEMMA AtLineStart ==
    ASSUME Exclusion, Whole, NEW t \in Thread, pc[t] \notin Begins,
           held[t] > 0 \/ LockFree(t)
    PROVE  bol
<1>1. ASSUME NEW u \in Thread, pc[u] \in Begins PROVE FALSE
  <2>1. held[u] > 0 /\ u # t
    BY <1>1 DEF Exclusion, Begins, Critical, Whole
  <2>2. CASE held[t] > 0
    BY <2>1, <2>2 DEF Exclusion
  <2>3. CASE LockFree(t)
    BY <2>1, <2>3 DEF LockFree
  <2> QED  BY <2>2, <2>3
<1> QED  BY <1>1 DEF Whole

\* The mutex of a thread that bails out is not taken away by another one.
LEMMA BailsHeld ==
    ASSUME TypeOK, Whole, NEW t \in Thread, NEW l, Goto(t, l),
           \A u \in Thread \ {t} : held'[u] = held[u],
           l \in {"bail", "bail_eol"} => held'[t] > 0
    PROVE  \A u \in Thread : pc'[u] \in {"bail", "bail_eol"} => held'[u] > 0
  BY DEF TypeOK, Goto, Whole

\* A step that writes nothing, of a thread that has no line begun.
LEMMA WritesNothing ==
    ASSUME TypeOK, Whole, UNCHANGED output, NEW t \in Thread, NEW l, Goto(t, l),
           pc[t] \notin Begins,
           \A u \in Thread \ {t} : held'[u] = held[u],
           l \in {"bail", "bail_eol"} => held'[t] > 0
    PROVE  Whole'
<1>1. \A u \in Thread : pc[u] \in Begins => pc'[u] \in Begins
  BY DEF Goto, TypeOK
<1>2. torn' = torn /\ bol' = bol
  BY DEF output
<1> QED  BY <1>1, <1>2, BailsHeld DEF Whole

\* A line is begun at the start of a line, and ended or left to the thread.
LEMMA WritesLine ==
    ASSUME TypeOK, Whole, bol, held' = held, NEW kind, NEW num, NEW good,
           NEW newline \in BOOLEAN, Emit(kind, num, good, newline),
           NEW t \in Thread, NEW l, Goto(t, l), newline \/ l \in Begins,
           l \in {"bail", "bail_eol"} => held[t] > 0
    PROVE  Whole'
<1>1. ~torn' /\ bol' = newline
  BY DEF Emit, Whole
<1>2. pc'[t] = l
  BY DEF Goto, TypeOK
<1> QED  BY <1>1, <1>2, BailsHeld DEF Whole

LEMMA WholeWork ==
    ASSUME TypeOK, Exclusion, Whole, NEW t \in Thread, Work(t) PROVE Whole'
<1> USE DEF At
<1>1. CASE Count(t)
  BY <1>1, WritesNothing DEF Count, Begins
<1>2. CASE PrintResult(t)
  <2>1. bol
    BY <1>2, AtLineStart DEF PrintResult, Begins, Exclusion, Critical
  <2> QED  BY <1>2, <2>1, WritesLine DEF PrintResult, Begins
<1>3. CASE Eol(t)
  <2>1. held[t] > 0
    BY <1>3 DEF Eol, Exclusion, Critical
  <2> QED  BY <1>3, <2>1, BailsHeld DEF Eol, EndLine, Whole
<1>4. CASE Skip(t)
  <2>1. bol
    BY <1>4, AtLineStart DEF Skip, Begins, Exclusion, Critical
  <2> QED  BY <1>4, <2>1 DEF Skip, Emit, Whole
<1>5. CASE SkipEnd(t)
  BY <1>5, WritesNothing DEF SkipEnd, Begins
<1>6. CASE PlanRefused(t)
  BY <1>6, WritesNothing DEF PlanRefused, Planning, Begins
<1>7. CASE PlanAccepted(t)
  BY <1>7, WritesNothing DEF PlanAccepted, Planning, Begins
<1>8. CASE PlanSet(t)
  <2>1. bol
    BY <1>8, AtLineStart DEF PlanSet, Begins, Exclusion, Critical
  <2> QED  BY <1>8, <2>1, WritesLine DEF PlanSet
<1>9. CASE PlanSkipAll(t)
  <2>1. bol
    BY <1>9, AtLineStart DEF PlanSkipAll, Begins, Exclusion, Critical
  <2> QED  BY <1>9, <2>1, WritesLine DEF PlanSkipAll, Begins
<1>10. CASE SkipAllEol(t)
  BY <1>10, BailsHeld DEF SkipAllEol, EndLine, Whole
<1>11. CASE Bail(t)
  <2>1. held[t] > 0
    BY <1>11 DEF Bail, Whole
  <2>2. bol
    BY <1>11, <2>1, AtLineStart DEF Bail, Begins
  <2> QED  BY <1>11, <2>1, <2>2, WritesLine DEF Bail, Begins
<1>12. CASE BailEol(t)
  BY <1>12, BailsHeld DEF BailEol, EndLine, Whole
<1>13. CASE Return(t)
  BY <1>13, WritesNothing DEF Return, Unlock, TypeOK, Begins
<1>14. CASE Leave(t)
  BY <1>14, WritesNothing DEF Leave, UnlockToExit, Unlock, TypeOK, Begins
<1>15. CASE ReturnFromMain(t)
  BY <1>15, WritesNothing DEF ReturnFromMain, Lock, TypeOK, Begins
<1>16. CASE ExitStatus(t)
  BY <1>16, WritesNothing DEF ExitStatus, UnlockToExit, Unlock, TypeOK, Begins
<1>17. CASE LateStatus(t)
  BY <1>17, WritesNothing DEF LateStatus, Begins
<1>18. CASE RunHandlers(t)
  BY <1>18, WritesNothing DEF RunHandlers, Begins
<1>19. CASE Cleanup(t)
  <2>1. CASE UNCHANGED output
    BY <1>19, <2>1, WritesNothing DEF Cleanup, Begins
  <2>2. CASE Emit("plan", shm.test_count, TRUE, TRUE)
    <3>1. bol
      BY <1>19, AtLineStart DEF Cleanup, Begins
    <3> QED  BY <1>19, <2>2, <3>1, WritesLine DEF Cleanup
  <2> QED  BY <1>19, <2>1, <2>2 DEF Cleanup, output
<1>20. CASE Halt(t)
  BY <1>20 DEF Halt, output, Whole
<1>21. CASE Finish(t)
  BY <1>21, WritesNothing DEF Finish, Begins
<1> QED
  BY <1>1, <1>2, <1>3, <1>4, <1>5, <1>6, <1>7, <1>8, <1>9, <1>10, <1>11, <1>12, <1>13,
     <1>14, <1>15, <1>16, <1>17, <1>18, <1>19, <1>20, <1>21 DEF Work

LEMMA WholeStep ==
    ASSUME \A t \in Thread : \A c \in Menu[t] : c.op # "BAIL_OUT",
           TypeOK, Exclusion, Whole, [Next]_vars
    PROVE  Whole'
<1> USE DEF At
<1>1. ASSUME NEW t \in Thread, Work(t) PROVE Whole'
  BY <1>1, WholeWork
<1>2. ASSUME NEW t \in Thread, ExitTwice(t) PROVE Whole'
  BY <1>2, WritesNothing DEF ExitTwice, Begins
<1>3. ASSUME NEW t \in Thread, NEW c \in Menu[t], Enter(t, c) PROVE Whole'
  <2>1. c.op \notin {"bail", "bail_eol"}
    BY CoreAssumption DEF Call
  <2> QED  BY <1>3, <2>1, WritesNothing DEF Enter, MayCall, Lock, TypeOK, Begins
<1>4. ASSUME NEW t \in Thread, NEW c \in Menu[t], EnterBailOut(t, c) PROVE Whole'
  BY <1>4 DEF EnterBailOut
<1>5. ASSUME NEW t \in Thread, NEW u \in Thread, Spawn(t, u) PROVE Whole'
  BY <1>5, WritesNothing DEF Spawn, Begins
<1>6. CASE UNCHANGED <<pc, held, output>>
  BY <1>6 DEF output, Whole
<1> QED
  BY <1>1, <1>2, <1>3, <1>4, <1>5, <1>6
  DEF Next, Step, Terminated, Kill, HeldWithout, vars, output

\* In a program that never calls BAIL_OUT() itself no line is torn, whatever
\* its threads and processes report and whoever is killed: a mandatory test
\* that fails bails out with the mutex in hand.
THEOREM WholeWithoutBailOut ==
    ASSUME \A t \in Thread : \A c \in Menu[t] : c.op # "BAIL_OUT"
    PROVE  Spec => []LinesWhole
<1>1. Init => TypeOK /\ Exclusion /\ Whole
  BY TypeInit, ExclusionInit, WholeInit
<1>2. TypeOK /\ Exclusion /\ Whole /\ [Next]_vars => TypeOK' /\ Exclusion' /\ Whole'
  BY TypeStep, ExclusionStep, WholeStep
<1>3. Whole => LinesWhole
  BY DEF Whole, LinesWhole
<1> QED  BY <1>1, <1>2, <1>3, PTL DEF Spec

-----------------------------------------------------------------------------
(* The counters and the results on the output *)

\* A failure was counted whose result is not yet printed.
Owed == \E t \in Thread : pc[t] = "print" /\ ~Excused(call[t])

\* The results, and the failures among them, are those that were counted, but
\* for the one that is about to be printed.
Counting ==
    /\ IsFiniteSet(Results) /\ IsFiniteSet(Failed)
    /\ Cardinality(Results) = Printed
    /\ shm.failures = IF Owed THEN Cardinality(Failed) + 1 ELSE Cardinality(Failed)

LEMMA CountingInit == Init => Counting
<1> SUFFICES ASSUME Init PROVE Counting
  OBVIOUS
<1>1. Results = {} /\ Failed = {}
  BY DEF Init, Results, Failed
<1>2. \A t \in Thread : pc[t] # "print"
  BY DEF Init
<1>3. shm.failures = 0 /\ shm.test_count = 0
  BY DEF Init
<1> QED  BY <1>1, <1>2, <1>3, FS_EmptySet DEF Counting, Printed, Owed

\* No result is printed, and none is counted or forgotten.
LEMMA SameResults ==
    ASSUME TypeOK, Counting, Printed' = Printed, Owed' <=> Owed,
           shm'.failures = shm.failures,
           \/ lines' = lines
           \/ \E e \in Line : e.kind # "result" /\ lines' = Append(lines, e)
    PROVE  Counting'
<1>1. CASE lines' = lines
  BY <1>1 DEF Counting, Results, Failed
<1>2. ASSUME NEW e \in Line, e.kind # "result", lines' = Append(lines, e) PROVE Counting'
  <2>1. Results' = Results /\ \A i \in Results : lines'[i] = lines[i]
    BY <1>2, ResultsOfAppend
  <2>2. Failed' = Failed
    BY <2>1 DEF Failed
  <2> QED  BY <2>1, <2>2 DEF Counting
<1> QED  BY <1>1, <1>2

\* A thread that is not printing, and does not begin to.
LEMMA Bystander ==
    ASSUME TypeOK, NEW t \in Thread, NEW l, Goto(t, l), pc[t] # "print", l # "print",
           \A u \in Thread \ {t} : call'[u] = call[u]
    PROVE  Owed' <=> Owed
<1>1. \A u \in Thread : pc'[u] = IF u = t THEN l ELSE pc[u]
  BY DEF TypeOK, Goto
<1> QED  BY <1>1 DEF Owed, Excused

LEMMA CountsNothing ==
    ASSUME TypeOK, Counting, shm'.test_count = shm.test_count, shm'.failures = shm.failures,
           NEW t \in Thread, NEW l, Goto(t, l), pc[t] # "print", l # "print",
           \A u \in Thread \ {t} : call'[u] = call[u],
           \/ lines' = lines
           \/ \E e \in Line : e.kind # "result" /\ lines' = Append(lines, e)
    PROVE  Counting'
<1>1. \A u \in Thread : pc'[u] = "print" <=> pc[u] = "print"
  BY DEF Goto, TypeOK
<1>2. Printed' = Printed
  BY <1>1 DEF Printed
<1> QED  BY <1>2, Bystander, SameResults

\* A new result is one more, and one more failure if it is not good.
LEMMA OneMore ==
    ASSUME TypeOK, Counting, NEW e \in Line, e.kind = "result", lines' = Append(lines, e)
    PROVE  /\ IsFiniteSet(Results') /\ IsFiniteSet(Failed')
           /\ Cardinality(Results') = Cardinality(Results) + 1
           /\ Cardinality(Failed') =
                  IF e.good THEN Cardinality(Failed) ELSE Cardinality(Failed) + 1
<1>1. /\ Results' = Results \union {Len(lines) + 1}
      /\ \A i \in Results : lines'[i] = lines[i] /\ i \in 1..Len(lines)
      /\ lines'[Len(lines) + 1] = e
      /\ Len(lines) \in Nat
  BY ResultsOfAppend
<1>2. Len(lines) + 1 \notin Results
  BY <1>1
<1>3. Failed' = IF e.good THEN Failed ELSE Failed \union {Len(lines) + 1}
  BY <1>1, <1>2 DEF Failed
<1>4. Len(lines) + 1 \notin Failed
  BY <1>2 DEF Failed
<1> QED  BY <1>1, <1>2, <1>3, <1>4, FS_AddElement, FS_CardinalityType DEF Counting

LEMMA CountingCount ==
    ASSUME TypeOK, Exclusion, Counting, NEW t \in Thread, Count(t) PROVE Counting'
<1>1. /\ shm'.test_count = shm.test_count + 1 /\ shm.test_count \in Nat
      /\ shm.failures \in Nat
      /\ shm'.failures = IF Excused(call[t]) THEN shm.failures ELSE shm.failures + 1
      /\ UNCHANGED <<lines, call>>
  BY DEF TypeOK, Shm, Count, local, output
<1>2. \A u \in Thread : pc[u] # "print"
  BY OnlyPrinter DEF Count, At, Critical
<1>3. \A u \in Thread : pc'[u] = IF u = t THEN "print" ELSE pc[u]
  BY DEF Count, Goto, TypeOK
<1>4. Printed' = Printed
  BY <1>1, <1>2, <1>3 DEF Printed
<1>5. ~Owed /\ (Owed' <=> ~Excused(call[t]))
  BY <1>1, <1>2, <1>3 DEF Owed, Excused
<1>6. Results' = Results /\ Failed' = Failed
  BY <1>1 DEF Results, Failed
<1> QED  BY <1>1, <1>4, <1>5, <1>6 DEF Counting

LEMMA CountingPrint ==
    ASSUME TypeOK, Exclusion, Counted, Counting, NEW t \in Thread, PrintResult(t)
    PROVE  Counting'
<1>1. shm.test_count \in Nat /\ shm' = shm /\ pc[t] = "print"
  BY DEF TypeOK, Shm, PrintResult, At
<1>2. \A u \in Thread : (pc[u] = "print" <=> u = t) /\ pc'[u] # "print"
  BY <1>1, OnlyPrinter DEF PrintResult, Goto, TypeOK, Critical
<1>3. Printed = shm.test_count - 1 /\ Printed' = shm.test_count
  BY <1>1, <1>2 DEF Printed
<1>4. (Owed <=> ~Excused(call[t])) /\ ~Owed'
  BY <1>2 DEF Owed
<1> DEFINE e == [kind |-> "result", num |-> shm.test_count, good |-> call[t].ok \/ call[t].todo]
<1>5. e \in Line /\ e.kind = "result" /\ (e.good <=> Excused(call[t]))
  BY <1>1 DEF Line, Excused
<1>6. lines' = Append(lines, e)
  BY DEF PrintResult, Emit
<1> HIDE DEF e
<1>7. /\ IsFiniteSet(Results') /\ IsFiniteSet(Failed')
      /\ Cardinality(Results') = Cardinality(Results) + 1
      /\ Cardinality(Failed') =
             IF e.good THEN Cardinality(Failed) ELSE Cardinality(Failed) + 1
  BY <1>5, <1>6, OneMore
<1> QED  BY <1>1, <1>3, <1>4, <1>5, <1>7 DEF Counting

LEMMA CountingSkip ==
    ASSUME TypeOK, Exclusion, Counting, NEW t \in Thread, Skip(t) PROVE Counting'
<1>1. /\ shm.test_count \in Nat /\ shm'.test_count = shm.test_count + 1
      /\ shm'.failures = shm.failures /\ pc' = pc
  BY DEF TypeOK, Shm, Skip
<1>2. \A u \in Thread : pc[u] # "print"
  BY OnlyPrinter DEF Skip, At, Critical
<1>3. Printed = shm.test_count /\ Printed' = shm.test_count + 1 /\ ~Owed /\ ~Owed'
  BY <1>1, <1>2 DEF Printed, Owed
<1> DEFINE e == [kind |-> "result", num |-> shm.test_count + 1, good |-> TRUE]
<1>4. e \in Line /\ e.kind = "result" /\ e.good
  BY <1>1 DEF Line
<1>5. lines' = Append(lines, e)
  BY DEF Skip, SkipNumber, Emit
<1> HIDE DEF e
<1>6. /\ IsFiniteSet(Results') /\ IsFiniteSet(Failed')
      /\ Cardinality(Results') = Cardinality(Results) + 1
      /\ Cardinality(Failed') = Cardinality(Failed)
  BY <1>4, <1>5, OneMore
<1> QED  BY <1>1, <1>3, <1>6 DEF Counting

LEMMA CountingWork ==
    ASSUME TypeOK, Exclusion, Counted, Counting, NEW t \in Thread, Work(t) PROVE Counting'
<1> USE DEF At, local, output
<1> /\ shm \in Shm /\ shm.test_count \in Nat /\ call[t].n \in Nat
  BY DEF TypeOK, Shm, Call
<1>1. CASE Count(t)
  BY <1>1, CountingCount
<1>2. CASE PrintResult(t)
  BY <1>2, CountingPrint
<1>3. CASE Eol(t)
  BY <1>3, CountsNothing DEF Eol, EndLine
<1>4. CASE Skip(t)
  BY <1>4, CountingSkip
<1>5. CASE SkipEnd(t)
  BY <1>5, CountsNothing DEF SkipEnd
<1>6. CASE PlanRefused(t)
  <2>1. shm'.test_count = shm.test_count /\ shm'.failures = shm.failures
    BY <1>6 DEF PlanRefused, Shm
  <2> QED  BY <1>6, <2>1, CountsNothing DEF PlanRefused, Planning
<1>7. CASE PlanAccepted(t)
  <2>1. shm'.test_count = shm.test_count /\ shm'.failures = shm.failures
    BY <1>7 DEF PlanAccepted, Shm
  <2> QED  BY <1>7, <2>1, CountsNothing DEF PlanAccepted, Planning
<1>8. CASE PlanSet(t)
  <2>1. shm'.test_count = shm.test_count /\ shm'.failures = shm.failures
    BY <1>8 DEF PlanSet, Shm
  <2> QED  BY <1>8, <2>1, EmitQuietly, CountsNothing DEF PlanSet
<1>9. CASE PlanSkipAll(t)
  <2>1. shm'.test_count = shm.test_count /\ shm'.failures = shm.failures
    BY <1>9 DEF PlanSkipAll, Shm
  <2> QED  BY <1>9, <2>1, EmitQuietly, CountsNothing DEF PlanSkipAll
<1>10. CASE SkipAllEol(t)
  BY <1>10, CountsNothing DEF SkipAllEol, EndLine
<1>11. CASE Bail(t)
  BY <1>11, EmitQuietly, CountsNothing DEF Bail
<1>12. CASE BailEol(t)
  BY <1>12, CountsNothing DEF BailEol, EndLine
<1>13. CASE Return(t)
  BY <1>13, CountsNothing DEF Return
<1>14. CASE Leave(t)
  BY <1>14, CountsNothing DEF Leave
<1>15. CASE ReturnFromMain(t)
  <2>1. \A u \in Thread \ {t} : call'[u] = call[u]
    BY <1>15 DEF ReturnFromMain, TypeOK
  <2> QED  BY <1>15, <2>1, CountsNothing DEF ReturnFromMain
<1>16. CASE ExitStatus(t)
  BY <1>16, CountsNothing DEF ExitStatus
<1>17. CASE LateStatus(t)
  BY <1>17, CountsNothing DEF LateStatus
<1>18. CASE RunHandlers(t)
  BY <1>18, CountsNothing DEF RunHandlers
<1>19. CASE Cleanup(t)
  BY <1>19, EmitQuietly, CountsNothing DEF Cleanup
<1>20. CASE Halt(t)
  BY <1>20, SameResults DEF Halt, Printed, Owed
<1>21. CASE Finish(t)
  BY <1>21, CountsNothing DEF Finish
<1> QED
  BY <1>1, <1>2, <1>3, <1>4, <1>5, <1>6, <1>7, <1>8, <1>9, <1>10, <1>11, <1>12, <1>13,
     <1>14, <1>15, <1>16, <1>17, <1>18, <1>19, <1>20, <1>21 DEF Work

LEMMA CountingStep ==
    ASSUME TypeOK, Exclusion, Counted, Counting, [Next]_vars PROVE Counting'
<1> USE DEF At, local, output
<1>1. ASSUME NEW t \in Thread, Work(t) PROVE Counting'
  BY <1>1, CountingWork
<1>2. ASSUME NEW t \in Thread, ExitTwice(t) PROVE Counting'
  BY <1>2, CountsNothing DEF ExitTwice
<1>3. ASSUME NEW t \in Thread, NEW c \in Menu[t], Enter(t, c) \/ EnterBailOut(t, c)
      PROVE  Counting'
  <2>1. c.op # "print"
    BY CoreAssumption DEF Call
  <2>2. \A u \in Thread \ {t} : call'[u] = call[u]
    BY <1>3 DEF Enter, EnterBailOut, TypeOK
  <2> QED  BY <1>3, <2>1, <2>2, CountsNothing DEF Enter, EnterBailOut, MayCall
<1>4. ASSUME NEW t \in Thread, NEW u \in Thread, Spawn(t, u) PROVE Counting'
  BY <1>4, CountsNothing DEF Spawn
<1>5. CASE UNCHANGED <<shm, pc, call, lines>>
  BY <1>5, SameResults DEF Printed, Owed
<1> QED
  BY <1>1, <1>2, <1>3, <1>4, <1>5 DEF Next, Step, Terminated, Kill, vars

\* When nobody holds the mutex the counters are the number of results and of
\* failed ones on the output, however many threads and processes counted and
\* printed them: exit_status() and _cleanup() judge what was really written.
THEOREM CountersMatch == Spec => []CountersMatchStream
<1> DEFINE IInv == TypeOK /\ Exclusion /\ Numbering /\ Counting
<1>1. Init => IInv
  BY TypeInit, ExclusionInit, NumberingInit, CountingInit
<1>2. IInv /\ [Next]_vars => IInv'
  BY TypeStep, ExclusionStep, NumberingStep, CountingStep DEF Numbering
<1>3. IInv => CountersMatchStream
  <2> SUFFICES ASSUME IInv, \A t \in Thread : held[t] = 0
               PROVE  /\ shm.test_count = Cardinality(Results)
                      /\ shm.failures = Cardinality(Failed)
    BY DEF CountersMatchStream
  <2>1. \A t \in Thread : pc[t] # "print"
    BY DEF Exclusion, Critical
  <2> QED  BY <2>1 DEF Counting, Printed, Owed
<1> HIDE DEF IInv
<1> QED  BY <1>1, <1>2, <1>3, PTL DEF Spec
=============================================================================
