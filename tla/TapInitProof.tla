---------------------------- MODULE TapInitProof ----------------------------
(***************************************************************************)
(* Theorems about the initialisation of libtap in TapInit, for any set of  *)
(* threads and any number of calls.                                        *)
(*                                                                         *)
(* What a thread has yet to do is a sequence; the proofs go by where in    *)
(* the code the thread is: in which call, at which step of it, and, where  *)
(* an INIT or a LOCK is more than one step, in which stage of that.        *)
(***************************************************************************)
EXTENDS TapInit, SequenceTheorems, FiniteSetTheorems, TLAPS

Name == {"pass", "fail", "digit", "skip", "plan", "tap_init"}

Script == [n \in Name |-> IF n = "pass" THEN PassSteps ELSE
                          IF n = "fail" THEN FailSteps ELSE
                          IF n = "digit" THEN DigitSteps ELSE
                          IF n = "skip" THEN SkipSteps ELSE
                          IF n = "plan" THEN PlanSteps ELSE InitSteps]

\* The stages of an implicit initialisation, after its guard is taken.
Inside == {"tap_init", "set", "map", "mutex_init", "unguard"}
Stage == {"run", "guard", "lost"} \cup Structure \cup Inside

Place == [name : Name, at : 1..8, stage : Stage]

\* A thread is at a place that its call has.
Proper(p) ==
    LET script == Script[p.name] IN
    /\ p.at <= Len(script) + 1
    /\ p.stage # "run" => p.at <= Len(script)
    /\ p.stage \in Inside \cup {"guard"} => script[p.at] = "INIT"
    /\ p.stage \in Structure => script[p.at] = "lock"

Busy(p) == p.stage = "run" => p.at <= Len(Script[p.name])

\* The next step, if any.
Doing(p) ==
    IF p.stage # "run" THEN p.stage
    ELSE IF p.at <= Len(Script[p.name]) THEN Script[p.name][p.at] ELSE "none"

\* What is left of a call from step k on, and of an implicit initialisation.
From(c, k) == SubSeq(c, k, Len(c))
Implicit(x) ==
    IF x = "tap_init" THEN InitSteps \o <<"unguard">> ELSE
    IF x = "set" THEN <<"set", "map", "mutex_init", "unguard">> ELSE
    IF x = "map" THEN <<"map", "mutex_init", "unguard">> ELSE
    IF x = "mutex_init" THEN <<"mutex_init", "unguard">> ELSE <<"unguard">>

\* What a thread that is at a place has yet to do.
Left(p) ==
    IF p.stage = "run" THEN From(Script[p.name], p.at)
    ELSE IF p.stage = "lost" THEN <<"lost">>
    ELSE (IF p.stage \in Inside THEN Implicit(p.stage) ELSE <<p.stage>>)
         \o From(Script[p.name], p.at + 1)

\* The place after the next step.
Following(x) ==
    IF x = "tap_init" THEN "set" ELSE
    IF x = "set" THEN "map" ELSE
    IF x = "map" THEN "mutex_init" ELSE "unguard"
After(p) ==
    IF p.stage \in Inside \ {"unguard"}
    THEN [p EXCEPT !.stage = Following(@)]
    ELSE [p EXCEPT !.stage = "run", !.at = @ + 1]

-----------------------------------------------------------------------------
(* What is known of a place *)

\* The locks that the call holds before each of its steps.
Depths == [n \in Name |-> IF n = "pass" THEN <<0, 1, 1, 1, 0>> ELSE
                          IF n = "fail" THEN <<0, 1, 1, 1, 1, 2, 1, 0>> ELSE
                          IF n = "digit" THEN <<0, 1, 1, 1, 2, 1, 1, 0>> ELSE
                          IF n = "skip" THEN <<0, 0, 1, 1, 1, 0>> ELSE
                          IF n = "plan" THEN <<0, 0, 1, 1, 2, 1, 0>> ELSE <<0, 0, 0, 0, 0>>]

\* The result that is counted but not printed.
Owings == [n \in Name |-> IF n = "pass" THEN <<"no", "no", "good", "no", "no">> ELSE
                          IF n = "fail" THEN <<"no", "no", "bad", "no", "no", "no", "no", "no">> ELSE
                          IF n = "digit" THEN <<"no", "no", "good", "good", "good", "good", "no", "no">> ELSE
                          IF n = "skip" THEN <<"no", "no", "no", "good", "no", "no">> ELSE
                          IF n = "plan" THEN <<"no", "no", "no", "no", "no", "no", "no">>
                          ELSE <<"no", "no", "no", "no", "no">>]

\* The first step that comes after an INIT.
Since == [n \in Name |-> IF n = "pass" THEN 9 ELSE
                         IF n = "fail" THEN 5 ELSE
                         IF n = "digit" THEN 4 ELSE
                         IF n = "tap_init" THEN 9 ELSE 2]

Held(p) == Depths[p.name][p.at]
Owes(p) == Owings[p.name][p.at]
Seen(p) == p.at >= Since[p.name]

-----------------------------------------------------------------------------
(* The invariant *)

Initialising == {"tap_init", "set", "map", "mutex_init"}

\* The implicit initialisation is guarded, and the explicit one is known.
Guarded(pc) ==
    \A t \in Thread :
        /\ pc[t].stage \in Inside <=> guard = t
        /\ pc[t].stage \in Inside \ {"unguard"} => ~Seen(pc[t])
        /\ pc[t].stage \in {"map", "mutex_init", "unguard"} => initialized
        /\ Seen(pc[t]) => initialized
        /\ pc[t].name = "tap_init" /\ Busy(pc[t]) => explicit

\* Who is in a call that began before the library was ready is alone.
Alone(pc) ==
    /\ \A t \in Thread : ~Ready /\ Busy(pc[t]) => t \in first
    /\ ~overlap =>
           /\ \A t, u \in Thread : t \in first /\ Busy(pc[t]) /\ Busy(pc[u]) => t = u
           /\ \A t \in Thread : guard = t => t \in first

Once(pc) ==
    /\ bailed => explicit
    /\ bailed /\ guard # NoThread => overlap
    /\ ~overlap \/ ~explicit =>
           /\ inits <= 1
           /\ ~initialized => inits = 0
           /\ ~bailed => \A t \in Thread :
                  /\ Doing(pc[t]) = "set" => ~initialized /\ inits = 0
                  /\ Doing(pc[t]) \in {"map", "mutex_init"} => initialized /\ inits = 0
                  /\ Doing(pc[t]) = "tap_init" /\ (~explicit \/ guard = t) => ~initialized

Good == ~overlap /\ (fork => ~early)

\* The first call of a program in fork mode initialises before anything else.
Mapped(pc) ==
    /\ fork /\ ~early /\ ~Ready =>
           \A t \in Thread : Busy(pc[t]) => pc[t].name \notin {"pass", "fail", "digit"}
    /\ Good /\ fork /\ ~Ready => lines = <<>>
    /\ Good /\ ~bailed /\ initialized /\ ~Ready =>
           \E t \in Thread : Doing(pc[t]) \in {"map", "mutex_init"}

\* The locks that a thread holds, as far as the mutex knows.
Mine(t) == IF mutex[ptr].owner = t THEN mutex[ptr].depth ELSE 0

Locked(pc) ==
    Good =>
        /\ mutex[ptr].owner = NoThread <=> mutex[ptr].depth = 0
        /\ mutex[ptr].recursive \/ \E t \in Thread : Doing(pc[t]) = "mutex_init"
        /\ \A t \in Thread :
               /\ pc[t].stage \in Structure => pc[t].stage = ptr
               /\ \/ Mine(t) = Held(pc[t])
                  \/ /\ Ready /\ t \in first /\ Busy(pc[t])
                     /\ Mine(t) + 1 = Held(pc[t])

\* The results are counted as they are printed.
Counted(pc) ==
    Good =>
        /\ \A i \in 1..Len(lines) : lines[i].num = i
        /\ count[ptr].tests =
               Len(lines) + IF \E t \in Thread : Owes(pc[t]) # "no" THEN 1 ELSE 0
        /\ count[ptr].failures =
               Cardinality(Bad) + IF \E t \in Thread : Owes(pc[t]) = "bad" THEN 1 ELSE 0

Placed(x, pc) == \A t \in Thread : Proper(pc[t]) /\ x[t] = Left(pc[t])
At(pc) == Placed(todo, pc)

Sound(pc) ==
    Guarded(pc) /\ Alone(pc) /\ Once(pc) /\ Mapped(pc) /\ Locked(pc) /\ Counted(pc)

InitInv ==
    /\ TypeOK /\ todo \in [Thread -> Seq(Steps)]
    /\ \E pc \in [Thread -> Place] : At(pc) /\ Sound(pc)

-----------------------------------------------------------------------------
(* The tables *)

\* What the step k of a call with the given step, locks and debts does.
Row(step, d, e, o, r) ==
    /\ d \in 0..2 /\ e \in 0..2
    /\ step = "lock" => e = d + 1
    /\ step = "unlock" => d > 0 /\ e = d - 1
    /\ step \notin {"lock", "unlock"} => e = d
    /\ step \in {"pass", "fail", "print_good", "print_bad"} => d > 0
    /\ step = "INIT" => d <= 1
    /\ step \in {"pass", "fail"} => o = "no" /\ r = IF step = "pass" THEN "good" ELSE "bad"
    /\ step \in {"print_good", "print_bad"} =>
           r = "no" /\ o = IF step = "print_good" THEN "good" ELSE "bad"
    /\ step \notin {"pass", "fail", "print_good", "print_bad"} => r = o
    /\ o \in {"no", "good", "bad"}
    /\ o # "no" => d > 0

LEMMA Lengths ==
    /\ Len(PassSteps) = 4 /\ Len(FailSteps) = 7 /\ Len(DigitSteps) = 7
    /\ Len(SkipSteps) = 5 /\ Len(PlanSteps) = 6 /\ Len(InitSteps) = 4
  BY DEF PassSteps, FailSteps, DigitSteps, SkipSteps, PlanSteps, InitSteps

LEMMA Scripts ==
    /\ Script["pass"] = PassSteps /\ Script["fail"] = FailSteps /\ Script["digit"] = DigitSteps
    /\ Script["skip"] = SkipSteps /\ Script["plan"] = PlanSteps /\ Script["tap_init"] = InitSteps
  BY DEF Script, Name

Plain == Steps \ ({"guard", "unguard", "lost"} \cup Structure)

LEMMA ScriptTypes ==
    /\ PassSteps \in Seq(Plain) /\ FailSteps \in Seq(Plain) /\ DigitSteps \in Seq(Plain)
    /\ SkipSteps \in Seq(Plain) /\ PlanSteps \in Seq(Plain) /\ InitSteps \in Seq(Plain)
<1>1. {"INIT", "tap_init", "set", "map", "mutex_init", "lock", "unlock", "pass", "fail",
       "print_good", "print_bad"} \subseteq Plain
  BY DEF Plain, Steps, Structure
<1> QED  BY <1>1 DEF PassSteps, FailSteps, DigitSteps, SkipSteps, PlanSteps, InitSteps

LEMMA ScriptType ==
    ASSUME NEW n \in Name
    PROVE  Script[n] \in Seq(Plain) /\ Len(Script[n]) \in 4..7
  BY Scripts, Lengths, ScriptTypes DEF Name

LEMMA PassRows ==
    ASSUME NEW k \in 1..4
    PROVE  Row(PassSteps[k], Depths["pass"][k], Depths["pass"][k+1],
               Owings["pass"][k], Owings["pass"][k+1])
<1>1. /\ Depths["pass"] = <<0, 1, 1, 1, 0>>
      /\ Owings["pass"] = <<"no", "no", "good", "no", "no">>
  BY DEF Depths, Owings, Name
<1> QED  BY <1>1 DEF PassSteps, Row

LEMMA FailRows ==
    ASSUME NEW k \in 1..7
    PROVE  Row(FailSteps[k], Depths["fail"][k], Depths["fail"][k+1],
               Owings["fail"][k], Owings["fail"][k+1])
<1>1. /\ Depths["fail"] = <<0, 1, 1, 1, 1, 2, 1, 0>>
      /\ Owings["fail"] = <<"no", "no", "bad", "no", "no", "no", "no", "no">>
  BY DEF Depths, Owings, Name
<1> QED  BY <1>1 DEF FailSteps, Row

LEMMA DigitRows ==
    ASSUME NEW k \in 1..7
    PROVE  Row(DigitSteps[k], Depths["digit"][k], Depths["digit"][k+1],
               Owings["digit"][k], Owings["digit"][k+1])
<1>1. /\ Depths["digit"] = <<0, 1, 1, 1, 2, 1, 1, 0>>
      /\ Owings["digit"] = <<"no", "no", "good", "good", "good", "good", "no", "no">>
  BY DEF Depths, Owings, Name
<1> QED  BY <1>1 DEF DigitSteps, Row

LEMMA SkipRows ==
    ASSUME NEW k \in 1..5
    PROVE  Row(SkipSteps[k], Depths["skip"][k], Depths["skip"][k+1],
               Owings["skip"][k], Owings["skip"][k+1])
<1>1. /\ Depths["skip"] = <<0, 0, 1, 1, 1, 0>>
      /\ Owings["skip"] = <<"no", "no", "no", "good", "no", "no">>
  BY DEF Depths, Owings, Name
<1> QED  BY <1>1 DEF SkipSteps, Row

LEMMA PlanRows ==
    ASSUME NEW k \in 1..6
    PROVE  Row(PlanSteps[k], Depths["plan"][k], Depths["plan"][k+1],
               Owings["plan"][k], Owings["plan"][k+1])
<1>1. /\ Depths["plan"] = <<0, 0, 1, 1, 2, 1, 0>>
      /\ Owings["plan"] = <<"no", "no", "no", "no", "no", "no", "no">>
  BY DEF Depths, Owings, Name
<1> QED  BY <1>1 DEF PlanSteps, Row

LEMMA InitRows ==
    ASSUME NEW k \in 1..4
    PROVE  Row(InitSteps[k], Depths["tap_init"][k], Depths["tap_init"][k+1],
               Owings["tap_init"][k], Owings["tap_init"][k+1])
<1>1. /\ Depths["tap_init"] = <<0, 0, 0, 0, 0>>
      /\ Owings["tap_init"] = <<"no", "no", "no", "no", "no">>
  BY DEF Depths, Owings, Name
<1> QED  BY <1>1 DEF InitSteps, Row

LEMMA Rows ==
    ASSUME NEW n \in Name, NEW k \in 1..Len(Script[n])
    PROVE  Row(Script[n][k], Depths[n][k], Depths[n][k+1], Owings[n][k], Owings[n][k+1])
<1> USE Scripts, Lengths
<1>1. CASE n = "pass"
  BY <1>1, PassRows
<1>2. CASE n = "fail"
  BY <1>2, FailRows
<1>3. CASE n = "digit"
  BY <1>3, DigitRows
<1>4. CASE n = "skip"
  BY <1>4, SkipRows
<1>5. CASE n = "plan"
  BY <1>5, PlanRows
<1>6. CASE n = "tap_init"
  BY <1>6, InitRows
<1> QED  BY <1>1, <1>2, <1>3, <1>4, <1>5, <1>6 DEF Name

LEMMA Ends ==
    ASSUME NEW n \in Name
    PROVE  /\ Depths[n][1] = 0 /\ Depths[n][Len(Script[n]) + 1] = 0
           /\ Owings[n][1] = "no" /\ Owings[n][Len(Script[n]) + 1] = "no"
<1> USE Scripts, Lengths
<1>1. CASE n = "pass"
  <2>1. /\ Depths[n] = <<0, 1, 1, 1, 0>>
        /\ Owings[n] = <<"no", "no", "good", "no", "no">>
    BY <1>1 DEF Depths, Owings, Name
  <2>2. Len(Script[n]) = 4  BY <1>1
  <2> QED  BY <2>1, <2>2
<1>2. CASE n = "fail"
  <2>1. /\ Depths[n] = <<0, 1, 1, 1, 1, 2, 1, 0>>
        /\ Owings[n] = <<"no", "no", "bad", "no", "no", "no", "no", "no">>
    BY <1>2 DEF Depths, Owings, Name
  <2>2. Len(Script[n]) = 7  BY <1>2
  <2> QED  BY <2>1, <2>2
<1>3. CASE n = "digit"
  <2>1. /\ Depths[n] = <<0, 1, 1, 1, 2, 1, 1, 0>>
        /\ Owings[n] = <<"no", "no", "good", "good", "good", "good", "no", "no">>
    BY <1>3 DEF Depths, Owings, Name
  <2>2. Len(Script[n]) = 7  BY <1>3
  <2> QED  BY <2>1, <2>2
<1>4. CASE n = "skip"
  <2>1. /\ Depths[n] = <<0, 0, 1, 1, 1, 0>>
        /\ Owings[n] = <<"no", "no", "no", "good", "no", "no">>
    BY <1>4 DEF Depths, Owings, Name
  <2>2. Len(Script[n]) = 5  BY <1>4
  <2> QED  BY <2>1, <2>2
<1>5. CASE n = "plan"
  <2>1. /\ Depths[n] = <<0, 0, 1, 1, 2, 1, 0>>
        /\ Owings[n] = <<"no", "no", "no", "no", "no", "no", "no">>
    BY <1>5 DEF Depths, Owings, Name
  <2>2. Len(Script[n]) = 6  BY <1>5
  <2> QED  BY <2>1, <2>2
<1>6. CASE n = "tap_init"
  <2>1. /\ Depths[n] = <<0, 0, 0, 0, 0>>
        /\ Owings[n] = <<"no", "no", "no", "no", "no">>
    BY <1>6 DEF Depths, Owings, Name
  <2>2. Len(Script[n]) = 4  BY <1>6
  <2> QED  BY <2>1, <2>2
<1> QED  BY <1>1, <1>2, <1>3, <1>4, <1>5, <1>6 DEF Name

\* Where the initialisations are.
LEMMA ResultInits ==
    ASSUME NEW n \in {"pass", "fail", "digit"}, NEW k \in 1..Len(Script[n])
    PROVE  /\ Script[n][k] = "INIT" => Since[n] <= k + 1
           /\ Script[n][k] # "INIT" /\ k < Since[n] => k + 1 < Since[n]
           /\ Script[n][k] \notin {"tap_init", "set", "map", "mutex_init"}
<1> USE Scripts, Lengths
<1>1. CASE n = "pass"
  <2>1. Since[n] = 9  BY <1>1 DEF Since, Name
  <2> QED  BY <1>1, <2>1 DEF PassSteps
<1>2. CASE n = "fail"
  <2>1. Since[n] = 5  BY <1>2 DEF Since, Name
  <2> QED  BY <1>2, <2>1 DEF FailSteps
<1>3. CASE n = "digit"
  <2>1. Since[n] = 4  BY <1>3 DEF Since, Name
  <2> QED  BY <1>3, <2>1 DEF DigitSteps
<1> QED  BY <1>1, <1>2, <1>3

LEMMA OtherInits ==
    ASSUME NEW n \in {"skip", "plan"}, NEW k \in 1..Len(Script[n])
    PROVE  /\ Since[n] = 2
           /\ Script[n][1] = "INIT"
           /\ Depths[n][1] = 0 /\ Owings[n][1] = "no"
           /\ Script[n][k] \notin {"tap_init", "set", "map", "mutex_init"}
<1> USE Scripts, Lengths
<1>1. CASE n = "skip"
  <2>1. Since[n] = 2 /\ n \in Name  BY <1>1 DEF Since, Name
  <2>2. Depths[n][1] = 0 /\ Owings[n][1] = "no"  BY <2>1, Ends
  <2> QED  BY <1>1, <2>1, <2>2 DEF SkipSteps
<1>2. CASE n = "plan"
  <2>1. Since[n] = 2 /\ n \in Name  BY <1>2 DEF Since, Name
  <2>2. Depths[n][1] = 0 /\ Owings[n][1] = "no"  BY <2>1, Ends
  <2> QED  BY <1>2, <2>1, <2>2 DEF PlanSteps
<1> QED  BY <1>1, <1>2

LEMMA TapInitInits ==
    ASSUME NEW k \in 1..4
    PROVE  /\ Since["tap_init"] = 9 /\ Script["tap_init"][k] # "INIT"
           /\ Script["tap_init"][k] \in {"tap_init", "set", "map", "mutex_init"}
           /\ (k = 1) <=> Script["tap_init"][k] = "tap_init"
           /\ (k = 2) <=> Script["tap_init"][k] = "set"
           /\ (k = 3) <=> Script["tap_init"][k] = "map"
           /\ (k = 4) <=> Script["tap_init"][k] = "mutex_init"
           /\ Depths["tap_init"][k] = 0 /\ Owings["tap_init"][k] = "no"
<1> USE Scripts, Lengths
<1>1. /\ Depths["tap_init"] = <<0, 0, 0, 0, 0>>
      /\ Owings["tap_init"] = <<"no", "no", "no", "no", "no">>
  BY DEF Depths, Owings, Name
<1>2. Since["tap_init"] = 9  BY DEF Since, Name
<1> QED  BY <1>1, <1>2 DEF InitSteps

LEMMA NotSinceInit ==
    ASSUME NEW n \in Name, NEW k \in 1..Len(Script[n]), Script[n][k] # "INIT"
    PROVE  k + 1 >= Since[n] => k >= Since[n]
<1>0. Len(Script[n]) \in 4..7  BY ScriptType
<1>1. CASE n \in {"pass", "fail", "digit"}
  <2>1. Since[n] \in Nat  BY <1>1 DEF Since, Name
  <2> QED  BY <1>0, <1>1, <2>1, ResultInits
<1>2. CASE n \in {"skip", "plan"}
  <2>1. Since[n] = 2 /\ k # 1  BY <1>2, OtherInits
  <2> QED  BY <1>0, <2>1
<1>3. CASE n = "tap_init"
  <2>1. Since[n] = 9  BY <1>3 DEF Since, Name
  <2> QED  BY <1>0, <1>3, <2>1, Scripts, Lengths
<1> QED  BY <1>1, <1>2, <1>3 DEF Name

-----------------------------------------------------------------------------
(* Sequences *)

LEMMA FromHead ==
    ASSUME NEW S, NEW c \in Seq(S), NEW k \in 1..Len(c)
    PROVE  /\ From(c, k) \in Seq(S) /\ From(c, k) # <<>>
           /\ Head(From(c, k)) = c[k] /\ Tail(From(c, k)) = From(c, k + 1)
<1>1. /\ SubSeq(c, k, Len(c)) \in Seq(S) /\ Len(SubSeq(c, k, Len(c))) # 0
  BY SubSeqProperties
<1>2. /\ Head(SubSeq(c, k, Len(c))) = c[k]
      /\ Tail(SubSeq(c, k, Len(c))) = SubSeq(c, k + 1, Len(c))
  <2>1. Len(c) \in k..Len(c)  OBVIOUS
  <2> QED  BY <2>1, HeadTailOfSubSeq
<1>3. \A d : Len(d) # 0 => d # <<>>  OBVIOUS
<1> QED  BY <1>1, <1>2, <1>3 DEF From

LEMMA FromEnd ==
    ASSUME NEW S, NEW c \in Seq(S)
    PROVE  From(c, Len(c) + 1) = <<>> /\ From(c, 1) = c
  BY DEF From

LEMMA ConsHead ==
    ASSUME NEW S, NEW x \in S, NEW r \in Seq(S)
    PROVE  /\ <<x>> \o r \in Seq(S) /\ <<x>> \o r # <<>>
           /\ Head(<<x>> \o r) = x /\ Tail(<<x>> \o r) = r
  OBVIOUS

LEMMA ImplicitHead ==
    ASSUME NEW x \in Inside, NEW r \in Seq(Steps)
    PROVE  /\ Implicit(x) \o r \in Seq(Steps) /\ Implicit(x) \o r # <<>>
           /\ Head(Implicit(x) \o r) = x
           /\ Tail(Implicit(x) \o r) =
                  IF x = "unguard" THEN r ELSE Implicit(Following(x)) \o r
<1>0. Inside \subseteq Steps  BY DEF Inside, Steps
<1>1. CASE x = "tap_init"
  BY <1>0, <1>1 DEF Implicit, Inside, Following, InitSteps
<1>2. CASE x = "set"
  BY <1>0, <1>2 DEF Implicit, Inside, Following
<1>3. CASE x = "map"
  BY <1>0, <1>3 DEF Implicit, Inside, Following
<1>4. CASE x = "mutex_init"
  BY <1>0, <1>4 DEF Implicit, Inside, Following
<1>5. CASE x = "unguard"
  BY <1>0, <1>5 DEF Implicit, Inside, Following
<1> QED  BY <1>1, <1>2, <1>3, <1>4, <1>5 DEF Inside

-----------------------------------------------------------------------------
(* The places *)

LEMMA PlaceTypes ==
    ASSUME NEW p \in Place
    PROVE  /\ p.name \in Name /\ p.at \in 1..8 /\ p.stage \in Stage
           /\ Script[p.name] \in Seq(Plain) /\ Script[p.name] \in Seq(Steps)
           /\ Len(Script[p.name]) \in 4..7
<1>1. p.name \in Name  BY DEF Place
<1>2. Plain \subseteq Steps  BY DEF Plain
<1>3. Seq(Plain) \subseteq Seq(Steps)  BY <1>2
<1> QED  BY <1>1, <1>3, ScriptType DEF Place

LEMMA BusyPlace ==
    ASSUME NEW p \in Place, Proper(p), Busy(p)
    PROVE  /\ p.at \in 1..Len(Script[p.name])
           /\ Script[p.name][p.at] \in Plain
           /\ p.stage # "run" => Doing(p) = p.stage
           /\ p.stage = "run" => Doing(p) = Script[p.name][p.at]
<1>1. p.at \in 1..Len(Script[p.name])
  BY PlaceTypes DEF Proper, Busy
<1>2. Script[p.name][p.at] \in Plain
  BY <1>1, PlaceTypes
<1> QED  BY <1>1, <1>2, PlaceTypes DEF Doing

LEMMA IdlePlace ==
    ASSUME NEW p \in Place, Proper(p), ~Busy(p)
    PROVE  /\ p.stage = "run" /\ Left(p) = <<>> /\ Doing(p) = "none"
           /\ Held(p) = 0 /\ Owes(p) = "no"
<1>1. p.stage = "run" /\ p.at = Len(Script[p.name]) + 1
  BY PlaceTypes DEF Proper, Busy
<1>2. ~(p.at <= Len(Script[p.name]))  BY <1>1, PlaceTypes
<1> QED  BY <1>1, <1>2, PlaceTypes, FromEnd, Ends DEF Left, Doing, Held, Owes

LEMMA HeldTypes ==
    ASSUME NEW p \in Place, Proper(p)
    PROVE  /\ Held(p) \in 0..2 /\ Owes(p) \in {"no", "good", "bad"}
           /\ Owes(p) # "no" => Held(p) > 0
           /\ Held(p) > 0 => Busy(p)
<1>1. CASE Busy(p)
  <2>1. Row(Script[p.name][p.at], Held(p), Depths[p.name][p.at + 1],
            Owes(p), Owings[p.name][p.at + 1])
    BY <1>1, BusyPlace, PlaceTypes, Rows DEF Held, Owes
  <2> QED  BY <1>1, <2>1 DEF Row
<1>2. CASE ~Busy(p)
  BY <1>2, IdlePlace
<1> QED  BY <1>1, <1>2

\* What is left of a call, and what is left of it after a step.
LEMMA LeftOfCall ==
    ASSUME NEW p \in Place, Proper(p), Busy(p)
    PROVE  /\ Left(p) \in Seq(Steps) /\ Left(p) # <<>> /\ Head(Left(p)) = Doing(p)
           /\ p.stage # "lost" =>
                  Tail(Left(p)) = IF p.stage \in Inside \ {"unguard"}
                                  THEN Implicit(Following(p.stage)) \o From(Script[p.name], p.at + 1)
                                  ELSE From(Script[p.name], p.at + 1)
<1> DEFINE c == Script[p.name]
<1>1. c \in Seq(Steps) /\ p.at \in 1..Len(c) /\ p.stage \in Stage
  BY PlaceTypes, BusyPlace
<1> HIDE DEF c
<1>2. From(c, p.at + 1) \in Seq(Steps)
  <2>1. CASE p.at = Len(c)
    <3>1. From(c, Len(c) + 1) = <<>>  BY <1>1, FromEnd
    <3>2. <<>> \in Seq(Steps)  OBVIOUS
    <3> QED  BY <2>1, <3>1, <3>2
  <2>2. CASE p.at < Len(c)
    <3>1. p.at + 1 \in 1..Len(c)  BY <1>1, <2>2
    <3> QED  BY <1>1, <3>1, FromHead
  <2> QED  BY <1>1, <2>1, <2>2
<1>3. CASE p.stage = "run"
  <2>1. Left(p) = From(c, p.at) /\ Doing(p) = c[p.at] /\ p.stage \notin Inside
    BY <1>1, <1>3, BusyPlace DEF Left, c, Inside
  <2> QED  BY <1>1, <1>3, <2>1, FromHead DEF c
<1>4. CASE p.stage = "lost"
  <2>1. Left(p) = <<"lost">> /\ Doing(p) = "lost"
    BY <1>4, BusyPlace DEF Left
  <2>2. "lost" \in Steps  BY DEF Steps
  <2> QED  BY <1>4, <2>1, <2>2
<1>5. CASE p.stage \in Inside
  <2>1. Left(p) = Implicit(p.stage) \o From(c, p.at + 1) /\ Doing(p) = p.stage
    BY <1>5, BusyPlace DEF Left, c, Inside
  <2>2. PICK r \in Seq(Steps) : r = From(c, p.at + 1)  BY <1>2
  <2>3. /\ Implicit(p.stage) \o r \in Seq(Steps) /\ Implicit(p.stage) \o r # <<>>
        /\ Head(Implicit(p.stage) \o r) = p.stage
        /\ Tail(Implicit(p.stage) \o r) =
               IF p.stage = "unguard" THEN r ELSE Implicit(Following(p.stage)) \o r
    BY <1>5, ImplicitHead
  <2> QED  BY <1>5, <2>1, <2>2, <2>3 DEF c
<1>6. CASE p.stage \in {"guard"} \cup Structure
  <2>1. Left(p) = <<p.stage>> \o From(c, p.at + 1) /\ Doing(p) = p.stage /\ p.stage \notin Inside
    BY <1>6, BusyPlace DEF Left, c, Inside, Structure
  <2>2. p.stage \in Steps  BY <1>6 DEF Steps
  <2> QED  BY <1>2, <2>1, <2>2, ConsHead DEF c
<1> QED  BY <1>1, <1>3, <1>4, <1>5, <1>6 DEF Stage

\* What a step makes of a place.
Change(p, q) ==
    /\ q \in Place /\ Proper(q) /\ q.name = p.name
    /\ Held(q) = IF Doing(p) \in Structure THEN Held(p) + 1
                 ELSE IF Doing(p) = "unlock" THEN Held(p) - 1 ELSE Held(p)
    /\ Doing(p) \in {"unlock", "pass", "fail", "print_good", "print_bad"} => Held(p) > 0
    /\ Doing(p) \in {"pass", "fail"} =>
           Owes(p) = "no" /\ Owes(q) = IF Doing(p) = "pass" THEN "good" ELSE "bad"
    /\ Doing(p) \in {"print_good", "print_bad"} =>
           Owes(q) = "no" /\ Owes(p) = IF Doing(p) = "print_good" THEN "good" ELSE "bad"
    /\ Doing(p) \notin {"pass", "fail", "print_good", "print_bad"} => Owes(q) = Owes(p)
    /\ Seen(q) => Seen(p) \/ Doing(p) \in {"INIT", "guard", "unguard"}

\* A step that is part of an INIT or of a LOCK.
LEMMA Within ==
    ASSUME NEW p \in Place, Proper(p), Busy(p), NEW x \in Stage,
           \/ x \in Inside \cup {"guard"} /\ Script[p.name][p.at] = "INIT"
           \/ x \in Structure /\ Script[p.name][p.at] = "lock",
           Doing(p) \notin {"unlock", "pass", "fail", "print_good", "print_bad"} \cup Structure
    PROVE  /\ Change(p, [p EXCEPT !.stage = x])
           /\ Left([p EXCEPT !.stage = x]) =
                  (IF x \in Inside THEN Implicit(x) ELSE <<x>>) \o From(Script[p.name], p.at + 1)
<1> DEFINE q == [p EXCEPT !.stage = x]
<1>1. q \in Place /\ q.name = p.name /\ q.at = p.at /\ q.stage = x
  BY DEF Place
<1>2. x # "run" /\ x # "lost"
  BY DEF Inside, Structure
<1> HIDE DEF q
<1>3. p.at <= Len(Script[p.name])  BY BusyPlace, PlaceTypes
<1>4. Proper(q)
  BY <1>1, <1>2, <1>3, PlaceTypes DEF Proper, Inside, Structure
<1>5. Held(q) = Held(p) /\ Owes(q) = Owes(p) /\ (Seen(q) <=> Seen(p))
  BY <1>1 DEF Held, Owes, Seen
<1>6. Change(p, q)
  BY <1>1, <1>4, <1>5 DEF Change
<1>7. Left(q) = (IF x \in Inside THEN Implicit(x) ELSE <<x>>) \o From(Script[p.name], p.at + 1)
  BY <1>1, <1>2 DEF Left
<1> QED  BY <1>6, <1>7 DEF q

\* A step that is a step of the call, or the end of an INIT or of a LOCK.
LEMMA Onward ==
    ASSUME NEW p \in Place, Proper(p), Busy(p), p.stage \notin Inside \ {"unguard"},
           p.stage # "lost", Doing(p) # "lock"
    PROVE  Change(p, After(p)) /\ Left(After(p)) = Tail(Left(p))
<1> DEFINE q == After(p)
<1>1. /\ q \in Place /\ q.name = p.name /\ q.at = p.at + 1 /\ q.stage = "run"
  <2>1. q = [p EXCEPT !.stage = "run", !.at = @ + 1]
    BY DEF After
  <2>2. p.at + 1 \in 1..8 /\ "run" \in Stage
    BY BusyPlace, PlaceTypes DEF Stage
  <2> QED  BY <2>1, <2>2 DEF Place
<1> HIDE DEF q
<1>2. Proper(q)
  BY <1>1, BusyPlace, PlaceTypes DEF Proper, Inside, Structure
<1>3. Row(Script[p.name][p.at], Held(p), Held(q), Owes(p), Owes(q))
  BY <1>1, BusyPlace, PlaceTypes, Rows DEF Held, Owes
<1>4. p.stage # "run" =>
          \/ Doing(p) \in {"guard", "unguard"} /\ Script[p.name][p.at] = "INIT"
          \/ Doing(p) \in Structure /\ Script[p.name][p.at] = "lock"
  BY BusyPlace, PlaceTypes DEF Proper, Stage, Inside
<1>5. p.stage = "run" => Doing(p) = Script[p.name][p.at] /\ Doing(p) \notin Structure
  BY BusyPlace DEF Plain
<1>6. Seen(q) => Seen(p) \/ Doing(p) \in {"INIT", "guard", "unguard"}
  <2>1. Script[p.name][p.at] = "INIT" => Doing(p) \in {"INIT", "guard", "unguard"}
    BY <1>4, <1>5
  <2>2. Script[p.name][p.at] # "INIT" => (Seen(q) => Seen(p))
    BY <1>1, BusyPlace, PlaceTypes, NotSinceInit DEF Seen
  <2> QED  BY <2>1, <2>2
<1>7. Change(p, q)
  BY <1>1, <1>2, <1>3, <1>4, <1>5, <1>6 DEF Change, Row, Structure
<1>8. Left(q) = From(Script[p.name], p.at + 1)
  BY <1>1 DEF Left
<1> QED  BY <1>7, <1>8, LeftOfCall DEF q

\* A step of an implicit initialisation that is not its last.
LEMMA Inward ==
    ASSUME NEW p \in Place, Proper(p), p.stage \in Inside \ {"unguard"}
    PROVE  /\ Change(p, After(p)) /\ Left(After(p)) = Tail(Left(p))
           /\ After(p).stage = Following(p.stage) /\ After(p).at = p.at
<1>1. PICK x \in Inside : x = Following(p.stage)  BY DEF Inside, Following
<1>2. After(p) = [p EXCEPT !.stage = x]  BY <1>1 DEF After
<1>3. Busy(p) /\ Script[p.name][p.at] = "INIT"  BY DEF Busy, Proper, Inside
<1>4. Doing(p) = p.stage  BY <1>3, BusyPlace DEF Inside
<1>5. x \in Stage  BY DEF Stage
<1>6. /\ Change(p, [p EXCEPT !.stage = x])
      /\ Left([p EXCEPT !.stage = x]) = Implicit(x) \o From(Script[p.name], p.at + 1)
  <2>1. Doing(p) \notin {"unlock", "pass", "fail", "print_good", "print_bad"} \cup Structure
    BY <1>4 DEF Inside, Structure
  <2> QED  BY <1>3, <1>5, <2>1, Within
<1>7. After(p).stage = x /\ After(p).at = p.at  BY <1>2 DEF Place
<1> QED  BY <1>1, <1>2, <1>3, <1>6, <1>7, LeftOfCall DEF Inside

\* The steps that initialise.
LEMMA InitDoings ==
    ASSUME NEW p \in Place, Proper(p), Doing(p) \in {"tap_init", "set", "map", "mutex_init"}
    PROVE  /\ Busy(p) /\ p.stage # "lost" /\ Doing(p) # "lock"
           /\ \/ p.stage = Doing(p) /\ p.stage \in Inside \ {"unguard"} /\ p.name # "tap_init"
              \/ /\ p.stage = "run" /\ p.name = "tap_init" /\ Held(p) = 0 /\ Owes(p) = "no"
                 /\ Script[p.name][p.at] = Doing(p)
<1>1. Busy(p)  BY IdlePlace
<1>2. CASE p.stage = "run"
  <2>1. Script[p.name][p.at] = Doing(p)  BY <1>1, <1>2, BusyPlace
  <2>2. p.name \notin {"pass", "fail", "digit"}  BY <1>1, <2>1, BusyPlace, ResultInits
  <2>3. p.name \notin {"skip", "plan"}  BY <1>1, <2>1, BusyPlace, OtherInits
  <2>4. p.name = "tap_init"  BY <2>2, <2>3, PlaceTypes DEF Name
  <2>5. p.at \in 1..4  BY <1>1, <2>4, BusyPlace, Scripts, Lengths
  <2>6. Held(p) = 0 /\ Owes(p) = "no"  BY <2>4, <2>5, TapInitInits DEF Held, Owes
  <2> QED  BY <1>1, <1>2, <2>1, <2>4, <2>6
<1>3. CASE p.stage # "run"
  <2>1. Doing(p) = p.stage  BY <1>1, <1>3, BusyPlace
  <2>2. p.stage \in Inside \ {"unguard"}  BY <2>1 DEF Inside
  <2>3. p.at \in 1..Len(Script[p.name]) /\ Script[p.name][p.at] = "INIT"
    BY <1>1, <2>2, BusyPlace DEF Proper
  <2>4. p.name # "tap_init"
    BY <2>3, TapInitInits, Scripts, Lengths
  <2> QED  BY <1>1, <1>3, <2>1, <2>2, <2>4 DEF Inside
<1> QED  BY <1>2, <1>3

\* Each of them comes after the one before, and holds a lock at most.
LEMMA InitChanges ==
    ASSUME NEW p \in Place, Proper(p), Doing(p) \in {"tap_init", "set", "map", "mutex_init"}
    PROVE  /\ Change(p, After(p)) /\ Left(After(p)) = Tail(Left(p))
           /\ Doing(p) # "mutex_init" => Doing(After(p)) = Following(Doing(p))
           /\ Doing(p) = "mutex_init" => Doing(After(p)) \in {"unguard", "none"}
           /\ Held(p) <= 1
<1>1. CASE p.stage = Doing(p) /\ p.stage \in Inside \ {"unguard"}
  <2>1. /\ Change(p, After(p)) /\ Left(After(p)) = Tail(Left(p))
        /\ After(p).stage = Following(p.stage)
    BY <1>1, Inward
  <2>2. Doing(After(p)) = After(p).stage
    BY <1>1, <2>1 DEF Following, Doing, Inside
  <2>3. Held(p) <= 1
    <3>1. Script[p.name][p.at] = "INIT" /\ p.at \in 1..Len(Script[p.name])
      BY <1>1, InitDoings, BusyPlace DEF Proper
    <3>2. Row("INIT", Held(p), Depths[p.name][p.at + 1], Owes(p), Owings[p.name][p.at + 1])
      BY <3>1, PlaceTypes, Rows DEF Held, Owes
    <3> QED  BY <3>2 DEF Row
  <2> QED  BY <1>1, <2>1, <2>2, <2>3 DEF Following
<1>2. CASE p.stage = "run" /\ p.name = "tap_init" /\ Held(p) = 0
           /\ Script[p.name][p.at] = Doing(p)
  <2>1. Change(p, After(p)) /\ Left(After(p)) = Tail(Left(p))
    BY <1>2, InitDoings, Onward DEF Inside
  <2>2. /\ After(p).stage = "run" /\ After(p).at = p.at + 1 /\ After(p).name = "tap_init"
    <3>1. After(p) = [p EXCEPT !.stage = "run", !.at = @ + 1]
      BY <1>2 DEF After, Inside
    <3> QED  BY <1>2, <3>1 DEF Place
  <2>3. p.at \in 1..4  BY <1>2, InitDoings, BusyPlace, Scripts, Lengths
  <2>4. Len(Script["tap_init"]) = 4  BY Scripts, Lengths
  <2>5. Doing(After(p)) = IF p.at < 4 THEN Script["tap_init"][p.at + 1] ELSE "none"
    BY <2>2, <2>3, <2>4 DEF Doing
  <2>6. p.at < 4 => p.at + 1 \in 1..4  BY <2>3
  <2> QED  BY <1>2, <2>1, <2>3, <2>5, <2>6, TapInitInits DEF Following
<1> QED  BY <1>1, <1>2, InitDoings

\* Other steps do not lead into an initialisation.
LEMMA OtherDoings ==
    ASSUME NEW p \in Place, Proper(p), Busy(p), p.stage # "lost", Doing(p) \notin Initialising,
           NEW q \in Place, Proper(q), q.name = p.name, q.stage \notin Inside
    PROVE  Doing(q) \notin Initialising
<1>1. p.name # "tap_init"
  <2> SUFFICES ASSUME p.name = "tap_init"  PROVE FALSE
    OBVIOUS
  <2>1. p.at \in 1..4  BY BusyPlace, Scripts, Lengths
  <2>2. Script[p.name][p.at] \in Initialising  BY <2>1, TapInitInits DEF Initialising
  <2>3. p.stage # "run"  BY <2>2, BusyPlace
  <2> QED  BY <2>2, <2>3, PlaceTypes DEF Proper, Stage, Initialising
<1>2. Doing(q) \in Initialising => q.name = "tap_init"
  BY InitDoings DEF Initialising
<1> QED  BY <1>1, <1>2

-----------------------------------------------------------------------------
(* The threads and their places *)

LEMMA InCalls ==
    ASSUME NEW pc \in [Thread -> Place], At(pc), NEW t \in Thread
    PROVE  /\ Proper(pc[t]) /\ pc[t] \in Place
           /\ InCall(t) <=> Busy(pc[t])
           /\ \A step : Does(t, step) => Busy(pc[t]) /\ Doing(pc[t]) = step /\ ~bailed
           /\ \A step : ~bailed /\ Busy(pc[t]) /\ Doing(pc[t]) = step => Does(t, step)
<1>1. pc[t] \in Place /\ Proper(pc[t]) /\ todo[t] = Left(pc[t])
  BY DEF At, Placed
<1>2. CASE Busy(pc[t])
  BY <1>1, <1>2, LeftOfCall DEF InCall, Does
<1>3. CASE ~Busy(pc[t])
  BY <1>1, <1>3, IdlePlace DEF InCall, Does
<1> QED  BY <1>1, <1>2, <1>3

Moved(pc, r, t) ==
    /\ Change(pc[t], r[t]) /\ Busy(pc[t]) /\ ~bailed
    /\ \A u \in Thread \ {t} : r[u] = pc[u]

LEMMA LeftTypes ==
    ASSUME NEW q \in Place, Proper(q)
    PROVE  Left(q) \in Seq(Steps)
<1>1. CASE Busy(q)
  BY <1>1, LeftOfCall
<1>2. CASE ~Busy(q)
  <2>1. <<>> \in Seq(Steps)  OBVIOUS
  <2> QED  BY <1>2, <2>1, IdlePlace
<1> QED  BY <1>1, <1>2

\* The thread does the next step and has done it.
LEMMA Continues ==
    ASSUME NEW pc \in [Thread -> Place], At(pc), NEW t \in Thread,
           todo \in [Thread -> Seq(Steps)], ~bailed,
           Continue(t), Busy(pc[t]), pc[t].stage # "lost", Doing(pc[t]) # "lock"
    PROVE  /\ todo' \in [Thread -> Seq(Steps)]
           /\ \E r \in [Thread -> Place] : Placed(todo', r) /\ Moved(pc, r, t) /\ r[t] = After(pc[t])
<1>1. pc[t] \in Place /\ Proper(pc[t]) /\ todo[t] = Left(pc[t])
  BY DEF At, Placed
<1>2. Change(pc[t], After(pc[t])) /\ Left(After(pc[t])) = Tail(Left(pc[t]))
  BY <1>1, Inward, Onward
<1>3. PICK q \in Place : q = After(pc[t]) /\ Proper(q)
  BY <1>2 DEF Change
<1>4. todo' = [todo EXCEPT ![t] = Left(q)]
  BY <1>1, <1>2, <1>3 DEF Continue
<1>5. todo' \in [Thread -> Seq(Steps)]
  BY <1>3, <1>4, LeftTypes
<1>6. PICK r \in [Thread -> Place] : r = [pc EXCEPT ![t] = q]
  OBVIOUS
<1>7. r[t] = q /\ \A u \in Thread \ {t} : r[u] = pc[u]
  BY <1>6
<1>8. Placed(todo', r)
  BY <1>3, <1>4, <1>7 DEF At, Placed
<1>9. Moved(pc, r, t)
  BY <1>2, <1>3, <1>7 DEF Moved
<1> QED  BY <1>3, <1>5, <1>7, <1>8, <1>9

\* The first part of an INIT or of a LOCK.
LEMMA Entering ==
    ASSUME NEW p \in Place, Proper(p), Busy(p), NEW x \in Stage,
           \/ x \in Inside \cup {"guard"} /\ Doing(p) \in {"INIT", "guard"}
           \/ x \in Structure /\ Doing(p) = "lock"
    PROVE  \E q \in Place :
               /\ Change(p, q) /\ q.stage = x /\ q.name = p.name /\ q.at = p.at
               /\ Left(q) = (IF x \in Inside THEN Implicit(x) ELSE <<x>>) \o Tail(Left(p))
<1>1. \/ x \in Inside \cup {"guard"} /\ Script[p.name][p.at] = "INIT"
      \/ x \in Structure /\ Script[p.name][p.at] = "lock"
  <2>1. CASE p.stage = "run"
    <3>1. Doing(p) = Script[p.name][p.at] /\ Doing(p) # "guard"
      BY <2>1, BusyPlace DEF Plain
    <3> QED  BY <3>1
  <2>2. CASE p.stage # "run"
    <3>1. Doing(p) = p.stage  BY <2>2, BusyPlace
    <3>2. p.stage \notin {"INIT", "lock"}
      BY PlaceTypes DEF Stage, Structure, Inside
    <3>3. p.stage = "guard" => Script[p.name][p.at] = "INIT"
      BY DEF Proper
    <3> QED  BY <3>1, <3>2, <3>3
  <2> QED  BY <2>1, <2>2
<1>2. Doing(p) \notin {"unlock", "pass", "fail", "print_good", "print_bad"} \cup Structure
  BY DEF Structure
<1>3. p.stage \notin Inside /\ p.stage # "lost"
  BY BusyPlace DEF Inside
<1> DEFINE q == [p EXCEPT !.stage = x]
<1>4. Change(p, q) /\ Left(q) = (IF x \in Inside THEN Implicit(x) ELSE <<x>>)
                                \o From(Script[p.name], p.at + 1)
  BY <1>1, <1>2, Within
<1>5. q.stage = x /\ q.name = p.name /\ q.at = p.at /\ q \in Place
  BY <1>4 DEF Place
<1> HIDE DEF q
<1>6. Tail(Left(p)) = From(Script[p.name], p.at + 1)
  BY <1>3, LeftOfCall
<1> QED  BY <1>4, <1>5, <1>6

LEMMA EntersGuard ==
    ASSUME NEW pc \in [Thread -> Place], At(pc), NEW t \in Thread,
           todo \in [Thread -> Seq(Steps)], ~bailed,
           Busy(pc[t]), Doing(pc[t]) = "INIT", First(t, <<"guard">>)
    PROVE  /\ todo' \in [Thread -> Seq(Steps)]
           /\ \E r \in [Thread -> Place] :
                  /\ Placed(todo', r) /\ Moved(pc, r, t)
                  /\ r[t].stage = "guard" /\ r[t].name = pc[t].name /\ r[t].at = pc[t].at
<1>1. pc[t] \in Place /\ Proper(pc[t]) /\ todo[t] = Left(pc[t])
  BY DEF At, Placed
<1>2. "guard" \in Stage /\ "guard" \notin Inside
  BY DEF Stage, Inside
<1>3. PICK q \in Place :
          /\ Change(pc[t], q) /\ q.stage = "guard" /\ q.name = pc[t].name /\ q.at = pc[t].at
          /\ Left(q) = <<"guard">> \o Tail(Left(pc[t]))
  BY <1>1, <1>2, Entering
<1>4. todo' = [todo EXCEPT ![t] = Left(q)]
  BY <1>1, <1>3 DEF First
<1>5. todo' \in [Thread -> Seq(Steps)]
  BY <1>3, <1>4, LeftTypes DEF Change
<1>6. PICK r \in [Thread -> Place] : r = [pc EXCEPT ![t] = q]
  OBVIOUS
<1>7. r[t] = q /\ \A u \in Thread \ {t} : r[u] = pc[u]
  BY <1>6
<1>8. Placed(todo', r)
  BY <1>3, <1>4, <1>7 DEF At, Placed, Change
<1>9. Moved(pc, r, t)
  BY <1>3, <1>7 DEF Moved
<1> QED  BY <1>3, <1>5, <1>7, <1>8, <1>9

LEMMA EntersInit ==
    ASSUME NEW pc \in [Thread -> Place], At(pc), NEW t \in Thread,
           todo \in [Thread -> Seq(Steps)], ~bailed,
           Busy(pc[t]), Doing(pc[t]) = "guard", First(t, InitSteps \o <<"unguard">>)
    PROVE  /\ todo' \in [Thread -> Seq(Steps)]
           /\ \E r \in [Thread -> Place] :
                  /\ Placed(todo', r) /\ Moved(pc, r, t)
                  /\ r[t].stage = "tap_init" /\ r[t].name = pc[t].name /\ r[t].at = pc[t].at
<1>1. pc[t] \in Place /\ Proper(pc[t]) /\ todo[t] = Left(pc[t])
  BY DEF At, Placed
<1>2. "tap_init" \in Stage /\ "tap_init" \in Inside /\ Implicit("tap_init") = InitSteps \o <<"unguard">>
  BY DEF Stage, Inside, Implicit
<1>3. PICK q \in Place :
          /\ Change(pc[t], q) /\ q.stage = "tap_init" /\ q.name = pc[t].name /\ q.at = pc[t].at
          /\ Left(q) = Implicit("tap_init") \o Tail(Left(pc[t]))
  BY <1>1, <1>2, Entering
<1>4. todo' = [todo EXCEPT ![t] = Left(q)]
  BY <1>1, <1>2, <1>3 DEF First
<1>5. todo' \in [Thread -> Seq(Steps)]
  BY <1>3, <1>4, LeftTypes DEF Change
<1>6. PICK r \in [Thread -> Place] : r = [pc EXCEPT ![t] = q]
  OBVIOUS
<1>7. r[t] = q /\ \A u \in Thread \ {t} : r[u] = pc[u]
  BY <1>6
<1>8. Placed(todo', r)
  BY <1>3, <1>4, <1>7 DEF At, Placed, Change
<1>9. Moved(pc, r, t)
  BY <1>3, <1>7 DEF Moved
<1> QED  BY <1>3, <1>5, <1>7, <1>8, <1>9

LEMMA EntersLock ==
    ASSUME NEW pc \in [Thread -> Place], At(pc), NEW t \in Thread,
           todo \in [Thread -> Seq(Steps)], ~bailed, ptr \in Structure,
           Busy(pc[t]), Doing(pc[t]) = "lock", First(t, <<ptr>>)
    PROVE  /\ todo' \in [Thread -> Seq(Steps)]
           /\ \E r \in [Thread -> Place] :
                  /\ Placed(todo', r) /\ Moved(pc, r, t)
                  /\ r[t].stage = ptr /\ r[t].name = pc[t].name /\ r[t].at = pc[t].at
<1>1. pc[t] \in Place /\ Proper(pc[t]) /\ todo[t] = Left(pc[t])
  BY DEF At, Placed
<1>2. ptr \in Stage /\ ptr \notin Inside
  BY DEF Stage, Inside, Structure
<1>3. PICK q \in Place :
          /\ Change(pc[t], q) /\ q.stage = ptr /\ q.name = pc[t].name /\ q.at = pc[t].at
          /\ Left(q) = <<ptr>> \o Tail(Left(pc[t]))
  BY <1>1, <1>2, Entering
<1>4. todo' = [todo EXCEPT ![t] = Left(q)]
  BY <1>1, <1>3 DEF First
<1>5. todo' \in [Thread -> Seq(Steps)]
  BY <1>3, <1>4, LeftTypes DEF Change
<1>6. PICK r \in [Thread -> Place] : r = [pc EXCEPT ![t] = q]
  OBVIOUS
<1>7. r[t] = q /\ \A u \in Thread \ {t} : r[u] = pc[u]
  BY <1>6
<1>8. Placed(todo', r)
  BY <1>3, <1>4, <1>7 DEF At, Placed, Change
<1>9. Moved(pc, r, t)
  BY <1>3, <1>7 DEF Moved
<1> QED  BY <1>3, <1>5, <1>7, <1>8, <1>9

-----------------------------------------------------------------------------
(* What a step leaves alone *)

LEMMA AloneStays ==
    ASSUME NEW pc \in [Thread -> Place], NEW r \in [Thread -> Place], NEW t \in Thread,
           Alone(pc), Moved(pc, r, t), Ready => Ready', UNCHANGED <<first, overlap>>,
           ~overlap => \A u \in Thread : guard' = u => guard = u \/ u \in first
    PROVE  Alone(r)'
<1>1. \A u \in Thread : Busy(r[u]) => Busy(pc[u])
  BY DEF Moved
<1> QED  BY <1>1 DEF Alone

LEMMA GuardedStays ==
    ASSUME NEW pc \in [Thread -> Place], NEW r \in [Thread -> Place], NEW t \in Thread,
           Guarded(pc), Moved(pc, r, t), initialized => initialized', explicit => explicit',
           \A u \in Thread \ {t} : pc[u].stage \in Inside => guard' = guard,
           \A u \in Thread \ {t} : guard' = u => guard = u,
           r[t].stage \in Inside <=> guard' = t,
           r[t].stage \in Inside \ {"unguard"} => ~Seen(r[t]),
           r[t].stage \in {"map", "mutex_init", "unguard"} => initialized',
           Seen(r[t]) => initialized'
    PROVE  Guarded(r)'
<1>1. r[t].name = pc[t].name /\ Busy(pc[t])
  BY DEF Moved, Change
<1> QED  BY <1>1 DEF Guarded, Moved

LEMMA OnceStays ==
    ASSUME NEW pc \in [Thread -> Place], NEW r \in [Thread -> Place], NEW t \in Thread,
           Once(pc), Moved(pc, r, t), Doing(r[t]) \notin Initialising,
           \A u \in Thread : guard' = u => guard = u,
           UNCHANGED <<initialized, inits, bailed, overlap, explicit>>
    PROVE  Once(r)'
  BY DEF Once, Moved, Initialising

LEMMA MappedStays ==
    ASSUME NEW pc \in [Thread -> Place], NEW r \in [Thread -> Place], NEW t \in Thread,
           Mapped(pc), Moved(pc, r, t), Doing(pc[t]) \notin {"map", "mutex_init"},
           UNCHANGED <<fork, initialized, inits, overlap, early, lines>>
    PROVE  Mapped(r)'
<1>1. \A u \in Thread : r[u].name = pc[u].name /\ (Busy(r[u]) => Busy(pc[u]))
  BY DEF Moved, Change
<1>2. \A u \in Thread : Doing(pc[u]) \in {"map", "mutex_init"} => r[u] = pc[u]
  BY DEF Moved
<1>3. ~bailed
  BY DEF Moved
<1> QED  BY <1>1, <1>2, <1>3 DEF Mapped, Good, Ready

LEMMA LockedStays ==
    ASSUME NEW pc \in [Thread -> Place], NEW r \in [Thread -> Place], NEW t \in Thread,
           \A u \in Thread : Proper(r[u]),
           Locked(pc), Moved(pc, r, t), TypeOK,
           Held(r[t]) = Held(pc[t]), r[t].stage \in Structure => r[t].stage = ptr,
           Doing(pc[t]) # "mutex_init",
           UNCHANGED <<fork, inits, first, overlap, early, ptr, mutex>>
    PROVE  Locked(r)'
<1>1. Mine(t) \in Nat /\ Mine(t)' = Mine(t)
  BY DEF Mine, TypeOK
<1>2. Mine(t) + 1 = Held(r[t]) => Busy(r[t])
  BY <1>1, HeldTypes
<1>3. \A u \in Thread : Doing(pc[u]) = "mutex_init" => r[u] = pc[u]
  BY DEF Moved
<1>4. ASSUME Good, NEW u \in Thread
      PROVE  /\ r[u].stage \in Structure => r[u].stage = ptr
             /\ \/ Mine(u) = Held(r[u])
                \/ Ready /\ u \in first /\ Busy(r[u]) /\ Mine(u) + 1 = Held(r[u])
  <2>1. CASE u = t
    BY <1>2, <1>4, <2>1 DEF Locked
  <2>2. CASE u # t
    BY <1>4, <2>2 DEF Locked, Moved
  <2> QED  BY <2>1, <2>2
<1> QED  BY <1>3, <1>4 DEF Locked, Good, Mine, Ready

LEMMA CountedStays ==
    ASSUME NEW pc \in [Thread -> Place], NEW r \in [Thread -> Place], NEW t \in Thread,
           Counted(pc), Moved(pc, r, t), Owes(r[t]) = Owes(pc[t]),
           UNCHANGED <<fork, overlap, early, ptr, count, lines>>
    PROVE  Counted(r)'
<1>1. \A u \in Thread : Owes(r[u]) = Owes(pc[u])
  BY DEF Moved
<1> QED  BY <1>1 DEF Counted, Good, Bad

-----------------------------------------------------------------------------
(* Who initialises *)

LEMMA Lonely ==
    ASSUME NEW pc \in [Thread -> Place], Alone(pc), ~overlap, ~Ready,
           NEW t \in Thread, Busy(pc[t]), NEW u \in Thread \ {t}
    PROVE  ~Busy(pc[u])
  BY DEF Alone

LEMMA Unready ==
    ASSUME NEW pc \in [Thread -> Place], Once(pc), ~overlap \/ ~explicit, ~bailed,
           NEW t \in Thread, Doing(pc[t]) \in {"set", "map", "mutex_init"}
    PROVE  inits = 0 /\ ~Ready
  BY DEF Once, Ready

LEMMA Solo ==
    ASSUME NEW pc \in [Thread -> Place], At(pc), Guarded(pc), Alone(pc), Once(pc),
           ~overlap \/ ~explicit, ~bailed,
           NEW t \in Thread, Doing(pc[t]) \in {"set", "map", "mutex_init"},
           NEW u \in Thread, Doing(pc[u]) \in Initialising
    PROVE  t = u
<1>1. \A v \in {t, u} : Proper(pc[v]) /\ pc[v] \in Place
  BY DEF At, Placed
<1>2. \A v \in {t, u} : Busy(pc[v]) /\ (pc[v].stage \in Inside \/ pc[v].name = "tap_init")
  BY <1>1, InitDoings DEF Initialising
<1>3. CASE explicit
  BY <1>2, <1>3, Unready DEF Alone
<1>4. CASE ~explicit
  BY <1>2, <1>4 DEF Guarded
<1> QED  BY <1>3, <1>4

LEMMA OnceTapInitCheck ==
    ASSUME NEW pc \in [Thread -> Place], NEW r \in [Thread -> Place], NEW t \in Thread,
           At(pc), Guarded(pc), Alone(pc), Once(pc), Moved(pc, r, t),
           Doing(pc[t]) = "tap_init", Doing(r[t]) = "set", bailed' = initialized, TypeOK,
           UNCHANGED <<initialized, guard, inits, overlap, explicit>>
    PROVE  Once(r)'
<1>1. ~bailed /\ Busy(pc[t]) /\ \A u \in Thread \ {t} : r[u] = pc[u]
  BY DEF Moved
<1>2. bailed' => explicit
  BY <1>1 DEF Once
<1>3. ASSUME bailed', guard # NoThread, ~overlap  PROVE FALSE
  <2>1. PICK v \in Thread : v = guard
    BY <1>3 DEF TypeOK
  <2>2. v \in first /\ pc[v].stage \in Inside
    BY <1>3, <2>1 DEF Alone, Guarded
  <2>3. Busy(pc[v])
    BY <2>2 DEF Busy, Inside
  <2>4. v = t
    BY <1>1, <1>3, <2>2, <2>3 DEF Alone
  <2> QED  BY <1>1, <1>3, <2>1, <2>4 DEF Once
<1>4. ASSUME ~overlap \/ ~explicit, ~bailed', NEW u \in Thread
      PROVE  /\ Doing(r[u]) = "set" => ~initialized /\ inits = 0
             /\ Doing(r[u]) \in {"map", "mutex_init"} => initialized /\ inits = 0
             /\ Doing(r[u]) = "tap_init" /\ (~explicit \/ guard = u) => ~initialized
  <2>1. CASE u = t
    BY <1>4, <2>1 DEF Once
  <2>2. CASE u # t
    BY <1>1, <1>4, <2>2 DEF Once
  <2> QED  BY <2>1, <2>2
<1> QED  BY <1>1, <1>2, <1>3, <1>4 DEF Once

LEMMA OnceGuard ==
    ASSUME NEW pc \in [Thread -> Place], NEW r \in [Thread -> Place], NEW t \in Thread,
           Once(pc), Moved(pc, r, t), Doing(r[t]) = "tap_init", ~initialized,
           UNCHANGED <<initialized, inits, bailed, overlap, explicit>>
    PROVE  Once(r)'
  BY DEF Once, Moved

LEMMA OnceSet ==
    ASSUME NEW pc \in [Thread -> Place], NEW r \in [Thread -> Place], NEW t \in Thread,
           At(pc), Guarded(pc), Alone(pc), Once(pc), Moved(pc, r, t),
           Doing(pc[t]) = "set", Doing(r[t]) = "map", initialized',
           UNCHANGED <<guard, inits, bailed, overlap, explicit>>
    PROVE  Once(r)'
<1>1. ~bailed /\ \A u \in Thread \ {t} : r[u] = pc[u]
  BY DEF Moved
<1>2. ASSUME ~overlap \/ ~explicit, NEW u \in Thread
      PROVE  /\ Doing(r[u]) # "set"
             /\ Doing(r[u]) \in {"map", "mutex_init"} => inits = 0
             /\ Doing(r[u]) # "tap_init"
  <2>1. CASE u = t
    BY <1>1, <1>2, <2>1, Unready
  <2>2. CASE u # t
    BY <1>1, <1>2, <2>2, Solo DEF Initialising
  <2> QED  BY <2>1, <2>2
<1> QED  BY <1>1, <1>2 DEF Once

LEMMA OnceMap ==
    ASSUME NEW pc \in [Thread -> Place], NEW r \in [Thread -> Place], NEW t \in Thread,
           Once(pc), Moved(pc, r, t), Doing(pc[t]) = "map", Doing(r[t]) = "mutex_init",
           UNCHANGED <<initialized, guard, inits, bailed, overlap, explicit>>
    PROVE  Once(r)'
  BY DEF Once, Moved

LEMMA OnceMutexInit ==
    ASSUME NEW pc \in [Thread -> Place], NEW r \in [Thread -> Place], NEW t \in Thread,
           At(pc), Guarded(pc), Alone(pc), Once(pc), ~bailed,
           Doing(pc[t]) = "mutex_init", Doing(r[t]) \in {"unguard", "none"},
           \A u \in Thread \ {t} : r[u] = pc[u] \/ Doing(r[u]) = "lost",
           inits' = inits + 1, UNCHANGED <<initialized, guard, bailed, overlap, explicit>>
    PROVE  Once(r)'
<1>1. ASSUME ~overlap \/ ~explicit, NEW u \in Thread
      PROVE  /\ Doing(r[u]) \notin {"set", "map", "mutex_init"}
             /\ Doing(r[u]) # "tap_init"
  <2>1. CASE u = t
    BY <2>1
  <2>2. CASE u # t
    BY <1>1, <2>2, Solo DEF Initialising
  <2> QED  BY <2>1, <2>2
<1> QED  BY <1>1 DEF Once

-----------------------------------------------------------------------------
(* The first call in fork mode *)

LEMMA MappedSet ==
    ASSUME NEW pc \in [Thread -> Place], NEW r \in [Thread -> Place], NEW t \in Thread,
           Mapped(pc), Moved(pc, r, t), Doing(r[t]) \in {"map", "mutex_init"},
           UNCHANGED <<fork, inits, overlap, early, lines>>
    PROVE  Mapped(r)'
<1>1. \A u \in Thread : r[u].name = pc[u].name /\ (Busy(r[u]) => Busy(pc[u]))
  BY DEF Moved, Change
<1> QED  BY <1>1 DEF Mapped, Good, Ready

\* A result is only printed when somebody has initialised.
LEMMA MappedPrint ==
    ASSUME NEW pc \in [Thread -> Place], NEW r \in [Thread -> Place], NEW t \in Thread,
           At(pc), Guarded(pc), Alone(pc), Mapped(pc), Moved(pc, r, t),
           Doing(pc[t]) \in {"print_good", "print_bad"},
           UNCHANGED <<fork, initialized, inits, overlap, early>>
    PROVE  Mapped(r)'
<1>1. \A u \in Thread : r[u].name = pc[u].name /\ (Busy(r[u]) => Busy(pc[u]))
  BY DEF Moved, Change
<1>2. \A u \in Thread : Doing(pc[u]) \in {"map", "mutex_init"} => r[u] = pc[u]
  BY DEF Moved
<1>3. ~bailed /\ Busy(pc[t])
  BY DEF Moved
<1>4. ASSUME Good, fork, ~Ready  PROVE FALSE
  <2>1. pc[t] \in Place /\ Proper(pc[t])  BY DEF At, Placed
  <2>2. pc[t].stage = "run" /\ Script[pc[t].name][pc[t].at] = Doing(pc[t])
        /\ pc[t].at \in 1..Len(Script[pc[t].name])
    <3>1. pc[t].stage \notin {"print_good", "print_bad"}
      BY <2>1, PlaceTypes DEF Stage, Structure, Inside
    <3> QED  BY <1>3, <2>1, <3>1, BusyPlace
  <2>3. pc[t].name \in {"skip", "plan", "tap_init"}
    BY <1>3, <1>4, <2>1, PlaceTypes DEF Mapped, Good, Name
  <2>4. pc[t].name # "tap_init"
    BY <2>2, TapInitInits, Scripts, Lengths
  <2>5. Since[pc[t].name] = 2 /\ Script[pc[t].name][1] = "INIT"
    BY <2>2, <2>3, <2>4, OtherInits
  <2>6. Seen(pc[t])
    BY <2>1, <2>2, <2>5, PlaceTypes DEF Seen
  <2>7. initialized
    BY <2>6 DEF Guarded
  <2>8. PICK u \in Thread : Doing(pc[u]) \in {"map", "mutex_init"}
    BY <1>3, <1>4, <2>7 DEF Mapped
  <2>9. Busy(pc[u])
    BY <2>8, IdlePlace DEF At, Placed
  <2>10. u # t
    BY <2>8
  <2> QED  BY <1>3, <1>4, <2>9, <2>10, Lonely DEF Good
<1> QED  BY <1>1, <1>2, <1>3, <1>4 DEF Mapped, Good, Ready

\* The structure is replaced when nothing is locked or counted.
LEMMA MapFirst ==
    ASSUME NEW pc \in [Thread -> Place], NEW t \in Thread,
           At(pc), Guarded(pc), Alone(pc), Once(pc), Mapped(pc), Good, fork, ~bailed,
           Doing(pc[t]) = "map"
    PROVE  /\ \A u \in Thread : Held(pc[u]) = 0 /\ Owes(pc[u]) = "no"
           /\ \A u \in Thread \ {t} : pc[u].stage = "run"
           /\ lines = <<>>
<1>1. ~Ready /\ ~overlap /\ ~early
  BY Unready DEF Good
<1>2. \A u \in Thread : pc[u] \in Place /\ Proper(pc[u])
  BY DEF At, Placed
<1>3. Busy(pc[t])
  BY <1>2, InitDoings
<1>4. \A u \in Thread \ {t} : ~Busy(pc[u])
  BY <1>1, <1>3, Lonely
<1>5. Held(pc[t]) = 0 /\ Owes(pc[t]) = "no"
  <2>1. CASE pc[t].stage \in Inside \ {"unguard"} /\ pc[t].name # "tap_init"
    <3>1. pc[t].name \in {"skip", "plan"}
      BY <1>1, <1>2, <1>3, <2>1, PlaceTypes DEF Mapped, Name
    <3>2. Since[pc[t].name] = 2 /\ Depths[pc[t].name][1] = 0 /\ Owings[pc[t].name][1] = "no"
      <4>1. pc[t].at \in 1..Len(Script[pc[t].name])  BY <1>2, <1>3, BusyPlace
      <4> QED  BY <3>1, <4>1, OtherInits
    <3>3. ~Seen(pc[t])
      BY <2>1 DEF Guarded
    <3>4. pc[t].at = 1
      BY <1>2, <3>2, <3>3, PlaceTypes DEF Seen
    <3> QED  BY <3>2, <3>4 DEF Held, Owes
  <2>2. CASE Held(pc[t]) = 0 /\ Owes(pc[t]) = "no"
    BY <2>2
  <2> QED  BY <1>2, <2>1, <2>2, InitDoings
<1>6. lines = <<>>
  BY <1>1 DEF Mapped, Good
<1> QED  BY <1>2, <1>4, <1>5, <1>6, IdlePlace

-----------------------------------------------------------------------------
(* The locks *)

LEMMA LockedMap ==
    ASSUME NEW pc \in [Thread -> Place], NEW r \in [Thread -> Place], NEW t \in Thread,
           At(pc), Sound(pc), Moved(pc, r, t), fork,
           Doing(pc[t]) = "map", Doing(r[t]) = "mutex_init", r[t].stage \notin Structure,
           mutex'[ptr'] = Fresh, UNCHANGED <<fork, overlap, early>>
    PROVE  Locked(r)'
<1> SUFFICES ASSUME Good  PROVE Locked(r)'
  BY DEF Locked, Good
<1>1. \A u \in Thread : Held(r[u]) = 0
  <2>1. ~bailed  BY DEF Moved
  <2>2. \A u \in Thread : Held(pc[u]) = 0  BY <2>1, MapFirst DEF Sound
  <2>3. Held(r[t]) = Held(pc[t])  BY DEF Moved, Change, Structure
  <2> QED  BY <2>2, <2>3 DEF Moved
<1>2. \A u \in Thread : r[u].stage \notin Structure
  <2>1. ~bailed  BY DEF Moved
  <2>2. \A u \in Thread \ {t} : pc[u].stage = "run"  BY <2>1, MapFirst DEF Sound
  <2> QED  BY <2>2 DEF Moved, Structure
<1>3. \A u \in Thread : Mine(u)' = 0
  BY DEF Mine, Fresh
<1>4. mutex'[ptr'].owner = NoThread /\ mutex'[ptr'].depth = 0
  BY DEF Fresh
<1> QED  BY <1>1, <1>2, <1>3, <1>4 DEF Locked

\* The implicit initialisation may free a mutex that its own thread has locked.
LEMMA LockedMutexInit ==
    ASSUME NEW pc \in [Thread -> Place], NEW r \in [Thread -> Place], NEW t \in Thread,
           At(pc), Sound(pc), TypeOK, ~bailed, Change(pc[t], r[t]),
           \A u \in Thread : r[u] \in Place /\ Proper(r[u]),
           Good => \A u \in Thread \ {t} : r[u] = pc[u],
           Doing(pc[t]) = "mutex_init", r[t].stage \notin Structure,
           mutex'[ptr'] = Recursive, inits' = inits + 1,
           UNCHANGED <<fork, overlap, early, ptr, first>>
    PROVE  Locked(r)'
<1> SUFFICES ASSUME Good  PROVE Locked(r)'
  BY DEF Locked, Good
<1>1. ~Ready /\ ~overlap
  BY Unready DEF Good, Sound
<1>2. \A u \in Thread : pc[u] \in Place /\ Proper(pc[u])
  BY DEF At, Placed
<1>3. Busy(pc[t]) /\ Held(pc[t]) <= 1
  BY <1>2, InitDoings, InitChanges
<1>4. \A u \in Thread \ {t} : ~Busy(pc[u]) /\ r[u] = pc[u]
  BY <1>1, <1>3, Lonely DEF Sound
<1>5. \A u \in Thread \ {t} : Held(r[u]) = 0 /\ r[u].stage = "run"
  BY <1>2, <1>4, IdlePlace
<1>6. Held(r[t]) = Held(pc[t]) /\ Held(r[t]) \in 0..2 /\ (Held(r[t]) > 0 => Busy(r[t]))
  BY HeldTypes DEF Change, Structure
<1>7. \A u \in Thread : Mine(u)' = 0
  BY DEF Mine, Recursive, Fresh
<1>8. mutex'[ptr'].owner = NoThread /\ mutex'[ptr'].depth = 0 /\ mutex'[ptr'].recursive
  BY DEF Recursive, Fresh
<1>9. Ready' /\ t \in first
  BY <1>1, <1>3 DEF Ready, TypeOK, Alone, Sound
<1> QED  BY <1>3, <1>5, <1>6, <1>7, <1>8, <1>9 DEF Locked, Structure

LEMMA LockedAcquire ==
    ASSUME NEW pc \in [Thread -> Place], NEW r \in [Thread -> Place], NEW t \in Thread,
           At(pc), Locked(pc), TypeOK, Moved(pc, r, t), \A u \in Thread : Proper(r[u]),
           NEW s \in Structure, Doing(pc[t]) = s, r[t].stage = "run", Acquire(t, s)
    PROVE  Locked(r)'
<1> SUFFICES ASSUME Good  PROVE Locked(r)'
  BY DEF Locked, Good, Acquire, ghosts
<1>1. pc[t] \in Place /\ Proper(pc[t]) /\ Busy(pc[t])
  BY DEF At, Placed, Moved
<1>2. s = ptr
  <2>1. pc[t].stage = s
    BY <1>1, BusyPlace DEF Plain
  <2> QED  BY <2>1 DEF Locked
<1>3. mutex[ptr].owner = NoThread \/ mutex[ptr].owner = t
  BY <1>2 DEF Acquire
<1>4. PICK m : m = mutex[ptr] /\ m \in [owner : Thread \cup {NoThread}, depth : Nat, recursive : BOOLEAN]
  BY DEF TypeOK
<1>5. /\ mutex'[ptr'].owner = t /\ mutex'[ptr'].depth = m.depth + 1
      /\ mutex'[ptr'].recursive = m.recursive
  BY <1>2, <1>4 DEF Acquire, TypeOK
<1>6. t # NoThread /\ m.depth \in Nat
  BY <1>4, TapInitAssumption
<1>7. m.owner = NoThread <=> m.depth = 0
  BY <1>4 DEF Locked
<1>8. Mine(t) = m.depth /\ Mine(t)' = m.depth + 1
  BY <1>3, <1>4, <1>5, <1>7 DEF Mine
<1>9. \A u \in Thread \ {t} : Mine(u) = 0 /\ Mine(u)' = 0
  BY <1>3, <1>4, <1>5, TapInitAssumption DEF Mine
<1>10. Held(r[t]) = Held(pc[t]) + 1 /\ Held(pc[t]) \in 0..2
  BY <1>1, HeldTypes DEF Moved, Change
<1>11. m.depth + 2 = Held(r[t]) => Busy(r[t])
  BY <1>6, HeldTypes
<1>12. m.recursive \/ \E u \in Thread : Doing(r[u]) = "mutex_init"
  <2>1. \A u \in Thread : Doing(pc[u]) = "mutex_init" => r[u] = pc[u]
    BY DEF Moved, Structure
  <2> QED  BY <1>4, <2>1 DEF Locked
<1>13. \/ m.depth + 1 = Held(r[t])
       \/ Ready /\ t \in first /\ Busy(r[t]) /\ m.depth + 2 = Held(r[t])
  <2>1. Mine(t) = Held(pc[t]) \/ (Ready /\ t \in first /\ Mine(t) + 1 = Held(pc[t]))
    BY DEF Locked
  <2> QED  BY <1>6, <1>8, <1>10, <1>11, <2>1
<1>14. ASSUME NEW u \in Thread
       PROVE  /\ r[u].stage \in Structure => r[u].stage = ptr
              /\ \/ Mine(u)' = Held(r[u])
                 \/ Ready /\ u \in first /\ Busy(r[u]) /\ Mine(u)' + 1 = Held(r[u])
  <2>1. CASE u = t
    BY <1>6, <1>8, <1>13, <2>1 DEF Structure
  <2>2. CASE u # t
    BY <1>9, <2>2 DEF Locked, Moved
  <2> QED  BY <2>1, <2>2
<1>15. UNCHANGED <<ptr, first, inits>>  BY DEF Acquire, ghosts
<1> QED  BY <1>5, <1>6, <1>12, <1>14, <1>15 DEF Locked, Ready

LEMMA LockedUnlock ==
    ASSUME NEW pc \in [Thread -> Place], NEW r \in [Thread -> Place], NEW t \in Thread,
           At(pc), Alone(pc), Once(pc), Locked(pc), TypeOK,
           Moved(pc, r, t), \A u \in Thread : Proper(r[u]),
           Doing(pc[t]) = "unlock", r[t].stage = "run", Unlock(t)
    PROVE  Locked(r)'
<1> SUFFICES ASSUME Good  PROVE Locked(r)'
  BY DEF Locked, Good, Unlock, ghosts
<1>1. pc[t] \in Place /\ Proper(pc[t]) /\ Busy(pc[t]) /\ ~bailed
  BY DEF At, Placed, Moved
<1>2. PICK m : m = mutex[ptr] /\ m \in [owner : Thread \cup {NoThread}, depth : Nat, recursive : BOOLEAN]
  BY DEF TypeOK
<1>3. m.recursive
  <2> SUFFICES ASSUME ~m.recursive  PROVE FALSE
    OBVIOUS
  <2>1. PICK u \in Thread : Doing(pc[u]) = "mutex_init"
    BY <1>2 DEF Locked
  <2>2. Busy(pc[u]) /\ u # t
    BY <2>1, IdlePlace DEF At, Placed
  <2>3. ~Ready
    BY <1>1, <2>1, Unready DEF Good
  <2> QED  BY <1>1, <2>2, <2>3, Lonely DEF Good
<1>4. m.owner = NoThread <=> m.depth = 0
  BY <1>2 DEF Locked
<1>5. t # NoThread /\ m.depth \in Nat
  BY <1>2, TapInitAssumption
<1>6. Held(r[t]) = Held(pc[t]) - 1 /\ Held(pc[t]) \in 1..2
  BY <1>1, HeldTypes DEF Moved, Change, Structure
<1>7. mutex'[ptr'] = IF m.owner = t /\ m.depth > 1 THEN [m EXCEPT !.depth = @ - 1]
                     ELSE IF m.owner = t THEN [m EXCEPT !.owner = NoThread, !.depth = 0]
                     ELSE m
  BY <1>2, <1>3 DEF Unlock, Released, TypeOK
<1>8. mutex'[ptr'].recursive /\ (mutex'[ptr'].owner = NoThread <=> mutex'[ptr'].depth = 0)
  BY <1>2, <1>3, <1>4, <1>5, <1>7
<1>9. Mine(t) = IF m.owner = t THEN m.depth ELSE 0
  BY <1>2 DEF Mine
<1>10. Mine(t)' = IF m.owner = t THEN m.depth - 1 ELSE 0
  BY <1>2, <1>4, <1>5, <1>7 DEF Mine
<1>11. \A u \in Thread \ {t} : Mine(u)' = Mine(u)
  BY <1>2, <1>7, TapInitAssumption DEF Mine
<1>12. \/ Mine(t)' = Held(r[t])
       \/ Ready /\ t \in first /\ Busy(r[t]) /\ Mine(t)' + 1 = Held(r[t])
  <2>1. Mine(t) = Held(pc[t]) \/ (Ready /\ t \in first /\ Mine(t) + 1 = Held(pc[t]))
    BY DEF Locked
  <2>2. m.owner = t => m.depth > 0
    BY <1>4, <1>5
  <2>3. Held(r[t]) > 0 => Busy(r[t])
    BY HeldTypes
  <2> QED  BY <1>5, <1>6, <1>9, <1>10, <2>1, <2>2, <2>3
<1>13. ASSUME NEW u \in Thread
       PROVE  /\ r[u].stage \in Structure => r[u].stage = ptr
              /\ \/ Mine(u)' = Held(r[u])
                 \/ Ready /\ u \in first /\ Busy(r[u]) /\ Mine(u)' + 1 = Held(r[u])
  <2>1. CASE u = t
    BY <1>12, <2>1 DEF Structure
  <2>2. CASE u # t
    BY <1>11, <2>2 DEF Locked, Moved
  <2> QED  BY <2>1, <2>2
<1>14. UNCHANGED <<ptr, first, inits>>  BY DEF Unlock, ghosts
<1> QED  BY <1>8, <1>13, <1>14 DEF Locked, Ready

-----------------------------------------------------------------------------
(* The results *)

\* One thread at a time holds a lock, though it may be one that lost it.
LEMMA OneHolder ==
    ASSUME NEW pc \in [Thread -> Place], At(pc), Alone(pc), Locked(pc), Good, TypeOK,
           NEW t \in Thread, Held(pc[t]) > 0, NEW u \in Thread \ {t}
    PROVE  Held(pc[u]) = 0 /\ Owes(pc[u]) = "no"
<1>1. \A v \in Thread : /\ pc[v] \in Place /\ Proper(pc[v]) /\ Held(pc[v]) \in 0..2
                         /\ (Held(pc[v]) > 0 => Busy(pc[v])) /\ (Owes(pc[v]) # "no" => Held(pc[v]) > 0)
  BY HeldTypes DEF At, Placed
<1>2. Held(pc[u]) = 0
  <2> SUFFICES ASSUME Held(pc[u]) > 0  PROVE FALSE
    BY <1>1
  <2>1. Busy(pc[t]) /\ Busy(pc[u])
    BY <1>1
  <2>2. t \notin first /\ u \notin first
    BY <2>1 DEF Alone, Good
  <2>3. Mine(t) > 0 /\ Mine(u) > 0
    BY <2>2 DEF Locked
  <2> QED  BY <2>3 DEF Mine
<1> QED  BY <1>1, <1>2

LEMMA BadIsFinite ==
    ASSUME TypeOK
    PROVE  /\ Len(lines) \in Nat /\ Bad \subseteq 1..Len(lines)
           /\ IsFiniteSet(Bad) /\ Cardinality(Bad) \in Nat
<1>1. Len(lines) \in Nat  BY DEF TypeOK
<1>2. Bad \subseteq 1..Len(lines)  BY DEF Bad
<1>3. IsFiniteSet(1..Len(lines))  BY <1>1, FS_Interval
<1>4. IsFiniteSet(Bad)  BY <1>2, <1>3, FS_Subset
<1> QED  BY <1>1, <1>2, <1>4, FS_CardinalityType

LEMMA CountedMap ==
    ASSUME NEW pc \in [Thread -> Place], NEW r \in [Thread -> Place], NEW t \in Thread,
           At(pc), Sound(pc), Moved(pc, r, t), fork, Doing(pc[t]) = "map",
           count'[ptr'] = [tests |-> 0, failures |-> 0], UNCHANGED <<fork, overlap, early, lines>>
    PROVE  Counted(r)'
<1> SUFFICES ASSUME Good  PROVE Counted(r)'
  BY DEF Counted, Good
<1>1. ~bailed  BY DEF Moved
<1>2. lines = <<>> /\ \A u \in Thread : Owes(pc[u]) = "no"
  BY <1>1, MapFirst DEF Sound
<1>3. \A u \in Thread : Owes(r[u]) = "no"
  BY <1>2 DEF Moved, Change
<1>4. Len(lines') = 0 /\ Bad' = {}
  BY <1>2 DEF Bad
<1>5. Cardinality(Bad') = 0
  BY <1>4, FS_EmptySet
<1> QED  BY <1>3, <1>4, <1>5 DEF Counted

LEMMA CountedCount ==
    ASSUME NEW pc \in [Thread -> Place], NEW r \in [Thread -> Place], NEW t \in Thread,
           At(pc), Alone(pc), Locked(pc), Counted(pc), TypeOK, Moved(pc, r, t), Count(t)
    PROVE  Counted(r)'
<1> SUFFICES ASSUME Good  PROVE Counted(r)'
  BY DEF Counted, Good, Count, ghosts
<1>1. Doing(pc[t]) \in {"pass", "fail"} /\ (Does(t, "fail") <=> Doing(pc[t]) = "fail")
  BY InCalls DEF Count
<1>2. /\ Held(pc[t]) > 0 /\ Owes(pc[t]) = "no"
      /\ Owes(r[t]) = IF Doing(pc[t]) = "pass" THEN "good" ELSE "bad"
  BY <1>1 DEF Moved, Change
<1>3. \A u \in Thread \ {t} : Owes(pc[u]) = "no" /\ Owes(r[u]) = "no"
  BY <1>2, OneHolder DEF Moved
<1>4. /\ ~ \E u \in Thread : Owes(pc[u]) # "no"
      /\ ~ \E u \in Thread : Owes(pc[u]) = "bad"
  BY <1>2, <1>3
<1>5. /\ \E u \in Thread : Owes(r[u]) # "no"
      /\ (\E u \in Thread : Owes(r[u]) = "bad") <=> Doing(pc[t]) = "fail"
  BY <1>1, <1>2, <1>3
<1>6. UNCHANGED <<ptr, lines>>  BY DEF Count
<1>7. count[ptr] \in [tests : Nat, failures : Nat] /\ ptr \in Structure
  BY DEF TypeOK
<1>8. /\ count'[ptr].tests = count[ptr].tests + 1
      /\ count'[ptr].failures = IF Doing(pc[t]) = "fail" THEN count[ptr].failures + 1
                                ELSE count[ptr].failures
  BY <1>1, <1>7 DEF Count, TypeOK
<1>9. Bad' = Bad  BY <1>6 DEF Bad
<1>10. /\ \A i \in 1..Len(lines) : lines[i].num = i
       /\ count[ptr].tests = Len(lines) + 0
       /\ count[ptr].failures = Cardinality(Bad) + 0
  BY <1>4 DEF Counted
<1>11. Len(lines) \in Nat /\ Cardinality(Bad) \in Nat  BY BadIsFinite
<1> HIDE DEF Bad
<1>12. /\ count'[ptr].tests = Len(lines) + 1
       /\ count'[ptr].failures = Cardinality(Bad) + IF Doing(pc[t]) = "fail" THEN 1 ELSE 0
  BY <1>8, <1>10, <1>11
<1> QED  BY <1>5, <1>6, <1>9, <1>10, <1>12 DEF Counted

LEMMA CountedPrint ==
    ASSUME NEW pc \in [Thread -> Place], NEW r \in [Thread -> Place], NEW t \in Thread,
           At(pc), Alone(pc), Locked(pc), Counted(pc), TypeOK, Moved(pc, r, t), PrintResult(t)
    PROVE  Counted(r)'
<1> SUFFICES ASSUME Good  PROVE Counted(r)'
  BY DEF Counted, Good, PrintResult, ghosts
<1> DEFINE good == Doing(pc[t]) = "print_good"
           line == [num |-> count[ptr].tests, good |-> good]
           n == Len(lines)
<1>1. Doing(pc[t]) \in {"print_good", "print_bad"} /\ (Does(t, "print_good") <=> good)
  BY InCalls DEF PrintResult
<1>2. /\ Held(pc[t]) > 0 /\ Owes(r[t]) = "no"
      /\ Owes(pc[t]) = IF good THEN "good" ELSE "bad"
  BY <1>1 DEF Moved, Change
<1>3. \A u \in Thread \ {t} : Owes(pc[u]) = "no" /\ Owes(r[u]) = "no"
  BY <1>2, OneHolder DEF Moved
<1>4. /\ \E u \in Thread : Owes(pc[u]) # "no"
      /\ (\E u \in Thread : Owes(pc[u]) = "bad") <=> ~good
  BY <1>2, <1>3
<1>5. /\ ~ \E u \in Thread : Owes(r[u]) # "no"
      /\ ~ \E u \in Thread : Owes(r[u]) = "bad"
  BY <1>2, <1>3
<1>6. UNCHANGED <<ptr, count>>  BY DEF PrintResult
<1>7. lines' = Append(lines, line)
  <2>1. Does(t, "print_good") = good  BY <1>1, Zenon DEF Does
  <2> QED  BY <2>1 DEF PrintResult
<1>8. lines \in Seq([num : Nat, good : BOOLEAN]) /\ n \in Nat
  BY DEF TypeOK
<1>9. Len(lines') = n + 1 /\ lines'[n + 1] = line /\ \A i \in 1..n : lines'[i] = lines[i]
  BY <1>7, <1>8
<1>10. /\ \A i \in 1..n : lines[i].num = i
       /\ count[ptr].tests = n + 1
       /\ count[ptr].failures = Cardinality(Bad) + IF good THEN 0 ELSE 1
  BY <1>4 DEF Counted
<1> HIDE DEF n, good
<1>11. \A i \in 1..n + 1 : lines'[i].num = i
  BY <1>8, <1>9, <1>10
<1>12. Cardinality(Bad)' = Cardinality(Bad) + IF good THEN 0 ELSE 1
  <2>1. Bad \subseteq 1..n /\ IsFiniteSet(Bad) /\ n + 1 \notin Bad
    <3>1. Bad \subseteq 1..n /\ IsFiniteSet(Bad)  BY BadIsFinite DEF n
    <3>2. n + 1 \notin 1..n  BY <1>8
    <3> QED  BY <3>1, <3>2
  <2>2. CASE good
    <3>1. Bad' = Bad
      BY <1>8, <1>9, <2>2 DEF Bad, n
    <3>2. Cardinality(Bad) \in Nat  BY <2>1, FS_CardinalityType
    <3> QED  BY <2>2, <3>1, <3>2
  <2>3. CASE ~good
    <3>1. Bad' = Bad \cup {n + 1}
      BY <1>8, <1>9, <2>3 DEF Bad, n
    <3>2. Cardinality(Bad \cup {n + 1}) = Cardinality(Bad) + 1
      BY <2>1, FS_AddElement
    <3> QED  BY <2>3, <3>1, <3>2
  <2> QED  BY <2>2, <2>3
<1>13. Cardinality(Bad)' \in Nat
  <2>1. Bad' \subseteq 1..n + 1  BY <1>9 DEF Bad
  <2>2. IsFiniteSet(1..n + 1)  BY <1>8, FS_Interval
  <2>3. IsFiniteSet(Bad')  BY <2>1, <2>2, FS_Subset
  <2> QED  BY <2>3, FS_CardinalityType
<1> HIDE DEF Bad
<1> QED  BY <1>5, <1>6, <1>8, <1>9, <1>10, <1>11, <1>12, <1>13 DEF Counted

-----------------------------------------------------------------------------
(* The steps keep the invariant *)

\* A step of the call itself is done while the thread is in no INIT or LOCK.
LEMMA RunDoings ==
    ASSUME NEW p \in Place, Proper(p), Busy(p), Doing(p) \in Plain \ Initialising
    PROVE  p.stage = "run" /\ p.stage \notin Inside
<1>1. p.stage # "run" => Doing(p) = p.stage  BY BusyPlace
<1>2. p.stage \in Stage  BY PlaceTypes
<1> QED  BY <1>1, <1>2 DEF Plain, Stage, Inside, Initialising

LEMMA AfterRun ==
    ASSUME NEW p \in Place, p.stage \notin Inside \ {"unguard"}
    PROVE  After(p).stage = "run" /\ After(p).name = p.name /\ After(p).at = p.at + 1
<1>1. After(p) = [p EXCEPT !.stage = "run", !.at = @ + 1]
  BY DEF After
<1> QED  BY <1>1 DEF Place

LEMMA Kept ==
    ASSUME TypeOK', todo' \in [Thread -> Seq(Steps)],
           NEW r \in [Thread -> Place], Placed(todo', r),
           Guarded(r)', Alone(r)', Once(r)', Mapped(r)', Locked(r)', Counted(r)'
    PROVE  InitInv'
  BY DEF InitInv, At, Sound

\* Steps outside of the initialisation leave most of it alone.
LEMMA OutsideStays ==
    ASSUME NEW pc \in [Thread -> Place], NEW r \in [Thread -> Place], NEW t \in Thread,
           At(pc), Sound(pc), Moved(pc, r, t),
           pc[t].stage # "lost", Doing(pc[t]) \notin Initialising, r[t].stage \notin Inside,
           \A u \in Thread \ {t} : pc[u].stage \in Inside => guard' = guard,
           guard' = NoThread \/ (guard' = guard /\ pc[t].stage \notin Inside),
           Doing(pc[t]) \in {"INIT", "guard", "unguard"} /\ Seen(r[t]) => initialized,
           UNCHANGED <<fork, initialized, inits, bailed, ghosts>>
    PROVE  /\ Guarded(r)' /\ Alone(r)' /\ Once(r)'
           /\ lines' = lines => Mapped(r)'
<1> USE DEF ghosts
<1>1. /\ pc[t] \in Place /\ Proper(pc[t]) /\ Busy(pc[t])
      /\ r[t] \in Place /\ Proper(r[t]) /\ r[t].name = pc[t].name
  BY DEF At, Placed, Moved, Change
<1>2. Doing(r[t]) \notin Initialising
  BY <1>1, OtherDoings
<1>3. Seen(r[t]) => initialized'
  BY DEF Moved, Change, Sound, Guarded
<1>3a. \A u \in Thread : guard' = u => guard = u /\ u # t
  BY TapInitAssumption DEF Sound, Guarded
<1>4. Guarded(r)'
  <2>1. r[t].stage \notin {"map", "mutex_init", "unguard"}  BY DEF Inside
  <2> QED  BY <1>3, <1>3a, <2>1, GuardedStays DEF Sound
<1>5. Alone(r)'
  BY <1>3a, AloneStays DEF Sound, Ready
<1>6. Once(r)'
  BY <1>2, <1>3a, OnceStays DEF Sound
<1>7. lines' = lines => Mapped(r)'
  BY MappedStays DEF Sound, Initialising
<1> QED  BY <1>4, <1>5, <1>6, <1>7

LEMMA CheckKeeps ==
    ASSUME InitInv, NEW t \in Thread, Check(t)  PROVE InitInv'
<1>1. PICK pc \in [Thread -> Place] : At(pc) /\ Sound(pc)
  BY DEF InitInv
<1>2. /\ pc[t] \in Place /\ Proper(pc[t]) /\ Busy(pc[t]) /\ Doing(pc[t]) = "INIT" /\ ~bailed
  BY <1>1, InCalls DEF Check
<1>3. pc[t].stage = "run" /\ pc[t].stage \notin Inside
  <2>1. Doing(pc[t]) \in Plain \ Initialising  BY <1>2 DEF Plain, Steps, Initialising, Structure
  <2> QED  BY <1>2, <2>1, RunDoings
<1>4. UNCHANGED <<fork, initialized, guard, ptr, mutex, count, lines, inits, bailed, ghosts>>
  BY DEF Check
<1>5. PICK r \in [Thread -> Place] :
          /\ Placed(todo', r) /\ Moved(pc, r, t) /\ todo' \in [Thread -> Seq(Steps)]
          /\ \/ r[t] = After(pc[t]) /\ initialized
             \/ r[t].stage = "guard" /\ r[t].name = pc[t].name /\ r[t].at = pc[t].at
  <2>1. CASE initialized
    BY <1>1, <1>2, <1>3, <2>1, Continues DEF Check, InitInv
  <2>2. CASE ~initialized
    <3>1. First(t, <<"guard">>)  BY <2>2 DEF Check
    <3>2. todo \in [Thread -> Seq(Steps)]  BY DEF InitInv
    <3> QED  BY <1>1, <1>2, <3>1, <3>2, EntersGuard
  <2> QED  BY <2>1, <2>2
<1>6. r[t].stage \in {"run", "guard"} /\ (Seen(r[t]) => initialized)
  BY <1>1, <1>2, <1>3, <1>5, AfterRun DEF Seen, Sound, Guarded
<1>7. Guarded(r)' /\ Alone(r)' /\ Once(r)' /\ Mapped(r)'
  BY <1>1, <1>2, <1>3, <1>4, <1>5, <1>6, OutsideStays DEF Initialising, Inside
<1>8. TypeOK'
  BY <1>4, <1>5 DEF InitInv, TypeOK, ghosts
<1>9. Locked(r)' /\ Counted(r)'
  <2>1. Held(r[t]) = Held(pc[t]) /\ Owes(r[t]) = Owes(pc[t])
    BY <1>2, <1>5 DEF Moved, Change, Structure
  <2>2. \A u \in Thread : Proper(r[u])
    BY <1>5 DEF Placed
  <2> QED  BY <1>1, <1>2, <1>4, <1>5, <1>6, <2>1, <2>2, LockedStays, CountedStays
           DEF Sound, ghosts, Structure, InitInv
<1> QED  BY <1>5, <1>7, <1>8, <1>9, Kept

LEMMA GuardKeeps ==
    ASSUME InitInv, NEW t \in Thread, Guard(t)  PROVE InitInv'
<1>1. PICK pc \in [Thread -> Place] : At(pc) /\ Sound(pc)
  BY DEF InitInv
<1>2. /\ pc[t] \in Place /\ Proper(pc[t]) /\ Busy(pc[t]) /\ Doing(pc[t]) = "guard" /\ ~bailed
  BY <1>1, InCalls DEF Guard
<1>3. pc[t].stage = "guard"
  <2>1. pc[t].stage = "run" => Doing(pc[t]) \in Plain  BY <1>2, BusyPlace
  <2> QED  BY <1>2, <2>1, BusyPlace DEF Plain
<1>4. /\ UNCHANGED <<fork, initialized, ptr, mutex, count, lines, inits, bailed, ghosts>>
      /\ guard = NoThread /\ todo \in [Thread -> Seq(Steps)] /\ TypeOK
  BY DEF Guard, InitInv
<1>5. PICK r \in [Thread -> Place] :
          /\ Placed(todo', r) /\ Moved(pc, r, t) /\ todo' \in [Thread -> Seq(Steps)]
          /\ \/ r[t] = After(pc[t]) /\ initialized /\ guard' = guard
             \/ /\ r[t].stage = "tap_init" /\ r[t].name = pc[t].name /\ r[t].at = pc[t].at
                /\ ~initialized /\ guard' = t
  <2>1. CASE initialized
    BY <1>1, <1>2, <1>3, <1>4, <2>1, Continues DEF Guard, AlreadyDone
  <2>2. CASE ~initialized
    BY <1>1, <1>2, <1>3, <1>4, <2>2, EntersInit DEF Guard, AlreadyDone
  <2> QED  BY <2>1, <2>2
<1>6. \A u \in Thread : pc[u].stage \notin Inside
  BY <1>1, <1>4, TapInitAssumption DEF Sound, Guarded
<1>7. Guarded(r)' /\ Alone(r)' /\ Once(r)' /\ Mapped(r)'
  <2>1. CASE r[t] = After(pc[t]) /\ initialized
    <3>1. r[t].stage = "run"
      BY <1>2, <1>3, <2>1, AfterRun DEF Inside
    <3> QED  BY <1>1, <1>2, <1>3, <1>4, <1>5, <1>6, <2>1, <3>1, OutsideStays DEF Initialising, Inside
  <2>2. CASE /\ r[t].stage = "tap_init" /\ r[t].name = pc[t].name /\ r[t].at = pc[t].at
             /\ ~initialized /\ guard' = t
    <3>1. ~Seen(r[t])
      BY <1>1, <2>2 DEF Seen, Sound, Guarded
    <3>2. Guarded(r)'
      BY <1>1, <1>4, <1>5, <1>6, <2>2, <3>1, GuardedStays DEF Sound, ghosts, Inside
    <3>3. Alone(r)'
      <4>1. ~overlap => t \in first
        BY <1>1, <1>2, <2>2 DEF Sound, Once, Alone, Ready
      <4> QED  BY <1>1, <1>4, <1>5, <2>2, <4>1, AloneStays DEF Sound, ghosts, Ready
    <3>4. Doing(r[t]) = "tap_init"
      BY <2>2 DEF Doing
    <3>5. Once(r)'
      BY <1>1, <1>4, <1>5, <2>2, <3>4, OnceGuard DEF Sound, ghosts
    <3>6. Mapped(r)'
      BY <1>1, <1>2, <1>4, <1>5, MappedStays DEF Sound, ghosts
    <3> QED  BY <3>2, <3>3, <3>5, <3>6
  <2> QED  BY <1>5, <2>1, <2>2
<1>8. TypeOK'
  BY <1>4, <1>5 DEF TypeOK, ghosts
<1>9. Locked(r)' /\ Counted(r)'
  <2>1. Held(r[t]) = Held(pc[t]) /\ Owes(r[t]) = Owes(pc[t])
    BY <1>2, <1>5 DEF Moved, Change, Structure
  <2>2. \A u \in Thread : Proper(r[u])
    BY <1>5 DEF Placed
  <2>3. r[t].stage \notin Structure
    BY <1>2, <1>3, <1>5, AfterRun DEF Inside, Structure
  <2> QED  BY <1>1, <1>2, <1>4, <1>5, <2>1, <2>2, <2>3, LockedStays, CountedStays
           DEF Sound, ghosts
<1> QED  BY <1>5, <1>7, <1>8, <1>9, Kept

LEMMA UnguardKeeps ==
    ASSUME InitInv, NEW t \in Thread, Unguard(t)  PROVE InitInv'
<1>1. PICK pc \in [Thread -> Place] : At(pc) /\ Sound(pc)
  BY DEF InitInv
<1>2. /\ pc[t] \in Place /\ Proper(pc[t]) /\ Busy(pc[t]) /\ Doing(pc[t]) = "unguard" /\ ~bailed
  BY <1>1, InCalls DEF Unguard
<1>3. pc[t].stage = "unguard"
  <2>1. pc[t].stage = "run" => Doing(pc[t]) \in Plain  BY <1>2, BusyPlace
  <2> QED  BY <1>2, <2>1, BusyPlace DEF Plain
<1>4. /\ UNCHANGED <<fork, initialized, ptr, mutex, count, lines, inits, bailed, ghosts>>
      /\ guard' = NoThread /\ todo \in [Thread -> Seq(Steps)] /\ TypeOK
  BY DEF Unguard, InitInv
<1>5. PICK r \in [Thread -> Place] :
          /\ Placed(todo', r) /\ Moved(pc, r, t) /\ todo' \in [Thread -> Seq(Steps)]
          /\ r[t] = After(pc[t])
  BY <1>1, <1>2, <1>3, <1>4, Continues DEF Unguard
<1>6. \A u \in Thread \ {t} : pc[u].stage \notin Inside
  <2>1. guard = t  BY <1>1, <1>3 DEF Sound, Guarded, Inside
  <2> QED  BY <1>1, <2>1 DEF Sound, Guarded
<1>7. r[t].stage = "run"
  BY <1>2, <1>3, <1>5, AfterRun
<1>8. initialized
  BY <1>1, <1>3 DEF Sound, Guarded
<1>9. Guarded(r)' /\ Alone(r)' /\ Once(r)' /\ Mapped(r)'
  BY <1>1, <1>2, <1>3, <1>4, <1>5, <1>6, <1>7, <1>8, OutsideStays DEF Initialising, Inside
<1>10. TypeOK'
  BY <1>4, <1>5 DEF TypeOK, ghosts
<1>11. Locked(r)' /\ Counted(r)'
  <2>1. Held(r[t]) = Held(pc[t]) /\ Owes(r[t]) = Owes(pc[t])
    BY <1>2, <1>5 DEF Moved, Change, Structure
  <2>2. \A u \in Thread : Proper(r[u])
    BY <1>5 DEF Placed
  <2>3. r[t].stage \notin Structure
    BY <1>7 DEF Structure
  <2> QED  BY <1>1, <1>2, <1>4, <1>5, <2>1, <2>2, <2>3, LockedStays, CountedStays
           DEF Sound, ghosts
<1> QED  BY <1>5, <1>9, <1>10, <1>11, Kept

LEMMA LockKeeps ==
    ASSUME InitInv, NEW t \in Thread, Lock(t)  PROVE InitInv'
<1>1. PICK pc \in [Thread -> Place] : At(pc) /\ Sound(pc)
  BY DEF InitInv
<1>2. /\ pc[t] \in Place /\ Proper(pc[t]) /\ Busy(pc[t]) /\ Doing(pc[t]) = "lock" /\ ~bailed
  BY <1>1, InCalls DEF Lock
<1>3. pc[t].stage = "run" /\ pc[t].stage \notin Inside
  <2>1. Doing(pc[t]) \in Plain \ Initialising  BY <1>2 DEF Plain, Steps, Initialising, Structure
  <2> QED  BY <1>2, <2>1, RunDoings
<1>4. /\ UNCHANGED <<fork, initialized, guard, ptr, mutex, count, lines, inits, bailed, ghosts>>
      /\ todo \in [Thread -> Seq(Steps)] /\ TypeOK
  BY DEF Lock, InitInv
<1>5. PICK r \in [Thread -> Place] :
          /\ Placed(todo', r) /\ Moved(pc, r, t) /\ todo' \in [Thread -> Seq(Steps)]
          /\ r[t].stage = ptr /\ r[t].name = pc[t].name /\ r[t].at = pc[t].at
  <2>1. ptr \in Structure  BY <1>4 DEF TypeOK
  <2> QED  BY <1>1, <1>2, <1>4, <2>1, EntersLock DEF Lock
<1>6. r[t].stage \notin Inside
  BY <1>4, <1>5 DEF TypeOK, Structure, Inside
<1>7. Guarded(r)' /\ Alone(r)' /\ Once(r)' /\ Mapped(r)'
  BY <1>1, <1>2, <1>3, <1>4, <1>5, <1>6, OutsideStays DEF Initialising
<1>8. TypeOK'
  BY <1>4, <1>5 DEF TypeOK, ghosts
<1>9. Locked(r)' /\ Counted(r)'
  <2>1. Held(r[t]) = Held(pc[t]) /\ Owes(r[t]) = Owes(pc[t])
    BY <1>2, <1>5 DEF Moved, Change, Structure
  <2>2. \A u \in Thread : Proper(r[u])
    BY <1>5 DEF Placed
  <2> QED  BY <1>1, <1>2, <1>4, <1>5, <2>1, <2>2, LockedStays, CountedStays DEF Sound, ghosts
<1> QED  BY <1>5, <1>7, <1>8, <1>9, Kept

\* What the steps of the call itself have in common.
LEMMA Performs ==
    ASSUME InitInv, NEW t \in Thread, NEW pc \in [Thread -> Place], At(pc), Sound(pc),
           Busy(pc[t]), ~bailed, Continue(t),
           Doing(pc[t]) \in {"unlock", "pass", "fail", "print_good", "print_bad"},
           UNCHANGED <<fork, initialized, guard, inits, bailed, ghosts>>
    PROVE  /\ todo' \in [Thread -> Seq(Steps)] /\ pc[t].stage = "run"
           /\ \E r \in [Thread -> Place] :
                  /\ Placed(todo', r) /\ Moved(pc, r, t) /\ r[t].stage = "run"
                  /\ \A u \in Thread : Proper(r[u])
                  /\ Guarded(r)' /\ Alone(r)' /\ Once(r)'
                  /\ lines' = lines => Mapped(r)'
<1>1. pc[t] \in Place /\ Proper(pc[t]) /\ todo \in [Thread -> Seq(Steps)]
  BY DEF At, Placed, InitInv
<1>2. pc[t].stage = "run" /\ pc[t].stage \notin Inside
  <2>1. Doing(pc[t]) \in Plain \ Initialising  BY DEF Plain, Steps, Initialising, Structure
  <2> QED  BY <1>1, <2>1, RunDoings
<1>3. PICK r \in [Thread -> Place] :
          /\ Placed(todo', r) /\ Moved(pc, r, t) /\ todo' \in [Thread -> Seq(Steps)]
          /\ r[t] = After(pc[t])
  BY <1>1, <1>2, Continues
<1>4. r[t].stage = "run"
  BY <1>1, <1>2, <1>3, AfterRun
<1>5. /\ Guarded(r)' /\ Alone(r)' /\ Once(r)'
      /\ lines' = lines => Mapped(r)'
  BY <1>1, <1>2, <1>3, <1>4, OutsideStays DEF Initialising, Inside
<1>6. \A u \in Thread : Proper(r[u])
  BY <1>3 DEF Placed
<1> QED  BY <1>2, <1>3, <1>4, <1>5, <1>6

LEMMA AcquireKeeps ==
    ASSUME InitInv, NEW t \in Thread, NEW s \in Structure, Acquire(t, s)  PROVE InitInv'
<1>1. PICK pc \in [Thread -> Place] : At(pc) /\ Sound(pc)
  BY DEF InitInv
<1>2. /\ pc[t] \in Place /\ Proper(pc[t]) /\ Busy(pc[t]) /\ Doing(pc[t]) = s /\ ~bailed
  BY <1>1, InCalls DEF Acquire
<1>3. pc[t].stage = s
  <2>1. pc[t].stage = "run" => Doing(pc[t]) \in Plain  BY <1>2, BusyPlace
  <2> QED  BY <1>2, <2>1, BusyPlace DEF Plain
<1>4. /\ UNCHANGED <<fork, initialized, guard, ptr, count, lines, inits, bailed, ghosts>>
      /\ todo \in [Thread -> Seq(Steps)] /\ TypeOK /\ Continue(t)
  BY DEF Acquire, InitInv
<1>5. PICK r \in [Thread -> Place] :
          /\ Placed(todo', r) /\ Moved(pc, r, t) /\ todo' \in [Thread -> Seq(Steps)]
          /\ r[t] = After(pc[t])
  BY <1>1, <1>2, <1>3, <1>4, Continues DEF Structure
<1>6. r[t].stage = "run" /\ \A u \in Thread : Proper(r[u])
  BY <1>2, <1>3, <1>5, AfterRun DEF Inside, Structure, Placed
<1>7. Guarded(r)' /\ Alone(r)' /\ Once(r)' /\ Mapped(r)'
  BY <1>1, <1>2, <1>3, <1>4, <1>5, <1>6, OutsideStays DEF Initialising, Inside, Structure
<1>8. TypeOK'
  <2>1. mutex' \in [Structure -> [owner : Thread \cup {NoThread}, depth : Nat, recursive : BOOLEAN]]
    <3>1. PICK m \in [owner : Thread \cup {NoThread}, depth : Nat, recursive : BOOLEAN] :
              m = mutex[s]
      BY <1>4 DEF TypeOK
    <3>2. PICK n \in [owner : Thread \cup {NoThread}, depth : Nat, recursive : BOOLEAN] :
              n = [m EXCEPT !.owner = t, !.depth = @ + 1]
      <4>1. PICK o \in [owner : Thread \cup {NoThread}, depth : Nat, recursive : BOOLEAN] :
                o = [m EXCEPT !.owner = t]
        OBVIOUS
      <4>2. [o EXCEPT !.depth = @ + 1]
                \in [owner : Thread \cup {NoThread}, depth : Nat, recursive : BOOLEAN]
        OBVIOUS
      <4> QED  BY <4>1, <4>2
    <3>3. mutex' = [mutex EXCEPT ![s] = n]
      BY <3>1, <3>2 DEF Acquire
    <3> QED  BY <1>4, <3>3 DEF TypeOK
  <2> QED  BY <1>4, <1>5, <2>1 DEF TypeOK, ghosts
<1>9. Locked(r)'
  BY <1>1, <1>2, <1>4, <1>5, <1>6, LockedAcquire DEF Sound
<1>10. Counted(r)'
  <2>1. Owes(r[t]) = Owes(pc[t])
    BY <1>2, <1>5 DEF Moved, Change, Structure
  <2> QED  BY <1>1, <1>4, <1>5, <2>1, CountedStays DEF Sound, ghosts
<1> QED  BY <1>5, <1>7, <1>8, <1>9, <1>10, Kept

LEMMA UnlockKeeps ==
    ASSUME InitInv, NEW t \in Thread, Unlock(t)  PROVE InitInv'
<1>1. PICK pc \in [Thread -> Place] : At(pc) /\ Sound(pc)
  BY DEF InitInv
<1>2. /\ pc[t] \in Place /\ Proper(pc[t]) /\ Busy(pc[t]) /\ Doing(pc[t]) = "unlock" /\ ~bailed
  BY <1>1, InCalls DEF Unlock
<1>3. /\ UNCHANGED <<fork, initialized, guard, ptr, count, lines, inits, bailed, ghosts>>
      /\ TypeOK /\ Continue(t)
  BY DEF Unlock, InitInv
<1>4. PICK r \in [Thread -> Place] :
          /\ Placed(todo', r) /\ Moved(pc, r, t) /\ r[t].stage = "run"
          /\ \A u \in Thread : Proper(r[u])
          /\ Guarded(r)' /\ Alone(r)' /\ Once(r)'
          /\ lines' = lines => Mapped(r)'
  BY <1>1, <1>2, <1>3, Performs
<1>5. todo' \in [Thread -> Seq(Steps)]
  BY <1>1, <1>2, <1>3, Performs
<1>6. TypeOK'
  <2>1. mutex' \in [Structure -> [owner : Thread \cup {NoThread}, depth : Nat, recursive : BOOLEAN]]
    <3>1. Released(ptr, t) \in [owner : Thread \cup {NoThread}, depth : Nat, recursive : BOOLEAN]
      <4>1. PICK m \in [owner : Thread \cup {NoThread}, depth : Nat, recursive : BOOLEAN] :
                m = mutex[ptr]
        BY <1>3 DEF TypeOK
      <4>2. CASE m.owner = t /\ m.depth > 1
        BY <4>1, <4>2 DEF Released
      <4>3. CASE ~(m.owner = t /\ m.depth > 1) /\ (m.owner = t \/ ~m.recursive)
        BY <4>1, <4>3 DEF Released
      <4>4. CASE ~(m.owner = t) /\ m.recursive
        BY <4>1, <4>4 DEF Released
      <4> QED  BY <4>2, <4>3, <4>4
    <3> QED  BY <1>3, <3>1 DEF TypeOK, Unlock
  <2> QED  BY <1>3, <1>5, <2>1 DEF TypeOK, ghosts
<1>7. Locked(r)'
  BY <1>1, <1>2, <1>3, <1>4, LockedUnlock DEF Sound
<1>8. Counted(r)'
  <2>1. Owes(r[t]) = Owes(pc[t])
    BY <1>2, <1>4 DEF Moved, Change
  <2> QED  BY <1>1, <1>3, <1>4, <2>1, CountedStays DEF Sound, ghosts
<1> QED  BY <1>3, <1>4, <1>5, <1>6, <1>7, <1>8, Kept

LEMMA OneMoreTest ==
    ASSUME NEW c \in [tests : Nat, failures : Nat]
    PROVE  [c EXCEPT !.tests = @ + 1] \in [tests : Nat, failures : Nat]
  OBVIOUS

LEMMA CountKeeps ==
    ASSUME InitInv, NEW t \in Thread, Count(t)  PROVE InitInv'
<1>1. PICK pc \in [Thread -> Place] : At(pc) /\ Sound(pc)
  BY DEF InitInv
<1>2. /\ pc[t] \in Place /\ Proper(pc[t]) /\ Busy(pc[t]) /\ ~bailed
      /\ Doing(pc[t]) \in {"pass", "fail"}
  BY <1>1, InCalls DEF Count
<1>3. /\ UNCHANGED <<fork, initialized, guard, ptr, mutex, lines, inits, bailed, ghosts>>
      /\ TypeOK /\ Continue(t)
  BY DEF Count, InitInv
<1>4. PICK r \in [Thread -> Place] :
          /\ Placed(todo', r) /\ Moved(pc, r, t) /\ r[t].stage = "run"
          /\ \A u \in Thread : Proper(r[u])
          /\ Guarded(r)' /\ Alone(r)' /\ Once(r)'
          /\ lines' = lines => Mapped(r)'
  BY <1>1, <1>2, <1>3, Performs
<1>5. todo' \in [Thread -> Seq(Steps)]
  BY <1>1, <1>2, <1>3, Performs
<1>6. TypeOK'
  <2>1. count' \in [Structure -> [tests : Nat, failures : Nat]]
    <3>1. PICK c \in [tests : Nat, failures : Nat] : c = count[ptr]
      BY <1>3 DEF TypeOK
    <3>2. PICK d \in [tests : Nat, failures : Nat] :
              d = [c EXCEPT !.tests = @ + 1, !.failures = IF Does(t, "fail") THEN @ + 1 ELSE @]
      <4>1. PICK e \in [tests : Nat, failures : Nat] : e = [c EXCEPT !.tests = @ + 1]
        BY OneMoreTest
      <4>2. [e EXCEPT !.failures = IF Does(t, "fail") THEN @ + 1 ELSE @]
                \in [tests : Nat, failures : Nat]
        OBVIOUS
      <4> QED  BY <4>1, <4>2
    <3>3. count' = [count EXCEPT ![ptr] = d]
      BY <3>1, <3>2 DEF Count
    <3> QED  BY <1>3, <3>3 DEF TypeOK
  <2> QED  BY <1>3, <1>5, <2>1 DEF TypeOK, ghosts
<1>7. Locked(r)'
  <2>1. Held(r[t]) = Held(pc[t])
    BY <1>2, <1>4 DEF Moved, Change, Structure
  <2> QED  BY <1>1, <1>2, <1>3, <1>4, <2>1, LockedStays DEF Sound, ghosts, Structure
<1>8. Counted(r)'
  BY <1>1, <1>3, <1>4, CountedCount DEF Sound
<1> QED  BY <1>3, <1>4, <1>5, <1>6, <1>7, <1>8, Kept

LEMMA PrintKeeps ==
    ASSUME InitInv, NEW t \in Thread, PrintResult(t)  PROVE InitInv'
<1>1. PICK pc \in [Thread -> Place] : At(pc) /\ Sound(pc)
  BY DEF InitInv
<1>2. /\ pc[t] \in Place /\ Proper(pc[t]) /\ Busy(pc[t]) /\ ~bailed
      /\ Doing(pc[t]) \in {"print_good", "print_bad"}
  BY <1>1, InCalls DEF PrintResult
<1>3. /\ UNCHANGED <<fork, initialized, guard, ptr, mutex, count, inits, bailed, ghosts>>
      /\ TypeOK /\ Continue(t)
  BY DEF PrintResult, InitInv
<1>4. PICK r \in [Thread -> Place] :
          /\ Placed(todo', r) /\ Moved(pc, r, t) /\ r[t].stage = "run"
          /\ \A u \in Thread : Proper(r[u])
          /\ Guarded(r)' /\ Alone(r)' /\ Once(r)'
          /\ lines' = lines => Mapped(r)'
  BY <1>1, <1>2, <1>3, Performs
<1>5. todo' \in [Thread -> Seq(Steps)]
  BY <1>1, <1>2, <1>3, Performs
<1>6. TypeOK'
  <2>1. lines' \in Seq([num : Nat, good : BOOLEAN])
    <3>1. [num |-> count[ptr].tests, good |-> Does(t, "print_good")] \in [num : Nat, good : BOOLEAN]
      <4>1. count[ptr].tests \in Nat  BY <1>3 DEF TypeOK
      <4>2. Does(t, "print_good") \in BOOLEAN  BY Zenon DEF Does
      <4> QED  BY <4>1, <4>2
    <3> QED  BY <1>3, <3>1 DEF TypeOK, PrintResult
  <2> QED  BY <1>3, <1>5, <2>1 DEF TypeOK, ghosts
<1>7. Mapped(r)'
  BY <1>1, <1>2, <1>3, <1>4, MappedPrint DEF Sound, ghosts
<1>8. Locked(r)'
  <2>1. Held(r[t]) = Held(pc[t])
    BY <1>2, <1>4 DEF Moved, Change, Structure
  <2> QED  BY <1>1, <1>2, <1>3, <1>4, <2>1, LockedStays DEF Sound, ghosts, Structure
<1>9. Counted(r)'
  BY <1>1, <1>3, <1>4, CountedPrint DEF Sound
<1> QED  BY <1>4, <1>5, <1>6, <1>7, <1>8, <1>9, Kept

\* Where a step of an initialisation leads.
LEMMA InitPlaces ==
    ASSUME NEW p \in Place, Proper(p), Doing(p) \in Initialising
    PROVE  /\ After(p).stage \in (Inside \ {"tap_init"}) \cup {"run"}
           /\ After(p).stage \in Inside => p.stage \in Inside \ {"unguard"} /\ After(p).at = p.at
           /\ After(p).stage \in {"map", "mutex_init", "unguard"} => p.stage \in {"set", "map", "mutex_init"}
           /\ After(p).stage \in {"mutex_init", "unguard"} => p.stage \in {"map", "mutex_init"}
           /\ p.stage # "lost" /\ Doing(p) # "lock" /\ Busy(p)
<1>1. CASE p.stage \in Inside \ {"unguard"}
  <2>1. After(p).stage = Following(p.stage) /\ After(p).at = p.at
    BY <1>1, Inward
  <2> QED  BY <1>1, <2>1, InitDoings DEF Following, Inside, Initialising
<1>2. CASE p.stage = "run"
  BY <1>2, AfterRun, InitDoings DEF Inside, Initialising
<1> QED  BY <1>1, <1>2, InitDoings DEF Initialising

\* What the steps of an initialisation have in common.
LEMMA Initialises ==
    ASSUME InitInv, NEW t \in Thread, NEW pc \in [Thread -> Place], At(pc), Sound(pc),
           ~bailed, Continue(t), Doing(pc[t]) \in Initialising \ {"mutex_init"},
           initialized => initialized', Doing(pc[t]) = "set" => initialized',
           UNCHANGED <<fork, guard, inits, ghosts>>
    PROVE  /\ todo' \in [Thread -> Seq(Steps)]
           /\ \E r \in [Thread -> Place] :
                  /\ Placed(todo', r) /\ Moved(pc, r, t) /\ Busy(pc[t])
                  /\ \A u \in Thread : Proper(r[u])
                  /\ Doing(r[t]) = Following(Doing(pc[t])) /\ r[t].stage \notin Structure
                  /\ Held(r[t]) = Held(pc[t]) /\ Owes(r[t]) = Owes(pc[t])
                  /\ Guarded(r)' /\ Alone(r)'
<1>1. pc[t] \in Place /\ Proper(pc[t]) /\ todo \in [Thread -> Seq(Steps)]
  BY DEF At, Placed, InitInv
<1>2. /\ After(pc[t]).stage \in (Inside \ {"tap_init"}) \cup {"run"}
      /\ After(pc[t]).stage \in Inside =>
             pc[t].stage \in Inside \ {"unguard"} /\ After(pc[t]).at = pc[t].at
      /\ After(pc[t]).stage \in {"map", "mutex_init", "unguard"} =>
             pc[t].stage \in {"set", "map", "mutex_init"}
      /\ After(pc[t]).stage \in {"mutex_init", "unguard"} => pc[t].stage \in {"map", "mutex_init"}
      /\ pc[t].stage # "lost" /\ Doing(pc[t]) # "lock" /\ Busy(pc[t])
  BY <1>1, InitPlaces
<1>3. PICK r \in [Thread -> Place] :
          /\ Placed(todo', r) /\ Moved(pc, r, t) /\ todo' \in [Thread -> Seq(Steps)]
          /\ r[t] = After(pc[t])
  BY <1>1, <1>2, Continues
<1>4. Doing(r[t]) = Following(Doing(pc[t]))
  BY <1>1, <1>3, InitChanges DEF Initialising
<1>5. Held(r[t]) = Held(pc[t]) /\ Owes(r[t]) = Owes(pc[t])
  BY <1>3 DEF Moved, Change, Initialising, Structure
<1>6. r[t].stage \notin Structure
  BY <1>2, <1>3 DEF Structure, Inside
<1>7. Guarded(r)'
  <2>1. r[t].stage \in Inside <=> guard' = t
    <3>1. pc[t].stage \in Inside \ {"unguard"} => r[t].stage \in Inside
      BY <1>1, <1>3, Inward DEF Following, Inside
    <3>2. pc[t].stage # "unguard"
      BY <1>1, <1>2, BusyPlace DEF Initialising
    <3> QED  BY <1>2, <1>3, <3>1, <3>2 DEF Sound, Guarded
  <2>2. r[t].stage \in Inside => ~Seen(r[t])
    <3>1. r[t].name = pc[t].name  BY <1>3 DEF Moved, Change
    <3> QED  BY <1>2, <1>3, <3>1 DEF Sound, Guarded, Seen
  <2>3. r[t].stage \in {"map", "mutex_init", "unguard"} => initialized'
    <3>1. pc[t].stage = "set" => Doing(pc[t]) = "set"
      BY <1>1, <1>2, BusyPlace
    <3> QED  BY <1>2, <1>3, <3>1 DEF Sound, Guarded
  <2>4. Seen(r[t]) => initialized'
    BY <1>3 DEF Moved, Change, Initialising, Sound, Guarded
  <2> QED  BY <1>3, <2>1, <2>2, <2>3, <2>4, GuardedStays DEF Sound, ghosts
<1>8. Alone(r)'
  BY <1>3, AloneStays DEF Sound, ghosts, Ready
<1>9. \A u \in Thread : Proper(r[u])
  BY <1>3 DEF Placed
<1> QED  BY <1>2, <1>3, <1>4, <1>5, <1>6, <1>7, <1>8, <1>9

LEMMA TapInitCheckKeeps ==
    ASSUME InitInv, NEW t \in Thread, TapInitCheck(t)  PROVE InitInv'
<1>1. PICK pc \in [Thread -> Place] : At(pc) /\ Sound(pc)
  BY DEF InitInv
<1>2. Doing(pc[t]) = "tap_init" /\ ~bailed
  BY <1>1, InCalls DEF TapInitCheck
<1>3. /\ UNCHANGED <<fork, initialized, guard, ptr, mutex, count, lines, inits, ghosts>>
      /\ bailed' = initialized /\ TypeOK /\ Continue(t)
  BY DEF TapInitCheck, InitInv
<1>4. /\ todo' \in [Thread -> Seq(Steps)]
      /\ \E r \in [Thread -> Place] :
             /\ Placed(todo', r) /\ Moved(pc, r, t) /\ Busy(pc[t])
             /\ \A u \in Thread : Proper(r[u])
             /\ Doing(r[t]) = Following(Doing(pc[t])) /\ r[t].stage \notin Structure
             /\ Held(r[t]) = Held(pc[t]) /\ Owes(r[t]) = Owes(pc[t])
             /\ Guarded(r)' /\ Alone(r)'
  BY <1>1, <1>2, <1>3, Initialises DEF Initialising
<1>5. PICK r \in [Thread -> Place] :
             /\ Placed(todo', r) /\ Moved(pc, r, t)
             /\ \A u \in Thread : Proper(r[u])
             /\ Doing(r[t]) = Following(Doing(pc[t])) /\ r[t].stage \notin Structure
             /\ Held(r[t]) = Held(pc[t]) /\ Owes(r[t]) = Owes(pc[t])
             /\ Guarded(r)' /\ Alone(r)'
  BY <1>4
<1>6. Once(r)'
  BY <1>1, <1>2, <1>3, <1>5, OnceTapInitCheck DEF Sound, ghosts, Following
<1>7. Mapped(r)'
  BY <1>1, <1>2, <1>3, <1>5, MappedStays DEF Sound, ghosts
<1>8. Locked(r)' /\ Counted(r)'
  BY <1>1, <1>2, <1>3, <1>5, LockedStays, CountedStays DEF Sound, ghosts
<1>9. TypeOK'
  BY <1>3, <1>4 DEF TypeOK, ghosts
<1> QED  BY <1>4, <1>5, <1>6, <1>7, <1>8, <1>9, Kept

LEMMA SetFlagKeeps ==
    ASSUME InitInv, NEW t \in Thread, SetFlag(t)  PROVE InitInv'
<1>1. PICK pc \in [Thread -> Place] : At(pc) /\ Sound(pc)
  BY DEF InitInv
<1>2. Doing(pc[t]) = "set" /\ ~bailed
  BY <1>1, InCalls DEF SetFlag
<1>3. /\ UNCHANGED <<fork, guard, ptr, mutex, count, lines, inits, bailed, ghosts>>
      /\ initialized' = TRUE /\ TypeOK /\ Continue(t)
  BY DEF SetFlag, InitInv
<1>4. /\ todo' \in [Thread -> Seq(Steps)]
      /\ \E r \in [Thread -> Place] :
             /\ Placed(todo', r) /\ Moved(pc, r, t) /\ Busy(pc[t])
             /\ \A u \in Thread : Proper(r[u])
             /\ Doing(r[t]) = Following(Doing(pc[t])) /\ r[t].stage \notin Structure
             /\ Held(r[t]) = Held(pc[t]) /\ Owes(r[t]) = Owes(pc[t])
             /\ Guarded(r)' /\ Alone(r)'
  BY <1>1, <1>2, <1>3, Initialises DEF Initialising
<1>5. PICK r \in [Thread -> Place] :
             /\ Placed(todo', r) /\ Moved(pc, r, t)
             /\ \A u \in Thread : Proper(r[u])
             /\ Doing(r[t]) = "map" /\ r[t].stage \notin Structure
             /\ Held(r[t]) = Held(pc[t]) /\ Owes(r[t]) = Owes(pc[t])
             /\ Guarded(r)' /\ Alone(r)'
  BY <1>2, <1>4 DEF Following
<1>6. Once(r)'
  BY <1>1, <1>2, <1>3, <1>5, OnceSet DEF Sound, ghosts
<1>7. Mapped(r)'
  BY <1>1, <1>3, <1>5, MappedSet DEF Sound, ghosts
<1>8. Locked(r)' /\ Counted(r)'
  BY <1>1, <1>2, <1>3, <1>5, LockedStays, CountedStays DEF Sound, ghosts
<1>9. TypeOK'
  BY <1>3, <1>4 DEF TypeOK, ghosts
<1> QED  BY <1>4, <1>5, <1>6, <1>7, <1>8, <1>9, Kept

LEMMA MapKeeps ==
    ASSUME InitInv, NEW t \in Thread, Map(t)  PROVE InitInv'
<1>1. PICK pc \in [Thread -> Place] : At(pc) /\ Sound(pc)
  BY DEF InitInv
<1>2. Doing(pc[t]) = "map" /\ ~bailed
  BY <1>1, InCalls DEF Map
<1>3. /\ UNCHANGED <<fork, initialized, guard, lines, inits, bailed, ghosts>>
      /\ TypeOK /\ Continue(t)
  BY DEF Map, InitInv
<1>4. /\ todo' \in [Thread -> Seq(Steps)]
      /\ \E r \in [Thread -> Place] :
             /\ Placed(todo', r) /\ Moved(pc, r, t) /\ Busy(pc[t])
             /\ \A u \in Thread : Proper(r[u])
             /\ Doing(r[t]) = Following(Doing(pc[t])) /\ r[t].stage \notin Structure
             /\ Held(r[t]) = Held(pc[t]) /\ Owes(r[t]) = Owes(pc[t])
             /\ Guarded(r)' /\ Alone(r)'
  BY <1>1, <1>2, <1>3, Initialises DEF Initialising
<1>5. PICK r \in [Thread -> Place] :
             /\ Placed(todo', r) /\ Moved(pc, r, t)
             /\ \A u \in Thread : Proper(r[u])
             /\ Doing(r[t]) = "mutex_init" /\ r[t].stage \notin Structure
             /\ Held(r[t]) = Held(pc[t]) /\ Owes(r[t]) = Owes(pc[t])
             /\ Guarded(r)' /\ Alone(r)'
  BY <1>2, <1>4 DEF Following
<1>6. Once(r)'
  BY <1>1, <1>2, <1>3, <1>5, OnceMap DEF Sound, ghosts
<1>7. Mapped(r)'
  BY <1>1, <1>3, <1>5, MappedSet DEF Sound, ghosts
<1>8. Locked(r)' /\ Counted(r)' /\ TypeOK'
  <2>1. CASE fork
    <3>1. /\ ptr' = "shared"
          /\ count' = [count EXCEPT !["shared"] = [tests |-> 0, failures |-> 0]]
          /\ mutex' = [mutex EXCEPT !["shared"] = Fresh]
      BY <2>1 DEF Map
    <3>2. mutex'[ptr'] = Fresh /\ count'[ptr'] = [tests |-> 0, failures |-> 0]
      BY <1>3, <3>1 DEF TypeOK, Structure
    <3>3. Locked(r)' /\ Counted(r)'
      BY <1>1, <1>2, <1>3, <1>5, <2>1, <3>2, LockedMap, CountedMap DEF ghosts
    <3>4. Fresh \in [owner : Thread \cup {NoThread}, depth : Nat, recursive : BOOLEAN]
      BY DEF Fresh
    <3>5. TypeOK'
      <4>1. mutex' \in [Structure -> [owner : Thread \cup {NoThread}, depth : Nat, recursive : BOOLEAN]]
        BY <1>3, <3>1, <3>4 DEF TypeOK
      <4>2. count' \in [Structure -> [tests : Nat, failures : Nat]]
        BY <1>3, <3>1 DEF TypeOK
      <4> QED  BY <1>3, <1>4, <3>1, <4>1, <4>2 DEF TypeOK, ghosts, Structure
    <3> QED  BY <3>3, <3>5
  <2>2. CASE ~fork
    <3>1. UNCHANGED <<ptr, count, mutex>>
      BY <2>2 DEF Map
    <3>2. Locked(r)' /\ Counted(r)'
      BY <1>1, <1>2, <1>3, <1>5, <3>1, LockedStays, CountedStays DEF Sound, ghosts
    <3> QED  BY <1>3, <1>4, <3>1, <3>2 DEF TypeOK, ghosts
  <2> QED  BY <2>1, <2>2
<1> QED  BY <1>4, <1>5, <1>6, <1>7, <1>8, Kept

\* A thread that sleeps on a mutex while it is initialised again.
Lost(p) == [p EXCEPT !.stage = "lost"]

LEMMA LostPlace ==
    ASSUME NEW p \in Place, Proper(p), Busy(p)
    PROVE  /\ Lost(p) \in Place /\ Proper(Lost(p)) /\ Left(Lost(p)) = <<"lost">>
           /\ Lost(p).name = p.name /\ Lost(p).at = p.at /\ Lost(p).stage = "lost"
           /\ Doing(Lost(p)) = "lost"
<1> DEFINE q == Lost(p)
<1>1. q \in Place /\ q.name = p.name /\ q.at = p.at /\ q.stage = "lost"
  <2>1. "lost" \in Stage  BY DEF Stage
  <2> QED  BY <2>1 DEF Place, Lost
<1> HIDE DEF q
<1>2. p.at <= Len(Script[p.name])  BY BusyPlace, PlaceTypes
<1>3. Proper(q)
  BY <1>1, <1>2, PlaceTypes DEF Proper, Inside, Structure
<1>4. Left(q) = <<"lost">> /\ Doing(q) = "lost"
  BY <1>1 DEF Left, Doing
<1> QED  BY <1>1, <1>3, <1>4 DEF q

LEMMA MutexInitKeeps ==
    ASSUME InitInv, NEW t \in Thread, MutexInit(t)  PROVE InitInv'
<1>1. PICK pc \in [Thread -> Place] : At(pc) /\ Sound(pc)
  BY DEF InitInv
<1>2. Doing(pc[t]) = "mutex_init" /\ ~bailed
  BY <1>1, InCalls DEF MutexInit
<1>3. /\ UNCHANGED <<fork, initialized, guard, ptr, count, lines, bailed, ghosts>>
      /\ mutex' = [mutex EXCEPT ![ptr] = Recursive]
      /\ inits' = inits + 1 /\ TypeOK /\ todo \in [Thread -> Seq(Steps)]
  BY DEF MutexInit, InitInv, NewMutex
<1>4. PICK lost \in SUBSET Asleep(ptr) :
          todo' = [u \in Thread |-> IF u = t THEN Tail(todo[t])
                                    ELSE IF u \in lost THEN <<"lost">> ELSE todo[u]]
  BY DEF MutexInit
<1>5. \A u \in Thread : pc[u] \in Place /\ Proper(pc[u]) /\ todo[u] = Left(pc[u])
  BY <1>1 DEF At, Placed
<1>6. \A u \in lost : u \in Thread /\ Busy(pc[u]) /\ Doing(pc[u]) = ptr
  BY <1>1, InCalls DEF Asleep
<1>7. /\ After(pc[t]).stage \in (Inside \ {"tap_init"}) \cup {"run"}
      /\ After(pc[t]).stage \in Inside =>
             pc[t].stage \in Inside \ {"unguard"} /\ After(pc[t]).at = pc[t].at
      /\ After(pc[t]).stage \in {"map", "mutex_init", "unguard"} =>
             pc[t].stage \in {"set", "map", "mutex_init"}
      /\ Busy(pc[t]) /\ pc[t].stage # "set"
      /\ Change(pc[t], After(pc[t])) /\ Left(After(pc[t])) = Tail(Left(pc[t]))
      /\ Doing(After(pc[t])) \in {"unguard", "none"}
  BY <1>2, <1>5, InitPlaces, InitDoings, InitChanges DEF Initialising
<1>8. PICK r : r = [u \in Thread |-> IF u = t THEN After(pc[t])
                                     ELSE IF u \in lost THEN Lost(pc[u]) ELSE pc[u]]
  OBVIOUS
<1>9. /\ r[t] = After(pc[t])
      /\ \A u \in Thread \ {t} : r[u] = IF u \in lost THEN Lost(pc[u]) ELSE pc[u]
  BY <1>8
<1>10. r \in [Thread -> Place]
  <2>1. After(pc[t]) \in Place  BY <1>7 DEF Change
  <2>2. \A u \in lost : Lost(pc[u]) \in Place  BY <1>5, <1>6, LostPlace
  <2> QED  BY <1>5, <1>8, <2>1, <2>2
<1>11. \A u \in Thread \ {t} :
           /\ Proper(r[u]) /\ r[u].name = pc[u].name /\ r[u].at = pc[u].at
           /\ r[u].stage = pc[u].stage \/ r[u].stage = "lost"
           /\ r[u] = pc[u] \/ Doing(r[u]) = "lost"
           /\ Busy(r[u]) => Busy(pc[u])
           /\ Left(r[u]) = IF u \in lost THEN <<"lost">> ELSE todo[u]
  BY <1>5, <1>6, <1>9, LostPlace
<1>12. Proper(r[t]) /\ r[t] \in Place /\ r[t].name = pc[t].name /\ Left(r[t]) = Tail(todo[t])
  BY <1>5, <1>7, <1>9 DEF Change
<1>13. Placed(todo', r) /\ todo' \in [Thread -> Seq(Steps)]
  <2>1. \A u \in Thread : Proper(r[u]) /\ todo'[u] = Left(r[u])
    BY <1>4, <1>11, <1>12
  <2>2. \A u \in Thread : todo'[u] \in Seq(Steps)
    BY <1>10, <2>1, LeftTypes
  <2> QED  BY <1>4, <2>1, <2>2 DEF Placed
<1>14. Guarded(r)'
  <2>1. r[t].stage \in Inside /\ r[t].stage # "unguard" => ~Seen(r[t])
    BY <1>1, <1>3, <1>7, <1>9, <1>12 DEF Sound, Guarded, Seen
  <2>1a. r[t].stage \in Inside <=> guard' = t
    <3>1. pc[t].stage \in Inside \ {"unguard"} => r[t].stage \in Inside
      BY <1>5, <1>9, Inward DEF Following, Inside
    <3>2. pc[t].stage # "unguard"
      BY <1>2, <1>5, <1>7, BusyPlace
    <3> QED  BY <1>1, <1>3, <1>7, <1>9, <3>1, <3>2 DEF Sound, Guarded
  <2>2. initialized => initialized'
    BY <1>3
  <2>3. r[t].stage \in {"map", "mutex_init", "unguard"} => initialized'
    BY <1>1, <1>3, <1>7, <1>9 DEF Sound, Guarded
  <2>4. Seen(r[t]) => initialized'
    BY <1>1, <1>2, <1>3, <1>7, <1>9 DEF Change, Sound, Guarded
  <2>5. r[t].name = "tap_init" => explicit'
    BY <1>1, <1>3, <1>7, <1>12 DEF Sound, Guarded, ghosts
  <2>6. ASSUME NEW u \in Thread \ {t}
        PROVE  /\ r[u].stage \in Inside <=> guard' = u
               /\ r[u].stage \in Inside \ {"unguard"} => ~Seen(r[u])
               /\ r[u].stage \in {"map", "mutex_init", "unguard"} => initialized'
               /\ Seen(r[u]) => initialized'
               /\ r[u].name = "tap_init" /\ Busy(r[u]) => explicit'
    <3>1. u \in lost => pc[u].stage \notin Inside
      BY <1>3, <1>5, <1>6, BusyPlace DEF TypeOK, Structure, Inside
    <3>2. pc[u].stage \in Inside => r[u] = pc[u]
      BY <1>9, <3>1
    <3>3. r[u].stage \in Inside <=> guard' = u
      BY <1>1, <1>3, <1>11, <3>2 DEF Sound, Guarded, Inside
    <3> QED  BY <1>1, <1>3, <1>11, <3>3 DEF Sound, Guarded, ghosts, Inside, Seen
  <2> QED  BY <2>1, <2>1a, <2>3, <2>4, <2>5, <2>6 DEF Guarded
<1>15. Ready'
  BY <1>3 DEF Ready, TypeOK
<1>16. Alone(r)'
  <2>1. \A u \in Thread : Busy(r[u]) => Busy(pc[u])
    BY <1>7, <1>11
  <2> QED  BY <1>1, <1>3, <1>15, <2>1 DEF Sound, Alone, ghosts
<1>17. Once(r)'
  BY <1>1, <1>2, <1>3, <1>7, <1>9, <1>10, <1>11, OnceMutexInit DEF Sound, ghosts
<1>18. Mapped(r)'
  BY <1>15 DEF Mapped
<1>19. ASSUME Good, NEW u \in Thread \ {t}  PROVE r[u] = pc[u]
  <2>1. ~Ready /\ ~overlap
    BY <1>1, <1>2, <1>19, Unready DEF Sound, Good
  <2>2. ~Busy(pc[u])
    BY <1>1, <1>7, <2>1, Lonely DEF Sound
  <2> QED  BY <1>6, <1>9, <2>2
<1>20. r[t].stage \notin Structure
  BY <1>7, <1>9 DEF Structure, Inside
<1>21. Locked(r)'
  <2>1. mutex'[ptr'] = Recursive
    BY <1>3 DEF TypeOK
  <2>2. \A u \in Thread : r[u] \in Place /\ Proper(r[u])
    BY <1>10, <1>11, <1>12
  <2> QED  BY <1>1, <1>2, <1>3, <1>7, <1>9, <1>10, <1>19, <1>20, <2>1, <2>2, LockedMutexInit DEF ghosts
<1>22. Counted(r)'
  <2> SUFFICES ASSUME Good  PROVE Counted(r)'
    BY <1>3 DEF Counted, Good, ghosts
  <2>1. Moved(pc, r, t)
    BY <1>2, <1>7, <1>9, <1>19 DEF Moved
  <2>2. Owes(r[t]) = Owes(pc[t])
    BY <1>2, <1>7, <1>9 DEF Change
  <2> QED  BY <1>1, <1>3, <1>10, <2>1, <2>2, CountedStays DEF Sound, ghosts
<1>23. TypeOK'
  <2>1. Recursive \in [owner : Thread \cup {NoThread}, depth : Nat, recursive : BOOLEAN]
    BY DEF Recursive, Fresh
  <2>2. mutex' \in [Structure -> [owner : Thread \cup {NoThread}, depth : Nat, recursive : BOOLEAN]]
    BY <1>3, <2>1 DEF TypeOK
  <2>3. inits' \in Nat
    BY <1>3 DEF TypeOK
  <2>4. \A u \in Thread : todo'[u] \in Seq(Steps)
    BY <1>13
  <2> QED  BY <1>3, <2>2, <2>3, <2>4 DEF TypeOK, ghosts
<1> QED  BY <1>10, <1>13, <1>14, <1>16, <1>17, <1>18, <1>21, <1>22, <1>23, Kept

LEMMA NotEmpty ==
    ASSUME NEW c \in Seq(Plain), Len(c) \in 4..7
    PROVE  1 <= Len(c) /\ 1 <= Len(c) + 1
  OBVIOUS

\* The place where a call begins.
LEMMA Beginning ==
    ASSUME NEW n \in Name
    PROVE  \E q \in Place :
               /\ Proper(q) /\ Busy(q) /\ q.name = n /\ q.stage = "run" /\ Left(q) = Script[n]
               /\ Held(q) = 0 /\ Owes(q) = "no" /\ ~Seen(q)
               /\ Doing(q) \notin {"set", "map", "mutex_init"}
               /\ Doing(q) = "tap_init" => n = "tap_init"
<1> DEFINE q == [name |-> n, at |-> 1, stage |-> "run"]
<1>1. q \in Place /\ q.name = n /\ q.at = 1 /\ q.stage = "run"
  BY DEF Place, Stage
<1> HIDE DEF q
<1>2. Proper(q) /\ Busy(q)
  <2>1. PICK c \in Seq(Plain) : c = Script[n] /\ Len(c) \in 4..7
    BY ScriptType
  <2>2. 1 <= Len(c) /\ 1 <= Len(c) + 1
    BY <2>1, NotEmpty
  <2> QED  BY <1>1, <2>1, <2>2 DEF Proper, Busy, Inside, Structure
<1>3. Left(q) = Script[n]
  BY <1>1, PlaceTypes, FromEnd DEF Left
<1>4. Held(q) = 0 /\ Owes(q) = "no"
  BY <1>1, Ends DEF Held, Owes
<1>5. ~Seen(q)
  BY <1>1 DEF Seen, Since, Name
<1>6. Doing(q) \in Initialising => n = "tap_init" /\ Script["tap_init"][1] = Doing(q)
  BY <1>1, <1>2, InitDoings DEF Initialising, Inside
<1>7. Doing(q) \notin {"set", "map", "mutex_init"} /\ (Doing(q) = "tap_init" => n = "tap_init")
  BY <1>6, TapInitInits DEF Initialising
<1> QED  BY <1>1, <1>2, <1>3, <1>4, <1>5, <1>7

LEMMA CallNames ==
    ASSUME NEW call \in Calls
    PROVE  \E n \in Name :
               /\ Script[n] = call
               /\ n \in {"pass", "fail", "digit"} => call \in Results
               /\ n = "tap_init" => call = InitSteps
<1>1. call \in {PassSteps, FailSteps, DigitSteps} => call \in Results
  BY DEF Results
<1>2. call \in {PassSteps, FailSteps, DigitSteps, SkipSteps, PlanSteps, InitSteps}
  BY DEF Calls, Results
<1> QED  BY <1>1, <1>2, Scripts DEF Name

LEMMA BeginKeeps ==
    ASSUME InitInv, NEW t \in Thread, NEW call \in Calls, Begin(t, call)  PROVE InitInv'
<1>1. PICK pc \in [Thread -> Place] : At(pc) /\ Sound(pc)
  BY DEF InitInv
<1>2. /\ UNCHANGED <<fork, initialized, guard, ptr, mutex, count, lines, inits, bailed>>
      /\ TypeOK /\ todo \in [Thread -> Seq(Steps)] /\ ~InCall(t) /\ ~bailed
      /\ calls[t] < MaxCalls /\ calls' = [calls EXCEPT ![t] = @ + 1]
      /\ todo' = [todo EXCEPT ![t] = call]
  BY DEF Begin, InitInv
<1>2a. /\ first' = {u \in first : InCall(u)} \cup (IF Ready THEN {} ELSE {t})
       /\ overlap' = (overlap \/ \E u \in first : InCall(u))
       /\ early' = (early \/ (~Ready /\ call \in Results))
       /\ explicit' = (explicit \/ call = InitSteps)
  BY DEF Begin
<1>3. \A u \in Thread : pc[u] \in Place /\ Proper(pc[u]) /\ todo[u] = Left(pc[u])
  BY <1>1 DEF At, Placed
<1>3a. \A u \in Thread : InCall(u) <=> Busy(pc[u])
  BY <1>1, InCalls
<1>4. PICK n \in Name :
          /\ Script[n] = call
          /\ n \in {"pass", "fail", "digit"} => call \in Results
          /\ n = "tap_init" => call = InitSteps
  BY CallNames
<1>5. PICK q \in Place :
          /\ Proper(q) /\ Busy(q) /\ q.name = n /\ q.stage = "run" /\ Left(q) = call
          /\ Held(q) = 0 /\ Owes(q) = "no" /\ ~Seen(q)
          /\ Doing(q) \notin {"set", "map", "mutex_init"}
          /\ Doing(q) = "tap_init" => n = "tap_init"
  BY <1>4, Beginning
<1>6. /\ ~Busy(pc[t]) /\ Held(pc[t]) = 0 /\ Owes(pc[t]) = "no" /\ pc[t].stage = "run"
      /\ Doing(pc[t]) = "none"
  <2>1. pc[t] \in Place /\ Proper(pc[t]) /\ ~Busy(pc[t])
    BY <1>2, <1>3, <1>3a
  <2> QED  BY <2>1, IdlePlace
<1>7. PICK r \in [Thread -> Place] : r = [pc EXCEPT ![t] = q]
  BY <1>5
<1>8. r[t] = q /\ \A u \in Thread \ {t} : r[u] = pc[u]
  BY <1>7
<1>9. Placed(todo', r) /\ todo' \in [Thread -> Seq(Steps)]
  <2>1. \A u \in Thread : Proper(r[u]) /\ todo'[u] = Left(r[u])
    <3>1. Proper(r[t]) /\ todo'[t] = Left(r[t])
      BY <1>2, <1>5, <1>8
    <3>2. ASSUME NEW u \in Thread \ {t}  PROVE Proper(r[u]) /\ todo'[u] = Left(r[u])
      BY <1>2, <1>3, <1>8
    <3> QED  BY <3>1, <3>2
  <2>2. Left(q) \in Seq(Steps)
    BY <1>5, LeftTypes
  <2> QED  BY <1>2, <1>5, <2>1, <2>2 DEF Placed
<1>10. /\ (overlap => overlap') /\ (early => early') /\ (explicit => explicit')
       /\ (Ready' <=> Ready) /\ (Good' => Good)
  BY <1>2, <1>2a DEF Ready, Good
<1>11a. guard # t
  BY <1>1, <1>6 DEF Sound, Guarded, Inside
<1>11. Guarded(r)'
  <2>1. ASSUME NEW u \in Thread \ {t}
        PROVE  /\ pc[u].stage \in Inside <=> guard' = u
               /\ pc[u].stage \in Inside \ {"unguard"} => ~Seen(pc[u])
               /\ pc[u].stage \in {"map", "mutex_init", "unguard"} => initialized'
               /\ Seen(pc[u]) => initialized'
               /\ pc[u].name = "tap_init" /\ Busy(pc[u]) => explicit'
    BY <1>1, <1>2, <1>10 DEF Sound, Guarded
  <2>2. n = "tap_init" => explicit'
    BY <1>2a, <1>4
  <2>3. guard' # t
    BY <1>2, <1>11a
  <2> QED  BY <1>5, <1>8, <2>1, <2>2, <2>3 DEF Guarded, Inside
<1>12. \A u \in Thread : u \in first /\ Busy(pc[u]) => u \in first'
  BY <1>2a, <1>3a
<1>13. Alone(r)'
  <2>1. \A u \in Thread : ~Ready' /\ Busy(r[u]) => u \in first'
    BY <1>1, <1>2a, <1>8, <1>10, <1>12 DEF Sound, Alone
  <2>2. ASSUME ~overlap', NEW u \in Thread, NEW v \in Thread,
               u \in first', Busy(r[u]), Busy(r[v])
        PROVE  u = v
    <3>1. \A w \in first : ~Busy(pc[w])
      BY <1>2, <1>2a, <1>3a, <2>2 DEF TypeOK
    <3>2. u = t /\ ~Ready
      BY <1>2, <1>2a, <1>3a, <2>2, <3>1 DEF TypeOK
    <3>3. \A w \in Thread : ~Busy(pc[w])
      BY <1>1, <3>1, <3>2 DEF Sound, Alone
    <3> QED  BY <1>8, <2>2, <3>2, <3>3
  <2>3. ASSUME ~overlap', NEW u \in Thread, guard' = u  PROVE u \in first'
    <3>1. u \in first
      BY <1>1, <1>2, <1>10, <2>3 DEF Sound, Alone
    <3>2. Busy(pc[u])
      BY <1>1, <1>2, <2>3 DEF Sound, Guarded, Busy, Inside
    <3> QED  BY <1>12, <3>1, <3>2
  <2> QED  BY <2>1, <2>2, <2>3 DEF Alone
<1>14. Once(r)'
  <2>1. ~bailed'
    BY <1>2
  <2>2. ASSUME ~overlap' \/ ~explicit'
        PROVE  /\ inits' <= 1 /\ (~initialized' => inits' = 0)
               /\ \A u \in Thread :
                      /\ Doing(r[u]) = "set" => ~initialized' /\ inits' = 0
                      /\ Doing(r[u]) \in {"map", "mutex_init"} => initialized' /\ inits' = 0
                      /\ Doing(r[u]) = "tap_init" /\ (~explicit' \/ guard' = u) => ~initialized'
    <3>1. ~overlap \/ ~explicit
      BY <1>10, <2>2
    <3>2. Doing(q) = "tap_init" => explicit'
      BY <1>2a, <1>4, <1>5
    <3> QED  BY <1>1, <1>2, <1>5, <1>8, <1>10, <1>11a, <3>1, <3>2 DEF Sound, Once
  <2> QED  BY <2>1, <2>2 DEF Once
<1>15. Mapped(r)'
  <2>1. fork' /\ ~early' /\ ~Ready' =>
            \A u \in Thread : Busy(r[u]) => r[u].name \notin {"pass", "fail", "digit"}
    BY <1>1, <1>2, <1>2a, <1>4, <1>5, <1>8, <1>10 DEF Sound, Mapped
  <2>2. Good' /\ fork' /\ ~Ready' => lines' = <<>>
    BY <1>1, <1>2, <1>10 DEF Sound, Mapped
  <2>3. Good' /\ ~bailed' /\ initialized' /\ ~Ready' =>
            \E u \in Thread : Doing(r[u]) \in {"map", "mutex_init"}
    BY <1>1, <1>2, <1>6, <1>8, <1>10 DEF Sound, Mapped
  <2> QED  BY <2>1, <2>2, <2>3 DEF Mapped
<1>16. Locked(r)'
  <2> SUFFICES ASSUME Good'  PROVE Locked(r)'
    BY DEF Locked
  <2>1. Good
    BY <1>10
  <2>2. \A u \in Thread : Mine(u)' = Mine(u)
    BY <1>2 DEF Mine
  <2>3. Mine(t) = 0
    BY <1>1, <1>6, <2>1 DEF Sound, Locked
  <2>4. ASSUME NEW u \in Thread
        PROVE  /\ r[u].stage \in Structure => r[u].stage = ptr
               /\ \/ Mine(u) = Held(r[u])
                  \/ Ready /\ u \in first' /\ Busy(r[u]) /\ Mine(u) + 1 = Held(r[u])
    <3>1. CASE u = t
      BY <1>5, <1>8, <2>3, <3>1 DEF Structure
    <3>2. CASE u # t
      BY <1>1, <1>8, <1>12, <2>1, <3>2 DEF Sound, Locked
    <3> QED  BY <3>1, <3>2
  <2>5. (\E u \in Thread : Doing(pc[u]) = "mutex_init") =>
            \E u \in Thread : Doing(r[u]) = "mutex_init"
    BY <1>6, <1>8
  <2>6. /\ mutex[ptr].owner = NoThread <=> mutex[ptr].depth = 0
        /\ mutex[ptr].recursive \/ \E u \in Thread : Doing(pc[u]) = "mutex_init"
    BY <1>1, <2>1 DEF Sound, Locked
  <2> QED  BY <1>2, <1>10, <2>2, <2>4, <2>5, <2>6 DEF Locked
<1>17. Counted(r)'
  <2>1. \A u \in Thread : Owes(r[u]) = Owes(pc[u])
    BY <1>5, <1>6, <1>8
  <2>2. UNCHANGED <<lines, ptr, count>> /\ Bad' = Bad
    BY <1>2 DEF Bad
  <2> QED  BY <1>1, <1>10, <2>1, <2>2 DEF Sound, Counted
<1>18. TypeOK'
  <2>1. calls' \in [Thread -> 0..MaxCalls]
    BY <1>2, TapInitAssumption DEF TypeOK
  <2>2. first' \subseteq Thread
    BY <1>2, <1>2a DEF TypeOK
  <2>3. overlap' \in BOOLEAN /\ early' \in BOOLEAN /\ explicit' \in BOOLEAN
    BY <1>2a, Zenon
  <2>4. \A u \in Thread : todo'[u] \in Seq(Steps)
    BY <1>9
  <2> QED  BY <1>2, <2>1, <2>2, <2>3, <2>4 DEF TypeOK
<1> QED  BY <1>9, <1>11, <1>13, <1>14, <1>15, <1>16, <1>17, <1>18, Kept

-----------------------------------------------------------------------------
(* The theorems *)

LEMMA InitInitially ==
    ASSUME Init  PROVE InitInv
<1> DEFINE q == [name |-> "pass", at |-> 5, stage |-> "run"]
<1>1. q \in Place /\ q.name = "pass" /\ q.at = 5 /\ q.stage = "run"
  BY DEF Place, Stage, Name
<1> HIDE DEF q
<1>2. Proper(q) /\ ~Busy(q)
  BY <1>1, Scripts, Lengths DEF Proper, Busy, Inside, Structure
<1>3. Left(q) = <<>> /\ Held(q) = 0 /\ Owes(q) = "no" /\ Doing(q) = "none"
  BY <1>1, <1>2, IdlePlace
<1>4. ~Seen(q)
  BY <1>1 DEF Seen, Since, Name
<1>5. PICK pc \in [Thread -> Place] : pc = [t \in Thread |-> q]
  BY <1>1
<1>6. \A t \in Thread : pc[t] = q
  BY <1>5
<1>7. <<>> \in Seq(Steps)
  OBVIOUS
<1>8. TypeOK /\ todo \in [Thread -> Seq(Steps)]
  <2>1. mutex \in [Structure -> [owner : Thread \cup {NoThread}, depth : Nat, recursive : BOOLEAN]]
    BY DEF Init, Recursive, Fresh
  <2>2. lines \in Seq([num : Nat, good : BOOLEAN])
    BY DEF Init
  <2>3. calls \in [Thread -> 0..MaxCalls]
    BY TapInitAssumption DEF Init
  <2> QED  BY <1>7, <2>1, <2>2, <2>3 DEF Init, TypeOK, Structure
<1>9. At(pc)
  BY <1>2, <1>3, <1>6 DEF At, Placed, Init
<1>10. Guarded(pc) /\ Alone(pc) /\ Once(pc) /\ Mapped(pc)
  BY <1>1, <1>2, <1>3, <1>4, <1>6, TapInitAssumption
     DEF Init, Guarded, Alone, Once, Mapped, Inside, Ready
<1>11. Locked(pc)
  <2>1. mutex[ptr] = Recursive
    BY DEF Init, Structure
  <2>2. \A t \in Thread : Mine(t) = 0
    BY <2>1 DEF Mine, Recursive, Fresh
  <2>3. mutex[ptr].owner = NoThread /\ mutex[ptr].depth = 0 /\ mutex[ptr].recursive
    BY <2>1 DEF Recursive, Fresh
  <2> QED  BY <1>1, <1>3, <1>6, <2>2, <2>3 DEF Locked, Structure
<1>12. Counted(pc)
  <2>1. Len(lines) = 0 /\ Bad = {}
    BY DEF Init, Bad
  <2>2. Cardinality(Bad) = 0
    BY <2>1, FS_EmptySet
  <2>3. count[ptr].tests = 0 /\ count[ptr].failures = 0
    BY DEF Init, Structure
  <2> HIDE DEF Bad
  <2> QED  BY <1>3, <1>6, <2>1, <2>2, <2>3 DEF Counted
<1> QED  BY <1>8, <1>9, <1>10, <1>11, <1>12 DEF InitInv, Sound

LEMMA InitInvStutters ==
    ASSUME InitInv, UNCHANGED vars  PROVE InitInv'
<1>1. PICK pc \in [Thread -> Place] : At(pc) /\ Sound(pc)
  BY DEF InitInv
<1>2. UNCHANGED <<fork, initialized, guard, ptr, mutex, count, todo, calls, lines, inits,
                  bailed, first, overlap, early, explicit>>
  BY DEF vars
<1>3. TypeOK' /\ todo' \in [Thread -> Seq(Steps)] /\ Placed(todo', pc)
  BY <1>1, <1>2 DEF InitInv, TypeOK, At
<1>4. Guarded(pc)' /\ Alone(pc)' /\ Once(pc)' /\ Mapped(pc)'
  BY <1>1, <1>2 DEF Sound, Guarded, Alone, Once, Mapped, Ready, Good
<1>5. Locked(pc)' /\ Counted(pc)'
  BY <1>1, <1>2 DEF Sound, Locked, Counted, Ready, Good, Mine, Bad
<1> QED  BY <1>3, <1>4, <1>5, Kept

LEMMA InitInvStep ==
    ASSUME InitInv, [Next]_vars  PROVE InitInv'
<1>1. ASSUME NEW t \in Thread, Step(t)  PROVE InitInv'
  BY <1>1, CheckKeeps, GuardKeeps, UnguardKeeps, TapInitCheckKeeps, SetFlagKeeps, MapKeeps,
     MutexInitKeeps, LockKeeps, AcquireKeeps, UnlockKeeps, CountKeeps, PrintKeeps DEF Step
<1>2. ASSUME NEW t \in Thread, NEW call \in Calls, Begin(t, call)  PROVE InitInv'
  BY <1>2, BeginKeeps
<1>3. CASE Stopped \/ UNCHANGED vars
  BY <1>3, InitInvStutters DEF Stopped
<1> QED  BY <1>1, <1>2, <1>3 DEF Next

\* Wherever the threads are, the places of all of them are where the invariant
\* says: it holds initially and every step keeps it.
THEOREM Initialised == Spec => []InitInv
<1>1. Init => InitInv
  BY InitInitially
<1>2. InitInv /\ [Next]_vars => InitInv'
  BY InitInvStep
<1> QED  BY <1>1, <1>2, PTL DEF Spec

\* The variables have their types, whatever the threads call and however their
\* first calls overlap: in particular no mutex is unlocked more often than it
\* was locked.
THEOREM InitTypeCorrect == Spec => []TypeOK
<1>1. InitInv => TypeOK
  BY DEF InitInv
<1> QED  BY <1>1, Initialised, PTL

\* The library is initialised once however many threads make their first call
\* at the same time, unless tap_init() is one of the calls that overlap; no
\* program that never calls tap_init() ends with "Library is already
\* initialized", and no program does while a thread is in an implicit
\* initialisation, unless its first calls overlapped.
THEOREM OneInitialisation == Spec => []InitialisedOnce
<1>1. InitInv => InitialisedOnce
  BY DEF InitInv, TypeOK, Sound, Once, InitialisedOnce
<1> QED  BY <1>1, Initialised, PTL

\* If the first call returns before another begins, and in fork mode is no
\* result, the results are numbered 1, 2, 3, ... and all of them are counted in
\* the structure that exit_status() looks at, though the implicit
\* initialisation may replace the structure, or free the mutex that its own
\* thread holds.
THEOREM NothingIsLost == Spec => []NothingLost
<1>1. InitInv => NothingLost
  <2> SUFFICES ASSUME InitInv, Good
               PROVE  /\ \A i \in 1..Len(lines) : lines[i].num = i
                      /\ Quiet => /\ count[ptr].tests = Len(lines)
                                  /\ count[ptr].failures = Cardinality(Bad)
    BY DEF NothingLost, Good
  <2>1. PICK pc \in [Thread -> Place] : At(pc) /\ Sound(pc)
    BY DEF InitInv
  <2>2. Quiet => \A t \in Thread : Owes(pc[t]) = "no"
    BY <2>1, InCalls, IdlePlace DEF Quiet
  <2>3. Len(lines) \in Nat /\ Cardinality(Bad) \in Nat
    BY BadIsFinite DEF InitInv
  <2> HIDE DEF Bad
  <2> QED  BY <2>1, <2>2, <2>3 DEF Sound, Counted
<1> QED  BY <1>1, Initialised, PTL
=============================================================================
