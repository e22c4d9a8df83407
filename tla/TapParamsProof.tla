--------------------------- MODULE TapParamsProof ---------------------------
(***************************************************************************)
(* Theorems about the options and the rounds of TapParams, for every       *)
(* number of rounds, every test program and every command line.            *)
(***************************************************************************)
EXTENDS TapParams, SequenceTheorems, FiniteSetTheorems, WellFoundedInduction, TLAPS

-----------------------------------------------------------------------------
(* Numbers *)

\* Every non-empty set of numbers has a least element.
LEMMA Least ==
    ASSUME NEW S \in SUBSET Nat, S # {}
    PROVE  \E x \in S : \A y \in S : x <= y
<1> DEFINE R == OpToRel(<, Nat)
<1>1. IsWellFoundedOn(R, Nat)
  BY NatLessThanWellFounded
<1> HIDE DEF R
<1>2. PICK x \in S : \A y \in S : ~ (<<y, x>> \in R)
  BY <1>1, WFMin
<1>3. \A y \in S : <<y, x>> \in R <=> y < x
  BY DEF R, OpToRel
<1>4. \A y \in S : y \in Nat
  OBVIOUS
<1>5. \A y \in S : ~ (y < x)
  BY <1>2, <1>3
<1> QED  BY <1>4, <1>5

LEMMA Induction ==
    ASSUME NEW S, 0 \in S, \A n \in Nat : n \in S => n + 1 \in S
    PROVE  Nat \subseteq S
<1> SUFFICES ASSUME Nat \ S # {} PROVE FALSE
  OBVIOUS
<1>1. PICK x \in Nat \ S : \A y \in Nat \ S : x <= y
  BY Least
<1>2. x # 0 /\ x - 1 \in Nat /\ x - 1 \notin Nat \ S
  BY <1>1
<1>3. (x - 1) + 1 = x
  OBVIOUS
<1> QED  BY <1>1, <1>2, <1>3

\* The least and the greatest element of a set of positions.
LEMMA MinIn == ASSUME NEW S \in SUBSET Nat, S # {} PROVE Min(S) \in S
<1>1. \E x \in S : \A y \in S : x =< y
  BY Least
<1> QED  BY <1>1 DEF Min

LEMMA MaxIn ==
    ASSUME NEW n \in Nat, NEW S \in SUBSET (1..n), S # {}
    PROVE  Max(S) \in S /\ \A i \in S : i <= Max(S)
<1> DEFINE B == {b \in Nat : \A i \in S : i <= b}
<1>1. n \in B
  OBVIOUS
<1>2. PICK b \in B : \A c \in B : b <= c
  BY <1>1, Least
<1>3. b \in S
  <2> SUFFICES ASSUME b \notin S PROVE FALSE
    OBVIOUS
  <2>1. \A i \in S : i <= b - 1 /\ i >= 1
    BY <1>2
  <2>2. PICK i \in S : TRUE
    OBVIOUS
  <2>3. b - 1 \in Nat
    BY <2>1, <2>2
  <2>4. b - 1 \in B
    BY <2>1, <2>3
  <2> QED  BY <1>2, <2>4
<1>4. \E x \in S : \A y \in S : x >= y
  BY <1>2, <1>3
<1> QED  BY <1>4 DEF Max

\* Division with remainder.
LEMMA Remainder ==
    ASSUME NEW m \in Nat \ {0}, NEW a \in Int, NEW k \in Int, NEW r \in 0..m-1, a = m * k + r
    PROVE  a % m = r
  OBVIOUS

LEMMA Divide ==
    ASSUME NEW m \in Nat \ {0}, NEW a \in Int
    PROVE  a % m \in 0..m-1 /\ \E k \in Int : a = m * k + (a % m)
<1>1. a \div m \in Int /\ a = m * (a \div m) + (a % m)
  OBVIOUS
<1>2. a % m \in 0..m-1
  OBVIOUS
<1>3. \A r : a = m * (a \div m) + r => \E k \in Int : a = m * k + r
  BY <1>1
<1> QED  BY <1>1, <1>2, <1>3

LEMMA Distribute ==
    ASSUME NEW a \in Int, NEW b \in Int, NEW c \in Int
    PROVE  a * (b + c) = a * b + a * c /\ a * b \in Int /\ a * c \in Int
  OBVIOUS

LEMMA AddRemainder ==
    ASSUME NEW m \in Nat \ {0}, NEW a \in Int, NEW b \in Int
    PROVE  ((a % m) + b) % m = (a + b) % m
<1>1. PICK r \in 0..m-1 : a % m = r /\ \E k \in Int : a = m * k + r
  BY Divide
<1>2. PICK k \in Int : a = m * k + r
  BY <1>1
<1>3. PICK c \in Int : c = r + b
  OBVIOUS
<1>4. PICK s \in 0..m-1 : c % m = s /\ \E l \in Int : c = m * l + s
  BY Divide
<1>5. PICK l \in Int : c = m * l + s
  BY <1>4
<1>6. a + b = m * (k + l) + s /\ k + l \in Int /\ a + b \in Int
  <2>1. m * (k + l) = m * k + m * l /\ m * k \in Int /\ m * l \in Int
    BY Distribute
  <2> QED  BY <1>2, <1>3, <1>5, <2>1
<1>7. (a + b) % m = s
  BY <1>6, Remainder
<1> QED  BY <1>1, <1>3, <1>4, <1>7

-----------------------------------------------------------------------------
(* Folds *)

\* Recursion of a bounded depth: a function of s that is defined by its value
\* at prev[s], which is nearer to the end.
Recurs(D, size, top, prev, B, base, step) ==
    /\ top \in Nat /\ base \in B
    /\ \A s \in D : size[s] \in 0..top
    /\ \A s \in D : size[s] > 0 =>
           /\ prev[s] \in D /\ size[prev[s]] < size[s]
           /\ \A b \in B : step[s][b] \in B

LEMMA Recursion ==
    ASSUME NEW D, NEW size, NEW top, NEW prev, NEW B, NEW base, NEW step,
           Recurs(D, size, top, prev, B, base, step)
    PROVE  \E g \in [D -> B] : \A s \in D :
               g[s] = IF size[s] = 0 THEN base ELSE step[s][g[prev[s]]]
<1> DEFINE Good(g, s) == g[s] = IF size[s] = 0 THEN base ELSE step[s][g[prev[s]]]
           N == {n \in Nat : \E g \in [D -> B] : \A s \in D : size[s] <= n => Good(g, s)}
<1> /\ top \in Nat /\ base \in B
    /\ \A s \in D : size[s] \in 0..top
    /\ \A s \in D : size[s] > 0 => prev[s] \in D /\ size[prev[s]] < size[s]
    /\ \A s \in D : size[s] > 0 => \A b \in B : step[s][b] \in B
  BY DEF Recurs
<1> HIDE DEF Good
<1>1. 0 \in N
  <2> DEFINE g == [s \in D |-> base]
  <2>1. g \in [D -> B] /\ \A s \in D : g[s] = base
    OBVIOUS
  <2> HIDE DEF g
  <2>2. \A s \in D : size[s] <= 0 => Good(g, s)
    BY <2>1 DEF Good
  <2> QED  BY <2>1, <2>2
<1>2. ASSUME NEW n \in Nat, n \in N PROVE n + 1 \in N
  <2>1. PICK g \in [D -> B] : \A s \in D : size[s] <= n => Good(g, s)
    BY <1>2
  <2> HIDE DEF N
  <2> DEFINE h == [s \in D |-> IF size[s] = n + 1 THEN step[s][g[prev[s]]] ELSE g[s]]
  <2>2. \A s \in D : h[s] = IF size[s] = n + 1 THEN step[s][g[prev[s]]] ELSE g[s]
    OBVIOUS
  <2>3. h \in [D -> B]
    <3>1. \A s \in D : size[s] = n + 1 => size[s] > 0
      OBVIOUS
    <3>2. \A s \in D : size[s] = n + 1 => step[s][g[prev[s]]] \in B
      BY <3>1
    <3> QED  BY <3>2
  <2> HIDE DEF h
  <2>4. ASSUME NEW s \in D, size[s] <= n + 1 PROVE Good(h, s)
    <3>1. CASE size[s] = 0
      BY <2>1, <2>2, <3>1 DEF Good
    <3>2. CASE size[s] > 0
      <4>1. h[prev[s]] = g[prev[s]]
        BY <2>2, <2>4, <3>2
      <4>2. CASE size[s] = n + 1
        BY <2>2, <3>2, <4>1, <4>2 DEF Good
      <4>3. CASE size[s] <= n
        BY <2>1, <2>2, <3>2, <4>1, <4>3 DEF Good
      <4> QED  BY <2>4, <4>2, <4>3
    <3> QED  BY <3>1, <3>2
  <2> QED  BY <2>3, <2>4 DEF N
<1>3. Nat \subseteq N
  <2> HIDE DEF N
  <2> QED  BY <1>1, <1>2, Induction
<1>4. PICK g \in [D -> B] : \A s \in D : size[s] <= top => Good(g, s)
  BY <1>3
<1> QED  BY <1>4 DEF Good

\* Whatever satisfies the recursive definition has its type.
LEMMA RecursionType ==
    ASSUME NEW D, NEW size, NEW top, NEW prev, NEW B, NEW base, NEW step,
           Recurs(D, size, top, prev, B, base, step),
           NEW h, \A s \in D : /\ size[s] = 0 => h[s] = base
                               /\ size[s] > 0 /\ h[prev[s]] \in B => h[s] = step[s][h[prev[s]]]
    PROVE  \A s \in D : h[s] \in B
<1> DEFINE N == {n \in Nat : \A s \in D : size[s] <= n => h[s] \in B}
<1>1. /\ top \in Nat /\ base \in B
      /\ \A s \in D : size[s] \in 0..top
      /\ \A s \in D : size[s] > 0 => prev[s] \in D /\ size[prev[s]] < size[s]
      /\ \A s \in D : size[s] > 0 => \A b \in B : step[s][b] \in B
  BY DEF Recurs
<1>2. 0 \in N
  BY <1>1
<1>3. ASSUME NEW n \in Nat, n \in N PROVE n + 1 \in N
  <2>1. ASSUME NEW s \in D, size[s] <= n + 1 PROVE h[s] \in B
    <3>1. CASE size[s] = 0
      BY <1>1, <3>1
    <3>2. CASE size[s] > 0
      <4>1. prev[s] \in D /\ size[prev[s]] <= n
        BY <1>1, <2>1, <3>2
      <4>2. h[prev[s]] \in B
        BY <1>3, <4>1
      <4> QED  BY <1>1, <3>2, <4>2
    <3> QED  BY <1>1, <3>1, <3>2
  <2> QED  BY <2>1
<1> HIDE DEF N
<1>4. top \in N
  BY <1>1, <1>2, <1>3, Induction
<1> QED  BY <1>1, <1>4 DEF N

-----------------------------------------------------------------------------
(* The plans of a set of rounds *)

PlanSum(S) == MapThenSumSet(LAMBDA i : Plan[i], S)

\* How MapThenSumSet() adds them up.
Pick(s) == CHOOSE x \in s : TRUE
AddsUp(g, S) ==
    g = [s \in SUBSET S |-> IF s = {} THEN 0 ELSE Plan[Pick(s)] + g[s \ {Pick(s)}]]

LEMMA Picks ==
    ASSUME NEW s \in SUBSET Round
    PROVE  /\ IsFiniteSet(s) /\ Cardinality(s) \in 0..Rounds
           /\ Cardinality(s) = 0 <=> s = {}
           /\ s # {} => Pick(s) \in s
           /\ \A x \in s : Cardinality(s \ {x}) = Cardinality(s) - 1
<1>1. Rounds \in Nat /\ IsFiniteSet(Round) /\ Cardinality(Round) = Rounds
  BY TapParamsAssumption, FS_Interval DEF Round
<1>2. IsFiniteSet(s) /\ Cardinality(s) <= Rounds /\ Cardinality(s) \in Nat
  BY <1>1, FS_Subset, FS_CardinalityType
<1>3. Cardinality(s) = 0 <=> s = {}
  BY <1>2, FS_EmptySet
<1>4. \A x \in s : Cardinality(s \ {x}) = Cardinality(s) - 1
  BY <1>2, FS_RemoveElement
<1>5. s # {} => Pick(s) \in s
  BY DEF Pick
<1>6. Cardinality(s) \in 0..Rounds
  BY <1>1, <1>2
<1> QED  BY <1>2, <1>3, <1>4, <1>5, <1>6, Zenon

LEMMA SumExists ==
    ASSUME NEW S \in SUBSET Round
    PROVE  \E g \in [SUBSET S -> Nat] : AddsUp(g, S)
<1> DEFINE D == SUBSET S
           size == [s \in D |-> Cardinality(s)]
           prev == [s \in D |-> s \ {Pick(s)}]
           step == [s \in D |-> [b \in Nat |-> Plan[Pick(s)] + b]]
<1>1. \A s \in D : size[s] = Cardinality(s) /\ prev[s] = s \ {Pick(s)}
  OBVIOUS
<1>2. \A s \in D : \A b \in Nat : step[s][b] = Plan[Pick(s)] + b
  OBVIOUS
<1>3. \A s \in D : s \in SUBSET Round /\ \A x : s \ {x} \in D
  OBVIOUS
<1> HIDE DEF D, size, prev, step
<1>4. \A s \in D : size[s] \in 0..Rounds
  BY <1>1, <1>3, Picks
<1>5. \A s \in D : size[s] > 0 => s # {}
  BY <1>1, <1>3, Picks
<1>6. \A s \in D : s # {} => prev[s] \in D /\ size[prev[s]] = size[s] - 1
  <2>1. ASSUME NEW s \in D, s # {}
        PROVE  prev[s] \in D /\ Cardinality(prev[s]) = Cardinality(s) - 1
    <3>1. s \in SUBSET Round /\ prev[s] \in D
      BY <1>1, <1>3
    <3>2. Pick(s) \in s
      BY <2>1, <3>1, Picks
    <3>3. Cardinality(s \ {Pick(s)}) = Cardinality(s) - 1
      BY <3>1, <3>2, Picks
    <3> QED  BY <1>1, <3>1, <3>3
  <2> QED  BY <1>1, <2>1
<1>7. \A s \in D : size[s] > 0 => prev[s] \in D /\ size[prev[s]] < size[s]
  BY <1>4, <1>5, <1>6
<1>8. \A s \in D : size[s] > 0 => \A b \in Nat : step[s][b] \in Nat
  <2>1. \A x \in Round : Plan[x] \in Nat
    BY TapParamsAssumption
  <2>2. \A s \in D : size[s] > 0 => Pick(s) \in Round
    BY <1>3, <1>5, Picks
  <2> QED  BY <1>2, <2>1, <2>2
<1>9. Rounds \in Nat /\ 0 \in Nat
  BY TapParamsAssumption
<1>10. PICK g \in [D -> Nat] : \A s \in D :
           g[s] = IF size[s] = 0 THEN 0 ELSE step[s][g[prev[s]]]
  <2>1. Recurs(D, size, Rounds, prev, Nat, 0, step)
    BY <1>4, <1>7, <1>8, <1>9 DEF Recurs
  <2> QED  BY <2>1, Recursion
<1>11. ASSUME NEW s \in D
       PROVE  g[s] = IF s = {} THEN 0 ELSE Plan[Pick(s)] + g[s \ {Pick(s)}]
  <2>1. size[s] = 0 <=> s = {}
    BY <1>1, <1>3, Picks
  <2>2. CASE s = {}
    BY <1>10, <2>1, <2>2
  <2>3. CASE s # {}
    <3>1. prev[s] = s \ {Pick(s)} /\ g[prev[s]] \in Nat
      BY <1>1, <1>6, <1>10, <2>3
    <3>2. step[s][g[prev[s]]] = Plan[Pick(s)] + g[prev[s]]
      BY <1>2, <3>1
    <3>3. g[s] = step[s][g[prev[s]]]
      BY <1>10, <2>1, <2>3
    <3> QED  BY <2>3, <3>1, <3>2, <3>3, Zenon
  <2> QED  BY <2>2, <2>3
<1>12. AddsUp(g, S)
  <2>1. g = [s \in D |-> IF s = {} THEN 0 ELSE Plan[Pick(s)] + g[s \ {Pick(s)}]]
    BY <1>10, <1>11
  <2> QED  BY <2>1 DEF D, AddsUp
<1> QED  BY <1>12 DEF D

\* A property that sets of rounds have as soon as all of the smaller ones do.
LEMMA RoundInduction ==
    ASSUME NEW C, \A s \in SUBSET Round : (\A x \in s : s \ {x} \in C) => s \in C
    PROVE  \A s \in SUBSET Round : s \in C
<1> DEFINE N == {n \in Nat : \A s \in SUBSET Round : Cardinality(s) = n => s \in C}
<1>1. 0 \in N
  BY Picks
<1>2. ASSUME NEW n \in Nat, n \in N PROVE n + 1 \in N
  <2>1. ASSUME NEW s \in SUBSET Round, Cardinality(s) = n + 1 PROVE s \in C
    <3>1. ASSUME NEW x \in s PROVE s \ {x} \in C
      <4>1. Cardinality(s \ {x}) = Cardinality(s) - 1 /\ s \ {x} \in SUBSET Round
        BY Picks
      <4>2. Cardinality(s \ {x}) = n
        BY <2>1, <4>1
      <4> QED  BY <1>2, <4>1, <4>2
    <3> QED  BY <3>1
  <2> QED  BY <2>1
<1> HIDE DEF N
<1>3. Nat \subseteq N
  BY <1>1, <1>2, Induction
<1>4. ASSUME NEW s \in SUBSET Round PROVE s \in C
  <2>1. Cardinality(s) \in Nat
    BY Picks
  <2> QED  BY <1>3, <2>1 DEF N
<1> QED  BY <1>4

LEMMA AddsUpOne ==
    ASSUME NEW S, NEW g, AddsUp(g, S), NEW s, s \subseteq S
    PROVE  /\ s = {} => g[s] = 0
           /\ s # {} => g[s] = Plan[Pick(s)] + g[s \ {Pick(s)}]
<1>1. g = [t \in SUBSET S |-> IF t = {} THEN 0 ELSE Plan[Pick(t)] + g[t \ {Pick(t)}]]
  BY DEF AddsUp
<1>2. g[s] = IF s = {} THEN 0 ELSE Plan[Pick(s)] + g[s \ {Pick(s)}]
  BY <1>1, Zenon
<1> QED  BY <1>2

LEMMA SumIsUnique ==
    ASSUME NEW S \in SUBSET Round, NEW T \in SUBSET Round, NEW g, NEW h,
           AddsUp(g, S), AddsUp(h, T)
    PROVE  \A s \in SUBSET Round : s \subseteq S /\ s \subseteq T => g[s] = h[s] /\ g[s] \in Nat
<1> DEFINE Same(s) == s \subseteq S /\ s \subseteq T => g[s] = h[s] /\ g[s] \in Nat
           C == {s \in SUBSET Round : Same(s)}
<1>1. ASSUME NEW s \in SUBSET Round, \A x \in s : s \ {x} \in C PROVE Same(s)
  <2> SUFFICES ASSUME s \subseteq S, s \subseteq T PROVE g[s] = h[s] /\ g[s] \in Nat
    OBVIOUS
  <2>4. /\ s = {} => g[s] = 0
        /\ s # {} => g[s] = Plan[Pick(s)] + g[s \ {Pick(s)}]
    <3>1. g[s] = IF s = {} THEN 0 ELSE Plan[Pick(s)] + g[s \ {Pick(s)}]
      BY DEF AddsUp
    <3> QED  BY <3>1
  <2>5. /\ s = {} => h[s] = 0
        /\ s # {} => h[s] = Plan[Pick(s)] + h[s \ {Pick(s)}]
    <3>1. h[s] = IF s = {} THEN 0 ELSE Plan[Pick(s)] + h[s \ {Pick(s)}]
      BY DEF AddsUp
    <3> QED  BY <3>1
  <2>1. CASE s = {}
    BY <2>1, <2>4, <2>5
  <2>2. CASE s # {}
    <3>1. Pick(s) \in s
      BY <2>2, Picks
    <3> DEFINE t == s \ {Pick(s)}
    <3>2. t \in C /\ t \subseteq S /\ t \subseteq T
      BY <1>1, <3>1
    <3>3. g[t] = h[t] /\ g[t] \in Nat
      BY <3>2
    <3>4. g[s] = Plan[Pick(s)] + g[t] /\ h[s] = Plan[Pick(s)] + h[t]
      BY <2>2, <2>4, <2>5, Zenon
    <3>5. Plan[Pick(s)] \in Nat
      BY <3>1, TapParamsAssumption
    <3> HIDE DEF t
    <3> QED  BY <3>3, <3>4, <3>5
  <2> QED  BY <2>1, <2>2
<1> HIDE DEF Same
<1>2. \A s \in SUBSET Round : s \in C
  BY <1>1, RoundInduction
<1> QED  BY <1>2 DEF Same

\* The fold is what it says, and adds up to a number.
LEMMA PlanSumAdds ==
    ASSUME NEW S \in SUBSET Round
    PROVE  \E g \in [SUBSET S -> Nat] : AddsUp(g, S) /\ PlanSum(S) = g[S]
<1> DEFINE h == CHOOSE f : AddsUp(f, S)
<1>1. PICK g \in [SUBSET S -> Nat] : AddsUp(g, S)
  BY SumExists
<1>2. AddsUp(h, S)
  BY <1>1
<1>3. PlanSum(S) = h[S]
  BY DEF PlanSum, MapThenSumSet, MapThenFoldSet, AddsUp, Pick
<1> HIDE DEF h
<1>4. h[S] = g[S]
  BY <1>1, <1>2, SumIsUnique
<1> QED  BY <1>1, <1>3, <1>4

\* The sum of the plans is a number, and can be taken apart at any round.
LEMMA PlanSumPick ==
    ASSUME NEW S \in SUBSET Round
    PROVE  /\ PlanSum(S) \in Nat
           /\ S = {} => PlanSum(S) = 0
           /\ S # {} => PlanSum(S) = Plan[Pick(S)] + PlanSum(S \ {Pick(S)})
<1>1. PICK g \in [SUBSET S -> Nat] : AddsUp(g, S) /\ PlanSum(S) = g[S]
  BY PlanSumAdds
<1>2. PlanSum(S) \in Nat /\ (S = {} => PlanSum(S) = 0)
  BY <1>1, AddsUpOne
<1>3. CASE S # {}
  <2> DEFINE T == S \ {Pick(S)}
  <2>1. T \in SUBSET Round /\ T \subseteq S
    OBVIOUS
  <2>2. PICK h : AddsUp(h, T) /\ PlanSum(T) = h[T]
    BY <2>1, PlanSumAdds
  <2>3. h[T] = g[T]
    BY <1>1, <2>1, <2>2, SumIsUnique
  <2>4. g[S] = Plan[Pick(S)] + g[T]
    BY <1>1, <1>3, AddsUpOne
  <2> QED  BY <1>1, <1>2, <2>2, <2>3, <2>4
<1> QED  BY <1>2, <1>3

LEMMA PlanSumRemove ==
    ASSUME NEW S \in SUBSET Round, NEW x \in S
    PROVE  PlanSum(S) = Plan[x] + PlanSum(S \ {x}) /\ PlanSum(S \ {x}) \in Nat
<1> DEFINE C == {s \in SUBSET Round : \A y \in s : PlanSum(s) = Plan[y] + PlanSum(s \ {y})}
<1>1. ASSUME NEW s \in SUBSET Round, \A y \in s : s \ {y} \in C, NEW y \in s
      PROVE  PlanSum(s) = Plan[y] + PlanSum(s \ {y})
  <2> DEFINE z == Pick(s)
  <2>1. z \in s
    BY Picks
  <2>2. PlanSum(s) = Plan[z] + PlanSum(s \ {z})
    BY <2>1, PlanSumPick
  <2> HIDE DEF z
  <2>3. CASE y = z
    BY <2>2, <2>3
  <2>4. CASE y # z
    <3>1. s \ {y} \in C /\ z \in s \ {y} /\ s \ {z} \in C /\ y \in s \ {z}
      BY <1>1, <2>1, <2>4
    <3>2. /\ PlanSum(s \ {z}) = Plan[y] + PlanSum((s \ {z}) \ {y})
          /\ PlanSum(s \ {y}) = Plan[z] + PlanSum((s \ {y}) \ {z})
      BY <3>1
    <3>3. (s \ {z}) \ {y} = (s \ {y}) \ {z}
      OBVIOUS
    <3>4. /\ PlanSum((s \ {z}) \ {y}) \in Nat
          /\ Plan[y] \in Nat /\ Plan[z] \in Nat
      BY <2>1, PlanSumPick, TapParamsAssumption
    <3>5. PICK r : r = PlanSum((s \ {z}) \ {y})
      OBVIOUS
    <3> QED  BY <2>2, <3>2, <3>3, <3>4, <3>5
  <2> QED  BY <2>3, <2>4
<1>2. \A s \in SUBSET Round : (\A y \in s : s \ {y} \in C) => s \in C
  BY <1>1
<1> HIDE DEF C
<1>3. S \in C
  BY <1>2, RoundInduction
<1> QED  BY <1>3, PlanSumPick DEF C

-----------------------------------------------------------------------------
(* The invariant *)

Arg == Number \cup Word \cup {Own}
Record == [name : Seq(STRING), count : Nat]
Run == [round : Round, values : [Param -> Arg]]

\* The types, with those of the sequences.
Typed ==
    /\ program \in Program
    /\ section = program.section
    /\ argv \in Seq(program.options)
    /\ preset \in SUBSET Round /\ skip \in SUBSET Round
    /\ disabled \in BOOLEAN /\ active \in BOOLEAN /\ verbose \in BOOLEAN
    /\ count \in Int
    /\ DOMAIN override \subseteq Param
    /\ override \in [DOMAIN override -> Arg]
    /\ parsing \in {"init", "members", "done", "crashed"}
    /\ records \in Seq(Record)
    /\ pos \in 0..Len(section)+1 /\ rec \in 0..Len(records)
    /\ planned \in 0..IntSize-1 /\ test_count \in 0..IntSize-1
    /\ round \in 0..Rounds /\ turn \in Nat
    /\ rounds \in Seq(Run)
    /\ code \in {Running} \cup 0..255

\* What comes after what: the definition, the options or -i, and the rounds.
Ordered ==
    /\ parsing # "done" => argv = <<>> /\ DOMAIN override = {} /\ planned = 0
    /\ pos = 0 => rec = 0 /\ rest = <<>>
    /\ pos # 0 => planned = 0
    /\ planned = 0 => round = 0 /\ turn = 0 /\ rounds = <<>> /\ test_count = 0

Mistakes == \E i \in 1..Len(argv) : Mistaken(argv[i])

\* The program has done what the options said, as far as they are read.
Followed ==
    ~Mistakes =>
        /\ count = Times /\ count >= 1
        /\ disabled <=> Given("r") # {}
        /\ skip = Round \ Selected
        /\ \A p \in Param : GetOverride(p, Own) = Wanted(p)
        /\ ~active => DOMAIN override = {}

\* The calls of tap_main() for a round.
Runs(r) == {i \in 1..Len(rounds) : rounds[i].round = r}

\* How far the loops are, in calls of tap_main() ...
Looped ==
    planned > 0 =>
        /\ \A i \in 1..Len(rounds) : rounds[i].round \in Round \ skip /\ rounds[i].round <= round
        /\ \A i, j \in 1..Len(rounds) : i < j => rounds[i].round <= rounds[j].round
        /\ \A r \in Round \ skip : r < round => Cardinality(Runs(r)) = count
        /\ Cardinality(Runs(round)) = turn
        /\ turn > 0 => turn <= count /\ round \in Round \ skip

\* ... and in tests.
Before == {r \in Round \ skip : r < round}
Tested ==
    planned > 0 =>
        /\ planned = (Total * count) % IntSize
        /\ test_count = (count * PlanSum(Before)
                         + IF round < Rounds THEN turn * Plan[round] ELSE 0) % IntSize

ParamsInv ==
    /\ Typed /\ Ordered /\ NothingAfterAMistake /\ Followed
    /\ Looped /\ SeesTheLastOverride
    /\ Tested /\ PlanMatchesRounds

-----------------------------------------------------------------------------
(* The options, one by one *)

LEMMA Appended ==
    ASSUME NEW T, NEW s \in Seq(T), NEW o \in T
    PROVE  /\ Append(s, o) \in Seq(T)
           /\ Len(s) \in Nat /\ Len(Append(s, o)) = Len(s) + 1
           /\ \A i \in 1..Len(s) : Append(s, o)[i] = s[i]
           /\ Append(s, o)[Len(s) + 1] = o
  OBVIOUS

\* The last of a set of positions, before and after one more option.
LEMMA MaxIs == ASSUME NEW n \in Nat, NEW S \in SUBSET (1..n), n \in S PROVE Max(S) = n
<1>1. Max(S) \in S /\ n <= Max(S)
  BY MaxIn
<1>2. Max(S) \in 1..n
  BY <1>1
<1> QED  BY <1>1, <1>2

LEMMA Programs ==
    ASSUME program \in Program
    PROVE  /\ program.max \in Nat
           /\ program.options \subseteq Option
           /\ program.presets \subseteq SUBSET Round
           /\ program.section \in Seq([tag : Seq(STRING), value : Seq(STRING), sep : BOOLEAN])
  BY TapParamsAssumption

LEMMA Options ==
    ASSUME NEW o \in Option
    PROVE  /\ o.opt \in {"h", "i", "v", "?", "r", "c", "p"}
           /\ o.opt = "r" => o.tokens \in Seq([start : Int, end : Int])
           /\ o.opt = "c" => o.number \in BOOLEAN /\ o.count \in Int
           /\ o.opt = "p" => o.sep \in BOOLEAN /\ o.name \in Seq(STRING) /\ o.value \in Number \cup Word
<1> USE DEF Option
<1>1. CASE o \in [opt : {"h", "i", "v", "?"}]
  BY <1>1
<1>2. CASE o \in [opt : {"r"}, tokens : Seq([start : Int, end : Int])]
  BY <1>2
<1>3. CASE o \in [opt : {"c"}, number : BOOLEAN, count : Int]
  BY <1>3
<1>4. CASE o \in [opt : {"p"}, sep : BOOLEAN, name : Seq(STRING), value : Number \cup Word]
  BY <1>4
<1> QED  BY <1>1, <1>2, <1>3, <1>4

\* The parameters stay what they are once they are known.
LEMMA ParamsStay ==
    ASSUME UNCHANGED defVars
    PROVE  /\ Param' = Param
           /\ \A n, v : Takes(n, v)' <=> Takes(n, v)
           /\ \A o : Mistaken(o)' <=> Mistaken(o)
<1>1. params' = params
  BY DEF defVars
<1>2. Param' = Param
  BY <1>1 DEF Param
<1>3. \A n : TypeOf(n)' = TypeOf(n)
  BY <1>1 DEF TypeOf, SelectInSeq
<1>4. \A n, v : Takes(n, v)' <=> Takes(n, v)
  BY <1>2, <1>3 DEF Takes
<1>5. \A o : Mistaken(o)' <=> Mistaken(o)
  BY <1>4 DEF Mistaken
<1> QED  BY <1>2, <1>4, <1>5

\* One more option: what was given before, and what is a mistake.
LEMMA ReadsOne ==
    ASSUME ParamsInv, NEW o \in program.options, Reads(o)
    PROVE  /\ Len(argv) \in Nat /\ Len(argv') = Len(argv) + 1
           /\ argv' \in Seq(program.options)
           /\ \A i \in 1..Len(argv) : argv'[i] = argv[i]
           /\ argv'[Len(argv) + 1] = o
           /\ o \in Option
           /\ ~Mistakes /\ Param' = Param
           /\ Mistakes' <=> Mistaken(o)
<1>1. argv \in Seq(program.options) /\ argv' = Append(argv, o) /\ code = Running
  BY DEF ParamsInv, Typed, Reads
<1>2. /\ Len(argv) \in Nat /\ Len(argv') = Len(argv) + 1
      /\ argv' \in Seq(program.options)
      /\ \A i \in 1..Len(argv) : argv'[i] = argv[i]
      /\ argv'[Len(argv) + 1] = o
  BY <1>1, Appended
<1>3. o \in Option
  BY Programs DEF ParamsInv, Typed
<1>4. ~Mistakes
  BY <1>1 DEF ParamsInv, NothingAfterAMistake, Mistakes, Running
<1>5. UNCHANGED defVars
  BY DEF Reads
<1>6. Param' = Param /\ \A x : Mistaken(x)' <=> Mistaken(x)
  BY <1>5, ParamsStay
<1>7. Mistakes' <=> \E i \in 1..Len(argv') : \E x : x = argv'[i] /\ Mistaken(x)'
  BY DEF Mistakes
<1> QED  BY <1>2, <1>3, <1>4, <1>6, <1>7 DEF Mistakes

\* What the command line means after one more option.
LEMMA GivenStep ==
    ASSUME ParamsInv, NEW o \in program.options, Reads(o), NEW opt
    PROVE  /\ Given(opt) \in SUBSET (1..Len(argv))
           /\ Given(opt)' = Given(opt) \cup {i \in {Len(argv) + 1} : o.opt = opt}
<1>1. Given(opt)' = {i \in 1..Len(argv') : argv'[i].opt = opt}
  BY DEF Given
<1>2. Given(opt) = {i \in 1..Len(argv) : argv[i].opt = opt}
  BY DEF Given
<1>3. /\ Len(argv) \in Nat /\ Len(argv') = Len(argv) + 1
      /\ \A i \in 1..Len(argv) : argv'[i] = argv[i]
      /\ argv'[Len(argv) + 1] = o
  BY ReadsOne
<1>4. \A i : i \in 1..Len(argv') <=> i \in 1..Len(argv) \/ i = Len(argv) + 1
  BY <1>3
<1>5. ASSUME NEW i PROVE i \in Given(opt)' <=> i \in Given(opt) \/ (i = Len(argv) + 1 /\ o.opt = opt)
  <2>1. CASE i \in 1..Len(argv)
    <3>1. argv'[i] = argv[i] /\ i # Len(argv) + 1
      BY <1>3, <2>1
    <3> QED  BY <1>1, <1>2, <1>4, <2>1, <3>1
  <2>2. CASE i = Len(argv) + 1
    <3>1. argv'[i] = o /\ i \notin 1..Len(argv)
      BY <1>3, <2>2
    <3> QED  BY <1>1, <1>2, <1>4, <2>2, <3>1
  <2>3. CASE i \notin 1..Len(argv) /\ i # Len(argv) + 1
    BY <1>1, <1>2, <1>4, <2>3
  <2> QED  BY <2>1, <2>2, <2>3
<1> QED  BY <1>2, <1>5

LEMMA GivenSame ==
    ASSUME ParamsInv, NEW o \in program.options, Reads(o), NEW opt, o.opt # opt
    PROVE  Given(opt)' = Given(opt)
<1>1. Given(opt)' = Given(opt) \cup {i \in {Len(argv) + 1} : o.opt = opt}
  BY GivenStep
<1> QED  BY <1>1

LEMMA TimesStep ==
    ASSUME ParamsInv, NEW o \in program.options, Reads(o)
    PROVE  Times' = IF o.opt = "c" THEN o.count ELSE Times
<1> DEFINE S == Given("c")
<1>1. /\ Len(argv) \in Nat
      /\ \A i \in 1..Len(argv) : argv'[i] = argv[i]
      /\ argv'[Len(argv) + 1] = o
  BY ReadsOne
<1>2. S \in SUBSET (1..Len(argv)) /\ S' = S \cup {i \in {Len(argv) + 1} : o.opt = "c"}
  BY GivenStep
<1>3. /\ Times' = IF S' = {} THEN 1 ELSE argv'[Max(S')].count
      /\ Times = IF S = {} THEN 1 ELSE argv[Max(S)].count
  BY DEF Times, LastArg
<1> HIDE DEF S
<1>4. CASE o.opt = "c"
  <2>1. PICK n \in Nat : n = Len(argv) + 1
    BY <1>1
  <2>2. S' \in SUBSET (1..n) /\ n \in S'
    <3>1. n \in 1..n /\ \A i \in 1..Len(argv) : i \in 1..n
      BY <1>1, <2>1
    <3>2. S' = S \cup {n}
      BY <1>2, <1>4, <2>1
    <3> QED  BY <1>2, <3>1, <3>2
  <2>3. Max(S') = n
    BY <2>2, MaxIs
  <2> QED  BY <1>1, <1>3, <1>4, <2>1, <2>2, <2>3
<1>5. CASE o.opt # "c"
  <2>1. S' = S
    BY <1>2, <1>5
  <2>2. S # {} => Max(S) \in 1..Len(argv)
    BY <1>1, <1>2, MaxIn
  <2> QED  BY <1>1, <1>3, <1>5, <2>1, <2>2
<1> QED  BY <1>4, <1>5

LEMMA WantedStep ==
    ASSUME ParamsInv, NEW o \in program.options, Reads(o), NEW p
    PROVE  Wanted(p)' = IF o.opt = "p" /\ o.name = p THEN o.value ELSE Wanted(p)
<1> DEFINE S == {i \in Given("p") : argv[i].name = p}
<1>1. /\ Len(argv) \in Nat
      /\ \A i \in 1..Len(argv) : argv'[i] = argv[i]
      /\ argv'[Len(argv) + 1] = o
  BY ReadsOne
<1>2. /\ Given("p") \in SUBSET (1..Len(argv))
      /\ Given("p")' = Given("p") \cup {i \in {Len(argv) + 1} : o.opt = "p"}
  BY GivenStep
<1>3. /\ Wanted(p)' = IF S' = {} THEN Own ELSE argv'[Max(S')].value
      /\ Wanted(p) = IF S = {} THEN Own ELSE argv[Max(S)].value
  BY DEF Wanted, LastArg
<1>4. S' = S \cup {i \in {Len(argv) + 1} : o.opt = "p" /\ o.name = p}
  <2>1. \A i : i \in S' <=> i \in Given("p")' /\ argv'[i].name = p
    OBVIOUS
  <2>2. \A i : i \in Given("p") => argv'[i] = argv[i]
    BY <1>1, <1>2
  <2>3. \A i : i \in S <=> i \in Given("p") /\ argv[i].name = p
    OBVIOUS
  <2> HIDE DEF S
  <2>4. \A i : i \in S' <=> i \in S \/ (i = Len(argv) + 1 /\ o.opt = "p" /\ o.name = p)
    BY <1>1, <1>2, <2>1, <2>2, <2>3
  <2> QED  BY <2>4
<1>5. S \in SUBSET (1..Len(argv))
  BY <1>2
<1> HIDE DEF S
<1>6. CASE o.opt = "p" /\ o.name = p
  <2>1. PICK n \in Nat : n = Len(argv) + 1
    BY <1>1
  <2>2. S' \in SUBSET (1..n) /\ n \in S'
    <3>1. n \in 1..n /\ \A i \in 1..Len(argv) : i \in 1..n
      BY <1>1, <2>1
    <3>2. S' = S \cup {n}
      BY <1>4, <1>6, <2>1
    <3> QED  BY <1>5, <3>1, <3>2
  <2>3. Max(S') = n
    BY <2>2, MaxIs
  <2> QED  BY <1>1, <1>3, <1>6, <2>1, <2>2, <2>3
<1>7. CASE ~(o.opt = "p" /\ o.name = p)
  <2>1. S' = S
    BY <1>4, <1>7
  <2>2. S # {} => Max(S) \in 1..Len(argv)
    BY <1>1, <1>5, MaxIn
  <2> QED  BY <1>1, <1>3, <1>7, <2>1, <2>2
<1> QED  BY <1>6, <1>7

LEMMA SelectedStep ==
    ASSUME ParamsInv, NEW o \in program.options, Reads(o)
    PROVE  Selected' = IF o.opt = "r"
                       THEN {r \in Round : \/ Given("r") # {} /\ r \in Selected
                                           \/ \E j \in 1..Len(o.tokens) : r \in Named(o.tokens[j])}
                       ELSE Selected
<1> DEFINE S == Given("r")
           In(r, x) == \E j \in 1..Len(x.tokens) : r \in Named(x.tokens[j])
<1>1. /\ Len(argv) \in Nat
      /\ \A i \in 1..Len(argv) : argv'[i] = argv[i]
      /\ argv'[Len(argv) + 1] = o
  BY ReadsOne
<1>2. S \in SUBSET (1..Len(argv)) /\ S' = S \cup {i \in {Len(argv) + 1} : o.opt = "r"}
  BY GivenStep
<1>3. preset' = preset
  BY DEF Reads
<1>4. /\ Selected' = IF S' = {} THEN Round \ preset ELSE {r \in Round : \E i \in S' : In(r, argv'[i])}
      /\ Selected = IF S = {} THEN Round \ preset ELSE {r \in Round : \E i \in S : In(r, argv[i])}
  BY <1>3 DEF Selected
<1> HIDE DEF S
<1>5. \A r : \A i \in S : In(r, argv'[i]) <=> In(r, argv[i])
  BY <1>1, <1>2
<1>6. \A r : In(r, argv'[Len(argv) + 1]) <=> In(r, o)
  BY <1>1
<1>7. CASE o.opt = "r"
  <2>1. S' = S \cup {Len(argv) + 1}
    BY <1>2, <1>7
  <2>2. Selected' = {r \in Round : (\E i \in S : In(r, argv[i])) \/ In(r, o)}
    <3> HIDE DEF In
    <3> QED  BY <1>4, <1>5, <1>6, <2>1
  <2>3. \A r \in Round : (\E i \in S : In(r, argv[i])) <=> S # {} /\ r \in Selected
    <3> HIDE DEF In
    <3> QED  BY <1>4
  <2> QED  BY <1>7, <2>2, <2>3 DEF S
<1>8. CASE o.opt # "r"
  <2>1. S' = S
    BY <1>2, <1>8
  <2> HIDE DEF In
  <2> QED  BY <1>4, <1>5, <1>8, <2>1
<1> QED  BY <1>7, <1>8

\* Nothing is planned while options are read.
LEMMA NothingYet ==
    ASSUME ParamsInv, NEW o \in program.options, Reads(o)
    PROVE  /\ program' \in Program /\ section' = section => section' = program'.section
           /\ planned' = 0 /\ round' = 0 /\ turn' = 0 /\ rounds' = <<>> /\ test_count' = 0
           /\ Looped' /\ SeesTheLastOverride' /\ Tested' /\ PlanMatchesRounds'
<1>1. planned = 0 /\ UNCHANGED <<program, planned, round, turn, rounds, test_count>>
  BY DEF Reads, loops
<1>2. planned' = 0 /\ round' = 0 /\ turn' = 0 /\ rounds' = <<>> /\ test_count' = 0
  BY <1>1 DEF ParamsInv, Ordered
<1>3. Looped' /\ Tested' /\ PlanMatchesRounds'
  BY <1>2 DEF Looped, Tested, PlanMatchesRounds
<1>4. SeesTheLastOverride'
  <2>1. Len(rounds') = 0
    BY <1>2
  <2> QED  BY <2>1 DEF SeesTheLastOverride
<1> QED  BY <1>1, <1>2, <1>3, <1>4 DEF ParamsInv, Typed

LEMMA PlainOption ==
    ASSUME ParamsInv, NEW o \in program.options, Reads(o), o.opt \notin {"r", "c", "p"},
           UNCHANGED <<skip, disabled, count, override, active>>
    PROVE  Followed' /\ NothingAfterAMistake'
<1>1. ~Mistakes /\ ~Mistakes' /\ Param' = Param
  BY ReadsOne DEF Mistaken
<1>2. Times' = Times
  BY TimesStep
<1>3. Given("r")' = Given("r")
  BY GivenSame
<1>4. Selected' = Selected
  BY SelectedStep
<1>5. \A p : Wanted(p)' = Wanted(p)
  BY WantedStep
<1>6. \A p : GetOverride(p, Own)' = GetOverride(p, Own)
  BY DEF GetOverride
<1> QED  BY <1>1, <1>2, <1>3, <1>4, <1>5, <1>6 DEF ParamsInv, Followed, NothingAfterAMistake, Mistakes

LEMMA SkipFollowed ==
    ASSUME ParamsInv, NEW o \in program.options, SkipRanges(o)
    PROVE  Followed' /\ NothingAfterAMistake'
<1> DEFINE Tokens == 1..Len(o.tokens)
           Good == {i \in Tokens : \A j \in 1..i : ~Refused(o.tokens[j])}
           Asked == UNION {Named(o.tokens[i]) : i \in Good}
<1>1. /\ o.opt = "r" /\ Reads(o)
      /\ disabled' = TRUE
      /\ skip' = (IF ~disabled THEN Round ELSE skip) \ Asked
      /\ code' = IF RangeError(o) THEN 1 ELSE Running
      /\ UNCHANGED <<count, override, active>>
  BY DEF SkipRanges, Disables
<1>2. o \in Option /\ ~Mistakes /\ Param' = Param /\ (Mistakes' <=> Mistaken(o))
  BY <1>1, ReadsOne
<1>3. Len(o.tokens) \in Nat
  BY <1>1, <1>2, Options
<1>4. Mistaken(o) <=> RangeError(o)
  BY <1>1 DEF Mistaken, RangeError
<1>5. planned' = 0 /\ rounds' = <<>>
  BY <1>1, NothingYet
<1>6. CASE Mistakes'
  BY <1>1, <1>2, <1>4, <1>5, <1>6 DEF Followed, NothingAfterAMistake
<1>7. CASE ~Mistakes'
  <2>1. Good = Tokens
    BY <1>2, <1>3, <1>4, <1>7 DEF RangeError
  <2>2. \A r : r \in Asked <=> \E j \in Tokens : r \in Named(o.tokens[j])
    <3> HIDE DEF Tokens, Good
    <3> QED  BY <2>1
  <2>3. Times' = Times
    BY <1>1, TimesStep
  <2>4. \A p : Wanted(p)' = Wanted(p)
    BY <1>1, WantedStep
  <2>5. \A p : GetOverride(p, Own)' = GetOverride(p, Own)
    BY <1>1 DEF GetOverride
  <2>6. Given("r")' # {}
    BY <1>1, GivenStep
  <2>7. skip' = Round \ Selected'
    <3>1. Selected' = {r \in Round : (Given("r") # {} /\ r \in Selected) \/ r \in Asked}
      <4>1. Selected' = {r \in Round : \/ Given("r") # {} /\ r \in Selected
                                       \/ \E j \in 1..Len(o.tokens) : r \in Named(o.tokens[j])}
        BY <1>1, SelectedStep
      <4> HIDE DEF Asked
      <4> QED  BY <2>2, <4>1
    <3>2. skip = Round \ Selected /\ (disabled <=> Given("r") # {})
      BY <1>2 DEF ParamsInv, Followed
    <3> HIDE DEF Asked
    <3> QED  BY <1>1, <3>1, <3>2
  <2> QED  BY <1>1, <1>2, <1>7, <2>3, <2>4, <2>5, <2>6, <2>7
           DEF ParamsInv, Followed, NothingAfterAMistake, Mistakes
<1> QED  BY <1>6, <1>7

LEMMA CountFollowed ==
    ASSUME ParamsInv, NEW o \in program.options, SetCount(o)
    PROVE  Followed' /\ NothingAfterAMistake'
<1>1. /\ o.opt = "c" /\ Reads(o)
      /\ count' = IF o.number THEN o.count ELSE count
      /\ code' = IF GoodCount(o) THEN Running ELSE 1
      /\ UNCHANGED <<skip, disabled, override, active>>
  BY DEF SetCount
<1>2. o \in Option /\ ~Mistakes /\ Param' = Param /\ (Mistakes' <=> Mistaken(o))
  BY <1>1, ReadsOne
<1>3. o.number \in BOOLEAN /\ o.count \in Int
  BY <1>1, <1>2, Options
<1>4. Mistaken(o) <=> ~GoodCount(o)
  BY <1>1, <1>3 DEF Mistaken, GoodCount
<1>5. planned' = 0 /\ rounds' = <<>>
  BY <1>1, NothingYet
<1>6. CASE Mistakes'
  BY <1>1, <1>2, <1>4, <1>5, <1>6 DEF Followed, NothingAfterAMistake
<1>7. CASE ~Mistakes'
  <2>1. count' = o.count /\ o.count >= 1
    BY <1>1, <1>2, <1>4, <1>7 DEF GoodCount
  <2>2. Times' = o.count
    BY <1>1, TimesStep
  <2>3. Given("r")' = Given("r")
    BY <1>1, GivenSame
  <2>4. Selected' = Selected
    BY <1>1, SelectedStep
  <2>5. \A p : Wanted(p)' = Wanted(p)
    BY <1>1, WantedStep
  <2>6. \A p : GetOverride(p, Own)' = GetOverride(p, Own)
    BY <1>1 DEF GetOverride
  <2> QED  BY <1>1, <1>2, <1>7, <2>1, <2>2, <2>3, <2>4, <2>5, <2>6
           DEF ParamsInv, Followed, NothingAfterAMistake, Mistakes
<1> QED  BY <1>6, <1>7

LEMMA OverrideFollowed ==
    ASSUME ParamsInv, NEW o \in program.options, Override(o)
    PROVE  /\ Followed' /\ NothingAfterAMistake'
           /\ DOMAIN override' \subseteq Param
           /\ override' \in [DOMAIN override' -> Arg]
<1>1. /\ o.opt = "p" /\ Reads(o)
      /\ UNCHANGED <<skip, disabled, count>>
  BY DEF Override
<1>2. o \in Option /\ ~Mistakes /\ Param' = Param /\ (Mistakes' <=> Mistaken(o))
  BY <1>1, ReadsOne
<1>3. o.sep \in BOOLEAN /\ o.value \in Arg
  BY <1>1, <1>2, Options DEF Arg
<1>4. Mistaken(o) <=> ~(o.sep /\ Takes(o.name, o.value))
  BY <1>1, <1>3 DEF Mistaken
<1>5. planned' = 0 /\ rounds' = <<>>
  BY <1>1, NothingYet
<1>6. CASE Mistakes'
  <2>1. code' \in {1, 255} /\ UNCHANGED override
    BY <1>2, <1>4, <1>6 DEF Override
  <2> QED  BY <1>2, <1>5, <1>6, <2>1 DEF ParamsInv, Typed, Followed, NothingAfterAMistake
<1>7. CASE ~Mistakes'
  <2>1. override' = Overridden(o) /\ active' = TRUE /\ o.name \in Param
    BY <1>2, <1>4, <1>7 DEF Override, Takes
  <2>2. /\ DOMAIN override' = DOMAIN override \cup {o.name}
        /\ \A p \in DOMAIN override' : override'[p] = IF p = o.name THEN o.value ELSE override[p]
        /\ override' = [p \in DOMAIN override' |-> override'[p]]
    BY <2>1 DEF Overridden
  <2>3. DOMAIN override \subseteq Param /\ \A p \in DOMAIN override : override[p] \in Arg
    BY DEF ParamsInv, Typed
  <2>4. DOMAIN override' \subseteq Param /\ override' \in [DOMAIN override' -> Arg]
    BY <1>3, <2>1, <2>2, <2>3
  <2>5. Times' = Times
    BY <1>1, TimesStep
  <2>6. Given("r")' = Given("r")
    BY <1>1, GivenSame
  <2>7. Selected' = Selected
    BY <1>1, SelectedStep
  <2>8. \A p : Wanted(p)' = IF o.name = p THEN o.value ELSE Wanted(p)
    BY <1>1, WantedStep
  <2>9. \A p : GetOverride(p, Own)' = IF o.name = p THEN o.value ELSE GetOverride(p, Own)
    BY <2>2 DEF GetOverride
  <2> QED  BY <1>1, <1>2, <1>7, <2>1, <2>4, <2>5, <2>6, <2>7, <2>8, <2>9
           DEF ParamsInv, Followed, NothingAfterAMistake, Mistakes
<1> QED  BY <1>6, <1>7

-----------------------------------------------------------------------------
(* The information of -i *)

InfoEntry == [tag : Seq(STRING), value : Seq(STRING), sep : BOOLEAN]

LEMMA OneMore == ASSUME NEW r \in Record PROVE [r EXCEPT !.count = @ + 1] \in Record
  BY DEF Record

LEMMA RecordedType ==
    ASSUME NEW recs \in Seq(Record), NEW e \in InfoEntry
    PROVE  Recorded(recs, e) \in Seq(Record)
<1> DEFINE I == {i \in 1..Len(recs) : recs[i].name = e.tag}
           k == IF I # {} THEN Min(I) ELSE 0
<1>1. Recorded(recs, e) = IF ~e.sep THEN recs
                          ELSE IF k = 0 THEN Append(recs, [name |-> e.tag, count |-> 1])
                          ELSE [recs EXCEPT ![k].count = @ + 1]
  BY DEF Recorded, SelectInSeq
<1>2. Len(recs) \in Nat /\ I \subseteq 1..Len(recs) /\ I \in SUBSET Nat
  OBVIOUS
<1>3. k = 0 \/ k \in 1..Len(recs)
  BY <1>2, MinIn
<1>4. CASE ~e.sep
  BY <1>1, <1>4
<1> HIDE DEF k
<1>5. CASE e.sep /\ k = 0
  BY <1>1, <1>5 DEF InfoEntry, Record
<1>6. CASE e.sep /\ k \in 1..Len(recs)
  <2>1. recs[k] \in Record /\ k # 0
    BY <1>6
  <2>2. [recs[k] EXCEPT !.count = @ + 1] \in Record
    BY <2>1, OneMore
  <2>3. [recs EXCEPT ![k].count = @ + 1] = [recs EXCEPT ![k] = [recs[k] EXCEPT !.count = @ + 1]]
    OBVIOUS
  <2>4. [recs EXCEPT ![k] = [recs[k] EXCEPT !.count = @ + 1]] \in Seq(Record)
    BY <1>6, <2>2, ExceptSeq
  <2> QED  BY <1>1, <1>6, <2>1, <2>3, <2>4
<1> QED  BY <1>3, <1>4, <1>5, <1>6

LEMMA Positions ==
    ASSUME NEW n \in Nat, NEW s \in SUBSET (1..n)
    PROVE  /\ Cardinality(s) \in 0..n
           /\ Cardinality(s) = 0 <=> s = {}
           /\ s # {} => Max(s) \in s /\ Cardinality(s \ {Max(s)}) < Cardinality(s)
<1>1. IsFiniteSet(1..n) /\ Cardinality(1..n) = n
  BY FS_Interval
<1>2. IsFiniteSet(s) /\ Cardinality(s) <= n
  BY <1>1, FS_Subset
<1>3. Cardinality(s) \in Nat /\ (Cardinality(s) = 0 <=> s = {})
  BY <1>2, FS_CardinalityType, FS_EmptySet
<1>4. s # {} => Max(s) \in s
  BY MaxIn
<1>5. \A x \in s : Cardinality(s \ {x}) = Cardinality(s) - 1
  BY <1>2, FS_RemoveElement
<1>6. s # {} => Cardinality(s \ {Max(s)}) < Cardinality(s)
  <2>1. s # {} => Cardinality(s \ {Max(s)}) = Cardinality(s) - 1
    BY <1>4, <1>5
  <2>2. \A c, d : c \in Nat /\ d = c - 1 => d < c
    OBVIOUS
  <2> QED  BY <1>3, <2>1, <2>2, Zenon
<1>7. Cardinality(s) \in 0..n
  BY <1>2, <1>3
<1> QED  BY <1>3, <1>4, <1>6, <1>7

\* How FoldLeft() goes through a sequence.
FoldsUp(h, seq) ==
    h = [s \in SUBSET (DOMAIN seq) |->
            IF s = {} THEN <<>> ELSE Recorded(h[s \ {Max(s)}], seq[Max(s)])]

LEMMA Collecting ==
    ASSUME NEW seq \in Seq(InfoEntry)
    PROVE  \E g \in [0..Len(seq) -> Seq(Record)] :
               /\ g[0] = <<>>
               /\ \A n \in 1..Len(seq) : g[n] = Recorded(g[n-1], seq[n])
               /\ FoldLeft(Recorded, <<>>, seq) = g[Len(seq)]
<1> DEFINE B == Seq(Record)
           D == SUBSET (DOMAIN seq)
           size == [s \in D |-> Cardinality(s)]
           prev == [s \in D |-> s \ {Max(s)}]
           step == [s \in D |-> [b \in B |-> Recorded(b, seq[Max(s)])]]
           f == CHOOSE h : FoldsUp(h, seq)
<1>1. Len(seq) \in Nat /\ DOMAIN seq = 1..Len(seq)
  OBVIOUS
<1>2. ASSUME NEW s \in D
      PROVE  /\ size[s] = Cardinality(s) /\ prev[s] = s \ {Max(s)}
             /\ Cardinality(s) \in 0..Len(seq)
             /\ Cardinality(s) = 0 <=> s = {}
             /\ s # {} => /\ Max(s) \in 1..Len(seq)
                          /\ s \ {Max(s)} \in D
                          /\ Cardinality(s \ {Max(s)}) < Cardinality(s)
  <2>1. s \in SUBSET (1..Len(seq))
    BY <1>1
  <2>2. /\ Cardinality(s) \in 0..Len(seq)
        /\ Cardinality(s) = 0 <=> s = {}
        /\ s # {} => Max(s) \in s /\ Cardinality(s \ {Max(s)}) < Cardinality(s)
    BY <1>1, <2>1, Positions
  <2>3. s # {} => Max(s) \in 1..Len(seq) /\ s \ {Max(s)} \in D
    BY <2>1, <2>2
  <2> QED  BY <2>2, <2>3
<1>3. \A s \in D : \A b \in B : step[s][b] = Recorded(b, seq[Max(s)])
  OBVIOUS
<1>4. DOMAIN seq \in D
  OBVIOUS
<1>5. FoldLeft(Recorded, <<>>, seq) = f[DOMAIN seq]
  BY DEF FoldLeft, MapThenFoldSet, FoldsUp
<1>6. \A h : FoldsUp(h, seq) <=>
          h = [s \in D |-> IF s = {} THEN <<>> ELSE Recorded(h[s \ {Max(s)}], seq[Max(s)])]
  BY DEF FoldsUp
<1> HIDE DEF D, size, prev, step
<1>7. \A s \in D : s # {} => \A b \in B : step[s][b] \in B
  <2>1. ASSUME NEW s \in D, s # {}, NEW b \in B PROVE step[s][b] \in B
    <3>1. seq[Max(s)] \in InfoEntry
      BY <1>2, <2>1, ElementOfSeq
    <3>2. step[s][b] = Recorded(b, seq[Max(s)])
      BY <1>3
    <3> QED  BY <3>1, <3>2, RecordedType
  <2> QED  BY <2>1
<1>8. Recurs(D, size, Len(seq), prev, B, <<>>, step)
  <2>1. \A s \in D : size[s] \in 0..Len(seq) /\ (size[s] = 0 <=> s = {})
    BY <1>2
  <2>2. \A s \in D : s # {} => prev[s] \in D /\ size[prev[s]] < size[s]
    BY <1>2
  <2>3. <<>> \in B
    OBVIOUS
  <2>4. \A s \in D : size[s] > 0 => s # {}
    BY <2>1
  <2> HIDE DEF B
  <2> QED  BY <1>1, <1>7, <2>1, <2>2, <2>3, <2>4 DEF Recurs
<1> HIDE DEF B
<1>9. PICK g \in [D -> B] : \A s \in D : g[s] = IF size[s] = 0 THEN <<>> ELSE step[s][g[prev[s]]]
  BY <1>8, Recursion
<1>10. ASSUME NEW s \in D
       PROVE  g[s] = IF s = {} THEN <<>> ELSE Recorded(g[s \ {Max(s)}], seq[Max(s)])
  <2>1. size[s] = 0 <=> s = {}
    BY <1>2
  <2>2. CASE s = {}
    BY <1>9, <2>1, <2>2
  <2>3. CASE s # {}
    <3>1. prev[s] = s \ {Max(s)} /\ prev[s] \in D
      BY <1>2, <2>3
    <3>2. g[prev[s]] \in B
      BY <1>9, <3>1
    <3>3. step[s][g[prev[s]]] = Recorded(g[prev[s]], seq[Max(s)])
      BY <1>3, <3>2
    <3>4. g[s] = step[s][g[prev[s]]]
      BY <1>9, <2>1, <2>3
    <3> QED  BY <2>3, <3>1, <3>3, <3>4, Zenon
  <2> QED  BY <2>2, <2>3
<1>11. FoldsUp(g, seq)
  <2>1. g = [s \in D |-> IF s = {} THEN <<>> ELSE Recorded(g[s \ {Max(s)}], seq[Max(s)])]
    BY <1>9, <1>10
  <2> QED  BY <1>6, <2>1
<1>12. FoldsUp(f, seq)
  BY <1>11
<1> HIDE DEF f
<1>13. ASSUME NEW s \in D
       PROVE  /\ size[s] = 0 => f[s] = <<>>
              /\ size[s] > 0 /\ f[prev[s]] \in B => f[s] = step[s][f[prev[s]]]
  <2>1. f[s] = IF s = {} THEN <<>> ELSE Recorded(f[s \ {Max(s)}], seq[Max(s)])
    <3>1. f = [t \in D |-> IF t = {} THEN <<>> ELSE Recorded(f[t \ {Max(t)}], seq[Max(t)])]
      BY <1>6, <1>12, Zenon
    <3> QED  BY <3>1, Zenon
  <2>2. (size[s] = 0 <=> s = {}) /\ (size[s] > 0 => s # {})
    <3>1. size[s] = Cardinality(s) /\ (Cardinality(s) = 0 <=> s = {})
      BY <1>2
    <3>2. size[s] = 0 <=> s = {}
      BY <3>1
    <3> QED  BY <3>2
  <2>3. prev[s] = s \ {Max(s)}
    BY <1>2
  <2>4. f[prev[s]] \in B => step[s][f[prev[s]]] = Recorded(f[prev[s]], seq[Max(s)])
    BY <1>3
  <2> QED  BY <2>1, <2>2, <2>3, <2>4
<1>14. \A s \in D : f[s] \in B
  BY <1>8, <1>13, RecursionType
<1>15. ASSUME NEW s \in D, s # {} PROVE f[s] = Recorded(f[s \ {Max(s)}], seq[Max(s)])
  <2>1. f = [t \in D |-> IF t = {} THEN <<>> ELSE Recorded(f[t \ {Max(t)}], seq[Max(t)])]
    BY <1>6, <1>12, Zenon
  <2>2. f[s] = IF s = {} THEN <<>> ELSE Recorded(f[s \ {Max(s)}], seq[Max(s)])
    BY <2>1, Zenon
  <2> QED  BY <1>15, <2>2
<1>16. \A n \in 0..Len(seq) : 1..n \in D
  BY <1>1 DEF D
<1> DEFINE g2 == [n \in 0..Len(seq) |-> f[1..n]]
<1>17. g2 \in [0..Len(seq) -> B] /\ \A n \in 0..Len(seq) : g2[n] = f[1..n]
  BY <1>14, <1>16
<1> HIDE DEF g2
<1>18. g2[0] = <<>>
  <2>1. 1..0 = {} /\ 1..0 \in D
    BY <1>16
  <2>2. size[1..0] = 0
    BY <1>2, <2>1
  <2> QED  BY <1>13, <1>17, <2>1, <2>2
<1>19. ASSUME NEW n \in 1..Len(seq) PROVE g2[n] = Recorded(g2[n-1], seq[n])
  <2>1. 1..n \in D /\ 1..n # {} /\ n - 1 \in 0..Len(seq)
    <3>1. n \in 0..Len(seq) /\ n \in 1..n /\ n - 1 \in 0..Len(seq)
      BY <1>1
    <3> QED  BY <1>16, <3>1
  <2>2. Max(1..n) = n
    BY MaxIs
  <2>3. (1..n) \ {n} = 1..(n-1)
    OBVIOUS
  <2>4. f[1..n] = Recorded(f[1..(n-1)], seq[n])
    BY <1>15, <2>1, <2>2, <2>3
  <2> QED  BY <1>17, <2>1, <2>4
<1>20. FoldLeft(Recorded, <<>>, seq) = g2[Len(seq)]
  BY <1>1, <1>5, <1>17
<1> QED  BY <1>17, <1>18, <1>19, <1>20 DEF B

LEMMA CollectedType ==
    ASSUME NEW seq \in Seq(InfoEntry)
    PROVE  FoldLeft(Recorded, <<>>, seq) \in Seq(Record)
<1>1. Len(seq) \in 0..Len(seq)
  OBVIOUS
<1> QED  BY <1>1, Collecting

-----------------------------------------------------------------------------
(* The invariant holds at first, and every step preserves it *)

LEMMA NotGiven ==
    ASSUME argv = <<>>
    PROVE  /\ ~Mistakes /\ Times = 1 /\ Given("r") = {} /\ Selected = Round \ preset
           /\ \A p : Wanted(p) = Own
<1>1. Len(argv) = 0
  OBVIOUS
<1>2. \A opt : Given(opt) = {}
  BY <1>1 DEF Given
<1> QED  BY <1>1, <1>2 DEF Mistakes, Times, Selected, Wanted, LastArg

LEMMA ParamsInit == ASSUME Init PROVE ParamsInv
<1> USE DEF Init
<1>1. Typed
  <2>1. Rounds \in Nat /\ IntSize \in Nat \ {0}
    BY TapParamsAssumption
  <2>2. program.presets \subseteq SUBSET Round
    BY Programs
  <2>3. Len(section) \in Nat
    BY Programs
  <2>4. DOMAIN override = {} /\ override \in [DOMAIN override -> Arg]
    OBVIOUS
  <2>5. records \in Seq(Record) /\ rounds \in Seq(Run) /\ argv \in Seq(program.options)
    BY DEF NoInfo
  <2>6. Len(records) = 0 /\ rec = 0 /\ pos = 0
    BY DEF NoInfo
  <2>7. parsing = "init"
    BY DEF NoParams
  <2>8. program \in Program /\ section = program.section
    OBVIOUS
  <2>9. preset \in SUBSET Round /\ skip \in SUBSET Round
    BY <2>2
  <2>10. pos \in 0..Len(section)+1 /\ rec \in 0..Len(records)
    BY <2>3, <2>6
  <2>11. planned \in 0..IntSize-1 /\ test_count \in 0..IntSize-1 /\ round \in 0..Rounds
    BY <2>1
  <2>12. disabled \in BOOLEAN /\ active \in BOOLEAN /\ verbose \in BOOLEAN
    BY Zenon
  <2>14. count \in Int /\ turn \in Nat /\ code \in {Running} \cup 0..255
    OBVIOUS
  <2> HIDE DEF Init
  <2>13. DOMAIN override \subseteq Param
    BY <2>4
  <2> QED  BY <2>4, <2>5, <2>7, <2>8, <2>9, <2>10, <2>11, <2>12, <2>13, <2>14 DEF Typed
<1>2. Ordered
  BY DEF Ordered, NoInfo
<1>3. Followed
  BY <1>1, NotGiven DEF Typed, Followed, GetOverride
<1>4. NothingAfterAMistake
  BY NotGiven DEF NothingAfterAMistake, Mistakes
<1>5. Looped /\ Tested /\ PlanMatchesRounds
  BY DEF Looped, Tested, PlanMatchesRounds
<1>6. SeesTheLastOverride
  <2>1. Len(rounds) = 0
    OBVIOUS
  <2> QED  BY <2>1 DEF SeesTheLastOverride
<1> QED  BY <1>1, <1>2, <1>3, <1>4, <1>5, <1>6 DEF ParamsInv

\* An option is read before anything else happens.
LEMMA ReadsTyped ==
    ASSUME ParamsInv, NEW o \in program.options, Reads(o), section' = section,
           skip' \in SUBSET Round, disabled' \in BOOLEAN, active' \in BOOLEAN,
           verbose' \in BOOLEAN, count' \in Int,
           DOMAIN override' \subseteq Param, override' \in [DOMAIN override' -> Arg],
           records' \in Seq(Record), pos' \in 0..Len(section)+1, rec' = 0,
           pos' = 0 => rest' = <<>>,
           code' \in {Running} \cup 0..255
    PROVE  Typed' /\ Ordered'
<1>1. /\ program' = program /\ preset' = preset /\ parsing' = parsing /\ parsing = "done"
      /\ UNCHANGED loops
  BY DEF Reads, defVars
<1>2. argv' \in Seq(program.options) /\ Param' = Param
  BY ReadsOne
<1>3. planned' = 0 /\ round' = 0 /\ turn' = 0 /\ rounds' = <<>> /\ test_count' = 0
  BY NothingYet
<1>4. Len(records') \in Nat /\ rec' \in 0..Len(records')
  <2>1. Len(records') \in Nat
    OBVIOUS
  <2> QED  BY <2>1
<1>5. rounds' \in Seq(Run')
  BY <1>3
<1>6. planned' \in 0..IntSize-1 /\ test_count' \in 0..IntSize-1 /\ round' \in 0..Rounds
  BY <1>1 DEF ParamsInv, Typed, loops
<1>7. Typed'
  BY <1>1, <1>2, <1>3, <1>4, <1>5, <1>6 DEF ParamsInv, Typed
<1>8. Ordered'
  BY <1>1, <1>3 DEF Ordered
<1> QED  BY <1>7, <1>8

LEMMA ReadsPreserves ==
    ASSUME ParamsInv, NEW o \in program.options,
           Help(o) \/ Information(o) \/ Verbose(o) \/ SkipRanges(o) \/ SetCount(o) \/ Override(o)
    PROVE  ParamsInv'
<1>1. Reads(o) /\ section' = section /\ pos = 0 /\ planned = 0
  BY DEF Help, Information, Verbose, SkipRanges, SetCount, Override, Reads, Collect, infoVars
<1>2. /\ skip \in SUBSET Round /\ disabled \in BOOLEAN /\ active \in BOOLEAN
      /\ verbose \in BOOLEAN /\ count \in Int
      /\ DOMAIN override \subseteq Param /\ override \in [DOMAIN override -> Arg]
      /\ records \in Seq(Record) /\ pos \in 0..Len(section)+1 /\ rec = 0 /\ rest = <<>>
  BY <1>1 DEF ParamsInv, Typed, Ordered
<1>3. Looped' /\ SeesTheLastOverride' /\ Tested' /\ PlanMatchesRounds'
  BY <1>1, NothingYet
<1>4. code = Running
  BY <1>1 DEF Reads
<1>5. Typed' /\ Ordered' /\ Followed' /\ NothingAfterAMistake'
  <2>1. CASE Help(o)
    <3>1. /\ o.opt \notin {"r", "c", "p"} /\ code' = 0
          /\ UNCHANGED <<skip, disabled, count, override, active, verbose, infoVars>>
      BY <2>1 DEF Help
    <3>2. Followed' /\ NothingAfterAMistake'
      BY <1>1, <3>1, PlainOption
    <3>3. Typed' /\ Ordered'
      BY <1>1, <1>2, <3>1, ReadsTyped DEF infoVars
    <3> QED  BY <3>2, <3>3
  <2>2. CASE Information(o)
    <3>1. /\ o.opt \notin {"r", "c", "p"} /\ code' = code
          /\ UNCHANGED <<skip, disabled, count, override, active, verbose>>
          /\ Collect
      BY <2>2 DEF Information
    <3>2. Followed' /\ NothingAfterAMistake'
      BY <1>1, <3>1, PlainOption
    <3>3. section \in Seq(InfoEntry) /\ Len(section) \in Nat
      BY Programs DEF ParamsInv, Typed, InfoEntry
    <3>4. records' \in Seq(Record)
      BY <3>1, <3>3, CollectedType DEF Collect
    <3>5. pos' \in 0..Len(section)+1 /\ rec' = 0 /\ rest' = <<>>
      BY <1>2, <3>1, <3>3 DEF Collect, Over
    <3>6. Typed' /\ Ordered'
      BY <1>1, <1>2, <1>4, <3>1, <3>4, <3>5, ReadsTyped
    <3> QED  BY <3>2, <3>6
  <2>3. CASE Verbose(o)
    <3>1. /\ o.opt \notin {"r", "c", "p"} /\ code' = code /\ verbose' \in BOOLEAN
          /\ UNCHANGED <<skip, disabled, count, override, active, infoVars>>
      BY <2>3 DEF Verbose
    <3>2. Followed' /\ NothingAfterAMistake'
      BY <1>1, <3>1, PlainOption
    <3>3. Typed' /\ Ordered'
      BY <1>1, <1>2, <1>4, <3>1, ReadsTyped DEF infoVars
    <3> QED  BY <3>2, <3>3
  <2>4. CASE SkipRanges(o)
    <3>1. Followed' /\ NothingAfterAMistake'
      BY <2>4, SkipFollowed
    <3>2. skip' \in SUBSET Round /\ disabled' \in BOOLEAN /\ code' \in {Running} \cup 0..255
      BY <1>2, <2>4 DEF SkipRanges
    <3>3. UNCHANGED <<count, override, active, verbose, infoVars>>
      BY <2>4 DEF SkipRanges
    <3>4. Typed' /\ Ordered'
      BY <1>1, <1>2, <3>2, <3>3, ReadsTyped DEF infoVars
    <3> QED  BY <3>1, <3>4
  <2>5. CASE SetCount(o)
    <3>1. Followed' /\ NothingAfterAMistake'
      BY <2>5, CountFollowed
    <3>2. count' \in Int /\ code' \in {Running} \cup 0..255
      <4>1. o \in Option /\ o.opt = "c"
        BY <1>1, <2>5, ReadsOne DEF SetCount
      <4>2. o.count \in Int
        BY <4>1, Options
      <4> QED  BY <1>2, <2>5, <4>2 DEF SetCount
    <3>3. UNCHANGED <<skip, disabled, override, active, verbose, infoVars>>
      BY <2>5 DEF SetCount
    <3>4. Typed' /\ Ordered'
      BY <1>1, <1>2, <3>2, <3>3, ReadsTyped DEF infoVars
    <3> QED  BY <3>1, <3>4
  <2>6. CASE Override(o)
    <3>1. /\ Followed' /\ NothingAfterAMistake'
          /\ DOMAIN override' \subseteq Param /\ override' \in [DOMAIN override' -> Arg]
      BY <2>6, OverrideFollowed
    <3>2. active' \in BOOLEAN /\ code' \in {Running} \cup 0..255
      <4>1. CASE o.sep /\ Takes(o.name, o.value)
        BY <1>4, <2>6, <4>1 DEF Override
      <4>2. CASE ~(o.sep /\ Takes(o.name, o.value))
        BY <1>2, <2>6, <4>2 DEF Override
      <4> QED  BY <4>1, <4>2
    <3>3. UNCHANGED <<skip, disabled, count, verbose, infoVars>>
      BY <2>6 DEF Override
    <3>4. Typed' /\ Ordered'
      BY <1>1, <1>2, <3>1, <3>2, <3>3, ReadsTyped DEF infoVars
    <3> QED  BY <3>1, <3>4
  <2> QED  BY <2>1, <2>2, <2>3, <2>4, <2>5, <2>6
<1> QED  BY <1>3, <1>5 DEF ParamsInv

\* Without a new option, the command line means what it meant.
LEMMA Meant ==
    ASSUME UNCHANGED <<options, defVars>>
    PROVE  /\ Param' = Param
           /\ Mistakes' <=> Mistakes
           /\ Times' = Times /\ Selected' = Selected
           /\ \A p : Wanted(p)' = Wanted(p) /\ GetOverride(p, Own)' = GetOverride(p, Own)
           /\ Followed' <=> Followed
<1>1. UNCHANGED <<argv, preset, skip, disabled, count, override, active>> /\ UNCHANGED defVars
  BY DEF options
<1>2. Param' = Param /\ \A x : Mistaken(x)' <=> Mistaken(x)
  BY <1>1, ParamsStay
<1>3. Mistakes' <=> \E i \in 1..Len(argv') : \E x : x = argv'[i] /\ Mistaken(x)'
  BY DEF Mistakes
<1>4. Mistakes' <=> Mistakes
  BY <1>1, <1>2, <1>3 DEF Mistakes
<1>5. \A opt : Given(opt)' = Given(opt)
  BY <1>1 DEF Given
<1>6. Times' = Times
  BY <1>1, <1>5 DEF Times, LastArg
<1>7. Selected' = Selected
  BY <1>1, <1>5 DEF Selected
<1>8. \A p : Wanted(p)' = Wanted(p)
  BY <1>1, <1>5 DEF Wanted, LastArg
<1>9. \A p : GetOverride(p, Own)' = GetOverride(p, Own)
  BY <1>1 DEF GetOverride
<1>10. Followed' <=> Followed
  BY <1>1, <1>2, <1>4, <1>5, <1>6, <1>7, <1>8, <1>9 DEF Followed
<1> QED  BY <1>2, <1>4, <1>6, <1>7, <1>8, <1>9, <1>10

\* The loops do not move.
LEMMA LoopsStay ==
    ASSUME ParamsInv, UNCHANGED <<options, defVars, loops>>
    PROVE  /\ Looped' /\ SeesTheLastOverride' /\ Tested'
           /\ UNCHANGED code \/ planned = 0 => PlanMatchesRounds'
<1>1. /\ UNCHANGED <<planned, round, turn, rounds, test_count>>
      /\ UNCHANGED <<skip, count>>
  BY DEF loops, options
<1>2. Param' = Param /\ \A p : Wanted(p)' = Wanted(p)
  BY Meant
<1>3. \A r : Runs(r)' = Runs(r)
  BY <1>1 DEF Runs
<1>4. Before' = Before /\ Total' = Total
  <2>1. Before' = Before
    BY <1>1 DEF Before
  <2>2. (Round \ skip)' = Round \ skip
    BY <1>1
  <2>3. Total' = Total
    BY <2>2 DEF Total, MapThenSumSet, MapThenFoldSet
  <2> QED  BY <2>1, <2>3
<1>5. Looped'
  <2>1. Runs(round)' = Runs(round)
    BY <1>1 DEF Runs
  <2> QED  BY <1>1, <1>3, <2>1 DEF ParamsInv, Looped
<1>6. Tested'
  BY <1>1, <1>4 DEF ParamsInv, Tested
<1>7. SeesTheLastOverride'
  BY <1>1, <1>2 DEF ParamsInv, SeesTheLastOverride
<1>8. UNCHANGED code \/ planned = 0 => PlanMatchesRounds'
  BY <1>1 DEF ParamsInv, PlanMatchesRounds
<1> QED  BY <1>5, <1>6, <1>7, <1>8

LEMMA StutterPreserves == ASSUME ParamsInv, UNCHANGED vars PROVE ParamsInv'
<1>1. /\ UNCHANGED <<options, defVars, loops>> /\ UNCHANGED <<program, code, infoVars>>
  BY DEF vars
<1>2. Looped' /\ SeesTheLastOverride' /\ Tested' /\ PlanMatchesRounds'
  BY <1>1, LoopsStay
<1>3. Param' = Param /\ (Mistakes' <=> Mistakes) /\ Followed'
  BY <1>1, Meant DEF ParamsInv
<1>4. Run' = Run
  BY <1>3 DEF Run
<1>5. Typed'
  BY <1>1, <1>3, <1>4 DEF ParamsInv, Typed, options, defVars, loops, infoVars
<1>6. Ordered'
  BY <1>1 DEF ParamsInv, Ordered, options, defVars, loops, infoVars
<1>7. NothingAfterAMistake'
  BY <1>1, <1>3 DEF ParamsInv, NothingAfterAMistake, Mistakes, loops
<1> QED  BY <1>2, <1>3, <1>5, <1>6, <1>7 DEF ParamsInv

LEMMA DefinitionPreserves == ASSUME ParamsInv, ReadDefinition PROVE ParamsInv'
<1>1. /\ UNCHANGED <<options, loops>> /\ UNCHANGED <<program, code, infoVars>>
      /\ parsing # "done"
      /\ parsing' \in {"init", "members", "done", "crashed"}
  BY DEF ReadDefinition, Parse, RemoveNested, NextMember, LastMember, ParamsInv, Typed
<1>2. argv = <<>> /\ DOMAIN override = {} /\ planned = 0 /\ rounds = <<>> /\ round = 0 /\ turn = 0
      /\ test_count = 0
  BY <1>1 DEF ParamsInv, Ordered
<1>3. /\ argv' = <<>> /\ DOMAIN override' = {} /\ planned' = 0 /\ rounds' = <<>>
      /\ round' = 0 /\ turn' = 0 /\ test_count' = 0
  BY <1>1, <1>2 DEF options, loops
<1>4. Typed'
  <2>1. DOMAIN override' \subseteq Param' /\ rounds' \in Seq(Run')
    BY <1>3
  <2> QED  BY <1>1, <2>1 DEF ParamsInv, Typed, options, loops, infoVars
<1>5. Ordered'
  BY <1>1, <1>3 DEF ParamsInv, Ordered, infoVars
<1>6. (~Mistakes /\ Times = 1 /\ Given("r") = {} /\ Selected = Round \ preset)'
  <2>1. Len(argv') = 0
    BY <1>3
  <2>2. \A opt : Given(opt)' = {}
    BY <2>1 DEF Given
  <2> QED  BY <2>1, <2>2 DEF Mistakes, Times, Selected, LastArg
<1>7. Followed'
  <2>1. count = 1 /\ disabled = FALSE /\ skip = preset
    BY <1>2, NotGiven DEF ParamsInv, Followed, Typed
  <2>2. \A opt : Given(opt)' = {}
    <3>1. Len(argv') = 0
      BY <1>3
    <3> QED  BY <3>1 DEF Given
  <2>3. \A p : Wanted(p)' = Own /\ GetOverride(p, Own)' = Own
    BY <1>3, <2>2 DEF Wanted, LastArg, GetOverride
  <2>4. count' = 1 /\ disabled' = FALSE /\ skip' = preset' /\ preset \in SUBSET Round
    BY <1>1, <2>1 DEF options, ParamsInv, Typed
  <2> QED  BY <1>1, <1>3, <1>6, <2>3, <2>4 DEF Followed, options
<1>8. NothingAfterAMistake'
  BY <1>6 DEF NothingAfterAMistake, Mistakes
<1>9. Looped' /\ Tested' /\ PlanMatchesRounds'
  BY <1>3 DEF Looped, Tested, PlanMatchesRounds
<1>10. SeesTheLastOverride'
  <2>1. Len(rounds') = 0
    BY <1>3
  <2> QED  BY <2>1 DEF SeesTheLastOverride
<1> QED  BY <1>4, <1>5, <1>7, <1>8, <1>9, <1>10 DEF ParamsInv

LEMMA InfoPreserves == ASSUME ParamsInv, TellInfo PROVE ParamsInv'
<1>1. Len(section) \in Nat /\ DOMAIN section = 1..Len(section) /\ Len(records) \in Nat
  <2>1. section \in Seq(InfoEntry)
    BY Programs DEF ParamsInv, Typed, InfoEntry
  <2>2. records \in Seq(Record)
    BY DEF ParamsInv, Typed
  <2> QED  BY <2>1, <2>2
<1>2. pos \in 0..Len(section)+1 /\ rec \in 0..Len(records) /\ (pos = 0 => rest = <<>>)
  BY DEF ParamsInv, Typed, Ordered
<1>3. /\ pos # 0
      /\ section' = section /\ records' = records
      /\ pos' \in 1..Len(section)+1 /\ rec' \in 0..Len(records)
      /\ code' \in {0, Running}
  <2>1. CASE InfoDone
    BY <1>1, <1>2, <2>1 DEF TellInfo, InfoDone, Over, infoVars
  <2>2. CASE ~InfoDone
    <3> USE <1>1, <1>2
    <3>1. InfoStep /\ code' = Running
      BY <2>2 DEF TellInfo
    <3>2. CASE NextRecord
      BY <3>1, <3>2 DEF NextRecord, Over
    <3>3. CASE PassEntry
      BY <3>1, <3>3 DEF PassEntry, AtEntry
    <3>4. CASE ShowLine
      BY <3>1, <3>4 DEF ShowLine, AtEntry, Over
    <3>5. CASE BeginFold
      BY <3>1, <3>5 DEF BeginFold, AtEntry
    <3>6. CASE FoldLine
      BY <3>1, <3>6 DEF FoldLine
    <3> QED  BY <3>1, <3>2, <3>3, <3>4, <3>5, <3>6 DEF InfoStep
  <2> QED  BY <2>1, <2>2
<1>4. UNCHANGED <<options, defVars, loops>> /\ UNCHANGED program /\ code = Running
  BY DEF TellInfo
<1>5. planned = 0
  BY <1>3 DEF ParamsInv, Ordered
<1>6. Looped' /\ SeesTheLastOverride' /\ Tested' /\ PlanMatchesRounds'
  BY <1>4, <1>5, LoopsStay
<1>7. Param' = Param /\ (Mistakes' <=> Mistakes) /\ Followed'
  BY <1>4, Meant DEF ParamsInv
<1>8. Run' = Run
  BY <1>7 DEF Run
<1>9. Typed'
  <2>1. pos' \in 0..Len(section')+1 /\ rec' \in 0..Len(records') /\ code' \in {Running} \cup 0..255
    BY <1>1, <1>3
  <2> QED  BY <1>3, <1>4, <1>7, <1>8, <2>1 DEF ParamsInv, Typed, options, defVars, loops
<1>10. Ordered'
  <2>1. pos' # 0
    BY <1>1, <1>3
  <2> QED  BY <1>4, <1>5, <2>1 DEF ParamsInv, Ordered, options, defVars, loops
<1>11. ~Mistakes
  BY <1>4 DEF ParamsInv, NothingAfterAMistake, Mistakes, Running
<1>12. NothingAfterAMistake'
  BY <1>7, <1>11 DEF NothingAfterAMistake, Mistakes
<1> QED  BY <1>6, <1>7, <1>9, <1>10, <1>12 DEF ParamsInv

\* What the loops leave alone.
LEMMA LoopSteps ==
    ASSUME ParamsInv, UNCHANGED <<options, defVars, infoVars>>, program' = program, code = Running,
           planned' \in 0..IntSize-1, test_count' \in 0..IntSize-1,
           round' \in 0..Rounds, turn' \in Nat, rounds' \in Seq(Run),
           code' \in {Running} \cup 0..255, parsing = "done", pos = 0,
           planned' = 0 => round' = 0 /\ turn' = 0 /\ rounds' = <<>> /\ test_count' = 0
    PROVE  /\ Typed' /\ Ordered' /\ Followed' /\ NothingAfterAMistake'
           /\ ~Mistakes /\ Param' = Param
<1>1. ~Mistakes
  BY DEF ParamsInv, NothingAfterAMistake, Mistakes, Running
<1>2. Param' = Param /\ (Mistakes' <=> Mistakes) /\ Followed'
  BY Meant DEF ParamsInv
<1>3. Run' = Run
  BY <1>2 DEF Run
<1>4. Typed'
  BY <1>2, <1>3 DEF ParamsInv, Typed, options, defVars, infoVars
<1>5. Ordered'
  BY DEF ParamsInv, Ordered, options, defVars, infoVars
<1>6. NothingAfterAMistake'
  BY <1>1, <1>2 DEF NothingAfterAMistake, Mistakes
<1> QED  BY <1>1, <1>2, <1>4, <1>5, <1>6

LEMMA Sums ==
    ASSUME skip \in SUBSET Round
    PROVE  /\ Total = PlanSum(Round \ skip) /\ Total \in Nat
           /\ Before \in SUBSET Round /\ PlanSum(Before) \in Nat
<1>1. Total = PlanSum(Round \ skip)
  BY DEF Total, PlanSum
<1>2. Before \in SUBSET Round
  BY DEF Before
<1> QED  BY <1>1, <1>2, PlanSumPick

LEMMA StartPreserves == ASSUME ParamsInv, StartRounds PROVE ParamsInv'
<1>1. /\ code = Running /\ parsing = "done" /\ pos = 0 /\ planned = 0
      /\ planned' = (Total * count) % IntSize
      /\ code' = IF planned' = 0 THEN 255 ELSE Running
      /\ UNCHANGED <<program, options, round, turn, rounds, test_count, defVars, infoVars>>
  BY DEF StartRounds
<1>2. round = 0 /\ turn = 0 /\ rounds = <<>> /\ test_count = 0
  BY <1>1 DEF ParamsInv, Ordered
<1>3. /\ skip \in SUBSET Round /\ count \in Int /\ IntSize \in Nat \ {0} /\ Rounds \in Nat
      /\ Total \in Nat
  BY Sums, TapParamsAssumption DEF ParamsInv, Typed
<1>4. PICK m \in Int : m = Total * count
  <2>1. \A a, b \in Int : a * b \in Int
    OBVIOUS
  <2> QED  BY <1>3, <2>1
<1>5. planned' \in 0..IntSize-1
  BY <1>1, <1>3, <1>4, Divide
<1>6. Typed' /\ Ordered' /\ Followed' /\ NothingAfterAMistake'
  <2>1. rounds \in Seq(Run) /\ round \in 0..Rounds /\ turn \in Nat /\ test_count \in 0..IntSize-1
    BY DEF ParamsInv, Typed
  <2>2. code' \in {Running} \cup 0..255
    BY <1>1
  <2> QED  BY <1>1, <1>2, <1>5, <2>1, <2>2, LoopSteps
<1>7. Len(rounds') = 0 /\ round' = 0 /\ turn' = 0 /\ test_count' = 0
  BY <1>1, <1>2
<1>8. Looped'
  <2>1. Runs(round)' = {}
    BY <1>7 DEF Runs
  <2>2. Cardinality(Runs(round)') = 0
    BY <2>1, FS_EmptySet
  <2>3. \A r \in Round : ~ (r < 0)
    BY <1>3 DEF Round
  <2> QED  BY <1>7, <2>2, <2>3 DEF Looped
<1>9. Tested'
  <2>1. skip' = skip /\ count' = count
    BY <1>1 DEF options
  <2>2. Before' = {}
    BY <1>3, <1>7, <2>1 DEF Before, Round
  <2>3. PlanSum(Before') = 0
    BY <2>2, PlanSumPick
  <2>4. Total' = Total
    BY <2>1 DEF Total, MapThenSumSet, MapThenFoldSet
  <2>5. 0 < Rounds => Plan[0] \in Nat
    BY <1>3, TapParamsAssumption DEF Round
  <2>6. count' * PlanSum(Before') + (IF 0 < Rounds THEN 0 * Plan[0] ELSE 0) = 0
    <3>1. count * 0 = 0 /\ \A n \in Nat : 0 * n = 0
      BY <1>3
    <3> QED  BY <2>1, <2>3, <2>5, <3>1
  <2>7. 0 % IntSize = 0
    BY <1>3
  <2> QED  BY <1>1, <1>7, <2>1, <2>4, <2>6, <2>7 DEF Tested
<1>10. SeesTheLastOverride'
  BY <1>7 DEF SeesTheLastOverride
<1>11. PlanMatchesRounds'
  BY <1>1, <1>5 DEF PlanMatchesRounds
<1> QED  BY <1>6, <1>8, <1>9, <1>10, <1>11 DEF ParamsInv

LEMMA SkipPreserves == ASSUME ParamsInv, SkipRound PROVE ParamsInv'
<1>1. /\ code = Running /\ planned > 0 /\ round < Rounds /\ round \in skip
      /\ round' = round + 1
      /\ UNCHANGED <<program, options, planned, turn, rounds, test_count, code, defVars, infoVars>>
  BY DEF SkipRound, Looping
<1>2. /\ skip \in SUBSET Round /\ count \in Int /\ Rounds \in Nat /\ round \in 0..Rounds
      /\ planned \in Nat /\ turn \in Nat /\ rounds \in Seq(Run)
  BY TapParamsAssumption DEF ParamsInv, Typed
<1>3. parsing = "done" /\ pos = 0
  BY <1>1, <1>2 DEF ParamsInv, Ordered
<1>4. Typed' /\ Ordered' /\ Followed' /\ NothingAfterAMistake' /\ Param' = Param
  <2>1. round' \in 0..Rounds /\ planned' # 0
    BY <1>1, <1>2
  <2>2. test_count \in 0..IntSize-1 /\ planned \in 0..IntSize-1
    BY DEF ParamsInv, Typed
  <2> QED  BY <1>1, <1>2, <1>3, <2>1, <2>2, LoopSteps
<1>5. skip' = skip /\ count' = count /\ \A r : Runs(r)' = Runs(r)
  BY <1>1 DEF options, Runs
<1>6. /\ turn = 0
      /\ \A i \in 1..Len(rounds) : rounds[i].round \in Round \ skip /\ rounds[i].round <= round
      /\ \A i, j \in 1..Len(rounds) : i < j => rounds[i].round <= rounds[j].round
      /\ \A r \in Round \ skip : r < round => Cardinality(Runs(r)) = count
  BY <1>1, <1>2 DEF ParamsInv, Looped
<1>7. Looped'
  <2>1. \A i \in 1..Len(rounds) : rounds[i].round <= round'
    <3>1. \A r \in Round : r <= round => r <= round + 1
      BY <1>2 DEF Round
    <3> QED  BY <1>1, <1>6, <3>1
  <2>2. \A r \in Round \ skip : r < round' => r < round
    BY <1>1, <1>2 DEF Round
  <2>3. Runs(round)' = {}
    <3>1. ASSUME NEW i \in 1..Len(rounds) PROVE rounds[i].round # round + 1
      <4>1. rounds[i].round \in Round /\ rounds[i].round <= round
        BY <1>6
      <4> QED  BY <1>2, <4>1 DEF Round
    <3> QED  BY <1>1, <3>1 DEF Runs
  <2>4. Cardinality(Runs(round)') = 0
    BY <2>3, FS_EmptySet
  <2> QED  BY <1>1, <1>5, <1>6, <2>1, <2>2, <2>4 DEF Looped
<1>8. Tested'
  <2>1. Before' = Before
    <3>1. \A r \in Round \ skip : r < round + 1 <=> r < round
      BY <1>1, <1>2 DEF Round
    <3> QED  BY <1>1, <1>5, <3>1 DEF Before
  <2>2. Total' = Total
    BY <1>5 DEF Total, MapThenSumSet, MapThenFoldSet
  <2>3. \A r \in Round : 0 * Plan[r] = 0
    BY TapParamsAssumption
  <2>4. (IF round < Rounds THEN turn * Plan[round] ELSE 0) = 0
    BY <1>1, <1>2, <1>6, <2>3 DEF Round
  <2>5. (IF round' < Rounds THEN turn' * Plan[round'] ELSE 0) = 0
    BY <1>1, <1>2, <1>6, <2>3 DEF Round
  <2> QED  BY <1>1, <1>5, <2>1, <2>2, <2>4, <2>5 DEF ParamsInv, Tested
<1>9. SeesTheLastOverride'
  BY <1>1, <1>4, Meant DEF ParamsInv, SeesTheLastOverride
<1>10. PlanMatchesRounds'
  BY <1>1 DEF ParamsInv, PlanMatchesRounds
<1> QED  BY <1>4, <1>7, <1>8, <1>9, <1>10 DEF ParamsInv

\* One more call of tap_main(), and which round it is for.
LEMMA RunsOne ==
    ASSUME rounds \in Seq(Run), NEW q \in Run, rounds' = Append(rounds, q)
    PROVE  /\ Cardinality(Runs(q.round)') = Cardinality(Runs(q.round)) + 1
           /\ \A r : r # q.round => Runs(r)' = Runs(r)
<1>1. /\ Len(rounds) \in Nat /\ Len(rounds') = Len(rounds) + 1
      /\ \A i \in 1..Len(rounds) : rounds'[i] = rounds[i]
      /\ rounds'[Len(rounds) + 1] = q
  BY Appended
<1>2. PICK n \in Nat : n = Len(rounds)
  BY <1>1
<1>3. ASSUME NEW r
      PROVE  Runs(r)' = Runs(r) \cup {i \in {n + 1} : q.round = r}
  <2>1. Runs(r) = {i \in 1..n : rounds[i].round = r}
    BY <1>2 DEF Runs
  <2>2. Runs(r)' = {i \in 1..n+1 : rounds'[i].round = r}
    BY <1>1, <1>2 DEF Runs
  <2>3. \A i : i \in 1..n+1 <=> i \in 1..n \/ i = n + 1
    BY <1>2
  <2>4. n + 1 \notin 1..n
    BY <1>2
  <2>5. ASSUME NEW i PROVE i \in Runs(r)' <=> i \in Runs(r) \/ (i = n + 1 /\ q.round = r)
    <3>1. CASE i \in 1..n
      BY <1>1, <1>2, <2>1, <2>2, <2>3, <2>4, <3>1
    <3>2. CASE i = n + 1
      BY <1>1, <1>2, <2>1, <2>2, <2>3, <2>4, <3>2
    <3>3. CASE i \notin 1..n /\ i # n + 1
      BY <2>1, <2>2, <2>3, <3>3
    <3> QED  BY <3>1, <3>2, <3>3
  <2> QED  BY <2>5
<1>4. \A r : r # q.round => Runs(r)' = Runs(r)
  BY <1>3
<1>5. PICK k : k = q.round
  OBVIOUS
<1>6. PICK S \in SUBSET (1..n) : S = Runs(k)
  BY <1>2 DEF Runs
<1>7. Cardinality(S \cup {n + 1}) = Cardinality(S) + 1
  <2>1. IsFiniteSet(1..n)
    BY FS_Interval
  <2>3. IsFiniteSet(S)
    BY <2>1, FS_Subset
  <2>2. n + 1 \notin S
    BY <1>2
  <2> QED  BY <2>2, <2>3, FS_AddElement
<1>8. Runs(k)' = S \cup {n + 1}
  BY <1>3, <1>5, <1>6
<1>9. Cardinality(Runs(k)') = Cardinality(Runs(k)) + 1
  BY <1>6, <1>7, <1>8
<1> QED  BY <1>4, <1>5, <1>9

LEMMA RunPreserves == ASSUME ParamsInv, RunRound PROVE ParamsInv'
<1> DEFINE q == [round |-> round, values |-> [p \in Param |-> Value(p)]]
<1>1. /\ code = Running /\ planned > 0 /\ round < Rounds /\ round \notin skip
      /\ turn < count /\ turn' = turn + 1
      /\ rounds' = Append(rounds, q)
      /\ test_count' = (test_count + Plan[round]) % IntSize
      /\ UNCHANGED <<program, options, planned, round, code, defVars, infoVars>>
  BY DEF RunRound, Looping
<1>2. /\ skip \in SUBSET Round /\ count \in Int /\ Rounds \in Nat /\ round \in 0..Rounds
      /\ planned \in Nat /\ turn \in Nat /\ rounds \in Seq(Run) /\ IntSize \in Nat \ {0}
      /\ planned \in 0..IntSize-1 /\ test_count \in 0..IntSize-1
  BY TapParamsAssumption DEF ParamsInv, Typed
<1>3. parsing = "done" /\ pos = 0
  BY <1>1, <1>2 DEF ParamsInv, Ordered
<1>4. round \in Round \ skip /\ Plan[round] \in Nat
  BY <1>1, <1>2, TapParamsAssumption DEF Round
<1>5. \A p \in Param : Value(p) = GetOverride(p, Own) /\ Value(p) \in Arg
  <2>1. ~Mistakes
    BY <1>1 DEF ParamsInv, NothingAfterAMistake, Mistakes, Running
  <2>2. \A p \in DOMAIN override : override[p] \in Arg
    BY DEF ParamsInv, Typed
  <2>3. ~active => DOMAIN override = {}
    BY <2>1 DEF ParamsInv, Followed
  <2> QED  BY <2>2, <2>3 DEF Value, GetOverride, Arg
<1>6. q \in Run /\ q.round = round /\ \A p \in Param : q.values[p] = Value(p)
  BY <1>4, <1>5 DEF Run
<1> HIDE DEF q
<1>7. rounds' \in Seq(Run)
  BY <1>1, <1>2, <1>6
<1>8. test_count' \in 0..IntSize-1
  <2>1. PICK x \in Int : x = test_count + Plan[round]
    BY <1>2, <1>4
  <2>2. test_count' = x % IntSize
    BY <1>1, <2>1
  <2> QED  BY <1>2, <2>2
<1>9. Typed' /\ Ordered' /\ Followed' /\ NothingAfterAMistake' /\ ~Mistakes /\ Param' = Param
  <2>1. turn' \in Nat /\ planned' # 0
    BY <1>1, <1>2
  <2> QED  BY <1>1, <1>2, <1>3, <1>7, <1>8, <2>1, LoopSteps
<1>10. skip' = skip /\ count' = count
  BY <1>1 DEF options
<1>11. /\ \A i \in 1..Len(rounds) : rounds[i].round \in Round \ skip /\ rounds[i].round <= round
       /\ \A i, j \in 1..Len(rounds) : i < j => rounds[i].round <= rounds[j].round
       /\ \A r \in Round \ skip : r < round => Cardinality(Runs(r)) = count
       /\ Cardinality(Runs(round)) = turn
  BY <1>1 DEF ParamsInv, Looped
<1>12. /\ Len(rounds) \in Nat /\ Len(rounds') = Len(rounds) + 1
       /\ \A i \in 1..Len(rounds) : rounds'[i] = rounds[i]
       /\ rounds'[Len(rounds) + 1] = q
  BY <1>1, <1>2, <1>6, Appended
<1>13. \A i : i \in 1..Len(rounds') <=> i \in 1..Len(rounds) \/ i = Len(rounds) + 1
  BY <1>12
<1>14. Looped'
  <2>1. \A i \in 1..Len(rounds') : rounds'[i].round \in Round \ skip /\ rounds'[i].round <= round
    <3>1. round <= round
      BY <1>2
    <3> QED  BY <1>4, <1>6, <1>11, <1>12, <1>13, <3>1
  <2>2. \A i, j \in 1..Len(rounds') : i < j => rounds'[i].round <= rounds'[j].round
    <3> SUFFICES ASSUME NEW i \in 1..Len(rounds'), NEW j \in 1..Len(rounds'), i < j
                 PROVE  rounds'[i].round <= rounds'[j].round
      OBVIOUS
    <3>1. i \in 1..Len(rounds)
      BY <1>12
    <3>2. CASE j \in 1..Len(rounds)
      BY <1>11, <1>12, <3>1, <3>2
    <3>3. CASE j = Len(rounds) + 1
      BY <1>6, <1>11, <1>12, <3>1, <3>3
    <3> QED  BY <1>13, <3>2, <3>3
  <2>3. \A r \in Round \ skip : r < round => Cardinality(Runs(r)') = count
    <3>1. \A r : r # round => Runs(r)' = Runs(r)
      BY <1>1, <1>2, <1>6, RunsOne
    <3>2. \A r \in Round : r < round => r # round
      BY <1>2 DEF Round
    <3> QED  BY <1>11, <3>1, <3>2
  <2>4. Cardinality(Runs(round)') = turn'
    <3>1. PICK r : r = round
      OBVIOUS
    <3>2. Cardinality(Runs(r)') = Cardinality(Runs(r)) + 1
      BY <1>1, <1>2, <1>6, <3>1, RunsOne
    <3>3. Runs(round)' = Runs(r)'
      BY <1>1, <3>1 DEF Runs
    <3> QED  BY <1>1, <1>11, <3>1, <3>2, <3>3
  <2>5. turn' <= count
    BY <1>1, <1>2
  <2> QED  BY <1>1, <1>4, <1>10, <2>1, <2>2, <2>3, <2>4, <2>5 DEF Looped
<1>15. Tested'
  <2>1. Before' = Before /\ Total' = Total
    BY <1>1, <1>10 DEF Before, Total, MapThenSumSet, MapThenFoldSet
  <2>2. PICK a \in Int : a = count * PlanSum(Before)
    <3>1. \A x, y \in Int : x * y \in Int
      OBVIOUS
    <3> QED  BY <1>2, <3>1, Sums
  <2>3. PICK b \in Int : b = turn * Plan[round]
    <3>1. \A x, y \in Int : x * y \in Int
      OBVIOUS
    <3> QED  BY <1>2, <1>4, <3>1
  <2>4. (turn + 1) * Plan[round] = b + Plan[round]
    <3>1. \A x, y \in Int : (x + 1) * y = x * y + y
      OBVIOUS
    <3> QED  BY <1>2, <1>4, <2>3, <3>1
  <2>5. test_count = (a + b) % IntSize /\ planned = (Total * count) % IntSize
    BY <1>1, <2>2, <2>3 DEF ParamsInv, Tested
  <2>6. PICK c \in Int : c = a + b
    OBVIOUS
  <2>7. test_count' = (c + Plan[round]) % IntSize
    <3>1. PICK x \in Int : x = Plan[round]
      BY <1>4
    <3>2. PICK m \in Nat \ {0} : m = IntSize
      BY <1>2
    <3>3. test_count = c % m
      BY <2>5, <2>6, <3>2
    <3>4. ((c % m) + x) % m = (c + x) % m
      BY AddRemainder
    <3> QED  BY <1>1, <3>1, <3>2, <3>3, <3>4
  <2>8. c + Plan[round] = a + (b + Plan[round])
    BY <1>4, <2>6
  <2>9. test_count' = (a + (b + Plan[round])) % IntSize
    BY <2>7, <2>8
  <2> QED  BY <1>1, <1>10, <2>1, <2>2, <2>4, <2>5, <2>9 DEF Tested
<1>16. SeesTheLastOverride'
  <2>1. \A p : Wanted(p)' = Wanted(p)
    BY <1>1, Meant
  <2>2. \A p \in Param : GetOverride(p, Own) = Wanted(p)
    BY <1>9 DEF ParamsInv, Followed
  <2>3. \A p \in Param : q.values[p] = Wanted(p)
    BY <1>5, <1>6, <2>2
  <2> QED  BY <1>9, <1>12, <1>13, <2>1, <2>3 DEF ParamsInv, SeesTheLastOverride
<1>17. PlanMatchesRounds'
  BY <1>1 DEF PlanMatchesRounds
<1> QED  BY <1>9, <1>14, <1>15, <1>16, <1>17 DEF ParamsInv

LEMMA NextPreserves == ASSUME ParamsInv, NextRound PROVE ParamsInv'
<1>1. /\ code = Running /\ planned > 0 /\ round < Rounds /\ round \notin skip
      /\ turn = count /\ turn' = 0 /\ round' = round + 1
      /\ UNCHANGED <<program, options, planned, rounds, test_count, code, defVars, infoVars>>
  BY DEF NextRound, Looping
<1>2. /\ skip \in SUBSET Round /\ count \in Int /\ Rounds \in Nat /\ round \in 0..Rounds
      /\ planned \in Nat /\ turn \in Nat /\ rounds \in Seq(Run) /\ IntSize \in Nat \ {0}
      /\ planned \in 0..IntSize-1 /\ test_count \in 0..IntSize-1
  BY TapParamsAssumption DEF ParamsInv, Typed
<1>3. parsing = "done" /\ pos = 0
  BY <1>1, <1>2 DEF ParamsInv, Ordered
<1>4. round \in Round \ skip /\ Plan[round] \in Nat
  BY <1>1, <1>2, TapParamsAssumption DEF Round
<1>5. Typed' /\ Ordered' /\ Followed' /\ NothingAfterAMistake' /\ Param' = Param
  <2>1. round' \in 0..Rounds /\ turn' \in Nat /\ planned' # 0
    BY <1>1, <1>2
  <2> QED  BY <1>1, <1>2, <1>3, <2>1, LoopSteps
<1>6. skip' = skip /\ count' = count /\ \A r : Runs(r)' = Runs(r)
  BY <1>1 DEF options, Runs
<1>7. /\ \A i \in 1..Len(rounds) : rounds[i].round \in Round \ skip /\ rounds[i].round <= round
      /\ \A i, j \in 1..Len(rounds) : i < j => rounds[i].round <= rounds[j].round
      /\ \A r \in Round \ skip : r < round => Cardinality(Runs(r)) = count
      /\ Cardinality(Runs(round)) = turn
  BY <1>1 DEF ParamsInv, Looped
<1>8. Looped'
  <2>1. \A i \in 1..Len(rounds) : rounds[i].round <= round'
    <3>1. \A r \in Round : r <= round => r <= round + 1
      BY <1>2 DEF Round
    <3> QED  BY <1>1, <1>7, <3>1
  <2>2. \A r \in Round \ skip : r < round' => Cardinality(Runs(r)) = count
    <3>1. \A r \in Round : r < round + 1 => r < round \/ r = round
      BY <1>2 DEF Round
    <3> QED  BY <1>1, <1>7, <3>1
  <2>3. Runs(round)' = {}
    <3>1. ASSUME NEW i \in 1..Len(rounds) PROVE rounds[i].round # round + 1
      <4>1. rounds[i].round \in Round /\ rounds[i].round <= round
        BY <1>7
      <4> QED  BY <1>2, <4>1 DEF Round
    <3> QED  BY <1>1, <3>1 DEF Runs
  <2>4. Cardinality(Runs(round)') = 0
    BY <2>3, FS_EmptySet
  <2> QED  BY <1>1, <1>6, <1>7, <2>1, <2>2, <2>4 DEF Looped
<1>9. Tested'
  <2>1. Total' = Total
    BY <1>6 DEF Total, MapThenSumSet, MapThenFoldSet
  <2>2. Before' = Before \cup {round}
    <3>1. \A r \in Round \ skip : r < round + 1 <=> r < round \/ r = round
      BY <1>1, <1>2 DEF Round
    <3> QED  BY <1>1, <1>4, <1>6, <3>1 DEF Before
  <2>3. PICK B \in SUBSET Round : B = Before
    BY DEF Before
  <2>4. round \notin B
    BY <1>2, <2>3 DEF Before
  <2>5. PICK r \in Round : r = round
    BY <1>4
  <2>6. PlanSum(B \cup {r}) = Plan[r] + PlanSum(B) /\ PlanSum(B) \in Nat
    <3>1. (B \cup {r}) \ {r} = B /\ r \in B \cup {r} /\ B \cup {r} \in SUBSET Round
      BY <2>4, <2>5
    <3> QED  BY <3>1, PlanSumRemove, PlanSumPick
  <2>7. PlanSum(Before') = Plan[round] + PlanSum(Before)
    BY <2>2, <2>3, <2>5, <2>6
  <2>8. count * (Plan[round] + PlanSum(Before)) = count * PlanSum(Before) + count * Plan[round]
    <3>1. \A x, y, z \in Int : x * (y + z) = x * z + x * y
      OBVIOUS
    <3> QED  BY <1>2, <1>4, <2>3, <2>6, <3>1
  <2>9. (IF round' < Rounds THEN turn' * Plan[round'] ELSE 0) = 0
    <3>1. \A x \in Round : 0 * Plan[x] = 0
      BY TapParamsAssumption
    <3> QED  BY <1>1, <1>2, <3>1 DEF Round
  <2>10. /\ planned = (Total * count) % IntSize
         /\ test_count = (count * PlanSum(Before) + turn * Plan[round]) % IntSize
    BY <1>1 DEF ParamsInv, Tested
  <2>11. PICK c \in Int : c = count * PlanSum(Before')
    <3>1. \A x, y \in Int : x * y \in Int
      OBVIOUS
    <3> QED  BY <1>2, <1>4, <2>3, <2>6, <2>7, <3>1
  <2>12. c = count * PlanSum(Before) + turn * Plan[round]
    BY <1>1, <2>7, <2>8, <2>11
  <2>13. test_count' = (count' * PlanSum(Before') + 0) % IntSize
    BY <1>1, <1>6, <2>10, <2>11, <2>12
  <2> QED  BY <1>1, <1>6, <2>1, <2>9, <2>10, <2>13 DEF Tested
<1>10. SeesTheLastOverride'
  BY <1>1, <1>5, Meant DEF ParamsInv, SeesTheLastOverride
<1>11. PlanMatchesRounds'
  BY <1>1 DEF ParamsInv, PlanMatchesRounds
<1> QED  BY <1>5, <1>8, <1>9, <1>10, <1>11 DEF ParamsInv

LEMMA FinishPreserves == ASSUME ParamsInv, Finish PROVE ParamsInv'
<1>1. /\ code = Running /\ planned > 0 /\ round = Rounds
      /\ code' = (IF planned < test_count THEN test_count - planned
                                          ELSE planned - test_count) % 256
      /\ UNCHANGED <<options, defVars, loops>> /\ UNCHANGED <<program, infoVars>>
  BY DEF Finish
<1>2. /\ skip \in SUBSET Round /\ count \in Int /\ Rounds \in Nat /\ rounds \in Seq(Run)
      /\ planned \in 0..IntSize-1 /\ test_count \in 0..IntSize-1 /\ turn \in Nat
      /\ IntSize \in Nat \ {0}
  BY TapParamsAssumption DEF ParamsInv, Typed
<1>3. planned = test_count
  <2>1. Before = Round \ skip
    BY <1>1, <1>2 DEF Before, Round
  <2>2. Total = PlanSum(Before) /\ Total \in Nat
    BY <1>2, <2>1, Sums
  <2>3. /\ planned = (Total * count) % IntSize
        /\ test_count = (count * PlanSum(Before) + IF round < Rounds THEN turn * Plan[round] ELSE 0) % IntSize
    BY <1>1 DEF ParamsInv, Tested
  <2>4. ~(round < Rounds)
    BY <1>1, <1>2
  <2>5. count * Total + 0 = Total * count
    <3>1. \A x, y \in Int : x * y + 0 = y * x
      OBVIOUS
    <3> QED  BY <1>2, <2>2, <3>1
  <2> QED  BY <2>2, <2>3, <2>4, <2>5
<1>4. code' = 0
  BY <1>1, <1>2, <1>3
<1>5. UNCHANGED <<planned, round, turn, rounds, test_count>>
  BY <1>1 DEF loops
<1>6. Typed' /\ Ordered' /\ Followed' /\ NothingAfterAMistake'
  <2>1. planned # 0
    BY <1>1, <1>2
  <2>2. parsing = "done" /\ pos = 0
    BY <2>1 DEF ParamsInv, Ordered
  <2>3. round \in 0..Rounds
    BY DEF ParamsInv, Typed
  <2>4. code' \in {Running} \cup 0..255
    BY <1>4
  <2> QED  BY <1>1, <1>2, <1>5, <2>1, <2>2, <2>3, <2>4, LoopSteps
<1>7. Looped' /\ SeesTheLastOverride' /\ Tested'
  BY <1>1, LoopsStay
<1>8. PlanMatchesRounds'
  BY <1>3, <1>4, <1>5 DEF PlanMatchesRounds
<1> QED  BY <1>6, <1>7, <1>8 DEF ParamsInv

LEMMA ParamsNext == ASSUME ParamsInv, [Next]_vars PROVE ParamsInv'
<1>1. CASE ReadDefinition
  BY <1>1, DefinitionPreserves
<1>2. ASSUME NEW o \in program.options,
             Help(o) \/ Information(o) \/ Verbose(o) \/ SkipRanges(o) \/ SetCount(o) \/ Override(o)
      PROVE  ParamsInv'
  BY <1>2, ReadsPreserves
<1>3. CASE TellInfo
  BY <1>3, InfoPreserves
<1>4. CASE StartRounds
  BY <1>4, StartPreserves
<1>5. CASE SkipRound
  BY <1>5, SkipPreserves
<1>6. CASE RunRound
  BY <1>6, RunPreserves
<1>7. CASE NextRound
  BY <1>7, NextPreserves
<1>8. CASE Finish
  BY <1>8, FinishPreserves
<1>9. CASE Exited
  BY <1>9, StutterPreserves DEF Exited
<1>10. CASE UNCHANGED vars
  BY <1>10, StutterPreserves
<1> QED  BY <1>1, <1>2, <1>3, <1>4, <1>5, <1>6, <1>7, <1>8, <1>9, <1>10 DEF Next

LEMMA ParamsSafe == Spec => []ParamsInv
<1>1. Init => ParamsInv
  BY ParamsInit
<1>2. ParamsInv /\ [Next]_vars => ParamsInv'
  BY ParamsNext
<1> QED  BY <1>1, <1>2, PTL DEF Spec

-----------------------------------------------------------------------------
(* The theorems *)

\* What is on the command line, in types: tap_params_main() keeps its counters
\* within the table of rounds and within an unsigned int.
THEOREM ParamsTypeCorrect == Spec => []TypeOK
<1>1. ParamsInv => TypeOK
  <2> SUFFICES ASSUME ParamsInv PROVE TypeOK
    OBVIOUS
  <2>1. /\ argv \in Seq(program.options)
        /\ preset \subseteq Round /\ skip \subseteq Round
        /\ disabled \in BOOLEAN /\ active \in BOOLEAN /\ verbose \in BOOLEAN
        /\ count \in Int /\ turn \in Nat
        /\ DOMAIN override \subseteq Param
        /\ parsing \in {"init", "members", "done", "crashed"}
        /\ pos \in 0..Len(section)+1 /\ rec \in 0..Len(records)
        /\ planned \in 0..IntSize-1 /\ test_count \in 0..IntSize-1
        /\ round \in 0..Rounds
        /\ code \in {Running} \cup 0..255
    BY DEF ParamsInv, Typed
  <2>2. {disabled, active, verbose} \subseteq BOOLEAN
    BY <2>1
  <2>3. code = Running => turn \in 0..count
    <3> SUFFICES ASSUME code = Running PROVE turn \in 0..count
      OBVIOUS
    <3>1. count >= 1
      BY DEF ParamsInv, NothingAfterAMistake, Followed, Mistakes, Running
    <3>2. planned = 0 => turn = 0
      BY DEF ParamsInv, Ordered
    <3>3. planned > 0 => turn = 0 \/ turn <= count
      BY <2>1 DEF ParamsInv, Looped
    <3>4. planned = 0 \/ planned > 0
      BY <2>1, TapParamsAssumption
    <3> QED  BY <2>1, <3>1, <3>2, <3>3, <3>4
  <2>4. \A i \in 1..Len(rounds) : rounds[i].round \in Round
    <3>1. rounds \in Seq(Run)
      BY DEF ParamsInv, Typed
    <3>2. \A i \in 1..Len(rounds) : rounds[i] \in Run
      BY <3>1
    <3> QED  BY <3>2 DEF Run
  <2> QED  BY <2>1, <2>2, <2>3, <2>4 DEF TypeOK
<1> QED  BY <1>1, ParamsSafe, PTL

\* tap_main() is called for the rounds of the command line, in order, and
\* count times each, however many rounds and options there are.
THEOREM RunsSelected == Spec => []RunsTheSelected
<1>1. ParamsInv => RunsTheSelected
  <2> SUFFICES ASSUME ParamsInv PROVE RunsTheSelected
    OBVIOUS
  <2>1. planned \in Nat /\ skip \in SUBSET Round /\ round \in 0..Rounds /\ Rounds \in Nat
        /\ turn \in Nat /\ count \in Int
    BY TapParamsAssumption DEF ParamsInv, Typed
  <2>2. CASE planned = 0
    <3>1. Len(rounds) = 0
      BY <2>2 DEF ParamsInv, Ordered
    <3>2. \A r : {i \in 1..Len(rounds) : rounds[i].round = r} = {}
      BY <3>1
    <3>3. \A r : Cardinality({i \in 1..Len(rounds) : rounds[i].round = r}) = 0
      BY <3>2, FS_EmptySet
    <3> QED  BY <2>2, <3>1, <3>3 DEF RunsTheSelected
  <2>3. CASE planned > 0
    <3>1. ~Mistakes
      BY <2>3 DEF ParamsInv, NothingAfterAMistake, Mistakes
    <3>2. count = Times /\ count >= 1 /\ skip = Round \ Selected
      BY <3>1 DEF ParamsInv, Followed
    <3>3. /\ \A i \in 1..Len(rounds) : rounds[i].round \in Round \ skip /\ rounds[i].round <= round
          /\ \A i, j \in 1..Len(rounds) : i < j => rounds[i].round <= rounds[j].round
          /\ \A r \in Round \ skip : r < round => Cardinality(Runs(r)) = count
          /\ Cardinality(Runs(round)) = turn
          /\ turn > 0 => turn <= count
      BY <2>3 DEF ParamsInv, Looped
    <3>4. \A i \in 1..Len(rounds) : rounds[i].round \in Selected
      BY <3>2, <3>3
    <3>5. ASSUME NEW r \in Round
          PROVE  /\ Cardinality(Runs(r)) > 0 => Cardinality(Runs(r)) <= Times
                 /\ (r \in Selected /\ planned > 0 /\ round > r) => Cardinality(Runs(r)) = Times
      <4>1. CASE Runs(r) = {}
        <5>1. Cardinality(Runs(r)) = 0
          BY <4>1, FS_EmptySet
        <5>2. r \in Selected /\ round > r => Cardinality(Runs(r)) = Times
          BY <2>1, <3>2, <3>3 DEF Round
        <5> QED  BY <5>1, <5>2
      <4>2. CASE Runs(r) # {}
        <5>1. r \in Round \ skip /\ r <= round
          BY <3>3, <4>2 DEF Runs
        <5>2. CASE r < round
          BY <2>1, <3>2, <3>3, <5>1, <5>2
        <5>3. CASE r = round
          BY <2>1, <3>2, <3>3, <5>3
        <5> QED  BY <2>1, <5>1, <5>2, <5>3 DEF Round
      <4> QED  BY <4>1, <4>2
    <3> QED  BY <3>3, <3>4, <3>5 DEF RunsTheSelected, Runs
  <2> QED  BY <2>1, <2>2, <2>3
<1> QED  BY <1>1, ParamsSafe, PTL

\* Every call of tap_main() finds, for each parameter, what the last -p said.
THEOREM SeesOverrides == Spec => []SeesTheLastOverride
<1>1. ParamsInv => SeesTheLastOverride
  BY DEF ParamsInv
<1> QED  BY <1>1, ParamsSafe, PTL

\* The tests of the rounds add up to the plan, for any plans, counts and
\* width of an int, also where the sum wraps around.
THEOREM PlanIsMet == Spec => []PlanMatchesRounds
<1>1. ParamsInv => PlanMatchesRounds
  BY DEF ParamsInv
<1> QED  BY <1>1, ParamsSafe, PTL

\* After a mistake on the command line nothing is planned and nothing is run.
THEOREM MistakesEndIt == Spec => []NothingAfterAMistake
<1>1. ParamsInv => NothingAfterAMistake
  BY DEF ParamsInv
<1> QED  BY <1>1, ParamsSafe, PTL
-----------------------------------------------------------------------------
(* What -v says *)

Mentioned == {told[i].round : i \in 1..Len(told)}
Called == {rounds[i].round : i \in 1..Len(rounds)}

\* What was said belongs to the rounds that ran: one entry for each of them, in
\* their order, with the values that the command line gives.
Said ==
    /\ told \in Seq({told[i] : i \in DOMAIN told})
    /\ verbose <=> Given("v") # {}
    /\ planned = 0 => told = <<>>
    /\ Mentioned = IF verbose THEN Called ELSE {}
    /\ \A i, j \in 1..Len(told) : i < j => told[i].round < told[j].round
    /\ \A i \in 1..Len(told) : \A p \in Param : told[i].of[p].value = Wanted(p)

\* A sequence is one of its own elements.
LEMMA OfItsElements ==
    ASSUME NEW S, NEW s \in Seq(S)
    PROVE  s \in Seq({s[i] : i \in DOMAIN s})
<1>1. Len(s) \in Nat /\ DOMAIN s = 1..Len(s) /\ s = [i \in 1..Len(s) |-> s[i]]
  OBVIOUS
<1>2. PICK n \in Nat : n = Len(s)
  BY <1>1
<1>3. PICK T : T = {s[i] : i \in DOMAIN s}
  OBVIOUS
<1>4. \A i \in 1..n : s[i] \in T
  BY <1>1, <1>2, <1>3
<1>5. s \in [1..n -> T]
  BY <1>1, <1>2, <1>4
<1> QED  BY <1>2, <1>3, <1>5

LEMMA SaidInit == ASSUME Init PROVE Said
<1>1. told = <<>> /\ rounds = <<>> /\ argv = <<>> /\ verbose = FALSE
  BY DEF Init
<1>2. Len(told) = 0 /\ Len(rounds) = 0 /\ Len(argv) = 0 /\ \A T : told \in Seq(T)
  BY <1>1
<1>3. Mentioned = {} /\ Called = {} /\ Given("v") = {}
  BY <1>2 DEF Mentioned, Called, Given
<1> QED  BY <1>1, <1>2, <1>3 DEF Said

\* Nothing is said before the first round.
LEMMA NothingSaid ==
    ASSUME told' = <<>>, rounds' = <<>>, (verbose <=> Given("v") # {})'
    PROVE  Said'
<1>1. Len(told') = 0 /\ Len(rounds') = 0 /\ \A T : told' \in Seq(T)
  OBVIOUS
<1>2. Mentioned' = {} /\ Called' = {}
  BY <1>1 DEF Mentioned, Called
<1> QED  BY <1>1, <1>2 DEF Said

\* The options come before the rounds, and -v is one of them.
LEMMA SaidReads ==
    ASSUME ParamsInv, Said, NEW o \in program.options,
           Help(o) \/ Information(o) \/ Verbose(o) \/ SkipRanges(o) \/ SetCount(o) \/ Override(o)
    PROVE  Said'
<1>1. Reads(o)
  BY DEF Help, Information, Verbose, SkipRanges, SetCount, Override
<1>2. planned = 0 /\ UNCHANGED <<told, rounds>>
  BY <1>1 DEF Reads, loops
<1>3. told' = <<>> /\ rounds' = <<>>
  BY <1>2 DEF Said, ParamsInv, Ordered
<1>4. (verbose <=> Given("v") # {})'
  <2>1. CASE o.opt = "v"
    <3>1. Given("v")' # {}
      <4>1. Given("v")' = Given("v") \cup {i \in {Len(argv) + 1} : o.opt = "v"}
        BY <1>1, GivenStep
      <4> QED  BY <2>1, <4>1
    <3>2. Verbose(o)
      BY <2>1 DEF Help, Information, SkipRanges, SetCount, Override
    <3> QED  BY <2>1, <3>1, <3>2 DEF Verbose
  <2>2. CASE o.opt # "v"
    <3>1. Given("v")' = Given("v")
      BY <1>1, <2>2, GivenSame
    <3>2. verbose' = verbose
      <4>1. verbose \in BOOLEAN
        BY DEF ParamsInv, Typed
      <4> QED  BY <2>2, <4>1 DEF Help, Information, Verbose, SkipRanges, SetCount, Override
    <3> QED  BY <3>1, <3>2 DEF Said
  <2> QED  BY <2>1, <2>2
<1> QED  BY <1>3, <1>4, NothingSaid

\* Only -v and the rounds change what is said.
LEMMA SaidStays ==
    ASSUME Said, UNCHANGED <<options, defVars, told, rounds>>, planned' = planned
    PROVE  Said'
<1>1. UNCHANGED <<argv, verbose>>
  BY DEF options
<1>2. Param' = Param /\ \A p : Wanted(p)' = Wanted(p)
  BY Meant
<1>3. Given("v")' = Given("v") /\ Mentioned' = Mentioned /\ Called' = Called
  BY <1>1 DEF Given, Mentioned, Called
<1> QED  BY <1>1, <1>2, <1>3 DEF Said

\* The definition is read, and the plan printed, before the first round.
LEMMA SaidBefore ==
    ASSUME ParamsInv, Said, ReadDefinition \/ StartRounds
    PROVE  Said'
<1>1. UNCHANGED <<options, told, rounds>>
  BY DEF ReadDefinition, StartRounds, loops
<1>2. planned = 0
  BY DEF ReadDefinition, StartRounds, Parse, RemoveNested, NextMember, LastMember,
         ParamsInv, Ordered
<1>3. told' = <<>> /\ rounds' = <<>>
  BY <1>1, <1>2 DEF Said, ParamsInv, Ordered
<1>4. (verbose <=> Given("v") # {})'
  <2>1. verbose' = verbose /\ Given("v")' = Given("v")
    BY <1>1 DEF options, Given
  <2> QED  BY <2>1 DEF Said
<1> QED  BY <1>3, <1>4, NothingSaid

\* A round is told of before its first call: those told of before are smaller.
LEMMA SaidRuns == ASSUME ParamsInv, Said, RunRound PROVE Said'
<1> DEFINE x == [round |-> round, of |-> Told]
           y == [round |-> round, values |-> [p \in Param |-> Value(p)]]
<1>1. /\ code = Running /\ planned > 0
      /\ told' = IF Dumps /\ verbose THEN Append(told, x) ELSE told
      /\ rounds' = Append(rounds, y)
      /\ UNCHANGED <<options, planned, round, code, defVars>>
  BY DEF RunRound, Looping
<1>2. x.round = round /\ y.round = round
  OBVIOUS
<1>3. UNCHANGED <<argv, verbose>> /\ Given("v")' = Given("v")
  BY <1>1 DEF options, Given
<1>4. Param' = Param /\ \A p : Wanted(p)' = Wanted(p)
  BY <1>1, Meant
<1>5. \A p \in Param : x.of[p].value = Wanted(p)
  <2>1. ~Mistakes
    BY <1>1 DEF ParamsInv, NothingAfterAMistake, Mistakes, Running
  <2>2. \A p \in Param : Value(p) = Wanted(p)
    BY <2>1 DEF ParamsInv, Followed, Value, GetOverride
  <2>3. \A p \in Param : x.of[p].value = Value(p)
    BY DEF Told
  <2> QED  BY <2>2, <2>3
<1> HIDE DEF x, y
<1>6. /\ Len(rounds) \in Nat /\ Len(rounds') = Len(rounds) + 1
      /\ \A i \in 1..Len(rounds) : rounds'[i] = rounds[i]
      /\ rounds'[Len(rounds) + 1] = y
      /\ \A i \in 1..Len(rounds) : rounds[i].round <= round /\ rounds[i].round \in Int
  <2>1. rounds \in Seq(Run)
    BY DEF ParamsInv, Typed
  <2>2. Len(rounds) \in Nat /\ \A i \in 1..Len(rounds) : rounds[i] \in Run
    BY <2>1
  <2>3. \A i \in 1..Len(rounds) : rounds[i].round <= round
    BY <1>1 DEF ParamsInv, Looped
  <2>4. \A i \in 1..Len(rounds) : rounds[i].round \in Int
    BY <2>2 DEF Run, Round
  <2>5. PICK T : T = Run \cup {y}
    OBVIOUS
  <2>6. rounds \in Seq(T) /\ y \in T
    BY <2>1, <2>2, <2>5
  <2> QED  BY <1>1, <2>2, <2>3, <2>4, <2>6, Appended
<1>7. Called' = Called \cup {round}
  <2>1. \A i : i \in 1..Len(rounds') <=> i \in 1..Len(rounds) \/ i = Len(rounds) + 1
    BY <1>6
  <2>2. Len(rounds) + 1 \notin 1..Len(rounds)
    BY <1>6
  <2>3. ASSUME NEW r PROVE r \in Called' <=> r \in Called \/ r = round
    <3>1. r \in Called' <=> \E i \in 1..Len(rounds') : rounds'[i].round = r
      BY DEF Called
    <3>2. r \in Called <=> \E i \in 1..Len(rounds) : rounds[i].round = r
      BY DEF Called
    <3> QED  BY <1>2, <1>6, <2>1, <2>2, <3>1, <3>2
  <2> QED  BY <2>3
<1>8. round \in Called <=> turn # 0
  <2>1. Cardinality(Runs(round)) = turn
    BY <1>1 DEF ParamsInv, Looped
  <2>2. Runs(round) \in SUBSET (1..Len(rounds))
    BY DEF Runs
  <2>3. turn = 0 <=> Runs(round) = {}
    BY <1>6, <2>1, <2>2, Positions
  <2> QED  BY <2>3 DEF Runs, Called
<1>9. CASE ~(Dumps /\ verbose)
  <2>1. told' = told /\ Mentioned' = Mentioned
    BY <1>1, <1>9 DEF Mentioned
  <2>2. verbose => Called' = Called
    BY <1>7, <1>8, <1>9 DEF Dumps
  <2> QED  BY <1>1, <1>3, <1>4, <2>1, <2>2 DEF Said
<1>10. CASE Dumps /\ verbose
  <2>1. verbose /\ turn = 0
    BY <1>10 DEF Dumps
  <2>2. PICK S : S = {told[i] : i \in DOMAIN told} \cup {x}
    OBVIOUS
  <2>3. told \in Seq(S) /\ x \in S
    <3>1. told \in Seq({told[i] : i \in DOMAIN told})
      BY DEF Said
    <3>2. PICK T : T = {told[i] : i \in DOMAIN told}
      OBVIOUS
    <3>3. S = T \cup {x} /\ told \in Seq(T)
      BY <2>2, <3>1, <3>2
    <3> QED  BY <3>3
  <2>4. /\ Len(told) \in Nat /\ Len(told') = Len(told) + 1
        /\ \A i \in 1..Len(told) : told'[i] = told[i]
        /\ told'[Len(told) + 1] = x
        /\ told' \in Seq(S)
    BY <1>1, <1>10, <2>3, Appended
  <2>5. told' \in Seq({told'[i] : i \in DOMAIN told'})
    BY <2>4, OfItsElements
  <2>6. \A i : i \in 1..Len(told') <=> i \in 1..Len(told) \/ i = Len(told) + 1
    BY <2>4
  <2>7. Len(told) + 1 \notin 1..Len(told)
    BY <2>4
  <2>8. Mentioned' = Mentioned \cup {round}
    <3>1. ASSUME NEW r PROVE r \in Mentioned' <=> r \in Mentioned \/ r = round
      <4>1. r \in Mentioned' <=> \E i \in 1..Len(told') : told'[i].round = r
        BY DEF Mentioned
      <4>2. r \in Mentioned <=> \E i \in 1..Len(told) : told[i].round = r
        BY DEF Mentioned
      <4> QED  BY <1>2, <2>4, <2>6, <2>7, <4>1, <4>2
    <3> QED  BY <3>1
  <2>9. \A i \in 1..Len(told) : told[i].round < round
    <3> SUFFICES ASSUME NEW i \in 1..Len(told) PROVE told[i].round < round
      OBVIOUS
    <3>1. told[i].round \in Called
      BY <2>1 DEF Said, Mentioned
    <3>2. told[i].round # round
      BY <1>8, <2>1, <3>1
    <3>3. round \in Int
      BY DEF ParamsInv, Typed
    <3>4. PICK j \in 1..Len(rounds) : rounds[j].round = told[i].round
      BY <3>1 DEF Called
    <3> QED  BY <1>6, <3>2, <3>3, <3>4
  <2>10. \A i, j \in 1..Len(told') : i < j => told'[i].round < told'[j].round
    <3> SUFFICES ASSUME NEW i \in 1..Len(told'), NEW j \in 1..Len(told'), i < j
                 PROVE  told'[i].round < told'[j].round
      OBVIOUS
    <3>1. i \in 1..Len(told)
      BY <2>4
    <3>2. CASE j \in 1..Len(told)
      BY <2>4, <3>1, <3>2 DEF Said
    <3>3. CASE j = Len(told) + 1
      BY <1>2, <2>4, <2>9, <3>1, <3>3
    <3> QED  BY <2>6, <3>2, <3>3
  <2>11. \A i \in 1..Len(told') : \A p \in Param' : told'[i].of[p].value = Wanted(p)'
    BY <1>4, <1>5, <2>4, <2>6 DEF Said
  <2>12. Mentioned' = IF verbose' THEN Called' ELSE {}
    BY <1>3, <1>7, <2>1, <2>8 DEF Said
  <2>13. planned' # 0
    <3>1. planned \in Nat
      BY TapParamsAssumption DEF ParamsInv, Typed
    <3> QED  BY <1>1, <3>1
  <2>14. verbose' <=> Given("v")' # {}
    BY <1>3 DEF Said
  <2> QED  BY <2>5, <2>10, <2>11, <2>12, <2>13, <2>14 DEF Said
<1> QED  BY <1>9, <1>10

LEMMA SaidNext == ASSUME ParamsInv, Said, [Next]_vars PROVE Said'
<1>1. ASSUME NEW o \in program.options,
             Help(o) \/ Information(o) \/ Verbose(o) \/ SkipRanges(o) \/ SetCount(o) \/ Override(o)
      PROVE  Said'
  BY <1>1, SaidReads
<1>2. CASE ReadDefinition \/ StartRounds
  BY <1>2, SaidBefore
<1>3. CASE TellInfo \/ SkipRound \/ NextRound \/ Finish \/ Exited \/ UNCHANGED vars
  <2>1. UNCHANGED <<options, defVars, told, rounds>> /\ planned' = planned
    BY <1>3 DEF TellInfo, SkipRound, NextRound, Finish, Exited, vars, loops
  <2> QED  BY <2>1, SaidStays
<1>4. CASE RunRound
  BY <1>4, SaidRuns
<1> QED  BY <1>1, <1>2, <1>3, <1>4 DEF Next

LEMMA SaidSafe == Spec => []Said
<1>1. Init => Said
  BY SaidInit
<1>2. ParamsInv /\ Said /\ [Next]_vars => Said'
  BY SaidNext
<1> QED  BY <1>1, <1>2, ParamsSafe, PTL DEF Spec

\* -v tells of every round that runs, once, before its first call, in the order
\* of the rounds and with the values that all its calls get, for any table of
\* rounds, counts and overrides.
THEOREM TellsOfTheRuns == Spec => []TellsWhatRuns
<1>1. ASSUME ParamsInv, Said PROVE TellsWhatRuns
  <2>1. /\ DOMAIN told = 1..Len(told)
        /\ DOMAIN rounds = 1..Len(rounds)
    <3>1. rounds \in Seq(Run) /\ told \in Seq({told[i] : i \in DOMAIN told})
      BY <1>1 DEF ParamsInv, Typed, Said
    <3>2. \A T : \A s \in Seq(T) : DOMAIN s = 1..Len(s)
      OBVIOUS
    <3> QED  BY <3>1, <3>2
  <2>2. {told[i].round : i \in DOMAIN told}
        = IF Given("v") = {} THEN {} ELSE {rounds[i].round : i \in DOMAIN rounds}
    BY <1>1, <2>1 DEF Said, Mentioned, Called
  <2>3. \A i \in DOMAIN told : \A j \in DOMAIN rounds :
            \A p \in Param : told[i].of[p].value = rounds[j].values[p]
    BY <1>1, <2>1 DEF ParamsInv, SeesTheLastOverride, Said
  <2> QED  BY <1>1, <2>1, <2>2, <2>3 DEF TellsWhatRuns, Said
<1> QED  BY <1>1, ParamsSafe, SaidSafe, PTL
=============================================================================
