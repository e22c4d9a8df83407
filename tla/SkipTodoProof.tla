--------------------------- MODULE SkipTodoProof ---------------------------
(***************************************************************************)
(* Theorems about SkipTodo for any number of threads and of blocks.        *)
(***************************************************************************)
EXTENDS SkipTodo, SequenceTheorems, FiniteSetTheorems, TLAPS

Block == [kind : Kind, skipped : BOOLEAN]

\* The places of the blocks of one kind, and how many there are.
Of(s, k) == {i \in DOMAIN s : s[i].kind = k}
Number(s, k) == Cardinality(Of(s, k))

-----------------------------------------------------------------------------
(* Lemmas about sequences *)

LEMMA FrontLast ==
    ASSUME NEW S, NEW s \in Seq(S), s # <<>>
    PROVE  /\ Len(s) \in Nat \ {0} /\ DOMAIN s = 1..Len(s)
           /\ Last(s) \in S /\ Last(s) = s[Len(s)]
           /\ Front(s) \in Seq(S)
           /\ Len(Front(s)) = Len(s) - 1
           /\ DOMAIN Front(s) = 1..Len(s) - 1
           /\ \A i \in 1..Len(s) - 1 : Front(s)[i] = s[i]
<1>1. Len(s) \in Nat \ {0} /\ DOMAIN s = 1..Len(s) /\ \A i \in 1..Len(s) : s[i] \in S
  BY EmptySeq, LenProperties, ElementOfSeq
<1>2. /\ SubSeq(s, 1, Len(s) - 1) \in Seq(S)
      /\ Len(SubSeq(s, 1, Len(s) - 1)) = Len(s) - 1
      /\ \A i \in 1..Len(s) - 1 : SubSeq(s, 1, Len(s) - 1)[i] = s[i]
  BY <1>1, SubSeqProperties
<1>3. DOMAIN SubSeq(s, 1, Len(s) - 1) = 1..Len(s) - 1
  BY <1>2, LenProperties
<1> QED  BY <1>1, <1>2, <1>3 DEF Front, Last

LEMMA LastIndex ==
    ASSUME NEW S, NEW s \in Seq(S), s # <<>>
    PROVE  /\ Len(s) \in 1..Len(s) /\ Len(s) \in DOMAIN s
           /\ Last(s) = s[Len(s)] /\ Last(s) \in S
<1>1. /\ Len(s) \in Nat \ {0} /\ DOMAIN s = 1..Len(s)
      /\ Last(s) \in S /\ Last(s) = s[Len(s)]
  BY FrontLast
<1> QED  BY <1>1

LEMMA AppendLast ==
    ASSUME NEW S, NEW s \in Seq(S), NEW e \in S
    PROVE  /\ Append(s, e) \in Seq(S) /\ Append(s, e) # <<>>
           /\ Len(s) \in Nat /\ Len(Append(s, e)) = Len(s) + 1
           /\ DOMAIN s = 1..Len(s) /\ DOMAIN Append(s, e) = 1..Len(s) + 1
           /\ \A i \in 1..Len(s) : Append(s, e)[i] = s[i]
           /\ Last(Append(s, e)) = e /\ Append(s, e)[Len(s) + 1] = e
  BY AppendProperties, LenProperties DEF Last

LEMMA OfFinite ==
    ASSUME NEW s \in Seq(Block), NEW k
    PROVE  /\ IsFiniteSet(Of(s, k)) /\ Number(s, k) \in Nat
           /\ Number(s, k) = 0 <=> Of(s, k) = {}
<1>1. Len(s) \in Nat /\ DOMAIN s = 1..Len(s)
  BY LenProperties
<1>2. IsFiniteSet(1..Len(s)) /\ Of(s, k) \in SUBSET (1..Len(s))
  BY <1>1, FS_Interval DEF Of
<1>3. IsFiniteSet(Of(s, k))
  BY <1>2, FS_Subset
<1> QED  BY <1>3, FS_CardinalityType, FS_EmptySet DEF Number

\* A block that is opened is one more of its kind.
LEMMA OfAppend ==
    ASSUME NEW s \in Seq(Block), NEW b \in Block, NEW k
    PROVE  Number(Append(s, b), k) = IF b.kind = k THEN Number(s, k) + 1 ELSE Number(s, k)
<1>1. Of(Append(s, b), k) = IF b.kind = k THEN Of(s, k) \cup {Len(s) + 1} ELSE Of(s, k)
  BY AppendLast DEF Of
<1>2. Len(s) + 1 \notin Of(s, k)
  BY AppendLast DEF Of
<1> QED  BY <1>1, <1>2, OfFinite, FS_AddElement DEF Number

\* A block that is left is one less of its kind.
LEMMA OfFront ==
    ASSUME NEW s \in Seq(Block), s # <<>>, NEW k
    PROVE  Number(Front(s), k) = IF Last(s).kind = k THEN Number(s, k) - 1 ELSE Number(s, k)
<1>1. Of(Front(s), k) = Of(s, k) \ {Len(s)}
  BY FrontLast DEF Of
<1>2. Len(s) \in Of(s, k) <=> Last(s).kind = k
  <2>1. Len(s) \in Nat \ {0} /\ DOMAIN s = 1..Len(s)
    BY FrontLast
  <2>2. Len(s) \in DOMAIN s
    BY <2>1
  <2> QED  BY <2>2 DEF Of, Last
<1> QED  BY <1>1, <1>2, OfFinite, FS_RemoveElement DEF Number

\* What skip() marks is still the block that it was.
Marked(s, i) == [s EXCEPT ![i].skipped = TRUE]

LEMMA MarkedBlocks ==
    ASSUME NEW s \in Seq(Block), NEW i
    PROVE  /\ Marked(s, i) \in Seq(Block)
           /\ Len(Marked(s, i)) = Len(s) /\ DOMAIN Marked(s, i) = DOMAIN s
           /\ \A j \in DOMAIN s : Marked(s, i)[j].kind = s[j].kind
           /\ \A j \in DOMAIN s : j # i => Marked(s, i)[j] = s[j]
           /\ \A k : Number(Marked(s, i), k) = Number(s, k)
<1> DEFINE r == Marked(s, i)
<1>1. Len(s) \in Nat /\ DOMAIN s = 1..Len(s) /\ \A j \in 1..Len(s) : s[j] \in Block
  BY LenProperties, ElementOfSeq
<1>2. DOMAIN r = DOMAIN s
  BY DEF Marked
<1>3. ASSUME NEW j \in DOMAIN s PROVE r[j] = IF j = i THEN [s[j] EXCEPT !.skipped = TRUE] ELSE s[j]
  BY DEF Marked
<1>4. ASSUME NEW j \in DOMAIN s
      PROVE  r[j] \in Block /\ r[j].kind = s[j].kind
  BY <1>1, <1>3 DEF Block
<1>5. r \in [1..Len(s) -> Block]
  <2>1. r = [j \in DOMAIN r |-> r[j]]
    BY DEF Marked
  <2> QED  BY <1>1, <1>2, <1>4, <2>1
<1>6. r \in Seq(Block) /\ Len(r) = Len(s)
  BY <1>1, <1>5, SeqDef
<1>7. \A k : Of(r, k) = Of(s, k)
  BY <1>2, <1>4 DEF Of
<1> QED  BY <1>2, <1>3, <1>4, <1>6, <1>7 DEF Number

-----------------------------------------------------------------------------
(* Types *)

\* Whoever evaluates a condition is in a block.
InCond == \A t \in Thread : pc[t] = "cond" => block[t] # <<>>

LEMMA KeyType ==
    ASSUME TypeOK, NEW k \in Kind
    PROVE  KeyOf(k) \in Key /\ (made = Kind => KeyOf(k) = k /\ Stores(k))
  BY DEF TypeOK, KeyOf, Stores, Key, Kind

LEMMA Typed ==
    ASSUME TypeOK, NEW t \in Thread
    PROVE  /\ block[t] \in Seq(Block) /\ Len(block[t]) \in Nat
           /\ DOMAIN block[t] = 1..Len(block[t])
           /\ \A n \in Key : list[n][t] \in Seq(Node) /\ Len(list[n][t]) \in Nat
           /\ \A k \in Kind : list[k][t] \in Seq(Node) /\ Len(list[k][t]) \in Nat
           /\ \A k : Number(block[t], k) \in Nat
<1>1. block[t] \in Seq(Block)
  BY DEF TypeOK, Block
<1>2. \A n \in Key : list[n][t] \in Seq(Node)
  BY DEF TypeOK
<1>3. \A k \in Kind : k \in Key
  BY DEF Key
<1> QED  BY <1>1, <1>2, <1>3, LenProperties, OfFinite

\* A list that is replaced.
LEMMA Stored ==
    ASSUME TypeOK, NEW k \in Kind, NEW t \in Thread, NEW s \in Seq(Node), SetNodes(k, t, s)
    PROVE  /\ list' \in [Key -> [Thread -> Seq(Node)]]
           /\ \A n \in Key, u \in Thread :
                  list'[n][u] = IF n = KeyOf(k) /\ u = t THEN s ELSE list[n][u]
<1> DEFINE m == KeyOf(k)
<1>1. m \in Key
  BY KeyType
<1>2. list' = [list EXCEPT ![m][t] = s]
  BY DEF SetNodes, Slot
<1> HIDE DEF m
<1>3. /\ list' \in [Key -> [Thread -> Seq(Node)]]
      /\ \A n \in Key, u \in Thread :
             list'[n][u] = IF n = m /\ u = t THEN s ELSE list[n][u]
  BY <1>1, <1>2 DEF TypeOK
<1> QED  BY <1>3 DEF m

LEMMA Jumps ==
    ASSUME TypeOK, NEW t \in Thread, NEW l \in {"code", "cond", "init"}, Goto(t, l)
    PROVE  /\ pc' \in [Thread -> {"code", "cond", "init"}]
           /\ \A u \in Thread : pc'[u] = IF u = t THEN l ELSE pc[u]
  BY DEF TypeOK, Goto

LEMMA EvaluatedNodes ==
    ASSUME NEW nodes \in Seq(Node), nodes # <<>>
    PROVE  /\ Evaluated(nodes) \in Seq(Node)
           /\ Len(nodes) \in Nat \ {0}
           /\ Len(Evaluated(nodes)) = IF Last(nodes).evals = 0 THEN Len(nodes) ELSE Len(nodes) - 1
           /\ \A i \in 1..Len(Evaluated(nodes)) :
                  /\ Evaluated(nodes)[i].kind = nodes[i].kind
                  /\ Evaluated(nodes)[i].evals = IF i = Len(nodes) THEN 1 ELSE nodes[i].evals
<1>1. Len(nodes) \in Nat \ {0} /\ Len(nodes) \in 1..Len(nodes)
  BY EmptySeq
<1>2. CASE Last(nodes).evals = 0
  <2> DEFINE e == [nodes[Len(nodes)] EXCEPT !.evals = 1]
  <2>1. Evaluated(nodes) = [nodes EXCEPT ![Len(nodes)] = e]
    BY <1>2 DEF Evaluated
  <2>2. nodes[Len(nodes)] \in Node
    BY <1>1, ElementOfSeq
  <2>3. e \in Node /\ e.kind = nodes[Len(nodes)].kind /\ e.evals = 1
    BY <2>2 DEF Node
  <2> HIDE DEF e
  <2> QED  BY <1>1, <1>2, <2>1, <2>3, ExceptSeq
<1>3. CASE Last(nodes).evals # 0
  <2>1. Evaluated(nodes) = Front(nodes)
    BY <1>3 DEF Evaluated
  <2>2. /\ Front(nodes) \in Seq(Node) /\ Len(Front(nodes)) = Len(nodes) - 1
        /\ \A i \in 1..Len(nodes) - 1 : Front(nodes)[i] = nodes[i]
    BY FrontLast
  <2> QED  BY <1>1, <1>3, <2>1, <2>2
<1> QED  BY <1>2, <1>3

\* The condition: it belongs to the innermost block and either goes on with a
\* node of its kind, or ends the program.
LEMMA Condition ==
    ASSUME TypeOK, InCond, NEW t \in Thread, Cond(t)
    PROVE  LET k == Last(block[t]).kind
               nodes == list[KeyOf(k)][t]
           IN  /\ block[t] \in Seq(Block) /\ block[t] # <<>>
               /\ k \in Kind /\ nodes \in Seq(Node)
               /\ status' = Flow(nodes, k)
               /\ \/ status' # "running" /\ UNCHANGED <<list, block, pc>>
                  \/ /\ status' = "running" /\ nodes # <<>>
                     /\ SetNodes(k, t, Evaluated(nodes))
                     /\ block' = IF Last(nodes).evals = 0 THEN block
                                 ELSE [block EXCEPT ![t] = Front(block[t])]
                     /\ Goto(t, "code")
<1> DEFINE k == Last(block[t]).kind
           nodes == list[KeyOf(k)][t]
<1>1. block[t] \in Seq(Block) /\ block[t] # <<>>
  BY DEF TypeOK, InCond, Cond, At, Block
<1>2. k \in Kind
  <2>1. Last(block[t]) \in Block
    BY <1>1, FrontLast
  <2> QED  BY <2>1 DEF Block
<1>3. nodes \in Seq(Node)
  BY <1>2, KeyType, Typed
<1>4. /\ status' = Flow(nodes, k)
      /\ IF status' = "running"
         THEN /\ SetNodes(k, t, Evaluated(nodes))
              /\ block' = IF Last(nodes).evals = 0 THEN block
                          ELSE [block EXCEPT ![t] = Front(block[t])]
              /\ Goto(t, "code")
         ELSE UNCHANGED <<list, block, pc>>
  BY Zenon DEF Cond, Nodes, Slot
<1> HIDE DEF nodes, k
<1>5. status' = "running" => nodes # <<>>
  BY <1>4 DEF Flow
<1> QED  BY <1>1, <1>2, <1>3, <1>4, <1>5, Zenon DEF nodes, k

LEMMA TypeInit == Init => TypeOK /\ InCond
<1> SUFFICES ASSUME Init PROVE TypeOK /\ InCond
  OBVIOUS
<1>1. list \in [Key -> [Thread -> Seq(Node)]] /\ block \in [Thread -> Seq(Block)]
  BY EmptySeq DEF Init
<1>2. starts \in [Thread -> 0..MaxStarts] /\ pc \in [Thread -> {"code", "cond", "init"}]
  BY SkipTodoAssumption DEF Init
<1> QED  BY <1>1, <1>2 DEF Init, TypeOK, InCond, Block

LEMMA TypeCreateKey ==
    ASSUME TypeOK, InCond, NEW t \in Thread, NEW k \in Kind, CreateKey(t, k)
    PROVE  TypeOK' /\ InCond'
<1>1. /\ made' \subseteq Kind
      /\ UNCHANGED <<initialized, own, list, block, starts, history, status>>
  BY DEF CreateKey, TypeOK, history
<1>2. /\ pc' \in [Thread -> {"code", "cond", "init"}]
      /\ \A u \in Thread : pc'[u] = "cond" => pc[u] = "cond"
  BY Jumps DEF CreateKey, TypeOK
<1> QED  BY <1>1, <1>2 DEF TypeOK, InCond, history

LEMMA TypeStart ==
    ASSUME TypeOK, InCond, NEW t \in Thread, NEW k \in Kind, Start(t, k)
    PROVE  TypeOK' /\ InCond'
<1> DEFINE b == [kind |-> k, skipped |-> FALSE]
<1>1. b \in Block /\ block[t] \in Seq(Block)
  BY DEF Block, TypeOK
<1>2. block' = [block EXCEPT ![t] = Append(block[t], b)]
  BY DEF Start
<1> HIDE DEF b
<1>3. /\ block' \in [Thread -> Seq(Block)] /\ block'[t] # <<>>
      /\ \A u \in Thread \ {t} : block'[u] = block[u]
  <2>1. Append(block[t], b) \in Seq(Block) /\ Append(block[t], b) # <<>>
    BY <1>1, AppendLast
  <2> QED  BY <1>2, <2>1 DEF TypeOK, Block
<1>4. list' \in [Key -> [Thread -> Seq(Node)]]
  <2>1. list[KeyOf(k)][t] \in Seq(Node) /\ NewNode(k) \in Node
    <3>1. KeyOf(k) \in Key /\ \A n \in Key : list[n][t] \in Seq(Node)
      BY KeyType, Typed
    <3>2. NewNode(k) \in Node
      BY DEF NewNode, Node
    <3> QED  BY <3>1, <3>2
  <2>2. Append(list[KeyOf(k)][t], NewNode(k)) \in Seq(Node)
    BY <2>1, AppendLast
  <2>3. Stores(k) => SetNodes(k, t, Append(list[KeyOf(k)][t], NewNode(k)))
    BY DEF Start, Push, Nodes, Slot
  <2> QED  BY <2>2, <2>3, Stored DEF Start, TypeOK
<1>5. starts' \in [Thread -> 0..MaxStarts]
  BY SkipTodoAssumption DEF Start, TypeOK
<1>6. /\ pc' \in [Thread -> {"code", "cond", "init"}]
      /\ \A u \in Thread \ {t} : pc'[u] = pc[u]
  BY Jumps DEF Start
<1>7. InCond'
  BY <1>3, <1>6 DEF InCond
<1>8. early' \subseteq Thread
  BY DEF Start, TypeOK
<1> QED  BY <1>3, <1>4, <1>5, <1>6, <1>7, <1>8 DEF Start, TypeOK, Block, keys, history

\* A thread leaves its innermost block.
LEMMA Leaves ==
    ASSUME TypeOK, NEW t \in Thread, block[t] # <<>>,
           block' = [block EXCEPT ![t] = Front(block[t])]
    PROVE  /\ block' \in [Thread -> Seq(Block)]
           /\ \A u \in Thread : block'[u] = IF u = t THEN Front(block[t]) ELSE block[u]
<1>1. block[t] \in Seq(Block)
  BY DEF TypeOK, Block
<1>2. Front(block[t]) \in Seq(Block)
  BY <1>1, FrontLast
<1> QED  BY <1>2 DEF TypeOK, Block

LEMMA TypeCond ==
    ASSUME TypeOK, InCond, NEW t \in Thread, Cond(t) PROVE TypeOK' /\ InCond'
<1> DEFINE k == Last(block[t]).kind
           nodes == list[KeyOf(k)][t]
<1>1. /\ block[t] \in Seq(Block) /\ block[t] # <<>>
      /\ k \in Kind /\ nodes \in Seq(Node)
      /\ status' = Flow(nodes, k)
      /\ \/ status' # "running" /\ UNCHANGED <<list, block, pc>>
         \/ /\ status' = "running" /\ nodes # <<>>
            /\ SetNodes(k, t, Evaluated(nodes))
            /\ block' = IF Last(nodes).evals = 0 THEN block
                        ELSE [block EXCEPT ![t] = Front(block[t])]
            /\ Goto(t, "code")
  BY Condition, Zenon
<1> HIDE DEF nodes, k
<1>2. UNCHANGED <<keys, starts, history>>
  BY DEF Cond, history
<1>3. status' \in {"running", "crashed", "bailed", "undefined"}
  BY <1>1 DEF Flow
<1>4. CASE status' # "running"
  BY <1>1, <1>2, <1>3, <1>4 DEF TypeOK, InCond, keys, history
<1>5. CASE status' = "running"
  <2>1. list' \in [Key -> [Thread -> Seq(Node)]]
    BY <1>1, <1>5, EvaluatedNodes, Stored
  <2>2. /\ block' \in [Thread -> Seq(Block)]
        /\ \A u \in Thread \ {t} : block'[u] = block[u]
    BY <1>1, <1>5, Leaves DEF TypeOK, Block
  <2>3. /\ pc' \in [Thread -> {"code", "cond", "init"}]
        /\ \A u \in Thread : pc'[u] = IF u = t THEN "code" ELSE pc[u]
    BY <1>1, <1>5, Jumps
  <2>4. InCond'
    BY <2>2, <2>3 DEF InCond
  <2> QED  BY <1>2, <1>3, <2>1, <2>2, <2>3, <2>4 DEF TypeOK, Block, keys, history
<1> QED  BY <1>4, <1>5

LEMMA TypeSkip ==
    ASSUME TypeOK, InCond, NEW t \in Thread, Skip(t) PROVE TypeOK' /\ InCond'
<1> DEFINE i == Innermost(t, "skip")
           r == Marked(block[t], i)
<1>1. block[t] \in Seq(Block)
  BY DEF TypeOK, Block
<1>2. block' = [block EXCEPT ![t] = r]
  BY DEF Skip, Marked
<1> HIDE DEF i
<1>3. r \in Seq(Block) /\ Len(r) = Len(block[t])
  BY <1>1, MarkedBlocks
<1> HIDE DEF r
<1>4. block[t] # <<>>
  BY DEF Skip, Inside
<1>5. r # <<>>
  <2>1. Len(block[t]) # 0
    BY <1>1, <1>4, EmptySeq
  <2> QED  BY <1>3, <2>1, EmptySeq
<1>6. /\ block' \in [Thread -> Seq(Block)]
      /\ \A u \in Thread : block'[u] = IF u = t THEN r ELSE block[u]
  BY <1>2, <1>3 DEF TypeOK, Block
<1>7. /\ pc' \in [Thread -> {"code", "cond", "init"}]
      /\ \A u \in Thread : pc'[u] = IF u = t THEN "cond" ELSE pc[u]
  BY Jumps DEF Skip, Continue
<1>8. InCond'
  BY <1>5, <1>6, <1>7 DEF InCond
<1>9. misled' \subseteq Thread
  BY DEF Skip, TypeOK
<1> QED  BY <1>6, <1>7, <1>8, <1>9 DEF Skip, TypeOK, Block, keys, history

LEMMA TypeStep == ASSUME TypeOK, InCond, [Next]_vars PROVE TypeOK' /\ InCond'
<1>1. ASSUME NEW t \in Thread, Initialise(t) PROVE TypeOK' /\ InCond'
  BY <1>1, Jumps DEF Initialise, TypeOK, InCond, history
<1>2. ASSUME NEW t \in Thread, NEW k \in Kind, CreateKey(t, k) PROVE TypeOK' /\ InCond'
  BY <1>2, TypeCreateKey
<1>3. ASSUME NEW t \in Thread, NEW k \in Kind, Start(t, k) PROVE TypeOK' /\ InCond'
  BY <1>3, TypeStart
<1>4. ASSUME NEW t \in Thread, Cond(t) PROVE TypeOK' /\ InCond'
  BY <1>4, TypeCond
<1>5. ASSUME NEW t \in Thread, EndBody(t) PROVE TypeOK' /\ InCond'
  BY <1>5, Jumps DEF EndBody, TypeOK, InCond, keys, history
<1>6. ASSUME NEW t \in Thread, Skip(t) PROVE TypeOK' /\ InCond'
  BY <1>6, TypeSkip
<1>7. ASSUME NEW t \in Thread, Break(t) PROVE TypeOK' /\ InCond'
  BY <1>7, Leaves DEF Break, At, TypeOK, InCond, Block, keys, history
<1>8. ASSUME NEW t \in Thread, Test(t) PROVE TypeOK' /\ InCond'
  BY <1>8 DEF Test, TypeOK, InCond, keys, history
<1>9. CASE UNCHANGED vars
  BY <1>9 DEF vars, keys, TypeOK, InCond, history
<1> QED
  BY <1>1, <1>2, <1>3, <1>4, <1>5, <1>6, <1>7, <1>8, <1>9 DEF Next, Stopped

\* Every variable keeps its type, for any number of threads and blocks; in
\* particular no node in a list was evaluated more than once.
THEOREM TypeCorrect == Spec => []TypeOK
<1>1. TypeOK /\ InCond /\ [Next]_vars => TypeOK' /\ InCond'
  BY TypeStep
<1> QED  BY <1>1, TypeInit, PTL DEF Spec
-----------------------------------------------------------------------------
(* The lists and the blocks of a thread that opened no block too early *)

\* Before the keys are created it has neither blocks nor nodes.
Untouched(t) ==
    made # Kind => block[t] = <<>> /\ \A n \in Key : list[n][t] = <<>>

\* There is a node for every block; more than one if a block was left in a way
\* that the library does not see.
Covered(t) == \A k \in Kind : Number(block[t], k) <= Len(list[k][t])

\* There is exactly one, if no block was left that way.
Matched(t) == \A k \in Kind : Number(block[t], k) = Len(list[k][t])

\* A list has nodes of its own kind only.
Sorted(t) == \A k \in Kind : \A j \in 1..Len(list[k][t]) : list[k][t][j].kind = k

\* All conditions were evaluated once, but perhaps that of a new block.
Entered(t) ==
    \A k \in Kind : \A j \in 1..Len(list[k][t]) :
        \/ list[k][t][j].evals = 1
        \/ pc[t] = "cond" /\ Last(block[t]).kind = k /\ j = Len(list[k][t])

\* A block whose rest is skipped is the innermost one and about to be left.
Reported(t) ==
    \A i \in DOMAIN block[t] :
        block[t][i].skipped =>
            /\ pc[t] = "cond" /\ i = Len(block[t])
            /\ Last(list[block[t][i].kind][t]).evals = 1

Kept(t) ==
    /\ Untouched(t) /\ Covered(t) /\ Sorted(t) /\ Entered(t)
    /\ t \notin left => Matched(t)
    /\ t \notin misled => Reported(t)

Lists == \A t \in Thread \ early : Kept(t)

LEMMA ListsInit == Init => Lists
<1> SUFFICES ASSUME Init PROVE Lists
  OBVIOUS
<1>1. /\ \A n \in Key, t \in Thread : list[n][t] = <<>>
      /\ \A t \in Thread : block[t] = <<>>
  BY DEF Init
<1>2. \A k : Number(<<>>, k) = 0
  <2>1. \A k : Of(<<>>, k) = {}
    BY DEF Of
  <2> QED  BY <2>1, FS_EmptySet DEF Number
<1>3. \A k \in Kind, t \in Thread : list[k][t] = <<>>
  BY <1>1 DEF Key
<1> QED
  BY <1>1, <1>2, <1>3
  DEF Lists, Kept, Untouched, Covered, Matched, Sorted, Entered, Reported

\* The kinds of the blocks, for a thread that other threads leave alone.
LEMMA KindOfBlock ==
    ASSUME TypeOK, NEW t \in Thread, NEW i \in DOMAIN block[t]
    PROVE  block[t][i].kind \in Kind
<1>1. block[t] \in Seq(Block) /\ i \in 1..Len(block[t])
  BY Typed
<1>2. block[t][i] \in Block
  BY <1>1, ElementOfSeq
<1> QED  BY <1>2 DEF Block

\* Nothing changes for a thread but perhaps the keys, or that it begins to
\* evaluate a condition.
LEMMA KeptSame ==
    ASSUME TypeOK, NEW u \in Thread, Kept(u),
           block'[u] = block[u], \A n \in Key : list'[n][u] = list[n][u],
           pc[u] = "cond" => pc'[u] = "cond",
           u \in left => u \in left', u \in misled => u \in misled',
           made \subseteq made', made' \subseteq Kind
    PROVE  Kept(u)'
<1>1. \A k \in Kind : list'[k][u] = list[k][u]
  BY DEF Key
<1>2. made' # Kind => made # Kind
  OBVIOUS
<1>3. Untouched(u)' /\ Covered(u)' /\ Sorted(u)' /\ Entered(u)'
  BY <1>1, <1>2 DEF Kept, Untouched, Covered, Sorted, Entered
<1>4. (u \notin left => Matched(u))'
  BY <1>1 DEF Kept, Matched
<1>5. (u \notin misled => Reported(u))'
  BY <1>1, KindOfBlock DEF Kept, Reported
<1> QED  BY <1>3, <1>4, <1>5 DEF Kept

\* A step of one thread leaves the others alone.
LEMMA OthersKept ==
    ASSUME TypeOK, Lists, NEW t \in Thread,
           \A u \in Thread \ {t} :
               /\ block'[u] = block[u] /\ pc'[u] = pc[u]
               /\ \A n \in Key : list'[n][u] = list[n][u],
           early \subseteq early', left \subseteq left', misled \subseteq misled',
           made \subseteq made', made' \subseteq Kind,
           t \notin early' => Kept(t)'
    PROVE  Lists'
<1> SUFFICES ASSUME NEW u \in Thread, u \notin early' PROVE Kept(u)'
  BY DEF Lists
<1>1. CASE u = t
  BY <1>1
<1>2. CASE u # t
  <2>1. Kept(u)
    BY DEF Lists
  <2> QED  BY <1>2, <2>1, KeptSame
<1> QED  BY <1>1, <1>2

\* Nothing that the invariant is about changes, but the keys and who jumps.
LEMMA ListsSame ==
    ASSUME TypeOK, Lists, UNCHANGED <<list, block, history>>,
           \A u \in Thread : pc[u] = "cond" => pc'[u] = "cond",
           made \subseteq made', made' \subseteq Kind
    PROVE  Lists'
<1> SUFFICES ASSUME NEW u \in Thread, u \notin early PROVE Kept(u)'
  BY DEF Lists, history
<1>1. Kept(u)
  BY DEF Lists
<1> QED  BY <1>1, KeptSame DEF history

LEMMA ListsStart ==
    ASSUME TypeOK, Lists, NEW t \in Thread, NEW k \in Kind, Start(t, k) PROVE Lists'
<1> DEFINE b == [kind |-> k, skipped |-> FALSE]
           s == Append(block[t], b)
           n == Append(list[KeyOf(k)][t], NewNode(k))
<1>1. /\ pc[t] = "code" /\ UNCHANGED <<made, left, misled>>
      /\ early' = IF made = Kind THEN early ELSE early \union {t}
      /\ block' = [block EXCEPT ![t] = s]
      /\ IF Stores(k) THEN SetNodes(k, t, n) ELSE list' = list
  BY DEF Start, At, Push, Nodes, Slot, keys, history
<1>2. b \in Block /\ b.kind = k /\ ~b.skipped
  BY DEF Block
<1> HIDE DEF b
<1>3. /\ Len(s) = Len(block[t]) + 1 /\ DOMAIN s = 1..Len(block[t]) + 1
      /\ \A i \in 1..Len(block[t]) : s[i] = block[t][i]
      /\ Last(s) = b /\ s[Len(block[t]) + 1] = b
      /\ \A l : Number(s, l) = IF l = k THEN Number(block[t], l) + 1 ELSE Number(block[t], l)
  BY <1>2, Typed, AppendLast, OfAppend
<1> HIDE DEF s
<1>4. \A u \in Thread : block'[u] = IF u = t THEN s ELSE block[u]
  BY <1>1 DEF TypeOK
<1>5. \A u \in Thread : pc'[u] = IF u = t THEN "cond" ELSE pc[u]
  BY Jumps DEF Start
<1>6. NewNode(k) \in Node /\ NewNode(k).kind = k
  BY DEF NewNode, Node
<1>7. list[KeyOf(k)][t] \in Seq(Node)
  BY KeyType, Typed
<1>8. /\ n \in Seq(Node) /\ Len(n) = Len(list[KeyOf(k)][t]) + 1
      /\ \A i \in 1..Len(list[KeyOf(k)][t]) : n[i] = list[KeyOf(k)][t][i]
      /\ n[Len(list[KeyOf(k)][t]) + 1] = NewNode(k)
  BY <1>6, <1>7, AppendLast
<1> HIDE DEF n
<1>9. \A m \in Key, u \in Thread :
          list'[m][u] = IF Stores(k) /\ m = KeyOf(k) /\ u = t THEN n ELSE list[m][u]
  BY <1>1, <1>8, Stored
<1>10. ASSUME t \notin early' PROVE Kept(t)'
  <2>1. made = Kind /\ t \notin early /\ KeyOf(k) = k /\ Stores(k)
    BY <1>1, <1>10, KeyType
  <2>2. Kept(t)
    BY <2>1 DEF Lists
  <2>3. \A l \in Kind : list'[l][t] = IF l = k THEN n ELSE list[l][t]
    BY <1>9, <2>1 DEF Key
  <2>4. block'[t] = s /\ pc'[t] = "cond" /\ made' = Kind
    BY <1>1, <1>4, <1>5, <2>1
  <2>5. /\ Len(n) = Len(list[k][t]) + 1 /\ Len(list[k][t]) \in Nat
        /\ \A i \in 1..Len(list[k][t]) : n[i] = list[k][t][i]
        /\ n[Len(n)].kind = k
    BY <1>6, <1>8, <2>1, Typed
  <2>6. \A l \in Kind : Number(block[t], l) \in Nat /\ Len(list[l][t]) \in Nat
    BY Typed
  <2>7. Untouched(t)'
    BY <2>4 DEF Untouched
  <2>8. Covered(t)'
    BY <1>3, <2>2, <2>3, <2>4, <2>5, <2>6 DEF Kept, Covered
  <2>9. Sorted(t)' /\ Entered(t)'
    <3> SUFFICES ASSUME NEW l \in Kind, NEW j \in 1..Len(list'[l][t])
                 PROVE  /\ list'[l][t][j].kind = l
                        /\ \/ list'[l][t][j].evals = 1
                           \/ pc'[t] = "cond" /\ Last(block'[t]).kind = l /\ j = Len(list'[l][t])
      BY DEF Sorted, Entered
    <3>1. CASE l # k
      BY <1>1, <2>2, <2>3, <3>1 DEF Kept, Sorted, Entered
    <3>2. CASE l = k
      <4>1. j \in 1..Len(list[k][t]) \/ j = Len(n)
        BY <2>3, <2>5, <3>2
      <4>2. \A i \in 1..Len(list[k][t]) : list[k][t][i].evals = 1 /\ list[k][t][i].kind = k
        BY <1>1, <2>2 DEF Kept, Sorted, Entered
      <4>3. Last(block'[t]).kind = k
        BY <1>2, <1>3, <2>4
      <4> QED  BY <2>3, <2>4, <2>5, <3>2, <4>1, <4>2, <4>3
    <3> QED  BY <3>1, <3>2
  <2>10. (t \notin left => Matched(t))'
    BY <1>1, <1>3, <2>2, <2>3, <2>4, <2>5, <2>6 DEF Kept, Matched
  <2>11. ASSUME t \notin misled' PROVE Reported(t)'
    <3>1. Reported(t)
      BY <1>1, <2>2, <2>11 DEF Kept
    <3>2. \A i \in DOMAIN s : ~s[i].skipped
      <4> SUFFICES ASSUME NEW i \in DOMAIN s PROVE ~s[i].skipped
        OBVIOUS
      <4>1. DOMAIN block[t] = 1..Len(block[t]) /\ Len(block[t]) \in Nat
        BY Typed
      <4>2. i = Len(block[t]) + 1 \/ i \in DOMAIN block[t]
        BY <1>3, <4>1
      <4>3. \A j \in DOMAIN block[t] : ~block[t][j].skipped
        BY <1>1, <3>1 DEF Reported
      <4> QED  BY <1>2, <1>3, <4>1, <4>2, <4>3
    <3> QED  BY <2>4, <3>2 DEF Reported
  <2> QED  BY <2>7, <2>8, <2>9, <2>10, <2>11 DEF Kept
<1>11. /\ early \subseteq early' /\ left \subseteq left' /\ misled \subseteq misled'
       /\ made \subseteq made' /\ made' \subseteq Kind
       /\ \A u \in Thread \ {t} :
              /\ block'[u] = block[u] /\ pc'[u] = pc[u]
              /\ \A m \in Key : list'[m][u] = list[m][u]
  BY <1>1, <1>4, <1>5, <1>9 DEF TypeOK
<1> QED  BY <1>10, <1>11, OthersKept

\* The condition of a block that was not opened too early finds a node of its
\* kind, evaluated at most once.
LEMMA NodeFound ==
    ASSUME TypeOK, NEW t \in Thread, Kept(t), block[t] # <<>>
    PROVE  LET k == Last(block[t]).kind
               nodes == list[k][t]
           IN  /\ made = Kind /\ k \in Kind /\ KeyOf(k) = k
               /\ nodes \in Seq(Node) /\ nodes # <<>>
               /\ Flow(nodes, k) = "running"
<1> DEFINE k == Last(block[t]).kind
           nodes == list[k][t]
<1>1. made = Kind
  BY DEF Kept, Untouched
<1>2. /\ Len(block[t]) \in DOMAIN block[t]
      /\ Last(block[t]) = block[t][Len(block[t])]
  <2>1. block[t] \in Seq(Block)
    BY Typed
  <2> QED  BY <2>1, LastIndex
<1>3. k \in Kind
  BY <1>2, KindOfBlock
<1>4. KeyOf(k) = k
  BY <1>1, <1>3, KeyType
<1>5. nodes \in Seq(Node) /\ Len(nodes) \in Nat
  BY <1>3, Typed
<1>6. Number(block[t], k) <= Len(nodes)
  BY <1>3 DEF Kept, Covered
<1>7. Len(block[t]) \in Of(block[t], k)
  BY <1>2 DEF Of
<1> HIDE DEF k, nodes
<1>8. Number(block[t], k) \in Nat /\ Number(block[t], k) # 0
  BY <1>7, OfFinite, Typed
<1>9. nodes # <<>>
  BY <1>5, <1>6, <1>8, EmptySeq
<1>10. /\ Len(nodes) \in 1..Len(nodes) /\ Last(nodes) = nodes[Len(nodes)]
       /\ Last(nodes) \in Node
  BY <1>5, <1>9, FrontLast
<1>11. Last(nodes).kind = k
  BY <1>3, <1>10 DEF Kept, Sorted, nodes
<1>12. ~(Last(nodes).evals > 1)
  BY <1>10 DEF Node
<1> QED  BY <1>1, <1>3, <1>4, <1>5, <1>9, <1>11, <1>12 DEF Flow, nodes, k

LEMMA ListsCond ==
    ASSUME TypeOK, InCond, Lists, NEW t \in Thread, Cond(t) PROVE Lists'
<1> DEFINE k == Last(block[t]).kind
           nodes == list[KeyOf(k)][t]
           e == Evaluated(nodes)
<1>1. /\ block[t] \in Seq(Block) /\ block[t] # <<>>
      /\ k \in Kind /\ nodes \in Seq(Node)
      /\ status' = Flow(nodes, k)
      /\ \/ status' # "running" /\ UNCHANGED <<list, block, pc>>
         \/ /\ status' = "running" /\ nodes # <<>>
            /\ SetNodes(k, t, e)
            /\ block' = IF Last(nodes).evals = 0 THEN block
                        ELSE [block EXCEPT ![t] = Front(block[t])]
            /\ Goto(t, "code")
  BY Condition, Zenon
<1>2. pc[t] = "cond" /\ UNCHANGED <<made, history>>
  BY DEF Cond, At, keys, history
<1> DEFINE stay == Last(nodes).evals = 0
           s == IF stay THEN block[t] ELSE Front(block[t])
<1>3. CASE status' # "running"
  BY <1>1, <1>2, <1>3, ListsSame DEF TypeOK
<1>4. CASE status' = "running"
  <2>1. /\ e \in Seq(Node) /\ Len(nodes) \in Nat \ {0}
        /\ Len(e) = IF stay THEN Len(nodes) ELSE Len(nodes) - 1
        /\ \A i \in 1..Len(e) :
               /\ e[i].kind = nodes[i].kind
               /\ e[i].evals = IF i = Len(nodes) THEN 1 ELSE nodes[i].evals
    BY <1>1, <1>4, EvaluatedNodes
  <2>2. \A m \in Key, u \in Thread :
            list'[m][u] = IF m = KeyOf(k) /\ u = t THEN e ELSE list[m][u]
    <3>1. SetNodes(k, t, e)
      BY <1>1, <1>4
    <3> HIDE DEF e, k
    <3> QED  BY <1>1, <2>1, <3>1, Stored
  <2> HIDE DEF e
  <2>3. \A u \in Thread : pc'[u] = IF u = t THEN "code" ELSE pc[u]
    BY <1>1, <1>4, Jumps
  <2>4. \A u \in Thread : block'[u] = IF u = t THEN s ELSE block[u]
    BY <1>1, <1>4, Leaves
  <2>5. \A l : Number(s, l) = IF l = k /\ ~stay THEN Number(block[t], l) - 1
                              ELSE Number(block[t], l)
    BY <1>1, OfFront
  <2>6. /\ Len(block[t]) \in Nat /\ DOMAIN block[t] = 1..Len(block[t])
        /\ DOMAIN s = IF stay THEN 1..Len(block[t]) ELSE 1..Len(block[t]) - 1
        /\ \A i \in DOMAIN s : s[i] = block[t][i]
        /\ Last(block[t]) = block[t][Len(block[t])]
    BY <1>1, FrontLast
  <2>7. ASSUME t \notin early PROVE Kept(t)'
    <3>1. Kept(t)
      BY <2>7 DEF Lists
    <3>2. made = Kind /\ KeyOf(k) = k
      BY <1>1, <3>1, NodeFound
    <3>3. nodes = list[k][t] /\ k = Last(block[t]).kind
      BY <3>2
    <3>4. block'[t] = s /\ pc'[t] = "code"
      BY <2>3, <2>4
    <3> HIDE DEF s, nodes, k
    <3>5. \A l \in Kind : list'[l][t] = IF l = k THEN e ELSE list[l][t]
      BY <2>2, <3>2 DEF Key
    <3>6. \A l \in Kind : Number(block[t], l) \in Nat /\ Len(list[l][t]) \in Nat
      BY Typed
    <3>7. Untouched(t)'
      BY <1>2, <3>2 DEF Untouched
    <3>8. Covered(t)'
      BY <2>1, <2>5, <3>1, <3>3, <3>4, <3>5, <3>6 DEF Kept, Covered
    <3>9. Sorted(t)' /\ Entered(t)'
      <4> SUFFICES ASSUME NEW l \in Kind, NEW j \in 1..Len(list'[l][t])
                   PROVE  list'[l][t][j].kind = l /\ list'[l][t][j].evals = 1
        BY DEF Sorted, Entered
      <4>1. CASE l # k
        BY <3>1, <3>3, <3>5, <4>1 DEF Kept, Sorted, Entered
      <4>2. CASE l = k
        <5>1. list'[l][t] = e /\ j \in 1..Len(e) /\ j \in 1..Len(nodes)
          BY <2>1, <3>5, <4>2
        <5>2. nodes[j].kind = k /\ (j # Len(nodes) => nodes[j].evals = 1)
          BY <1>1, <3>1, <3>3, <5>1 DEF Kept, Sorted, Entered
        <5> QED  BY <2>1, <4>2, <5>1, <5>2
      <4> QED  BY <4>1, <4>2
    <3>10. (t \notin left => Matched(t))'
      BY <1>2, <2>1, <2>5, <3>1, <3>3, <3>4, <3>5, <3>6 DEF Kept, Matched, history
    <3>11. ASSUME t \notin misled' PROVE Reported(t)'
      <4>1. Reported(t)
        BY <1>2, <3>1, <3>11 DEF Kept, history
      <4>2. ASSUME NEW i \in DOMAIN s, s[i].skipped PROVE FALSE
        <5>1. i \in DOMAIN block[t] /\ block[t][i].skipped
          BY <2>6, <4>2
        <5>2. i = Len(block[t]) /\ Last(list[block[t][i].kind][t]).evals = 1
          BY <4>1, <5>1 DEF Reported
        <5>3. stay
          BY <2>6, <4>2, <5>2
        <5>4. Last(nodes).evals = 1
          BY <2>6, <3>3, <5>2
        <5> QED  BY <5>3, <5>4
      <4> QED  BY <3>4, <4>2 DEF Reported
    <3> QED  BY <3>7, <3>8, <3>9, <3>10, <3>11 DEF Kept
  <2>8. /\ early \subseteq early' /\ left \subseteq left' /\ misled \subseteq misled'
        /\ made \subseteq made' /\ made' \subseteq Kind
        /\ \A u \in Thread \ {t} :
               /\ block'[u] = block[u] /\ pc'[u] = pc[u]
               /\ \A m \in Key : list'[m][u] = list[m][u]
    BY <1>2, <2>2, <2>3, <2>4 DEF TypeOK, history
  <2> QED  BY <1>2, <2>7, <2>8, OthersKept
<1> QED  BY <1>3, <1>4

LEMMA ListsEndBody ==
    ASSUME TypeOK, Lists, NEW t \in Thread, EndBody(t) PROVE Lists'
<1>1. UNCHANGED <<made, list, block, history>>
  BY DEF EndBody, keys, history
<1>2. \A u \in Thread : pc'[u] = IF u = t THEN "cond" ELSE pc[u]
  BY Jumps DEF EndBody
<1> QED  BY <1>1, <1>2, ListsSame DEF TypeOK

LEMMA ListsBreak ==
    ASSUME TypeOK, Lists, NEW t \in Thread, Break(t) PROVE Lists'
<1>1. /\ pc[t] = "code" /\ block[t] # <<>> /\ UNCHANGED <<made, list, pc, misled, early>>
      /\ left' = left \union {t}
      /\ block' = [block EXCEPT ![t] = Front(block[t])]
  BY DEF Break, At, keys, history
<1>2. \A u \in Thread : block'[u] = IF u = t THEN Front(block[t]) ELSE block[u]
  BY <1>1, Leaves
<1>3. ASSUME t \notin early PROVE Kept(t)'
  <2>1. Kept(t)
    BY <1>3 DEF Lists
  <2>2. Untouched(t)'
    BY <1>1, <2>1 DEF Kept, Untouched
  <2>3. Covered(t)'
    <3> SUFFICES ASSUME NEW l \in Kind PROVE Number(block'[t], l) <= Len(list'[l][t])
      BY DEF Covered
    <3>1. block[t] \in Seq(Block) /\ Number(block[t], l) \in Nat /\ Len(list[l][t]) \in Nat
      BY Typed
    <3>2. Number(Front(block[t]), l) = IF Last(block[t]).kind = l THEN Number(block[t], l) - 1
                                       ELSE Number(block[t], l)
      BY <1>1, <3>1, OfFront
    <3>3. Number(block[t], l) <= Len(list[l][t])
      BY <2>1 DEF Kept, Covered
    <3>4. block'[t] = Front(block[t]) /\ list'[l][t] = list[l][t]
      BY <1>1, <1>2
    <3> QED  BY <3>1, <3>2, <3>3, <3>4
  <2>4. Sorted(t)' /\ Entered(t)'
    BY <1>1, <2>1 DEF Kept, Sorted, Entered
  <2>5. ASSUME t \notin misled' PROVE Reported(t)'
    <3>1. \A i \in DOMAIN block[t] : ~block[t][i].skipped
      BY <1>1, <2>1, <2>5 DEF Kept, Reported
    <3>2. \A i \in DOMAIN Front(block[t]) :
              i \in DOMAIN block[t] /\ Front(block[t])[i] = block[t][i]
      <4>1. block[t] \in Seq(Block)
        BY Typed
      <4> QED  BY <1>1, <4>1, FrontLast
    <3> QED  BY <1>2, <3>1, <3>2 DEF Reported
  <2> QED  BY <1>1, <2>2, <2>3, <2>4, <2>5 DEF Kept
<1>4. /\ early \subseteq early' /\ left \subseteq left' /\ misled \subseteq misled'
      /\ made \subseteq made' /\ made' \subseteq Kind
      /\ \A u \in Thread \ {t} :
             /\ block'[u] = block[u] /\ pc'[u] = pc[u]
             /\ \A m \in Key : list'[m][u] = list[m][u]
  BY <1>1, <1>2 DEF TypeOK
<1> QED  BY <1>1, <1>3, <1>4, OthersKept

\* The innermost block of a kind, when it is the last one.
LEMMA InnermostLast ==
    ASSUME NEW t \in Thread, NEW k, block[t] \in Seq(Block), block[t] # <<>>,
           Last(block[t]).kind = k
    PROVE  Innermost(t, k) = Len(block[t])
<1> DEFINE n == Len(block[t])
           P(i) == block[t][i].kind = k /\ \A j \in i+1..n : block[t][j].kind # k
<1>1. n \in Nat \ {0} /\ DOMAIN block[t] = 1..n /\ Last(block[t]) = block[t][n]
  BY FrontLast
<1>2. n \in DOMAIN block[t] /\ P(n)
  BY <1>1
<1>3. \A i \in DOMAIN block[t] : P(i) => i = n
  <2> SUFFICES ASSUME NEW i \in DOMAIN block[t], i # n PROVE ~P(i)
    OBVIOUS
  <2>1. n \in i+1..n /\ block[t][n].kind = k
    BY <1>1
  <2> QED  BY <2>1
<1>4. Innermost(t, k) = CHOOSE i \in DOMAIN block[t] : P(i)
  BY DEF Innermost
<1> HIDE DEF P
<1> QED  BY <1>2, <1>3, <1>4

LEMMA ListsSkip ==
    ASSUME TypeOK, Lists, NEW t \in Thread, Skip(t) PROVE Lists'
<1> DEFINE i == Innermost(t, "skip")
           r == Marked(block[t], i)
<1>1. /\ pc[t] = "code" /\ UNCHANGED <<made, list, left, early>>
      /\ misled' = IF Last(block[t]).kind = "skip" THEN misled ELSE misled \union {t}
      /\ block' = [block EXCEPT ![t] = r]
      /\ Inside(t, "skip")
  BY DEF Skip, At, Marked, keys, history
<1>2. block[t] # <<>>
  BY <1>1 DEF Inside
<1> HIDE DEF i
<1>3. /\ Len(r) = Len(block[t]) /\ DOMAIN r = DOMAIN block[t]
      /\ \A j \in DOMAIN r : r[j].kind = block[t][j].kind
      /\ \A j \in DOMAIN r : j # i => r[j] = block[t][j]
      /\ \A k : Number(r, k) = Number(block[t], k)
  BY Typed, MarkedBlocks
<1> HIDE DEF r
<1>4. \A u \in Thread : block'[u] = IF u = t THEN r ELSE block[u]
  BY <1>1 DEF TypeOK
<1>5. \A u \in Thread : pc'[u] = IF u = t THEN "cond" ELSE pc[u]
  BY Jumps DEF Skip, Continue
<1>6. ASSUME t \notin early PROVE Kept(t)'
  <2>1. Kept(t)
    BY <1>6 DEF Lists
  <2>2. block'[t] = r /\ pc'[t] = "cond" /\ \A k \in Kind : Number(block'[t], k) = Number(block[t], k)
    BY <1>3, <1>4, <1>5
  <2>3. Untouched(t)'
    BY <1>1, <1>2, <2>1 DEF Kept, Untouched
  <2>4. Covered(t)' /\ Sorted(t)' /\ Entered(t)'
    BY <1>1, <2>1, <2>2 DEF Kept, Covered, Sorted, Entered
  <2>5. (t \notin left => Matched(t))'
    BY <1>1, <2>1, <2>2 DEF Kept, Matched
  <2>6. ASSUME t \notin misled' PROVE Reported(t)'
    <3>1. Reported(t) /\ Last(block[t]).kind = "skip"
      BY <1>1, <2>1, <2>6 DEF Kept
    <3>2. i = Len(block[t])
      BY <1>2, <3>1, InnermostLast, Typed DEF i
    <3>3. i \in DOMAIN block[t] /\ block[t][i].kind = "skip"
      <4>1. block[t] \in Seq(Block)
        BY Typed
      <4> QED  BY <1>2, <3>1, <3>2, <4>1, LastIndex
    <3>4. /\ list["skip"][t] \in Seq(Node) /\ list["skip"][t] # <<>>
      BY <1>2, <2>1, <3>1, NodeFound
    <3>5. /\ Len(list["skip"][t]) \in 1..Len(list["skip"][t])
          /\ Last(list["skip"][t]) = list["skip"][t][Len(list["skip"][t])]
      BY <3>4, LastIndex
    <3>6. Last(list["skip"][t]).evals = 1
      BY <1>1, <2>1, <3>5 DEF Kept, Entered, Kind
    <3>7. ASSUME NEW j \in DOMAIN r, r[j].skipped PROVE j = i
      BY <1>1, <1>3, <3>1, <3>7 DEF Reported
    <3> QED  BY <1>1, <1>3, <2>2, <3>2, <3>3, <3>6, <3>7 DEF Reported
  <2> QED  BY <2>3, <2>4, <2>5, <2>6 DEF Kept
<1>7. /\ early \subseteq early' /\ left \subseteq left' /\ misled \subseteq misled'
      /\ made \subseteq made' /\ made' \subseteq Kind
      /\ \A u \in Thread \ {t} :
             /\ block'[u] = block[u] /\ pc'[u] = pc[u]
             /\ \A m \in Key : list'[m][u] = list[m][u]
  BY <1>1, <1>4, <1>5 DEF TypeOK
<1> QED  BY <1>1, <1>6, <1>7, OthersKept

LEMMA ListsStep == ASSUME TypeOK, InCond, Lists, [Next]_vars PROVE Lists'
<1>1. ASSUME NEW t \in Thread, Initialise(t) PROVE Lists'
  <2>1. /\ UNCHANGED <<made, list, block, history>>
        /\ \A u \in Thread : pc[u] = "cond" => pc'[u] = "cond"
    BY <1>1, Jumps DEF Initialise, At
  <2> QED  BY <2>1, ListsSame DEF TypeOK
<1>2. ASSUME NEW t \in Thread, NEW k \in Kind, CreateKey(t, k) PROVE Lists'
  <2>1. UNCHANGED <<list, block, history>> /\ made \subseteq made' /\ made' \subseteq Kind
    BY <1>2 DEF CreateKey, TypeOK, history
  <2>2. \A u \in Thread : pc[u] = "cond" => pc'[u] = "cond"
    BY <1>2, Jumps DEF CreateKey, At
  <2> QED  BY <2>1, <2>2, ListsSame
<1>3. ASSUME NEW t \in Thread, NEW k \in Kind, Start(t, k) PROVE Lists'
  BY <1>3, ListsStart
<1>4. ASSUME NEW t \in Thread, Cond(t) PROVE Lists'
  BY <1>4, ListsCond
<1>5. ASSUME NEW t \in Thread, EndBody(t) PROVE Lists'
  BY <1>5, ListsEndBody
<1>6. ASSUME NEW t \in Thread, Skip(t) PROVE Lists'
  BY <1>6, ListsSkip
<1>7. ASSUME NEW t \in Thread, Break(t) PROVE Lists'
  BY <1>7, ListsBreak
<1>8. ASSUME NEW t \in Thread, Test(t) PROVE Lists'
  BY <1>8, ListsSame DEF Test, TypeOK, keys, history
<1>9. CASE UNCHANGED vars
  BY <1>9, ListsSame DEF vars, keys, TypeOK, history
<1> QED
  BY <1>1, <1>2, <1>3, <1>4, <1>5, <1>6, <1>7, <1>8, <1>9 DEF Next, Stopped

-----------------------------------------------------------------------------
(* What follows *)

\* What the messages of a thread say of its blocks.
LEMMA WhatIsExcused ==
    ASSUME TypeOK, NEW t \in Thread, Kept(t)
    PROVE  /\ Inside(t, "todo") => Excused(t)
           /\ Excused(t) => Last(Nodes("todo", t)).kind = "todo"
           /\ t \notin left => (Excused(t) => Inside(t, "todo"))
           /\ t \notin misled /\ pc[t] = "code" => ~Skipped(t)
<1>1. "todo" \in Kind /\ KeyOf("todo") \in Key
  BY KeyType DEF Kind
<1>2. Nodes("todo", t) = list[KeyOf("todo")][t]
  BY DEF Nodes, Slot
<1>3. CASE made # Kind
  BY <1>1, <1>2, <1>3 DEF Kept, Untouched, Inside, Excused, Skipped
<1>4. CASE made = Kind
  <2>1. Nodes("todo", t) = list["todo"][t]
    BY <1>1, <1>2, <1>4, KeyType
  <2>2. Inside(t, "todo") <=> Of(block[t], "todo") # {}
    BY DEF Inside, Of
  <2>3. /\ Number(block[t], "todo") \in Nat
        /\ Number(block[t], "todo") = 0 <=> Of(block[t], "todo") = {}
    BY Typed, OfFinite
  <2>4. list["todo"][t] \in Seq(Node) /\ Len(list["todo"][t]) \in Nat
    BY <1>1, Typed
  <2>5. list["todo"][t] = <<>> <=> Len(list["todo"][t]) = 0
    BY <2>4, EmptySeq
  <2>6. Inside(t, "todo") => Excused(t)
    BY <1>1, <2>1, <2>2, <2>3, <2>4, <2>5 DEF Kept, Covered, Excused
  <2>7. Excused(t) => Last(Nodes("todo", t)).kind = "todo"
    <3> SUFFICES ASSUME Excused(t) PROVE Last(list["todo"][t]).kind = "todo"
      BY <2>1
    <3>1. /\ Len(list["todo"][t]) \in 1..Len(list["todo"][t])
          /\ Last(list["todo"][t]) = list["todo"][t][Len(list["todo"][t])]
      <4>1. list["todo"][t] # <<>>
        BY <2>1 DEF Excused
      <4> QED  BY <2>4, <4>1, LastIndex
    <3> QED  BY <1>1, <3>1 DEF Kept, Sorted
  <2>8. t \notin left => (Excused(t) => Inside(t, "todo"))
    BY <1>1, <2>1, <2>2, <2>3, <2>4, <2>5 DEF Kept, Matched, Excused
  <2>9. t \notin misled /\ pc[t] = "code" => ~Skipped(t)
    BY DEF Kept, Reported, Skipped
  <2> QED  BY <2>6, <2>7, <2>8, <2>9
<1> QED  BY <1>3, <1>4

\* The status changes only by what a thread does that opened a block too early.
LEMMA StatusStep ==
    ASSUME TypeOK, InCond, Lists, [Next]_vars, BrokenOnlyBeforeInit
    PROVE  BrokenOnlyBeforeInit'
<1>1. early \subseteq early'
  BY DEF Next, Initialise, CreateKey, Start, Cond, EndBody, Skip, Break, Test, Stopped, vars, history
<1>2. CASE status' = status
  BY <1>1, <1>2 DEF BrokenOnlyBeforeInit
<1>3. ASSUME NEW t \in Thread, Cond(t) PROVE BrokenOnlyBeforeInit'
  <2> DEFINE k == Last(block[t]).kind
  <2>1. block[t] # <<>> /\ status' = Flow(list[KeyOf(k)][t], k)
    BY <1>3, Condition, Zenon
  <2>2. t \notin early => status' = "running"
    <3> SUFFICES ASSUME t \notin early PROVE status' = "running"
      OBVIOUS
    <3>1. Kept(t)
      BY DEF Lists
    <3>2. KeyOf(k) = k /\ Flow(list[k][t], k) = "running"
      BY <2>1, <3>1, NodeFound
    <3> QED  BY <2>1, <3>2
  <2> QED  BY <1>1, <2>2 DEF BrokenOnlyBeforeInit
<1>4. ASSUME NEW t \in Thread, Test(t) PROVE BrokenOnlyBeforeInit'
  <2>1. t \notin early => status' = status
    <3> SUFFICES ASSUME t \notin early PROVE status' = status
      OBVIOUS
    <3>1. Kept(t)
      BY DEF Lists
    <3>2. Excused(t) => Last(Nodes("todo", t)).kind = "todo"
      BY <3>1, WhatIsExcused
    <3> QED  BY <1>4, <3>2 DEF Test
  <2> QED  BY <1>1, <2>1 DEF BrokenOnlyBeforeInit
<1> QED
  BY <1>2, <1>3, <1>4 DEF Next, Initialise, CreateKey, Start, EndBody, Skip, Break, Stopped, vars, history

\* The inductive invariant.
LEMMA Invariant == Spec => [](TypeOK /\ Lists /\ BrokenOnlyBeforeInit)
<1> DEFINE IInv == TypeOK /\ InCond /\ Lists /\ BrokenOnlyBeforeInit
<1>1. Init => IInv
  BY TypeInit, ListsInit DEF Init, BrokenOnlyBeforeInit
<1>2. IInv /\ [Next]_vars => IInv'
  BY TypeStep, ListsStep, StatusStep
<1>3. IInv => TypeOK /\ Lists /\ BrokenOnlyBeforeInit
  OBVIOUS
<1> HIDE DEF IInv
<1> QED  BY <1>1, <1>2, <1>3, PTL DEF Spec

\* However many threads nest however many blocks and skip what is in them, a
\* failure is excused inside TODO blocks and nowhere else, unless the thread left a
\* block by break or the like, or opened one too early: tap_todo_cond() pops exactly the node that
\* tap_todo_start() pushed.
THEOREM TodoExactlyInBlocks == Spec => []TodoIffInBlock
<1>1. TypeOK /\ Lists => TodoIffInBlock
  BY WhatIsExcused DEF Lists, TodoIffInBlock
<1> QED  BY <1>1, Invariant, PTL

\* A failure in a TODO block is excused even if the thread has left other blocks
\* by break, goto or return: tap_todo_cond() never pops one node too many.
THEOREM ExcusedAfterBreaks == Spec => []InsideIsExcused
<1>1. TypeOK /\ Lists => InsideIsExcused
  BY WhatIsExcused DEF Lists, InsideIsExcused
<1> QED  BY <1>1, Invariant, PTL

\* What skip() reported does not run, if skip() is directly in its SKIP2, at any
\* depth and after any break: the condition that it continues with leaves the
\* block, if need be with a node that a break has left behind.
THEOREM SkippedStaysSkipped == Spec => []SkippedNotRun
<1>1. TypeOK /\ Lists => SkippedNotRun
  BY WhatIsExcused DEF Lists, SkippedNotRun, At
<1> QED  BY <1>1, Invariant, PTL

\* tap_skip_cond(), tap_todo_cond() and tap_todo_msg() find no null pointer, no
\* node of the other kind and none evaluated twice, even after a break out of a
\* block, unless a block was opened before both keys were created.
THEOREM OnlyEarlyBreaks == Spec => []BrokenOnlyBeforeInit
  BY Invariant, PTL
=============================================================================
