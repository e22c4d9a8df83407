------------------------------ MODULE SkipTodo ------------------------------
(***************************************************************************)
(* SKIP2 and TODO blocks (src/src/tap_skip_todo.c and the macros in        *)
(* src/src/tap.h).  Both are a for loop                                    *)
(*     for (tap_todo_start(...); tap_todo_cond();) { body }                *)
(* whose state is a node in a list that belongs to the thread: the node is *)
(* pushed by start(), the first cond() enters the body and the second one  *)
(* pops the node and leaves.  The compiler knows which block a statement is*)
(* in, the library only knows the list; "block" below is the former.       *)
(*                                                                         *)
(* The lists are found with keys of pthread_key_create(), which numbers    *)
(* them from 0.  A key that is not yet created is 0, too: then the list is *)
(* that of whoever has the key 0, or nothing if nobody has.  The program   *)
(* may have it, and is taken to leave it unset.                            *)
(***************************************************************************)
EXTENDS Naturals, Sequences, SequencesExt

CONSTANTS Thread,
          MaxStarts     \* bound: blocks that one thread opens

ASSUME SkipTodoAssumption == MaxStarts \in Nat

Kind == {"skip", "todo"}
Key == Kind \cup {"own"}

VARIABLES
    initialized, \* the flag of that name
    made,        \* the kinds whose key has been created
    own,         \* the program has a key of its own, with the number 0
    list,        \* list[n][s]: what is stored with the key n in the slot s, its
                 \* last node the innermost one
    block,       \* block[t]: the blocks t is in by the program text, innermost last
    pc,          \* "code"; "cond": about to evaluate the condition of the loop;
                 \* or "init": in tap_init_f()
    starts,      \* blocks opened by each thread, up to MaxStarts
    left,        \* threads that left a block by break, goto, return or longjmp()
    misled,      \* threads that called skip() in a TODO block in its SKIP2
    early,       \* threads that opened a block before both keys were created
    status       \* "running", "crashed", "bailed", or "undefined": a node was
                 \* taken for one of the other kind

keys == <<initialized, made, own>>
history == <<left, misled, early>>
vars == <<keys, list, block, pc, starts, history, status>>

Init ==
    /\ initialized = FALSE
    /\ made = {}
    /\ own \in BOOLEAN
    /\ list = [n \in Key |-> [t \in Thread |-> <<>>]]
    /\ block = [t \in Thread |-> <<>>]
    /\ pc = [t \in Thread |-> "code"]
    /\ starts = [t \in Thread |-> 0]
    /\ left = {} /\ misled = {}
    /\ early = {}
    /\ status = "running"

At(t, l) == pc[t] = l /\ status = "running"
Goto(t, l) == pc' = [pc EXCEPT ![t] = l]

\* The key in tap_skip_key or tap_todo_key.  The key 0 is the program's own, or
\* else tap_skip_key.
KeyOf(k) == IF k \in made THEN k ELSE IF own THEN "own" ELSE "skip"

\* pthread_setspecific() succeeds if somebody has created the key.
Stores(k) == own \/ KeyOf(k) \in made

\* Mutation: one list for all threads, as in the build without pthreads.
Slot_Shared(t) == CHOOSE u \in Thread : TRUE

\* pthread_getspecific(): each thread has a list of its own.
Slot(t) == t

Nodes(k, t) == list[KeyOf(k)][Slot(t)]
SetNodes(k, t, s) == list' = [list EXCEPT ![KeyOf(k)][Slot(t)] = s]

\* A new node, not yet evaluated.
NewNode(k) == [kind |-> k, evals |-> 0]

\* Mutation: the new node is not linked to the one before it.
Push_Unlinked(k, t) == SetNodes(k, t, <<NewNode(k)>>)

Push(k, t) == SetNodes(k, t, Append(Nodes(k, t), NewNode(k)))

Inside(t, k) == \E i \in DOMAIN block[t] : block[t][i].kind = k

\* The innermost block of kind k.
Innermost(t, k) ==
    CHOOSE i \in DOMAIN block[t] :
        block[t][i].kind = k /\ \A j \in i+1..Len(block[t]) : block[t][j].kind # k

-----------------------------------------------------------------------------

\* tap_init_f(), called by plan_tests(), skip_f() and the like.
Initialise(t) ==
    /\ At(t, "code")
    /\ ~initialized
    /\ initialized' = TRUE
    /\ Goto(t, "init")
    /\ UNCHANGED <<made, own, list, block, starts, history, status>>

\* tap_skip_init(), and then tap_todo_init().
CreateKey(t, k) ==
    /\ At(t, "init")
    /\ k \notin made
    /\ k = "todo" => "skip" \in made
    /\ made' = made \union {k}
    /\ IF k = "todo" THEN Goto(t, "code") ELSE UNCHANGED pc
    /\ UNCHANGED <<initialized, own, list, block, starts, history, status>>

\* tap_skip_start(), tap_todo_start().  They do not initialise the library:
\* without a key, pthread_setspecific() fails and nobody notices.
Start(t, k) ==
    /\ At(t, "code")
    /\ starts[t] < MaxStarts
    /\ starts' = [starts EXCEPT ![t] = @ + 1]
    /\ block' = [block EXCEPT ![t] = Append(@, [kind |-> k, skipped |-> FALSE])]
    /\ IF Stores(k) THEN Push(k, t) ELSE UNCHANGED list
    /\ early' = IF made = Kind THEN early ELSE early \union {t}
    /\ Goto(t, "cond")
    /\ UNCHANGED <<keys, left, misled, status>>

\* Mutations: the second evaluation does not unlink the node; the first does.
Evaluated_Linked(nodes) == [nodes EXCEPT ![Len(nodes)].evals = @ + 1]
Evaluated_Unlinks(nodes) == Front(nodes)

\* The list after the condition was evaluated: the first evaluation counts,
\* the second one unlinks the node.
Evaluated(nodes) ==
    IF Last(nodes).evals = 0 THEN [nodes EXCEPT ![Len(nodes)].evals = 1] ELSE Front(nodes)

\* What tap_skip_cond() or tap_todo_cond() does with the list: a null pointer,
\* a node of the other kind, or one evaluated for the third time, ends it.
Flow(nodes, k) ==
    IF nodes = <<>> THEN "crashed"
    ELSE IF Last(nodes).kind # k THEN "undefined"
    ELSE IF Last(nodes).evals > 1 THEN "bailed"
    ELSE "running"

\* The condition of the innermost block: the first evaluation enters the body,
\* the second one leaves the block.
Cond(t) ==
    LET k == Last(block[t]).kind
        nodes == Nodes(k, t)
    IN  /\ At(t, "cond")
        /\ status' = Flow(nodes, k)
        /\ IF status' = "running"
           THEN /\ SetNodes(k, t, Evaluated(nodes))
                /\ block' = IF Last(nodes).evals = 0 THEN block
                            ELSE [block EXCEPT ![t] = Front(@)]
                /\ Goto(t, "code")
           ELSE UNCHANGED <<list, block, pc>>
        /\ UNCHANGED <<keys, starts, history>>

\* The end of the body, or a continue.
EndBody(t) ==
    /\ At(t, "code")
    /\ block[t] # <<>>
    /\ Goto(t, "cond")
    /\ UNCHANGED <<keys, list, block, starts, history, status>>

\* Mutation: skip() without the continue.
Continue_Never(t) == UNCHANGED pc

Continue(t) == Goto(t, "cond")

\* skip(n, why): "skip_f(n, why); continue".  It is meant for the innermost
\* SKIP2 block, and continues the innermost loop, which may be a TODO in it.
\* Before that, skip_f() initialises the library if nobody did.
Skip(t) ==
    /\ At(t, "code")
    /\ initialized
    /\ Inside(t, "skip")
    /\ block' = [block EXCEPT ![t][Innermost(t, "skip")].skipped = TRUE]
    /\ misled' = IF Last(block[t]).kind = "skip" THEN misled ELSE misled \union {t}
    /\ Continue(t)
    /\ UNCHANGED <<keys, list, starts, left, early, status>>

\* A break, goto, return or longjmp() out of the innermost block.
Break(t) ==
    /\ At(t, "code")
    /\ block[t] # <<>>
    /\ block' = [block EXCEPT ![t] = Front(@)]
    /\ left' = left \union {t}
    /\ UNCHANGED <<keys, list, pc, starts, misled, early, status>>

\* tap_todo_msg() has a message: a test that runs now is expected to fail.
Excused(t) == Nodes("todo", t) # <<>>

\* A test runs, and tap_todo_msg() reads the last node.
Test(t) ==
    /\ At(t, "code")
    /\ status' = IF Excused(t) /\ Last(Nodes("todo", t)).kind # "todo"
                 THEN "undefined" ELSE status
    /\ UNCHANGED <<keys, list, block, pc, starts, history>>

Stopped == status # "running" /\ UNCHANGED vars

Next ==
    \/ \E t \in Thread :
           \/ Initialise(t)
           \/ \E k \in Kind : CreateKey(t, k) \/ Start(t, k)
           \/ Cond(t) \/ EndBody(t) \/ Skip(t) \/ Break(t) \/ Test(t)
    \/ Stopped

Spec == Init /\ [][Next]_vars

-----------------------------------------------------------------------------
(* Properties *)

Node == [kind : Kind, evals : 0..1]

\* Every variable has its type; a node in the list was evaluated at most once.
TypeOK ==
    /\ initialized \in BOOLEAN /\ made \subseteq Kind /\ own \in BOOLEAN
    /\ list \in [Key -> [Thread -> Seq(Node)]]
    /\ block \in [Thread -> Seq([kind : Kind, skipped : BOOLEAN])]
    /\ pc \in [Thread -> {"code", "cond", "init"}]
    /\ starts \in [Thread -> 0..MaxStarts]
    /\ left \subseteq Thread /\ misled \subseteq Thread /\ early \subseteq Thread
    /\ status \in {"running", "crashed", "bailed", "undefined"}

\* A test that t runs now belongs to a SKIP2 that skip() was called for.
Skipped(t) == \E i \in DOMAIN block[t] : block[t][i].skipped

\* However blocks are nested and whatever the other threads do, a failure is
\* excused in the blocks marked TODO and nowhere else, as long as the thread
\* leaves its blocks by their end, by continue or by skip(), wherever that is,
\* and opens none before the library is initialised.
TodoIffInBlock ==
    \A t \in Thread \ (left \union early) : At(t, "code") => (Excused(t) <=> Inside(t, "todo"))

\* Inside a TODO block every failure is excused, even after breaks out of other
\* blocks, whose nodes stay in the list: the next condition may find such a node
\* in the place of its own, but it never unlinks one node too many.
InsideIsExcused ==
    \A t \in Thread \ early : At(t, "code") /\ Inside(t, "todo") => Excused(t)

\* What skip() reported as skipped does not run after all, if skip() is directly
\* in its SKIP2, whatever breaks have left in the list: in a TODO block in its
\* SKIP2 it continues the TODO block only.
SkippedNotRun ==
    \A t \in Thread \ (misled \union early) : At(t, "code") => ~Skipped(t)

\* However broken the flow of the blocks is: the conditions meet no null pointer,
\* no node of the other kind and none for the third time, and tap_todo_msg()
\* reads no node of a SKIP2, unless somebody opened a block before both keys
\* were created.
BrokenOnlyBeforeInit == status # "running" => early # {}

\* The comment on tap_todo_msg(): "Get current TODO message or NULL if we are
\* not in TODO block", also where the library was initialised before.
TodoOnlyInBlock ==
    \A t \in Thread \ early : At(t, "code") /\ Excused(t) => Inside(t, "todo")
=============================================================================
