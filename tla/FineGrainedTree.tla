--------------------------- MODULE FineGrainedTree ---------------------------
(***************************************************************************)
(* The chromatic tree with one reader-writer lock per record               *)
(* (fineGrainedChromaticTree, tree_par.h).  insert, remove and search go   *)
(* down hand over hand; each reads a child pointer to lock the child and   *)
(* reads it AGAIN to go there.  Records are changed in place.  The         *)
(* rebalancing thread locks a record and its parent and rotates records    *)
(* further down, which it has not locked.                                  *)
(*                                                                         *)
(* One action is one acquisition, one read that another thread can make    *)
(* stale, or what a thread does from there to its next acquisition.  What  *)
(* C++ leaves undefined (the use of NULL or of a freed record, the unlock  *)
(* of a lock not held, the lock of one held already) stops the system:     *)
(* `error' says so.                                                        *)
(***************************************************************************)
EXTENDS Integers, Sequences, FiniteSets

CONSTANTS Workers,      \* the threads that insert, remove and search
          Rebalancer,   \* the rebalancing thread
          Keys,
          MaxKey,       \* INT_MAX
          Scripts       \* what main may give its threads to do: sequences of
                        \* phases; one is picked.  The rebalancing thread
                        \* starts a pass in a phase only if passes is below
                        \* its maxPasses

Kinds == {"insert", "delete", "get"}                 \* insert, remove, search
Operation == [kind : Kinds, key : Keys]
Phase == [work : [Workers -> Seq(Operation)], maxPasses : Nat]

ASSUME LockTreeAssumption ==
    /\ Rebalancer \notin Workers
    /\ MaxKey \in Int /\ \A k \in Keys : k \in Int /\ k < MaxKey
    /\ \A s \in Scripts : s \in Seq(Phase) /\ s # <<>>

VARIABLES
    heap,               \* heap[n]: key, weight and children of record n
    held,               \* held[t]: the records whose rwlock t holds
    freed,              \* the records given back to the allocator
    error,              \* the undefined behaviour that was met
    script, phase, todo,\* main: the phases, the current one, what is left
    pc, at,             \* a worker's place and locals: the arguments parent
                        \* and root of its call, the record it locks next,
                        \* and, when it removes, the side of the sibling
    stack, passes,      \* the rebalancing thread: its calls, its passes in
                        \* the current phase
    answer,             \* what p's last operation answered
    seen                \* history, for the properties only: has p's key been
                        \* in the tree, has it not, since the operation began

mainVars == <<script, phase, todo>>
callVars == <<todo, pc, at, answer>>
rebalVars == <<stack, passes>>
vars == <<heap, held, freed, error, script, phase, callVars, rebalVars, seen>>

Threads == Workers \cup {Rebalancer}
Null == 0
Root == 1                                            \* GLOBAL_ROOT
Rec(key, weight, left, right) ==
    [key |-> key, weight |-> weight, left |-> left, right |-> right]
NoWhere == [parent |-> Null, root |-> Null, next |-> Null, side |-> "left"]

Record == DOMAIN heap
Valid(n) == n # Null /\ n \notin freed
IsLeaf(n) == heap[n].left = Null /\ heap[n].right = Null
Toward(n, key) == IF key <= heap[n].key THEN "left" ELSE "right"
Opposite(side) == IF side = "left" THEN "right" ELSE "left"

\* main: the sentinel and a leaf below it.
Init ==
    /\ heap = << Rec(MaxKey, 1, 2, Null), Rec(MaxKey, 1, Null, Null) >>
    /\ held = [t \in Threads |-> {}]
    /\ freed = {} /\ error = "none"
    /\ script \in Scripts /\ phase = 1 /\ todo = script[1].work
    /\ pc = [p \in Workers |-> "idle"]
    /\ at = [p \in Workers |-> NoWhere]
    /\ stack = <<>> /\ passes = 0
    /\ answer = [p \in Workers |-> "none"]
    /\ seen = [p \in Workers |-> {}]

-----------------------------------------------------------------------------
(***************************************************************************)
(* Locks                                                                   *)
(***************************************************************************)
kind(p) == Head(todo[p]).kind
key(p)  == Head(todo[p]).key

Shared(t) == t \in Workers /\ kind(t) = "get"
Free(t, n) == \A q \in Threads : n \in held[q] => Shared(q) /\ Shared(t)

Fail(what) ==
    /\ error' = what
    /\ UNCHANGED <<heap, held, freed, script, phase, callVars, rebalVars>>

\* t unlocks the records of `release' and does Then.
Unlock(t, release, Then) ==
    IF release \ {Null} \subseteq held[t] \ freed
    THEN /\ held' = [held EXCEPT ![t] = @ \ release]
         /\ UNCHANGED error
         /\ Then
    ELSE Fail("unlock")

\* t waits for the lock of n, then unlocks `release' and does Then.
Lock(t, n, release, Then) ==
    IF ~Valid(n) \/ n \in held[t] THEN Fail("lock")
    ELSE IF ~(release \ {Null} \subseteq held[t] \ freed) THEN Fail("unlock")
    ELSE /\ Free(t, n)
         /\ held' = [held EXCEPT ![t] = (@ \cup {n}) \ release]
         /\ UNCHANGED error
         /\ Then

(***************************************************************************)
(* insert, remove, search: going down                                      *)
(***************************************************************************)
At(p, label) == pc[p] = label /\ error = "none"
Goto(p, label) == pc' = [pc EXCEPT ![p] = label]
Others == <<script, phase, rebalVars>>
parent(p) == at[p].parent
root(p) == at[p].root

Begin(p) ==
    /\ At(p, "idle") /\ todo[p] # <<>>
    /\ Goto(p, "lock")
    /\ at' = [at EXCEPT ![p].next = Root]
    /\ answer' = [answer EXCEPT ![p] = "none"]
    /\ UNCHANGED <<heap, held, freed, error, todo, Others>>

\* Mutant: an update lets go of the record it is at, too, as a search does.
BehindRoot(p) == {root(p)}

\* What is unlocked once the next record is locked: an update has kept the
\* parent of the record it is at, a search has not.
Behind(p) == IF Shared(p) THEN {root(p)} ELSE {parent(p)}

LockNext(p) ==
    /\ At(p, "lock")
    /\ Lock(p, at[p].next, Behind(p),
            Goto(p, "call") /\ UNCHANGED <<heap, freed, todo, at, answer, Others>>)

\* The recursive call, on the child as it is read now.
Call(p) ==
    /\ At(p, "call")
    /\ at' = [at EXCEPT ![p].parent = root(p),
                        ![p].root = IF root(p) = Null THEN Root
                                    ELSE heap[root(p)][Toward(root(p), key(p))]]
    /\ Goto(p, "here")
    /\ UNCHANGED <<heap, held, freed, error, todo, answer, Others>>

\* A search has unlocked the record it reads again.  Freed meanwhile, that one
\* may still hold the pointer, or be in use for something else.
Reread(p) == At(p, "call") /\ root(p) \in freed /\ Fail("reread")

Down(p) ==
    /\ At(p, "here")
    /\ IF ~Valid(root(p)) THEN Fail("use")
       ELSE /\ ~IsLeaf(root(p))
            /\ at' = [at EXCEPT ![p].next = heap[root(p)][Toward(root(p), key(p))]]
            /\ Goto(p, "lock")
            /\ UNCHANGED <<heap, held, freed, error, todo, answer, Others>>

AtLeaf(p, what) ==
    At(p, "here") /\ kind(p) = what /\ Valid(root(p)) /\ IsLeaf(root(p))

\* p unlocks `release', changes the tree by Effect, and its operation is over.
Returns(p, release, result, Effect) ==
    Unlock(p, release,
           /\ Effect
           /\ Goto(p, "idle")
           /\ at' = [at EXCEPT ![p] = NoWhere]
           /\ todo' = [todo EXCEPT ![p] = Tail(@)]
           /\ answer' = [answer EXCEPT ![p] = result]
           /\ UNCHANGED Others)

Search(p) ==
    /\ AtLeaf(p, "get")
    /\ Returns(p, {root(p)},
               IF heap[root(p)].key = key(p) THEN "found" ELSE "not found",
               UNCHANGED <<heap, freed>>)

(***************************************************************************)
(* recursiveInsert at a leaf                                               *)
(***************************************************************************)
\* Mutant: the leaf that was found stays locked.
InsertPresentLocked(p) ==
    /\ AtLeaf(p, "insert") /\ heap[root(p)].key = key(p)
    /\ Returns(p, {parent(p)}, "insert", UNCHANGED <<heap, freed>>)

InsertPresent(p) ==
    /\ AtLeaf(p, "insert") /\ heap[root(p)].key = key(p)
    /\ Returns(p, {parent(p), root(p)}, "insert", UNCHANGED <<heap, freed>>)

\* The leaf becomes an internal record above two new leaves.
InsertLeaves(p) ==
    LET n  == root(p)
        lo == IF key(p) <= heap[n].key THEN key(p) ELSE heap[n].key
        hi == IF key(p) <= heap[n].key THEN heap[n].key ELSE key(p)
    IN /\ AtLeaf(p, "insert") /\ heap[n].key # key(p)
       /\ Returns(p, {parent(p), n}, "insert",
             /\ heap' = [heap EXCEPT ![n] = Rec(lo, @.weight - 1, Len(heap) + 1,
                                                Len(heap) + 2)]
                           \o << Rec(lo, 1, Null, Null), Rec(hi, 1, Null, Null) >>
             /\ UNCHANGED freed)

(***************************************************************************)
(* recursiveRemove at a leaf                                               *)
(***************************************************************************)
RemoveAbsent(p) ==
    /\ AtLeaf(p, "delete") /\ heap[root(p)].key # key(p)
    /\ Returns(p, {root(p), parent(p)}, "absent", UNCHANGED <<heap, freed>>)

\* The sibling is on the other side, or else on the left.
RemoveFound(p) ==
    LET side == IF heap[parent(p)].left = root(p) THEN "right" ELSE "left"
    IN /\ AtLeaf(p, "delete") /\ heap[root(p)].key = key(p)
       /\ at' = [at EXCEPT ![p].side = side, ![p].next = heap[parent(p)][side]]
       /\ Goto(p, "lockSibling")
       /\ UNCHANGED <<heap, held, freed, error, todo, answer, Others>>

\* Mutant: the sibling is not locked.
RemoveLockNothing(p) ==
    /\ At(p, "lockSibling")
    /\ Goto(p, "remove")
    /\ UNCHANGED <<heap, held, freed, error, todo, at, answer, Others>>

RemoveLockSibling(p) ==
    /\ At(p, "lockSibling")
    /\ Lock(p, at[p].next, {},
            Goto(p, "remove") /\ UNCHANGED <<heap, freed, todo, at, answer, Others>>)

\* Mutant: the parent keeps its own key.
RemoveKeepsKey(p) ==
    LET sibling == heap[parent(p)][at[p].side]
        s == heap[sibling]
    IN /\ At(p, "remove")
       /\ IF ~Valid(sibling) THEN Fail("use")
          ELSE Returns(p, {root(p), sibling, parent(p)}, "delete",
                  /\ heap' = [heap EXCEPT ![parent(p)] =
                                Rec(@.key, @.weight + s.weight, s.left, s.right)]
                  /\ freed' = freed \cup {root(p), sibling})

\* Mutant: the sibling's weight is lost.
RemoveLosesWeight(p) ==
    LET sibling == heap[parent(p)][at[p].side]
        s == heap[sibling]
    IN /\ At(p, "remove")
       /\ IF ~Valid(sibling) THEN Fail("use")
          ELSE Returns(p, {root(p), sibling, parent(p)}, "delete",
                  /\ heap' = [heap EXCEPT ![parent(p)] =
                                Rec(s.key, @.weight, s.left, s.right)]
                  /\ freed' = freed \cup {root(p), sibling})

\* The parent takes over what the sibling, as it is read now, holds.
Remove(p) ==
    LET sibling == heap[parent(p)][at[p].side]
        s == heap[sibling]
    IN /\ At(p, "remove")
       /\ IF ~Valid(sibling) THEN Fail("use")
          ELSE Returns(p, {root(p), sibling, parent(p)}, "delete",
                  /\ heap' = [heap EXCEPT ![parent(p)] =
                                Rec(s.key, @.weight + s.weight, s.left, s.right)]
                  /\ freed' = freed \cup {root(p), sibling})

-----------------------------------------------------------------------------
(***************************************************************************)
(* The rebalancing thread                                                  *)
(***************************************************************************)

\* The calls of rebalance that have not returned, the innermost first; a call
\* in the last line of another replaces it.  The outermost one stands for
\* rebalancingThreadOperation itself, which treats the child of GLOBAL_ROOT
\* as rebalance treats its node, but for the rebalancing.
top == Head(stack)
In(stage) == error = "none" /\ stack # <<>> /\ top.stage = stage
To(stage) == <<[top EXCEPT !.stage = stage]>> \o Tail(stack)
Calls(n, m, rest) == <<[node |-> n, parent |-> m, stage |-> "enter"]>> \o rest

StartPass ==
    /\ error = "none" /\ stack = <<>> /\ passes < script[phase].maxPasses
    /\ stack' = <<[node |-> heap[Root].left, parent |-> Null, stage |-> "start"]>>
    /\ UNCHANGED <<heap, held, freed, error, script, phase, callVars, passes>>

LockNode(stage, next) ==
    /\ In(stage)
    /\ Lock(Rebalancer, top.node, {},
            stack' = To(next) /\ UNCHANGED <<heap, freed, script, phase, callVars, passes>>)

\* The child is locked, the parent of its parent unlocked, if there is one.
LockLeft ==
    LET n == heap[top.node].left
    IN /\ In("left")
       /\ Lock(Rebalancer, n, {top.parent},
               /\ stack' = Calls(n, top.node, To("again"))
               /\ UNCHANGED <<heap, freed, script, phase, callVars, passes>>)

LockRight ==
    LET n == heap[top.node].right
    IN /\ In("right")
       /\ Lock(Rebalancer, n, {},
               /\ stack' = Calls(n, top.node, Tail(stack))
               /\ UNCHANGED <<heap, freed, script, phase, callVars, passes>>)

LeaveLeaf ==
    /\ In("enter") /\ Valid(top.node) /\ IsLeaf(top.node)
    /\ Unlock(Rebalancer, {top.node, top.parent},
              /\ stack' = Tail(stack)
              /\ passes' = IF Tail(stack) = <<>> THEN passes + 1 ELSE passes
              /\ UNCHANGED <<heap, freed, script, phase, callVars>>)

(***************************************************************************)
(* rebalance: the cases, in the order they are tried, with the side of the *)
(* red child as a parameter                                                *)
(***************************************************************************)
Sides == {"left", "right"}
Child(n, side) == heap[n][side]
Weight(n) == heap[n].weight
Far(n, side) == Child(n, Opposite(side))

BothRed(n) == (\A side \in Sides : Weight(Child(n, side)) = 0) /\ Weight(n) > 0

\* Mutant: the sibling may be red.
checkCase2Anywhere(n, side) ==
    LET u == Child(n, side)
    IN ~IsLeaf(u) /\ Weight(u) = 0 /\ Weight(Child(u, side)) = 0

checkCase2(n, side) ==
    LET u == Child(n, side)
    IN /\ ~IsLeaf(u) /\ Weight(u) = 0 /\ Weight(Child(u, side)) = 0
       /\ Weight(Far(n, side)) > 0

Case3(n, side) ==
    LET u == Child(n, side)
    IN /\ Weight(u) = 0 /\ Far(u, side) # Null /\ Weight(Far(u, side)) = 0
       /\ Weight(Far(n, side)) > 0

checkCase4(n) ==
    /\ \A side \in Sides : Weight(Child(n, side)) > 0
    /\ \E side \in Sides : Weight(Child(n, side)) > 1

Case5(n, side) ==
    LET u == Child(n, side)
    IN /\ Weight(Far(n, side)) > 1 /\ Weight(u) = 0
       /\ ~IsLeaf(u) /\ Weight(Far(u, side)) > 0

\* The tests follow a pointer that leads nowhere.
LeadsNowhere(n) ==
    \/ \E side \in Sides : ~Valid(Child(n, side))
    \/ ~BothRed(n) /\ \E side \in Sides :
          LET u == Child(n, side)
          IN /\ ~IsLeaf(u) /\ Weight(u) = 0
             /\ \/ ~Valid(Child(u, side))
                \/ Far(u, side) \in freed
                \/ /\ Far(u, side) = Null
                   /\ Weight(Far(n, side)) > 1 /\ ~checkCase2(n, side)

SideOf(m, n) == IF Child(m, "left") = n THEN "left" ELSE "right"

\* Both rotations leave n's weight to the record that takes its place.
Rotated(n, m, side) ==
    LET u == Child(n, side)
    IN [heap EXCEPT ![n][side] = Far(u, side), ![u][Opposite(side)] = n,
                    ![m][SideOf(m, n)] = u,
                    ![u].weight = Weight(n), ![n].weight = Weight(u)]

TwiceRotated(n, m, side) ==
    LET u == Child(n, side)
        T == Far(u, side)
    IN [heap EXCEPT ![m][SideOf(m, n)] = T,
                    ![T].weight = Weight(n), ![n].weight = Weight(T),
                    ![T][side] = u, ![T][Opposite(side)] = n,
                    ![u][Opposite(side)] = Child(T, side), ![n][side] = Far(T, side)]

Lightened(tree, n, change) ==
    [tree EXCEPT ![n].weight = @ - change,
                 ![tree[n].left].weight = @ + change,
                 ![tree[n].right].weight = @ + change]

Rebalanced(n, m) ==
    IF BothRed(n) THEN Lightened(heap, n, 1)
    ELSE IF \E side \in Sides : checkCase2(n, side)
    THEN Rotated(n, m, CHOOSE side \in Sides : checkCase2(n, side))
    ELSE IF \E side \in Sides : Case3(n, side)
    THEN TwiceRotated(n, m, CHOOSE side \in Sides : Case3(n, side))
    ELSE IF checkCase4(n) THEN Lightened(heap, n, -1)
    ELSE IF \E side \in Sides : Case5(n, side)
    THEN Lightened(Rotated(n, m, CHOOSE side \in Sides : Case5(n, side)), n, -1)
    ELSE heap

Rebalance ==
    /\ In("enter")
    /\ IF ~Valid(top.node) \/ ~Valid(top.parent) THEN Fail("use")
       ELSE /\ ~IsLeaf(top.node)
            /\ IF LeadsNowhere(top.node) THEN Fail("use")
               ELSE /\ heap' = Rebalanced(top.node, top.parent)
                    /\ stack' = To("left")
                    /\ UNCHANGED <<held, freed, error, script, phase, callVars, passes>>

-----------------------------------------------------------------------------
(***************************************************************************)
(* main                                                                    *)
(***************************************************************************)
Idle == stack = <<>> /\ \A p \in Workers : At(p, "idle") /\ todo[p] = <<>>

\* main joins the threads of a phase and starts those of the next.
NextPhase ==
    /\ Idle /\ phase < Len(script)
    /\ phase' = phase + 1
    /\ todo' = script[phase + 1].work
    /\ passes' = 0
    /\ UNCHANGED <<heap, held, freed, error, script, pc, at, answer, stack>>

Step(p) ==
    \/ Begin(p) \/ LockNext(p) \/ Call(p) \/ Reread(p) \/ Down(p) \/ Search(p)
    \/ InsertPresent(p) \/ InsertLeaves(p)
    \/ RemoveAbsent(p) \/ RemoveFound(p) \/ RemoveLockSibling(p) \/ Remove(p)

Pass ==
    \/ StartPass \/ LockNode("start", "left") \/ LockLeft
    \/ LockNode("again", "right") \/ LockRight \/ LeaveLeaf \/ Rebalance

\* The record at which a search for k ends, if it does.
SearchEnd(k) ==
    LET walk[n \in {Null} \cup Record] ==
            IF n = Null \/ IsLeaf(n) THEN n ELSE walk[Child(n, Toward(n, k))]
    IN walk[Root]

Present == { k \in Keys : SearchEnd(k) # Null /\ heap[SearchEnd(k)].key = k }

\* Whether p's key is in the tree after this step, while p has an operation.
Observe ==
    seen' = [p \in Workers |->
               IF pc[p] # "idle" THEN seen[p] \cup {key(p) \in Present'}
               ELSE IF pc'[p] # "idle" THEN {key(p) \in Present}
               ELSE seen[p]]

\* The program has come to its end, or is undefined.
Done == Idle /\ phase = Len(script)
Stop == (Done \/ error # "none") /\ UNCHANGED vars

Next == \/ ((\E p \in Workers : Step(p)) \/ Pass \/ NextPhase) /\ Observe
        \/ Stop

Spec == Init /\ [][Next]_vars

-----------------------------------------------------------------------------
(***************************************************************************)
(* Properties                                                              *)
(***************************************************************************)
Pointer == {Null} \cup Record
Node == [key : Keys \cup {MaxKey}, weight : Int, left : Pointer, right : Pointer]

\* Every variable has its type; no thread holds a record that was freed.
TypeOK ==
    /\ heap \in Seq(Node) /\ Root \in Record
    /\ held \in [Threads -> SUBSET Record]
    /\ freed \subseteq Record
    /\ error \in {"none", "lock", "unlock", "use", "reread"}
    /\ script \in Scripts /\ phase \in DOMAIN script
    /\ todo \in [Workers -> Seq(Operation)]
    /\ pc \in [Workers -> {"idle", "lock", "call", "here", "lockSibling", "remove"}]
    /\ at \in [Workers -> [parent : Pointer, root : Pointer, next : Pointer,
                           side : Sides]]
    /\ stack \in Seq([node : Record, parent : Pointer,
                      stage : {"start", "enter", "left", "again", "right"}])
    /\ passes \in Nat
    /\ answer \in [Workers -> Kinds \cup {"none", "absent", "found", "not found"}]
    /\ seen \in [Workers -> SUBSET BOOLEAN]
    /\ \A t \in Threads : held[t] \cap freed = {}

Abstract == INSTANCE KeySet WITH
    Threads <- Workers,
    keys <- Present,
    call <- [p \in Workers |-> IF pc[p] = "idle" THEN [kind |-> "none"]
                                                ELSE Head(todo[p])]

\* The tree is a set of keys: insertions, removals and searches that run
\* together take effect in one step each, under the locks they hold.
IsKeySet == Abstract!Spec

\* No NULL or freed record is used, no lock is unlocked by a thread that does
\* not hold it or locked by one that does.  But a search that locks a child and
\* unlocks its parent reads the parent again (l.290-292): a removal that waits
\* for the parent may have freed it.
OnlyRereadsFail == error \in {"none", "reread"}

\* The locks of a thread that has come to root(p): a search holds one.
Footing(p) == ({root(p)} \cup IF Shared(p) THEN {} ELSE {parent(p)}) \ {Null}

\* "Parent and node are supposed to be locked when you come in" (l.108, 304,
\* 393): an update and the rebalancing thread hold the locks of the record
\* they have come to and of its parent.  A search holds the one it reads
\* (l.267-298), so that no search is at a record that an insertion changes.
LockedOnEntry ==
    /\ \A p \in Workers : pc[p] = "here" => Footing(p) \subseteq held[p]
    /\ In("enter") => {top.node, top.parent} \subseteq held[Rebalancer]

Under(n) ==
    LET under[m \in {Null} \cup Record] ==
            IF m = Null THEN {}
            ELSE {m} \cup under[Child(m, "left")] \cup under[Child(m, "right")]
    IN under[n]

\* The record below GLOBAL_ROOT takes the weight of the sentinel leaf and is
\* never balanced itself: every internal record but GLOBAL_ROOT is red and every
\* leaf weighs 1, for ever, also in the records that were freed.  All weighted
\* heights are the same (check_balance of main.cpp), and rebalance never comes to
\* the cases that move weight (1, 4 and 5).
OnlyLeavesWeigh ==
    /\ \A n \in Record \ {Root} : Weight(n) = IF IsLeaf(n) THEN 1 ELSE 0
    /\ In("enter") /\ Valid(top.node) /\ ~IsLeaf(top.node) /\ ~LeadsNowhere(top.node) =>
          /\ ~BothRed(top.node) /\ ~checkCase4(top.node)
          /\ \A side \in Sides : ~Case5(top.node, side)

\* Rotations come to an end: when the rebalancing thread has gone through the
\* tree often enough (three times for the trees of the run), it changes it no
\* more.
Settles ==
    passes >= 3 =>
        \A m \in Under(Child(Root, "left")) :
            \A n \in { Child(m, side) : side \in Sides } \ {Null} :
                ~IsLeaf(n) => Rebalanced(n, m) = heap

(***************************************************************************)
(* Liveness: every thread is scheduled again and again                     *)
(***************************************************************************)
FairSpec == Spec /\ WF_vars(NextPhase /\ Observe) /\ WF_vars(Pass /\ Observe)
                 /\ \A p \in Workers : WF_vars(Step(p) /\ Observe)

\* No thread waits for a lock for ever: all the phases come to their end, unless
\* a search meets what a removal freed.
ProgramEnds == <>(Done \/ error = "reread")
=============================================================================
