--------------------------- MODULE NonBlockingTree ---------------------------
(***************************************************************************)
(* insertKey, deleteKey and getNode of the non-blocking tree (tree.h), one *)
(* read of a child pointer, one LLX or one SCX per action, run by threads  *)
(* in phases that are joined, as main.cpp runs them, beside rebalancing    *)
(* threads that are not.                                                   *)
(*                                                                         *)
(* LLX and SCX are atomic (AtomicSCX): an LLX fails on a finalized record, *)
(* an SCX fails when a reservation was lost.  In the code both also fail   *)
(* when they meet an operation in progress; the thread then starts its     *)
(* attempt over and is where it was before its first read, a state that a  *)
(* slow thread is in as well: these failures add no state.                 *)
(*                                                                         *)
(* A rebalancing thread enters by the step in which its SCX succeeds.      *)
(***************************************************************************)
EXTENDS ChromaticTree

CONSTANT Scripts        \* what main may give its threads to do: sequences
                        \* of phases; one is picked (random_shuffle).  The
                        \* rebalancing threads make a step of a phase only
                        \* if numRebalOps is below its maxRebalOps; scans
                        \* says whether one of them is followed read by
                        \* read (RebalanceScan)

Kinds == {"insert", "delete", "get"}
Operation == [kind : Kinds, key : Keys]
Phase == [work : [Threads -> Seq(Operation)], maxRebalOps : Nat, scans : BOOLEAN]

ASSUME ScriptsAssumption ==
    \A s \in Scripts : s \in Seq(Phase) /\ s # <<>>

VARIABLES
    numRebalOps,        \* successful rebalancing operations
    script, phase,      \* main: the phases, the current one
    todo,               \* todo[p]: what p has left in it
    pc, at,             \* where p is; its locals n0, n1, n2, n3
    answer,             \* what p's last operation answered
    seen                \* history, for the properties only: has p's key been
                        \* in the tree, has it not, since the operation began

vars == <<treeVars, numRebalOps, script, phase, todo, pc, at, answer, seen>>

NoWhere == [n0 |-> Null, n1 |-> Null, n2 |-> Null, n3 |-> Null]

Init ==
    /\ TreeInit
    /\ numRebalOps = 0
    /\ script \in Scripts
    /\ phase  = 1
    /\ todo   = script[1].work
    /\ pc     = [p \in Threads |-> "idle"]
    /\ at     = [p \in Threads |-> NoWhere]
    /\ answer = [p \in Threads |-> "none"]
    /\ seen   = [p \in Threads |-> {}]

-----------------------------------------------------------------------------
At(p, label) == pc[p] = label
Goto(p, label) == pc' = [pc EXCEPT ![p] = label]
Set(p, local, n) == at' = [at EXCEPT ![p][local] = n]

kind(p) == Head(todo[p]).kind
key(p)  == Head(todo[p]).key
n0(p) == at[p].n0
n1(p) == at[p].n1
n2(p) == at[p].n2
n3(p) == at[p].n3

\* The thread's own variables, but for pc and at.
Rest == <<numRebalOps, script, phase, todo, answer>>

\* The attempt fails, and the caller starts a new one.
Retry(p) ==
    /\ Goto(p, "root")
    /\ at' = [at EXCEPT ![p] = NoWhere]
    /\ linked' = [linked EXCEPT ![p] = {}]
    /\ UNCHANGED <<heap, finalized, Rest>>

\* The operation returns, without a change to the tree of its own.
Answers(p, result) ==
    /\ Goto(p, "idle")
    /\ at' = [at EXCEPT ![p] = NoWhere]
    /\ todo' = [todo EXCEPT ![p] = Tail(@)]
    /\ answer' = [answer EXCEPT ![p] = result]

LLX(p, n, next) ==
    IF n \notin finalized
    THEN /\ linked' = [linked EXCEPT ![p] = @ \cup {n}]
         /\ Goto(p, next)
         /\ UNCHANGED <<heap, finalized, at, Rest>>
    ELSE Retry(p)

SCX(p, links, Effect) ==
    IF links \subseteq linked[p]
    THEN /\ Effect
         /\ Answers(p, kind(p))
         /\ UNCHANGED <<numRebalOps, script, phase>>
    ELSE Retry(p)

\* A read of a child pointer; NULL ends the attempt.
Read(p, local, n, next) ==
    IF n # Null
    THEN Set(p, local, n) /\ Goto(p, next) /\ UNCHANGED <<treeVars, Rest>>
    ELSE Retry(p)

(***************************************************************************)
(* searchTree                                                              *)
(***************************************************************************)
Begin(p) ==
    /\ At(p, "idle") /\ todo[p] # <<>>
    /\ Goto(p, "root")
    /\ answer' = [answer EXCEPT ![p] = "none"]
    /\ UNCHANGED <<treeVars, numRebalOps, script, phase, todo, at>>

SearchRoot(p) ==
    /\ At(p, "root")
    /\ Goto(p, "search")
    /\ at' = [at EXCEPT ![p] = [NoWhere EXCEPT !.n1 = Root,
                                               !.n2 = Child(Root, "left")]]
    /\ UNCHANGED <<treeVars, Rest>>

SearchDown(p) ==
    /\ At(p, "search") /\ ~IsLeaf(n2(p))
    /\ at' = [at EXCEPT ![p] = [n0 |-> n1(p), n1 |-> n2(p), n3 |-> Null,
                                n2 |-> Child(n2(p), Toward(n2(p), key(p)))]]
    /\ UNCHANGED <<treeVars, Rest, pc>>

Arrived(p, what) == At(p, "search") /\ IsLeaf(n2(p)) /\ kind(p) = what

(***************************************************************************)
(* getNode                                                                 *)
(***************************************************************************)
GetNode(p) ==
    /\ Arrived(p, "get")
    /\ Answers(p, IF Key(n2(p)) = key(p) THEN "found" ELSE "not found")
    /\ UNCHANGED <<treeVars, numRebalOps, script, phase>>

(***************************************************************************)
(* insertKey: tryInsert with leaf = n2 and parent = n1                     *)
(***************************************************************************)
InsertLlxParent(p) == Arrived(p, "insert") /\ LLX(p, n1(p), "insertCheck")

\* Mutant: the leaf may have moved away from the parent.
InsertCheckNothing(p) ==
    /\ At(p, "insertCheck")
    /\ Goto(p, "insertLlxLeaf") /\ UNCHANGED <<treeVars, at, Rest>>

\* Mutant: the same parent is tried again, without a new search.
InsertCheckAgain(p) ==
    /\ At(p, "insertCheck")
    /\ IF \E side \in Sides : Child(n1(p), side) = n2(p)
       THEN Goto(p, "insertLlxLeaf") /\ UNCHANGED <<treeVars, at, Rest>>
       ELSE Goto(p, "search") /\ UNCHANGED <<treeVars, at, Rest>>

InsertCheck(p) ==
    /\ At(p, "insertCheck")
    /\ IF \E side \in Sides : Child(n1(p), side) = n2(p)
       THEN Goto(p, "insertLlxLeaf") /\ UNCHANGED <<treeVars, at, Rest>>
       ELSE Retry(p)

InsertLlxLeaf(p) == At(p, "insertLlxLeaf") /\ LLX(p, n2(p), "insertScx")

InsertScx(p) ==
    /\ At(p, "insertScx")
    /\ SCX(p, {n1(p), n2(p)}, Insert(key(p), n1(p), n2(p)))

(***************************************************************************)
(* deleteKey: tryDelete keeps n0 of the search and reads n1 and n2 again   *)
(***************************************************************************)
\* The search found no grandparent: the tree holds no key at all.
DeleteFromEmpty(p) == Arrived(p, "delete") /\ n0(p) = Null /\ Retry(p)

DeleteLlx0(p) ==
    /\ Arrived(p, "delete") /\ n0(p) # Null
    /\ LLX(p, n0(p), "deleteRead1")

DeleteRead1(p) ==
    /\ At(p, "deleteRead1")
    /\ Read(p, "n1", Child(n0(p), Toward(n0(p), key(p))), "deleteLlx1")

DeleteLlx1(p) == At(p, "deleteLlx1") /\ LLX(p, n1(p), "deleteRead2")

\* Mutant: whatever leaf is there is deleted.
DeleteRead2Anything(p) ==
    /\ At(p, "deleteRead2")
    /\ Read(p, "n2", Child(n1(p), Toward(n1(p), key(p))), "deleteLlx2")

DeleteRead2(p) ==
    LET n == Child(n1(p), Toward(n1(p), key(p)))
    IN /\ At(p, "deleteRead2")
       /\ IF n # Null /\ Key(n) # key(p)
          THEN /\ Answers(p, "absent")
               /\ linked' = [linked EXCEPT ![p] = {}]
               /\ UNCHANGED <<heap, finalized, numRebalOps, script, phase>>
          ELSE Read(p, "n2", n, "deleteLlx2")

DeleteLlx2(p) == At(p, "deleteLlx2") /\ LLX(p, n2(p), "deleteRead3")

DeleteRead3(p) ==
    /\ At(p, "deleteRead3")
    /\ Read(p, "n3", Child(n1(p), Opposite(Toward(n1(p), key(p)))), "deleteLlx3")

DeleteLlx3(p) == At(p, "deleteLlx3") /\ LLX(p, n3(p), "deleteScx")

DeleteScx(p) ==
    /\ At(p, "deleteScx")
    /\ SCX(p, {n0(p), n1(p), n2(p), n3(p)}, Delete(n0(p), n1(p), n2(p), n3(p)))

-----------------------------------------------------------------------------
(***************************************************************************)
(* The rebalancing threads and main                                        *)
(***************************************************************************)
\* rebalance finds its case on a tree that may have changed since: a function
\* is called on any edge, and its own tests decide.  It is never called above
\* the child of GLOBAL_ROOT.
Rebalance ==
    /\ numRebalOps < script[phase].maxRebalOps
    /\ \E parent \in (Record \ finalized) \ {Root} :
       \E node \in { Child(parent, side) : side \in Sides } \ {Null} :
       \E case \in {"1", "2A", "2B", "3A", "3B", "4", "5A", "5B"} :
           tryRebalance(case, parent, node)
    /\ numRebalOps' = numRebalOps + 1
    /\ UNCHANGED <<script, phase, todo, pc, at, answer>>

\* main joins the threads of a phase and starts those of the next.
NextPhase ==
    /\ phase < Len(script)
    /\ \A p \in Threads : At(p, "idle") /\ todo[p] = <<>>
    /\ phase' = phase + 1
    /\ todo' = script[phase + 1].work
    /\ UNCHANGED <<treeVars, numRebalOps, script, pc, at, answer>>

Step(p) ==
    \/ Begin(p) \/ SearchRoot(p) \/ SearchDown(p) \/ GetNode(p)
    \/ InsertLlxParent(p) \/ InsertCheck(p) \/ InsertLlxLeaf(p) \/ InsertScx(p)
    \/ DeleteFromEmpty(p) \/ DeleteLlx0(p) \/ DeleteRead1(p) \/ DeleteLlx1(p)
    \/ DeleteRead2(p) \/ DeleteLlx2(p) \/ DeleteRead3(p) \/ DeleteLlx3(p)
    \/ DeleteScx(p)

\* Whether p's key is in the tree after this step, while p has an operation.
Observe ==
    seen' = [p \in Threads |->
               IF pc[p] # "idle" THEN seen[p] \cup {key(p) \in Present'}
               ELSE IF pc'[p] # "idle" THEN {key(p) \in Present}
               ELSE seen[p]]

Next == ((\E p \in Threads : Step(p)) \/ Rebalance \/ NextPhase) /\ Observe

Spec == Init /\ [][Next]_vars

-----------------------------------------------------------------------------
(***************************************************************************)
(* Properties                                                              *)
(***************************************************************************)
Labels == {"idle", "root", "search", "insertCheck", "insertLlxLeaf",
           "insertScx", "deleteRead1", "deleteLlx1", "deleteRead2",
           "deleteLlx2", "deleteRead3", "deleteLlx3", "deleteScx"}
Pointer == {Null} \cup Record
Node    == [key : Keys \cup {MaxKey}, weight : Int, left : Pointer, right : Pointer]

\* Every variable has its type, and what a thread works on between its LLXs
\* exists.
TypeOK ==
    /\ heap \in Seq(Node) /\ Root \in Record
    /\ finalized \subseteq Record
    /\ linked \in [Threads -> SUBSET Record]
    /\ numRebalOps \in Nat
    /\ script \in Scripts /\ phase \in DOMAIN script
    /\ todo \in [Threads -> Seq(Operation)]
    /\ pc \in [Threads -> Labels]
    /\ at \in [Threads -> [n0 : Pointer, n1 : Pointer, n2 : Pointer, n3 : Pointer]]
    /\ answer \in [Threads -> Kinds \cup {"none", "absent", "found", "not found"}]
    /\ seen \in [Threads -> SUBSET BOOLEAN]
    /\ \A p \in Threads :
          /\ pc[p] # "idle" => todo[p] # <<>>
          /\ pc[p] \notin {"idle", "root"} => n1(p) # Null /\ n2(p) # Null

Abstract == INSTANCE KeySet WITH
    keys <- Present,
    call <- [p \in Threads |-> IF pc[p] = "idle" THEN [kind |-> "none"]
                                                ELSE Head(todo[p])]

\* The tree is a set of keys: insertions, deletions and searches that run
\* together, searches through records that rotations or deletions have removed
\* included, take effect in one step each, and no rotation loses a key.
IsKeySet == Abstract!Spec

\* The records that have left the tree are the finalized ones: an update that
\* is under way on one of them can only fail.
RemovedIsFinalized == Record \ finalized = Reachable

\* Every path to a leaf has the same weight (check_balance of main.cpp), leaves
\* stay black, and only the root of the tree, which tryRebalance1 lightens
\* whatever its weight, ever weighs less than nothing.
WeightsMakeSense ==
    /\ Cardinality(WeightedHeights(TreeRoot)) <= 1
    /\ \A n \in Under(TreeRoot) : /\ Weight(n) < 0 => n = TreeRoot
                                  /\ IsLeaf(n) => Weight(n) > 0

\* The edges rebalance goes through.
Edges == { <<m, Child(m, side)>> : m \in Under(Child(Root, "left")), side \in Sides }
Inner == { e \in Edges : e[2] # Null }

\* When rebalance finds no case any more, the tree below its root is balanced:
\* no record is overweight, no red record has a red child.
Quiet == \A e \in Inner : CaseAt(e[1], e[2]) = "none"
OverweightOrRedRed(e) == Weight(e[2]) > 1 \/ (Red(e[1]) /\ Red(e[2]))
QuietIsBalanced ==
    Quiet => \A e \in Inner : TreeRoot \notin {e[1], e[2]} => ~OverweightOrRedRed(e)

\* Rebalancing comes to an end: whatever cases are taken, and in whatever
\* order, a last phase that only rebalances stays below its bound.
RebalancingEnds ==
    phase = Len(script) /\ (\A p \in Threads : script[phase].work[p] = <<>>)
        => numRebalOps < script[phase].maxRebalOps

(***************************************************************************)
(* What main.cpp checks after the last phase                               *)
(***************************************************************************)
Done == phase = Len(script) /\ \A p \in Threads : At(p, "idle") /\ todo[p] = <<>>
Used(what) == { k \in Keys : \E i \in DOMAIN script : \E p \in Threads :
                  [kind |-> what, key |-> k] \in
                     { script[i].work[p][j] : j \in DOMAIN script[i].work[p] } }

\* "New key not found", "Old key not found" (l.242-249): a key that was
\* inserted and not deleted is in the tree.
InsertedIsFound == Done => Used("insert") \ Used("delete") \subseteq Present

(***************************************************************************)
(* Liveness: every thread is scheduled again and again (ScanFairSpec)      *)
(***************************************************************************)
\* Every operation ends, though any number of its attempts may fail.
OperationsEnd == \A p \in Threads : pc[p] # "idle" ~> pc[p] = "idle"
=============================================================================
