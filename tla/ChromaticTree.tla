---------------------------- MODULE ChromaticTree ----------------------------
(***************************************************************************)
(* The heap of the non-blocking chromatic tree (tree.h) and the changes    *)
(* its operations make to it, each as the one indivisible step in which    *)
(* its SCX takes effect (module SCX is checked to be atomic).              *)
(*                                                                         *)
(* A record never moves and is never freed: it is named by its place in    *)
(* `heap'.  Its key and weight never change, its child pointers change by  *)
(* SCX only.  A load-link by thread q is a reservation: n is in linked[q]  *)
(* until some SCX takes effect on a set of records that holds n.           *)
(*                                                                         *)
(* What an update reads after its load-links cannot have changed when its  *)
(* SCX succeeds (keys and weights never do), so that its tests are made on *)
(* the heap as it is then.  Each function and its mirror image (suffixes A *)
(* and B) are one definition with the side as a parameter.                 *)
(***************************************************************************)
EXTENDS Integers, Sequences, FiniteSets

CONSTANTS Threads,      \* the threads that insert and delete
          Keys,         \* the keys they use
          MaxKey        \* 0x7FFFFFFF, the key of the sentinels

ASSUME KeysAssumption == MaxKey \in Int /\ \A k \in Keys : k \in Int /\ k < MaxKey

VARIABLES heap,         \* heap[n]: key, weight and children of record n
          finalized,    \* the records removed by a committed SCX
          linked        \* linked[q]: the records q has load-linked

treeVars == <<heap, finalized, linked>>

Null == 0
Root == 1                                             \* GLOBAL_ROOT
Rec(key, weight, left, right) ==
    [key |-> key, weight |-> weight, left |-> left, right |-> right]
Leaf(key, weight) == Rec(key, weight, Null, Null)

Sides == {"left", "right"}
Opposite(side) == IF side = "left" THEN "right" ELSE "left"

\* A record whose child on `side' is `near'.
Sided(side, key, weight, near, far) ==
    IF side = "left" THEN Rec(key, weight, near, far)
                     ELSE Rec(key, weight, far, near)

Record   == DOMAIN heap
Child(n, side) == heap[n][side]
Weight(n) == heap[n].weight
Key(n)    == heap[n].key
IsLeaf(n) == Child(n, "left") = Null \/ Child(n, "right") = Null
Toward(n, key) == IF key < Key(n) THEN "left" ELSE "right"
SideOf(parent, n) == IF Child(parent, "left") = n THEN "left" ELSE "right"

TreeInit ==
    /\ heap = << Rec(MaxKey, 1, 2, 3), Leaf(MaxKey, 1), Leaf(MaxKey, 1) >>
    /\ finalized = {}
    /\ linked = [q \in Threads |-> {}]

-----------------------------------------------------------------------------
(***************************************************************************)
(* A successful scxExecute: the child `old' of parent is replaced by the   *)
(* first of the fresh records.  It held reservations on parent, on the     *)
(* records it keeps and on those it drops; every other reservation on them *)
(* is lost.                                                                *)
(***************************************************************************)
New(i) == Len(heap) + i

Swing(parent, old, keep, drop, fresh) ==
    /\ heap' = [heap EXCEPT ![parent][SideOf(parent, old)] = New(1)] \o fresh
    /\ finalized' = finalized \cup drop
    /\ linked' = [q \in Threads |-> linked[q] \ ({parent} \cup keep \cup drop)]

\* tryInsert: the leaf is kept, below a new internal record.
InsertedWeight(leaf) == IF Key(leaf) = MaxKey THEN 1 ELSE Weight(leaf) - 1

Insert(key, parent, leaf) ==
    Swing(parent, leaf, {leaf}, {},
          << IF key < Key(leaf)
             THEN Rec(Key(leaf), InsertedWeight(leaf), New(2), leaf)
             ELSE Rec(key, InsertedWeight(leaf), leaf, New(2)),
             Leaf(key, 1) >>)

\* Mutant: the weight of the parent is lost.
DeleteLosesWeight(n0, n1, n2, n3) ==
    LET weight == IF MaxKey \in {Key(n0), Key(n1)} THEN 1 ELSE Weight(n3)
    IN Swing(n0, n1, {}, {n1, n2, n3},
             << Rec(Key(n3), weight, Child(n3, "left"), Child(n3, "right")) >>)

\* tryDelete: n0's child n1 is replaced by a copy of n3, the sibling of n2.
Delete(n0, n1, n2, n3) ==
    LET weight == IF MaxKey \in {Key(n0), Key(n1)} THEN 1
                  ELSE Weight(n1) + Weight(n3)
    IN Swing(n0, n1, {}, {n1, n2, n3},
             << Rec(Key(n3), weight, Child(n3, "left"), Child(n3, "right")) >>)

\* A copy of n with another weight.
Reweighed(n, weight) == [heap[n] EXCEPT !.weight = weight]

\* Two red children: they become black, the node lighter.
tryRebalance1(parent, node) ==
    LET l == Child(node, "left")
        r == Child(node, "right")
    IN /\ ~IsLeaf(node)
       /\ Weight(node) > 0 \/ parent = Child(Root, "left")
       /\ Weight(l) = 0 /\ Weight(r) = 0
       /\ Swing(parent, node, {}, {node, l, r},
                << Rec(Key(node), Weight(node) - 1, New(2), New(3)),
                   Reweighed(l, 1), Reweighed(r, 1) >>)

\* An overweight child whose sibling is not red: one unit of both moves up.
tryRebalance4(parent, node) ==
    LET l == Child(node, "left")
        r == Child(node, "right")
    IN /\ ~IsLeaf(node)
       /\ \/ Weight(l) > 1 /\ Weight(r) > 0
          \/ Weight(r) > 1 /\ Weight(l) > 0
       /\ Swing(parent, node, {}, {node, l, r},
                << Rec(Key(node), Weight(node) + 1, New(2), New(3)),
                   Reweighed(l, Weight(l) - 1), Reweighed(r, Weight(r) - 1) >>)

\* Mutant: the outer grandchild need not be red.
RotateAlways(side, parent, v) ==
    LET far == Opposite(side)
        u == Child(v, side)
        C == Child(v, far)
        A == Child(u, side)
        B == Child(u, far)
    IN /\ C # Null /\ Weight(C) # 0
       /\ u # Null /\ Weight(u) = 0
       /\ A # Null /\ B # Null
       /\ Swing(parent, v, {}, {v, u},
                << Sided(side, Key(u), Weight(v), A, New(2)),
                   Sided(side, Key(v), Weight(u), B, C) >>)

\* A red child of a red child, on the same side: a single rotation.
Rotate(side, parent, v) ==
    LET far == Opposite(side)
        u == Child(v, side)
        C == Child(v, far)
        A == Child(u, side)
        B == Child(u, far)
    IN /\ C # Null /\ Weight(C) # 0
       /\ u # Null /\ Weight(u) = 0
       /\ A # Null /\ Weight(A) = 0 /\ B # Null
       /\ Swing(parent, v, {}, {v, u},
                << Sided(side, Key(u), Weight(v), A, New(2)),
                   Sided(side, Key(v), Weight(u), B, C) >>)

tryRebalance2A(parent, v) == Rotate("left", parent, v)
tryRebalance2B(parent, v) == Rotate("right", parent, v)

\* A red child of a red child, on the other side: a double rotation.
RotateTwice(side, parent, node) ==
    LET far == Opposite(side)
        l   == Child(node, side)
        lr  == Child(l, far)
    IN /\ ~IsLeaf(node)
       /\ Weight(Child(node, far)) > 0
       /\ Weight(l) = 0 /\ ~IsLeaf(l)
       /\ Weight(lr) = 0
       /\ Swing(parent, node, {}, {node, l, lr},
                << Sided(side, Key(lr), Weight(node), New(2), New(3)),
                   Sided(side, Key(l), 0, Child(l, side), Child(lr, side)),
                   Sided(side, Key(node), 0, Child(lr, far), Child(node, far)) >>)

tryRebalance3A(parent, node) == RotateTwice("left", parent, node)
tryRebalance3B(parent, node) == RotateTwice("right", parent, node)

\* An overweight child A whose sibling u is red: u moves up, A and its new
\* sibling B lose one unit each to their new parent.
RotateWeight(side, parent, v) ==
    LET far == Opposite(side)
        A == Child(v, side)
        u == Child(v, far)
        B == Child(u, side)
        C == Child(u, far)
    IN /\ A # Null /\ Weight(A) > 1
       /\ u # Null /\ Weight(u) = 0
       /\ B # Null /\ Weight(B) > 0 /\ C # Null
       /\ Swing(parent, v, {}, {v, A, u, B},
                << Sided(side, Key(u), Weight(v), New(2), C),
                   Sided(side, Key(v), 1, New(3), New(4)),
                   Reweighed(A, Weight(A) - 1), Reweighed(B, Weight(B) - 1) >>)

tryRebalance5A(parent, v) == RotateWeight("left", parent, v)
tryRebalance5B(parent, v) == RotateWeight("right", parent, v)

-----------------------------------------------------------------------------
(***************************************************************************)
(* rebalance: the case it finds at a node, 0 when there is none            *)
(***************************************************************************)
Red(n) == Weight(n) = 0

checkCase4(node) ==
    \E side \in Sides : /\ Weight(Child(node, side)) > 1
                        /\ Weight(Child(node, Opposite(side))) > 0

\* Red child on `side' with a red child on the same side, sibling not red.
Case2(node, side) ==
    LET u == Child(node, side)
    IN ~IsLeaf(u) /\ Red(u) /\ Red(Child(u, side))
          /\ Weight(Child(node, Opposite(side))) > 0

\* Mutant: the red grandchild is looked for on the wrong side.
Case3Outer(node, side) ==
    LET u == Child(node, side)
    IN Red(u) /\ Child(u, side) # Null /\ Red(Child(u, side))
          /\ Weight(Child(node, Opposite(side))) > 0

Case3(node, side) ==
    LET u == Child(node, side)
    IN Red(u) /\ Child(u, Opposite(side)) # Null /\ Red(Child(u, Opposite(side)))
          /\ Weight(Child(node, Opposite(side))) > 0

Case5(node, side) ==
    LET u == Child(node, Opposite(side))
    IN Weight(Child(node, side)) > 1 /\ Red(u) /\ ~IsLeaf(u)
          /\ Weight(Child(u, side)) > 0

\* The first that applies, in the order of the code.
CaseAt(parent, node) ==
    IF Child(node, "left") = Null /\ Child(node, "right") = Null THEN "none" ELSE
    IF /\ Red(Child(node, "left")) /\ Red(Child(node, "right"))
       /\ parent = Child(Root, "left") \/ Weight(node) > 0 THEN "1" ELSE
    IF Case2(node, "left")  THEN "2A" ELSE
    IF Case2(node, "right") THEN "2B" ELSE
    IF Case3(node, "left")  THEN "3A" ELSE
    IF Case3(node, "right") THEN "3B" ELSE
    IF checkCase4(node)     THEN "4"  ELSE
    IF Case5(node, "left")  THEN "5A" ELSE
    IF Case5(node, "right") THEN "5B" ELSE "none"

\* The function rebalance calls in each case.
tryRebalance(case, parent, node) ==
    \/ case = "1"  /\ tryRebalance1(parent, node)
    \/ case = "2A" /\ tryRebalance2A(parent, node)
    \/ case = "2B" /\ tryRebalance2B(parent, node)
    \/ case = "3A" /\ tryRebalance3A(parent, node)
    \/ case = "3B" /\ tryRebalance3B(parent, node)
    \/ case = "4"  /\ tryRebalance4(parent, node)
    \/ case = "5A" /\ tryRebalance5A(parent, node)
    \/ case = "5B" /\ tryRebalance5B(parent, node)

-----------------------------------------------------------------------------
(***************************************************************************)
(* What the tree holds, and its shape                                      *)
(***************************************************************************)
\* The record at which a search for key ends.
SearchEnd(key) ==
    LET walk[n \in Record] == IF IsLeaf(n) THEN n
                              ELSE walk[Child(n, Toward(n, key))]
    IN walk[Child(Root, "left")]

\* The set the tree stands for: the keys a search finds.
Present == { k \in Keys : Key(SearchEnd(k)) = k }

Under(n) ==
    LET under[m \in {Null} \cup Record] ==
            IF m = Null THEN {}
            ELSE {m} \cup under[Child(m, "left")] \cup under[Child(m, "right")]
    IN under[n]

Reachable == Under(Root)

\* The root of the tree proper, a child of the sentinels; Null when empty.
TreeRoot == Child(Child(Root, "left"), "left")

\* The sums of the weights on the paths from n down to a leaf.
WeightedHeights(n) ==
    LET heights[m \in {Null} \cup Record] ==
            IF m = Null THEN {}
            ELSE IF IsLeaf(m) THEN {Weight(m)}
            ELSE { Weight(m) + x : x \in heights[Child(m, "left")]
                                            \cup heights[Child(m, "right")] }
    IN heights[n]
=============================================================================
