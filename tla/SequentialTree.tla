--------------------------- MODULE SequentialTree ---------------------------
(***************************************************************************)
(* The sequential chromatic tree (fineGrained.../tree.h): the tree that    *)
(* tree_par.h is the concurrent version of.  One caller inserts, removes   *)
(* and rebalances, each time from GLOBAL_ROOT.  A pass of rebalance is a   *)
(* depth-first walk, a visit of which is a step.  No two leaves and no two *)
(* inner nodes have the same key, so that a node is told by it: the leaf   *)
(* with key k is node k, the inner node MaxTreeKey + k.                    *)
(***************************************************************************)
EXTENDS Integers, Sequences, FiniteSets
LOCAL INSTANCE SequencesExt
LOCAL INSTANCE FiniteSetsExt

CONSTANT MaxTreeKey

ASSUME SequentialAssumption == MaxTreeKey \in Nat

VARIABLES
    tree,         \* tree[m] of node m: [key, weight, left, right]; Gone where
                  \* there is no node m
    GLOBAL_ROOT,
    visits,       \* the calls of rebalance to come: <<node, side>>
    present       \* the keys that were inserted and not removed

sequential == <<tree, GLOBAL_ROOT, visits, present>>

TreeKeys == 1 .. MaxTreeKey
NULL == 0    \* no node
Freed == -1  \* a root that remove has freed

Node(key, weight) == [key |-> key, weight |-> weight, left |-> NULL, right |-> NULL]

Gone == Node(0, 0)

isLeaf(m) == tree[m].left = NULL

Opposite(side) == IF side = "left" THEN "right" ELSE "left"

Weight(m) == tree[m].weight

-----------------------------------------------------------------------------
(***************************************************************************)
(* search, insert, remove.                                                 *)
(***************************************************************************)
\* The nodes on the way to a key, from the root to a leaf.
PathTo(key) ==
    LET path[d \in 0 .. MaxTreeKey] ==
          IF d = 0 THEN <<GLOBAL_ROOT>>
          ELSE LET so_far == path[d - 1]  last == tree[so_far[Len(so_far)]] IN
               IF last.left = NULL THEN so_far
               ELSE Append(so_far, IF key < last.key THEN last.left ELSE last.right)
    IN  path[MaxTreeKey]

LeafOf(key) == Last(PathTo(key))

\* search gives the leaf, or NULL.  To insert what is there, or to remove what
\* is not, changes nothing.
search(key) == IF tree[LeafOf(key)].key = key THEN LeafOf(key) ELSE NULL

Idle == visits = << >> /\ GLOBAL_ROOT # Freed

\* New top in the place of m.
Place(t, m, parent, top) ==
    IF parent = NULL THEN t
    ELSE [t EXCEPT ![parent][IF t[parent].left = m THEN "left" ELSE "right"] = top]

ParentOf(path) == IF Len(path) = 1 THEN NULL ELSE path[Len(path) - 1]

\* The leaf becomes the parent of two new ones.
Split(leaf, key) ==
    LET old   == tree[leaf].key
        lower == Min({old, key})
        upper == Max({old, key}) IN
    [Place(tree, leaf, ParentOf(PathTo(key)), MaxTreeKey + upper) EXCEPT
       ![MaxTreeKey + upper] = [key |-> upper, weight |-> tree[leaf].weight - 1,
                                left |-> lower, right |-> upper],
       ![lower] = Node(lower, 1), ![upper] = Node(upper, 1)]

insert(key) ==
    /\ Idle
    /\ IF GLOBAL_ROOT = NULL
       THEN /\ tree' = [tree EXCEPT ![key] = Node(key, 1)]
            /\ GLOBAL_ROOT' = key
       ELSE LET leaf == LeafOf(key)  upper == Max({tree[leaf].key, key}) IN
            /\ search(key) = NULL
            /\ tree' = Split(leaf, key)
            /\ GLOBAL_ROOT' = IF GLOBAL_ROOT = leaf THEN MaxTreeKey + upper ELSE GLOBAL_ROOT
    /\ present' = present \cup {key}
    /\ UNCHANGED visits

\* The parent of the leaf is freed with it, and the sibling gets its weight and
\* its place.  remove drops what recursiveRemove returns: if it was the root
\* that went, GLOBAL_ROOT is a pointer to memory that is free.
remove(key) ==
    /\ Idle /\ GLOBAL_ROOT # NULL /\ search(key) # NULL
    /\ LET path    == PathTo(key)
           leaf    == Last(path)
           parent  == path[Len(path) - 1]
           sibling == IF tree[parent].left = leaf THEN tree[parent].right
                                                  ELSE tree[parent].left
       IN  IF Len(path) <= 2 THEN GLOBAL_ROOT' = Freed /\ UNCHANGED tree
           ELSE /\ tree' = [Place(tree, parent, path[Len(path) - 2], sibling) EXCEPT
                              ![sibling].weight = @ + tree[parent].weight,
                              ![leaf] = Gone, ![parent] = Gone]
                /\ UNCHANGED GLOBAL_ROOT
    /\ present' = present \ {key}
    /\ UNCHANGED visits

-----------------------------------------------------------------------------
(***************************************************************************)
(* rebalance.  The cases come in two symmetric forms; side is where the    *)
(* red child is.                                                           *)
(***************************************************************************)
Child(m, side)      == tree[m][side]
Grand(m, s1, s2)    == tree[tree[m][s1]][s2]
Red(m)              == m # NULL /\ tree[m].weight = 0

Case1(m, parent) ==
    Red(Child(m, "left")) /\ Red(Child(m, "right")) /\ (parent = NULL \/ Weight(m) > 0)

Case2(m, side) ==
    /\ ~isLeaf(Child(m, side)) /\ Red(Child(m, side)) /\ Red(Grand(m, side, side))
    /\ Weight(Child(m, Opposite(side))) > 0

Case3(m, side) ==
    /\ Red(Child(m, side)) /\ Red(Grand(m, side, Opposite(side)))
    /\ Weight(Child(m, Opposite(side))) > 0

Case4(m) ==
    \E side \in {"left", "right"} :
       Weight(Child(m, side)) > 1 /\ Weight(Child(m, Opposite(side))) > 0

Case5(m, side) ==
    /\ Red(Child(m, side)) /\ ~isLeaf(Child(m, side))
    /\ Weight(Child(m, Opposite(side))) > 1 /\ Weight(Grand(m, side, Opposite(side))) > 0

\* Mutant: the child comes up with its own weight.
RotateOnly(t, m, parent, side) ==
    LET u == t[m][side] IN
    Place([t EXCEPT ![m] = [@ EXCEPT ![side] = t[u][Opposite(side)]],
                    ![u] = [@ EXCEPT ![Opposite(side)] = m]],
          m, parent, u)

\* The red child of m on that side comes up; m gets its weight and its inner child.
Rotate(t, m, parent, side) ==
    LET u == t[m][side] IN
    Place([t EXCEPT ![m] = [@ EXCEPT ![side] = t[u][Opposite(side)], !.weight = t[u].weight],
                    ![u] = [@ EXCEPT ![Opposite(side)] = m, !.weight = t[m].weight]],
          m, parent, u)

\* The red inner grandchild comes up.
DoublyRotate(t, m, parent, side) ==
    LET u == t[m][side]  g == t[u][Opposite(side)]  other == Opposite(side) IN
    Place([t EXCEPT ![m] = [@ EXCEPT ![side] = t[g][other], !.weight = t[g].weight],
                    ![u] = [@ EXCEPT ![other] = t[g][side]],
                    ![g] = [@ EXCEPT ![side] = u, ![other] = m, !.weight = t[m].weight]],
          m, parent, g)

AddWeight(t, m, w) == [t EXCEPT ![m].weight = @ + w]

\* Both children give a weight to m.
TakeFromChildren(t, m) ==
    AddWeight(AddWeight(t, t[m].left, -1), t[m].right, -1)

\* The tree after the visit, and what is in the place of m.
Visit(m, parent) ==
    LET second == {s \in {"left", "right"} : Case2(m, s)}
        third  == {s \in {"left", "right"} : Case3(m, s)}
        fifth  == {s \in {"left", "right"} : Case5(m, s)}
        First(S) == IF "left" \in S THEN "left" ELSE "right"
        raised(t) == IF parent = NULL THEN t ELSE AddWeight(t, m, 1)
        inner(s) == Grand(m, s, Opposite(s))
    IN
    IF Case1(m, parent)
    THEN [tree |-> LET t == AddWeight(AddWeight(tree, Child(m, "left"), 1), Child(m, "right"), 1)
                   IN  IF parent = NULL THEN t ELSE AddWeight(t, m, -1),
          top  |-> m]
    ELSE IF second # {}
    THEN [tree |-> Rotate(tree, m, parent, First(second)), top |-> Child(m, First(second))]
    ELSE IF third # {}
    THEN [tree |-> DoublyRotate(tree, m, parent, First(third)), top |-> inner(First(third))]
    ELSE IF Case4(m)
    THEN [tree |-> raised(TakeFromChildren(tree, m)), top |-> m]
    ELSE IF fifth # {}
    THEN [tree |-> AddWeight(TakeFromChildren(
                     Rotate(tree, m, parent, CHOOSE s \in fifth : TRUE), m), m, 1),
          top  |-> Child(m, CHOOSE s \in fifth : TRUE)]
    ELSE [tree |-> tree, top |-> m]

StartRebalance ==
    /\ Idle /\ GLOBAL_ROOT # NULL
    /\ visits' = << <<NULL, "left">> >>
    /\ UNCHANGED <<tree, GLOBAL_ROOT, present>>

\* The next call: of the root, or of a child of a node that was visited.
Rebalance ==
    /\ visits # << >>
    /\ LET parent == Head(visits)[1]
           m      == IF parent = NULL THEN GLOBAL_ROOT ELSE Child(parent, Head(visits)[2])
           after  == Visit(m, parent) IN
       IF m = NULL \/ isLeaf(m)
       THEN visits' = Tail(visits) /\ UNCHANGED <<tree, GLOBAL_ROOT>>
       ELSE /\ tree' = after.tree
            /\ GLOBAL_ROOT' = IF parent = NULL THEN after.top ELSE GLOBAL_ROOT
            /\ visits' = << <<m, "left">>, <<m, "right">> >> \o Tail(visits)
    /\ UNCHANGED present

SequentialInit ==
    /\ tree = [m \in 1 .. 2 * MaxTreeKey |-> Gone] /\ GLOBAL_ROOT = NULL /\ visits = << >>
    /\ present = {}

SequentialNext ==
    \/ \E key \in TreeKeys : insert(key) \/ remove(key)
    \/ StartRebalance
    \/ Rebalance
-----------------------------------------------------------------------------
PathWeight(key) == MapThenSumSet(Weight, ToSet(PathTo(key)))

\* After any insertions and removals, and between the visits of a pass of
\* rebalance, a search finds the keys that are in the tree, and the leaves it
\* ends at are all under the same weight; until remove frees the root.
SequentialIsSet ==
    GLOBAL_ROOT \in DOMAIN tree =>
       \A key \in TreeKeys :
          /\ search(key) # NULL <=> key \in present
          /\ PathWeight(key) = PathWeight(1)
=============================================================================
