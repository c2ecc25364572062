----------------------- MODULE FineGrainedTreeProofs -----------------------
(***************************************************************************)
(* The tree with a lock per record.  Without passes of the rebalancing     *)
(* thread, insertions, removals and searches that go down hand over hand   *)
(* hold what they use, and the tree is a set of keys.  With passes, at any *)
(* time and beside any updates, no record inside the tree ever gets weight *)
(* (the section on weights).                                               *)
(***************************************************************************)
EXTENDS FineGrainedTree, FiniteSetTheorems, SequenceTheorems, WellFoundedInduction, TLAPS

(***************************************************************************)
(* Trees: H is a heap and F the records of it that were freed.             *)
(***************************************************************************)
Cell == [key : Keys \cup {MaxKey}, weight : Int, left : Nat, right : Nat]
Leafy(H, n)  == H[n].left = Null /\ H[n].right = Null
Way(H, n, k) == IF k <= H[n].key THEN H[n].left ELSE H[n].right
ChildrenOf(H, n) == {H[n].left, H[n].right} \ {Null}

\* The records a search for k visits: the least set with Root that is closed
\* under its next step.
Follows(H, S, k) == \A m \in S : Way(H, m, k) # Null => Way(H, m, k) \in S
Path(H, k) == { m \in DOMAIN H : \A S \in SUBSET DOMAIN H :
                                    Root \in S /\ Follows(H, S, k) => m \in S }

\* Every record has two children or none, and one parent; Root has a left
\* child only.  Nothing leads from a record that is in use to a freed one.
IsTree(H, F) ==
    /\ H \in Seq(Cell) /\ F \subseteq DOMAIN H /\ Root \in DOMAIN H \ F
    /\ H[Root].key = MaxKey /\ H[Root].left # Null /\ H[Root].right = Null
    /\ \A n \in DOMAIN H : ChildrenOf(H, n) \subseteq DOMAIN H
    /\ \A n \in DOMAIN H \ F :
          /\ ChildrenOf(H, n) \subseteq DOMAIN H \ (F \cup {Root})
          /\ n # Root => (H[n].left = Null <=> H[n].right = Null)
    /\ \A m, n \in DOMAIN H \ F :
          /\ H[m].left # Null /\ H[m].left = H[n].left => m = n
          /\ H[m].right # Null /\ H[m].right = H[n].right => m = n
          /\ H[m].left # Null => H[m].left # H[n].right

\* There are no cycles.
Ranks(H, F, rank) ==
    /\ rank \in [DOMAIN H -> Nat]
    /\ \A n \in DOMAIN H \ F : \A c \in ChildrenOf(H, n) : rank[c] < rank[n]

\* A search for the key of a leaf comes to that leaf, and one leaf is the
\* sentinel's.
Sorted(H, F) ==
    /\ \A n \in DOMAIN H \ F : Leafy(H, n) => n \in Path(H, H[n].key)
    /\ \E n \in DOMAIN H \ F : Leafy(H, n) /\ H[n].key = MaxKey

-----------------------------------------------------------------------------
\* A set of natural numbers has a least element.
LEMMA LeastRank ==
    ASSUME NEW S, NEW rank \in [S -> Nat], NEW T \in SUBSET S, T # {}
    PROVE  \E n \in T : \A m \in T : rank[n] <= rank[m]
<1>1. PICK I : I = {rank[n] : n \in T}
    OBVIOUS
<1>2. I \subseteq Nat /\ I # {}
    BY <1>1
<1>3. PICK i \in I : \A j \in I : ~(<<j, i>> \in OpToRel(<, Nat))
  <2>1. \E i \in I : \A j \in I : ~(<<j, i>> \in OpToRel(<, Nat))
      BY <1>2, WFMin, NatLessThanWellFounded
  <2> QED BY <2>1
<1>4. \A j \in I : ~(j < i)
    BY <1>2, <1>3 DEF OpToRel
<1>5. PICK n \in T : i = rank[n]
    BY <1>1
<1>6. ASSUME NEW m \in T PROVE rank[n] <= rank[m]
  <2>1. rank[m] \in I
      BY <1>1
  <2>2. rank[n] \in Nat /\ rank[m] \in Nat
      OBVIOUS
  <2> QED BY <2>1, <2>2, <1>4, <1>5
<1> QED BY <1>6

AllKeys == Keys \cup {MaxKey}

\* Keys are integers below the sentinel's.
LEMMA KeysAre ==
    /\ MaxKey \in Int /\ MaxKey \notin Keys
    /\ \A k \in AllKeys : k \in Int /\ k <= MaxKey
    /\ \A k \in Keys : k < MaxKey
BY LockTreeAssumption DEF AllKeys

\* The fields of a record of a tree.
LEMMA CellOf ==
    ASSUME NEW H, NEW F, IsTree(H, F), NEW n \in DOMAIN H
    PROVE  /\ H[n] \in Cell /\ H[n].key \in AllKeys /\ H[n].weight \in Int
           /\ H[n].left \in Nat /\ H[n].right \in Nat
           /\ H[n] = [key |-> H[n].key, weight |-> H[n].weight,
                      left |-> H[n].left, right |-> H[n].right]
           /\ n \in Nat /\ n # Null
<1>1. H[n] \in Cell /\ n \in Nat /\ n # 0
    BY DEF IsTree
<1>2. PICK c : c = H[n]
    OBVIOUS
<1>3. /\ c.key \in AllKeys /\ c.weight \in Int /\ c.left \in Nat /\ c.right \in Nat
      /\ c = [key |-> c.key, weight |-> c.weight, left |-> c.left, right |-> c.right]
    BY <1>1, <1>2 DEF Cell, AllKeys
<1> QED BY <1>1, <1>2, <1>3 DEF Null

\* A record in use that is no leaf leads a search on to another in use.
LEMMA WayOn ==
    ASSUME NEW H, NEW F, IsTree(H, F), NEW n \in DOMAIN H \ F, ~Leafy(H, n),
           NEW k \in AllKeys
    PROVE  /\ Way(H, n, k) \in ChildrenOf(H, n)
           /\ Way(H, n, k) \in DOMAIN H \ (F \cup {Root})
           /\ Way(H, n, k) # Null
<1>1. k \in Int /\ k <= MaxKey /\ H[n].key \in Int
    BY CellOf, KeysAre
<1>2. CASE n = Root
    BY <1>1, <1>2 DEF IsTree, Way, ChildrenOf
<1>3. CASE n # Root
    BY <1>1, <1>3 DEF IsTree, Way, ChildrenOf, Leafy
<1> QED BY <1>2, <1>3

\* The path of a key is the least set that it is defined as, of records in use.
LEMMA PathIs ==
    ASSUME NEW H, NEW F, IsTree(H, F), NEW k \in AllKeys
    PROVE  /\ Root \in Path(H, k) /\ Path(H, k) \subseteq DOMAIN H \ F
           /\ Follows(H, Path(H, k), k)
           /\ \A m \in Path(H, k) : ~Leafy(H, m) => Way(H, m, k) \in Path(H, k)
           /\ \A S \in SUBSET DOMAIN H :
                 Root \in S /\ Follows(H, S, k) => Path(H, k) \subseteq S
<1> PICK P : P = Path(H, k)
    OBVIOUS
<1>1. /\ Root \in P /\ P \subseteq DOMAIN H
      /\ \A S \in SUBSET DOMAIN H : Root \in S /\ Follows(H, S, k) => P \subseteq S
    BY DEF Path, IsTree
<1>2. P \subseteq DOMAIN H \ F
  <2>1. Follows(H, DOMAIN H \ F, k)
    <3> SUFFICES ASSUME NEW m \in DOMAIN H \ F, Way(H, m, k) # Null
                 PROVE  Way(H, m, k) \in DOMAIN H \ F
        BY DEF Follows
    <3>1. ~Leafy(H, m)
        BY DEF Leafy, Way
    <3> QED BY <3>1, WayOn
  <2> QED BY <1>1, <2>1 DEF IsTree
<1>3. Follows(H, P, k)
  <2> SUFFICES ASSUME NEW m \in P, NEW c, c = Way(H, m, k), c # Null PROVE c \in P
      BY DEF Follows
  <2>1. c \in DOMAIN H
      BY <1>2 DEF IsTree, Way, ChildrenOf
  <2>2. ASSUME NEW S \in SUBSET DOMAIN H, Root \in S, Follows(H, S, k) PROVE c \in S
      BY <1>1, <2>2 DEF Follows
  <2> QED BY <2>1, <2>2 DEF Path
<1>4. \A m \in P : ~Leafy(H, m) => Way(H, m, k) \in P
    BY <1>2, <1>3, WayOn DEF Follows
<1> QED BY <1>1, <1>2, <1>3, <1>4

\* The record before another one on a path.
LEMMA PathBefore ==
    ASSUME NEW H, NEW F, IsTree(H, F), NEW k \in AllKeys, NEW n \in Path(H, k), n # Root
    PROVE  \E m \in Path(H, k) : ~Leafy(H, m) /\ Way(H, m, k) = n
<1> SUFFICES ASSUME \A m \in Path(H, k) : ~Leafy(H, m) => Way(H, m, k) # n
             PROVE  FALSE
    OBVIOUS
<1>1. PICK S : S = Path(H, k) \ {n}
    OBVIOUS
<1>2. S \in SUBSET DOMAIN H /\ Root \in S /\ Follows(H, S, k)
  <2>1. \A m \in Path(H, k) : Way(H, m, k) # Null => ~Leafy(H, m)
      BY DEF Leafy, Way
  <2> QED BY <1>1, <2>1, PathIs DEF Follows
<1> QED BY <1>1, <1>2, PathIs

-----------------------------------------------------------------------------
(***************************************************************************)
(* Where a search ends                                                     *)
(***************************************************************************)
\* The equation of the function that SearchEnd is defined by.
Walks(W, k) ==
    W = [n \in {Null} \cup Record |->
           IF n = Null \/ IsLeaf(n) THEN n ELSE W[Child(n, Toward(n, k))]]

\* The children of a record as the operations name them.
LEMMA Turn ==
    ASSUME IsTree(heap, freed), NEW n \in Record, NEW k
    PROVE  /\ heap[n][Toward(n, k)] = Way(heap, n, k)
           /\ Child(n, Toward(n, k)) = Way(heap, n, k)
           /\ IsLeaf(n) <=> Leafy(heap, n)
<1>1. CASE k <= heap[n].key
    BY <1>1 DEF Toward, Child, Way, IsLeaf, Leafy
<1>2. CASE ~(k <= heap[n].key)
    BY <1>2 DEF Toward, Child, Way, IsLeaf, Leafy
<1> QED BY <1>1, <1>2

\* What a search that starts at n visits.
PathFrom(n, k) == { m \in Record : \A S \in SUBSET Record :
                                      n \in S /\ Follows(heap, S, k) => m \in S }
EndOf(n, k) == CHOOSE m : m \in PathFrom(n, k) /\ Leafy(heap, m)

\* A search from a record visits that record and what a search from the next
\* one visits, if there is one.
LEMMA PathFromIs ==
    ASSUME IsTree(heap, freed), NEW n \in Record, NEW k
    PROVE  /\ Way(heap, n, k) = Null => PathFrom(n, k) = {n}
           /\ Way(heap, n, k) # Null =>
                 PathFrom(n, k) = {n} \cup PathFrom(Way(heap, n, k), k)
<1>1. CASE Way(heap, n, k) = Null
  <2>1. Follows(heap, {n}, k)
      BY <1>1 DEF Follows
  <2> QED BY <1>1, <2>1 DEF PathFrom
<1>2. CASE Way(heap, n, k) # Null
  <2>1. PICK c : c = Way(heap, n, k)
      OBVIOUS
  <2>2. c \in Record
      BY <1>2, <2>1 DEF IsTree, ChildrenOf, Way, Record
  <2>3. ASSUME NEW m \in PathFrom(n, k) PROVE m \in {n} \cup PathFrom(c, k)
    <3> SUFFICES ASSUME m # n, NEW S \in SUBSET Record, c \in S, Follows(heap, S, k)
                 PROVE  m \in S
        BY DEF PathFrom
    <3>1. Follows(heap, S \cup {n}, k)
        BY <2>1 DEF Follows
    <3>2. S \cup {n} \in SUBSET Record
        OBVIOUS
    <3>3. m \in S \cup {n}
        BY <3>1, <3>2 DEF PathFrom
    <3> QED BY <3>3
  <2>4. ASSUME NEW m \in {n} \cup PathFrom(c, k) PROVE m \in PathFrom(n, k)
    <3>1. m \in Record
        BY DEF PathFrom
    <3> SUFFICES ASSUME NEW S \in SUBSET Record, n \in S, Follows(heap, S, k)
                 PROVE  m \in S
        BY <3>1 DEF PathFrom
    <3>2. c \in S
        BY <1>2, <2>1 DEF Follows
    <3> QED BY <3>2 DEF PathFrom
  <2> QED BY <1>2, <2>1, <2>3, <2>4
<1> QED BY <1>1, <1>2

\* The equation has a solution.
LEMMA SomeWalk ==
    ASSUME IsTree(heap, freed), NEW k
    PROVE  \E W : Walks(W, k)
<1> DEFINE Ends(n) == \E m \in PathFrom(n, k) : Leafy(heap, m)
<1>1. PICK W : W = [n \in {Null} \cup Record |->
                     IF n = Null \/ ~Ends(n) THEN Null ELSE EndOf(n, k)]
    OBVIOUS
<1>2. ASSUME NEW n \in {Null} \cup Record
      PROVE  W[n] = IF n = Null \/ IsLeaf(n) THEN n ELSE W[Child(n, Toward(n, k))]
  <2>1. CASE n = Null
      BY <1>1, <2>1
  <2>2. CASE n # Null /\ IsLeaf(n)
    <3>1. n \in Record /\ Leafy(heap, n) /\ PathFrom(n, k) = {n}
        BY <2>2, Turn, PathFromIs DEF Leafy, Way
    <3>2. EndOf(n, k) = n
        BY <3>1 DEF EndOf
    <3>3. Ends(n)
        BY <3>1
    <3> QED BY <1>1, <2>2, <3>2, <3>3
  <2>3. CASE n # Null /\ ~IsLeaf(n)
    <3>0. n \in Record /\ ~Leafy(heap, n)
        BY <2>3, Turn
    <3>1. PICK c : c = Way(heap, n, k)
        OBVIOUS
    <3>2. c = Child(n, Toward(n, k))
        BY <3>0, <3>1, Turn
    <3>3. CASE c = Null
      <4>1. PathFrom(n, k) = {n}
          BY <3>0, <3>1, <3>3, PathFromIs
      <4>2. ~Ends(n)
          BY <3>0, <4>1
      <4> QED BY <1>1, <2>3, <3>2, <3>3, <4>2
    <3>4. CASE c # Null
      <4>1. PathFrom(n, k) = {n} \cup PathFrom(c, k) /\ c \in Record
          BY <3>0, <3>1, <3>4, PathFromIs DEF IsTree, ChildrenOf, Way, Record
      <4>2. \A m : m \in PathFrom(n, k) /\ Leafy(heap, m)
                       <=> m \in PathFrom(c, k) /\ Leafy(heap, m)
          BY <3>0, <4>1
      <4>3. EndOf(n, k) = EndOf(c, k) /\ (Ends(n) <=> Ends(c))
          BY <4>2, Zenon DEF EndOf
      <4> QED BY <1>1, <2>3, <3>2, <3>4, <4>1, <4>3
    <3> QED BY <3>3, <3>4
  <2> QED BY <2>1, <2>2, <2>3
<1>3. PICK G : G = [n \in {Null} \cup Record |->
                     IF n = Null \/ IsLeaf(n) THEN n ELSE W[Child(n, Toward(n, k))]]
    OBVIOUS
<1>4. W = [n \in {Null} \cup Record |-> W[n]]
    BY <1>1
<1>5. W = G
    BY <1>2, <1>3, <1>4
<1>6. Walks(W, k)
    BY <1>3, <1>5 DEF Walks
<1> QED BY <1>6

\* SearchEnd is what a solution has for Root.
LEMMA SearchWalks ==
    ASSUME IsTree(heap, freed), NEW k
    PROVE  \E W : Walks(W, k) /\ SearchEnd(k) = W[Root]
<1> DEFINE Solution == CHOOSE W : W = [n \in {Null} \cup Record |->
              IF n = Null \/ IsLeaf(n) THEN n ELSE W[Child(n, Toward(n, k))]]
<1>1. \E W : W = [n \in {Null} \cup Record |->
              IF n = Null \/ IsLeaf(n) THEN n ELSE W[Child(n, Toward(n, k))]]
    BY SomeWalk, Zenon DEF Walks
<1>2. Solution = [n \in {Null} \cup Record |->
              IF n = Null \/ IsLeaf(n) THEN n ELSE Solution[Child(n, Toward(n, k))]]
    BY <1>1, Zenon
<1>3. SearchEnd(k) = Solution[Root]
    BY Zenon DEF SearchEnd
<1> QED BY <1>2, <1>3, Zenon DEF Walks

\* A search for a key ends in the one leaf of its path.
LEMMA SearchEndIs ==
    ASSUME IsTree(heap, freed), NEW rank, Ranks(heap, freed, rank), NEW k \in AllKeys
    PROVE  /\ SearchEnd(k) \in Path(heap, k) /\ Leafy(heap, SearchEnd(k))
           /\ \A e \in Path(heap, k) : Leafy(heap, e) => e = SearchEnd(k)
<1>1. PICK W : Walks(W, k) /\ SearchEnd(k) = W[Root]
    BY SearchWalks
<1> PICK P : P = Path(heap, k)
    OBVIOUS
<1>2. /\ Root \in P /\ P \subseteq Record \ freed
      /\ \A m \in P : ~Leafy(heap, m) => Way(heap, m, k) \in P
      /\ \A S \in SUBSET Record : Root \in S /\ Follows(heap, S, k) => P \subseteq S
    BY PathIs DEF Record
<1>3. \A n \in Record : n # Null /\ W[n] = IF Leafy(heap, n) THEN n ELSE W[Way(heap, n, k)]
  <2>1. Null \notin Record
      BY CellOf DEF Record
  <2> QED BY <1>1, <2>1, Turn DEF Walks
<1>4. \A n \in P : W[n] = W[Root]
  <2>1. PICK S : S = {n \in P : W[n] = W[Root]}
      OBVIOUS
  <2>2. Follows(heap, S, k)
    <3> SUFFICES ASSUME NEW m \in S, Way(heap, m, k) # Null PROVE Way(heap, m, k) \in S
        BY DEF Follows
    <3>1. ~Leafy(heap, m) /\ m \in P
        BY <2>1 DEF Leafy, Way
    <3> QED BY <1>2, <1>3, <2>1, <3>1
  <2> QED BY <1>2, <2>1, <2>2
<1>5. \E e \in P : Leafy(heap, e)
  <2>1. PICK e \in P : \A m \in P : rank[e] <= rank[m]
      BY <1>2, LeastRank DEF Ranks, Record
  <2>2. CASE ~Leafy(heap, e)
    <3>1. PICK c : c = Way(heap, e, k)
        OBVIOUS
    <3>2. c \in P /\ c \in ChildrenOf(heap, e) /\ e \in Record \ freed /\ c \in Record
        BY <1>2, <2>2, <3>1, WayOn DEF Record
    <3>3. rank[c] < rank[e] /\ rank[c] \in Nat /\ rank[e] \in Nat
        BY <3>2 DEF Ranks, Record
    <3> QED BY <2>1, <3>2, <3>3
  <2> QED BY <2>1, <2>2
<1>6. \A e \in P : Leafy(heap, e) => W[e] = e
    BY <1>2, <1>3
<1> QED BY <1>1, <1>4, <1>5, <1>6

\* The keys of the tree are the keys of the leaves in use.
LEMMA PresentIs ==
    ASSUME IsTree(heap, freed), NEW rank, Ranks(heap, freed, rank), Sorted(heap, freed)
    PROVE  Present = { k \in Keys : \E e \in Record \ freed : Leafy(heap, e) /\ heap[e].key = k }
<1> SUFFICES ASSUME NEW k \in Keys
             PROVE  SearchEnd(k) # Null /\ heap[SearchEnd(k)].key = k
                      <=> \E e \in Record \ freed : Leafy(heap, e) /\ heap[e].key = k
    BY DEF Present
<1>1. PICK n : n = SearchEnd(k)
    OBVIOUS
<1>2. k \in AllKeys
    BY DEF AllKeys
<1>3. n \in Path(heap, k) /\ Leafy(heap, n) /\ n \in Record \ freed /\ n # Null
    BY <1>1, <1>2, SearchEndIs, PathIs, CellOf DEF Record
<1>4. ASSUME NEW e \in Record \ freed, Leafy(heap, e), heap[e].key = k
      PROVE  heap[n].key = k
    BY <1>1, <1>2, <1>4, SearchEndIs DEF Sorted, Record
<1> QED BY <1>1, <1>3, <1>4
-----------------------------------------------------------------------------
(***************************************************************************)
(* The two changes to a tree                                               *)
(***************************************************************************)
\* G is H with the leaf n above two new leaves a and b.
Grows(H, G, n, a, b, lo, hi) ==
    /\ G \in Seq(Cell) /\ a \notin DOMAIN H /\ b \notin DOMAIN H /\ a # b
    /\ DOMAIN G = DOMAIN H \cup {a, b} /\ a # Null /\ b # Null /\ a \in Nat /\ b \in Nat
    /\ G[n].key = lo /\ G[n].left = a /\ G[n].right = b
    /\ G[a].key = lo /\ G[a].left = Null /\ G[a].right = Null
    /\ G[b].key = hi /\ G[b].left = Null /\ G[b].right = Null
    /\ \A m \in DOMAIN H \ {n} : G[m] = H[m]

\* The heap of an insertion is such a G.
LEMMA GrownIs ==
    ASSUME NEW H, NEW F, IsTree(H, F), NEW n \in DOMAIN H, NEW lo \in AllKeys,
           NEW hi \in AllKeys, NEW w \in Int, NEW G,
           G = [H EXCEPT ![n] = Rec(lo, w, Len(H) + 1, Len(H) + 2)]
                 \o << Rec(lo, 1, Null, Null), Rec(hi, 1, Null, Null) >>
    PROVE  Grows(H, G, n, Len(H) + 1, Len(H) + 2, lo, hi)
<1> DEFINE upper == Rec(lo, w, Len(H) + 1, Len(H) + 2)
           one == Rec(lo, 1, Null, Null)
           two == Rec(hi, 1, Null, Null)
<1>1. H \in Seq(Cell) /\ Len(H) \in Nat /\ DOMAIN H = 1 .. Len(H)
    BY DEF IsTree
<1>2. PICK c, d, e : c = upper /\ d = one /\ e = two
    OBVIOUS
<1>3. /\ c \in Cell /\ c.key = lo /\ c.left = Len(H) + 1 /\ c.right = Len(H) + 2
      /\ d \in Cell /\ d.key = lo /\ d.left = Null /\ d.right = Null
      /\ e \in Cell /\ e.key = hi /\ e.left = Null /\ e.right = Null
  <2>1. Len(H) + 1 \in Nat /\ Len(H) + 2 \in Nat /\ Null \in Nat /\ 1 \in Int
      BY <1>1 DEF Null
  <2> QED BY <1>2, <2>1 DEF Rec, Cell, AllKeys
<1>4. PICK A, B : A = [H EXCEPT ![n] = c] /\ B = <<d, e>>
    OBVIOUS
<1>5. /\ A \in Seq(Cell) /\ Len(A) = Len(H) /\ DOMAIN A = DOMAIN H /\ A[n] = c
      /\ \A m \in DOMAIN H \ {n} : A[m] = H[m]
    BY <1>1, <1>3, <1>4
<1>6. B \in Seq(Cell) /\ Len(B) = 2 /\ B[1] = d /\ B[2] = e
    BY <1>3, <1>4
<1>7. G = A \o B
    BY <1>2, <1>4
<1>8. /\ G \in Seq(Cell) /\ DOMAIN G = 1 .. Len(H) + 2
      /\ \A m \in DOMAIN H : G[m] = A[m]
      /\ G[Len(H) + 1] = d /\ G[Len(H) + 2] = e
  <2>0. /\ G \in Seq(Cell) /\ Len(G) = Len(A) + Len(B)
        /\ \A i \in 1 .. Len(A) : G[i] = A[i]
        /\ \A i \in 1 .. Len(B) : G[Len(A) + i] = B[i]
    <3>1. A \in Seq(Cell) /\ B \in Seq(Cell)
        BY <1>5, <1>6
    <3>2. /\ A \o B \in Seq(Cell) /\ Len(A \o B) = Len(A) + Len(B)
          /\ \A i \in 1 .. Len(A) : (A \o B)[i] = A[i]
          /\ \A i \in 1 .. Len(B) : (A \o B)[Len(A) + i] = B[i]
        BY <3>1, SMTT(30)
    <3> QED BY <1>7, <3>2
  <2>1. G \in Seq(Cell) /\ Len(G) = Len(H) + 2
      BY <1>5, <1>6, <2>0
  <2>2. \A m \in 1 .. Len(H) : G[m] = A[m]
      BY <1>5, <2>0
  <2>3. G[Len(H) + 1] = d /\ G[Len(H) + 2] = e
      BY <1>5, <1>6, <2>0
  <2> QED BY <1>1, <2>1, <2>2, <2>3
<1>9. /\ Len(H) + 1 \notin DOMAIN H /\ Len(H) + 2 \notin DOMAIN H
      /\ Len(H) + 1 # Len(H) + 2 /\ Len(H) + 1 # 0 /\ Len(H) + 2 # 0
      /\ 1 .. Len(H) + 2 = DOMAIN H \cup {Len(H) + 1, Len(H) + 2}
      /\ Len(H) + 1 \in Nat /\ Len(H) + 2 \in Nat
  <2> PICK N : N = Len(H)
      OBVIOUS
  <2>1. 1 .. N + 2 = (1 .. N) \cup {N + 1, N + 2}
      BY <1>1
  <2> QED BY <1>1, <2>1
<1>10. G[n] = c /\ \A m \in DOMAIN H \ {n} : G[m] = H[m]
    BY <1>5, <1>8
<1>11. G \in Seq(Cell) /\ DOMAIN G = DOMAIN H \cup {Len(H) + 1, Len(H) + 2}
    BY <1>8, <1>9
<1> QED BY <1>3, <1>8, <1>9, <1>10, <1>11, Zenon DEF Grows, Null

\* It is a tree again, what was on a path still is, and the new leaves are on
\* the paths of their keys.
LEMMA GrowTree ==
    ASSUME NEW H, NEW F, NEW rank, IsTree(H, F), Ranks(H, F, rank), Sorted(H, F),
           NEW n \in DOMAIN H \ F, Leafy(H, n), NEW k \in Keys, n \in Path(H, k),
           NEW lo \in AllKeys, NEW hi \in AllKeys, lo < hi, {lo, hi} = {k, H[n].key},
           NEW G, NEW a, NEW b, Grows(H, G, n, a, b, lo, hi)
    PROVE  /\ IsTree(G, F) /\ \E rank2 : Ranks(G, F, rank2)
           /\ \A j \in AllKeys : Path(H, j) \subseteq Path(G, j)
           /\ Sorted(G, F)
<1> USE DEF Grows
<1>0. /\ F \subseteq DOMAIN H /\ n # Root /\ n # Null /\ Root \in DOMAIN H /\ Null \notin DOMAIN H
      /\ a \notin F /\ b \notin F /\ n \notin {a, b} /\ Root \notin {a, b}
    BY CellOf DEF IsTree, Leafy
<1>1. /\ ChildrenOf(G, n) = {a, b} /\ ChildrenOf(G, a) = {} /\ ChildrenOf(G, b) = {}
      /\ \A m \in DOMAIN H \ {n} : ChildrenOf(G, m) = ChildrenOf(H, m)
    BY <1>0 DEF ChildrenOf
<1>2. IsTree(G, F)
  <2>1. /\ G \in Seq(Cell) /\ F \subseteq DOMAIN G /\ Root \in DOMAIN G \ F
        /\ G[Root].key = MaxKey /\ G[Root].left # Null /\ G[Root].right = Null
      BY <1>0 DEF IsTree
  <2>2. \A m \in DOMAIN G : ChildrenOf(G, m) \subseteq DOMAIN G
      BY <1>1 DEF IsTree
  <2>3. \A m \in DOMAIN G \ F :
          /\ ChildrenOf(G, m) \subseteq DOMAIN G \ (F \cup {Root})
          /\ m # Root => (G[m].left = Null <=> G[m].right = Null)
      BY <1>0, <1>1 DEF IsTree
  <2>4. \A m \in DOMAIN H \ F : /\ H[m].left # Null => H[m].left \in DOMAIN H
                                /\ H[m].right # Null => H[m].right \in DOMAIN H
      BY DEF IsTree, ChildrenOf
  <2>5. ASSUME NEW l \in DOMAIN G \ F, NEW m \in DOMAIN G \ F
        PROVE  /\ G[l].left # Null /\ G[l].left = G[m].left => l = m
               /\ G[l].right # Null /\ G[l].right = G[m].right => l = m
               /\ G[l].left # Null => G[l].left # G[m].right
    <3>1. CASE l \in DOMAIN H \ {n} /\ m \in DOMAIN H \ {n}
        BY <3>1 DEF IsTree
    <3>2. CASE l \in {a, b} \/ m \in {a, b}
        BY <1>0, <2>4, <3>2
    <3>3. CASE l = n /\ m \in DOMAIN H
        BY <1>0, <2>4, <3>3
    <3>4. CASE m = n /\ l \in DOMAIN H
        BY <1>0, <2>4, <3>4
    <3> QED BY <3>1, <3>2, <3>3, <3>4
  <2> QED BY <2>1, <2>2, <2>3, <2>5, Zenon DEF IsTree
<1>3. \E rank2 : Ranks(G, F, rank2)
  <2>1. PICK rank2 : rank2 = [m \in DOMAIN G |-> IF m \in DOMAIN H THEN rank[m] + 1 ELSE 0]
      OBVIOUS
  <2>2. rank \in [DOMAIN H -> Nat]
      BY DEF Ranks
  <2>3. rank2 \in [DOMAIN G -> Nat]
      BY <2>1, <2>2
  <2>4. ASSUME NEW m \in DOMAIN G \ F, NEW c \in ChildrenOf(G, m) PROVE rank2[c] < rank2[m]
    <3>1. CASE m = n
        BY <1>1, <2>1, <2>2, <2>4, <3>1
    <3>2. CASE m \in DOMAIN H \ {n}
      <4>1. c \in ChildrenOf(H, m) /\ c \in DOMAIN H
          BY <1>1, <2>4, <3>2 DEF IsTree
      <4>2. rank[c] < rank[m] /\ rank[c] \in Nat /\ rank[m] \in Nat
          BY <2>2, <3>2, <4>1 DEF Ranks
      <4> QED BY <2>1, <3>2, <4>1, <4>2
    <3>3. CASE m \in {a, b}
        BY <1>1, <2>4, <3>3
    <3> QED BY <3>1, <3>2, <3>3
  <2> QED BY <2>3, <2>4 DEF Ranks
<1>4. ASSUME NEW j \in AllKeys PROVE Path(H, j) \subseteq Path(G, j)
  <2>1. PICK S : S = Path(G, j) \cap DOMAIN H
      OBVIOUS
  <2>2. /\ Root \in Path(G, j) /\ Follows(G, Path(G, j), j)
      BY <1>2, PathIs
  <2>3. Follows(H, S, j)
    <3> SUFFICES ASSUME NEW m \in S, Way(H, m, j) # Null PROVE Way(H, m, j) \in S
        BY DEF Follows
    <3>1. m # n /\ m \in DOMAIN H
        BY <2>1 DEF Leafy, Way
    <3>2. Way(G, m, j) = Way(H, m, j)
        BY <3>1 DEF Way
    <3>3. Way(H, m, j) \in DOMAIN H
        BY <3>1 DEF IsTree, ChildrenOf, Way
    <3> QED BY <2>1, <2>2, <3>2, <3>3 DEF Follows
  <2> QED BY <1>0, <2>1, <2>2, <2>3, PathIs
<1>5. n \in Path(H, lo) /\ n \in Path(H, hi)
  <2>1. n \in Path(H, H[n].key)
      BY DEF Sorted
  <2> QED BY <2>1
<1>6. a \in Path(G, lo) /\ b \in Path(G, hi)
  <2>1. n \in Path(G, lo) /\ n \in Path(G, hi)
      BY <1>4, <1>5
  <2>2. Way(G, n, lo) = a /\ Way(G, n, hi) = b
    <3>1. lo \in Int /\ hi \in Int
        BY KeysAre
    <3> QED BY <3>1 DEF Way
  <2> QED BY <1>2, <2>1, <2>2, PathIs DEF Follows
<1>7. \A m \in DOMAIN H \ F : m # n => (Leafy(G, m) <=> Leafy(H, m))
    BY DEF Leafy
<1>8. ~Leafy(G, n) /\ Leafy(G, a) /\ Leafy(G, b)
    BY DEF Leafy
<1>9. Sorted(G, F)
  <2>1. ASSUME NEW m \in DOMAIN G \ F, Leafy(G, m) PROVE m \in Path(G, G[m].key)
    <3>1. CASE m \in DOMAIN H
      <4>1. m # n /\ Leafy(H, m) /\ G[m].key = H[m].key
          BY <1>7, <1>8, <2>1, <3>1
      <4>2. m \in Path(H, H[m].key) /\ H[m].key \in AllKeys
          BY <3>1, <4>1, CellOf DEF Sorted
      <4> QED BY <1>4, <4>1, <4>2
    <3>2. CASE m \in {a, b}
        BY <1>6, <3>2
    <3> QED BY <3>1, <3>2
  <2>2. \E m \in DOMAIN G \ F : Leafy(G, m) /\ G[m].key = MaxKey
    <3>1. PICK e \in DOMAIN H \ F : Leafy(H, e) /\ H[e].key = MaxKey
        BY DEF Sorted
    <3>2. CASE e = n
      <4>1. hi = MaxKey
        <5>1. lo \in Int /\ hi \in Int /\ MaxKey \in Int /\ k \in Int /\ k < MaxKey
            BY KeysAre DEF AllKeys
        <5>2. MaxKey \in {lo, hi} /\ k \in {lo, hi}
            BY <3>1, <3>2
        <5> QED BY <5>1, <5>2
      <4> QED BY <1>0, <1>8, <4>1
    <3>3. CASE e # n
        BY <1>7, <3>1, <3>3
    <3> QED BY <3>2, <3>3
  <2> QED BY <2>1, <2>2 DEF Sorted
<1> QED BY <1>2, <1>3, <1>4, <1>9
\* G is H with the record m in the place of its child s; l, its other child,
\* and s are freed.
Shrinks(H, G, m, l, s) ==
    /\ G \in Seq(Cell) /\ DOMAIN G = DOMAIN H
    /\ G[m].key = H[s].key /\ G[m].left = H[s].left /\ G[m].right = H[s].right
    /\ \A o \in DOMAIN H \ {m} : G[o] = H[o]

\* The heap of a removal is such a G.
LEMMA ShrunkIs ==
    ASSUME NEW H, NEW F, IsTree(H, F), NEW m \in DOMAIN H, NEW l, NEW s \in DOMAIN H, NEW w \in Int,
           NEW G, G = [H EXCEPT ![m] = Rec(H[s].key, w, H[s].left, H[s].right)]
    PROVE  Shrinks(H, G, m, l, s)
<1>1. PICK c : c = Rec(H[s].key, w, H[s].left, H[s].right)
    OBVIOUS
<1>2. /\ c \in Cell /\ c.key = H[s].key /\ c.left = H[s].left /\ c.right = H[s].right
    BY <1>1, CellOf DEF Rec, Cell, AllKeys
<1>3. G = [H EXCEPT ![m] = c] /\ H \in Seq(Cell)
    BY <1>1 DEF IsTree
<1>4. G \in Seq(Cell) /\ DOMAIN G = DOMAIN H /\ G[m] = c /\ \A o \in DOMAIN H \ {m} : G[o] = H[o]
    BY <1>2, <1>3
<1> QED BY <1>2, <1>4, Zenon DEF Shrinks

\* It is a tree again, and what was on a path and is still in use still is.
LEMMA ShrinkTree ==
    ASSUME NEW H, NEW F, NEW rank, IsTree(H, F), Ranks(H, F, rank), Sorted(H, F),
           NEW m \in DOMAIN H \ F, NEW l, NEW s, {H[m].left, H[m].right} = {l, s},
           l # Null, s # Null, Leafy(H, l), H[l].key # MaxKey,
           NEW G, Shrinks(H, G, m, l, s)
    PROVE  /\ IsTree(G, F \cup {l, s}) /\ Ranks(G, F \cup {l, s}, rank)
           /\ \A j \in AllKeys : Path(H, j) \ {l, s} \subseteq Path(G, j)
           /\ Sorted(G, F \cup {l, s})
<1> USE DEF Shrinks
<1>1. /\ l \in DOMAIN H \ F /\ s \in DOMAIN H \ F /\ l # s /\ l # Root /\ s # Root
      /\ m \notin {l, s} /\ m # Root /\ ~Leafy(H, m)
      /\ rank[s] < rank[m] /\ ChildrenOf(H, m) = {l, s}
  <2>1. H[m].left # Null /\ H[m].right # Null /\ l \in ChildrenOf(H, m) /\ s \in ChildrenOf(H, m)
      BY DEF ChildrenOf
  <2>2. H[m].left # H[m].right
      BY <2>1 DEF IsTree
  <2>3. /\ l \in DOMAIN H \ F /\ s \in DOMAIN H \ F /\ l # Root /\ s # Root
      BY <2>1 DEF IsTree
  <2>4. rank[l] < rank[m] /\ rank[s] < rank[m] /\ rank[m] \in Nat
      BY <2>1 DEF Ranks
  <2>5. l # m /\ s # m
      BY <2>4
  <2> QED BY <2>1, <2>2, <2>3, <2>4, <2>5 DEF IsTree, Leafy, ChildrenOf
<1> PICK E : E = F \cup {l, s}
    OBVIOUS
<1>2. /\ ChildrenOf(G, m) = ChildrenOf(H, s)
      /\ \A o \in DOMAIN H \ {m} : ChildrenOf(G, o) = ChildrenOf(H, o)
    BY DEF ChildrenOf
\* Nothing that is in use leads to a freed record.
<1>3. ASSUME NEW o \in DOMAIN H \ F, o # m PROVE l \notin ChildrenOf(H, o) /\ s \notin ChildrenOf(H, o)
  <2>1. l \in {H[m].left, H[m].right} /\ s \in {H[m].left, H[m].right}
      OBVIOUS
  <2> QED BY <1>1, <1>3, <2>1 DEF IsTree, ChildrenOf
<1>4. IsTree(G, E)
  <2>1. /\ G \in Seq(Cell) /\ E \subseteq DOMAIN G /\ Root \in DOMAIN G \ E
        /\ G[Root].key = MaxKey /\ G[Root].left # Null /\ G[Root].right = Null
      BY <1>1 DEF IsTree
  <2>2. \A o \in DOMAIN G : ChildrenOf(G, o) \subseteq DOMAIN G
      BY <1>1, <1>2 DEF IsTree
  <2>3. ASSUME NEW o \in DOMAIN G \ E
        PROVE  /\ ChildrenOf(G, o) \subseteq DOMAIN G \ (E \cup {Root})
               /\ o # Root => (G[o].left = Null <=> G[o].right = Null)
    <3>1. CASE o = m
      <4>1. ChildrenOf(H, s) \subseteq DOMAIN H \ (F \cup {Root})
          BY <1>1 DEF IsTree
      <4>2. l \notin ChildrenOf(H, s) /\ s \notin ChildrenOf(H, s)
          BY <1>1, <1>3
      <4>3. H[s].left = Null <=> H[s].right = Null
          BY <1>1 DEF IsTree
      <4> QED BY <1>2, <3>1, <4>1, <4>2, <4>3
    <3>2. CASE o # m
      <4>1. ChildrenOf(H, o) \subseteq DOMAIN H \ (F \cup {Root})
          BY <2>3 DEF IsTree
      <4>2. o # Root => (H[o].left = Null <=> H[o].right = Null)
          BY <2>3 DEF IsTree
      <4>3. l \notin ChildrenOf(H, o) /\ s \notin ChildrenOf(H, o)
          BY <1>3, <2>3, <3>2
      <4> QED BY <1>2, <2>3, <3>2, <4>1, <4>2, <4>3
    <3> QED BY <3>1, <3>2
  <2>4. ASSUME NEW o \in DOMAIN G \ E, NEW n \in DOMAIN G \ E
        PROVE  /\ G[o].left # Null /\ G[o].left = G[n].left => o = n
               /\ G[o].right # Null /\ G[o].right = G[n].right => o = n
               /\ G[o].left # Null => G[o].left # G[n].right
    <3> DEFINE from(x) == IF x = m THEN s ELSE x
    <3>1. \A x \in DOMAIN G \ E : /\ from(x) \in DOMAIN H \ F
                                  /\ G[x].left = H[from(x)].left /\ G[x].right = H[from(x)].right
        BY <1>1
    <3>2. from(o) = from(n) => o = n
        BY <1>1
    <3>3. /\ H[from(o)].left # Null /\ H[from(o)].left = H[from(n)].left => from(o) = from(n)
          /\ H[from(o)].right # Null /\ H[from(o)].right = H[from(n)].right => from(o) = from(n)
          /\ H[from(o)].left # Null => H[from(o)].left # H[from(n)].right
      <4> HIDE DEF from
      <4> QED BY <3>1 DEF IsTree
    <3> HIDE DEF from
    <3> QED BY <3>1, <3>2, <3>3
  <2> QED BY <2>1, <2>2, <2>3, <2>4, Zenon DEF IsTree
<1>5. Ranks(G, E, rank)
  <2>1. rank \in [DOMAIN G -> Nat]
      BY DEF Ranks
  <2>2. ASSUME NEW o \in DOMAIN G \ E, NEW c \in ChildrenOf(G, o) PROVE rank[c] < rank[o]
    <3>1. CASE o = m
      <4>1. c \in ChildrenOf(H, s) /\ c \in DOMAIN H
          BY <1>1, <1>2, <2>2, <3>1 DEF IsTree
      <4>2. rank[c] < rank[s] /\ rank[c] \in Nat /\ rank[s] \in Nat /\ rank[m] \in Nat
          BY <1>1, <4>1 DEF Ranks
      <4> QED BY <1>1, <3>1, <4>2
    <3>2. CASE o # m
        BY <1>2, <2>2, <3>2 DEF Ranks
    <3> QED BY <3>1, <3>2
  <2> QED BY <2>1, <2>2 DEF Ranks
<1>6. ASSUME NEW j \in AllKeys PROVE Path(H, j) \ {l, s} \subseteq Path(G, j)
  <2>1. PICK P : P = Path(G, j)
      OBVIOUS
  <2>2. Root \in P /\ Follows(G, P, j) /\ P \subseteq DOMAIN H \ E
      BY <1>4, <2>1, PathIs
  <2>3. PICK S : S = IF m \in P THEN P \cup {l, s} ELSE P
      OBVIOUS
  <2>4. Follows(H, S, j)
    <3> SUFFICES ASSUME NEW o \in S, Way(H, o, j) # Null PROVE Way(H, o, j) \in S
        BY DEF Follows
    <3>1. CASE o = m
      <4>1. Way(H, o, j) \in {l, s}
          BY <3>1 DEF Way
      <4>2. m \in P
          BY <1>1, <2>3, <3>1
      <4> QED BY <2>3, <4>1, <4>2
    <3>2. CASE o = l
        BY <3>2 DEF Way, Leafy
    <3>3. CASE o = s
      <4>1. m \in P
          BY <1>1, <2>2, <2>3, <3>3
      <4>2. Way(G, m, j) = Way(H, s, j)
          BY DEF Way
      <4> QED BY <2>2, <2>3, <3>3, <4>1, <4>2 DEF Follows
    <3>4. CASE o \notin {l, s, m}
      <4>1. o \in P /\ o \in DOMAIN H
          BY <2>2, <2>3, <3>4
      <4>2. Way(G, o, j) = Way(H, o, j)
          BY <3>4, <4>1 DEF Way
      <4> QED BY <2>2, <2>3, <4>1, <4>2 DEF Follows
    <3> QED BY <3>1, <3>2, <3>3, <3>4
  <2>5. S \in SUBSET DOMAIN H /\ Root \in S
      BY <1>1, <2>2, <2>3
  <2>6. Path(H, j) \subseteq S
      BY <2>4, <2>5, PathIs
  <2> QED BY <2>1, <2>3, <2>6
<1>7. Sorted(G, E)
  <2>1. \A o \in DOMAIN H \ E : o # m => (Leafy(G, o) <=> Leafy(H, o)) /\ G[o].key = H[o].key
      BY DEF Leafy
  <2>2. Leafy(G, m) <=> Leafy(H, s)
      BY DEF Leafy
  <2>3. ASSUME NEW o \in DOMAIN G \ E, Leafy(G, o) PROVE o \in Path(G, G[o].key)
    <3>1. CASE o # m
      <4>1. o \in Path(H, H[o].key) /\ H[o].key \in AllKeys
          BY <2>1, <2>3, <3>1, CellOf DEF Sorted
      <4> QED BY <1>6, <2>1, <2>3, <3>1, <4>1
    <3>2. CASE o = m
      <4>1. PICK j : j = H[s].key
          OBVIOUS
      <4>2. s \in Path(H, j) /\ j \in AllKeys /\ G[m].key = j
          BY <1>1, <2>2, <2>3, <3>2, <4>1, CellOf DEF Sorted
      <4>3. PICK o2 \in Path(H, j) : ~Leafy(H, o2) /\ Way(H, o2, j) = s
          BY <1>1, <4>2, PathBefore
      <4>4. o2 \in DOMAIN H \ F /\ s \in ChildrenOf(H, o2)
          BY <1>1, <4>2, <4>3, PathIs, WayOn
      <4>5. o2 = m
          BY <1>3, <4>4
      <4> QED BY <1>1, <1>6, <3>2, <4>2, <4>3, <4>5
    <3> QED BY <3>1, <3>2
  <2>4. \E o \in DOMAIN G \ E : Leafy(G, o) /\ G[o].key = MaxKey
    <3>1. PICK e \in DOMAIN H \ F : Leafy(H, e) /\ H[e].key = MaxKey
        BY DEF Sorted
    <3>2. e # l /\ e # m
        BY <1>1, <3>1
    <3>3. CASE e = s
        BY <1>1, <2>2, <3>1, <3>3
    <3>4. CASE e # s
        BY <2>1, <3>1, <3>2, <3>4
    <3> QED BY <3>3, <3>4
  <2> QED BY <2>3, <2>4 DEF Sorted
<1> QED BY <1>4, <1>5, <1>6, <1>7
-----------------------------------------------------------------------------
(***************************************************************************)
(* What the threads hold                                                   *)
(***************************************************************************)
\* p has come to root(p), and if it holds the parent, by way of it.
Stands(p) ==
    /\ root(p) \in Record \ freed /\ root(p) \in Path(heap, key(p))
    /\ ~Shared(p) =>
          IF parent(p) = Null THEN root(p) = Root
          ELSE /\ parent(p) \in Record \ freed /\ parent(p) # root(p)
               /\ ~Leafy(heap, parent(p)) /\ Way(heap, parent(p), key(p)) = root(p)

\* The next record is the one below root(p), on the way to p's key.
Ahead(p) ==
    /\ root(p) \in Record /\ ~Leafy(heap, root(p))
    /\ at[p].next = Way(heap, root(p), key(p))

\* p has found the leaf to remove, and its sibling.
Removes(p) ==
    /\ kind(p) = "delete" /\ parent(p) # Null /\ Leafy(heap, root(p))
    /\ heap[root(p)].key = key(p)
    /\ {heap[parent(p)].left, heap[parent(p)].right} = {root(p), at[p].next}
    /\ heap[parent(p)][at[p].side] = at[p].next /\ at[p].next # Null

\* Where p is, and what it holds there.  A search has let go of root(p) when
\* it reads that record again.
Placed(p) ==
    /\ pc[p] = "idle" => held[p] = {} /\ parent(p) = Null /\ root(p) = Null
    /\ pc[p] # "idle" => todo[p] # <<>>
    /\ pc[p] \in {"lock", "call"} /\ root(p) = Null =>
          parent(p) = Null /\ at[p].next = Root
    /\ pc[p] \in {"lock", "here", "lockSibling"} => held[p] = Footing(p)
    /\ pc[p] = "lock" /\ root(p) # Null => Stands(p) /\ Ahead(p)
    /\ pc[p] = "call" =>
          held[p] = ({at[p].next} \cup IF Shared(p) THEN {} ELSE {root(p)}) \ {Null}
    /\ pc[p] = "call" /\ root(p) # Null =>
          /\ Ahead(p) /\ at[p].next # root(p)
          /\ at[p].next \in Record \ freed /\ at[p].next \in Path(heap, key(p))
          /\ ~Shared(p) => root(p) \notin freed
    /\ pc[p] \in {"here", "lockSibling", "remove"} => Stands(p)
    /\ pc[p] \in {"lockSibling", "remove"} => Removes(p)
    /\ pc[p] = "remove" => held[p] = Footing(p) \cup {at[p].next}

\* What a thread holds nobody else does, unless both search.
Exclusive ==
    \A p, q \in Workers : p # q =>
        \A n \in held[p] : n \in held[q] => Shared(p) /\ Shared(q)

\* The types that do not depend on the heap.
Labels == {"idle", "lock", "call", "here", "lockSibling", "remove"}
Locals == [parent : Nat, root : Nat, next : Nat, side : Sides]
Answers == Kinds \cup {"none", "absent", "found", "not found"}
Local ==
    /\ held \in [Threads -> SUBSET Nat] /\ held[Rebalancer] = {}
    /\ error \in {"none", "reread"}
    /\ script \in Scripts /\ phase \in DOMAIN script
    /\ todo \in [Workers -> Seq(Operation)]
    /\ pc \in [Workers -> Labels]
    /\ at \in [Workers -> Locals]
    /\ passes \in Nat
    /\ answer \in [Workers -> Answers]

IsSearchTree ==
    IsTree(heap, freed) /\ Sorted(heap, freed) /\ \E rank : Ranks(heap, freed, rank)

\* The inductive invariant, but for what was seen.
Kept == Local /\ IsSearchTree /\ Exclusive /\ \A p \in Workers : Placed(p)

\* A thread's operation.
LEMMA OperationIs ==
    ASSUME Local, NEW p \in Workers, todo[p] # <<>>
    PROVE  key(p) \in Keys /\ kind(p) \in Kinds /\ Head(todo[p]) \in Operation
           /\ key(p) \in AllKeys
<1>1. todo[p] \in Seq(Operation)
    BY DEF Local
<1>2. Head(todo[p]) \in Operation
    BY <1>1
<1> QED BY <1>2 DEF Operation, key, kind, AllKeys

\* The first tree is one.
LEMMA InitTree == Init => IsSearchTree
<1> SUFFICES ASSUME Init PROVE IsSearchTree
    OBVIOUS
<1>1. PICK c, d : c = Rec(MaxKey, 1, 2, Null) /\ d = Rec(MaxKey, 1, Null, Null)
    OBVIOUS
<1>2. /\ c \in Cell /\ c.key = MaxKey /\ c.left = 2 /\ c.right = 0
      /\ d \in Cell /\ d.key = MaxKey /\ d.left = 0 /\ d.right = 0
    BY <1>1 DEF Rec, Cell, Null
<1>3. heap = <<c, d>> /\ freed = {}
    BY <1>1 DEF Init
<1>4. heap \in Seq(Cell) /\ DOMAIN heap = {1, 2} /\ heap[1] = c /\ heap[2] = d
    BY <1>2, <1>3
<1>5. /\ heap[1].key = MaxKey /\ heap[1].left = 2 /\ heap[1].right = 0
      /\ heap[2].key = MaxKey /\ heap[2].left = 0 /\ heap[2].right = 0
    BY <1>2, <1>4
<1>6. IsTree(heap, freed)
  <2>1. ChildrenOf(heap, 1) = {2} /\ ChildrenOf(heap, 2) = {}
      BY <1>5 DEF ChildrenOf, Null
  <2>2. \A n \in DOMAIN heap : ChildrenOf(heap, n) \subseteq DOMAIN heap \ {Root}
      BY <1>4, <2>1 DEF Root
  <2>3. \A m, n \in DOMAIN heap :
          /\ heap[m].left # Null /\ heap[m].left = heap[n].left => m = n
          /\ heap[m].right # Null /\ heap[m].right = heap[n].right => m = n
          /\ heap[m].left # Null => heap[m].left # heap[n].right
      BY <1>4, <1>5 DEF Null
  <2>4. \A n \in DOMAIN heap : n # Root => (heap[n].left = Null <=> heap[n].right = Null)
      BY <1>4, <1>5 DEF Root
  <2>5. heap[Root].key = MaxKey /\ heap[Root].left # Null /\ heap[Root].right = Null
      BY <1>5 DEF Root, Null
  <2> QED BY <1>3, <1>4, <2>2, <2>3, <2>4, <2>5 DEF IsTree, Root
<1>7. Ranks(heap, freed, [n \in DOMAIN heap |-> IF n = 1 THEN 1 ELSE 0])
    BY <1>4, <1>5 DEF Ranks, ChildrenOf, Null
<1>8. Sorted(heap, freed)
  <2>1. ~Leafy(heap, 1) /\ Leafy(heap, 2)
      BY <1>5 DEF Leafy, Null
  <2>2. MaxKey \in AllKeys
      BY DEF AllKeys
  <2>3. Root \in Path(heap, MaxKey) /\ Way(heap, Root, MaxKey) \in Path(heap, MaxKey)
      BY <1>6, <2>1, <2>2, PathIs DEF Root
  <2>4. Way(heap, Root, MaxKey) = 2
      BY <1>5, KeysAre DEF Way, Root
  <2> QED BY <1>3, <1>4, <1>5, <2>1, <2>3, <2>4 DEF Sorted
<1> QED BY <1>6, <1>7, <1>8 DEF IsSearchTree

\* The program starts so, when its rebalancing thread does nothing.
LEMMA InitKept == Init => Kept
<1> SUFFICES ASSUME Init PROVE Kept
    OBVIOUS
<1>1. IsSearchTree
    BY InitTree
<1>2. script \in Seq(Phase) /\ script # <<>>
    BY LockTreeAssumption DEF Init
<1>3. 1 \in DOMAIN script /\ script[1] \in Phase
    BY <1>2
<1>4. script[1].work \in [Workers -> Seq(Operation)]
    BY <1>3 DEF Phase
<1>5. Local
    BY <1>3, <1>4 DEF Local, Init, Threads, Labels, Locals, NoWhere, Null, Sides, Answers
<1>6. \A p \in Workers : pc[p] = "idle" /\ held[p] = {} /\ at[p] = NoWhere
    BY DEF Init, Threads
<1>7. \A p \in Workers : Placed(p)
    BY <1>6 DEF Placed, NoWhere, parent, root
<1> QED BY <1>1, <1>5, <1>6, <1>7 DEF Kept, Exclusive

\* What other threads do leaves p where it is, if they change only records of
\* a set X that p does not hold.
LEMMA Undisturbed ==
    ASSUME Kept, NEW p \in Workers, NEW X,
           \A m \in Record \ X : heap'[m] = heap[m],
           Record \subseteq Record', freed' \subseteq freed \cup X,
           \A j \in AllKeys : Path(heap, j) \ X \subseteq Path(heap', j),
           held[p] \cap X = {},
           pc[p] = "call" /\ root(p) # Null => heap'[root(p)] = heap[root(p)],
           pc'[p] = pc[p], at'[p] = at[p], todo'[p] = todo[p], held'[p] = held[p]
    PROVE  Placed(p)'
<1>1. Placed(p) /\ Local
    BY DEF Kept
<1>2. /\ root(p)' = root(p) /\ parent(p)' = parent(p) /\ key(p)' = key(p) /\ kind(p)' = kind(p)
      /\ Shared(p)' = Shared(p)
    BY DEF root, parent, key, kind, Shared
<1>3. Footing(p)' = Footing(p)
    BY <1>2 DEF Footing
<1>4. pc[p] # "idle" => key(p) \in AllKeys
    BY <1>1, OperationIs DEF Placed
<1>5. ASSUME NEW m \in Record, heap'[m] = heap[m], NEW k
      PROVE  /\ Leafy(heap', m) = Leafy(heap, m) /\ Way(heap', m, k) = Way(heap, m, k)
             /\ m \in Record'
    BY <1>5 DEF Leafy, Way
<1>6. ASSUME Stands(p), Footing(p) \subseteq held[p], pc[p] # "idle" PROVE Stands(p)'
  <2>1. root(p) \in Record \ freed /\ root(p) \in Path(heap, key(p)) /\ root(p) # Null
      BY <1>6, CellOf DEF Stands, Kept, IsSearchTree, Record
  <2>2. root(p) \notin X
      BY <1>6, <2>1 DEF Footing
  <2>3. root(p) \in Record' \ freed' /\ root(p) \in Path(heap', key(p))
      BY <1>4, <1>6, <2>1, <2>2
  <2>4. ASSUME ~Shared(p), parent(p) # Null
        PROVE  /\ parent(p) \in Record' \ freed' /\ parent(p) # root(p)
               /\ ~Leafy(heap', parent(p)) /\ Way(heap', parent(p), key(p)) = root(p)
    <3>1. parent(p) \in Record \ freed /\ parent(p) \notin X
        BY <1>6, <2>4 DEF Footing, Stands
    <3> QED BY <1>5, <1>6, <2>4, <3>1 DEF Stands
  <2>5. ~Shared(p) /\ parent(p) = Null => root(p) = Root
      BY <1>6 DEF Stands
  <2> QED BY <1>2, <2>3, <2>4, <2>5 DEF Stands
<1>7. ASSUME Ahead(p), heap'[root(p)] = heap[root(p)] PROVE Ahead(p)'
    BY <1>2, <1>5, <1>7 DEF Ahead
<1>8. ASSUME Stands(p), Footing(p) \subseteq held[p]
      PROVE  /\ heap'[root(p)] = heap[root(p)]
             /\ ~Shared(p) /\ parent(p) # Null => heap'[parent(p)] = heap[parent(p)]
  <2>1. root(p) \in Record /\ root(p) # Null
      BY <1>8, CellOf DEF Stands, Kept, IsSearchTree, Record
  <2> QED BY <1>8, <2>1 DEF Stands, Footing
<1>9. ASSUME Removes(p), Stands(p), Footing(p) \subseteq held[p] PROVE Removes(p)'
  <2>1. ~Shared(p) /\ parent(p) # Null
      BY <1>9 DEF Removes, Shared
  <2>2. heap'[root(p)] = heap[root(p)] /\ heap'[parent(p)] = heap[parent(p)]
      BY <1>8, <1>9, <2>1
  <2> QED BY <1>2, <1>9, <2>2 DEF Removes, Leafy
<1>10. pc[p] \in {"lock", "here", "lockSibling", "remove"} => Footing(p) \subseteq held[p]
    BY <1>1 DEF Placed
<1>11. ASSUME pc[p] = "call", root(p) # Null
       PROVE  /\ Ahead(p)' /\ at[p].next # root(p)
              /\ at[p].next \in Record' \ freed' /\ at[p].next \in Path(heap', key(p))
              /\ ~Shared(p) => root(p) \notin freed'
  <2>1. /\ Ahead(p) /\ at[p].next # root(p) /\ at[p].next \in Record \ freed
        /\ at[p].next \in Path(heap, key(p)) /\ (~Shared(p) => root(p) \notin freed)
      BY <1>1, <1>11 DEF Placed
  <2>2. at[p].next \notin X /\ (~Shared(p) => root(p) \notin X)
    <3>1. held[p] = ({at[p].next} \cup IF Shared(p) THEN {} ELSE {root(p)}) \ {Null}
        BY <1>1, <1>11 DEF Placed
    <3>2. at[p].next # Null
        BY <2>1, CellOf DEF Kept, IsSearchTree, Record
    <3> QED BY <1>11, <3>1, <3>2
  <2> QED BY <1>4, <1>7, <1>11, <2>1, <2>2
<1> QED
  <2>1. pc[p] = "lock" /\ root(p) # Null => Stands(p)' /\ Ahead(p)'
      BY <1>1, <1>6, <1>7, <1>8, <1>10 DEF Placed
  <2>2. pc[p] \in {"here", "lockSibling", "remove"} => Stands(p)'
      BY <1>1, <1>6, <1>10 DEF Placed
  <2>3. pc[p] \in {"lockSibling", "remove"} => Removes(p)'
      BY <1>1, <1>9, <1>10 DEF Placed
  <2> QED BY <1>1, <1>2, <1>3, <1>11, <2>1, <2>2, <2>3 DEF Placed
-----------------------------------------------------------------------------
(***************************************************************************)
(* The steps of a thread                                                   *)
(***************************************************************************)
\* The other threads do nothing.
Steady(p) == \A q \in Workers \ {p} :
    pc'[q] = pc[q] /\ at'[q] = at[q] /\ todo'[q] = todo[q] /\ held'[q] = held[q]

\* What a step of p must do, if it does not change the tree.
LEMMA StepKeeps ==
    ASSUME Kept, NEW p \in Workers, UNCHANGED <<heap, freed>>, Steady(p), Local', Placed(p)',
           \/ held'[p] = {}
           \/ todo'[p] = todo[p] /\ \A n \in held'[p] : n \in held[p] \/ Free(p, n)
    PROVE  Kept'
<1>1. IsSearchTree'
    BY DEF Kept, IsSearchTree
<1>2. ASSUME NEW q \in Workers \ {p} PROVE Placed(q)'
  <2>1. /\ pc'[q] = pc[q] /\ at'[q] = at[q] /\ todo'[q] = todo[q] /\ held'[q] = held[q]
      BY DEF Steady
  <2>2. /\ \A m \in Record \ {} : heap'[m] = heap[m]
        /\ Record \subseteq Record' /\ freed' \subseteq freed \cup {}
        /\ \A j \in AllKeys : Path(heap, j) \ {} \subseteq Path(heap', j)
        /\ held[q] \cap {} = {} /\ heap'[root(q)] = heap[root(q)]
      BY DEF Record
  <2> QED BY <2>1, <2>2, Undisturbed, Zenon
<1>3. Exclusive'
  <2> SUFFICES ASSUME NEW q \in Workers \ {p}, NEW n, n \in held'[p], n \in held'[q]
               PROVE  Shared(p)' /\ Shared(q)'
    <3>1. \A r, q \in Workers \ {p} : r # q =>
             \A n \in held'[r] : n \in held'[q] => Shared(r)' /\ Shared(q)'
        BY DEF Kept, Exclusive, Steady, Shared, kind
    <3> QED BY <3>1 DEF Exclusive
  <2>1. n \in held[q] /\ todo'[q] = todo[q] /\ todo'[p] = todo[p] /\ (n \in held[p] \/ Free(p, n))
      BY DEF Steady
  <2>2. Shared(p) /\ Shared(q)
      BY <2>1 DEF Kept, Exclusive, Free, Threads
  <2> QED BY <2>1, <2>2 DEF Shared, kind
<1> QED BY <1>1, <1>2, <1>3 DEF Kept

\* The fields of a thread's locals after an assignment.
LEMMA Assigned ==
    ASSUME at \in [Workers -> Locals], NEW p \in Workers, NEW a \in Nat, NEW b \in Nat,
           NEW s \in Sides
    PROVE  /\ [at EXCEPT ![p].next = a] \in [Workers -> Locals]
           /\ [at EXCEPT ![p].next = a][p] = [at[p] EXCEPT !.next = a]
           /\ [at EXCEPT ![p].parent = a, ![p].root = b] \in [Workers -> Locals]
           /\ [at EXCEPT ![p].parent = a, ![p].root = b][p] = [at[p] EXCEPT !.parent = a, !.root = b]
           /\ [at EXCEPT ![p].side = s, ![p].next = b] \in [Workers -> Locals]
           /\ [at EXCEPT ![p].side = s, ![p].next = b][p] = [at[p] EXCEPT !.side = s, !.next = b]
           /\ [at EXCEPT ![p] = NoWhere] \in [Workers -> Locals]
           /\ [at EXCEPT ![p] = NoWhere][p] = NoWhere
<1> PICK l : l = at[p]
    OBVIOUS
<1>1. l \in Locals /\ NoWhere \in Locals
    BY DEF NoWhere, Locals, Null, Sides
<1>2. /\ [l EXCEPT !.next = a] \in Locals
      /\ [l EXCEPT !.parent = a] \in Locals /\ [l EXCEPT !.side = s] \in Locals
    BY <1>1 DEF Locals
<1>3. /\ [[l EXCEPT !.parent = a] EXCEPT !.root = b] \in Locals
      /\ [[l EXCEPT !.side = s] EXCEPT !.next = b] \in Locals
  <2>1. ASSUME NEW m \in Locals PROVE [m EXCEPT !.root = b] \in Locals /\ [m EXCEPT !.next = b] \in Locals
      BY DEF Locals
  <2> QED BY <1>2, <2>1
<1> QED BY <1>1, <1>2, <1>3

\* What p holds when it does not search.
LEMMA FootingIs ==
    ASSUME Kept, NEW p \in Workers, Stands(p)
    PROVE  /\ root(p) # Null /\ root(p) \in Footing(p) /\ Footing(p) \subseteq Record \ freed
           /\ Shared(p) => Footing(p) = {root(p)}
           /\ ~Shared(p) => Footing(p) = {parent(p), root(p)} \ {Null}
<1>1. root(p) # Null /\ root(p) \in Record \ freed
    BY CellOf DEF Stands, Kept, IsSearchTree, Record
<1> QED BY <1>1 DEF Stands, Footing

\* A step that leads on.
LEMMA BeginKept == ASSUME Kept, NEW p \in Workers, Begin(p) PROVE Kept'
<1>1. Local /\ Placed(p) /\ pc[p] = "idle" /\ todo[p] # <<>>
    BY DEF Kept, Begin, At
<1>2. /\ UNCHANGED <<heap, held, freed, error, todo, script, phase, passes, stack>>
      /\ pc' = [pc EXCEPT ![p] = "lock"] /\ at' = [at EXCEPT ![p].next = Root]
      /\ answer' = [answer EXCEPT ![p] = "none"]
    BY DEF Begin, Goto, Others, rebalVars
<1>3. Root \in Nat /\ at \in [Workers -> Locals] /\ at[p] \in Locals
    BY <1>1 DEF Root, Local
<1>4. at' \in [Workers -> Locals] /\ at'[p] = [at[p] EXCEPT !.next = Root]
    BY <1>2, <1>3, Assigned DEF Sides
<1>5. /\ parent(p)' = Null /\ root(p)' = Null /\ at'[p].next = Root
      /\ pc'[p] = "lock" /\ held'[p] = {}
    BY <1>1, <1>2, <1>3, <1>4 DEF Placed, parent, root, Locals, Local
<1>6. Placed(p)'
    BY <1>1, <1>2, <1>5 DEF Placed, Footing
<1>7. Steady(p)
    BY <1>1, <1>2 DEF Steady, Local
<1>8. Local'
  <2>1. "none" \in Answers /\ "lock" \in Labels
      BY Zenon DEF Answers, Labels
  <2>2. pc' \in [Workers -> Labels] /\ answer' \in [Workers -> Answers]
      BY <1>1, <1>2, <2>1 DEF Local
  <2> QED BY <1>1, <1>2, <1>4, <2>2, Zenon DEF Local
<1> QED BY <1>2, <1>5, <1>6, <1>7, <1>8, StepKeeps

\* A step of p that changes its place and its locals only, and its locks.
LEMMA LocalAfter ==
    ASSUME Local, NEW p \in Workers, NEW label \in Labels, NEW S \in SUBSET Nat,
           pc' = [pc EXCEPT ![p] = label], at' \in [Workers -> Locals],
           held' = [held EXCEPT ![p] = S], Rebalancer # p,
           UNCHANGED <<error, script, phase, todo, passes, answer>>
    PROVE  Local'
<1>1. pc' \in [Workers -> Labels]
    BY DEF Local
<1>2. held' \in [Threads -> SUBSET Nat] /\ held'[Rebalancer] = {}
    BY DEF Local, Threads
<1> QED BY <1>1, <1>2, Zenon DEF Local

\* The record below one in use that is no leaf, on the way to a key.
LEMMA Below ==
    ASSUME IsSearchTree, NEW n \in Record \ freed, ~Leafy(heap, n), NEW k \in AllKeys,
           NEW c, c = Way(heap, n, k)
    PROVE  /\ c \in Record \ freed /\ c # n /\ c # Null /\ c # Root /\ c \in ChildrenOf(heap, n)
           /\ n \in Path(heap, k) => c \in Path(heap, k)
           /\ \A m \in Record \ freed : n \in ChildrenOf(heap, m) => c # m /\ n # m
<1> PICK rank : Ranks(heap, freed, rank)
    BY DEF IsSearchTree
<1>1. /\ c \in Record \ freed /\ c # Null /\ c # Root /\ c \in ChildrenOf(heap, n)
    BY WayOn DEF IsSearchTree, Record
<1>2. rank[c] \in Nat /\ rank[n] \in Nat /\ rank[c] < rank[n]
    BY <1>1 DEF Ranks, Record
<1>3. n \in Path(heap, k) => c \in Path(heap, k)
    BY <1>1, PathIs DEF IsSearchTree, Record
<1>4. ASSUME NEW m \in Record \ freed, n \in ChildrenOf(heap, m) PROVE c # m /\ n # m
  <2>1. rank[n] < rank[m] /\ rank[m] \in Nat
      BY <1>4 DEF Ranks, Record
  <2> QED BY <1>2, <2>1
<1> QED BY <1>1, <1>2, <1>3, <1>4

\* The next record is in use, and p does not hold it yet.
LEMMA NextIs ==
    ASSUME Kept, NEW p \in Workers, pc[p] = "lock", root(p) # Null
    PROVE  /\ at[p].next \in Record \ freed /\ at[p].next # Null
           /\ at[p].next \in Path(heap, key(p)) /\ at[p].next \notin Footing(p)
<1>1. Stands(p) /\ Ahead(p) /\ todo[p] # <<>> /\ Local /\ IsSearchTree
    BY DEF Kept, Placed
<1>2. key(p) \in AllKeys
    BY <1>1, OperationIs
<1>3. root(p) \in Record \ freed /\ ~Leafy(heap, root(p)) /\ root(p) \in Path(heap, key(p))
      /\ at[p].next = Way(heap, root(p), key(p))
    BY <1>1 DEF Stands, Ahead
<1>4. /\ at[p].next \in Record \ freed /\ at[p].next # root(p) /\ at[p].next # Null
      /\ at[p].next \in Path(heap, key(p))
    BY <1>1, <1>2, <1>3, Below
<1>5. ~Shared(p) /\ parent(p) # Null => at[p].next # parent(p)
  <2> SUFFICES ASSUME ~Shared(p), parent(p) # Null PROVE at[p].next # parent(p)
      OBVIOUS
  <2>1. /\ parent(p) \in Record \ freed /\ ~Leafy(heap, parent(p))
        /\ root(p) = Way(heap, parent(p), key(p))
      BY <1>1 DEF Stands
  <2>2. root(p) \in ChildrenOf(heap, parent(p))
      BY <1>1, <1>2, <2>1, Below
  <2> QED BY <1>1, <1>2, <1>3, <2>1, <2>2, Below
<1> QED BY <1>4, <1>5 DEF Footing

\* A thread that locks the child it has chosen: it lets its grandparent go, and
\* nothing is changed that another stands on.
LEMMA LockNextKept == ASSUME Kept, NEW p \in Workers, LockNext(p) PROVE Kept'
<1>1. Local /\ Placed(p) /\ pc[p] = "lock" /\ IsSearchTree /\ todo[p] # <<>>
    BY DEF Kept, LockNext, At, Placed
<1> PICK next : next = at[p].next
    OBVIOUS
<1>2. held[p] = Footing(p) /\ key(p) \in AllKeys
    BY <1>1, OperationIs DEF Placed
<1>3. /\ next \in Record \ freed /\ next # Null /\ next \notin held[p]
      /\ Behind(p) \ {Null} \subseteq held[p] \ freed
  <2>1. CASE root(p) = Null
    <3>1. parent(p) = Null /\ next = Root
        BY <1>1, <2>1 DEF Placed
    <3>2. Root \in Record \ freed /\ Root # Null
        BY <1>1 DEF IsSearchTree, IsTree, Record, Root, Null
    <3> QED BY <1>2, <2>1, <3>1, <3>2 DEF Footing, Behind
  <2>2. CASE root(p) # Null
    <3>1. Stands(p)
        BY <1>1, <2>2 DEF Placed
    <3> QED BY <1>1, <1>2, <2>2, <3>1, NextIs, FootingIs DEF Behind
  <2> QED BY <2>1, <2>2
<1>4. /\ Free(p, next) /\ held' = [held EXCEPT ![p] = (@ \cup {next}) \ Behind(p)]
      /\ pc' = [pc EXCEPT ![p] = "call"]
      /\ UNCHANGED <<error, heap, freed, todo, at, answer, script, phase, passes, stack>>
    BY <1>3 DEF LockNext, Lock, Valid, Goto, Others, rebalVars
<1>5. p # Rebalancer /\ p \in Threads
    BY LockTreeAssumption DEF Threads
<1>6. pc'[p] = "call" /\ held'[p] = (held[p] \cup {next}) \ Behind(p)
    BY <1>1, <1>4, <1>5 DEF Local
<1>7. held'[p] = ({next} \cup IF Shared(p) THEN {} ELSE {root(p)}) \ {Null}
  <2>1. CASE root(p) = Null
    <3>1. parent(p) = Null
        BY <1>1, <2>1 DEF Placed
    <3> QED BY <1>2, <1>3, <1>6, <2>1, <3>1 DEF Footing, Behind
  <2>2. CASE root(p) # Null
    <3>1. Stands(p)
        BY <1>1, <2>2 DEF Placed
    <3>2. ~Shared(p) => parent(p) # root(p)
        BY <2>2, <3>1 DEF Stands
    <3>3. CASE Shared(p)
        BY <1>2, <1>3, <1>6, <3>1, <3>3, FootingIs DEF Behind
    <3>4. CASE ~Shared(p)
      <4>1. held[p] = {parent(p), root(p)} \ {Null}
          BY <1>2, <3>1, <3>4, FootingIs
      <4>2. held'[p] = {next, root(p)} \ {Null}
          BY <1>3, <1>6, <3>2, <3>4, <4>1, <2>2 DEF Behind
      <4> QED BY <3>4, <4>2
    <3> QED BY <3>3, <3>4
  <2> QED BY <2>1, <2>2
<1>8. /\ parent(p)' = parent(p) /\ root(p)' = root(p) /\ at'[p] = at[p] /\ todo'[p] = todo[p]
      /\ Shared(p)' = Shared(p) /\ key(p)' = key(p)
    BY <1>4 DEF parent, root, Shared, kind, key
<1>9. Placed(p)'
  <2>1. root(p) = Null => parent(p) = Null /\ next = Root
      BY <1>1 DEF Placed
  <2>2. ASSUME root(p) # Null
        PROVE  /\ Ahead(p) /\ next # root(p) /\ next \in Path(heap, key(p))
               /\ root(p) \notin freed
    <3>1. Stands(p) /\ Ahead(p)
        BY <1>1, <2>2 DEF Placed
    <3> QED BY <1>1, <1>2, <2>2, <3>1, NextIs, FootingIs DEF Stands
  <2>3. root(p) # Null => Ahead(p)'
      BY <1>4, <1>8, <2>2 DEF Ahead, Record
  <2> QED BY <1>1, <1>3, <1>4, <1>6, <1>7, <1>8, <2>1, <2>2, <2>3 DEF Placed, Record
<1>10. Steady(p)
    BY <1>1, <1>4 DEF Steady, Local, Threads
<1>11. Local'
  <2>1. (held[p] \cup {next}) \ Behind(p) \in SUBSET Nat
      BY <1>1, <1>3, <1>5, CellOf DEF Local, IsSearchTree, Record
  <2>2. "call" \in Labels
      BY DEF Labels
  <2>3. at' \in [Workers -> Locals]
      BY <1>1, <1>4 DEF Local
  <2> QED BY <1>1, <1>4, <1>5, <2>1, <2>2, <2>3, LocalAfter
<1>12. todo'[p] = todo[p] /\ \A n \in held'[p] : n \in held[p] \/ Free(p, n)
    BY <1>4, <1>6
<1> QED BY <1>4, <1>9, <1>10, <1>11, <1>12, StepKeeps

\* A thread that reads the pointer to the locked child again finds that child.
LEMMA CallKept == ASSUME Kept, NEW p \in Workers, Call(p) PROVE Kept'
<1>1. Local /\ Placed(p) /\ pc[p] = "call" /\ IsSearchTree /\ todo[p] # <<>>
    BY DEF Kept, Call, At, Placed
<1> PICK next : next = at[p].next
    OBVIOUS
<1>2. key(p) \in AllKeys /\ p # Rebalancer /\ p \in Threads /\ at[p] \in Locals
    BY <1>1, OperationIs, LockTreeAssumption DEF Threads, Local
<1>3. held[p] = ({next} \cup IF Shared(p) THEN {} ELSE {root(p)}) \ {Null}
    BY <1>1 DEF Placed
\* The child that is read again is the one that was locked.
<1>4. IF root(p) = Null THEN next = Root ELSE next = heap[root(p)][Toward(root(p), key(p))]
  <2>1. root(p) = Null => next = Root
      BY <1>1 DEF Placed
  <2>2. root(p) # Null => Ahead(p)
      BY <1>1 DEF Placed
  <2> QED BY <1>1, <2>1, <2>2, Turn DEF Ahead, IsSearchTree
<1>5. /\ pc' = [pc EXCEPT ![p] = "here"]
      /\ at' = [at EXCEPT ![p].parent = root(p), ![p].root = next]
      /\ UNCHANGED <<heap, held, freed, error, todo, answer, script, phase, passes, stack>>
    BY <1>4 DEF Call, Goto, Others, rebalVars
<1>6. root(p) \in Nat /\ next \in Nat /\ at \in [Workers -> Locals] /\ "left" \in Sides
    BY <1>1, <1>2 DEF Local, Locals, root, Sides
<1>7. at' \in [Workers -> Locals] /\ at'[p] = [at[p] EXCEPT !.parent = root(p), !.root = next]
  <2>1. /\ [at EXCEPT ![p].parent = root(p), ![p].root = next] \in [Workers -> Locals]
        /\ [at EXCEPT ![p].parent = root(p), ![p].root = next][p]
              = [at[p] EXCEPT !.parent = root(p), !.root = next]
      BY <1>6, Assigned, Zenon
  <2> QED BY <1>5, <2>1, Zenon
<1>8. /\ parent(p)' = root(p) /\ root(p)' = next /\ pc'[p] = "here" /\ held'[p] = held[p]
      /\ Shared(p)' = Shared(p) /\ key(p)' = key(p) /\ todo'[p] = todo[p]
    BY <1>1, <1>2, <1>5, <1>7 DEF Local, Locals, parent, root, Shared, kind, key
<1>9. Footing(p)' = held[p]
    BY <1>3, <1>8 DEF Footing
<1>10. Stands(p)'
  <2>1. CASE root(p) = Null
    <3>1. Root \in Record \ freed /\ Root \in Path(heap, key(p))
        BY <1>1, <1>2, PathIs DEF IsSearchTree, IsTree, Record
    <3> QED BY <1>4, <1>5, <1>8, <2>1, <3>1 DEF Stands, Record
  <2>2. CASE root(p) # Null
    <3>1. /\ Ahead(p) /\ next # root(p) /\ next \in Record \ freed /\ next \in Path(heap, key(p))
          /\ ~Shared(p) => root(p) \notin freed
        BY <1>1, <2>2 DEF Placed
    <3>2. root(p) \in Record /\ ~Leafy(heap, root(p)) /\ next = Way(heap, root(p), key(p))
        BY <3>1 DEF Ahead
    <3> QED BY <1>5, <1>8, <2>2, <3>1, <3>2 DEF Stands, Record
  <2> QED BY <2>1, <2>2
<1>11. Placed(p)'
    BY <1>1, <1>8, <1>9, <1>10 DEF Placed
<1>12. Steady(p)
    BY <1>1, <1>5 DEF Steady, Local, Threads
<1>13. Local'
  <2>1. "here" \in Labels /\ held[p] \in SUBSET Nat /\ held' = [held EXCEPT ![p] = held[p]]
      BY <1>1, <1>2, <1>5 DEF Labels, Local
  <2> QED BY <1>1, <1>2, <1>5, <1>7, <2>1, LocalAfter
<1>14. todo'[p] = todo[p] /\ \A n \in held'[p] : n \in held[p] \/ Free(p, n)
    BY <1>8
<1> QED BY <1>5, <1>11, <1>12, <1>13, <1>14, StepKeeps

\* A search meets a freed record: nothing but error changes.
LEMMA RereadKept == ASSUME Kept, NEW p \in Workers, Reread(p) PROVE Kept'
<1>1. /\ UNCHANGED <<heap, held, freed, script, phase, todo, pc, at, answer, passes>>
      /\ error' = "reread"
    BY DEF Reread, Fail, callVars, rebalVars
<1>2. Local'
    BY <1>1 DEF Kept, Local
<1>3. IsSearchTree'
    BY <1>1 DEF Kept, IsSearchTree
<1>4. Exclusive'
    BY <1>1 DEF Kept, Exclusive, Shared, kind
<1>5. ASSUME NEW q \in Workers PROVE Placed(q)'
  <2>1. /\ pc'[q] = pc[q] /\ at'[q] = at[q] /\ todo'[q] = todo[q] /\ held'[q] = held[q]
      BY <1>1
  <2>2. /\ \A m \in Record \ {} : heap'[m] = heap[m]
        /\ Record \subseteq Record' /\ freed' \subseteq freed \cup {}
        /\ \A j \in AllKeys : Path(heap, j) \ {} \subseteq Path(heap', j)
        /\ held[q] \cap {} = {} /\ heap'[root(q)] = heap[root(q)]
      BY <1>1 DEF Record
  <2> QED BY <2>1, <2>2, Undisturbed, Zenon
<1> QED BY <1>2, <1>3, <1>4, <1>5 DEF Kept

\* A thread at an internal record chooses the child on the way to its key.
LEMMA DownKept == ASSUME Kept, NEW p \in Workers, Down(p) PROVE Kept'
<1>1. /\ Local /\ Placed(p) /\ pc[p] = "here" /\ IsSearchTree /\ todo[p] # <<>>
      /\ Stands(p) /\ held[p] = Footing(p)
    BY DEF Kept, Down, At, Placed
<1>2. key(p) \in AllKeys /\ p # Rebalancer /\ p \in Threads /\ at[p] \in Locals
    BY <1>1, OperationIs, LockTreeAssumption DEF Threads, Local
<1>3. root(p) \in Record \ freed /\ root(p) # Null
    BY <1>1, FootingIs DEF Stands
<1> PICK next : next = Way(heap, root(p), key(p))
    OBVIOUS
<1>4. heap[root(p)][Toward(root(p), key(p))] = next /\ (IsLeaf(root(p)) <=> Leafy(heap, root(p)))
    BY <1>1, <1>3, Turn DEF IsSearchTree
<1>5. /\ ~Leafy(heap, root(p))
      /\ pc' = [pc EXCEPT ![p] = "lock"] /\ at' = [at EXCEPT ![p].next = next]
      /\ UNCHANGED <<heap, held, freed, error, todo, answer, script, phase, passes, stack>>
    BY <1>3, <1>4 DEF Down, Valid, Goto, Others, rebalVars
<1>6. next \in Nat /\ at \in [Workers -> Locals] /\ "left" \in Sides
  <2>1. next \in Record
      BY <1>1, <1>2, <1>3, <1>5, Below
  <2> QED BY <1>1, <2>1, CellOf DEF IsSearchTree, Record, Local, Sides
<1>7. at' \in [Workers -> Locals] /\ at'[p] = [at[p] EXCEPT !.next = next]
  <2>1. /\ [at EXCEPT ![p].next = next] \in [Workers -> Locals]
        /\ [at EXCEPT ![p].next = next][p] = [at[p] EXCEPT !.next = next]
      BY <1>6, Assigned, Zenon
  <2> QED BY <1>5, <2>1, Zenon
<1>8. /\ parent(p)' = parent(p) /\ root(p)' = root(p) /\ at'[p].next = next
      /\ pc'[p] = "lock" /\ held'[p] = held[p]
      /\ Shared(p)' = Shared(p) /\ key(p)' = key(p) /\ todo'[p] = todo[p]
    BY <1>1, <1>2, <1>5, <1>7 DEF Local, Locals, parent, root, Shared, kind, key
<1>9. Stands(p)' /\ Ahead(p)' /\ Footing(p)' = Footing(p)
    BY <1>1, <1>3, <1>5, <1>8 DEF Stands, Ahead, Footing, Record
<1>10. Placed(p)'
    BY <1>1, <1>3, <1>8, <1>9 DEF Placed
<1>11. Steady(p)
    BY <1>1, <1>5 DEF Steady, Local, Threads
<1>12. Local'
  <2>1. "lock" \in Labels /\ held[p] \in SUBSET Nat /\ held' = [held EXCEPT ![p] = held[p]]
      BY <1>1, <1>2, <1>5 DEF Labels, Local
  <2> QED BY <1>1, <1>2, <1>5, <1>7, <2>1, LocalAfter
<1>13. todo'[p] = todo[p] /\ \A n \in held'[p] : n \in held[p] \/ Free(p, n)
    BY <1>8
<1> QED BY <1>5, <1>10, <1>11, <1>12, <1>13, StepKeeps

\* An operation that is over has let go of everything.
LEMMA ReturnedIs ==
    ASSUME Kept, NEW p \in Workers, todo[p] # <<>>, NEW release, held[p] \subseteq release,
           NEW result \in Answers, UNCHANGED <<error, script, phase, passes>>,
           held' = [held EXCEPT ![p] = @ \ release], pc' = [pc EXCEPT ![p] = "idle"],
           at' = [at EXCEPT ![p] = NoWhere], todo' = [todo EXCEPT ![p] = Tail(@)],
           answer' = [answer EXCEPT ![p] = result]
    PROVE  held'[p] = {} /\ Placed(p)' /\ Steady(p) /\ Local'
<1>1. Local /\ p \in Threads /\ p # Rebalancer
    BY LockTreeAssumption DEF Kept, Threads
<1>2. held'[p] = {} /\ held' \in [Threads -> SUBSET Nat] /\ held'[Rebalancer] = {}
    BY <1>1 DEF Local, Threads
<1>3. pc'[p] = "idle" /\ pc' \in [Workers -> Labels]
    BY <1>1 DEF Local, Labels
<1>4. at'[p] = NoWhere /\ at' \in [Workers -> Locals]
    BY <1>1, Zenon DEF Local, NoWhere, Locals, Null, Sides
<1>5. todo' \in [Workers -> Seq(Operation)]
  <2>1. todo \in [Workers -> Seq(Operation)] /\ todo[p] \in Seq(Operation)
      BY <1>1 DEF Local
  <2>2. Tail(todo[p]) \in Seq(Operation)
      BY <2>1
  <2> QED BY <2>1, <2>2
<1>6. answer' \in [Workers -> Answers]
    BY <1>1 DEF Local
<1>7. Local'
    BY <1>1, <1>2, <1>3, <1>4, <1>5, <1>6, Zenon DEF Local
<1>8. Steady(p)
    BY <1>1 DEF Steady, Local, Threads
<1>9. parent(p)' = Null /\ root(p)' = Null
    BY <1>4 DEF parent, root, NoWhere
<1>10. Placed(p)'
    BY <1>2, <1>3, <1>9 DEF Placed
<1> QED BY <1>2, <1>7, <1>8, <1>10

\* An operation that has come to a leaf.
LEMMA AtLeafIs ==
    ASSUME Kept, NEW p \in Workers, NEW what, AtLeaf(p, what)
    PROVE  /\ Local /\ IsSearchTree /\ Placed(p) /\ todo[p] # <<>> /\ key(p) \in Keys /\ key(p) \in AllKeys
           /\ kind(p) = what /\ Stands(p) /\ held[p] = Footing(p) /\ held[p] \subseteq Record \ freed
           /\ root(p) \in Record \ freed /\ root(p) # Null /\ Leafy(heap, root(p))
           /\ root(p) \in Path(heap, key(p))
           /\ (Shared(p) <=> what = "get")
           /\ what # "get" => /\ held[p] = {parent(p), root(p)} \ {Null}
                              /\ parent(p) # Null /\ parent(p) \in Record \ freed
                              /\ ~Leafy(heap, parent(p)) /\ parent(p) # root(p)
                              /\ Way(heap, parent(p), key(p)) = root(p)
           /\ what = "get" => held[p] = {root(p)}
<1>1. /\ Local /\ Placed(p) /\ pc[p] = "here" /\ IsSearchTree /\ kind(p) = what /\ IsLeaf(root(p))
    BY DEF Kept, AtLeaf, At
<1>2. Stands(p) /\ held[p] = Footing(p) /\ todo[p] # <<>>
    BY <1>1 DEF Placed
<1>3. key(p) \in Keys /\ key(p) \in AllKeys
    BY <1>1, <1>2, OperationIs
<1>4. root(p) \in Record \ freed /\ root(p) # Null /\ root(p) \in Path(heap, key(p))
      /\ held[p] \subseteq Record \ freed
    BY <1>2, FootingIs DEF Stands
<1>5. Leafy(heap, root(p))
    BY <1>1, <1>4, Turn DEF IsSearchTree
<1>6. Shared(p) <=> what = "get"
    BY <1>1 DEF Shared
<1>7. root(p) # Root
    BY <1>1, <1>5 DEF IsSearchTree, IsTree, Leafy
<1>8. what = "get" => held[p] = {root(p)}
    BY <1>2, <1>6, FootingIs
<1>9. what # "get" => /\ held[p] = {parent(p), root(p)} \ {Null}
                      /\ parent(p) # Null /\ parent(p) \in Record \ freed
                      /\ ~Leafy(heap, parent(p)) /\ parent(p) # root(p)
                      /\ Way(heap, parent(p), key(p)) = root(p)
    BY <1>2, <1>6, <1>7, FootingIs DEF Stands
<1> QED BY <1>1, <1>2, <1>3, <1>4, <1>5, <1>6, <1>8, <1>9

\* The operations that leave the tree as it is.
LEMMA SearchKept == ASSUME Kept, NEW p \in Workers, Search(p) PROVE Kept'
<1>1. AtLeaf(p, "get")
    BY Zenon DEF Search
<1>2. PICK result : result = IF heap[root(p)].key = key(p) THEN "found" ELSE "not found"
    BY Zenon
<1>3. result \in Answers
    BY <1>2, Zenon DEF Answers
<1>4. /\ todo[p] # <<>> /\ held[p] = {root(p)} /\ {root(p)} \ {Null} \subseteq held[p] \ freed
    BY <1>1, AtLeafIs
<1>5. Returns(p, {root(p)}, result, UNCHANGED <<heap, freed>>)
    BY <1>2, Zenon DEF Search
<1>6. /\ UNCHANGED <<error, script, phase, passes, stack, heap, freed>>
      /\ held' = [held EXCEPT ![p] = @ \ {root(p)}] /\ pc' = [pc EXCEPT ![p] = "idle"]
      /\ at' = [at EXCEPT ![p] = NoWhere] /\ todo' = [todo EXCEPT ![p] = Tail(@)]
      /\ answer' = [answer EXCEPT ![p] = result]
    BY <1>4, <1>5 DEF Returns, Unlock, Goto, Others, rebalVars
<1>7. held'[p] = {} /\ Placed(p)' /\ Steady(p) /\ Local'
    BY <1>3, <1>4, <1>6, ReturnedIs
<1> QED BY <1>6, <1>7, StepKeeps

\* An insertion of a key that is there only releases its locks.
LEMMA InsertPresentKept == ASSUME Kept, NEW p \in Workers, InsertPresent(p) PROVE Kept'
<1>1. AtLeaf(p, "insert")
    BY DEF InsertPresent
<1>2. PICK release : release = {parent(p), root(p)}
    OBVIOUS
<1>3. "insert" \in Answers
    BY Zenon DEF Answers, Kinds
<1>4. /\ todo[p] # <<>> /\ held[p] \subseteq release /\ release \ {Null} \subseteq held[p] \ freed
    BY <1>1, <1>2, AtLeafIs
<1>5. /\ UNCHANGED <<error, script, phase, passes, stack, heap, freed>>
      /\ held' = [held EXCEPT ![p] = @ \ release] /\ pc' = [pc EXCEPT ![p] = "idle"]
      /\ at' = [at EXCEPT ![p] = NoWhere] /\ todo' = [todo EXCEPT ![p] = Tail(@)]
      /\ answer' = [answer EXCEPT ![p] = "insert"]
    BY <1>2, <1>4 DEF InsertPresent, Returns, Unlock, Goto, Others, rebalVars
<1>6. held'[p] = {} /\ Placed(p)' /\ Steady(p) /\ Local'
    BY <1>3, <1>4, <1>5, ReturnedIs
<1> QED BY <1>5, <1>6, StepKeeps

\* A removal of a key that is not there only releases its locks.
LEMMA RemoveAbsentKept == ASSUME Kept, NEW p \in Workers, RemoveAbsent(p) PROVE Kept'
<1>1. AtLeaf(p, "delete")
    BY DEF RemoveAbsent
<1>2. PICK release : release = {root(p), parent(p)}
    OBVIOUS
<1>3. "absent" \in Answers
    BY Zenon DEF Answers
<1>4. /\ todo[p] # <<>> /\ held[p] \subseteq release /\ release \ {Null} \subseteq held[p] \ freed
    BY <1>1, <1>2, AtLeafIs
<1>5. /\ UNCHANGED <<error, script, phase, passes, stack, heap, freed>>
      /\ held' = [held EXCEPT ![p] = @ \ release] /\ pc' = [pc EXCEPT ![p] = "idle"]
      /\ at' = [at EXCEPT ![p] = NoWhere] /\ todo' = [todo EXCEPT ![p] = Tail(@)]
      /\ answer' = [answer EXCEPT ![p] = "absent"]
    BY <1>2, <1>4 DEF RemoveAbsent, Returns, Unlock, Goto, Others, rebalVars
<1>6. held'[p] = {} /\ Placed(p)' /\ Steady(p) /\ Local'
    BY <1>3, <1>4, <1>5, ReturnedIs
<1> QED BY <1>5, <1>6, StepKeeps

\* What a step must do that changes records of a set X, and is the last one of
\* its operation.
LEMMA ChangeKeeps ==
    ASSUME Kept, NEW p \in Workers, NEW X, X \subseteq held[p], ~Shared(p), IsSearchTree',
           \A m \in Record \ X : heap'[m] = heap[m],
           Record \subseteq Record', freed' \subseteq freed \cup X,
           \A j \in AllKeys : Path(heap, j) \ X \subseteq Path(heap', j),
           \A q \in Workers \ {p} : pc[q] = "call" /\ root(q) # Null =>
                                      heap'[root(q)] = heap[root(q)],
           Steady(p), Local', Placed(p)', held'[p] = {}
    PROVE  Kept'
<1>1. ASSUME NEW q \in Workers \ {p} PROVE Placed(q)'
  <2>1. /\ pc'[q] = pc[q] /\ at'[q] = at[q] /\ todo'[q] = todo[q] /\ held'[q] = held[q]
      BY DEF Steady
  <2>2. held[q] \cap X = {}
      BY DEF Kept, Exclusive
  <2> QED BY <2>1, <2>2, Undisturbed
<1>2. Exclusive'
  <2>1. \A r, q \in Workers \ {p} : r # q =>
           \A n \in held'[r] : n \in held'[q] => Shared(r)' /\ Shared(q)'
      BY DEF Kept, Exclusive, Steady, Shared, kind
  <2> QED BY <2>1 DEF Exclusive
<1> QED BY <1>1, <1>2 DEF Kept

\* What an insertion makes of the tree.
LEMMA InsertLeavesIs ==
    ASSUME Kept, NEW p \in Workers, InsertLeaves(p)
    PROVE  /\ AtLeaf(p, "insert") /\ freed' = freed /\ IsSearchTree'
           /\ UNCHANGED <<error, script, phase, passes, stack>>
           /\ held' = [held EXCEPT ![p] = @ \ {parent(p), root(p)}]
           /\ pc' = [pc EXCEPT ![p] = "idle"] /\ at' = [at EXCEPT ![p] = NoWhere]
           /\ todo' = [todo EXCEPT ![p] = Tail(@)] /\ answer' = [answer EXCEPT ![p] = "insert"]
           /\ \A j \in AllKeys : Path(heap, j) \subseteq Path(heap', j)
           /\ \E a, b, lo, hi : /\ lo \in AllKeys /\ hi \in AllKeys /\ lo < hi
                                /\ {lo, hi} = {key(p), heap[root(p)].key}
                                /\ Grows(heap, heap', root(p), a, b, lo, hi)
<1>1. AtLeaf(p, "insert") /\ heap[root(p)].key # key(p)
    BY DEF InsertLeaves
<1>2. PICK n, k, x : n = root(p) /\ k = key(p) /\ x = heap[n].key
    OBVIOUS
<1>3. /\ IsSearchTree /\ n \in Record \ freed /\ Leafy(heap, n) /\ k \in Keys /\ k \in AllKeys
      /\ n \in Path(heap, k) /\ {parent(p), n} \ {Null} \subseteq held[p] \ freed
    BY <1>1, <1>2, AtLeafIs
<1>4. x \in AllKeys /\ heap[n].weight \in Int /\ heap[n].weight - 1 \in Int
    BY <1>2, <1>3, CellOf DEF IsSearchTree, Record
<1>5. x \in Int /\ k \in Int /\ x # k
    BY <1>1, <1>2, <1>3, <1>4, KeysAre
<1>6. PICK lo, hi : lo = (IF k <= x THEN k ELSE x) /\ hi = (IF k <= x THEN x ELSE k)
    OBVIOUS
<1>7. lo \in AllKeys /\ hi \in AllKeys /\ lo < hi /\ {lo, hi} = {k, x}
  <2>1. CASE k <= x
      BY <1>3, <1>4, <1>5, <1>6, <2>1
  <2>2. CASE ~(k <= x)
    <3>1. lo = x /\ hi = k /\ x < k
        BY <1>5, <1>6, <2>2
    <3> QED BY <1>3, <1>4, <3>1
  <2> QED BY <2>1, <2>2
<1>8. /\ UNCHANGED <<error, script, phase, passes, stack, freed>>
      /\ held' = [held EXCEPT ![p] = @ \ {parent(p), n}]
      /\ pc' = [pc EXCEPT ![p] = "idle"] /\ at' = [at EXCEPT ![p] = NoWhere]
      /\ todo' = [todo EXCEPT ![p] = Tail(@)] /\ answer' = [answer EXCEPT ![p] = "insert"]
      /\ heap' = [heap EXCEPT ![n] = Rec(lo, @.weight - 1, Len(heap) + 1, Len(heap) + 2)]
                    \o << Rec(lo, 1, Null, Null), Rec(hi, 1, Null, Null) >>
    BY <1>2, <1>3, <1>6 DEF InsertLeaves, Returns, Unlock, Goto, Others, rebalVars
<1>9. Grows(heap, heap', n, Len(heap) + 1, Len(heap) + 2, lo, hi)
  <2>1. IsTree(heap, freed) /\ n \in DOMAIN heap
      BY <1>3 DEF IsSearchTree, Record
  <2>2. PICK w : w = heap[n].weight - 1
      OBVIOUS
  <2>3. heap' = [heap EXCEPT ![n] = Rec(lo, w, Len(heap) + 1, Len(heap) + 2)]
                    \o << Rec(lo, 1, Null, Null), Rec(hi, 1, Null, Null) >>
      BY <1>8, <2>2
  <2>4. w \in Int
      BY <1>4, <2>2
  <2> QED BY <1>7, <2>1, <2>3, <2>4, GrownIs, Zenon
<1>10. PICK a, b : Grows(heap, heap', n, a, b, lo, hi)
    BY <1>9
<1>11. /\ IsTree(heap', freed) /\ (\E rank2 : Ranks(heap', freed, rank2)) /\ Sorted(heap', freed)
       /\ \A j \in AllKeys : Path(heap, j) \subseteq Path(heap', j)
  <2>1. PICK rank : Ranks(heap, freed, rank)
      BY <1>3 DEF IsSearchTree
  <2>2. /\ IsTree(heap, freed) /\ Sorted(heap, freed) /\ n \in DOMAIN heap \ freed
        /\ {lo, hi} = {k, heap[n].key}
      BY <1>2, <1>3, <1>7 DEF IsSearchTree, Record
  <2> QED BY <1>3, <1>7, <1>10, <2>1, <2>2, GrowTree, Zenon
<1>12. IsSearchTree'
    BY <1>8, <1>11 DEF IsSearchTree
<1> QED BY <1>1, <1>2, <1>7, <1>8, <1>10, <1>11, <1>12

\* An insertion turns the leaf it has locked into an internal record.
LEMMA InsertLeavesKept == ASSUME Kept, NEW p \in Workers, InsertLeaves(p) PROVE Kept'
<1>1. /\ AtLeaf(p, "insert") /\ freed' = freed /\ IsSearchTree'
      /\ UNCHANGED <<error, script, phase, passes, stack>>
      /\ held' = [held EXCEPT ![p] = @ \ {parent(p), root(p)}]
      /\ pc' = [pc EXCEPT ![p] = "idle"] /\ at' = [at EXCEPT ![p] = NoWhere]
      /\ todo' = [todo EXCEPT ![p] = Tail(@)] /\ answer' = [answer EXCEPT ![p] = "insert"]
      /\ \A j \in AllKeys : Path(heap, j) \subseteq Path(heap', j)
    BY InsertLeavesIs
<1>2. PICK a, b, lo, hi : Grows(heap, heap', root(p), a, b, lo, hi)
    BY InsertLeavesIs
<1>3. /\ todo[p] # <<>> /\ held[p] \subseteq {parent(p), root(p)} /\ ~Shared(p)
      /\ root(p) \in held[p] /\ Leafy(heap, root(p))
    BY <1>1, AtLeafIs
<1>4. "insert" \in Answers
    BY Zenon DEF Answers, Kinds
<1>5. held'[p] = {} /\ Placed(p)' /\ Steady(p) /\ Local'
    BY <1>1, <1>3, <1>4, ReturnedIs
<1>6. /\ \A m \in Record \ {root(p)} : heap'[m] = heap[m]
      /\ Record \subseteq Record'
    BY <1>2 DEF Grows, Record
<1>7. ASSUME NEW q \in Workers \ {p}, pc[q] = "call", root(q) # Null
      PROVE  heap'[root(q)] = heap[root(q)]
  <2>1. root(q) \in Record /\ ~Leafy(heap, root(q))
      BY <1>7 DEF Kept, Placed, Ahead
  <2> QED BY <1>3, <1>6, <2>1
<1>8. /\ {root(p)} \subseteq held[p] /\ freed' \subseteq freed \cup {root(p)}
      /\ \A j \in AllKeys : Path(heap, j) \ {root(p)} \subseteq Path(heap', j)
    BY <1>1, <1>3
<1> QED BY <1>1, <1>3, <1>5, <1>6, <1>7, <1>8, ChangeKeeps

\* The leaf of a key that is not the sentinel's is not the only one.
LEMMA ParentOfLeaf ==
    ASSUME IsSearchTree, NEW k \in Keys, NEW n \in Record, Leafy(heap, n), heap[n].key = k,
           NEW m \in Record \ freed, n \in ChildrenOf(heap, m)
    PROVE  m # Root /\ heap[m].left # Null /\ heap[m].right # Null /\ heap[m].left # heap[m].right
<1>1. IsTree(heap, freed) /\ Sorted(heap, freed) /\ MaxKey \in AllKeys /\ k # MaxKey /\ k \in AllKeys
    BY KeysAre DEF IsSearchTree, AllKeys
<1>2. PICK rank : Ranks(heap, freed, rank)
    BY DEF IsSearchTree
<1>3. ASSUME m = Root PROVE FALSE
  <2>1. n = heap[Root].left /\ n # Null /\ heap[Root].key = MaxKey
      BY <1>1, <1>3 DEF IsTree, ChildrenOf
  <2>2. Root \in Path(heap, MaxKey) /\ Way(heap, Root, MaxKey) = n
      BY <1>1, <2>1, PathIs, KeysAre DEF Way
  <2>3. n \in Path(heap, MaxKey)
      BY <1>1, <2>1, <2>2, PathIs DEF Follows
  <2>4. PICK e \in Record \ freed : Leafy(heap, e) /\ heap[e].key = MaxKey
      BY <1>1 DEF Sorted, Record
  <2>5. e \in Path(heap, MaxKey)
      BY <1>1, <2>4 DEF Sorted, Record
  <2>6. e = n
      BY <1>1, <1>2, <2>3, <2>4, <2>5, SearchEndIs
  <2> QED BY <1>1, <2>4, <2>6
<1>4. heap[m].left # Null /\ heap[m].right # Null
    BY <1>1, <1>3 DEF IsTree, ChildrenOf, Record
<1> QED BY <1>1, <1>3, <1>4 DEF IsTree, Record

\* A removal that has found its key turns to the leaf's sibling.
LEMMA RemoveFoundKept == ASSUME Kept, NEW p \in Workers, RemoveFound(p) PROVE Kept'
<1>1. AtLeaf(p, "delete") /\ heap[root(p)].key = key(p)
    BY DEF RemoveFound
<1>2. PICK side : side = IF heap[parent(p)].left = root(p) THEN "right" ELSE "left"
    OBVIOUS
<1> PICK next : next = heap[parent(p)][side]
    OBVIOUS
<1>3. /\ Local /\ Placed(p) /\ IsSearchTree /\ todo[p] # <<>> /\ key(p) \in Keys /\ key(p) \in AllKeys
      /\ Stands(p) /\ held[p] = Footing(p) /\ kind(p) = "delete"
      /\ root(p) \in Record \ freed /\ root(p) # Null /\ Leafy(heap, root(p))
      /\ parent(p) # Null /\ parent(p) \in Record \ freed
      /\ ~Leafy(heap, parent(p)) /\ Way(heap, parent(p), key(p)) = root(p)
    BY <1>1, AtLeafIs
<1>4. root(p) \in ChildrenOf(heap, parent(p))
    BY <1>3, Below
<1>5. heap[parent(p)].left # Null /\ heap[parent(p)].right # Null /\ heap[parent(p)].left # heap[parent(p)].right
    BY <1>1, <1>3, <1>4, ParentOfLeaf
<1>6. {heap[parent(p)].left, heap[parent(p)].right} = {root(p), next} /\ next # Null /\ side \in Sides
    BY <1>2, <1>4, <1>5 DEF ChildrenOf, Sides
<1>7. p # Rebalancer /\ p \in Threads /\ at \in [Workers -> Locals] /\ next \in Nat /\ at[p] \in Locals
    BY <1>2, <1>3, LockTreeAssumption, CellOf DEF Threads, Local, IsSearchTree, Record
<1>8. /\ UNCHANGED <<heap, held, freed, error, todo, answer, script, phase, passes, stack>>
      /\ pc' = [pc EXCEPT ![p] = "lockSibling"]
      /\ at' = [at EXCEPT ![p].side = side, ![p].next = next]
    BY <1>2 DEF RemoveFound, Goto, Others, rebalVars
<1>9. at' \in [Workers -> Locals] /\ at'[p] = [at[p] EXCEPT !.side = side, !.next = next]
  <2>1. /\ [at EXCEPT ![p].side = side, ![p].next = next] \in [Workers -> Locals]
        /\ [at EXCEPT ![p].side = side, ![p].next = next][p]
              = [at[p] EXCEPT !.side = side, !.next = next]
      BY <1>6, <1>7, Assigned, Zenon
  <2> QED BY <1>8, <2>1, Zenon
<1>10. /\ parent(p)' = parent(p) /\ root(p)' = root(p) /\ at'[p].next = next /\ at'[p].side = side
       /\ pc'[p] = "lockSibling" /\ held'[p] = held[p]
       /\ Shared(p)' = Shared(p) /\ key(p)' = key(p) /\ kind(p)' = kind(p) /\ todo'[p] = todo[p]
    BY <1>3, <1>7, <1>8, <1>9 DEF Local, Locals, parent, root, Shared, kind, key
<1>11. Stands(p)' /\ Footing(p)' = Footing(p)
    BY <1>3, <1>8, <1>10 DEF Stands, Footing, Record
<1>12. Removes(p)'
  <2>1. heap[parent(p)][side] = next
      OBVIOUS
  <2> QED BY <1>1, <1>3, <1>6, <1>8, <1>10, <2>1 DEF Removes
<1>13. Placed(p)'
    BY <1>3, <1>10, <1>11, <1>12 DEF Placed
<1>14. Steady(p)
    BY <1>3, <1>8 DEF Steady, Local, Threads
<1>15. Local'
  <2>1. "lockSibling" \in Labels /\ held[p] \in SUBSET Nat /\ held' = [held EXCEPT ![p] = held[p]]
      BY <1>3, <1>7, <1>8 DEF Labels, Local
  <2> QED BY <1>3, <1>7, <1>8, <1>9, <2>1, LocalAfter
<1>16. todo'[p] = todo[p] /\ \A n \in held'[p] : n \in held[p] \/ Free(p, n)
    BY <1>10
<1> QED BY <1>8, <1>13, <1>14, <1>15, <1>16, StepKeeps

\* The three records of a removal.
LEMMA RemovesIs ==
    ASSUME Kept, NEW p \in Workers, pc[p] \in {"lockSibling", "remove"}
    PROVE  /\ Local /\ IsSearchTree /\ Placed(p) /\ Stands(p) /\ Removes(p)
           /\ todo[p] # <<>> /\ key(p) \in Keys /\ ~Shared(p) /\ heap[root(p)].key = key(p)
           /\ Footing(p) = {parent(p), root(p)}
           /\ parent(p) \in Record \ freed /\ parent(p) # Null /\ parent(p) # Root
           /\ root(p) \in Record \ freed /\ root(p) # Null /\ Leafy(heap, root(p))
           /\ at[p].next \in Record \ freed /\ at[p].next # Null
           /\ root(p) # parent(p) /\ at[p].next \notin {parent(p), root(p)}
           /\ {heap[parent(p)].left, heap[parent(p)].right} = {root(p), at[p].next}
           /\ heap[parent(p)][at[p].side] = at[p].next
<1>1. /\ Local /\ IsSearchTree /\ Placed(p) /\ Stands(p) /\ Removes(p) /\ todo[p] # <<>>
    BY DEF Kept, Placed
<1>2. /\ kind(p) = "delete" /\ ~Shared(p) /\ parent(p) # Null /\ Leafy(heap, root(p))
      /\ {heap[parent(p)].left, heap[parent(p)].right} = {root(p), at[p].next}
      /\ heap[root(p)].key = key(p) /\ heap[parent(p)][at[p].side] = at[p].next /\ at[p].next # Null
    BY <1>1 DEF Removes, Shared
<1>3. /\ root(p) \in Record \ freed /\ root(p) # Null /\ parent(p) \in Record \ freed
      /\ parent(p) # root(p) /\ ~Leafy(heap, parent(p)) /\ Way(heap, parent(p), key(p)) = root(p)
    BY <1>1, <1>2, FootingIs DEF Stands
<1>4. Footing(p) = {parent(p), root(p)} /\ key(p) \in Keys /\ key(p) \in AllKeys
    BY <1>1, <1>2, <1>3, FootingIs, OperationIs
<1>5. root(p) \in ChildrenOf(heap, parent(p))
    BY <1>1, <1>3, <1>4, Below
<1>6. parent(p) # Root /\ heap[parent(p)].left # heap[parent(p)].right
    BY <1>1, <1>2, <1>3, <1>4, <1>5, ParentOfLeaf
<1>7. at[p].next # root(p) /\ at[p].next \in ChildrenOf(heap, parent(p))
    BY <1>2, <1>6 DEF ChildrenOf
<1>8. at[p].next \in Record \ freed
    BY <1>1, <1>3, <1>7 DEF IsSearchTree, IsTree, Record
<1>9. at[p].next # parent(p)
  <2>1. PICK rank : Ranks(heap, freed, rank)
      BY <1>1 DEF IsSearchTree
  <2>2. rank[at[p].next] < rank[parent(p)] /\ rank[parent(p)] \in Nat
      BY <1>3, <1>7, <2>1 DEF Ranks, Record
  <2> QED BY <2>2
<1> QED BY <1>1, <1>2, <1>3, <1>4, <1>6, <1>7, <1>8, <1>9

\* A removal that holds its leaf and its parent locks the sibling as well.
LEMMA RemoveLockSiblingKept == ASSUME Kept, NEW p \in Workers, RemoveLockSibling(p) PROVE Kept'
<1>1. pc[p] = "lockSibling"
    BY DEF RemoveLockSibling, At
<1> PICK next : next = at[p].next
    OBVIOUS
<1>2. /\ Local /\ IsSearchTree /\ Placed(p) /\ Stands(p) /\ Removes(p) /\ todo[p] # <<>>
      /\ next \in Record \ freed /\ next # Null /\ next \notin Footing(p)
    BY <1>1, RemovesIs
<1>3. held[p] = Footing(p) /\ p # Rebalancer /\ p \in Threads
    BY <1>1, <1>2, LockTreeAssumption DEF Placed, Threads
<1>4. /\ Free(p, next) /\ held' = [held EXCEPT ![p] = (@ \cup {next}) \ {}]
      /\ pc' = [pc EXCEPT ![p] = "remove"]
      /\ UNCHANGED <<error, heap, freed, todo, at, answer, script, phase, passes, stack>>
    BY <1>2, <1>3 DEF RemoveLockSibling, Lock, Valid, Goto, Others, rebalVars
<1>5. /\ held'[p] = held[p] \cup {next} /\ pc'[p] = "remove"
    BY <1>2, <1>3, <1>4 DEF Local
<1>6. /\ parent(p)' = parent(p) /\ root(p)' = root(p) /\ at'[p] = at[p] /\ todo'[p] = todo[p]
      /\ Shared(p)' = Shared(p) /\ key(p)' = key(p) /\ kind(p)' = kind(p)
    BY <1>4 DEF parent, root, Shared, kind, key
<1>7. Stands(p)' /\ Removes(p)' /\ Footing(p)' = Footing(p)
    BY <1>2, <1>4, <1>6 DEF Stands, Removes, Footing, Record
<1>8. Placed(p)'
    BY <1>2, <1>3, <1>5, <1>6, <1>7 DEF Placed
<1>9. Steady(p)
    BY <1>2, <1>4 DEF Steady, Local, Threads
<1>10. Local'
  <2>1. (held[p] \cup {next}) \ {} \in SUBSET Nat
      BY <1>2, <1>3, CellOf DEF Local, IsSearchTree, Record
  <2>2. "remove" \in Labels
      BY DEF Labels
  <2>3. at' \in [Workers -> Locals]
      BY <1>2, <1>4 DEF Local
  <2> QED BY <1>2, <1>3, <1>4, <2>1, <2>2, <2>3, LocalAfter
<1>11. todo'[p] = todo[p] /\ \A n \in held'[p] : n \in held[p] \/ Free(p, n)
    BY <1>4, <1>5
<1> QED BY <1>4, <1>8, <1>9, <1>10, <1>11, StepKeeps

\* What a removal makes of the tree.
LEMMA RemoveIs ==
    ASSUME Kept, NEW p \in Workers, Remove(p)
    PROVE  /\ pc[p] = "remove" /\ freed' = freed \cup {root(p), at[p].next} /\ IsSearchTree'
           /\ UNCHANGED <<error, script, phase, passes, stack>>
           /\ held' = [held EXCEPT ![p] = @ \ {root(p), at[p].next, parent(p)}]
           /\ pc' = [pc EXCEPT ![p] = "idle"] /\ at' = [at EXCEPT ![p] = NoWhere]
           /\ todo' = [todo EXCEPT ![p] = Tail(@)] /\ answer' = [answer EXCEPT ![p] = "delete"]
           /\ \A j \in AllKeys : Path(heap, j) \ {root(p), at[p].next} \subseteq Path(heap', j)
           /\ Shrinks(heap, heap', parent(p), root(p), at[p].next)
<1>1. pc[p] = "remove"
    BY DEF Remove, At
<1> PICK l, m, s : l = root(p) /\ m = parent(p) /\ s = at[p].next
    OBVIOUS
<1>2. /\ Local /\ IsSearchTree /\ Placed(p) /\ Footing(p) = {m, l} /\ heap[m][at[p].side] = s
      /\ m \in Record \ freed /\ l \in Record \ freed /\ s \in Record \ freed
      /\ l # Null /\ s # Null /\ m # Null /\ Leafy(heap, l) /\ {heap[m].left, heap[m].right} = {l, s}
      /\ heap[l].key = key(p) /\ key(p) \in Keys
    BY <1>1, RemovesIs
<1>3. held[p] = {m, l, s}
    BY <1>1, <1>2 DEF Placed
<1> PICK w : w = heap[m].weight + heap[s].weight
    OBVIOUS
<1>4. /\ UNCHANGED <<error, script, phase, passes, stack>>
      /\ held' = [held EXCEPT ![p] = @ \ {l, s, m}]
      /\ pc' = [pc EXCEPT ![p] = "idle"] /\ at' = [at EXCEPT ![p] = NoWhere]
      /\ todo' = [todo EXCEPT ![p] = Tail(@)] /\ answer' = [answer EXCEPT ![p] = "delete"]
      /\ heap' = [heap EXCEPT ![m] = Rec(heap[s].key, w, heap[s].left, heap[s].right)]
      /\ freed' = freed \cup {l, s}
    BY <1>2, <1>3 DEF Remove, Returns, Unlock, Valid, Goto, Others, rebalVars
<1>5. w \in Int
    BY <1>2, CellOf DEF IsSearchTree, Record
<1>6. IsTree(heap, freed) /\ Sorted(heap, freed) /\ Record = DOMAIN heap
    BY <1>2 DEF IsSearchTree, Record
<1>7. Shrinks(heap, heap', m, l, s)
    BY <1>2, <1>4, <1>5, <1>6, ShrunkIs
<1>8. PICK rank : Ranks(heap, freed, rank)
    BY <1>2 DEF IsSearchTree
<1>9. heap[l].key # MaxKey
    BY <1>2, KeysAre
<1>10. /\ IsTree(heap', freed \cup {l, s}) /\ Ranks(heap', freed \cup {l, s}, rank)
       /\ \A j \in AllKeys : Path(heap, j) \ {l, s} \subseteq Path(heap', j)
       /\ Sorted(heap', freed \cup {l, s})
  <2>1. m \in DOMAIN heap \ freed
      BY <1>2, <1>6
  <2> QED BY <1>2, <1>6, <1>7, <1>8, <1>9, <2>1, ShrinkTree, Zenon
<1>11. IsSearchTree'
  <2>1. freed' = freed \cup {l, s}
      BY <1>4
  <2>2. \E r : Ranks(heap', freed', r)
      BY <1>10, <2>1
  <2> QED BY <1>10, <2>1, <2>2, Zenon DEF IsSearchTree
<1>12. held' = [held EXCEPT ![p] = @ \ {root(p), at[p].next, parent(p)}]
    BY <1>4
<1>13. freed' = freed \cup {root(p), at[p].next}
    BY <1>4
<1>14. /\ \A j \in AllKeys : Path(heap, j) \ {root(p), at[p].next} \subseteq Path(heap', j)
       /\ Shrinks(heap, heap', parent(p), root(p), at[p].next)
    BY <1>7, <1>10
<1> QED BY <1>1, <1>4, <1>11, <1>12, <1>13, <1>14

\* A removal frees its leaf and the sibling, both of which it alone has locked.
LEMMA RemoveKept == ASSUME Kept, NEW p \in Workers, Remove(p) PROVE Kept'
<1> PICK l, m, s : l = root(p) /\ m = parent(p) /\ s = at[p].next
    OBVIOUS
<1>1. /\ pc[p] = "remove" /\ freed' = freed \cup {l, s} /\ IsSearchTree'
      /\ UNCHANGED <<error, script, phase, passes, stack>>
      /\ held' = [held EXCEPT ![p] = @ \ {l, s, m}]
      /\ pc' = [pc EXCEPT ![p] = "idle"] /\ at' = [at EXCEPT ![p] = NoWhere]
      /\ todo' = [todo EXCEPT ![p] = Tail(@)] /\ answer' = [answer EXCEPT ![p] = "delete"]
      /\ \A j \in AllKeys : Path(heap, j) \ {l, s} \subseteq Path(heap', j)
      /\ Shrinks(heap, heap', m, l, s)
    BY RemoveIs
<1>2. /\ Local /\ IsSearchTree /\ Placed(p) /\ Footing(p) = {m, l} /\ todo[p] # <<>> /\ ~Shared(p)
      /\ m \in Record \ freed /\ {heap[m].left, heap[m].right} = {l, s}
    BY <1>1, RemovesIs
<1>3. held[p] = {m, l, s}
    BY <1>1, <1>2 DEF Placed
<1>4. "delete" \in Answers
    BY Zenon DEF Answers, Kinds
<1>5. held[p] \subseteq {l, s, m}
    BY <1>3
<1>6. held'[p] = {} /\ Placed(p)' /\ Steady(p) /\ Local'
    BY <1>1, <1>2, <1>4, <1>5, ReturnedIs
<1>7. (\A o \in Record \ {m} : heap'[o] = heap[o]) /\ Record' = Record
    BY <1>1 DEF Shrinks, Record
\* Nobody is between the parent and one of its children.
<1>8. ASSUME NEW q \in Workers \ {p}, pc[q] = "call", root(q) # Null
      PROVE  heap'[root(q)] = heap[root(q)]
  <2>1. /\ root(q) \in Record /\ ~Leafy(heap, root(q)) /\ at[q].next = Way(heap, root(q), key(q))
        /\ at[q].next \in held[q]
    <3>1. /\ Ahead(q) /\ at[q].next \in Record
          /\ held[q] = ({at[q].next} \cup IF Shared(q) THEN {} ELSE {root(q)}) \ {Null}
        BY <1>8 DEF Kept, Placed
    <3>2. at[q].next # Null
        BY <1>2, <3>1, CellOf DEF IsSearchTree, Record
    <3> QED BY <3>1, <3>2 DEF Ahead
  <2>2. root(q) # m
    <3> SUFFICES ASSUME root(q) = m PROVE FALSE
        OBVIOUS
    <3>1. at[q].next \in {l, s}
        BY <1>2, <2>1 DEF Way
    <3> QED BY <1>2, <1>3, <2>1, <3>1 DEF Kept, Exclusive
  <2> QED BY <1>7, <2>1, <2>2
<1>9. /\ {m, l, s} \subseteq held[p] /\ freed' \subseteq freed \cup {m, l, s}
      /\ \A j \in AllKeys : Path(heap, j) \ {m, l, s} \subseteq Path(heap', j)
      /\ \A o \in Record \ {m, l, s} : heap'[o] = heap[o]
      /\ Record \subseteq Record'
    BY <1>1, <1>3, <1>7
<1> PICK X : X = {m, l, s}
    OBVIOUS
<1>10. /\ X \subseteq held[p] /\ freed' \subseteq freed \cup X
       /\ \A j \in AllKeys : Path(heap, j) \ X \subseteq Path(heap', j)
       /\ \A o \in Record \ X : heap'[o] = heap[o]
       /\ Record \subseteq Record'
    BY <1>9
<1>11. \A q \in Workers \ {p} : pc[q] = "call" /\ root(q) # Null => heap'[root(q)] = heap[root(q)]
    BY <1>8
<1>12. ~Shared(p) /\ IsSearchTree' /\ Steady(p) /\ Local' /\ Placed(p)' /\ held'[p] = {}
    BY <1>1, <1>2, <1>6
<1> QED BY <1>10, <1>11, <1>12, ChangeKeeps

\* main starts the next phase.
LEMMA NextPhaseKept == ASSUME Kept, NextPhase PROVE Kept'
<1>1. /\ Local /\ phase < Len(script) /\ phase' = phase + 1 /\ todo' = script[phase + 1].work
      /\ passes' = 0 /\ UNCHANGED <<heap, held, freed, error, script, pc, at, answer, stack>>
      /\ \A p \in Workers : pc[p] = "idle" /\ Placed(p)
    BY DEF Kept, NextPhase, Idle, At
<1>2. script \in Seq(Phase)
    BY <1>1, LockTreeAssumption DEF Local
<1>3. phase + 1 \in DOMAIN script
    BY <1>1, <1>2 DEF Local
<1>4. script[phase + 1] \in Phase
    BY <1>2, <1>3
<1>5. todo' \in [Workers -> Seq(Operation)]
    BY <1>1, <1>4 DEF Phase
<1>6. Local'
    BY <1>1, <1>3, <1>5, Zenon DEF Local
<1>7. IsSearchTree'
    BY <1>1 DEF Kept, IsSearchTree
<1>8. \A p \in Workers : held'[p] = {} /\ Placed(p)'
    BY <1>1 DEF Placed, parent, root
<1> QED BY <1>6, <1>7, <1>8 DEF Kept, Exclusive

-----------------------------------------------------------------------------
(***************************************************************************)
(* The theorems                                                            *)
(***************************************************************************)
\* The rebalancing thread is not in a pass.
NoPass == stack = <<>>

\* Only the start of a pass is possible where there is none, and it is one.
LEMMA PassNot == ASSUME NoPass, NoPass' PROVE ~Pass
<1> SUFFICES ASSUME Pass PROVE FALSE
    OBVIOUS
<1>1. ~In("start") /\ ~In("enter") /\ ~In("left") /\ ~In("again") /\ ~In("right")
    BY DEF NoPass, In
<1>2. StartPass
    BY <1>1 DEF Pass, LockNode, LockLeft, LockRight, LeaveLeaf, Rebalance
<1>3. stack' # <<>>
    BY <1>2 DEF StartPass
<1> QED BY <1>3 DEF NoPass

\* Every step of the others leads from one such state to the next.
LEMMA StepKept == ASSUME Kept, NoPass, NoPass', [Next]_vars PROVE Kept'
<1>1. CASE UNCHANGED vars
  <2>1. UNCHANGED <<heap, held, freed, error, script, phase, todo, pc, at, answer, passes>>
      BY <1>1 DEF vars, callVars, rebalVars
  <2>2. Local' /\ IsSearchTree' /\ Exclusive'
      BY <2>1 DEF Kept, Local, IsSearchTree, Exclusive, Shared, kind
  <2>3. ASSUME NEW q \in Workers PROVE Placed(q)'
    <3>1. /\ \A m \in Record \ {} : heap'[m] = heap[m]
          /\ Record \subseteq Record' /\ freed' \subseteq freed \cup {}
          /\ \A j \in AllKeys : Path(heap, j) \ {} \subseteq Path(heap', j)
          /\ held[q] \cap {} = {} /\ heap'[root(q)] = heap[root(q)]
          /\ pc'[q] = pc[q] /\ at'[q] = at[q] /\ todo'[q] = todo[q] /\ held'[q] = held[q]
        BY <2>1 DEF Record
    <3> QED BY <3>1, Undisturbed, Zenon
  <2> QED BY <2>2, <2>3 DEF Kept
<1>2. ASSUME NEW p \in Workers, Step(p) PROVE Kept'
    BY <1>2, BeginKept, LockNextKept, CallKept, RereadKept, DownKept, SearchKept,
         InsertPresentKept, InsertLeavesKept, RemoveAbsentKept, RemoveFoundKept,
         RemoveLockSiblingKept, RemoveKept DEF Step
<1>3. ~Pass
    BY PassNot
<1>4. CASE NextPhase
    BY <1>4, NextPhaseKept
<1>5. CASE Stop
    BY <1>1, <1>5 DEF Stop
<1> QED BY <1>1, <1>2, <1>3, <1>4, <1>5 DEF Next

\* The tree stays a search tree, a record has one holder, and every operation
\* that is under way stands where its key leads, with the locks it needs.
THEOREM KeptCorrect == Spec /\ []NoPass => []Kept
<1>1. Init => Kept
    BY InitKept
<1>2. Kept /\ NoPass /\ NoPass' /\ [Next]_vars => Kept'
    BY StepKept
<1> QED BY <1>1, <1>2, PTL DEF Spec

\* No NULL or freed record is used and no lock is used wrongly, but for the
\* search that reads a record again that it has unlocked: every other
\* dereference, lock and unlock is of a record that is in use, and held or not
\* held as it must be, for any keys and numbers of threads and operations.
THEOREM LocksProtect == Spec /\ []NoPass => []OnlyRereadsFail
<1>1. Kept => OnlyRereadsFail
    BY DEF Kept, Local, OnlyRereadsFail
<1> QED BY <1>1, KeptCorrect, PTL

\* An insertion or removal holds the lock of the record it has come to and of
\* its parent, a search that of the record it reads.
THEOREM UpdatesHoldLocks == Spec /\ []NoPass => []LockedOnEntry
<1>1. Kept /\ NoPass => LockedOnEntry
  <2> SUFFICES ASSUME Kept, NoPass PROVE LockedOnEntry
      OBVIOUS
  <2>1. ~In("enter")
      BY DEF NoPass, In
  <2>2. ASSUME NEW p \in Workers, pc[p] = "here"
        PROVE  Footing(p) \subseteq held[p]
      BY <2>2 DEF Kept, Placed
  <2> QED BY <2>1, <2>2 DEF LockedOnEntry
<1> QED BY <1>1, KeptCorrect, PTL

-----------------------------------------------------------------------------
(***************************************************************************)
(* The tree is a set of keys                                               *)
(***************************************************************************)
LeafKeys(H, F) == { k \in Keys : \E e \in DOMAIN H \ F : Leafy(H, e) /\ H[e].key = k }

\* The keys of the tree, in this state and in the next.
LEMMA PresentWhen == IsSearchTree => Present = LeafKeys(heap, freed)
BY PresentIs DEF IsSearchTree, LeafKeys, Record

\* The leaf that an operation has come to decides about its key.
LEMMA LeafDecides ==
    ASSUME IsSearchTree, NEW k \in Keys, NEW n \in Path(heap, k), Leafy(heap, n)
    PROVE  /\ k \in Present <=> heap[n].key = k
           /\ \A e \in Record \ freed : Leafy(heap, e) /\ heap[e].key = k => e = n
<1>1. /\ IsTree(heap, freed) /\ Sorted(heap, freed) /\ k \in AllKeys
      /\ Present = LeafKeys(heap, freed)
    BY PresentWhen DEF IsSearchTree, AllKeys
<1>2. PICK rank : Ranks(heap, freed, rank)
    BY DEF IsSearchTree
<1>3. n \in Record \ freed
    BY <1>1, PathIs DEF Record
<1>4. ASSUME NEW e \in Record \ freed, Leafy(heap, e), heap[e].key = k PROVE e = n
  <2>1. e \in Path(heap, k)
      BY <1>1, <1>4 DEF Sorted, Record
  <2> QED BY <1>1, <1>2, <1>4, <2>1, SearchEndIs
<1> QED BY <1>1, <1>3, <1>4 DEF LeafKeys, Record

\* An insertion that changes the tree adds its key.
LEMMA InsertAdds ==
    ASSUME Kept, NEW p \in Workers, InsertLeaves(p)
    PROVE  Present' = Present \cup {key(p)}
<1>1. AtLeaf(p, "insert") /\ freed' = freed /\ IsSearchTree'
    BY InsertLeavesIs
<1>2. PICK a, b, lo, hi : /\ lo \in AllKeys /\ hi \in AllKeys /\ lo < hi
                          /\ {lo, hi} = {key(p), heap[root(p)].key}
                          /\ Grows(heap, heap', root(p), a, b, lo, hi)
    BY InsertLeavesIs
<1>3. /\ IsSearchTree /\ key(p) \in Keys /\ root(p) \in Record \ freed /\ Leafy(heap, root(p))
    BY <1>1, AtLeafIs
<1>4. Present = LeafKeys(heap, freed)
    BY <1>3, PresentWhen
<1>5. Present' = LeafKeys(heap', freed)
  <2>1. (Present = LeafKeys(heap, freed))'
      BY <1>1, PresentWhen, PTL
  <2> QED BY <1>1, <2>1
<1> PICK n, k, x : n = root(p) /\ k = key(p) /\ x = heap[n].key
    OBVIOUS
<1>6. /\ n \in DOMAIN heap \ freed /\ a \notin DOMAIN heap /\ b \notin DOMAIN heap /\ freed \subseteq DOMAIN heap
      /\ DOMAIN heap' = DOMAIN heap \cup {a, b}
      /\ ~Leafy(heap', n) /\ Leafy(heap', a) /\ Leafy(heap', b)
      /\ heap'[a].key = lo /\ heap'[b].key = hi
      /\ \A m \in DOMAIN heap \ {n} : heap'[m] = heap[m] /\ (Leafy(heap', m) <=> Leafy(heap, m))
  <2>1. freed \subseteq DOMAIN heap
      BY <1>3 DEF IsSearchTree, IsTree
  <2> QED BY <1>2, <1>3, <2>1 DEF Grows, Leafy, Record
<1>7. ASSUME NEW j \in LeafKeys(heap', freed) PROVE j \in LeafKeys(heap, freed) \cup {k}
  <2>1. PICK e \in DOMAIN heap' \ freed : Leafy(heap', e) /\ heap'[e].key = j
      BY <1>7 DEF LeafKeys
  <2>2. CASE e \in {a, b}
    <3>1. j \in {k, x} /\ j \in Keys
        BY <1>2, <1>6, <1>7, <2>1, <2>2 DEF LeafKeys
    <3> QED BY <1>3, <1>6, <3>1 DEF LeafKeys
  <2>3. CASE e \notin {a, b}
    <3>1. e \in DOMAIN heap \ freed /\ e # n
        BY <1>6, <2>1, <2>3
    <3> QED BY <1>6, <1>7, <2>1, <3>1 DEF LeafKeys
  <2> QED BY <2>2, <2>3
<1>8. ASSUME NEW j \in LeafKeys(heap, freed) \cup {k} PROVE j \in LeafKeys(heap', freed)
  <2>0. j \in Keys
      BY <1>3, <1>8 DEF LeafKeys
  <2>1. CASE j \in {k, x}
    <3>1. j \in {lo, hi}
        BY <1>2, <2>1
    <3> QED BY <1>6, <2>0, <3>1 DEF LeafKeys
  <2>2. CASE j \notin {k, x}
    <3>1. PICK e \in DOMAIN heap \ freed : Leafy(heap, e) /\ heap[e].key = j
        BY <1>8, <2>2 DEF LeafKeys
    <3>2. e # n
        BY <2>2, <3>1
    <3> QED BY <1>6, <2>0, <3>1, <3>2 DEF LeafKeys
  <2> QED BY <2>1, <2>2
<1> QED BY <1>4, <1>5, <1>7, <1>8

\* A removal takes its key away.
LEMMA RemoveSubtracts ==
    ASSUME Kept, NEW p \in Workers, Remove(p)
    PROVE  key(p) \in Present /\ Present' = Present \ {key(p)}
<1> PICK l, m, s, k : l = root(p) /\ m = parent(p) /\ s = at[p].next /\ k = key(p)
    OBVIOUS
<1>1. /\ pc[p] = "remove" /\ freed' = freed \cup {l, s} /\ IsSearchTree'
      /\ Shrinks(heap, heap', m, l, s)
    BY RemoveIs
<1>2. /\ IsSearchTree /\ Stands(p) /\ k \in Keys /\ heap[l].key = k /\ Leafy(heap, l)
      /\ m \in Record \ freed /\ l \in Record \ freed /\ s \in Record \ freed
      /\ {heap[m].left, heap[m].right} = {l, s} /\ l # Null /\ s # Null
      /\ l # m /\ s # m /\ l # s
    BY <1>1, RemovesIs
<1>3. l \in Path(heap, k)
    BY <1>2 DEF Stands
<1>4. /\ k \in Present /\ Present = LeafKeys(heap, freed)
      /\ \A e \in Record \ freed : Leafy(heap, e) /\ heap[e].key = k => e = l
    BY <1>2, <1>3, LeafDecides, PresentWhen
<1>5. Present' = LeafKeys(heap', freed \cup {l, s})
  <2>1. (Present = LeafKeys(heap, freed))'
      BY <1>1, PresentWhen, PTL
  <2> QED BY <1>1, <2>1
<1>6. /\ DOMAIN heap' = DOMAIN heap /\ ~Leafy(heap, m) /\ (Leafy(heap', m) <=> Leafy(heap, s))
      /\ heap'[m].key = heap[s].key
      /\ \A o \in DOMAIN heap \ {m} : heap'[o] = heap[o] /\ (Leafy(heap', o) <=> Leafy(heap, o))
  <2>1. ~Leafy(heap, m)
      BY <1>2 DEF Leafy
  <2> QED BY <1>1, <2>1 DEF Shrinks, Leafy
<1>7. ASSUME NEW j \in LeafKeys(heap', freed \cup {l, s}) PROVE j \in LeafKeys(heap, freed) \ {k}
  <2>1. PICK e \in DOMAIN heap' \ (freed \cup {l, s}) : Leafy(heap', e) /\ heap'[e].key = j
      BY <1>7 DEF LeafKeys
  <2>2. \E d \in Record \ freed : d # l /\ Leafy(heap, d) /\ heap[d].key = j
    <3>1. CASE e = m
        BY <1>2, <1>6, <2>1, <3>1
    <3>2. CASE e # m
        BY <1>6, <2>1, <3>2 DEF Record
    <3> QED BY <3>1, <3>2
  <2> QED BY <1>4, <1>7, <2>2 DEF LeafKeys, Record
<1>8. ASSUME NEW j \in LeafKeys(heap, freed) \ {k} PROVE j \in LeafKeys(heap', freed \cup {l, s})
  <2>1. PICK e \in DOMAIN heap \ freed : Leafy(heap, e) /\ heap[e].key = j
      BY <1>8 DEF LeafKeys
  <2>2. e # l /\ e # m
      BY <1>2, <1>6, <1>8, <2>1
  <2>3. CASE e = s
    <3>1. m \in DOMAIN heap' \ (freed \cup {l, s}) /\ Leafy(heap', m) /\ heap'[m].key = j
        BY <1>2, <1>6, <2>1, <2>3 DEF Record
    <3> QED BY <1>8, <3>1 DEF LeafKeys
  <2>4. CASE e # s
    <3>1. e \in DOMAIN heap' \ (freed \cup {l, s}) /\ Leafy(heap', e) /\ heap'[e].key = j
        BY <1>6, <2>1, <2>2, <2>4
    <3> QED BY <1>8, <3>1 DEF LeafKeys
  <2> QED BY <2>3, <2>4
<1> QED BY <1>4, <1>5, <1>7, <1>8

\* A step that leaves the records as they are leaves the set as it is.
LEMMA PresentStays ==
    ASSUME IsSearchTree, IsSearchTree', UNCHANGED <<heap, freed>>
    PROVE  Present' = Present
<1>1. Present = LeafKeys(heap, freed)
    BY PresentWhen
<1>2. (Present = LeafKeys(heap, freed))'
    BY PresentWhen, PTL
<1> QED BY <1>1, <1>2

\* What a step of p does to its operation and to the set of keys.
NotFound == "not found"
Starts(p) ==
    /\ pc[p] = "idle" /\ todo[p] # <<>> /\ UNCHANGED todo
    /\ pc' = [pc EXCEPT ![p] = "lock"]
    /\ Present' = Present /\ answer' = [answer EXCEPT ![p] = "none"]

GoesOn(p) ==
    /\ UNCHANGED <<todo, answer>> /\ Present' = Present
    /\ \A q \in Workers : pc'[q] = "idle" <=> pc[q] = "idle"

Result(p, what) == answer' = [answer EXCEPT ![p] = what]
Ends(p) ==
    /\ pc[p] # "idle" /\ todo[p] # <<>>
    /\ pc' = [pc EXCEPT ![p] = "idle"] /\ todo' = [todo EXCEPT ![p] = Tail(@)]
    /\ \/ kind(p) = "insert" /\ Present' = Present \cup {key(p)} /\ Result(p, "insert")
       \/ kind(p) = "delete" /\ Present' = Present \ {key(p)} /\ Result(p, "delete")
       \/ kind(p) = "delete" /\ Present' = Present /\ key(p) \notin Present /\ Result(p, "absent")
       \/ kind(p) = "get" /\ Present' = Present /\ key(p) \in Present /\ Result(p, "found")
       \/ kind(p) = "get" /\ Present' = Present /\ key(p) \notin Present /\ Result(p, NotFound)

\* An operation goes on under another label.
LEMMA Moves ==
    ASSUME Kept, Kept', NEW p \in Workers, pc[p] # "idle", NEW label \in Labels, label # "idle",
           pc' = [pc EXCEPT ![p] = label], UNCHANGED <<heap, freed, todo, answer>>
    PROVE  GoesOn(p)
<1>1. Present' = Present
    BY PresentStays DEF Kept
<1>2. pc \in [Workers -> Labels]
    BY DEF Kept, Local
<1> QED BY <1>1, <1>2 DEF GoesOn

\* Every step is one of these.
LEMMA StepIs ==
    ASSUME Kept, Kept', NEW p \in Workers, Step(p)
    PROVE  Starts(p) \/ GoesOn(p) \/ Ends(p)
<1>1. IsSearchTree /\ IsSearchTree'
    BY DEF Kept
<1> USE DEF At, Goto
<1>2. CASE Begin(p)
  <2>1. UNCHANGED <<heap, freed>>
      BY <1>2 DEF Begin
  <2>2. Present' = Present
      BY <1>1, <2>1, PresentStays
  <2> QED BY <1>2, <2>2 DEF Begin, Starts
<1>3. CASE LockNext(p)
  <2>1. CASE ~Valid(at[p].next) \/ at[p].next \in held[p] \/ ~(Behind(p) \ {Null} \subseteq held[p] \ freed)
    <3>1. UNCHANGED <<heap, freed, pc, todo, answer>>
        BY <1>3, <2>1 DEF LockNext, Lock, Fail, callVars
    <3> QED BY <1>1, <3>1, PresentStays DEF GoesOn
  <2>2. CASE ~(~Valid(at[p].next) \/ at[p].next \in held[p] \/ ~(Behind(p) \ {Null} \subseteq held[p] \ freed))
    <3>1. /\ pc' = [pc EXCEPT ![p] = "call"] /\ UNCHANGED <<heap, freed, todo, answer>> /\ pc[p] = "lock"
        BY <1>3, <2>2 DEF LockNext, Lock
    <3> QED BY <3>1, Moves DEF Labels
  <2> QED BY <2>1, <2>2
<1>4. CASE Call(p)
  <2>1. pc' = [pc EXCEPT ![p] = "here"] /\ UNCHANGED <<heap, freed, todo, answer>> /\ pc[p] = "call"
      BY <1>4 DEF Call
  <2> QED BY <2>1, Moves DEF Labels
<1>5. CASE Reread(p)
  <2>1. UNCHANGED <<heap, freed, pc, todo, answer>>
      BY <1>5 DEF Reread, Fail, callVars
  <2> QED BY <1>1, <2>1, PresentStays DEF GoesOn
<1>6. CASE Down(p)
  <2>1. CASE ~Valid(root(p))
    <3>1. UNCHANGED <<heap, freed, pc, todo, answer>>
        BY <1>6, <2>1 DEF Down, Fail, callVars
    <3> QED BY <1>1, <3>1, PresentStays DEF GoesOn
  <2>2. CASE Valid(root(p))
    <3>1. pc' = [pc EXCEPT ![p] = "lock"] /\ UNCHANGED <<heap, freed, todo, answer>> /\ pc[p] = "here"
        BY <1>6, <2>2 DEF Down
    <3> QED BY <3>1, Moves DEF Labels
  <2> QED BY <2>1, <2>2
<1>7. CASE Search(p)
  <2>1. AtLeaf(p, "get")
      BY <1>7, Zenon DEF Search
  <2>2. /\ IsSearchTree /\ todo[p] # <<>> /\ key(p) \in Keys /\ kind(p) = "get" /\ held[p] = {root(p)}
        /\ root(p) \in Path(heap, key(p)) /\ Leafy(heap, root(p)) /\ held[p] \subseteq Record \ freed
      BY <2>1, AtLeafIs
  <2>3. PICK result : result = IF heap[root(p)].key = key(p) THEN "found" ELSE NotFound
      OBVIOUS
  <2>4. Returns(p, {root(p)}, result, UNCHANGED <<heap, freed>>)
      BY <1>7, <2>3, Zenon DEF Search, NotFound
  <2>5. /\ pc' = [pc EXCEPT ![p] = "idle"] /\ todo' = [todo EXCEPT ![p] = Tail(@)]
        /\ Result(p, result) /\ UNCHANGED <<heap, freed>>
      BY <2>2, <2>4 DEF Returns, Unlock, Result
  <2>6. Present' = Present
      BY <1>1, <2>5, PresentStays
  <2>7. pc[p] # "idle"
      BY <2>1 DEF AtLeaf
  <2>8. key(p) \in Present <=> heap[root(p)].key = key(p)
      BY <2>2, LeafDecides
  <2> QED BY <2>2, <2>3, <2>5, <2>6, <2>7, <2>8 DEF Ends
<1>8. CASE InsertPresent(p)
  <2>1. AtLeaf(p, "insert") /\ heap[root(p)].key = key(p)
      BY <1>8 DEF InsertPresent
  <2>2. /\ IsSearchTree /\ todo[p] # <<>> /\ key(p) \in Keys /\ kind(p) = "insert"
        /\ root(p) \in Path(heap, key(p)) /\ Leafy(heap, root(p))
        /\ {parent(p), root(p)} \ {Null} \subseteq held[p] \ freed
      BY <2>1, AtLeafIs
  <2>3. /\ pc' = [pc EXCEPT ![p] = "idle"] /\ todo' = [todo EXCEPT ![p] = Tail(@)]
        /\ Result(p, "insert") /\ UNCHANGED <<heap, freed>>
      BY <1>8, <2>2 DEF InsertPresent, Returns, Unlock, Result
  <2>4. Present' = Present
      BY <1>1, <2>3, PresentStays
  <2>5. pc[p] # "idle"
      BY <2>1 DEF AtLeaf
  <2>6. key(p) \in Present
      BY <2>1, <2>2, LeafDecides
  <2> QED BY <2>2, <2>3, <2>4, <2>5, <2>6 DEF Ends
<1>9. CASE InsertLeaves(p)
  <2>1. /\ AtLeaf(p, "insert")
        /\ pc' = [pc EXCEPT ![p] = "idle"] /\ todo' = [todo EXCEPT ![p] = Tail(@)]
        /\ Result(p, "insert")
      BY <1>9, InsertLeavesIs DEF Result
  <2>2. todo[p] # <<>> /\ kind(p) = "insert"
      BY <2>1, AtLeafIs
  <2>3. Present' = Present \cup {key(p)}
      BY <1>9, InsertAdds
  <2>4. pc[p] # "idle"
      BY <2>1 DEF AtLeaf
  <2> QED BY <2>1, <2>2, <2>3, <2>4 DEF Ends
<1>10. CASE RemoveAbsent(p)
  <2>1. AtLeaf(p, "delete") /\ heap[root(p)].key # key(p)
      BY <1>10 DEF RemoveAbsent
  <2>2. /\ IsSearchTree /\ todo[p] # <<>> /\ key(p) \in Keys /\ kind(p) = "delete"
        /\ root(p) \in Path(heap, key(p)) /\ Leafy(heap, root(p))
        /\ {root(p), parent(p)} \ {Null} \subseteq held[p] \ freed
      BY <2>1, AtLeafIs
  <2>3. /\ pc' = [pc EXCEPT ![p] = "idle"] /\ todo' = [todo EXCEPT ![p] = Tail(@)]
        /\ Result(p, "absent") /\ UNCHANGED <<heap, freed>>
      BY <1>10, <2>2 DEF RemoveAbsent, Returns, Unlock, Result
  <2>4. Present' = Present
      BY <1>1, <2>3, PresentStays
  <2>5. pc[p] # "idle"
      BY <2>1 DEF AtLeaf
  <2>6. key(p) \notin Present
      BY <2>1, <2>2, LeafDecides
  <2> QED BY <2>2, <2>3, <2>4, <2>5, <2>6 DEF Ends
<1>11. CASE RemoveFound(p)
  <2>1. /\ pc' = [pc EXCEPT ![p] = "lockSibling"] /\ UNCHANGED <<heap, freed, todo, answer>>
        /\ pc[p] = "here"
      BY <1>11 DEF RemoveFound, AtLeaf
  <2> QED BY <2>1, Moves DEF Labels
<1>12. CASE RemoveLockSibling(p)
  <2>1. CASE ~Valid(at[p].next) \/ at[p].next \in held[p]
    <3>1. UNCHANGED <<heap, freed, pc, todo, answer>>
        BY <1>12, <2>1 DEF RemoveLockSibling, Lock, Fail, callVars
    <3> QED BY <1>1, <3>1, PresentStays DEF GoesOn
  <2>2. CASE ~(~Valid(at[p].next) \/ at[p].next \in held[p])
    <3>1. {} \ {Null} \subseteq held[p] \ freed
        OBVIOUS
    <3>2. /\ pc' = [pc EXCEPT ![p] = "remove"] /\ UNCHANGED <<heap, freed, todo, answer>>
          /\ pc[p] = "lockSibling"
        BY <1>12, <2>2, <3>1 DEF RemoveLockSibling, Lock
    <3> QED BY <3>2, Moves DEF Labels
  <2> QED BY <2>1, <2>2
<1>13. CASE Remove(p)
  <2>1. /\ pc[p] = "remove"
        /\ pc' = [pc EXCEPT ![p] = "idle"] /\ todo' = [todo EXCEPT ![p] = Tail(@)]
        /\ Result(p, "delete")
      BY <1>13, RemoveIs DEF Result
  <2>2. todo[p] # <<>> /\ kind(p) = "delete"
      BY <2>1, RemovesIs DEF Removes
  <2>3. Present' = Present \ {key(p)}
      BY <1>13, RemoveSubtracts
  <2> QED BY <2>1, <2>2, <2>3 DEF Ends
<1> QED BY <1>2, <1>3, <1>4, <1>5, <1>6, <1>7, <1>8, <1>9, <1>10, <1>11, <1>12, <1>13 DEF Step

\* What has been true of a key includes what is true of it now.
SeenOK ==
    /\ seen \in [Workers -> SUBSET BOOLEAN]
    /\ \A p \in Workers : pc[p] # "idle" =>
          /\ key(p) \in Present => TRUE \in seen[p]
          /\ key(p) \notin Present => FALSE \in seen[p]

\* What a step adds to that.
LEMMA ObserveIs ==
    ASSUME Observe, NEW p \in Workers
    PROVE  /\ pc[p] # "idle" => seen'[p] = seen[p] \cup {key(p) \in Present'}
           /\ pc[p] = "idle" /\ pc'[p] # "idle" => seen'[p] = {key(p) \in Present}
           /\ pc[p] = "idle" /\ pc'[p] = "idle" => seen'[p] = seen[p]
BY Zenon DEF Observe

\* No step touches two operations at once.
LEMMA OneOperation ==
    ASSUME Kept, NEW p \in Workers, Starts(p) \/ GoesOn(p) \/ Ends(p), NEW q \in Workers
    PROVE  /\ pc[q] # "idle" /\ pc'[q] # "idle" => todo'[q] = todo[q]
           /\ pc[q] = "idle" /\ pc'[q] # "idle" =>
                todo'[q] = todo[q] /\ todo[q] # <<>> /\ Present' = Present
           /\ q # p => todo'[q] = todo[q] /\ (pc'[q] = "idle" <=> pc[q] = "idle")
<1>1. pc \in [Workers -> Labels] /\ todo \in [Workers -> Seq(Operation)]
    BY DEF Kept, Local
<1>2. CASE Starts(p)
    BY <1>1, <1>2 DEF Starts
<1>3. CASE GoesOn(p)
    BY <1>3 DEF GoesOn
<1>4. CASE Ends(p)
    BY <1>1, <1>4 DEF Ends
<1> QED BY <1>2, <1>3, <1>4

\* An observation keeps SeenOK if the key that every waiting operation is about
\* stays the same.
LEMMA SeenAfter ==
    ASSUME SeenOK, Observe,
           \A q \in Workers : pc'[q] # "idle" =>
              /\ key(q)' = key(q)
              /\ pc[q] = "idle" => Present' = Present
    PROVE  SeenOK'
<1>1. ASSUME NEW q \in Workers
      PROVE  /\ seen'[q] \in SUBSET BOOLEAN
             /\ pc'[q] # "idle" => /\ key(q) \in Present' => TRUE \in seen'[q]
                                   /\ key(q) \notin Present' => FALSE \in seen'[q]
  <2>1. PICK b, c : b = (key(q) \in Present') /\ c = (key(q) \in Present)
      OBVIOUS
  <2>2. /\ b \in BOOLEAN /\ c \in BOOLEAN
        /\ key(q) \in Present' => b = TRUE
        /\ key(q) \notin Present' => b = FALSE
    <3>1. b \in BOOLEAN /\ c \in BOOLEAN
        BY <2>1, SMT
    <3>2. ASSUME key(q) \in Present' PROVE b = TRUE
      <4>1. (key(q) \in Present') = TRUE
          BY <3>2, SMT
      <4> QED BY <2>1, <4>1, Zenon
    <3>3. ASSUME key(q) \notin Present' PROVE b = FALSE
      <4>1. (key(q) \in Present') = FALSE
          BY <3>3, SMT
      <4> QED BY <2>1, <4>1, Zenon
    <3> QED BY <3>1, <3>2, <3>3
  <2>3. seen[q] \in SUBSET BOOLEAN
      BY DEF SeenOK
  <2>4. CASE pc[q] # "idle"
    <3>1. seen'[q] = seen[q] \cup {b}
        BY <2>1, <2>4, ObserveIs
    <3> QED BY <2>2, <2>3, <3>1
  <2>5. CASE pc[q] = "idle" /\ pc'[q] # "idle"
    <3>1. seen'[q] = {c}
        BY <2>1, <2>5, ObserveIs
    <3>2. b = c
        BY <2>1, <2>5
    <3> QED BY <2>2, <3>1, <3>2
  <2>6. CASE pc[q] = "idle" /\ pc'[q] = "idle"
      BY <2>3, <2>6, ObserveIs
  <2> QED BY <2>4, <2>5, <2>6
<1>2. seen' \in [Workers -> SUBSET BOOLEAN]
  <2>1. seen' = [q \in Workers |-> seen'[q]]
      BY Zenon DEF Observe
  <2> QED BY <1>1, <2>1
<1>3. ASSUME NEW q \in Workers, pc'[q] # "idle"
      PROVE  /\ key(q)' \in Present' => TRUE \in seen'[q]
             /\ key(q)' \notin Present' => FALSE \in seen'[q]
    BY <1>1, <1>3
<1> QED BY <1>2, <1>3, Zenon DEF SeenOK

\* Every step keeps SeenOK.
LEMMA SeenKept == ASSUME Kept, Kept', SeenOK, NoPass, NoPass', [Next]_vars PROVE SeenOK'
<1>1. CASE UNCHANGED vars
  <2>1. UNCHANGED <<heap, freed, pc, todo, seen>>
      BY <1>1 DEF vars, callVars
  <2>2. Present' = Present
      BY <2>1, PresentStays DEF Kept
  <2> QED BY <2>1, <2>2 DEF SeenOK, key
<1>2. ASSUME NEW p \in Workers, Step(p), Observe PROVE SeenOK'
  <2>1. Starts(p) \/ GoesOn(p) \/ Ends(p)
      BY <1>2, StepIs
  <2>2. ASSUME NEW q \in Workers, pc'[q] # "idle"
        PROVE  key(q)' = key(q) /\ (pc[q] = "idle" => Present' = Present)
      BY <2>1, <2>2, OneOperation DEF key
  <2> QED BY <1>2, <2>2, SeenAfter
<1>3. CASE NextPhase /\ Observe
  <2>1. \A q \in Workers : pc'[q] = "idle"
      BY <1>3 DEF NextPhase, Idle, At
  <2> QED BY <1>3, <2>1, SeenAfter
<1>4. ~Pass
    BY PassNot
<1> QED BY <1>1, <1>2, <1>3, <1>4 DEF Next, Stop

\* Nothing is seen before the first operation.
LEMMA InitSeen == Init => SeenOK
<1> SUFFICES ASSUME Init PROVE SeenOK
    OBVIOUS
<1>1. pc = [p \in Workers |-> "idle"] /\ seen = [p \in Workers |-> {}]
    BY DEF Init
<1> QED BY <1>1 DEF SeenOK

-----------------------------------------------------------------------------
(***************************************************************************)
(* Every step of the tree is one of KeySet, or none                        *)
(***************************************************************************)
Doing == [p \in Workers |-> IF pc[p] = "idle" THEN [kind |-> "none"] ELSE Head(todo[p])]

\* The operation of a thread, as KeySet sees it.
LEMMA DoingIs ==
    ASSUME Kept, NEW p \in Workers
    PROVE  /\ pc[p] = "idle" => Doing[p] = [kind |-> "none"]
           /\ pc[p] # "idle" => /\ Doing[p] = Head(todo[p]) /\ Doing[p] \in Operation
                                /\ Doing[p] # [kind |-> "none"]
                                /\ Doing[p].kind = kind(p) /\ Doing[p].key = key(p)
<1>1. pc[p] = "idle" => Doing[p] = [kind |-> "none"]
    BY DEF Doing
<1>2. ASSUME pc[p] # "idle"
      PROVE  /\ Doing[p] = Head(todo[p]) /\ Doing[p] \in Operation /\ Doing[p] # [kind |-> "none"]
             /\ Doing[p].kind = kind(p) /\ Doing[p].key = key(p)
  <2>1. Doing[p] = Head(todo[p])
      BY <1>2 DEF Doing
  <2>2. Head(todo[p]) \in Operation /\ kind(p) \in Kinds
      BY <1>2, OperationIs DEF Kept, Placed
  <2>3. [kind |-> "none"].kind \notin Kinds
      BY DEF Kinds
  <2> QED BY <2>1, <2>2, <2>3 DEF kind, key
<1> QED BY <1>1, <1>2

\* DoingIs as an implication.
LEMMA DoingAlways ==
    Kept => \A p \in Workers :
               /\ pc[p] = "idle" => Doing[p] = [kind |-> "none"]
               /\ pc[p] # "idle" => Doing[p] # [kind |-> "none"] /\ Doing[p].key = key(p)
BY DoingIs

\* DoingAlways of the next state.
LEMMA DoingNext ==
    ASSUME Kept'
    PROVE  \A p \in Workers :
              /\ pc'[p] = "idle" => Doing'[p] = [kind |-> "none"]
              /\ pc'[p] # "idle" => Doing'[p] # [kind |-> "none"] /\ Doing'[p].key = key(p)'
<1>1. (\A p \in Workers :
              /\ pc[p] = "idle" => Doing[p] = [kind |-> "none"]
              /\ pc[p] # "idle" => Doing[p] # [kind |-> "none"] /\ Doing[p].key = key(p))'
    BY DoingAlways, PTL
<1> QED BY <1>1

\* Its observer sees what this one does.
LEMMA ObserveMaps ==
    ASSUME Kept, Kept', Observe,
           \A q \in Workers : pc[q] = "idle" /\ pc'[q] # "idle" => key(q)' = key(q)
    PROVE  Abstract!Observe
<1> DEFINE look(q) == IF Doing[q] # [kind |-> "none"]
                         THEN seen[q] \cup {Doing[q].key \in Present'}
                      ELSE IF Doing'[q] # [kind |-> "none"] THEN {Doing'[q].key \in Present}
                      ELSE seen[q]
<1>1. ASSUME NEW q \in Workers PROVE seen'[q] = look(q)
  <2>1. /\ pc[q] = "idle" => Doing[q] = [kind |-> "none"]
        /\ pc[q] # "idle" => Doing[q] # [kind |-> "none"] /\ Doing[q].key = key(q)
      BY DoingIs
  <2>2. /\ pc'[q] = "idle" => Doing'[q] = [kind |-> "none"]
        /\ pc'[q] # "idle" => Doing'[q] # [kind |-> "none"] /\ Doing'[q].key = key(q)'
      BY DoingNext
  <2>3. CASE pc[q] # "idle"
      BY <2>1, <2>3, ObserveIs
  <2>4. CASE pc[q] = "idle" /\ pc'[q] # "idle"
    <3>1. seen'[q] = {key(q) \in Present} /\ Doing'[q].key = key(q)
        BY <2>2, <2>4, ObserveIs
    <3> QED BY <2>1, <2>2, <2>4, <3>1
  <2>5. CASE pc[q] = "idle" /\ pc'[q] = "idle"
      BY <2>1, <2>2, <2>5, ObserveIs
  <2> QED BY <2>3, <2>4, <2>5
<1>2. seen' = [q \in Workers |-> seen'[q]]
    BY Zenon DEF Observe
<1>3. seen' = [q \in Workers |-> look(q)]
    BY <1>1, <1>2
<1> QED BY <1>3 DEF Abstract!Observe, Abstract!NoCall, Doing

\* The start of an operation.
LEMMA StartMaps ==
    ASSUME Kept, Kept', NEW p \in Workers, Starts(p), Abstract!Observe
    PROVE  Abstract!Next
<1>1. pc \in [Workers -> Labels]
    BY DEF Kept, Local
<1>2. /\ pc[p] = "idle" /\ pc'[p] = "lock" /\ todo' = todo
      /\ \A q \in Workers \ {p} : pc'[q] = pc[q]
    BY <1>1 DEF Starts
<1>3. Doing' = [Doing EXCEPT ![p] = Head(todo[p])]
    BY <1>2 DEF Doing
<1>4. Doing[p] = Abstract!NoCall
    BY <1>2, DoingIs DEF Abstract!NoCall
<1>5. Head(todo[p]) \in Abstract!Calls
    BY OperationIs DEF Kept, Starts, Abstract!Calls, Operation, Kinds
<1>6. Abstract!Begin(p)
  <2>1. \E c \in Abstract!Calls : Doing' = [Doing EXCEPT ![p] = c]
      BY <1>3, <1>5
  <2> QED BY <1>4, <2>1, Zenon DEF Starts, Abstract!Begin, Doing
<1> QED BY <1>6, Zenon DEF Abstract!Next

\* Its end.
LEMMA EndMaps ==
    ASSUME Kept, Kept', SeenOK, NEW p \in Workers, Ends(p), Abstract!Observe
    PROVE  Abstract!Next
<1>1. pc \in [Workers -> Labels] /\ todo \in [Workers -> Seq(Operation)]
    BY DEF Kept, Local
<1>2. /\ pc[p] # "idle" /\ pc'[p] = "idle"
      /\ \A q \in Workers \ {p} : pc'[q] = pc[q] /\ todo'[q] = todo[q]
    BY <1>1 DEF Ends
<1>3. Doing' = [Doing EXCEPT ![p] = Abstract!NoCall]
    BY <1>2 DEF Doing, Abstract!NoCall
<1>4. Doing[p] # Abstract!NoCall /\ Doing[p].kind = kind(p) /\ Doing[p].key = key(p)
    BY <1>2, DoingIs DEF Abstract!NoCall
<1>5. /\ key(p) \in Present => TRUE \in seen[p]
      /\ key(p) \notin Present => FALSE \in seen[p]
    BY <1>2 DEF SeenOK
<1>6. ASSUME NEW what, Result(p, what) PROVE Abstract!Return(p, what)
    BY <1>3, <1>6, Zenon DEF Abstract!Return, Result, Doing
<1>7. CASE kind(p) = "insert" /\ Present' = Present \cup {key(p)} /\ Result(p, "insert")
  <2>1. Abstract!Insert(p)
      BY <1>4, <1>6, <1>7, Zenon DEF Abstract!Insert, Doing
  <2> QED BY <2>1, Zenon DEF Abstract!Next
<1>8. CASE kind(p) = "delete" /\ Present' = Present \ {key(p)} /\ Result(p, "delete")
  <2>1. Abstract!Delete(p)
      BY <1>4, <1>6, <1>8, Zenon DEF Abstract!Delete, Doing
  <2> QED BY <2>1, Zenon DEF Abstract!Next
<1>9. CASE kind(p) = "delete" /\ Present' = Present /\ key(p) \notin Present /\ Result(p, "absent")
  <2>1. Abstract!Absent(p)
      BY <1>4, <1>5, <1>6, <1>9, Zenon DEF Abstract!Absent, Doing
  <2> QED BY <2>1, Zenon DEF Abstract!Next
<1>10. CASE kind(p) = "get" /\ Present' = Present /\ key(p) \in Present /\ Result(p, "found")
  <2>1. Abstract!Found(p)
      BY <1>4, <1>5, <1>6, <1>10, Zenon DEF Abstract!Found, Doing
  <2> QED BY <2>1, Zenon DEF Abstract!Next
<1>11. CASE kind(p) = "get" /\ Present' = Present /\ key(p) \notin Present /\ Result(p, NotFound)
  <2>1. Abstract!Absent(p)
      BY <1>4, <1>5, <1>6, <1>11, Zenon DEF Abstract!Absent, NotFound, Doing
  <2> QED BY <2>1, Zenon DEF Abstract!Next
<1> QED BY <1>7, <1>8, <1>9, <1>10, <1>11 DEF Ends

\* Everything else changes nothing that KeySet knows of.
LEMMA StutterMaps ==
    ASSUME Kept, Kept', SeenOK, Present' = Present, answer' = answer,
           \A q \in Workers : /\ pc'[q] = "idle" <=> pc[q] = "idle"
                              /\ pc[q] # "idle" => todo'[q] = todo[q],
           Observe \/ seen' = seen
    PROVE  UNCHANGED Abstract!vars
<1>1. Doing' = Doing
    BY DEF Doing
<1>2. seen' = seen
  <2>1. CASE Observe
    <3>1. ASSUME NEW q \in Workers PROVE seen'[q] = seen[q]
      <4>1. CASE pc[q] # "idle"
        <5>1. PICK b : b = (key(q) \in Present)
            OBVIOUS
        <5>2. b \in BOOLEAN /\ (key(q) \in Present => b = TRUE) /\ (key(q) \notin Present => b = FALSE)
          <6>1. b \in BOOLEAN
              BY <5>1, SMT
          <6>2. ASSUME key(q) \in Present PROVE b = TRUE
            <7>1. (key(q) \in Present) = TRUE
                BY <6>2, SMT
            <7> QED BY <5>1, <7>1, Zenon
          <6>3. ASSUME key(q) \notin Present PROVE b = FALSE
            <7>1. (key(q) \in Present) = FALSE
                BY <6>3, SMT
            <7> QED BY <5>1, <7>1, Zenon
          <6> QED BY <6>1, <6>2, <6>3
        <5>3. seen'[q] = seen[q] \cup {b}
            BY <2>1, <4>1, <5>1, ObserveIs
        <5>4. b \in seen[q]
            BY <4>1, <5>2 DEF SeenOK
        <5> QED BY <5>3, <5>4
      <4>2. CASE pc[q] = "idle"
          BY <2>1, <4>2, ObserveIs
      <4> QED BY <4>1, <4>2
    <3>2. seen' = [q \in Workers |-> seen'[q]]
        BY <2>1, Zenon DEF Observe
    <3>3. seen = [q \in Workers |-> seen[q]]
        BY DEF SeenOK
    <3> QED BY <3>1, <3>2, <3>3
  <2> QED BY <2>1
<1> QED BY <1>1, <1>2 DEF Abstract!vars, Doing

\* Every step is one of KeySet's, or none of them.
LEMMA StepMaps ==
    ASSUME Kept, Kept', SeenOK, NoPass, NoPass', [Next]_vars
    PROVE  [Abstract!Next]_(Abstract!vars)
<1>1. CASE UNCHANGED vars
  <2>1. UNCHANGED <<heap, freed, pc, todo, answer, seen>>
      BY <1>1 DEF vars, callVars
  <2>2. Present' = Present
      BY <2>1, PresentStays DEF Kept
  <2> QED BY <2>1, <2>2, StutterMaps
<1>2. ASSUME NEW p \in Workers, Step(p), Observe PROVE [Abstract!Next]_(Abstract!vars)
  <2>1. Starts(p) \/ GoesOn(p) \/ Ends(p)
      BY <1>2, StepIs
  <2>2. \A q \in Workers : pc[q] = "idle" /\ pc'[q] # "idle" => key(q)' = key(q)
      BY <2>1, OneOperation DEF key
  <2>3. Abstract!Observe
      BY <1>2, <2>2, ObserveMaps
  <2>4. CASE GoesOn(p)
    <3>1. /\ Present' = Present /\ answer' = answer
          /\ \A q \in Workers : /\ pc'[q] = "idle" <=> pc[q] = "idle"
                                /\ pc[q] # "idle" => todo'[q] = todo[q]
        BY <2>4 DEF GoesOn
    <3> QED BY <1>2, <3>1, StutterMaps
  <2> QED BY <2>1, <2>3, <2>4, StartMaps, EndMaps
<1>3. CASE NextPhase /\ Observe
  <2>1. UNCHANGED <<heap, freed, pc, answer>> /\ \A q \in Workers : pc[q] = "idle"
      BY <1>3 DEF NextPhase, Idle, At
  <2>2. Present' = Present
      BY <2>1, PresentStays DEF Kept
  <2> QED BY <1>3, <2>1, <2>2, StutterMaps
<1>4. ~Pass
    BY PassNot
<1> QED BY <1>1, <1>2, <1>3, <1>4 DEF Next, Stop

\* The initial states are KeySet's.
LEMMA InitMaps == Init => Abstract!Init
<1> SUFFICES ASSUME Init PROVE Abstract!Init
    OBVIOUS
<1>1. Present = {}
  <2>1. Present = LeafKeys(heap, freed)
      BY InitTree, PresentWhen
  <2>2. DOMAIN heap = {1, 2} /\ heap[1].left = 2 /\ heap[2].key = MaxKey
      BY DEF Init, Rec
  <2>3. \A e \in DOMAIN heap \ freed : Leafy(heap, e) => heap[e].key = MaxKey
      BY <2>2 DEF Leafy, Null
  <2> QED BY <2>1, <2>3, KeysAre DEF LeafKeys
<1>2. Doing = [p \in Workers |-> Abstract!NoCall]
    BY DEF Doing, Init, Abstract!NoCall
<1> QED BY <1>1, <1>2, Zenon DEF Init, Abstract!Init, Doing

\* Without passes of the rebalancing thread the tree is a set of keys, whatever
\* insertions, removals and searches run together: each takes effect in one
\* step between its call and its return.
THEOREM LockTreeIsKeySet == Spec /\ []NoPass => IsKeySet
<1>1. Init => SeenOK
    BY InitSeen
<1>2. Kept /\ Kept' /\ SeenOK /\ NoPass /\ NoPass' /\ [Next]_vars => SeenOK'
    BY SeenKept
<1>3. Kept /\ Kept' /\ SeenOK /\ NoPass /\ NoPass' /\ [Next]_vars
        => [Abstract!Next]_(Abstract!vars)
    BY StepMaps
<1>4. Init => Abstract!Init
    BY InitMaps
<1> QED BY <1>1, <1>2, <1>3, <1>4, KeptCorrect, PTL DEF Spec, IsKeySet, Abstract!Spec

-----------------------------------------------------------------------------
(***************************************************************************)
(* Weights: with passes, at any time and beside any updates                *)
(***************************************************************************)
\* The bounds of a sequence that grows by two.
LEMMA TwoMore ==
    ASSUME NEW N \in Nat
    PROVE  1 .. N + 2 = (1 .. N) \cup {N + 1, N + 2}
OBVIOUS

\* A record changed and two added at the end of a heap.
LEMMA AppendedIs ==
    ASSUME NEW H \in Seq(Cell), NEW n \in DOMAIN H, NEW c, NEW d, NEW e, NEW G,
           G = [H EXCEPT ![n] = c] \o <<d, e>>
    PROVE  /\ G[n] = c /\ G[Len(H) + 1] = d /\ G[Len(H) + 2] = e
           /\ \A m \in DOMAIN H \ {n} : G[m] = H[m]
           /\ DOMAIN G = DOMAIN H \cup {Len(H) + 1, Len(H) + 2}
<1> PICK N : N = Len(H)
    OBVIOUS
<1>1. N \in Nat /\ DOMAIN H = 1 .. N
    OBVIOUS
<1>2. PICK S : S = Cell \cup {c, d, e}
    OBVIOUS
<1>3. PICK A, B : A = [H EXCEPT ![n] = c] /\ B = <<d, e>>
    OBVIOUS
<1>4. /\ A \in Seq(S) /\ Len(A) = N /\ DOMAIN A = 1 .. N /\ A[n] = c
      /\ \A m \in DOMAIN H \ {n} : A[m] = H[m]
  <2>1. H \in Seq(S)
      BY <1>2
  <2> QED BY <1>1, <1>2, <1>3, <2>1
<1>5. B \in Seq(S) /\ Len(B) = 2 /\ B[1] = d /\ B[2] = e
    BY <1>2, <1>3
<1>6. /\ A \o B \in Seq(S) /\ Len(A \o B) = Len(A) + Len(B)
      /\ \A i \in 1 .. Len(A) : (A \o B)[i] = A[i]
      /\ \A i \in 1 .. Len(B) : (A \o B)[Len(A) + i] = B[i]
  <2>1. A \in Seq(S) /\ B \in Seq(S)
      BY <1>4, <1>5
  <2> QED BY <2>1, SMTT(30)
<1>7. G = A \o B
    BY <1>3
<1>8. Len(G) = N + 2 /\ DOMAIN G = 1 .. N + 2
    BY <1>1, <1>4, <1>5, <1>6, <1>7
<1>9. 1 .. N + 2 = (1 .. N) \cup {N + 1, N + 2}
    BY <1>1, TwoMore
<1>10. G[N + 1] = d /\ G[N + 2] = e
    BY <1>1, <1>4, <1>5, <1>6, <1>7
<1>11. \A m \in DOMAIN H : G[m] = A[m]
    BY <1>1, <1>4, <1>6, <1>7
<1> QED BY <1>1, <1>4, <1>8, <1>9, <1>10, <1>11

\* Pointers lead to records and never back to the sentinel, which stays as it
\* is above record 2.
Linked(H) ==
    /\ H \in Seq(Cell) /\ Root \in DOMAIN H
    /\ H[Root].weight = 1 /\ H[Root].left = 2 /\ H[Root].right = Null
    /\ \A n \in DOMAIN H, s \in Sides : H[n][s] \in ({Null} \cup DOMAIN H) \ {Root}

\* A leaf weighs 1, an internal record nothing.
Weighs(H) == \A n \in DOMAIN H \ {Root} : H[n].weight = IF Leafy(H, n) THEN 1 ELSE 0

\* The types of what the steps of an update use.
Stages == {"start", "enter", "left", "again", "right"}
Frame == [node : Nat, parent : Nat, stage : Stages]
Typed ==
    /\ held \in [Threads -> SUBSET Nat]
    /\ script \in Scripts /\ phase \in DOMAIN script
    /\ todo \in [Workers -> Seq(Operation)]
    /\ pc \in [Workers -> Labels]
    /\ at \in [Workers -> Locals]
    /\ stack \in Seq(Frame)

\* A worker at the record below the sentinel has come from the sentinel, and
\* has no sibling to remove.
Turned(p) ==
    /\ root(p) \in {Null} \cup Record /\ parent(p) \in {Null} \cup Record
    /\ pc[p] # "idle" => todo[p] # <<>>
    /\ pc[p] = "here" => /\ parent(p) = Null => root(p) = Root
                         /\ parent(p) = Root => root(p) \in {Null, 2}
    /\ pc[p] \in {"lockSibling", "remove"} =>
          parent(p) # Null /\ (parent(p) = Root => at[p].side = "right")

\* What the rebalancing thread has locked no worker has.
Alone == \A p \in Workers : held[p] \cap held[Rebalancer] = {}

\* A call of rebalance holds its record and the parent, which is internal.
Holding(f) ==
    /\ f.node \in Record \ {Root} /\ f.parent \in ({Null} \cup Record) \ {Root}
    /\ f.stage = "start" => f.parent = Null
    /\ f.stage \in {"enter", "left"} =>
          /\ f.node # f.parent /\ f.node \in held[Rebalancer]
          /\ f.parent # Null => f.parent \in held[Rebalancer]
    /\ f.stage = "right" => f.node \in held[Rebalancer]
    /\ f.stage = "enter" => f.parent # Null /\ ~Leafy(heap, f.parent)

\* The calls further out hold nothing: they lock their record again.
Calling ==
    \A i \in DOMAIN stack : Holding(stack[i]) /\ (i > 1 => stack[i].stage = "again")

\* The inductive invariant.
Weighed ==
    /\ Typed /\ Linked(heap) /\ Weighs(heap) /\ Alone /\ Calling
    /\ \A p \in Workers : Turned(p)

\* The fields of a record.
LEMMA FieldsOf ==
    ASSUME NEW H, Linked(H), NEW n \in DOMAIN H
    PROVE  /\ H[n].key \in AllKeys /\ H[n].weight \in Int /\ n \in Nat /\ n # Null
           /\ H[n].left \in ({Null} \cup DOMAIN H) \ {Root}
           /\ H[n].right \in ({Null} \cup DOMAIN H) \ {Root}
           /\ \A s \in Sides : H[n][s] \in ({Null} \cup DOMAIN H) \ {Root}
           /\ Leafy(H, n) <=> \A s \in Sides : H[n][s] = Null
<1>1. H[n] \in Cell /\ n \in Nat /\ n # 0
    BY DEF Linked
<1>2. \A s \in Sides : H[n][s] \in ({Null} \cup DOMAIN H) \ {Root}
    BY DEF Linked
<1> QED BY <1>1, <1>2 DEF Cell, Sides, AllKeys, Leafy, Null

\* The first heap.
LEMMA InitWeighed == Init => Weighed
<1> SUFFICES ASSUME Init PROVE Weighed
    OBVIOUS
<1>1. PICK c, d : c = Rec(MaxKey, 1, 2, Null) /\ d = Rec(MaxKey, 1, Null, Null)
    OBVIOUS
<1>2. /\ c \in Cell /\ c.weight = 1 /\ c.left = 2 /\ c.right = 0
      /\ d \in Cell /\ d.weight = 1 /\ d.left = 0 /\ d.right = 0
      /\ c["left"] = 2 /\ c["right"] = 0 /\ d["left"] = 0 /\ d["right"] = 0
    BY <1>1 DEF Rec, Cell, Null
<1>3. heap = <<c, d>>
    BY <1>1 DEF Init
<1>4. heap \in Seq(Cell) /\ DOMAIN heap = {1, 2} /\ heap[1] = c /\ heap[2] = d
    BY <1>2, <1>3
<1>5. Linked(heap) /\ Weighs(heap)
    BY <1>2, <1>4 DEF Linked, Weighs, Leafy, Sides, Null, Root
<1>6. script \in Seq(Phase) /\ script # <<>>
    BY LockTreeAssumption DEF Init
<1>7. 1 \in DOMAIN script /\ script[1] \in Phase
    BY <1>6
<1>8. script[1].work \in [Workers -> Seq(Operation)]
    BY <1>7 DEF Phase
<1>9. Typed
    BY <1>7, <1>8 DEF Typed, Init, Threads, Labels, Locals, NoWhere, Null, Sides
<1>10. \A p \in Workers : Turned(p)
    BY DEF Init, Turned, NoWhere, parent, root
<1>11. Alone /\ Calling
    BY DEF Init, Alone, Calling, Threads
<1> QED BY <1>5, <1>9, <1>10, <1>11 DEF Weighed

-----------------------------------------------------------------------------
\* A sequence with one element changed.
LEMMA ChangedIs ==
    ASSUME NEW S, NEW H \in Seq(S), NEW n \in DOMAIN H, NEW q \in S
    PROVE  /\ [H EXCEPT ![n] = q] \in Seq(S) /\ DOMAIN [H EXCEPT ![n] = q] = DOMAIN H
           /\ [H EXCEPT ![n] = q][n] = q
           /\ \A m \in DOMAIN H \ {n} : [H EXCEPT ![n] = q][m] = H[m]
OBVIOUS

\* A pointer that is set.
Repoint(H, n, s, c) == [H EXCEPT ![n][s] = c]
DiffersAt(G, H, n, s, c) ==
    /\ Linked(G) /\ DOMAIN G = DOMAIN H
    /\ \A m \in DOMAIN H : G[m].weight = H[m].weight
    /\ \A m \in DOMAIN H, t \in Sides :
          G[m][t] = IF m = n /\ t = s THEN c ELSE H[m][t]

LEMMA Repointed ==
    ASSUME NEW H, Linked(H), NEW n \in DOMAIN H \ {Root}, NEW s \in Sides,
           NEW c \in ({Null} \cup DOMAIN H) \ {Root}
    PROVE  DiffersAt(Repoint(H, n, s, c), H, n, s, c)
<1> PICK G : G = Repoint(H, n, s, c)
    OBVIOUS
<1>1. PICK r : r = H[n]
    OBVIOUS
<1>2. PICK q : q = [r EXCEPT ![s] = c]
    OBVIOUS
<1>3. r \in Cell /\ c \in Nat
    BY <1>1, FieldsOf DEF Linked, Null
<1>4. /\ q \in Cell /\ q.weight = r.weight
      /\ \A t \in Sides : q[t] = IF t = s THEN c ELSE r[t]
  <2>1. CASE s = "left"
      BY <1>2, <1>3, <2>1 DEF Cell, Sides
  <2>2. CASE s = "right"
      BY <1>2, <1>3, <2>2 DEF Cell, Sides
  <2> QED BY <2>1, <2>2 DEF Sides
<1>5. G = [H EXCEPT ![n] = q]
    BY <1>1, <1>2 DEF Repoint
<1>6. H \in Seq(Cell)
    BY DEF Linked
<1>7. /\ G \in Seq(Cell) /\ DOMAIN G = DOMAIN H /\ G[n] = q
      /\ \A m \in DOMAIN H \ {n} : G[m] = H[m]
  <2>1. q \in Cell /\ n \in DOMAIN H
      BY <1>4
  <2> QED BY <1>5, <1>6, <2>1, ChangedIs
<1>8. \A m \in DOMAIN H, t \in Sides : G[m][t] = IF m = n /\ t = s THEN c ELSE H[m][t]
    BY <1>1, <1>4, <1>7
<1>9. G[Root] = H[Root]
    BY <1>7 DEF Linked
<1> QED BY <1>1, <1>4, <1>7, <1>8, <1>9 DEF Linked, DiffersAt

\* A weight that is set to what it is.
LEMMA SameWeight ==
    ASSUME NEW H, Linked(H), NEW n \in DOMAIN H, NEW w, w = H[n].weight
    PROVE  [H EXCEPT ![n].weight = w] = H
<1>1. PICK r : r = H[n]
    OBVIOUS
<1>2. r \in Cell /\ w = r.weight
    BY <1>1 DEF Linked
<1>3. [r EXCEPT !.weight = w] = r
    BY <1>2 DEF Cell
<1>4. H = [H EXCEPT ![n] = r]
    BY <1>1 DEF Linked
<1> QED BY <1>1, <1>3, <1>4

\* A rotation, as its reassignments of pointers, that takes place below a
\* red record n with two children, one of them, u, red as well.
LEMMA RotatedIs ==
    ASSUME Linked(heap), Weighs(heap), NEW n \in Record \ {Root}, NEW m \in Record \ {Root},
           NEW side \in Sides, NEW u, u = Child(n, side), u # Null,
           Far(n, side) # Null, Weight(n) = 0, Weight(u) = 0, ~Leafy(heap, m)
    PROVE  LET G == Rotated(n, m, side) IN
           Linked(G) /\ Weighs(G) /\ DOMAIN G = DOMAIN heap
           /\ \A o \in DOMAIN heap : ~Leafy(heap, o) => ~Leafy(G, o)
<1> PICK H : H = heap
    OBVIOUS
<1>0. Linked(H) /\ Weighs(H)
    OBVIOUS
<1> PICK opp, so : opp = Opposite(side) /\ so = SideOf(m, n)
    OBVIOUS
<1>1. opp \in Sides /\ opp # side /\ so \in Sides
    BY DEF Opposite, Sides, SideOf
<1>2. u \in DOMAIN H \ {Root} /\ n \in DOMAIN H \ {Root} /\ m \in DOMAIN H \ {Root}
    BY DEF Linked, Child, Record
<1>3. PICK x : x = Far(u, side)
    OBVIOUS
<1>4. x \in ({Null} \cup DOMAIN H) \ {Root}
    BY <1>1, <1>2, <1>3 DEF Linked, Child, Far
<1>5. PICK H1 : H1 = Repoint(H, n, side, x)
    OBVIOUS
<1>6. PICK H2 : H2 = Repoint(H1, u, opp, n)
    OBVIOUS
<1>7. PICK H3 : H3 = Repoint(H2, m, so, u)
    OBVIOUS
<1>8. /\ Linked(H1) /\ DOMAIN H1 = DOMAIN H
      /\ \A o \in DOMAIN H : H1[o].weight = H[o].weight
      /\ \A o \in DOMAIN H, t \in Sides : H1[o][t] = IF o = n /\ t = side THEN x ELSE H[o][t]
  <2>1. n \in DOMAIN H \ {Root} /\ x \in ({Null} \cup DOMAIN H) \ {Root} /\ side \in Sides
      BY <1>0, <1>1, <1>2, <1>4, <1>5
  <2>2. DiffersAt(H1, H, n, side, x)
      BY <2>1, <1>0, <1>1, <1>2, <1>4, <1>5, Repointed
  <2> QED BY <2>2, <1>0 DEF DiffersAt
<1>9. /\ Linked(H2) /\ DOMAIN H2 = DOMAIN H
      /\ \A o \in DOMAIN H : H2[o].weight = H[o].weight
      /\ \A o \in DOMAIN H, t \in Sides : H2[o][t] = IF o = u /\ t = opp THEN n ELSE H1[o][t]
  <2>1. u \in DOMAIN H1 \ {Root} /\ n \in ({Null} \cup DOMAIN H1) \ {Root} /\ opp \in Sides
      BY <1>1, <1>2, <1>6, <1>8
  <2>2. DiffersAt(H2, H1, u, opp, n)
      BY <2>1, <1>1, <1>2, <1>6, <1>8, Repointed
  <2> QED BY <2>2, <1>8 DEF DiffersAt
<1>10. /\ Linked(H3) /\ DOMAIN H3 = DOMAIN H
       /\ \A o \in DOMAIN H : H3[o].weight = H[o].weight
       /\ \A o \in DOMAIN H, t \in Sides : H3[o][t] = IF o = m /\ t = so THEN u ELSE H2[o][t]
  <2>1. m \in DOMAIN H2 \ {Root} /\ u \in ({Null} \cup DOMAIN H2) \ {Root} /\ so \in Sides
      BY <1>1, <1>2, <1>7, <1>9
  <2>2. DiffersAt(H3, H2, m, so, u)
      BY <2>1, <1>1, <1>2, <1>7, <1>9, Repointed
  <2> QED BY <2>2, <1>9 DEF DiffersAt
<1>11. Rotated(n, m, side) = H3
  <2>1. Rotated(n, m, side) =
          [[H3 EXCEPT ![u].weight = heap[n].weight] EXCEPT ![n].weight = heap[u].weight]
      BY <1>3, <1>5, <1>6, <1>7 DEF Rotated, Weight, Repoint
  <2>2. [H3 EXCEPT ![u].weight = heap[n].weight] = H3
      BY <1>2, <1>10, SameWeight DEF Weight
  <2>3. [H3 EXCEPT ![n].weight = heap[u].weight] = H3
      BY <1>2, <1>10, SameWeight DEF Weight
  <2> QED BY <2>1, <2>2, <2>3
<1>12. ASSUME NEW o \in DOMAIN H PROVE Leafy(H3, o) <=> Leafy(H, o)
  <2>1. /\ Leafy(H3, o) <=> \A t \in Sides : H3[o][t] = Null
        /\ Leafy(H, o) <=> \A t \in Sides : H[o][t] = Null
      BY <1>10, <1>12, FieldsOf
  <2>2. n # Null /\ H[n][opp] # Null
      BY <1>2, FieldsOf DEF Far, Child
  <2>3. CASE o \in {n, u, m}
    <3>1. ~Leafy(H, o)
        BY <1>2, <2>3 DEF Weighs, Weight
    <3>2. \E t \in Sides : H3[o][t] # Null
      <4>1. H3[m][so] = u
          BY <1>1, <1>2, <1>10
      <4>2. CASE o = m
          BY <1>1, <4>1, <4>2
      <4>3. CASE o # m /\ o = u
        <5>1. H3[u][opp] = n
            BY <1>1, <1>2, <1>9, <1>10, <4>3
        <5> QED BY <1>1, <2>2, <4>3, <5>1
      <4>4. CASE o # m /\ o # u /\ o = n
        <5>1. H3[n][opp] = H[n][opp]
            BY <1>1, <1>2, <1>8, <1>9, <1>10, <4>4
        <5> QED BY <1>1, <2>2, <4>4, <5>1
      <4> QED BY <2>3, <4>2, <4>3, <4>4
    <3> QED BY <2>1, <3>1, <3>2
  <2>4. CASE o \notin {n, u, m}
    <3>1. \A t \in Sides : H3[o][t] = H[o][t]
        BY <1>8, <1>9, <1>10, <1>12, <2>4
    <3> QED BY <2>1, <3>1
  <2> QED BY <2>3, <2>4
<1>13. Weighs(H3)
    BY <1>10, <1>12 DEF Weighs
<1> QED BY <1>10, <1>11, <1>12, <1>13

\* A double rotation: T, the red child of u on the other side, moves up.
LEMMA TwiceRotatedIs ==
    ASSUME Linked(heap), Weighs(heap), NEW n \in Record \ {Root}, NEW m \in Record \ {Root},
           NEW side \in Sides, NEW u, u = Child(n, side), u # Null,
           NEW T, T = Far(u, side), T # Null, Child(u, side) # Null,
           Far(n, side) # Null, Weight(n) = 0, Weight(u) = 0, Weight(T) = 0, ~Leafy(heap, m)
    PROVE  LET G == TwiceRotated(n, m, side) IN
           Linked(G) /\ Weighs(G) /\ DOMAIN G = DOMAIN heap
           /\ \A o \in DOMAIN heap : ~Leafy(heap, o) => ~Leafy(G, o)
<1> PICK H : H = heap
    OBVIOUS
<1>0. Linked(H) /\ Weighs(H)
    OBVIOUS
<1> PICK opp, so : opp = Opposite(side) /\ so = SideOf(m, n)
    OBVIOUS
<1>1. opp \in Sides /\ opp # side /\ so \in Sides /\ Sides = {side, opp}
    BY DEF Opposite, Sides, SideOf
<1>2. u \in DOMAIN H \ {Root} /\ n \in DOMAIN H \ {Root} /\ m \in DOMAIN H \ {Root}
    BY DEF Linked, Child, Record
<1>3. T \in DOMAIN H \ {Root}
    BY <1>1, <1>2 DEF Linked, Child, Far
<1>4. PICK y, z : y = Child(T, side) /\ z = Far(T, side)
    OBVIOUS
<1>5. y \in ({Null} \cup DOMAIN H) \ {Root} /\ z \in ({Null} \cup DOMAIN H) \ {Root}
    BY <1>1, <1>3, <1>4 DEF Linked, Child, Far
<1>6. PICK H1 : H1 = Repoint(H, m, so, T)
    OBVIOUS
<1>7. PICK H2 : H2 = Repoint(H1, T, side, u)
    OBVIOUS
<1>8. PICK H3 : H3 = Repoint(H2, T, opp, n)
    OBVIOUS
<1>9. PICK H4 : H4 = Repoint(H3, u, opp, y)
    OBVIOUS
<1>10. PICK H5 : H5 = Repoint(H4, n, side, z)
    OBVIOUS
<1>11. DiffersAt(H1, H, m, so, T)
  <2>1. m \in DOMAIN H \ {Root} /\ T \in ({Null} \cup DOMAIN H) \ {Root} /\ so \in Sides
      BY <1>0, <1>1, <1>2, <1>3, <1>5 DEF DiffersAt
  <2>2. Linked(H)
      BY <1>0 DEF DiffersAt
  <2> QED BY <2>1, <2>2, <1>6, Repointed
<1>12. DiffersAt(H2, H1, T, side, u)
  <2>1. T \in DOMAIN H1 \ {Root} /\ u \in ({Null} \cup DOMAIN H1) \ {Root} /\ side \in Sides
      BY <1>0, <1>1, <1>2, <1>3, <1>5, <1>11 DEF DiffersAt
  <2>2. Linked(H1)
      BY <1>11 DEF DiffersAt
  <2> QED BY <2>1, <2>2, <1>7, Repointed
<1>13. DiffersAt(H3, H2, T, opp, n)
  <2>1. T \in DOMAIN H2 \ {Root} /\ n \in ({Null} \cup DOMAIN H2) \ {Root} /\ opp \in Sides
      BY <1>0, <1>1, <1>2, <1>3, <1>5, <1>11, <1>12 DEF DiffersAt
  <2>2. Linked(H2)
      BY <1>12 DEF DiffersAt
  <2> QED BY <2>1, <2>2, <1>8, Repointed
<1>14. DiffersAt(H4, H3, u, opp, y)
  <2>1. u \in DOMAIN H3 \ {Root} /\ y \in ({Null} \cup DOMAIN H3) \ {Root} /\ opp \in Sides
      BY <1>0, <1>1, <1>2, <1>3, <1>5, <1>11, <1>12, <1>13 DEF DiffersAt
  <2>2. Linked(H3)
      BY <1>13 DEF DiffersAt
  <2> QED BY <2>1, <2>2, <1>9, Repointed
<1>15. DiffersAt(H5, H4, n, side, z)
  <2>1. n \in DOMAIN H4 \ {Root} /\ z \in ({Null} \cup DOMAIN H4) \ {Root} /\ side \in Sides
      BY <1>0, <1>1, <1>2, <1>3, <1>5, <1>11, <1>12, <1>13, <1>14 DEF DiffersAt
  <2>2. Linked(H4)
      BY <1>14 DEF DiffersAt
  <2> QED BY <2>1, <2>2, <1>10, Repointed
<1>16. Linked(H5) /\ DOMAIN H5 = DOMAIN H /\ \A o \in DOMAIN H : H5[o].weight = H[o].weight
    BY <1>11, <1>12, <1>13, <1>14, <1>15 DEF DiffersAt
<1>17. TwiceRotated(n, m, side) = H5
  <2>1. PICK K : K = [[H1 EXCEPT ![T].weight = heap[n].weight] EXCEPT ![n].weight = heap[T].weight]
      OBVIOUS
  <2>2. TwiceRotated(n, m, side) =
          Repoint(Repoint(Repoint(Repoint(K, T, side, u), T, opp, n), u, opp, y), n, side, z)
      BY <1>4, <1>6, <2>1 DEF TwiceRotated, Weight, Repoint
  <2>3. Linked(H1) /\ T \in DOMAIN H1 /\ n \in DOMAIN H1
        /\ heap[n].weight = H1[T].weight /\ heap[T].weight = H1[n].weight
      BY <1>2, <1>3, <1>11 DEF DiffersAt, Weight
  <2>4. [H1 EXCEPT ![T].weight = heap[n].weight] = H1
      BY <2>3, SameWeight
  <2>5. [H1 EXCEPT ![n].weight = heap[T].weight] = H1
      BY <2>3, SameWeight
  <2>6. K = H1
      BY <2>1, <2>4, <2>5
  <2> QED BY <1>7, <1>8, <1>9, <1>10, <2>2, <2>6
<1>18. /\ \A o \in DOMAIN H, t \in Sides : H1[o][t] = IF o = m /\ t = so THEN T ELSE H[o][t]
       /\ \A o \in DOMAIN H, t \in Sides : H2[o][t] = IF o = T /\ t = side THEN u ELSE H1[o][t]
       /\ \A o \in DOMAIN H, t \in Sides : H3[o][t] = IF o = T /\ t = opp THEN n ELSE H2[o][t]
       /\ \A o \in DOMAIN H, t \in Sides : H4[o][t] = IF o = u /\ t = opp THEN y ELSE H3[o][t]
       /\ \A o \in DOMAIN H, t \in Sides : H5[o][t] = IF o = n /\ t = side THEN z ELSE H4[o][t]
    BY <1>11, <1>12, <1>13, <1>14, <1>15 DEF DiffersAt
<1>19. ASSUME NEW o \in DOMAIN H PROVE Leafy(H5, o) <=> Leafy(H, o)
  <2>1. /\ Leafy(H5, o) <=> \A t \in Sides : H5[o][t] = Null
        /\ Leafy(H, o) <=> \A t \in Sides : H[o][t] = Null
      BY <1>0, <1>16, <1>19, FieldsOf
  <2>2. n # Null /\ u # Null /\ T # Null
        /\ H[n][side] = u /\ H[n][opp] # Null /\ H[u][side] # Null /\ H[u][opp] = T
      BY <1>0, <1>2, <1>3, FieldsOf DEF Far, Child
  <2>3. ~Leafy(H, T)
      BY <1>3 DEF Weighs, Weight
  <2>4. y # Null \/ z # Null
      BY <1>0, <1>1, <1>3, <1>4, <2>3, FieldsOf DEF Far, Child
  <2>5. CASE o \in {n, u, m, T}
    <3>1. ~Leafy(H, o)
        BY <1>2, <1>3, <2>5 DEF Weighs, Weight
    <3>2. \E t \in Sides : H5[o][t] # Null
      <4>1. CASE o = T
        <5>1. CASE T = n /\ T = u
          <6>0. H4[o][opp] = y
              BY <1>1, <1>18, <1>19, <4>1, <5>1
          <6>1. H5[o][side] = z /\ H5[o][opp] = y
              BY <1>1, <1>18, <1>19, <4>1, <5>1, <6>0
          <6> QED BY <1>1, <2>4, <6>1
        <5>2. CASE T = n /\ T # u
          <6>1. H5[o][opp] = n
              BY <1>1, <1>2, <1>3, <1>18, <4>1, <5>2
          <6> QED BY <1>1, <2>2, <6>1
        <5>3. CASE T # n
          <6>1. H5[o][side] = u
              BY <1>1, <1>2, <1>3, <1>18, <4>1, <5>3
          <6> QED BY <1>1, <2>2, <6>1
        <5> QED BY <5>1, <5>2, <5>3
      <4>2. CASE o = u /\ o # T
        <5>1. CASE u = n
          <6>1. H5[o][side] = z /\ H5[o][opp] = y
              BY <1>1, <1>2, <1>3, <1>18, <4>2, <5>1
          <6> QED BY <1>1, <2>4, <6>1
        <5>2. CASE u # n
          <6>1. H5[o][side] \in {T, H[u][side]}
              BY <1>1, <1>2, <1>3, <1>18, <4>2, <5>2
          <6> QED BY <1>1, <2>2, <6>1
        <5> QED BY <5>1, <5>2
      <4>3. CASE o = n /\ o # T /\ o # u
        <5>1. H5[o][opp] \in {T, H[n][opp]}
            BY <1>1, <1>2, <1>3, <1>18, <4>3
        <5> QED BY <1>1, <2>2, <5>1
      <4>4. CASE o = m /\ o \notin {n, u, T}
        <5>1. H5[o][so] = T
            BY <1>1, <1>2, <1>3, <1>18, <4>4
        <5> QED BY <1>1, <2>2, <5>1
      <4> QED BY <2>5, <4>1, <4>2, <4>3, <4>4
    <3> QED BY <2>1, <3>1, <3>2
  <2>6. CASE o \notin {n, u, m, T}
    <3>1. \A t \in Sides : H5[o][t] = H[o][t]
        BY <1>18, <1>19, <2>6
    <3> QED BY <2>1, <3>1
  <2> QED BY <2>5, <2>6
<1>20. Weighs(H5)
    BY <1>16, <1>19 DEF Weighs
<1> QED BY <1>16, <1>17, <1>19, <1>20

\* At an internal record none of the cases that move weight is met.
LEMMA NoWeightMoves ==
    ASSUME Linked(heap), Weighs(heap), NEW n \in Record \ {Root}, ~IsLeaf(n), ~LeadsNowhere(n)
    PROVE  /\ ~BothRed(n) /\ ~checkCase4(n) /\ \A side \in Sides : ~Case5(n, side)
           /\ Weight(n) = 0
           /\ \A side \in Sides : Child(n, side) # Null /\ Far(n, side) # Null
<1>1. \A o \in Record : (IsLeaf(o) <=> Leafy(heap, o)) /\ Weight(o) \in Int
    BY FieldsOf DEF IsLeaf, Leafy, Weight, Record
<1>2. Weight(n) = 0
    BY <1>1 DEF Weighs, Weight, Record
<1>3. \A side \in Sides : Opposite(side) \in Sides
    BY DEF Sides, Opposite
<1>4. ASSUME NEW side \in Sides
      PROVE  /\ Child(n, side) \in Record \ {Root} /\ Child(n, side) # Null
             /\ Weight(Child(n, side)) \in {0, 1}
  <2>1. Child(n, side) # Null
      BY DEF LeadsNowhere, Valid
  <2>2. Child(n, side) \in Record \ {Root}
      BY <2>1, FieldsOf DEF Child, Record
  <2> QED BY <2>1, <2>2, <1>1 DEF Weighs, Weight, Record
<1>5. ~BothRed(n)
    BY <1>2 DEF BothRed
<1>6. ~checkCase4(n)
    BY <1>4 DEF checkCase4
<1>7. \A side \in Sides : ~Case5(n, side)
    BY <1>3, <1>4 DEF Case5, Far
<1> QED BY <1>2, <1>3, <1>4, <1>5, <1>6, <1>7 DEF Far

\* rebalance below a parent that is internal.
LEMMA RebalancedIs ==
    ASSUME Linked(heap), Weighs(heap), NEW n \in Record \ {Root}, NEW m \in Record \ {Root},
           ~IsLeaf(n), ~LeadsNowhere(n), ~Leafy(heap, m),
           NEW G, G = Rebalanced(n, m)
    PROVE  /\ Linked(G) /\ Weighs(G) /\ DOMAIN G = DOMAIN heap
           /\ \A o \in DOMAIN heap : ~Leafy(heap, o) => ~Leafy(G, o)
<1>1. /\ ~BothRed(n) /\ ~checkCase4(n) /\ ~(\E side \in Sides : Case5(n, side))
      /\ Weight(n) = 0
      /\ \A side \in Sides : Child(n, side) # Null /\ Far(n, side) # Null
    BY NoWeightMoves
<1>2. CASE \E side \in Sides : checkCase2(n, side)
  <2>1. PICK side : side = CHOOSE t \in Sides : checkCase2(n, t)
      OBVIOUS
  <2>2. side \in Sides /\ checkCase2(n, side)
      BY <1>2, <2>1
  <2>3. G = Rotated(n, m, side)
      BY <1>1, <1>2, <2>1 DEF Rebalanced
  <2>4. Weight(Child(n, side)) = 0 /\ Child(n, side) # Null /\ Far(n, side) # Null
      BY <1>1, <2>2 DEF checkCase2
  <2> QED BY <1>1, <2>2, <2>3, <2>4, RotatedIs
<1>3. CASE ~(\E side \in Sides : checkCase2(n, side)) /\ \E side \in Sides : Case3(n, side)
  <2>1. PICK side : side = CHOOSE t \in Sides : Case3(n, t)
      OBVIOUS
  <2>2. side \in Sides /\ Case3(n, side)
      BY <1>3, <2>1
  <2>3. G = TwiceRotated(n, m, side)
      BY <1>1, <1>3, <2>1 DEF Rebalanced
  <2>4. PICK u : u = Child(n, side)
      OBVIOUS
  <2>5. u # Null /\ Far(n, side) # Null /\ Weight(u) = 0 /\ Far(u, side) # Null /\ Weight(Far(u, side)) = 0
      BY <1>1, <2>2, <2>4 DEF Case3
  <2>6. u \in Record \ {Root}
      BY <2>2, <2>4, <2>5, FieldsOf DEF Child, Record
  <2>7. ~IsLeaf(u)
      BY <2>5, <2>6 DEF Weighs, Weight, IsLeaf, Leafy, Record
  <2>8. Child(u, side) # Null
      BY <1>1, <2>2, <2>4, <2>5, <2>7 DEF LeadsNowhere, Valid
  <2> QED BY <1>1, <2>2, <2>3, <2>4, <2>5, <2>8, TwiceRotatedIs
<1>4. CASE ~(\E side \in Sides : checkCase2(n, side)) /\ ~(\E side \in Sides : Case3(n, side))
  <2>1. G = heap
      BY <1>1, <1>4 DEF Rebalanced
  <2> QED BY <2>1
<1> QED BY <1>2, <1>3, <1>4

-----------------------------------------------------------------------------
\* What a step of p must do.
LEMMA WorkerKeeps ==
    ASSUME Weighed, Typed', NEW p \in Workers,
           Linked(heap'), Weighs(heap'), Record \subseteq Record',
           \A o \in held[Rebalancer] : o \in Record /\ ~Leafy(heap, o) => ~Leafy(heap', o),
           stack' = stack, held'[Rebalancer] = held[Rebalancer],
           held'[p] \cap held[Rebalancer] = {}, Turned(p)',
           \A q \in Workers \ {p} : /\ pc'[q] = pc[q] /\ at'[q] = at[q]
                                     /\ todo'[q] = todo[q] /\ held'[q] = held[q]
    PROVE  Weighed'
<1>1. ASSUME NEW q \in Workers \ {p} PROVE Turned(q)'
    BY <1>1 DEF Weighed, Turned, root, parent
<1>2. Alone'
    BY DEF Weighed, Alone
<1>3. ASSUME NEW f \in Frame, Holding(f) PROVE Holding(f)'
  <2>1. f.parent # Null => f.parent \in Record
      BY <1>3 DEF Holding
  <2> QED BY <1>3, <2>1 DEF Holding
<1>4. Calling'
  <2>1. \A i \in DOMAIN stack : stack[i] \in Frame
      BY DEF Weighed, Typed
  <2> QED BY <1>3, <2>1 DEF Weighed, Calling
<1> QED BY <1>1, <1>2, <1>4 DEF Weighed

\* A step that stops the system, or changes nothing.
LEMMA StandsStill ==
    ASSUME Weighed, UNCHANGED <<heap, held, script, phase, todo, pc, at, stack>>
    PROVE  Weighed'
<1>1. Typed' /\ Linked(heap') /\ Weighs(heap') /\ Alone'
    BY DEF Weighed, Typed, Alone
<1>2. Calling' /\ \A p \in Workers : Turned(p)'
    BY DEF Weighed, Calling, Holding, Turned, root, parent, Record
<1> QED BY <1>1, <1>2 DEF Weighed

\* A step of p that changes its place, its locals and its locks.
LEMMA MovesAlong ==
    ASSUME Weighed, NEW p \in Workers, UNCHANGED <<heap, script, phase, todo, stack>>,
           NEW label \in Labels, pc' = [pc EXCEPT ![p] = label],
           NEW l \in Locals, at' = [at EXCEPT ![p] = l],
           NEW S \in SUBSET Nat, held' = [held EXCEPT ![p] = S],
           S \cap held[Rebalancer] = {}, Turned(p)'
    PROVE  Weighed'
<1>1. Typed
    BY DEF Weighed
<1>2. p # Rebalancer /\ p \in Threads /\ Rebalancer \in Threads
    BY LockTreeAssumption DEF Threads
<1>3. /\ pc' \in [Workers -> Labels] /\ at' \in [Workers -> Locals]
      /\ held' \in [Threads -> SUBSET Nat]
    BY <1>1 DEF Typed
<1>4. /\ held'[Rebalancer] = held[Rebalancer] /\ held'[p] = S
      /\ \A q \in Workers \ {p} : pc'[q] = pc[q] /\ at'[q] = at[q] /\ held'[q] = held[q]
    BY <1>1, <1>2 DEF Typed, Threads
<1>5. Typed'
    BY <1>1, <1>3 DEF Typed
<1>6. Linked(heap') /\ Weighs(heap') /\ Record \subseteq Record'
      /\ \A o \in held[Rebalancer] : o \in Record /\ ~Leafy(heap, o) => ~Leafy(heap', o)
    BY DEF Weighed, Record
<1> QED BY <1>4, <1>5, <1>6, WorkerKeeps

\* A step that ends p's operation.
LEMMA Finishes ==
    ASSUME Weighed, NEW p \in Workers, UNCHANGED <<script, phase, stack>>,
           pc' = [pc EXCEPT ![p] = "idle"], at' = [at EXCEPT ![p] = NoWhere],
           todo' = [todo EXCEPT ![p] = Tail(@)], todo[p] # <<>>,
           NEW R, held' = [held EXCEPT ![p] = @ \ R],
           Linked(heap'), Weighs(heap'), Record \subseteq Record',
           \A o \in held[Rebalancer] : o \in Record /\ ~Leafy(heap, o) => ~Leafy(heap', o)
    PROVE  Weighed'
<1>1. Typed /\ Alone
    BY DEF Weighed
<1>2. p # Rebalancer /\ p \in Threads /\ Rebalancer \in Threads
    BY LockTreeAssumption DEF Threads
<1>3. held[p] \in SUBSET Nat /\ todo[p] \in Seq(Operation) /\ "idle" \in Labels
    BY <1>1, <1>2 DEF Typed, Labels
<1>4. Tail(todo[p]) \in Seq(Operation) /\ held[p] \ R \in SUBSET Nat /\ NoWhere \in Locals
    BY <1>3, <1>1 DEF NoWhere, Locals, Null, Sides
<1>5. /\ pc' \in [Workers -> Labels] /\ at' \in [Workers -> Locals]
      /\ todo' \in [Workers -> Seq(Operation)] /\ held' \in [Threads -> SUBSET Nat]
    BY <1>1, <1>3, <1>4 DEF Typed
<1>6. /\ held'[Rebalancer] = held[Rebalancer] /\ held'[p] = held[p] \ R
      /\ pc'[p] = "idle" /\ at'[p] = NoWhere
      /\ \A q \in Workers \ {p} : /\ pc'[q] = pc[q] /\ at'[q] = at[q]
                                  /\ todo'[q] = todo[q] /\ held'[q] = held[q]
    BY <1>1, <1>2 DEF Typed, Threads
<1>7. Typed'
    BY <1>1, <1>5 DEF Typed
<1>8. Turned(p)' /\ held'[p] \cap held[Rebalancer] = {}
    BY <1>1, <1>6 DEF Turned, root, parent, NoWhere, Alone
<1> QED BY <1>6, <1>7, <1>8, WorkerKeeps

\* What a worker locks the rebalancing thread has not.
LEMMA LockedAlone ==
    ASSUME Weighed, NEW p \in Workers, NEW n \in Nat, Free(p, n), NEW R
    PROVE  /\ (held[p] \cup {n}) \ R \in SUBSET Nat
           /\ ((held[p] \cup {n}) \ R) \cap held[Rebalancer] = {}
<1>1. n \notin held[Rebalancer]
    BY LockTreeAssumption DEF Free, Shared, Threads
<1>2. held[p] \in SUBSET Nat /\ held[p] \cap held[Rebalancer] = {}
    BY DEF Weighed, Typed, Alone, Threads
<1> QED BY <1>1, <1>2

\* The locals of a worker.
LEMMA LocalsOf ==
    ASSUME Weighed, NEW p \in Workers
    PROVE  /\ at[p] \in Locals /\ at[p].next \in Nat /\ parent(p) \in Nat /\ root(p) \in Nat
           /\ at[p].side \in Sides /\ at = [at EXCEPT ![p] = at[p]] /\ held = [held EXCEPT ![p] = held[p]]
           /\ held[p] \in SUBSET Nat /\ held[p] \cap held[Rebalancer] = {}
           /\ Root \in Nat /\ Null \in Nat /\ Root # Null /\ Root \in Record
           /\ \A n \in Record : \A k : heap[n][Toward(n, k)] \in ({Null} \cup Record) \ {Root}
           /\ Record \subseteq Nat
<1>1. at[p] \in Locals /\ at \in [Workers -> Locals] /\ held \in [Threads -> SUBSET Nat] /\ p \in Threads
    BY DEF Weighed, Typed, Threads
<1>2. at[p].next \in Nat /\ parent(p) \in Nat /\ root(p) \in Nat /\ at[p].side \in Sides
    BY <1>1 DEF Locals, parent, root
<1>3. at = [at EXCEPT ![p] = at[p]] /\ held = [held EXCEPT ![p] = held[p]]
    BY <1>1
<1>4. Linked(heap) /\ Alone
    BY DEF Weighed
<1>5. \A n \in Record : \A k : heap[n][Toward(n, k)] \in ({Null} \cup Record) \ {Root}
    BY <1>4 DEF Linked, Record, Toward, Sides
<1>6. Record \subseteq Nat /\ Root \in Record
    BY <1>4 DEF Linked, Record
<1> QED BY <1>1, <1>2, <1>3, <1>4, <1>5, <1>6 DEF Alone, Root, Null

\* Going down.
LEMMA DownWeighed ==
    ASSUME Weighed, NEW p \in Workers,
           Begin(p) \/ LockNext(p) \/ Call(p) \/ Reread(p) \/ Down(p)
    PROVE  Weighed'
<1> PICK l : l = at[p]
    OBVIOUS
<1>0. l \in Locals /\ Turned(p) /\ at \in [Workers -> Locals]
    BY LocalsOf DEF Weighed, Typed
<1>1. CASE Begin(p)
  <2>1. PICK k : k = [l EXCEPT !.next = Root]
      OBVIOUS
  <2>2. k \in Locals /\ k.root = l.root /\ k.parent = l.parent
      BY <1>0, <2>1, LocalsOf DEF Locals
  <2>3. at' = [at EXCEPT ![p] = k] /\ at'[p] = k /\ pc' = [pc EXCEPT ![p] = "lock"] /\ pc'[p] = "lock"
        /\ UNCHANGED <<heap, held, script, phase, todo, stack>> /\ todo[p] # <<>>
      BY <1>0, <1>1, <2>1 DEF Begin, Goto, Others, rebalVars, Weighed, Typed
  <2>4. Turned(p)'
      BY <1>0, <2>2, <2>3 DEF Turned, root, parent, Record
  <2>5. "lock" \in Labels
      BY DEF Labels
  <2> QED BY <2>2, <2>3, <2>4, <2>5, LocalsOf, MovesAlong
<1>2. CASE LockNext(p)
  <2>1. CASE UNCHANGED <<heap, held, script, phase, todo, pc, at, stack>>
      BY <2>1, StandsStill
  <2>2. CASE ~UNCHANGED <<heap, held, script, phase, todo, pc, at, stack>>
    <3>1. PICK S : S = (held[p] \cup {at[p].next}) \ Behind(p)
        OBVIOUS
    <3>2. /\ Free(p, at[p].next) /\ held' = [held EXCEPT ![p] = S]
          /\ pc' = [pc EXCEPT ![p] = "call"] /\ UNCHANGED <<heap, todo, at, script, phase, stack>>
          /\ pc[p] = "lock"
        BY <1>2, <2>2, <3>1 DEF LockNext, Lock, Fail, Goto, Others, rebalVars, callVars, At
    <3>3. S \in SUBSET Nat /\ S \cap held[Rebalancer] = {}
        BY <3>1, <3>2, LocalsOf, LockedAlone
    <3>4. Turned(p)' /\ "call" \in Labels
        BY <1>0, <3>2 DEF Turned, root, parent, Record, Weighed, Typed, Labels
    <3> QED BY <3>2, <3>3, <3>4, LocalsOf, MovesAlong
  <2> QED BY <2>1, <2>2
<1>3. CASE Call(p)
  <2>1. PICK n : n = IF root(p) = Null THEN Root ELSE heap[root(p)][Toward(root(p), key(p))]
      OBVIOUS
  <2>2. n \in {Null} \cup Record /\ n \in Nat /\ (root(p) = Root => n \in {Null, 2})
        /\ (root(p) = Null => n = Root)
    <3>1. root(p) # Null => root(p) \in Record
        BY <1>0 DEF Turned
    <3>2. n \in {Null} \cup Record /\ n \in Nat
        BY <2>1, <3>1, LocalsOf
    <3>3. root(p) = Root => n \in {Null, 2}
        BY <2>1, LocalsOf DEF Weighed, Linked, Toward
    <3> QED BY <2>1, <3>2, <3>3
  <2>3. PICK k : k = [l EXCEPT !.parent = root(p), !.root = n]
      OBVIOUS
  <2>4. k \in Locals /\ k.root = n /\ k.parent = root(p)
      BY <1>0, <2>2, <2>3, LocalsOf DEF Locals
  <2>5. /\ at' = [at EXCEPT ![p] = k] /\ at'[p] = k /\ pc' = [pc EXCEPT ![p] = "here"] /\ pc'[p] = "here"
        /\ UNCHANGED <<heap, held, script, phase, todo, stack>> /\ pc[p] = "call"
      BY <1>0, <1>3, <2>1, <2>3 DEF Call, At, Goto, Others, rebalVars, Weighed, Typed
  <2>6. Turned(p)' /\ "here" \in Labels
      BY <1>0, <2>2, <2>4, <2>5 DEF Turned, root, parent, Record, Labels
  <2> QED BY <2>4, <2>5, <2>6, LocalsOf, MovesAlong
<1>4. CASE Reread(p)
  <2>1. UNCHANGED <<heap, held, script, phase, todo, pc, at, stack>>
      BY <1>4 DEF Reread, Fail, callVars, rebalVars
  <2> QED BY <2>1, StandsStill
<1>5. CASE Down(p)
  <2>1. CASE UNCHANGED <<heap, held, script, phase, todo, pc, at, stack>>
      BY <2>1, StandsStill
  <2>2. CASE ~UNCHANGED <<heap, held, script, phase, todo, pc, at, stack>>
    <3>1. PICK n : n = heap[root(p)][Toward(root(p), key(p))]
        OBVIOUS
    <3>2. /\ Valid(root(p)) /\ at' = [at EXCEPT ![p].next = n] /\ pc' = [pc EXCEPT ![p] = "lock"]
          /\ UNCHANGED <<heap, held, script, phase, todo, stack>> /\ pc[p] = "here"
        BY <1>5, <2>2, <3>1 DEF Down, Fail, Goto, Others, rebalVars, callVars, At
    <3>3. n \in Nat
        BY <1>0, <3>1, <3>2, LocalsOf DEF Turned, Valid
    <3>4. PICK k : k = [l EXCEPT !.next = n]
        OBVIOUS
    <3>5. k \in Locals /\ k.root = l.root /\ k.parent = l.parent
        BY <1>0, <3>3, <3>4 DEF Locals
    <3>6. at' = [at EXCEPT ![p] = k] /\ at'[p] = k /\ pc'[p] = "lock"
        BY <1>0, <3>2, <3>4 DEF Weighed, Typed
    <3>7. Turned(p)' /\ "lock" \in Labels
        BY <1>0, <3>2, <3>5, <3>6 DEF Turned, root, parent, Record, Labels
    <3> QED BY <3>2, <3>5, <3>6, <3>7, LocalsOf, MovesAlong
  <2> QED BY <2>1, <2>2
<1> QED BY <1>1, <1>2, <1>3, <1>4, <1>5

\* What the leaf that p stands at is like.
LEMMA LeafWeighs ==
    ASSUME Weighed, NEW p \in Workers, NEW what, AtLeaf(p, what)
    PROVE  /\ root(p) \in Record \ {Root} /\ Leafy(heap, root(p)) /\ heap[root(p)].weight = 1
           /\ parent(p) \in Record /\ parent(p) # Null
           /\ parent(p) = Root => root(p) = 2
           /\ pc[p] = "here" /\ todo[p] # <<>>
<1>1. /\ pc[p] = "here" /\ root(p) # Null /\ Turned(p) /\ Linked(heap) /\ Weighs(heap)
      /\ IsLeaf(root(p)) /\ Root # Null
    BY DEF AtLeaf, At, Valid, Weighed, Root, Null
<1>2. root(p) \in Record
    BY <1>1 DEF Turned
<1>3. Leafy(heap, root(p)) /\ root(p) # Root
    BY <1>1, <1>2 DEF IsLeaf, Leafy, Linked, Null
<1>4. heap[root(p)].weight = 1
    BY <1>1, <1>2, <1>3 DEF Weighs, Record
<1>5. parent(p) # Null /\ parent(p) \in Record
    BY <1>1, <1>3 DEF Turned
<1> QED BY <1>1, <1>2, <1>3, <1>4, <1>5 DEF Turned

\* An operation that ends without a change to the tree.
LEMMA ReturnWeighed ==
    ASSUME Weighed, NEW p \in Workers, Search(p) \/ InsertPresent(p) \/ RemoveAbsent(p)
    PROVE  Weighed'
<1>1. CASE UNCHANGED <<heap, held, script, phase, todo, pc, at, stack>>
    BY <1>1, StandsStill
<1>2. CASE ~UNCHANGED <<heap, held, script, phase, todo, pc, at, stack>>
  <2>1. PICK R : R = IF Search(p) THEN {root(p)} ELSE {parent(p), root(p)}
      OBVIOUS
  <2>2. Search(p) => /\ held' = [held EXCEPT ![p] = @ \ {root(p)}] /\ UNCHANGED <<heap, script, phase, stack>>
                     /\ pc' = [pc EXCEPT ![p] = "idle"] /\ at' = [at EXCEPT ![p] = NoWhere]
                     /\ todo' = [todo EXCEPT ![p] = Tail(@)]
      BY <1>2, Zenon DEF Search, Returns, Unlock, Fail, callVars, rebalVars, Others, Goto
  <2>3. InsertPresent(p) =>
                     /\ held' = [held EXCEPT ![p] = @ \ {parent(p), root(p)}]
                     /\ UNCHANGED <<heap, script, phase, stack>>
                     /\ pc' = [pc EXCEPT ![p] = "idle"] /\ at' = [at EXCEPT ![p] = NoWhere]
                     /\ todo' = [todo EXCEPT ![p] = Tail(@)]
      BY <1>2, Zenon DEF InsertPresent, Returns, Unlock, Fail, callVars, rebalVars, Others, Goto
  <2>4. RemoveAbsent(p) =>
                     /\ held' = [held EXCEPT ![p] = @ \ {root(p), parent(p)}]
                     /\ UNCHANGED <<heap, script, phase, stack>>
                     /\ pc' = [pc EXCEPT ![p] = "idle"] /\ at' = [at EXCEPT ![p] = NoWhere]
                     /\ todo' = [todo EXCEPT ![p] = Tail(@)]
      BY <1>2, Zenon DEF RemoveAbsent, Returns, Unlock, Fail, callVars, rebalVars, Others, Goto
  <2>5. todo[p] # <<>>
      BY LeafWeighs DEF Search, InsertPresent, RemoveAbsent
  <2>6. Linked(heap') /\ Weighs(heap') /\ Record \subseteq Record'
        /\ \A o \in held[Rebalancer] : o \in Record /\ ~Leafy(heap, o) => ~Leafy(heap', o)
      BY <2>2, <2>3, <2>4 DEF Weighed, Record
  <2>7. CASE Search(p)
      BY <2>2, <2>5, <2>6, <2>7, Finishes
  <2>8. CASE InsertPresent(p)
      BY <2>3, <2>5, <2>6, <2>8, Finishes
  <2>9. CASE RemoveAbsent(p)
      BY <2>4, <2>5, <2>6, <2>9, Finishes
  <2> QED BY <2>7, <2>8, <2>9
<1> QED BY <1>1, <1>2

\* The sibling of the leaf to remove is chosen, and locked.
LEMMA SiblingWeighed ==
    ASSUME Weighed, NEW p \in Workers, RemoveFound(p) \/ RemoveLockSibling(p)
    PROVE  Weighed'
<1> PICK l : l = at[p]
    OBVIOUS
<1>0. l \in Locals /\ Turned(p) /\ at \in [Workers -> Locals] /\ Linked(heap)
    BY LocalsOf DEF Weighed, Typed
<1>1. CASE RemoveFound(p)
  <2>1. PICK side, n : /\ side = (IF heap[parent(p)].left = root(p) THEN "right" ELSE "left")
                       /\ n = heap[parent(p)][side]
      OBVIOUS
  <2>2. /\ at' = [at EXCEPT ![p].side = side, ![p].next = n] /\ pc' = [pc EXCEPT ![p] = "lockSibling"]
        /\ UNCHANGED <<heap, held, script, phase, todo, stack>>
      BY <1>1, <2>1 DEF RemoveFound, Goto, Others, rebalVars
  <2>3. /\ parent(p) \in Record /\ parent(p) # Null /\ todo[p] # <<>>
        /\ parent(p) = Root => root(p) = 2
      BY <1>1, LeafWeighs DEF RemoveFound
  <2>4. side \in Sides /\ n \in Nat /\ (parent(p) = Root => side = "right")
    <3>1. side \in Sides
        BY <2>1 DEF Sides
    <3>2. n \in {Null} \cup Record
        BY <1>0, <2>1, <2>3, <3>1 DEF Linked, Record
    <3>3. parent(p) = Root => side = "right"
        BY <1>0, <2>1, <2>3 DEF Linked
    <3> QED BY <3>1, <3>2, <3>3, LocalsOf
  <2>5. PICK k : k = [l EXCEPT !.side = side, !.next = n]
      OBVIOUS
  <2>6. k \in Locals /\ k.root = l.root /\ k.parent = l.parent /\ k.side = side
      BY <1>0, <2>4, <2>5 DEF Locals
  <2>7. at' = [at EXCEPT ![p] = k] /\ at'[p] = k /\ pc'[p] = "lockSibling"
      BY <1>0, <2>2, <2>5 DEF Weighed, Typed
  <2>8. Turned(p)' /\ "lockSibling" \in Labels
      BY <1>0, <2>2, <2>3, <2>4, <2>6, <2>7 DEF Turned, root, parent, Record, Labels
  <2> QED BY <2>2, <2>6, <2>7, <2>8, LocalsOf, MovesAlong
<1>2. CASE RemoveLockSibling(p)
  <2>1. CASE UNCHANGED <<heap, held, script, phase, todo, pc, at, stack>>
      BY <2>1, StandsStill
  <2>2. CASE ~UNCHANGED <<heap, held, script, phase, todo, pc, at, stack>>
    <3>1. PICK S : S = (held[p] \cup {at[p].next}) \ {}
        OBVIOUS
    <3>2. /\ Free(p, at[p].next) /\ held' = [held EXCEPT ![p] = S]
          /\ pc' = [pc EXCEPT ![p] = "remove"] /\ UNCHANGED <<heap, todo, at, script, phase, stack>>
          /\ pc[p] = "lockSibling"
        BY <1>2, <2>2, <3>1 DEF RemoveLockSibling, Lock, Fail, Goto, Others, rebalVars, callVars, At
    <3>3. S \in SUBSET Nat /\ S \cap held[Rebalancer] = {}
        BY <3>1, <3>2, LocalsOf, LockedAlone
    <3>4. Turned(p)' /\ "remove" \in Labels
        BY <1>0, <3>2 DEF Turned, root, parent, Record, Weighed, Typed, Labels
    <3> QED BY <3>2, <3>3, <3>4, LocalsOf, MovesAlong
  <2> QED BY <2>1, <2>2
<1> QED BY <1>1, <1>2

\* The two leaves of an insertion take a unit each, the leaf that was there
\* loses its own.
LEMMA InsertWeighed ==
    ASSUME Weighed, NEW p \in Workers, InsertLeaves(p)
    PROVE  Weighed'
<1>1. CASE UNCHANGED <<heap, held, script, phase, todo, pc, at, stack>>
    BY <1>1, StandsStill
<1>2. CASE ~UNCHANGED <<heap, held, script, phase, todo, pc, at, stack>>
  <2>1. PICK n : n = root(p)
      OBVIOUS
  <2> PICK lo, hi : /\ lo = (IF key(p) <= heap[n].key THEN key(p) ELSE heap[n].key)
                    /\ hi = (IF key(p) <= heap[n].key THEN heap[n].key ELSE key(p))
      OBVIOUS
  <2>2. AtLeaf(p, "insert")
      BY DEF InsertLeaves
  <2>3. /\ n \in Record \ {Root} /\ Leafy(heap, n) /\ heap[n].weight = 1 /\ todo[p] # <<>>
        /\ Linked(heap) /\ Weighs(heap)
      BY <2>1, <2>2, LeafWeighs DEF Weighed
  <2>4. lo \in AllKeys /\ hi \in AllKeys
    <3>1. todo[p] \in Seq(Operation)
        BY DEF Weighed, Typed
    <3>2. Head(todo[p]) \in Operation
        BY <2>3, <3>1
    <3>3. key(p) \in AllKeys
        BY <3>2 DEF Operation, key, AllKeys
    <3>4. heap[n].key \in AllKeys
        BY <2>3, FieldsOf DEF Record
    <3> QED BY <3>3, <3>4
  <2>5. /\ heap' = [heap EXCEPT ![n] = Rec(lo, @.weight - 1, Len(heap) + 1, Len(heap) + 2)]
                      \o << Rec(lo, 1, Null, Null), Rec(hi, 1, Null, Null) >>
        /\ held' = [held EXCEPT ![p] = @ \ {parent(p), n}] /\ UNCHANGED <<script, phase, stack>>
        /\ pc' = [pc EXCEPT ![p] = "idle"] /\ at' = [at EXCEPT ![p] = NoWhere]
        /\ todo' = [todo EXCEPT ![p] = Tail(@)]
      BY <1>2, <2>1 DEF InsertLeaves, Returns, Unlock, Fail, callVars, rebalVars, Others, Goto
  <2> PICK c, d, e : /\ c = Rec(lo, heap[n].weight - 1, Len(heap) + 1, Len(heap) + 2)
                     /\ d = Rec(lo, 1, Null, Null) /\ e = Rec(hi, 1, Null, Null)
      OBVIOUS
  <2> PICK a, b : a = Len(heap) + 1 /\ b = Len(heap) + 2
      OBVIOUS
  <2>6. heap \in Seq(Cell) /\ a \in Nat /\ b \in Nat /\ a # Null /\ b # Null /\ a # Root /\ b # Root
        /\ a \notin Record /\ b \notin Record /\ a # b
      BY <2>3 DEF Linked, Null, Root, Record
  <2>7. /\ c \in Cell /\ d \in Cell /\ e \in Cell /\ c.weight = 0 /\ d.weight = 1 /\ e.weight = 1
        /\ c.left = a /\ c.right = b /\ c["left"] = a /\ c["right"] = b
        /\ d.left = Null /\ d.right = Null /\ d["left"] = Null /\ d["right"] = Null
        /\ e.left = Null /\ e.right = Null /\ e["left"] = Null /\ e["right"] = Null
      BY <2>3, <2>4, <2>6 DEF Rec, Cell, AllKeys, Null
  <2>8. heap' = [heap EXCEPT ![n] = c] \o <<d, e>>
      BY <2>5
  <2>9. /\ heap'[n] = c /\ heap'[a] = d /\ heap'[b] = e
        /\ \A o \in Record \ {n} : heap'[o] = heap[o]
        /\ Record' = Record \cup {a, b}
    <3>1. heap \in Seq(Cell) /\ n \in DOMAIN heap
        BY <2>3, <2>6 DEF Record
    <3>2. /\ heap'[n] = c /\ heap'[Len(heap) + 1] = d /\ heap'[Len(heap) + 2] = e
          /\ \A o \in DOMAIN heap \ {n} : heap'[o] = heap[o]
          /\ DOMAIN heap' = DOMAIN heap \cup {Len(heap) + 1, Len(heap) + 2}
        BY <2>8, <3>1, AppendedIs
    <3> QED BY <3>2 DEF Record
  <2>10. heap' \in Seq(Cell)
    <3>1. PICK A, B : A = [heap EXCEPT ![n] = c] /\ B = <<d, e>>
        OBVIOUS
    <3>2. A \in Seq(Cell)
        BY <2>3, <2>6, <2>7, <3>1, ChangedIs DEF Record
    <3>3. B \in Seq(Cell)
        BY <2>7, <3>1
    <3>4. A \o B \in Seq(Cell)
        BY <3>2, <3>3
    <3> QED BY <2>8, <3>1, <3>4
  <2>11. Linked(heap')
    <3>1. ASSUME NEW o \in Record', NEW s \in Sides PROVE heap'[o][s] \in ({Null} \cup Record') \ {Root}
      <4>1. CASE o \in Record \ {n}
        <5>1. heap[o][s] \in ({Null} \cup Record) \ {Root}
            BY <2>3, <4>1 DEF Linked, Record
        <5> QED BY <2>9, <4>1, <5>1
      <4>2. CASE o \in {n, a, b}
          BY <2>6, <2>7, <2>9, <4>2 DEF Sides, Root, Null
      <4> QED BY <2>9, <4>1, <4>2
    <3>2. heap'[Root] = heap[Root] /\ Root \in Record'
        BY <2>3, <2>9 DEF Linked, Record
    <3> QED BY <2>3, <2>10, <3>1, <3>2 DEF Linked, Record
  <2>12. Weighs(heap')
    <3>1. ASSUME NEW o \in Record' \ {Root}
          PROVE  heap'[o].weight = IF Leafy(heap', o) THEN 1 ELSE 0
      <4>1. CASE o \in Record \ {n}
          BY <2>3, <2>9, <4>1 DEF Weighs, Leafy, Record
      <4>2. CASE o \in {n, a, b}
          BY <2>6, <2>7, <2>9, <4>2 DEF Leafy
      <4> QED BY <2>9, <4>1, <4>2
    <3> QED BY <3>1 DEF Weighs, Record
  <2>13. \A o \in held[Rebalancer] : o \in Record /\ ~Leafy(heap, o) => ~Leafy(heap', o)
      BY <2>3, <2>9 DEF Leafy
  <2>14. Record \subseteq Record'
      BY <2>9
  <2> QED BY <2>3, <2>5, <2>11, <2>12, <2>13, <2>14, Finishes
<1> QED BY <1>1, <1>2

\* The parent that takes the sibling's place weighed nothing.
LEMMA RemoveWeighed ==
    ASSUME Weighed, NEW p \in Workers, Remove(p)
    PROVE  Weighed'
<1>1. CASE UNCHANGED <<heap, held, script, phase, todo, pc, at, stack>>
    BY <1>1, StandsStill
<1>2. CASE ~UNCHANGED <<heap, held, script, phase, todo, pc, at, stack>>
  <2> PICK m, side : m = parent(p) /\ side = at[p].side
      OBVIOUS
  <2> PICK s : s = heap[m][side]
      OBVIOUS
  <2>1. /\ pc[p] = "remove" /\ Valid(s)
        /\ heap' = [heap EXCEPT ![m] = Rec(heap[s].key, @.weight + heap[s].weight,
                                            heap[s].left, heap[s].right)]
        /\ {root(p), s, m} \ {Null} \subseteq held[p] \ freed
        /\ held' = [held EXCEPT ![p] = @ \ {root(p), s, m}] /\ UNCHANGED <<script, phase, stack>>
        /\ pc' = [pc EXCEPT ![p] = "idle"] /\ at' = [at EXCEPT ![p] = NoWhere]
        /\ todo' = [todo EXCEPT ![p] = Tail(@)]
      BY <1>2 DEF Remove, Returns, Unlock, Fail, callVars, rebalVars, Others, Goto, At
  <2>2. /\ m \in Record /\ m # Null /\ (m = Root => side = "right") /\ side \in Sides
        /\ todo[p] # <<>> /\ Linked(heap) /\ Weighs(heap)
      BY <2>1, LocalsOf DEF Turned, Weighed
  <2>3. s # Null /\ s \in Record \ {Root}
      BY <2>1, <2>2 DEF Valid, Linked, Record
  <2>4. m # Root
      BY <2>2, <2>3 DEF Linked
  <2>5. ~Leafy(heap, m) /\ heap[m].weight = 0
      BY <2>2, <2>3, <2>4, FieldsOf DEF Weighs, Record
  <2>6. heap[s].weight = IF Leafy(heap, s) THEN 1 ELSE 0
      BY <2>2, <2>3 DEF Weighs, Record
  <2>7. PICK w : w = heap[m].weight + heap[s].weight
      OBVIOUS
  <2>8. w = heap[s].weight /\ w \in Int
      BY <2>5, <2>6, <2>7
  <2>9. PICK c : c = Rec(heap[s].key, w, heap[s].left, heap[s].right)
      OBVIOUS
  <2>10. heap' = [heap EXCEPT ![m] = c]
      BY <2>1, <2>7, <2>9
  <2>11. /\ heap[s].key \in AllKeys /\ heap[s].left \in ({Null} \cup Record) \ {Root}
         /\ heap[s].right \in ({Null} \cup Record) \ {Root} /\ Record \subseteq Nat
      BY <2>2, <2>3, FieldsOf, LocalsOf DEF Record
  <2>12. /\ c \in Cell /\ c.weight = w /\ c.left = heap[s].left /\ c.right = heap[s].right
         /\ c["left"] = heap[s].left /\ c["right"] = heap[s].right
    <3>1. PICK k, x, y : k = heap[s].key /\ x = heap[s].left /\ y = heap[s].right
        OBVIOUS
    <3>2. k \in AllKeys /\ x \in Nat /\ y \in Nat
      <4>1. Null \in Nat /\ Record \subseteq Nat
          BY LocalsOf
      <4>2. x \in {Null} \cup Record /\ y \in {Null} \cup Record /\ k \in AllKeys
          BY <2>11, <3>1
      <4> QED BY <4>1, <4>2
    <3>3. c = Rec(k, w, x, y)
        BY <2>9, <3>1
    <3>4. c \in Cell /\ c.weight = w /\ c.left = x /\ c.right = y /\ c["left"] = x /\ c["right"] = y
        BY <2>8, <3>2, <3>3 DEF Rec, Cell, AllKeys
    <3> QED BY <3>1, <3>4
  <2>13. /\ heap' \in Seq(Cell) /\ Record' = Record /\ heap'[m] = c
         /\ \A o \in Record \ {m} : heap'[o] = heap[o]
    <3>1. heap \in Seq(Cell) /\ m \in DOMAIN heap
        BY <2>2 DEF Linked, Record
    <3> QED BY <2>10, <2>12, <3>1, ChangedIs DEF Record
  <2>14. Linked(heap')
    <3>1. ASSUME NEW o \in Record', NEW t \in Sides PROVE heap'[o][t] \in ({Null} \cup Record') \ {Root}
      <4>1. CASE o # m
          BY <2>2, <2>13, <4>1 DEF Linked, Record
      <4>2. CASE o = m
          BY <2>11, <2>12, <2>13, <4>2 DEF Sides
      <4> QED BY <4>1, <4>2
    <3>2. heap'[Root] = heap[Root] /\ Root \in Record'
        BY <2>2, <2>4, <2>13 DEF Linked, Record
    <3> QED BY <2>2, <2>13, <3>1, <3>2 DEF Linked, Record
  <2>15. Weighs(heap')
    <3>1. ASSUME NEW o \in Record' \ {Root}
          PROVE  heap'[o].weight = IF Leafy(heap', o) THEN 1 ELSE 0
      <4>1. CASE o # m
          BY <2>2, <2>13, <4>1 DEF Weighs, Leafy, Record
      <4>2. CASE o = m
          BY <2>6, <2>8, <2>12, <2>13, <4>2 DEF Leafy
      <4> QED BY <4>1, <4>2
    <3> QED BY <3>1 DEF Weighs, Record
  <2>16. \A o \in held[Rebalancer] : o \in Record /\ ~Leafy(heap, o) => ~Leafy(heap', o)
    <3>1. m \notin held[Rebalancer]
        BY <2>1, <2>2, LocalsOf
    <3> QED BY <2>13, <3>1 DEF Leafy
  <2>17. Record \subseteq Record'
      BY <2>13
  <2> QED BY <2>1, <2>2, <2>14, <2>15, <2>16, <2>17, Finishes
<1> QED BY <1>1, <1>2

-----------------------------------------------------------------------------
\* A step of the rebalancing thread keeps the types, the tree and the workers;
\* what is left to show is what its calls hold.
LEMMA PassKeeps ==
    ASSUME Weighed, UNCHANGED <<script, phase, todo, pc, at>>,
           Linked(heap'), Weighs(heap'), Record' = Record,
           NEW S \in SUBSET Nat, held' = [held EXCEPT ![Rebalancer] = S],
           \A n \in S : n \in held[Rebalancer] \/ Free(Rebalancer, n),
           stack' \in Seq(Frame), Calling'
    PROVE  Weighed'
<1>1. Typed /\ Alone /\ Rebalancer \in Threads /\ Rebalancer \notin Workers
    BY LockTreeAssumption DEF Weighed, Threads
<1>2. held' \in [Threads -> SUBSET Nat] /\ held'[Rebalancer] = S
      /\ \A p \in Workers : held'[p] = held[p]
    BY <1>1 DEF Typed, Threads
<1>3. Typed'
    BY <1>1, <1>2 DEF Typed
<1>4. ASSUME NEW p \in Workers PROVE held'[p] \cap held'[Rebalancer] = {}
  <2>1. \A n \in S : Free(Rebalancer, n) => n \notin held[p]
      BY <1>1 DEF Free, Shared, Threads
  <2> QED BY <1>1, <1>2, <2>1 DEF Alone
<1>5. \A p \in Workers : Turned(p)'
    BY DEF Weighed, Turned, root, parent
<1> QED BY <1>3, <1>4, <1>5 DEF Weighed, Alone

\* The innermost call, and the others.
LEMMA StackIs ==
    ASSUME Weighed, stack # <<>>, Record' = Record
    PROVE  /\ top \in Frame /\ Holding(top) /\ Tail(stack) \in Seq(Frame)
           /\ \A t \in Seq(Frame) : t = Tail(stack) =>
                 \A i \in DOMAIN t : t[i].stage = "again" /\ Holding(t[i])'
<1>1. stack \in Seq(Frame) /\ Calling
    BY DEF Weighed, Typed
<1>2. top = stack[1] /\ 1 \in DOMAIN stack /\ top \in Frame
    BY <1>1 DEF top
<1>3. PICK t : t = Tail(stack)
    OBVIOUS
<1>4. t \in Seq(Frame) /\ Len(t) = Len(stack) - 1
      /\ \A i \in 1 .. Len(t) : t[i] = stack[i + 1]
    BY <1>1, <1>3
<1>5. \A i \in DOMAIN t : t[i].stage = "again" /\ Holding(t[i])'
  <2> SUFFICES ASSUME NEW i \in DOMAIN t, NEW f, f = t[i] PROVE f.stage = "again" /\ Holding(f)'
      BY <1>3
  <2>1. i \in 1 .. Len(t) /\ i + 1 \in DOMAIN stack /\ i + 1 > 1
      BY <1>1, <1>4
  <2>2. f.stage = "again" /\ Holding(f)
      BY <1>1, <1>4, <2>1 DEF Calling
  <2> QED BY <2>2 DEF Holding
<1> QED BY <1>1, <1>2, <1>3, <1>4, <1>5 DEF Calling

\* One more call.
LEMMA PushedIs ==
    ASSUME NEW t \in Seq(Frame), \A i \in DOMAIN t : t[i].stage = "again" /\ Holding(t[i])',
           NEW f \in Frame, Holding(f)', NEW u, u = <<f>> \o t
    PROVE  /\ u \in Seq(Frame) /\ u # <<>>
           /\ \A i \in DOMAIN u : Holding(u[i])' /\ (i > 1 => u[i].stage = "again")
           /\ f.stage = "again" => \A i \in DOMAIN u : u[i].stage = "again" /\ Holding(u[i])'
<1>1. PICK g : g = <<f>>
    OBVIOUS
<1>2. g \in Seq(Frame) /\ Len(g) = 1 /\ g[1] = f
    BY <1>1
<1>3. /\ u \in Seq(Frame) /\ Len(u) = Len(t) + 1 /\ u[1] = f
      /\ \A i \in 1 .. Len(t) : u[i + 1] = t[i]
    BY <1>1, <1>2
<1>4. ASSUME NEW i \in DOMAIN u, i # 1 PROVE u[i].stage = "again" /\ Holding(u[i])'
  <2>1. i - 1 \in 1 .. Len(t) /\ (i - 1) + 1 = i
      BY <1>3, <1>4
  <2>2. u[i] = t[i - 1] /\ i - 1 \in DOMAIN t
      BY <1>3, <2>1
  <2>3. \A v : v = t[i - 1] => v.stage = "again" /\ Holding(v)'
      BY <2>2
  <2> QED BY <2>2, <2>3
<1>5. ASSUME NEW i \in DOMAIN u, i = 1 PROVE Holding(u[i])' /\ u[i] = f
    BY <1>3, <1>5
<1> QED BY <1>3, <1>4, <1>5

\* A pass begins at the record below the sentinel.
LEMMA StartWeighed == ASSUME Weighed, StartPass PROVE Weighed'
<1>1. PICK f : f = [node |-> heap[Root].left, parent |-> Null, stage |-> "start"]
    OBVIOUS
<1>2. /\ stack' = <<f>> /\ UNCHANGED <<heap, held, script, phase, todo, pc, at>>
    BY <1>1 DEF StartPass, callVars
<1>3. Linked(heap) /\ Weighs(heap) /\ held \in [Threads -> SUBSET Nat] /\ Rebalancer \in Threads
    BY DEF Weighed, Typed, Threads
<1>4. heap[Root].left = 2 /\ 2 \in Record
  <2>1. Root \in Record /\ heap[Root].left = 2
      BY <1>3 DEF Linked, Record
  <2> QED BY <1>3, <2>1, FieldsOf DEF Record, Null
<1>5. f \in Frame /\ f.node = 2 /\ f.parent = Null /\ f.stage = "start"
    BY <1>1, <1>4 DEF Frame, Stages, Null
<1>6. Holding(f)'
    BY <1>2, <1>4, <1>5 DEF Holding, Record, Root, Null
<1>7. stack' \in Seq(Frame) /\ DOMAIN stack' = {1} /\ stack'[1] = f
    BY <1>2, <1>5
<1>8. Calling'
    BY <1>6, <1>7 DEF Calling
<1>9. held[Rebalancer] \in SUBSET Nat /\ held' = [held EXCEPT ![Rebalancer] = held[Rebalancer]]
    BY <1>2, <1>3
<1> QED BY <1>2, <1>3, <1>7, <1>8, <1>9, PassKeeps DEF Record

\* What the rebalancing thread locks, it holds, but for what it lets go.
LEMMA LockPassWeighed ==
    ASSUME Weighed, \/ LockNode("start", "left") \/ LockNode("again", "right")
                    \/ LockLeft \/ LockRight
    PROVE  Weighed'
<1>1. CASE UNCHANGED <<heap, held, script, phase, todo, pc, at, stack>>
    BY <1>1, StandsStill
<1>2. CASE ~UNCHANGED <<heap, held, script, phase, todo, pc, at, stack>>
  <2>1. /\ stack # <<>> /\ UNCHANGED <<heap, script, phase, todo, pc, at>> /\ Record' = Record
      BY <1>2 DEF LockNode, LockLeft, LockRight, In, Lock, Fail, callVars, rebalVars, Record
  <2>2. /\ Linked(heap) /\ Weighs(heap) /\ held \in [Threads -> SUBSET Nat] /\ Rebalancer \in Threads
        /\ held[Rebalancer] \in SUBSET Nat
      BY DEF Weighed, Typed, Threads
  <2>3. Linked(heap') /\ Weighs(heap')
      BY <2>1, <2>2
  <2> PICK f, t : f = top /\ t = Tail(stack)
      OBVIOUS
  <2>4. /\ f \in Frame /\ Holding(f) /\ t \in Seq(Frame)
        /\ \A i \in DOMAIN t : t[i].stage = "again" /\ Holding(t[i])'
      BY <2>1, StackIs
  <2>5. /\ f.node \in Record \ {Root} /\ f.parent \in ({Null} \cup Record) \ {Root}
        /\ f.node \in Nat /\ f.parent \in Nat /\ f.node # Null
      BY <2>2, <2>4, FieldsOf DEF Holding, Frame, Record
  <2>6. CASE LockNode("start", "left")
    <3>1. PICK g : g = [f EXCEPT !.stage = "left"]
        OBVIOUS
    <3>2. PICK S : S = (held[Rebalancer] \cup {f.node}) \ {}
        OBVIOUS
    <3>3. /\ f.stage = "start" /\ Free(Rebalancer, f.node) /\ stack' = <<g>> \o t
          /\ held' = [held EXCEPT ![Rebalancer] = S]
        BY <1>2, <2>6, <3>1, <3>2 DEF LockNode, In, Lock, Fail, To, callVars, rebalVars
    <3>4. g \in Frame /\ g.node = f.node /\ g.parent = f.parent /\ g.stage = "left"
        BY <2>4, <3>1 DEF Frame, Stages
    <3>5. S \in SUBSET Nat /\ held'[Rebalancer] = S
        BY <2>2, <2>5, <3>2, <3>3
    <3>6. Holding(g)'
        BY <2>1, <2>4, <2>5, <3>2, <3>3, <3>4, <3>5 DEF Holding
    <3>7. stack' \in Seq(Frame) /\ Calling'
        BY <2>4, <3>3, <3>4, <3>6, PushedIs DEF Calling
    <3>8. \A n \in S : n \in held[Rebalancer] \/ Free(Rebalancer, n)
        BY <3>2, <3>3
    <3> QED BY <2>1, <2>3, <3>3, <3>5, <3>7, <3>8, PassKeeps
  <2>7. CASE LockNode("again", "right")
    <3>1. PICK g : g = [f EXCEPT !.stage = "right"]
        OBVIOUS
    <3>2. PICK S : S = (held[Rebalancer] \cup {f.node}) \ {}
        OBVIOUS
    <3>3. /\ f.stage = "again" /\ Free(Rebalancer, f.node) /\ stack' = <<g>> \o t
          /\ held' = [held EXCEPT ![Rebalancer] = S]
        BY <1>2, <2>7, <3>1, <3>2 DEF LockNode, In, Lock, Fail, To, callVars, rebalVars
    <3>4. g \in Frame /\ g.node = f.node /\ g.parent = f.parent /\ g.stage = "right"
        BY <2>4, <3>1 DEF Frame, Stages
    <3>5. S \in SUBSET Nat /\ held'[Rebalancer] = S
        BY <2>2, <2>5, <3>2, <3>3
    <3>6. Holding(g)'
        BY <2>1, <2>5, <3>2, <3>4, <3>5 DEF Holding
    <3>7. stack' \in Seq(Frame) /\ Calling'
        BY <2>4, <3>3, <3>4, <3>6, PushedIs DEF Calling
    <3>8. \A n \in S : n \in held[Rebalancer] \/ Free(Rebalancer, n)
        BY <3>2, <3>3
    <3> QED BY <2>1, <2>3, <3>3, <3>5, <3>7, <3>8, PassKeeps
  <2>8. CASE LockLeft
    <3>0. PICK n : n = heap[f.node].left
        OBVIOUS
    <3>1. PICK g, h : g = [f EXCEPT !.stage = "again"] /\ h = [node |-> n, parent |-> f.node, stage |-> "enter"]
        OBVIOUS
    <3>2. PICK S : S = (held[Rebalancer] \cup {n}) \ {f.parent}
        OBVIOUS
    <3>3. /\ f.stage = "left" /\ Free(Rebalancer, n) /\ stack' = <<h>> \o (<<g>> \o t)
          /\ held' = [held EXCEPT ![Rebalancer] = S] /\ Valid(n) /\ n \notin held[Rebalancer]
        BY <1>2, <2>8, <3>0, <3>1, <3>2 DEF LockLeft, In, Lock, Fail, To, Calls, callVars, rebalVars
    <3>4. n # Null /\ n \in Record \ {Root} /\ n \in Nat
        BY <2>2, <2>5, <3>0, <3>3, FieldsOf DEF Valid, Record
    <3>5. g \in Frame /\ g.node = f.node /\ g.parent = f.parent /\ g.stage = "again"
        BY <2>4, <3>1 DEF Frame, Stages
    <3>6. h \in Frame /\ h.node = n /\ h.parent = f.node /\ h.stage = "enter"
        BY <2>5, <3>1, <3>4 DEF Frame, Stages
    <3>7. S \in SUBSET Nat /\ held'[Rebalancer] = S
        BY <2>2, <3>2, <3>3, <3>4
    <3>8. Holding(g)'
        BY <2>1, <2>5, <3>5 DEF Holding
    <3>9. Holding(h)'
      <4>1. f.node # f.parent /\ f.node \in held[Rebalancer] /\ (f.parent # Null => f.parent \in held[Rebalancer])
          BY <2>4, <3>3 DEF Holding
      <4>2. n \in S /\ f.node \in S /\ n # f.node
          BY <3>2, <3>3, <3>4, <4>1
      <4>3. ~Leafy(heap, f.node)
          BY <3>0, <3>4 DEF Leafy
      <4> QED BY <2>1, <2>5, <3>4, <3>6, <3>7, <4>2, <4>3 DEF Holding
    <3>10. PICK v : v = <<g>> \o t
        OBVIOUS
    <3>11. v \in Seq(Frame) /\ \A i \in DOMAIN v : v[i].stage = "again" /\ Holding(v[i])'
        BY <2>4, <3>5, <3>8, <3>10, PushedIs
    <3>12. stack' = <<h>> \o v
        BY <3>3, <3>10
    <3>13. stack' \in Seq(Frame) /\ Calling'
        BY <3>6, <3>9, <3>11, <3>12, PushedIs DEF Calling
    <3>14. \A o \in S : o \in held[Rebalancer] \/ Free(Rebalancer, o)
        BY <3>2, <3>3
    <3> QED BY <2>1, <2>3, <3>3, <3>7, <3>13, <3>14, PassKeeps
  <2>9. CASE LockRight
    <3>0. PICK n : n = heap[f.node].right
        OBVIOUS
    <3>1. PICK h : h = [node |-> n, parent |-> f.node, stage |-> "enter"]
        OBVIOUS
    <3>2. PICK S : S = (held[Rebalancer] \cup {n}) \ {}
        OBVIOUS
    <3>3. /\ f.stage = "right" /\ Free(Rebalancer, n) /\ stack' = <<h>> \o t
          /\ held' = [held EXCEPT ![Rebalancer] = S] /\ Valid(n) /\ n \notin held[Rebalancer]
        BY <1>2, <2>9, <3>0, <3>1, <3>2 DEF LockRight, In, Lock, Fail, Calls, callVars, rebalVars
    <3>4. n # Null /\ n \in Record \ {Root} /\ n \in Nat
        BY <2>2, <2>5, <3>0, <3>3, FieldsOf DEF Valid, Record
    <3>6. h \in Frame /\ h.node = n /\ h.parent = f.node /\ h.stage = "enter"
        BY <2>5, <3>1, <3>4 DEF Frame, Stages
    <3>7. S \in SUBSET Nat /\ held'[Rebalancer] = S
        BY <2>2, <3>2, <3>3, <3>4
    <3>9. Holding(h)'
      <4>1. f.node \in held[Rebalancer]
          BY <2>4, <3>3 DEF Holding
      <4>2. n \in S /\ f.node \in S /\ n # f.node
          BY <3>2, <3>3, <4>1
      <4>3. ~Leafy(heap, f.node)
          BY <3>0, <3>4 DEF Leafy
      <4> QED BY <2>1, <2>5, <3>4, <3>6, <3>7, <4>2, <4>3 DEF Holding
    <3>13. stack' \in Seq(Frame) /\ Calling'
        BY <2>4, <3>3, <3>6, <3>9, PushedIs DEF Calling
    <3>14. \A o \in S : o \in held[Rebalancer] \/ Free(Rebalancer, o)
        BY <3>2, <3>3
    <3> QED BY <2>1, <2>3, <3>3, <3>7, <3>13, <3>14, PassKeeps
  <2> QED BY <2>6, <2>7, <2>8, <2>9
<1> QED BY <1>1, <1>2

\* At a leaf the call returns.
LEMMA LeaveWeighed == ASSUME Weighed, LeaveLeaf PROVE Weighed'
<1>1. CASE UNCHANGED <<heap, held, script, phase, todo, pc, at, stack>>
    BY <1>1, StandsStill
<1>2. CASE ~UNCHANGED <<heap, held, script, phase, todo, pc, at, stack>>
  <2> PICK t : t = Tail(stack)
      OBVIOUS
  <2>1. PICK S : S = held[Rebalancer] \ {top.node, top.parent}
      OBVIOUS
  <2>2. /\ stack # <<>> /\ stack' = t /\ held' = [held EXCEPT ![Rebalancer] = S]
        /\ UNCHANGED <<heap, script, phase, todo, pc, at>> /\ Record' = Record
      BY <1>2, <2>1 DEF LeaveLeaf, In, Unlock, Fail, callVars, rebalVars, Record
  <2>3. t \in Seq(Frame) /\ \A i \in DOMAIN t : t[i].stage = "again" /\ Holding(t[i])'
      BY <2>2, StackIs
  <2>4. stack' \in Seq(Frame) /\ Calling'
      BY <2>2, <2>3 DEF Calling
  <2>5. Linked(heap') /\ Weighs(heap') /\ S \in SUBSET Nat
        /\ \A n \in S : n \in held[Rebalancer] \/ Free(Rebalancer, n)
      BY <2>1, <2>2 DEF Weighed, Typed, Threads
  <2> QED BY <2>2, <2>4, <2>5, PassKeeps
<1> QED BY <1>1, <1>2

\* A rotation of records that hang below the record that is locked.
LEMMA RebalanceWeighed == ASSUME Weighed, Rebalance PROVE Weighed'
<1>1. CASE UNCHANGED <<heap, held, script, phase, todo, pc, at, stack>>
    BY <1>1, StandsStill
<1>2. CASE ~UNCHANGED <<heap, held, script, phase, todo, pc, at, stack>>
  <2> PICK f, t : f = top /\ t = Tail(stack)
      OBVIOUS
  <2>1. PICK g : g = [f EXCEPT !.stage = "left"]
      OBVIOUS
  <2>2. /\ stack # <<>> /\ f.stage = "enter" /\ ~IsLeaf(f.node) /\ ~LeadsNowhere(f.node)
        /\ heap' = Rebalanced(f.node, f.parent) /\ stack' = <<g>> \o t
        /\ UNCHANGED <<held, script, phase, todo, pc, at>>
      BY <1>2, <2>1 DEF Rebalance, In, Fail, To, callVars, rebalVars
  <2>3. f \in Frame /\ Holding(f)
    <3>1. stack \in Seq(Frame) /\ Calling
        BY DEF Weighed, Typed
    <3>2. f = stack[1] /\ 1 \in DOMAIN stack
        BY <2>2, <3>1 DEF top
    <3> QED BY <3>1, <3>2 DEF Calling
  <2>4. /\ f.node \in Record \ {Root} /\ f.parent \in Record \ {Root} /\ ~Leafy(heap, f.parent)
        /\ Linked(heap) /\ Weighs(heap)
      BY <2>2, <2>3 DEF Holding, Weighed
  <2>5. Linked(heap') /\ Weighs(heap') /\ Record' = Record
    <3>1. PICK G : G = Rebalanced(f.node, f.parent)
        OBVIOUS
    <3>2. Linked(G) /\ Weighs(G) /\ DOMAIN G = DOMAIN heap
        BY <2>2, <2>4, <3>1, RebalancedIs
    <3> QED BY <2>2, <3>1, <3>2 DEF Record
  <2>6. t \in Seq(Frame) /\ \A i \in DOMAIN t : t[i].stage = "again" /\ Holding(t[i])'
      BY <2>2, <2>5, StackIs
  <2>7. g \in Frame /\ g.node = f.node /\ g.parent = f.parent /\ g.stage = "left"
      BY <2>1, <2>3 DEF Frame, Stages
  <2>8. Holding(g)'
      BY <2>2, <2>3, <2>5, <2>7 DEF Holding
  <2>9. stack' \in Seq(Frame) /\ Calling'
      BY <2>2, <2>6, <2>7, <2>8, PushedIs DEF Calling
  <2>10. held[Rebalancer] \in SUBSET Nat /\ held' = [held EXCEPT ![Rebalancer] = held[Rebalancer]]
      BY <2>2 DEF Weighed, Typed, Threads
  <2> QED BY <2>2, <2>5, <2>9, <2>10, PassKeeps
<1> QED BY <1>1, <1>2

\* The next phase gives the workers new operations.
LEMMA PhaseWeighed == ASSUME Weighed, NextPhase PROVE Weighed'
<1>1. /\ UNCHANGED <<heap, held, script, pc, at, stack>> /\ todo' = script[phase + 1].work
      /\ phase' = phase + 1 /\ phase < Len(script) /\ \A p \in Workers : pc[p] = "idle"
    BY DEF NextPhase, Idle, At
<1>2. Typed /\ script \in Seq(Phase)
    BY LockTreeAssumption DEF Weighed, Typed
<1>3. phase + 1 \in DOMAIN script /\ script[phase + 1] \in Phase
    BY <1>1, <1>2 DEF Typed
<1>4. Typed'
    BY <1>1, <1>2, <1>3 DEF Typed, Phase
<1>5. Linked(heap') /\ Weighs(heap') /\ Alone' /\ Calling'
    BY <1>1 DEF Weighed, Alone, Calling, Holding, Record
<1>6. \A p \in Workers : Turned(p)'
    BY <1>1 DEF Weighed, Turned, root, parent, Record
<1> QED BY <1>4, <1>5, <1>6 DEF Weighed

\* A leaf weighs 1 and every other record but the sentinel nothing, whatever
\* updates and passes do to the tree at the same time; so rebalance never comes
\* to a case that moves weight.
THEOREM WeightIsInLeaves == Spec => []OnlyLeavesWeigh
<1>1. Weighed /\ [Next]_vars => Weighed'
  <2> SUFFICES ASSUME Weighed, [Next]_vars PROVE Weighed'
      OBVIOUS
  <2>1. CASE UNCHANGED vars
    <3>1. UNCHANGED <<heap, held, script, phase, todo, pc, at, stack>>
        BY <2>1 DEF vars, callVars, rebalVars
    <3> QED BY <3>1, StandsStill
  <2>2. ASSUME NEW p \in Workers, Step(p) PROVE Weighed'
    <3>1. \/ Begin(p) \/ LockNext(p) \/ Call(p) \/ Reread(p) \/ Down(p)
          \/ Search(p) \/ InsertPresent(p) \/ RemoveAbsent(p)
          \/ RemoveFound(p) \/ RemoveLockSibling(p) \/ InsertLeaves(p) \/ Remove(p)
        BY <2>2 DEF Step
    <3> QED BY <3>1, DownWeighed, ReturnWeighed, SiblingWeighed, InsertWeighed, RemoveWeighed
  <2>3. ASSUME Pass PROVE Weighed'
      BY <2>3, StartWeighed, LockPassWeighed, LeaveWeighed, RebalanceWeighed DEF Pass
  <2>4. ASSUME NextPhase PROVE Weighed'
      BY <2>4, PhaseWeighed
  <2> QED BY <2>1, <2>2, <2>3, <2>4 DEF Next, Stop
<1>2. Weighed => OnlyLeavesWeigh
  <2> SUFFICES ASSUME Weighed PROVE OnlyLeavesWeigh
      OBVIOUS
  <2>1. Linked(heap) /\ Weighs(heap)
      BY DEF Weighed
  <2>2. \A n \in Record \ {Root} : Weight(n) = IF IsLeaf(n) THEN 1 ELSE 0
      BY <2>1 DEF Weighs, Weight, IsLeaf, Leafy, Record
  <2>3. ASSUME In("enter"), ~IsLeaf(top.node), ~LeadsNowhere(top.node)
        PROVE  /\ ~BothRed(top.node) /\ ~checkCase4(top.node)
               /\ \A side \in Sides : ~Case5(top.node, side)
    <3>1. stack # <<>> /\ Record = Record
        BY <2>3 DEF In
    <3>2. stack \in Seq(Frame) /\ Calling
        BY DEF Weighed, Typed
    <3>3. top = stack[1] /\ 1 \in DOMAIN stack
        BY <3>1, <3>2 DEF top
    <3>4. Holding(top)
        BY <3>2, <3>3 DEF Calling
    <3>5. top.node \in Record \ {Root}
        BY <3>4 DEF Holding
    <3> QED BY <2>1, <2>3, <3>5, NoWeightMoves
  <2> QED BY <2>2, <2>3 DEF OnlyLeavesWeigh
<1> QED BY <1>1, <1>2, InitWeighed, PTL DEF Spec

-----------------------------------------------------------------------------
(***************************************************************************)
(* Types                                                                   *)
(***************************************************************************)
\* A record's pointers by side are its two children or NULL.
LEMMA PointersStay ==
    ASSUME IsTree(heap, freed), NEW m \in Record
    PROVE  /\ \A s \in Sides : Child(m, s) \in {Null} \cup Record
           /\ {Child(m, s) : s \in Sides} = {heap[m].left, heap[m].right}
<1>1. ChildrenOf(heap, m) \subseteq Record
    BY DEF IsTree, Record
<1>2. \A s \in Sides : Child(m, s) \in {heap[m].left, heap[m].right}
    BY DEF Sides, Child
<1>3. {Child(m, s) : s \in Sides} = {heap[m].left, heap[m].right}
  <2>1. "left" \in Sides /\ "right" \in Sides /\ Child(m, "left") = heap[m].left /\ Child(m, "right") = heap[m].right
      BY DEF Sides, Child
  <2> QED BY <1>2, <2>1
<1> QED BY <1>1, <1>2, <1>3 DEF ChildrenOf

\* Only these two steps change the tree.
LEMMA OnlyTwoChange ==
    ASSUME NEW p \in Workers, Step(p)
    PROVE  UNCHANGED <<heap, freed>> \/ InsertLeaves(p) \/ Remove(p)
<1>1. /\ Begin(p) => UNCHANGED <<heap, freed>>
      /\ LockNext(p) => UNCHANGED <<heap, freed>>
      /\ Call(p) => UNCHANGED <<heap, freed>>
      /\ Reread(p) => UNCHANGED <<heap, freed>>
      /\ Down(p) => UNCHANGED <<heap, freed>>
    BY DEF Begin, LockNext, Lock, Fail, Call, Reread, Down
<1>2. /\ InsertPresent(p) => UNCHANGED <<heap, freed>>
      /\ RemoveAbsent(p) => UNCHANGED <<heap, freed>>
      /\ RemoveFound(p) => UNCHANGED <<heap, freed>>
      /\ RemoveLockSibling(p) => UNCHANGED <<heap, freed>>
    BY DEF InsertPresent, RemoveAbsent, RemoveFound, RemoveLockSibling, Lock, Fail,
             Returns, Unlock
<1>3. Search(p) => UNCHANGED <<heap, freed>>
    BY Zenon DEF Search, Returns, Unlock, Fail
<1> QED BY <1>1, <1>2, <1>3 DEF Step

\* The locals lead to records, in use or freed.
Points(p) == {parent(p), root(p), at[p].next} \subseteq {Null} \cup Record

\* A step of a worker leaves them so.
LEMMA PointsAfter ==
    ASSUME Kept, Kept', \A q \in Workers : Points(q), NEW p \in Workers, Step(p)
    PROVE  \A q \in Workers : Points(q)'
<1>1. at \in [Workers -> Locals] /\ IsTree(heap, freed) /\ Root \in Record
    BY DEF Kept, Local, IsSearchTree, IsTree, Record
<1>2. Record \subseteq Record'
  <2>1. CASE InsertLeaves(p)
      BY <2>1, InsertLeavesIs DEF Grows, Record
  <2>2. CASE Remove(p)
      BY <2>2, RemoveIs DEF Shrinks, Record
  <2>3. CASE UNCHANGED <<heap, freed>>
      BY <2>3 DEF Record
  <2> QED BY <2>1, <2>2, <2>3, OnlyTwoChange
<1>3. ASSUME at'[p] = at[p] \/ {at'[p].parent, at'[p].root, at'[p].next} \subseteq {Null} \cup Record,
             \A q \in Workers \ {p} : at'[q] = at[q]
      PROVE  \A q \in Workers : Points(q)'
    BY <1>2, <1>3 DEF Points, parent, root
<1>4. ASSUME UNCHANGED at PROVE \A q \in Workers : Points(q)'
    BY <1>3, <1>4
<1>5. ASSUME at' = [at EXCEPT ![p] = NoWhere] PROVE \A q \in Workers : Points(q)'
  <2>1. at'[p] = NoWhere /\ \A q \in Workers \ {p} : at'[q] = at[q]
      BY <1>1, <1>5
  <2> QED BY <1>3, <2>1 DEF NoWhere
<1>6. ASSUME NEW next \in {Null} \cup Record, at' = [at EXCEPT ![p].next = next]
      PROVE  \A q \in Workers : Points(q)'
  <2>1. /\ at'[p] = [at[p] EXCEPT !.next = next] /\ at[p] \in Locals
        /\ \A q \in Workers \ {p} : at'[q] = at[q]
      BY <1>1, <1>6
  <2>2. at'[p].next = next /\ at'[p].parent = at[p].parent /\ at'[p].root = at[p].root
      BY <2>1 DEF Locals
  <2> QED BY <1>3, <2>1, <2>2 DEF Points, parent, root
<1>7. CASE Begin(p)
    BY <1>1, <1>6, <1>7 DEF Begin
<1>8. CASE Call(p)
  <2>1. PICK n : n = IF root(p) = Null THEN Root ELSE heap[root(p)][Toward(root(p), key(p))]
      OBVIOUS
  <2>2. n \in {Null} \cup Record
    <3>1. ASSUME root(p) # Null PROVE n \in {Null} \cup Record
      <4>1. root(p) \in Record
          BY <3>1 DEF Points
      <4>2. Toward(root(p), key(p)) \in Sides
          BY DEF Toward, Sides
      <4> QED BY <1>1, <2>1, <3>1, <4>1, <4>2, PointersStay DEF Child
    <3> QED BY <1>1, <2>1, <3>1
  <2>3. at' = [at EXCEPT ![p].parent = root(p), ![p].root = n]
      BY <1>8, <2>1 DEF Call
  <2>4. /\ at'[p] = [at[p] EXCEPT !.parent = root(p), !.root = n] /\ at[p] \in Locals
        /\ \A q \in Workers \ {p} : at'[q] = at[q]
      BY <1>1, <2>3
  <2>5. at'[p].next = at[p].next /\ at'[p].parent = root(p) /\ at'[p].root = n
      BY <2>4 DEF Locals
  <2> QED BY <1>3, <2>2, <2>4, <2>5 DEF Points, root
<1>9. CASE Down(p)
  <2>1. root(p) \in Record /\ root(p) # Null /\ Valid(root(p))
    <3>1. Stands(p) /\ Kept
        BY <1>9 DEF Kept, Placed, Down, At
    <3>2. root(p) \in Record \ freed /\ root(p) # Null
        BY <3>1, FootingIs DEF Stands
    <3> QED BY <3>2 DEF Valid
  <2>2. PICK n : n = heap[root(p)][Toward(root(p), key(p))]
      OBVIOUS
  <2>3. n \in {Null} \cup Record
    <3>1. Toward(root(p), key(p)) \in Sides
        BY DEF Toward, Sides
    <3> QED BY <1>1, <2>1, <2>2, <3>1, PointersStay DEF Child
  <2> QED BY <1>6, <1>9, <2>1, <2>2, <2>3 DEF Down
<1>10. CASE RemoveFound(p)
  <2>1. PICK side : side = IF heap[parent(p)].left = root(p) THEN "right" ELSE "left"
      OBVIOUS
  <2>2. PICK n : n = heap[parent(p)][side]
      OBVIOUS
  <2>3. at' = [at EXCEPT ![p].side = side, ![p].next = n]
      BY <1>10, <2>1, <2>2 DEF RemoveFound
  <2>4. n \in {Null} \cup Record
    <3>1. AtLeaf(p, "delete")
        BY <1>10 DEF RemoveFound
    <3>2. parent(p) \in Record
        BY <3>1, AtLeafIs
    <3>3. side \in Sides
        BY <2>1 DEF Sides
    <3> QED BY <1>1, <2>2, <3>2, <3>3, PointersStay DEF Child
  <2>5. /\ at'[p] = [at[p] EXCEPT !.side = side, !.next = n] /\ at[p] \in Locals
        /\ \A q \in Workers \ {p} : at'[q] = at[q]
      BY <1>1, <2>3
  <2>6. at'[p].next = n /\ at'[p].parent = at[p].parent /\ at'[p].root = at[p].root
      BY <2>5 DEF Locals
  <2> QED BY <1>3, <2>4, <2>5, <2>6 DEF Points, parent, root
<1>11. CASE InsertLeaves(p) \/ Remove(p)
    BY <1>5, <1>11, InsertLeavesIs, RemoveIs
<1>12. CASE LockNext(p) \/ RemoveLockSibling(p) \/ Reread(p)
  <2>1. UNCHANGED at
      BY <1>12 DEF LockNext, RemoveLockSibling, Reread, Lock, Fail, callVars
  <2> QED BY <1>4, <2>1
<1>13. CASE InsertPresent(p) \/ RemoveAbsent(p)
    BY <1>4, <1>5, <1>13 DEF InsertPresent, RemoveAbsent, Returns, Unlock, Fail, callVars
<1>14. CASE Search(p)
  <2>1. UNCHANGED at \/ at' = [at EXCEPT ![p] = NoWhere]
      BY <1>14, Zenon DEF Search, Returns, Unlock, Fail, callVars
  <2> QED BY <1>4, <1>5, <2>1
<1> QED BY <1>7, <1>8, <1>9, <1>10, <1>11, <1>12, <1>13, <1>14 DEF Step

\* The invariant and the types of the heap and of what leads into it give
\* TypeOK.
LEMMA TypesOf ==
    ASSUME Kept, SeenOK, NoPass, \A p \in Workers : Points(p)
    PROVE  TypeOK
<1>1. Local /\ IsTree(heap, freed)
    BY DEF Kept, IsSearchTree
<1>2. heap \in Seq(Node) /\ Root \in Record /\ freed \subseteq Record
  <2>1. ASSUME NEW n \in Record PROVE heap[n] \in Node
    <3>1. /\ heap[n].key \in AllKeys /\ heap[n].weight \in Int
          /\ heap[n] = [key |-> heap[n].key, weight |-> heap[n].weight,
                        left |-> heap[n].left, right |-> heap[n].right]
        BY <1>1, CellOf DEF Record
    <3>2. heap[n].left \in Pointer /\ heap[n].right \in Pointer
        BY <1>1, PointersStay DEF Pointer, Child, Sides
    <3> QED BY <3>1, <3>2 DEF Node, AllKeys
  <2>2. heap \in Seq(Node)
    <3>1. heap \in Seq(Cell)
        BY <1>1 DEF IsTree
    <3> QED BY <2>1, <3>1 DEF Record
  <2> QED BY <1>1, <2>2 DEF IsTree, Record
<1>3. ASSUME NEW p \in Workers PROVE held[p] \subseteq Record \ freed
  <2>1. Placed(p) /\ pc[p] \in Labels
      BY <1>1 DEF Kept, Local
  <2>2. CASE pc[p] = "idle"
      BY <2>1, <2>2 DEF Placed
  <2>3. CASE pc[p] \in {"lock", "here"}
    <3>1. CASE pc[p] = "lock" /\ root(p) = Null
        BY <2>1, <3>1 DEF Placed, Footing
    <3>2. CASE ~(pc[p] = "lock" /\ root(p) = Null)
      <4>1. Stands(p) /\ held[p] = Footing(p)
          BY <2>1, <2>3, <3>2 DEF Placed
      <4> QED BY <4>1, FootingIs
    <3> QED BY <3>1, <3>2
  <2>4. CASE pc[p] = "call"
    <3>1. held[p] = ({at[p].next} \cup IF Shared(p) THEN {} ELSE {root(p)}) \ {Null}
        BY <2>1, <2>4 DEF Placed
    <3>2. CASE root(p) = Null
      <4>1. at[p].next = Root /\ Root \in Record \ freed
          BY <1>1, <2>1, <2>4, <3>2 DEF Placed, IsTree, Record
      <4> QED BY <3>1, <3>2, <4>1
    <3>3. CASE root(p) # Null
      <4>1. /\ at[p].next \in Record \ freed /\ root(p) \in Record
            /\ ~Shared(p) => root(p) \notin freed
          BY <2>1, <2>4, <3>3 DEF Placed, Ahead
      <4> QED BY <3>1, <4>1
    <3> QED BY <3>2, <3>3
  <2>5. CASE pc[p] \in {"lockSibling", "remove"}
    <3>1. /\ Footing(p) = {parent(p), root(p)} /\ parent(p) \in Record \ freed
          /\ root(p) \in Record \ freed /\ at[p].next \in Record \ freed
        BY <2>5, RemovesIs
    <3>2. held[p] \subseteq Footing(p) \cup {at[p].next}
        BY <2>1, <2>5 DEF Placed
    <3> QED BY <3>1, <3>2
  <2> QED BY <2>1, <2>2, <2>3, <2>4, <2>5 DEF Labels
<1>4. held \in [Threads -> SUBSET Record] /\ \A t \in Threads : held[t] \cap freed = {}
  <2>1. \A t \in Threads : held[t] \subseteq Record \ freed
      BY <1>1, <1>3 DEF Threads, Local
  <2> QED BY <1>1, <2>1 DEF Local
<1>5. at \in [Workers -> [parent : Pointer, root : Pointer, next : Pointer, side : Sides]]
  <2>1. ASSUME NEW p \in Workers
        PROVE  at[p] \in [parent : Pointer, root : Pointer, next : Pointer, side : Sides]
    <3>1. at[p] \in Locals
        BY <1>1 DEF Local
    <3>2. at[p].parent \in Pointer /\ at[p].root \in Pointer /\ at[p].next \in Pointer
        BY DEF Points, Pointer, parent, root
    <3>3. PICK l : l = at[p]
        OBVIOUS
    <3> QED BY <3>1, <3>2, <3>3 DEF Locals
  <2> QED BY <1>1, <2>1 DEF Local
<1>6. stack \in Seq([node : Record, parent : Pointer,
                     stage : {"start", "enter", "left", "again", "right"}])
    BY DEF NoPass
<1>7. error \in {"none", "lock", "unlock", "use", "reread"}
    BY <1>1 DEF Local
<1>8. /\ script \in Scripts /\ phase \in DOMAIN script /\ todo \in [Workers -> Seq(Operation)]
      /\ pc \in [Workers -> {"idle", "lock", "call", "here", "lockSibling", "remove"}]
      /\ passes \in Nat
    BY <1>1 DEF Local, Labels
<1>9. answer \in [Workers -> Kinds \cup {"none", "absent", "found", "not found"}]
    BY <1>1, Zenon DEF Local, Answers
<1>10. seen \in [Workers -> SUBSET BOOLEAN]
    BY DEF SeenOK
<1> QED BY <1>2, <1>4, <1>5, <1>6, <1>7, <1>8, <1>9, <1>10, Zenon DEF TypeOK

\* Without passes every variable has its type, and no thread holds the lock of a
\* record that was freed.
THEOREM LockTypeCorrect == Spec /\ []NoPass => []TypeOK
<1> DEFINE Pointing == \A p \in Workers : Points(p)
<1>1. Init => SeenOK
    BY InitSeen
<1>2. Kept /\ Kept' /\ SeenOK /\ NoPass /\ NoPass' /\ [Next]_vars => SeenOK'
    BY SeenKept
<1>3. Init => Pointing
    BY DEF Init, Points, NoWhere, parent, root
<1>4. Kept /\ Kept' /\ Pointing /\ NoPass /\ NoPass' /\ [Next]_vars => Pointing'
  <2> SUFFICES ASSUME Kept, Kept', Pointing, NoPass, NoPass', [Next]_vars PROVE Pointing'
      OBVIOUS
  <2>1. CASE UNCHANGED <<heap, at>>
      BY <2>1 DEF Points, parent, root, Record
  <2>2. ASSUME NEW p \in Workers, Step(p) PROVE Pointing'
      BY <2>2, PointsAfter
  <2>3. NextPhase => UNCHANGED <<heap, at>>
      BY DEF NextPhase
  <2>4. ~Pass
      BY PassNot
  <2> QED BY <2>1, <2>2, <2>3, <2>4 DEF Next, Stop, vars, callVars
<1>5. Kept /\ SeenOK /\ NoPass /\ Pointing => TypeOK
    BY TypesOf
<1> QED BY <1>1, <1>2, <1>3, <1>4, <1>5, KeptCorrect, PTL DEF Spec
=============================================================================
