------------------------ MODULE ChromaticTreeProofs ------------------------
(***************************************************************************)
(* What the changes of ChromaticTree do to the heap, whatever its weights: *)
(* it stays a forest, without cycles, in which no live record points to a  *)
(* finalized one (Forest, Ranked); live records stay reachable (Spanning); *)
(* and the keys that a search compares stay in order (Order).              *)
(***************************************************************************)
EXTENDS ChromaticTree, WellFoundedInduction, TLAPS

Cell == [key : Keys \cup {MaxKey}, weight : Int, left : Nat, right : Nat]
Live == Record \ finalized

\* Every pointer leads to a record below Root; the children of a record are
\* different ones; and of the live records, which point to live ones only, no
\* two share a child.  A record may have one child: a double rotation at a red
\* leaf makes such records.
Forest ==
    /\ heap \in Seq(Cell) /\ Root \in Record
    /\ finalized \subseteq Record \ {Root}
    /\ ~IsLeaf(Root)
    /\ \A n \in Record, s \in Sides : Child(n, s) \in ({Null} \cup Record) \ {Root}
    /\ \A n \in Record : Child(n, "left") # Null => Child(n, "left") # Child(n, "right")
    /\ \A n \in Live, s \in Sides : Child(n, s) \notin finalized
    /\ \A n, m \in Live, s, t \in Sides :
          Child(n, s) = Child(m, t) /\ Child(n, s) # Null => n = m /\ s = t

\* There are no cycles, not even among the finalized records.
Ranked(rank, top) ==
    /\ top \in Nat /\ rank \in [Record -> 0 .. top]
    /\ \A n \in Record, s \in Sides :
          Child(n, s) # Null => rank[Child(n, s)] < rank[n]

\* Every live record can be reached from Root.
Spanning == \A n \in Live \ {Root} : \E m \in Live, s \in Sides : Child(m, s) = n

-----------------------------------------------------------------------------
\* The two sides.
LEMMA TwoSides ==
    ASSUME NEW side \in Sides
    PROVE  /\ Opposite(side) \in Sides /\ Opposite(side) # side
           /\ Opposite(Opposite(side)) = side
           /\ Sides = {side, Opposite(side)}
BY DEF Sides, Opposite

\* The fields of the records that the updates make.
LEMMA SidedFields ==
    ASSUME NEW side \in Sides, NEW k \in Keys \cup {MaxKey}, NEW w \in Int,
           NEW near \in Nat, NEW far \in Nat
    PROVE  /\ Sided(side, k, w, near, far) \in Cell
           /\ Sided(side, k, w, near, far).key = k
           /\ Sided(side, k, w, near, far)[side] = near
           /\ Sided(side, k, w, near, far)[Opposite(side)] = far
BY DEF Sides, Opposite, Sided, Rec, Cell

Has(cell, key, side, near, far) ==
    /\ cell \in Cell /\ cell.key = key
    /\ cell[side] = near /\ cell[Opposite(side)] = far

\* Its key and its two children.
LEMMA SidedHas ==
    ASSUME NEW side \in Sides, NEW k \in Keys \cup {MaxKey}, NEW w \in Int,
           NEW near \in Nat, NEW far \in Nat
    PROVE  Has(Sided(side, k, w, near, far), k, side, near, far)
BY SidedFields DEF Has

\* A cell made by Rec has the fields it was given.
LEMMA RecFields ==
    ASSUME NEW k \in Keys \cup {MaxKey}, NEW w \in Int, NEW l \in Nat, NEW r \in Nat
    PROVE  /\ Rec(k, w, l, r) \in Cell
           /\ Rec(k, w, l, r).key = k
           /\ Rec(k, w, l, r)["left"] = l
           /\ Rec(k, w, l, r)["right"] = r
BY DEF Rec, Cell

\* Its key and its two children.
LEMMA RecHas ==
    ASSUME NEW k \in Keys \cup {MaxKey}, NEW w \in Int, NEW l \in Nat, NEW r \in Nat
    PROVE  Has(Rec(k, w, l, r), k, "left", l, r)
BY RecFields DEF Has, Opposite

\* The fields of a cell, whichever the side is called.
LEMMA CellFields ==
    ASSUME NEW c \in Cell
    PROVE  /\ c.key \in Keys \cup {MaxKey} /\ c.weight \in Int
           /\ \A s \in Sides : c[s] \in Nat
BY DEF Cell, Sides

\* A copy with another weight is the same cell otherwise.
LEMMA ReweighedFields ==
    ASSUME heap \in Seq(Cell), NEW n \in Record, NEW w \in Int
    PROVE  /\ Reweighed(n, w) \in Cell
           /\ Reweighed(n, w).key = Key(n)
           /\ \A s \in Sides : Reweighed(n, w)[s] = Child(n, s)
<1>1. heap[n] \in Cell
    BY DEF Record
<1> QED BY <1>1 DEF Cell, Sides, Reweighed, Key, Child

\* Keys are integers up to MaxKey.
LEMMA KeyIsInt == ASSUME NEW c \in Cell PROVE c.key \in Int /\ c.key <= MaxKey
BY KeysAssumption DEF Cell

\* Changing one child pointer of a cell.
LEMMA CellSwing ==
    ASSUME NEW c \in Cell, NEW s \in Sides, NEW v \in Nat
    PROVE  /\ [c EXCEPT ![s] = v] \in Cell
           /\ [c EXCEPT ![s] = v].key = c.key
           /\ [c EXCEPT ![s] = v].weight = c.weight
           /\ [c EXCEPT ![s] = v][s] = v
           /\ [c EXCEPT ![s] = v][Opposite(s)] = c[Opposite(s)]
BY DEF Sides, Opposite, Cell

\* Appending cells leaves the ones before where they are.
LEMMA Concat ==
    ASSUME NEW S, NEW h \in Seq(S), NEW f \in Seq(S)
    PROVE  /\ h \o f \in Seq(S)
           /\ Len(h \o f) = Len(h) + Len(f)
           /\ \A i \in 1 .. Len(h) : (h \o f)[i] = h[i]
           /\ \A i \in 1 .. Len(f) : (h \o f)[Len(h) + i] = f[i]
OBVIOUS

\* The records are the indexes of the heap.
LEMMA RecordIs ==
    ASSUME heap \in Seq(Cell)
    PROVE  /\ Record = 1 .. Len(heap) /\ Len(heap) \in Nat
           /\ \A n \in Record : heap[n] \in Cell
BY DEF Record

\* The heap after a swing.
LEMMA SwungHeap ==
    ASSUME heap \in Seq(Cell), NEW parent \in Record, NEW old, NEW keep, NEW drop,
           NEW fresh \in Seq(Cell), Swing(parent, old, keep, drop, fresh)
    PROVE  /\ heap' \in Seq(Cell)
           /\ Len(heap') = Len(heap) + Len(fresh)
           /\ \A n \in Record : Key(n)' = Key(n) /\ Weight(n)' = Weight(n)
           /\ \A n \in Record, s \in Sides :
                 Child(n, s)' = IF n = parent /\ s = SideOf(parent, old)
                                  THEN Len(heap) + 1 ELSE Child(n, s)
           /\ \A i \in 1 .. Len(fresh) : heap'[Len(heap) + i] = fresh[i]
<1> DEFINE side == SideOf(parent, old)
           h == [heap EXCEPT ![parent][side] = Len(heap) + 1]
           c == [heap[parent] EXCEPT ![side] = Len(heap) + 1]
<1>1. side \in Sides
    BY DEF SideOf, Sides
<1>2. Record = 1 .. Len(heap) /\ Len(heap) \in Nat /\ heap[parent] \in Cell
    BY RecordIs
<1>3. /\ c \in Cell /\ c.key = heap[parent].key /\ c.weight = heap[parent].weight
      /\ c[side] = Len(heap) + 1 /\ c[Opposite(side)] = heap[parent][Opposite(side)]
    BY <1>1, <1>2, CellSwing
<1>4. h = [heap EXCEPT ![parent] = c]
    BY <1>2
<1>5. /\ h \in Seq(Cell) /\ Len(h) = Len(heap) /\ h[parent] = c
      /\ \A n \in Record \ {parent} : h[n] = heap[n]
  <2> HIDE DEF h, c
  <2>1. heap \in [1 .. Len(heap) -> Cell]
      OBVIOUS
  <2>2. h \in [1 .. Len(heap) -> Cell] /\ h[parent] = c
      BY <1>2, <1>3, <1>4, <2>1
  <2>3. \A n \in Record \ {parent} : h[n] = heap[n]
      BY <1>2, <1>4, <2>1
  <2>4. h \in Seq(Cell) /\ Len(h) = Len(heap)
      BY <1>2, <2>2
  <2> QED BY <2>2, <2>3, <2>4
<1>6. heap' = h \o fresh
    BY DEF Swing, New
<1> HIDE DEF h, c
<1>7. /\ heap' \in Seq(Cell) /\ Len(heap') = Len(heap) + Len(fresh)
      /\ \A n \in Record : heap'[n] = h[n]
      /\ \A i \in 1 .. Len(fresh) : heap'[Len(heap) + i] = fresh[i]
  <2>1. /\ h \o fresh \in Seq(Cell) /\ Len(h \o fresh) = Len(h) + Len(fresh)
        /\ \A i \in 1 .. Len(h) : (h \o fresh)[i] = h[i]
        /\ \A i \in 1 .. Len(fresh) : (h \o fresh)[Len(h) + i] = fresh[i]
    <3>1. h \in Seq(Cell) /\ fresh \in Seq(Cell)
        BY <1>5
    <3> HIDE DEF side
    <3> QED BY <3>1, Concat
  <2> QED BY <2>1, <1>2, <1>5, <1>6
<1>8. Sides = {side, Opposite(side)}
    BY <1>1, TwoSides
<1> HIDE DEF side
<1>9. \A n \in Record, s \in Sides :
         Child(n, s)' = IF n = parent /\ s = side THEN Len(heap) + 1 ELSE Child(n, s)
    BY <1>3, <1>5, <1>7, <1>8 DEF Child
<1>10. \A n \in Record : Key(n)' = Key(n) /\ Weight(n)' = Weight(n)
    BY <1>3, <1>5, <1>7 DEF Key, Weight
<1> QED BY <1>7, <1>9, <1>10 DEF side

-----------------------------------------------------------------------------
\* What a swing may do: the live parent gets the first of the fresh records
\* in the place of its child old; nothing that stays points to a record that
\* is dropped; and what the fresh records point to is fresh, or a record below
\* parent that stays and has lost its own parent.
Grafts(rank, parent, old, drop, fresh) ==
    /\ parent \in Live /\ old \in Record /\ \E s \in Sides : Child(parent, s) = old
    /\ fresh \in Seq(Cell) /\ Len(fresh) \in 1 .. 4
    /\ drop \subseteq Live \ {parent, Root}
    /\ \A n \in Live \ drop, s \in Sides : Child(n, s) \in drop => Child(n, s) = old
    /\ \A i \in 1 .. Len(fresh), s \in Sides :
          \/ fresh[i][s] = Null
          \/ \E j \in i + 1 .. Len(fresh) : fresh[i][s] = New(j)
          \/ /\ fresh[i][s] \in Live \ (drop \cup {Root})
             /\ rank[fresh[i][s]] < rank[parent]
             /\ \A n \in Live \ drop, t \in Sides : Child(n, t) = fresh[i][s] => fresh[i][s] = old
    /\ \A i, j \in 1 .. Len(fresh), s, t \in Sides :
          fresh[i][s] = fresh[j][t] /\ fresh[i][s] # Null => i = j /\ s = t

\* The records after a graft, and what they point to.
Grafted(L, parent, old, drop, fresh) ==
    /\ heap' \in Seq(Cell)
    /\ Record' = Record \cup {L + i : i \in 1 .. Len(fresh)}
    /\ Live' = (Live \ drop) \cup {L + i : i \in 1 .. Len(fresh)}
    /\ \A i \in 1 .. Len(fresh) : L + i \notin Record
    /\ SideOf(parent, old) \in Sides
    /\ Child(parent, SideOf(parent, old)) = old
    /\ \A n \in Record, s \in Sides :
          Child(n, s)' = IF n = parent /\ s = SideOf(parent, old) THEN L + 1 ELSE Child(n, s)
    /\ \A i \in 1 .. Len(fresh), s \in Sides : Child(L + i, s)' = fresh[i][s]
    /\ \A n \in Record : Key(n)' = Key(n)
    /\ \A i \in 1 .. Len(fresh) : Key(L + i)' = fresh[i].key

\* A swing of a child of a live record does that.
LEMMA SwungChildren ==
    ASSUME Forest, NEW parent \in Live, NEW old, \E s \in Sides : Child(parent, s) = old,
           NEW keep, NEW drop, drop \subseteq Live, NEW fresh \in Seq(Cell),
           NEW L, L = Len(heap), Swing(parent, old, keep, drop, fresh)
    PROVE  Grafted(L, parent, old, drop, fresh)
<1>1. Record = 1 .. Len(heap) /\ Len(heap) \in Nat
    BY RecordIs DEF Forest
<1>2. heap \in Seq(Cell) /\ parent \in Record /\ fresh \in Seq(Cell)
    BY DEF Forest, Live
<1>3. /\ heap' \in Seq(Cell)
      /\ Len(heap') = Len(heap) + Len(fresh)
      /\ \A n \in Record : Key(n)' = Key(n)
      /\ \A n \in Record, s \in Sides :
            Child(n, s)' = IF n = parent /\ s = SideOf(parent, old)
                             THEN L + 1 ELSE Child(n, s)
      /\ \A i \in 1 .. Len(fresh) : heap'[L + i] = fresh[i]
    BY <1>2, SwungHeap
<1>4. Len(fresh) \in Nat
    BY <1>2
<1>5. Record' = 1 .. (Len(heap) + Len(fresh))
    BY <1>3 DEF Record
<1>6. Record' = Record \cup {L + i : i \in 1 .. Len(fresh)}
  <2>1. \A k \in Record' : k \in Record \/ (k - L \in 1 .. Len(fresh)
                                             /\ k = L + (k - L))
      BY <1>1, <1>4, <1>5
  <2>2. \A k : k \in Record' => k \in Record \cup {L + i : i \in 1 .. Len(fresh)}
      BY <2>1
  <2>3. Record \subseteq Record'
      BY <1>1, <1>4, <1>5
  <2>4. \A i \in 1 .. Len(fresh) : L + i \in Record'
      BY <1>1, <1>4, <1>5
  <2> QED BY <2>2, <2>3, <2>4
<1>7. \A i \in 1 .. Len(fresh) : L + i \notin Record
    BY <1>1, <1>4
<1>8. finalized' = finalized \cup drop
    BY DEF Swing
<1>9. Live' = (Live \ drop) \cup {L + i : i \in 1 .. Len(fresh)}
    BY <1>6, <1>7, <1>8 DEF Live, Forest
<1>10. /\ SideOf(parent, old) \in Sides
       /\ Child(parent, SideOf(parent, old)) = old
    BY DEF SideOf, Sides
<1>11. \A i \in 1 .. Len(fresh), s \in Sides : Child(L + i, s)' = fresh[i][s]
    BY <1>3 DEF Child
<1>12. \A i \in 1 .. Len(fresh) : Key(L + i)' = fresh[i].key
    BY <1>3 DEF Key
<1> QED BY <1>3, <1>6, <1>7, <1>9, <1>10, <1>11, <1>12 DEF Grafted

\* So does a swing that grafts.
LEMMA GraftedChildren ==
    ASSUME Forest, NEW rank, NEW parent, NEW old, NEW keep, NEW drop, NEW fresh,
           NEW L, L = Len(heap),
           Grafts(rank, parent, old, drop, fresh), Swing(parent, old, keep, drop, fresh)
    PROVE  Grafted(L, parent, old, drop, fresh)
<1>1. /\ parent \in Live /\ \E s \in Sides : Child(parent, s) = old
      /\ drop \subseteq Live /\ fresh \in Seq(Cell)
    BY DEF Grafts
<1> QED BY <1>1, SwungChildren

\* A graft leaves a forest.
LEMMA GraftForest ==
    ASSUME Forest, NEW rank, NEW parent, NEW old, NEW keep, NEW drop, NEW fresh,
           Grafts(rank, parent, old, drop, fresh), Swing(parent, old, keep, drop, fresh)
    PROVE  Forest'
<1> PICK L : L = Len(heap)
    OBVIOUS
<1> DEFINE F == {L + i : i \in 1 .. Len(fresh)}
           side == SideOf(parent, old)
<1>1. /\ heap' \in Seq(Cell)
      /\ Record' = Record \cup F
      /\ Live' = (Live \ drop) \cup F
      /\ \A i \in 1 .. Len(fresh) : L + i \notin Record
      /\ side \in Sides /\ Child(parent, side) = old
      /\ \A n \in Record, s \in Sides :
            Child(n, s)' = IF n = parent /\ s = side THEN L + 1 ELSE Child(n, s)
      /\ \A i \in 1 .. Len(fresh), s \in Sides : Child(L + i, s)' = fresh[i][s]
  <2>1. Grafted(L, parent, old, drop, fresh)
      BY GraftedChildren
  <2> QED BY <2>1 DEF Grafted
<1>2. Record = 1 .. L /\ L \in Nat /\ Len(fresh) \in Nat /\ 1 \in 1 .. Len(fresh)
  <2>1. heap \in Seq(Cell)
      BY DEF Forest
  <2>2. Len(fresh) \in 1 .. 4
      BY DEF Grafts
  <2> QED BY <2>1, <2>2, RecordIs, SMTT(40)
<1>3. finalized' = finalized \cup drop
    BY DEF Swing
<1> HIDE DEF side
<1>4. Root \in Record' /\ finalized' \subseteq Record' \ {Root}
    BY <1>1, <1>3 DEF Forest, Grafts, Live
<1>5. Null # L + 1 /\ Root # L + 1 /\ L + 1 \notin Record
    BY <1>1, <1>2 DEF Null, Root, Forest
<1>6. {"left", "right"} = Sides
    BY DEF Sides
<1>7. ~IsLeaf(Root)'
    BY <1>1, <1>5, <1>6 DEF Forest, IsLeaf
<1>8. \A i \in 1 .. Len(fresh), s \in Sides :
         \/ fresh[i][s] = Null
         \/ \E j \in 2 .. Len(fresh) : fresh[i][s] = L + j
         \/ fresh[i][s] \in Live \ (drop \cup {Root})
    BY DEF Grafts, New
<1>9. \A n \in Record', s \in Sides : Child(n, s)' \in ({Null} \cup Record') \ {Root}
  <2>1. \A n \in Record, s \in Sides : Child(n, s)' \in ({Null} \cup Record') \ {Root}
      BY <1>1, <1>2, <1>5 DEF Forest
  <2>2. \A i \in 1 .. Len(fresh), s \in Sides :
           Child(L + i, s)' \in ({Null} \cup Record') \ {Root}
    <3> SUFFICES ASSUME NEW i \in 1 .. Len(fresh), NEW s \in Sides
                 PROVE  fresh[i][s] \in ({Null} \cup Record') \ {Root}
        BY <1>1
    <3>1. CASE fresh[i][s] = Null
        BY <3>1 DEF Null, Root
    <3>2. CASE \E j \in 2 .. Len(fresh) : fresh[i][s] = L + j
      <4>1. PICK j \in 2 .. Len(fresh) : fresh[i][s] = L + j
          BY <3>2
      <4>2. j \in 1 .. Len(fresh) /\ L + j \in F
          BY <1>2
      <4>3. L + j # Root
          BY <1>1, <4>2 DEF Forest
      <4> QED BY <1>1, <4>1, <4>2, <4>3
    <3>3. CASE fresh[i][s] \in Live \ (drop \cup {Root})
        BY <1>1, <3>3 DEF Live
    <3> QED BY <1>8, <3>1, <3>2, <3>3
  <2> QED BY <1>1, <2>1, <2>2
<1>11. \A n \in Record' : Child(n, "left")' # Null => Child(n, "left")' # Child(n, "right")'
  <2>1. \A n \in Record : Child(n, "left")' # Null => Child(n, "left")' # Child(n, "right")'
    <3>1. \A n \in Record, s \in Sides : Child(n, s) # L + 1
        BY <1>5 DEF Forest
    <3> QED BY <1>1, <1>6, <3>1 DEF Forest
  <2>2. \A i \in 1 .. Len(fresh) : fresh[i]["left"] = fresh[i]["right"] => fresh[i]["left"] = Null
    <3>1. "left" # "right"
        OBVIOUS
    <3> QED BY <1>6, <3>1 DEF Grafts
  <2>3. ASSUME NEW n \in Record', Child(n, "left")' # Null
        PROVE  Child(n, "left")' # Child(n, "right")'
    <3>1. CASE n \in Record
        BY <2>1, <2>3, <3>1
    <3>2. CASE n \in F
      <4>1. PICK i \in 1 .. Len(fresh) : n = L + i
          BY <3>2
      <4>2. Child(n, "left")' = fresh[i]["left"] /\ Child(n, "right")' = fresh[i]["right"]
          BY <1>1, <1>6, <4>1
      <4> QED BY <2>2, <2>3, <4>2
    <3> QED BY <1>1, <3>1, <3>2
  <2> QED BY <2>3
<1>12. \A n \in Live', s \in Sides : Child(n, s)' \notin finalized'
  <2>1. \A n \in Live \ drop, s \in Sides : Child(n, s)' \notin finalized'
    <3> SUFFICES ASSUME NEW n \in Live \ drop, NEW s \in Sides PROVE Child(n, s)' \notin finalized'
        OBVIOUS
    <3>1. CASE n = parent /\ s = side
      <4>1. L + 1 \notin finalized'
          BY <1>3, <1>5 DEF Forest, Grafts, Live
      <4> QED BY <3>1, <4>1, <1>1 DEF Live
    <3>2. CASE ~(n = parent /\ s = side)
      <4>1. Child(n, s) = old => n = parent /\ s = side
        <5>1. old # Null /\ old = Child(parent, side) /\ parent \in Live
            BY <1>1, <1>2 DEF Grafts, Null
        <5> QED BY <1>1, <5>1 DEF Forest
      <4>2. Child(n, s) \notin drop
          BY <3>2, <4>1 DEF Grafts
      <4>3. Child(n, s) \notin finalized /\ Child(n, s)' = Child(n, s)
          BY <3>2, <1>1 DEF Forest, Live
      <4> QED BY <4>2, <4>3, <1>3
    <3> QED BY <3>1, <3>2
  <2>2. \A i \in 1 .. Len(fresh), s \in Sides : fresh[i][s] \notin finalized'
    <3> SUFFICES ASSUME NEW i \in 1 .. Len(fresh), NEW s \in Sides
                 PROVE  fresh[i][s] \notin finalized'
        OBVIOUS
    <3>1. finalized' \subseteq Record
        BY <1>3 DEF Forest, Grafts, Live
    <3>2. CASE fresh[i][s] = Null
        BY <3>1, <3>2, <1>2 DEF Null
    <3>3. CASE \E j \in 2 .. Len(fresh) : fresh[i][s] = L + j
      <4>1. PICK j \in 2 .. Len(fresh) : fresh[i][s] = L + j
          BY <3>3
      <4>2. j \in 1 .. Len(fresh)
          BY <1>2
      <4> QED BY <1>1, <4>1, <4>2, <3>1
    <3>4. CASE fresh[i][s] \in Live \ (drop \cup {Root})
        BY <1>3, <3>4 DEF Live
    <3> QED BY <1>8, <3>2, <3>3, <3>4
  <2> QED BY <1>1, <2>1, <2>2
<1>13. \A n, m \in Live', s, t \in Sides :
          Child(n, s)' = Child(m, t)' /\ Child(n, s)' # Null => n = m /\ s = t
  <2> SUFFICES ASSUME NEW n \in Live', NEW m \in Live', NEW s \in Sides, NEW t \in Sides,
                      Child(n, s)' = Child(m, t)', Child(n, s)' # Null
               PROVE  n = m /\ s = t
      OBVIOUS
  <2>0. Live \subseteq Record /\ parent \in Live
      BY DEF Live, Grafts
  <2>1. \A k \in Live \ drop, r \in Sides, i \in 1 .. Len(fresh), u \in Sides :
           fresh[i][u] # Null => Child(k, r)' # fresh[i][u]
    <3> SUFFICES ASSUME NEW k \in Live \ drop, NEW r \in Sides, NEW i \in 1 .. Len(fresh),
                        NEW u \in Sides, fresh[i][u] # Null
                 PROVE  Child(k, r)' # fresh[i][u]
        OBVIOUS
    <3>1. Child(k, r)' = IF k = parent /\ r = side THEN L + 1 ELSE Child(k, r)
        BY <1>1, <2>0
    <3>2. Child(k, r) \in {Null} \cup Record
        BY <2>0 DEF Forest
    <3>3. CASE \E j \in 2 .. Len(fresh) : fresh[i][u] = L + j
      <4>1. PICK j \in 2 .. Len(fresh) : fresh[i][u] = L + j
          BY <3>3
      <4>2. L + j # L + 1 /\ L + j # Null /\ L + j \notin Record
          BY <1>1, <1>2 DEF Null
      <4> QED BY <3>1, <3>2, <4>1, <4>2
    <3>4. CASE fresh[i][u] \in Live \ (drop \cup {Root}) /\ Child(k, r) = fresh[i][u]
      <4>1. Child(k, r) = old
        <5>1. \A j \in i + 1 .. Len(fresh) : j \in 1 .. Len(fresh)
            BY <1>2
        <5>2. \A j \in i + 1 .. Len(fresh) : fresh[i][u] # L + j
            BY <1>1, <2>0, <3>4, <5>1
        <5> QED BY <3>4, <5>2 DEF Grafts, New
      <4>2. k = parent /\ r = side
        <5>1. old # Null /\ old = Child(parent, side) /\ parent \in Live
            BY <1>1, <1>2 DEF Grafts, Null
        <5> QED BY <1>1, <4>1, <5>1 DEF Forest
      <4> QED BY <3>1, <3>4, <4>2, <1>5, <2>0
    <3>5. CASE fresh[i][u] \in Live \ (drop \cup {Root}) /\ Child(k, r) # fresh[i][u]
        BY <3>1, <3>5, <1>5, <2>0
    <3> QED BY <1>8, <3>3, <3>4, <3>5
  <2>2. CASE n \in Live \ drop /\ m \in Live \ drop
    <3>1. \A k \in Record, r \in Sides : Child(k, r) # L + 1
        BY <1>5 DEF Forest
    <3> QED BY <2>0, <2>2, <3>1, <1>1 DEF Forest
  <2>3. CASE n \in F /\ m \in Live \ drop
      BY <2>1, <2>3, <1>1
  <2>4. CASE n \in Live \ drop /\ m \in F
      BY <2>1, <2>4, <1>1
  <2>5. CASE n \in F /\ m \in F
    <3>1. PICK i \in 1 .. Len(fresh), j \in 1 .. Len(fresh) : n = L + i /\ m = L + j
        BY <2>5
    <3>2. fresh[i][s] = fresh[j][t] /\ fresh[i][s] # Null
        BY <3>1, <1>1
    <3> QED BY <3>1, <3>2 DEF Grafts
  <2> QED BY <1>1, <2>2, <2>3, <2>4, <2>5
<1> QED BY <1>1, <1>4, <1>7, <1>9, <1>11, <1>12, <1>13 DEF Forest

\* A graft makes no cycle: the ranks are spread to make room for those of the
\* fresh records.
LEMMA GraftRanked ==
    ASSUME Forest, NEW rank, NEW top, Ranked(rank, top),
           NEW parent, NEW old, NEW keep, NEW drop, NEW fresh,
           Grafts(rank, parent, old, drop, fresh), Swing(parent, old, keep, drop, fresh)
    PROVE  \E r : Ranked(r, 5 * top)' /\ \A n \in Record : r[n] = 5 * rank[n]
<1> PICK L : L = Len(heap)
    OBVIOUS
<1> PICK side : side = SideOf(parent, old)
    OBVIOUS
<1>1. /\ Record' = Record \cup {L + i : i \in 1 .. Len(fresh)}
      /\ \A i \in 1 .. Len(fresh) : L + i \notin Record
      /\ side \in Sides /\ Child(parent, side) = old
      /\ \A n \in Record, s \in Sides :
            Child(n, s)' = IF n = parent /\ s = side THEN L + 1 ELSE Child(n, s)
      /\ \A i \in 1 .. Len(fresh), s \in Sides : Child(L + i, s)' = fresh[i][s]
  <2>1. Grafted(L, parent, old, drop, fresh)
      BY GraftedChildren
  <2> QED BY <2>1 DEF Grafted
<1>2. /\ Record = 1 .. L /\ L \in Nat /\ 1 \in 1 .. Len(fresh) /\ Len(fresh) \in Nat
      /\ \A i \in 1 .. Len(fresh) : i \in 1 .. 4
  <2>1. heap \in Seq(Cell)
      BY DEF Forest
  <2>2. Len(fresh) \in 1 .. 4
      BY DEF Grafts
  <2>3. \A m \in 1 .. 4 : 1 \in 1 .. m /\ m \in Nat /\ \A i \in 1 .. m : i \in 1 .. 4
      OBVIOUS
  <2>4. Record = 1 .. L /\ L \in Nat
      BY <2>1, RecordIs
  <2> QED BY <2>2, <2>3, <2>4
<1>3. /\ top \in Nat /\ \A n \in Record : rank[n] \in 0 .. top
      /\ \A n \in Record, s \in Sides : Child(n, s) # Null => rank[Child(n, s)] < rank[n]
    BY DEF Ranked
<1>4. parent \in Record /\ old \in Record /\ Null \notin Record
    BY <1>2 DEF Grafts, Live, Null
<1>5. rank[old] < rank[parent]
    BY <1>1, <1>3, <1>4
<1>r. PICK r : r = [n \in Record' |-> IF n \in Record THEN 5 * rank[n]
                                               ELSE 5 * rank[parent] - (n - L)]
    OBVIOUS
<1>6. \A n \in Record : r[n] = 5 * rank[n]
    BY <1>1, <1>r
<1>7. \A i \in 1 .. Len(fresh) : r[L + i] = 5 * rank[parent] - i
  <2> TAKE i \in 1 .. Len(fresh)
  <2>1. L + i \in Record' /\ L + i \notin Record
      BY <1>1
  <2>2. (L + i) - L = i
      BY <1>2
  <2> QED BY <2>1, <2>2, <1>r
<1>8. rank[parent] \in 1 .. top
  <2>1. rank[old] \in 0 .. top /\ rank[parent] \in 0 .. top
      BY <1>3, <1>4
  <2> QED BY <2>1, <1>3, <1>5
<1>9. r \in [Record' -> 0 .. 5 * top]
  <2>1. \A n \in Record : r[n] \in 0 .. 5 * top
    <3> TAKE n \in Record
    <3>1. rank[n] \in 0 .. top /\ r[n] = 5 * rank[n]
        BY <1>3, <1>6
    <3> QED BY <3>1, <1>3
  <2>2. \A i \in 1 .. Len(fresh) : r[L + i] \in 0 .. 5 * top
    <3> TAKE i \in 1 .. Len(fresh)
    <3>1. i \in 1 .. 4 /\ r[L + i] = 5 * rank[parent] - i
        BY <1>2, <1>7
    <3> HIDE DEF Ranked
    <3> QED BY <3>1, <1>3, <1>8
  <2>3. \A n \in Record' : r[n] \in 0 .. 5 * top
      BY <1>1, <2>1, <2>2
  <2> QED BY <2>3, <1>r
<1>10. \A n \in Record', s \in Sides : Child(n, s)' # Null => r[Child(n, s)'] < r[n]
  <2>1. ASSUME NEW n \in Record, NEW s \in Sides, Child(n, s)' # Null
        PROVE  r[Child(n, s)'] < r[n]
    <3>1. CASE n = parent /\ s = side
      <4>1. Child(n, s)' = L + 1
          BY <1>1, <3>1
      <4>0. 1 \in 1 .. Len(fresh)
          BY <1>2
      <4>2. r[L + 1] = 5 * rank[parent] - 1 /\ r[n] = 5 * rank[parent]
          BY <1>4, <1>6, <1>7, <3>1, <4>0
      <4> QED BY <4>1, <4>2, <1>8
    <3>2. CASE ~(n = parent /\ s = side)
      <4>1. Child(n, s)' = Child(n, s)
          BY <1>1, <3>2
      <4>2. Child(n, s) \in Record
          BY <2>1, <4>1 DEF Forest
      <4>3. rank[Child(n, s)] < rank[n]
          BY <1>3, <2>1, <4>1
      <4>4. r[Child(n, s)] = 5 * rank[Child(n, s)] /\ r[n] = 5 * rank[n]
          BY <1>6, <4>2
      <4>5. rank[Child(n, s)] \in 0 .. top /\ rank[n] \in 0 .. top
          BY <1>3, <4>2
      <4> QED BY <1>3, <4>1, <4>3, <4>4, <4>5
    <3> QED BY <3>1, <3>2
  <2>2. ASSUME NEW i \in 1 .. Len(fresh), NEW s \in Sides, fresh[i][s] # Null
        PROVE  r[fresh[i][s]] < r[L + i]
    <3>1. r[L + i] = 5 * rank[parent] - i /\ i \in Nat /\ i <= 4
      <4>1. i \in 1 .. 4
          BY <1>2
      <4> QED BY <4>1, <1>7
    <3>2. CASE \E j \in i + 1 .. Len(fresh) : fresh[i][s] = New(j)
      <4>1. PICK j \in i + 1 .. Len(fresh) : fresh[i][s] = L + j
          BY <3>2 DEF New
      <4>2. j \in 1 .. Len(fresh) /\ i < j
          BY <1>2, <3>1
      <4>3. r[L + j] = 5 * rank[parent] - j
          BY <1>7, <4>2
      <4> QED BY <1>2, <1>8, <3>1, <4>1, <4>2, <4>3
    <3>3. CASE fresh[i][s] \in Record /\ rank[fresh[i][s]] < rank[parent]
      <4>1. r[fresh[i][s]] = 5 * rank[fresh[i][s]] /\ rank[fresh[i][s]] \in 0 .. top
          BY <1>3, <1>6, <3>3
      <4> QED BY <1>3, <1>8, <3>1, <3>3, <4>1
    <3> QED BY <2>2, <3>2, <3>3 DEF Grafts, Live
  <2> SUFFICES ASSUME NEW n \in Record', NEW s \in Sides, Child(n, s)' # Null
               PROVE  r[Child(n, s)'] < r[n]
      OBVIOUS
  <2>3. CASE n \in Record
      BY <2>1, <2>3
  <2>4. CASE \E i \in 1 .. Len(fresh) : n = L + i
    <3>1. PICK i \in 1 .. Len(fresh) : n = L + i
        BY <2>4
    <3>2. Child(n, s)' = fresh[i][s]
        BY <1>1, <3>1
    <3> QED BY <2>2, <3>1, <3>2
  <2> QED BY <1>1, <2>3, <2>4
<1>11. 5 * top \in Nat
    BY <1>3
<1> QED BY <1>6, <1>9, <1>10, <1>11 DEF Ranked

\* A graft that leaves nothing behind: the children of what it drops are
\* dropped or taken over, and so is old.
Takes(old, drop, fresh) ==
    /\ \A d \in drop, s \in Sides :
          Child(d, s) \in Record \ drop =>
             \E i \in 1 .. Len(fresh), t \in Sides : fresh[i][t] = Child(d, s)
    /\ old \notin drop => \E i \in 1 .. Len(fresh), t \in Sides : fresh[i][t] = old
    /\ \A j \in 2 .. Len(fresh) :
          \E i \in 1 .. Len(fresh), t \in Sides : fresh[i][t] = New(j)

\* A graft that takes the children of what it drops along leaves no live
\* record without a live parent.
LEMMA GraftSpanning ==
    ASSUME Forest, Spanning, NEW rank, NEW parent, NEW old, NEW keep, NEW drop, NEW fresh,
           Grafts(rank, parent, old, drop, fresh), Takes(old, drop, fresh),
           Swing(parent, old, keep, drop, fresh)
    PROVE  Spanning'
<1> PICK L : L = Len(heap)
    OBVIOUS
<1> PICK side : side = SideOf(parent, old)
    OBVIOUS
<1>1. /\ Live' = (Live \ drop) \cup {L + i : i \in 1 .. Len(fresh)}
      /\ side \in Sides /\ Child(parent, side) = old
      /\ \A n \in Record, s \in Sides :
            Child(n, s)' = IF n = parent /\ s = side THEN L + 1 ELSE Child(n, s)
      /\ \A i \in 1 .. Len(fresh), s \in Sides : Child(L + i, s)' = fresh[i][s]
  <2>1. Grafted(L, parent, old, drop, fresh)
      BY GraftedChildren
  <2> QED BY <2>1 DEF Grafted
<1>2. Len(fresh) \in 1 .. 4
    BY DEF Grafts
<1>3. Live \subseteq Record /\ parent \in Live \ drop
    BY DEF Grafts, Live
<1>4. \A i \in 1 .. Len(fresh) : L + i \in Live'
    BY <1>1
<1>5. ASSUME NEW n \in (Live \ drop) \ {Root}
      PROVE  \E m \in Live', s \in Sides : Child(m, s)' = n
  <2>1. CASE \E i \in 1 .. Len(fresh), t \in Sides : fresh[i][t] = n
    <3>1. PICK i \in 1 .. Len(fresh), t \in Sides : fresh[i][t] = n
        BY <2>1
    <3>2. Child(L + i, t)' = n /\ L + i \in Live'
        BY <1>1, <1>4, <3>1
    <3> QED BY <3>2
  <2>2. CASE ~\E i \in 1 .. Len(fresh), t \in Sides : fresh[i][t] = n
    <3>1. PICK m \in Live, s \in Sides : Child(m, s) = n
        BY <1>5 DEF Spanning
    <3>2. m \notin drop
        BY <1>3, <1>5, <2>2, <3>1 DEF Takes
    <3>3. ~(m = parent /\ s = side)
      <4>1. n # old
          BY <1>5, <2>2 DEF Takes
      <4> QED BY <4>1, <3>1, <1>1
    <3>4. Child(m, s)' = n
        BY <1>1, <1>3, <3>1, <3>3
    <3> QED BY <1>1, <3>2, <3>4
  <2> QED BY <2>1, <2>2
<1>6. ASSUME NEW i \in 1 .. Len(fresh)
      PROVE  \E m \in Live', s \in Sides : Child(m, s)' = L + i
  <2>1. CASE i = 1
    <3>1. Child(parent, side)' = L + 1 /\ parent \in Live'
        BY <1>1, <1>3
    <3> QED BY <1>1, <2>1, <3>1
  <2>2. CASE i # 1
    <3>1. i \in 2 .. Len(fresh)
        BY <1>2, <2>2
    <3>2. PICK j \in 1 .. Len(fresh), t \in Sides : fresh[j][t] = L + i
        BY <3>1 DEF Takes, New
    <3> QED BY <1>1, <1>4, <3>2, ZenonT(40)
  <2> QED BY <2>1, <2>2
<1>7. \A n \in Live' \ {Root} : \E m \in Live', s \in Sides : Child(m, s)' = n
  <2> TAKE n \in Live' \ {Root}
  <2>1. CASE n \in Live \ drop
      BY <1>5, <2>1
  <2>2. CASE n \notin Live \ drop
    <3>1. PICK i \in 1 .. Len(fresh) : n = L + i
        BY <1>1, <2>2
    <3> QED BY <1>6, <3>1
  <2> QED BY <2>1, <2>2
<1> QED BY <1>7 DEF Spanning, Root

-----------------------------------------------------------------------------
\* The side on which a search for k leaves a record with that key, and the
\* side on which the keys of the records below it are: a key that was inserted
\* twice is on both.
TowardKey(key, k) == IF k < key THEN "left" ELSE "right"
OnSide(key, s, k) == IF s = "left" THEN k <= key ELSE key <= k

Route(key, s, ks) == {k \in ks : TowardKey(key, k) = s}
Part(key, s, ks)  == {k \in ks : OnSide(key, s, k)}

\* R[n]: keys a search for which passes n, for a live record all of them;
\* K[n]: a set that holds the keys of the records below n.  A search that
\* stands at a record which was finalized in the meantime still goes to where
\* its key is, unless it ends there.
Order(R, K) ==
    /\ R \in [Record -> SUBSET Int] /\ K \in [Record -> SUBSET Int]
    /\ Keys \subseteq R[Root]
    /\ \A n \in Live : Key(n) \in K[n] /\ R[n] \subseteq K[n]
    /\ \A n \in Live, s \in Sides : Child(n, s) # Null =>
          /\ R[Child(n, s)] = Route(Key(n), s, R[n])
          /\ K[Child(n, s)] \subseteq Part(Key(n), s, K[n])
    /\ \A n \in Record, s \in Sides : Child(n, s) # Null /\ ~IsLeaf(Child(n, s)) =>
          Route(Key(n), s, R[n]) \subseteq R[Child(n, s)]

\* The order is kept by a graft if these sets, for the records that were
\* there, and those, for the fresh ones, fit the new heap.
Sorts(R, K, fr, fk, parent, side, drop, fresh) ==
    /\ R \in [Record -> SUBSET Int] /\ K \in [Record -> SUBSET Int]
    /\ Keys \subseteq R[Root]
    /\ \A n \in Live \ drop : Key(n) \in K[n] /\ R[n] \subseteq K[n]
    /\ \A n \in Live \ drop, s \in Sides :
          Child(n, s) # Null /\ ~(n = parent /\ s = side) =>
             /\ R[Child(n, s)] = Route(Key(n), s, R[n])
             /\ K[Child(n, s)] \subseteq Part(Key(n), s, K[n])
    /\ \A n \in Record, s \in Sides :
          Child(n, s) # Null /\ ~(n = parent /\ s = side) /\ ~IsLeaf(Child(n, s)) =>
             Route(Key(n), s, R[n]) \subseteq R[Child(n, s)]
    /\ fr \in [1 .. Len(fresh) -> SUBSET Int] /\ fk \in [1 .. Len(fresh) -> SUBSET Int]
    /\ fr[1] = Route(Key(parent), side, R[parent])
    /\ fk[1] \subseteq Part(Key(parent), side, K[parent])
    /\ \A i \in 1 .. Len(fresh) : fresh[i].key \in fk[i] /\ fr[i] \subseteq fk[i]
    /\ \A i, j \in 1 .. Len(fresh), s \in Sides : fresh[i][s] = New(j) =>
          /\ fr[j] = Route(fresh[i].key, s, fr[i])
          /\ fk[j] \subseteq Part(fresh[i].key, s, fk[i])
    /\ \A i \in 1 .. Len(fresh), s \in Sides : fresh[i][s] \in Record =>
          /\ R[fresh[i][s]] = Route(fresh[i].key, s, fr[i])
          /\ K[fresh[i][s]] \subseteq Part(fresh[i].key, s, fk[i])

\* The order after a graft.
LEMMA GraftOrder ==
    ASSUME Forest, NEW rank, NEW parent, NEW old, NEW keep, NEW drop, NEW fresh,
           NEW R, NEW K, NEW fr, NEW fk,
           Grafts(rank, parent, old, drop, fresh), Swing(parent, old, keep, drop, fresh),
           Sorts(R, K, fr, fk, parent, SideOf(parent, old), drop, fresh)
    PROVE  \E R2, K2 : /\ Order(R2, K2)'
                       /\ \A n \in Record : R2[n] = R[n]
                       /\ \A i \in 1 .. Len(fresh) : R2[New(i)] = fr[i]
<1> PICK L : L = Len(heap)
    OBVIOUS
<1> PICK side : side = SideOf(parent, old)
    OBVIOUS
<1>1. /\ Record' = Record \cup {L + i : i \in 1 .. Len(fresh)}
      /\ Live' = (Live \ drop) \cup {L + i : i \in 1 .. Len(fresh)}
      /\ \A i \in 1 .. Len(fresh) : L + i \notin Record
      /\ side \in Sides /\ Child(parent, side) = old
      /\ \A n \in Record, s \in Sides :
            Child(n, s)' = IF n = parent /\ s = side THEN L + 1 ELSE Child(n, s)
      /\ \A i \in 1 .. Len(fresh), s \in Sides : Child(L + i, s)' = fresh[i][s]
      /\ \A n \in Record : Key(n)' = Key(n)
      /\ \A i \in 1 .. Len(fresh) : Key(L + i)' = fresh[i].key
  <2>1. Grafted(L, parent, old, drop, fresh)
      BY GraftedChildren
  <2> QED BY <2>1 DEF Grafted
<1>2. Record = 1 .. L /\ L \in Nat /\ 1 \in 1 .. Len(fresh) /\ Len(fresh) \in Nat
  <2>1. heap \in Seq(Cell)
      BY DEF Forest
  <2>2. Len(fresh) \in 1 .. 4
      BY DEF Grafts
  <2>3. \A m \in 1 .. 4 : 1 \in 1 .. m /\ m \in Nat
      OBVIOUS
  <2>4. Record = 1 .. L /\ L \in Nat
      BY <2>1, RecordIs
  <2> QED BY <2>2, <2>3, <2>4
<1>3. Sorts(R, K, fr, fk, parent, side, drop, fresh)
    OBVIOUS
<1>r. PICK R2 : R2 = [n \in Record' |-> IF n \in Record THEN R[n] ELSE fr[n - L]]
    OBVIOUS
<1>k. PICK K2 : K2 = [n \in Record' |-> IF n \in Record THEN K[n] ELSE fk[n - L]]
    OBVIOUS
<1>4. \A n \in Record : R2[n] = R[n] /\ K2[n] = K[n]
    BY <1>1, <1>r, <1>k
<1>5. \A i \in 1 .. Len(fresh) : R2[L + i] = fr[i] /\ K2[L + i] = fk[i]
  <2> TAKE i \in 1 .. Len(fresh)
  <2>1. L + i \in Record' /\ L + i \notin Record
      BY <1>1
  <2>2. (L + i) - L = i
      BY <1>2
  <2> QED BY <2>1, <2>2, <1>r, <1>k
<1>6. R2 \in [Record' -> SUBSET Int] /\ K2 \in [Record' -> SUBSET Int]
  <2>1. \A n \in Record : R2[n] \in SUBSET Int /\ K2[n] \in SUBSET Int
      BY <1>3, <1>4 DEF Sorts
  <2>2. \A i \in 1 .. Len(fresh) : R2[L + i] \in SUBSET Int /\ K2[L + i] \in SUBSET Int
      BY <1>3, <1>5 DEF Sorts
  <2>3. \A n \in Record' : R2[n] \in SUBSET Int /\ K2[n] \in SUBSET Int
      BY <1>1, <2>1, <2>2
  <2> QED BY <2>3, <1>r, <1>k
<1>7. Keys \subseteq R2[Root]
    BY <1>3, <1>4 DEF Sorts, Forest
<1>8. \A n \in Live' : Key(n)' \in K2[n] /\ R2[n] \subseteq K2[n]
  <2>1. \A n \in Live \ drop : Key(n)' \in K2[n] /\ R2[n] \subseteq K2[n]
      BY <1>1, <1>3, <1>4 DEF Sorts, Live
  <2>2. \A i \in 1 .. Len(fresh) : Key(L + i)' \in K2[L + i] /\ R2[L + i] \subseteq K2[L + i]
      BY <1>1, <1>3, <1>5 DEF Sorts
  <2> QED BY <1>1, <2>1, <2>2
<1>9. ASSUME NEW n \in Live', NEW s \in Sides, Child(n, s)' # Null
      PROVE  /\ R2[Child(n, s)'] = Route(Key(n)', s, R2[n])
             /\ K2[Child(n, s)'] \subseteq Part(Key(n)', s, K2[n])
  <2>1. CASE n = parent /\ s = side
    <3>1. Child(n, s)' = L + 1 /\ Key(n)' = Key(n) /\ n \in Record
        BY <1>1, <2>1 DEF Grafts, Live
    <3>2. R2[L + 1] = fr[1] /\ K2[L + 1] = fk[1]
        BY <1>2, <1>5
    <3> QED BY <1>3, <1>4, <2>1, <3>1, <3>2 DEF Sorts
  <2>2. CASE n \in Live \ drop /\ ~(n = parent /\ s = side)
    <3>1. n \in Record
        BY <2>2 DEF Live
    <3>2. Child(n, s)' = Child(n, s) /\ Key(n)' = Key(n)
        BY <1>1, <2>2, <3>1
    <3>3. Child(n, s) \in Record /\ Child(n, s) # Null
        BY <1>9, <3>1, <3>2 DEF Forest
    <3> QED BY <1>3, <1>4, <2>2, <3>1, <3>2, <3>3 DEF Sorts
  <2>3. CASE \E i \in 1 .. Len(fresh) : n = L + i
    <3>1. PICK i \in 1 .. Len(fresh) : n = L + i
        BY <2>3
    <3>2. Child(n, s)' = fresh[i][s] /\ Key(n)' = fresh[i].key
        BY <1>1, <3>1
    <3>3. R2[n] = fr[i] /\ K2[n] = fk[i]
        BY <1>5, <3>1
    <3>4. CASE \E j \in i + 1 .. Len(fresh) : fresh[i][s] = New(j)
      <4>1. PICK j \in i + 1 .. Len(fresh) : fresh[i][s] = New(j)
          BY <3>4
      <4>2. j \in 1 .. Len(fresh) /\ New(j) = L + j
          BY <1>2 DEF New
      <4>3. R2[L + j] = fr[j] /\ K2[L + j] = fk[j]
          BY <1>5, <4>2
      <4> QED BY <1>3, <3>2, <3>3, <4>1, <4>2, <4>3 DEF Sorts
    <3>5. CASE fresh[i][s] \in Record
        BY <1>3, <1>4, <3>2, <3>3, <3>5 DEF Sorts
    <3> QED BY <1>9, <3>2, <3>4, <3>5 DEF Grafts, Live
  <2> QED BY <1>1, <2>1, <2>2, <2>3
<1>10. ASSUME NEW n \in Record', NEW s \in Sides, Child(n, s)' # Null,
              NEW c, c = Child(n, s)', ~IsLeaf(c)'
       PROVE  Route(Key(n)', s, R2[n]) \subseteq R2[c]
  <2>1. CASE n \in Live'
      BY <1>9, <1>10, <2>1
  <2>2. CASE n \notin Live'
    <3>1. n \in Record /\ n # parent
        BY <1>1, <2>2 DEF Grafts
    <3>2. c = Child(n, s) /\ Key(n)' = Key(n)
        BY <1>1, <1>10, <3>1
    <3>3. c \in Record /\ c # Null
        BY <1>10, <3>1, <3>2 DEF Forest
    <3>4. ~IsLeaf(c)
      <4>1. CASE c = parent
        <5>1. old # Null
            BY <1>2 DEF Grafts, Null
        <5>2. \A t \in Sides : Child(c, t) # Null
          <6>1. \A t \in Sides : Child(c, t)' # Null
              BY <1>10 DEF IsLeaf, Sides
          <6> QED BY <1>1, <3>3, <4>1, <5>1, <6>1
        <5> QED BY <5>2 DEF IsLeaf, Sides
      <4>2. CASE c # parent
        <5>1. Child(c, "left")' = Child(c, "left") /\ Child(c, "right")' = Child(c, "right")
            BY <1>1, <3>3, <4>2 DEF Sides
        <5> QED BY <1>10, <5>1 DEF IsLeaf
      <4> QED BY <4>1, <4>2
    <3> QED BY <1>3, <1>4, <3>1, <3>2, <3>3, <3>4 DEF Sorts
  <2> QED BY <2>1, <2>2
<1>11. Order(R2, K2)'
  <2>1. \A n \in Record', s \in Sides : Child(n, s)' # Null /\ ~IsLeaf(Child(n, s))' =>
           Route(Key(n)', s, R2[n]) \subseteq R2[Child(n, s)']
    <3> TAKE n \in Record', s \in Sides
    <3> PICK c : c = Child(n, s)'
        OBVIOUS
    <3>1. IsLeaf(Child(n, s))' <=> IsLeaf(c)'
        BY DEF IsLeaf, Child
    <3> QED BY <1>10, <3>1
  <2> QED BY <1>6, <1>7, <1>8, <1>9, <2>1 DEF Order, Route, Part
<1>12. \A i \in 1 .. Len(fresh) : R2[New(i)] = fr[i]
    BY <1>5 DEF New
<1> QED BY <1>4, <1>11, <1>12

-----------------------------------------------------------------------------
\* A record with a child missing, and one with both or none.
LeafCell(c)  == \E s \in Sides : c[s] = Null
WholeCell(c) == \A s, t \in Sides : c[s] = Null => c[t] = Null

\* The leaves that are dropped are copied, with their searches, and no other
\* fresh record is a leaf; unless one of them lacks one child.
Copies(R, fr, drop, fresh) ==
    (\A i \in 1 .. Len(fresh) : WholeCell(fresh[i])) =>
       /\ \A d \in drop : IsLeaf(d) =>
             \E i \in 1 .. Len(fresh) :
                LeafCell(fresh[i]) /\ fresh[i].key = Key(d) /\ fr[i] = R[d]
       /\ \A i \in 1 .. Len(fresh) : LeafCell(fresh[i]) =>
             \E d \in drop : IsLeaf(d) /\ Key(d) = fresh[i].key /\ fr[i] = R[d]

\* An update that loses nothing of what is below old, in a forest with ranks.
Keeps(rank, parent, old) ==
    \E keep, drop, fresh :
       /\ Swing(parent, old, keep, drop, fresh)
       /\ Grafts(rank, parent, old, drop, fresh)
       /\ Takes(old, drop, fresh)
       /\ \A R, K : Order(R, K) =>
             \E fr, fk : /\ Sorts(R, K, fr, fk, parent, SideOf(parent, old), drop, fresh)
                         /\ Copies(R, fr, drop, fresh)

\* A child of a live record.
LEMMA LiveChild ==
    ASSUME Forest, NEW rank, NEW top, Ranked(rank, top),
           NEW n \in Live, NEW s \in Sides, Child(n, s) # Null
    PROVE  /\ Child(n, s) \in Live /\ Child(n, s) # Root /\ Child(n, s) \in Record
           /\ rank[Child(n, s)] < rank[n]
           /\ rank[n] \in Int /\ rank[Child(n, s)] \in Int
BY DEF Forest, Ranked, Live

\* The side on which a child hangs.
LEMMA SideOfChild ==
    ASSUME NEW n, NEW c, \E s \in Sides : Child(n, s) = c
    PROVE  SideOf(n, c) \in Sides /\ Child(n, SideOf(n, c)) = c
BY DEF SideOf, Sides

\* A child of a dropped record that is not dropped itself can be taken over.
LEMMA Taken ==
    ASSUME Forest, NEW rank, NEW top, Ranked(rank, top),
           NEW parent \in Live, NEW drop \in SUBSET Live,
           \A d \in drop : rank[d] < rank[parent],
           NEW d \in drop, NEW s \in Sides, Child(d, s) # Null, Child(d, s) \notin drop
    PROVE  /\ Child(d, s) \in Live \ (drop \cup {Root})
           /\ rank[Child(d, s)] < rank[parent]
           /\ \A n \in Live \ drop, t \in Sides : Child(n, t) # Child(d, s)
<1>1. Child(d, s) \in Live /\ Child(d, s) # Root /\ rank[Child(d, s)] < rank[d]
    BY LiveChild
<1>2. rank[d] \in Int /\ rank[Child(d, s)] \in Int /\ rank[parent] \in Int
    BY <1>1 DEF Ranked, Live
<1>3. \A n \in Live \ drop, t \in Sides : Child(n, t) # Child(d, s)
    BY DEF Forest
<1> QED BY <1>1, <1>2, <1>3

\* What is left to show of Sorts when the records that were there keep their
\* sets and the first of the fresh ones gets those of old.
Inherits(R, K, fr, fk, old, drop, fresh) ==
    /\ Copies(R, fr, drop, fresh)
    /\ fr \in [1 .. Len(fresh) -> SUBSET Int] /\ fk \in [1 .. Len(fresh) -> SUBSET Int]
    /\ fr[1] = R[old] /\ fk[1] \subseteq K[old]
    /\ \A i \in 1 .. Len(fresh) : fresh[i].key \in fk[i] /\ fr[i] \subseteq fk[i]
    /\ \A i, j \in 1 .. Len(fresh), s \in Sides : fresh[i][s] = New(j) =>
          /\ fr[j] = Route(fresh[i].key, s, fr[i])
          /\ fk[j] \subseteq Part(fresh[i].key, s, fk[i])
    /\ \A i \in 1 .. Len(fresh), s \in Sides : fresh[i][s] \in Record =>
          /\ R[fresh[i][s]] = Route(fresh[i].key, s, fr[i])
          /\ K[fresh[i][s]] \subseteq Part(fresh[i].key, s, fk[i])

\* A graft in the place of old sorts what is below parent as before, when the
\* fresh records inherit the searches and keys of old.
LEMMA OldSorts ==
    ASSUME Forest, NEW parent \in Live, NEW old, \E s \in Sides : Child(parent, s) = old,
           old # Null, NEW drop, drop \subseteq Live, NEW fresh,
           NEW R, NEW K, NEW fr, NEW fk, Order(R, K), Inherits(R, K, fr, fk, old, drop, fresh)
    PROVE  Sorts(R, K, fr, fk, parent, SideOf(parent, old), drop, fresh)
<1> PICK side : side = SideOf(parent, old)
    OBVIOUS
<1>1. side \in Sides /\ Child(parent, side) = old
    BY SideOfChild
<1>2. fr[1] = Route(Key(parent), side, R[parent])
    BY <1>1 DEF Order, Inherits
<1>3. fk[1] \subseteq Part(Key(parent), side, K[parent])
    BY <1>1 DEF Order, Inherits
<1> QED BY <1>2, <1>3 DEF Sorts, Order, Inherits

\* An update that drops old and records below it, and whose fresh records
\* point to fresh ones and to what was below the dropped ones.
Replacing(rank, parent, old, drop, fresh) ==
    /\ parent \in Live /\ \E s \in Sides : Child(parent, s) = old
    /\ old \in drop /\ drop \subseteq Live
    /\ \A d \in drop : rank[d] < rank[parent]
    /\ \A d \in drop : d = old \/ \E e \in drop, s \in Sides : Child(e, s) = d
    /\ fresh \in Seq(Cell) /\ Len(fresh) \in 1 .. 4
    /\ \A i \in 1 .. Len(fresh), s \in Sides :
          \/ fresh[i][s] = Null
          \/ \E j \in i + 1 .. Len(fresh) : fresh[i][s] = New(j)
          \/ fresh[i][s] \notin drop /\ \E d \in drop, t \in Sides : Child(d, t) = fresh[i][s]
    /\ \A i, j \in 1 .. Len(fresh), s, t \in Sides :
          fresh[i][s] = fresh[j][t] /\ fresh[i][s] # Null => i = j /\ s = t

\* Its swing grafts.
LEMMA Replaces ==
    ASSUME Forest, NEW rank, NEW top, Ranked(rank, top),
           NEW parent, NEW drop, NEW old, NEW fresh, Replacing(rank, parent, old, drop, fresh)
    PROVE  Grafts(rank, parent, old, drop, fresh)
<1>0. /\ parent \in Live /\ \E s \in Sides : Child(parent, s) = old
      /\ old \in drop /\ drop \in SUBSET Live
      /\ \A d \in drop : rank[d] < rank[parent]
      /\ \A d \in drop : d = old \/ \E e \in drop, s \in Sides : Child(e, s) = d
      /\ fresh \in Seq(Cell) /\ Len(fresh) \in 1 .. 4
      /\ \A i \in 1 .. Len(fresh), s \in Sides :
          \/ fresh[i][s] = Null
          \/ \E j \in i + 1 .. Len(fresh) : fresh[i][s] = New(j)
          \/ fresh[i][s] \notin drop /\ \E d \in drop, t \in Sides : Child(d, t) = fresh[i][s]
      /\ \A i, j \in 1 .. Len(fresh), s, t \in Sides :
          fresh[i][s] = fresh[j][t] /\ fresh[i][s] # Null => i = j /\ s = t
    BY DEF Replacing
<1> USE <1>0
<1>1. old \in Record /\ parent \notin drop
  <2>1. rank[parent] \in Int
      BY DEF Ranked, Live
  <2> QED BY <2>1 DEF Live
<1>2. Root \notin drop
  <2>1. old # Root
      BY DEF Forest, Live
  <2>2. \A d \in drop : d # Root
      BY <2>1 DEF Forest, Live
  <2> QED BY <2>2
<1>3. \A n \in Live \ drop, s \in Sides : Child(n, s) \in drop => Child(n, s) = old
  <2> SUFFICES ASSUME NEW n \in Live \ drop, NEW s \in Sides, Child(n, s) \in drop,
                      Child(n, s) # old
               PROVE  FALSE
      OBVIOUS
  <2>1. PICK e \in drop, t \in Sides : Child(e, t) = Child(n, s)
      OBVIOUS
  <2>2. Child(n, s) # Null
    <3>1. Null \notin Record
        BY RecordIs DEF Forest, Null
    <3> QED BY <3>1 DEF Live
  <2> QED BY <2>1, <2>2 DEF Forest
<1>4. ASSUME NEW i \in 1 .. Len(fresh), NEW s \in Sides, fresh[i][s] # Null,
             NEW d \in drop, NEW t \in Sides, Child(d, t) = fresh[i][s], fresh[i][s] \notin drop
      PROVE  /\ fresh[i][s] \in Live \ (drop \cup {Root})
             /\ rank[fresh[i][s]] < rank[parent]
             /\ \A n \in Live \ drop, u \in Sides : Child(n, u) # fresh[i][s]
  <2>1. /\ Child(d, t) \in Live \ (drop \cup {Root})
        /\ rank[Child(d, t)] < rank[parent]
        /\ \A n \in Live \ drop, u \in Sides : Child(n, u) # Child(d, t)
      BY <1>4, Taken
  <2> QED BY <1>4, <2>1
<1>5. \A i \in 1 .. Len(fresh), s \in Sides :
          \/ fresh[i][s] = Null
          \/ \E j \in i + 1 .. Len(fresh) : fresh[i][s] = New(j)
          \/ /\ fresh[i][s] \in Live \ (drop \cup {Root})
             /\ rank[fresh[i][s]] < rank[parent]
             /\ \A n \in Live \ drop, t \in Sides : Child(n, t) = fresh[i][s] => fresh[i][s] = old
    BY <1>4
<1> QED BY <1>1, <1>2, <1>3, <1>5 DEF Grafts

\* Searches that a key sends to `side' of b have been sent there by a key
\* beyond b as well, and the order in which two keys are asked is immaterial.
LEMMA Routes ==
    ASSUME NEW side \in Sides, NEW a \in Int, NEW b \in Int, OnSide(a, side, b),
           NEW S \in SUBSET Int
    PROVE  /\ OnSide(b, Opposite(side), a)
           /\ Route(b, side, Route(a, side, S)) = Route(b, side, S)
           /\ Route(a, Opposite(side), Route(b, Opposite(side), S)) = Route(a, Opposite(side), S)
           /\ Part(b, side, Part(a, side, S)) = Part(b, side, S)
           /\ Part(a, Opposite(side), Part(b, Opposite(side), S)) = Part(a, Opposite(side), S)
<1>1. CASE side = "left"
  <2>1. b <= a
      BY <1>1 DEF OnSide
  <2>2. \A k \in Int : (k < b => k < a) /\ (k <= b => k <= a) /\ (a <= k => b <= k)
      BY <2>1
  <2>3. OnSide(b, Opposite(side), a)
      BY <1>1, <2>1 DEF OnSide, Opposite
  <2>4. /\ Route(b, side, Route(a, side, S)) = Route(b, side, S)
        /\ Route(a, Opposite(side), Route(b, Opposite(side), S)) = Route(a, Opposite(side), S)
      BY <1>1, <2>2 DEF Route, TowardKey, Opposite
  <2>5. /\ Part(b, side, Part(a, side, S)) = Part(b, side, S)
        /\ Part(a, Opposite(side), Part(b, Opposite(side), S)) = Part(a, Opposite(side), S)
      BY <1>1, <2>2 DEF Part, OnSide, Opposite
  <2> QED BY <2>3, <2>4, <2>5
<1>2. CASE side = "right"
  <2>1. a <= b
      BY <1>2 DEF OnSide
  <2>2. \A k \in Int : (k < a => k < b) /\ (k <= a => k <= b) /\ (b <= k => a <= k)
      BY <2>1
  <2>3. OnSide(b, Opposite(side), a)
      BY <1>2, <2>1 DEF OnSide, Opposite
  <2>4. /\ Route(b, side, Route(a, side, S)) = Route(b, side, S)
        /\ Route(a, Opposite(side), Route(b, Opposite(side), S)) = Route(a, Opposite(side), S)
      BY <1>2, <2>2 DEF Route, TowardKey, Opposite
  <2>5. /\ Part(b, side, Part(a, side, S)) = Part(b, side, S)
        /\ Part(a, Opposite(side), Part(b, Opposite(side), S)) = Part(a, Opposite(side), S)
      BY <1>2, <2>2 DEF Part, OnSide, Opposite
  <2> QED BY <2>3, <2>4, <2>5
<1> QED BY <1>1, <1>2 DEF Sides

\* In whatever order two keys are compared, the same searches pass both.
LEMMA RoutesCommute ==
    ASSUME NEW a, NEW b, NEW s, NEW t, NEW S
    PROVE  /\ Route(a, s, Route(b, t, S)) = Route(b, t, Route(a, s, S))
           /\ Part(a, s, Part(b, t, S)) = Part(b, t, Part(a, s, S))
BY DEF Route, Part

\* What is sent to a side is on it.
LEMMA RouteInPart ==
    ASSUME NEW a \in Int, NEW s \in Sides, NEW S \in SUBSET Int, NEW T \in SUBSET Int, S \subseteq T
    PROVE  /\ Route(a, s, S) \in SUBSET Int /\ Part(a, s, T) \in SUBSET Int
           /\ Route(a, s, S) \subseteq Part(a, s, T)
           /\ Part(a, s, S) \subseteq Part(a, s, T)
<1>1. \A k \in Int : TowardKey(a, k) = s => OnSide(a, s, k)
    BY DEF TowardKey, OnSide, Sides
<1> QED BY <1>1 DEF Route, Part

\* The sets of a live record and of its child.
LEMMA ChildSets ==
    ASSUME Forest, NEW R, NEW K, Order(R, K), NEW n \in Live, NEW s \in Sides, Child(n, s) # Null
    PROVE  /\ Key(n) \in Int /\ Key(Child(n, s)) \in Int /\ OnSide(Key(n), s, Key(Child(n, s)))
           /\ R[n] \in SUBSET Int /\ K[n] \in SUBSET Int
           /\ R[Child(n, s)] \in SUBSET Int /\ K[Child(n, s)] \in SUBSET Int
           /\ R[n] \subseteq K[n] /\ Key(n) \in K[n]
           /\ R[Child(n, s)] \subseteq K[Child(n, s)] /\ Key(Child(n, s)) \in K[Child(n, s)]
           /\ R[Child(n, s)] = Route(Key(n), s, R[n])
           /\ K[Child(n, s)] \subseteq Part(Key(n), s, K[n])
<1>1. Child(n, s) \in Live /\ n \in Record /\ Child(n, s) \in Record
    BY DEF Forest, Live
<1>2. /\ R[n] \in SUBSET Int /\ K[n] \in SUBSET Int
      /\ R[Child(n, s)] \in SUBSET Int /\ K[Child(n, s)] \in SUBSET Int
    BY <1>1 DEF Order
<1>3. /\ R[n] \subseteq K[n] /\ Key(n) \in K[n]
      /\ R[Child(n, s)] \subseteq K[Child(n, s)] /\ Key(Child(n, s)) \in K[Child(n, s)]
      /\ R[Child(n, s)] = Route(Key(n), s, R[n])
      /\ K[Child(n, s)] \subseteq Part(Key(n), s, K[n])
    BY <1>1 DEF Order
<1>4. OnSide(Key(n), s, Key(Child(n, s)))
    BY <1>3 DEF Part
<1> QED BY <1>2, <1>3, <1>4

\* An update that keeps what is below old, in the order it was in.
LEMMA KeepsIf ==
    ASSUME Forest, NEW rank, NEW top, Ranked(rank, top),
           NEW parent, NEW old, NEW keep, NEW drop, NEW fresh,
           Swing(parent, old, keep, drop, fresh),
           Replacing(rank, parent, old, drop, fresh), Takes(old, drop, fresh),
           \A R, K : Order(R, K) => \E fr, fk : Inherits(R, K, fr, fk, old, drop, fresh)
    PROVE  Keeps(rank, parent, old)
<1>1. Grafts(rank, parent, old, drop, fresh)
    BY Replaces
<1>2. parent \in Live /\ drop \subseteq Live /\ old \in drop
      /\ \E s \in Sides : Child(parent, s) = old
    BY DEF Replacing
<1>3. old # Null
    BY <1>2, RecordIs DEF Forest, Live, Null
<1>4. ASSUME NEW R, NEW K, Order(R, K)
      PROVE  \E fr, fk : /\ Sorts(R, K, fr, fk, parent, SideOf(parent, old), drop, fresh)
                         /\ Copies(R, fr, drop, fresh)
  <2>1. PICK fr, fk : Inherits(R, K, fr, fk, old, drop, fresh)
      BY <1>4
  <2>2. Sorts(R, K, fr, fk, parent, SideOf(parent, old), drop, fresh)
      BY <1>2, <1>3, <1>4, <2>1, OldSorts
  <2> QED BY <2>1, <2>2 DEF Inherits
<1> QED BY <1>1, <1>4 DEF Keeps

-----------------------------------------------------------------------------
(***************************************************************************)
(* The updates                                                             *)
(***************************************************************************)
\* Every pointer is Null or a record that was there; the names of the fresh
\* ones are neither.
LEMMA FreshNames ==
    ASSUME Forest
    PROVE  /\ \A i, j \in 1 .. 4 : New(i) = New(j) => i = j
           /\ \A i \in 1 .. 4 : New(i) \notin Record /\ New(i) # Null
           /\ New(1) \in Nat /\ New(2) \in Nat /\ New(3) \in Nat /\ New(4) \in Nat
           /\ Null \notin Record /\ Record \subseteq Nat
BY RecordIs DEF New, Null, Forest

\* The records made by tryRebalance1 and 4.
Recoloured(node, w, w1, w2) ==
    << Rec(Key(node), w, New(2), New(3)),
       Reweighed(Child(node, "left"), w1), Reweighed(Child(node, "right"), w2) >>

\* A node and its two children become copies of themselves that weigh
\* something else.
LEMMA RecolourKeeps ==
    ASSUME Forest, NEW rank, NEW top, Ranked(rank, top),
           NEW parent \in Live, NEW node \in Live, NEW q \in Sides, Child(parent, q) = node,
           ~IsLeaf(node), NEW w \in Int, NEW w1 \in Int, NEW w2 \in Int, NEW l, NEW r,
           l = Child(node, "left"), r = Child(node, "right"),
           Swing(parent, node, {}, {node, l, r}, Recoloured(node, w, w1, w2))
    PROVE  Keeps(rank, parent, node)
<1> PICK fresh : fresh = Recoloured(node, w, w1, w2)
    OBVIOUS
<1> PICK drop : drop = {node, l, r}
    OBVIOUS
<1>0. Sides = {"left", "right"}
    BY DEF Sides
<1>1. /\ l \in Live /\ r \in Live /\ l # r /\ node \in Record /\ l \in Record /\ r \in Record
      /\ rank[node] < rank[parent] /\ rank[l] < rank[parent] /\ rank[r] < rank[parent]
      /\ node # l /\ node # r /\ rank[l] < rank[node] /\ rank[r] < rank[node]
      /\ \A n \in Record : rank[n] \in Int
  <2>1. l # Null /\ r # Null
      BY DEF IsLeaf
  <2>2. l \in Live /\ r \in Live /\ rank[l] < rank[node] /\ rank[r] < rank[node]
      BY <1>0, <2>1, LiveChild
  <2>3. node # Null
      BY RecordIs DEF Null, Live, Forest
  <2>4. rank[node] < rank[parent]
      BY <2>3, LiveChild
  <2>5. rank[node] \in Int /\ rank[l] \in Int /\ rank[r] \in Int /\ rank[parent] \in Int
      BY <2>2 DEF Ranked, Live
  <2>6. l # r
      BY <2>1 DEF Forest, Live
  <2>7. \A n \in Record : rank[n] \in Int
      BY DEF Ranked
  <2> QED BY <2>2, <2>4, <2>5, <2>6, <2>7 DEF Live
<1>2. heap \in Seq(Cell) /\ Key(node) \in Keys \cup {MaxKey}
  <2>1. heap[node] \in Cell
      BY <1>1, RecordIs DEF Forest
  <2> QED BY <2>1, CellFields DEF Forest, Key
<1>3. /\ Rec(Key(node), w, New(2), New(3)) \in Cell
      /\ Rec(Key(node), w, New(2), New(3)).key = Key(node)
      /\ Rec(Key(node), w, New(2), New(3))["left"] = New(2)
      /\ Rec(Key(node), w, New(2), New(3))["right"] = New(3)
  <2>0. PICK k, m2, m3 : k = Key(node) /\ m2 = New(2) /\ m3 = New(3)
      OBVIOUS
  <2>1. k \in Keys \cup {MaxKey} /\ m2 \in Nat /\ m3 \in Nat
      BY <1>2, <2>0, FreshNames
  <2>2. /\ Rec(k, w, m2, m3) \in Cell /\ Rec(k, w, m2, m3).key = k
        /\ Rec(k, w, m2, m3)["left"] = m2 /\ Rec(k, w, m2, m3)["right"] = m3
      BY <2>1, RecFields
  <2> QED BY <2>0, <2>2
<1>4. /\ Reweighed(l, w1) \in Cell /\ Reweighed(r, w2) \in Cell
      /\ Reweighed(l, w1).key = Key(l) /\ Reweighed(r, w2).key = Key(r)
      /\ \A s \in Sides : Reweighed(l, w1)[s] = Child(l, s) /\ Reweighed(r, w2)[s] = Child(r, s)
    BY <1>1, <1>2, ReweighedFields
<1>5. /\ fresh \in Seq(Cell) /\ Len(fresh) = 3 /\ 1 .. Len(fresh) = {1, 2, 3}
      /\ fresh[1].key = Key(node) /\ fresh[2].key = Key(l) /\ fresh[3].key = Key(r)
      /\ fresh[1]["left"] = New(2) /\ fresh[1]["right"] = New(3)
      /\ \A s \in Sides : fresh[2][s] = Child(l, s) /\ fresh[3][s] = Child(r, s)
  <2>1. fresh = << Rec(Key(node), w, New(2), New(3)), Reweighed(l, w1), Reweighed(r, w2) >>
      BY DEF Recoloured
  <2>2. fresh \in Seq(Cell) /\ Len(fresh) = 3
      BY <1>3, <1>4, <2>1
  <2> QED BY <1>3, <1>4, <2>1, <2>2
<1>6. \A s \in Sides, c \in {l, r} : Child(c, s) # Null =>
          /\ Child(c, s) \in Record /\ Child(c, s) \notin drop
          /\ \A t \in Sides, e \in {l, r} : Child(e, t) = Child(c, s) => e = c /\ t = s
  <2> TAKE s \in Sides, c \in {l, r}
  <2> HAVE Child(c, s) # Null
  <2>1. Child(c, s) \in Record /\ rank[Child(c, s)] < rank[c] /\ rank[c] < rank[parent]
      BY <1>1, LiveChild
  <2>2. Child(c, s) # l /\ Child(c, s) # r
      BY <1>0, <1>1, FreshNames, SMTT(40) DEF Forest
  <2>3. Child(c, s) # node
      BY <1>1, <2>1
  <2>4. \A t \in Sides, e \in {l, r} : Child(e, t) = Child(c, s) => e = c /\ t = s
      BY <1>1 DEF Forest
  <2> QED BY <2>1, <2>2, <2>3, <2>4
<1>7. Replacing(rank, parent, node, drop, fresh)
  <2>1. \A d \in drop : rank[d] < rank[parent]
      BY <1>1
  <2>2. \A d \in drop : d = node \/ \E e \in drop, s \in Sides : Child(e, s) = d
      BY <1>0
  <2>3. Len(fresh) \in 1 .. 4
      BY <1>5
  <2>4. ASSUME NEW i \in 1 .. Len(fresh), NEW s \in Sides
        PROVE  \/ fresh[i][s] = Null
               \/ \E j \in i + 1 .. Len(fresh) : fresh[i][s] = New(j)
               \/ fresh[i][s] \notin drop /\ \E d \in drop, t \in Sides : Child(d, t) = fresh[i][s]
    <3>1. CASE i = 1
      <4>1. 2 \in i + 1 .. Len(fresh) /\ 3 \in i + 1 .. Len(fresh)
          BY <1>5, <3>1
      <4> QED BY <1>0, <1>5, <3>1, <4>1
    <3>2. CASE i = 2
        BY <1>5, <1>6, <3>2
    <3>3. CASE i = 3
        BY <1>5, <1>6, <3>3
    <3> QED BY <1>5, <3>1, <3>2, <3>3
  <2>5. ASSUME NEW i \in 1 .. Len(fresh), NEW j \in 1 .. Len(fresh), NEW s \in Sides, NEW t \in Sides,
               fresh[i][s] = fresh[j][t], fresh[i][s] # Null
        PROVE  i = j /\ s = t
    <3>1. New(2) # New(3) /\ New(2) \notin Record /\ New(3) \notin Record
        BY FreshNames
    <3> QED BY <1>0, <1>1, <1>5, <1>6, <2>5, <3>1
  <2> QED BY <1>1, <1>5, <2>1, <2>2, <2>3, <2>4, <2>5 DEF Replacing
<1>8. Takes(node, drop, fresh)
  <2>1. \A d \in drop, s \in Sides :
          Child(d, s) \in Record \ drop =>
             \E i \in 1 .. Len(fresh), t \in Sides : fresh[i][t] = Child(d, s)
      BY <1>0, <1>5
  <2>2. \A j \in 2 .. Len(fresh) :
          \E i \in 1 .. Len(fresh), t \in Sides : fresh[i][t] = New(j)
    <3>1. \A j \in 2 .. Len(fresh) : j = 2 \/ j = 3
        BY <1>5
    <3> QED BY <1>0, <1>5, <3>1
  <2> QED BY <2>1, <2>2 DEF Takes
<1>9. ASSUME NEW R, NEW K, Order(R, K)
      PROVE  \E fr, fk : Inherits(R, K, fr, fk, node, drop, fresh)
  <2> PICK fr : fr = <<R[node], R[l], R[r]>>
      OBVIOUS
  <2> PICK fk : fk = <<K[node], K[l], K[r]>>
      OBVIOUS
  <2>0. Child(node, "left") # Null /\ Child(node, "right") # Null
      BY DEF IsLeaf
  <2>1. /\ R[node] \in SUBSET Int /\ R[l] \in SUBSET Int /\ R[r] \in SUBSET Int
        /\ K[node] \in SUBSET Int /\ K[l] \in SUBSET Int /\ K[r] \in SUBSET Int
        /\ \A c \in {node, l, r} : R[c] \subseteq K[c] /\ Key(c) \in K[c]
      BY <1>9, <1>1 DEF Order, Live
  <2>2. /\ fr \in [1 .. Len(fresh) -> SUBSET Int] /\ fk \in [1 .. Len(fresh) -> SUBSET Int]
        /\ fr[1] = R[node] /\ fr[2] = R[l] /\ fr[3] = R[r]
        /\ fk[1] = K[node] /\ fk[2] = K[l] /\ fk[3] = K[r]
    <3>1. Len(fresh) = 3
        BY <1>5
    <3> QED BY <2>1, <3>1
  <2>3. \A i \in 1 .. Len(fresh) : fresh[i].key \in fk[i] /\ fr[i] \subseteq fk[i]
      BY <1>5, <2>1, <2>2
  <2>4. /\ R[l] = Route(Key(node), "left", R[node]) /\ R[r] = Route(Key(node), "right", R[node])
        /\ K[l] \subseteq Part(Key(node), "left", K[node])
        /\ K[r] \subseteq Part(Key(node), "right", K[node])
      BY <1>0, <1>9, <2>0 DEF Order
  <2>5. ASSUME NEW i \in 1 .. Len(fresh), NEW j \in 1 .. Len(fresh), NEW s \in Sides,
               fresh[i][s] = New(j)
        PROVE  /\ fr[j] = Route(fresh[i].key, s, fr[i])
               /\ fk[j] \subseteq Part(fresh[i].key, s, fk[i])
    <3>1. j \in {1, 2, 3} /\ New(j) \notin Record /\ New(j) # Null
          /\ (New(j) = New(2) => j = 2) /\ (New(j) = New(3) => j = 3)
      <4>1. j \in 1 .. 4 /\ 2 \in 1 .. 4 /\ 3 \in 1 .. 4
          BY <1>5
      <4> QED BY <1>5, <4>1, FreshNames
    <3>2. i = 1
        BY <1>5, <1>6, <2>5, <3>1
    <3> QED BY <1>0, <1>5, <2>2, <2>4, <2>5, <3>1, <3>2
  <2>6. ASSUME NEW i \in 1 .. Len(fresh), NEW s \in Sides, fresh[i][s] \in Record
        PROVE  /\ R[fresh[i][s]] = Route(fresh[i].key, s, fr[i])
               /\ K[fresh[i][s]] \subseteq Part(fresh[i].key, s, fk[i])
    <3>1. i # 1 /\ fresh[i][s] # Null
        BY <1>0, <1>5, <2>6, FreshNames
    <3>2. CASE i = 2
        BY <1>1, <1>5, <1>9, <2>2, <3>1, <3>2 DEF Order
    <3>3. CASE i = 3
        BY <1>1, <1>5, <1>9, <2>2, <3>1, <3>3 DEF Order
    <3> QED BY <1>5, <3>1, <3>2, <3>3
  <2>7. Copies(R, fr, drop, fresh)
    <3>1. \A c \in {node, l, r} : IsLeaf(c) <=> \E s \in Sides : Child(c, s) = Null
        BY <1>0 DEF IsLeaf
    <3>2. ~LeafCell(fresh[1]) /\ ~IsLeaf(node)
        BY <1>0, <1>5, FreshNames DEF LeafCell
    <3>3. (LeafCell(fresh[2]) <=> IsLeaf(l)) /\ (LeafCell(fresh[3]) <=> IsLeaf(r))
        BY <1>5, <3>1 DEF LeafCell
    <3> QED BY <1>5, <2>2, <3>2, <3>3 DEF Copies
  <2>8. Inherits(R, K, fr, fk, node, drop, fresh)
      BY <2>2, <2>3, <2>5, <2>6, <2>7 DEF Inherits
  <2> QED BY <2>8
<1>10. \A R, K : Order(R, K) => \E fr, fk : Inherits(R, K, fr, fk, node, drop, fresh)
    BY <1>9
<1> QED BY <1>7, <1>8, <1>10, KeepsIf

\* The key and the weight of a record.
LEMMA RecordFields ==
    ASSUME Forest, NEW n \in Record
    PROVE  Key(n) \in Keys \cup {MaxKey} /\ Key(n) \in Int /\ Weight(n) \in Int
<1>1. heap[n] \in Cell
    BY RecordIs DEF Forest
<1> QED BY <1>1, CellFields, KeyIsInt DEF Key, Weight

\* Tuples are functions, up to the length that an update needs.
LEMMA Tuples ==
    ASSUME NEW S
    PROVE  /\ \A a \in S : <<a>> \in [1 .. 1 -> S] /\ <<a>>[1] = a
           /\ \A a, b \in S : <<a, b>> \in [1 .. 2 -> S] /\ <<a, b>>[1] = a /\ <<a, b>>[2] = b
           /\ \A a, b, c \in S : /\ <<a, b, c>> \in [1 .. 3 -> S]
                                /\ <<a, b, c>>[1] = a /\ <<a, b, c>>[2] = b /\ <<a, b, c>>[3] = c
           /\ \A a, b, c, d \in S :
                 /\ <<a, b, c, d>> \in [1 .. 4 -> S]
                 /\ <<a, b, c, d>>[1] = a /\ <<a, b, c, d>>[2] = b
                 /\ <<a, b, c, d>>[3] = c /\ <<a, b, c, d>>[4] = d
OBVIOUS

\* A single rotation.
LEMMA RotateKeeps ==
    ASSUME Forest, NEW rank, NEW top, Ranked(rank, top),
           NEW parent \in Live, NEW v \in Live, NEW q \in Sides, Child(parent, q) = v,
           NEW side \in Sides, Rotate(side, parent, v)
    PROVE  Keeps(rank, parent, v)
<1>f. PICK far : far = Opposite(side)
    OBVIOUS
<1>u. PICK u : u = Child(v, side)
    OBVIOUS
<1>a. PICK A, B, C : A = Child(u, side) /\ B = Child(u, far) /\ C = Child(v, far)
    OBVIOUS
<1>n. PICK ku, kv, wu, wv, m : /\ ku = Key(u) /\ kv = Key(v) /\ m = New(2)
                               /\ wu = Weight(u) /\ wv = Weight(v)
    OBVIOUS
<1>fresh. PICK fresh : fresh = << Sided(side, ku, wv, A, m), Sided(side, kv, wu, B, C) >>
    OBVIOUS
<1>drop. PICK drop : drop = {v, u}
    OBVIOUS
<1>0. far \in Sides /\ far # side /\ Sides = {side, far}
    BY <1>f, TwoSides
<1>1. /\ u # Null /\ A # Null /\ B # Null /\ C # Null
      /\ Swing(parent, v, {}, drop, fresh)
    BY <1>f, <1>u, <1>a, <1>n, <1>fresh, <1>drop DEF Rotate
<1>2. /\ u \in Live /\ A \in Live /\ B \in Live /\ C \in Live
      /\ rank[u] < rank[v] /\ rank[v] < rank[parent]
      /\ rank[A] < rank[u] /\ rank[B] < rank[u] /\ rank[C] < rank[v]
  <2>1. u \in Live /\ C \in Live /\ rank[u] < rank[v] /\ rank[C] < rank[v]
      BY <1>0, <1>1, <1>u, <1>a, LiveChild
  <2>2. A \in Live /\ B \in Live /\ rank[A] < rank[u] /\ rank[B] < rank[u]
      BY <1>0, <1>1, <1>a, <2>1, LiveChild
  <2>3. v # Null
      BY FreshNames DEF Live
  <2>4. rank[v] < rank[parent]
      BY <2>3, LiveChild
  <2> QED BY <2>1, <2>2, <2>4
<1>3. \A n \in {v, u, A, B, C, parent} : n \in Record /\ rank[n] \in Int
    BY <1>2 DEF Live, Ranked
<1>4. u # v /\ A # u /\ B # u /\ A # v /\ B # v /\ C # v /\ A # B /\ C # u /\ C # A /\ C # B
      /\ rank[u] < rank[parent]
  <2>1. u # v /\ A # u /\ B # u /\ A # v /\ B # v /\ C # v /\ rank[u] < rank[parent]
      BY <1>2, <1>3
  <2>2. A # B /\ C # u /\ C # A /\ C # B
      BY <1>0, <1>1, <1>2, <1>u, <1>a, <2>1 DEF Forest
  <2> QED BY <2>1, <2>2
<1>5. /\ ku \in Keys \cup {MaxKey} /\ kv \in Keys \cup {MaxKey} /\ ku \in Int /\ kv \in Int
      /\ wu \in Int /\ wv \in Int
    BY <1>3, <1>n, RecordFields
<1>6. /\ m \in Nat /\ m \notin Record /\ Null \notin Record
      /\ A \in Nat /\ B \in Nat /\ C \in Nat
  <2>1. m \in Nat /\ m \notin Record /\ Null \notin Record /\ Record \subseteq Nat
      BY <1>n, FreshNames
  <2> QED BY <1>3, <2>1
<1>7. /\ fresh \in Seq(Cell) /\ Len(fresh) = 2 /\ 1 .. Len(fresh) = {1, 2}
      /\ fresh[1].key = ku /\ fresh[1][side] = A /\ fresh[1][far] = m
      /\ fresh[2].key = kv /\ fresh[2][side] = B /\ fresh[2][far] = C
  <2>1. /\ Sided(side, ku, wv, A, m) \in Cell
        /\ Sided(side, ku, wv, A, m).key = ku
        /\ Sided(side, ku, wv, A, m)[side] = A
        /\ Sided(side, ku, wv, A, m)[far] = m
      BY <1>5, <1>6, <1>f, SidedFields
  <2>2. /\ Sided(side, kv, wu, B, C) \in Cell
        /\ Sided(side, kv, wu, B, C).key = kv
        /\ Sided(side, kv, wu, B, C)[side] = B
        /\ Sided(side, kv, wu, B, C)[far] = C
      BY <1>5, <1>6, <1>f, SidedFields
  <2>3. fresh \in Seq(Cell) /\ Len(fresh) = 2
      BY <1>fresh, <2>1, <2>2
  <2> QED BY <1>fresh, <2>1, <2>2, <2>3
<1>8. Replacing(rank, parent, v, drop, fresh)
  <2>1. ASSUME NEW i \in 1 .. Len(fresh), NEW s \in Sides
        PROVE  \/ fresh[i][s] = Null
               \/ \E j \in i + 1 .. Len(fresh) : fresh[i][s] = New(j)
               \/ fresh[i][s] \notin drop /\ \E d \in drop, t \in Sides : Child(d, t) = fresh[i][s]
    <3>1. 2 \in 1 + 1 .. Len(fresh)
        BY <1>7
    <3> QED BY <1>0, <1>4, <1>7, <1>u, <1>a, <1>n, <1>drop, <3>1
  <2>2. ASSUME NEW i \in 1 .. Len(fresh), NEW j \in 1 .. Len(fresh), NEW s \in Sides, NEW t \in Sides,
               fresh[i][s] = fresh[j][t], fresh[i][s] # Null
        PROVE  i = j /\ s = t
      BY <1>0, <1>3, <1>4, <1>6, <1>7, <2>2
  <2>3. Len(fresh) \in 1 .. 4
      BY <1>7
  <2>4. \A d \in drop : d = v \/ \E e \in drop, s \in Sides : Child(e, s) = d
      BY <1>drop, <1>u
  <2>5. drop \subseteq Live /\ v \in drop /\ \A d \in drop : rank[d] < rank[parent]
      BY <1>2, <1>4, <1>drop
  <2> QED BY <1>7, <2>1, <2>2, <2>3, <2>4, <2>5 DEF Replacing
<1>9. Takes(v, drop, fresh)
  <2>1. \A d \in drop, s \in Sides :
          Child(d, s) \in Record \ drop =>
             \E i \in 1 .. Len(fresh), t \in Sides : fresh[i][t] = Child(d, s)
      BY <1>0, <1>7, <1>u, <1>a, <1>drop
  <2>2. \A j \in 2 .. Len(fresh) :
          \E i \in 1 .. Len(fresh), t \in Sides : fresh[i][t] = New(j)
    <3>1. \A j \in 2 .. Len(fresh) : j = 2
        BY <1>7
    <3> QED BY <1>0, <1>7, <1>n, <3>1
  <2> QED BY <2>1, <2>2, <1>drop DEF Takes
<1>10. ASSUME NEW R, NEW K, Order(R, K)
       PROVE  \E fr, fk : Inherits(R, K, fr, fk, v, drop, fresh)
  <2>1. /\ R[v] \in SUBSET Int /\ K[v] \in SUBSET Int
        /\ R[v] \subseteq K[v] /\ kv \in K[v] /\ ku \in K[u]
        /\ OnSide(kv, side, ku)
        /\ R[u] = Route(kv, side, R[v]) /\ K[u] \subseteq Part(kv, side, K[v])
        /\ R[C] = Route(kv, far, R[v]) /\ K[C] \subseteq Part(kv, far, K[v])
        /\ R[u] \in SUBSET Int /\ K[u] \in SUBSET Int
      BY <1>0, <1>1, <1>10, <1>u, <1>a, <1>n, ChildSets
  <2>2. /\ R[A] = Route(ku, side, R[u]) /\ K[A] \subseteq Part(ku, side, K[u])
        /\ R[B] = Route(ku, far, R[u]) /\ K[B] \subseteq Part(ku, far, K[u])
      BY <1>0, <1>1, <1>2, <1>10, <1>a, <1>n, ChildSets
  <2>3. PICK r2, k2 : r2 = Route(ku, far, R[v]) /\ k2 = Part(ku, far, K[v])
      OBVIOUS
  <2>4. PICK fr, fk : fr = <<R[v], r2>> /\ fk = <<K[v], k2>>
      OBVIOUS
  <2>5. /\ OnSide(ku, far, kv)
        /\ Route(ku, side, Route(kv, side, R[v])) = Route(ku, side, R[v])
        /\ Route(kv, far, Route(ku, far, R[v])) = Route(kv, far, R[v])
        /\ Part(ku, side, Part(kv, side, K[v])) = Part(ku, side, K[v])
        /\ Part(kv, far, Part(ku, far, K[v])) = Part(kv, far, K[v])
      BY <1>5, <1>f, <2>1, Routes
  <2>6. /\ r2 \in SUBSET Int /\ k2 \in SUBSET Int /\ r2 \subseteq k2 /\ kv \in k2
    <3>1. Route(ku, far, R[v]) \in SUBSET Int /\ Part(ku, far, K[v]) \in SUBSET Int
          /\ Route(ku, far, R[v]) \subseteq Part(ku, far, K[v])
      <4>1. R[v] \in SUBSET Int /\ K[v] \in SUBSET Int /\ R[v] \subseteq K[v]
          BY <1>0, <1>5, <2>1
      <4>2. far \in Sides /\ ku \in Int
          BY <1>0, <1>5
      <4> QED BY <4>1, <4>2, RouteInPart, Zenon
    <3> QED BY <2>1, <2>3, <2>5, <3>1 DEF Part
  <2>7. /\ R[A] = Route(ku, side, R[v]) /\ R[B] = Route(kv, side, r2) /\ R[C] = Route(kv, far, r2)
    <3>1. Route(ku, far, Route(kv, side, R[v])) = Route(kv, side, Route(ku, far, R[v]))
        BY RoutesCommute
    <3> QED BY <2>1, <2>2, <2>3, <2>5, <3>1
  <2>8. /\ K[A] \subseteq Part(ku, side, K[v]) /\ K[B] \subseteq Part(kv, side, k2)
        /\ K[C] \subseteq Part(kv, far, k2)
    <3>1. Part(ku, side, K[u]) \subseteq Part(ku, side, Part(kv, side, K[v]))
          /\ Part(ku, far, K[u]) \subseteq Part(ku, far, Part(kv, side, K[v]))
        BY <2>1 DEF Part
    <3>2. Part(ku, far, Part(kv, side, K[v])) = Part(kv, side, Part(ku, far, K[v]))
        BY RoutesCommute
    <3> QED BY <2>1, <2>2, <2>3, <2>5, <3>1, <3>2
  <2>9. /\ fr \in [1 .. Len(fresh) -> SUBSET Int] /\ fk \in [1 .. Len(fresh) -> SUBSET Int]
        /\ fr[1] = R[v] /\ fr[2] = r2 /\ fk[1] = K[v] /\ fk[2] = k2
    <3>1. Len(fresh) = 2
        BY <1>7
    <3>2. /\ <<R[v], r2>> \in [1 .. 2 -> SUBSET Int]
          /\ <<R[v], r2>>[1] = R[v] /\ <<R[v], r2>>[2] = r2
        BY <2>1, <2>6, Tuples
    <3>3. /\ <<K[v], k2>> \in [1 .. 2 -> SUBSET Int]
          /\ <<K[v], k2>>[1] = K[v] /\ <<K[v], k2>>[2] = k2
        BY <2>1, <2>6, Tuples
    <3> QED BY <2>4, <3>1, <3>2, <3>3
  <2>10. \A i \in 1 .. Len(fresh) : fresh[i].key \in fk[i] /\ fr[i] \subseteq fk[i]
    <3>1. ku \in K[v]
        BY <2>1 DEF Part
    <3> QED BY <1>7, <2>1, <2>6, <2>9, <3>1
  <2>11. ASSUME NEW i \in 1 .. Len(fresh), NEW j \in 1 .. Len(fresh), NEW s \in Sides,
                fresh[i][s] = New(j)
         PROVE  /\ fr[j] = Route(fresh[i].key, s, fr[i])
                /\ fk[j] \subseteq Part(fresh[i].key, s, fk[i])
    <3>1. New(j) \notin Record /\ (New(j) = m => j = 2)
      <4>1. j \in 1 .. 4 /\ 2 \in 1 .. 4
          BY <1>7
      <4> QED BY <4>1, <1>n, FreshNames
    <3>2. i = 1 /\ s = far /\ j = 2
        BY <1>0, <1>3, <1>7, <2>11, <3>1
    <3> QED BY <1>7, <2>3, <2>9, <3>2
  <2>12. ASSUME NEW i \in 1 .. Len(fresh), NEW s \in Sides, fresh[i][s] \in Record
         PROVE  /\ R[fresh[i][s]] = Route(fresh[i].key, s, fr[i])
                /\ K[fresh[i][s]] \subseteq Part(fresh[i].key, s, fk[i])
    <3>1. CASE i = 1
      <4>1. s = side
          BY <1>0, <1>6, <1>7, <2>12, <3>1
      <4> QED BY <1>7, <2>7, <2>8, <2>9, <3>1, <4>1
    <3>2. CASE i = 2
        BY <1>0, <1>7, <2>7, <2>8, <2>9, <3>2
    <3> QED BY <1>7, <3>1, <3>2
  <2>13. Copies(R, fr, drop, fresh)
    <3>1. m # Null /\ A # Null /\ u # Null /\ B # Null /\ C # Null
        BY <1>1, <1>n, FreshNames
    <3>2. ~LeafCell(fresh[1]) /\ ~LeafCell(fresh[2])
        BY <1>0, <1>7, <3>1 DEF LeafCell
    <3>3. ~IsLeaf(v) /\ ~IsLeaf(u)
        BY <1>0, <1>u, <1>a, <3>1 DEF IsLeaf, Sides
    <3> QED BY <1>7, <1>drop, <3>2, <3>3 DEF Copies
  <2>14. Inherits(R, K, fr, fk, v, drop, fresh)
      BY <2>9, <2>10, <2>11, <2>12, <2>13 DEF Inherits
  <2> QED BY <2>14
<1>11. \A R, K : Order(R, K) => \E fr, fk : Inherits(R, K, fr, fk, v, drop, fresh)
    BY <1>10
<1> QED BY <1>1, <1>8, <1>9, <1>11, KeepsIf

\* A double rotation.
LEMMA RotateTwiceKeeps ==
    ASSUME Forest, NEW rank, NEW top, Ranked(rank, top),
           NEW parent \in Live, NEW v \in Live, NEW q \in Sides, Child(parent, q) = v,
           NEW side \in Sides, RotateTwice(side, parent, v)
    PROVE  Keeps(rank, parent, v)
<1>f. PICK far : far = Opposite(side)
    OBVIOUS
<1>l. PICK l, r : l = Child(v, side) /\ r = Child(v, far)
    OBVIOUS
<1>lr. PICK ll, lr : ll = Child(l, side) /\ lr = Child(l, far)
    OBVIOUS
<1>a. PICK a, b : a = Child(lr, side) /\ b = Child(lr, far)
    OBVIOUS
<1>n. PICK kl, kr, kv, wv, m2, m3 : /\ kl = Key(l) /\ kr = Key(lr) /\ kv = Key(v)
                                    /\ wv = Weight(v) /\ m2 = New(2) /\ m3 = New(3)
    OBVIOUS
<1>fresh. PICK fresh : fresh = << Sided(side, kr, wv, m2, m3),
                                  Sided(side, kl, 0, ll, a), Sided(side, kv, 0, b, r) >>
    OBVIOUS
<1>drop. PICK drop : drop = {v, l, lr}
    OBVIOUS
<1>0. far \in Sides /\ far # side /\ Sides = {side, far}
    BY <1>f, TwoSides
<1>1. /\ l # Null /\ r # Null /\ ll # Null /\ lr # Null
      /\ Swing(parent, v, {}, drop, fresh)
  <2>1. ~IsLeaf(v) /\ ~IsLeaf(l) /\ Swing(parent, v, {}, drop, fresh)
      BY <1>f, <1>l, <1>lr, <1>a, <1>n, <1>fresh, <1>drop DEF RotateTwice
  <2> QED BY <2>1, <1>0, <1>l, <1>lr DEF IsLeaf, Sides
<1>2. /\ l \in Live /\ r \in Live /\ ll \in Live /\ lr \in Live
      /\ rank[l] < rank[v] /\ rank[v] < rank[parent] /\ rank[lr] < rank[l]
      /\ rank[r] < rank[v] /\ rank[ll] < rank[l]
  <2>1. l \in Live /\ r \in Live /\ rank[l] < rank[v] /\ rank[r] < rank[v]
      BY <1>0, <1>1, <1>l, LiveChild
  <2>2. lr \in Live /\ ll \in Live /\ rank[lr] < rank[l] /\ rank[ll] < rank[l]
      BY <1>0, <1>1, <1>lr, <2>1, LiveChild
  <2>3. v # Null
      BY FreshNames DEF Live
  <2>4. rank[v] < rank[parent]
      BY <2>3, LiveChild
  <2> QED BY <2>1, <2>2, <2>4
<1>3. \A n \in {v, l, r, ll, lr, parent} : n \in Record /\ rank[n] \in Int
    BY <1>2 DEF Live, Ranked
<1>4. /\ l # v /\ lr # l /\ lr # v /\ ll # v /\ ll # l /\ ll # lr /\ r # v /\ r # l /\ r # lr /\ r # ll
      /\ rank[l] < rank[parent] /\ rank[lr] < rank[parent]
  <2>1. /\ l # v /\ lr # l /\ lr # v /\ ll # v /\ ll # l /\ r # v
        /\ rank[l] < rank[parent] /\ rank[lr] < rank[parent]
      BY <1>2, <1>3
  <2>2. ll # lr /\ r # l /\ r # lr /\ r # ll
      BY <1>0, <1>1, <1>2, <1>l, <1>lr, <2>1 DEF Forest
  <2> QED BY <2>1, <2>2
<1>5. /\ kl \in Keys \cup {MaxKey} /\ kr \in Keys \cup {MaxKey} /\ kv \in Keys \cup {MaxKey}
      /\ kl \in Int /\ kr \in Int /\ kv \in Int /\ wv \in Int
    BY <1>3, <1>n, RecordFields
<1>6. /\ m2 \in Nat /\ m2 \notin Record /\ m3 \in Nat /\ m3 \notin Record /\ m2 # m3
      /\ Null \notin Record /\ Null \in Nat /\ Record \subseteq Nat
      /\ a \in {Null} \cup Record /\ b \in {Null} \cup Record
      /\ m2 # Null /\ m3 # Null
  <2>1. /\ m2 \in Nat /\ m2 \notin Record /\ m3 \in Nat /\ m3 \notin Record /\ m2 # m3
        /\ Null \notin Record /\ Record \subseteq Nat /\ m2 # Null /\ m3 # Null
      BY <1>n, FreshNames
  <2>2. Null \in Nat
      BY DEF Null
  <2>3. a \in {Null} \cup Record /\ b \in {Null} \cup Record
      BY <1>0, <1>3, <1>a DEF Forest
  <2> QED BY <2>1, <2>2, <2>3
<1>7. /\ fresh \in Seq(Cell) /\ Len(fresh) = 3 /\ 1 .. Len(fresh) = {1, 2, 3}
      /\ fresh[1].key = kr /\ fresh[1][side] = m2 /\ fresh[1][far] = m3
      /\ fresh[2].key = kl /\ fresh[2][side] = ll /\ fresh[2][far] = a
      /\ fresh[3].key = kv /\ fresh[3][side] = b /\ fresh[3][far] = r
  <2>0. ll \in Nat /\ r \in Nat /\ a \in Nat /\ b \in Nat /\ 0 \in Int
    <3>1. \A n \in {Null} \cup Record : n \in Nat
        BY <1>6
    <3>2. ll \in {Null} \cup Record /\ r \in {Null} \cup Record
        BY <1>3
    <3>3. a \in {Null} \cup Record /\ b \in {Null} \cup Record
        BY <1>6
    <3> QED BY <3>1, <3>2, <3>3
  <2>1. /\ Sided(side, kr, wv, m2, m3) \in Cell
        /\ Sided(side, kr, wv, m2, m3).key = kr
        /\ Sided(side, kr, wv, m2, m3)[side] = m2
        /\ Sided(side, kr, wv, m2, m3)[far] = m3
      BY <1>5, <1>6, <1>f, SidedFields, SMTT(40)
  <2>2. /\ Sided(side, kl, 0, ll, a) \in Cell
        /\ Sided(side, kl, 0, ll, a).key = kl
        /\ Sided(side, kl, 0, ll, a)[side] = ll
        /\ Sided(side, kl, 0, ll, a)[far] = a
      BY <1>5, <1>f, <2>0, SidedFields, SMTT(40)
  <2>3. /\ Sided(side, kv, 0, b, r) \in Cell
        /\ Sided(side, kv, 0, b, r).key = kv
        /\ Sided(side, kv, 0, b, r)[side] = b
        /\ Sided(side, kv, 0, b, r)[far] = r
      BY <1>5, <1>f, <2>0, SidedFields, SMTT(40)
  <2>4. fresh \in Seq(Cell) /\ Len(fresh) = 3
      BY <1>fresh, <2>1, <2>2, <2>3
  <2> QED BY <1>fresh, <2>1, <2>2, <2>3, <2>4
\* The children of lr, where there are any.
<1>c. /\ a # Null => a \in Record /\ a # v /\ a # l /\ a # lr /\ a # ll /\ a # r
      /\ b # Null => b \in Record /\ b # v /\ b # l /\ b # lr /\ b # ll /\ b # r /\ b # a
  <2>1. ASSUME NEW s \in Sides, Child(lr, s) # Null
        PROVE  /\ Child(lr, s) \in Record /\ Child(lr, s) # v /\ Child(lr, s) # l
               /\ Child(lr, s) # lr /\ Child(lr, s) # ll /\ Child(lr, s) # r
    <3>1. Child(lr, s) \in Record /\ rank[Child(lr, s)] < rank[lr]
        BY <1>2, <2>1, LiveChild
    <3>2. rank[Child(lr, s)] \in Int
        BY <3>1 DEF Ranked
    <3>3. Child(lr, s) # v /\ Child(lr, s) # l /\ Child(lr, s) # lr
        BY <1>2, <1>3, <3>1, <3>2
    <3>4. Child(lr, s) # ll /\ Child(lr, s) # r
        BY <1>0, <1>1, <1>2, <1>4, <1>l, <1>lr, <2>1 DEF Forest
    <3> QED BY <3>1, <3>3, <3>4
  <2>2. b # Null => b # a
      BY <1>0, <1>2, <1>a DEF Forest
  <2> QED BY <1>0, <1>a, <2>1, <2>2
<1>8. Replacing(rank, parent, v, drop, fresh)
  <2>1. ASSUME NEW i \in 1 .. Len(fresh), NEW s \in Sides
        PROVE  \/ fresh[i][s] = Null
               \/ \E j \in i + 1 .. Len(fresh) : fresh[i][s] = New(j)
               \/ fresh[i][s] \notin drop /\ \E d \in drop, t \in Sides : Child(d, t) = fresh[i][s]
    <3>1. CASE i = 1
      <4>1. 2 \in i + 1 .. Len(fresh) /\ 3 \in i + 1 .. Len(fresh)
          BY <1>7, <3>1
      <4> QED BY <1>0, <1>7, <1>n, <3>1, <4>1
    <3>2. CASE i = 2
        BY <1>0, <1>4, <1>7, <1>c, <1>lr, <1>a, <1>drop, <3>2
    <3>3. CASE i = 3
        BY <1>0, <1>4, <1>7, <1>c, <1>l, <1>a, <1>drop, <3>3
    <3> QED BY <1>7, <3>1, <3>2, <3>3
  <2>2. ASSUME NEW i \in 1 .. Len(fresh), NEW j \in 1 .. Len(fresh), NEW s \in Sides, NEW t \in Sides,
               fresh[i][s] = fresh[j][t], fresh[i][s] # Null
        PROVE  i = j /\ s = t
      BY <1>0, <1>3, <1>4, <1>6, <1>7, <1>c, <2>2, SMTT(40)
  <2>3. Len(fresh) \in 1 .. 4
      BY <1>7
  <2>4. \A d \in drop : d = v \/ \E e \in drop, s \in Sides : Child(e, s) = d
      BY <1>0, <1>drop, <1>l, <1>lr
  <2>5. drop \subseteq Live /\ v \in drop /\ \A d \in drop : rank[d] < rank[parent]
      BY <1>2, <1>4, <1>drop
  <2> QED BY <1>7, <2>1, <2>2, <2>3, <2>4, <2>5 DEF Replacing
<1>9. Takes(v, drop, fresh)
  <2>1. \A d \in drop, s \in Sides :
          Child(d, s) \in Record \ drop =>
             \E i \in 1 .. Len(fresh), t \in Sides : fresh[i][t] = Child(d, s)
      BY <1>0, <1>7, <1>l, <1>lr, <1>a, <1>drop
  <2>2. \A j \in 2 .. Len(fresh) :
          \E i \in 1 .. Len(fresh), t \in Sides : fresh[i][t] = New(j)
    <3>1. \A j \in 2 .. Len(fresh) : j = 2 \/ j = 3
        BY <1>7
    <3> QED BY <1>0, <1>7, <1>n, <3>1
  <2> QED BY <2>1, <2>2, <1>drop DEF Takes
<1>10. ASSUME NEW R, NEW K, Order(R, K)
       PROVE  \E fr, fk : Inherits(R, K, fr, fk, v, drop, fresh)
  <2>1. /\ R[v] \in SUBSET Int /\ K[v] \in SUBSET Int
        /\ R[v] \subseteq K[v] /\ kv \in K[v] /\ kl \in K[l]
        /\ OnSide(kv, side, kl)
        /\ R[l] = Route(kv, side, R[v]) /\ K[l] \subseteq Part(kv, side, K[v])
        /\ R[r] = Route(kv, far, R[v]) /\ K[r] \subseteq Part(kv, far, K[v])
      BY <1>0, <1>1, <1>10, <1>l, <1>n, ChildSets
  <2>2. /\ R[ll] = Route(kl, side, R[l]) /\ K[ll] \subseteq Part(kl, side, K[l])
        /\ R[lr] = Route(kl, far, R[l]) /\ K[lr] \subseteq Part(kl, far, K[l])
        /\ OnSide(kl, far, kr) /\ kr \in K[lr]
      BY <1>0, <1>1, <1>2, <1>10, <1>lr, <1>n, ChildSets
  <2>3. /\ a # Null => R[a] = Route(kr, side, R[lr]) /\ K[a] \subseteq Part(kr, side, K[lr])
        /\ b # Null => R[b] = Route(kr, far, R[lr]) /\ K[b] \subseteq Part(kr, far, K[lr])
      BY <1>0, <1>2, <1>10, <1>a, <1>n, ChildSets
  <2>4. OnSide(kv, side, kr) /\ kr \in K[v] /\ kl \in K[v]
      BY <2>1, <2>2 DEF Part
  <2>5. PICK r2, k2, r3, k3 : /\ r2 = Route(kr, side, R[v]) /\ k2 = Part(kr, side, K[v])
                              /\ r3 = Route(kr, far, R[v]) /\ k3 = Part(kr, far, K[v])
      OBVIOUS
  <2>6. PICK fr, fk : fr = <<R[v], r2, r3>> /\ fk = <<K[v], k2, k3>>
      OBVIOUS
  <2>7. side = Opposite(far)
      BY <1>f, TwoSides
  <2>8. \A S \in SUBSET Int :
           /\ Route(kl, side, Route(kv, side, S)) = Route(kl, side, S)
           /\ Part(kl, side, Part(kv, side, S)) = Part(kl, side, S)
      BY <1>5, <2>1, Routes
  <2>9. /\ OnSide(kr, side, kl)
        /\ \A S \in SUBSET Int :
           /\ Route(kr, far, Route(kl, far, S)) = Route(kr, far, S)
           /\ Route(kl, side, Route(kr, side, S)) = Route(kl, side, S)
           /\ Part(kr, far, Part(kl, far, S)) = Part(kr, far, S)
           /\ Part(kl, side, Part(kr, side, S)) = Part(kl, side, S)
      BY <1>0, <1>5, <2>2, <2>7, Routes
  <2>10. /\ OnSide(kr, far, kv)
         /\ \A S \in SUBSET Int :
           /\ Route(kr, side, Route(kv, side, S)) = Route(kr, side, S)
           /\ Route(kv, far, Route(kr, far, S)) = Route(kv, far, S)
           /\ Part(kr, side, Part(kv, side, S)) = Part(kr, side, S)
           /\ Part(kv, far, Part(kr, far, S)) = Part(kv, far, S)
      BY <1>5, <1>f, <2>4, Routes
  <2>11. /\ r2 \in SUBSET Int /\ k2 \in SUBSET Int /\ r2 \subseteq k2 /\ kl \in k2
         /\ r3 \in SUBSET Int /\ k3 \in SUBSET Int /\ r3 \subseteq k3 /\ kv \in k3
    <3>1. \A s \in Sides : /\ Route(kr, s, R[v]) \in SUBSET Int /\ Part(kr, s, K[v]) \in SUBSET Int
                           /\ Route(kr, s, R[v]) \subseteq Part(kr, s, K[v])
      <4>1. R[v] \in SUBSET Int /\ K[v] \in SUBSET Int /\ R[v] \subseteq K[v]
          BY <1>5, <2>1
      <4>2. kr \in Int
          BY <1>5
      <4> QED BY <4>1, <4>2, RouteInPart, Zenon
    <3> QED BY <1>0, <2>1, <2>4, <2>5, <2>9, <2>10, <3>1 DEF Part
  <2>12. /\ R[ll] = Route(kl, side, r2) /\ R[r] = Route(kv, far, r3)
         /\ a # Null => R[a] = Route(kl, far, r2)
         /\ b # Null => R[b] = Route(kv, side, r3)
    <3>1. R[ll] = Route(kl, side, r2) /\ R[r] = Route(kv, far, r3)
        BY <2>1, <2>2, <2>5, <2>8, <2>9, <2>10
    <3>2. Route(kv, side, R[v]) \in SUBSET Int
        BY <2>1 DEF Route
    <3>3. Route(kr, side, Route(kl, far, Route(kv, side, R[v]))) = Route(kl, far, Route(kr, side, R[v]))
      <4>1. Route(kr, side, Route(kl, far, Route(kv, side, R[v])))
              = Route(kl, far, Route(kr, side, Route(kv, side, R[v])))
          BY RoutesCommute
      <4> QED BY <4>1, <2>1, <2>10
    <3>4. Route(kr, far, Route(kl, far, Route(kv, side, R[v]))) = Route(kv, side, Route(kr, far, R[v]))
      <4>1. Route(kr, far, Route(kv, side, R[v])) = Route(kv, side, Route(kr, far, R[v]))
          BY RoutesCommute
      <4> QED BY <4>1, <3>2, <2>9
    <3> QED BY <2>1, <2>2, <2>3, <2>5, <3>1, <3>3, <3>4
  <2>13. /\ K[ll] \subseteq Part(kl, side, k2) /\ K[r] \subseteq Part(kv, far, k3)
         /\ a # Null => K[a] \subseteq Part(kl, far, k2)
         /\ b # Null => K[b] \subseteq Part(kv, side, k3)
    <3>0. \A k, s, S, T : S \subseteq T => Part(k, s, S) \subseteq Part(k, s, T)
        BY DEF Part
    <3>1. K[ll] \subseteq Part(kl, side, k2) /\ K[r] \subseteq Part(kv, far, k3)
      <4>1. K[ll] \subseteq Part(kl, side, Part(kv, side, K[v]))
          BY <2>1, <2>2, <3>0
      <4> QED BY <2>1, <2>5, <2>8, <2>9, <2>10, <4>1, SMTT(40)
    <3>2. Part(kv, side, K[v]) \in SUBSET Int
        BY <2>1 DEF Part
    <3>3. Part(kr, side, Part(kl, far, Part(kv, side, K[v]))) = Part(kl, far, Part(kr, side, K[v]))
      <4>1. Part(kr, side, Part(kl, far, Part(kv, side, K[v])))
              = Part(kl, far, Part(kr, side, Part(kv, side, K[v])))
          BY RoutesCommute
      <4> QED BY <4>1, <2>1, <2>10
    <3>4. Part(kr, far, Part(kl, far, Part(kv, side, K[v]))) = Part(kv, side, Part(kr, far, K[v]))
      <4>1. Part(kr, far, Part(kv, side, K[v])) = Part(kv, side, Part(kr, far, K[v]))
          BY RoutesCommute
      <4> QED BY <4>1, <3>2, <2>9
    <3>5. K[lr] \subseteq Part(kl, far, Part(kv, side, K[v]))
        BY <2>1, <2>2, <3>0
    <3>6. a # Null => K[a] \subseteq Part(kr, side, Part(kl, far, Part(kv, side, K[v])))
        BY <2>3, <3>0, <3>5
    <3>7. b # Null => K[b] \subseteq Part(kr, far, Part(kl, far, Part(kv, side, K[v])))
        BY <2>3, <3>0, <3>5
    <3> QED BY <2>5, <3>1, <3>3, <3>4, <3>6, <3>7
  <2>14. /\ fr \in [1 .. Len(fresh) -> SUBSET Int] /\ fk \in [1 .. Len(fresh) -> SUBSET Int]
         /\ fr[1] = R[v] /\ fr[2] = r2 /\ fr[3] = r3 /\ fk[1] = K[v] /\ fk[2] = k2 /\ fk[3] = k3
    <3>1. Len(fresh) = 3
        BY <1>7
    <3>2. /\ <<R[v], r2, r3>> \in [1 .. 3 -> SUBSET Int]
          /\ <<R[v], r2, r3>>[1] = R[v] /\ <<R[v], r2, r3>>[2] = r2 /\ <<R[v], r2, r3>>[3] = r3
        BY <2>1, <2>11, Tuples
    <3>3. /\ <<K[v], k2, k3>> \in [1 .. 3 -> SUBSET Int]
          /\ <<K[v], k2, k3>>[1] = K[v] /\ <<K[v], k2, k3>>[2] = k2 /\ <<K[v], k2, k3>>[3] = k3
        BY <2>1, <2>11, Tuples
    <3> QED BY <2>6, <3>1, <3>2, <3>3
  <2>15. \A i \in 1 .. Len(fresh) : fresh[i].key \in fk[i] /\ fr[i] \subseteq fk[i]
      BY <1>7, <2>1, <2>4, <2>11, <2>14
  <2>16. ASSUME NEW i \in 1 .. Len(fresh), NEW j \in 1 .. Len(fresh), NEW s \in Sides,
                fresh[i][s] = New(j)
         PROVE  /\ fr[j] = Route(fresh[i].key, s, fr[i])
                /\ fk[j] \subseteq Part(fresh[i].key, s, fk[i])
    <3>1. New(j) \notin Record /\ New(j) # Null /\ (New(j) = m2 => j = 2) /\ (New(j) = m3 => j = 3)
      <4>1. j \in 1 .. 4 /\ 2 \in 1 .. 4 /\ 3 \in 1 .. 4
          BY <1>7
      <4> QED BY <4>1, <1>n, FreshNames
    <3>2. i = 1
        BY <1>0, <1>3, <1>6, <1>7, <2>16, <3>1
    <3>3. (s = side /\ j = 2) \/ (s = far /\ j = 3)
        BY <1>0, <1>7, <2>16, <3>1, <3>2
    <3> QED BY <1>7, <2>5, <2>14, <3>2, <3>3
  <2>17. ASSUME NEW i \in 1 .. Len(fresh), NEW s \in Sides, fresh[i][s] \in Record
         PROVE  /\ R[fresh[i][s]] = Route(fresh[i].key, s, fr[i])
                /\ K[fresh[i][s]] \subseteq Part(fresh[i].key, s, fk[i])
    <3>1. i # 1
        BY <1>0, <1>6, <1>7, <2>17
    <3>2. CASE i = 2
        BY <1>0, <1>6, <1>7, <2>12, <2>13, <2>14, <2>17, <3>2
    <3>3. CASE i = 3
        BY <1>0, <1>6, <1>7, <2>12, <2>13, <2>14, <2>17, <3>3
    <3> QED BY <1>7, <3>1, <3>2, <3>3
  <2>18. Copies(R, fr, drop, fresh)
    <3> SUFFICES ASSUME \A i \in 1 .. Len(fresh) : WholeCell(fresh[i])
                 PROVE  /\ \A d \in drop : ~IsLeaf(d)
                        /\ \A i \in 1 .. Len(fresh) : ~LeafCell(fresh[i])
        BY DEF Copies
    <3>1. a # Null /\ b # Null
        BY <1>0, <1>1, <1>7 DEF WholeCell
    <3>2. ~IsLeaf(v) /\ ~IsLeaf(l) /\ ~IsLeaf(lr)
        BY <1>0, <1>1, <1>l, <1>lr, <1>a, <3>1 DEF IsLeaf, Sides
    <3>3. \A i \in 1 .. Len(fresh) : ~LeafCell(fresh[i])
        BY <1>0, <1>1, <1>6, <1>7, <3>1 DEF LeafCell
    <3> QED BY <1>drop, <3>2, <3>3
  <2>19. Inherits(R, K, fr, fk, v, drop, fresh)
      BY <2>14, <2>15, <2>16, <2>17, <2>18 DEF Inherits
  <2> QED BY <2>19
<1>11. \A R, K : Order(R, K) => \E fr, fk : Inherits(R, K, fr, fk, v, drop, fresh)
    BY <1>10
<1> QED BY <1>1, <1>8, <1>9, <1>11, KeepsIf

\* A rotation that moves a unit of weight up.
LEMMA RotateWeightKeeps ==
    ASSUME Forest, NEW rank, NEW top, Ranked(rank, top),
           NEW parent \in Live, NEW v \in Live, NEW q \in Sides, Child(parent, q) = v,
           NEW side \in Sides, RotateWeight(side, parent, v)
    PROVE  Keeps(rank, parent, v)
<1>f. PICK far : far = Opposite(side)
    OBVIOUS
<1>u. PICK A, u : A = Child(v, side) /\ u = Child(v, far)
    OBVIOUS
<1>b. PICK B, C : B = Child(u, side) /\ C = Child(u, far)
    OBVIOUS
<1>n. PICK ku, kv, wv, a, b : /\ ku = Key(u) /\ kv = Key(v) /\ wv = Weight(v)
                              /\ a = Weight(A) - 1 /\ b = Weight(B) - 1
    OBVIOUS
<1>m. PICK m2, m3, m4 : m2 = New(2) /\ m3 = New(3) /\ m4 = New(4)
    OBVIOUS
<1>fresh. PICK fresh : fresh = << Sided(side, ku, wv, m2, C), Sided(side, kv, 1, m3, m4),
                                  Reweighed(A, a), Reweighed(B, b) >>
    OBVIOUS
<1>drop. PICK drop : drop = {v, A, u, B}
    OBVIOUS
<1>0. far \in Sides /\ far # side /\ Sides = {side, far}
    BY <1>f, TwoSides
<1>1. /\ A # Null /\ u # Null /\ B # Null /\ C # Null
      /\ Swing(parent, v, {}, drop, fresh)
    BY <1>f, <1>u, <1>b, <1>n, <1>m, <1>fresh, <1>drop DEF RotateWeight
<1>2. /\ u \in Live /\ A \in Live /\ B \in Live /\ C \in Live
      /\ rank[u] < rank[v] /\ rank[A] < rank[v] /\ rank[v] < rank[parent]
      /\ rank[B] < rank[u] /\ rank[C] < rank[u]
  <2>1. u \in Live /\ A \in Live /\ rank[u] < rank[v] /\ rank[A] < rank[v]
      BY <1>0, <1>1, <1>u, LiveChild
  <2>2. B \in Live /\ C \in Live /\ rank[B] < rank[u] /\ rank[C] < rank[u]
      BY <1>0, <1>1, <1>b, <2>1, LiveChild
  <2>3. v # Null
      BY FreshNames DEF Live
  <2>4. rank[v] < rank[parent]
      BY <2>3, LiveChild
  <2> QED BY <2>1, <2>2, <2>4
<1>3. \A n \in {v, u, A, B, C, parent} : n \in Record /\ rank[n] \in Int
    BY <1>2 DEF Live, Ranked
<1>4. /\ u # v /\ A # v /\ B # v /\ B # u /\ C # v /\ C # u /\ A # u /\ B # C /\ A # B /\ A # C
      /\ rank[u] < rank[parent] /\ rank[A] < rank[parent] /\ rank[B] < rank[parent]
  <2>1. /\ u # v /\ A # v /\ B # v /\ B # u /\ C # v /\ C # u
        /\ rank[u] < rank[parent] /\ rank[A] < rank[parent] /\ rank[B] < rank[parent]
      BY <1>2, <1>3
  <2>2. A # u /\ B # C /\ A # B /\ A # C
      BY <1>0, <1>1, <1>2, <1>u, <1>b, <2>1 DEF Forest
  <2> QED BY <2>1, <2>2
<1>5. /\ ku \in Keys \cup {MaxKey} /\ kv \in Keys \cup {MaxKey} /\ ku \in Int /\ kv \in Int
      /\ wv \in Int /\ a \in Int /\ b \in Int
  <2>1. /\ ku \in Keys \cup {MaxKey} /\ kv \in Keys \cup {MaxKey} /\ ku \in Int /\ kv \in Int
        /\ wv \in Int /\ Weight(A) \in Int /\ Weight(B) \in Int
      BY <1>3, <1>n, RecordFields
  <2> QED BY <1>n, <2>1
<1>6. /\ m2 \in Nat /\ m2 \notin Record /\ m3 \in Nat /\ m3 \notin Record
      /\ m4 \in Nat /\ m4 \notin Record /\ m2 # m3 /\ m2 # m4 /\ m3 # m4
      /\ Null \notin Record /\ C \in Nat
  <2>1. /\ m2 \in Nat /\ m2 \notin Record /\ m3 \in Nat /\ m3 \notin Record
        /\ m4 \in Nat /\ m4 \notin Record /\ m2 # m3 /\ m2 # m4 /\ m3 # m4
        /\ Null \notin Record /\ Record \subseteq Nat
      BY <1>m, FreshNames
  <2> QED BY <1>3, <2>1
<1>7. /\ fresh \in Seq(Cell) /\ Len(fresh) = 4 /\ 1 .. Len(fresh) = {1, 2, 3, 4}
      /\ fresh[1].key = ku /\ fresh[1][side] = m2 /\ fresh[1][far] = C
      /\ fresh[2].key = kv /\ fresh[2][side] = m3 /\ fresh[2][far] = m4
      /\ fresh[3].key = Key(A) /\ fresh[4].key = Key(B)
      /\ \A s \in Sides : fresh[3][s] = Child(A, s) /\ fresh[4][s] = Child(B, s)
  <2>1. /\ Sided(side, ku, wv, m2, C) \in Cell
        /\ Sided(side, ku, wv, m2, C).key = ku
        /\ Sided(side, ku, wv, m2, C)[side] = m2
        /\ Sided(side, ku, wv, m2, C)[far] = C
    <3>1. ku \in Keys \cup {MaxKey} /\ wv \in Int /\ m2 \in Nat /\ C \in Nat
        BY <1>5, <1>6
    <3> QED BY <3>1, <1>f, SidedFields
  <2>2. /\ Sided(side, kv, 1, m3, m4) \in Cell
        /\ Sided(side, kv, 1, m3, m4).key = kv
        /\ Sided(side, kv, 1, m3, m4)[side] = m3
        /\ Sided(side, kv, 1, m3, m4)[far] = m4
    <3>1. 1 \in Int
        OBVIOUS
    <3> QED BY <1>5, <1>6, <1>f, <3>1, SidedFields, SMTT(40)
  <2>3. /\ Reweighed(A, a) \in Cell /\ Reweighed(B, b) \in Cell
        /\ Reweighed(A, a).key = Key(A) /\ Reweighed(B, b).key = Key(B)
        /\ \A s \in Sides : Reweighed(A, a)[s] = Child(A, s) /\ Reweighed(B, b)[s] = Child(B, s)
    <3>1. heap \in Seq(Cell)
        BY DEF Forest
    <3> QED BY <1>3, <1>5, <3>1, ReweighedFields
  <2>4. fresh \in Seq(Cell) /\ Len(fresh) = 4
      BY <1>fresh, <2>1, <2>2, <2>3
  <2> QED BY <1>fresh, <2>1, <2>2, <2>3, <2>4
\* The children of the two copies.
<1>c. \A s \in Sides, c \in {A, B} : Child(c, s) # Null =>
          /\ Child(c, s) \in Record /\ Child(c, s) \notin drop /\ Child(c, s) # C
          /\ \A t \in Sides, e \in {A, B} : Child(e, t) = Child(c, s) => e = c /\ t = s
  <2> TAKE s \in Sides, c \in {A, B}
  <2> HAVE Child(c, s) # Null
  <2>1. Child(c, s) \in Record /\ rank[Child(c, s)] < rank[c] /\ c \in Live
      BY <1>2, LiveChild
  <2>2. rank[Child(c, s)] \in Int
      BY <2>1 DEF Ranked
  <2>3. Child(c, s) # v
      BY <1>2, <1>3, <2>1, <2>2
  <2>4. Child(c, s) # A /\ Child(c, s) # u /\ Child(c, s) # B /\ Child(c, s) # C
      BY <1>0, <1>1, <1>2, <1>4, <1>u, <1>b, <2>1 DEF Forest
  <2>5. \A t \in Sides, e \in {A, B} : Child(e, t) = Child(c, s) => e = c /\ t = s
      BY <1>2, <2>1 DEF Forest
  <2> QED BY <2>1, <2>3, <2>4, <2>5, <1>drop
<1>8. Replacing(rank, parent, v, drop, fresh)
  <2>1. ASSUME NEW i \in 1 .. Len(fresh), NEW s \in Sides
        PROVE  \/ fresh[i][s] = Null
               \/ \E j \in i + 1 .. Len(fresh) : fresh[i][s] = New(j)
               \/ fresh[i][s] \notin drop /\ \E d \in drop, t \in Sides : Child(d, t) = fresh[i][s]
    <3>1. CASE i = 1
      <4>1. 2 \in i + 1 .. Len(fresh)
          BY <1>7, <3>1
      <4> QED BY <1>0, <1>4, <1>7, <1>b, <1>m, <1>drop, <3>1, <4>1
    <3>2. CASE i = 2
      <4>1. 3 \in i + 1 .. Len(fresh) /\ 4 \in i + 1 .. Len(fresh)
          BY <1>7, <3>2
      <4> QED BY <1>0, <1>7, <1>m, <3>2, <4>1
    <3>3. CASE i = 3 \/ i = 4
        BY <1>7, <1>c, <1>drop, <3>3
    <3> QED BY <1>7, <3>1, <3>2, <3>3
  <2>2. ASSUME NEW i \in 1 .. Len(fresh), NEW j \in 1 .. Len(fresh), NEW s \in Sides, NEW t \in Sides,
               fresh[i][s] = fresh[j][t], fresh[i][s] # Null
        PROVE  i = j /\ s = t
    <3>1. CASE i \in {1, 2} /\ j \in {1, 2}
        BY <1>0, <1>3, <1>6, <1>7, <2>2, <3>1, SMTT(40)
    <3>2. CASE i \in {3, 4} /\ j \in {1, 2}
      <4>1. fresh[i][s] \in Record /\ fresh[i][s] # C
          BY <1>7, <1>c, <2>2, <3>2
      <4> QED BY <1>0, <1>6, <1>7, <2>2, <3>2, <4>1
    <3>3. CASE i \in {1, 2} /\ j \in {3, 4}
      <4>1. fresh[j][t] \in Record /\ fresh[j][t] # C
          BY <1>7, <1>c, <2>2, <3>3
      <4> QED BY <1>0, <1>6, <1>7, <2>2, <3>3, <4>1
    <3>4. CASE i \in {3, 4} /\ j \in {3, 4}
        BY <1>4, <1>7, <1>c, <2>2, <3>4
    <3> QED BY <1>7, <3>1, <3>2, <3>3, <3>4
  <2>3. Len(fresh) \in 1 .. 4
      BY <1>7
  <2>4. \A d \in drop : d = v \/ \E e \in drop, s \in Sides : Child(e, s) = d
      BY <1>0, <1>drop, <1>u, <1>b
  <2>5. drop \subseteq Live /\ v \in drop /\ \A d \in drop : rank[d] < rank[parent]
      BY <1>2, <1>4, <1>drop
  <2> QED BY <1>7, <2>1, <2>2, <2>3, <2>4, <2>5 DEF Replacing
<1>9. Takes(v, drop, fresh)
  <2>1. \A d \in drop, s \in Sides :
          Child(d, s) \in Record \ drop =>
             \E i \in 1 .. Len(fresh), t \in Sides : fresh[i][t] = Child(d, s)
      BY <1>0, <1>7, <1>u, <1>b, <1>drop
  <2>2. \A j \in 2 .. Len(fresh) :
          \E i \in 1 .. Len(fresh), t \in Sides : fresh[i][t] = New(j)
    <3>1. \A j \in 2 .. Len(fresh) : j = 2 \/ j = 3 \/ j = 4
        BY <1>7
    <3> QED BY <1>0, <1>7, <1>m, <3>1
  <2> QED BY <2>1, <2>2, <1>drop DEF Takes
<1>10. ASSUME NEW R, NEW K, Order(R, K)
       PROVE  \E fr, fk : Inherits(R, K, fr, fk, v, drop, fresh)
  <2>1. /\ R[v] \in SUBSET Int /\ K[v] \in SUBSET Int
        /\ R[v] \subseteq K[v] /\ kv \in K[v] /\ ku \in K[u]
        /\ OnSide(kv, far, ku)
        /\ R[u] = Route(kv, far, R[v]) /\ K[u] \subseteq Part(kv, far, K[v])
        /\ R[A] = Route(kv, side, R[v]) /\ K[A] \subseteq Part(kv, side, K[v])
        /\ R[u] \in SUBSET Int /\ K[u] \in SUBSET Int
        /\ R[A] \in SUBSET Int /\ K[A] \in SUBSET Int
        /\ R[A] \subseteq K[A] /\ Key(A) \in K[A]
      BY <1>0, <1>1, <1>10, <1>u, <1>n, ChildSets
  <2>2. /\ R[B] = Route(ku, side, R[u]) /\ K[B] \subseteq Part(ku, side, K[u])
        /\ R[C] = Route(ku, far, R[u]) /\ K[C] \subseteq Part(ku, far, K[u])
        /\ R[B] \in SUBSET Int /\ K[B] \in SUBSET Int
        /\ R[B] \subseteq K[B] /\ Key(B) \in K[B]
      BY <1>0, <1>1, <1>2, <1>10, <1>b, <1>n, ChildSets
  <2>3. PICK r2, k2 : r2 = Route(ku, side, R[v]) /\ k2 = Part(ku, side, K[v])
      OBVIOUS
  <2>4. PICK fr, fk : fr = <<R[v], r2, R[A], R[B]>> /\ fk = <<K[v], k2, K[A], K[B]>>
      OBVIOUS
  <2>5. /\ OnSide(ku, side, kv)
        /\ \A S \in SUBSET Int :
              /\ Route(ku, far, Route(kv, far, S)) = Route(ku, far, S)
              /\ Route(kv, side, Route(ku, side, S)) = Route(kv, side, S)
              /\ Part(ku, far, Part(kv, far, S)) = Part(ku, far, S)
              /\ Part(kv, side, Part(ku, side, S)) = Part(kv, side, S)
    <3>1. side = Opposite(far)
        BY <1>f, TwoSides
    <3> QED BY <1>0, <1>5, <2>1, <3>1, Routes
  <2>6. /\ r2 \in SUBSET Int /\ k2 \in SUBSET Int /\ r2 \subseteq k2 /\ kv \in k2
    <3>1. Route(ku, side, R[v]) \in SUBSET Int /\ Part(ku, side, K[v]) \in SUBSET Int
          /\ Route(ku, side, R[v]) \subseteq Part(ku, side, K[v])
        BY <1>0, <1>5, <2>1, RouteInPart
    <3> QED BY <2>1, <2>3, <2>5, <3>1 DEF Part
  <2>7. /\ R[C] = Route(ku, far, R[v]) /\ R[A] = Route(kv, side, r2) /\ R[B] = Route(kv, far, r2)
    <3>1. Route(ku, side, Route(kv, far, R[v])) = Route(kv, far, Route(ku, side, R[v]))
        BY RoutesCommute
    <3> QED BY <2>1, <2>2, <2>3, <2>5, <3>1
  <2>8. /\ K[C] \subseteq Part(ku, far, K[v]) /\ K[A] \subseteq Part(kv, side, k2)
        /\ K[B] \subseteq Part(kv, far, k2)
    <3>1. Part(ku, far, K[u]) \subseteq Part(ku, far, Part(kv, far, K[v]))
          /\ Part(ku, side, K[u]) \subseteq Part(ku, side, Part(kv, far, K[v]))
        BY <2>1 DEF Part
    <3>2. Part(ku, side, Part(kv, far, K[v])) = Part(kv, far, Part(ku, side, K[v]))
        BY RoutesCommute
    <3> QED BY <2>1, <2>2, <2>3, <2>5, <3>1, <3>2
  <2>9. /\ fr \in [1 .. Len(fresh) -> SUBSET Int] /\ fk \in [1 .. Len(fresh) -> SUBSET Int]
        /\ fr[1] = R[v] /\ fr[2] = r2 /\ fr[3] = R[A] /\ fr[4] = R[B]
        /\ fk[1] = K[v] /\ fk[2] = k2 /\ fk[3] = K[A] /\ fk[4] = K[B]
    <3>0. PICK x, y, z, x2, y2, z2 : /\ x = R[v] /\ y = R[A] /\ z = R[B]
                                     /\ x2 = K[v] /\ y2 = K[A] /\ z2 = K[B]
        OBVIOUS
    <3>1. Len(fresh) = 4
        BY <1>7
    <3>4. x \in SUBSET Int /\ r2 \in SUBSET Int /\ y \in SUBSET Int /\ z \in SUBSET Int
          /\ x2 \in SUBSET Int /\ k2 \in SUBSET Int /\ y2 \in SUBSET Int /\ z2 \in SUBSET Int
        BY <2>1, <2>2, <2>6, <3>0
    <3>2. /\ <<x, r2, y, z>> \in [1 .. 4 -> SUBSET Int]
          /\ <<x, r2, y, z>>[1] = x /\ <<x, r2, y, z>>[2] = r2
          /\ <<x, r2, y, z>>[3] = y /\ <<x, r2, y, z>>[4] = z
        BY <3>4, Tuples
    <3>3. /\ <<x2, k2, y2, z2>> \in [1 .. 4 -> SUBSET Int]
          /\ <<x2, k2, y2, z2>>[1] = x2 /\ <<x2, k2, y2, z2>>[2] = k2
          /\ <<x2, k2, y2, z2>>[3] = y2 /\ <<x2, k2, y2, z2>>[4] = z2
        BY <3>4, Tuples
    <3> QED BY <2>4, <3>0, <3>1, <3>2, <3>3
  <2>10. \A i \in 1 .. Len(fresh) : fresh[i].key \in fk[i] /\ fr[i] \subseteq fk[i]
    <3>1. ku \in K[v]
        BY <2>1 DEF Part
    <3> QED BY <1>7, <2>1, <2>2, <2>6, <2>9, <3>1
  <2>11. ASSUME NEW i \in 1 .. Len(fresh), NEW j \in 1 .. Len(fresh), NEW s \in Sides,
                fresh[i][s] = New(j)
         PROVE  /\ fr[j] = Route(fresh[i].key, s, fr[i])
                /\ fk[j] \subseteq Part(fresh[i].key, s, fk[i])
    <3>1. /\ New(j) \notin Record /\ New(j) # Null
          /\ (New(j) = m2 => j = 2) /\ (New(j) = m3 => j = 3) /\ (New(j) = m4 => j = 4)
      <4>1. j \in 1 .. 4 /\ 2 \in 1 .. 4 /\ 3 \in 1 .. 4 /\ 4 \in 1 .. 4
          BY <1>7
      <4> QED BY <4>1, <1>m, FreshNames
    <3>2. i # 3 /\ i # 4
        BY <1>7, <1>c, <2>11, <3>1
    <3>3. \/ i = 1 /\ s = side /\ j = 2
          \/ i = 2 /\ s = side /\ j = 3
          \/ i = 2 /\ s = far /\ j = 4
        BY <1>0, <1>3, <1>7, <2>11, <3>1, <3>2
    <3> QED BY <1>7, <2>3, <2>7, <2>8, <2>9, <3>3
  <2>12. ASSUME NEW i \in 1 .. Len(fresh), NEW s \in Sides, fresh[i][s] \in Record
         PROVE  /\ R[fresh[i][s]] = Route(fresh[i].key, s, fr[i])
                /\ K[fresh[i][s]] \subseteq Part(fresh[i].key, s, fk[i])
    <3>1. CASE i = 1
      <4>1. s = far
          BY <1>0, <1>6, <1>7, <2>12, <3>1
      <4> QED BY <1>7, <2>7, <2>8, <2>9, <3>1, <4>1
    <3>2. i # 2
        BY <1>0, <1>6, <1>7, <2>12
    <3>3. fresh[i][s] # Null
        BY <1>6, <2>12
    <3>4. CASE i = 3
        BY <1>2, <1>7, <1>10, <2>9, <3>3, <3>4 DEF Order
    <3>5. CASE i = 4
        BY <1>2, <1>7, <1>10, <2>9, <3>3, <3>5 DEF Order
    <3> QED BY <1>7, <3>1, <3>2, <3>4, <3>5
  <2>13. Copies(R, fr, drop, fresh)
    <3>1. /\ m2 # Null /\ m3 # Null /\ m4 # Null
          /\ A # Null /\ u # Null /\ B # Null /\ C # Null
        BY <1>1, <1>m, FreshNames
    <3>2. ~LeafCell(fresh[1]) /\ ~LeafCell(fresh[2])
        BY <1>0, <1>7, <3>1 DEF LeafCell
    <3>3. ~IsLeaf(v) /\ ~IsLeaf(u)
        BY <1>0, <1>u, <1>b, <3>1 DEF IsLeaf, Sides
    <3>4. \A c \in {A, B} : IsLeaf(c) <=> \E s \in Sides : Child(c, s) = Null
        BY <1>0 DEF IsLeaf, Sides
    <3>5. (LeafCell(fresh[3]) <=> IsLeaf(A)) /\ (LeafCell(fresh[4]) <=> IsLeaf(B))
        BY <1>7, <3>4 DEF LeafCell
    <3>6. fr[3] = R[A] /\ fr[4] = R[B]
        BY <2>9
    <3> QED BY <1>7, <1>drop, <3>2, <3>3, <3>5, <3>6 DEF Copies
  <2>14. Inherits(R, K, fr, fk, v, drop, fresh)
      BY <2>9, <2>10, <2>11, <2>12, <2>13 DEF Inherits
  <2> QED BY <2>14
<1>11. \A R, K : Order(R, K) => \E fr, fk : Inherits(R, K, fr, fk, v, drop, fresh)
    BY <1>10
<1> QED BY <1>1, <1>8, <1>9, <1>11, KeepsIf

\* Every case of rebalance.
LEMMA RebalanceKeeps ==
    ASSUME Forest, NEW rank, NEW top, Ranked(rank, top),
           NEW parent \in Live, NEW node \in Record, NEW q \in Sides, Child(parent, q) = node,
           NEW case, tryRebalance(case, parent, node)
    PROVE  Keeps(rank, parent, node)
<1>1. node \in Live
  <2>1. node # Null
      BY FreshNames
  <2> QED BY <2>1, LiveChild
<1>2. "left" \in Sides /\ "right" \in Sides
    BY DEF Sides
<1>3. CASE Rotate("left", parent, node) \/ Rotate("right", parent, node)
    BY <1>1, <1>2, <1>3, RotateKeeps
<1>4. CASE RotateTwice("left", parent, node) \/ RotateTwice("right", parent, node)
    BY <1>1, <1>2, <1>4, RotateTwiceKeeps
<1>5. CASE RotateWeight("left", parent, node) \/ RotateWeight("right", parent, node)
    BY <1>1, <1>2, <1>5, RotateWeightKeeps
<1>6. CASE tryRebalance1(parent, node) \/ tryRebalance4(parent, node)
  <2>1. ~IsLeaf(node)
      BY <1>6 DEF tryRebalance1, tryRebalance4
  <2>2. PICK l, r : l = Child(node, "left") /\ r = Child(node, "right")
      OBVIOUS
  <2>3. l \in Record /\ r \in Record
      BY <1>1, <1>2, <2>1, <2>2 DEF IsLeaf, Forest, Live
  <2>4. Weight(node) \in Int /\ Weight(l) \in Int /\ Weight(r) \in Int
      BY <2>3, RecordFields
  <2>5. \E w, w1, w2 \in Int : Swing(parent, node, {}, {node, l, r}, Recoloured(node, w, w1, w2))
    <3>1. CASE tryRebalance1(parent, node)
      <4>1. Swing(parent, node, {}, {node, l, r}, Recoloured(node, Weight(node) - 1, 1, 1))
          BY <3>1, <2>2 DEF tryRebalance1, Recoloured
      <4>2. PICK w : w = Weight(node) - 1
          OBVIOUS
      <4>3. w \in Int /\ 1 \in Int
          BY <2>4, <4>2
      <4> QED BY <4>1, <4>2, <4>3
    <3>2. CASE tryRebalance4(parent, node)
      <4>1. Swing(parent, node, {}, {node, l, r},
                  Recoloured(node, Weight(node) + 1, Weight(l) - 1, Weight(r) - 1))
          BY <3>2, <2>2 DEF tryRebalance4, Recoloured
      <4>2. PICK w, w1, w2 : w = Weight(node) + 1 /\ w1 = Weight(l) - 1 /\ w2 = Weight(r) - 1
          OBVIOUS
      <4>3. w \in Int /\ w1 \in Int /\ w2 \in Int
          BY <2>4, <4>2
      <4> QED BY <4>1, <4>2, <4>3
    <3> QED BY <1>6, <3>1, <3>2
  <2>6. PICK w \in Int, w1 \in Int, w2 \in Int :
           Swing(parent, node, {}, {node, l, r}, Recoloured(node, w, w1, w2))
      BY <2>5
  <2> QED BY <1>1, <2>1, <2>2, <2>6, RecolourKeeps
<1> QED BY <1>3, <1>4, <1>5, <1>6
        DEF tryRebalance, tryRebalance2A, tryRebalance2B, tryRebalance3A, tryRebalance3B,
            tryRebalance5A, tryRebalance5B

-----------------------------------------------------------------------------
(***************************************************************************)
(* Insertions                                                              *)
(***************************************************************************)
\* The two records that an insertion makes: the leaf that was there hangs on
\* `side' of the first.
Inserted(key, leaf, side) ==
    << Sided(side, IF side = "right" THEN Key(leaf) ELSE key, InsertedWeight(leaf), leaf, New(2)),
       Leaf(key, 1) >>

\* An insertion swings the parent from the leaf to a new inner record.
LEMMA InsertIs ==
    ASSUME NEW key, NEW parent, NEW leaf, Insert(key, parent, leaf),
           NEW side, side = IF key < Key(leaf) THEN "right" ELSE "left"
    PROVE  Swing(parent, leaf, {leaf}, {}, Inserted(key, leaf, side))
BY DEF Insert, Inserted, Sided

\* What they are.
LEMMA InsertedFields ==
    ASSUME Forest, NEW key \in Keys, NEW leaf \in Record, NEW side \in Sides, NEW fresh,
           fresh = Inserted(key, leaf, side), NEW kn,
           kn = IF side = "right" THEN Key(leaf) ELSE key
    PROVE  /\ fresh \in Seq(Cell) /\ Len(fresh) = 2 /\ 1 .. Len(fresh) = {1, 2}
           /\ fresh[1].key = kn /\ fresh[1][side] = leaf /\ fresh[1][Opposite(side)] = New(2)
           /\ fresh[2].key = key /\ \A s \in Sides : fresh[2][s] = Null
<1>1. Key(leaf) \in Keys \cup {MaxKey} /\ Weight(leaf) \in Int
    BY RecordFields
<1>2. PICK w, m : w = InsertedWeight(leaf) /\ m = New(2)
    OBVIOUS
<1>3. w \in Int
    BY <1>1, <1>2 DEF InsertedWeight
<1>4. kn \in Keys \cup {MaxKey}
    BY <1>1
<1>5. m \in Nat /\ leaf \in Nat
    BY <1>2, FreshNames
<1>6. /\ Sided(side, kn, w, leaf, m) \in Cell
      /\ Sided(side, kn, w, leaf, m).key = kn
      /\ Sided(side, kn, w, leaf, m)[side] = leaf
      /\ Sided(side, kn, w, leaf, m)[Opposite(side)] = m
  <2>1. Has(Sided(side, kn, w, leaf, m), kn, side, leaf, m)
      BY <1>3, <1>4, <1>5, SidedHas
  <2> QED BY <2>1 DEF Has
<1>7. /\ Leaf(key, 1) \in Cell /\ Leaf(key, 1).key = key
      /\ \A s \in Sides : Leaf(key, 1)[s] = Null
  <2>1. /\ Rec(key, 1, 0, 0) \in Cell /\ Rec(key, 1, 0, 0).key = key
        /\ Rec(key, 1, 0, 0)["left"] = 0 /\ Rec(key, 1, 0, 0)["right"] = 0
    <3>1. 0 \in Nat /\ 1 \in Int
        OBVIOUS
    <3> QED BY <3>1, RecFields
  <2> QED BY <2>1 DEF Leaf, Null, Sides
<1>8. fresh = << Sided(side, kn, w, leaf, m), Leaf(key, 1) >>
    BY <1>2 DEF Inserted
<1>9. fresh \in Seq(Cell) /\ Len(fresh) = 2
    BY <1>6, <1>7, <1>8
<1> QED BY <1>2, <1>6, <1>7, <1>8, <1>9

\* An insertion grafts, and leaves nothing behind.
LEMMA InsertGrafts ==
    ASSUME Forest, NEW rank, NEW top, Ranked(rank, top),
           NEW parent \in Live, NEW leaf \in Live, NEW q \in Sides, Child(parent, q) = leaf,
           NEW key \in Keys, NEW side \in Sides, NEW fresh, fresh = Inserted(key, leaf, side)
    PROVE  Grafts(rank, parent, leaf, {}, fresh) /\ Takes(leaf, {}, fresh)
<1>1. /\ leaf \in Record /\ leaf # Null /\ leaf # Root
      /\ rank[leaf] < rank[parent]
  <2>1. leaf # Null /\ leaf \in Record
      BY FreshNames DEF Live
  <2> QED BY <2>1, LiveChild
<1>2. PICK kn : kn = IF side = "right" THEN Key(leaf) ELSE key
    OBVIOUS
<1>3. /\ fresh \in Seq(Cell) /\ Len(fresh) = 2 /\ 1 .. Len(fresh) = {1, 2}
      /\ fresh[1][side] = leaf /\ fresh[1][Opposite(side)] = New(2)
      /\ \A s \in Sides : fresh[2][s] = Null
    BY <1>1, <1>2, InsertedFields
<1>4. Opposite(side) # side /\ Sides = {side, Opposite(side)}
    BY TwoSides
<1>5. New(2) # leaf
  <2>1. 2 \in 1 .. 4
      OBVIOUS
  <2> QED BY <1>1, <2>1, FreshNames
<1>6. 2 \in 1 + 1 .. Len(fresh) /\ Len(fresh) \in 1 .. 4
    BY <1>3
<1>7. \A i \in 1 .. Len(fresh), s \in Sides :
          \/ fresh[i][s] = Null
          \/ \E j \in i + 1 .. Len(fresh) : fresh[i][s] = New(j)
          \/ fresh[i][s] = leaf
    BY <1>3, <1>4, <1>6
<1>8. \A i, j \in 1 .. Len(fresh), s, t \in Sides :
          fresh[i][s] = fresh[j][t] /\ fresh[i][s] # Null => i = j /\ s = t
    BY <1>3, <1>4, <1>5
<1>9. Grafts(rank, parent, leaf, {}, fresh)
    BY <1>1, <1>3, <1>6, <1>7, <1>8 DEF Grafts
<1>10. Takes(leaf, {}, fresh)
  <2>1. \A j \in 2 .. Len(fresh) : j = 2
      BY <1>3
  <2> QED BY <1>3, <1>4, <2>1 DEF Takes
<1> QED BY <1>9, <1>10

\* The order: the leaf keeps the searches that still pass it.
LEMMA InsertSorts ==
    ASSUME Forest, NEW parent \in Live, NEW leaf \in Live, NEW q \in Sides, Child(parent, q) = leaf,
           \A s \in Sides : Child(leaf, s) = Null,
           NEW key \in Keys, NEW side, side = IF key < Key(leaf) THEN "right" ELSE "left",
           NEW fresh, fresh = Inserted(key, leaf, side),
           NEW R, NEW K, Order(R, K), key \in R[leaf]
    PROVE  \E R0, K0, fr, fk :
              /\ Sorts(R0, K0, fr, fk, parent, SideOf(parent, leaf), {}, fresh)
              /\ \A n \in Record \ {leaf} : R0[n] = R[n]
<1>s. PICK up : up = SideOf(parent, leaf)
    OBVIOUS
<1>f. PICK far : far = Opposite(side)
    OBVIOUS
<1>k. PICK kn : kn = IF side = "right" THEN Key(leaf) ELSE key
    OBVIOUS
<1>0. side \in Sides /\ far \in Sides /\ far # side /\ Sides = {side, far}
  <2>1. side \in Sides
      BY DEF Sides
  <2> QED BY <1>f, <2>1, TwoSides
<1>1. up \in Sides /\ Child(parent, up) = leaf /\ leaf \in Record /\ leaf # Null /\ parent \in Record
      /\ parent # leaf
  <2>1. leaf # Null
      BY FreshNames DEF Live
  <2> QED BY <1>s, <2>1, SideOfChild DEF Live
<1>2. /\ fresh \in Seq(Cell) /\ Len(fresh) = 2 /\ 1 .. Len(fresh) = {1, 2}
      /\ fresh[1].key = kn /\ fresh[1][side] = leaf /\ fresh[1][far] = New(2)
      /\ fresh[2].key = key /\ \A s \in Sides : fresh[2][s] = Null
    BY <1>0, <1>1, <1>f, <1>k, InsertedFields
<1>3. Key(leaf) \in Int /\ key \in Int /\ kn \in Int
  <2>1. Key(leaf) \in Int
      BY <1>1, RecordFields
  <2> QED BY <2>1, <1>k, KeysAssumption
<1>4. OnSide(kn, side, Key(leaf)) /\ OnSide(kn, far, key)
    BY <1>3, <1>k, <1>f DEF OnSide, Opposite
<1>5. /\ R \in [Record -> SUBSET Int] /\ K \in [Record -> SUBSET Int]
      /\ R[leaf] \in SUBSET Int /\ K[leaf] \in SUBSET Int
      /\ R[leaf] \subseteq K[leaf] /\ Key(leaf) \in K[leaf] /\ key \in K[leaf]
      /\ R[leaf] = Route(Key(parent), up, R[parent])
      /\ K[leaf] \subseteq Part(Key(parent), up, K[parent])
    BY <1>1 DEF Order
<1>6. PICK R0, K0 : /\ R0 = [R EXCEPT ![leaf] = Route(kn, side, R[leaf])]
                    /\ K0 = [K EXCEPT ![leaf] = Part(kn, side, K[leaf])]
    OBVIOUS
<1>7. /\ \A s \in Sides : Route(kn, s, R[leaf]) \in SUBSET Int /\ Part(kn, s, K[leaf]) \in SUBSET Int
                          /\ Route(kn, s, R[leaf]) \subseteq Part(kn, s, K[leaf])
    BY <1>3, <1>5, RouteInPart
<1>8. /\ R0 \in [Record -> SUBSET Int] /\ K0 \in [Record -> SUBSET Int]
      /\ R0[leaf] = Route(kn, side, R[leaf]) /\ K0[leaf] = Part(kn, side, K[leaf])
      /\ \A n \in Record \ {leaf} : R0[n] = R[n] /\ K0[n] = K[n]
    BY <1>0, <1>1, <1>5, <1>6, <1>7
<1>9. PICK r2, k2 : r2 = Route(kn, far, R[leaf]) /\ k2 = Part(kn, far, K[leaf])
    OBVIOUS
<1>10. PICK x, y : x = R[leaf] /\ y = K[leaf]
    OBVIOUS
<1>11. PICK fr, fk : fr = <<x, r2>> /\ fk = <<y, k2>>
    OBVIOUS
<1>12. /\ fr \in [1 .. Len(fresh) -> SUBSET Int] /\ fk \in [1 .. Len(fresh) -> SUBSET Int]
       /\ fr[1] = R[leaf] /\ fr[2] = r2 /\ fk[1] = K[leaf] /\ fk[2] = k2
  <2>1. x \in SUBSET Int /\ y \in SUBSET Int /\ r2 \in SUBSET Int /\ k2 \in SUBSET Int
      BY <1>0, <1>5, <1>7, <1>9, <1>10
  <2>2. /\ <<x, r2>> \in [1 .. 2 -> SUBSET Int] /\ <<x, r2>>[1] = x /\ <<x, r2>>[2] = r2
      BY <2>1, Tuples
  <2>3. /\ <<y, k2>> \in [1 .. 2 -> SUBSET Int] /\ <<y, k2>>[1] = y /\ <<y, k2>>[2] = k2
      BY <2>1, Tuples
  <2>4. Len(fresh) = 2
      BY <1>2
  <2> QED BY <1>10, <1>11, <2>2, <2>3, <2>4
<1>13. Keys \subseteq R0[Root]
  <2>1. Root # leaf /\ Root \in Record
      BY <1>1 DEF Forest
  <2> QED BY <1>8, <2>1 DEF Order
<1>14. \A n \in Live : Key(n) \in K0[n] /\ R0[n] \subseteq K0[n]
  <2>1. Key(leaf) \in K0[leaf] /\ R0[leaf] \subseteq K0[leaf]
      BY <1>0, <1>4, <1>5, <1>7, <1>8 DEF Part
  <2>2. \A n \in Live \ {leaf} : Key(n) \in K0[n] /\ R0[n] \subseteq K0[n]
      BY <1>8 DEF Order, Live
  <2> QED BY <2>1, <2>2
<1>15. ASSUME NEW n \in Live, NEW s \in Sides, Child(n, s) # Null, ~(n = parent /\ s = up)
       PROVE  /\ R0[Child(n, s)] = Route(Key(n), s, R0[n])
              /\ K0[Child(n, s)] \subseteq Part(Key(n), s, K0[n])
  <2>1. n # leaf /\ n \in Record
      BY <1>15 DEF Live
  <2>2. Child(n, s) # leaf /\ Child(n, s) \in Record
      BY <1>1, <1>15, <2>1 DEF Forest
  <2> QED BY <1>8, <1>15, <2>1, <2>2 DEF Order
<1>16. ASSUME NEW n \in Record, NEW s \in Sides, Child(n, s) # Null, ~IsLeaf(Child(n, s))
       PROVE  Route(Key(n), s, R0[n]) \subseteq R0[Child(n, s)]
  <2>1. n # leaf
      BY <1>16
  <2>2. IsLeaf(leaf)
      BY DEF IsLeaf, Sides
  <2>3. Child(n, s) # leaf /\ Child(n, s) \in Record
      BY <1>16, <2>2 DEF Forest
  <2> QED BY <1>8, <1>16, <2>1, <2>3 DEF Order
<1>17. /\ fr[1] = Route(Key(parent), up, R0[parent])
       /\ fk[1] \subseteq Part(Key(parent), up, K0[parent])
    BY <1>1, <1>5, <1>8, <1>12
<1>18. \A i \in 1 .. Len(fresh) : fresh[i].key \in fk[i] /\ fr[i] \subseteq fk[i]
  <2>1. kn \in K[leaf]
      BY <1>5, <1>k
  <2>2. key \in k2 /\ r2 \subseteq k2
      BY <1>0, <1>4, <1>5, <1>7, <1>9 DEF Part
  <2> QED BY <1>2, <1>5, <1>12, <2>1, <2>2
<1>19. ASSUME NEW i \in 1 .. Len(fresh), NEW j \in 1 .. Len(fresh), NEW s \in Sides, fresh[i][s] = New(j)
       PROVE  /\ fr[j] = Route(fresh[i].key, s, fr[i])
              /\ fk[j] \subseteq Part(fresh[i].key, s, fk[i])
  <2>1. New(j) \notin Record /\ New(j) # Null /\ (New(j) = New(2) => j = 2)
    <3>1. j \in 1 .. 4 /\ 2 \in 1 .. 4
        BY <1>2
    <3> QED BY <3>1, FreshNames
  <2>2. i = 1 /\ s = far /\ j = 2
      BY <1>0, <1>1, <1>2, <1>19, <2>1
  <2> QED BY <1>2, <1>9, <1>12, <2>2
<1>20. ASSUME NEW i \in 1 .. Len(fresh), NEW s \in Sides, fresh[i][s] \in Record
       PROVE  /\ R0[fresh[i][s]] = Route(fresh[i].key, s, fr[i])
              /\ K0[fresh[i][s]] \subseteq Part(fresh[i].key, s, fk[i])
  <2>1. New(2) \notin Record /\ Null \notin Record
    <3>1. 2 \in 1 .. 4
        OBVIOUS
    <3> QED BY <3>1, FreshNames
  <2>2. i = 1 /\ s = side
      BY <1>0, <1>2, <1>20, <2>1
  <2> QED BY <1>2, <1>8, <1>12, <2>2
<1>21. Sorts(R0, K0, fr, fk, parent, up, {}, fresh)
    BY <1>8, <1>12, <1>13, <1>14, <1>15, <1>16, <1>17, <1>18, <1>19, <1>20 DEF Sorts
<1> QED BY <1>8, <1>21, <1>s

-----------------------------------------------------------------------------
(***************************************************************************)
(* Deletions                                                               *)
(***************************************************************************)
\* The copy of n3 that a deletion makes.
Deleted(n0, n1, n3) ==
    << Rec(Key(n3), IF MaxKey \in {Key(n0), Key(n1)} THEN 1 ELSE Weight(n1) + Weight(n3),
           Child(n3, "left"), Child(n3, "right")) >>

\* What a deletion finds: n1 below n0, and n2 and n3 below n1.
Deletes(n0, n1, n2, n3) ==
    /\ n0 \in Live /\ n1 \in Live /\ n2 \in Live /\ n3 \in Live
    /\ \E s \in Sides : Child(n0, s) = n1
    /\ \E s \in Sides : Child(n1, s) = n2 /\ Child(n1, Opposite(s)) = n3

\* A deletion swings the grandparent from the parent to a copy of the sibling.
LEMMA DeleteIs ==
    ASSUME NEW n0, NEW n1, NEW n2, NEW n3, Delete(n0, n1, n2, n3)
    PROVE  Swing(n0, n1, {}, {n1, n2, n3}, Deleted(n0, n1, n3))
BY DEF Delete, Deleted

\* The copy of the sibling has its key and its children.
LEMMA DeletedFields ==
    ASSUME Forest, NEW n0 \in Record, NEW n1 \in Record, NEW n3 \in Record, NEW fresh,
           fresh = Deleted(n0, n1, n3)
    PROVE  /\ fresh \in Seq(Cell) /\ Len(fresh) = 1 /\ 1 .. Len(fresh) = {1}
           /\ fresh[1].key = Key(n3) /\ \A s \in Sides : fresh[1][s] = Child(n3, s)
<1>1. PICK k, w, l, r :
         /\ k = Key(n3) /\ l = Child(n3, "left") /\ r = Child(n3, "right")
         /\ w = IF MaxKey \in {Key(n0), Key(n1)} THEN 1 ELSE Weight(n1) + Weight(n3)
    OBVIOUS
<1>2. k \in Keys \cup {MaxKey} /\ w \in Int
  <2>1. Key(n3) \in Keys \cup {MaxKey} /\ Weight(n1) \in Int /\ Weight(n3) \in Int
      BY RecordFields
  <2> QED BY <1>1, <2>1
<1>3. l \in Nat /\ r \in Nat
  <2>1. heap[n3] \in Cell
      BY RecordIs DEF Forest
  <2> QED BY <1>1, <2>1, CellFields DEF Child, Sides
<1>4. /\ Rec(k, w, l, r) \in Cell /\ Rec(k, w, l, r).key = k
      /\ Rec(k, w, l, r)["left"] = l /\ Rec(k, w, l, r)["right"] = r
  <2>1. Has(Rec(k, w, l, r), k, "left", l, r)
      BY <1>2, <1>3, RecHas
  <2> QED BY <2>1 DEF Has, Opposite
<1>5. fresh = << Rec(k, w, l, r) >>
    BY <1>1 DEF Deleted
<1>6. fresh \in Seq(Cell) /\ Len(fresh) = 1
    BY <1>4, <1>5
<1> QED BY <1>1, <1>4, <1>5, <1>6 DEF Sides

\* The records a deletion works on are different ones, each below the former.
LEMMA DeletesRanks ==
    ASSUME Forest, NEW rank, NEW top, Ranked(rank, top),
           NEW n0, NEW n1, NEW n2, NEW n3, Deletes(n0, n1, n2, n3)
    PROVE  /\ \A n \in {n0, n1, n2, n3} : n \in Record /\ n # Null /\ rank[n] \in Int
           /\ rank[n1] < rank[n0] /\ rank[n2] < rank[n1] /\ rank[n3] < rank[n1]
           /\ n1 # n0 /\ n2 # n0 /\ n3 # n0 /\ n2 # n1 /\ n3 # n1 /\ n2 # n3
<1>1. PICK s \in Sides, t \in Sides :
         Child(n0, s) = n1 /\ Child(n1, t) = n2 /\ Child(n1, Opposite(t)) = n3
    BY DEF Deletes
<1>2. Opposite(t) \in Sides /\ Opposite(t) # t
    BY TwoSides
<1>3. n0 \in Live /\ n1 \in Live /\ n2 \in Live /\ n3 \in Live
    BY DEF Deletes
<1>4. \A n \in {n0, n1, n2, n3} : n \in Record /\ n # Null /\ rank[n] \in Int
  <2>1. \A n \in Live : n \in Record /\ n # Null /\ rank[n] \in Int
      BY FreshNames DEF Live, Ranked
  <2> QED BY <1>3, <2>1
<1>5. rank[n1] < rank[n0] /\ rank[n2] < rank[n1] /\ rank[n3] < rank[n1]
    BY <1>1, <1>2, <1>4 DEF Ranked
<1>6. n1 # n0 /\ n2 # n0 /\ n3 # n0 /\ n2 # n1 /\ n3 # n1
    BY <1>4, <1>5
<1>7. n2 # n3
    BY <1>1, <1>2, <1>3, <1>4 DEF Forest
<1> QED BY <1>4, <1>5, <1>6, <1>7

\* A deletion grafts.  What is below n2 is left behind.
LEMMA DeleteGrafts ==
    ASSUME Forest, NEW rank, NEW top, Ranked(rank, top),
           NEW n0, NEW n1, NEW n2, NEW n3, Deletes(n0, n1, n2, n3),
           NEW fresh, fresh = Deleted(n0, n1, n3)
    PROVE  Grafts(rank, n0, n1, {n1, n2, n3}, fresh)
<1>d. PICK drop : drop = {n1, n2, n3}
    OBVIOUS
<1>1. PICK s \in Sides, t \in Sides :
         Child(n0, s) = n1 /\ Child(n1, t) = n2 /\ Child(n1, Opposite(t)) = n3
    BY DEF Deletes
<1>2. Opposite(t) \in Sides /\ Opposite(t) # t
    BY TwoSides
<1>3. /\ \A n \in {n0, n1, n2, n3} : n \in Record /\ n # Null /\ rank[n] \in Int
      /\ rank[n1] < rank[n0] /\ rank[n2] < rank[n1] /\ rank[n3] < rank[n1]
    BY DeletesRanks
<1>4. n0 \in Live /\ drop \subseteq Live
    BY <1>d DEF Deletes
<1>5. /\ fresh \in Seq(Cell) /\ Len(fresh) = 1 /\ 1 .. Len(fresh) = {1}
      /\ \A u \in Sides : fresh[1][u] = Child(n3, u)
    BY <1>3, DeletedFields
<1>6. \A u \in Sides : Child(n3, u) # Null => Child(n3, u) \notin drop
  <2> SUFFICES ASSUME NEW u \in Sides, Child(n3, u) # Null PROVE Child(n3, u) \notin drop
      OBVIOUS
  <2>1. n3 \in Live
      BY DEF Deletes
  <2>2. rank[Child(n3, u)] < rank[n3] /\ Child(n3, u) \in Record /\ rank[Child(n3, u)] \in Int
      BY <2>1, LiveChild DEF Ranked
  <2>3. Child(n3, u) # n1 /\ Child(n3, u) # n3
      BY <1>3, <2>2
  <2>4. Child(n3, u) # n2
    <3>1. n1 # n3 /\ n1 \in Live
        BY <1>3 DEF Deletes
    <3> QED BY <1>1, <2>1, <3>1 DEF Forest
  <2> QED BY <1>d, <2>3, <2>4
<1>7. Replacing(rank, n0, n1, drop, fresh)
  <2>1. \A i \in 1 .. Len(fresh), u \in Sides :
           \/ fresh[i][u] = Null
           \/ fresh[i][u] \notin drop /\ \E d \in drop, q \in Sides : Child(d, q) = fresh[i][u]
      BY <1>5, <1>6, <1>d
  <2>2. \A i, j \in 1 .. Len(fresh), u, q \in Sides :
           fresh[i][u] = fresh[j][q] /\ fresh[i][u] # Null => i = j /\ u = q
    <3>1. n3 \in Live
        BY DEF Deletes
    <3> QED BY <1>5, <3>1 DEF Forest
  <2>3. \A d \in drop : d = n1 \/ \E e \in drop, u \in Sides : Child(e, u) = d
      BY <1>1, <1>2, <1>d
  <2>4. \A d \in drop : rank[d] < rank[n0]
      BY <1>3, <1>d
  <2>5. Len(fresh) \in 1 .. 4
      BY <1>5
  <2> QED BY <1>1, <1>4, <1>5, <1>d, <2>1, <2>2, <2>3, <2>4, <2>5 DEF Replacing
<1> QED BY <1>7, <1>d, Replaces

\* It leaves nothing behind if n2 has no child.
LEMMA DeleteTakes ==
    ASSUME Forest, NEW rank, NEW top, Ranked(rank, top),
           NEW n0, NEW n1, NEW n2, NEW n3, Deletes(n0, n1, n2, n3),
           \A s \in Sides : Child(n2, s) = Null,
           NEW drop, drop = {n1, n2, n3}, NEW fresh, fresh = Deleted(n0, n1, n3)
    PROVE  Takes(n1, drop, fresh)
<1>1. PICK t \in Sides : Child(n1, t) = n2 /\ Child(n1, Opposite(t)) = n3
    BY DEF Deletes
<1>2. \A s \in Sides : s = t \/ s = Opposite(t)
    BY TwoSides
<1>3. \A n \in {n0, n1, n2, n3} : n \in Record
    BY DeletesRanks
<1>4. /\ Len(fresh) = 1 /\ 1 .. Len(fresh) = {1}
      /\ \A u \in Sides : fresh[1][u] = Child(n3, u)
    BY <1>3, DeletedFields
<1>5. Null \notin Record
    BY FreshNames
<1>6. ASSUME NEW d \in drop, NEW s \in Sides, Child(d, s) \in Record \ drop
      PROVE  \E i \in 1 .. Len(fresh), u \in Sides : fresh[i][u] = Child(d, s)
  <2>1. d # n1 /\ d # n2
      BY <1>1, <1>2, <1>5, <1>6
  <2> QED BY <1>4, <1>6, <2>1
<1>7. 2 .. Len(fresh) = {}
    BY <1>4
<1> QED BY <1>6, <1>7 DEF Takes

\* The records that a search for k passes when it goes on from n.
Closed(S, k) == \A m \in S : Child(m, Toward(m, k)) # Null => Child(m, Toward(m, k)) \in S
Path(k, n) == { m \in Record : \A S \in SUBSET Record : n \in S /\ Closed(S, k) => m \in S }

\* The path of a search is the least set that the search does not leave.
LEMMA PathIs ==
    ASSUME Forest, NEW k \in Int, NEW n \in Record
    PROVE  /\ n \in Path(k, n) /\ Path(k, n) \subseteq Record
           /\ Closed(Path(k, n), k)
           /\ \A S \in SUBSET Record : n \in S /\ Closed(S, k) => Path(k, n) \subseteq S
           /\ \A c \in Path(k, n) \ {n} :
                 \E m \in Path(k, n) : Child(m, Toward(m, k)) = c
<1> PICK P : P = Path(k, n)
    OBVIOUS
<1>1. /\ n \in P /\ P \subseteq Record
      /\ \A S \in SUBSET Record : n \in S /\ Closed(S, k) => P \subseteq S
    BY DEF Path
<1>2. Closed(P, k)
  <2> SUFFICES ASSUME NEW m \in P, NEW c, c = Child(m, Toward(m, k)), c # Null PROVE c \in P
      BY DEF Closed
  <2>1. c \in Record
      BY <1>1 DEF Forest, Toward, Sides
  <2>2. ASSUME NEW S \in SUBSET Record, n \in S, Closed(S, k) PROVE c \in S
      BY <1>1, <2>2 DEF Closed
  <2> QED BY <2>1, <2>2 DEF Path
<1>3. ASSUME NEW c \in P \ {n}, \A m \in P : Child(m, Toward(m, k)) # c
      PROVE  FALSE
  <2>1. PICK S : S = P \ {c}
      OBVIOUS
  <2>2. n \in S /\ S \in SUBSET Record
      BY <1>1, <1>3, <2>1
  <2>3. Closed(S, k)
      BY <1>2, <1>3, <2>1 DEF Closed
  <2> QED BY <1>1, <1>3, <2>1, <2>2, <2>3
<1> QED BY <1>1, <1>2, <1>3

\* The order: the searches that went to n2 go on from n3.
Rerouted(R, K, n0, n1, drop, fresh) ==
    \E R0, K0, fr, fk : /\ Sorts(R0, K0, fr, fk, n0, SideOf(n0, n1), drop, fresh)
                        /\ \A n \in Record : R[n] \subseteq R0[n]

\* A deletion sorts what is below the grandparent, when the searches of the
\* dropped records are sent to the sibling.
LEMMA DeleteSorts ==
    ASSUME Forest, NEW rank, NEW top, Ranked(rank, top),
           NEW n0, NEW n1, NEW n2, NEW n3, Deletes(n0, n1, n2, n3),
           NEW fresh, fresh = Deleted(n0, n1, n3), NEW R, NEW K, Order(R, K),
           NEW drop, drop = {n1, n2, n3}
    PROVE  Rerouted(R, K, n0, n1, drop, fresh)
<1>d. drop = {n1, n2, n3}
    OBVIOUS
<1>s. PICK up : up = SideOf(n0, n1)
    OBVIOUS
<1>1. PICK s1 \in Sides : Child(n1, s1) = n2 /\ Child(n1, Opposite(s1)) = n3
    BY DEF Deletes
<1>f. PICK f1 : f1 = Opposite(s1)
    OBVIOUS
<1>2. f1 \in Sides /\ f1 # s1 /\ Sides = {s1, f1} /\ Child(n1, f1) = n3
    BY <1>1, <1>f, TwoSides
<1>3. up \in Sides /\ Child(n0, up) = n1
    BY <1>s, SideOfChild DEF Deletes
<1>4. /\ \A n \in {n0, n1, n2, n3} : n \in Record /\ n # Null /\ rank[n] \in Int
      /\ rank[n1] < rank[n0] /\ rank[n2] < rank[n1] /\ rank[n3] < rank[n1]
      /\ n1 # n0 /\ n2 # n0 /\ n3 # n0 /\ n2 # n1 /\ n3 # n1 /\ n2 # n3
    BY DeletesRanks
<1>5. n0 \in Live /\ n1 \in Live /\ n2 \in Live /\ n3 \in Live
    BY DEF Deletes
<1>6. /\ fresh \in Seq(Cell) /\ Len(fresh) = 1 /\ 1 .. Len(fresh) = {1}
      /\ fresh[1].key = Key(n3) /\ \A s \in Sides : fresh[1][s] = Child(n3, s)
    BY <1>4, DeletedFields
<1>7. /\ R \in [Record -> SUBSET Int] /\ K \in [Record -> SUBSET Int]
      /\ \A n \in Record : Key(n) \in Int
    BY RecordFields DEF Order
<1>8. /\ R[n2] = Route(Key(n1), s1, R[n1]) /\ R[n3] = Route(Key(n1), f1, R[n1])
      /\ R[n1] = Route(Key(n0), up, R[n0]) /\ K[n1] \subseteq Part(Key(n0), up, K[n0])
      /\ K[n3] \subseteq Part(Key(n1), f1, K[n1]) /\ Key(n3) \in K[n3]
      /\ R[n1] \subseteq K[n1]
    BY <1>1, <1>2, <1>3, <1>4, <1>5 DEF Order
<1>9. R[n2] \cup R[n3] = R[n1] /\ R[n2] \subseteq Int /\ K[n3] \subseteq K[n1]
  <2>1. \A k : TowardKey(Key(n1), k) \in Sides
      BY DEF TowardKey, Sides
  <2>2. K[n3] \subseteq K[n1]
      BY <1>8 DEF Part
  <2> QED BY <1>2, <1>4, <1>7, <1>8, <2>1, <2>2 DEF Route
\* The path of a search from n3 stays below n3.
<1>10. \A k \in Int :
          /\ n3 \in Path(k, n3) /\ Path(k, n3) \subseteq Live
          /\ n0 \notin Path(k, n3) /\ n1 \notin Path(k, n3) /\ n2 \notin Path(k, n3)
          /\ Closed(Path(k, n3), k)
          /\ \A c \in Path(k, n3) \ {n3} : \E m \in Path(k, n3) : Child(m, Toward(m, k)) = c
  <2> TAKE k \in Int
  <2>1. /\ n3 \in Path(k, n3) /\ Closed(Path(k, n3), k)
        /\ \A S \in SUBSET Record : n3 \in S /\ Closed(S, k) => Path(k, n3) \subseteq S
        /\ \A c \in Path(k, n3) \ {n3} : \E m \in Path(k, n3) : Child(m, Toward(m, k)) = c
      BY <1>4, PathIs
  <2>2. PICK S : S = {m \in Live : rank[m] <= rank[n3]}
      OBVIOUS
  <2>3. S \in SUBSET Record /\ n3 \in S
      BY <1>4, <1>5, <2>2 DEF Live
  <2>4. Closed(S, k)
    <3> SUFFICES ASSUME NEW m \in S, NEW c, c = Child(m, Toward(m, k)), c # Null PROVE c \in S
        BY DEF Closed
    <3>1. Toward(m, k) \in Sides
        BY DEF Toward, Sides
    <3>2. m \in Live
        BY <2>2
    <3>3. c \in Live /\ rank[c] < rank[m] /\ rank[m] \in Int /\ rank[c] \in Int
        BY <3>1, <3>2, LiveChild
    <3> QED BY <1>4, <2>2, <3>3
  <2>5. Path(k, n3) \subseteq S
      BY <2>1, <2>3, <2>4
  <2>6. n0 \notin S /\ n1 \notin S
      BY <1>4, <2>2
  <2>7. n2 \notin Path(k, n3)
    <3> SUFFICES ASSUME n2 \in Path(k, n3) PROVE FALSE
        OBVIOUS
    <3>1. PICK m \in Path(k, n3) : Child(m, Toward(m, k)) = n2
        BY <1>4, <2>1
    <3>2. m \in Live /\ Toward(m, k) \in Sides
        BY <2>2, <2>5 DEF Toward, Sides
    <3>3. m = n1
        BY <1>1, <1>4, <1>5, <3>1, <3>2 DEF Forest
    <3> QED BY <2>5, <2>6, <3>3
  <2> QED BY <2>1, <2>2, <2>5, <2>6, <2>7
<1>r. PICK R0 : R0 = [m \in Record |-> R[m] \cup {k \in R[n2] : m \in Path(k, n3)}]
    OBVIOUS
<1>k. PICK K0 : K0 = [m \in Record |-> K[m] \cup R0[m]]
    OBVIOUS
<1>11. /\ R0 \in [Record -> SUBSET Int] /\ K0 \in [Record -> SUBSET Int]
       /\ \A m \in Record : R[m] \subseteq R0[m] /\ R0[m] \subseteq K0[m] /\ K[m] \subseteq K0[m]
    BY <1>7, <1>9, <1>r, <1>k
<1>12. /\ \A m \in Record \ Live : R0[m] = R[m]
       /\ R0[n0] = R[n0] /\ R0[n1] = R[n1] /\ R0[n2] = R[n2] /\ R0[n3] = R[n1]
  <2>1. \A k \in R[n2] : k \in Int
      BY <1>9
  <2>2. \A m \in Record : m \notin Live \/ m \in {n0, n1, n2} => R0[m] = R[m]
      BY <1>10, <1>r, <2>1
  <2>3. R0[n3] = R[n3] \cup R[n2]
      BY <1>4, <1>10, <1>r, <2>1
  <2> QED BY <1>4, <1>9, <2>2, <2>3
\* Below records other than n1 and n0 the searches are told apart as before.
<1>13. ASSUME NEW n \in Live \ {n1}, NEW s \in Sides, NEW c, c = Child(n, s), c # Null,
              ~(n = n0 /\ s = up)
       PROVE  R0[c] = Route(Key(n), s, R0[n])
  <2>1. n \in Record /\ c \in Record
      BY <1>13 DEF Forest, Live
  <2>2. R[c] = Route(Key(n), s, R[n])
      BY <1>13 DEF Order
  <2>3. c # n3
      BY <1>1, <1>2, <1>4, <1>5, <1>13 DEF Forest
  <2>4. ASSUME NEW k \in R[n2]
        PROVE  c \in Path(k, n3) <=> n \in Path(k, n3) /\ TowardKey(Key(n), k) = s
    <3>1. k \in Int /\ TowardKey(Key(n), k) = Toward(n, k)
        BY <1>9 DEF TowardKey, Toward
    <3>2. n \in Path(k, n3) /\ Toward(n, k) = s => c \in Path(k, n3)
        BY <1>10, <1>13, <3>1 DEF Closed
    <3>3. ASSUME c \in Path(k, n3) PROVE n \in Path(k, n3) /\ Toward(n, k) = s
      <4>1. PICK m \in Path(k, n3) : Child(m, Toward(m, k)) = c
          BY <1>10, <2>3, <3>1, <3>3
      <4>2. m \in Live /\ Toward(m, k) \in Sides
          BY <1>10, <3>1 DEF Toward, Sides
      <4>3. m = n /\ Toward(m, k) = s
          BY <1>13, <4>1, <4>2 DEF Forest
      <4> QED BY <4>3
    <3> QED BY <3>1, <3>2, <3>3
  <2>5. R0[c] = R[c] \cup {k \in R[n2] : c \in Path(k, n3)}
      BY <2>1, <1>r
  <2>6. R0[n] = R[n] \cup {k \in R[n2] : n \in Path(k, n3)}
      BY <2>1, <1>r
  <2> QED BY <2>2, <2>4, <2>5, <2>6 DEF Route
<1>14. ASSUME NEW n \in Live \ {n1}, NEW s \in Sides, NEW c, c = Child(n, s), c # Null,
              ~(n = n0 /\ s = up)
       PROVE  K0[c] \subseteq Part(Key(n), s, K0[n])
  <2>1. n \in Record /\ c \in Record
      BY <1>14 DEF Forest, Live
  <2>2. K[c] \subseteq Part(Key(n), s, K[n])
      BY <1>14 DEF Order
  <2>3. R0[c] = Route(Key(n), s, R0[n])
      BY <1>13, <1>14
  <2>4. Route(Key(n), s, R0[n]) \subseteq Part(Key(n), s, K0[n])
      BY <1>7, <1>11, <2>1, RouteInPart
  <2>5. K0[c] = K[c] \cup R0[c] /\ K0[n] = K[n] \cup R0[n]
      BY <1>k, <2>1
  <2>6. Part(Key(n), s, K[n]) \subseteq Part(Key(n), s, K0[n])
      BY <2>5 DEF Part
  <2> QED BY <2>2, <2>3, <2>4, <2>5, <2>6
<1>15. ASSUME NEW n \in Record, NEW s \in Sides, NEW c, c = Child(n, s), c # Null,
              ~(n = n0 /\ s = up), ~IsLeaf(c)
       PROVE  Route(Key(n), s, R0[n]) \subseteq R0[c]
  <2>1. CASE n \in Live \ {n1}
      BY <1>13, <1>15, <2>1
  <2>2. CASE n \notin Live \ {n1}
    <3>1. R0[n] = R[n]
        BY <1>12, <1>15, <2>2
    <3>2. c \in Record
        BY <1>15 DEF Forest
    <3>3. Route(Key(n), s, R[n]) \subseteq R[c]
        BY <1>15 DEF Order
    <3> QED BY <1>11, <3>1, <3>2, <3>3
  <2> QED BY <2>1, <2>2
<1>16. PICK x, y : x = R[n1] /\ y = K[n1]
    OBVIOUS
<1>17. PICK fr, fk : fr = <<x>> /\ fk = <<y>>
    OBVIOUS
<1>18. /\ fr \in [1 .. Len(fresh) -> SUBSET Int] /\ fk \in [1 .. Len(fresh) -> SUBSET Int]
       /\ fr[1] = R[n1] /\ fk[1] = K[n1]
  <2>1. x \in SUBSET Int /\ y \in SUBSET Int
      BY <1>4, <1>7, <1>16
  <2>2. /\ <<x>> \in [1 .. 1 -> SUBSET Int] /\ <<x>>[1] = x
        /\ <<y>> \in [1 .. 1 -> SUBSET Int] /\ <<y>>[1] = y
      BY <2>1, Tuples
  <2>3. Len(fresh) = 1
      BY <1>6
  <2> QED BY <1>16, <1>17, <2>2, <2>3
<1>19. Sorts(R0, K0, fr, fk, n0, up, drop, fresh)
  <2>1. Keys \subseteq R0[Root]
      BY <1>11 DEF Order, Forest
  <2>2. \A n \in Live \ drop : Key(n) \in K0[n] /\ R0[n] \subseteq K0[n]
      BY <1>11 DEF Order, Live
  <2>3. \A n \in Live \ drop, s \in Sides :
          Child(n, s) # Null /\ ~(n = n0 /\ s = up) =>
             /\ R0[Child(n, s)] = Route(Key(n), s, R0[n])
             /\ K0[Child(n, s)] \subseteq Part(Key(n), s, K0[n])
      BY <1>13, <1>14, <1>d
  <2>4. \A n \in Record, s \in Sides :
          Child(n, s) # Null /\ ~(n = n0 /\ s = up) /\ ~IsLeaf(Child(n, s)) =>
             Route(Key(n), s, R0[n]) \subseteq R0[Child(n, s)]
      BY <1>15
  <2>5. fr[1] = Route(Key(n0), up, R0[n0])
      BY <1>8, <1>12, <1>18
  <2>6. fk[1] \subseteq Part(Key(n0), up, K0[n0])
      BY <1>4, <1>8, <1>11, <1>18 DEF Part
  <2>7. \A i \in 1 .. Len(fresh) : fresh[i].key \in fk[i] /\ fr[i] \subseteq fk[i]
      BY <1>6, <1>8, <1>9, <1>18
  <2>8. ASSUME NEW i \in 1 .. Len(fresh), NEW j \in 1 .. Len(fresh), NEW s \in Sides,
               fresh[i][s] = New(j)
        PROVE  /\ fr[j] = Route(fresh[i].key, s, fr[i])
               /\ fk[j] \subseteq Part(fresh[i].key, s, fk[i])
    <3>1. New(j) \notin Record /\ New(j) # Null
      <4>1. j \in 1 .. 4
          BY <1>6
      <4> QED BY <4>1, FreshNames
    <3>2. Child(n3, s) \in {Null} \cup Record
        BY <1>4 DEF Forest
    <3> QED BY <1>6, <2>8, <3>1, <3>2
  <2>9. ASSUME NEW i \in 1 .. Len(fresh), NEW s \in Sides, fresh[i][s] \in Record
        PROVE  /\ R0[fresh[i][s]] = Route(fresh[i].key, s, fr[i])
               /\ K0[fresh[i][s]] \subseteq Part(fresh[i].key, s, fk[i])
    <3>1. PICK c : c = Child(n3, s)
        OBVIOUS
    <3>2. c \in Record /\ c # Null /\ fresh[i][s] = c /\ i = 1 /\ fresh[i].key = Key(n3)
        BY <1>6, <2>9, <3>1, FreshNames
    <3>3. R0[c] = Route(Key(n3), s, R0[n3]) /\ K0[c] \subseteq Part(Key(n3), s, K0[n3])
        BY <1>4, <1>5, <1>13, <1>14, <3>1, <3>2
    <3>4. K0[n3] \subseteq K[n1]
        BY <1>4, <1>8, <1>9, <1>12, <1>k
    <3> QED BY <1>12, <1>18, <3>2, <3>3, <3>4 DEF Part
  <2> QED BY <1>11, <1>18, <2>1, <2>2, <2>3, <2>4, <2>5, <2>6, <2>7, <2>8, <2>9 DEF Sorts
<1> QED BY <1>11, <1>19, <1>s DEF Rerouted

-----------------------------------------------------------------------------
(***************************************************************************)
(* What every update does                                                  *)
(***************************************************************************)
\* Records stay what they are, but for the child of parent that is replaced
\* by a fresh one.
Evolves(parent) ==
    /\ Record \subseteq Record'
    /\ \A n \in Record : Key(n)' = Key(n)
    /\ \A n \in Record, s \in Sides :
          \/ Child(n, s)' = Child(n, s)
          \/ n = parent /\ Child(n, s) # Null /\ Child(n, s)' \notin {Null} \cup Record

\* A swing that grafts.
LEMMA GraftUpdates ==
    ASSUME Forest, NEW rank, NEW top, Ranked(rank, top),
           NEW parent, NEW old, NEW keep, NEW drop, NEW fresh,
           Grafts(rank, parent, old, drop, fresh), Swing(parent, old, keep, drop, fresh)
    PROVE  /\ Forest' /\ Evolves(parent)
           /\ \E r, t : /\ Ranked(r, t)'
                        /\ \A n, m \in Record : rank[n] < rank[m] => r[n] < r[m]
           /\ Live \ drop \subseteq Live'
<1>1. Forest'
    BY GraftForest
<1>2. PICK L : L = Len(heap)
    OBVIOUS
<1>3. Grafted(L, parent, old, drop, fresh)
    BY <1>2, GraftedChildren
<1>4. Evolves(parent)
  <2>1. old # Null
      BY FreshNames DEF Grafts
  <2>2. 1 \in 1 .. Len(fresh)
    <3>1. Len(fresh) \in 1 .. 4
        BY DEF Grafts
    <3> QED BY <3>1
  <2>3. L + 1 \notin {Null} \cup Record
    <3>1. New(1) # Null
      <4>1. 1 \in 1 .. 4
          OBVIOUS
      <4> QED BY <4>1, FreshNames
    <3> QED BY <1>2, <1>3, <2>2, <3>1 DEF Grafted, New
  <2> QED BY <1>3, <2>1, <2>3 DEF Evolves, Grafted
<1>5. PICK r : Ranked(r, 5 * top)' /\ \A n \in Record : r[n] = 5 * rank[n]
    BY GraftRanked
<1>6. \A n, m \in Record : rank[n] < rank[m] => r[n] < r[m]
  <2> TAKE n, m \in Record
  <2>1. rank[n] \in Int /\ rank[m] \in Int /\ r[n] = 5 * rank[n] /\ r[m] = 5 * rank[m]
      BY <1>5 DEF Ranked
  <2> QED BY <2>1
<1>7. Live \ drop \subseteq Live'
    BY <1>3 DEF Grafted
<1> QED BY <1>1, <1>4, <1>5, <1>6, <1>7

-----------------------------------------------------------------------------
(***************************************************************************)
(* The keys that a search finds                                            *)
(***************************************************************************)
\* No record has one child only.
Whole == \A n \in Record : WholeCell(heap[n])

\* The keys that are found at a live leaf.
Holds(R) == { k \in Keys : \E n \in Live : IsLeaf(n) /\ Key(n) = k /\ k \in R[n] }

\* Leaves are leaves, and stay what they are when a record has a child
\* replaced.
LEMMA LeafIs ==
    ASSUME NEW n
    PROVE  IsLeaf(n) <=> \E s \in Sides : Child(n, s) = Null
BY DEF IsLeaf, Sides

\* A record whose children are only replaced remains a leaf, or none.
LEMMA EvolvesLeaves ==
    ASSUME NEW parent, Evolves(parent), NEW n \in Record
    PROVE  (IsLeaf(n)' <=> IsLeaf(n)) /\ Key(n)' = Key(n)
<1>1. \A s \in Sides : Child(n, s)' = Null <=> Child(n, s) = Null
    BY DEF Evolves
<1>2. IsLeaf(n)' <=> \E s \in Sides : Child(n, s)' = Null
    BY DEF IsLeaf, Sides
<1> QED BY <1>1, <1>2, LeafIs DEF Evolves

\* The fresh records and the others after a graft, as leaves: L is the length
\* of the heap before it.
Leafed(L, drop, fresh) ==
    /\ Live' = (Live \ drop) \cup { L + i : i \in 1 .. Len(fresh) }
    /\ \A i \in 1 .. Len(fresh) :
          /\ L + i \in Record'
          /\ IsLeaf(L + i)' <=> LeafCell(fresh[i])
          /\ Key(L + i)' = fresh[i].key
          /\ Whole' => WholeCell(fresh[i])
    /\ \A n \in Record : (IsLeaf(n)' <=> IsLeaf(n)) /\ Key(n)' = Key(n)

\* A swing that grafts does that.
LEMMA GraftLeaves ==
    ASSUME Forest, NEW rank, NEW top, Ranked(rank, top),
           NEW parent, NEW old, NEW keep, NEW drop, NEW fresh,
           Grafts(rank, parent, old, drop, fresh), Swing(parent, old, keep, drop, fresh),
           NEW L, L = Len(heap)
    PROVE  Leafed(L, drop, fresh)
<1>1. Evolves(parent)
    BY GraftUpdates
<1>3. /\ Record' = Record \cup {L + i : i \in 1 .. Len(fresh)}
      /\ Live' = (Live \ drop) \cup {L + i : i \in 1 .. Len(fresh)}
      /\ \A i \in 1 .. Len(fresh), s \in Sides : Child(L + i, s)' = fresh[i][s]
      /\ \A i \in 1 .. Len(fresh) : Key(L + i)' = fresh[i].key
  <2>1. Grafted(L, parent, old, drop, fresh)
      BY GraftedChildren
  <2> QED BY <2>1 DEF Grafted
<1>4. ASSUME NEW i \in 1 .. Len(fresh)
      PROVE  /\ L + i \in Record'
             /\ IsLeaf(L + i)' <=> LeafCell(fresh[i])
             /\ Whole' => WholeCell(fresh[i])
  <2>1. PICK n : n = L + i
      OBVIOUS
  <2>2. n \in Record' /\ \A s \in Sides : Child(n, s)' = fresh[i][s]
      BY <1>3, <2>1
  <2>3. IsLeaf(n)' <=> LeafCell(fresh[i])
      BY <2>2 DEF IsLeaf, Sides, LeafCell
  <2>4. Whole' => WholeCell(fresh[i])
      BY <2>2 DEF Whole, WholeCell, Child
  <2> QED BY <2>1, <2>2, <2>3, <2>4
<1>6. \A n \in Record : (IsLeaf(n)' <=> IsLeaf(n)) /\ Key(n)' = Key(n)
    BY <1>1, EvolvesLeaves
<1> QED BY <1>3, <1>4, <1>6 DEF Leafed

\* An update by which the shape stays what it should be, and every thread
\* keeps only reservations on live records other than parent.
Updates(rank, parent) ==
    /\ Forest' /\ Evolves(parent)
    /\ \E r, t : /\ Ranked(r, t)'
                 /\ \A n, m \in Record : rank[n] < rank[m] => r[n] < r[m]
    /\ \A q \in Threads :
          linked[q] \subseteq Live => linked'[q] \subseteq (linked[q] \cap Live') \ {parent}

\* Searches are sent the same ways as before, those that stood at a record
\* with children included.
StaysSorted ==
    \A R, K : Order(R, K) =>
       \E R2, K2 : /\ Order(R2, K2)'
                   /\ \A n \in Record : ~IsLeaf(n) => R[n] \subseteq R2[n]

\* A graft is an update: the forest stays one, with ranks in the same order.
LEMMA SwingUpdates ==
    ASSUME Forest, NEW rank, NEW top, Ranked(rank, top),
           NEW parent, NEW old, NEW keep, NEW drop, NEW fresh,
           Grafts(rank, parent, old, drop, fresh), Swing(parent, old, keep, drop, fresh)
    PROVE  Updates(rank, parent)
<1>1. /\ Forest' /\ Evolves(parent)
      /\ \E r, t : /\ Ranked(r, t)'
                   /\ \A n, m \in Record : rank[n] < rank[m] => r[n] < r[m]
      /\ Live \ drop \subseteq Live'
    BY GraftUpdates
<1>2. ASSUME NEW q \in Threads, linked[q] \subseteq Live
      PROVE  linked'[q] \subseteq (linked[q] \cap Live') \ {parent}
  <2>1. linked'[q] = linked[q] \ ({parent} \cup keep \cup drop)
      BY DEF Swing
  <2> QED BY <1>1, <1>2, <2>1
<1> QED BY <1>1, <1>2 DEF Updates

\* A rebalancing step.
LEMMA RebalanceUpdates ==
    ASSUME Forest, NEW rank, NEW top, Ranked(rank, top),
           NEW parent \in Live, NEW node \in Record, NEW q \in Sides, Child(parent, q) = node,
           NEW case, tryRebalance(case, parent, node)
    PROVE  Updates(rank, parent) /\ StaysSorted /\ (Spanning => Spanning')
<1>1. Keeps(rank, parent, node)
    BY RebalanceKeeps
<1>2. PICK keep, drop, fresh :
         /\ Swing(parent, node, keep, drop, fresh)
         /\ Grafts(rank, parent, node, drop, fresh)
         /\ Takes(node, drop, fresh)
         /\ \A R, K : Order(R, K) =>
               \E fr, fk : Sorts(R, K, fr, fk, parent, SideOf(parent, node), drop, fresh)
    BY <1>1 DEF Keeps
<1>3. Updates(rank, parent)
    BY <1>2, SwingUpdates
<1>4. Spanning => Spanning'
    BY <1>2, GraftSpanning
<1>5. ASSUME NEW R, NEW K, Order(R, K)
      PROVE  \E R2, K2 : /\ Order(R2, K2)'
                         /\ \A n \in Record : ~IsLeaf(n) => R[n] \subseteq R2[n]
  <2>1. PICK fr, fk : Sorts(R, K, fr, fk, parent, SideOf(parent, node), drop, fresh)
      BY <1>2, <1>5
  <2>2. \E R2, K2 : Order(R2, K2)' /\ \A n \in Record : R2[n] = R[n]
      BY <1>2, <2>1, GraftOrder
  <2> QED BY <2>2
<1> QED BY <1>3, <1>4, <1>5 DEF StaysSorted

\* An insertion below a leaf.
LEMMA InsertUpdates ==
    ASSUME Forest, NEW rank, NEW top, Ranked(rank, top),
           NEW parent \in Live, NEW leaf \in Live, NEW q \in Sides, Child(parent, q) = leaf,
           NEW key \in Keys, Insert(key, parent, leaf)
    PROVE  /\ Updates(rank, parent) /\ (Spanning => Spanning')
           /\ \A R, K : (/\ \A s \in Sides : Child(leaf, s) = Null
                         /\ Order(R, K) /\ key \in R[leaf]) =>
                 \E R2, K2 : /\ Order(R2, K2)'
                             /\ \A n \in Record : ~IsLeaf(n) => R[n] \subseteq R2[n]
<1> PICK side : side = IF key < Key(leaf) THEN "right" ELSE "left"
    OBVIOUS
<1>s. side \in Sides
    BY DEF Sides
<1> PICK fresh : fresh = Inserted(key, leaf, side)
    OBVIOUS
<1>1. Swing(parent, leaf, {leaf}, {}, fresh)
    BY InsertIs
<1>2. Grafts(rank, parent, leaf, {}, fresh) /\ Takes(leaf, {}, fresh)
    BY <1>s, InsertGrafts
<1>3. Updates(rank, parent)
    BY <1>1, <1>2, SwingUpdates
<1>4. Spanning => Spanning'
    BY <1>1, <1>2, GraftSpanning
<1>5. ASSUME \A s \in Sides : Child(leaf, s) = Null,
             NEW R, NEW K, Order(R, K), key \in R[leaf]
      PROVE  \E R2, K2 : /\ Order(R2, K2)'
                         /\ \A n \in Record : ~IsLeaf(n) => R[n] \subseteq R2[n]
  <2>1. PICK R0, K0, fr, fk :
           /\ Sorts(R0, K0, fr, fk, parent, SideOf(parent, leaf), {}, fresh)
           /\ \A n \in Record \ {leaf} : R0[n] = R[n]
      BY <1>5, InsertSorts
  <2>2. \E R2, K2 : Order(R2, K2)' /\ \A n \in Record : R2[n] = R0[n]
      BY <1>1, <1>2, <2>1, GraftOrder
  <2>3. IsLeaf(leaf)
      BY <1>5 DEF IsLeaf, Sides
  <2> QED BY <2>1, <2>2, <2>3
<1> QED BY <1>3, <1>4, <1>5

\* A deletion of a record with its parent.
LEMMA DeleteUpdates ==
    ASSUME Forest, NEW rank, NEW top, Ranked(rank, top),
           NEW n0, NEW n1, NEW n2, NEW n3, Deletes(n0, n1, n2, n3), Delete(n0, n1, n2, n3)
    PROVE  /\ Updates(rank, n0) /\ StaysSorted
           /\ Spanning /\ (\A s \in Sides : Child(n2, s) = Null) => Spanning'
<1> PICK fresh : fresh = Deleted(n0, n1, n3)
    OBVIOUS
<1>d. PICK drop : drop = {n1, n2, n3}
    OBVIOUS
<1>1. Swing(n0, n1, {}, drop, fresh)
    BY <1>d, DeleteIs
<1>2. Grafts(rank, n0, n1, drop, fresh)
    BY <1>d, DeleteGrafts
<1>3. Updates(rank, n0)
    BY <1>1, <1>2, SwingUpdates
<1>4. ASSUME NEW R, NEW K, Order(R, K)
      PROVE  \E R2, K2 : /\ Order(R2, K2)'
                         /\ \A n \in Record : ~IsLeaf(n) => R[n] \subseteq R2[n]
  <2>0. Rerouted(R, K, n0, n1, drop, fresh)
      BY <1>4, <1>d, DeleteSorts
  <2>1. PICK R0, K0, fr, fk :
           /\ Sorts(R0, K0, fr, fk, n0, SideOf(n0, n1), drop, fresh)
           /\ \A n \in Record : R[n] \subseteq R0[n]
      BY <2>0 DEF Rerouted
  <2>2. \E R2, K2 : Order(R2, K2)' /\ \A n \in Record : R2[n] = R0[n]
      BY <1>1, <1>2, <2>1, GraftOrder
  <2> QED BY <2>1, <2>2
<1>5. ASSUME Spanning, \A s \in Sides : Child(n2, s) = Null
      PROVE  Spanning'
  <2>1. Takes(n1, drop, fresh)
      BY <1>d, <1>5, DeleteTakes
  <2> QED BY <1>1, <1>2, <1>5, <2>1, GraftSpanning
<1> QED BY <1>3, <1>4, <1>5 DEF StaysSorted

-----------------------------------------------------------------------------
(***************************************************************************)
(* What is below a record                                                  *)
(***************************************************************************)
\* A set of natural numbers has a least element.
LEMMA LeastRank ==
    ASSUME NEW S, NEW rank \in [S -> Nat], NEW T \in SUBSET S, T # {}
    PROVE  \E n \in T : \A m \in T : rank[n] <= rank[m]
<1>1. PICK I : I = {rank[n] : n \in T}
    OBVIOUS
<1>2. I \subseteq Nat /\ I # {}
    BY <1>1
<1>3. PICK i \in I : \A j \in I : ~(<<j, i>> \in OpToRel(<, Nat))
  <2>1. \E i \in I : \A j \in I : ~(<<j, i>> \in OpToRel(<, Nat))
      BY <1>2, WFMin, NatLessThanWellFounded
  <2> QED BY <2>1
<1>4. \A j \in I : ~(j < i)
    BY <1>2, <1>3 DEF OpToRel
<1>5. PICK n \in T : i = rank[n]
    BY <1>1
<1>6. ASSUME NEW m \in T PROVE rank[n] <= rank[m]
  <2>1. rank[m] \in I
      BY <1>1
  <2>2. rank[n] \in Nat /\ rank[m] \in Nat
      OBVIOUS
  <2> QED BY <2>1, <2>2, <1>4, <1>5
<1> QED BY <1>6

\* The records that can be reached from the records of a set are in it.
Downward(S) == \A m \in S, s \in Sides : Child(m, s) # Null => Child(m, s) \in S
Descendants(n) == { m \in Record : \A S \in SUBSET Record : n \in S /\ Downward(S) => m \in S }

\* The descendants of a record are the least set closed under children.
LEMMA DescendantsAre ==
    ASSUME Forest, NEW n \in Record
    PROVE  /\ n \in Descendants(n) /\ Descendants(n) \subseteq Record
           /\ Downward(Descendants(n))
           /\ \A S \in SUBSET Record : n \in S /\ Downward(S) => Descendants(n) \subseteq S
<1> PICK D : D = Descendants(n)
    OBVIOUS
<1>1. /\ n \in D /\ D \subseteq Record
      /\ \A S \in SUBSET Record : n \in S /\ Downward(S) => D \subseteq S
    BY DEF Descendants
<1>2. Downward(D)
  <2> SUFFICES ASSUME NEW m \in D, NEW s \in Sides, NEW c, c = Child(m, s), c # Null PROVE c \in D
      BY DEF Downward
  <2>1. c \in Record
      BY <1>1 DEF Forest
  <2>2. ASSUME NEW S \in SUBSET Record, n \in S, Downward(S) PROVE c \in S
      BY <1>1, <2>2 DEF Downward
  <2> QED BY <2>1, <2>2 DEF Descendants
<1> QED BY <1>1, <1>2

\* The equation of the function that Under is defined by.
Unfolds(U) ==
    U = [m \in {Null} \cup Record |->
           IF m = Null THEN {} ELSE {m} \cup U[Child(m, "left")] \cup U[Child(m, "right")]]

\* It has a solution, and Under is one.
LEMMA UnderUnfolds ==
    ASSUME Forest
    PROVE  \E U : Unfolds(U) /\ \A n : Under(n) = U[n]
<1>1. PICK F : F = [m \in {Null} \cup Record |-> IF m = Null THEN {} ELSE Descendants(m)]
    OBVIOUS
<1>2. ASSUME NEW m \in {Null} \cup Record
      PROVE  F[m] = IF m = Null THEN {} ELSE {m} \cup F[Child(m, "left")] \cup F[Child(m, "right")]
  <2>1. CASE m = Null
      BY <1>1, <2>1
  <2>2. CASE m # Null
    <3> PICK l, r : l = Child(m, "left") /\ r = Child(m, "right")
        OBVIOUS
    <3>1. m \in Record /\ l \in {Null} \cup Record /\ r \in {Null} \cup Record
        BY <2>2 DEF Forest, Sides
    <3>2. F[m] = Descendants(m)
        BY <1>1, <2>2, <3>1
    <3>3. /\ l # Null => F[l] = Descendants(l)
          /\ l = Null => F[l] = {}
          /\ r # Null => F[r] = Descendants(r)
          /\ r = Null => F[r] = {}
        BY <1>1, <3>1
    <3>4. {m} \cup F[l] \cup F[r] \subseteq Descendants(m)
      <4>1. m \in Descendants(m)
          BY <3>1, DescendantsAre
      <4>2. /\ l # Null => l \in Descendants(m)
            /\ r # Null => r \in Descendants(m)
          BY <3>1, DescendantsAre DEF Downward, Sides
      <4>3. Descendants(m) \in SUBSET Record /\ Downward(Descendants(m))
          BY <3>1, DescendantsAre
      <4>4. /\ l # Null => Descendants(l) \subseteq Descendants(m)
            /\ r # Null => Descendants(r) \subseteq Descendants(m)
          BY <3>1, <4>2, <4>3, DescendantsAre
      <4> QED BY <3>3, <4>1, <4>4
    <3>5. Descendants(m) \subseteq {m} \cup F[l] \cup F[r]
      <4>0. PICK S : S = {m} \cup F[l] \cup F[r]
          OBVIOUS
      <4>1. S \in SUBSET Record
          BY <3>1, <3>3, <4>0, DescendantsAre
      <4>2. Downward(S)
        <5> SUFFICES ASSUME NEW k \in S, NEW s \in Sides, Child(k, s) # Null PROVE Child(k, s) \in S
            BY DEF Downward
        <5>1. CASE k = m
          <6>1. Child(k, s) = l \/ Child(k, s) = r
              BY <5>1 DEF Sides
          <6> QED BY <3>1, <3>3, <4>0, <6>1, DescendantsAre
        <5>2. CASE k \in F[l]
          <6>1. l # Null
              BY <3>3, <5>2
          <6>2. Downward(F[l])
              BY <3>1, <3>3, <6>1, DescendantsAre
          <6> QED BY <4>0, <5>2, <6>2 DEF Downward
        <5>3. CASE k \in F[r]
          <6>1. r # Null
              BY <3>3, <5>3
          <6>2. Downward(F[r])
              BY <3>1, <3>3, <6>1, DescendantsAre
          <6> QED BY <4>0, <5>3, <6>2 DEF Downward
        <5> QED BY <4>0, <5>1, <5>2, <5>3
      <4>3. m \in S
          BY <4>0
      <4> QED BY <3>1, <4>0, <4>1, <4>2, <4>3, DescendantsAre
    <3> QED BY <2>2, <3>2, <3>4, <3>5
  <2> QED BY <2>1, <2>2
<1>3. Unfolds(F)
  <2>1. F = [m \in {Null} \cup Record |-> F[m]]
      BY <1>1
  <2>2. PICK G : G = [m \in {Null} \cup Record |->
           IF m = Null THEN {} ELSE {m} \cup F[Child(m, "left")] \cup F[Child(m, "right")]]
      OBVIOUS
  <2>3. F = G
      BY <1>2, <2>1, <2>2
  <2> QED BY <2>2, <2>3 DEF Unfolds
<1> DEFINE Solution == CHOOSE U : U = [m \in {Null} \cup Record |->
           IF m = Null THEN {} ELSE {m} \cup U[Child(m, "left")] \cup U[Child(m, "right")]]
<1>4. \E U : U = [m \in {Null} \cup Record |->
           IF m = Null THEN {} ELSE {m} \cup U[Child(m, "left")] \cup U[Child(m, "right")]]
    BY <1>3, Zenon DEF Unfolds
<1>5. Solution = [m \in {Null} \cup Record |->
           IF m = Null THEN {}
           ELSE {m} \cup Solution[Child(m, "left")] \cup Solution[Child(m, "right")]]
    BY <1>4, Zenon
<1>6. \A n : Under(n) = Solution[n]
    BY Zenon DEF Under
<1> QED BY <1>5, <1>6, Zenon DEF Unfolds

\* A record, its descendants and nothing else is under it: there are no cycles.
LEMMA UnderIs ==
    ASSUME Forest, NEW rank, NEW top, Ranked(rank, top), NEW n \in Record
    PROVE  /\ n \in Under(n) /\ Under(n) \subseteq Record
           /\ Downward(Under(n))
           /\ \A S \in SUBSET Record : n \in S /\ Downward(S) => Under(n) \subseteq S
<1>1. PICK U : Unfolds(U) /\ \A m : Under(m) = U[m]
    BY UnderUnfolds
<1>2. /\ U[Null] = {}
      /\ \A m \in Record : U[m] = {m} \cup U[Child(m, "left")] \cup U[Child(m, "right")]
  <2>1. Null \notin Record
      BY FreshNames
  <2> QED BY <1>1, <2>1 DEF Unfolds
<1>3. \A m \in Record, s \in Sides : Child(m, s) # Null =>
         /\ Child(m, s) \in Record /\ rank[Child(m, s)] < rank[m]
         /\ rank[Child(m, s)] \in Nat /\ rank[m] \in Nat
    BY DEF Forest, Ranked
<1>4. rank \in [Record -> Nat]
    BY DEF Ranked
\* Whatever the sets of the children are contained in, so are those of all.
<1>5. ASSUME NEW S \in SUBSET Record, Downward(S)
      PROVE  \A m \in S : U[m] \subseteq S
  <2>1. PICK T : T = { m \in S : ~(U[m] \subseteq S) }
      OBVIOUS
  <2>2. CASE T = {}
      BY <2>1, <2>2
  <2>3. CASE T # {}
    <3>1. PICK m \in T : \A k \in T : rank[m] <= rank[k]
        BY <1>4, <2>1, <2>3, LeastRank
    <3>2. \A s \in Sides : U[Child(m, s)] \subseteq S
      <4> TAKE s \in Sides
      <4>1. CASE Child(m, s) = Null
          BY <1>2, <4>1
      <4>2. CASE Child(m, s) # Null
        <5>1. Child(m, s) \in S /\ ~(rank[m] <= rank[Child(m, s)])
            BY <1>3, <1>5, <2>1, <4>2 DEF Downward
        <5> QED BY <2>1, <3>1, <5>1
      <4> QED BY <4>1, <4>2
    <3>3. U[m] \subseteq S
        BY <1>2, <2>1, <3>2 DEF Sides
    <3> QED BY <2>1, <3>3
  <2> QED BY <2>2, <2>3
<1>6. Downward(Record)
    BY <1>3 DEF Downward
<1>7. \A m \in Record : U[m] \subseteq Record
    BY <1>5, <1>6
<1>8. \A m \in Record : Downward(U[m])
  <2>1. PICK T : T = { m \in Record : ~Downward(U[m]) }
      OBVIOUS
  <2>2. CASE T = {}
      BY <2>1, <2>2
  <2>3. CASE T # {}
    <3>1. PICK m \in T : \A k \in T : rank[m] <= rank[k]
        BY <1>4, <2>1, <2>3, LeastRank
    <3>2. \A s \in Sides : Downward(U[Child(m, s)]) /\ U[Child(m, s)] \subseteq U[m]
      <4> TAKE s \in Sides
      <4>0. U[Child(m, s)] \subseteq U[m]
          BY <1>2, <2>1 DEF Sides
      <4>1. CASE Child(m, s) = Null
          BY <1>2, <4>0, <4>1 DEF Downward
      <4>2. CASE Child(m, s) # Null
        <5>1. Child(m, s) \in Record /\ ~(rank[m] <= rank[Child(m, s)])
            BY <1>3, <2>1, <4>2
        <5> QED BY <2>1, <3>1, <4>0, <5>1
      <4> QED BY <4>1, <4>2
    <3>3. \A s \in Sides : Child(m, s) # Null => Child(m, s) \in U[m]
      <4> TAKE s \in Sides
      <4>1. Child(m, s) # Null => Child(m, s) \in U[Child(m, s)]
          BY <1>2, <1>3, <2>1
      <4> QED BY <3>2, <4>1
    <3>4. \A k \in U[m] : k = m \/ \E s \in Sides : k \in U[Child(m, s)]
        BY <1>2, <2>1 DEF Sides
    <3>5. Downward(U[m])
      <4> SUFFICES ASSUME NEW k \in U[m], NEW t \in Sides, Child(k, t) # Null
                   PROVE  Child(k, t) \in U[m]
          BY DEF Downward
      <4>1. CASE k = m
          BY <3>3, <4>1
      <4>2. ASSUME NEW s \in Sides, k \in U[Child(m, s)]
            PROVE  Child(k, t) \in U[m]
          BY <3>2, <4>2 DEF Downward
      <4> QED BY <3>4, <4>1, <4>2
    <3> QED BY <2>1, <3>5
  <2> QED BY <2>2, <2>3
<1> QED BY <1>1, <1>2, <1>5, <1>7, <1>8

\* No record that is reachable is finalized.
LEMMA ReachableLive ==
    ASSUME Forest, NEW rank, NEW top, Ranked(rank, top)
    PROVE  Reachable \subseteq Live
<1>1. Root \in Live /\ Live \in SUBSET Record /\ Root \in Record
    BY DEF Forest, Live
<1>2. Downward(Live)
    BY LiveChild DEF Downward
<1> QED BY <1>1, <1>2, UnderIs DEF Reachable

\* If every live record is, it has a live parent.
LEMMA ReachableSpanning ==
    ASSUME Forest, NEW rank, NEW top, Ranked(rank, top), Live \subseteq Reachable
    PROVE  Spanning
<1>1. Reachable \subseteq Live
    BY ReachableLive
<1>2. Root \in Record
    BY DEF Forest
<1>3. /\ Root \in Reachable /\ Reachable \subseteq Record /\ Downward(Reachable)
      /\ \A S \in SUBSET Record : Root \in S /\ Downward(S) => Reachable \subseteq S
    BY <1>2, UnderIs DEF Reachable
<1>4. ASSUME NEW n \in Live \ {Root}
      PROVE  \E m \in Live, s \in Sides : Child(m, s) = n
  <2> SUFFICES ASSUME \A m \in Reachable, s \in Sides : Child(m, s) # n PROVE FALSE
      BY <1>1
  <2>1. PICK S : S = Reachable \ {n}
      OBVIOUS
  <2>2. S \in SUBSET Record /\ Root \in S
      BY <1>3, <2>1
  <2>3. Downward(S)
      BY <1>3, <2>1 DEF Downward
  <2> QED BY <1>3, <2>1, <2>2, <2>3
<1> QED BY <1>4 DEF Spanning

\* Every other one is, if every live record has a live parent.
LEMMA SpanningReachable ==
    ASSUME Forest, NEW rank, NEW top, Ranked(rank, top), Spanning
    PROVE  Reachable = Live
<1>1. Reachable \subseteq Live
    BY ReachableLive
<1>2. PICK T : T = Live \ Reachable
    OBVIOUS
<1>3. CASE T # {}
  <2>1. PICK depth : depth = [n \in Record |-> top - rank[n]]
      OBVIOUS
  <2>2. depth \in [Record -> Nat] /\ T \in SUBSET Record
      BY <1>2, <2>1 DEF Ranked, Live
  <2>3. PICK n \in T : \A m \in T : depth[n] <= depth[m]
      BY <1>3, <2>2, LeastRank
  <2>4. Root \in Record
      BY DEF Forest
  <2>5. Root \in Reachable /\ Downward(Reachable)
      BY <2>4, UnderIs DEF Reachable
  <2>6. n # Root /\ n \in Live /\ n # Null
      BY <1>2, <2>5, FreshNames DEF Live
  <2>7. PICK m \in Live, s \in Sides : Child(m, s) = n
      BY <2>6 DEF Spanning
  <2>8. m \in T
      BY <1>2, <2>5, <2>6, <2>7 DEF Downward
  <2>9. rank[n] < rank[m] /\ n \in Record /\ m \in Record
      BY <2>6, <2>7, LiveChild DEF Live
  <2>10. rank[n] \in Int /\ rank[m] \in Int /\ top \in Int
      BY <2>9 DEF Ranked
  <2>11. ~(depth[n] <= depth[m])
      BY <2>1, <2>9, <2>10
  <2> QED BY <2>3, <2>8, <2>11
<1> QED BY <1>1, <1>2, <1>3
=============================================================================
