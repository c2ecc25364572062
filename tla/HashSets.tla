------------------------------ MODULE HashSets ------------------------------
(***************************************************************************)
(* The two hash tables that serve as sets.  HashList (rq/hashlist.h, the   *)
(* simplified variant, which is the one that is built) keeps the keys of a *)
(* range query: a list of nodes and a table over them that grows.          *)
(* hashset_new (recordmgr/hashtable.h) keeps the announcements that a      *)
(* reclaimer collects: a table of the size it is made with.  The finalizer *)
(* of MurmurHash3 is any function; a table looks at its low bits.          *)
(***************************************************************************)
EXTENDS Integers, Sequences, FiniteSets
LOCAL INSTANCE SequencesExt
LOCAL INSTANCE FiniteSetsExt

CONSTANTS
    MaxElement,   \* elements are numbers up to it
    MaxHash,      \* and so are hashes
    Capacity      \* a power of two: the first capacity of a HashList (256 in
                  \* the code), the least of a hashset_new (32)

ASSUME HashAssumption == MaxElement \in Nat /\ MaxHash \in Nat /\ Capacity \in {2 ^ k : k \in 1 .. 8}

VARIABLES
    hash,         \* hash[e], before the mask
    data,         \* the table of the HashList: elements, 0 where there is none
    capacity,
    hashTableIndex,
    list,         \* the elements from head to tail: a node is told by its element
    freeNodes,    \* how many nodes of earlier lists there are
    keys,         \* the table of the hashset_new, as data
    inserted,     \* what was inserted since the last clear, in the HashList
    collected     \* and in the hashset_new

hashlist == <<data, capacity, hashTableIndex, list, freeNodes, inserted>>
hashset  == <<keys, collected>>
tables   == <<hash, hashlist, hashset>>

Elements == 1 .. MaxElement
Size     == Len(list)

-----------------------------------------------------------------------------
(***************************************************************************)
(* HashList.                                                               *)
(***************************************************************************)
Empty(size) == [ix \in 0 .. size - 1 |-> 0]

\* Where the i-th probe looks: the steps are 1, 4, 9, ...  After 4 * size
\* steps it starts over.
Probe(e, i, size) == (hash[e] + (i * (i + 1) * (2 * i + 1)) \div 6) % size

\* The cell that has the element or could take it; -1 if the loop does not end.
findIx(table, e) ==
    LET size == Cardinality(DOMAIN table)
        hits == {i \in 0 .. 4 * size - 1 : table[Probe(e, i, size)] \in {0, e}}
    IN  IF hits = {} THEN -1 ELSE Probe(e, Min(hits), size)

Put(table, e) == [table EXCEPT ![findIx(table, e)] = e]

\* Mutant: the table grows only when it is full.
ExpandWhenFull(nodes, table) ==
    LET size == Cardinality(DOMAIN table) IN
    IF Len(nodes) < size THEN table ELSE FoldLeft(Put, Empty(2 * size), nodes)

\* What expanding puts back is less than half the new table, so that
\* insertNode does not expand it again.
tryExpand(nodes, table) ==
    LET size == Cardinality(DOMAIN table) IN
    IF Len(nodes) * 2 < size THEN table ELSE FoldLeft(Put, Empty(2 * size), nodes)

listContains(e) == data[findIx(data, e)] # 0

\* A table that has been expanded has given every node a new index.
listInsert(e) ==
    LET expanded == tryExpand(list, data)
        table    == Put(expanded, e)
        moved    == IF expanded = data THEN {e} ELSE ToSet(list) \cup {e}
    IN
    /\ ~listContains(e)
    /\ data' = table /\ capacity' = Cardinality(DOMAIN table)
    /\ hashTableIndex' = [x \in Elements |-> IF x \in moved THEN findIx(table, x)
                                                            ELSE hashTableIndex[x]]
    /\ freeNodes' = Max({freeNodes - 1, 0})
    /\ list' = <<e>> \o list
    /\ inserted' = inserted \cup {e}
    /\ UNCHANGED <<hash, hashset>>

\* A table that is almost empty is cleared cell by cell.
listClear ==
    /\ list # << >>
    /\ data' = IF Size * 4 < capacity
               THEN [ix \in DOMAIN data |->
                       IF ix \in {hashTableIndex[x] : x \in ToSet(list)} THEN 0 ELSE data[ix]]
               ELSE Empty(capacity)
    /\ hashTableIndex' = [x \in Elements |-> -1]
    /\ freeNodes' = freeNodes + Size
    /\ list' = << >>
    /\ inserted' = {}
    /\ UNCHANGED <<hash, capacity, hashset>>

-----------------------------------------------------------------------------
(***************************************************************************)
(* hashset_new.                                                            *)
(***************************************************************************)
\* The size of a table for that many elements: twice as much and a power of 2.
tableSize(elements) ==
    Min({Capacity * 2 ^ k : k \in {j \in 0 .. elements : Capacity * 2 ^ j >= elements * 2}})

getIndex(table, e) ==
    LET size == Cardinality(DOMAIN table)
        hits == {i \in 0 .. size - 1 : table[(hash[e] + i) % size] \in {0, e}}
    IN  IF hits = {} THEN -1 ELSE (hash[e] + Min(hits)) % size

setInsert(e) ==
    /\ keys' = [keys EXCEPT ![getIndex(keys, e)] = e]
    /\ collected' = collected \cup {e}
    /\ UNCHANGED <<hash, hashlist>>

setClear ==
    /\ collected # {}
    /\ keys' = Empty(Cardinality(DOMAIN keys))
    /\ collected' = {}
    /\ UNCHANGED <<hash, hashlist>>

-----------------------------------------------------------------------------
\* Elements have no order, so that one assignment of hashes stands for those
\* with the elements exchanged.
TablesInit ==
    /\ hash \in [Elements -> 0 .. MaxHash]
    /\ \A e \in Elements \ {MaxElement} : hash[e] <= hash[e + 1]
    /\ capacity = Capacity /\ data = Empty(Capacity)
    /\ hashTableIndex = [x \in Elements |-> -1]
    /\ list = << >> /\ freeNodes = 0 /\ inserted = {}
    /\ keys = Empty(tableSize(MaxElement)) /\ collected = {}

HashListNext == (\E e \in Elements : listInsert(e)) \/ listClear
HashSetNext  == (\E e \in Elements : setInsert(e)) \/ setClear
-----------------------------------------------------------------------------
\* However elements collide, whenever the HashList has grown and whichever way
\* it was cleared: looking for an element ends, and it is found if and only if
\* it was inserted since; so too in the table of a reclaimer.
TablesAreSets ==
    \A e \in Elements :
       /\ findIx(data, e) # -1
       /\ listContains(e) <=> e \in inserted
       /\ getIndex(keys, e) # -1
       /\ keys[getIndex(keys, e)] = e <=> e \in collected
=============================================================================
