------------------------------- MODULE MCTree -------------------------------
(***************************************************************************)
(* Small instances of RebalanceScan.  The first phases of a script build *)
(* the tree its last one works on; a bound of 0 keeps the rebalancing      *)
(* threads out of a phase.                                                 *)
(***************************************************************************)
EXTENDS RebalanceScan

CONSTANTS p, q          \* threads

Two == {p, q}
ins(k) == [kind |-> "insert", key |-> k]
del(k) == [kind |-> "delete", key |-> k]
get(k) == [kind |-> "get", key |-> k]
Inserts(keys) == [i \in DOMAIN keys |-> ins(keys[i])]
Deletes(keys) == [i \in DOMAIN keys |-> del(keys[i])]

\* A phase of both threads, a phase of one, with a bound on numRebalOps.
Both(ops1, ops2, bound) ==
    [work |-> [t \in Threads |-> IF t = p THEN ops1 ELSE ops2], maxRebalOps |-> bound,
     scans |-> FALSE]
Alone(ops, bound) == Both(ops, <<>>, bound)

Orders(S) == { f \in [1..Cardinality(S) -> S] :
                  \A i, j \in DOMAIN f : f[i] = f[j] => i = j }

\* Insertions around the same leaves, searches, and rotations.
InsertScripts ==
    { << Alone(Inserts(<<3, 5>>), 0),
         Both(<<ins(2), ins(6), get(1)>>, <<ins(1), ins(4), get(6)>>, 3) >>,
      << Alone(<<>>, 0),
         Both(<<ins(1), ins(2), get(4)>>, <<ins(3), ins(4), get(1)>>, 3) >> }

\* Deletions of neighbours, one of an absent key, and searches, in trees
\* that were rebalanced before.
DeletesIn(keys, ops) == << Alone(Inserts(keys), 2), Both(ops, <<del(1), del(3)>>, 0) >>
DeleteScripts ==
    { DeletesIn(<<3, 5, 2, 1, 4>>, ops) :
         ops \in {<<del(2), get(5)>>, <<get(3), del(4)>>, <<get(1), del(6)>>} }
    \cup { DeletesIn(<<1, 2, 3, 4, 5>>, <<del(2), get(5)>>) }

\* Deletions beside insertions below the sibling of the leaf that goes.
MixedScripts ==
    { << Alone(Inserts(keys), 0), Both(<<del(2), ins(1)>>, <<ins(5), get(2), ins(6)>>, 0) >> :
         keys \in {<<2, 4>>, <<4, 2, 0>>, <<0, 2, 4>>, <<4, 0, 2>>} }

UpdateScripts == InsertScripts \cup DeleteScripts \cup MixedScripts

\* Trees of every shape, rebalanced or not, that lose two keys, and trees of
\* six keys with an overweight leaf beside a red record after a deletion; they
\* are then left to the rebalancing threads.
BalanceScripts ==
    { << Alone(Inserts(keys), 2), Alone(Deletes(gone), 0), Alone(<<>>, 9) >> :
         keys \in Orders(1..5), gone \in {<<3, 1>>} }
    \cup
    { << Alone(Inserts(keys), 2), Alone(<<del(k)>>, 0), Alone(<<>>, 9) >> :
         keys \in {<<2, 3, 1, 5, 4, 6>>, <<2, 5, 6, 3, 1, 4>>}, k \in {1, 6} }

\* A deletion from a tree without keys has to wait for the insertion.
EmptyScripts == { << Both(<<del(1)>>, <<ins(1)>>, 0) >> }

\* A rebalancing thread scans while keys come in and others rotate, and trees
\* that lost keys are left to it.
Scanned(ph) == [ph EXCEPT !.scans = TRUE]
ScanScripts ==
    { << Alone(Inserts(<<3, 5>>), 0), Scanned(Both(<<ins(2)>>, <<ins(1)>>, 1)),
         Scanned(Alone(<<>>, 9)) >> }
    \cup
    { << Alone(Inserts(keys), 2), Alone(Deletes(<<3, 1>>), 0), Scanned(Alone(<<>>, 9)) >> :
         keys \in { f \in Orders(1..5) : f[1] = 2 /\ f[5] = 4 } }
    \cup
    { << Alone(Inserts(keys), 2), Alone(Deletes(<<k>>), 0), Scanned(Alone(<<>>, 9)) >> :
         keys \in {<<2, 3, 1, 5, 4, 6>>, <<2, 5, 6, 3, 1, 4>>}, k \in {1, 6} }

TreeScripts == UpdateScripts \cup BalanceScripts \cup EmptyScripts \cup ScanScripts

\* A deletion beside the rotation of the record above the leaf.
RotatedScripts == { << Alone(Inserts(<<2, 3, 1, 0>>), 0), Alone(<<del(3)>>, 1) >> }
=============================================================================
