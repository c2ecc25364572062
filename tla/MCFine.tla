------------------------------- MODULE MCFine -------------------------------
(***************************************************************************)
(* Small instances of FineGrainedTree.  The first phases of a script build *)
(* the tree its last ones work on; a bound of 0 keeps the rebalancing      *)
(* thread out of a phase.                                                  *)
(***************************************************************************)
EXTENDS FineGrainedTree

CONSTANTS p, q, r       \* threads

Two == {p, q}
ins(k) == [kind |-> "insert", key |-> k]
del(k) == [kind |-> "delete", key |-> k]
get(k) == [kind |-> "get", key |-> k]

Inserts(keys) == [i \in DOMAIN keys |-> ins(keys[i])]
Deletes(keys) == [i \in DOMAIN keys |-> del(keys[i])]

\* A phase of both threads, a phase of one, with a bound on the passes.
Both(ops1, ops2, bound) ==
    [work |-> [t \in Workers |-> IF t = p THEN ops1 ELSE ops2], maxPasses |-> bound]
Alone(ops, bound) == Both(ops, <<>>, bound)
Passes(bound) == Alone(<<>>, bound)

Orders(S) == { f \in [1..Cardinality(S) -> S] :
                  \A i, j \in DOMAIN f : f[i] = f[j] => i = j }

\* Insertions and removals of neighbours beside a search.
UpdateScripts ==
    { << Alone(Inserts(<<3, 5>>), 0),
         Both(<<ins(2), del(5), get(1)>>, <<ins(1), del(3), ins(4)>>, 0) >>,
      << Alone(Inserts(<<2, 4>>), 0),
         Both(<<del(2), ins(2), get(4)>>, <<del(4), ins(3), get(2)>>, 0) >>,
      << Both(<<ins(3), del(3), ins(1)>>, <<ins(3), get(3), del(1)>>, 0) >>,
      << Alone(Inserts(<<2, 4, 6>>), 0),
         Both(<<get(4), del(6), get(4)>>, <<get(2), del(4), del(2)>>, 0) >> }

\* Trees of every shape, rebalanced or not, that lose two keys and are then
\* left to the rebalancing thread.
BalanceScripts ==
    { << Alone(Inserts(keys), 0), Passes(2), Alone(Deletes(gone), 0), Passes(4) >> :
         keys \in Orders(1..4), gone \in {<<2, 3>>, <<1>>} }
    \cup
    { << Alone(Inserts(keys), 0), Passes(2), Alone(Deletes(<<6>>), 0), Passes(4) >> :
         keys \in {<<6, 5, 4, 3, 2, 1>>, <<1, 2, 3, 4, 5, 6>>, <<6, 5, 1, 3, 2, 4>>,
                   <<6, 1, 5, 2, 4, 3>>, <<1, 6, 2, 5, 3, 4>>} }

AllScripts == UpdateScripts \cup BalanceScripts

\* An insertion below the record that a rotation moves up.
EntryScripts == { << Alone(Inserts(<<6, 5, 3, 1>>), 0), Alone(<<ins(4)>>, 1) >> }
=============================================================================
