------------------------------- MODULE MCSCX -------------------------------
(***************************************************************************)
(* Small instances of SCX.  The footprints are those of tree.h, cut down   *)
(* to the records that matter: an insertion links parent and leaf and      *)
(* finalizes neither, a deletion or a rotation finalizes what it links     *)
(* below the parent.                                                       *)
(***************************************************************************)
EXTENDS SCX

CONSTANTS p, q, w,         \* threads
          n1, n2, n3, n4   \* records, n1 above n2 above n3 and n4

Keep(n) == [node |-> n, finalize |-> FALSE]
Drop(n) == [node |-> n, finalize |-> TRUE]

Two   == {p, q}
Three == {p, q, w}
Chain == {n1, n2, n3}
Four  == {n1, n2, n3, n4}

\* Three operations that overlap pairwise: a helper is helped.  tryRebalance5B
\* adds the right child before the left one, tryRebalance1, 4 and 5A the left
\* one first; an insertion links the left one and its leaf.
TrioFootprints ==
    [t \in Three |-> IF t = p THEN { <<Keep(n1), Drop(n2), Drop(n3), Drop(n4)>> }
                     ELSE IF t = q THEN { <<Keep(n1), Drop(n2), Drop(n4), Drop(n3)>> }
                                   ELSE { <<Keep(n2), Keep(n3)>>, <<Keep(n2), Drop(n4)>> }]
TrioOps == [t \in Three |-> 1]

\* q may crash anywhere in an update that marks n3, or finds n3 finalized in
\* its second; p, which shares n1 and n2, keeps going, and its descriptor is
\* reused under a slow helper.
CrashFootprints ==
    [t \in Two |-> IF t = p THEN { <<Keep(n1), Keep(n2)>> }
                            ELSE { <<Keep(n1), Keep(n2), Drop(n3)>>,
                                   <<Keep(n2), Drop(n3)>> }]
CrashOps == [t \in Two |-> IF t = p THEN 3 ELSE 2]
=============================================================================
