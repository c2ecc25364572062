----------------------------- MODULE AtomicSCX -----------------------------
(***************************************************************************)
(* What LLX and SCX promise to the trees built on them: a load-link on     *)
(* several records, and a store to one field that takes effect, in one     *)
(* indivisible step, only when none of the linked records has changed      *)
(* since it was linked, and that finalizes the records it removes.         *)
(*                                                                         *)
(* Abstract specification of common/scx_provider.h (its usage comment,     *)
(* lines 10-24); module SCX is the code and is checked to implement it.    *)
(***************************************************************************)
CONSTANTS Threads,      \* the threads that call the provider
          Nodes,        \* the records (tree nodes)
          Tags,         \* names of SCX operations; a store writes its own
          InitTag,      \* the name no operation has
          Footprints    \* Footprints[p]: the sequences of [node, finalize]
                        \* that thread p passes to scxAddNode

VARIABLES val,          \* val[n]: the mutable field of record n
          fin,          \* the finalized records
          ver,          \* ver[n]: the last SCX that changed a set holding n
          link          \* link[p]: pairs <<n, v>>, n was linked at version v

vars == <<val, fin, ver, link>>

NodesOf(fp) == { fp[i].node : i \in DOMAIN fp }
Finalized(fp) == { fp[i].node : i \in { j \in DOMAIN fp : fp[j].finalize } }

Init ==
    /\ val  = [n \in Nodes |-> InitTag]
    /\ fin  = {}
    /\ ver  = [n \in Nodes |-> InitTag]
    /\ link = [p \in Threads |-> {}]

\* A new attempt of p forgets the records p had linked.
Begin(p) ==
    /\ link' = [link EXCEPT ![p] = {}]
    /\ UNCHANGED <<val, fin, ver>>

\* A successful load-link of n: only a record that is not finalized.
LLX(p, n) ==
    /\ n \notin fin
    /\ link' = [link EXCEPT ![p] = @ \cup {<<n, ver[n]>>}]
    /\ UNCHANGED <<val, fin, ver>>

\* A successful store-conditional of p on the records of fp, named by a tag
\* that was never used: its field is the one of the first record.
SCX(p, fp, tag) ==
    /\ \A n \in NodesOf(fp) : <<n, ver[n]>> \in link[p]
    /\ NodesOf(fp) \cap fin = {}
    /\ \A n \in Nodes : tag \notin {val[n], ver[n]}
    /\ val' = [val EXCEPT ![fp[1].node] = tag]
    /\ fin' = fin \cup Finalized(fp)
    /\ ver' = [n \in Nodes |-> IF n \in NodesOf(fp) THEN tag ELSE ver[n]]
    /\ UNCHANGED link

Next == \E p \in Threads :
            \/ Begin(p)
            \/ \E n \in Nodes : LLX(p, n)
            \/ \E fp \in Footprints[p], tag \in Tags : SCX(p, fp, tag)

Spec == Init /\ [][Next]_vars
=============================================================================
