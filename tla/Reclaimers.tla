----------------------------- MODULE Reclaimers -----------------------------
(***************************************************************************)
(* The reclaimers side by side: one of them is compiled in, and promises   *)
(* the same as the others.  The pools under them are checked by themselves. *)
(***************************************************************************)
EXTENDS Debra, DebraPlus, EpochTree, HazardPointers, UserRCU, Pools

AnyInit ==
    /\ Init
    /\ scheme \notin {"pools", "pool_none"} => store = << >>
    /\ \/ scheme \in {"pools", "pool_none"} /\ PoolInit
       \/ scheme \in {"debra", "debracap", "debraplus"} /\ DebraInit
       \/ scheme = "ebr_tree" /\ EpochTreeInit
       \/ scheme = "ebr_token" /\ TokenInit
       \/ scheme = "hazardptr" /\ HazardInit
       \/ scheme \in {"urcu", "urcu_tsc", "rcu"} /\ RCUInit

Step(p) == \/ DebraNext(p) \/ DebraPlusNext(p) \/ EpochTreeNext(p)
           \/ TokenNext(p) \/ HazardNext(p) \/ RCUNext(p)

Next == \/ (Tick \/ \E p \in Procs : Step(p)) /\ UNCHANGED store
        \/ \E p \in Procs : PoolNext(p)
        \/ destroy

Spec == AnyInit /\ [][Next]_<<vars, store>>

-----------------------------------------------------------------------------
\* The variables stay in their ranges; in particular nobody looks for the
\* announcement of a thread, or for a slot of a list, that is not there.
\* A bag is as validate of blockbag.h wants it: only the head has room, the
\* number of blocks is the right one, and the tail is the last block.
TypeOK ==
    /\ scheme \in DOMAIN Plan
    /\ linked \subseteq Records /\ pool \subseteq Records
    /\ \A p \in Procs :
          /\ holds[p] \subseteq Records /\ me[p].mine \subseteq Records
          /\ me[p].found \subseteq Records
          /\ \A i \in 0 .. 2 : bags[p][i] \subseteq Records
          /\ cur[p] \in 0 .. 2
          /\ list[p].size \in 0 .. Slots
          /\ pc[p] = "check" /\ scheme # "debraplus" => me[p].checked \in Procs
    /\ scheme = "ebr_token" =>
          /\ \A p \in Procs : word[p] \in {0, 1}
          /\ Cardinality({p \in Procs : word[p] = 1}) = 1
    /\ scheme \in {"pools", "pool_none"} => \A g \in Bags : Valid(store, g)
    /\ scheme = "ebr_tree" =>
          \A i \in DOMAIN word : i # EBRT_ROOT => word[i] <= word[EBRT_ROOT]

\* No record reaches the pool while a thread may still follow a pointer to
\* it: one that it read from the data structure in the operation it is in,
\* or that it has announced.
HeldIsNotFreed == \A p \in Procs : holds[p] \cap pool = {}

\* A record is in one place: in the data structure, with the thread that
\* unlinked it, in one limbo bag of one thread, or in the pool.  None is
\* freed twice, and none is lost when a bag is emptied or changes its turn.
\* Nor is an object of a pool in two bags or given to two threads.
OnePlace ==
    /\ \A r \in Plan[scheme].records :
          Cardinality({w \in Procs \X (0 .. 2) : r \in bags[w[1]][w[2]]})
            + Cardinality({p \in Procs : r \in me[p].mine})
            + (IF r \in linked THEN 1 ELSE 0)
            + (IF r \in pool THEN 1 ELSE 0) = 1
    /\ scheme \in {"pools", "pool_none"} => ObjectsInOnePlace

\* The comment in retire of reclaimer_hazardptr.h: no hazard pointers point
\* to the item, so it is sent to the pool.
FreedHasNoHazard ==
    [][\A r \in pool' \ pool : \A p \in Procs : r \notin holds[p]]_vars
=============================================================================
