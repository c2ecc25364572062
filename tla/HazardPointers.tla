--------------------------- MODULE HazardPointers ---------------------------
(***************************************************************************)
(* reclaimer_hazardptr.h: a thread announces each record before it follows *)
(* it, and asks again whether it is still in the data structure.  A thread *)
(* whose list of retired records is full collects everybody's announced    *)
(* records and gives the others to the pool.                               *)
(***************************************************************************)
EXTENDS Reclamation

CONSTANTS
    Capacity,     \* scanThreshold: 5 n k in the code; here a thread scans
                  \*   whenever it has that many retired records or more
    Unprotects    \* the threads whose operations also unprotect single records

HazardInit ==
    /\ me = [p \in Procs |-> Local]
    /\ epoch = 0
    /\ word = [p \in Procs |-> 0]

Hazard(p, l) == At(p, {"hazardptr"}, l)

\* protect: the record is read from the data structure, announced, and asked
\* about.
hp_startOp(p) ==
    /\ Hazard(p, "idle")
    /\ Go(p, "in")
    /\ UNCHANGED <<scheme, mem, me, epoch, word, list>>

hp_protect(p) ==
    \/ /\ Hazard(p, "in") /\ list[p].size < Plan[scheme].slots[p]
       /\ \E r \in linked \ holds[p] : Set(p, [me[p] EXCEPT !.obj = r])
       /\ Go(p, "found") /\ UNCHANGED <<scheme, mem, epoch, word, list>>
    \/ /\ Hazard(p, "found")
       /\ AddStore(p, me[p].obj)
       /\ Go(p, "stored") /\ UNCHANGED <<scheme, mem, me, epoch, word>>
    \/ /\ Hazard(p, "stored")
       /\ AddSize(p)
       /\ Go(p, "confirm") /\ UNCHANGED <<scheme, mem, me, epoch, word>>
    \/ /\ Hazard(p, "confirm")
       /\ IF me[p].obj \in linked
            THEN /\ holds' = [holds EXCEPT ![p] = @ \cup {me[p].obj}]
                 /\ Go(p, "in")
            ELSE Go(p, "erase") /\ UNCHANGED holds
       /\ UNCHANGED <<scheme, me, linked, pool, bags, cur, epoch, word, list>>

\* unprotect, by an operation that is done with one record.
hp_unprotect(p) ==
    /\ Hazard(p, "in") /\ p \in Unprotects
    /\ \E r \in holds[p] : /\ Set(p, [me[p] EXCEPT !.obj = r])
                           /\ holds' = [holds EXCEPT ![p] = @ \ {r}]
    /\ Go(p, "erase")
    /\ UNCHANGED <<scheme, linked, pool, bags, cur, epoch, word, list>>

\* AtomicArrayList::erase: the last record takes the erased one's slot, and
\* then the list shrinks.
hp_erase(p) ==
    LET l  == list[p]
        ix == CHOOSE i \in 0 .. l.size - 1 :
                 l.data[i] = me[p].obj /\ \A j \in 0 .. i - 1 : l.data[j] # me[p].obj
    IN
    \/ /\ Hazard(p, "erase")
       /\ list' = [list EXCEPT ![p].data[ix] = l.data[l.size - 1]]
       /\ Go(p, "shrink") /\ UNCHANGED <<scheme, mem, me, epoch, word>>
    \/ /\ Hazard(p, "shrink")
       /\ list' = [list EXCEPT ![p].size = @ - 1]
       /\ Go(p, "in") /\ UNCHANGED <<scheme, mem, me, epoch, word>>

hp_retire(p) ==
    /\ Hazard(p, "in")
    /\ \E r \in Records : Unlink(p, r) /\ retire(p, r)
    /\ IF Cardinality(bags'[p][0]) >= Capacity THEN StartScan(p, me[p])
       ELSE UNCHANGED <<pc, me>>
    /\ UNCHANGED <<scheme, holds, epoch, word, list>>

hp_scan(p) == scheme = "hazardptr" /\ p \in Procs /\ Scan(p)

hp_free(p) ==
    /\ Hazard(p, "scanned")
    /\ pool' = pool \cup (bags[p][0] \ me[p].found)
    /\ bags' = [bags EXCEPT ![p][0] = @ \cap me[p].found]
    /\ Go(p, "in")
    /\ UNCHANGED <<scheme, me, linked, holds, cur, epoch, word, list>>

hp_endOp(p) ==
    /\ Hazard(p, "in")
    /\ Clear(p) /\ holds' = [holds EXCEPT ![p] = {}]
    /\ Go(p, "idle")
    /\ UNCHANGED <<scheme, me, linked, pool, bags, cur, epoch, word>>

HazardNext(p) ==
    \/ hp_startOp(p) \/ hp_protect(p) \/ hp_unprotect(p) \/ hp_erase(p)
    \/ hp_retire(p) \/ hp_scan(p) \/ hp_free(p) \/ hp_endOp(p)
=============================================================================
