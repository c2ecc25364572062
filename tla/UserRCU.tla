------------------------------ MODULE UserRCU ------------------------------
(***************************************************************************)
(* urcu/urcu_impl.h, both ways it can be compiled, with a client that      *)
(* unlinks a record, waits for the readers (synchronize) and gives it to   *)
(* the pool; and reclaimer_rcu.h, which leaves the waiting to call_rcu of  *)
(* a library.                                                              *)
(*                                                                         *)
(* word[p] is urcu_table[p]->time: bit 0 says that p is not reading.  With *)
(* "urcu" it counts p's sections, with "urcu_tsc" it is twice a clock.     *)
(***************************************************************************)
EXTENDS Reclamation

RCUInit ==
    /\ me = [p \in Procs |-> Local]
    /\ epoch = 1
    /\ word = [p \in Procs |-> 1]

Own == {"urcu", "urcu_tsc"}

\* The time-stamp counter runs on whatever the threads do.
Tick ==
    /\ scheme = "urcu_tsc" /\ epoch < Plan[scheme].last[0]
    /\ epoch' = epoch + 1
    /\ UNCHANGED <<scheme, pc, me, mem, word, list>>

readLock(p) ==
    \/ /\ At(p, {"urcu"}, "idle") /\ word[p] <= Plan[scheme].last[p]
       /\ word' = [word EXCEPT ![p] = @ + 1]
       /\ Go(p, "in") /\ UNCHANGED <<scheme, me, mem, epoch, list>>
    \/ /\ At(p, {"urcu_tsc"}, "idle") /\ epoch < Plan[scheme].last[p]
       /\ Set(p, [me[p] EXCEPT !.read = 2 * epoch])
       /\ Go(p, "lock") /\ UNCHANGED <<scheme, mem, epoch, word, list>>
    \/ /\ At(p, {"urcu_tsc"}, "lock")
       /\ word' = [word EXCEPT ![p] = me[p].read]
       /\ Go(p, "in") /\ UNCHANGED <<scheme, me, mem, epoch, list>>

\* A reader's last record is unlinked by it; it retires it outside.
rcu_unlink(p) ==
    /\ At(p, Own, "in")
    /\ \E r \in Records : Unlink(p, r) /\ Set(p, [me[p] EXCEPT !.mine = @ \cup {r}])
    /\ UNCHANGED <<scheme, pc, holds, pool, bags, cur, epoch, word, list>>

readUnlock(p) ==
    /\ At(p, Own, "in")
    /\ word' = [word EXCEPT ![p] = GET_WITH_QUIESCENT(@)]
    /\ holds' = [holds EXCEPT ![p] = {}]
    /\ IF me[p].mine = {} THEN Go(p, "idle") /\ UNCHANGED me
       ELSE Go(p, "copy") /\ Set(p, [me[p] EXCEPT !.at = 0])
    /\ UNCHANGED <<scheme, linked, pool, bags, cur, epoch, list>>

OneMore(p) == [q \in 0 .. me[p].at |-> IF q < me[p].at THEN me[p].times[q] ELSE word[q]]

\* synchronize copies the counters, or takes the time, and then goes through
\* the threads.
copy(p) ==
    \/ /\ At(p, {"urcu"}, "copy")
       /\ IF me[p].at = N THEN Set(p, [me[p] EXCEPT !.at = 0]) /\ Go(p, "wait")
          ELSE Set(p, [me[p] EXCEPT !.times = OneMore(p), !.at = @ + 1]) /\ UNCHANGED pc
       /\ UNCHANGED <<scheme, mem, epoch, word, list>>
    \/ /\ At(p, {"urcu_tsc"}, "copy")
       /\ Set(p, [me[p] EXCEPT !.times = [q \in Procs |-> 2 * epoch]])
       /\ Go(p, "wait") /\ UNCHANGED <<scheme, mem, epoch, word, list>>

\* A thread is waited for until it is seen outside, or later than copied.
Left(p, q) ==
    \/ scheme = "urcu" /\ QUIESCENT(me[p].times[q])
    \/ QUIESCENT(word[q])
    \/ word[q] > me[p].times[q]

wait(p) ==
    /\ At(p, Own, "wait") /\ me[p].at < N
    /\ Left(p, me[p].at)
    /\ Set(p, [me[p] EXCEPT !.at = @ + 1])
    /\ UNCHANGED <<scheme, pc, mem, epoch, word, list>>

synchronized(p) ==
    /\ At(p, Own, "wait") /\ me[p].at = N
    /\ pool' = pool \cup me[p].mine
    /\ Set(p, [me[p] EXCEPT !.mine = {}, !.at = 0, !.times = << >>])
    /\ Go(p, "idle")
    /\ UNCHANGED <<scheme, linked, holds, bags, cur, epoch, word, list>>

(***************************************************************************)
(* reclaimer_rcu: found is what p has to leave its section for before it   *)
(* is freed.                                                               *)
(***************************************************************************)
rcu_startOp(p) ==
    /\ At(p, {"rcu"}, "idle")
    /\ Go(p, "in")
    /\ UNCHANGED <<scheme, me, mem, epoch, word, list>>

rcu_retire(p) ==
    /\ At(p, {"rcu"}, "in")
    /\ \E r \in Records :
          /\ Unlink(p, r) /\ retire(p, r)
          /\ me' = [q \in Procs |-> IF pc[q] = "in"
                                      THEN [me[q] EXCEPT !.found = @ \cup {r}] ELSE me[q]]
    /\ UNCHANGED <<scheme, pc, holds, epoch, word, list>>

rcu_endOp(p) ==
    /\ At(p, {"rcu"}, "in")
    /\ holds' = [holds EXCEPT ![p] = {}]
    /\ Set(p, [me[p] EXCEPT !.found = {}])
    /\ Go(p, "idle")
    /\ UNCHANGED <<scheme, linked, pool, bags, cur, epoch, word, list>>

\* call_rcu's thread runs the callback after a grace period.
rcuCallback(p) ==
    /\ scheme = "rcu" /\ p \in Procs
    /\ \E r \in bags[p][0] :
          /\ \A q \in Procs : r \notin me[q].found
          /\ pool' = pool \cup {r}
          /\ bags' = [bags EXCEPT ![p][0] = @ \ {r}]
    /\ UNCHANGED <<scheme, pc, me, linked, holds, cur, epoch, word, list>>

RCUNext(p) ==
    \/ readLock(p) \/ readUnlock(p) \/ rcu_unlink(p)
    \/ copy(p) \/ wait(p) \/ synchronized(p)
    \/ At(p, Own \cup {"rcu"}, "in") /\ Find(p)
    \/ rcu_startOp(p) \/ rcu_retire(p) \/ rcu_endOp(p) \/ rcuCallback(p)
=============================================================================
