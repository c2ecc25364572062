----------------------------- MODULE RangeLocks -----------------------------
(***************************************************************************)
(* The providers rq_rwlock.h and rq_htm_rwlock.h: an update reads the time *)
(* and changes its word while it holds a readers-writer lock, or in a      *)
(* transaction that aborts when the lock is held by a writer; a query      *)
(* holds the lock as the writer while it advances the time.                *)
(***************************************************************************)
EXTENDS RangeData

\* The linearization point of the update me, at time ts.
Swung(p, me, ts) ==
    LET r == word[me.addr]  done == [me EXCEPT !.ts = ts] IN
    IF me.at = "write"
      THEN word' = [word EXCEPT ![me.addr] = me.new] /\ Succeeded(p, done)
      ELSE /\ CompareAndSwap(me.addr, me.old, me.new)
           /\ IF r = me.old THEN Succeeded(p, done) ELSE Failed(p, done, r)

\* A transaction commits, or the attempts are used up.
htm(p) ==
    /\ At(p, "htm")
    /\ \/ ~lock.writer /\ Swung(p, Top(p), Now)
       \/ Go(p, "read_lock") /\ UNCHANGED <<word, history>>
    /\ UNCHANGED <<scheme, desc, tid, lock, stamps>>

readTime(p) ==
    /\ At(p, "read_locked")
    /\ Put(p, [Top(p) EXCEPT !.ts = Now, !.pc = "swing"])
    /\ UNCHANGED <<shared, history>>

\* readUnlock follows at once: it only lets a writer go on.
swing(p) ==
    /\ At(p, "swing") /\ scheme.rq # "snap"
    /\ Swung(p, Top(p), Top(p).ts)
    /\ lock' = ReadUnlocked
    /\ UNCHANGED <<scheme, desc, tid, stamps>>

traversalStart(p) ==
    /\ At(p, "write_locked")
    /\ word' = [word EXCEPT ![Clock] = <<Now + 1>>]
    /\ lock' = WriteUnlocked
    /\ Put(p, [Top(p) EXCEPT !.lin = Now + 1, !.pc = "bucket"])
    /\ UNCHANGED <<scheme, desc, tid, stamps, history>>

-----------------------------------------------------------------------------
(***************************************************************************)
(* traversal_try_add                                                       *)
(***************************************************************************)
\* The node was deleted at time d.
DeletedAt(p, me, d) == IF d < me.lin THEN Skip(p, me) ELSE Add(p, me)

\* Mutant: a node inserted at the time of the query counts.
tryItimeLate(p) ==
    LET me == Top(p) IN
    /\ At(p, "try") /\ ~UsesDcss
    /\ itime[me.node] # 0
    /\ IF itime[me.node] > me.lin THEN Skip(p, me)
       ELSE IF ~Logical /\ FoundDuringTraversal(me) THEN Add(p, me)
       ELSE Go(p, IF Logical THEN "try_mark" ELSE "try_dtime")
    /\ UNCHANGED <<shared, history>>

tryItime(p) ==
    LET me == Top(p) IN
    /\ At(p, "try") /\ ~UsesDcss
    /\ itime[me.node] # 0
    /\ IF itime[me.node] >= me.lin THEN Skip(p, me)
       ELSE IF ~Logical /\ FoundDuringTraversal(me) THEN Add(p, me)
       ELSE Go(p, IF Logical THEN "try_mark" ELSE "try_dtime")
    /\ UNCHANGED <<shared, history>>

tryMark(p) ==
    LET me == Top(p) IN
    /\ At(p, "try_mark") /\ ~UsesDcss
    /\ Put(p, [me EXCEPT !.marked = word[Mark(me.node)] = Marked, !.pc = "try_dtime"])
    /\ UNCHANGED <<shared, history>>

tryDtime(p) ==
    LET me == Top(p)  d == dtime[me.node] IN
    /\ At(p, "try_dtime") /\ ~UsesDcss
    /\ IF d # 0 THEN DeletedAt(p, me, d)
       ELSE IF Logical /\ ~me.marked THEN Add(p, me)
       ELSE Go(p, "await_dtime")
    /\ UNCHANGED <<shared, history>>

\* A node that was found in an announcement may never be deleted: when another
\* is announced there, the time is read once more.
awaitDtime(p) ==
    LET me == Top(p)  n == me.node IN
    /\ At(p, "await_dtime")
    /\ \/ dtime[n] # 0 /\ DeletedAt(p, me, dtime[n])
       \/ /\ me.source # Nothing /\ announced[me.source].node # n
          /\ Go(p, "reread_dtime")
    /\ UNCHANGED <<shared, history>>

rereadDtime(p) ==
    LET me == Top(p)  d == dtime[me.node] IN
    /\ At(p, "reread_dtime")
    /\ IF d = 0 THEN Skip(p, me) ELSE DeletedAt(p, me, d)
    /\ UNCHANGED <<shared, history>>

LocksStep(p) ==
    \/ htm(p) \/ readTime(p) \/ swing(p) \/ traversalStart(p)
    \/ tryItime(p) \/ tryMark(p) \/ tryDtime(p) \/ awaitDtime(p) \/ rereadDtime(p)
=============================================================================
