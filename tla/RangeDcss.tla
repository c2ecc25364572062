------------------------------ MODULE RangeDcss ------------------------------
(***************************************************************************)
(* The provider rq_dcssp.h: an update changes its word with a DCSS whose   *)
(* first address is the time, and its descriptor carries the nodes that it *)
(* inserts and deletes, so that a query that meets a node without time     *)
(* stamp finds out from the descriptors of the others when that was.       *)
(***************************************************************************)
EXTENDS RangeData

Attempt(p, me, old2) ==
    Invoke(p, [me EXCEPT !.pc = "dcss_result", !.ret = Nothing],
           DcssFrame([addr1 |-> Clock, old1 |-> <<me.ts>>, addr2 |-> me.addr, old2 |-> old2,
                      new2 |-> me.new, ins |-> me.ins, del |-> me.del]))

time(p) ==
    LET me == [Top(p) EXCEPT !.ts = Now] IN
    /\ At(p, "time")
    /\ IF me.at = "write" THEN ReadAddr(p, [me EXCEPT !.pc = "old_value"], me.addr)
       ELSE Attempt(p, me, me.old)
    /\ UNCHANGED <<shared, history>>

oldValue(p) ==
    /\ At(p, "old_value")
    /\ Attempt(p, Top(p), Top(p).ret[2])
    /\ UNCHANGED <<shared, history>>

dcssResult(p) ==
    LET me == Top(p) IN
    /\ At(p, "dcss_result")
    /\ \/ me.ret = <<"success">> /\ Succeeded(p, me)
       \/ me.ret[1] = "failed_addr2" /\ me.at = "cas" /\ Failed(p, me, me.ret[2])
       \/ /\ me.ret = <<"failed_addr1">> \/ (me.ret[1] = "failed_addr2" /\ me.at = "write")
          /\ Go(p, "time") /\ UNCHANGED history
    /\ UNCHANGED shared

\* discardPayloads
discard(p) ==
    /\ At(p, "discard")
    /\ desc' = [desc EXCEPT !["dcss"][tid[p]].f.ins = {}, !["dcss"][tid[p]].f.del = {}]
    /\ Continue(p, Top(p))
    /\ UNCHANGED <<scheme, word, tid, lock, stamps>>

queryStart(p) ==
    /\ At(p, "start")
    /\ word' = [word EXCEPT ![Clock] = <<Now + 1>>]
    /\ Put(p, [Top(p) EXCEPT !.lin = Now + 1, !.pc = "bucket"])
    /\ UNCHANGED <<scheme, desc, tid, lock, stamps, history>>

-----------------------------------------------------------------------------
(***************************************************************************)
(* traversal_try_add: two scans over the descriptors of the others, for    *)
(* the time of insertion and for that of deletion (what).                  *)
(***************************************************************************)
\* Mutant: the time of deletion is sought even of a node found in the structure.
InsertedAnyhow(p, me) == Go(p, "check_dtime")

InsertedBefore(p, me) ==
    IF ~Logical /\ FoundDuringTraversal(me) THEN Add(p, me) ELSE Go(p, "check_dtime")

\* What follows when the node was inserted, or deleted, at time t.
KnownTime(p, me, t) ==
    IF me.what = "itime"
      THEN IF t >= me.lin THEN Skip(p, me) ELSE InsertedBefore(p, me)
      ELSE IF t >= me.lin THEN Add(p, me) ELSE Skip(p, me)

NextOther(p, me) == Put(p, [me EXCEPT !.who = @ + 1, !.pc = "scan"])

tryNode(p) ==
    /\ At(p, "try") /\ UsesDcss
    /\ Put(p, [Top(p) EXCEPT !.what = "itime", !.who = 1, !.pc = "scan"])
    /\ UNCHANGED <<shared, history>>

checkDtime(p) ==
    LET me == Top(p)  d == dtime[me.node] IN
    /\ At(p, "check_dtime")
    /\ IF d # 0 /\ d < me.lin THEN Skip(p, me)
       ELSE Put(p, [me EXCEPT !.what = "dtime", !.who = 1,
                              !.pc = IF Logical THEN "check_mark" ELSE "scan"])
    /\ UNCHANGED <<shared, history>>

checkMark(p) ==
    LET me == Top(p) IN
    /\ At(p, "check_mark")
    /\ ReadAddr(p, [me EXCEPT !.pc = "judge_deletion"], Mark(me.node))
    /\ UNCHANGED <<shared, history>>

judgeDeletion(p) ==
    /\ At(p, "judge_deletion")
    /\ IF Top(p).ret[2] = Marked THEN Go(p, "scan") ELSE Add(p, Top(p))
    /\ UNCHANGED <<shared, history>>

scan(p) ==
    LET me == Top(p)  t == IF me.what = "itime" THEN itime[me.node] ELSE dtime[me.node] IN
    /\ At(p, "scan")
    /\ IF t # 0 THEN KnownTime(p, me, t)
       ELSE IF me.who \in Threads
         THEN IF me.who = p THEN NextOther(p, me) ELSE Go(p, "tag")
       ELSE IF me.what = "itime" THEN InsertedBefore(p, me) ELSE Add(p, me)
    /\ UNCHANGED <<shared, history>>

\* getDescriptorTagptr returns NULL
\* while the descriptor is being written.
BeingWritten(t) == desc["dcss"][t].seq % 2 = 0

tagOfOther(p) ==
    LET me == Top(p) IN
    /\ At(p, "tag")
    /\ IF BeingWritten(me.who) THEN NextOther(p, me)
       ELSE Put(p, [me EXCEPT !.tag = Tag("dcss", me.who), !.pc = "snapshot"])
    /\ UNCHANGED <<shared, history>>

snapshot(p) ==
    LET me == Top(p)  d == Target(me.tag)  f == d.f IN
    /\ At(p, "snapshot")
    /\ IF \/ ~Valid(me.tag) \/ f = Nothing
          \/ me.node \notin IF me.what = "itime" THEN f.ins ELSE f.del
          \/ d.state = "failed"
          \/ d.state = "undecided" /\ me.what = "dtime" /\ Logical
         THEN NextOther(p, me)
       ELSE IF d.state = "succeeded" THEN KnownTime(p, me, f.old1[1])
       ELSE Put(p, [me EXCEPT !.snap = f, !.pc = "addr2"])
    /\ UNCHANGED <<shared, history>>

\* helpProcess takes whatever descriptor the other has by then.
lookAtAddr2(p) ==
    LET me == Top(p) IN
    /\ At(p, "addr2")
    /\ Go(p, IF word[me.snap.addr2] = me.tag THEN "help" ELSE "state")
    /\ UNCHANGED <<shared, history>>

helpProcess(p) ==
    LET me == [Top(p) EXCEPT !.pc = "state"] IN
    /\ At(p, "help")
    /\ IF BeingWritten(me.who) THEN Put(p, me)
       ELSE Invoke(p, me, HelpFrame(Tag("dcss", me.who), FALSE, Nothing, "dcss_help"))
    /\ UNCHANGED <<shared, history>>

stateAgain(p) ==
    LET me == Top(p) IN
    /\ At(p, "state")
    /\ IF Valid(me.tag) /\ Target(me.tag).state = "succeeded"
         THEN KnownTime(p, me, me.snap.old1[1])
         ELSE NextOther(p, me)
    /\ UNCHANGED <<shared, history>>

RangeDcssStep(p) ==
    \/ time(p) \/ oldValue(p) \/ dcssResult(p) \/ discard(p) \/ queryStart(p)
    \/ tryNode(p) \/ checkDtime(p) \/ checkMark(p) \/ judgeDeletion(p) \/ scan(p) \/ tagOfOther(p)
    \/ snapshot(p) \/ lookAtAddr2(p) \/ helpProcess(p) \/ stateAgain(p)
=============================================================================
