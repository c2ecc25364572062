------------------------------ MODULE RangeSnap ------------------------------
(***************************************************************************)
(* The provider rq_snapcollector.h with snapcollector.h and reportitem.h:  *)
(* queries that run at the same time share a collector.  They add the      *)
(* nodes they pass to its chain, updates report the nodes they insert and  *)
(* delete while it is active, and when a query comes to its end, it closes *)
(* the collector and puts the answer together from both.                   *)
(*                                                                         *)
(* Nodes are numbered in the order of their addresses.                     *)
(***************************************************************************)
EXTENDS RangeData

VARIABLES
    collectors,     \* all collectors, in the order of their creation
    snapPointer     \* the number of the current one

snaps == <<collectors, snapPointer>>

\* The wrapper number 0 of a chain is its head; tail may be behind, or Nothing
\* for the blocker.  The same with the tails of the lists of reports.
NewCollector ==
    [active |-> TRUE, chain |-> << >>, tail |-> 0,
     reports |-> [t \in Threads |-> << >>], tails |-> [t \in Threads |-> 0],
     blocked |-> {}, all |-> Nothing]

ClosedCollector == [NewCollector EXCEPT !.active = FALSE, !.tail = Nothing, !.blocked = Threads]

IsMarked(n) == word[Mark(n)] = Marked

-----------------------------------------------------------------------------
(***************************************************************************)
(* Reports                                                                 *)
(***************************************************************************)
\* linearize_update_at_cas and _at_write
swingAndTell(p) ==
    LET me == Top(p)  r == word[me.addr] IN
    /\ At(p, "swing") /\ scheme.rq = "snap"
    /\ IF me.at = "write" THEN word' = [word EXCEPT ![me.addr] = me.new]
                          ELSE CompareAndSwap(me.addr, me.old, me.new)
    /\ IF me.at = "write" \/ r = me.old THEN Succeeded(p, me) ELSE Failed(p, me, r)
    /\ UNCHANGED <<scheme, desc, tid, lock, stamps, snaps>>

tell(p) ==
    LET me == Top(p)  next == [me EXCEPT !.pc = "told"] IN
    /\ At(p, "tell")
    /\ \/ \E n \in me.ins : Invoke(p, next, ReportFrame(n, "if_present"))
       \/ \E n \in me.del : Invoke(p, next, ReportFrame(n, "remove"))
    /\ UNCHANGED <<shared, snaps, history>>

told(p) == At(p, "told") /\ Continue(p, Top(p)) /\ UNCHANGED <<shared, snaps>>

\* announce_physical_deletion
tellUnlink(p) ==
    LET me == Top(p) IN
    /\ At(p, "announce") /\ scheme.rq = "snap"
    /\ \E n \in me.del : Invoke(p, [me EXCEPT !.pc = "unlink"], ReportFrame(n, "remove"))
    /\ UNCHANGED <<shared, snaps, history>>

report(p) ==
    /\ At(p, "report")
    /\ Put(p, [Top(p) EXCEPT !.sc = snapPointer, !.pc = "is_active"])
    /\ UNCHANGED <<shared, snaps, history>>

isActive(p) ==
    LET me == Top(p) IN
    /\ At(p, "is_active")
    /\ IF ~collectors[me.sc].active THEN Pop(p)
       ELSE Go(p, IF me.what = "remove" THEN "report_tail" ELSE "report_type")
    /\ UNCHANGED <<shared, snaps, history>>

reportType(p) ==
    LET me == Top(p) IN
    /\ At(p, "report_type")
    /\ IF IsMarked(me.node) /\ me.what = "if_present" THEN Pop(p)
       ELSE Put(p, [me EXCEPT !.what = IF IsMarked(me.node) THEN "remove" ELSE "add",
                              !.pc = "report_tail"])
    /\ UNCHANGED <<shared, snaps, history>>

\* Report; only the thread itself moves its tail.
append(p) ==
    LET me == Top(p)  c == collectors[me.sc] IN
    /\ At(p, "report_tail")
    /\ IF p \notin c.blocked
         THEN /\ collectors' = [collectors EXCEPT
                   ![me.sc].reports[p] = Append(@, [node |-> me.node, type |-> me.what])]
              /\ Go(p, "move_tail")
         ELSE Pop(p) /\ UNCHANGED collectors
    /\ UNCHANGED <<shared, snapPointer, history>>

moveTail(p) ==
    LET me == Top(p)  c == collectors[me.sc] IN
    /\ At(p, "move_tail")
    /\ collectors' = [collectors EXCEPT ![me.sc].tails[p] = Len(c.reports[p])]
    /\ Pop(p)
    /\ UNCHANGED <<shared, snapPointer, history>>

-----------------------------------------------------------------------------
(***************************************************************************)
(* Queries                                                                 *)
(***************************************************************************)
SnapFrame(op) ==
    [pc |-> "current", op |-> op, sc |-> 0, buckets |-> SetToSortSeq(Buckets, <),
     node |-> Nothing, last |-> 0, other |-> 1, all |-> << >>, loc |-> 0, rep |-> 0, got |-> {}]

\* traversal_start
current(p) ==
    /\ At(p, "current")
    /\ Put(p, [Top(p) EXCEPT !.sc = snapPointer, !.pc = "join"])
    /\ UNCHANGED <<shared, snaps, history>>

join(p) ==
    LET me == Top(p) IN
    /\ At(p, "join")
    /\ Go(p, IF collectors[me.sc].active THEN "traverse" ELSE "install")
    /\ UNCHANGED <<shared, snaps, history>>

install(p) ==
    LET me == Top(p) IN
    /\ At(p, "install")
    /\ IF snapPointer = me.sc
         THEN /\ collectors' = Append(collectors, NewCollector)
              /\ snapPointer' = Len(collectors')
              /\ Put(p, [me EXCEPT !.sc = Len(collectors'), !.pc = "traverse"])
         ELSE Put(p, [me EXCEPT !.sc = snapPointer, !.pc = "traverse"]) /\ UNCHANGED snaps
    /\ UNCHANGED <<shared, history>>

\* The data structure visits its nodes in the order of their keys as long as
\* the collector is active, and adds those without a mark.
traverse(p) ==
    LET me == Top(p)  b == Head(me.buckets)  rest == [me EXCEPT !.buckets = Tail(@)] IN
    /\ At(p, "traverse")
    /\ IF ~collectors[me.sc].active \/ me.buckets = << >> THEN Go(p, "block_pointers")
       ELSE IF word[b][1] = {} THEN Put(p, rest)
       ELSE \E n \in word[b][1] : Put(p, [rest EXCEPT !.node = n, !.pc = "look_at_mark"])
    /\ UNCHANGED <<shared, snaps, history>>

lookAtMark(p) ==
    /\ At(p, "look_at_mark")
    /\ Go(p, IF IsMarked(Top(p).node) THEN "traverse" ELSE "add_node")
    /\ UNCHANGED <<shared, snaps, history>>

\* AddNode returned n: the traversal goes on behind it or, when it is NULL,
\* tries the same node again.
GoOnBehind(p, me, n) ==
    LET b == IF n = Nothing THEN BucketOf(Key[me.node]) - 1 ELSE BucketOf(Key[n]) IN
    Put(p, [me EXCEPT !.pc = "traverse", !.last = 0, !.node = Nothing,
                      !.buckets = SetToSortSeq({c \in Buckets : c > b}, <)])

\* The node of the tail: NULL for the blocker and for the head.
TailNode(c) == IF c.tail \in {Nothing, 0} THEN Nothing ELSE c.chain[c.tail]

\* When the pointers are blocked, there is no use in trying again before the
\* collector is inactive or the node has a mark: no step stands for that.
addNode(p) ==
    LET me == Top(p)  c == collectors[me.sc] IN
    /\ At(p, "add_node")
    /\ c.tail = Nothing => ~c.active \/ IsMarked(me.node)
    /\ IF c.tail = Nothing THEN GoOnBehind(p, me, Nothing)
       ELSE IF c.tail > 0 /\ Key[c.chain[c.tail]] >= Key[me.node]
         THEN GoOnBehind(p, me, TailNode(c))
       ELSE Put(p, [me EXCEPT !.last = c.tail, !.pc = "next_of_tail"])
    /\ UNCHANGED <<shared, snaps, history>>

nextOfTail(p) ==
    LET me == Top(p) IN
    /\ At(p, "next_of_tail")
    /\ Go(p, IF me.last < Len(collectors[me.sc].chain) THEN "advance" ELSE "link")
    /\ UNCHANGED <<shared, snaps, history>>

\* Another's node is next: the tail is moved to it.
advance(p) ==
    LET me == Top(p)  c == collectors[me.sc] IN
    /\ At(p, "advance")
    /\ collectors' = IF c.tail = me.last THEN [collectors EXCEPT ![me.sc].tail = @ + 1]
                     ELSE collectors
    /\ Go(p, "return_tail")
    /\ UNCHANGED <<shared, snapPointer, history>>

returnTail(p) ==
    LET me == Top(p) IN
    /\ At(p, "return_tail")
    /\ GoOnBehind(p, me, TailNode(collectors[me.sc]))
    /\ UNCHANGED <<shared, snaps, history>>

link(p) ==
    LET me == Top(p)  c == collectors[me.sc] IN
    /\ At(p, "link")
    /\ IF me.last = Len(c.chain)
         THEN /\ collectors' = [collectors EXCEPT ![me.sc].chain = Append(@, me.node)]
              /\ Go(p, "advance_own")
         ELSE Go(p, "return_tail") /\ UNCHANGED collectors
    /\ UNCHANGED <<shared, snapPointer, history>>

advanceOwn(p) ==
    LET me == Top(p)  c == collectors[me.sc] IN
    /\ At(p, "advance_own")
    /\ collectors' = IF c.tail = me.last THEN [collectors EXCEPT ![me.sc].tail = @ + 1]
                     ELSE collectors
    /\ GoOnBehind(p, me, me.node)
    /\ UNCHANGED <<shared, snapPointer, history>>

\* traversal_end
BlockFurtherPointers(p) ==
    /\ At(p, "block_pointers")
    /\ collectors' = [collectors EXCEPT ![Top(p).sc].tail = Nothing]
    /\ Go(p, "deactivate")
    /\ UNCHANGED <<shared, snapPointer, history>>

Deactivate(p) ==
    /\ At(p, "deactivate")
    /\ collectors' = [collectors EXCEPT ![Top(p).sc].active = FALSE]
    /\ Put(p, [Top(p) EXCEPT !.pc = "block_reports", !.other = 1])
    /\ UNCHANGED <<shared, snapPointer, history>>

\* A list whose last report is not yet its tail is not blocked.
BlockFurtherReports(p) ==
    LET me == Top(p)  t == me.other  c == collectors[me.sc] IN
    /\ At(p, "block_reports")
    /\ IF t \in Threads
         THEN /\ collectors' = IF c.tails[t] = Len(c.reports[t])
                                 THEN [collectors EXCEPT ![me.sc].blocked = @ \cup {t}]
                                 ELSE collectors
              /\ Put(p, [me EXCEPT !.other = @ + 1])
         ELSE /\ Put(p, [me EXCEPT !.other = 1, !.pc = IF c.all = Nothing THEN "prepare" ELSE "get_next"])
              /\ UNCHANGED collectors
    /\ UNCHANGED <<shared, snapPointer, history>>

compareCRI(a, b) ==
    \/ Key[a.node] < Key[b.node]
    \/ Key[a.node] = Key[b.node] /\ a.node < b.node
    \/ a.node = b.node /\ a.type = "remove" /\ b.type = "add"

\* AddReports for each thread, then the attempt to publish what was found.
Prepare(p) ==
    LET me == Top(p)  t == me.other  c == collectors[me.sc] IN
    /\ At(p, "prepare")
    /\ IF t \in Threads
         THEN /\ Put(p, [me EXCEPT !.all = @ \o c.reports[t], !.other = @ + 1])
              /\ UNCHANGED collectors
         ELSE /\ collectors' = IF c.all = Nothing
                                 THEN [collectors EXCEPT ![me.sc].all = SortSeq(me.all, compareCRI)]
                                 ELSE collectors
              /\ Put(p, [me EXCEPT !.all = << >>, !.pc = "get_next"])
    /\ UNCHANGED <<shared, snapPointer, history>>

\* The next node behind wrapper i and report r: <<node, wrapper, report>>.
NextOf(chain, all) ==
    LET key(n)   == Key[n]
        \* The last of the reports on the node of report r, and on its key.
        ofNode(r) == SelectLastInSeq(all, LAMBDA x : x.node = all[r].node)
        ofKey(r)  == SelectLastInSeq(all, LAMBDA x : key(x.node) = key(all[r].node))
        next[i \in 0 .. Len(chain), r \in 0 .. Len(all)] ==
          LET hasNode == i < Len(chain)
              hasRep  == r < Len(all)
              n == chain[i + 1]
              x == all[ofNode(r + 1)]
              same == hasNode /\ key(n) = key(x.node) IN
          IF ~hasNode /\ ~hasRep THEN <<Nothing, i, r>>
          ELSE IF ~hasRep THEN <<n, i + 1, r>>
          ELSE IF hasNode /\ key(n) < key(x.node) THEN <<n, i + 1, r>>
          ELSE IF x.type = "add" THEN <<x.node, IF same THEN i + 1 ELSE i, ofKey(r + 1)>>
          ELSE next[IF hasNode /\ x.node = n THEN i + 1 ELSE i, ofNode(r + 1)]
    IN next

GetNext(p) ==
    LET me == Top(p)  c == collectors[me.sc]
        next == NextOf(c.chain, c.all)[me.loc, me.rep]  n == next[1] IN
    /\ At(p, "get_next")
    /\ \/ /\ n # Nothing
          /\ Put(p, [me EXCEPT !.loc = next[2], !.rep = next[3],
                               !.got = IF Key[n] \in me.op.keys THEN @ \cup {n} ELSE @])
          /\ UNCHANGED history
       \/ n = Nothing /\ Return(p, <<"nodes", me.got>>)
    /\ UNCHANGED <<shared, snaps>>

RangeSnapStep(p) ==
    \/ swingAndTell(p) \/ tell(p) \/ told(p) \/ tellUnlink(p)
    \/ report(p) \/ isActive(p) \/ reportType(p) \/ append(p) \/ moveTail(p)
    \/ current(p) \/ join(p) \/ install(p) \/ traverse(p) \/ lookAtMark(p)
    \/ addNode(p) \/ nextOfTail(p) \/ advance(p) \/ returnTail(p) \/ link(p) \/ advanceOwn(p)
    \/ BlockFurtherPointers(p) \/ Deactivate(p) \/ BlockFurtherReports(p)
    \/ Prepare(p) \/ GetNext(p)
=============================================================================
