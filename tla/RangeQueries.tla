---------------------------- MODULE RangeQueries ----------------------------
(***************************************************************************)
(* Threads that insert, replace and delete keys, look for them, and query  *)
(* ranges of keys, with one of the providers of rq/.  The atomic object is *)
(* the set of the nodes that are in the data structure; a query answers    *)
(* with those whose keys are in its range.                                 *)
(***************************************************************************)
EXTENDS RangeLocks, RangeDcss, RangeSnap

\* Cases: records [scheme, favors, content, programs].
CONSTANT Cases

vars == <<shared, snaps, stack, history>>

RangeApply(op, S) ==
    LET mine == {n \in S : Key[n] = op.key} IN
    CASE op.do = "insert"   -> {IF mine = {} THEN <<S \cup {op.node}, <<"done", TRUE>>>>
                                             ELSE <<S, <<"done", FALSE>>>>}
      [] op.do = "put"      -> {IF mine # {} THEN <<(S \ mine) \cup {op.node}, <<"done", TRUE>>>>
                                             ELSE <<S, <<"done", FALSE>>>>}
      [] op.do = "delete"   -> {<<S \ mine, <<"done", mine # {}>>>>}
      [] op.do = "contains" -> {<<S, <<"done", mine # {}>>>>}
      [] op.do = "query"    -> {<<S, <<"nodes", {n \in S : Key[n] \in op.keys}>>>>}

Call(p) ==
    LET op == Head(todo[p]) IN
    /\ Begin(p, IF op.do # "query" THEN OpFrame(op)
                ELSE IF scheme.rq = "snap" THEN SnapFrame(op) ELSE QueryFrame(op))
    /\ UNCHANGED <<shared, snaps>>

Step(p) ==
    \/ Call(p)
    \/ DataStep(p) /\ UNCHANGED snaps
    \/ UpdateStep(p) /\ UNCHANGED snaps
    \/ QueryStep(p) /\ UNCHANGED snaps
    \/ LocksStep(p) /\ UNCHANGED snaps
    \/ RwLockStep(p) /\ UNCHANGED <<memory, stamps, snaps, history>>
    \/ RangeDcssStep(p) /\ UNCHANGED snaps
    \/ DcssStep(p) /\ UNCHANGED <<lock, stamps, snaps>>
    \/ RangeSnapStep(p)

Init ==
    \E c \in Cases :
      /\ scheme = c.scheme
      /\ lock = Unlocked(c.favors)
      /\ word = [a \in Addresses |->
                   IF a = Clock THEN <<1>>
                   ELSE IF a \in Buckets THEN <<{n \in c.content : BucketOf(Key[n]) = a}>>
                   ELSE Unmarked]
      /\ desc = [k \in {"dcss"} |-> [t \in Tids |-> FreshDescriptor]]
      /\ tid = [p \in Threads |-> p]
      /\ itime = [n \in Nodes |-> IF n \in c.content THEN 1 ELSE 0]
      /\ dtime = [n \in Nodes |-> 0]
      /\ announced = [p \in Threads |-> [node |-> Nothing, count |-> 0]]
      /\ bag = [p \in Threads |-> << >>]
      /\ collectors = <<ClosedCollector>>
      /\ snapPointer = 1
      /\ ClientsInit(c.content, {c.programs})

Next == \E p \in Threads : Step(p)

Spec == Init /\ [][Next]_vars /\ WF_vars(Next)

-----------------------------------------------------------------------------
\* The two asserts at the end of the scan for a deletion: a node whose deletion
\* nobody has begun was met among the announced or retired ones, and there is
\* no logical deletion.
ScanFindsDeletion ==
    \A p \in Threads :
       At(p, "scan") /\ Top(p).what = "dtime" /\ Top(p).who \notin Threads
         /\ dtime[Top(p).node] = 0
         => ~Logical /\ ~FoundDuringTraversal(Top(p))

\* The nodes of bucket b, where a pointer to a descriptor stands for what the
\* operation makes of it.
Content(b) ==
    LET v == word[b]  d == Target(v) IN
    IF ~IsTagged(v) THEN v[1]
    ELSE IF d.state = "succeeded" THEN d.f.new2[1] ELSE d.f.old2[1]

\* A node with a time of deletion can be found: it is still in the data
\* structure, a thread announces it, or it is in a bag of retired nodes.
DeletedIsFound ==
    \A n \in Nodes : dtime[n] # 0 =>
       \/ n \in Content(BucketOf(Key[n]))
       \/ \E p \in Threads : announced[p] = [node |-> n, count |-> 1]
       \/ \E p \in Threads : n \in Range(bag[p])

\* Waiting for time stamps and for the lock comes to an end.
ProgramsEnd == <>Done
=============================================================================
