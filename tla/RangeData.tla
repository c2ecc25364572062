----------------------------- MODULE RangeData ------------------------------
(***************************************************************************)
(* A set of keys that answers range queries through an RQProvider (rq/).   *)
(* The repository holds no data structure that uses one, so the one here   *)
(* is external: buckets, each a word with the set of its nodes, that an    *)
(* operation replaces as a whole; with logical deletion every node also    *)
(* has a word for its mark.  What the provider does is common to           *)
(* rq_rwlock.h, rq_htm_rwlock.h and rq_dcssp.h as far as it is here: the   *)
(* time stamps of nodes, the announcements of deletions, the bags of       *)
(* retired nodes and the course of a query.                                *)
(***************************************************************************)
EXTENDS Dcss, RwLock, SequencesExt, FiniteSetsExt

CONSTANTS
    Key,         \* Key[n]: the key of node n, a number
    Buckets      \* their addresses: key k is in bucket BucketOf(k)

VARIABLES
    itime, dtime,   \* the time stamps of nodes, 0 for TIMESTAMP_NOT_SET
    announced,      \* announced[p]: [node, count], an array of one element
    bag             \* bag[p]: the nodes p has retired, oldest first

stamps == <<itime, dtime, announced, bag>>
shared == <<memory, lock, stamps>>

Nodes       == DOMAIN Key
BucketOf(k) == 1 + (k % Cardinality(Buckets))
Clock       == 0             \* the address of timestamp
Mark(n)     == 100 + n       \* the address of the mark of n
Unmarked    == <<{}>>
Marked      == <<{0}>>
Now         == word[Clock][1]
Logical     == scheme.logical
UsesDcss    == scheme.rq = "dcss"

\* Where linearize_update_at_write and linearize_update_at_cas go on when the
\* deletion, if it is one, is announced.
LinearizeAt == [rwlock |-> "read_lock", htm |-> "htm", dcss |-> "time", snap |-> "swing"][scheme.rq]

\* read_addr: the frame me goes on when ret holds the value.
ReadAddr(p, me, a) ==
    IF UsesDcss
      THEN Invoke(p, [me EXCEPT !.ret = Nothing], [pc |-> "dcss_read", addr |-> a])
      ELSE Put(p, [me EXCEPT !.ret = <<"value", word[a]>>])

-----------------------------------------------------------------------------
(***************************************************************************)
(* The data structure.                                                     *)
(***************************************************************************)
\* A report to the snap collector (RangeSnap): what says which report it is.
ReportFrame(n, what) == [pc |-> "report", node |-> n, what |-> what, sc |-> 0, at |-> 0]

OpFrame(op) == [pc |-> "look", op |-> op, in |-> {}, ret |-> Nothing, answer |-> TRUE]

\* at: how the provider is to change the word, or "unlink", the physical
\* deletion of a node with a mark.
Update(how, a, old, new, ins, del) ==
    [pc |-> IF del # {} /\ (how = "unlink" \/ ~Logical) THEN "announce" ELSE LinearizeAt,
     at |-> how, addr |-> a, old |-> old, new |-> new, ins |-> ins, del |-> del,
     ts |-> 0, seen |-> Nothing, course |-> << >>, ret |-> Nothing]

\* The operation changes nothing and answers r.  The snap collector wants to
\* know of the node that the answer rests on.
Reported(p, me, mine, what, r) ==
    \/ /\ scheme.rq # "snap" \/ mine = {}
       /\ Return(p, <<"done", r>>)
    \/ /\ scheme.rq = "snap"
       /\ \E n \in mine : Invoke(p, [me EXCEPT !.pc = "answer", !.answer = r], ReportFrame(n, what))
       /\ UNCHANGED history

answer(p) == At(p, "answer") /\ Return(p, <<"done", Top(p).answer>>) /\ UNCHANGED shared

look(p) ==
    /\ At(p, "look")
    /\ ReadAddr(p, [Top(p) EXCEPT !.pc = "judge"], BucketOf(Top(p).op.key))
    /\ UNCHANGED <<shared, history>>

\* The operation on a bucket with the nodes S of which the one of the key, if
\* any, has no mark.
Judge(p, me, S) ==
    LET op == me.op  mine == {n \in S : Key[n] = op.key}  a == BucketOf(op.key)
        change(T, ins, del) ==
          Invoke(p, [me EXCEPT !.pc = "changed", !.in = S],
                 Update(op.at, a, <<S>>, <<T>>, ins, del)) IN
    \/ /\ op.do = "insert" /\ mine = {} /\ change(S \cup {op.node}, {op.node}, {})
       /\ UNCHANGED history
    \/ /\ op.do = "put" /\ mine # {}
       /\ change((S \ mine) \cup {op.node}, {op.node}, mine)
       /\ UNCHANGED history
    \/ /\ op.do = "delete" /\ mine # {} /\ ~Logical /\ change(S \ mine, {}, mine)
       /\ UNCHANGED history
    \/ /\ op.do = "delete" /\ mine # {} /\ Logical
       /\ \E n \in mine :
            Invoke(p, [me EXCEPT !.pc = "marked", !.in = S],
                   Update("cas", Mark(n), Unmarked, Marked, {}, {n}))
       /\ UNCHANGED history
    \/ op.do = "insert" /\ mine # {} /\ Reported(p, me, mine, "if_present", FALSE)
    \/ op.do = "contains" /\ Reported(p, me, mine, "whatever", mine # {})
    \/ op.do \in {"put", "delete"} /\ mine = {} /\ Return(p, <<"done", FALSE>>)

Unlink(S, n) == Update("unlink", BucketOf(Key[n]), <<S>>, <<S \ {n}>>, {}, {n})

judge(p) ==
    LET me == Top(p)  S == me.ret[2][1]  mine == {n \in S : Key[n] = me.op.key} IN
    /\ At(p, "judge")
    /\ \/ (~Logical \/ mine = {}) /\ Judge(p, me, S)
       \/ /\ Logical
          /\ \E n \in mine : ReadAddr(p, [me EXCEPT !.pc = "judge_mark", !.in = S], Mark(n))
          /\ UNCHANGED history
    /\ UNCHANGED shared

\* A node with a mark is as good as gone; insertions and deletions unlink it
\* first.
judgeMark(p) ==
    LET me == Top(p) IN
    /\ At(p, "judge_mark")
    /\ \/ me.ret[2] = Unmarked /\ Judge(p, me, me.in)
       \/ /\ me.ret[2] = Marked /\ me.op.do # "contains"
          /\ \E n \in me.in : /\ Key[n] = me.op.key
                              /\ Invoke(p, [me EXCEPT !.pc = "look"], Unlink(me.in, n))
          /\ UNCHANGED history
       \/ /\ me.ret[2] = Marked /\ me.op.do = "contains"
          /\ Reported(p, me, {n \in me.in : Key[n] = me.op.key}, "whatever", FALSE)
    /\ UNCHANGED shared

\* The bucket was changed, or another change came first.
changed(p) ==
    /\ At(p, "changed")
    /\ \/ Top(p).ret = <<"found", <<Top(p).in>>>> /\ Return(p, <<"done", TRUE>>)
       \/ Top(p).ret # <<"found", <<Top(p).in>>>> /\ Go(p, "look") /\ UNCHANGED history
    /\ UNCHANGED shared

marked(p) ==
    LET me == Top(p) IN
    /\ At(p, "marked")
    /\ \/ /\ me.ret = <<"found", Unmarked>>
          /\ \E n \in me.in : /\ Key[n] = me.op.key
                              /\ Invoke(p, [me EXCEPT !.pc = "unlinked"], Unlink(me.in, n))
       \/ me.ret # <<"found", Unmarked>> /\ Go(p, "look")
    /\ UNCHANGED <<shared, history>>

unlinked(p) == At(p, "unlinked") /\ Return(p, <<"done", TRUE>>) /\ UNCHANGED shared

DataStep(p) ==
    look(p) \/ answer(p) \/ judge(p) \/ judgeMark(p) \/ changed(p) \/ marked(p) \/ unlinked(p)

-----------------------------------------------------------------------------
(***************************************************************************)
(* The end of an update: what remains to do is its course.                 *)
(***************************************************************************)
\* Mutant: a node is no longer announced before it is retired.
CourseWithdrawing(me) ==
    IF scheme.rq = "snap" THEN IF me.at = "unlink" THEN <<"retire">> ELSE <<"tell">>
    ELSE (IF me.at = "unlink" THEN << >> ELSE <<"itime", "dtime">> \o IF UsesDcss THEN <<"discard">> ELSE << >>)
         \o IF me.del # {} /\ (me.at = "unlink" \/ ~Logical) THEN <<"withdraw", "retire">> ELSE << >>

Course(me) ==
    IF scheme.rq = "snap" THEN IF me.at = "unlink" THEN <<"retire">> ELSE <<"tell">>
    ELSE IF me.at = "unlink" THEN <<"retire", "withdraw">>
    ELSE SelectSeq(<<"itime", "dtime", "discard", "retire", "withdraw">>,
           LAMBDA l : CASE l = "itime"   -> me.ins # {}
                        [] l = "dtime"   -> me.del # {}
                        [] l = "discard" -> UsesDcss
                        [] OTHER         -> me.del # {} /\ ~Logical)

Continue(p, me) ==
    IF me.course = << >> THEN Return(p, <<"found", me.seen>>)
    ELSE /\ Put(p, [me EXCEPT !.pc = Head(me.course), !.course = Tail(me.course)])
         /\ UNCHANGED history

Succeeded(p, me) ==
    LET done == [me EXCEPT !.seen = me.old] IN Continue(p, [done EXCEPT !.course = Course(me)])

\* The word held r: the announcement is taken back.
Failed(p, me, r) ==
    Continue(p, [me EXCEPT !.seen = r,
                           !.course = IF /\ me.del # {} /\ scheme.rq # "snap"
                                         /\ me.at = "unlink" \/ ~Logical
                                        THEN <<"recall">> ELSE << >>])

\* announce_physical_deletion
announce(p) ==
    /\ At(p, "announce") /\ scheme.rq # "snap"
    /\ \E n \in Top(p).del : announced' = [announced EXCEPT ![p] = [node |-> n, count |-> 1]]
    /\ Go(p, IF Top(p).at = "unlink" THEN "unlink" ELSE LinearizeAt)
    /\ UNCHANGED <<memory, lock, itime, dtime, bag, history>>

unlink(p) ==
    LET me == Top(p)  r == word[me.addr] IN
    /\ At(p, "unlink")
    /\ CompareAndSwap(me.addr, me.old, me.new)
    /\ IF r = me.old THEN Succeeded(p, me) ELSE Failed(p, me, r)
    /\ UNCHANGED <<scheme, desc, tid, lock, stamps>>

setItime(p) ==
    /\ At(p, "itime")
    /\ itime' = [n \in Nodes |-> IF n \in Top(p).ins THEN Top(p).ts ELSE itime[n]]
    /\ Continue(p, Top(p))
    /\ UNCHANGED <<memory, lock, dtime, announced, bag>>

setDtime(p) ==
    /\ At(p, "dtime")
    /\ dtime' = [n \in Nodes |-> IF n \in Top(p).del THEN Top(p).ts ELSE dtime[n]]
    /\ Continue(p, Top(p))
    /\ UNCHANGED <<memory, lock, itime, announced, bag>>

\* physical_deletion_succeeded: the node is retired before it is no longer
\* announced.
retire(p) ==
    /\ At(p, "retire")
    /\ \E n \in Top(p).del : bag' = [bag EXCEPT ![p] = Append(@, n)]
    /\ Continue(p, Top(p))
    /\ UNCHANGED <<memory, lock, itime, dtime, announced>>

withdraw(p) ==
    /\ At(p, "withdraw")
    /\ announced' = [announced EXCEPT ![p].count = 0]
    /\ Continue(p, Top(p))
    /\ UNCHANGED <<memory, lock, itime, dtime, bag>>

\* physical_deletion_failed: the pointer stays in the array.
recall(p) ==
    /\ At(p, "recall")
    /\ announced' = [announced EXCEPT ![p].count = 0]
    /\ Continue(p, Top(p))
    /\ UNCHANGED <<memory, lock, itime, dtime, bag>>

UpdateStep(p) ==
    announce(p) \/ unlink(p) \/ setItime(p) \/ setDtime(p) \/ retire(p) \/ withdraw(p) \/ recall(p)

-----------------------------------------------------------------------------
(***************************************************************************)
(* A query: it visits the buckets, then the deletions that are announced,  *)
(* then the nodes that others have retired.                                *)
(***************************************************************************)
QueryFrame(op) ==
    [pc |-> IF UsesDcss THEN "start" ELSE "write_lock", op |-> op, lin |-> 0, end |-> 0,
     buckets |-> SetToSortSeq({BucketOf(k) : k \in op.keys}, <),
     nodes |-> << >>, node |-> Nothing, cont |-> "bucket", source |-> Nothing,
     what |-> "itime", other |-> 1, who |-> 1, snap |-> Nothing, tag |-> Nothing, marked |-> FALSE,
     bags |-> << >>, got |-> {}, ret |-> Nothing]

FoundDuringTraversal(me) == me.cont = "bucket"

\* The next node, or what comes after the last.
NextNode(me) ==
    LET done == [me EXCEPT !.node = Nothing, !.who = 1, !.snap = Nothing, !.tag = Nothing,
                           !.marked = FALSE, !.ret = Nothing] IN
    IF me.nodes = << >> THEN [done EXCEPT !.pc = me.cont]
    ELSE [done EXCEPT !.node = Head(me.nodes), !.nodes = Tail(@), !.pc = "try"]

\* traversal_try_add returns 0.
Skip(p, me) == Put(p, NextNode(me))

\* tryAddToRQ: the key is in the range and no node with it was added before.
Add(p, me) ==
    Put(p, NextNode([me EXCEPT !.got =
      IF Key[me.node] \in me.op.keys /\ \A n \in @ : Key[n] # Key[me.node]
        THEN @ \cup {me.node} ELSE @]))

bucket(p) ==
    LET me == Top(p) IN
    /\ At(p, "bucket")
    /\ IF me.buckets = << >> THEN Go(p, "end")
       ELSE ReadAddr(p, [me EXCEPT !.pc = "visit", !.buckets = Tail(@)], Head(me.buckets))
    /\ UNCHANGED <<shared, history>>

visit(p) ==
    LET me == Top(p) IN
    /\ At(p, "visit")
    /\ Put(p, NextNode([me EXCEPT !.nodes = SetToSortSeq(me.ret[2][1], <)]))
    /\ UNCHANGED <<shared, history>>

\* traversal_end
endTime(p) ==
    /\ At(p, "end")
    /\ Put(p, [Top(p) EXCEPT !.end = Now, !.pc = "announcements", !.cont = "announcements"])
    /\ UNCHANGED <<shared, history>>

announcements(p) ==
    LET me == Top(p) IN
    /\ At(p, "announcements")
    /\ \/ /\ me.other > Cardinality(Threads)
          /\ Put(p, [me EXCEPT !.other = 1, !.pc = "collect"])
       \/ /\ me.other \in Threads
          /\ Put(p, IF me.other # p /\ announced[me.other].count = 1
                      THEN [me EXCEPT !.pc = "announced"] ELSE [me EXCEPT !.other = @ + 1])
    /\ UNCHANGED <<shared, history>>

announcedNode(p) ==
    LET me == Top(p) IN
    /\ At(p, "announced")
    /\ Put(p, NextNode([me EXCEPT !.nodes = <<announced[me.other].node>>,
                                  !.source = me.other, !.other = @ + 1]))
    /\ UNCHANGED <<shared, history>>

\* The iterators begin at the node that is retired last.
collect(p) ==
    LET me == Top(p) IN
    /\ At(p, "collect")
    /\ Put(p, IF me.other \in Threads
                THEN [me EXCEPT !.other = @ + 1,
                        !.bags = IF me.other = p THEN @ ELSE Append(@, Reverse(bag[me.other]))]
                ELSE [me EXCEPT !.pc = "bags", !.cont = "bags", !.source = Nothing])
    /\ UNCHANGED <<shared, history>>

\* A node retired too late cannot have been missed.  Unless threads retire
\* what others deleted, a bag is in the order of deletion times, and ends here
\* with the first node that was deleted before the query.
bags(p) ==
    LET me == Top(p)  b == Head(me.bags)  n == Head(b)
        rest == [me EXCEPT !.bags[1] = Tail(@)] IN
    /\ At(p, "bags")
    /\ \/ me.bags = << >> /\ Return(p, <<"nodes", me.got>>)
       \/ /\ me.bags # << >>
          /\ Put(p, IF b = << >> THEN [me EXCEPT !.bags = Tail(@)]
                    ELSE IF dtime[n] # 0 /\ dtime[n] > me.end THEN rest
                    ELSE IF ~Logical /\ dtime[n] # 0 /\ dtime[n] < me.lin
                      THEN [me EXCEPT !.bags = Tail(@)]
                    ELSE NextNode([rest EXCEPT !.nodes = <<n>>]))
          /\ UNCHANGED history
    /\ UNCHANGED shared

QueryStep(p) ==
    bucket(p) \/ visit(p) \/ endTime(p) \/ announcements(p) \/ announcedNode(p)
    \/ collect(p) \/ bags(p)
=============================================================================
