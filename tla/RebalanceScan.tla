--------------------------- MODULE RebalanceScan ---------------------------
(***************************************************************************)
(* The scan of a rebalancing thread of the non-blocking tree: the calls of *)
(* rebalance (tree.h), one read of a child pointer per action, beside the  *)
(* insertions, deletions and other rebalancing threads of NonBlockingTree. *)
(*                                                                         *)
(* The conditions of rebalance follow pointers that others change, without *)
(* load-links, and follow the same pointer again for the next conjunct.    *)
(* Keys and weights never change, nor whether a record is a leaf, so that  *)
(* these are known with the pointer.                                       *)
(***************************************************************************)
EXTENDS NonBlockingTree

VARIABLE scan     \* the frames of rebalance, innermost first

scanVars == <<vars, scan>>

Unread == -1

Frame(n, parent) ==
    [pc |-> "entry", node |-> n, parent |-> parent, side |-> "left",
     test |-> 1, term |-> 1, via |-> Unread, case |-> "none",
     child |-> Unread, above |-> Unread]

\* The frame that goes through the children of parent on `side'.
Descent(parent, side, label) ==
    [Frame(Null, parent) EXCEPT !.pc = label, !.side = side]

frame == Head(scan)
Scans(label) == scan # <<>> /\ frame.pc = label
Becomes(g) == scan' = <<g>> \o Tail(scan)
Unchanged  == UNCHANGED <<treeVars, Rest, pc, at>>

ScanInit == Init /\ scan = <<>>

-----------------------------------------------------------------------------
(***************************************************************************)
(* The conditions: conjunctions of terms, each about the record at the end *)
(* of a path from the node                                                 *)
(***************************************************************************)
Term(path, is) == [path |-> path, is |-> is]

Terms2(s) == LET o == Opposite(s) IN
    << Term(<<s>>, "inner"), Term(<<s>>, "red"), Term(<<s, s>>, "red"), Term(<<o>>, "black") >>
Terms3(s) == LET o == Opposite(s) IN
    << Term(<<s>>, "red"), Term(<<s, o>>, "there"), Term(<<s, o>>, "red"), Term(<<o>>, "black") >>
Terms5(s) == LET o == Opposite(s) IN
    << Term(<<s>>, "overweight"), Term(<<o>>, "red"), Term(<<o>>, "inner"), Term(<<o, s>>, "black") >>

Test(group, case, terms) == [group |-> group, case |-> case, terms |-> terms]

\* In the order of rebalance.  Those of one group, which are the results of
\* checkCase2 and checkCase4, are computed both before the first one counts.
Tests ==
  << Test(1, "1", << Term(<<"left">>, "red"), Term(<<"right">>, "red"), Term(<< >>, "top") >>),
     Test(2, "2A", Terms2("left")), Test(2, "2B", Terms2("right")),
     Test(3, "3A", Terms3("left")), Test(4, "3B", Terms3("right")),
     Test(5, "4", << Term(<<"left">>, "overweight"), Term(<<"right">>, "black") >>),
     Test(5, "4", << Term(<<"left">>, "black"), Term(<<"right">>, "overweight") >>),
     Test(6, "5A", Terms5("left")), Test(7, "5B", Terms5("right")) >>

Holds(is, n) ==
    \/ is = "inner"      /\ ~IsLeaf(n)
    \/ is = "red"        /\ Red(n)
    \/ is = "black"      /\ Weight(n) > 0
    \/ is = "overweight" /\ Weight(n) > 1
    \/ is = "there"

ThisTerm == Tests[frame.test].terms[frame.term]

\* The frame after the term has come out as `holds'.
Decided(holds) ==
    LET found == IF frame.case = "none" THEN Tests[frame.test].case ELSE frame.case
        next  == [frame EXCEPT !.term = 1, !.via = Unread, !.test = @ + 1]
        ends  == frame.test = Len(Tests) \/ Tests[frame.test].group # Tests[frame.test + 1].group
    IN IF holds /\ frame.term < Len(Tests[frame.test].terms)
         THEN [frame EXCEPT !.term = @ + 1, !.via = Unread]
       ELSE IF ends /\ (holds \/ frame.case # "none") THEN [frame EXCEPT !.pc = "call", !.case = found]
       ELSE IF frame.test = Len(Tests) THEN Descent(frame.parent, frame.side, "first")
       ELSE IF holds THEN [next EXCEPT !.case = found]
       ELSE next

Crash == Becomes([frame EXCEPT !.pc = "NULL followed"])

-----------------------------------------------------------------------------
(***************************************************************************)
(* The actions                                                             *)
(***************************************************************************)
\* rebalancingThreadOperation.
StartPass ==
    /\ scan = <<>> /\ script[phase].scans
    /\ scan' = <<Descent(Root, "left", "first")>>
    /\ Unchanged

\* rebalance is entered: nothing to do for NULL and for a record that has no
\* child at all.
Childless(n) == \A side \in Sides : Child(n, side) = Null

Enter ==
    /\ Scans("entry")
    /\ Unchanged
    /\ IF frame.node = Null \/ Childless(frame.node) THEN scan' = Tail(scan)
       ELSE IF frame.parent = Null THEN Crash
       ELSE Becomes([frame EXCEPT !.pc = "test", !.side = SideOf(frame.parent, frame.node)])

\* One term about a child of the node, and the last one of case 1.  Every other
\* term reads a field of the child.
ReadChild ==
    /\ Scans("test") /\ Len(ThisTerm.path) < 2
    /\ Unchanged
    /\ IF ThisTerm.is = "top"
       THEN Becomes(Decided(frame.parent = Child(Root, "left") \/ Weight(frame.node) > 0))
       ELSE LET n == Child(frame.node, ThisTerm.path[1]) IN
            IF n = Null THEN Crash ELSE Becomes(Decided(Holds(ThisTerm.is, n)))

\* One term about a child of a child: two reads.
ReadVia ==
    /\ Scans("test") /\ Len(ThisTerm.path) = 2 /\ frame.via = Unread
    /\ Unchanged
    /\ Becomes([frame EXCEPT !.via = Child(frame.node, ThisTerm.path[1])])

ReadGrandchild ==
    /\ Scans("test") /\ Len(ThisTerm.path) = 2 /\ frame.via # Unread
    /\ Unchanged
    /\ IF frame.via = Null THEN Crash
       ELSE LET n == Child(frame.via, ThisTerm.path[2]) IN
            IF n # Null THEN Becomes(Decided(Holds(ThisTerm.is, n)))
            ELSE IF ThisTerm.is = "there" THEN Becomes(Decided(FALSE))
            ELSE Crash

StillThere ==
    /\ frame.parent \notin finalized
    /\ \E side \in Sides : Child(frame.parent, side) = frame.node

\* The function for the case, at the step in which its SCX succeeds ...
Call ==
    /\ Scans("call") /\ StillThere
    /\ tryRebalance(frame.case, frame.parent, frame.node)
    /\ numRebalOps' = numRebalOps + 1
    /\ scan' = Tail(scan)
    /\ UNCHANGED <<script, phase, todo, pc, at, answer>>

\* ... or fails: others are at work, or the tree is no longer the one on which
\* the case was found.
CallFails ==
    /\ Scans("call")
    /\ \/ \E p \in Threads : pc[p] # "idle"
       \/ ~StillThere
       \/ CaseAt(frame.parent, frame.node) # frame.case
    /\ scan' = Tail(scan)
    /\ Unchanged

\* rebalance(parent->left->left, parent->left) and its like: the arguments
\* are computed in any order.
Pending == frame.pc \in {"first", "second"}
Turn == IF frame.pc = "first" THEN "left" ELSE "right"

ReadParent ==
    /\ scan # <<>> /\ Pending /\ frame.above = Unread
    /\ Becomes([frame EXCEPT !.above = Child(frame.parent, frame.side)])
    /\ Unchanged

ReadNode ==
    /\ scan # <<>> /\ Pending /\ frame.child = Unread
    /\ Unchanged
    /\ IF frame.via = Unread THEN Becomes([frame EXCEPT !.via = Child(frame.parent, frame.side)])
       ELSE IF frame.via = Null THEN Crash
       ELSE Becomes([frame EXCEPT !.child = Child(frame.via, Turn)])

\* Mutant: the second child is left out.
RecurseLeftOnly ==
    /\ scan # <<>> /\ Pending /\ frame.child # Unread /\ frame.above # Unread
    /\ scan' = <<Frame(frame.child, frame.above)>> \o Tail(scan)
    /\ Unchanged

Recurse ==
    /\ scan # <<>> /\ Pending /\ frame.child # Unread /\ frame.above # Unread
    /\ scan' = <<Frame(frame.child, frame.above)>>
                 \o (IF frame.pc = "first" THEN <<Descent(frame.parent, frame.side, "second")>> ELSE <<>>)
                 \o Tail(scan)
    /\ Unchanged

ScanStep ==
    \/ StartPass \/ Enter \/ ReadChild \/ ReadVia \/ ReadGrandchild
    \/ Call \/ CallFails \/ ReadParent \/ ReadNode \/ Recurse

ScanNext ==
    \/ Next /\ UNCHANGED scan
    \/ ScanStep /\ Observe

ScanSpec == ScanInit /\ [][ScanNext]_scanVars

\* Every thread is scheduled again and again, this one included.
ScanFairSpec ==
    /\ ScanSpec
    /\ WF_phase(NextPhase)
    /\ \A p \in Threads : WF_<<pc, at>>(Step(p))
    /\ WF_scan(ScanStep)

-----------------------------------------------------------------------------
(***************************************************************************)
(* Properties                                                              *)
(***************************************************************************)
\* A rebalancing thread that runs all the time never follows a NULL pointer,
\* and in the end leaves a tree in which rebalance finds no case: no pass
\* stops above one, however the tree changed while it was looked at.
ScansSettle ==
    /\ [](scan # <<>> => frame.pc # "NULL followed")
    /\ <>[](script[phase].scans => Quiet)
=============================================================================
