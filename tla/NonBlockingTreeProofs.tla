----------------------- MODULE NonBlockingTreeProofs -----------------------
(***************************************************************************)
(* The non-blocking tree stays a tree: an inductive invariant of the       *)
(* operations that run together on it, whatever they are, and what follows *)
(* for the records that can be reached.  As long as nothing is deleted it  *)
(* is also a linearizable set of keys, keeps what was inserted, and has    *)
(* weights that are even and, when rebalancing is through, balanced.       *)
(***************************************************************************)
EXTENDS NonBlockingTree, ChromaticTreeProofs, FiniteSetTheorems

SearchLabels == {"search", "insertCheck", "insertLlxLeaf", "insertScx"}
After3 == {"deleteLlx3", "deleteScx"}
After2 == {"deleteLlx2", "deleteRead3"} \cup After3
After1 == {"deleteLlx1", "deleteRead2"} \cup After2
After0 == {"deleteRead1"} \cup After1

Below(rank, m, n) == m \in Record /\ n \in Record /\ rank[m] < rank[n]

\* Where a thread stands that has the records of frame in hand: it goes down
\* from record to record, and what it read of a record is still so while it
\* holds the reservation it made before.
StandsAt(label, frame, op, links, rank) ==
    /\ \A local \in {"n0", "n1", "n2", "n3"} : frame[local] \in {Null} \cup Record
    /\ label \notin {"idle", "root"} => frame.n1 # Null /\ frame.n2 # Null
    /\ label \in SearchLabels =>
          /\ Below(rank, frame.n2, frame.n1) /\ ~IsLeaf(frame.n1)
          /\ Child(frame.n1, Opposite(Toward(frame.n1, op.key))) # frame.n2
    /\ label \in SearchLabels \ {"search"} => IsLeaf(frame.n2) /\ op.kind = "insert"
    /\ label \in {"insertLlxLeaf", "insertScx"} /\ frame.n1 \in links =>
          \E side \in Sides : Child(frame.n1, side) = frame.n2
    /\ label \in After0 => frame.n0 # Null /\ op.kind = "delete"
    /\ label \in After1 =>
          /\ Below(rank, frame.n1, frame.n0)
          /\ frame.n0 \in links => Child(frame.n0, Toward(frame.n0, op.key)) = frame.n1
    /\ label \in After2 =>
          /\ Below(rank, frame.n2, frame.n1)
          /\ frame.n1 \in links => Child(frame.n1, Toward(frame.n1, op.key)) = frame.n2
    /\ label \in After3 =>
          /\ Below(rank, frame.n3, frame.n1)
          /\ frame.n1 \in links =>
                Child(frame.n1, Opposite(Toward(frame.n1, op.key))) = frame.n3
Stands(p, rank) == StandsAt(pc[p], at[p], Head(todo[p]), linked[p], rank)

\* What is left to do is in the script.
Scripted(p) ==
    \A i \in DOMAIN todo[p] :
       \E j \in DOMAIN script[phase].work[p] : todo[p][i] = script[phase].work[p][j]

\* The shape of the heap, and the threads in it.
Shape(rank, top) ==
    /\ Forest /\ Ranked(rank, top) /\ Key(Root) = MaxKey
    /\ \A p \in Threads : linked[p] \subseteq Live /\ Stands(p, rank)
IsShaped == \E rank, top : Shape(rank, top)

\* The records a thread has in hand.
Frame == [n0 : Nat, n1 : Nat, n2 : Nat, n3 : Nat]
Answered == Kinds \cup {"none", "absent", "found", "not found"}

\* The types that do not depend on the heap.
Local ==
    /\ numRebalOps \in Nat
    /\ script \in Scripts /\ phase \in DOMAIN script
    /\ todo \in [Threads -> Seq(Operation)]
    /\ pc \in [Threads -> Labels]
    /\ at \in [Threads -> Frame]
    /\ linked \in [Threads -> SUBSET Nat]
    /\ answer \in [Threads -> Answered]
    /\ seen \in [Threads -> SUBSET BOOLEAN]
    /\ \A p \in Threads : Scripted(p) /\ (pc[p] # "idle" => todo[p] # <<>>)

-----------------------------------------------------------------------------
(***************************************************************************)
(* The types                                                               *)
(***************************************************************************)
\* A step of p, seen from p: it moves on, or its operation is over.
Goes(p) ==
    \E label, frame :
       /\ label \in Labels /\ frame \in Frame
       /\ pc' = [pc EXCEPT ![p] = label] /\ at' = [at EXCEPT ![p] = frame]
       /\ linked' \in [Threads -> SUBSET Nat]
       /\ answer' \in [Threads -> Answered]
       /\ UNCHANGED <<numRebalOps, script, phase>>
       /\ \/ todo' = todo
          \/ label = "idle" /\ todo' = [todo EXCEPT ![p] = Tail(@)]
       /\ todo[p] # <<>>

\* The tail of a sequence holds what the sequence held.
LEMMA TailIs ==
    ASSUME NEW S, NEW s \in Seq(S), s # <<>>
    PROVE  /\ Tail(s) \in Seq(S)
           /\ \A i \in DOMAIN Tail(s) : i + 1 \in DOMAIN s /\ Tail(s)[i] = s[i + 1]
OBVIOUS

\* The observations of keys are of the right type.
LEMMA ObserveType ==
    ASSUME seen \in [Threads -> SUBSET BOOLEAN], Observe
    PROVE  seen' \in [Threads -> SUBSET BOOLEAN]
<1>1. \A p \in Threads : seen[p] \in SUBSET BOOLEAN
    OBVIOUS
<1>2. \A p \in Threads :
         (IF pc[p] # "idle" THEN seen[p] \cup {key(p) \in Present'}
          ELSE IF pc'[p] # "idle" THEN {key(p) \in Present}
          ELSE seen[p]) \in SUBSET BOOLEAN
  <2> TAKE p \in Threads
  <2>1. /\ seen[p] \cup {key(p) \in Present'} \in SUBSET BOOLEAN
        /\ {key(p) \in Present} \in SUBSET BOOLEAN
    <3>1. (key(p) \in Present') \in BOOLEAN /\ (key(p) \in Present) \in BOOLEAN
        OBVIOUS
    <3>2. seen[p] \in SUBSET BOOLEAN
        BY <1>1
    <3> QED BY <3>1, <3>2, Zenon
  <2> QED BY <1>1, <2>1, Zenon
<1> QED BY <1>2 DEF Observe

\* A step by which one thread goes on keeps the variables within their types.
LEMMA GoesLocal ==
    ASSUME Local, NEW p \in Threads, Goes(p), Observe
    PROVE  Local'
<1>1. PICK label, frame :
       /\ label \in Labels /\ frame \in Frame
       /\ pc' = [pc EXCEPT ![p] = label] /\ at' = [at EXCEPT ![p] = frame]
       /\ linked' \in [Threads -> SUBSET Nat]
       /\ answer' \in [Threads -> Answered]
       /\ UNCHANGED <<numRebalOps, script, phase>>
       /\ \/ todo' = todo
          \/ label = "idle" /\ todo' = [todo EXCEPT ![p] = Tail(@)]
       /\ todo[p] # <<>>
    BY DEF Goes
<1>2. seen' \in [Threads -> SUBSET BOOLEAN]
    BY ObserveType DEF Local
<1>3. pc' \in [Threads -> Labels] /\ at' \in [Threads -> Frame]
    BY <1>1 DEF Local
<1>4. todo[p] \in Seq(Operation) /\ todo \in [Threads -> Seq(Operation)]
    BY DEF Local
<1>5. /\ Tail(todo[p]) \in Seq(Operation)
      /\ \A i \in DOMAIN Tail(todo[p]) :
            i + 1 \in DOMAIN todo[p] /\ Tail(todo[p])[i] = todo[p][i + 1]
    BY <1>1, <1>4, TailIs
<1>6. todo' \in [Threads -> Seq(Operation)]
    BY <1>1, <1>4, <1>5
<1>7. ASSUME NEW q \in Threads
      PROVE  Scripted(q)' /\ (pc'[q] # "idle" => todo'[q] # <<>>)
  <2>1. Scripted(q) /\ (pc[q] # "idle" => todo[q] # <<>>)
      BY DEF Local
  <2>2. CASE q # p \/ todo' = todo
    <3>1. todo'[q] = todo[q]
        BY <1>1, <1>4, <2>2
    <3>2. pc'[q] # "idle" => todo'[q] # <<>>
        BY <1>1, <2>1, <3>1 DEF Local
    <3>3. Scripted(q)'
        BY <1>1, <2>1, <3>1 DEF Scripted
    <3> QED BY <3>2, <3>3
  <2>3. CASE q = p /\ todo' # todo
    <3>1. todo'[q] = Tail(todo[p]) /\ pc'[q] = "idle"
        BY <1>1, <1>4, <2>3 DEF Local
    <3>2. Scripted(q)'
        BY <1>1, <1>5, <2>1, <2>3, <3>1 DEF Scripted
    <3> QED BY <3>1, <3>2
  <2> QED BY <2>2, <2>3
<1> QED BY <1>1, <1>2, <1>3, <1>6, <1>7 DEF Local

\* The four records that a thread has in hand, and the frames it may take next.
LEMMA FrameIs ==
    ASSUME Local, NEW p \in Threads
    PROVE  /\ n0(p) \in Nat /\ n1(p) \in Nat /\ n2(p) \in Nat /\ n3(p) \in Nat
           /\ at[p] \in Frame /\ NoWhere \in Frame
           /\ \A a, b, c, d \in Nat : [n0 |-> a, n1 |-> b, n2 |-> c, n3 |-> d] \in Frame
           /\ \A m \in Nat : /\ [at[p] EXCEPT !["n1"] = m] \in Frame
                             /\ [at[p] EXCEPT !["n2"] = m] \in Frame
                             /\ [at[p] EXCEPT !["n3"] = m] \in Frame
<1>1. at[p] \in Frame
    BY DEF Local
<1>2. NoWhere \in Frame
    BY DEF NoWhere, Frame, Null
<1> QED BY <1>1, <1>2 DEF Frame, n0, n1, n2, n3

\* A child is a record or Null, both of which are numbers.
LEMMA ChildIsNat ==
    ASSUME Forest, NEW n \in Record, NEW s \in Sides
    PROVE  Child(n, s) \in Nat
BY FreshNames DEF Forest, Null

\* A search turns to one of the two sides.
LEMMA TowardSide ==
    ASSUME NEW n, NEW k
    PROVE  Toward(n, k) \in Sides /\ Opposite(Toward(n, k)) \in Sides
BY DEF Toward, Opposite, Sides

\* A retry from the root is a step by which one thread goes on.
LEMMA RetryGoes ==
    ASSUME Local, NEW p \in Threads, Retry(p), todo[p] # <<>>
    PROVE  Goes(p)
<1>1. linked' \in [Threads -> SUBSET Nat]
    BY DEF Local, Retry
<1>2. "root" \in Labels /\ NoWhere \in Frame
    BY FrameIs DEF Labels
<1> QED BY <1>1, <1>2 DEF Local, Retry, Rest, Goto, Goes

\* So is an answer.
LEMMA AnswersGoes ==
    ASSUME Local, NEW p \in Threads, NEW result \in Answered, Answers(p, result),
           UNCHANGED <<numRebalOps, script, phase>>, linked' \in [Threads -> SUBSET Nat],
           todo[p] # <<>>
    PROVE  Goes(p)
<1>1. answer' \in [Threads -> Answered]
    BY DEF Local, Answers
<1>2. "idle" \in Labels /\ NoWhere \in Frame
    BY FrameIs DEF Labels
<1> QED BY <1>1, <1>2 DEF Answers, Goto, Goes

\* So is an LLX, whether it makes a reservation or fails.
LEMMA LlxGoes ==
    ASSUME Local, NEW p \in Threads, NEW n \in Nat, NEW next \in Labels, LLX(p, n, next),
           todo[p] # <<>>
    PROVE  Goes(p)
<1>1. CASE n \in finalized
    BY <1>1, RetryGoes DEF LLX
<1>2. CASE n \notin finalized
  <2>1. linked' \in [Threads -> SUBSET Nat]
    <3>1. linked \in [Threads -> SUBSET Nat] /\ linked[p] \in SUBSET Nat
        BY DEF Local
    <3>2. linked[p] \cup {n} \in SUBSET Nat
        BY <3>1
    <3>3. linked' = [linked EXCEPT ![p] = linked[p] \cup {n}]
        BY <1>2 DEF LLX
    <3> QED BY <3>1, <3>2, <3>3
  <2>2. at' = [at EXCEPT ![p] = at[p]] /\ at[p] \in Frame
      BY <1>2, FrameIs DEF LLX, Local
  <2> QED BY <1>2, <2>1, <2>2, ZenonT(40) DEF Local, LLX, Rest, Goto, Goes
<1> QED BY <1>1, <1>2

\* So is the read of a child, which retries when there is none.
LEMMA ReadGoes ==
    ASSUME Local, NEW p \in Threads, NEW local \in {"n1", "n2", "n3"}, NEW n \in Nat,
           NEW next \in Labels, Read(p, local, n, next), todo[p] # <<>>
    PROVE  Goes(p)
<1>1. CASE n = Null
    BY <1>1, RetryGoes DEF Read
<1>2. CASE n # Null
  <2>1. PICK frame : frame = [at[p] EXCEPT ![local] = n]
      OBVIOUS
  <2>2. frame \in Frame
      BY <2>1, FrameIs
  <2>3. at' = [at EXCEPT ![p] = frame]
      BY <1>2, <2>1 DEF Read, Set
  <2> QED BY <1>2, <2>2, <2>3 DEF Local, Read, Rest, treeVars, Goto, Goes
<1> QED BY <1>1, <1>2

\* Every step of p moves it on.
LEMMA StepGoes ==
    ASSUME Local, NEW rank, NEW top, Shape(rank, top), NEW p \in Threads, Step(p)
    PROVE  Goes(p)
<1>0. /\ Forest /\ Stands(p, rank) /\ todo[p] \in Seq(Operation)
      /\ pc[p] # "idle" => todo[p] # <<>>
      /\ n0(p) \in Nat /\ n1(p) \in Nat /\ n2(p) \in Nat /\ n3(p) \in Nat
      /\ linked \in [Threads -> SUBSET Nat]
    BY FrameIs DEF Local, Shape
<1>l. /\ "root" \in Labels /\ "search" \in Labels /\ "insertCheck" \in Labels
      /\ "insertLlxLeaf" \in Labels /\ "insertScx" \in Labels /\ "deleteRead1" \in Labels
      /\ "deleteLlx1" \in Labels /\ "deleteRead2" \in Labels /\ "deleteLlx2" \in Labels
      /\ "deleteRead3" \in Labels /\ "deleteLlx3" \in Labels /\ "deleteScx" \in Labels
    BY DEF Labels
<1>r. \A n \in {Null} \cup Record : n \in Nat /\ (n # Null => n \in Record)
    BY <1>0, FreshNames DEF Null
<1>n. /\ pc[p] \notin {"idle", "root"} => n1(p) \in Record /\ n2(p) \in Record
      /\ n0(p) # Null => n0(p) \in Record
  <2>1. {n0(p), n1(p), n2(p), n3(p)} \subseteq {Null} \cup Record
      BY <1>0 DEF Stands, StandsAt, n0, n1, n2, n3
  <2> QED BY <1>0, <1>r, <2>1 DEF Stands, StandsAt, n1, n2
<1>h. /\ "found" \in Answered /\ "not found" \in Answered /\ "absent" \in Answered
      /\ "none" \in Answered
      /\ todo[p] # <<>> => kind(p) \in Answered /\ key(p) \in Keys
  <2>1. todo[p] # <<>> => Head(todo[p]) \in Operation
      BY <1>0
  <2> QED BY <2>1 DEF Answered, Operation, kind, key
<1>1. CASE Begin(p)
  <2>1. at' = [at EXCEPT ![p] = at[p]] /\ at[p] \in Frame
      BY <1>1, FrameIs DEF Begin, Local
  <2>2. answer' \in [Threads -> Answered]
      BY <1>1, <1>h DEF Begin, Local
  <2> QED BY <1>0, <1>l, <1>1, <2>1, <2>2 DEF Begin, Goes, Goto, treeVars
<1>2. CASE SearchRoot(p)
  <2>1. PICK m : m = Child(Root, "left")
      OBVIOUS
  <2>2. m \in Nat /\ Root \in Nat /\ Null \in Nat
    <3>1. Root \in Record /\ "left" \in Sides
        BY <1>0 DEF Forest, Sides
    <3> QED BY <1>0, <1>r, <2>1, <3>1, ChildIsNat
  <2>3. PICK frame : frame = [NoWhere EXCEPT !.n1 = Root, !.n2 = m]
      OBVIOUS
  <2>4. frame = [n0 |-> Null, n1 |-> Root, n2 |-> m, n3 |-> Null]
      BY <2>3 DEF NoWhere
  <2>5. frame \in Frame
      BY <2>2, <2>4, FrameIs
  <2>6. at' = [at EXCEPT ![p] = frame]
      BY <1>2, <2>1, <2>3 DEF SearchRoot
  <2> QED BY <1>0, <1>l, <1>2, <2>5, <2>6 DEF SearchRoot, Goes, Goto, At, treeVars, Rest, Local
<1>3. CASE SearchDown(p)
  <2>1. PICK m : m = Child(n2(p), Toward(n2(p), key(p)))
      OBVIOUS
  <2>2. pc[p] = "search"
      BY <1>3 DEF SearchDown, At
  <2>3. m \in Nat /\ Null \in Nat
      BY <1>0, <1>n, <1>r, <2>1, <2>2, ChildIsNat, TowardSide
  <2>4. PICK frame : frame = [n0 |-> n1(p), n1 |-> n2(p), n3 |-> Null, n2 |-> m]
      OBVIOUS
  <2>5. frame \in Frame
      BY <1>0, <2>3, <2>4 DEF Frame
  <2>6. at' = [at EXCEPT ![p] = frame]
      BY <1>3, <2>1, <2>4 DEF SearchDown
  <2>7. pc' = [pc EXCEPT ![p] = "search"]
      BY <1>3, <2>2 DEF SearchDown, Local
  <2> QED BY <1>0, <1>l, <1>3, <2>2, <2>5, <2>6, <2>7 DEF SearchDown, Goes, treeVars, Rest, Local
<1>4. CASE GetNode(p)
  <2>1. pc[p] = "search" /\ linked' = linked /\ UNCHANGED <<numRebalOps, script, phase>>
      BY <1>4 DEF GetNode, Arrived, At, treeVars
  <2>2. \E result \in Answered : Answers(p, result)
    <3>1. PICK result : result = IF Key(n2(p)) = key(p) THEN "found" ELSE "not found"
        OBVIOUS
    <3>2. result \in Answered
        BY <1>h, <3>1
    <3> QED BY <1>4, <3>1, <3>2 DEF GetNode
  <2> QED BY <1>0, <2>1, <2>2, AnswersGoes
<1>5. CASE InsertLlxParent(p)
    BY <1>0, <1>l, <1>5, LlxGoes DEF InsertLlxParent, Arrived, At
<1>6. CASE InsertCheck(p)
  <2>1. pc[p] = "insertCheck"
      BY <1>6 DEF InsertCheck, At
  <2>2. CASE Retry(p)
      BY <1>0, <2>1, <2>2, RetryGoes
  <2>3. CASE ~Retry(p)
    <3>1. at' = [at EXCEPT ![p] = at[p]] /\ at[p] \in Frame
        BY <1>6, <2>3, FrameIs DEF InsertCheck, Local
    <3> QED BY <1>0, <1>l, <1>6, <2>1, <2>3, <3>1
            DEF InsertCheck, Goes, Goto, treeVars, Rest, Local
  <2> QED BY <2>2, <2>3
<1>7. CASE InsertLlxLeaf(p)
    BY <1>0, <1>l, <1>7, LlxGoes DEF InsertLlxLeaf, At
<1>s. ASSUME NEW links, NEW parent, NEW old, NEW keep, NEW drop, NEW fresh,
             SCX(p, links, Swing(parent, old, keep, drop, fresh)), pc[p] # "idle"
      PROVE  Goes(p)
  <2>1. CASE Retry(p)
      BY <1>0, <1>s, <2>1, RetryGoes
  <2>2. CASE ~Retry(p)
    <3>1. /\ Swing(parent, old, keep, drop, fresh) /\ Answers(p, kind(p))
          /\ UNCHANGED <<numRebalOps, script, phase>>
        BY <1>s, <2>2 DEF SCX
    <3>2. linked' \in [Threads -> SUBSET Nat]
        BY <1>0, <3>1 DEF Swing
    <3> QED BY <1>0, <1>h, <1>s, <3>1, <3>2, AnswersGoes
  <2> QED BY <2>1, <2>2
<1>8. CASE InsertScx(p)
  <2>1. PICK fresh : fresh = << IF key(p) < Key(n2(p))
             THEN Rec(Key(n2(p)), InsertedWeight(n2(p)), New(2), n2(p))
             ELSE Rec(key(p), InsertedWeight(n2(p)), n2(p), New(2)), Leaf(key(p), 1) >>
      OBVIOUS
  <2>2. SCX(p, {n1(p), n2(p)}, Swing(n1(p), n2(p), {n2(p)}, {}, fresh)) /\ pc[p] # "idle"
      BY <1>8, <2>1 DEF InsertScx, Insert, At
  <2> QED BY <1>s, <2>2
<1>9. CASE DeleteFromEmpty(p)
    BY <1>0, <1>9, RetryGoes DEF DeleteFromEmpty, Arrived, At
<1>10. CASE DeleteLlx0(p)
    BY <1>0, <1>l, <1>10, LlxGoes DEF DeleteLlx0, Arrived, At
<1>11. CASE DeleteRead1(p)
  <2>1. PICK m : m = Child(n0(p), Toward(n0(p), key(p)))
      OBVIOUS
  <2>2. pc[p] = "deleteRead1" /\ Read(p, "n1", m, "deleteLlx1")
      BY <1>11, <2>1 DEF DeleteRead1, At
  <2>3. m \in Nat
      BY <1>0, <2>1, <2>2, <1>n, ChildIsNat, TowardSide DEF Stands, StandsAt, After0, n0
  <2> QED BY <1>0, <1>l, <2>2, <2>3, ReadGoes
<1>12. CASE DeleteLlx1(p)
    BY <1>0, <1>l, <1>12, LlxGoes DEF DeleteLlx1, At
<1>13. CASE DeleteRead2(p)
  <2>1. PICK m : m = Child(n1(p), Toward(n1(p), key(p)))
      OBVIOUS
  <2>2. pc[p] = "deleteRead2"
      BY <1>13 DEF DeleteRead2, At
  <2>3. m \in Nat
      BY <1>0, <1>n, <2>1, <2>2, ChildIsNat, TowardSide
  <2>4. CASE Read(p, "n2", m, "deleteLlx2")
      BY <1>0, <1>l, <2>2, <2>3, <2>4, ReadGoes
  <2>5. CASE ~Read(p, "n2", m, "deleteLlx2")
    <3>1. /\ Answers(p, "absent") /\ linked' = [linked EXCEPT ![p] = {}]
          /\ UNCHANGED <<numRebalOps, script, phase>>
        BY <1>13, <2>1, <2>5 DEF DeleteRead2
    <3>2. linked' \in [Threads -> SUBSET Nat]
        BY <1>0, <3>1
    <3> QED BY <1>0, <1>h, <2>2, <3>1, <3>2, AnswersGoes
  <2> QED BY <2>4, <2>5
<1>14. CASE DeleteLlx2(p)
    BY <1>0, <1>l, <1>14, LlxGoes DEF DeleteLlx2, At
<1>15. CASE DeleteRead3(p)
  <2>1. PICK m : m = Child(n1(p), Opposite(Toward(n1(p), key(p))))
      OBVIOUS
  <2>2. pc[p] = "deleteRead3" /\ Read(p, "n3", m, "deleteLlx3")
      BY <1>15, <2>1 DEF DeleteRead3, At
  <2>3. m \in Nat
      BY <1>0, <1>n, <2>1, <2>2, ChildIsNat, TowardSide
  <2> QED BY <1>0, <1>l, <2>2, <2>3, ReadGoes
<1>16. CASE DeleteLlx3(p)
    BY <1>0, <1>l, <1>16, LlxGoes DEF DeleteLlx3, At
<1>17. CASE DeleteScx(p)
  <2>1. PICK fresh : fresh = Deleted(n0(p), n1(p), n3(p))
      OBVIOUS
  <2>2. /\ SCX(p, {n0(p), n1(p), n2(p), n3(p)},
              Swing(n0(p), n1(p), {}, {n1(p), n2(p), n3(p)}, fresh))
        /\ pc[p] # "idle"
      BY <1>17, <2>1 DEF DeleteScx, Delete, Deleted, At
  <2> QED BY <1>s, <2>2
<1> QED BY <1>1, <1>2, <1>3, <1>4, <1>5, <1>6, <1>7, <1>8, <1>9, <1>10, <1>11, <1>12, <1>13,
           <1>14, <1>15, <1>16, <1>17 DEF Step

\* A step that is not one of the threads' leaves them where they are.
LEMMA RestLocal ==
    ASSUME Local, NEW rank, NEW top, Shape(rank, top), Rebalance \/ NextPhase, Observe
    PROVE  Local'
<1>1. seen' \in [Threads -> SUBSET BOOLEAN]
    BY ObserveType DEF Local
<1>2. CASE Rebalance
  <2>1. PICK parent \in Live \ {Root}, side \in Sides,
             case \in {"1", "2A", "2B", "3A", "3B", "4", "5A", "5B"} :
           Child(parent, side) # Null /\ tryRebalance(case, parent, Child(parent, side))
      BY <1>2 DEF Rebalance, Live
  <2>2. PICK node : node = Child(parent, side)
      OBVIOUS
  <2>3. node \in Record /\ Forest /\ Ranked(rank, top)
      BY <2>1, <2>2 DEF Shape, Forest, Live
  <2>4. Keeps(rank, parent, node)
      BY <2>1, <2>2, <2>3, RebalanceKeeps
  <2>5. PICK keep, drop, fresh : Swing(parent, node, keep, drop, fresh)
      BY <2>4 DEF Keeps
  <2>6. linked' \in [Threads -> SUBSET Nat]
    <3>1. linked' = [q \in Threads |-> linked[q] \ ({parent} \cup keep \cup drop)]
        BY <2>5 DEF Swing
    <3>2. \A q \in Threads : linked[q] \ ({parent} \cup keep \cup drop) \in SUBSET Nat
        BY DEF Local
    <3> QED BY <3>1, <3>2
  <2>7. numRebalOps' \in Nat
      BY <1>2 DEF Rebalance, Local
  <2>8. \A p \in Threads : Scripted(p)'
    <3>1. todo' = todo /\ script' = script /\ phase' = phase
        BY <1>2 DEF Rebalance
    <3>2. \A p \in Threads : Scripted(p)
        BY DEF Local
    <3> QED BY <3>1, <3>2 DEF Scripted
  <2> QED BY <1>1, <1>2, <2>6, <2>7, <2>8 DEF Rebalance, Local
<1>3. CASE NextPhase
  <2>1. script \in Seq(Phase) /\ phase \in DOMAIN script
      BY ScriptsAssumption DEF Local
  <2>2. phase' \in DOMAIN script
      BY <1>3, <2>1 DEF NextPhase
  <2>3. script[phase'] \in Phase /\ todo' = script[phase'].work
      BY <1>3, <2>1, <2>2 DEF NextPhase
  <2>4. todo' \in [Threads -> Seq(Operation)]
      BY <2>3 DEF Phase
  <2>5. \A p \in Threads : Scripted(p)' /\ pc'[p] = "idle"
      BY <1>3, <2>3, <2>4 DEF NextPhase, At, Scripted
  <2> QED BY <1>1, <1>3, <2>2, <2>4, <2>5 DEF NextPhase, Local, treeVars
<1> QED BY <1>2, <1>3

\* The initial values have their types.
LEMMA InitLocal == Init => Local
<1> SUFFICES ASSUME Init PROVE Local
    OBVIOUS
<1>1. script \in Seq(Phase) /\ 1 \in DOMAIN script
    BY ScriptsAssumption DEF Init
<1>2. todo = script[1].work /\ todo \in [Threads -> Seq(Operation)]
  <2>1. script[1] \in Phase
      BY <1>1
  <2> QED BY <2>1 DEF Init, Phase
<1>3. "idle" \in Labels /\ NoWhere \in Frame /\ "none" \in Answered
    BY DEF Labels, NoWhere, Frame, Null, Answered
<1>4. linked \in [Threads -> SUBSET Nat]
    BY DEF Init, TreeInit
<1> QED BY <1>1, <1>2, <1>3, <1>4 DEF Init, Local, Scripted

-----------------------------------------------------------------------------
(***************************************************************************)
(* The shape                                                               *)
(***************************************************************************)
\* The three sentinels that main.cpp begins with are a forest with ranks.
LEMMA InitShape == Init => IsShaped
<1> SUFFICES ASSUME Init PROVE IsShaped
    OBVIOUS
<1>h. PICK h : h = <<Rec(MaxKey, 1, 2, 3), Leaf(MaxKey, 1), Leaf(MaxKey, 1)>>
    OBVIOUS
<1>c. /\ Rec(MaxKey, 1, 2, 3) \in Cell /\ Leaf(MaxKey, 1) \in Cell
      /\ Leaf(MaxKey, 1)["left"] = 0 /\ Leaf(MaxKey, 1)["right"] = 0
      /\ Rec(MaxKey, 1, 2, 3)["left"] = 2 /\ Rec(MaxKey, 1, 2, 3)["right"] = 3
    BY DEF Leaf, Rec, Cell, Null
<1>1. /\ h \in Seq(Cell) /\ DOMAIN h = {1, 2, 3}
      /\ h[1]["left"] = 2 /\ h[1]["right"] = 3
      /\ h[2]["left"] = 0 /\ h[2]["right"] = 0
      /\ h[3]["left"] = 0 /\ h[3]["right"] = 0
  <2>1. h = <<Rec(MaxKey, 1, 2, 3), Leaf(MaxKey, 1), Leaf(MaxKey, 1)>>
      BY <1>h
  <2>2. /\ h \in Seq(Cell) /\ Len(h) = 3
        /\ h[1] = Rec(MaxKey, 1, 2, 3) /\ h[2] = Leaf(MaxKey, 1) /\ h[3] = Leaf(MaxKey, 1)
      BY <1>c, <2>1
  <2> QED BY <1>c, <2>2
<1>2. heap = h /\ finalized = {} /\ linked = [q \in Threads |-> {}]
    BY <1>h DEF Init, TreeInit
<1>3. Forest
    BY <1>1, <1>2 DEF Forest, Root, Record, Child, IsLeaf, Sides, Null, Live
<1>4. PICK rank : rank = [n \in {1, 2, 3} |-> IF n = 1 THEN 1 ELSE 0]
    OBVIOUS
<1>5. Ranked(rank, 1)
    BY <1>1, <1>2, <1>4 DEF Ranked, Record, Child, Sides, Null
<1>6. \A p \in Threads : linked[p] \subseteq Live /\ Stands(p, rank)
    BY <1>2 DEF Init, Stands, StandsAt, NoWhere, SearchLabels, After0, After1, After2, After3
<1>7. Key(Root) = MaxKey
    BY <1>2, <1>h DEF Key, Root, Rec
<1> QED BY <1>3, <1>5, <1>6, <1>7 DEF Shape, IsShaped

\* A thread that does not move while the heap stays as it is.
LEMMA StandsStill ==
    ASSUME heap' = heap, NEW label, NEW frame, NEW op, NEW links, NEW rank,
           StandsAt(label, frame, op, links, rank)
    PROVE  StandsAt(label, frame, op, links, rank)'
BY DEF StandsAt, Below, IsLeaf, Child, Toward, Key, Record

\* A thread that does not move while the heap changes at a record on which it
\* holds no reservation then.
LEMMA StandsFirm ==
    ASSUME Forest, NEW parent, Evolves(parent), NEW rank, NEW r,
           \A n, m \in Record : rank[n] < rank[m] => r[n] < r[m],
           NEW label, NEW frame, NEW op, NEW links, NEW fewer,
           fewer \subseteq links \ {parent},
           StandsAt(label, frame, op, links, rank)
    PROVE  StandsAt(label, frame, op, fewer, r)'
<1>r. Null \notin Record /\ Record \subseteq Record'
    BY FreshNames DEF Evolves
<1>1. \A n, m : Below(rank, n, m) => Below(r, n, m)'
    BY <1>r DEF Below
<1>2. \A n \in Record : \A k : Toward(n, k)' = Toward(n, k) /\ Toward(n, k) \in Sides
                           /\ Opposite(Toward(n, k)) \in Sides
    BY TowardSide DEF Evolves, Toward
<1>3. \A n \in Record : IsLeaf(n)' <=> IsLeaf(n)
  <2> TAKE n \in Record
  <2>1. \A s \in Sides : Child(n, s)' = Null <=> Child(n, s) = Null
      BY DEF Evolves
  <2> QED BY <2>1 DEF IsLeaf, Sides
<1>4. \A n, m \in Record, s \in Sides : Child(n, s) # m => Child(n, s)' # m
    BY DEF Evolves
<1>5. \A n \in Record \ {parent}, s \in Sides : Child(n, s)' = Child(n, s)
    BY DEF Evolves
<1>6. \A local \in {"n0", "n1", "n2", "n3"} : frame[local] \in {Null} \cup Record
    BY DEF StandsAt
<1> PICK m0, m1, m2, m3 : m0 = frame.n0 /\ m1 = frame.n1 /\ m2 = frame.n2 /\ m3 = frame.n3
    OBVIOUS
<1>7. /\ label \notin {"idle", "root"} => m1 # Null /\ m2 # Null
      /\ label \in SearchLabels \cup After0 => m1 \in Record /\ m2 \in Record
      /\ label \in After0 => m0 \in Record
    BY <1>6 DEF StandsAt, SearchLabels, After0, After1, After2, After3
<1>8. label \in SearchLabels =>
          /\ Below(r, m2, m1)' /\ ~IsLeaf(m1)'
          /\ Child(m1, Opposite(Toward(m1, op.key)))' # m2
    BY <1>1, <1>2, <1>3, <1>4, <1>7 DEF StandsAt
<1>9. label \in SearchLabels \ {"search"} => IsLeaf(m2)' /\ op.kind = "insert"
    BY <1>3, <1>7 DEF StandsAt
<1>10. label \in {"insertLlxLeaf", "insertScx"} /\ m1 \in fewer =>
          \E side \in Sides : Child(m1, side)' = m2
    BY <1>5, <1>7 DEF StandsAt, SearchLabels
<1>11. label \in After0 => m0 # Null /\ op.kind = "delete"
    BY DEF StandsAt
<1>12. label \in After1 =>
          /\ Below(r, m1, m0)'
          /\ m0 \in fewer => Child(m0, Toward(m0, op.key))' = m1
    BY <1>1, <1>2, <1>5, <1>7 DEF StandsAt, After0
<1>13. label \in After2 =>
          /\ Below(r, m2, m1)'
          /\ m1 \in fewer => Child(m1, Toward(m1, op.key))' = m2
    BY <1>1, <1>2, <1>5, <1>7 DEF StandsAt, After0, After1
<1>14. label \in After3 =>
          /\ Below(r, m3, m1)'
          /\ m1 \in fewer => Child(m1, Opposite(Toward(m1, op.key)))' = m3
    BY <1>1, <1>2, <1>5, <1>7 DEF StandsAt, After0, After1, After2
<1>15. \A local \in {"n0", "n1", "n2", "n3"} : frame[local] \in ({Null} \cup Record')
    BY <1>6, <1>r
<1> QED BY <1>7, <1>8, <1>9, <1>10, <1>11, <1>12, <1>13, <1>14, <1>15 DEF StandsAt

\* A step of p that changes no record.
Moves(p, rank) ==
    \E label, frame, op, links :
       /\ pc' = [pc EXCEPT ![p] = label] /\ at' = [at EXCEPT ![p] = frame]
       /\ linked' = [linked EXCEPT ![p] = links]
       /\ \A q \in Threads \ {p} : todo'[q] = todo[q]
       /\ Head(todo'[p]) = op
       /\ UNCHANGED <<heap, finalized>>
       /\ links \subseteq Live /\ StandsAt(label, frame, op, links, rank)

\* The last step of an operation of p that changes the tree.
Finishes(p, rank) ==
    /\ Answers(p, kind(p))
    /\ \E parent : Updates(rank, parent)

\* A step that leaves the heap alone keeps the shape, when the thread that
\* moves stands where it should.
LEMMA MovesShape ==
    ASSUME Local, NEW rank, NEW top, Shape(rank, top), NEW p \in Threads, Moves(p, rank)
    PROVE  Shape(rank, top)'
<1>1. PICK label, frame, op, links :
       /\ pc' = [pc EXCEPT ![p] = label] /\ at' = [at EXCEPT ![p] = frame]
       /\ linked' = [linked EXCEPT ![p] = links]
       /\ \A q \in Threads \ {p} : todo'[q] = todo[q]
       /\ Head(todo'[p]) = op
       /\ UNCHANGED <<heap, finalized>>
       /\ links \subseteq Live /\ StandsAt(label, frame, op, links, rank)
    BY DEF Moves
<1>2. Forest' /\ Ranked(rank, top)' /\ Live' = Live /\ Key(Root)' = MaxKey
    BY <1>1 DEF Shape, Forest, Ranked, Live, Record, Child, IsLeaf, Key
<1>3. ASSUME NEW q \in Threads
      PROVE  linked'[q] \subseteq Live' /\ Stands(q, rank)'
  <2>1. CASE q = p
    <3>1. /\ pc'[p] = label /\ at'[p] = frame /\ Head(todo'[p]) = op /\ linked'[p] = links
        BY <1>1 DEF Local
    <3>2. StandsAt(label, frame, op, links, rank)'
        BY <1>1, StandsStill
    <3> QED BY <1>1, <1>2, <2>1, <3>1, <3>2 DEF Stands
  <2>2. CASE q # p
    <3>1. PICK l, f, o, k : l = pc[q] /\ f = at[q] /\ o = Head(todo[q]) /\ k = linked[q]
        OBVIOUS
    <3>2. pc'[q] = l /\ at'[q] = f /\ Head(todo'[q]) = o /\ linked'[q] = k
        BY <1>1, <2>2, <3>1 DEF Local
    <3>3. StandsAt(l, f, o, k, rank) /\ k \subseteq Live
        BY <3>1 DEF Shape, Stands
    <3>4. StandsAt(l, f, o, k, rank)'
        BY <1>1, <3>3, StandsStill
    <3> QED BY <1>2, <3>2, <3>3, <3>4 DEF Stands
  <2> QED BY <2>1, <2>2
<1> QED BY <1>2, <1>3 DEF Shape

\* An update by nobody, or by a thread whose operation it ends.
LEMMA UpdatesShape ==
    ASSUME Local, NEW rank, NEW top, Shape(rank, top), NEW parent, Updates(rank, parent),
           \A q \in Threads :
              \/ pc'[q] = pc[q] /\ at'[q] = at[q] /\ Head(todo'[q]) = Head(todo[q])
              \/ pc'[q] = "idle" /\ at'[q] = NoWhere
    PROVE  IsShaped'
<1>1. PICK r, t : Ranked(r, t)' /\ \A n, m \in Record : rank[n] < rank[m] => r[n] < r[m]
    BY DEF Updates
<1>2. Forest /\ Forest' /\ Evolves(parent) /\ Key(Root)' = MaxKey
    BY DEF Shape, Updates, Evolves, Forest
<1>3. ASSUME NEW q \in Threads
      PROVE  linked'[q] \subseteq Live' /\ Stands(q, r)'
  <2>0. linked[q] \subseteq Live /\ Stands(q, rank)
      BY DEF Shape
  <2>1. linked'[q] \subseteq (linked[q] \cap Live') \ {parent}
      BY <2>0 DEF Updates
  <2>2. CASE pc'[q] = pc[q] /\ at'[q] = at[q] /\ Head(todo'[q]) = Head(todo[q])
    <3>1. PICK l, f, o, k, k2 : /\ l = pc[q] /\ f = at[q] /\ o = Head(todo[q])
                                /\ k = linked[q] /\ k2 = linked'[q]
        OBVIOUS
    <3>2. StandsAt(l, f, o, k, rank)
        BY <2>0, <3>1 DEF Stands
    <3>3. k2 \subseteq k \ {parent}
        BY <2>1, <3>1
    <3>4. StandsAt(l, f, o, k2, r)'
        BY <1>1, <1>2, <3>2, <3>3, StandsFirm
    <3> QED BY <2>1, <2>2, <3>1, <3>4 DEF Stands
  <2>3. CASE pc'[q] = "idle" /\ at'[q] = NoWhere
      BY <2>1, <2>3 DEF Stands, StandsAt, NoWhere, SearchLabels, After0, After1, After2, After3
  <2> QED BY <2>2, <2>3
<1> QED BY <1>1, <1>2, <1>3 DEF IsShaped, Shape

\* To start over is a move.
LEMMA RetryMoves ==
    ASSUME NEW p \in Threads, NEW rank, Retry(p)
    PROVE  Moves(p, rank)
<1>1. StandsAt("root", NoWhere, Head(todo'[p]), {}, rank)
    BY DEF StandsAt, NoWhere, SearchLabels, After0, After1, After2, After3
<1> QED BY <1>1 DEF Moves, Retry, Goto, Rest

\* So is to answer.
LEMMA AnswersMoves ==
    ASSUME Local, NEW rank, NEW top, Shape(rank, top), NEW p \in Threads,
           NEW result, Answers(p, result), UNCHANGED <<heap, finalized>>,
           linked' = linked \/ linked' = [linked EXCEPT ![p] = {}]
    PROVE  Moves(p, rank)
<1>1. PICK links : links \subseteq Live /\ linked' = [linked EXCEPT ![p] = links]
  <2>1. CASE linked' = linked
    <3>1. linked[p] \subseteq Live /\ linked' = [linked EXCEPT ![p] = linked[p]]
        BY <2>1 DEF Shape, Local
    <3> QED BY <3>1
  <2>2. CASE linked' = [linked EXCEPT ![p] = {}]
      BY <2>2
  <2> QED BY <2>1, <2>2
<1>2. StandsAt("idle", NoWhere, Head(todo'[p]), links, rank)
    BY DEF StandsAt, NoWhere, SearchLabels, After0, After1, After2, After3
<1>3. \A q \in Threads \ {p} : todo'[q] = todo[q]
    BY DEF Answers, Local
<1> QED BY <1>1, <1>2, <1>3 DEF Moves, Answers, Goto

\* So is a load-link, if the thread stands where it should after it.
LEMMA LlxMoves ==
    ASSUME Local, NEW rank, NEW top, Shape(rank, top), NEW p \in Threads,
           NEW n \in Record, NEW next, LLX(p, n, next),
           n \notin finalized =>
              StandsAt(next, at[p], Head(todo[p]), linked[p] \cup {n}, rank)
    PROVE  Moves(p, rank)
<1>1. CASE n \in finalized
    BY <1>1, RetryMoves DEF LLX
<1>2. CASE n \notin finalized
  <2>1. PICK links : links = linked[p] \cup {n}
      OBVIOUS
  <2>2. links \subseteq Live /\ linked' = [linked EXCEPT ![p] = links]
      BY <1>2, <2>1 DEF Shape, Live, LLX
  <2>3. at' = [at EXCEPT ![p] = at[p]]
      BY <1>2 DEF LLX, Local
  <2>4. StandsAt(next, at[p], Head(todo'[p]), links, rank)
      BY <1>2, <2>1 DEF LLX, Rest
  <2> QED BY <1>2, <2>2, <2>3, <2>4 DEF Moves, LLX, Goto, Rest
<1> QED BY <1>1, <1>2

\* So is a read.
LEMMA ReadMoves ==
    ASSUME Local, NEW rank, NEW top, Shape(rank, top), NEW p \in Threads,
           NEW local, NEW n, NEW next, Read(p, local, n, next),
           n # Null =>
              StandsAt(next, [at[p] EXCEPT ![local] = n], Head(todo[p]), linked[p], rank)
    PROVE  Moves(p, rank)
<1>1. CASE n = Null
    BY <1>1, RetryMoves DEF Read
<1>2. CASE n # Null
  <2>1. PICK frame : frame = [at[p] EXCEPT ![local] = n]
      OBVIOUS
  <2>2. at' = [at EXCEPT ![p] = frame]
      BY <1>2, <2>1 DEF Read, Set
  <2>3. linked[p] \subseteq Live /\ linked' = [linked EXCEPT ![p] = linked[p]]
      BY <1>2 DEF Read, treeVars, Shape, Local
  <2>4. StandsAt(next, frame, Head(todo'[p]), linked[p], rank)
      BY <1>2, <2>1 DEF Read, Rest
  <2> QED BY <1>2, <2>2, <2>3, <2>4 DEF Moves, Read, Goto, Rest, treeVars
<1> QED BY <1>1, <1>2

\* What a thread that has begun has in hand.
LEMMA InHand ==
    ASSUME Local, NEW rank, NEW top, Shape(rank, top), NEW p \in Threads
    PROVE  /\ pc[p] \notin {"idle", "root"} => n1(p) \in Record /\ n2(p) \in Record
           /\ n0(p) # Null => n0(p) \in Record
           /\ n3(p) # Null => n3(p) \in Record
           /\ n0(p) \in {Null} \cup Record
<1>1. StandsAt(pc[p], at[p], Head(todo[p]), linked[p], rank)
    BY DEF Shape, Stands
<1> QED BY <1>1 DEF StandsAt, n0, n1, n2, n3

\* The step of the search.
LEMMA SearchMoves ==
    ASSUME Local, NEW rank, NEW top, Shape(rank, top), NEW p \in Threads,
           SearchRoot(p) \/ SearchDown(p)
    PROVE  Moves(p, rank)
<1>0. Forest /\ Ranked(rank, top) /\ linked[p] \subseteq Live
    BY DEF Shape
<1>l. linked' = [linked EXCEPT ![p] = linked[p]] /\ UNCHANGED <<heap, finalized, todo>>
    BY DEF SearchRoot, SearchDown, treeVars, Rest, Local
<1>s. SearchLabels \cap {"idle", "root"} = {} /\ "search" \in SearchLabels
      /\ "search" \notin (After0 \cup After1 \cup After2 \cup After3)
    BY DEF SearchLabels, After0, After1, After2, After3
<1>c. ASSUME NEW n \in Record, NEW s \in Sides, ~IsLeaf(n)
      PROVE  /\ Child(n, s) \in Record /\ Below(rank, Child(n, s), n)
             /\ Child(n, Opposite(s)) # Child(n, s)
  <2>1. Child(n, s) # Null /\ Child(n, "left") # Null
      BY <1>c DEF IsLeaf, Sides
  <2>2. Child(n, s) \in Record
      BY <1>0, <2>1 DEF Forest
  <2>3. Child(n, "left") # Child(n, "right")
      BY <1>0, <2>1 DEF Forest
  <2> QED BY <1>0, <2>1, <2>2, <2>3 DEF Ranked, Below, Opposite, Sides
<1>1. CASE SearchRoot(p)
  <2>1. PICK m, frame : m = Child(Root, "left") /\ frame = [NoWhere EXCEPT !.n1 = Root, !.n2 = m]
      OBVIOUS
  <2>2. Root \in Record /\ ~IsLeaf(Root) /\ "left" \in Sides
      BY <1>0 DEF Forest, Sides
  <2>3. m \in Record /\ Below(rank, m, Root) /\ Child(Root, "right") # m
      BY <1>c, <2>1, <2>2 DEF Opposite
  <2>4. /\ frame.n0 = Null /\ frame.n1 = Root /\ frame.n2 = m /\ frame.n3 = Null
      BY <2>1 DEF NoWhere
  <2>5. todo[p] # <<>>
      BY <1>1 DEF SearchRoot, At, Local
  <2>6. Toward(Root, key(p)) = "left"
    <3>1. Head(todo[p]) \in Operation
        BY <2>5 DEF Local
    <3>2. key(p) < MaxKey
        BY <3>1, KeysAssumption DEF Operation, key
    <3> QED BY <3>2 DEF Shape, Toward
  <2>7. Null \notin Record
      BY <1>0, FreshNames
  <2>8. StandsAt("search", frame, Head(todo[p]), linked[p], rank)
      BY <1>s, <2>2, <2>3, <2>4, <2>6, <2>7 DEF StandsAt, key, Opposite
  <2>9. pc' = [pc EXCEPT ![p] = "search"] /\ at' = [at EXCEPT ![p] = frame]
      BY <1>1, <2>1 DEF SearchRoot, Goto
  <2> QED BY <1>0, <1>l, <2>8, <2>9 DEF Moves
<1>2. CASE SearchDown(p)
  <2>1. PICK m, frame :
           /\ m = Child(n2(p), Toward(n2(p), key(p)))
           /\ frame = [n0 |-> n1(p), n1 |-> n2(p), n3 |-> Null, n2 |-> m]
      OBVIOUS
  <2>2. pc[p] = "search" /\ ~IsLeaf(n2(p))
      BY <1>2 DEF SearchDown, At
  <2>3. n1(p) \in Record /\ n2(p) \in Record
      BY <2>2, InHand
  <2>4. PICK s : s = Toward(n2(p), key(p))
      OBVIOUS
  <2>5. s \in Sides
      BY <2>4, TowardSide
  <2>6. m \in Record /\ Below(rank, m, n2(p)) /\ Child(n2(p), Opposite(s)) # m
      BY <1>c, <2>1, <2>2, <2>3, <2>4, <2>5
  <2>7. frame.n0 = n1(p) /\ frame.n1 = n2(p) /\ frame.n2 = m /\ frame.n3 = Null
      BY <2>1
  <2>8. Null \notin Record
      BY <1>0, FreshNames
  <2>9. StandsAt("search", frame, Head(todo[p]), linked[p], rank)
      BY <1>s, <2>2, <2>3, <2>4, <2>6, <2>7, <2>8 DEF StandsAt, key
  <2>10. pc' = [pc EXCEPT ![p] = "search"] /\ at' = [at EXCEPT ![p] = frame]
      BY <1>2, <2>1, <2>2 DEF SearchDown, Local
  <2> QED BY <1>0, <1>l, <2>9, <2>10 DEF Moves
<1> QED BY <1>1, <1>2

\* Records below each other are different ones.
LEMMA BelowIs ==
    ASSUME NEW rank, NEW top, Ranked(rank, top), NEW m, NEW n, Below(rank, m, n)
    PROVE  /\ m # n /\ m \in Record /\ n \in Record
           /\ \A l : Below(rank, n, l) => m # l /\ Below(rank, m, l)
BY DEF Ranked, Below

\* A child is below its parent.
LEMMA ChildBelow ==
    ASSUME Forest, NEW rank, NEW top, Ranked(rank, top),
           NEW n \in Record, NEW s \in Sides, Child(n, s) # Null
    PROVE  Child(n, s) \in Record /\ Below(rank, Child(n, s), n)
BY DEF Forest, Ranked, Below

\* The steps of an insertion before its SCX.
LEMMA InsertMoves ==
    ASSUME Local, NEW rank, NEW top, Shape(rank, top), NEW p \in Threads,
           InsertLlxParent(p) \/ InsertCheck(p) \/ InsertLlxLeaf(p)
    PROVE  Moves(p, rank)
<1>0. /\ linked[p] \subseteq Live /\ Ranked(rank, top)
      /\ StandsAt(pc[p], at[p], Head(todo[p]), linked[p], rank)
    BY DEF Shape, Stands
<1>s. /\ {"search", "insertCheck", "insertLlxLeaf", "insertScx"} \subseteq SearchLabels
      /\ SearchLabels \cap (After0 \cup After1 \cup After2 \cup After3) = {}
    BY DEF SearchLabels, After0, After1, After2, After3
<1>1. CASE InsertLlxParent(p)
  <2>1. /\ pc[p] = "search" /\ IsLeaf(n2(p)) /\ kind(p) = "insert"
        /\ LLX(p, n1(p), "insertCheck")
      BY <1>1 DEF InsertLlxParent, Arrived, At
  <2>2. StandsAt("insertCheck", at[p], Head(todo[p]), linked[p] \cup {n1(p)}, rank)
      BY <1>0, <1>s, <2>1 DEF StandsAt, kind, n2
  <2>3. n1(p) \in Record
      BY <2>1, InHand
  <2> QED BY <2>1, <2>2, <2>3, LlxMoves
<1>2. CASE InsertCheck(p)
  <2>1. pc[p] = "insertCheck"
      BY <1>2 DEF InsertCheck, At
  <2>2. CASE Retry(p)
      BY <2>2, RetryMoves
  <2>3. CASE ~Retry(p)
    <3>1. /\ \E side \in Sides : Child(n1(p), side) = n2(p)
          /\ Goto(p, "insertLlxLeaf") /\ UNCHANGED <<treeVars, at, Rest>>
        BY <1>2, <2>3 DEF InsertCheck
    <3>2. StandsAt("insertLlxLeaf", at[p], Head(todo[p]), linked[p], rank)
        BY <1>0, <1>s, <2>1, <3>1 DEF StandsAt, n1, n2
    <3>3. linked' = [linked EXCEPT ![p] = linked[p]] /\ at' = [at EXCEPT ![p] = at[p]]
        BY <3>1 DEF treeVars, Local
    <3> QED BY <1>0, <3>1, <3>2, <3>3 DEF Moves, treeVars, Goto, Rest
  <2> QED BY <2>2, <2>3
<1>3. CASE InsertLlxLeaf(p)
  <2>1. pc[p] = "insertLlxLeaf" /\ LLX(p, n2(p), "insertScx")
      BY <1>3 DEF InsertLlxLeaf, At
  <2>2. n1(p) # n2(p)
      BY <1>0, <1>s, <2>1, BelowIs DEF StandsAt, n1, n2
  <2>3. StandsAt("insertScx", at[p], Head(todo[p]), linked[p] \cup {n2(p)}, rank)
      BY <1>0, <1>s, <2>1, <2>2 DEF StandsAt, n1, n2
  <2>4. n2(p) \in Record
      BY <2>1, InHand
  <2> QED BY <2>1, <2>3, <2>4, LlxMoves
<1> QED BY <1>1, <1>2, <1>3

\* The steps of a deletion before its SCX.
LEMMA DeleteMoves ==
    ASSUME Local, NEW rank, NEW top, Shape(rank, top), NEW p \in Threads,
           \/ DeleteLlx0(p) \/ DeleteRead1(p) \/ DeleteLlx1(p) \/ DeleteRead2(p)
           \/ DeleteLlx2(p) \/ DeleteRead3(p) \/ DeleteLlx3(p)
    PROVE  Moves(p, rank)
<1>0. /\ linked[p] \subseteq Live /\ Ranked(rank, top) /\ Forest
      /\ StandsAt(pc[p], at[p], Head(todo[p]), linked[p], rank)
    BY DEF Shape, Stands
<1>s. /\ After3 \subseteq After2 /\ After2 \subseteq After1 /\ After1 \subseteq After0
      /\ {"deleteLlx3", "deleteScx"} \subseteq After3
      /\ {"deleteLlx2", "deleteRead3"} \subseteq After2 \ After3
      /\ {"deleteLlx1", "deleteRead2"} \subseteq After1 \ After2
      /\ "deleteRead1" \in After0 \ After1
      /\ SearchLabels \cap After0 = {}
    BY DEF SearchLabels, After0, After1, After2, After3
<1>f. at[p] \in [{"n0", "n1", "n2", "n3"} -> Nat]
  <2>1. at[p] \in Frame
      BY DEF Local
  <2>2. PICK frame : frame = at[p]
      OBVIOUS
  <2>3. frame \in [{"n0", "n1", "n2", "n3"} -> Nat]
      BY <2>1, <2>2 DEF Frame
  <2> QED BY <2>2, <2>3
<1>i. /\ pc[p] \notin {"idle", "root"} => n1(p) \in Record /\ n2(p) \in Record
      /\ n0(p) # Null => n0(p) \in Record
      /\ n3(p) # Null => n3(p) \in Record
    BY InHand
<1> PICK f : f = at[p]
    OBVIOUS
<1> PICK op : op = Head(todo[p])
    OBVIOUS
<1>n. n0(p) = f.n0 /\ n1(p) = f.n1 /\ n2(p) = f.n2 /\ n3(p) = f.n3 /\ key(p) = op.key
    BY DEF n0, n1, n2, n3, key
<1>e. \A n : /\ [f EXCEPT !["n1"] = n].n1 = n /\ [f EXCEPT !["n1"] = n].n0 = f.n0
             /\ [f EXCEPT !["n1"] = n].n2 = f.n2 /\ [f EXCEPT !["n1"] = n].n3 = f.n3
             /\ [f EXCEPT !["n2"] = n].n2 = n /\ [f EXCEPT !["n2"] = n].n0 = f.n0
             /\ [f EXCEPT !["n2"] = n].n1 = f.n1 /\ [f EXCEPT !["n2"] = n].n3 = f.n3
             /\ [f EXCEPT !["n3"] = n].n3 = n /\ [f EXCEPT !["n3"] = n].n0 = f.n0
             /\ [f EXCEPT !["n3"] = n].n1 = f.n1 /\ [f EXCEPT !["n3"] = n].n2 = f.n2
    BY <1>f
<1>b. /\ pc[p] \in After1 => Below(rank, f.n1, f.n0) /\ f.n1 # f.n0
      /\ pc[p] \in After2 => Below(rank, f.n2, f.n1) /\ f.n2 # f.n0 /\ f.n2 # f.n1
      /\ pc[p] \in After3 => Below(rank, f.n3, f.n1) /\ f.n3 # f.n0 /\ f.n3 # f.n1
    BY <1>0, <1>s, BelowIs DEF StandsAt
<1>1. CASE DeleteLlx0(p)
  <2>1. /\ pc[p] = "search" /\ n0(p) # Null /\ kind(p) = "delete"
        /\ LLX(p, n0(p), "deleteRead1")
      BY <1>1 DEF DeleteLlx0, Arrived, At
  <2>2. StandsAt("deleteRead1", at[p], Head(todo[p]), linked[p] \cup {n0(p)}, rank)
      BY <1>0, <1>s, <2>1 DEF StandsAt, kind, n0
  <2> QED BY <1>i, <2>1, <2>2, LlxMoves
<1>2. CASE DeleteRead1(p)
  <2>0. PICK m : m = Child(n0(p), Toward(n0(p), key(p)))
      OBVIOUS
  <2>1. pc[p] = "deleteRead1" /\ Read(p, "n1", m, "deleteLlx1")
      BY <1>2, <2>0 DEF DeleteRead1, At
  <2>2. ASSUME m # Null
        PROVE  StandsAt("deleteLlx1", [at[p] EXCEPT !["n1"] = m], Head(todo[p]), linked[p], rank)
    <3>1. f.n0 # Null /\ f.n2 # Null /\ op.kind = "delete"
        BY <1>0, <1>s, <2>1 DEF StandsAt
    <3>2. m \in Record /\ Below(rank, m, f.n0)
        BY <1>0, <1>i, <1>n, <2>0, <2>2, <3>1, ChildBelow, TowardSide
    <3>3. StandsAt("deleteLlx1", [f EXCEPT !["n1"] = m], op, linked[p], rank)
        BY <1>0, <1>s, <1>n, <1>e, <2>0, <2>1, <2>2, <3>1, <3>2 DEF StandsAt
    <3> QED BY <3>3
  <2> QED BY <2>1, <2>2, ReadMoves
<1>3. CASE DeleteLlx1(p)
  <2>1. pc[p] = "deleteLlx1" /\ LLX(p, n1(p), "deleteRead2")
      BY <1>3 DEF DeleteLlx1, At
  <2>2. StandsAt("deleteRead2", f, op, linked[p] \cup {n1(p)}, rank)
      BY <1>0, <1>s, <1>b, <1>n, <2>1 DEF StandsAt
  <2> QED BY <1>i, <2>1, <2>2, LlxMoves
<1>4. CASE DeleteRead2(p)
  <2>0. PICK m : m = Child(n1(p), Toward(n1(p), key(p)))
      OBVIOUS
  <2>1. pc[p] = "deleteRead2"
      BY <1>4 DEF DeleteRead2, At
  <2>2. CASE Read(p, "n2", m, "deleteLlx2")
    <3>1. ASSUME m # Null
          PROVE  StandsAt("deleteLlx2", [at[p] EXCEPT !["n2"] = m], Head(todo[p]), linked[p], rank)
      <4>1. m \in Record /\ Below(rank, m, f.n1)
          BY <1>0, <1>i, <1>n, <2>0, <2>1, <3>1, ChildBelow, TowardSide
      <4>2. StandsAt("deleteLlx2", [f EXCEPT !["n2"] = m], op, linked[p], rank)
          BY <1>0, <1>s, <1>n, <1>e, <2>0, <2>1, <3>1, <4>1 DEF StandsAt
      <4> QED BY <4>2
    <3> QED BY <2>2, <3>1, ReadMoves
  <2>3. CASE ~Read(p, "n2", m, "deleteLlx2")
    <3>1. /\ Answers(p, "absent") /\ linked' = [linked EXCEPT ![p] = {}]
          /\ UNCHANGED <<heap, finalized, numRebalOps, script, phase>>
        BY <1>4, <2>0, <2>3 DEF DeleteRead2
    <3> QED BY <3>1, AnswersMoves
  <2> QED BY <2>2, <2>3
<1>5. CASE DeleteLlx2(p)
  <2>1. pc[p] = "deleteLlx2" /\ LLX(p, n2(p), "deleteRead3")
      BY <1>5 DEF DeleteLlx2, At
  <2>2. StandsAt("deleteRead3", f, op, linked[p] \cup {n2(p)}, rank)
      BY <1>0, <1>s, <1>b, <1>n, <2>1 DEF StandsAt
  <2> QED BY <1>i, <2>1, <2>2, LlxMoves
<1>6. CASE DeleteRead3(p)
  <2>0. PICK m : m = Child(n1(p), Opposite(Toward(n1(p), key(p))))
      OBVIOUS
  <2>1. pc[p] = "deleteRead3" /\ Read(p, "n3", m, "deleteLlx3")
      BY <1>6, <2>0 DEF DeleteRead3, At
  <2>2. ASSUME m # Null
        PROVE  StandsAt("deleteLlx3", [at[p] EXCEPT !["n3"] = m], Head(todo[p]), linked[p], rank)
    <3>1. m \in Record /\ Below(rank, m, f.n1)
        BY <1>0, <1>i, <1>n, <2>0, <2>1, <2>2, ChildBelow, TowardSide
    <3>2. StandsAt("deleteLlx3", [f EXCEPT !["n3"] = m], op, linked[p], rank)
        BY <1>0, <1>s, <1>n, <1>e, <2>0, <2>1, <2>2, <3>1 DEF StandsAt
    <3> QED BY <3>2
  <2> QED BY <2>1, <2>2, ReadMoves
<1>7. CASE DeleteLlx3(p)
  <2>1. pc[p] = "deleteLlx3" /\ LLX(p, n3(p), "deleteScx")
      BY <1>7 DEF DeleteLlx3, At
  <2>2. StandsAt("deleteScx", f, op, linked[p] \cup {n3(p)}, rank)
      BY <1>0, <1>s, <1>b, <1>n, <2>1 DEF StandsAt
  <2>3. n3(p) \in Record
      BY <1>b, <1>n, <1>s, <2>1 DEF Below
  <2> QED BY <2>1, <2>2, <2>3, LlxMoves
<1> QED BY <1>1, <1>2, <1>3, <1>4, <1>5, <1>6, <1>7

\* An insertion that succeeds finds the leaf where the search for its key has
\* found it, and nothing has happened to it or to its parent.
LEMMA InsertFinds ==
    ASSUME Local, NEW rank, NEW top, Shape(rank, top), NEW p \in Threads,
           InsertScx(p), ~Retry(p)
    PROVE  /\ n1(p) \in Live /\ n2(p) \in Live /\ IsLeaf(n2(p)) /\ key(p) \in Keys
           /\ Toward(n1(p), key(p)) \in Sides /\ Child(n1(p), Toward(n1(p), key(p))) = n2(p)
           /\ Insert(key(p), n1(p), n2(p)) /\ Answers(p, kind(p))
           /\ UNCHANGED <<numRebalOps, script, phase>>
<1>1. /\ pc[p] = "insertScx" /\ {n1(p), n2(p)} \subseteq linked[p]
      /\ Insert(key(p), n1(p), n2(p)) /\ Answers(p, kind(p))
      /\ UNCHANGED <<numRebalOps, script, phase>>
    BY DEF InsertScx, SCX, At
<1>2. /\ StandsAt(pc[p], at[p], Head(todo[p]), linked[p], rank) /\ linked[p] \subseteq Live
    BY DEF Shape, Stands
<1>3. pc[p] \in SearchLabels \ {"search"}
    BY <1>1 DEF SearchLabels
<1>4. /\ IsLeaf(n2(p)) /\ \E side \in Sides : Child(n1(p), side) = n2(p)
      /\ Child(n1(p), Opposite(Toward(n1(p), key(p)))) # n2(p)
    BY <1>1, <1>2, <1>3 DEF StandsAt, n1, n2, key
<1>5. PICK s : s = Toward(n1(p), key(p))
    OBVIOUS
<1>6. s \in Sides /\ Child(n1(p), s) = n2(p)
    BY <1>4, <1>5, TowardSide, TwoSides
<1>7. key(p) \in Keys
  <2>1. Head(todo[p]) \in Operation
      BY <1>1 DEF Local
  <2> QED BY <2>1 DEF Operation, key
<1> QED BY <1>1, <1>2, <1>4, <1>5, <1>6, <1>7

\* A deletion that succeeds finds the four records as its reads left them.
LEMMA DeleteFinds ==
    ASSUME Local, NEW rank, NEW top, Shape(rank, top), NEW p \in Threads,
           DeleteScx(p), ~Retry(p)
    PROVE  /\ Deletes(n0(p), n1(p), n2(p), n3(p)) /\ Delete(n0(p), n1(p), n2(p), n3(p))
           /\ Answers(p, kind(p)) /\ kind(p) = "delete" /\ todo[p] # <<>>
           /\ UNCHANGED <<numRebalOps, script, phase>>
<1>1. /\ pc[p] = "deleteScx" /\ {n0(p), n1(p), n2(p), n3(p)} \subseteq linked[p]
      /\ Delete(n0(p), n1(p), n2(p), n3(p)) /\ Answers(p, kind(p))
      /\ UNCHANGED <<numRebalOps, script, phase>>
    BY DEF DeleteScx, SCX, At
<1>2. /\ StandsAt(pc[p], at[p], Head(todo[p]), linked[p], rank) /\ linked[p] \subseteq Live
    BY DEF Shape, Stands
<1>3. pc[p] \in After0 /\ pc[p] \in After1 /\ pc[p] \in After2 /\ pc[p] \in After3
    BY <1>1 DEF After0, After1, After2, After3
<1>4. /\ Child(n0(p), Toward(n0(p), key(p))) = n1(p)
      /\ Child(n1(p), Toward(n1(p), key(p))) = n2(p)
      /\ Child(n1(p), Opposite(Toward(n1(p), key(p)))) = n3(p)
      /\ kind(p) = "delete"
    BY <1>1, <1>2, <1>3 DEF StandsAt, n0, n1, n2, n3, key, kind
<1>5. Deletes(n0(p), n1(p), n2(p), n3(p))
  <2>1. /\ n0(p) \in Live /\ n1(p) \in Live /\ n2(p) \in Live /\ n3(p) \in Live
      BY <1>1, <1>2
  <2>2. \E s \in Sides : Child(n0(p), s) = n1(p)
      BY <1>4, TowardSide
  <2>3. \E s \in Sides : Child(n1(p), s) = n2(p) /\ Child(n1(p), Opposite(s)) = n3(p)
      BY <1>4, TowardSide
  <2> QED BY <2>1, <2>2, <2>3 DEF Deletes
<1>6. todo[p] # <<>>
    BY <1>1 DEF Local
<1> QED BY <1>1, <1>4, <1>5, <1>6

\* A thread's step changes no record, or makes its update and is over.
LEMMA StepMoves ==
    ASSUME Local, NEW rank, NEW top, Shape(rank, top), NEW p \in Threads, Step(p)
    PROVE  Moves(p, rank) \/ Finishes(p, rank)
<1>0. Forest /\ Ranked(rank, top)
    BY DEF Shape
<1>1. CASE Begin(p)
  <2>1. PICK op : op = Head(todo[p])
      OBVIOUS
  <2>2. StandsAt(pc[p], at[p], op, linked[p], rank) /\ linked[p] \subseteq Live
      BY <2>1 DEF Shape, Stands
  <2>3. StandsAt("root", at[p], op, linked[p], rank)
      BY <2>2 DEF StandsAt, SearchLabels, After0, After1, After2, After3
  <2>4. at' = [at EXCEPT ![p] = at[p]] /\ linked' = [linked EXCEPT ![p] = linked[p]]
      BY <1>1 DEF Begin, Local, treeVars
  <2> QED BY <1>1, <2>1, <2>2, <2>3, <2>4 DEF Moves, Begin, Goto, treeVars
<1>2. CASE SearchRoot(p) \/ SearchDown(p)
    BY <1>2, SearchMoves
<1>3. CASE GetNode(p)
  <2>1. (\E result : Answers(p, result)) /\ UNCHANGED treeVars
      BY <1>3 DEF GetNode
  <2> QED BY <2>1, AnswersMoves DEF treeVars
<1>4. CASE InsertLlxParent(p) \/ InsertCheck(p) \/ InsertLlxLeaf(p)
    BY <1>4, InsertMoves
<1>5. CASE InsertScx(p)
  <2>1. CASE Retry(p)
      BY <2>1, RetryMoves
  <2>2. CASE ~Retry(p)
      BY <1>0, <1>5, <2>2, InsertFinds, InsertUpdates DEF Finishes
  <2> QED BY <2>1, <2>2
<1>6. CASE DeleteFromEmpty(p)
    BY <1>6, RetryMoves DEF DeleteFromEmpty
<1>7. CASE \/ DeleteLlx0(p) \/ DeleteRead1(p) \/ DeleteLlx1(p) \/ DeleteRead2(p)
           \/ DeleteLlx2(p) \/ DeleteRead3(p) \/ DeleteLlx3(p)
    BY <1>7, DeleteMoves
<1>8. CASE DeleteScx(p)
  <2>1. CASE Retry(p)
      BY <2>1, RetryMoves
  <2>2. CASE ~Retry(p)
      BY <1>0, <1>8, <2>2, DeleteFinds, DeleteUpdates DEF Finishes
  <2> QED BY <2>1, <2>2
<1> QED BY <1>1, <1>2, <1>3, <1>4, <1>5, <1>6, <1>7, <1>8 DEF Step

\* What a rebalancing step finds.
LEMMA RebalanceFinds ==
    ASSUME Local, NEW rank, NEW top, Shape(rank, top), Rebalance
    PROVE  \E parent \in Live :
              Updates(rank, parent) /\ StaysSorted /\ (Spanning => Spanning')
<1>1. PICK parent \in Live \ {Root}, side \in Sides,
           case \in {"1", "2A", "2B", "3A", "3B", "4", "5A", "5B"} :
         Child(parent, side) # Null /\ tryRebalance(case, parent, Child(parent, side))
    BY DEF Rebalance, Live
<1>2. PICK node : node = Child(parent, side)
    OBVIOUS
<1>3. node \in Record /\ Forest /\ Ranked(rank, top)
    BY <1>1, <1>2 DEF Shape, Forest, Live
<1>4. Updates(rank, parent) /\ StaysSorted /\ (Spanning => Spanning')
    BY <1>1, <1>2, <1>3, RebalanceUpdates
<1> QED BY <1>1, <1>4

-----------------------------------------------------------------------------
(***************************************************************************)
(* The invariant                                                           *)
(***************************************************************************)
ShapeInv == Local /\ IsShaped

\* The invariant is kept by every step of every thread.
LEMMA ShapeStep == ShapeInv /\ [Next]_vars => ShapeInv'
<1> SUFFICES ASSUME ShapeInv, [Next]_vars PROVE ShapeInv'
    OBVIOUS
<1>0. PICK rank, top : Shape(rank, top)
    BY DEF ShapeInv, IsShaped
<1>l. Local
    BY DEF ShapeInv
<1>1. ASSUME NEW p \in Threads, Step(p), Observe
      PROVE  ShapeInv'
  <2>1. Local'
      BY <1>0, <1>l, <1>1, StepGoes, GoesLocal
  <2>2. CASE Moves(p, rank)
    <3>1. Shape(rank, top)'
        BY <1>0, <1>l, <2>2, MovesShape
    <3> QED BY <2>1, <3>1 DEF ShapeInv, IsShaped
  <2>3. CASE Finishes(p, rank)
    <3>1. PICK parent : Updates(rank, parent)
        BY <2>3 DEF Finishes
    <3>2. \A q \in Threads :
              \/ pc'[q] = pc[q] /\ at'[q] = at[q] /\ Head(todo'[q]) = Head(todo[q])
              \/ pc'[q] = "idle" /\ at'[q] = NoWhere
        BY <1>l, <2>3 DEF Finishes, Answers, Goto, Local
    <3>3. IsShaped'
        BY <1>0, <1>l, <3>1, <3>2, UpdatesShape
    <3> QED BY <2>1, <3>3 DEF ShapeInv
  <2> QED BY <1>0, <1>l, <1>1, <2>2, <2>3, StepMoves
<1>2. ASSUME Rebalance, Observe
      PROVE  ShapeInv'
  <2>1. Local'
      BY <1>0, <1>l, <1>2, RestLocal
  <2>2. PICK parent : Updates(rank, parent)
      BY <1>0, <1>l, <1>2, RebalanceFinds
  <2>3. \A q \in Threads :
            pc'[q] = pc[q] /\ at'[q] = at[q] /\ Head(todo'[q]) = Head(todo[q])
      BY <1>2 DEF Rebalance
  <2>4. IsShaped'
      BY <1>0, <1>l, <2>2, <2>3, UpdatesShape
  <2> QED BY <2>1, <2>4 DEF ShapeInv
<1>3. ASSUME NextPhase, Observe
      PROVE  ShapeInv'
  <2>1. Local'
      BY <1>0, <1>l, <1>3, RestLocal
  <2>2. /\ UNCHANGED <<heap, finalized, linked, pc, at>>
        /\ \A q \in Threads : pc[q] = "idle"
      BY <1>3 DEF NextPhase, treeVars, At
  <2>3. Forest' /\ Ranked(rank, top)' /\ Live' = Live /\ Key(Root)' = MaxKey
      BY <1>0, <2>2 DEF Shape, Forest, Ranked, Live, Record, Child, IsLeaf, Key
  <2>4. ASSUME NEW q \in Threads
        PROVE  Stands(q, rank)' /\ linked'[q] \subseteq Live'
    <3>1. PICK f, k : f = at[q] /\ k = linked[q]
        OBVIOUS
    <3>2. StandsAt("idle", f, Head(todo[q]), k, rank) /\ k \subseteq Live
        BY <1>0, <2>2, <3>1 DEF Shape, Stands
    <3>3. PICK o : o = Head(todo'[q])
        OBVIOUS
    <3>4. StandsAt("idle", f, o, k, rank)
        BY <3>2 DEF StandsAt, SearchLabels, After0, After1, After2, After3
    <3>5. StandsAt("idle", f, o, k, rank)'
        BY <2>2, <3>4, StandsStill
    <3>6. pc'[q] = "idle" /\ at'[q] = f /\ linked'[q] = k
        BY <2>2, <3>1
    <3> QED BY <2>3, <3>2, <3>3, <3>5, <3>6 DEF Stands
  <2> QED BY <2>1, <2>3, <2>4 DEF ShapeInv, IsShaped, Shape
<1>4. CASE UNCHANGED vars
  <2>1. Local'
      BY <1>l, <1>4 DEF vars, treeVars, Local, Scripted
  <2>2. Shape(rank, top)'
    <3>1. Forest' /\ Ranked(rank, top)' /\ Live' = Live /\ Key(Root)' = MaxKey
        BY <1>0, <1>4 DEF vars, treeVars, Shape, Forest, Ranked, Live, Record, Child, IsLeaf, Key
    <3>2. ASSUME NEW q \in Threads
          PROVE  Stands(q, rank)' /\ linked'[q] \subseteq Live'
      <4>1. PICK l, f, o, k : l = pc[q] /\ f = at[q] /\ o = Head(todo[q]) /\ k = linked[q]
          OBVIOUS
      <4>2. StandsAt(l, f, o, k, rank) /\ k \subseteq Live /\ heap' = heap
          BY <1>0, <1>4, <4>1 DEF Shape, Stands, vars, treeVars
      <4>3. StandsAt(l, f, o, k, rank)'
          BY <4>2, StandsStill
      <4> QED BY <1>4, <3>1, <4>1, <4>2, <4>3 DEF Stands, vars, treeVars
    <3> QED BY <3>1, <3>2 DEF Shape
  <2> QED BY <2>1, <2>2 DEF ShapeInv, IsShaped
<1> QED BY <1>1, <1>2, <1>3, <1>4 DEF Next

\* So it holds in every state that the program reaches.
LEMMA ShapeInvariant == Spec => []ShapeInv
<1>1. Init => ShapeInv
    BY InitLocal, InitShape DEF ShapeInv
<1> QED BY <1>1, ShapeStep, PTL DEF Spec

\* The types are part of it.
LEMMA ShapeIsTyped == ShapeInv => TypeOK
<1> SUFFICES ASSUME ShapeInv PROVE TypeOK
    OBVIOUS
<1>0. PICK rank, top : Shape(rank, top)
    BY DEF ShapeInv, IsShaped
<1>l. Local /\ Forest
    BY <1>0 DEF ShapeInv, Shape
<1>1. heap \in Seq(Node)
  <2>1. heap \in Seq(Cell)
      BY <1>l DEF Forest
  <2>2. ASSUME NEW n \in DOMAIN heap
        PROVE  heap[n] \in Node
    <3>1. PICK c : c = heap[n]
        OBVIOUS
    <3>2. c \in Cell
        BY <2>1, <2>2, <3>1
    <3>3. \A s \in Sides : c[s] \in Pointer
        BY <1>l, <2>2, <3>1 DEF Forest, Child, Record, Pointer
    <3>4. c["left"] \in Pointer /\ c["right"] \in Pointer
        BY <3>3 DEF Sides
    <3>5. c \in Node
        BY <3>2, <3>4 DEF Cell, Node
    <3> QED BY <3>1, <3>5
  <2> QED BY <2>1, <2>2
<1>2. finalized \subseteq Record /\ Root \in Record
    BY <1>l DEF Forest
<1>3. linked \in [Threads -> SUBSET Record]
  <2>1. \A p \in Threads : linked[p] \subseteq Record
      BY <1>0 DEF Shape, Live
  <2> QED BY <1>l, <2>1 DEF Local
<1>4. at \in [Threads -> [n0 : Pointer, n1 : Pointer, n2 : Pointer, n3 : Pointer]]
  <2>1. ASSUME NEW p \in Threads
        PROVE  at[p] \in [n0 : Pointer, n1 : Pointer, n2 : Pointer, n3 : Pointer]
    <3>1. PICK f : f = at[p]
        OBVIOUS
    <3>2. f \in Frame
        BY <1>l, <3>1 DEF Local
    <3>3. f.n0 \in Pointer /\ f.n1 \in Pointer /\ f.n2 \in Pointer /\ f.n3 \in Pointer
        BY <1>0, <3>1 DEF Shape, Stands, StandsAt, Pointer
    <3>4. f \in [n0 : Pointer, n1 : Pointer, n2 : Pointer, n3 : Pointer]
        BY <3>2, <3>3 DEF Frame
    <3> QED BY <3>1, <3>4
  <2> QED BY <1>l, <2>1 DEF Local
<1>5. \A p \in Threads : pc[p] \notin {"idle", "root"} => n1(p) # Null /\ n2(p) # Null
    BY <1>0 DEF Shape, Stands, StandsAt, n1, n2
<1> QED BY <1>l, <1>1, <1>2, <1>3, <1>4, <1>5 DEF TypeOK, Local, Answered

\* Whatever the threads are told to do, however many they are and whatever
\* keys they use: every pointer of every record leads to a record or nowhere,
\* reservations are held on records only, and what a thread works on between
\* its reads exists.
THEOREM TypeCorrect == Spec => []TypeOK
BY ShapeInvariant, ShapeIsTyped, PTL

-----------------------------------------------------------------------------
(***************************************************************************)
(* What is reachable                                                       *)
(***************************************************************************)
ReachableIsLive == Reachable \cap finalized = {}

\* Under the shape, that every record that left the tree is finalized means
\* that every other one but Root has a parent.
LEMMA SpanningIs == ShapeInv => ReachableIsLive /\ (RemovedIsFinalized <=> Spanning)
<1> SUFFICES ASSUME ShapeInv PROVE ReachableIsLive /\ (RemovedIsFinalized <=> Spanning)
    OBVIOUS
<1>0. PICK rank, top : Shape(rank, top)
    BY DEF ShapeInv, IsShaped
<1>1. Forest /\ Ranked(rank, top)
    BY <1>0 DEF Shape
<1>2. Reachable \subseteq Live
    BY <1>1, ReachableLive
<1>3. Live \subseteq Reachable <=> Spanning
    BY <1>1, SpanningReachable, ReachableSpanning
<1> QED BY <1>2, <1>3 DEF Live, RemovedIsFinalized, ReachableIsLive

\* No record that is finalized can be reached from the root, whatever the
\* threads do: no operation that starts now works on a removed record.
THEOREM ReachableCorrect == Spec => []ReachableIsLive
BY ShapeInvariant, SpanningIs, PTL

\* A deletion of a record with children: tryDelete does not test that it is a
\* leaf.
DeletesInner(p) == DeleteScx(p) /\ \E side \in Sides : Child(n2(p), side) # Null

\* Nothing is left behind by a step that leaves the heap alone.
LEMMA SpanningUnchanged ==
    ASSUME UNCHANGED <<heap, finalized>>
    PROVE  Spanning' <=> Spanning
BY DEF Spanning, Live, Record, Child

\* Every other step leaves no record behind.
LEMMA SpanningStep ==
    ASSUME ShapeInv, [Next]_vars, Spanning, ~\E p \in Threads : DeletesInner(p)
    PROVE  Spanning'
<1>0. PICK rank, top : Shape(rank, top)
    BY DEF ShapeInv, IsShaped
<1>l. Local /\ Forest /\ Ranked(rank, top)
    BY <1>0 DEF ShapeInv, Shape
<1>1. ASSUME NEW p \in Threads, Step(p)
      PROVE  Spanning'
  <2>1. CASE Moves(p, rank)
    <3>1. UNCHANGED <<heap, finalized>>
        BY <2>1 DEF Moves
    <3> QED BY <3>1, SpanningUnchanged
  <2>2. CASE ~Moves(p, rank)
    <3>1. ~Retry(p)
        BY <2>2, RetryMoves
    <3>2. CASE InsertScx(p)
        BY <1>0, <1>l, <3>1, <3>2, InsertFinds, InsertUpdates
    <3>3. CASE DeleteScx(p)
      <4>1. \A s \in Sides : Child(n2(p), s) = Null
          BY <3>3 DEF DeletesInner
      <4>2. Deletes(n0(p), n1(p), n2(p), n3(p)) /\ Delete(n0(p), n1(p), n2(p), n3(p))
          BY <1>0, <1>l, <3>1, <3>3, DeleteFinds
      <4> QED BY <1>l, <4>1, <4>2, DeleteUpdates
    <3>4. CASE ~InsertScx(p) /\ ~DeleteScx(p)
      <4>1. UNCHANGED <<heap, finalized>>
        <5>1. \A n, next : LLX(p, n, next) => UNCHANGED <<heap, finalized>>
            BY DEF LLX, Retry
        <5>2. \A local, n, next : Read(p, local, n, next) => UNCHANGED <<heap, finalized>>
            BY DEF Read, Retry, treeVars
        <5> QED BY <1>1, <3>4, <5>1, <5>2
                DEF Step, Begin, SearchRoot, SearchDown, GetNode, InsertLlxParent, InsertCheck,
                    InsertLlxLeaf, DeleteFromEmpty, DeleteLlx0, DeleteRead1, DeleteLlx1,
                    DeleteRead2, DeleteLlx2, DeleteRead3, DeleteLlx3, Retry, treeVars
      <4> QED BY <4>1, SpanningUnchanged
    <3> QED BY <3>2, <3>3, <3>4
  <2> QED BY <2>1, <2>2
<1>2. CASE Rebalance
    BY <1>0, <1>l, <1>2, RebalanceFinds
<1>3. CASE NextPhase
    BY <1>3, SpanningUnchanged DEF NextPhase, treeVars
<1>4. CASE UNCHANGED vars
    BY <1>4, SpanningUnchanged DEF vars, treeVars
<1> QED BY <1>1, <1>2, <1>3, <1>4 DEF Next

\* No insertion, no search, no rebalancing and no deletion of a leaf makes a
\* record unreachable that it does not finalize.
THEOREM OnlyDeletionsLose ==
    Spec => [][RemovedIsFinalized =>
                  RemovedIsFinalized' \/ \E p \in Threads : DeletesInner(p)]_vars
<1>1. ShapeInv /\ ShapeInv' /\ [Next]_vars =>
        [RemovedIsFinalized =>
            RemovedIsFinalized' \/ \E p \in Threads : DeletesInner(p)]_vars
  <2> SUFFICES ASSUME ShapeInv, ShapeInv', [Next]_vars, RemovedIsFinalized,
                      ~\E p \in Threads : DeletesInner(p)
               PROVE  RemovedIsFinalized'
      OBVIOUS
  <2>1. Spanning
      BY SpanningIs
  <2>2. Spanning'
      BY <2>1, SpanningStep
  <2>3. (RemovedIsFinalized <=> Spanning)'
      BY SpanningIs, PTL
  <2> QED BY <2>2, <2>3
<1> QED BY <1>1, ShapeInvariant, PTL DEF Spec

\* No operation of the phases up to the current one is a deletion.
NoDeletions ==
    \A i \in 1 .. phase : \A p \in Threads : \A j \in DOMAIN script[i].work[p] :
       script[i].work[p][j].kind # "delete"

SpanningInv == ShapeInv /\ (NoDeletions => Spanning)

\* Without deletions no live record is ever without a live parent.
LEMMA SpanningInvariant == Spec => []SpanningInv
<1>1. Init => SpanningInv
  <2> SUFFICES ASSUME Init PROVE SpanningInv
      OBVIOUS
  <2>1. ShapeInv
      BY InitLocal, InitShape DEF ShapeInv
  <2>h. PICK h : h = heap
      OBVIOUS
  <2>2. h = <<Rec(MaxKey, 1, 2, 3), Leaf(MaxKey, 1), Leaf(MaxKey, 1)>> /\ finalized = {}
      BY <2>h DEF Init, TreeInit
  <2>3. DOMAIN h = {1, 2, 3} /\ h[1] = Rec(MaxKey, 1, 2, 3)
      BY <2>2
  <2>4. h[1]["left"] = 2 /\ h[1]["right"] = 3
      BY <2>3 DEF Rec
  <2>5. Spanning
      BY <2>h, <2>2, <2>3, <2>4 DEF Spanning, Live, Record, Child, Sides, Root
  <2> QED BY <2>1, <2>5 DEF SpanningInv
<1>2. SpanningInv /\ [Next]_vars => SpanningInv'
  <2> SUFFICES ASSUME SpanningInv, [Next]_vars PROVE SpanningInv'
      OBVIOUS
  <2>1. ShapeInv /\ ShapeInv'
      BY ShapeStep DEF SpanningInv
  <2>2. ASSUME NoDeletions' PROVE Spanning'
    <3>0. Local /\ phase \in Nat
      <4>1. Local
          BY <2>1 DEF ShapeInv
      <4>2. script \in Seq(Phase) /\ phase \in DOMAIN script
          BY <4>1, ScriptsAssumption DEF Local
      <4> QED BY <4>1, <4>2
    <3>1. NoDeletions
      <4>1. script' = script /\ (phase' = phase \/ phase' = phase + 1)
        <5>1. \A p \in Threads : Step(p) => script' = script /\ phase' = phase
          <6> SUFFICES ASSUME NEW p \in Threads, Step(p) PROVE script' = script /\ phase' = phase
              OBVIOUS
          <6>1. PICK rank, top : Shape(rank, top)
              BY <2>1 DEF ShapeInv, IsShaped
          <6>2. Goes(p)
              BY <3>0, <6>1, StepGoes
          <6> QED BY <6>2 DEF Goes
        <5> QED BY <5>1 DEF Next, Rebalance, NextPhase, vars
      <4>2. 1 .. phase \subseteq 1 .. phase'
          BY <3>0, <4>1
      <4> QED BY <2>2, <4>1, <4>2 DEF NoDeletions
    <3>2. ASSUME NEW p \in Threads, DeletesInner(p), ~Retry(p)
          PROVE  FALSE
      <4>1. PICK rank, top : Shape(rank, top)
          BY <2>1 DEF ShapeInv, IsShaped
      <4>2. kind(p) = "delete" /\ todo[p] # <<>>
          BY <3>0, <3>2, <4>1, DeleteFinds DEF DeletesInner
      <4>3. todo[p] \in Seq(Operation) /\ Scripted(p)
          BY <3>0 DEF Local
      <4>4. 1 \in DOMAIN todo[p] /\ todo[p][1].kind = "delete"
          BY <4>2, <4>3 DEF kind
      <4>5. PICK j \in DOMAIN script[phase].work[p] : todo[p][1] = script[phase].work[p][j]
          BY <4>3, <4>4 DEF Scripted
      <4>6. phase \in 1 .. phase
        <5>1. phase # 0
          <6>1. script \in Seq(Phase) /\ phase \in DOMAIN script
              BY <3>0, ScriptsAssumption DEF Local
          <6> QED BY <6>1
        <5> QED BY <3>0, <5>1
      <4> QED BY <3>1, <4>4, <4>5, <4>6 DEF NoDeletions
    <3>3. Spanning
        BY <3>1 DEF SpanningInv
    <3>4. CASE \E p \in Threads : DeletesInner(p)
      <4>1. PICK p \in Threads : DeletesInner(p)
          BY <3>4
      <4>2. Retry(p)
          BY <3>2, <4>1
      <4> QED BY <3>3, <4>2, SpanningUnchanged DEF Retry
    <3>5. CASE ~\E p \in Threads : DeletesInner(p)
        BY <2>1, <3>3, <3>5, SpanningStep
    <3> QED BY <3>4, <3>5
  <2> QED BY <2>1, <2>2 DEF SpanningInv
<1> QED BY <1>1, <1>2, PTL DEF Spec

\* As long as no deletion has been started, the records that have left the
\* tree are the finalized ones.
THEOREM RemovedCorrect == Spec => [](NoDeletions => RemovedIsFinalized)
<1>1. SpanningInv => (NoDeletions => RemovedIsFinalized)
    BY SpanningIs DEF SpanningInv
<1> QED BY <1>1, SpanningInvariant, PTL

-----------------------------------------------------------------------------
(***************************************************************************)
(* Trees without overweight records: as long as nothing is deleted, no     *)
(* record weighs more than 1, and a leaf weighs 1 and has no child at all  *)
(***************************************************************************)
LightCell(c) ==
    c.weight <= 1 /\ (LeafCell(c) => c.weight = 1 /\ \A s \in Sides : c[s] = Null)
Light == \A n \in Record : LightCell(heap[n])

\* A light record in terms of the heap.
LEMMA LightIs ==
    ASSUME Light, NEW n \in Record
    PROVE  /\ Weight(n) <= 1
           /\ IsLeaf(n) => Weight(n) = 1 /\ \A s \in Sides : Child(n, s) = Null
           /\ \A s \in Sides : Child(n, s) # Null => ~IsLeaf(n)
           /\ ~IsLeaf(n) => \A s \in Sides : Child(n, s) # Null
BY DEF Light, LightCell, LeafCell, IsLeaf, Child, Weight, Sides

\* No light record has one child only.
LEMMA LightIsWhole == Light => Whole
BY DEF Light, LightCell, LeafCell, Whole, WholeCell

\* A swing of a child to light records.
LEMMA SwingLight ==
    ASSUME heap \in Seq(Cell), Light, NEW parent \in Record, ~IsLeaf(parent),
           NEW old, NEW keep, NEW drop, NEW fresh \in Seq(Cell),
           Swing(parent, old, keep, drop, fresh),
           \A i \in 1 .. Len(fresh) : LightCell(fresh[i])
    PROVE  Light'
<1>1. /\ heap' \in Seq(Cell) /\ Len(heap') = Len(heap) + Len(fresh)
      /\ \A n \in Record : Weight(n)' = Weight(n)
      /\ \A n \in Record, s \in Sides :
            Child(n, s)' = IF n = parent /\ s = SideOf(parent, old)
                             THEN Len(heap) + 1 ELSE Child(n, s)
      /\ \A i \in 1 .. Len(fresh) : heap'[Len(heap) + i] = fresh[i]
    BY SwungHeap
<1>2. /\ Record = 1 .. Len(heap) /\ Len(heap) \in Nat
      /\ Record' = 1 .. Len(heap') /\ Len(fresh) \in Nat
    BY <1>1 DEF Record
<1>3. ASSUME NEW n \in Record PROVE LightCell(heap'[n])
  <2>1. heap'[n].weight = heap[n].weight /\ heap[n].weight <= 1
      BY <1>1, LightIs DEF Weight
  <2>2. \A s \in Sides : heap'[n][s] = Null => heap[n][s] = Null
      BY <1>1, <1>2 DEF Child, Null
  <2>3. CASE LeafCell(heap[n])
    <3>1. IsLeaf(n)
        BY <2>3 DEF LeafCell, IsLeaf, Child, Sides
    <3>2. n # parent
        BY <3>1
    <3>3. \A s \in Sides : heap'[n][s] = Null
        BY <1>1, <3>1, <3>2, LightIs DEF Child
    <3>4. heap[n].weight = 1
        BY <3>1, LightIs DEF Weight
    <3> QED BY <2>1, <3>3, <3>4 DEF LightCell
  <2>4. CASE ~LeafCell(heap[n])
      BY <2>1, <2>2, <2>4 DEF LightCell, LeafCell
  <2> QED BY <2>3, <2>4
<1>4. ASSUME NEW n \in Record', n \notin Record PROVE LightCell(heap'[n])
  <2>1. n \in Int /\ Len(heap) < n /\ n <= Len(heap) + Len(fresh)
      BY <1>1, <1>2, <1>4
  <2>2. PICK i \in 1 .. Len(fresh) : n = Len(heap) + i
    <3>1. n - Len(heap) \in 1 .. Len(fresh) /\ n = Len(heap) + (n - Len(heap))
        BY <1>2, <2>1
    <3> QED BY <3>1
  <2> QED BY <1>1, <2>2
<1> QED BY <1>3, <1>4 DEF Light

\* A parent of a record is not a leaf.
LEMMA ParentIs ==
    ASSUME Forest, Light, NEW parent \in Live, NEW node \in Record, NEW q \in Sides,
           Child(parent, q) = node
    PROVE  parent \in Record /\ ~IsLeaf(parent) /\ node # Null
<1>1. node # Null /\ parent \in Record
    BY FreshNames DEF Live
<1> QED BY <1>1, LightIs

\* The cells that rebalancing makes.
LEMMA CellsAre ==
    ASSUME Forest
    PROVE  /\ \A s \in Sides, k \in Keys \cup {MaxKey}, w \in Int, a, b \in Nat :
                 a # Null /\ b # Null /\ w <= 1 =>
                    Sided(s, k, w, a, b) \in Cell /\ LightCell(Sided(s, k, w, a, b))
           /\ \A k \in Keys \cup {MaxKey}, w \in Int, a, b \in Nat :
                 a # Null /\ b # Null /\ w <= 1 =>
                    Rec(k, w, a, b) \in Cell /\ LightCell(Rec(k, w, a, b))
           /\ \A n \in Record, w \in Int :
                 (\A s \in Sides : Child(n, s) # Null) /\ w <= 1 =>
                    Reweighed(n, w) \in Cell /\ LightCell(Reweighed(n, w))
<1>1. ASSUME NEW k \in Keys \cup {MaxKey}, NEW w \in Int, NEW a \in Nat, NEW b \in Nat,
             a # Null, b # Null, w <= 1
      PROVE  Rec(k, w, a, b) \in Cell /\ LightCell(Rec(k, w, a, b))
  <2>1. PICK c : c = Rec(k, w, a, b)
      OBVIOUS
  <2>2. c \in Cell /\ c["left"] = a /\ c["right"] = b
      BY <2>1, RecFields
  <2>3. c.weight = w
      BY <2>1 DEF Rec
  <2> QED BY <1>1, <2>1, <2>2, <2>3 DEF LightCell, LeafCell, Sides
<1>2. ASSUME NEW s \in Sides, NEW k \in Keys \cup {MaxKey}, NEW w \in Int,
             NEW a \in Nat, NEW b \in Nat, a # Null, b # Null, w <= 1
      PROVE  Sided(s, k, w, a, b) \in Cell /\ LightCell(Sided(s, k, w, a, b))
    BY <1>1, <1>2 DEF Sided
<1>3. ASSUME NEW n \in Record, NEW w \in Int, \A s \in Sides : Child(n, s) # Null, w <= 1
      PROVE  Reweighed(n, w) \in Cell /\ LightCell(Reweighed(n, w))
  <2>1. heap \in Seq(Cell)
      BY DEF Forest
  <2>2. PICK c : c = Reweighed(n, w)
      OBVIOUS
  <2>3. heap[n] \in Cell
      BY <2>1, RecordIs
  <2>4. c \in Cell /\ \A s \in Sides : c[s] = Child(n, s)
      BY <2>1, <2>2, ReweighedFields
  <2>5. c.weight = w
      BY <2>2, <2>3 DEF Reweighed, Cell
  <2> QED BY <1>3, <2>2, <2>4, <2>5 DEF LightCell, LeafCell
<1> QED BY <1>1, <1>2, <1>3

\* A rotation of two red records.
LEMMA RotateLight ==
    ASSUME Forest, Light, NEW parent \in Record, ~IsLeaf(parent), NEW v \in Record,
           NEW side \in Sides, Rotate(side, parent, v)
    PROVE  Light'
<1> PICK far, u, C, A, B :
       /\ far = Opposite(side) /\ u = Child(v, side) /\ C = Child(v, far)
       /\ A = Child(u, side) /\ B = Child(u, far)
    OBVIOUS
<1>1. /\ C # Null /\ u # Null /\ A # Null /\ B # Null
      /\ Swing(parent, v, {}, {v, u},
                << Sided(side, Key(u), Weight(v), A, New(2)),
                   Sided(side, Key(v), Weight(u), B, C) >>)
    BY DEF Rotate
<1>2. side \in Sides /\ far \in Sides
    BY TwoSides
<1>3. u \in Record /\ A \in Nat /\ B \in Nat /\ C \in Nat
  <2>1. u \in Record
      BY <1>1, <1>2 DEF Forest
  <2> QED BY <1>2, <2>1, ChildIsNat
<1>4. /\ Key(u) \in Keys \cup {MaxKey} /\ Key(v) \in Keys \cup {MaxKey}
      /\ Weight(u) \in Int /\ Weight(v) \in Int /\ Weight(u) <= 1 /\ Weight(v) <= 1
    BY <1>3, RecordFields, LightIs
<1>5. New(2) \in Nat /\ New(2) # Null
    BY FreshNames
<1> PICK a, b : /\ a = Sided(side, Key(u), Weight(v), A, New(2))
                /\ b = Sided(side, Key(v), Weight(u), B, C)
    OBVIOUS
<1>6. a \in Cell /\ b \in Cell /\ LightCell(a) /\ LightCell(b)
    BY <1>1, <1>3, <1>4, <1>5, CellsAre
<1>7. PICK fresh : fresh = <<a, b>>
    OBVIOUS
<1>8. fresh \in Seq(Cell) /\ \A i \in 1 .. Len(fresh) : LightCell(fresh[i])
    BY <1>6, <1>7
<1>9. Swing(parent, v, {}, {v, u}, fresh)
    BY <1>1, <1>7
<1> QED BY <1>8, <1>9, SwingLight DEF Forest

\* A double rotation.
LEMMA RotateTwiceLight ==
    ASSUME Forest, Light, NEW parent \in Record, ~IsLeaf(parent), NEW v \in Record,
           NEW side \in Sides, RotateTwice(side, parent, v)
    PROVE  Light'
<1> PICK far, l, lr :
       far = Opposite(side) /\ l = Child(v, side) /\ lr = Child(l, far)
    OBVIOUS
<1>1. /\ ~IsLeaf(v) /\ ~IsLeaf(l) /\ Weight(lr) = 0
      /\ Swing(parent, v, {}, {v, l, lr},
                << Sided(side, Key(lr), Weight(v), New(2), New(3)),
                   Sided(side, Key(l), 0, Child(l, side), Child(lr, side)),
                   Sided(side, Key(v), 0, Child(lr, far), Child(v, far)) >>)
    BY DEF RotateTwice
<1>2. side \in Sides /\ far \in Sides
    BY TwoSides
<1>3. l \in Record /\ lr \in Record /\ ~IsLeaf(lr)
  <2>1. l \in Record
      BY <1>1, <1>2, LightIs DEF Forest
  <2>2. lr \in Record
      BY <1>1, <1>2, <2>1, LightIs DEF Forest
  <2> QED BY <1>1, <2>1, <2>2, LightIs
<1>4. \A n \in {v, l, lr}, s \in Sides : Child(n, s) \in Nat /\ Child(n, s) # Null
    BY <1>1, <1>3, ChildIsNat, LightIs
<1>5. /\ \A n \in {v, l, lr} : Key(n) \in Keys \cup {MaxKey}
      /\ Weight(v) \in Int /\ Weight(v) <= 1
    BY <1>3, RecordFields, LightIs
<1>6. New(2) \in Nat /\ New(2) # Null /\ New(3) \in Nat /\ New(3) # Null
    BY FreshNames
<1> PICK a, b, c : /\ a = Sided(side, Key(lr), Weight(v), New(2), New(3))
                   /\ b = Sided(side, Key(l), 0, Child(l, side), Child(lr, side))
                   /\ c = Sided(side, Key(v), 0, Child(lr, far), Child(v, far))
    OBVIOUS
<1>7. /\ a \in Cell /\ b \in Cell /\ c \in Cell
      /\ LightCell(a) /\ LightCell(b) /\ LightCell(c)
  <2>1. a \in Cell /\ LightCell(a)
      BY <1>2, <1>5, <1>6, CellsAre
  <2>2. /\ Child(l, side) \in Nat /\ Child(l, side) # Null
        /\ Child(lr, side) \in Nat /\ Child(lr, side) # Null
        /\ Child(lr, far) \in Nat /\ Child(lr, far) # Null
        /\ Child(v, far) \in Nat /\ Child(v, far) # Null
      BY <1>2, <1>4
  <2>3. 0 \in Int /\ 0 <= 1
      OBVIOUS
  <2>4. b \in Cell /\ LightCell(b)
      BY <1>5, <2>2, <2>3, CellsAre
  <2>5. c \in Cell /\ LightCell(c)
      BY <1>5, <2>2, <2>3, CellsAre
  <2> QED BY <2>1, <2>4, <2>5
<1>8. PICK fresh : fresh = <<a, b, c>>
    OBVIOUS
<1>9. fresh \in Seq(Cell) /\ \A i \in 1 .. Len(fresh) : LightCell(fresh[i])
    BY <1>7, <1>8
<1>10. Swing(parent, v, {}, {v, l, lr}, fresh)
    BY <1>1, <1>8
<1> QED BY <1>9, <1>10, SwingLight DEF Forest

\* Two red children become black: they are no leaves, which are black.
LEMMA BlackenLight ==
    ASSUME Forest, Light, NEW parent \in Record, ~IsLeaf(parent), NEW node \in Record,
           tryRebalance1(parent, node)
    PROVE  Light'
<1> PICK l, r : l = Child(node, "left") /\ r = Child(node, "right")
    OBVIOUS
<1>1. /\ ~IsLeaf(node) /\ Weight(l) = 0 /\ Weight(r) = 0
      /\ Swing(parent, node, {}, {node, l, r},
                << Rec(Key(node), Weight(node) - 1, New(2), New(3)),
                   Reweighed(l, 1), Reweighed(r, 1) >>)
    BY DEF tryRebalance1
<1>2. "left" \in Sides /\ "right" \in Sides
    BY DEF Sides
<1>3. l \in Record /\ r \in Record
    BY <1>1, <1>2, LightIs DEF Forest
<1>4. ~IsLeaf(l) /\ ~IsLeaf(r)
    BY <1>1, <1>3, LightIs
<1>5. \A n \in {l, r}, s \in Sides : Child(n, s) # Null
    BY <1>3, <1>4, LightIs
<1>6. /\ Key(node) \in Keys \cup {MaxKey} /\ Weight(node) - 1 \in Int /\ Weight(node) - 1 <= 1
  <2>1. Weight(node) \in Int /\ Weight(node) <= 1
      BY RecordFields, LightIs
  <2> QED BY <2>1, RecordFields
<1>7. New(2) \in Nat /\ New(2) # Null /\ New(3) \in Nat /\ New(3) # Null
    BY FreshNames
<1> PICK a, b, c : /\ a = Rec(Key(node), Weight(node) - 1, New(2), New(3))
                   /\ b = Reweighed(l, 1) /\ c = Reweighed(r, 1)
    OBVIOUS
<1>8. /\ a \in Cell /\ b \in Cell /\ c \in Cell
      /\ LightCell(a) /\ LightCell(b) /\ LightCell(c)
    BY <1>3, <1>5, <1>6, <1>7, CellsAre
<1>9. PICK fresh : fresh = <<a, b, c>>
    OBVIOUS
<1>10. fresh \in Seq(Cell) /\ \A i \in 1 .. Len(fresh) : LightCell(fresh[i])
    BY <1>8, <1>9
<1>11. Swing(parent, node, {}, {node, l, r}, fresh)
    BY <1>1, <1>9
<1> QED BY <1>10, <1>11, SwingLight DEF Forest

\* The cases of overweight records do not occur.
LEMMA LightCases ==
    ASSUME Forest, Light, NEW node \in Record, NEW parent, NEW case,
           tryRebalance(case, parent, node)
    PROVE  \/ tryRebalance1(parent, node)
           \/ \E s \in Sides : Rotate(s, parent, node) \/ RotateTwice(s, parent, node)
<1>1. "left" \in Sides /\ "right" \in Sides
    BY DEF Sides
<1>2. ~tryRebalance4(parent, node)
  <2> SUFFICES ASSUME tryRebalance4(parent, node) PROVE FALSE
      OBVIOUS
  <2>1. PICK s \in Sides : Weight(Child(node, s)) > 1
      BY DEF tryRebalance4, Sides
  <2>2. Child(node, s) \in Record
      BY <1>1, LightIs DEF Forest, tryRebalance4
  <2>3. Weight(Child(node, s)) \in Int /\ Weight(Child(node, s)) <= 1
      BY <2>2, RecordFields, LightIs
  <2> QED BY <2>1, <2>3
<1>3. ASSUME NEW s \in Sides PROVE ~RotateWeight(s, parent, node)
  <2> SUFFICES ASSUME RotateWeight(s, parent, node) PROVE FALSE
      OBVIOUS
  <2>1. Child(node, s) # Null /\ Weight(Child(node, s)) > 1
      BY DEF RotateWeight
  <2>2. Child(node, s) \in Record
      BY <2>1 DEF Forest
  <2>3. Weight(Child(node, s)) \in Int /\ Weight(Child(node, s)) <= 1
      BY <2>2, RecordFields, LightIs
  <2> QED BY <2>1, <2>3
<1> QED BY <1>1, <1>2, <1>3 DEF tryRebalance, tryRebalance2A, tryRebalance2B, tryRebalance3A,
                              tryRebalance3B, tryRebalance5A, tryRebalance5B

\* Rebalancing.
LEMMA RebalanceLight ==
    ASSUME Forest, Light, NEW parent \in Live, NEW node \in Record, NEW q \in Sides,
           Child(parent, q) = node, NEW case, tryRebalance(case, parent, node)
    PROVE  Light'
<1>1. parent \in Record /\ ~IsLeaf(parent)
    BY ParentIs
<1>2. \/ tryRebalance1(parent, node)
      \/ \E s \in Sides : Rotate(s, parent, node) \/ RotateTwice(s, parent, node)
    BY LightCases
<1> QED BY <1>1, <1>2, BlackenLight, RotateLight, RotateTwiceLight

\* An insertion makes a leaf and, above one that weighs 1, a red record.
LEMMA InsertLight ==
    ASSUME Forest, Light, NEW parent \in Live, NEW leaf \in Live, NEW q \in Sides,
           Child(parent, q) = leaf, IsLeaf(leaf), NEW k \in Keys, Insert(k, parent, leaf)
    PROVE  Light'
<1>1. parent \in Record /\ ~IsLeaf(parent) /\ leaf \in Record
    BY ParentIs DEF Live
<1> PICK side : side = IF k < Key(leaf) THEN "right" ELSE "left"
    OBVIOUS
<1>2. side \in Sides
    BY DEF Sides
<1>3. Swing(parent, leaf, {leaf}, {}, Inserted(k, leaf, side))
    BY InsertIs
<1> PICK a, b, kn : /\ kn = IF side = "right" THEN Key(leaf) ELSE k
                   /\ a = Sided(side, kn, InsertedWeight(leaf), leaf, New(2))
                   /\ b = Leaf(k, 1)
    OBVIOUS
<1>4. InsertedWeight(leaf) \in Int /\ InsertedWeight(leaf) <= 1
  <2>1. Weight(leaf) = 1
      BY <1>1, LightIs
  <2> QED BY <2>1 DEF InsertedWeight
<1>5. a \in Cell /\ LightCell(a)
  <2>1. kn \in Keys \cup {MaxKey} /\ leaf \in Nat /\ leaf # Null
      BY <1>1, RecordFields, FreshNames
  <2>2. New(2) \in Nat /\ New(2) # Null
      BY FreshNames
  <2> QED BY <1>2, <1>4, <2>1, <2>2, CellsAre
<1>6. b \in Cell /\ LightCell(b)
  <2>1. b \in Cell /\ \A s \in Sides : b[s] = Null
    <3>1. b = Rec(k, 1, Null, Null)
        BY DEF Leaf
    <3> QED BY <3>1, RecFields DEF Null, Sides
  <2>2. b.weight = 1
      BY DEF Leaf, Rec
  <2> QED BY <2>1, <2>2 DEF LightCell
<1>7. PICK fresh : fresh = <<a, b>>
    OBVIOUS
<1>8. fresh \in Seq(Cell) /\ \A i \in 1 .. Len(fresh) : LightCell(fresh[i])
    BY <1>5, <1>6, <1>7
<1>9. Swing(parent, leaf, {leaf}, {}, fresh)
    BY <1>3, <1>7 DEF Inserted
<1> QED BY <1>1, <1>8, <1>9, SwingLight DEF Forest

-----------------------------------------------------------------------------
(***************************************************************************)
(* Where a search ends                                                     *)
(***************************************************************************)
\* The equation of the function that SearchEnd is defined by.
Walks(W, k) == W = [n \in Record |-> IF IsLeaf(n) THEN n ELSE W[Child(n, Toward(n, k))]]

EndOf(k, n) == CHOOSE m : m \in Path(k, n) /\ IsLeaf(m)

\* A search from a record visits that record and, unless it is a leaf, what a
\* search from the next one visits.
LEMMA PathUnfolds ==
    ASSUME Forest, Light, NEW n \in Record, NEW k
    PROVE  /\ IsLeaf(n) => Path(k, n) = {n}
           /\ ~IsLeaf(n) => /\ Child(n, Toward(n, k)) \in Record
                            /\ Path(k, n) = {n} \cup Path(k, Child(n, Toward(n, k)))
<1>1. CASE IsLeaf(n)
  <2>1. Child(n, Toward(n, k)) = Null
      BY <1>1, TowardSide, LightIs
  <2>2. Closed({n}, k)
      BY <2>1 DEF Closed
  <2> QED BY <1>1, <2>2 DEF Path
<1>2. CASE ~IsLeaf(n)
  <2>1. PICK c : c = Child(n, Toward(n, k))
      OBVIOUS
  <2>2. c # Null /\ c \in Record
      BY <1>2, <2>1, TowardSide, LightIs DEF Forest
  <2>3. ASSUME NEW m \in Path(k, n) PROVE m \in {n} \cup Path(k, c)
    <3> SUFFICES ASSUME m # n, NEW S \in SUBSET Record, c \in S, Closed(S, k)
                 PROVE  m \in S
        BY DEF Path
    <3>1. Closed(S \cup {n}, k)
        BY <2>1 DEF Closed
    <3>2. S \cup {n} \in SUBSET Record
        OBVIOUS
    <3>3. m \in S \cup {n}
        BY <3>1, <3>2 DEF Path
    <3> QED BY <3>3
  <2>4. ASSUME NEW m \in {n} \cup Path(k, c) PROVE m \in Path(k, n)
    <3>1. m \in Record
        BY DEF Path
    <3> SUFFICES ASSUME NEW S \in SUBSET Record, n \in S, Closed(S, k)
                 PROVE  m \in S
        BY <3>1 DEF Path
    <3>2. c \in S
        BY <2>1, <2>2 DEF Closed
    <3> QED BY <3>2 DEF Path
  <2> QED BY <1>2, <2>1, <2>2, <2>3, <2>4
<1> QED BY <1>1, <1>2

\* The equation has a solution.
LEMMA SomeWalk ==
    ASSUME Forest, Light, NEW k
    PROVE  \E W : Walks(W, k)
<1>1. PICK W : W = [n \in Record |-> EndOf(k, n)]
    OBVIOUS
<1>2. ASSUME NEW n \in Record
      PROVE  W[n] = IF IsLeaf(n) THEN n ELSE W[Child(n, Toward(n, k))]
  <2>1. CASE IsLeaf(n)
    <3>1. Path(k, n) = {n}
        BY <2>1, PathUnfolds
    <3>2. EndOf(k, n) = n
        BY <2>1, <3>1 DEF EndOf
    <3> QED BY <1>1, <2>1, <3>2
  <2>2. CASE ~IsLeaf(n)
    <3>1. PICK c : c = Child(n, Toward(n, k))
        OBVIOUS
    <3>2. c \in Record /\ Path(k, n) = {n} \cup Path(k, c)
        BY <2>2, <3>1, PathUnfolds
    <3>3. \A m : m \in Path(k, n) /\ IsLeaf(m) <=> m \in Path(k, c) /\ IsLeaf(m)
        BY <2>2, <3>2
    <3>4. EndOf(k, n) = EndOf(k, c)
        BY <3>3, Zenon DEF EndOf
    <3> QED BY <1>1, <2>2, <3>1, <3>2, <3>4
  <2> QED BY <2>1, <2>2
<1>3. PICK G : G = [n \in Record |-> IF IsLeaf(n) THEN n ELSE W[Child(n, Toward(n, k))]]
    OBVIOUS
<1>4. W = [n \in Record |-> W[n]]
    BY <1>1
<1>5. W = G
    BY <1>2, <1>3, <1>4
<1> QED BY <1>3, <1>5 DEF Walks

\* SearchEnd is what a solution has for the left child of Root.
LEMMA SearchWalks ==
    ASSUME Forest, Light, NEW k
    PROVE  \E W : Walks(W, k) /\ SearchEnd(k) = W[Child(Root, "left")]
<1> DEFINE Solution == CHOOSE W :
              W = [n \in Record |-> IF IsLeaf(n) THEN n ELSE W[Child(n, Toward(n, k))]]
<1>1. \E W : W = [n \in Record |-> IF IsLeaf(n) THEN n ELSE W[Child(n, Toward(n, k))]]
    BY SomeWalk, Zenon DEF Walks
<1>2. Solution = [n \in Record |-> IF IsLeaf(n) THEN n ELSE Solution[Child(n, Toward(n, k))]]
    BY <1>1, Zenon
<1>3. SearchEnd(k) = Solution[Child(Root, "left")]
    BY Zenon DEF SearchEnd
<1> QED BY <1>2, <1>3, Zenon DEF Walks

\* A live record above a leaf of the order sends the search for a key of the
\* leaf towards it.
LEMMA RoutedChild ==
    ASSUME Forest, NEW rank, NEW top, Ranked(rank, top), NEW R, NEW K, Order(R, K),
           NEW n \in Live, NEW s \in Sides, Child(n, s) # Null, NEW k
    PROVE  /\ Child(n, s) \in Live /\ rank[Child(n, s)] < rank[n]
           /\ k \in R[Child(n, s)] <=> k \in R[n] /\ Toward(n, k) = s
<1>1. R[Child(n, s)] = Route(Key(n), s, R[n])
    BY DEF Order
<1>2. TowardKey(Key(n), k) = Toward(n, k)
    BY DEF TowardKey, Toward
<1> QED BY <1>1, <1>2, LiveChild DEF Route

\* The root sends every key to the left.
LEMMA RootIs ==
    ASSUME Forest, Key(Root) = MaxKey, NEW k \in Keys
    PROVE  /\ Root \in Live /\ Toward(Root, k) = "left" /\ "left" \in Sides
           /\ Child(Root, "left") # Null
  BY KeysAssumption DEF Forest, Live, Toward, Sides, IsLeaf

\* A search for a key ends at the one live leaf that the key belongs to.
LEMMA EndIs ==
    ASSUME Forest, Light, Spanning, NEW rank, NEW top, Ranked(rank, top), Key(Root) = MaxKey,
           NEW R, NEW K, Order(R, K), NEW k \in Keys
    PROVE  /\ SearchEnd(k) \in Live /\ IsLeaf(SearchEnd(k)) /\ k \in R[SearchEnd(k)]
           /\ \A e \in Live : IsLeaf(e) /\ k \in R[e] => e = SearchEnd(k)
<1>1. PICK W : Walks(W, k) /\ SearchEnd(k) = W[Child(Root, "left")]
    BY SearchWalks
<1>2. \A n \in Record : W[n] = IF IsLeaf(n) THEN n ELSE W[Child(n, Toward(n, k))]
    BY <1>1 DEF Walks
<1>3. Root \in Live /\ k \in R[Root] /\ W[Root] = W[Child(Root, "left")]
    BY <1>2, RootIs DEF Order, Forest
<1>4. top \in Nat /\ rank \in [Record -> 0 .. top] /\ Live \subseteq Record
    BY DEF Ranked, Live
<1>5. \E e \in Live : IsLeaf(e) /\ k \in R[e]
  <2>1. PICK T : T = {n \in Live : k \in R[n]}
      OBVIOUS
  <2>2. PICK e \in T : \A m \in T : rank[e] <= rank[m]
    <3>1. T \in SUBSET Record /\ T # {} /\ rank \in [Record -> Nat]
        BY <1>3, <1>4, <2>1
    <3> QED BY <3>1, LeastRank
  <2>3. CASE ~IsLeaf(e)
    <3>1. PICK c : c = Child(e, Toward(e, k))
        OBVIOUS
    <3>2. Toward(e, k) \in Sides /\ c # Null /\ e \in Live /\ k \in R[e]
        BY <1>4, <2>1, <2>3, <3>1, TowardSide, LightIs
    <3>3. c \in Live /\ rank[c] < rank[e] /\ k \in R[c]
        BY <3>1, <3>2, RoutedChild
    <3>4. c \in T /\ rank[c] \in Int /\ rank[e] \in Int
        BY <1>4, <2>1, <3>2, <3>3
    <3> QED BY <2>2, <3>3, <3>4
  <2> QED BY <2>1, <2>2, <2>3
<1>6. ASSUME NEW e \in Live, IsLeaf(e), k \in R[e]
      PROVE  e = SearchEnd(k)
  <2>1. PICK T : T = {n \in Live : k \in R[n] /\ W[n] = e}
      OBVIOUS
  <2>2. e \in T
      BY <1>2, <1>4, <1>6, <2>1
  <2>3. PICK depth : depth = [n \in Record |-> top - rank[n]]
      OBVIOUS
  <2>4. PICK m \in T : \A n \in T : depth[m] <= depth[n]
    <3>1. T \in SUBSET Record /\ T # {}
        BY <1>4, <2>1, <2>2
    <3>2. depth \in [Record -> Nat]
        BY <1>4, <2>3
    <3> QED BY <3>1, <3>2, LeastRank
  <2>5. CASE m # Root
    <3>1. m \in Live /\ k \in R[m] /\ W[m] = e
        BY <2>1
    <3>2. PICK n \in Live, s \in Sides : Child(n, s) = m
        BY <2>5, <3>1 DEF Spanning
    <3>3. Child(n, s) # Null
        BY <3>1, <3>2, FreshNames DEF Live
    <3>4. k \in R[n] /\ Toward(n, k) = s /\ rank[m] < rank[n]
        BY <3>1, <3>2, <3>3, RoutedChild
    <3>5. ~IsLeaf(n)
        BY <1>4, <3>3, LightIs
    <3>6. W[n] = e
        BY <1>2, <1>4, <3>1, <3>2, <3>4, <3>5
    <3>7. n \in T /\ depth[n] = top - rank[n] /\ depth[m] = top - rank[m]
        BY <1>4, <2>1, <2>3, <3>1, <3>4, <3>6
    <3>8. rank[n] \in Int /\ rank[m] \in Int
        BY <1>4, <3>1
    <3> QED BY <1>4, <2>4, <3>4, <3>7, <3>8
  <2> QED BY <1>1, <1>3, <2>1, <2>5
<1> QED BY <1>5, <1>6

\* The keys of the tree are those at the live leaves.
LEMMA PresentHolds ==
    ASSUME Forest, Light, Spanning, NEW rank, NEW top, Ranked(rank, top), Key(Root) = MaxKey,
           NEW R, NEW K, Order(R, K)
    PROVE  Present = Holds(R)
<1>1. ASSUME NEW k \in Keys
      PROVE  Key(SearchEnd(k)) = k <=> \E n \in Live : IsLeaf(n) /\ Key(n) = k /\ k \in R[n]
  <2>1. PICK e : e = SearchEnd(k)
      OBVIOUS
  <2>2. /\ e \in Live /\ IsLeaf(e) /\ k \in R[e]
        /\ \A n \in Live : IsLeaf(n) /\ k \in R[n] => n = e
      BY <2>1, EndIs
  <2> QED BY <2>1, <2>2
<1> QED BY <1>1 DEF Present, Holds

\* Rebalancing neither loses a key nor finds one.
LEMMA RebalanceHolds ==
    ASSUME Forest, NEW rank, NEW top, Ranked(rank, top), Light',
           NEW parent \in Live, NEW node \in Record, NEW q \in Sides, Child(parent, q) = node,
           NEW case, tryRebalance(case, parent, node), NEW R, NEW K, Order(R, K)
    PROVE  /\ parent \in Live'
           /\ \E R2, K2 : /\ Order(R2, K2)' /\ \A n \in Record : R2[n] = R[n]
                          /\ Holds(R2)' = Holds(R)
<1>1. PICK keep, drop, fresh :
         /\ Swing(parent, node, keep, drop, fresh)
         /\ Grafts(rank, parent, node, drop, fresh)
         /\ \A R0, K0 : Order(R0, K0) =>
               \E fr, fk : /\ Sorts(R0, K0, fr, fk, parent, SideOf(parent, node), drop, fresh)
                           /\ Copies(R0, fr, drop, fresh)
    BY RebalanceKeeps DEF Keeps
<1>2. PICK fr, fk : /\ Sorts(R, K, fr, fk, parent, SideOf(parent, node), drop, fresh)
                    /\ Copies(R, fr, drop, fresh)
    BY <1>1
<1>3. PICK R2, K2 : /\ Order(R2, K2)'
                    /\ \A n \in Record : R2[n] = R[n]
                    /\ \A i \in 1 .. Len(fresh) : R2[New(i)] = fr[i]
    BY <1>1, <1>2, GraftOrder
<1>4. PICK L : L = Len(heap)
    OBVIOUS
<1>5. Whole'
  <2>1. (Light => Whole)'
      BY LightIsWhole, PTL
  <2> QED BY <2>1
<1>6. /\ Live' = (Live \ drop) \cup { L + i : i \in 1 .. Len(fresh) }
      /\ \A i \in 1 .. Len(fresh) : /\ IsLeaf(L + i)' <=> LeafCell(fresh[i])
                                    /\ Key(L + i)' = fresh[i].key
                                    /\ WholeCell(fresh[i])
      /\ \A n \in Record : (IsLeaf(n)' <=> IsLeaf(n)) /\ Key(n)' = Key(n)
  <2>1. /\ Live' = (Live \ drop) \cup { L + i : i \in 1 .. Len(fresh) }
        /\ \A i \in 1 .. Len(fresh) :
              /\ L + i \in Record'
              /\ IsLeaf(L + i)' <=> LeafCell(fresh[i])
              /\ Key(L + i)' = fresh[i].key
              /\ Whole' => WholeCell(fresh[i])
        /\ \A n \in Record : (IsLeaf(n)' <=> IsLeaf(n)) /\ Key(n)' = Key(n)
    <3>1. Leafed(L, drop, fresh)
        BY <1>1, <1>4, GraftLeaves
    <3> QED BY <3>1 DEF Leafed
  <2> QED BY <1>5, <2>1
<1>7. /\ \A d \in drop : IsLeaf(d) =>
            \E i \in 1 .. Len(fresh) :
               LeafCell(fresh[i]) /\ fresh[i].key = Key(d) /\ fr[i] = R[d]
      /\ \A i \in 1 .. Len(fresh) : LeafCell(fresh[i]) =>
            \E d \in drop : IsLeaf(d) /\ Key(d) = fresh[i].key /\ fr[i] = R[d]
    BY <1>2, <1>6 DEF Copies
<1>8. /\ \A i \in 1 .. Len(fresh) : R2[L + i] = fr[i]
      /\ drop \subseteq Live /\ Live \subseteq Record
    BY <1>1, <1>3, <1>4 DEF New, Grafts, Live
<1>9. ASSUME NEW k \in Keys
      PROVE  (\E n \in Live' : IsLeaf(n)' /\ Key(n)' = k /\ k \in R2[n])
               <=> \E n \in Live : IsLeaf(n) /\ Key(n) = k /\ k \in R[n]
  <2>1. ASSUME NEW n \in Live, IsLeaf(n), Key(n) = k, k \in R[n]
        PROVE  \E m \in Live' : IsLeaf(m)' /\ Key(m)' = k /\ k \in R2[m]
    <3>1. CASE n \notin drop
        BY <1>3, <1>6, <1>8, <2>1, <3>1
    <3>2. CASE n \in drop
      <4>1. PICK i \in 1 .. Len(fresh) :
               LeafCell(fresh[i]) /\ fresh[i].key = Key(n) /\ fr[i] = R[n]
          BY <1>7, <2>1, <3>2
      <4>2. PICK m : m = L + i
          OBVIOUS
      <4>3. m \in Live' /\ IsLeaf(m)' /\ Key(m)' = k /\ k \in R2[m]
          BY <1>6, <1>8, <2>1, <4>1, <4>2
      <4> QED BY <4>3
    <3> QED BY <3>1, <3>2
  <2>2. ASSUME NEW m \in Live', IsLeaf(m)', Key(m)' = k, k \in R2[m]
        PROVE  \E n \in Live : IsLeaf(n) /\ Key(n) = k /\ k \in R[n]
    <3>1. CASE m \in Live \ drop
        BY <1>3, <1>6, <1>8, <2>2, <3>1
    <3>2. CASE m \notin Live \ drop
      <4>1. PICK i \in 1 .. Len(fresh) : m = L + i
          BY <1>6, <3>2
      <4>2. LeafCell(fresh[i]) /\ fresh[i].key = k /\ k \in fr[i]
          BY <1>6, <1>8, <2>2, <4>1
      <4>3. PICK d \in drop : IsLeaf(d) /\ Key(d) = fresh[i].key /\ fr[i] = R[d]
          BY <1>7, <4>2
      <4> QED BY <1>8, <4>2, <4>3
    <3> QED BY <3>1, <3>2
  <2> QED BY <2>1, <2>2
<1>10. Holds(R2)' = Holds(R)
  <2>1. Holds(R2)' = { k \in Keys : \E n \in Live' : IsLeaf(n)' /\ Key(n)' = k /\ k \in R2[n] }
      BY DEF Holds
  <2> QED BY <1>9, <2>1 DEF Holds
<1>11. parent \in Live'
    BY <1>1, <1>6 DEF Grafts
<1> QED BY <1>3, <1>10, <1>11

\* An insertion below a leaf that a search for its key ends at adds the key.
LEMMA InsertHolds ==
    ASSUME Forest, Light, NEW rank, NEW top, Ranked(rank, top),
           NEW parent \in Live, NEW leaf \in Live, NEW q \in Sides, Child(parent, q) = leaf,
           IsLeaf(leaf), NEW k \in Keys, Insert(k, parent, leaf),
           NEW R, NEW K, Order(R, K), k \in R[leaf]
    PROVE  /\ parent \in Live'
           /\ \E R2, K2 : /\ Order(R2, K2)' /\ \A n \in Record : ~IsLeaf(n) => R2[n] = R[n]
                          /\ Holds(R2)' = Holds(R) \cup {k}
<1> PICK side : side = IF k < Key(leaf) THEN "right" ELSE "left"
    OBVIOUS
<1> PICK kn : kn = IF side = "right" THEN Key(leaf) ELSE k
    OBVIOUS
<1> PICK fresh : fresh = Inserted(k, leaf, side)
    OBVIOUS
<1>1. /\ side \in Sides /\ Opposite(side) \in Sides /\ Opposite(side) # side
      /\ Opposite(Opposite(side)) = side
  <2>1. side \in Sides
      BY DEF Sides
  <2> QED BY <2>1, TwoSides
<1>2. leaf \in Record /\ parent \in Record /\ leaf # Null /\ leaf # parent
    BY ParentIs DEF Live
<1>3. /\ fresh \in Seq(Cell) /\ Len(fresh) = 2 /\ 1 .. Len(fresh) = {1, 2}
      /\ fresh[1].key = kn /\ fresh[1][side] = leaf /\ fresh[1][Opposite(side)] = New(2)
      /\ fresh[2].key = k /\ \A s \in Sides : fresh[2][s] = Null
    BY <1>1, <1>2, InsertedFields
<1>4. Swing(parent, leaf, {leaf}, {}, fresh) /\ Grafts(rank, parent, leaf, {}, fresh)
    BY <1>1, InsertIs, InsertGrafts
<1>5. PICK R0, K0, fr, fk :
         /\ Sorts(R0, K0, fr, fk, parent, SideOf(parent, leaf), {}, fresh)
         /\ \A n \in Record \ {leaf} : R0[n] = R[n]
  <2>1. \A s \in Sides : Child(leaf, s) = Null
      BY <1>2, LightIs
  <2> QED BY <2>1, InsertSorts
<1>6. PICK R2, K2 : /\ Order(R2, K2)'
                    /\ \A n \in Record : R2[n] = R0[n]
                    /\ \A i \in 1 .. Len(fresh) : R2[New(i)] = fr[i]
    BY <1>4, <1>5, GraftOrder
<1>7. PICK L : L = Len(heap)
    OBVIOUS
<1>8. /\ Live' = Live \cup { L + i : i \in 1 .. Len(fresh) }
      /\ \A i \in 1 .. Len(fresh) : /\ IsLeaf(L + i)' <=> LeafCell(fresh[i])
                                    /\ Key(L + i)' = fresh[i].key
      /\ \A n \in Record : (IsLeaf(n)' <=> IsLeaf(n)) /\ Key(n)' = Key(n)
  <2>1. PICK drop : drop = {}
      OBVIOUS
  <2>2. Swing(parent, leaf, {leaf}, drop, fresh) /\ Grafts(rank, parent, leaf, drop, fresh)
      BY <1>4, <2>1
  <2>3. /\ Live' = (Live \ drop) \cup { L + i : i \in 1 .. Len(fresh) }
        /\ \A i \in 1 .. Len(fresh) :
              /\ L + i \in Record'
              /\ IsLeaf(L + i)' <=> LeafCell(fresh[i])
              /\ Key(L + i)' = fresh[i].key
              /\ Whole' => WholeCell(fresh[i])
        /\ \A n \in Record : (IsLeaf(n)' <=> IsLeaf(n)) /\ Key(n)' = Key(n)
    <3>1. Leafed(L, drop, fresh)
        BY <1>7, <2>2, GraftLeaves
    <3> QED BY <3>1 DEF Leafed
  <2> QED BY <2>1, <2>3
\* The new record has the searches of the leaf, and splits them.
<1>9. /\ fr[1] = R[leaf]
      /\ fr[2] = Route(kn, Opposite(side), R[leaf])
      /\ R0[leaf] = Route(kn, side, R[leaf])
  <2>1. PICK s : s = SideOf(parent, leaf)
      OBVIOUS
  <2>2. s \in Sides /\ Child(parent, s) = leaf
      BY <2>1, SideOfChild
  <2>3. fr[1] = Route(Key(parent), s, R0[parent])
      BY <1>5, <2>1 DEF Sorts
  <2>4. R[leaf] = Route(Key(parent), s, R[parent])
      BY <1>2, <2>2 DEF Order
  <2>5. fr[1] = R[leaf]
      BY <1>2, <1>5, <2>3, <2>4
  <2>6. fr[2] = Route(kn, Opposite(side), fr[1])
      BY <1>1, <1>3, <1>5 DEF Sorts
  <2>7. R0[leaf] = Route(kn, side, fr[1])
      BY <1>1, <1>2, <1>3, <1>5 DEF Sorts
  <2> QED BY <2>5, <2>6, <2>7
<1>10. /\ TowardKey(kn, k) = Opposite(side)
       /\ Key(leaf) # k => TowardKey(kn, Key(leaf)) = side
  <2>1. k \in Int /\ Key(leaf) \in Int
      BY <1>2, KeysAssumption, RecordFields
  <2>2. CASE k < Key(leaf)
      BY <2>1, <2>2 DEF TowardKey, Opposite
  <2>3. CASE ~(k < Key(leaf))
      BY <2>1, <2>3 DEF TowardKey, Opposite
  <2> QED BY <2>2, <2>3
<1>11. /\ L + 1 \in Live' /\ ~IsLeaf(L + 1)'
       /\ L + 2 \in Live' /\ IsLeaf(L + 2)' /\ Key(L + 2)' = k /\ R2[L + 2] = fr[2]
       /\ Live' = Live \cup {L + 1, L + 2}
  <2>1. L + 1 \in Live' /\ L + 2 \in Live' /\ Live' = Live \cup {L + 1, L + 2}
      BY <1>3, <1>8
  <2>2. ~LeafCell(fresh[1])
    <3>1. New(2) # Null
        BY FreshNames
    <3> QED BY <1>1, <1>2, <1>3, <3>1, TwoSides DEF LeafCell
  <2>3. LeafCell(fresh[2])
      BY <1>1, <1>3 DEF LeafCell
  <2>4. 1 \in 1 .. Len(fresh) /\ 2 \in 1 .. Len(fresh)
      BY <1>3
  <2>5. R2[L + 2] = fr[2]
      BY <1>6, <1>7, <2>4 DEF New
  <2>6. ~IsLeaf(L + 1)'
      BY <1>8, <2>2, <2>4
  <2>7. IsLeaf(L + 2)' /\ Key(L + 2)' = k
      BY <1>3, <1>8, <2>3, <2>4
  <2> QED BY <2>1, <2>5, <2>6, <2>7
<1>12. k \in fr[2] /\ \A x \in R[leaf] : x # k /\ x = Key(leaf) => x \in R0[leaf]
    BY <1>9, <1>10 DEF Route
<1>13. \A n \in Live : R2[n] = R0[n] /\ (n # leaf => R0[n] = R[n])
    BY <1>5, <1>6 DEF Live
<1>14. R0[leaf] \subseteq R[leaf]
    BY <1>9 DEF Route
<1>15. ASSUME NEW x \in Keys
      PROVE  (\E n \in Live' : IsLeaf(n)' /\ Key(n)' = x /\ x \in R2[n])
               <=> x = k \/ \E n \in Live : IsLeaf(n) /\ Key(n) = x /\ x \in R[n]
  <2>1. ASSUME NEW n \in Live, IsLeaf(n), Key(n) = x, x \in R[n], x # k
        PROVE  \E m \in Live' : IsLeaf(m)' /\ Key(m)' = x /\ x \in R2[m]
    <3>1. n \in Live' /\ IsLeaf(n)' /\ Key(n)' = x
        BY <1>8, <2>1 DEF Live
    <3>2. x \in R2[n]
        BY <1>12, <1>13, <2>1
    <3> QED BY <3>1, <3>2
  <2>2. \E m \in Live' : IsLeaf(m)' /\ Key(m)' = k /\ k \in R2[m]
    <3>1. PICK m : m = L + 2
        OBVIOUS
    <3>2. m \in Live' /\ IsLeaf(m)' /\ Key(m)' = k /\ k \in R2[m]
        BY <1>11, <1>12, <3>1
    <3> QED BY <3>2
  <2>3. ASSUME NEW m \in Live', IsLeaf(m)', Key(m)' = x, x \in R2[m], x # k
        PROVE  \E n \in Live : IsLeaf(n) /\ Key(n) = x /\ x \in R[n]
    <3>1. m \in Live
      <4>1. m # L + 1 /\ m # L + 2
          BY <1>11, <2>3
      <4> QED BY <1>11, <4>1
    <3>2. IsLeaf(m) /\ Key(m) = x
        BY <1>8, <2>3, <3>1 DEF Live
    <3>3. x \in R[m]
        BY <1>13, <1>14, <2>3, <3>1
    <3> QED BY <3>1, <3>2, <3>3
  <2> QED BY <2>1, <2>2, <2>3
<1>16. Holds(R2)' = Holds(R) \cup {k}
  <2>1. Holds(R2)' = { x \in Keys : \E n \in Live' : IsLeaf(n)' /\ Key(n)' = x /\ x \in R2[n] }
      BY DEF Holds
  <2> QED BY <1>15, <2>1 DEF Holds
<1>17. \A n \in Record : ~IsLeaf(n) => R2[n] = R[n]
    BY <1>5, <1>6
<1> QED BY <1>6, <1>8, <1>16, <1>17

-----------------------------------------------------------------------------
(***************************************************************************)
(* Searches that go on while the tree changes                              *)
(***************************************************************************)
\* Whether a leaf has the key k has been the answer at some moment.
Saw(c, k, sn) == (Key(c) = k => TRUE \in sn) /\ (Key(c) # k => FALSE \in sn)

\* A search for k that goes on from a record of S stays in it.  It is sent to
\* where k is, and a leaf that it would find below a record that has left the
\* tree was the one for k when that record left.
Explores(S, k, R, sn) ==
    /\ S \in SUBSET Record /\ Closed(S, k)
    /\ \A m \in S : ~IsLeaf(m) =>
          /\ k \in R[m]
          /\ m \in finalized /\ IsLeaf(Child(m, Toward(m, k))) =>
                Saw(Child(m, Toward(m, k)), k, sn)

SearchesAt(label, frame, op, sn, R) ==
    /\ label \in SearchLabels => op.key \in R[frame.n1]
    /\ label = "search" =>
          \/ IsLeaf(frame.n2) /\ Saw(frame.n2, op.key, sn)
          \/ ~IsLeaf(frame.n2) /\ \E S : frame.n2 \in S /\ Explores(S, op.key, R, sn)
Searches(p, R) == SearchesAt(pc[p], at[p], Head(todo[p]), seen[p], R)

\* What has been true of a key includes what is true of it now.
Knows(k, sn) == (k \in Present => TRUE \in sn) /\ (k \notin Present => FALSE \in sn)
SeenOK ==
    /\ seen \in [Threads -> SUBSET BOOLEAN]
    /\ \A p \in Threads : pc[p] # "idle" => Knows(key(p), seen[p])

\* The shape of a tree without deletions, for given ranks.
Grown(rank, top) ==
    /\ Forest /\ Ranked(rank, top) /\ Light /\ Spanning /\ Key(Root) = MaxKey

\* The leaf of a key tells whether the key is there.
LEMMA LeafSaw ==
    ASSUME NEW rank, NEW top, Grown(rank, top), NEW R, NEW K, Order(R, K), NEW k \in Keys,
           NEW e \in Live, IsLeaf(e), k \in R[e], NEW sn, Knows(k, sn)
    PROVE  Saw(e, k, sn)
<1>1. e = SearchEnd(k)
    BY EndIs DEF Grown
<1> QED BY <1>1 DEF Saw, Present, Knows

\* A search that goes on in a tree which stays the same.
LEMMA SearchesStill ==
    ASSUME UNCHANGED <<heap, finalized>>, NEW label, NEW frame, NEW op, NEW sn, NEW sn2, NEW R,
           sn \subseteq sn2, SearchesAt(label, frame, op, sn, R)
    PROVE  SearchesAt(label, frame, op, sn2, R)'
<1>1. \A c, k : Saw(c, k, sn) => Saw(c, k, sn2)'
    BY DEF Saw, Key
<1>2. \A S, k : Explores(S, k, R, sn) => Explores(S, k, R, sn2)'
    BY <1>1 DEF Explores, Closed, Record, IsLeaf, Child, Toward, Key
<1>3. \A c : IsLeaf(c)' <=> IsLeaf(c)
    BY DEF IsLeaf, Child
<1>4. CASE label # "search"
    BY <1>4 DEF SearchesAt
<1>5. CASE label = "search" /\ IsLeaf(frame.n2)
    BY <1>1, <1>3, <1>5 DEF SearchesAt
<1>6. CASE label = "search" /\ ~IsLeaf(frame.n2)
  <2>1. PICK S : frame.n2 \in S /\ Explores(S, op.key, R, sn)
      BY <1>6 DEF SearchesAt
  <2>2. Explores(S, op.key, R, sn2)'
      BY <1>2, <2>1
  <2>3. op.key \in R[frame.n1]
      BY <1>6 DEF SearchesAt, SearchLabels
  <2> QED BY <1>3, <1>6, <2>1, <2>2, <2>3 DEF SearchesAt
<1> QED BY <1>4, <1>5, <1>6

\* A child of parent is replaced.
Regrows(parent, R, R2, K2) ==
    /\ Forest' /\ Evolves(parent) /\ parent \in Live /\ parent \in Live'
    /\ Order(R2, K2)' /\ \A n \in Record : ~IsLeaf(n) => R[n] \subseteq R2[n]

\* What goes on from S goes on, in the next state, from a larger set.
Larger(S, k, R2, sn2) == \E S2 : S \subseteq S2 /\ Explores(S2, k, R2, sn2)'

\* The records it may come to now are added.
LEMMA ExploresFirm ==
    ASSUME NEW rank, NEW top, Grown(rank, top), NEW R, NEW K, Order(R, K), NEW k \in Keys,
           NEW parent, NEW R2, NEW K2, Regrows(parent, R, R2, K2),
           NEW sn, Knows(k, sn), NEW sn2, sn \subseteq sn2, NEW S, Explores(S, k, R, sn)
    PROVE  Larger(S, k, R2, sn2)
<1>1. /\ Forest /\ Light /\ Forest' /\ Evolves(parent) /\ parent \in Live /\ parent \in Live'
      /\ Order(R2, K2)' /\ \A n \in Record : ~IsLeaf(n) => R[n] \subseteq R2[n]
    BY DEF Grown, Regrows
<1>2. PICK S2 : S2 = S \cup {m \in Live' : k \in R2[m]}
    OBVIOUS
<1>3. S \subseteq Record /\ Record \subseteq Record' /\ S2 \subseteq Record'
  <2>1. Live' \subseteq Record'
      BY DEF Live
  <2> QED BY <1>1, <1>2, <2>1 DEF Explores, Evolves
<1>4. \A n \in Record : /\ IsLeaf(n)' <=> IsLeaf(n)
                        /\ Key(n)' = Key(n) /\ Toward(n, k)' = Toward(n, k)
    BY <1>1, EvolvesLeaves DEF Toward
<1>5. \A n : Toward(n, k) \in Sides /\ Toward(n, k)' \in Sides
    BY DEF Toward, Sides
\* Below a live record that the search for k passes there is another.
<1>6. ASSUME NEW n \in Live', k \in R2[n], Child(n, Toward(n, k))' # Null
      PROVE  /\ Child(n, Toward(n, k))' \in Live'
             /\ k \in R2[Child(n, Toward(n, k))']
  <2>1. PICK s, c : s = Toward(n, k)' /\ c = Child(n, s)'
      OBVIOUS
  <2>2. s \in Sides /\ c # Null
      BY <1>5, <1>6, <2>1
  <2>3. c \in Live'
      BY <1>1, <2>1, <2>2 DEF Forest, Live
  <2>4. R2[c] = Route(Key(n)', s, R2[n])
      BY <1>1, <2>1, <2>2 DEF Order
  <2>5. TowardKey(Key(n)', k) = s
      BY <2>1 DEF TowardKey, Toward
  <2> QED BY <1>6, <2>1, <2>3, <2>4, <2>5 DEF Route
<1>7. ASSUME NEW m \in S, ~IsLeaf(m)
      PROVE  k \in R[m] /\ k \in R2[m]
    BY <1>1, <1>3, <1>7 DEF Explores
<1>8. Closed(S2, k)'
  <2> SUFFICES ASSUME NEW m \in S2, Child(m, Toward(m, k))' # Null
               PROVE  Child(m, Toward(m, k))' \in S2
      BY DEF Closed
  <2>1. CASE m \in Live' /\ k \in R2[m]
      BY <1>2, <1>6, <2>1
  <2>2. CASE m \in S /\ ~(m \in Live' /\ k \in R2[m])
    <3>1. PICK s : s = Toward(m, k)
        OBVIOUS
    <3>2. s \in Sides /\ Toward(m, k)' = s /\ m \in Record
        BY <1>3, <1>4, <1>5, <2>2, <3>1
    <3>3. Child(m, s) # Null
        BY <1>1, <3>2 DEF Evolves
    <3>4. ~IsLeaf(m) /\ m # parent
        BY <1>1, <1>7, <2>2, <3>2, <3>3, LightIs
    <3>5. Child(m, s)' = Child(m, s)
        BY <1>1, <3>2, <3>4 DEF Evolves
    <3>6. Child(m, s) \in S
        BY <2>2, <3>1, <3>3 DEF Explores, Closed
    <3> QED BY <1>2, <3>2, <3>5, <3>6
  <2> QED BY <1>2, <2>1, <2>2
<1>9. ASSUME NEW m \in S2, ~IsLeaf(m)'
      PROVE  /\ k \in R2[m]
             /\ m \in finalized' /\ IsLeaf(Child(m, Toward(m, k)))' =>
                   Saw(Child(m, Toward(m, k)), k, sn2)'
  <2>1. CASE m \in Live'
    <3>1. k \in R2[m]
        BY <1>2, <1>3, <1>4, <1>7, <1>9
    <3> QED BY <2>1, <3>1 DEF Live
  <2>2. CASE m \notin Live'
    <3>1. m \in S /\ m \in Record /\ ~IsLeaf(m) /\ m # parent
        BY <1>1, <1>2, <1>3, <1>4, <1>9, <2>2
    <3>2. PICK s, c : s = Toward(m, k) /\ c = Child(m, s)
        OBVIOUS
    <3>3. /\ s \in Sides /\ Toward(m, k)' = s /\ c # Null /\ c \in Record /\ c \in S
          /\ Child(m, s)' = c
      <4>1. s \in Sides /\ Toward(m, k)' = s /\ c # Null
          BY <1>1, <1>4, <1>5, <3>1, <3>2, LightIs
      <4>2. c \in S /\ c \in Record
          BY <1>3, <3>1, <3>2, <4>1 DEF Explores, Closed
      <4> QED BY <1>1, <3>1, <3>2, <4>1, <4>2 DEF Evolves
    <3>4. ASSUME IsLeaf(c) PROVE Saw(c, k, sn)
      <4>1. CASE m \in finalized
          BY <3>1, <3>2, <3>4, <4>1 DEF Explores
      <4>2. CASE m \notin finalized
        <5>1. m \in Live /\ k \in R[m]
            BY <1>7, <3>1, <4>2 DEF Live
        <5>2. Ranked(rank, top) /\ Forest
            BY DEF Grown
        <5>3. c \in Live /\ k \in R[c]
            BY <3>2, <3>3, <5>1, <5>2, RoutedChild
        <5> QED BY <3>4, <5>3, LeafSaw
      <4> QED BY <4>1, <4>2
    <3>5. Key(c)' = Key(c) /\ (IsLeaf(c)' <=> IsLeaf(c))
        BY <1>4, <3>3
    <3>6. IsLeaf(c)' => Saw(c, k, sn2)'
        BY <3>4, <3>5 DEF Saw
    <3>7. k \in R2[m]
        BY <1>7, <3>1
    <3> QED BY <3>3, <3>6, <3>7
  <2> QED BY <2>1, <2>2
<1>10. Explores(S2, k, R2, sn2)'
  <2>1. S2 \in SUBSET Record'
      BY <1>3
  <2> QED BY <1>8, <1>9, <2>1 DEF Explores
<1> QED BY <1>2, <1>10 DEF Larger

\* A search that goes on in a tree which changes.
LEMMA SearchesFirm ==
    ASSUME NEW rank, NEW top, Grown(rank, top), NEW R, NEW K, Order(R, K),
           NEW parent, NEW R2, NEW K2, Regrows(parent, R, R2, K2),
           NEW label, NEW frame, NEW op, op.key \in Keys, frame.n1 \in Record,
           frame.n2 \in Record, label \in SearchLabels => ~IsLeaf(frame.n1),
           NEW sn, Knows(op.key, sn), NEW sn2, sn \subseteq sn2, SearchesAt(label, frame, op, sn, R)
    PROVE  SearchesAt(label, frame, op, sn2, R2)'
<1>1. label \in SearchLabels => op.key \in R2[frame.n1]
    BY DEF SearchesAt, Regrows
<1>2. (IsLeaf(frame.n2)' <=> IsLeaf(frame.n2)) /\ Key(frame.n2)' = Key(frame.n2)
    BY EvolvesLeaves DEF Regrows
<1>3. CASE label # "search"
    BY <1>1, <1>3 DEF SearchesAt
<1>4. CASE label = "search" /\ IsLeaf(frame.n2)
    BY <1>1, <1>2, <1>4 DEF SearchesAt, Saw
<1>5. CASE label = "search" /\ ~IsLeaf(frame.n2)
  <2>1. PICK S : frame.n2 \in S /\ Explores(S, op.key, R, sn)
      BY <1>5 DEF SearchesAt
  <2>2. PICK k : k = op.key
      OBVIOUS
  <2>3. k \in Keys /\ Explores(S, k, R, sn) /\ Knows(k, sn)
      BY <2>1, <2>2
  <2>4. PICK S2 : S \subseteq S2 /\ Explores(S2, k, R2, sn2)'
    <3>1. Larger(S, k, R2, sn2)
        BY <2>3, ExploresFirm
    <3> QED BY <3>1 DEF Larger
  <2> QED BY <1>1, <1>2, <1>5, <2>1, <2>2, <2>4 DEF SearchesAt
<1> QED BY <1>3, <1>4, <1>5

\* The sets of a live tree in the records that can be found from the root.
LEMMA LiveExplored ==
    ASSUME NEW rank, NEW top, Grown(rank, top), NEW R, NEW K, Order(R, K), NEW k \in Keys,
           NEW sn, NEW n \in Live, k \in R[n]
    PROVE  \E S : n \in S /\ Explores(S, k, R, sn)
<1>1. PICK S : S = {m \in Live : k \in R[m]}
    OBVIOUS
<1>2. Forest /\ Ranked(rank, top) /\ S \subseteq Live /\ Live \subseteq Record /\ n \in S
    BY <1>1 DEF Grown, Live
<1>3. Closed(S, k)
  <2> SUFFICES ASSUME NEW m \in S, Child(m, Toward(m, k)) # Null
               PROVE  Child(m, Toward(m, k)) \in S
      BY DEF Closed
  <2>1. PICK s : s = Toward(m, k)
      OBVIOUS
  <2>2. m \in Live /\ k \in R[m] /\ s \in Sides /\ Child(m, s) # Null
      BY <1>1, <2>1, TowardSide
  <2>3. Child(m, s) \in Live /\ k \in R[Child(m, s)]
      BY <1>2, <2>1, <2>2, RoutedChild
  <2> QED BY <1>1, <2>1, <2>3
<1>4. Explores(S, k, R, sn)
    BY <1>1, <1>2, <1>3 DEF Explores, Live
<1> QED BY <1>2, <1>4

\* p's step in a tree that stays the same, seen from its search.
Seeks(p, R) ==
    /\ UNCHANGED <<heap, finalized>>
    /\ \A q \in Threads \ {p} : todo'[q] = todo[q]
    /\ \E label, frame :
          /\ pc' = [pc EXCEPT ![p] = label] /\ at' = [at EXCEPT ![p] = frame]
          /\ label # "idle" => todo' = todo
          /\ label \in SearchLabels => pc[p] # "idle"
          /\ SearchesAt(label, frame, Head(todo[p]), seen[p], R)

\* Where no search goes on there is nothing to say.
LEMMA NoSearch ==
    ASSUME NEW label, label \notin SearchLabels, NEW frame, NEW op, NEW sn, NEW R
    PROVE  SearchesAt(label, frame, op, sn, R)
BY DEF SearchesAt, SearchLabels

\* A search that begins or goes down.
LEMMA DownSeeks ==
    ASSUME Local, NEW rank, NEW top, Grown(rank, top), Shape(rank, top),
           NEW R, NEW K, Order(R, K), SeenOK, NEW p \in Threads, Searches(p, R),
           SearchRoot(p) \/ SearchDown(p)
    PROVE  Seeks(p, R)
<1> PICK k, sn : k = key(p) /\ sn = seen[p]
    OBVIOUS
<1>1. /\ pc[p] # "idle" /\ todo[p] # <<>> /\ UNCHANGED <<heap, finalized, todo>>
      /\ pc \in [Threads -> Labels] /\ at \in [Threads -> Frame]
    BY DEF SearchRoot, SearchDown, At, treeVars, Rest, Local
<1>2. k \in Keys /\ Head(todo[p]).key = k
  <2>1. Head(todo[p]) \in Operation
      BY <1>1 DEF Local
  <2> QED BY <2>1 DEF key, Operation
<1>3. Knows(k, sn)
    BY <1>1 DEF SeenOK
<1>4. Forest /\ Light /\ Key(Root) = MaxKey /\ Ranked(rank, top)
    BY DEF Grown
\* Where it is sent from a record that is not a leaf.
<1>5. ASSUME NEW n \in Live, k \in R[n], NEW s \in Sides, s = Toward(n, k), ~IsLeaf(n)
      PROVE  LET c == Child(n, s) IN \/ IsLeaf(c) /\ Saw(c, k, sn)
                                     \/ ~IsLeaf(c) /\ \E S : c \in S /\ Explores(S, k, R, sn)
  <2>1. PICK c : c = Child(n, s)
      OBVIOUS
  <2>2. c # Null
      BY <1>4, <1>5, <2>1, LightIs DEF Live
  <2>3. c \in Live /\ k \in R[c]
      BY <1>4, <1>5, <2>1, <2>2, RoutedChild
  <2>4. IsLeaf(c) => Saw(c, k, sn)
      BY <1>2, <1>3, <2>3, LeafSaw
  <2>5. \E S : c \in S /\ Explores(S, k, R, sn)
      BY <1>2, <2>3, LiveExplored
  <2> QED BY <2>1, <2>4, <2>5
<1>6. CASE SearchRoot(p)
  <2>1. PICK c, frame : /\ c = Child(Root, "left")
                        /\ frame = [NoWhere EXCEPT !.n1 = Root, !.n2 = c]
      OBVIOUS
  <2>2. frame.n1 = Root /\ frame.n2 = c
      BY <2>1 DEF NoWhere
  <2>3. pc' = [pc EXCEPT ![p] = "search"] /\ at' = [at EXCEPT ![p] = frame]
      BY <1>6, <2>1 DEF SearchRoot, Goto
  <2>4. k \in R[Root] /\ Root \in Live /\ Toward(Root, k) = "left" /\ "left" \in Sides /\ ~IsLeaf(Root)
      BY <1>2, <1>4, RootIs DEF Order, Forest
  <2>5. \/ IsLeaf(c) /\ Saw(c, k, sn)
        \/ ~IsLeaf(c) /\ \E S : c \in S /\ Explores(S, k, R, sn)
      BY <1>5, <2>1, <2>4
  <2>6. SearchesAt("search", frame, Head(todo[p]), sn, R)
      BY <1>2, <2>2, <2>4, <2>5 DEF SearchesAt
  <2> QED BY <1>1, <2>3, <2>6 DEF Seeks
<1>7. CASE SearchDown(p)
  <2>1. PICK n, s, c, frame : /\ n = n2(p) /\ s = Toward(n, k) /\ c = Child(n, s)
                              /\ frame = [n0 |-> n1(p), n1 |-> n, n3 |-> Null, n2 |-> c]
      OBVIOUS
  <2>2. frame.n1 = n /\ frame.n2 = c
      BY <2>1
  <2>3. pc[p] = "search" /\ ~IsLeaf(n) /\ pc' = pc /\ at' = [at EXCEPT ![p] = frame]
      BY <1>7, <2>1 DEF SearchDown, At
  <2>4. pc' = [pc EXCEPT ![p] = "search"]
      BY <1>1, <2>3
  <2>5. PICK S : n \in S /\ Explores(S, k, R, sn)
      BY <1>2, <2>1, <2>3 DEF Searches, SearchesAt, n2
  <2>6. n \in Record /\ k \in R[n] /\ s \in Sides /\ c # Null
      BY <1>4, <2>1, <2>3, <2>5, TowardSide, LightIs DEF Explores
  <2>7. \/ IsLeaf(c) /\ Saw(c, k, sn)
        \/ ~IsLeaf(c) /\ \E T : c \in T /\ Explores(T, k, R, sn)
    <3>1. CASE n \in finalized
      <4>1. c \in S
          BY <2>1, <2>5, <2>6 DEF Explores, Closed
      <4>2. IsLeaf(c) => Saw(c, k, sn)
          BY <2>1, <2>3, <2>5, <3>1 DEF Explores
      <4> QED BY <2>5, <4>1, <4>2
    <3>2. CASE n \notin finalized
        BY <1>5, <2>1, <2>3, <2>6, <3>2 DEF Live
    <3> QED BY <3>1, <3>2
  <2>8. SearchesAt("search", frame, Head(todo[p]), sn, R)
      BY <1>2, <2>2, <2>6, <2>7 DEF SearchesAt
  <2> QED BY <1>1, <2>3, <2>4, <2>8 DEF Seeks
<1> QED BY <1>6, <1>7

\* A step that ends the attempt, or the operation.
LEMMA StopSeeks ==
    ASSUME Local, NEW R, NEW p \in Threads, todo[p] # <<>>,
           \/ Begin(p) \/ Retry(p) \/ GetNode(p)
    PROVE  Seeks(p, R)
<1>1. pc \in [Threads -> Labels] /\ at \in [Threads -> Frame] /\ todo \in [Threads -> Seq(Operation)]
    BY DEF Local
<1>2. "idle" \notin SearchLabels /\ "root" \notin SearchLabels
    BY DEF SearchLabels
<1>3. \A frame : /\ SearchesAt("root", frame, Head(todo[p]), seen[p], R)
                 /\ SearchesAt("idle", frame, Head(todo[p]), seen[p], R)
    BY <1>2, NoSearch
<1>4. CASE Begin(p)
  <2>1. /\ pc' = [pc EXCEPT ![p] = "root"] /\ at' = [at EXCEPT ![p] = at[p]]
        /\ UNCHANGED <<heap, finalized, todo>>
      BY <1>1, <1>4 DEF Begin, Goto, treeVars
  <2> QED BY <1>2, <1>3, <2>1 DEF Seeks
<1>5. CASE Retry(p)
  <2>1. /\ pc' = [pc EXCEPT ![p] = "root"] /\ at' = [at EXCEPT ![p] = NoWhere]
        /\ UNCHANGED <<heap, finalized, todo>>
      BY <1>5 DEF Retry, Goto, Rest
  <2> QED BY <1>2, <1>3, <2>1 DEF Seeks
<1>6. CASE GetNode(p)
  <2>1. /\ pc' = [pc EXCEPT ![p] = "idle"] /\ at' = [at EXCEPT ![p] = NoWhere]
        /\ todo' = [todo EXCEPT ![p] = Tail(@)]
        /\ UNCHANGED <<heap, finalized>>
      BY <1>6 DEF GetNode, Answers, Goto, treeVars
  <2>2. \A q \in Threads \ {p} : todo'[q] = todo[q]
      BY <1>1, <2>1
  <2> QED BY <1>2, <1>3, <2>1, <2>2 DEF Seeks
<1> QED BY <1>4, <1>5, <1>6

\* An insertion that has not succeeded yet.
LEMMA InsertSeeks ==
    ASSUME Local, NEW R, NEW p \in Threads, Searches(p, R),
           \/ InsertLlxParent(p) \/ InsertCheck(p) \/ InsertLlxLeaf(p)
    PROVE  Seeks(p, R)
<1>1. /\ pc \in [Threads -> Labels] /\ at \in [Threads -> Frame]
      /\ pc[p] \in SearchLabels /\ pc[p] # "idle" /\ todo[p] # <<>>
  <2>1. pc[p] \in SearchLabels
      BY DEF InsertLlxParent, InsertCheck, InsertLlxLeaf, Arrived, At, SearchLabels
  <2>2. pc[p] # "idle"
      BY <2>1 DEF SearchLabels
  <2> QED BY <2>1, <2>2 DEF Local
<1>2. CASE Retry(p)
    BY <1>1, <1>2, StopSeeks
<1>3. CASE ~Retry(p)
  <2>1. \E label \in {"insertCheck", "insertLlxLeaf", "insertScx"} :
           pc' = [pc EXCEPT ![p] = label] /\ UNCHANGED <<heap, finalized, at, todo>>
    <3>1. CASE InsertLlxParent(p)
        BY <1>3, <3>1 DEF InsertLlxParent, LLX, Goto, Rest
    <3>2. CASE InsertCheck(p)
        BY <1>3, <3>2 DEF InsertCheck, Goto, Rest, treeVars
    <3>3. CASE InsertLlxLeaf(p)
        BY <1>3, <3>3 DEF InsertLlxLeaf, LLX, Goto, Rest
    <3> QED BY <3>1, <3>2, <3>3
  <2>2. PICK label \in {"insertCheck", "insertLlxLeaf", "insertScx"} :
           pc' = [pc EXCEPT ![p] = label] /\ UNCHANGED <<heap, finalized, at, todo>>
      BY <2>1
  <2>3. SearchesAt(label, at[p], Head(todo[p]), seen[p], R)
      BY <1>1 DEF Searches, SearchesAt
  <2>4. at' = [at EXCEPT ![p] = at[p]]
      BY <1>1, <2>2
  <2> QED BY <1>1, <2>2, <2>3, <2>4 DEF Seeks
<1> QED BY <1>2, <1>3

\* Without deletions no thread has one to do.
LEMMA NotDelete ==
    ASSUME Local, NoDeletions, NEW p \in Threads, todo[p] # <<>>
    PROVE  kind(p) \in {"insert", "get"} /\ key(p) \in Keys
<1>1. todo[p] \in Seq(Operation) /\ Scripted(p)
    BY DEF Local
<1>2. 1 \in DOMAIN todo[p] /\ Head(todo[p]) = todo[p][1] /\ todo[p][1] \in Operation
    BY <1>1
<1>3. PICK j \in DOMAIN script[phase].work[p] : todo[p][1] = script[phase].work[p][j]
    BY <1>1, <1>2 DEF Scripted
<1>4. phase \in 1 .. phase
  <2>1. script \in Seq(Phase) /\ phase \in DOMAIN script
      BY ScriptsAssumption DEF Local
  <2> QED BY <2>1
<1>5. kind(p) # "delete"
    BY <1>2, <1>3, <1>4 DEF NoDeletions, kind
<1> QED BY <1>2, <1>5 DEF kind, key, Operation, Kinds

\* The steps that are left.
LEMMA StepsLeft ==
    ASSUME Local, NoDeletions, NEW rank, NEW top, Shape(rank, top), NEW p \in Threads, Step(p)
    PROVE  /\ todo[p] # <<>>
           /\ \/ Begin(p) \/ SearchRoot(p) \/ SearchDown(p) \/ GetNode(p)
              \/ InsertLlxParent(p) \/ InsertCheck(p) \/ InsertLlxLeaf(p) \/ InsertScx(p)
<1>1. todo[p] # <<>>
  <2>1. pc[p] # "idle" => todo[p] # <<>>
      BY DEF Local
  <2> QED BY <2>1, StepGoes DEF Goes
<1>2. kind(p) # "delete" /\ pc[p] \notin After0
  <2>1. kind(p) # "delete"
      BY <1>1, NotDelete
  <2>2. pc[p] \in After0 => Head(todo[p]).kind = "delete"
      BY DEF Shape, Stands, StandsAt
  <2> QED BY <2>1, <2>2 DEF kind
<1>3. /\ ~DeleteFromEmpty(p) /\ ~DeleteLlx0(p)
    BY <1>2 DEF DeleteFromEmpty, DeleteLlx0, Arrived
<1>4. /\ ~DeleteRead1(p) /\ ~DeleteLlx1(p) /\ ~DeleteRead2(p) /\ ~DeleteLlx2(p)
      /\ ~DeleteRead3(p) /\ ~DeleteLlx3(p) /\ ~DeleteScx(p)
    BY <1>2 DEF DeleteRead1, DeleteLlx1, DeleteRead2, DeleteLlx2, DeleteRead3, DeleteLlx3,
                  DeleteScx, At, After0, After1, After2, After3
<1> QED BY <1>1, <1>3, <1>4 DEF Step

\* What a step adds to what has been seen.
LEMMA ObserveIs ==
    ASSUME Observe, NEW p \in Threads
    PROVE  /\ pc[p] # "idle" => seen'[p] = seen[p] \cup {key(p) \in Present'}
           /\ pc[p] = "idle" /\ pc'[p] # "idle" => seen'[p] = {key(p) \in Present}
           /\ pc[p] = "idle" /\ pc'[p] = "idle" => seen'[p] = seen[p]
BY Zenon DEF Observe

\* An observation keeps SeenOK if the key that every waiting operation is about
\* stays the same.
LEMMA SeenAfter ==
    ASSUME SeenOK, Observe,
           \A q \in Threads : pc'[q] # "idle" =>
              /\ key(q)' = key(q)
              /\ pc[q] = "idle" => Present' = Present
    PROVE  SeenOK'
<1>1. ASSUME NEW q \in Threads
      PROVE  /\ seen'[q] \in SUBSET BOOLEAN
             /\ pc'[q] # "idle" => /\ key(q) \in Present' => TRUE \in seen'[q]
                                   /\ key(q) \notin Present' => FALSE \in seen'[q]
  <2>1. PICK b, c : b = (key(q) \in Present') /\ c = (key(q) \in Present)
      OBVIOUS
  <2>2. /\ b \in BOOLEAN /\ c \in BOOLEAN
        /\ key(q) \in Present' => b = TRUE
        /\ key(q) \notin Present' => b = FALSE
    <3>1. b \in BOOLEAN /\ c \in BOOLEAN
        BY <2>1, SMT
    <3>2. ASSUME key(q) \in Present' PROVE b = TRUE
      <4>1. (key(q) \in Present') = TRUE
          BY <3>2, SMT
      <4> QED BY <2>1, <4>1, Zenon
    <3>3. ASSUME key(q) \notin Present' PROVE b = FALSE
      <4>1. (key(q) \in Present') = FALSE
          BY <3>3, SMT
      <4> QED BY <2>1, <4>1, Zenon
    <3> QED BY <3>1, <3>2, <3>3
  <2>3. seen[q] \in SUBSET BOOLEAN
      BY DEF SeenOK
  <2>4. CASE pc[q] # "idle"
    <3>1. seen'[q] = seen[q] \cup {b}
        BY <2>1, <2>4, ObserveIs
    <3> QED BY <2>2, <2>3, <3>1
  <2>5. CASE pc[q] = "idle" /\ pc'[q] # "idle"
    <3>1. seen'[q] = {c}
        BY <2>1, <2>5, ObserveIs
    <3>2. b = c
        BY <2>1, <2>5
    <3> QED BY <2>2, <3>1, <3>2
  <2>6. CASE pc[q] = "idle" /\ pc'[q] = "idle"
      BY <2>3, <2>6, ObserveIs
  <2> QED BY <2>4, <2>5, <2>6
<1>2. seen' \in [Threads -> SUBSET BOOLEAN]
  <2>1. seen' = [q \in Threads |-> seen'[q]]
      BY Zenon DEF Observe
  <2> QED BY <1>1, <2>1
<1>3. ASSUME NEW q \in Threads, pc'[q] # "idle"
      PROVE  Knows(key(q), seen[q])'
  <2>1. /\ key(q)' \in Present' => TRUE \in seen'[q]
        /\ key(q)' \notin Present' => FALSE \in seen'[q]
      BY <1>1, <1>3
  <2> QED BY <2>1 DEF Knows
<1> QED BY <1>2, <1>3, Zenon DEF SeenOK

\* The keys are the same in a tree that stays the same.
LEMMA PresentStill ==
    ASSUME heap' = heap
    PROVE  Present' = Present
<1>1. \A k : SearchEnd(k)' = SearchEnd(k)
    BY Zenon DEF SearchEnd, IsLeaf, Child, Toward, Key, Record
<1> QED BY <1>1 DEF Present, Key

-----------------------------------------------------------------------------
(***************************************************************************)
(* The invariant of a tree without deletions                               *)
(***************************************************************************)
Sought == \E R, K : Order(R, K) /\ \A p \in Threads : Searches(p, R)
Sound == Light /\ SeenOK /\ Sought

\* It is kept by a step of p that leaves the tree as it is.
LEMMA SeeksSound ==
    ASSUME Local, Light, SeenOK, Observe, NEW R, NEW K, Order(R, K),
           \A q \in Threads : Searches(q, R), NEW p \in Threads, Seeks(p, R)
    PROVE  Sound' /\ Present' = Present
<1>1. pc \in [Threads -> Labels] /\ at \in [Threads -> Frame] /\ todo \in [Threads -> Seq(Operation)]
    BY DEF Local
<1>2. UNCHANGED <<heap, finalized>> /\ \A q \in Threads \ {p} : todo'[q] = todo[q]
    BY DEF Seeks
<1>3. PICK label, frame :
         /\ pc' = [pc EXCEPT ![p] = label] /\ at' = [at EXCEPT ![p] = frame]
         /\ label # "idle" => todo' = todo
         /\ label \in SearchLabels => pc[p] # "idle"
         /\ SearchesAt(label, frame, Head(todo[p]), seen[p], R)
    BY DEF Seeks
<1>4. Present' = Present
    BY <1>2, PresentStill
<1>5. Order(R, K)' /\ Light'
    BY <1>2 DEF Order, Light, Record, Live, Child, Key, IsLeaf
<1>6. \A q \in Threads : pc'[q] # "idle" => todo'[q] = todo[q]
    BY <1>1, <1>2, <1>3
<1>7. SeenOK'
    BY <1>4, <1>6, SeenAfter DEF key
<1>8. ASSUME NEW q \in Threads PROVE Searches(q, R)'
  <2>1. PICK l, f : l = pc'[q] /\ f = at'[q]
      OBVIOUS
  <2>2. CASE l \notin SearchLabels
    <3>1. PICK op, sn : op = Head(todo'[q]) /\ sn = seen'[q]
        OBVIOUS
    <3>2. SearchesAt(l, f, op, sn, R)'
        BY <2>2 DEF SearchesAt, SearchLabels
    <3> QED BY <2>1, <3>1, <3>2 DEF Searches
  <2>3. CASE l \in SearchLabels
    <3>1. SearchesAt(l, f, Head(todo[q]), seen[q], R)
        BY <1>1, <1>3, <2>1 DEF Searches
    <3>2. l # "idle" /\ pc[q] # "idle"
        BY <1>1, <1>3, <2>1, <2>3 DEF SearchLabels
    <3>3. Head(todo'[q]) = Head(todo[q])
        BY <1>6, <2>1, <3>2
    <3>4. seen[q] \subseteq seen'[q]
        BY <3>2, ObserveIs
    <3>5. PICK op, sn, sn2 : op = Head(todo[q]) /\ sn = seen[q] /\ sn2 = seen'[q]
        OBVIOUS
    <3>6. SearchesAt(l, f, op, sn2, R)'
        BY <1>2, <3>1, <3>4, <3>5, SearchesStill
    <3> QED BY <2>1, <3>3, <3>5, <3>6 DEF Searches
  <2> QED BY <2>2, <2>3
<1> QED BY <1>4, <1>5, <1>7, <1>8 DEF Sound, Sought

PresentIs == \A rank, top, R, K : Grown(rank, top) /\ Order(R, K) => Present = Holds(R)

\* PresentHolds as one formula.
LEMMA PresentAlways == PresentIs
BY PresentHolds DEF Grown, PresentIs

\* It is kept by a change of the tree, when every search goes on where it was.
LEMMA GrowsSound ==
    ASSUME Local, NEW rank, NEW top, Shape(rank, top), Grown(rank, top), Light', Spanning',
           SeenOK, Observe, NEW R, NEW K, Order(R, K), \A q \in Threads : Searches(q, R),
           NEW parent, Updates(rank, parent), parent \in Live, parent \in Live',
           NEW R2, NEW K2, Order(R2, K2)', \A n \in Record : ~IsLeaf(n) => R2[n] = R[n],
           \A q \in Threads : \/ pc'[q] = "idle"
                              \/ pc'[q] = pc[q] /\ at'[q] = at[q] /\ todo'[q] = todo[q]
    PROVE  Sound' /\ Present = Holds(R) /\ Present' = Holds(R2)'
<1>1. Present = Holds(R)
    BY PresentAlways DEF PresentIs
<1>2. Present' = Holds(R2)'
  <2>1. PICK r, t : Ranked(r, t)'
      BY DEF Updates
  <2>2. Grown(r, t)'
    <3>1. Key(Root)' = MaxKey
        BY DEF Grown, Updates, Evolves, Forest
    <3> QED BY <2>1, <3>1 DEF Grown, Updates
  <2>3. PresentIs'
      BY PresentAlways, PTL
  <2> QED BY <2>2, <2>3 DEF PresentIs
<1>3. Regrows(parent, R, R2, K2)
    BY DEF Regrows, Updates
<1>4. SeenOK'
    BY SeenAfter DEF key
<1>5. ASSUME NEW q \in Threads PROVE Searches(q, R2)'
  <2>1. PICK l, f : l = pc'[q] /\ f = at'[q]
      OBVIOUS
  <2>2. CASE l \notin SearchLabels
    <3>1. PICK op, sn : op = Head(todo'[q]) /\ sn = seen'[q]
        OBVIOUS
    <3>2. SearchesAt(l, f, op, sn, R2)'
        BY <2>2 DEF SearchesAt, SearchLabels
    <3> QED BY <2>1, <3>1, <3>2 DEF Searches
  <2>3. CASE l \in SearchLabels
    <3>1. PICK op, sn, sn2 : op = Head(todo[q]) /\ sn = seen[q] /\ sn2 = seen'[q]
        OBVIOUS
    <3>2. l # "idle" /\ l = pc[q] /\ f = at[q] /\ Head(todo'[q]) = op
        BY <2>1, <2>3, <3>1 DEF SearchLabels
    <3>3. SearchesAt(l, f, op, sn, R)
        BY <3>1, <3>2 DEF Searches
    <3>4. sn \subseteq sn2
        BY <3>1, <3>2, ObserveIs
    <3>5. Knows(op.key, sn) /\ op.key \in Keys
      <4>1. todo[q] # <<>> /\ todo[q] \in Seq(Operation)
          BY <3>2 DEF Local
      <4>2. op \in Operation
          BY <3>1, <4>1
      <4> QED BY <3>1, <3>2, <4>2 DEF SeenOK, key, Operation
    <3>6. f.n1 \in Record /\ f.n2 \in Record /\ ~IsLeaf(f.n1)
        BY <2>3, <3>2 DEF Shape, Stands, StandsAt, Below
    <3>7. SearchesAt(l, f, op, sn2, R2)'
        BY <1>3, <3>3, <3>4, <3>5, <3>6, SearchesFirm
    <3> QED BY <2>1, <3>1, <3>2, <3>7 DEF Searches
  <2> QED BY <2>2, <2>3
<1> QED BY <1>1, <1>2, <1>4, <1>5 DEF Sound, Sought

\* Rebalancing.
LEMMA RebalanceSound ==
    ASSUME Local, NEW rank, NEW top, Shape(rank, top), Grown(rank, top), Spanning',
           SeenOK, Observe, NEW R, NEW K, Order(R, K), \A q \in Threads : Searches(q, R),
           Rebalance
    PROVE  Sound' /\ Present' = Present
<1>0. Forest /\ Ranked(rank, top) /\ Light
    BY DEF Grown
<1>1. PICK parent \in Live \ {Root}, q \in Sides,
           case \in {"1", "2A", "2B", "3A", "3B", "4", "5A", "5B"} :
         Child(parent, q) # Null /\ tryRebalance(case, parent, Child(parent, q))
    BY DEF Rebalance, Live
<1>2. PICK node : node = Child(parent, q) /\ node # Null /\ tryRebalance(case, parent, node)
    BY <1>1
<1>3. node \in Record
    BY <1>0, <1>2 DEF Forest, Live
<1>4. Updates(rank, parent)
    BY <1>0, <1>2, <1>3, RebalanceUpdates
<1>5. Light'
    BY <1>0, <1>2, <1>3, RebalanceLight
<1>6. /\ parent \in Live'
      /\ \E R2, K2 : /\ Order(R2, K2)' /\ \A n \in Record : R2[n] = R[n]
                     /\ Holds(R2)' = Holds(R)
    BY <1>0, <1>2, <1>3, <1>5, RebalanceHolds
<1>7. PICK R2, K2 : /\ Order(R2, K2)' /\ \A n \in Record : R2[n] = R[n]
                    /\ Holds(R2)' = Holds(R)
    BY <1>6
<1>8. pc' = pc /\ at' = at /\ todo' = todo
    BY DEF Rebalance
<1>9. Sound' /\ Present = Holds(R) /\ Present' = Holds(R2)'
    BY <1>4, <1>5, <1>6, <1>7, <1>8, GrowsSound
<1> QED BY <1>7, <1>9

\* An insertion that succeeds.
LEMMA InsertSound ==
    ASSUME Local, NEW rank, NEW top, Shape(rank, top), Grown(rank, top), Spanning',
           SeenOK, Observe, NEW R, NEW K, Order(R, K), \A q \in Threads : Searches(q, R),
           NEW p \in Threads, InsertScx(p), ~Retry(p)
    PROVE  Sound' /\ Present' = Present \cup {key(p)}
<1>0. Forest /\ Ranked(rank, top) /\ Light
    BY DEF Grown
<1>1. PICK parent, leaf, k, s : parent = n1(p) /\ leaf = n2(p) /\ k = key(p) /\ s = Toward(parent, k)
    OBVIOUS
<1>2. /\ parent \in Live /\ leaf \in Live /\ IsLeaf(leaf) /\ k \in Keys
      /\ s \in Sides /\ Child(parent, s) = leaf
      /\ Insert(k, parent, leaf) /\ Answers(p, kind(p))
    BY <1>1, InsertFinds
<1>3. k \in R[leaf]
  <2>1. k \in R[parent]
      BY <1>1 DEF InsertScx, At, Searches, SearchesAt, SearchLabels, n1, key
  <2>2. leaf # Null
      BY <1>0, <1>2, FreshNames DEF Live
  <2> QED BY <1>0, <1>1, <1>2, <2>1, <2>2, RoutedChild
<1>4. Updates(rank, parent)
    BY <1>0, <1>2, InsertUpdates
<1>5. Light'
    BY <1>0, <1>2, InsertLight
<1>6. /\ parent \in Live'
      /\ \E R2, K2 : /\ Order(R2, K2)' /\ \A n \in Record : ~IsLeaf(n) => R2[n] = R[n]
                     /\ Holds(R2)' = Holds(R) \cup {k}
    BY <1>0, <1>2, <1>3, InsertHolds
<1>7. PICK R2, K2 : /\ Order(R2, K2)' /\ \A n \in Record : ~IsLeaf(n) => R2[n] = R[n]
                    /\ Holds(R2)' = Holds(R) \cup {k}
    BY <1>6
<1>8. \A q \in Threads : \/ pc'[q] = "idle"
                         \/ pc'[q] = pc[q] /\ at'[q] = at[q] /\ todo'[q] = todo[q]
  <2>1. /\ pc' = [pc EXCEPT ![p] = "idle"] /\ at' = [at EXCEPT ![p] = NoWhere]
        /\ todo' = [todo EXCEPT ![p] = Tail(@)]
      BY <1>2 DEF Answers, Goto
  <2>2. /\ pc \in [Threads -> Labels] /\ at \in [Threads -> Frame]
        /\ todo \in [Threads -> Seq(Operation)]
      BY DEF Local
  <2> QED BY <2>1, <2>2
<1>9. Sound' /\ Present = Holds(R) /\ Present' = Holds(R2)'
    BY <1>2, <1>4, <1>5, <1>6, <1>7, <1>8, GrowsSound
<1> QED BY <1>1, <1>7, <1>9

-----------------------------------------------------------------------------
(***************************************************************************)
(* What a step is for the set of keys                                      *)
(***************************************************************************)
NotFound == "not found"
Result(p, what) == answer' = [answer EXCEPT ![p] = what]

Starts(p) ==
    /\ pc[p] = "idle" /\ todo[p] # <<>>
    /\ pc' = [pc EXCEPT ![p] = "root"] /\ todo' = todo
    /\ Present' = Present /\ Result(p, "none")

GoesOn(p) ==
    /\ pc[p] # "idle"
    /\ \E label : label # "idle" /\ pc' = [pc EXCEPT ![p] = label]
    /\ todo' = todo /\ answer' = answer /\ Present' = Present

Ends(p) ==
    /\ pc[p] # "idle" /\ pc' = [pc EXCEPT ![p] = "idle"]
    /\ todo' = [todo EXCEPT ![p] = Tail(@)]
    /\ \/ kind(p) = "insert" /\ Present' = Present \cup {key(p)} /\ Result(p, "insert")
       \/ kind(p) = "get" /\ Present' = Present /\ TRUE \in seen[p] /\ Result(p, "found")
       \/ kind(p) = "get" /\ Present' = Present /\ FALSE \in seen[p] /\ Result(p, NotFound)

\* A failed attempt goes on.
LEMMA RetryGoesOn ==
    ASSUME NEW p \in Threads, pc[p] # "idle", Retry(p)
    PROVE  GoesOn(p)
<1>1. /\ pc' = [pc EXCEPT ![p] = "root"] /\ todo' = todo /\ answer' = answer /\ heap' = heap
    BY DEF Retry, Goto, Rest
<1> QED BY <1>1, PresentStill DEF GoesOn

\* A search that has come to a leaf answers what was so.
LEMMA GetEnds ==
    ASSUME Local, NEW p \in Threads, NEW R, Searches(p, R), GetNode(p)
    PROVE  Ends(p)
<1>1. pc[p] = "search" /\ IsLeaf(n2(p)) /\ kind(p) = "get" /\ heap' = heap
    BY DEF GetNode, Arrived, At, treeVars
<1>2. /\ pc' = [pc EXCEPT ![p] = "idle"] /\ todo' = [todo EXCEPT ![p] = Tail(@)]
      /\ Key(n2(p)) = key(p) => Result(p, "found")
      /\ Key(n2(p)) # key(p) => Result(p, NotFound)
    BY Zenon DEF GetNode, Answers, Goto, Result, NotFound
<1>3. Present' = Present
    BY <1>1, PresentStill
<1>4. Saw(n2(p), key(p), seen[p])
    BY <1>1 DEF Searches, SearchesAt, n2, key
<1> QED BY <1>1, <1>2, <1>3, <1>4 DEF Ends, Saw

\* Every step of a thread keeps the invariant, and is the start of an operation,
\* a part of one or its end.
LEMMA StepSound ==
    ASSUME Local, NoDeletions, NEW rank, NEW top, Shape(rank, top), Spanning, Spanning',
           Sound, Observe, NEW p \in Threads, Step(p)
    PROVE  Sound' /\ (Starts(p) \/ GoesOn(p) \/ Ends(p))
<1>1. PICK R, K : Order(R, K) /\ \A q \in Threads : Searches(q, R)
    BY DEF Sound, Sought
<1>2. Light /\ SeenOK /\ Grown(rank, top)
    BY DEF Sound, Grown, Shape
<1>3. /\ todo[p] # <<>>
      /\ \/ Begin(p) \/ SearchRoot(p) \/ SearchDown(p) \/ GetNode(p)
         \/ InsertLlxParent(p) \/ InsertCheck(p) \/ InsertLlxLeaf(p) \/ InsertScx(p)
    BY StepsLeft
<1>4. Searches(p, R)
    BY <1>1
<1>5. ASSUME Seeks(p, R) PROVE Sound' /\ Present' = Present
    BY <1>1, <1>2, <1>5, SeeksSound
<1>6. pc \in [Threads -> Labels]
    BY DEF Local
<1>7. CASE Begin(p)
  <2>1. Sound' /\ Present' = Present
      BY <1>3, <1>5, <1>7, StopSeeks
  <2>2. /\ pc[p] = "idle" /\ pc' = [pc EXCEPT ![p] = "root"] /\ todo' = todo
        /\ answer' = [answer EXCEPT ![p] = "none"]
      BY <1>7 DEF Begin, At, Goto
  <2> QED BY <1>3, <2>1, <2>2 DEF Starts, Result
<1>8. CASE SearchRoot(p) \/ SearchDown(p)
  <2>1. Seeks(p, R)
      BY <1>1, <1>2, <1>8, DownSeeks
  <2>2. Sound' /\ Present' = Present
      BY <1>5, <2>1
  <2>3. pc[p] # "idle" /\ todo' = todo /\ answer' = answer
      BY <1>8 DEF SearchRoot, SearchDown, At, Rest
  <2>4. \E label : label # "idle" /\ pc' = [pc EXCEPT ![p] = label]
    <3>1. CASE SearchRoot(p)
        BY <3>1 DEF SearchRoot, Goto
    <3>2. CASE SearchDown(p)
      <4>1. pc[p] = "search" /\ pc' = pc
          BY <3>2 DEF SearchDown, At
      <4>2. pc' = [pc EXCEPT ![p] = "search"]
          BY <1>6, <4>1
      <4> QED BY <4>2
    <3> QED BY <1>8, <3>1, <3>2
  <2> QED BY <2>2, <2>3, <2>4 DEF GoesOn
<1>9. CASE GetNode(p)
  <2>1. Sound'
      BY <1>3, <1>5, <1>9, StopSeeks
  <2> QED BY <1>4, <1>9, <2>1, GetEnds
<1>10. CASE InsertLlxParent(p) \/ InsertCheck(p) \/ InsertLlxLeaf(p)
  <2>1. Sound' /\ Present' = Present
      BY <1>4, <1>5, <1>10, InsertSeeks
  <2>2. pc[p] # "idle"
      BY <1>10 DEF InsertLlxParent, InsertCheck, InsertLlxLeaf, Arrived, At
  <2>3. CASE Retry(p)
      BY <2>1, <2>2, <2>3, RetryGoesOn
  <2>4. CASE ~Retry(p)
    <3>1. \E label : /\ label # "idle" /\ pc' = [pc EXCEPT ![p] = label]
                     /\ todo' = todo /\ answer' = answer
      <4>1. CASE InsertLlxParent(p)
          BY <2>4, <4>1 DEF InsertLlxParent, LLX, Goto, Rest
      <4>2. CASE InsertCheck(p)
          BY <2>4, <4>2 DEF InsertCheck, Goto, Rest
      <4>3. CASE InsertLlxLeaf(p)
          BY <2>4, <4>3 DEF InsertLlxLeaf, LLX, Goto, Rest
      <4> QED BY <1>10, <4>1, <4>2, <4>3
    <3> QED BY <2>1, <2>2, <3>1 DEF GoesOn
  <2> QED BY <2>3, <2>4
<1>11. CASE InsertScx(p)
  <2>1. pc[p] = "insertScx"
      BY <1>11 DEF InsertScx, At
  <2>2. CASE Retry(p)
    <3>1. Sound'
        BY <1>3, <1>5, <2>2, StopSeeks
    <3> QED BY <2>1, <2>2, <3>1, RetryGoesOn
  <2>3. CASE ~Retry(p)
    <3>1. Sound' /\ Present' = Present \cup {key(p)}
        BY <1>1, <1>2, <1>11, <2>3, InsertSound
    <3>2. Answers(p, kind(p))
        BY <1>11, <2>3, InsertFinds
    <3>3. kind(p) = "insert"
        BY <2>1 DEF Shape, Stands, StandsAt, SearchLabels, kind
    <3>4. /\ pc' = [pc EXCEPT ![p] = "idle"] /\ todo' = [todo EXCEPT ![p] = Tail(@)]
          /\ Result(p, "insert")
        BY <3>2, <3>3 DEF Answers, Goto, Result
    <3> QED BY <2>1, <3>1, <3>3, <3>4 DEF Ends
  <2> QED BY <2>2, <2>3
<1> QED BY <1>3, <1>7, <1>8, <1>9, <1>10, <1>11

\* The other steps.
LEMMA RestSound ==
    ASSUME Local, NEW rank, NEW top, Shape(rank, top), Spanning, Spanning', Sound,
           \/ Rebalance /\ Observe
           \/ NextPhase /\ Observe
           \/ UNCHANGED vars
    PROVE  /\ Sound' /\ Present' = Present /\ answer' = answer
           /\ \A q \in Threads : /\ pc'[q] = pc[q]
                                 /\ pc[q] # "idle" => todo'[q] = todo[q]
           /\ Observe \/ seen' = seen
<1>1. PICK R, K : Order(R, K) /\ \A q \in Threads : Searches(q, R)
    BY DEF Sound, Sought
<1>2. Light /\ SeenOK /\ Grown(rank, top)
    BY DEF Sound, Grown, Shape
<1>3. CASE Rebalance /\ Observe
  <2>1. Sound' /\ Present' = Present
      BY <1>1, <1>2, <1>3, RebalanceSound
  <2> QED BY <1>3, <2>1 DEF Rebalance
<1>4. CASE NextPhase /\ Observe
  <2>1. UNCHANGED <<heap, finalized, pc, at, answer>> /\ \A q \in Threads : pc[q] = "idle"
      BY <1>4 DEF NextPhase, At, treeVars
  <2>2. Present' = Present
      BY <2>1, PresentStill
  <2>3. Order(R, K)' /\ Light'
      BY <1>1, <1>2, <2>1 DEF Order, Light, Record, Live, Child, Key, IsLeaf
  <2>4. SeenOK'
      BY <1>2, <1>4, <2>1, SeenAfter
  <2>5. ASSUME NEW q \in Threads PROVE Searches(q, R)'
      BY <2>1 DEF Searches, SearchesAt, SearchLabels
  <2> QED BY <1>4, <2>1, <2>2, <2>3, <2>4, <2>5 DEF Sound, Sought
<1>5. CASE UNCHANGED vars
  <2>1. UNCHANGED <<heap, finalized, pc, at, todo, answer, seen>>
      BY <1>5 DEF vars, treeVars
  <2>2. Present' = Present
      BY <2>1, PresentStill
  <2>3. Order(R, K)' /\ Light'
      BY <1>1, <1>2, <2>1 DEF Order, Light, Record, Live, Child, Key, IsLeaf
  <2>4. SeenOK'
      BY <1>2, <2>1, <2>2 DEF SeenOK, Knows, key
  <2>5. ASSUME NEW q \in Threads PROVE Searches(q, R)'
    <3>1. PICK l, f, op, sn : l = pc[q] /\ f = at[q] /\ op = Head(todo[q]) /\ sn = seen[q]
        OBVIOUS
    <3>2. SearchesAt(l, f, op, sn, R)
        BY <1>1, <3>1 DEF Searches
    <3>3. SearchesAt(l, f, op, sn, R)'
        BY <2>1, <3>2, SearchesStill
    <3> QED BY <2>1, <3>1, <3>3 DEF Searches
  <2> QED BY <2>1, <2>2, <2>3, <2>4, <2>5 DEF Sound, Sought
<1> QED BY <1>3, <1>4, <1>5

\* The first tree holds no key.
LEMMA InitSound == Init => Sound /\ Present = {}
<1> SUFFICES ASSUME Init PROVE Sound /\ Present = {}
    OBVIOUS
<1>1. PICK h : h = heap
    OBVIOUS
<1>2. /\ h = <<Rec(MaxKey, 1, 2, 3), Leaf(MaxKey, 1), Leaf(MaxKey, 1)>> /\ finalized = {}
    BY <1>1 DEF Init, TreeInit
<1>3. /\ DOMAIN h = {1, 2, 3} /\ h[1] = Rec(MaxKey, 1, 2, 3)
      /\ h[2] = Rec(MaxKey, 1, Null, Null) /\ h[3] = Rec(MaxKey, 1, Null, Null)
    BY <1>2 DEF Leaf
<1>4. /\ \A n \in {1, 2, 3} : h[n].key = MaxKey /\ h[n].weight = 1
      /\ h[1]["left"] = 2 /\ h[1]["right"] = 3
      /\ \A n \in {2, 3}, s \in Sides : h[n][s] = Null
    BY <1>3 DEF Rec, Sides
<1>5. MaxKey \in Int /\ Keys \subseteq Int /\ MaxKey \notin Keys
    BY KeysAssumption
<1>6. Light
  <2>1. ASSUME NEW n \in {1, 2, 3} PROVE LightCell(h[n])
    <3>1. CASE n = 1
        BY <1>4, <3>1 DEF LightCell, LeafCell, Sides, Null
    <3>2. CASE n # 1
        BY <1>4, <3>2 DEF LightCell
    <3> QED BY <3>1, <3>2
  <2> QED BY <1>1, <1>3, <2>1 DEF Light, Record
<1>7. SeenOK
  <2>1. pc = [p \in Threads |-> "idle"] /\ seen = [p \in Threads |-> {}]
      BY DEF Init
  <2> QED BY <2>1 DEF SeenOK
<1>8. PICK lower, upper, upto :
         /\ lower = {k \in Int : k < MaxKey} /\ upper = {k \in Int : ~(k < MaxKey)}
         /\ upto = {k \in Int : k <= MaxKey}
    OBVIOUS
<1>9. PICK R, K :
         /\ R = [n \in {1, 2, 3} |-> IF n = 1 THEN Int ELSE IF n = 2 THEN lower ELSE upper]
         /\ K = [n \in {1, 2, 3} |-> IF n = 1 THEN Int ELSE IF n = 2 THEN upto ELSE upper]
    OBVIOUS
<1>10. /\ R[1] = Int /\ R[2] = lower /\ R[3] = upper
       /\ K[1] = Int /\ K[2] = upto /\ K[3] = upper
    BY <1>9
<1>11. /\ Record = {1, 2, 3} /\ Live = {1, 2, 3} /\ Root = 1
       /\ \A n \in {1, 2, 3} : Key(n) = MaxKey
       /\ Child(1, "left") = 2 /\ Child(1, "right") = 3
       /\ \A n \in {2, 3}, s \in Sides : Child(n, s) = Null
    BY <1>1, <1>2, <1>3, <1>4 DEF Record, Live, Root, Key, Child
<1>12. IsLeaf(2) /\ IsLeaf(3) /\ ~IsLeaf(1)
    BY <1>11 DEF IsLeaf, Sides, Null
<1>13. /\ Route(MaxKey, "left", Int) = lower /\ Route(MaxKey, "right", Int) = upper
       /\ Part(MaxKey, "left", Int) = upto /\ Part(MaxKey, "right", Int) = upper
    BY <1>5, <1>8 DEF Route, Part, TowardKey, OnSide
<1>14. Order(R, K)
  <2>1. R \in [Record -> SUBSET Int] /\ K \in [Record -> SUBSET Int]
      BY <1>8, <1>9, <1>11
  <2>2. Keys \subseteq R[Root]
      BY <1>5, <1>10, <1>11
  <2>3. \A n \in Live : Key(n) \in K[n] /\ R[n] \subseteq K[n]
      BY <1>5, <1>8, <1>10, <1>11
  <2>4. ASSUME NEW n \in Record, NEW s \in Sides, Child(n, s) # Null
        PROVE  /\ R[Child(n, s)] = Route(Key(n), s, R[n])
               /\ K[Child(n, s)] \subseteq Part(Key(n), s, K[n])
               /\ IsLeaf(Child(n, s))
    <3>1. n = 1
        BY <1>11, <2>4
    <3> QED BY <1>10, <1>11, <1>12, <1>13, <3>1 DEF Sides
  <2> QED BY <1>11, <2>1, <2>2, <2>3, <2>4 DEF Order
<1>15. \A p \in Threads : Searches(p, R)
    BY DEF Init, Searches, SearchesAt, SearchLabels
<1>16. Present = {}
  <2>1. PICK rank, top : Shape(rank, top)
      BY InitShape DEF IsShaped
  <2>2. Spanning
      BY <1>11, <1>12 DEF Spanning, Sides
  <2>3. Grown(rank, top)
      BY <1>6, <2>1, <2>2 DEF Grown, Shape
  <2>4. Present = Holds(R)
      BY <1>14, <2>3, PresentAlways DEF PresentIs
  <2>5. Holds(R) = {}
      BY <1>5, <1>11 DEF Holds
  <2> QED BY <2>4, <2>5
<1> QED BY <1>6, <1>7, <1>14, <1>15, <1>16 DEF Sound, Sought

\* A step before which no deletion had begun unless one has after it.
LEMMA NoDeletionsBefore ==
    ASSUME ShapeInv, [Next]_vars, NoDeletions'
    PROVE  NoDeletions
<1>1. Local
    BY DEF ShapeInv
<1>2. script \in Seq(Phase) /\ phase \in DOMAIN script
    BY <1>1, ScriptsAssumption DEF Local
<1>3. \A p \in Threads : Step(p) => script' = script /\ phase' = phase
  <2> SUFFICES ASSUME NEW p \in Threads, Step(p) PROVE script' = script /\ phase' = phase
      OBVIOUS
  <2>1. PICK rank, top : Shape(rank, top)
      BY DEF ShapeInv, IsShaped
  <2>2. Goes(p)
      BY <1>1, <2>1, StepGoes
  <2> QED BY <2>2 DEF Goes
<1>4. script' = script /\ (phase' = phase \/ phase' = phase + 1)
    BY <1>3 DEF Next, Rebalance, NextPhase, vars
<1>5. 1 .. phase \subseteq 1 .. phase'
    BY <1>2, <1>4
<1> QED BY <1>4, <1>5 DEF NoDeletions

\* The invariant is kept by every step.
LEMMA SoundStep ==
    ASSUME SpanningInv, SpanningInv', NoDeletions, NoDeletions', Sound, [Next]_vars
    PROVE  Sound'
<1>1. Local /\ Spanning /\ Spanning'
    BY DEF SpanningInv, ShapeInv
<1>2. PICK rank, top : Shape(rank, top)
    BY DEF SpanningInv, ShapeInv, IsShaped
<1>3. ASSUME NEW p \in Threads, Step(p), Observe PROVE Sound'
    BY <1>1, <1>2, <1>3, StepSound
<1>4. CASE \/ Rebalance /\ Observe
           \/ NextPhase /\ Observe
           \/ UNCHANGED vars
    BY <1>1, <1>2, <1>4, RestSound
<1> QED BY <1>3, <1>4 DEF Next

\* The invariant of a tree without deletions, whatever is rebalanced.
LEMMA SoundInvariant == Spec => [](NoDeletions => Sound)
<1>1. Init => Sound
    BY InitSound
<1>2. SpanningInv /\ SpanningInv' /\ NoDeletions /\ NoDeletions' /\ Sound /\ [Next]_vars => Sound'
    BY SoundStep
<1>3. SpanningInv /\ [Next]_vars /\ NoDeletions' => NoDeletions
    BY NoDeletionsBefore DEF SpanningInv
<1> QED BY <1>1, <1>2, <1>3, SpanningInvariant, PTL DEF Spec

-----------------------------------------------------------------------------
(***************************************************************************)
(* Every step of the tree is one of KeySet, or none                        *)
(***************************************************************************)
Doing == [p \in Threads |-> IF pc[p] = "idle" THEN [kind |-> "none"] ELSE Head(todo[p])]

\* The operation of a thread, as KeySet sees it.
LEMMA DoingIs ==
    ASSUME Local, NEW p \in Threads
    PROVE  /\ pc[p] = "idle" => Doing[p] = [kind |-> "none"]
           /\ pc[p] # "idle" => /\ Doing[p] = Head(todo[p]) /\ Doing[p] \in Operation
                                /\ Doing[p] # [kind |-> "none"]
                                /\ Doing[p].kind = kind(p) /\ Doing[p].key = key(p)
<1>1. pc[p] = "idle" => Doing[p] = [kind |-> "none"]
    BY DEF Doing
<1>2. ASSUME pc[p] # "idle"
      PROVE  /\ Doing[p] = Head(todo[p]) /\ Doing[p] \in Operation /\ Doing[p] # [kind |-> "none"]
             /\ Doing[p].kind = kind(p) /\ Doing[p].key = key(p)
  <2>1. Doing[p] = Head(todo[p])
      BY <1>2 DEF Doing
  <2>2. Head(todo[p]) \in Operation /\ kind(p) \in Kinds
    <3>1. todo[p] \in Seq(Operation) /\ todo[p] # <<>>
        BY <1>2 DEF Local
    <3>2. Head(todo[p]) \in Operation
        BY <3>1
    <3> QED BY <3>2 DEF Operation, kind
  <2>3. [kind |-> "none"].kind \notin Kinds
      BY DEF Kinds
  <2> QED BY <2>1, <2>2, <2>3 DEF kind, key
<1> QED BY <1>1, <1>2

\* DoingIs as an implication.
LEMMA DoingAlways ==
    Local => \A p \in Threads :
               /\ pc[p] = "idle" => Doing[p] = [kind |-> "none"]
               /\ pc[p] # "idle" => Doing[p] # [kind |-> "none"] /\ Doing[p].key = key(p)
BY DoingIs

\* DoingAlways of the next state.
LEMMA DoingNext ==
    ASSUME Local'
    PROVE  \A p \in Threads :
              /\ pc'[p] = "idle" => Doing'[p] = [kind |-> "none"]
              /\ pc'[p] # "idle" => Doing'[p] # [kind |-> "none"] /\ Doing'[p].key = key(p)'
<1>1. (\A p \in Threads :
              /\ pc[p] = "idle" => Doing[p] = [kind |-> "none"]
              /\ pc[p] # "idle" => Doing[p] # [kind |-> "none"] /\ Doing[p].key = key(p))'
    BY DoingAlways, PTL
<1> QED BY <1>1

\* Its observer sees what this one does.
LEMMA ObserveMaps ==
    ASSUME Local, Local', Observe,
           \A q \in Threads : pc[q] = "idle" /\ pc'[q] # "idle" => key(q)' = key(q)
    PROVE  Abstract!Observe
<1> DEFINE look(q) == IF Doing[q] # [kind |-> "none"]
                         THEN seen[q] \cup {Doing[q].key \in Present'}
                      ELSE IF Doing'[q] # [kind |-> "none"] THEN {Doing'[q].key \in Present}
                      ELSE seen[q]
<1>1. ASSUME NEW q \in Threads PROVE seen'[q] = look(q)
  <2>1. /\ pc[q] = "idle" => Doing[q] = [kind |-> "none"]
        /\ pc[q] # "idle" => Doing[q] # [kind |-> "none"] /\ Doing[q].key = key(q)
      BY DoingIs
  <2>2. /\ pc'[q] = "idle" => Doing'[q] = [kind |-> "none"]
        /\ pc'[q] # "idle" => Doing'[q] # [kind |-> "none"] /\ Doing'[q].key = key(q)'
      BY DoingNext
  <2>3. CASE pc[q] # "idle"
      BY <2>1, <2>3, ObserveIs
  <2>4. CASE pc[q] = "idle" /\ pc'[q] # "idle"
    <3>1. seen'[q] = {key(q) \in Present} /\ Doing'[q].key = key(q)
        BY <2>2, <2>4, ObserveIs
    <3> QED BY <2>1, <2>2, <2>4, <3>1
  <2>5. CASE pc[q] = "idle" /\ pc'[q] = "idle"
      BY <2>1, <2>2, <2>5, ObserveIs
  <2> QED BY <2>3, <2>4, <2>5
<1>2. seen' = [q \in Threads |-> seen'[q]]
    BY Zenon DEF Observe
<1>3. seen' = [q \in Threads |-> look(q)]
    BY <1>1, <1>2
<1> QED BY <1>3 DEF Abstract!Observe, Abstract!NoCall, Doing

\* The start of an operation.
LEMMA StartMaps ==
    ASSUME Local, Local', NEW p \in Threads, Starts(p), Abstract!Observe
    PROVE  Abstract!Next
<1>1. pc \in [Threads -> Labels]
    BY DEF Local, Local
<1>2. /\ pc[p] = "idle" /\ pc'[p] = "root" /\ todo' = todo
      /\ \A q \in Threads \ {p} : pc'[q] = pc[q]
    BY <1>1 DEF Starts
<1>3. Doing' = [Doing EXCEPT ![p] = Head(todo[p])]
    BY <1>2 DEF Doing
<1>4. Doing[p] = Abstract!NoCall
    BY <1>2, DoingIs DEF Abstract!NoCall
<1>5. Head(todo[p]) \in Abstract!Calls
  <2>1. todo[p] \in Seq(Operation) /\ todo[p] # <<>>
      BY DEF Local, Starts
  <2>2. Head(todo[p]) \in Operation
      BY <2>1
  <2> QED BY <2>2 DEF Abstract!Calls, Operation, Kinds
<1>6. Abstract!Begin(p)
  <2>1. \E c \in Abstract!Calls : Doing' = [Doing EXCEPT ![p] = c]
      BY <1>3, <1>5
  <2>2. /\ answer' = [answer EXCEPT ![p] = "none"]
        /\ UNCHANGED Present
      BY Zenon DEF Starts, Result
  <2> QED BY <1>4, <2>1, <2>2, Zenon DEF Abstract!Begin, Doing
<1> QED BY <1>6, Zenon DEF Abstract!Next

\* Its end.
LEMMA EndMaps ==
    ASSUME Local, Local', NEW p \in Threads, Ends(p), Abstract!Observe
    PROVE  Abstract!Next
<1>1. pc \in [Threads -> Labels] /\ todo \in [Threads -> Seq(Operation)]
    BY DEF Local, Local
<1>2. /\ pc[p] # "idle" /\ pc'[p] = "idle"
      /\ \A q \in Threads \ {p} : pc'[q] = pc[q] /\ todo'[q] = todo[q]
    BY <1>1 DEF Ends
<1>3. Doing' = [Doing EXCEPT ![p] = Abstract!NoCall]
    BY <1>2 DEF Doing, Abstract!NoCall
<1>4. Doing[p] # Abstract!NoCall /\ Doing[p].kind = kind(p) /\ Doing[p].key = key(p)
    BY <1>2, DoingIs DEF Abstract!NoCall
<1>6. ASSUME NEW what, Result(p, what) PROVE Abstract!Return(p, what)
    BY <1>3, <1>6, Zenon DEF Abstract!Return, Result, Doing
<1>7. CASE kind(p) = "insert" /\ Present' = Present \cup {key(p)} /\ Result(p, "insert")
  <2>1. Abstract!Insert(p)
      BY <1>4, <1>6, <1>7, Zenon DEF Abstract!Insert, Doing
  <2> QED BY <2>1, Zenon DEF Abstract!Next
<1>8. CASE kind(p) = "get" /\ Present' = Present /\ TRUE \in seen[p] /\ Result(p, "found")
  <2>1. Abstract!Found(p)
      BY <1>4, <1>6, <1>8, Zenon DEF Abstract!Found, Doing
  <2> QED BY <2>1, Zenon DEF Abstract!Next
<1>9. CASE kind(p) = "get" /\ Present' = Present /\ FALSE \in seen[p] /\ Result(p, NotFound)
  <2>1. Abstract!Absent(p)
      BY <1>4, <1>6, <1>9, Zenon DEF Abstract!Absent, NotFound, Doing
  <2> QED BY <2>1, Zenon DEF Abstract!Next
<1> QED BY <1>7, <1>8, <1>9 DEF Ends

\* Everything else changes nothing that KeySet knows of.
LEMMA StutterMaps ==
    ASSUME Local, Local', SeenOK, Present' = Present, answer' = answer,
           \A q \in Threads : /\ pc'[q] = "idle" <=> pc[q] = "idle"
                              /\ pc[q] # "idle" => todo'[q] = todo[q],
           Observe \/ seen' = seen
    PROVE  UNCHANGED Abstract!vars
<1>1. Doing' = Doing
    BY DEF Doing
<1>2. seen' = seen
  <2>1. CASE Observe
    <3>1. ASSUME NEW q \in Threads PROVE seen'[q] = seen[q]
      <4>1. CASE pc[q] # "idle"
        <5>1. PICK b : b = (key(q) \in Present)
            OBVIOUS
        <5>2. b \in BOOLEAN /\ (key(q) \in Present => b = TRUE) /\ (key(q) \notin Present => b = FALSE)
          <6>1. b \in BOOLEAN
              BY <5>1, SMT
          <6>2. ASSUME key(q) \in Present PROVE b = TRUE
            <7>1. (key(q) \in Present) = TRUE
                BY <6>2, SMT
            <7> QED BY <5>1, <7>1, Zenon
          <6>3. ASSUME key(q) \notin Present PROVE b = FALSE
            <7>1. (key(q) \in Present) = FALSE
                BY <6>3, SMT
            <7> QED BY <5>1, <7>1, Zenon
          <6> QED BY <6>1, <6>2, <6>3
        <5>3. seen'[q] = seen[q] \cup {b}
            BY <2>1, <4>1, <5>1, ObserveIs
        <5>4. b \in seen[q]
            BY <4>1, <5>2 DEF SeenOK, Knows
        <5> QED BY <5>3, <5>4
      <4>2. CASE pc[q] = "idle"
          BY <2>1, <4>2, ObserveIs
      <4> QED BY <4>1, <4>2
    <3>2. seen' = [q \in Threads |-> seen'[q]]
        BY <2>1, Zenon DEF Observe
    <3>3. seen = [q \in Threads |-> seen[q]]
        BY DEF SeenOK
    <3> QED BY <3>1, <3>2, <3>3
  <2> QED BY <2>1
<1> QED BY <1>1, <1>2 DEF Abstract!vars, Doing

\* No step touches two operations at once.
LEMMA OneOperation ==
    ASSUME Local, NEW p \in Threads, Starts(p) \/ GoesOn(p) \/ Ends(p), NEW q \in Threads
    PROVE  pc[q] = "idle" /\ pc'[q] # "idle" => key(q)' = key(q)
<1>1. pc \in [Threads -> Labels] /\ todo \in [Threads -> Seq(Operation)]
    BY DEF Local
<1>2. CASE Starts(p)
    BY <1>1, <1>2 DEF Starts, key
<1>3. CASE GoesOn(p)
    BY <1>3 DEF GoesOn, key
<1>4. CASE Ends(p)
    BY <1>1, <1>4 DEF Ends
<1> QED BY <1>2, <1>3, <1>4

\* Every step is one of KeySet's, or none of them.
LEMMA StepMaps ==
    ASSUME SpanningInv, SpanningInv', NoDeletions, NoDeletions', Sound, [Next]_vars
    PROVE  [Abstract!Next]_(Abstract!vars)
<1>1. Local /\ Local' /\ Spanning /\ Spanning' /\ SeenOK
    BY DEF SpanningInv, ShapeInv, Sound
<1>2. PICK rank, top : Shape(rank, top)
    BY DEF SpanningInv, ShapeInv, IsShaped
<1>3. ASSUME NEW p \in Threads, Step(p), Observe PROVE [Abstract!Next]_(Abstract!vars)
  <2>1. Starts(p) \/ GoesOn(p) \/ Ends(p)
      BY <1>1, <1>2, <1>3, StepSound
  <2>2. \A q \in Threads : pc[q] = "idle" /\ pc'[q] # "idle" => key(q)' = key(q)
      BY <1>1, <2>1, OneOperation
  <2>3. Abstract!Observe
      BY <1>1, <1>3, <2>2, ObserveMaps
  <2>4. CASE GoesOn(p)
    <3>1. pc \in [Threads -> Labels]
        BY <1>1 DEF Local
    <3>2. /\ Present' = Present /\ answer' = answer
          /\ \A q \in Threads : /\ pc'[q] = "idle" <=> pc[q] = "idle"
                                /\ pc[q] # "idle" => todo'[q] = todo[q]
        BY <2>4, <3>1 DEF GoesOn
    <3> QED BY <1>1, <1>3, <3>2, StutterMaps
  <2> QED BY <1>1, <2>1, <2>3, <2>4, StartMaps, EndMaps
<1>4. CASE \/ Rebalance /\ Observe
           \/ NextPhase /\ Observe
           \/ UNCHANGED vars
  <2>1. /\ Present' = Present /\ answer' = answer
        /\ \A q \in Threads : /\ pc'[q] = pc[q]
                              /\ pc[q] # "idle" => todo'[q] = todo[q]
        /\ Observe \/ seen' = seen
      BY <1>1, <1>2, <1>4, RestSound
  <2> QED BY <1>1, <2>1, StutterMaps
<1> QED BY <1>3, <1>4 DEF Next

\* The initial states are KeySet's.
LEMMA InitMaps == Init => Abstract!Init
<1> SUFFICES ASSUME Init PROVE Abstract!Init
    OBVIOUS
<1>1. Present = {}
    BY InitSound
<1>2. Doing = [p \in Threads |-> Abstract!NoCall]
    BY DEF Doing, Init, Abstract!NoCall
<1> QED BY <1>1, <1>2, Zenon DEF Init, Abstract!Init, Doing

\* As long as no deletion is started the tree is a set of keys, whatever
\* insertions, searches and rebalancing steps run together: each operation
\* takes effect in one step between its call and its return, and rebalancing
\* in none.
THEOREM LockFreeTreeIsKeySet == Spec /\ []NoDeletions => IsKeySet
<1>1. Init => Abstract!Init
    BY InitMaps
<1>2. SpanningInv /\ SpanningInv' /\ NoDeletions /\ NoDeletions' /\ Sound /\ [Next]_vars
        => [Abstract!Next]_(Abstract!vars)
    BY StepMaps
<1> QED BY <1>1, <1>2, SpanningInvariant, SoundInvariant, PTL DEF Spec, IsKeySet, Abstract!Spec

-----------------------------------------------------------------------------
(***************************************************************************)
(* What main finds in the end                                              *)
(***************************************************************************)
\* Of the work w the operations t are left, and what the others inserted is in P.
LeftOf(t, w, P) ==
    /\ Len(t) <= Len(w)
    /\ \A i \in 1 .. Len(t) : t[i] = w[i + (Len(w) - Len(t))]
    /\ \A j \in 1 .. (Len(w) - Len(t)) : w[j].kind = "insert" => w[j].key \in P

InsertedSoFar ==
    /\ \A p \in Threads : LeftOf(todo[p], script[phase].work[p], Present)
    /\ \A i \in 1 .. (phase - 1) : \A p \in Threads :
          LeftOf(<<>>, script[i].work[p], Present)

\* One operation less is left.
LEMMA LeftTail ==
    ASSUME NEW t \in Seq(Operation), NEW w \in Seq(Operation), NEW P, NEW Q,
           LeftOf(t, w, P), P \subseteq Q, t # <<>>,
           Head(t).kind = "insert" => Head(t).key \in Q
    PROVE  LeftOf(Tail(t), w, Q)
<1>1. /\ Len(t) \in Nat /\ Len(w) \in Nat /\ 1 <= Len(t) /\ Len(t) <= Len(w)
      /\ Len(Tail(t)) = Len(t) - 1 /\ Head(t) = t[1]
      /\ \A i \in 1 .. (Len(t) - 1) : Tail(t)[i] = t[i + 1]
    BY DEF LeftOf
<1>2. PICK gone \in Nat : gone = Len(w) - Len(t)
    BY <1>1
<1>3. Len(w) - Len(Tail(t)) = gone + 1
    BY <1>1, <1>2
<1>4. \A i \in 1 .. Len(t) : t[i] = w[i + gone]
    BY <1>2 DEF LeftOf
<1>5. \A i \in 1 .. (Len(t) - 1) : Tail(t)[i] = w[i + (gone + 1)]
  <2>1. TAKE i \in 1 .. (Len(t) - 1)
  <2>2. Tail(t)[i] = t[i + 1] /\ i + 1 \in 1 .. Len(t) /\ (i + 1) + gone = i + (gone + 1)
      BY <1>1, <1>2
  <2> QED BY <1>4, <2>2
<1>6. Head(t) = w[gone + 1]
    BY <1>1, <1>2, <1>4
<1>7. \A j \in 1 .. (gone + 1) : w[j].kind = "insert" => w[j].key \in Q
  <2>1. TAKE j \in 1 .. (gone + 1)
  <2>2. CASE j = gone + 1
      BY <1>6, <2>2
  <2>3. CASE j \in 1 .. gone
      BY <1>2, <2>3 DEF LeftOf
  <2> QED BY <1>2, <2>2, <2>3
<1> QED BY <1>1, <1>3, <1>5, <1>7 DEF LeftOf

\* A set of keys that grows, and the same operations left.
LEMMA LeftSame ==
    ASSUME NEW t, NEW w, NEW P, NEW Q, LeftOf(t, w, P), P \subseteq Q
    PROVE  LeftOf(t, w, Q)
BY DEF LeftOf

\* At the start all the work is left.
LEMMA LeftAll ==
    ASSUME NEW w \in Seq(Operation), NEW P
    PROVE  LeftOf(w, w, P)
BY DEF LeftOf

\* The work of the phases.
LEMMA WorkIs ==
    ASSUME NEW s \in Scripts, NEW i \in DOMAIN s
    PROVE  /\ Len(s) \in Nat /\ DOMAIN s = 1 .. Len(s)
           /\ s[i].work \in [Threads -> Seq(Operation)]
<1>1. s \in Seq(Phase)
    BY ScriptsAssumption
<1>2. s[i] \in Phase
    BY <1>1
<1> QED BY <1>1, <1>2 DEF Phase

\* A step takes at most one operation from what is left, and inserts its key.
LEMMA InsertedStep ==
    ASSUME SpanningInv, SpanningInv', NoDeletions, NoDeletions', Sound, [Next]_vars,
           InsertedSoFar
    PROVE  InsertedSoFar'
<1>1. Local /\ Local' /\ Spanning /\ Spanning'
    BY DEF SpanningInv, ShapeInv
<1>2. PICK rank, top : Shape(rank, top)
    BY DEF SpanningInv, ShapeInv, IsShaped
<1>3. /\ script \in Scripts /\ phase \in DOMAIN script
      /\ todo \in [Threads -> Seq(Operation)]
    BY <1>1 DEF Local
<1>4. script[phase].work \in [Threads -> Seq(Operation)]
    BY <1>3, WorkIs
<1>5. ASSUME NEW p \in Threads, Step(p), Observe PROVE InsertedSoFar'
  <2>1. Starts(p) \/ GoesOn(p) \/ Ends(p)
      BY <1>1, <1>2, <1>5, StepSound
  <2>2. script' = script /\ phase' = phase
      BY <1>1, <1>2, <1>5, StepGoes DEF Goes
  <2>3. Present \subseteq Present'
      BY <2>1 DEF Starts, GoesOn, Ends
  <2>4. ASSUME NEW i \in 1 .. (phase - 1), NEW q \in Threads
        PROVE  LeftOf(<<>>, script[i].work[q], Present')
      BY <2>3, <2>4, LeftSame DEF InsertedSoFar
  <2>5. ASSUME NEW q \in Threads
        PROVE  LeftOf(todo'[q], script[phase].work[q], Present')
    <3>1. LeftOf(todo[q], script[phase].work[q], Present)
        BY DEF InsertedSoFar
    <3>2. CASE todo'[q] = todo[q]
        BY <2>3, <3>1, <3>2, LeftSame
    <3>3. CASE todo'[q] # todo[q]
      <4>1. Ends(p) /\ q = p /\ todo'[p] = Tail(todo[p])
          BY <1>3, <2>1, <3>3 DEF Starts, GoesOn, Ends
      <4>2. todo[p] # <<>>
          BY <1>1, <4>1 DEF Local, Ends
      <4>3. Head(todo[p]).kind = "insert" => Head(todo[p]).key \in Present'
          BY <4>1 DEF Ends, kind, key
      <4>4. todo[p] \in Seq(Operation) /\ script[phase].work[p] \in Seq(Operation)
          BY <1>3, <1>4
      <4> QED BY <2>3, <3>1, <4>1, <4>2, <4>3, <4>4, LeftTail
    <3> QED BY <3>2, <3>3
  <2> QED BY <2>2, <2>4, <2>5 DEF InsertedSoFar
<1>6. CASE (Rebalance /\ Observe) \/ UNCHANGED vars
  <2>1. Present' = Present
      BY <1>1, <1>2, <1>6, RestSound
  <2>2. script' = script /\ phase' = phase /\ todo' = todo
      BY <1>6 DEF Rebalance, vars
  <2> QED BY <2>1, <2>2 DEF InsertedSoFar
<1>7. CASE NextPhase /\ Observe
  <2>1. Present' = Present
      BY <1>1, <1>2, <1>7, RestSound
  <2>2. /\ script' = script /\ phase' = phase + 1 /\ todo' = script[phase + 1].work
        /\ \A p \in Threads : todo[p] = <<>>
      BY <1>7 DEF NextPhase
  <2>3. Len(script) \in Nat /\ DOMAIN script = 1 .. Len(script) /\ phase + 1 \in DOMAIN script
      BY <1>3, <1>7, WorkIs DEF NextPhase
  <2>4. script[phase + 1].work \in [Threads -> Seq(Operation)]
      BY <1>3, <2>3, WorkIs
  <2>5. \A p \in Threads : LeftOf(todo'[p], script[phase + 1].work[p], Present)
      BY <2>2, <2>4, LeftAll
  <2>6. ASSUME NEW i \in 1 .. phase, NEW p \in Threads
        PROVE  LeftOf(<<>>, script[i].work[p], Present)
    <3>1. CASE i = phase
        BY <2>2, <3>1 DEF InsertedSoFar
    <3>2. CASE i \in 1 .. (phase - 1)
        BY <3>2 DEF InsertedSoFar
    <3> QED BY <1>3, <2>3, <3>1, <3>2
  <2> QED BY <1>3, <2>1, <2>2, <2>3, <2>5, <2>6 DEF InsertedSoFar
<1> QED BY <1>5, <1>6, <1>7 DEF Next

\* At the beginning everything is left.
LEMMA InitInserted == Init => InsertedSoFar
<1> SUFFICES ASSUME Init PROVE InsertedSoFar
    OBVIOUS
<1>1. script \in Scripts /\ phase = 1 /\ todo = script[1].work
    BY DEF Init
<1>2. 1 \in DOMAIN script
    BY <1>1, ScriptsAssumption
<1>3. script[1].work \in [Threads -> Seq(Operation)]
    BY <1>1, <1>2, WorkIs
<1> QED BY <1>1, <1>3, LeftAll DEF InsertedSoFar

\* When the last phase is over nothing is left.
LEMMA InsertedAll ==
    ASSUME Local, InsertedSoFar
    PROVE  InsertedIsFound
<1> SUFFICES ASSUME Done, NEW k \in Keys, k \in Used("insert") PROVE k \in Present
    BY DEF InsertedIsFound, Used
<1>1. PICK i \in DOMAIN script, p \in Threads :
         [kind |-> "insert", key |-> k] \in
            { script[i].work[p][j] : j \in DOMAIN script[i].work[p] }
    BY DEF Used
<1>2. PICK w : w = script[i].work[p]
    OBVIOUS
<1>3. PICK j \in DOMAIN w : w[j] = [kind |-> "insert", key |-> k]
    BY <1>1, <1>2
<1>4. script \in Scripts /\ phase = Len(script) /\ \A q \in Threads : todo[q] = <<>>
    BY DEF Local, Done
<1>5. DOMAIN script = 1 .. Len(script) /\ Len(script) \in Nat /\ w \in Seq(Operation)
    BY <1>2, <1>4, WorkIs
<1>6. LeftOf(<<>>, w, Present)
    BY <1>2, <1>4, <1>5 DEF InsertedSoFar
<1>7. j \in 1 .. (Len(w) - Len(<<>>))
    BY <1>3, <1>5
<1>8. w[j].kind = "insert" /\ w[j].key = k
    BY <1>3
<1> QED BY <1>6, <1>7, <1>8 DEF LeftOf

\* "New key not found" (l.242-249): without deletions every key that was to be
\* inserted is in the tree when the last phase is over, whatever rotations ran
\* beside the insertions.
THEOREM InsertedCorrect == Spec => [](NoDeletions => InsertedIsFound)
<1>1. Init => InsertedSoFar
    BY InitInserted
<1>2. SpanningInv /\ SpanningInv' /\ NoDeletions /\ NoDeletions' /\ Sound /\ [Next]_vars
         /\ InsertedSoFar => InsertedSoFar'
    BY InsertedStep
<1>3. SpanningInv /\ InsertedSoFar => InsertedIsFound
    BY InsertedAll DEF SpanningInv, ShapeInv
<1>4. SpanningInv /\ [Next]_vars /\ NoDeletions' => NoDeletions
    BY NoDeletionsBefore DEF SpanningInv
<1> QED BY <1>1, <1>2, <1>3, <1>4, SpanningInvariant, SoundInvariant, PTL DEF Spec

-----------------------------------------------------------------------------
(***************************************************************************)
(* The weights: as long as nothing is deleted, every record of the tree    *)
(* proper has the same height over each of its children                    *)
(***************************************************************************)
\* What hangs below Root on the left: the empty tree, or the second sentinel
\* above the root of the tree.
Sentinel == Child(Root, "left")

\* Only the sentinels have the key MaxKey.
Guarded ==
    /\ Key(Sentinel) = MaxKey /\ IsLeaf(Child(Root, "right"))
    /\ ~IsLeaf(Sentinel) => IsLeaf(Child(Sentinel, "right"))
    /\ \A n \in Live : Key(n) = MaxKey =>
          n \in {Root, Sentinel, Child(Root, "right"), Child(Sentinel, "right")}

\* Only the root of the tree may weigh less than nothing.
Positive == \A n \in Live : Weight(n) >= 0 \/ n = TreeRoot

\* H[n] is the sum of the weights from n down to a leaf, on every path.
Even(H) ==
    /\ H \in [Record -> Int]
    /\ \A n \in Live : IsLeaf(n) => H[n] = Weight(n)
    /\ \A n \in Live \ {Root, Sentinel}, s \in Sides :
          ~IsLeaf(n) => H[n] = Weight(n) + H[Child(n, s)]

\* A record of the tree proper.
Proper(n) == n \in Live /\ n \notin {Root, Sentinel} /\ Key(n) # MaxKey

\* The sentinels are live, and only the tree is below them.
LEMMA SentinelIs ==
    ASSUME Forest
    PROVE  /\ Root \in Live /\ Sentinel \in Live /\ Sentinel \in Record /\ Sentinel # Null
           /\ Sentinel # Root /\ "left" \in Sides /\ "right" \in Sides
           /\ \A n \in Live, s \in Sides : Child(n, s) = Sentinel => n = Root /\ s = "left"
<1>1. Root \in Live /\ Child(Root, "left") # Null /\ "left" \in Sides /\ "right" \in Sides
    BY DEF Forest, Live, IsLeaf, Sides
<1> QED BY <1>1 DEF Forest, Live, Sentinel

\* Below a live record that is not a sentinel are records of the tree proper.
LEMMA ProperChild ==
    ASSUME Forest, Guarded, Positive, NEW n \in Live \ {Root, Sentinel},
           NEW s \in Sides, Child(n, s) # Null
    PROVE  /\ Proper(Child(n, s)) /\ Child(n, s) \in Record
           /\ Child(n, s) # TreeRoot /\ Weight(Child(n, s)) >= 0
<1> PICK c : c = Child(n, s)
    OBVIOUS
<1>1. c \in Live /\ c \in Record /\ c # Root
    BY DEF Forest, Live
<1>2. ASSUME NEW m \in Live, NEW t \in Sides, Child(m, t) = c PROVE m = n
    BY <1>2 DEF Forest
<1>3. /\ Root \in Live /\ Sentinel \in Live /\ "left" \in Sides /\ "right" \in Sides
    BY SentinelIs
<1>4. c # Sentinel /\ c # Child(Root, "right")
    BY <1>2, <1>3 DEF Sentinel
<1>5. c # Child(Sentinel, "right") /\ c # TreeRoot
  <2>1. TreeRoot = Child(Sentinel, "left")
      BY DEF TreeRoot, Sentinel
  <2> QED BY <1>2, <1>3, <2>1
<1>6. Key(c) # MaxKey
    BY <1>1, <1>4, <1>5 DEF Guarded
<1> QED BY <1>1, <1>4, <1>5, <1>6 DEF Proper, Positive

\* So is an inner record below a live one that is not Root.
LEMMA ProperInner ==
    ASSUME Forest, Light, Guarded,
           NEW parent \in Live \ {Root}, NEW q \in Sides, NEW node \in Record,
           Child(parent, q) = node, ~IsLeaf(node)
    PROVE  /\ Proper(node) /\ node # Child(Sentinel, "right")
           /\ parent = Sentinel => node = TreeRoot
<1>1. node # Null /\ node \in Live /\ node # Root
    BY FreshNames DEF Forest, Live
<1>2. /\ Root \in Live /\ Sentinel \in Live /\ "left" \in Sides /\ "right" \in Sides
      /\ node # Sentinel
    BY <1>1, SentinelIs
<1>3. node # Child(Root, "right")
    BY <1>2 DEF Guarded
<1>4. node # Child(Sentinel, "right")
  <2> SUFFICES ASSUME node = Child(Sentinel, "right") PROVE FALSE
      OBVIOUS
  <2>1. IsLeaf(Sentinel)
      BY DEF Guarded
  <2>2. Child(Sentinel, "right") = Null
      BY <1>2, <2>1, LightIs DEF Live
  <2> QED BY <1>1, <2>2
<1>5. parent = Sentinel => node = TreeRoot
  <2>1. TreeRoot = Child(Sentinel, "left")
      BY DEF TreeRoot, Sentinel
  <2> QED BY <1>4, <2>1 DEF Sides
<1> QED BY <1>1, <1>2, <1>3, <1>4, <1>5 DEF Proper, Guarded

\* What is left to show of Even when the records that were there keep their
\* heights and the first of the fresh ones gets that of old.
Weighs(H, hs, old, drop, fresh) ==
    /\ hs \in [1 .. Len(fresh) -> Int] /\ hs[1] = H[old] /\ 1 \in 1 .. Len(fresh)
    /\ \A i \in 1 .. Len(fresh) :
          /\ fresh[i].key # MaxKey
          /\ fresh[i].weight >= 0 \/ (i = 1 /\ old = TreeRoot)
          /\ LeafCell(fresh[i]) => hs[i] = fresh[i].weight
    /\ \A i \in 1 .. Len(fresh), s \in Sides :
          LeafCell(fresh[i]) \/ (\E j \in 1 .. Len(fresh) :
                                    /\ fresh[i][s] = New(j)
                                    /\ hs[i] = fresh[i].weight + hs[j])
                             \/ /\ fresh[i][s] \in Record
                                /\ hs[i] = fresh[i].weight + H[fresh[i][s]]
    /\ old \in drop \/ Weight(old) >= 0

\* The heights and the weights of a tree, and its sentinels.
Weighed == Guarded /\ Positive /\ \E H : Even(H)

\* A swing below a record of the tree, or of its root.
LEMMA SwingWeighs ==
    ASSUME Forest, Guarded, Positive, NEW H, Even(H),
           NEW parent \in Live \ {Root}, NEW old, \E s \in Sides : Child(parent, s) = old,
           old # Null, old # Child(Sentinel, "right"),
           NEW keep, NEW drop, drop \subseteq Live, NEW fresh \in Seq(Cell),
           Swing(parent, old, keep, drop, fresh),
           NEW hs, Weighs(H, hs, old, drop, fresh)
    PROVE  Weighed'
<1>1. PICK L : L = Len(heap)
    OBVIOUS
<1>2. Grafted(L, parent, old, drop, fresh)
    BY <1>1, SwungChildren
<1>3. PICK side : side = SideOf(parent, old)
    OBVIOUS
<1>4. /\ Record' = Record \cup {L + i : i \in 1 .. Len(fresh)}
      /\ Live' = (Live \ drop) \cup {L + i : i \in 1 .. Len(fresh)}
      /\ \A i \in 1 .. Len(fresh) : L + i \notin Record
      /\ side \in Sides /\ Child(parent, side) = old
      /\ \A n \in Record, s \in Sides :
            Child(n, s)' = IF n = parent /\ s = side THEN L + 1 ELSE Child(n, s)
      /\ \A i \in 1 .. Len(fresh), s \in Sides : Child(L + i, s)' = fresh[i][s]
      /\ \A n \in Record : Key(n)' = Key(n)
      /\ \A i \in 1 .. Len(fresh) : Key(L + i)' = fresh[i].key
    BY <1>2, <1>3 DEF Grafted
<1>5. /\ \A n \in Record : Weight(n)' = Weight(n)
      /\ \A i \in 1 .. Len(fresh) : Weight(L + i)' = fresh[i].weight
  <2>1. /\ heap \in Seq(Cell) /\ parent \in Record
      BY DEF Forest, Live
  <2>2. /\ \A n \in Record : Weight(n)' = Weight(n)
        /\ \A i \in 1 .. Len(fresh) : heap'[Len(heap) + i] = fresh[i]
      BY <2>1, SwungHeap
  <2> QED BY <1>1, <2>2 DEF Weight
<1>6. L \in Nat /\ Len(fresh) \in Nat /\ 1 \in 1 .. Len(fresh) /\ L + 1 # Null
    BY <1>1, RecordIs DEF Forest, Weighs, Null
<1>7. /\ \A n \in Record : IsLeaf(n)' <=> IsLeaf(n)
      /\ \A i \in 1 .. Len(fresh) : IsLeaf(L + i)' <=> LeafCell(fresh[i])
  <2>1. \A n \in Record, s \in Sides : Child(n, s)' = Null <=> Child(n, s) = Null
      BY <1>4, <1>6
  <2>2. \A n : IsLeaf(n)' <=> \E s \in Sides : Child(n, s)' = Null
      BY DEF IsLeaf, Sides
  <2>3. \A n \in Record : IsLeaf(n)' <=> IsLeaf(n)
      BY <2>1, <2>2, LeafIs
  <2> QED BY <1>4, <2>2, <2>3 DEF LeafCell, Sides
<1>8. /\ Root \in Live /\ Sentinel \in Live /\ Sentinel \in Record /\ Root \in Record
      /\ "left" \in Sides /\ "right" \in Sides /\ "left" # "right"
    BY SentinelIs DEF Forest
\* The sentinels stay what they are.
<1>9. /\ Sentinel' = Sentinel /\ Child(Root, "right")' = Child(Root, "right")
      /\ Child(Sentinel, "right")' = Child(Sentinel, "right")
      /\ TreeRoot' = IF parent = Sentinel THEN L + 1 ELSE TreeRoot
  <2>1. Sentinel' = Sentinel /\ Child(Root, "right")' = Child(Root, "right")
      BY <1>4, <1>8 DEF Sentinel
  <2>2. parent = Sentinel => side = "left"
      BY <1>4 DEF Sides
  <2>3. PICK guard : guard = Sentinel
      OBVIOUS
  <2>4. \A s \in Sides : Child(guard, s)' =
           IF guard = parent /\ s = side THEN L + 1 ELSE Child(Sentinel, s)
      BY <1>4, <1>8, <2>3
  <2>5. /\ TreeRoot' = Child(guard, "left")' /\ TreeRoot = Child(Sentinel, "left")
        /\ Child(Sentinel, "right")' = Child(guard, "right")'
      BY <2>1, <2>3 DEF TreeRoot, Sentinel
  <2> QED BY <1>4, <1>8, <2>1, <2>2, <2>3, <2>4, <2>5
<1>10. Guarded'
  <2>1. Key(Sentinel)' = MaxKey /\ IsLeaf(Child(Root, "right"))'
    <3>1. Child(Root, "right") \in Record
        BY <1>8 DEF Forest, IsLeaf
    <3> QED BY <1>4, <1>7, <1>8, <1>9, <3>1 DEF Guarded
  <2>2. ~IsLeaf(Sentinel)' => IsLeaf(Child(Sentinel, "right"))'
    <3>1. ~IsLeaf(Sentinel) => Child(Sentinel, "right") \in Record
        BY <1>8, LeafIs DEF Forest
    <3> QED BY <1>7, <1>8, <1>9, <3>1 DEF Guarded
  <2>3. ASSUME NEW n \in Live', Key(n)' = MaxKey
        PROVE  n \in {Root, Sentinel', Child(Root, "right")', Child(Sentinel, "right")'}
    <3>1. n \in Live /\ Key(n) = MaxKey
        BY <1>4, <2>3 DEF Weighs, Live
    <3> QED BY <1>9, <3>1 DEF Guarded
  <2> QED BY <1>9, <2>1, <2>2, <2>3 DEF Guarded, Root
<1>11. Positive'
  <2> SUFFICES ASSUME NEW n \in Live' PROVE Weight(n)' >= 0 \/ n = TreeRoot'
      BY DEF Positive
  <2>1. CASE n \in Live \ drop
    <3>1. Weight(n)' = Weight(n) /\ (Weight(n) >= 0 \/ n = TreeRoot)
        BY <1>5, <2>1 DEF Positive, Live
    <3>2. CASE n = TreeRoot /\ parent = Sentinel
      <4>1. n = old
          BY <1>4, <3>2 DEF TreeRoot, Sentinel, Sides
      <4> QED BY <2>1, <3>1, <4>1 DEF Weighs
    <3> QED BY <1>9, <3>1, <3>2
  <2>2. ASSUME NEW i \in 1 .. Len(fresh), n = L + i PROVE Weight(n)' >= 0 \/ n = TreeRoot'
    <3>1. CASE fresh[i].weight >= 0
        BY <1>5, <2>2, <3>1
    <3>2. CASE i = 1 /\ old = TreeRoot
      <4>1. parent = Sentinel
        <5>1. Child(Sentinel, "left") = old
            BY <3>2 DEF TreeRoot, Sentinel
        <5> QED BY <1>4, <1>8, <5>1 DEF Forest
      <4> QED BY <1>9, <2>2, <3>2, <4>1
    <3> QED BY <3>1, <3>2 DEF Weighs
  <2> QED BY <1>4, <2>1, <2>2
<1>12. PICK G : G = [n \in Record' |-> IF n \in Record THEN H[n] ELSE hs[n - L]]
    OBVIOUS
<1>13. /\ \A n \in Record : G[n] = H[n] /\ H[n] \in Int
       /\ \A i \in 1 .. Len(fresh) : G[L + i] = hs[i] /\ hs[i] \in Int
  <2>1. \A i \in 1 .. Len(fresh) : (L + i) - L = i
      BY <1>6
  <2> QED BY <1>4, <1>12, <2>1 DEF Even, Weighs
<1>14. Even(G)'
  <2>1. G \in [Record' -> Int]
    <3>1. \A n \in Record' : G[n] \in Int
        BY <1>4, <1>13
    <3> QED BY <1>12, <3>1
  <2>2. ASSUME NEW n \in Live', IsLeaf(n)' PROVE G[n] = Weight(n)'
    <3>1. CASE n \in Live
        BY <1>5, <1>7, <1>13, <2>2, <3>1 DEF Even, Live
    <3>2. ASSUME NEW i \in 1 .. Len(fresh), n = L + i PROVE G[n] = Weight(n)'
        BY <1>5, <1>7, <1>13, <2>2, <3>2 DEF Weighs
    <3> QED BY <1>4, <3>1, <3>2
  <2>3. ASSUME NEW n \in Live', n # Root, n # Sentinel, NEW s \in Sides, ~IsLeaf(n)'
        PROVE  G[n] = Weight(n)' + G[Child(n, s)']
    <3>1. CASE n \in Live
      <4>1. n \in Record /\ H[n] = Weight(n) + H[Child(n, s)] /\ ~IsLeaf(n)
          BY <1>7, <2>3, <3>1 DEF Even, Live
      <4>2. Child(n, s) \in Record
          BY <4>1, LeafIs DEF Forest
      <4>3. CASE n = parent /\ s = side
        <5>1. Child(n, s)' = L + 1 /\ G[L + 1] = hs[1] /\ hs[1] = H[Child(n, s)]
            BY <1>4, <1>6, <1>13, <4>1, <4>3 DEF Weighs
        <5> QED BY <1>5, <1>13, <4>1, <5>1
      <4>4. CASE ~(n = parent /\ s = side)
          BY <1>4, <1>5, <1>13, <4>1, <4>2, <4>4
      <4> QED BY <4>3, <4>4
    <3>2. ASSUME NEW i \in 1 .. Len(fresh), n = L + i
          PROVE  G[n] = Weight(n)' + G[Child(n, s)']
      <4>1. /\ G[n] = hs[i] /\ Weight(n)' = fresh[i].weight /\ Child(n, s)' = fresh[i][s]
            /\ ~LeafCell(fresh[i])
          BY <1>4, <1>5, <1>7, <1>13, <2>3, <3>2
      <4>2. CASE fresh[i][s] \in Record /\ hs[i] = fresh[i].weight + H[fresh[i][s]]
          BY <1>13, <4>1, <4>2
      <4>3. ASSUME NEW j \in 1 .. Len(fresh), fresh[i][s] = New(j),
                   hs[i] = fresh[i].weight + hs[j]
            PROVE  G[n] = Weight(n)' + G[Child(n, s)']
        <5>1. New(j) = L + j
            BY <1>1 DEF New
        <5> QED BY <1>13, <4>1, <4>3, <5>1
      <4> QED BY <4>1, <4>2, <4>3 DEF Weighs
    <3> QED BY <1>4, <3>1, <3>2
  <2> QED BY <1>9, <2>1, <2>2, <2>3 DEF Even, Root
<1> QED BY <1>10, <1>11, <1>14 DEF Weighed

\* A cell of a swing, with its weight.
Made(c, k, w, side, near, far) ==
    /\ c \in Cell /\ c.key = k /\ c.weight = w
    /\ c[side] = near /\ c[Opposite(side)] = far
    /\ near # Null /\ far # Null => ~LeafCell(c)

\* A record with two children, seen from a side.
LEMMA SidedIs ==
    ASSUME NEW side \in Sides, NEW k \in Keys \cup {MaxKey}, NEW w \in Int,
           NEW near \in Nat, NEW far \in Nat, NEW c, c = Sided(side, k, w, near, far)
    PROVE  Made(c, k, w, side, near, far)
<1>1. c \in Cell /\ c.key = k /\ c[side] = near /\ c[Opposite(side)] = far
    BY SidedFields
<1>2. c.weight = w
    BY DEF Sided, Rec
<1>3. near # Null /\ far # Null => ~LeafCell(c)
    BY <1>1, TwoSides DEF LeafCell
<1> QED BY <1>1, <1>2, <1>3 DEF Made

\* The heights of a record and of what is below it.
LEMMA HeightIs ==
    ASSUME Forest, NEW H, Even(H), NEW n, Proper(n), ~IsLeaf(n), NEW s \in Sides
    PROVE  H[n] = Weight(n) + H[Child(n, s)] /\ H[n] \in Int /\ Weight(n) \in Int
<1>1. n \in Record
    BY DEF Proper, Live
<1> QED BY <1>1, RecordFields DEF Even, Proper

\* A rotation of two red records.
LEMMA RotateWeighs ==
    ASSUME Forest, Light, Guarded, Positive, NEW H, Even(H),
           NEW parent \in Live \ {Root}, NEW q \in Sides, NEW v \in Record, Child(parent, q) = v,
           NEW side \in Sides, Rotate(side, parent, v)
    PROVE  Weighed'
<1> PICK far, u, C, A, B :
       /\ far = Opposite(side) /\ u = Child(v, side) /\ C = Child(v, far)
       /\ A = Child(u, side) /\ B = Child(u, far)
    OBVIOUS
<1> PICK a, b : /\ a = Sided(side, Key(u), Weight(v), A, New(2))
                /\ b = Sided(side, Key(v), Weight(u), B, C)
    OBVIOUS
<1> PICK fresh : fresh = <<a, b>>
    OBVIOUS
<1>1. /\ C # Null /\ u # Null /\ Weight(u) = 0 /\ A # Null /\ B # Null
      /\ Swing(parent, v, {}, {v, u}, fresh)
    BY DEF Rotate
<1>2. side \in Sides /\ far \in Sides /\ Sides = {side, far} /\ side # far
    BY TwoSides
<1>3. ~IsLeaf(v)
    BY <1>1, <1>2, LeafIs
<1>4. /\ Proper(v) /\ v # Child(Sentinel, "right") /\ (parent = Sentinel => v = TreeRoot)
      /\ v # Null
    BY <1>3, ProperInner, FreshNames
<1>5. v \in Live \ {Root, Sentinel} /\ Key(v) # MaxKey
    BY <1>4 DEF Proper
<1>6. Proper(u) /\ u \in Record
    BY <1>1, <1>2, <1>5, ProperChild
<1>7. u \in Live \ {Root, Sentinel} /\ Key(u) # MaxKey /\ ~IsLeaf(u)
    BY <1>1, <1>2, <1>6, LeafIs DEF Proper
<1>8. A \in Record /\ B \in Record /\ C \in Record
    BY <1>1, <1>2, <1>5, <1>7, ProperChild
<1>9. /\ Key(v) \in Keys \cup {MaxKey} /\ Key(u) \in Keys \cup {MaxKey}
      /\ Weight(v) \in Int /\ Weight(u) \in Int
    BY <1>6, RecordFields
<1>10. New(2) \in Nat /\ New(2) # Null /\ A \in Nat /\ B \in Nat /\ C \in Nat
    BY <1>8, FreshNames
<1>11. /\ a \in Cell /\ a.key = Key(u) /\ a.weight = Weight(v) /\ a[side] = A /\ a[far] = New(2)
       /\ ~LeafCell(a)
  <2>1. Made(a, Key(u), Weight(v), side, A, New(2))
      BY <1>9, <1>10, SidedIs
  <2> QED BY <1>1, <1>10, <2>1 DEF Made
<1>12. /\ b \in Cell /\ b.key = Key(v) /\ b.weight = Weight(u) /\ b[side] = B /\ b[far] = C
       /\ ~LeafCell(b)
  <2>1. Made(b, Key(v), Weight(u), side, B, C)
      BY <1>9, <1>10, SidedIs
  <2> QED BY <1>1, <2>1 DEF Made
<1>13. /\ H[v] = Weight(v) + H[u] /\ H[v] = Weight(v) + H[C]
       /\ H[u] = H[A] /\ H[u] = H[B] /\ H[v] \in Int /\ H[B] \in Int /\ H[A] \in Int
       /\ H[C] \in Int /\ H[u] \in Int
  <2>1. H[v] = Weight(v) + H[u] /\ H[v] = Weight(v) + H[C]
      BY <1>2, <1>3, <1>4, HeightIs
  <2>2. H[u] = Weight(u) + H[A] /\ H[u] = Weight(u) + H[B]
      BY <1>2, <1>6, <1>7, HeightIs
  <2>3. \A n \in {v, u, A, B, C} : H[n] \in Int
      BY <1>6, <1>8 DEF Even
  <2> QED BY <1>1, <2>1, <2>2, <2>3
<1>14. Weight(v) >= 0 \/ v = TreeRoot
    BY <1>5 DEF Positive
<1>15. PICK hs : hs = <<H[v], H[B]>>
    OBVIOUS
<1>16. /\ fresh \in Seq(Cell) /\ 1 .. Len(fresh) = {1, 2} /\ fresh[1] = a /\ fresh[2] = b
       /\ hs \in [1 .. Len(fresh) -> Int] /\ hs[1] = H[v] /\ hs[2] = H[B]
    BY <1>11, <1>12, <1>13, <1>15
<1>17. ASSUME NEW i \in {1, 2}, NEW s \in Sides
       PROVE  \/ \E j \in 1 .. Len(fresh) : /\ fresh[i][s] = New(j)
                                            /\ hs[i] = fresh[i].weight + hs[j]
              \/ fresh[i][s] \in Record /\ hs[i] = fresh[i].weight + H[fresh[i][s]]
  <2>1. hs[1] = a.weight + H[a[side]] /\ a[side] \in Record
      BY <1>8, <1>11, <1>13, <1>16
  <2>2. hs[1] = a.weight + hs[2] /\ a[far] = New(2)
      BY <1>11, <1>13, <1>16
  <2>3. hs[2] = b.weight + H[b[side]] /\ b[side] \in Record
      BY <1>1, <1>8, <1>12, <1>13, <1>16
  <2>4. hs[2] = b.weight + H[b[far]] /\ b[far] \in Record
      BY <1>1, <1>8, <1>9, <1>12, <1>13, <1>16
  <2> QED BY <1>2, <1>16, <2>1, <2>2, <2>3, <2>4
<1>18. Weighs(H, hs, v, {v, u}, fresh)
    BY <1>1, <1>5, <1>7, <1>11, <1>12, <1>14, <1>16, <1>17 DEF Weighs
<1>19. {v, u} \subseteq Live /\ \E s \in Sides : Child(parent, s) = v
    BY <1>5, <1>7
<1> QED BY <1>1, <1>4, <1>16, <1>18, <1>19, SwingWeighs

\* A double rotation.
LEMMA RotateTwiceWeighs ==
    ASSUME Forest, Light, Guarded, Positive, NEW H, Even(H),
           NEW parent \in Live \ {Root}, NEW q \in Sides, NEW v \in Record, Child(parent, q) = v,
           NEW side \in Sides, RotateTwice(side, parent, v)
    PROVE  Weighed'
<1> PICK far, l, lr : far = Opposite(side) /\ l = Child(v, side) /\ lr = Child(l, far)
    OBVIOUS
<1> PICK A, B, C, D : /\ A = Child(l, side) /\ B = Child(lr, side)
                      /\ C = Child(lr, far) /\ D = Child(v, far)
    OBVIOUS
<1> PICK a, b, c : /\ a = Sided(side, Key(lr), Weight(v), New(2), New(3))
                   /\ b = Sided(side, Key(l), 0, A, B)
                   /\ c = Sided(side, Key(v), 0, C, D)
    OBVIOUS
<1> PICK fresh : fresh = <<a, b, c>>
    OBVIOUS
<1>1. /\ ~IsLeaf(v) /\ Weight(l) = 0 /\ ~IsLeaf(l) /\ Weight(lr) = 0
      /\ Swing(parent, v, {}, {v, l, lr}, fresh)
    BY DEF RotateTwice
<1>2. side \in Sides /\ far \in Sides /\ Sides = {side, far} /\ side # far
    BY TwoSides
<1>3. /\ Proper(v) /\ v # Child(Sentinel, "right") /\ (parent = Sentinel => v = TreeRoot)
      /\ v # Null
    BY <1>1, ProperInner, FreshNames
<1>4. v \in Live \ {Root, Sentinel} /\ Key(v) # MaxKey
    BY <1>3 DEF Proper
<1>5. l # Null /\ D # Null
    BY <1>1, <1>2, LightIs
<1>6. Proper(l) /\ l \in Record /\ D \in Record
    BY <1>2, <1>4, <1>5, ProperChild
<1>7. l \in Live \ {Root, Sentinel} /\ Key(l) # MaxKey
    BY <1>6 DEF Proper
<1>8. lr # Null /\ A # Null
    BY <1>1, <1>2, <1>6, LightIs
<1>9. Proper(lr) /\ lr \in Record /\ A \in Record
    BY <1>2, <1>7, <1>8, ProperChild
<1>10. lr \in Live \ {Root, Sentinel} /\ Key(lr) # MaxKey /\ ~IsLeaf(lr)
    BY <1>1, <1>9, LightIs DEF Proper
<1>11. B # Null /\ C # Null
    BY <1>2, <1>9, <1>10, LightIs
<1>12. B \in Record /\ C \in Record
    BY <1>2, <1>10, <1>11, ProperChild
<1>13. /\ Key(v) \in Keys \cup {MaxKey} /\ Key(l) \in Keys \cup {MaxKey}
       /\ Key(lr) \in Keys \cup {MaxKey} /\ Weight(v) \in Int
    BY <1>6, <1>9, RecordFields
<1>14. /\ New(2) \in Nat /\ New(2) # Null /\ New(3) \in Nat /\ New(3) # Null
       /\ A \in Nat /\ B \in Nat /\ C \in Nat /\ D \in Nat
    BY <1>6, <1>9, <1>12, FreshNames
<1>15. /\ a \in Cell /\ a.key = Key(lr) /\ a.weight = Weight(v)
       /\ a[side] = New(2) /\ a[far] = New(3) /\ ~LeafCell(a)
  <2>1. Made(a, Key(lr), Weight(v), side, New(2), New(3))
      BY <1>13, <1>14, SidedIs
  <2> QED BY <1>14, <2>1 DEF Made
<1>16. /\ b \in Cell /\ b.key = Key(l) /\ b.weight = 0 /\ b[side] = A /\ b[far] = B
       /\ ~LeafCell(b)
  <2>1. 0 \in Int
      OBVIOUS
  <2>2. Made(b, Key(l), 0, side, A, B)
      BY <1>13, <1>14, <2>1, SidedIs
  <2> QED BY <1>8, <1>11, <2>2 DEF Made
<1>17. /\ c \in Cell /\ c.key = Key(v) /\ c.weight = 0 /\ c[side] = C /\ c[far] = D
       /\ ~LeafCell(c)
  <2>1. 0 \in Int
      OBVIOUS
  <2>2. Made(c, Key(v), 0, side, C, D)
      BY <1>13, <1>14, <2>1, SidedIs
  <2> QED BY <1>5, <1>11, <2>2 DEF Made
<1>18. /\ H[v] = Weight(v) + H[l] /\ H[v] = Weight(v) + H[D]
       /\ H[l] = H[A] /\ H[l] = H[lr] /\ H[lr] = H[B] /\ H[lr] = H[C]
       /\ H[v] \in Int /\ H[l] \in Int /\ H[D] \in Int
  <2>1. H[v] = Weight(v) + H[l] /\ H[v] = Weight(v) + H[D]
      BY <1>1, <1>2, <1>3, HeightIs
  <2>2. H[l] = Weight(l) + H[A] /\ H[l] = Weight(l) + H[lr]
      BY <1>1, <1>2, <1>6, HeightIs
  <2>3. H[lr] = Weight(lr) + H[B] /\ H[lr] = Weight(lr) + H[C]
      BY <1>1, <1>2, <1>9, <1>10, HeightIs
  <2>4. \A n \in {v, l, lr, A, B, C, D} : H[n] \in Int
      BY <1>6, <1>9, <1>12 DEF Even
  <2> QED BY <1>1, <2>1, <2>2, <2>3, <2>4
<1>19. Weight(v) >= 0 \/ v = TreeRoot
    BY <1>4 DEF Positive
<1>20. PICK hs : hs = <<H[v], H[l], H[l]>>
    OBVIOUS
<1>21. /\ fresh \in Seq(Cell) /\ 1 .. Len(fresh) = {1, 2, 3}
       /\ fresh[1] = a /\ fresh[2] = b /\ fresh[3] = c
       /\ hs \in [1 .. Len(fresh) -> Int] /\ hs[1] = H[v] /\ hs[2] = H[l] /\ hs[3] = H[l]
    BY <1>15, <1>16, <1>17, <1>18, <1>20
<1>22. ASSUME NEW i \in {1, 2, 3}, NEW s \in Sides
       PROVE  \/ \E j \in 1 .. Len(fresh) : /\ fresh[i][s] = New(j)
                                            /\ hs[i] = fresh[i].weight + hs[j]
              \/ fresh[i][s] \in Record /\ hs[i] = fresh[i].weight + H[fresh[i][s]]
  <2>1. hs[1] = a.weight + hs[2] /\ a[side] = New(2)
      BY <1>15, <1>18, <1>21
  <2>2. hs[1] = a.weight + hs[3] /\ a[far] = New(3)
      BY <1>15, <1>18, <1>21
  <2>3. hs[2] = b.weight + H[b[side]] /\ b[side] \in Record
    <3>1. H[b[side]] = H[l] /\ b[side] \in Record
        BY <1>9, <1>16, <1>18
    <3> QED BY <1>16, <1>18, <1>21, <3>1
  <2>4. hs[2] = b.weight + H[b[far]] /\ b[far] \in Record
    <3>1. H[b[far]] = H[l] /\ b[far] \in Record
        BY <1>12, <1>16, <1>18
    <3> QED BY <1>16, <1>18, <1>21, <3>1
  <2>5. hs[3] = c.weight + H[c[side]] /\ c[side] \in Record
      BY <1>12, <1>17, <1>18, <1>21
  <2>6. hs[3] = c.weight + H[c[far]] /\ c[far] \in Record
      BY <1>6, <1>13, <1>17, <1>18, <1>21
  <2> QED BY <1>2, <1>21, <2>1, <2>2, <2>3, <2>4, <2>5, <2>6
<1>23. Weighs(H, hs, v, {v, l, lr}, fresh)
    BY <1>4, <1>7, <1>10, <1>15, <1>16, <1>17, <1>19, <1>21, <1>22 DEF Weighs
<1>24. {v, l, lr} \subseteq Live /\ \E s \in Sides : Child(parent, s) = v
    BY <1>4, <1>7, <1>10
<1> QED BY <1>1, <1>3, <1>21, <1>23, <1>24, SwingWeighs

\* Two red children become black, and what is above them lighter.
LEMMA BlackenWeighs ==
    ASSUME Forest, Light, Guarded, Positive, NEW H, Even(H),
           NEW parent \in Live \ {Root}, NEW q \in Sides, NEW v \in Record, Child(parent, q) = v,
           tryRebalance1(parent, v)
    PROVE  Weighed'
<1> PICK l, r, w : l = Child(v, "left") /\ r = Child(v, "right") /\ w = Weight(v) - 1
    OBVIOUS
<1> PICK a, b, c : /\ a = Rec(Key(v), w, New(2), New(3))
                   /\ b = Reweighed(l, 1) /\ c = Reweighed(r, 1)
    OBVIOUS
<1> PICK fresh : fresh = <<a, b, c>>
    OBVIOUS
<1>1. /\ ~IsLeaf(v) /\ Weight(l) = 0 /\ Weight(r) = 0
      /\ Weight(v) > 0 \/ parent = Sentinel
      /\ Swing(parent, v, {}, {v, l, r}, fresh)
    BY DEF tryRebalance1, Sentinel
<1>2. "left" \in Sides /\ "right" \in Sides /\ Sides = {"left", "right"}
    BY DEF Sides
<1>3. /\ Proper(v) /\ v # Child(Sentinel, "right") /\ (parent = Sentinel => v = TreeRoot)
      /\ v # Null
    BY <1>1, ProperInner, FreshNames
<1>4. v \in Live \ {Root, Sentinel} /\ Key(v) # MaxKey
    BY <1>3 DEF Proper
<1>5. l # Null /\ r # Null
    BY <1>1, <1>2, LightIs
<1>6. Proper(l) /\ l \in Record /\ Proper(r) /\ r \in Record
    BY <1>2, <1>4, <1>5, ProperChild
<1>7. /\ l \in Live \ {Root, Sentinel} /\ Key(l) # MaxKey /\ ~IsLeaf(l)
      /\ r \in Live \ {Root, Sentinel} /\ Key(r) # MaxKey /\ ~IsLeaf(r)
    BY <1>1, <1>6, LightIs DEF Proper
<1>8. \A n \in {l, r}, s \in Sides : Child(n, s) # Null /\ Child(n, s) \in Record
  <2>1. \A n \in {l, r}, s \in Sides : Child(n, s) # Null
      BY <1>6, <1>7, LightIs
  <2> QED BY <1>7, <2>1, ProperChild
<1>9. Key(v) \in Keys \cup {MaxKey} /\ Weight(v) \in Int /\ w \in Int
  <2>1. Key(v) \in Keys \cup {MaxKey} /\ Weight(v) \in Int
      BY RecordFields
  <2> QED BY <2>1
<1>10. New(2) \in Nat /\ New(2) # Null /\ New(3) \in Nat /\ New(3) # Null
    BY FreshNames
<1>11. /\ a \in Cell /\ a.key = Key(v) /\ a.weight = w
       /\ a["left"] = New(2) /\ a["right"] = New(3) /\ ~LeafCell(a)
  <2>1. /\ a \in Cell /\ a.key = Key(v) /\ a["left"] = New(2) /\ a["right"] = New(3)
    <3>1. Has(a, Key(v), "left", New(2), New(3))
        BY <1>9, <1>10, RecHas
    <3> QED BY <3>1 DEF Has, Opposite
  <2>2. a.weight = w
      BY DEF Rec
  <2> QED BY <1>2, <1>10, <2>1, <2>2 DEF LeafCell
<1>12. ASSUME NEW n \in {l, r}, NEW d, d = Reweighed(n, 1)
       PROVE  /\ d \in Cell /\ d.key = Key(n) /\ d.weight = 1 /\ ~LeafCell(d)
              /\ \A s \in Sides : d[s] = Child(n, s)
  <2>1. n \in Record /\ heap \in Seq(Cell) /\ heap[n] \in Cell /\ 1 \in Int
      BY <1>6, RecordIs DEF Forest
  <2>2. d \in Cell /\ d.key = Key(n) /\ \A s \in Sides : d[s] = Child(n, s)
      BY <1>12, <2>1, ReweighedFields
  <2>3. d.weight = 1
      BY <1>12, <2>1 DEF Reweighed, Cell
  <2> QED BY <1>8, <2>2, <2>3 DEF LeafCell
<1>13. /\ b \in Cell /\ b.key = Key(l) /\ b.weight = 1 /\ ~LeafCell(b)
       /\ c \in Cell /\ c.key = Key(r) /\ c.weight = 1 /\ ~LeafCell(c)
       /\ \A s \in Sides : b[s] = Child(l, s) /\ c[s] = Child(r, s)
    BY <1>12
<1>14. /\ H[v] = Weight(v) + H[l] /\ H[v] = Weight(v) + H[r]
       /\ \A s \in Sides : H[l] = H[Child(l, s)] /\ H[r] = H[Child(r, s)]
       /\ H[v] \in Int /\ H[l] \in Int /\ H[r] \in Int
  <2>1. H[v] = Weight(v) + H[l] /\ H[v] = Weight(v) + H[r]
      BY <1>1, <1>2, <1>3, HeightIs
  <2>2. \A s \in Sides : /\ H[l] = Weight(l) + H[Child(l, s)]
                         /\ H[r] = Weight(r) + H[Child(r, s)]
      BY <1>6, <1>7, HeightIs
  <2>3. /\ H[v] \in Int /\ H[l] \in Int /\ H[r] \in Int
        /\ \A s \in Sides : H[Child(l, s)] \in Int /\ H[Child(r, s)] \in Int
      BY <1>6, <1>8 DEF Even
  <2> QED BY <1>1, <2>1, <2>2, <2>3
<1>15. w >= 0 \/ v = TreeRoot
    BY <1>1, <1>3, <1>9
<1>16. PICK hs : hs = <<H[v], H[l] + 1, H[r] + 1>>
    OBVIOUS
<1>17. /\ fresh \in Seq(Cell) /\ 1 .. Len(fresh) = {1, 2, 3}
       /\ fresh[1] = a /\ fresh[2] = b /\ fresh[3] = c
       /\ hs \in [1 .. Len(fresh) -> Int]
       /\ hs[1] = H[v] /\ hs[2] = H[l] + 1 /\ hs[3] = H[r] + 1
    BY <1>11, <1>13, <1>14, <1>16
<1>18. ASSUME NEW i \in {1, 2, 3}, NEW s \in Sides
       PROVE  \/ \E j \in 1 .. Len(fresh) : /\ fresh[i][s] = New(j)
                                            /\ hs[i] = fresh[i].weight + hs[j]
              \/ fresh[i][s] \in Record /\ hs[i] = fresh[i].weight + H[fresh[i][s]]
  <2>1. hs[1] = a.weight + hs[2] /\ a["left"] = New(2)
      BY <1>9, <1>11, <1>14, <1>17
  <2>2. hs[1] = a.weight + hs[3] /\ a["right"] = New(3)
      BY <1>9, <1>11, <1>14, <1>17
  <2>3. hs[2] = b.weight + H[b[s]] /\ b[s] \in Record
      BY <1>8, <1>13, <1>14, <1>17
  <2>4. hs[3] = c.weight + H[c[s]] /\ c[s] \in Record
      BY <1>8, <1>13, <1>14, <1>17
  <2> QED BY <1>2, <1>17, <2>1, <2>2, <2>3, <2>4
<1>19. Weighs(H, hs, v, {v, l, r}, fresh)
    BY <1>4, <1>7, <1>11, <1>13, <1>15, <1>17, <1>18 DEF Weighs
<1>20. {v, l, r} \subseteq Live /\ \E s \in Sides : Child(parent, s) = v
    BY <1>4, <1>7
<1> QED BY <1>1, <1>3, <1>17, <1>19, <1>20, SwingWeighs

\* An insertion at a leaf of the tree: the red record above it takes nothing
\* from the height.
LEMMA InsertWeighs ==
    ASSUME Forest, Light, Guarded, Positive, NEW H, Even(H), NEW k \in Keys,
           NEW parent \in Live \ {Root}, NEW leaf \in Live, NEW q \in Sides,
           Child(parent, q) = leaf, leaf # Child(Sentinel, "right"),
           IsLeaf(leaf), Key(leaf) # MaxKey, Insert(k, parent, leaf)
    PROVE  Weighed'
<1> PICK side : side = IF k < Key(leaf) THEN "right" ELSE "left"
    OBVIOUS
<1> PICK far, kn : far = Opposite(side) /\ kn = IF side = "right" THEN Key(leaf) ELSE k
    OBVIOUS
<1> PICK fresh : fresh = Inserted(k, leaf, side)
    OBVIOUS
<1>1. side \in Sides /\ far \in Sides /\ Sides = {side, far} /\ side # far
  <2>1. side \in Sides
      BY DEF Sides
  <2> QED BY <2>1, TwoSides
<1>2. /\ leaf \in Record /\ leaf # Null /\ parent \in Live
      /\ Swing(parent, leaf, {leaf}, {}, fresh)
  <2>1. leaf \in Record /\ leaf # Null
      BY FreshNames DEF Live
  <2> QED BY <2>1, InsertIs
<1>3. /\ fresh \in Seq(Cell) /\ Len(fresh) = 2 /\ 1 .. Len(fresh) = {1, 2}
      /\ fresh[1].key = kn /\ fresh[1][side] = leaf /\ fresh[1][far] = New(2)
      /\ fresh[2].key = k /\ \A s \in Sides : fresh[2][s] = Null
    BY <1>1, <1>2, InsertedFields
<1>4. k # MaxKey /\ kn # MaxKey
    BY KeysAssumption
<1>5. Weight(leaf) = 1 /\ H[leaf] = 1
    BY <1>2, LightIs DEF Even
<1>6. fresh[1].weight = 0 /\ fresh[2].weight = 1
  <2>1. InsertedWeight(leaf) = 0
      BY <1>5 DEF InsertedWeight
  <2>2. fresh[1].weight = InsertedWeight(leaf)
      BY DEF Inserted, Sided, Rec
  <2>3. fresh[2].weight = 1
      BY DEF Inserted, Leaf, Rec
  <2> QED BY <2>1, <2>2, <2>3
<1>7. ~LeafCell(fresh[1])
  <2>1. New(2) # Null
      BY FreshNames
  <2> QED BY <1>1, <1>2, <1>3, <2>1 DEF LeafCell
<1>8. PICK hs : hs = <<1, 1>>
    OBVIOUS
<1>9. hs \in [1 .. Len(fresh) -> Int] /\ hs[1] = 1 /\ hs[2] = 1
    BY <1>3, <1>8
<1>10. LeafCell(fresh[2])
    BY <1>1, <1>3 DEF LeafCell
<1>11. ASSUME NEW s \in Sides
       PROVE  \/ \E j \in 1 .. Len(fresh) : /\ fresh[1][s] = New(j)
                                            /\ hs[1] = fresh[1].weight + hs[j]
              \/ fresh[1][s] \in Record /\ hs[1] = fresh[1].weight + H[fresh[1][s]]
  <2>1. hs[1] = fresh[1].weight + H[fresh[1][side]] /\ fresh[1][side] \in Record
      BY <1>2, <1>3, <1>5, <1>6, <1>9
  <2>2. hs[1] = fresh[1].weight + hs[2] /\ fresh[1][far] = New(2) /\ 2 \in 1 .. Len(fresh)
      BY <1>3, <1>6, <1>9
  <2> QED BY <1>1, <2>1, <2>2
<1>12. Weighs(H, hs, leaf, {}, fresh)
  <2>1. \A i \in 1 .. Len(fresh) :
          /\ fresh[i].key # MaxKey
          /\ fresh[i].weight >= 0
          /\ LeafCell(fresh[i]) => hs[i] = fresh[i].weight
      BY <1>3, <1>4, <1>6, <1>7, <1>9
  <2>2. Weight(leaf) >= 0
      BY <1>5
  <2> QED BY <1>3, <1>5, <1>9, <1>10, <1>11, <2>1, <2>2 DEF Weighs
<1>13. PICK drop : drop = {}
    OBVIOUS
<1>14. Swing(parent, leaf, {leaf}, drop, fresh) /\ Weighs(H, hs, leaf, drop, fresh)
    BY <1>2, <1>12, <1>13
<1> QED BY <1>2, <1>3, <1>13, <1>14, SwingWeighs

\* The first insertion, above the leaf that the empty tree is, makes the
\* second sentinel.
LEMMA FirstWeighs ==
    ASSUME Forest, Light, Guarded, Positive, NEW H, Even(H), NEW k \in Keys,
           IsLeaf(Sentinel), Insert(k, Root, Sentinel)
    PROVE  Weighed'
<1> PICK leaf, fresh : leaf = Sentinel /\ fresh = Inserted(k, leaf, "right")
    OBVIOUS
<1>1. /\ Root \in Live /\ leaf \in Live /\ leaf \in Record /\ leaf # Null /\ leaf # Root
      /\ "left" \in Sides /\ "right" \in Sides /\ Sides = {"left", "right"} /\ Root \in Record
      /\ Child(Root, "left") = leaf /\ Key(leaf) = MaxKey
    BY SentinelIs DEF Sides, Forest, Sentinel, Guarded
<1>2. k < Key(leaf) /\ k # MaxKey
    BY <1>1, KeysAssumption
<1>3. Swing(Root, leaf, {leaf}, {}, fresh)
    BY <1>2, InsertIs
<1>4. /\ fresh \in Seq(Cell) /\ Len(fresh) = 2 /\ 1 .. Len(fresh) = {1, 2}
      /\ fresh[1].key = MaxKey /\ fresh[1]["right"] = leaf /\ fresh[1]["left"] = New(2)
      /\ fresh[2].key = k /\ \A s \in Sides : fresh[2][s] = Null
  <2>1. PICK side, kn : side = "right" /\ kn = Key(leaf)
      OBVIOUS
  <2>2. /\ fresh \in Seq(Cell) /\ Len(fresh) = 2 /\ 1 .. Len(fresh) = {1, 2}
        /\ fresh[1].key = kn /\ fresh[1][side] = leaf /\ fresh[1][Opposite(side)] = New(2)
        /\ fresh[2].key = k /\ \A s \in Sides : fresh[2][s] = Null
      BY <1>1, <2>1, InsertedFields
  <2> QED BY <1>1, <2>1, <2>2 DEF Opposite
<1>5. fresh[1].weight = 1 /\ fresh[2].weight = 1
  <2>1. fresh[1].weight = InsertedWeight(leaf)
      BY DEF Inserted, Sided, Rec
  <2>2. fresh[2].weight = 1
      BY DEF Inserted, Leaf, Rec
  <2> QED BY <1>1, <2>1, <2>2 DEF InsertedWeight
<1>6. PICK L : L = Len(heap)
    OBVIOUS
<1>7. Grafted(L, Root, leaf, {}, fresh)
  <2>1. PICK drop : drop = {}
      OBVIOUS
  <2>2. Swing(Root, leaf, {leaf}, drop, fresh) /\ \E s \in Sides : Child(Root, s) = leaf
      BY <1>1, <1>3, <2>1
  <2>3. Grafted(L, Root, leaf, drop, fresh)
      BY <1>1, <1>4, <1>6, <2>1, <2>2, SwungChildren
  <2> QED BY <2>1, <2>3
<1>8. SideOf(Root, leaf) = "left" /\ New(2) = L + 2 /\ L \in Nat
    BY <1>1, <1>6, RecordIs DEF SideOf, New, Forest
<1>9. /\ Record' = Record \cup {L + 1, L + 2} /\ Live' = Live \cup {L + 1, L + 2}
      /\ L + 1 \notin Record /\ L + 2 \notin Record /\ L + 1 # L + 2
      /\ \A n \in Record, s \in Sides :
            Child(n, s)' = IF n = Root /\ s = "left" THEN L + 1 ELSE Child(n, s)
      /\ Child(L + 1, "left")' = L + 2 /\ Child(L + 1, "right")' = leaf
      /\ \A s \in Sides : Child(L + 2, s)' = Null
      /\ \A n \in Record : Key(n)' = Key(n)
      /\ Key(L + 1)' = MaxKey /\ Key(L + 2)' = k
    BY <1>1, <1>4, <1>7, <1>8 DEF Grafted
<1>10. /\ \A n \in Record : Weight(n)' = Weight(n)
       /\ Weight(L + 1)' = 1 /\ Weight(L + 2)' = 1
  <2>1. /\ \A n \in Record : Weight(n)' = Weight(n)
        /\ \A i \in 1 .. Len(fresh) : heap'[Len(heap) + i] = fresh[i]
      BY <1>1, <1>3, <1>4, SwungHeap DEF Forest
  <2> QED BY <1>4, <1>5, <1>6, <2>1 DEF Weight
<1>11. /\ \A n \in Record : IsLeaf(n)' <=> IsLeaf(n)
       /\ ~IsLeaf(L + 1)' /\ IsLeaf(L + 2)'
  <2>1. L + 1 # Null /\ L + 2 # Null
      BY <1>8 DEF Null
  <2>2. \A n \in Record, s \in Sides : Child(n, s)' = Null <=> Child(n, s) = Null
      BY <1>1, <1>9, <2>1
  <2>3. \A n : IsLeaf(n)' <=> \E s \in Sides : Child(n, s)' = Null
      BY DEF IsLeaf, Sides
  <2>4. \A n \in Record : IsLeaf(n)' <=> IsLeaf(n)
      BY <2>2, <2>3, LeafIs
  <2> QED BY <1>1, <1>9, <2>1, <2>3, <2>4
<1>12. /\ Sentinel' = L + 1 /\ Child(Root, "right")' = Child(Root, "right")
       /\ Child(Sentinel, "right")' = leaf /\ TreeRoot' = L + 2
  <2>1. Sentinel' = L + 1 /\ Child(Root, "right")' = Child(Root, "right")
      BY <1>1, <1>9 DEF Sentinel, Root
  <2> QED BY <1>9, <2>1 DEF TreeRoot, Sentinel
<1>13. /\ Child(Sentinel, "right") = Null /\ TreeRoot = Null /\ Null \notin Live
  <2>1. \A s \in Sides : Child(Sentinel, s) = Null
      BY <1>1, LightIs
  <2> QED BY <1>1, <2>1, FreshNames DEF TreeRoot, Sentinel, Live
<1>14. Guarded'
  <2>1. Key(Sentinel)' = MaxKey /\ IsLeaf(Child(Root, "right"))'
    <3>1. Child(Root, "right") \in Record
        BY <1>1 DEF Forest, IsLeaf
    <3> QED BY <1>9, <1>11, <1>12, <3>1 DEF Guarded
  <2>2. IsLeaf(Child(Sentinel, "right"))'
      BY <1>1, <1>11, <1>12
  <2>3. ASSUME NEW n \in Live', Key(n)' = MaxKey
        PROVE  n \in {Root, Sentinel', Child(Root, "right")', Child(Sentinel, "right")'}
    <3>1. CASE n \in Live
      <4>1. Key(n) = MaxKey
          BY <1>9, <2>3, <3>1 DEF Live
      <4> QED BY <1>12, <1>13, <3>1, <4>1 DEF Guarded
    <3>2. CASE n \notin Live
        BY <1>2, <1>9, <1>12, <2>3, <3>2
    <3> QED BY <3>1, <3>2
  <2> QED BY <2>1, <2>2, <2>3 DEF Guarded, Root
<1>15. Positive'
  <2> SUFFICES ASSUME NEW n \in Live' PROVE Weight(n)' >= 0 \/ n = TreeRoot'
      BY DEF Positive
  <2>1. CASE n \in Live
    <3>1. Weight(n)' = Weight(n) /\ Weight(n) >= 0
        BY <1>10, <1>13, <2>1 DEF Positive, Live
    <3> QED BY <3>1
  <2>2. CASE n \notin Live
      BY <1>9, <1>10, <2>2
  <2> QED BY <2>1, <2>2
<1>16. PICK G : G = [n \in Record' |-> IF n \in Record THEN H[n] ELSE 1]
    OBVIOUS
<1>17. /\ \A n \in Record : G[n] = H[n] /\ H[n] \in Int
       /\ G[L + 1] = 1 /\ G[L + 2] = 1
    BY <1>9, <1>16 DEF Even
<1>18. Even(G)'
  <2>1. G \in [Record' -> Int]
    <3>1. \A n \in Record' : G[n] \in Int
        BY <1>9, <1>17
    <3> QED BY <1>16, <3>1
  <2>2. ASSUME NEW n \in Live', IsLeaf(n)' PROVE G[n] = Weight(n)'
    <3>1. CASE n \in Live
        BY <1>10, <1>11, <1>17, <2>2, <3>1 DEF Even, Live
    <3>2. CASE n \notin Live
        BY <1>9, <1>10, <1>17, <3>2
    <3> QED BY <3>1, <3>2
  <2>3. ASSUME NEW n \in Live', n # Root, n # L + 1, NEW s \in Sides, ~IsLeaf(n)'
        PROVE  G[n] = Weight(n)' + G[Child(n, s)']
    <3>1. n \in Live /\ n \in Record /\ ~IsLeaf(n) /\ n # leaf
        BY <1>9, <1>11, <2>3 DEF Live
    <3>2. Child(n, s) \in Record
        BY <2>3, <3>1, LeafIs DEF Forest
    <3>3. H[n] = Weight(n) + H[Child(n, s)]
        BY <2>3, <3>1 DEF Even
    <3> QED BY <1>9, <1>10, <1>17, <2>3, <3>1, <3>2, <3>3
  <2> QED BY <1>12, <2>1, <2>2, <2>3 DEF Even, Root
<1> QED BY <1>14, <1>15, <1>18 DEF Weighed

\* An insertion that succeeds.
LEMMA InsertionWeighs ==
    ASSUME Local, NEW rank, NEW top, Shape(rank, top), Light, Weighed,
           NEW p \in Threads, InsertScx(p), ~Retry(p)
    PROVE  Weighed' /\ Light'
<1> PICK parent, leaf, k, s : parent = n1(p) /\ leaf = n2(p) /\ k = key(p) /\ s = Toward(parent, k)
    OBVIOUS
<1>1. /\ parent \in Live /\ leaf \in Live /\ IsLeaf(leaf) /\ k \in Keys
      /\ s \in Sides /\ Child(parent, s) = leaf /\ Insert(k, parent, leaf)
    BY InsertFinds
<1>2. Forest /\ Guarded /\ Positive /\ Key(Root) = MaxKey
    BY DEF Shape, Weighed
<1>3. PICK H : Even(H)
    BY DEF Weighed
<1>4. Light'
    BY <1>1, <1>2, InsertLight
<1>5. /\ Root \in Live /\ Sentinel \in Live /\ Sentinel \in Record
      /\ "left" \in Sides /\ "right" \in Sides /\ leaf # Null
    BY <1>1, <1>2, SentinelIs, FreshNames DEF Live
<1>6. k < MaxKey
    BY <1>1, KeysAssumption
<1>7. CASE parent = Root
  <2>1. leaf = Sentinel
      BY <1>1, <1>2, <1>6, <1>7 DEF Toward, Sentinel
  <2> QED BY <1>1, <1>2, <1>3, <1>4, <1>7, <2>1, FirstWeighs
<1>8. CASE parent # Root
  <2>1. leaf # Root /\ leaf # Sentinel /\ leaf # Child(Root, "right")
      BY <1>1, <1>2, <1>5, <1>8 DEF Forest, Sentinel
  <2>2. leaf # Child(Sentinel, "right")
    <3> SUFFICES ASSUME leaf = Child(Sentinel, "right") PROVE FALSE
        OBVIOUS
    <3>1. parent = Sentinel /\ s = "right"
        BY <1>1, <1>2, <1>5 DEF Forest
    <3>2. s = "left"
        BY <1>2, <1>6, <3>1 DEF Guarded, Toward
    <3> QED BY <3>1, <3>2
  <2>3. Key(leaf) # MaxKey
      BY <1>1, <1>2, <2>1, <2>2 DEF Guarded
  <2> QED BY <1>1, <1>2, <1>3, <1>4, <1>8, <2>2, <2>3, InsertWeighs
<1> QED BY <1>7, <1>8

\* Rebalancing.
LEMMA RebalancingWeighs ==
    ASSUME Forest, Light, Weighed, Rebalance
    PROVE  Weighed' /\ Light'
<1>1. PICK parent \in Live \ {Root}, q \in Sides,
           case \in {"1", "2A", "2B", "3A", "3B", "4", "5A", "5B"} :
         Child(parent, q) # Null /\ tryRebalance(case, parent, Child(parent, q))
    BY DEF Rebalance, Live
<1>2. PICK node : node = Child(parent, q) /\ node # Null /\ tryRebalance(case, parent, node)
    BY <1>1
<1>3. node \in Record /\ Guarded /\ Positive
    BY <1>2 DEF Forest, Live, Weighed
<1>4. PICK H : Even(H)
    BY DEF Weighed
<1>5. Light'
    BY <1>2, <1>3, RebalanceLight
<1>6. \/ tryRebalance1(parent, node)
      \/ \E s \in Sides : Rotate(s, parent, node) \/ RotateTwice(s, parent, node)
    BY <1>2, <1>3, LightCases
<1> QED BY <1>2, <1>3, <1>4, <1>5, <1>6, BlackenWeighs, RotateWeighs, RotateTwiceWeighs

\* What is weighed when the heap stays as it is.
LEMMA WeighedStill ==
    ASSUME UNCHANGED <<heap, finalized>>
    PROVE  (Weighed' <=> Weighed) /\ (Light' <=> Light)
<1>1. /\ (Guarded' <=> Guarded) /\ (Positive' <=> Positive)
      /\ \A H : Even(H)' <=> Even(H)
    BY DEF Guarded, Positive, Even, Live, Record, Child, IsLeaf, Key, Weight, TreeRoot,
             Sentinel, Root
<1>2. Light' <=> Light
    BY DEF Light, Record
<1> QED BY <1>1, <1>2 DEF Weighed

\* The first tree.
LEMMA InitWeighed == Init => Light /\ Weighed
<1> SUFFICES ASSUME Init PROVE Light /\ Weighed
    OBVIOUS
<1>1. Light
    BY InitSound DEF Sound
<1>2. PICK h : h = heap
    OBVIOUS
<1>3. /\ h = <<Rec(MaxKey, 1, 2, 3), Leaf(MaxKey, 1), Leaf(MaxKey, 1)>> /\ finalized = {}
    BY <1>2 DEF Init, TreeInit
<1>4. /\ DOMAIN h = {1, 2, 3} /\ h[1] = Rec(MaxKey, 1, 2, 3)
      /\ h[2] = Rec(MaxKey, 1, Null, Null) /\ h[3] = Rec(MaxKey, 1, Null, Null)
    BY <1>3 DEF Leaf
<1>5. /\ \A n \in {1, 2, 3} : h[n].key = MaxKey /\ h[n].weight = 1
      /\ h[1]["left"] = 2 /\ h[1]["right"] = 3
      /\ \A n \in {2, 3}, s \in Sides : h[n][s] = Null
    BY <1>4 DEF Rec, Sides
<1>6. /\ Record = {1, 2, 3} /\ Live = {1, 2, 3} /\ Root = 1
      /\ \A n \in {1, 2, 3} : Key(n) = MaxKey /\ Weight(n) = 1
      /\ Child(1, "left") = 2 /\ Child(1, "right") = 3
      /\ \A n \in {2, 3}, s \in Sides : Child(n, s) = Null
    BY <1>2, <1>3, <1>4, <1>5 DEF Record, Live, Root, Key, Child, Weight
<1>7. IsLeaf(2) /\ IsLeaf(3) /\ ~IsLeaf(1) /\ Sentinel = 2
    BY <1>6 DEF IsLeaf, Sides, Null, Sentinel
<1>8. Guarded /\ Positive
    BY <1>6, <1>7 DEF Guarded, Positive
<1>9. PICK H : H = [n \in {1, 2, 3} |-> 1]
    OBVIOUS
<1>10. Even(H)
    BY <1>6, <1>7, <1>9 DEF Even
<1> QED BY <1>1, <1>8, <1>10 DEF Weighed

WeighedInv == SpanningInv /\ (NoDeletions => Light /\ Weighed)

\* The weights are kept by every step of a tree without deletions.
LEMMA WeighedStep ==
    ASSUME WeighedInv, SpanningInv', [Next]_vars
    PROVE  WeighedInv'
<1>1. ShapeInv /\ Local
    BY DEF WeighedInv, SpanningInv, ShapeInv
<1>2. PICK rank, top : Shape(rank, top)
    BY <1>1 DEF ShapeInv, IsShaped
<1> SUFFICES ASSUME NoDeletions' PROVE Light' /\ Weighed'
    BY DEF WeighedInv
<1>3. NoDeletions /\ Light /\ Weighed /\ Forest
    BY <1>1, <1>2, NoDeletionsBefore DEF WeighedInv, Shape
<1>4. ASSUME NEW p \in Threads, Step(p) PROVE Light' /\ Weighed'
  <2>1. \/ Begin(p) \/ SearchRoot(p) \/ SearchDown(p) \/ GetNode(p)
        \/ InsertLlxParent(p) \/ InsertCheck(p) \/ InsertLlxLeaf(p) \/ InsertScx(p)
      BY <1>1, <1>2, <1>3, <1>4, StepsLeft
  <2>2. CASE InsertScx(p) /\ ~Retry(p)
      BY <1>1, <1>2, <1>3, <2>2, InsertionWeighs
  <2>3. CASE ~InsertScx(p) \/ Retry(p)
    <3>1. \A n, next : LLX(p, n, next) => UNCHANGED <<heap, finalized>>
        BY DEF LLX, Retry
    <3>2. Retry(p) => UNCHANGED <<heap, finalized>>
        BY DEF Retry
    <3>3. InsertLlxParent(p) \/ InsertLlxLeaf(p) => UNCHANGED <<heap, finalized>>
        BY <3>1 DEF InsertLlxParent, InsertLlxLeaf
    <3>4. GetNode(p) => UNCHANGED <<heap, finalized>>
        BY Zenon DEF GetNode, treeVars
    <3>5. Begin(p) \/ SearchRoot(p) \/ SearchDown(p) => UNCHANGED <<heap, finalized>>
        BY DEF Begin, SearchRoot, SearchDown, treeVars
    <3>6. InsertCheck(p) => UNCHANGED <<heap, finalized>>
        BY <3>2 DEF InsertCheck, treeVars
    <3>7. UNCHANGED <<heap, finalized>>
        BY <2>1, <2>3, <3>2, <3>3, <3>4, <3>5, <3>6
    <3> QED BY <1>3, <3>7, WeighedStill
  <2> QED BY <2>2, <2>3
<1>5. CASE Rebalance
    BY <1>3, <1>5, RebalancingWeighs
<1>6. CASE NextPhase \/ UNCHANGED vars
  <2>1. UNCHANGED <<heap, finalized>>
      BY <1>6 DEF NextPhase, vars, treeVars
  <2> QED BY <1>3, <2>1, WeighedStill
<1> QED BY <1>4, <1>5, <1>6 DEF Next

\* Without deletions the weights stay even.
LEMMA WeighedInvariant == Spec => []WeighedInv
<1>1. Init /\ SpanningInv => WeighedInv
    BY InitWeighed DEF WeighedInv
<1>2. WeighedInv /\ SpanningInv' /\ [Next]_vars => WeighedInv'
    BY WeighedStep
<1> QED BY <1>1, <1>2, SpanningInvariant, PTL DEF Spec

-----------------------------------------------------------------------------
(***************************************************************************)
(* What check_balance of main.cpp computes then                            *)
(***************************************************************************)
\* A relation that holds the sum of the weights on every path to a leaf.
Adds(rel) ==
    /\ \A m \in Record : IsLeaf(m) => <<m, Weight(m)>> \in rel
    /\ \A m \in Record, s \in Sides, x \in Int :
          ~IsLeaf(m) /\ <<Child(m, s), x>> \in rel => <<m, Weight(m) + x>> \in rel
Sums(m) == { x \in Int : \A rel \in SUBSET (Record \X Int) : Adds(rel) => <<m, x>> \in rel }

\* The sums from a leaf are its weight.
LEMMA LeafSums ==
    ASSUME Forest, NEW n \in Record, IsLeaf(n)
    PROVE  Sums(n) = {Weight(n)}
<1>1. Weight(n) \in Int
    BY RecordFields
<1>2. Weight(n) \in Sums(n)
    BY <1>1 DEF Sums, Adds
<1>3. ASSUME NEW x \in Sums(n), x # Weight(n) PROVE FALSE
  <2>1. PICK rel : rel = (Record \X Int) \ {<<n, x>>}
      OBVIOUS
  <2>2. \A m \in Record : IsLeaf(m) => <<m, Weight(m)>> \in rel
      BY <1>3, <2>1, RecordFields
  <2>3. \A m \in Record, y \in Int : ~IsLeaf(m) => <<m, Weight(m) + y>> \in rel
    <3> SUFFICES ASSUME NEW m \in Record, NEW y \in Int, ~IsLeaf(m)
                 PROVE  <<m, Weight(m) + y>> \in rel
        OBVIOUS
    <3>1. Weight(m) + y \in Int
        BY RecordFields
    <3>2. m # n
        OBVIOUS
    <3> QED BY <2>1, <3>1, <3>2
  <2>4. Adds(rel) /\ rel \in SUBSET (Record \X Int)
      BY <2>1, <2>2, <2>3 DEF Adds
  <2>5. <<n, x>> \in rel
      BY <2>4 DEF Sums
  <2> QED BY <2>1, <2>5
<1> QED BY <1>2, <1>3

\* Those from an inner record are those of its children, with its weight.
LEMMA InnerSums ==
    ASSUME Forest, Light, NEW n \in Record, ~IsLeaf(n)
    PROVE  Sums(n) = { Weight(n) + x : x \in Sums(Child(n, "left")) \cup Sums(Child(n, "right")) }
<1> DEFINE Below2 == Sums(Child(n, "left")) \cup Sums(Child(n, "right"))
<1>1. Weight(n) \in Int /\ "left" \in Sides /\ "right" \in Sides
    BY RecordFields DEF Sides
<1>2. ASSUME NEW m \in Record, ~IsLeaf(m), NEW s \in Sides, NEW x \in Sums(Child(m, s))
      PROVE  Weight(m) + x \in Sums(m) /\ x \in Int
  <2>1. x \in Int /\ Weight(m) + x \in Int
      BY <1>2, RecordFields DEF Sums
  <2>2. ASSUME NEW rel \in SUBSET (Record \X Int), Adds(rel)
        PROVE  <<m, Weight(m) + x>> \in rel
    <3>1. <<Child(m, s), x>> \in rel
        BY <1>2, <2>2 DEF Sums
    <3> QED BY <1>2, <2>1, <2>2, <3>1 DEF Adds
  <2> QED BY <2>1, <2>2 DEF Sums
<1>3. ASSUME NEW y \in Sums(n), \A x \in Below2 : y # Weight(n) + x PROVE FALSE
  <2>1. PICK rel : rel = { e \in Record \X Int : e[2] \in Sums(e[1]) /\ e # <<n, y>> }
      OBVIOUS
  <2>2. ASSUME NEW m \in Record, IsLeaf(m) PROVE <<m, Weight(m)>> \in rel
    <3>1. Weight(m) \in Int /\ m # n /\ Weight(m) \in Sums(m)
        BY <2>2, RecordFields, LeafSums
    <3> QED BY <2>1, <3>1
  <2>3. ASSUME NEW m \in Record, NEW s \in Sides, NEW x \in Int, ~IsLeaf(m),
               <<Child(m, s), x>> \in rel
        PROVE  <<m, Weight(m) + x>> \in rel
    <3>1. x \in Sums(Child(m, s))
        BY <2>1, <2>3
    <3>2. Weight(m) + x \in Sums(m) /\ Weight(m) + x \in Int
        BY <1>2, <2>3, <3>1 DEF Sums
    <3>3. <<m, Weight(m) + x>> # <<n, y>>
      <4>1. m = n => x \in Below2
          BY <3>1 DEF Sides
      <4> QED BY <1>3, <4>1
    <3> QED BY <2>1, <3>2, <3>3
  <2>4. Adds(rel) /\ rel \in SUBSET (Record \X Int)
      BY <2>1, <2>2, <2>3 DEF Adds
  <2>5. <<n, y>> \in rel
      BY <2>4 DEF Sums
  <2> QED BY <2>1, <2>5
<1>4. \A x \in Below2 : Weight(n) + x \in Sums(n)
    BY <1>1, <1>2
<1>5. \A y \in Sums(n) : \E x \in Below2 : y = Weight(n) + x
    BY <1>3
<1>6. Sums(n) = { Weight(n) + x : x \in Below2 }
    BY <1>4, <1>5
<1> QED BY <1>6

\* The equation of the function that WeightedHeights is defined by.
SumsUp(F) ==
    F = [m \in {Null} \cup Record |->
           IF m = Null THEN {}
           ELSE IF IsLeaf(m) THEN {Weight(m)}
           ELSE { Weight(m) + x : x \in F[Child(m, "left")] \cup F[Child(m, "right")] }]

\* It has a solution, and WeightedHeights is one.
LEMMA HeightsSumUp ==
    ASSUME Forest, Light
    PROVE  \E F : SumsUp(F) /\ \A n : WeightedHeights(n) = F[n]
<1>1. PICK F : F = [m \in {Null} \cup Record |-> IF m = Null THEN {} ELSE Sums(m)]
    OBVIOUS
<1>2. ASSUME NEW m \in {Null} \cup Record
      PROVE  F[m] = IF m = Null THEN {}
                    ELSE IF IsLeaf(m) THEN {Weight(m)}
                    ELSE { Weight(m) + x : x \in F[Child(m, "left")] \cup F[Child(m, "right")] }
  <2>1. CASE m = Null
      BY <1>1, <2>1
  <2>2. CASE m # Null /\ IsLeaf(m)
      BY <1>1, <2>2, LeafSums
  <2>3. CASE m # Null /\ ~IsLeaf(m)
    <3>1. m \in Record
        BY <2>3
    <3>2. PICK l, r : l = Child(m, "left") /\ r = Child(m, "right")
        OBVIOUS
    <3>3. l \in Record /\ r \in Record /\ l # Null /\ r # Null
        BY <2>3, <3>1, <3>2, LightIs, FreshNames DEF Forest, Sides
    <3>4. F[m] = Sums(m) /\ F[l] = Sums(l) /\ F[r] = Sums(r)
        BY <1>1, <2>3, <3>1, <3>3
    <3>5. Sums(m) = { Weight(m) + x : x \in Sums(l) \cup Sums(r) }
        BY <2>3, <3>1, <3>2, InnerSums
    <3> QED BY <2>3, <3>2, <3>4, <3>5
  <2> QED BY <2>1, <2>2, <2>3
<1>3. SumsUp(F)
  <2>1. F = [m \in {Null} \cup Record |-> F[m]]
      BY <1>1
  <2>2. PICK G : G = [m \in {Null} \cup Record |->
           IF m = Null THEN {}
           ELSE IF IsLeaf(m) THEN {Weight(m)}
           ELSE { Weight(m) + x : x \in F[Child(m, "left")] \cup F[Child(m, "right")] }]
      OBVIOUS
  <2>3. \A m \in {Null} \cup Record : F[m] = G[m]
      BY <1>2, <2>2
  <2>4. F = G
      BY <2>1, <2>2, <2>3
  <2> QED BY <2>2, <2>4 DEF SumsUp
<1> DEFINE Solution == CHOOSE H : H = [m \in {Null} \cup Record |->
           IF m = Null THEN {}
           ELSE IF IsLeaf(m) THEN {Weight(m)}
           ELSE { Weight(m) + x : x \in H[Child(m, "left")] \cup H[Child(m, "right")] }]
<1>4. \E H : H = [m \in {Null} \cup Record |->
           IF m = Null THEN {}
           ELSE IF IsLeaf(m) THEN {Weight(m)}
           ELSE { Weight(m) + x : x \in H[Child(m, "left")] \cup H[Child(m, "right")] }]
    BY <1>3, Zenon DEF SumsUp
<1>5. Solution = [m \in {Null} \cup Record |->
           IF m = Null THEN {}
           ELSE IF IsLeaf(m) THEN {Weight(m)}
           ELSE { Weight(m) + x : x \in Solution[Child(m, "left")]
                                          \cup Solution[Child(m, "right")] }]
    BY <1>4, Zenon
<1>6. \A n : WeightedHeights(n) = Solution[n]
    BY Zenon DEF WeightedHeights
<1> QED BY <1>5, <1>6, Zenon DEF SumsUp

\* A record of the tree proper, and Null, have at most one sum.
LEMMA EvenSums ==
    ASSUME Forest, Light, NEW rank, NEW top, Ranked(rank, top), NEW H, Even(H),
           Guarded, Positive
    PROVE  /\ WeightedHeights(Null) = {}
           /\ \A n \in Live \ {Root, Sentinel} : WeightedHeights(n) = {H[n]}
<1>1. PICK F : SumsUp(F) /\ \A n : WeightedHeights(n) = F[n]
    BY HeightsSumUp
<1>2. /\ F[Null] = {}
      /\ \A m \in Record : IsLeaf(m) => F[m] = {Weight(m)}
      /\ \A m \in Record : ~IsLeaf(m) =>
            F[m] = { Weight(m) + x : x \in F[Child(m, "left")] \cup F[Child(m, "right")] }
  <2>1. Null \notin Record
      BY FreshNames
  <2> QED BY <1>1, <2>1 DEF SumsUp
<1>3. PICK T : T = { n \in Live \ {Root, Sentinel} : F[n] # {H[n]} }
    OBVIOUS
<1>4. CASE T # {}
  <2>1. T \in SUBSET Record /\ rank \in [Record -> Nat]
      BY <1>3 DEF Ranked, Live
  <2>2. PICK n \in T : \A m \in T : rank[n] <= rank[m]
      BY <1>4, <2>1, LeastRank
  <2>3. n \in Live /\ n \in Record /\ n \notin {Root, Sentinel} /\ F[n] # {H[n]}
      BY <1>3, <2>1
  <2>4. CASE IsLeaf(n)
      BY <1>2, <2>3, <2>4 DEF Even
  <2>5. CASE ~IsLeaf(n)
    <3>1. ASSUME NEW s \in Sides
          PROVE  F[Child(n, s)] = {H[Child(n, s)]} /\ H[n] = Weight(n) + H[Child(n, s)]
      <4>1. PICK c : c = Child(n, s)
          OBVIOUS
      <4>2. c # Null
          BY <2>3, <2>5, <4>1, LightIs
      <4>3. Proper(c)
          BY <2>3, <4>1, <4>2, ProperChild
      <4>4. rank[c] < rank[n] /\ rank[c] \in Int /\ rank[n] \in Int
          BY <2>3, <4>1, <4>2, LiveChild
      <4>5. F[c] = {H[c]}
          BY <1>3, <2>2, <4>3, <4>4 DEF Proper
      <4>6. H[n] = Weight(n) + H[c]
          BY <2>3, <2>5, <4>1 DEF Even
      <4> QED BY <4>1, <4>5, <4>6
    <3>2. PICK l, r : l = Child(n, "left") /\ r = Child(n, "right")
        OBVIOUS
    <3>3. F[l] = {H[l]} /\ F[r] = {H[r]} /\ H[n] = Weight(n) + H[l] /\ H[n] = Weight(n) + H[r]
        BY <3>1, <3>2 DEF Sides
    <3>4. F[n] = { Weight(n) + x : x \in F[l] \cup F[r] }
        BY <1>2, <2>3, <2>5, <3>2
    <3>5. F[n] = {H[n]}
        BY <3>3, <3>4
    <3> QED BY <2>3, <3>5
  <2> QED BY <2>4, <2>5
<1> QED BY <1>1, <1>2, <1>3, <1>4

\* The root of the tree, when there is one, is a record of the tree proper.
LEMMA TreeRootIs ==
    ASSUME Forest, Light, NEW rank, NEW top, Ranked(rank, top)
    PROVE  \/ TreeRoot = Null /\ Under(TreeRoot) = {}
           \/ /\ TreeRoot \in Live \ {Root, Sentinel}
              /\ TreeRoot \in Under(TreeRoot) /\ Under(TreeRoot) \subseteq Live
<1>1. /\ TreeRoot = Child(Sentinel, "left") /\ Root \in Live /\ Sentinel \in Live
      /\ "left" \in Sides /\ Sentinel \in Record
      /\ \A n \in Live, s \in Sides : Child(n, s) = Sentinel => n = Root
    BY SentinelIs DEF TreeRoot, Sentinel
<1>2. CASE TreeRoot = Null
  <2>1. PICK U : Unfolds(U) /\ \A n : Under(n) = U[n]
      BY UnderUnfolds
  <2>2. Under(Null) = {}
      BY <2>1 DEF Unfolds
  <2> QED BY <1>2, <2>2
<1>3. CASE TreeRoot # Null
  <2>1. TreeRoot \in Live /\ TreeRoot # Root /\ TreeRoot \in Record /\ TreeRoot # Sentinel
    <3>1. TreeRoot \in Live /\ TreeRoot # Root /\ TreeRoot \in Record
        BY <1>1, <1>3, LiveChild
    <3>2. TreeRoot # Sentinel
      <4> SUFFICES ASSUME TreeRoot = Sentinel PROVE FALSE
          OBVIOUS
      <4>1. rank[Sentinel] < rank[Sentinel] /\ rank[Sentinel] \in Int
          BY <1>1, <1>3, LiveChild
      <4> QED BY <4>1
    <3> QED BY <3>1, <3>2
  <2>2. Downward(Live) /\ Live \in SUBSET Record
      BY LiveChild DEF Downward, Live
  <2> QED BY <2>1, <2>2, UnderIs
<1> QED BY <1>2, <1>3

\* All paths from the root of the tree to a leaf weigh the same.
LEMMA WeightsAreEven ==
    ASSUME Forest, Light, NEW rank, NEW top, Ranked(rank, top), Weighed
    PROVE  WeightsMakeSense
<1>1. PICK H : Even(H)
    BY DEF Weighed
<1>2. Guarded /\ Positive
    BY DEF Weighed
<1>3. \/ WeightedHeights(TreeRoot) = {}
      \/ WeightedHeights(TreeRoot) = {H[TreeRoot]}
    BY <1>1, <1>2, TreeRootIs, EvenSums
<1>4. Cardinality(WeightedHeights(TreeRoot)) <= 1
  <2>1. Cardinality({}) = 0 /\ Cardinality({H[TreeRoot]}) = 1
      BY FS_EmptySet, FS_Singleton
  <2> QED BY <1>3, <2>1
<1>5. ASSUME NEW n \in Under(TreeRoot)
      PROVE  /\ Weight(n) < 0 => n = TreeRoot
             /\ IsLeaf(n) => Weight(n) > 0
  <2>1. n \in Live /\ n \in Record
      BY TreeRootIs DEF Live
  <2>2. Weight(n) \in Int
      BY <2>1, RecordFields
  <2>3. IsLeaf(n) => Weight(n) = 1
      BY <2>1, LightIs
  <2> QED BY <1>2, <2>1, <2>2, <2>3 DEF Positive
<1> QED BY <1>4, <1>5 DEF WeightsMakeSense

\* Whatever insertions and rebalancing run together, in whatever order: at any
\* moment before the first deletion is given out the weighted heights that
\* check_balance of main.cpp compares are equal, no leaf is red, and no record
\* but the root of the tree weighs less than nothing.
THEOREM WeightsCorrect == Spec => [](NoDeletions => WeightsMakeSense)
<1>1. WeighedInv => (NoDeletions => WeightsMakeSense)
  <2> SUFFICES ASSUME WeighedInv, NoDeletions PROVE WeightsMakeSense
      OBVIOUS
  <2>1. PICK rank, top : Shape(rank, top)
      BY DEF WeighedInv, SpanningInv, ShapeInv, IsShaped
  <2> QED BY <2>1, WeightsAreEven DEF WeighedInv, Shape
<1> QED BY <1>1, WeighedInvariant, PTL

-----------------------------------------------------------------------------
(***************************************************************************)
(* When rebalance finds no case, no red record has a red child             *)
(***************************************************************************)
\* What it means that no case applies at a node.
LEMMA NoCaseAt ==
    ASSUME NEW g, NEW p, CaseAt(g, p) = "none", Child(p, "left") # Null
    PROVE  /\ g = Child(Root, "left") \/ Weight(p) > 0 =>
                 ~(Red(Child(p, "left")) /\ Red(Child(p, "right")))
           /\ \A x \in Sides : ~Case2(p, x) /\ ~Case3(p, x)
<1>1. /\ ~(Red(Child(p, "left")) /\ Red(Child(p, "right"))
           /\ (g = Child(Root, "left") \/ Weight(p) > 0))
      /\ ~Case2(p, "left") /\ ~Case2(p, "right") /\ ~Case3(p, "left") /\ ~Case3(p, "right")
    BY DEF CaseAt
<1> QED BY <1>1 DEF Sides

\* A record below Sentinel, and not Sentinel, has its parent there.
LEMMA ParentUnder ==
    ASSUME Forest, NEW rank, NEW top, Ranked(rank, top), NEW n \in Under(Sentinel), n # Sentinel
    PROVE  /\ n \in Live
           /\ \E m \in Under(Sentinel), s \in Sides : m \in Live /\ Child(m, s) = n
<1>1. Sentinel \in Live /\ Sentinel \in Record
    BY SentinelIs
<1>2. PICK U : U = Under(Sentinel)
    OBVIOUS
<1>3. Downward(Live) /\ Live \in SUBSET Record
    BY LiveChild DEF Downward, Live
<1>4. /\ Sentinel \in U /\ U \subseteq Record /\ Downward(U) /\ U \subseteq Live
      /\ \A S \in SUBSET Record : Sentinel \in S /\ Downward(S) => U \subseteq S
    BY <1>1, <1>2, <1>3, UnderIs
<1>5. ASSUME \A m \in U, s \in Sides : Child(m, s) # n PROVE FALSE
  <2>1. PICK S : S = U \ {n}
      OBVIOUS
  <2>2. S \in SUBSET Record /\ Sentinel \in S
      BY <1>4, <2>1
  <2>3. Downward(S)
      BY <1>4, <1>5, <2>1 DEF Downward
  <2> QED BY <1>2, <1>4, <2>1, <2>2, <2>3
<1> QED BY <1>2, <1>4, <1>5

\* A red record and a red child of it, none of them the root of the tree.
RedRed(m, c) ==
    /\ m \in Under(Sentinel) /\ c # Null /\ \E s \in Sides : Child(m, s) = c
    /\ Red(m) /\ Red(c) /\ TreeRoot \notin {m, c}

\* The red records that have a red child, and are neither the root of the tree
\* nor its parent, have a black parent with a case, or a red parent.
LEMMA RedRedAbove ==
    ASSUME Forest, Light, NEW rank, NEW top, Ranked(rank, top), Guarded, Positive, Quiet,
           NEW m, NEW c, RedRed(m, c)
    PROVE  \E p : RedRed(p, m) /\ m \in Record /\ p \in Record /\ rank[m] < rank[p]
<1>1. /\ Root \in Live /\ Sentinel \in Live /\ Sentinel \in Record /\ Sentinel # Root
      /\ "left" \in Sides /\ "right" \in Sides
    BY SentinelIs
<1>2. Downward(Live) /\ Live \in SUBSET Record
    BY LiveChild DEF Downward, Live
<1>3. Under(Sentinel) \subseteq Live /\ Downward(Under(Sentinel)) /\ Root \notin Under(Sentinel)
  <2>1. PICK S : S = Live \ {Root}
      OBVIOUS
  <2>2. Downward(S) /\ S \in SUBSET Record /\ Sentinel \in S
      BY <1>1, <1>2, <2>1, LiveChild DEF Downward
  <2>3. Under(Sentinel) \subseteq S /\ Downward(Under(Sentinel))
      BY <1>1, <2>2, UnderIs
  <2> QED BY <2>1, <2>3
<1>4. PICK x \in Sides : Child(m, x) = c
    BY DEF RedRed
<1>5. m \in Live /\ m \in Record /\ m # TreeRoot /\ c # TreeRoot /\ Red(m) /\ Red(c) /\ c # Null
      /\ m \in Under(Sentinel) /\ c \in Live /\ c \in Record
  <2>1. m \in Live /\ c # Null /\ m # TreeRoot /\ c # TreeRoot /\ Red(m) /\ Red(c)
        /\ m \in Under(Sentinel)
      BY <1>3 DEF RedRed
  <2> QED BY <1>2, <1>4, <2>1 DEF Downward
<1>6. ~IsLeaf(m) /\ ~IsLeaf(c)
    BY <1>5, LightIs DEF Red
\* A red record is no child of Sentinel but the root of the tree.
<1>7. \A n \in Live, s \in Sides : Child(Sentinel, s) = n /\ Red(n) => n = TreeRoot
  <2>1. ~IsLeaf(Sentinel) => IsLeaf(Child(Sentinel, "right"))
      BY DEF Guarded
  <2>2. IsLeaf(Sentinel) => Child(Sentinel, "right") = Null
      BY <1>1, LightIs
  <2>3. TreeRoot = Child(Sentinel, "left")
      BY DEF TreeRoot, Sentinel
  <2>4. \A n \in Live : Red(n) => ~IsLeaf(n) /\ n # Null
      BY <1>2, LightIs, FreshNames DEF Red
  <2> QED BY <2>1, <2>2, <2>3, <2>4 DEF Sides
<1>8. m # Sentinel
    BY <1>4, <1>5, <1>7
<1>9. PICK p \in Under(Sentinel), s \in Sides : p \in Live /\ Child(p, s) = m
    BY <1>5, <1>8, ParentUnder
<1>10. p # Sentinel /\ p # Root /\ p \in Record
    BY <1>2, <1>3, <1>5, <1>7, <1>9
<1>11. PICK g \in Under(Sentinel), t \in Sides : g \in Live /\ Child(g, t) = p
    BY <1>10, ParentUnder
<1>12. p # Null /\ m # Null
    BY <1>5, <1>10, FreshNames
<1>13. CaseAt(g, p) = "none"
  <2>1. <<g, p>> \in Inner
      BY <1>11, <1>12 DEF Inner, Edges, Sentinel
  <2> QED BY <2>1 DEF Quiet
<1>14. ~IsLeaf(p) /\ Child(p, "left") # Null /\ Child(p, "right") # Null
    BY <1>1, <1>9, <1>10, <1>12, LightIs
<1>15. PICK sib : sib = Child(p, Opposite(s))
    OBVIOUS
<1>16. Opposite(s) \in Sides /\ sib # Null /\ sib \in Record /\ Weight(sib) >= 0
       /\ Weight(sib) \in Int
  <2>1. Opposite(s) \in Sides /\ sib # Null
      BY <1>14, <1>15, TwoSides DEF Sides
  <2>2. sib \in Record /\ Weight(sib) >= 0
      BY <1>9, <1>10, <1>15, <2>1, ProperChild
  <2> QED BY <2>1, <2>2, RecordFields
<1>17. ~(Weight(sib) > 0)
  <2> SUFFICES ASSUME Weight(sib) > 0 PROVE FALSE
      OBVIOUS
  <2>1. ~Case2(p, s) /\ ~Case3(p, s)
      BY <1>13, <1>14, NoCaseAt
  <2>2. x = s \/ x = Opposite(s)
      BY <1>4, TwoSides
  <2>3. x = s => Case2(p, s)
      BY <1>4, <1>5, <1>6, <1>9, <1>15 DEF Case2
  <2>4. x = Opposite(s) => Case3(p, s)
      BY <1>4, <1>5, <1>6, <1>9, <1>15 DEF Case3
  <2> QED BY <2>1, <2>2, <2>3, <2>4
<1>18. Red(Child(p, "left")) /\ Red(Child(p, "right"))
  <2>1. Red(sib)
      BY <1>16, <1>17 DEF Red
  <2> QED BY <1>5, <1>9, <1>15, <2>1 DEF Sides, Opposite
<1>19. g # Child(Root, "left") /\ ~(Weight(p) > 0)
    BY <1>13, <1>14, <1>18, NoCaseAt
<1>20. p # TreeRoot
  <2> SUFFICES ASSUME p = TreeRoot PROVE FALSE
      OBVIOUS
  <2>1. p = Child(Sentinel, "left")
      BY DEF TreeRoot, Sentinel
  <2>2. g = Sentinel
      BY <1>1, <1>11, <1>12, <2>1 DEF Forest
  <2> QED BY <1>19, <2>2 DEF Sentinel
<1>21. Red(p)
  <2>1. Weight(p) \in Int
      BY <1>10, RecordFields
  <2>2. Weight(p) >= 0
      BY <1>9, <1>20 DEF Positive
  <2> QED BY <1>19, <2>1, <2>2 DEF Red
<1>22. rank[m] < rank[p]
    BY <1>9, <1>12, LiveChild
<1>23. RedRed(p, m)
    BY <1>5, <1>9, <1>12, <1>20, <1>21 DEF RedRed
<1> QED BY <1>5, <1>10, <1>22, <1>23

\* So there are none: going up would never end.
LEMMA NoRedRed ==
    ASSUME Forest, Light, NEW rank, NEW top, Ranked(rank, top), Guarded, Positive, Quiet
    PROVE  \A m, c : ~RedRed(m, c)
<1>1. PICK T : T = { m \in Record : \E c : RedRed(m, c) }
    OBVIOUS
<1>2. CASE T # {}
  <2>1. PICK depth : depth = [n \in Record |-> top - rank[n]]
      OBVIOUS
  <2>2. depth \in [Record -> Nat] /\ T \in SUBSET Record
      BY <1>1, <2>1 DEF Ranked
  <2>3. PICK m \in T : \A n \in T : depth[m] <= depth[n]
      BY <1>2, <2>2, LeastRank
  <2>4. PICK c : RedRed(m, c)
      BY <1>1
  <2>5. PICK p : RedRed(p, m) /\ m \in Record /\ p \in Record /\ rank[m] < rank[p]
      BY <2>4, RedRedAbove
  <2>6. p \in T /\ depth[m] = top - rank[m] /\ depth[p] = top - rank[p]
      BY <1>1, <2>1, <2>5
  <2>7. rank[m] \in Int /\ rank[p] \in Int /\ top \in Int
      BY <2>5 DEF Ranked
  <2> QED BY <2>3, <2>5, <2>6, <2>7
<1>3. ASSUME NEW m, NEW c, RedRed(m, c) PROVE m \in T
  <2>1. \E p : RedRed(p, m) /\ m \in Record
      BY <1>3, RedRedAbove
  <2> QED BY <1>1, <1>3, <2>1
<1> QED BY <1>2, <1>3

\* A light tree that is quiet is balanced.
LEMMA LightQuiet ==
    ASSUME Forest, Light, NEW rank, NEW top, Ranked(rank, top), Weighed
    PROVE  QuietIsBalanced
<1> SUFFICES ASSUME Quiet, NEW e \in Inner, TreeRoot \notin {e[1], e[2]}, OverweightOrRedRed(e)
             PROVE  FALSE
    BY DEF QuietIsBalanced
<1>1. Guarded /\ Positive
    BY DEF Weighed
<1>2. PICK m \in Under(Sentinel), s \in Sides : e = <<m, Child(m, s)>> /\ e[2] # Null
    BY DEF Inner, Edges, Sentinel
<1>3. Sentinel \in Record
    BY SentinelIs
<1>4. m \in Record /\ e[1] = m /\ e[2] = Child(m, s)
    BY <1>2, <1>3, UnderIs
<1>5. e[2] \in Record
    BY <1>2, <1>4 DEF Forest
<1>6. Weight(e[2]) <= 1 /\ Weight(e[2]) \in Int
    BY <1>5, LightIs, RecordFields
<1>7. Red(e[1]) /\ Red(e[2])
    BY <1>6 DEF OverweightOrRedRed
<1>8. RedRed(m, e[2])
    BY <1>2, <1>4, <1>7 DEF RedRed
<1> QED BY <1>1, <1>8, NoRedRed

\* The cases that rebalance knows are enough: whenever it finds none on a tree
\* from which nothing was deleted yet, no red record has a red child and none
\* is overweight, the root of the tree aside.
THEOREM QuietCorrect == Spec => [](NoDeletions => QuietIsBalanced)
<1>1. WeighedInv => (NoDeletions => QuietIsBalanced)
  <2> SUFFICES ASSUME WeighedInv, NoDeletions PROVE QuietIsBalanced
      OBVIOUS
  <2>1. PICK rank, top : Shape(rank, top)
      BY DEF WeighedInv, SpanningInv, ShapeInv, IsShaped
  <2> QED BY <2>1, LightQuiet DEF WeighedInv, Shape
<1> QED BY <1>1, WeighedInvariant, PTL
=============================================================================
