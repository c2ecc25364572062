----------------------------- MODULE SCXProofs -----------------------------
(***************************************************************************)
(* Theorems about SCX, for any threads, records, footprints and bounds.    *)
(***************************************************************************)
EXTENDS SCX, TLAPS

\* Updating a function at one point.
LEMMA UpdateFunction ==
    ASSUME NEW S, NEW T, NEW f \in [S -> T], NEW x \in S, NEW e \in T
    PROVE  /\ [f EXCEPT ![x] = e] \in [S -> T]
           /\ [f EXCEPT ![x] = e][x] = e
           /\ \A y \in S \ {x} : [f EXCEPT ![x] = e][y] = f[y]
OBVIOUS

USE DEF State, InProgress, Committed, Aborted

LEMMA InitType == Init => TypeOK
<1> SUFFICES ASSUME Init PROVE TypeOK
    OBVIOUS
<1> QED BY ThreadsAssumption
    DEF Init, InitHandle, Handle, Tids, TypeOK, IndexOK, Labels, LlxLabels, HelpLabels,
        NodeLabels, Descriptor, Frozen, NoLlx, Locals, NoJob, Job

\* What a field-by-field update does to the type of a record.
LEMMA DescriptorType ==
    ASSUME NEW d \in Descriptor
    PROVE  /\ d.seq \in Nat /\ d.state \in State /\ d.allFrozen \in BOOLEAN
           /\ d.deps \in Seq(Frozen) /\ d.old \in Handle
BY DEF Descriptor

LEMMA DescriptorDeps ==
    ASSUME NEW d \in Descriptor, NEW s \in Seq(Frozen)
    PROVE  /\ [d EXCEPT !.deps = s] \in Descriptor
           /\ [d EXCEPT !.deps = s].deps = s
           /\ [d EXCEPT !.deps = s].seq = d.seq
BY DEF Descriptor

LEMMA DescriptorState ==
    ASSUME NEW d \in Descriptor, NEW st \in State
    PROVE  /\ [d EXCEPT !.state = st] \in Descriptor
           /\ [d EXCEPT !.state = st].deps = d.deps
           /\ [d EXCEPT !.state = st].seq = d.seq
BY DEF Descriptor

LEMMA DescriptorFrozen ==
    ASSUME NEW d \in Descriptor
    PROVE  /\ [d EXCEPT !.allFrozen = TRUE] \in Descriptor
           /\ [d EXCEPT !.allFrozen = TRUE].deps = d.deps
           /\ [d EXCEPT !.allFrozen = TRUE].seq = d.seq
BY DEF Descriptor

LEMMA DescriptorExecute ==
    ASSUME NEW d \in Descriptor, NEW n \in Nat, NEW h \in Handle
    PROVE  /\ [d EXCEPT !.seq = n, !.old = h] \in Descriptor
           /\ [d EXCEPT !.seq = n, !.old = h].deps = d.deps
           /\ [d EXCEPT !.seq = n, !.old = h].seq = n
BY DEF Descriptor

LEMMA DescriptorRetire ==
    ASSUME NEW d \in Descriptor, NEW n \in Nat
    PROVE  /\ [d EXCEPT !.seq = n, !.state = InProgress, !.allFrozen = FALSE]
                 \in Descriptor
           /\ [d EXCEPT !.seq = n, !.state = InProgress, !.allFrozen = FALSE].deps
                 = d.deps
           /\ [d EXCEPT !.seq = n, !.state = InProgress, !.allFrozen = FALSE].seq = n
BY DEF Descriptor

LEMMA JobType ==
    ASSUME NEW j \in Job
    PROVE  /\ j.tag \in Handle /\ j.seq \in Nat /\ j.deps \in Seq(Frozen)
           /\ j.old \in Handle /\ j.i \in Nat /\ j.other \in BOOLEAN
BY DEF Job

LEMMA JobIndex ==
    ASSUME NEW j \in Job, NEW k \in Nat
    PROVE  /\ [j EXCEPT !.i = k] \in Job
           /\ [j EXCEPT !.i = k].i = k
           /\ [j EXCEPT !.i = k].deps = j.deps
           /\ [j EXCEPT !.i = k].tag = j.tag
           /\ [j EXCEPT !.i = k].seq = j.seq
           /\ [j EXCEPT !.i = k].other = j.other
BY DEF Job

LEMMA LocalsType ==
    ASSUME NEW l \in Locals
    PROVE  /\ l.marked \in BOOLEAN /\ l.tag \in Handle
           /\ \A m \in BOOLEAN : [l EXCEPT !.marked = m] \in Locals
           /\ \A h \in Handle : [l EXCEPT !.tag = h] \in Locals
BY DEF Locals

\* The record a thread links is one of its footprint, the node it freezes is
\* one of the operation it helps.
LEMMA LinkType ==
    ASSUME TypeOK, NEW p \in Threads, pc[p] \in LlxLabels \cup {"snapCopy"}
    PROVE  /\ LinkIndex(p) \in 1..Len(plan[p])
           /\ plan[p][LinkIndex(p)] \in Dep
           /\ LinkNode(p) \in Nodes
<1>1. plan[p] \in Seq(Dep) /\ LinkIndex(p) \in DOMAIN plan[p]
    BY DEF TypeOK, IndexOK
<1>2. LinkIndex(p) \in 1..Len(plan[p]) /\ plan[p][LinkIndex(p)] \in Dep
    BY <1>1
<1> QED BY <1>2 DEF LinkNode, Dep

LEMMA CurrentType ==
    ASSUME TypeOK, NEW p \in Threads, pc[p] \in NodeLabels
    PROVE  /\ job[p].i \in 1..Len(job[p].deps)
           /\ Current(p) \in Frozen
<1>1. job[p].deps \in Seq(Frozen) /\ job[p].i \in DOMAIN job[p].deps
    BY DEF TypeOK, IndexOK, Job
<1> QED BY <1>1 DEF Current

\* A step of p leaves the control state of the others alone.
LEMMA OthersIndex ==
    ASSUME TypeOK, NEW p \in Threads,
           \A q \in Threads \ {p} : /\ pc'[q] = pc[q]
                                    /\ plan'[q] = plan[q]
                                    /\ job'[q] = job[q]
                                    /\ desc'[q].deps = desc[q].deps,
           IndexOK(p)'
    PROVE  \A q \in Threads : IndexOK(q)'
BY DEF TypeOK, IndexOK, LinkIndex

\* The labels, for the steps that only look at them.
USE DEF Labels, LlxLabels, HelpLabels, NodeLabels


USE DEF At, Goto, nodeVars, ghostVars

LEMMA StartType ==
    ASSUME TypeOK, NEW p \in Threads, Begin(p) PROVE TypeOK'
<1> PICK fp \in Footprints[p] : Start(p, fp)
    BY DEF Begin
<1> USE DEF Start
<1>1. fp \in Seq(Dep) /\ Len(fp) > 0
    BY FootprintsAssumption
<1>2. desc' \in [Tids -> Descriptor] /\ desc'[p].deps = <<>>
  <2>1. desc[p] \in Descriptor /\ <<>> \in Seq(Frozen) /\ p \in Tids
    BY DEF TypeOK, Tids
  <2> QED BY <2>1, DescriptorDeps DEF TypeOK
<1>3. plan' \in [Threads -> Seq(Dep)] /\ plan'[p] = fp
    BY <1>1 DEF TypeOK
<1>4. IndexOK(p)'
  <2>1. pc'[p] = "llxMarked" /\ LinkIndex(p)' = 1
    BY <1>2 DEF TypeOK, LinkIndex
  <2> QED BY <1>1, <1>3, <2>1 DEF IndexOK
<1>5. \A q \in Threads \ {p} : /\ pc'[q] = pc[q]
                               /\ plan'[q] = plan[q]
                               /\ job'[q] = job[q]
                               /\ desc'[q].deps = desc[q].deps
    BY DEF TypeOK
<1> QED BY <1>2, <1>3, <1>4, <1>5, OthersIndex DEF TypeOK

LEMMA ReadFieldType ==
    ASSUME TypeOK, NEW p \in Threads, ReadField(p) PROVE TypeOK'
<1> USE DEF ReadField, AfterLink
<1>1. plan[p] \in Seq(Dep) /\ 1 \in 1..Len(plan[p]) /\ LinkIndex(p) = 2
    BY DEF TypeOK, IndexOK
<1>2. plan[p][1] \in Dep
    BY <1>1
<1>3. child' \in [Threads -> Handle]
    BY <1>2 DEF TypeOK, Dep
<1>4. IndexOK(p)'
  <2>1. LinkIndex(p)' = 2 /\ plan'[p] = plan[p]
    BY <1>1 DEF LinkIndex
  <2>2. pc'[p] = "execute" \/ (pc'[p] = "llxMarked" /\ Len(plan[p]) # 1)
    BY DEF TypeOK
  <2>3. 2 \in DOMAIN plan[p] \/ Len(plan[p]) = 1
    <3>1. Len(plan[p]) \in Nat /\ DOMAIN plan[p] = 1..Len(plan[p]) /\ Len(plan[p]) >= 1
      BY <1>1
    <3>2. \A k \in Nat : k >= 1 => 2 \in 1..k \/ k = 1
      OBVIOUS
    <3> QED BY <3>1, <3>2
  <2> QED BY <2>1, <2>2, <2>3 DEF IndexOK
<1> QED BY <1>3, <1>4, OthersIndex DEF TypeOK

LEMMA LlxReadType ==
    ASSUME TypeOK, NEW p \in Threads,
           LlxReadMarked(p) \/ LlxReadPtr(p) \/ LlxReadState(p)
    PROVE  TypeOK'
<1> USE DEF LlxReadMarked, LlxReadPtr, LlxReadState
<1>1. llx' \in [Threads -> Locals]
  <2>1. llx[p] \in Locals
    BY DEF TypeOK
  <2>2. CASE LlxReadMarked(p)
    BY <2>1, <2>2, LinkType, LocalsType DEF TypeOK
  <2>3. CASE LlxReadPtr(p)
    BY <2>1, <2>3, LinkType, LocalsType DEF TypeOK
  <2>4. CASE LlxReadState(p)
    BY <2>4 DEF TypeOK
  <2> QED BY <2>2, <2>3, <2>4
<1>2. IndexOK(p)'
    BY DEF TypeOK, IndexOK, LinkIndex
<1> QED BY <1>1, <1>2, OthersIndex DEF TypeOK

\* A thread that returns is idle, and its locals are the initial ones.
LEMMA ReturnType ==
    ASSUME TypeOK, NEW p \in Threads, NEW r, Return(p, r),
           r \in {"none", "failed", "finalized", Committed, Aborted}
    PROVE  /\ pc' \in [Threads -> Labels]
           /\ pc'[p] = "idle"
           /\ \A q \in Threads \ {p} : pc'[q] = pc[q] /\ job'[q] = job[q]
           /\ llx' \in [Threads -> Locals]
           /\ job' \in [Threads -> Job]
           /\ child' \in [Threads -> Handle]
           /\ ret' \in [Threads -> {"none", "failed", "finalized", Committed, Aborted}]
<1>1. NoLlx \in Locals /\ NoJob \in Job /\ InitHandle \in Handle
    BY DEF Handle, Tids, NoLlx, Locals, NoJob, Job, InitHandle
<1> QED BY <1>1 DEF Return, TypeOK

LEMMA FailedLlxType ==
    ASSUME TypeOK, NEW p \in Threads, FailedLlx(p),
           desc' = desc, plan' = plan, UNCHANGED <<nodeVars, ghostVars>>
    PROVE  TypeOK'
<1> DEFINE r == IF llx[p].marked THEN "finalized" ELSE "failed"
<1>1. r \in {"none", "failed", "finalized", Committed, Aborted} /\ Return(p, r)
    BY DEF FailedLlx
<1> HIDE DEF r
<1>2. IndexOK(p)'
    BY <1>1, ReturnType DEF IndexOK
<1> QED BY <1>1, <1>2, ReturnType, OthersIndex DEF TypeOK

LEMMA LlxReadUnmarkedType ==
    ASSUME TypeOK, NEW p \in Threads, LlxReadUnmarked(p) PROVE TypeOK'
<1> USE DEF LlxReadUnmarked
<1>1. CASE marked[LinkNode(p)]
    BY <1>1, FailedLlxType
<1>2. CASE ~marked[LinkNode(p)]
  <2>1. IndexOK(p)'
    BY <1>2 DEF TypeOK, IndexOK, LinkIndex
  <2> QED BY <1>2, <2>1, OthersIndex DEF TypeOK
<1> QED BY <1>1, <1>2

LEMMA LlxValidateType ==
    ASSUME TypeOK, NEW p \in Threads, LlxValidate(p) PROVE TypeOK'
<1> USE DEF LlxValidate
<1>1. CASE scxPtr[LinkNode(p)] # llx[p].tag
    BY <1>1, FailedLlxType
<1>2. CASE scxPtr[LinkNode(p)] = llx[p].tag
  <2> DEFINE n == LinkNode(p)
             k == LinkIndex(p)
             dep == [node |-> n, finalize |-> plan[p][k].finalize,
                     seen |-> llx[p].tag]
  <2>1. /\ k \in 1..Len(plan[p]) /\ n \in Nodes /\ dep \in Frozen
        /\ desc[p].deps \in Seq(Frozen) /\ plan[p] \in Seq(Dep)
    <3>1. desc[p] \in Descriptor /\ llx[p] \in Locals /\ plan[p] \in Seq(Dep)
      BY DEF TypeOK, Tids
    <3>2. k \in 1..Len(plan[p]) /\ n \in Nodes /\ plan[p][k] \in Dep
      BY LinkType
    <3> QED BY <3>1, <3>2, DescriptorType, LocalsType DEF Dep, Frozen
  <2>2. /\ desc' = [desc EXCEPT ![p].deps = Append(@, dep)]
        /\ link' = [link EXCEPT ![p] = @ \cup {<<n, ver[n]>>}]
        /\ llx' = [llx EXCEPT ![p] = NoLlx]
        /\ pc' = [pc EXCEPT ![p] = IF k = 1 THEN "readField" ELSE AfterLink(p, k)]
        /\ UNCHANGED <<child, job, ret, nodeVars, plan, done, ver>>
    BY <1>2
  <2>3. k = Len(desc[p].deps) + 1
    BY DEF LinkIndex
  <2> HIDE DEF dep, k, n
  <2>4. Append(desc[p].deps, dep) \in Seq(Frozen)
        /\ Len(Append(desc[p].deps, dep)) = k
    BY <2>1, <2>3
  <2>5. desc' \in [Tids -> Descriptor] /\ Len(desc'[p].deps) = k
    <3>1. desc[p] \in Descriptor /\ p \in Tids
      BY DEF TypeOK, Tids
    <3> QED BY <2>2, <2>4, <3>1, DescriptorDeps DEF TypeOK
  <2>6. link' \in [Threads -> SUBSET (Nodes \X Handle)]
    BY <2>1, <2>2 DEF TypeOK
  <2>7. llx' \in [Threads -> Locals]
    BY <2>2 DEF TypeOK, Locals, NoLlx, InitHandle, Handle, Tids
  <2>8. pc' \in [Threads -> Labels]
    BY <2>2 DEF TypeOK, AfterLink
  <2>9. IndexOK(p)'
    BY <2>1, <2>2, <2>5 DEF TypeOK, IndexOK, LinkIndex, AfterLink
  <2>10. \A q \in Threads \ {p} : /\ pc'[q] = pc[q] /\ plan'[q] = plan[q]
                                  /\ job'[q] = job[q]
                                  /\ desc'[q].deps = desc[q].deps
    BY <2>2 DEF TypeOK
  <2> QED BY <2>2, <2>5, <2>6, <2>7, <2>8, <2>9, <2>10, OthersIndex DEF TypeOK
<1> QED BY <1>1, <1>2

LEMMA SnapCopyType ==
    ASSUME TypeOK, NEW p \in Threads, SnapCopy(p) PROVE TypeOK'
<1> USE DEF SnapCopy
<1>1. job' \in [Threads -> Job]
    BY DEF TypeOK, Locals, Descriptor, Job, Handle
<1>2. IndexOK(p)'
    BY DEF TypeOK, IndexOK, LinkIndex
<1> QED BY <1>1, <1>2, OthersIndex DEF TypeOK

LEMMA SnapCheckType ==
    ASSUME TypeOK, NEW p \in Threads, SnapCheck(p) PROVE TypeOK'
<1> USE DEF SnapCheck
<1>1. CASE ~Live(job[p].tag)
    BY <1>1, FailedLlxType
<1>2. CASE Live(job[p].tag)
  <2>1. job[p].i = 2 /\ job[p].deps \in Seq(Frozen)
    BY JobType DEF TypeOK, IndexOK
  <2>2. IndexOK(p)'
    BY <1>2, <2>1 DEF TypeOK, IndexOK, LinkIndex, HelpFrom
  <2> QED BY <1>2, <2>2, OthersIndex DEF TypeOK, HelpFrom
<1> QED BY <1>1, <1>2

LEMMA ExecuteType ==
    ASSUME TypeOK, NEW p \in Threads, Execute(p) PROVE TypeOK'
<1> DEFINE e == [desc[p] EXCEPT !.seq = desc[p].seq + 1, !.old = child[p]]
<1>1. /\ desc[p] \in Descriptor /\ p \in Tids /\ child[p] \in Handle
      /\ desc \in [Tids -> Descriptor]
    BY DEF TypeOK, Tids
<1>2. desc[p].seq + 1 \in Nat /\ desc[p].deps \in Seq(Frozen)
    BY <1>1, DescriptorType
<1>3. desc' = [desc EXCEPT ![p] = e]
    BY DEF Execute
<1>4. e \in Descriptor /\ e.deps = desc[p].deps
  <2>1. \A d \in Descriptor, n \in Nat, h \in Handle :
           /\ [d EXCEPT !.seq = n, !.old = h] \in Descriptor
           /\ [d EXCEPT !.seq = n, !.old = h].deps = d.deps
    BY DescriptorExecute
  <2> QED BY ONLY <1>1, <1>2, <2>1
<1> HIDE DEF e
<1>5. desc' \in [Tids -> Descriptor] /\ desc'[p].deps = desc[p].deps
      /\ \A t \in Tids \ {p} : desc'[t] = desc[t]
    BY <1>1, <1>3, <1>4, UpdateFunction
<1>6. job' \in [Threads -> Job]
    BY <1>1, <1>2 DEF Execute, TypeOK, Job, Handle, Tids
<1>7. job'[p].i \in DOMAIN job'[p].deps
    BY <1>2 DEF Execute, TypeOK, IndexOK, LinkIndex
<1>8. IndexOK(p)'
    BY <1>7 DEF Execute, TypeOK, IndexOK
<1> QED BY <1>5, <1>6, <1>8, OthersIndex DEF Execute, TypeOK, Tids

\* help goes on to the next node, or to the allFrozen bit after the last one.
LEMMA NextNodeType ==
    ASSUME TypeOK, NEW p \in Threads, pc[p] \in NodeLabels, NextNode(p), desc' = desc
    PROVE  /\ pc' \in [Threads -> Labels]
           /\ job' \in [Threads -> Job]
           /\ IndexOK(p)'
           /\ \A q \in Threads \ {p} : pc'[q] = pc[q] /\ job'[q] = job[q]
<1>1. job[p] \in Job /\ job[p].deps \in Seq(Frozen)
      /\ job[p].i \in Nat /\ job[p].i \in 1..Len(job[p].deps)
    BY CurrentType, JobType DEF TypeOK
<1>2. job' = [job EXCEPT ![p] = [@ EXCEPT !.i = job[p].i + 1]]
    BY DEF NextNode
<1>3. job' \in [Threads -> Job] /\ job'[p].deps = job[p].deps
      /\ job'[p].i = job[p].i + 1
  <2>1. job[p].i + 1 \in Nat
    BY <1>1
  <2> QED BY <1>1, <1>2, <2>1, JobIndex DEF TypeOK
<1>4. IndexOK(p)'
    BY <1>1, <1>3 DEF TypeOK, IndexOK, NextNode, HelpFrom
<1> QED BY <1>3, <1>4 DEF TypeOK, NextNode, HelpFrom

LEMMA FreezeType ==
    ASSUME TypeOK, NEW p \in Threads, Freeze(p) \/ FreezeReread(p) PROVE TypeOK'
<1>1. pc[p] \in NodeLabels /\ desc' = desc /\ plan' = plan
    BY DEF Freeze, FreezeReread
<1>2. CASE NextNode(p)
  <2>1. scxPtr' \in [Nodes -> Handle] /\ past' \in [Nodes -> SUBSET Handle]
    <3>1. job[p].tag \in Handle
      BY JobType DEF TypeOK
    <3>2. CASE FreezeReread(p)
      BY <3>2 DEF TypeOK, FreezeReread
    <3>3. CASE Freeze(p)
      <4>1. /\ scxPtr' = scxPtr \/ \E n : scxPtr' = [scxPtr EXCEPT ![n] = job[p].tag]
            /\ past' = past \/ \E n : past' = [past EXCEPT ![n] = @ \cup {job[p].tag}]
        BY <3>3 DEF Freeze
      <4>2. past' \in [Nodes -> SUBSET Handle]
        <5>1. ASSUME NEW n, past' = [past EXCEPT ![n] = @ \cup {job[p].tag}]
              PROVE  past' \in [Nodes -> SUBSET Handle]
          BY <3>1, <5>1 DEF TypeOK
        <5> QED BY <4>1, <5>1 DEF TypeOK
      <4> QED BY <3>1, <4>1, <4>2 DEF TypeOK
    <3> QED BY <3>2, <3>3
  <2> QED BY <1>1, <1>2, <2>1, NextNodeType, OthersIndex DEF TypeOK, Freeze, FreezeReread
<1>3. CASE UNCHANGED <<scxPtr, past, job>> /\ (Goto(p, "reread") \/ Goto(p, "readFrozen"))
  <2>1. IndexOK(p)'
    BY <1>1, <1>3 DEF TypeOK, IndexOK
  <2> QED BY <1>1, <1>3, <2>1, OthersIndex DEF TypeOK, Freeze, FreezeReread
<1> QED BY <1>2, <1>3 DEF Freeze, FreezeReread

LEMMA HelpReturnsType ==
    ASSUME TypeOK, NEW p \in Threads, NEW st \in {Committed, Aborted},
           HelpReturns(p, st), plan' = plan, UNCHANGED <<nodeVars, ghostVars>>,
           desc' \in [Tids -> Descriptor],
           \A t \in Tids : desc'[t].deps = desc[t].deps
    PROVE  TypeOK'
<1>1. CASE job[p].other
  <2> DEFINE r == IF llx[p].marked THEN "finalized" ELSE "failed"
  <2>1. r \in {"none", "failed", "finalized", Committed, Aborted} /\ Return(p, r)
    BY <1>1 DEF HelpReturns, FailedLlx
  <2> HIDE DEF r
  <2>2. IndexOK(p)'
    BY <2>1, ReturnType DEF IndexOK
  <2> QED BY <2>1, <2>2, ReturnType, OthersIndex DEF TypeOK, Tids
<1>2. CASE ~job[p].other
  <2>1. IndexOK(p)'
    BY <1>2 DEF TypeOK, IndexOK, HelpReturns
  <2> QED BY <1>2, <2>1, OthersIndex DEF TypeOK, Tids, HelpReturns
<1> QED BY <1>1, <1>2

LEMMA WriteType ==
    ASSUME TypeOK, NEW p \in Threads, NEW st \in {Committed, Aborted},
           WriteState(p, st) \/ WriteAllFrozen(p)
    PROVE  /\ desc' \in [Tids -> Descriptor]
           /\ \A t \in Tids : /\ desc'[t].deps = desc[t].deps
                              /\ desc'[t].seq  = desc[t].seq
<1>1. job[p].tag.tid \in Tids /\ desc[job[p].tag.tid] \in Descriptor
    BY JobType DEF TypeOK, Handle
<1> QED
  <2> DEFINE t == job[p].tag.tid
  <2>1. desc' = desc \/ \E e \in Descriptor : /\ desc' = [desc EXCEPT ![t] = e]
                                              /\ e.deps = desc[t].deps
                                              /\ e.seq = desc[t].seq
    <3>1. CASE WriteState(p, st)
      BY <1>1, <3>1, DescriptorState DEF WriteState
    <3>2. CASE WriteAllFrozen(p)
      BY <1>1, <3>2, DescriptorFrozen DEF WriteAllFrozen
    <3> QED BY <3>1, <3>2
  <2> QED BY <1>1, <2>1 DEF TypeOK

LEMMA DecideType ==
    ASSUME TypeOK, NEW p \in Threads, ReadFrozen(p) \/ Abort(p) \/ Commit(p)
    PROVE  TypeOK'
<1>1. CASE ReadFrozen(p)
  <2>1. CASE Goto(p, "abort") /\ UNCHANGED <<child, llx, job, ret>>
    <3>1. IndexOK(p)'
      BY <1>1, <2>1 DEF ReadFrozen, TypeOK, IndexOK
    <3> QED BY <1>1, <2>1, <3>1, OthersIndex DEF ReadFrozen, TypeOK
  <2>2. CASE HelpReturns(p, Aborted) \/ HelpReturns(p, Committed)
    <3>1. desc' = desc /\ desc' \in [Tids -> Descriptor]
      BY <1>1 DEF ReadFrozen, TypeOK
    <3> QED BY <1>1, <2>2, <3>1, HelpReturnsType DEF ReadFrozen
  <2> QED BY <1>1, <2>1, <2>2 DEF ReadFrozen
<1>2. CASE Abort(p)
    BY <1>2, WriteType, HelpReturnsType DEF Abort
<1>3. CASE Commit(p)
    BY <1>3, WriteType, HelpReturnsType DEF Commit
<1> QED BY <1>1, <1>2, <1>3

LEMMA MarkType ==
    ASSUME TypeOK, NEW p \in Threads, SetFrozen(p) \/ Mark(p) PROVE TypeOK'
<1>1. CASE SetFrozen(p)
  <2> USE <1>1 DEF SetFrozen, MarkFrom
  <2>1. job' \in [Threads -> Job]
    BY JobIndex DEF TypeOK
  <2>2. IndexOK(p)'
    BY DEF TypeOK, IndexOK
  <2> QED BY <2>1, <2>2, WriteType, OthersIndex DEF TypeOK, Tids
<1>2. CASE Mark(p)
  <2>1. PICK j \in ToMark(job[p].i, job[p].deps) :
           /\ marked' = [marked EXCEPT ![job[p].deps[j].node] = TRUE]
           /\ job' = [job EXCEPT ![p].i = j + 1]
           /\ Goto(p, MarkFrom(j + 1, job[p].deps))
    BY <1>2 DEF Mark
  <2>2. j + 1 \in Nat
    BY JobType DEF ToMark, TypeOK
  <2>3. job' \in [Threads -> Job]
    BY <2>1, <2>2, JobIndex DEF TypeOK
  <2>4. IndexOK(p)'
    BY <2>1 DEF TypeOK, IndexOK, MarkFrom
  <2>5. marked' \in [Nodes -> BOOLEAN]
    BY <2>1 DEF TypeOK
  <2> QED BY <1>2, <2>1, <2>3, <2>4, <2>5, OthersIndex DEF TypeOK, Mark, MarkFrom
<1> QED BY <1>1, <1>2

LEMMA UpdateType ==
    ASSUME TypeOK, NEW p \in Threads, Update(p) PROVE TypeOK'
<1> USE DEF Update
<1>1. job[p].tag \in Handle
    BY DEF TypeOK, Job
<1>2. /\ val' \in [Nodes -> Handle]
      /\ ver' \in [Nodes -> Handle]
      /\ done' \in SUBSET Handle
    BY <1>1 DEF TypeOK
<1>3. IndexOK(p)'
    BY DEF TypeOK, IndexOK
<1> QED BY <1>2, <1>3, OthersIndex DEF TypeOK

LEMMA RetireType ==
    ASSUME TypeOK, NEW p \in Threads, Retire(p) PROVE TypeOK'
<1> DEFINE e == [desc[p] EXCEPT !.seq = desc[p].seq + 1, !.state = InProgress,
                                   !.allFrozen = FALSE]
<1>1. desc[p] \in Descriptor /\ p \in Tids /\ desc \in [Tids -> Descriptor]
    BY DEF TypeOK, Tids
<1>2. desc[p].seq + 1 \in Nat
    BY <1>1, DescriptorType
<1>3. desc' = [desc EXCEPT ![p] = e]
    BY DEF Retire
<1>4. e \in Descriptor /\ e.deps = desc[p].deps
    BY <1>1, <1>2, DescriptorRetire
<1> HIDE DEF e
<1>5. desc' \in [Tids -> Descriptor] /\ \A t \in Tids : desc'[t].deps = desc[t].deps
    BY <1>1, <1>3, <1>4, UpdateFunction
<1>6. /\ ret[p] \in {"none", "failed", "finalized", Committed, Aborted}
      /\ Return(p, ret[p])
    BY DEF TypeOK, Retire
<1>7. IndexOK(p)'
    BY <1>6, ReturnType DEF IndexOK
<1> QED BY <1>5, <1>6, <1>7, ReturnType, OthersIndex DEF Retire, TypeOK, Tids

LEMMA StepType == TypeOK /\ [Next]_vars => TypeOK'
<1> SUFFICES ASSUME TypeOK, [Next]_vars PROVE TypeOK'
    OBVIOUS
<1>1. CASE UNCHANGED vars
    BY <1>1 DEF vars, TypeOK, IndexOK, LinkIndex
<1>2. ASSUME NEW p \in Threads, Begin(p) \/ Step(p) PROVE TypeOK'
    BY <1>2, StartType, ReadFieldType, LlxReadType, LlxReadUnmarkedType,
       LlxValidateType, SnapCopyType, SnapCheckType, ExecuteType, FreezeType,
       DecideType, MarkType, UpdateType, RetireType
    DEF Step, Llx, Help
<1> QED BY <1>1, <1>2 DEF Next

\* In every execution every variable keeps its type, and no index leaves the
\* arrays of a descriptor or of an attempt.
THEOREM TypeCorrect == Spec => []TypeOK
<1> QED BY InitType, StepType, PTL DEF Spec

-----------------------------------------------------------------------------
(***************************************************************************)
(* Sequence numbers and handles                                            *)
(***************************************************************************)

\* Why a snapshot that passes its check is one of the operation the handle
\* names: the number copied is at least the one of the handle, which was
\* published, and at most the current one; the check makes all three equal.
HelperOK(p) ==
    /\ pc[p] = "snapCopy" => llx[p].tag # InitHandle
    /\ pc[p] = "snapCheck" =>
          /\ job[p].tag # InitHandle
          /\ job[p].other
          /\ job[p].tag.seq <= job[p].seq
          /\ job[p].seq <= desc[job[p].tag.tid].seq

ParityOK(p) ==
    /\ Odd(desc[p].seq) <=> (pc[p] = "retire" \/ (Helping(p) /\ ~job[p].other))
    /\ Helping(p) => Odd(job[p].tag.seq) /\ job[p].seq = job[p].tag.seq
    /\ HelperOK(p)

\* The static descriptor never changes.
DummyOK == desc[DummyTid].seq = 0 /\ desc[DummyTid].state = Committed

SeqInv == /\ TypeOK
          /\ HandlesPublished
          /\ DummyOK
          /\ \A p \in Threads : ParityOK(p)

LEMMA OddNext == ASSUME NEW n \in Nat PROVE Odd(n + 1) <=> ~Odd(n)
BY DEF Odd

LEMMA InitSeq == Init => SeqInv
<1> SUFFICES ASSUME Init PROVE SeqInv
    OBVIOUS
<1>1. TypeOK
    BY InitType
<1>2. HandlesPublished /\ DummyOK
    BY DEF Init, HandlesPublished, DummyOK, Published, NoLlx, NoJob, Tids
<1>3. ~Odd(2)
    BY DEF Odd
<1>4. \A p \in Threads : ParityOK(p)
    BY <1>3, ThreadsAssumption DEF Init, ParityOK, HelperOK, Helping, Tids
<1> QED BY <1>1, <1>2, <1>4 DEF SeqInv

\* Published handles stay published, for sequence numbers only grow.
Grow == \A t \in Tids : desc'[t].seq \in Nat /\ desc[t].seq <= desc'[t].seq

LEMMA PublishedStays ==
    ASSUME TypeOK, Grow, NEW h \in Handle, Published(h)
    PROVE  Published(h)'
BY DescriptorType DEF TypeOK, Grow, Published, Handle, Tids

LEMMA OthersParity ==
    ASSUME SeqInv, NEW p \in Threads, Grow,
           \A q \in Threads \ {p} : /\ pc'[q] = pc[q]
                                    /\ job'[q] = job[q]
                                    /\ llx'[q] = llx[q]
                                    /\ desc'[q].seq = desc[q].seq,
           ParityOK(p)'
    PROVE  \A q \in Threads : ParityOK(q)'
<1> SUFFICES ASSUME NEW q \in Threads \ {p} PROVE ParityOK(q)'
    OBVIOUS
<1>1. ParityOK(q) /\ job[q] \in Job
    BY DEF SeqInv, TypeOK
<1>2. /\ job[q].tag.tid \in Tids /\ job[q].seq \in Nat
    BY <1>1, JobType DEF Handle
<1>3. desc[job[q].tag.tid].seq \in Nat
    BY <1>2, DescriptorType DEF SeqInv, TypeOK
<1> QED BY <1>1, <1>2, <1>3 DEF ParityOK, HelperOK, Helping, Grow

\* The handles a step holds afterwards are handles that were held before it.
HandlesFrom ==
    /\ \A n \in Nodes : /\ Published(scxPtr'[n])
                        /\ Published(val'[n])
                        /\ Published(ver'[n])
    /\ \A q \in Threads : Published(llx'[q].tag) /\ Published(job'[q].tag)
    /\ \A t \in Tids : \A i \in DOMAIN desc'[t].deps :
                           Published(desc'[t].deps[i].seen)

LEMMA HandlesStay ==
    ASSUME TypeOK, TypeOK', Grow, HandlesFrom
    PROVE  HandlesPublished'
<1>1. \A n \in Nodes : scxPtr'[n] \in Handle /\ val'[n] \in Handle /\ ver'[n] \in Handle
    BY DEF TypeOK
<1>2. \A q \in Threads : llx'[q].tag \in Handle /\ job'[q].tag \in Handle
    BY DEF TypeOK, Locals, Job
<1>3. \A t \in Tids : \A i \in DOMAIN desc'[t].deps : desc'[t].deps[i].seen \in Handle
  <2> SUFFICES ASSUME NEW t \in Tids, NEW i \in DOMAIN desc'[t].deps
               PROVE  desc'[t].deps[i].seen \in Handle
      OBVIOUS
  <2>1. desc'[t].deps \in Seq(Frozen)
      BY DescriptorType DEF TypeOK
  <2>2. desc'[t].deps[i] \in Frozen
      BY <2>1
  <2> QED BY <2>2 DEF Frozen
<1> QED BY <1>1, <1>2, <1>3, PublishedStays DEF HandlesFrom, HandlesPublished

\* Steps that write no sequence number and take handles from where they are.
LEMMA QuietStep ==
    ASSUME SeqInv, TypeOK', NEW p \in Threads,
           \A t \in Tids : desc'[t].seq = desc[t].seq,
           desc'[DummyTid].state = Committed,
           HandlesFrom, ParityOK(p)',
           \A q \in Threads \ {p} : pc'[q] = pc[q] /\ job'[q] = job[q] /\ llx'[q] = llx[q]
    PROVE  SeqInv'
<1>1. Grow
    BY DescriptorType DEF SeqInv, TypeOK, Grow
<1>2. \A q \in Threads : ParityOK(q)'
    BY <1>1, OthersParity DEF Tids
<1> QED BY <1>1, <1>2, HandlesStay DEF SeqInv, DummyOK, Tids

\* The steps between two writes to descriptors: the conjuncts they disturb are
\* the handle in llx[p] and the control point.
LEMMA LlxSeq ==
    ASSUME SeqInv, NEW p \in Threads, TypeOK',
           Begin(p) \/ ReadField(p) \/ LlxReadMarked(p) \/ LlxReadPtr(p)
    PROVE  SeqInv'
<1>1. \A t \in Tids : /\ desc'[t].seq = desc[t].seq
                      /\ desc'[t].state = desc[t].state
                      /\ \A i \in DOMAIN desc'[t].deps :
                            Published(desc'[t].deps[i].seen)
  <2>1. CASE Begin(p)
    <3>1. desc' = [desc EXCEPT ![p] = [desc[p] EXCEPT !.deps = <<>>]]
      BY <2>1 DEF Begin, Start
    <3>2. desc[p] \in Descriptor /\ p \in Tids /\ <<>> \in Seq(Frozen)
      BY DEF SeqInv, TypeOK, Tids
    <3>3. /\ desc'[p].seq = desc[p].seq /\ desc'[p].state = desc[p].state
          /\ desc'[p].deps = <<>>
      BY <3>1, <3>2 DEF SeqInv, TypeOK, Descriptor
    <3>4. \A t \in Tids \ {p} : desc'[t] = desc[t]
      BY <3>1, <3>2 DEF SeqInv, TypeOK
    <3> QED BY <3>3, <3>4 DEF SeqInv, HandlesPublished
  <2>2. CASE desc' = desc
    BY <2>2 DEF SeqInv, HandlesPublished
  <2> QED BY <2>1, <2>2 DEF ReadField, LlxReadMarked, LlxReadPtr
<1>2. Published(llx'[p].tag)
  <2>1. llx[p] \in Locals /\ llx \in [Threads -> Locals] /\ Published(llx[p].tag)
    BY DEF SeqInv, TypeOK, HandlesPublished
  <2>2. CASE LlxReadPtr(p)
    <3>1. LinkNode(p) \in Nodes
      BY <2>2, LinkType DEF LlxReadPtr, SeqInv
    <3>2. llx'[p].tag = scxPtr[LinkNode(p)]
      BY <2>1, <2>2 DEF LlxReadPtr, Locals
    <3> QED BY <3>1, <3>2 DEF SeqInv, HandlesPublished
  <2>3. CASE LlxReadMarked(p)
    BY <2>1, <2>3 DEF LlxReadMarked, Locals
  <2> QED BY <2>1, <2>2, <2>3 DEF Begin, Start, ReadField
<1>3. HandlesFrom
    BY <1>1, <1>2 DEF HandlesFrom, Begin, Start, ReadField, LlxReadMarked, LlxReadPtr,
           SeqInv, TypeOK, HandlesPublished
<1>4. ParityOK(p)'
    BY <1>1 DEF Begin, Start, ReadField, LlxReadMarked, LlxReadPtr, AfterLink,
           SeqInv, TypeOK, ParityOK, HelperOK, Helping, Tids
<1> QED BY <1>1, <1>3, <1>4, QuietStep
    DEF Begin, Start, ReadField, LlxReadMarked, LlxReadPtr, SeqInv, TypeOK, DummyOK, Tids

\* The in-progress state that makes a thread help is never the static one's.
LEMMA LlxReadStateSeq ==
    ASSUME SeqInv, NEW p \in Threads, TypeOK', LlxReadState(p) PROVE SeqInv'
<1> USE DEF LlxReadState
<1>1. pc'[p] = "snapCopy" => llx[p].tag # InitHandle
    BY DEF SeqInv, TypeOK, DummyOK, Live, InitHandle
<1>2. ParityOK(p)'
    BY <1>1 DEF SeqInv, TypeOK, ParityOK, HelperOK, Helping
<1> QED BY <1>2, QuietStep DEF SeqInv, TypeOK, DummyOK, HandlesFrom, HandlesPublished

\* An attempt that ends leaves an idle thread with an even number.
LEMMA ReturnSeq ==
    ASSUME SeqInv, NEW p \in Threads, NEW r, Return(p, r), ~Odd(desc'[p].seq)
    PROVE  /\ ParityOK(p)'
           /\ Published(llx'[p].tag) /\ Published(job'[p].tag)
           /\ \A q \in Threads \ {p} :
                 pc'[q] = pc[q] /\ job'[q] = job[q] /\ llx'[q] = llx[q]
BY DEF SeqInv, TypeOK, Return, NoLlx, NoJob, Published, ParityOK, HelperOK, Helping

LEMMA FailedLlxSeq ==
    ASSUME SeqInv, NEW p \in Threads, TypeOK', FailedLlx(p), ~Odd(desc[p].seq),
           \A t \in Tids : /\ desc'[t].seq = desc[t].seq
                           /\ desc'[t].deps = desc[t].deps,
           desc'[DummyTid].state = Committed, UNCHANGED <<nodeVars, ver>>
    PROVE  SeqInv'
<1>1. PICK r : Return(p, r)
    BY DEF FailedLlx
<1>2. ~Odd(desc'[p].seq)
    BY DEF Tids
<1>3. HandlesFrom
    BY <1>1, <1>2, ReturnSeq DEF HandlesFrom, SeqInv, HandlesPublished
<1> QED BY <1>1, <1>2, <1>3, ReturnSeq, QuietStep

LEMMA LlxReadUnmarkedSeq ==
    ASSUME SeqInv, NEW p \in Threads, TypeOK', LlxReadUnmarked(p) PROVE SeqInv'
<1> USE DEF LlxReadUnmarked
<1>1. ~Odd(desc[p].seq) /\ desc[DummyTid].state = Committed
    BY DEF SeqInv, ParityOK, Helping, DummyOK
<1>2. CASE marked[LinkNode(p)]
    BY <1>1, <1>2, FailedLlxSeq
<1>3. CASE ~marked[LinkNode(p)]
  <2>1. ParityOK(p)'
    BY <1>3 DEF SeqInv, TypeOK, ParityOK, HelperOK, Helping
  <2> QED BY <1>1, <1>3, <2>1, QuietStep DEF SeqInv, TypeOK, HandlesFrom, HandlesPublished
<1> QED BY <1>2, <1>3

LEMMA LlxValidateSeq ==
    ASSUME SeqInv, NEW p \in Threads, TypeOK', LlxValidate(p) PROVE SeqInv'
<1> USE DEF LlxValidate
<1>1. ~Odd(desc[p].seq) /\ desc[DummyTid].state = Committed
    BY DEF SeqInv, ParityOK, Helping, DummyOK
<1>2. CASE scxPtr[LinkNode(p)] # llx[p].tag
    BY <1>1, <1>2, FailedLlxSeq
<1>3. CASE scxPtr[LinkNode(p)] = llx[p].tag
  <2> DEFINE dep == [node |-> LinkNode(p), finalize |-> plan[p][LinkIndex(p)].finalize,
                     seen |-> llx[p].tag]
  <2>1. /\ desc[p] \in Descriptor /\ desc[p].deps \in Seq(Frozen) /\ p \in Tids
        /\ LinkNode(p) \in Nodes /\ plan[p][LinkIndex(p)] \in Dep /\ llx[p] \in Locals
    BY LinkType, DescriptorType DEF SeqInv, TypeOK, Tids
  <2>2. dep \in Frozen /\ dep.seen = llx[p].tag
    BY <2>1, LocalsType DEF Dep, Frozen
  <2>3. desc' = [desc EXCEPT ![p] = [desc[p] EXCEPT !.deps = Append(desc[p].deps, dep)]]
    BY <1>3
  <2> HIDE DEF dep
  <2>4. Append(desc[p].deps, dep) \in Seq(Frozen)
    BY <2>1, <2>2
  <2>5. \A t \in Tids : desc'[t].seq = desc[t].seq /\ desc'[t].state = desc[t].state
    BY <2>1, <2>3, <2>4 DEF SeqInv, TypeOK, Descriptor
  <2>6. desc'[p].deps = Append(desc[p].deps, dep)
        /\ \A t \in Tids \ {p} : desc'[t] = desc[t]
    BY <2>1, <2>3, <2>4, DescriptorDeps DEF SeqInv, TypeOK
  <2>7. \A i \in DOMAIN Append(desc[p].deps, dep) :
           Published(Append(desc[p].deps, dep)[i].seen)
    BY <2>1, <2>2 DEF SeqInv, HandlesPublished
  <2>8. Published(llx'[p].tag) /\ \A q \in Threads \ {p} : llx'[q] = llx[q]
    BY <1>3 DEF SeqInv, TypeOK, NoLlx, Published
  <2>9. HandlesFrom
    BY <1>3, <2>6, <2>7, <2>8 DEF HandlesFrom, SeqInv, HandlesPublished
  <2>10. ParityOK(p)'
    BY <1>1, <1>3, <2>1, <2>5 DEF SeqInv, TypeOK, ParityOK, HelperOK, Helping, AfterLink
  <2> QED BY <1>1, <1>3, <2>5, <2>8, <2>9, <2>10, QuietStep DEF SeqInv, TypeOK, Tids
<1> QED BY <1>2, <1>3

LEMMA SnapCopySeq ==
    ASSUME SeqInv, NEW p \in Threads, TypeOK', SnapCopy(p) PROVE SeqInv'
<1> USE DEF SnapCopy
<1>1. /\ llx[p].tag # InitHandle /\ Published(llx[p].tag)
      /\ llx[p].tag.tid \in Threads /\ llx[p].tag.seq <= desc[llx[p].tag.tid].seq
    BY DEF SeqInv, ParityOK, HelperOK, HandlesPublished, Published
<1>2. desc[llx[p].tag.tid].seq \in Nat
    BY <1>1, DescriptorType DEF SeqInv, TypeOK, Tids
<1>3. /\ job'[p].tag = llx[p].tag /\ job'[p].seq = desc[llx[p].tag.tid].seq
      /\ job'[p].other
    BY DEF SeqInv, TypeOK
<1>4. ParityOK(p)'
  <2>1. pc'[p] = "snapCheck" /\ desc' = desc /\ ~Odd(desc[p].seq)
    BY DEF SeqInv, TypeOK, ParityOK, Helping
  <2> QED BY <1>1, <1>2, <1>3, <2>1 DEF ParityOK, HelperOK, Helping
<1>5. HandlesFrom
    BY <1>1, <1>3 DEF SeqInv, TypeOK, HandlesFrom, HandlesPublished
<1> QED BY <1>4, <1>5, QuietStep DEF SeqInv, TypeOK, DummyOK

LEMMA SnapCheckSeq ==
    ASSUME SeqInv, NEW p \in Threads, TypeOK', SnapCheck(p) PROVE SeqInv'
<1> USE DEF SnapCheck
<1>1. ~Odd(desc[p].seq) /\ desc[DummyTid].state = Committed
    BY DEF SeqInv, ParityOK, Helping, DummyOK
<1>2. CASE ~Live(job[p].tag)
    BY <1>1, <1>2, FailedLlxSeq
<1>3. CASE Live(job[p].tag)
  <2>1. /\ job[p].other /\ job[p].tag # InitHandle /\ Published(job[p].tag)
        /\ job[p].tag.seq <= job[p].seq
        /\ job[p].seq <= desc[job[p].tag.tid].seq
    BY DEF SeqInv, ParityOK, HelperOK, HandlesPublished
  <2>2. job[p].tag.seq \in Nat /\ job[p].seq \in Nat
    BY JobType DEF SeqInv, TypeOK, Handle
  <2>3. Odd(job[p].tag.seq) /\ job[p].seq = job[p].tag.seq
    BY <1>3, <2>1, <2>2 DEF Published, Live
  <2>4. ParityOK(p)'
    BY <1>1, <1>3, <2>1, <2>3 DEF SeqInv, TypeOK, ParityOK, HelperOK, Helping, HelpFrom
  <2> QED BY <1>1, <1>3, <2>4, QuietStep DEF SeqInv, TypeOK, HandlesFrom, HandlesPublished
<1> QED BY <1>2, <1>3

\* Publishing an operation: only the owner's number moves, from even to odd.
LEMMA ExecuteSeq ==
    ASSUME SeqInv, NEW p \in Threads, TypeOK', Execute(p) PROVE SeqInv'
<1>1. /\ desc[p] \in Descriptor /\ p \in Tids /\ p # DummyTid
      /\ desc[p].seq \in Nat /\ ~Odd(desc[p].seq)
    BY DescriptorType, ThreadsAssumption DEF SeqInv, TypeOK, Tids, ParityOK, Helping, Execute
<1>2. /\ desc'[p].seq = desc[p].seq + 1
      /\ desc'[p].deps = desc[p].deps
      /\ \A t \in Tids \ {p} : desc'[t] = desc[t]
    BY <1>1 DEF Execute, SeqInv, TypeOK, Descriptor
<1>3. Odd(desc'[p].seq)
    BY <1>1, <1>2, OddNext
<1>4. Grow
  <2>1. \A t \in Tids : desc[t].seq \in Nat /\ desc'[t].seq \in Nat
    BY DescriptorType DEF SeqInv, TypeOK
  <2>2. desc[p].seq <= desc'[p].seq
    BY <1>1, <1>2
  <2>3. \A t \in Tids \ {p} : desc[t].seq <= desc'[t].seq
    BY <1>2, <2>1
  <2> QED BY <2>1, <2>2, <2>3 DEF Grow
<1>5. /\ job'[p].tag = [tid |-> p, seq |-> desc'[p].seq]
      /\ job'[p].seq = desc'[p].seq /\ ~job'[p].other
      /\ \A q \in Threads \ {p} : job'[q] = job[q] /\ pc'[q] = pc[q]
      /\ pc'[p] = "freeze"
    BY <1>1, <1>2 DEF Execute, SeqInv, TypeOK
<1>6. ParityOK(p)'
    BY <1>3, <1>5 DEF ParityOK, HelperOK, Helping
<1>7. \A q \in Threads : ParityOK(q)'
    BY <1>2, <1>4, <1>5, <1>6, OthersParity DEF Execute, Tids
<1>8. HandlesPublished'
  <2>1. Published(job[p].tag)'
    BY <1>1, <1>2, <1>3, <1>5 DEF Published
  <2>2. \A h \in Handle : Published(h) => Published(h)'
    BY <1>4, PublishedStays DEF SeqInv
  <2>3. \A q \in Threads \ {p} : Published(job[q].tag)'
    BY <1>5, <2>2 DEF SeqInv, HandlesPublished, TypeOK, Job
  <2>4. \A q \in Threads : Published(llx[q].tag)'
    BY <2>2 DEF Execute, SeqInv, HandlesPublished, TypeOK, Locals
  <2>5. \A n \in Nodes : Published(scxPtr[n])' /\ Published(val[n])' /\ Published(ver[n])'
    BY <2>2 DEF Execute, SeqInv, HandlesPublished, TypeOK
  <2>6. \A t \in Tids : \A i \in DOMAIN desc'[t].deps : Published(desc[t].deps[i].seen)'
    <3> SUFFICES ASSUME NEW t \in Tids, NEW i \in DOMAIN desc'[t].deps
                 PROVE  Published(desc[t].deps[i].seen)'
        OBVIOUS
    <3>1. desc'[t].deps = desc[t].deps /\ desc[t].deps \in Seq(Frozen)
        BY <1>2, DescriptorType DEF SeqInv, TypeOK
    <3>2. desc[t].deps[i] \in Frozen /\ Published(desc[t].deps[i].seen)
        BY <3>1 DEF SeqInv, HandlesPublished
    <3> QED BY <2>2, <3>1, <3>2 DEF Frozen
  <2> QED BY <2>1, <2>3, <2>4, <2>5, <2>6 DEF HandlesPublished
<1>9. DummyOK'
    BY <1>1, <1>2 DEF SeqInv, DummyOK, Tids
<1> QED BY <1>7, <1>8, <1>9 DEF SeqInv

\* DESC1_NEW: from odd to even; every handle of the operation is now stale.
LEMMA RetireSeq ==
    ASSUME SeqInv, NEW p \in Threads, TypeOK', Retire(p) PROVE SeqInv'
<1>1. /\ desc[p] \in Descriptor /\ p \in Tids /\ p # DummyTid
      /\ desc[p].seq \in Nat /\ Odd(desc[p].seq)
    BY DescriptorType, ThreadsAssumption DEF SeqInv, TypeOK, Tids, ParityOK, Helping, Retire
<1>2. /\ desc'[p].seq = desc[p].seq + 1
      /\ desc'[p].deps = desc[p].deps
      /\ \A t \in Tids \ {p} : desc'[t] = desc[t]
    BY <1>1 DEF Retire, SeqInv, TypeOK, Descriptor
<1>3. ~Odd(desc'[p].seq)
    BY <1>1, <1>2, OddNext
<1>4. Grow
  <2>1. \A t \in Tids : desc[t].seq \in Nat /\ desc'[t].seq \in Nat
    BY DescriptorType DEF SeqInv, TypeOK
  <2>2. desc[p].seq <= desc'[p].seq
    BY <1>1, <1>2
  <2>3. \A t \in Tids \ {p} : desc[t].seq <= desc'[t].seq
    BY <1>2, <2>1
  <2> QED BY <2>1, <2>2, <2>3 DEF Grow
<1>5. Return(p, ret[p])
    BY DEF Retire
<1>6. HandlesFrom
    BY <1>2, <1>3, <1>5, ReturnSeq DEF Retire, SeqInv, HandlesFrom, HandlesPublished
<1>7. \A q \in Threads : ParityOK(q)'
    BY <1>2, <1>3, <1>4, <1>5, ReturnSeq, OthersParity DEF Tids
<1>8. DummyOK'
    BY <1>1, <1>2 DEF SeqInv, DummyOK, Tids
<1> QED BY <1>4, <1>6, <1>7, <1>8, HandlesStay DEF SeqInv

\* The facts the steps of help start from.
LEMMA HelpSeq ==
    ASSUME SeqInv, NEW p \in Threads, Helping(p)
    PROVE  /\ job[p] \in Job /\ job[p].other \in BOOLEAN
           /\ Published(job[p].tag) /\ job[p].tag # InitHandle
           /\ job[p].tag.tid \in Threads
           /\ Odd(desc[p].seq) <=> ~job[p].other
           /\ desc[DummyTid].state = Committed
<1>1. ~Odd(0)
    BY DEF Odd
<1> QED BY <1>1, JobType DEF SeqInv, TypeOK, ParityOK, Helping, HandlesPublished, Published,
       DummyOK, InitHandle

\* A step from one label of help to another.
LEMMA WithinHelp ==
    ASSUME SeqInv, NEW p \in Threads, TypeOK', Helping(p), Helping(p)',
           pc'[p] # "retire",
           \A q \in Threads \ {p} : pc'[q] = pc[q] /\ job'[q] = job[q],
           job'[p].tag = job[p].tag, job'[p].seq = job[p].seq,
           job'[p].other = job[p].other, llx' = llx,
           \A t \in Tids : /\ desc'[t].seq = desc[t].seq
                           /\ desc'[t].deps = desc[t].deps,
           desc'[DummyTid].state = Committed,
           \A n \in Nodes : /\ scxPtr'[n] \in {scxPtr[n], job[p].tag}
                            /\ val'[n] \in {val[n], job[p].tag}
                            /\ ver'[n] \in {ver[n], job[p].tag}
    PROVE  SeqInv'
<1>1. HandlesFrom
    BY HelpSeq DEF HandlesFrom, SeqInv, HandlesPublished
<1>2. ParityOK(p)'
    BY DEF SeqInv, ParityOK, HelperOK, Helping, Tids
<1> QED BY <1>1, <1>2, QuietStep

\* The last step of help.
LEMMA HelpReturnsSeq ==
    ASSUME SeqInv, NEW p \in Threads, TypeOK', Helping(p), NEW st, HelpReturns(p, st),
           \A t \in Tids : /\ desc'[t].seq = desc[t].seq
                           /\ desc'[t].deps = desc[t].deps,
           desc'[DummyTid].state = Committed, UNCHANGED <<nodeVars, ver>>
    PROVE  SeqInv'
<1>1. CASE job[p].other
    BY <1>1, HelpSeq, FailedLlxSeq DEF HelpReturns
<1>2. CASE ~job[p].other
  <2>1. ParityOK(p)'
    BY <1>2, HelpSeq DEF HelpReturns, SeqInv, TypeOK, ParityOK, HelperOK, Helping, Tids
  <2>2. HandlesFrom
    BY <1>2 DEF HelpReturns, HandlesFrom, SeqInv, HandlesPublished
  <2> QED BY <1>2, <2>1, <2>2, QuietStep DEF HelpReturns, SeqInv, TypeOK
<1> QED BY <1>1, <1>2

\* The conditional writes never touch the static descriptor.
LEMMA WriteSeq ==
    ASSUME SeqInv, NEW p \in Threads, Helping(p), NEW st \in {Committed, Aborted},
           WriteState(p, st) \/ WriteAllFrozen(p)
    PROVE  /\ \A t \in Tids : /\ desc'[t].seq = desc[t].seq
                              /\ desc'[t].deps = desc[t].deps
           /\ desc'[DummyTid].state = Committed
<1>1. job[p].tag.tid # DummyTid /\ desc[DummyTid].state = Committed
    BY HelpSeq, ThreadsAssumption
<1>2. desc'[DummyTid] = desc[DummyTid]
    BY <1>1 DEF SeqInv, TypeOK, Tids, WriteState, WriteAllFrozen
<1> QED BY <1>1, <1>2, WriteType DEF SeqInv

LEMMA FreezeSeq ==
    ASSUME SeqInv, NEW p \in Threads, TypeOK', Freeze(p) \/ FreezeReread(p) PROVE SeqInv'
<1>1. Helping(p) /\ desc' = desc /\ llx' = llx /\ UNCHANGED <<val, ver>>
    BY DEF Freeze, FreezeReread, Helping
<1>2. \A n \in Nodes : scxPtr'[n] \in {scxPtr[n], job[p].tag}
    BY DEF Freeze, FreezeReread, SeqInv, TypeOK
<1>3. /\ \A q \in Threads \ {p} : pc'[q] = pc[q] /\ job'[q] = job[q]
      /\ pc'[p] \in HelpLabels
    BY DEF Freeze, FreezeReread, NextNode, HelpFrom, SeqInv, TypeOK
<1>4. /\ job'[p].tag = job[p].tag /\ job'[p].seq = job[p].seq
      /\ job'[p].other = job[p].other
  <2>1. CASE NextNode(p)
    <3>1. job[p] \in Job /\ job[p].i + 1 \in Nat /\ p \in DOMAIN job
      BY JobType DEF SeqInv, TypeOK
    <3>2. job'[p] = [job[p] EXCEPT !.i = job[p].i + 1]
      BY <2>1, <3>1 DEF NextNode
    <3> QED BY <3>1, <3>2, JobIndex
  <2>2. CASE job' = job
    BY <2>2
  <2> QED BY <2>1, <2>2 DEF Freeze, FreezeReread
<1> QED BY <1>1, <1>2, <1>3, <1>4, HelpSeq, WithinHelp DEF Helping

LEMMA DecideSeq ==
    ASSUME SeqInv, NEW p \in Threads, TypeOK', ReadFrozen(p) \/ Abort(p) \/ Commit(p)
    PROVE  SeqInv'
<1>1. Helping(p) /\ UNCHANGED <<nodeVars, ver>>
    BY DEF ReadFrozen, Abort, Commit, Helping
<1>2. CASE ReadFrozen(p)
  <2>1. CASE Goto(p, "abort") /\ UNCHANGED <<child, llx, job, ret>>
    <3>1. /\ pc'[p] = "abort" /\ desc' = desc
          /\ \A q \in Threads \ {p} : pc'[q] = pc[q]
      BY <1>2, <2>1 DEF ReadFrozen, SeqInv, TypeOK
    <3> QED BY <1>1, <2>1, <3>1, HelpSeq, WithinHelp DEF Helping
  <2>2. CASE HelpReturns(p, Aborted) \/ HelpReturns(p, Committed)
    BY <1>1, <1>2, <2>2, HelpSeq, HelpReturnsSeq DEF ReadFrozen
  <2> QED BY <1>2, <2>1, <2>2 DEF ReadFrozen
<1>3. CASE Abort(p)
    BY <1>1, <1>3, WriteSeq, HelpReturnsSeq DEF Abort
<1>4. CASE Commit(p)
    BY <1>1, <1>4, WriteSeq, HelpReturnsSeq DEF Commit
<1> QED BY <1>2, <1>3, <1>4

LEMMA MarkSeq ==
    ASSUME SeqInv, NEW p \in Threads, TypeOK', SetFrozen(p) \/ Mark(p) \/ Update(p)
    PROVE  SeqInv'
<1>1. Helping(p) /\ llx' = llx /\ scxPtr' = scxPtr
    BY DEF SetFrozen, Mark, Update, Helping
<1>2. /\ \A q \in Threads \ {p} : pc'[q] = pc[q] /\ job'[q] = job[q]
      /\ pc'[p] \in HelpLabels
    BY DEF SetFrozen, Mark, Update, MarkFrom, SeqInv, TypeOK
<1>3. /\ job'[p].tag = job[p].tag /\ job'[p].seq = job[p].seq
      /\ job'[p].other = job[p].other
  <2>1. job[p] \in Job /\ p \in DOMAIN job
    BY DEF SeqInv, TypeOK
  <2>2. CASE SetFrozen(p) \/ Mark(p)
    <3>1. \E k \in Nat : job'[p] = [job[p] EXCEPT !.i = k]
      <4>1. CASE SetFrozen(p)
        BY <2>1, <4>1 DEF SetFrozen
      <4>2. CASE Mark(p)
        <5>1. PICK j \in ToMark(job[p].i, job[p].deps) : job' = [job EXCEPT ![p].i = j + 1]
          BY <4>2 DEF Mark
        <5>2. j + 1 \in Nat
          BY <2>1, JobType DEF ToMark
        <5> QED BY <2>1, <5>1, <5>2
      <4> QED BY <2>2, <4>1, <4>2
    <3> QED BY <2>1, <3>1, JobIndex
  <2>3. CASE Update(p)
    BY <2>3 DEF Update
  <2> QED BY <2>2, <2>3
<1>4. \A n \in Nodes : val'[n] \in {val[n], job[p].tag} /\ ver'[n] \in {ver[n], job[p].tag}
    BY DEF SetFrozen, Mark, Update, SeqInv, TypeOK
<1>5. /\ \A t \in Tids : desc'[t].seq = desc[t].seq /\ desc'[t].deps = desc[t].deps
      /\ desc'[DummyTid].state = Committed
    BY <1>1, HelpSeq, WriteSeq DEF SetFrozen, Mark, Update
<1> QED BY <1>1, <1>2, <1>3, <1>4, <1>5, WithinHelp DEF Helping

LEMMA StepSeq == SeqInv /\ [Next]_vars => SeqInv'
<1> SUFFICES ASSUME SeqInv, [Next]_vars PROVE SeqInv'
    OBVIOUS
<1>1. TypeOK'
    BY StepType DEF SeqInv
<1>2. CASE UNCHANGED vars
    BY <1>1, <1>2 DEF vars, SeqInv, ParityOK, HelperOK, Helping, HandlesPublished,
       Published, DummyOK
<1>3. ASSUME NEW p \in Threads, Begin(p) \/ Step(p) PROVE SeqInv'
    BY <1>1, <1>3, LlxSeq, LlxReadStateSeq, LlxReadUnmarkedSeq, LlxValidateSeq,
       SnapCopySeq, SnapCheckSeq, ExecuteSeq, RetireSeq, FreezeSeq, DecideSeq, MarkSeq
    DEF Step, Llx, Help
<1> QED BY <1>2, <1>3 DEF Next

LEMMA SeqInvariant == Spec => []SeqInv
<1> QED BY InitSeq, StepSeq, PTL DEF Spec

\* The assertions of scx_provider.h hold: an owner's sequence number is even
\* while it builds an operation and odd while it executes it, and whoever helps
\* an operation does so with one odd number and with the descriptor of the
\* operation the handle names.
THEOREM ParityCorrect == Spec => []SequenceParity
<1>1. SeqInv => SequenceParity
    BY DEF SeqInv, ParityOK, SequenceParity
<1> QED BY <1>1, SeqInvariant, PTL

\* No handle anywhere is ahead of its descriptor: a descriptor can be reused
\* for any number of operations and a handle never names a later one than the
\* operation it was made for.
THEOREM HandlesCorrect == Spec => []HandlesPublished
<1>1. SeqInv => HandlesPublished
    BY DEF SeqInv
<1> QED BY <1>1, SeqInvariant, PTL

-----------------------------------------------------------------------------
(***************************************************************************)
(* What the helpers of an operation know about it: the invariant behind    *)
(* the properties of SCX that relate the outcome of an operation, its      *)
(* records and what its caller is told.                                    *)
(***************************************************************************)
\* The outcome of an operation is written in its descriptor, or the descriptor
\* was reused since.
Decided(h) == Live(h) => desc[h.tid].state # InProgress

\* The operation of thread t is published and nobody wrote its outcome.
Pending(t) == Odd(desc[t].seq) /\ desc[t].state = InProgress

\* Some helper froze every record of operation h for it.
AllPast(h, deps) == \A i \in DOMAIN deps : h \in past[deps[i].node]

\* Operation h lost a record it had not frozen, having frozen those before it.
Doomed(h, deps) ==
    \E k \in DOMAIN deps :
       /\ h \notin past[deps[k].node]
       /\ scxPtr[deps[k].node] # deps[k].seen
       /\ \A j \in DOMAIN deps : j < k => h \in past[deps[j].node]

Shape(deps) ==
    /\ Len(deps) > 0
    /\ ~deps[1].finalize
    /\ \A i, j \in DOMAIN deps : deps[i].node = deps[j].node => i = j

\* A record was linked after the operation that owned it was decided, and is
\* not finalized while it holds the handle that was seen.
LinkOK(n, x) ==
    /\ x \in past[n]
    /\ Decided(x)
    /\ scxPtr[n] = x /\ x \in done => ~marked[n]

LinksOK(deps) == \A i \in DOMAIN deps : LinkOK(deps[i].node, deps[i].seen)

\* What holds of an operation, seen through the descriptor or a helper's copy
\* of it, also long after the descriptor was reused.
Op(h, deps, old) ==
    /\ Shape(deps)
    /\ LinksOK(deps)
    /\ old \in done \cup {InitHandle}
    /\ \A i \in DOMAIN deps :
          h \in past[deps[i].node] => scxPtr[deps[i].node] # deps[i].seen
    /\ Decided(h) => h \in done \/ Doomed(h, deps)
    /\ h \in done => /\ AllPast(h, deps)
                     /\ \A i \in DOMAIN deps : deps[i].finalize => marked[deps[i].node]
                     /\ val[deps[1].node] # old

NodeOK(n) ==
    /\ scxPtr[n] \in past[n]
    /\ \A h \in past[n] : Published(h)
    /\ val[n] \in done \cup {InitHandle}
    /\ ver[n] \in done \cup {InitHandle}
    /\ marked[n] => \/ scxPtr[n] \in done
                    \/ \E t \in Threads :
                          /\ Pending(t) /\ scxPtr[n] = Tag(t)
                          /\ AllPast(Tag(t), desc[t].deps)
                          /\ \E i \in DOMAIN desc[t].deps :
                                desc[t].deps[i].node = n /\ desc[t].deps[i].finalize

DoneOK == \A h \in done : Published(h) /\ h # InitHandle

\* While an operation is pending nobody takes a record from it, and until its
\* update the records it has, or can still get, are as they were linked.
PendingOK(t) ==
    LET deps == desc[t].deps
    IN Pending(t) =>
       /\ \A n \in Nodes : Tag(t) \in past[n] =>
             /\ scxPtr[n] = Tag(t)
             /\ \E i \in DOMAIN deps : deps[i].node = n
       /\ Tag(t) \notin done =>
             /\ scxPtr[deps[1].node] \in {deps[1].seen, Tag(t)} =>
                   val[deps[1].node] = desc[t].old
             /\ \A i \in DOMAIN deps : scxPtr[deps[i].node] \in {deps[i].seen, Tag(t)} =>
                   <<deps[i].node, ver[deps[i].node]>> \in link[t]

\* The records of a descriptor are the first ones of its owner's footprint.
Follows(deps, fp) ==
    /\ Len(deps) <= Len(fp)
    /\ \A i \in DOMAIN deps : deps[i].node = fp[i].node /\ deps[i].finalize = fp[i].finalize

DescOK(t) ==
    LET d == desc[t]
    IN IF Odd(d.seq)
       THEN /\ Op(Tag(t), d.deps, d.old)
            /\ plan[t] \in Footprints[t]
            /\ Len(d.deps) = Len(plan[t]) /\ Follows(d.deps, plan[t])
            /\ (\E n \in Nodes : Tag(t) \in past[n]) => Tag(t) \in past[d.deps[1].node]
            /\ d.allFrozen => AllPast(Tag(t), d.deps)
            /\ d.state = Committed => d.allFrozen /\ Tag(t) \in done
            /\ d.state = Aborted => Doomed(Tag(t), d.deps)
       ELSE d.state = InProgress /\ ~d.allFrozen /\ LinksOK(d.deps)

Linking(p) == pc[p] \in {"readField", "execute"} \cup LlxLabels

BuildOK(p) ==
    LET deps == desc[p].deps
    IN /\ child[p] \in done \cup {InitHandle}
       /\ Linking(p) =>
          /\ plan[p] \in Footprints[p]
          /\ Follows(deps, plan[p])
          /\ pc[p] = "execute" => Len(deps) = Len(plan[p])
          /\ pc[p] # "readField" /\ Len(deps) > 0 /\ scxPtr[deps[1].node] = deps[1].seen =>
                val[deps[1].node] = child[p]
          /\ \A i \in DOMAIN deps : scxPtr[deps[i].node] = deps[i].seen =>
                <<deps[i].node, ver[deps[i].node]>> \in link[p]

LlxOK(p) ==
    LET n == LinkNode(p)
        x == llx[p].tag
    IN /\ pc[p] \in {"llxState", "llxUnmarked", "llxValidate", "snapCopy"} => x \in past[n]
       /\ pc[p] \in {"llxUnmarked", "llxValidate"} => Decided(x)
       /\ pc[p] = "llxValidate" /\ scxPtr[n] = x /\ x \in done => ~marked[n]

\* The job of p describes the operation its handle names.
View(p) == Helping(p) \/ (pc[p] = "snapCheck" /\ job[p].seq = job[p].tag.seq)

JobOK(p) ==
    LET h == job[p].tag
        deps == job[p].deps
    IN /\ View(p) => /\ Op(h, deps, job[p].old)
                     /\ Live(h) => deps = desc[h.tid].deps /\ job[p].old = desc[h.tid].old
       /\ pc[p] = "snapCheck" /\ View(p) => h \in past[deps[1].node]
       /\ Helping(p) /\ ~job[p].other => h = Tag(p)
       /\ pc[p] \in NodeLabels =>
             \A j \in DOMAIN deps : j < job[p].i => h \in past[deps[j].node]
       /\ pc[p] = "reread" => scxPtr[deps[job[p].i].node] # deps[job[p].i].seen
       /\ pc[p] = "readFrozen" => Decided(h) \/ Doomed(h, deps)
       /\ pc[p] = "abort" => Doomed(h, deps)
       /\ pc[p] \in {"setFrozen", "mark", "update", "commit"} => AllPast(h, deps)
       /\ pc[p] \in {"mark", "update", "commit"} /\ Live(h) => desc[h.tid].allFrozen
       /\ pc[p] \in {"mark", "update", "commit"} =>
             \A j \in DOMAIN deps : deps[j].finalize /\ (pc[p] = "mark" => j < job[p].i)
                                       => marked[deps[j].node]
       /\ pc[p] = "mark" => job[p].i > 0
       /\ pc[p] = "commit" => h \in done

Last(p) == [tid |-> p, seq |-> IF Odd(desc[p].seq) THEN desc[p].seq
                                                  ELSE desc[p].seq - 1]

ResultOK(p) ==
    /\ pc[p] = "retire" => Decided(Tag(p))
    /\ pc[p] \in {"idle", "retire"} =>
          /\ ret[p] = Committed => Last(p) \in done
          /\ ret[p] = Aborted   => Last(p) \notin done

OpInv ==
    /\ \A n \in Nodes : NodeOK(n)
    /\ DoneOK
    /\ \A t \in Threads : DescOK(t) /\ PendingOK(t)
    /\ \A p \in Threads : BuildOK(p) /\ LlxOK(p) /\ JobOK(p) /\ ResultOK(p)

-----------------------------------------------------------------------------
(***************************************************************************)
(* What any step may do to the records and to the outcomes.                *)
(***************************************************************************)

\* Record n is left alone, or frozen for a pending operation that never had it
\* and that linked it as it is.
FreezeStep(n) ==
    \/ scxPtr'[n] = scxPtr[n] /\ past'[n] = past[n]
    \/ \E t \in Threads :
          /\ Pending(t) /\ Tag(t) \notin past[n] /\ Tag(t) \notin done
          /\ scxPtr'[n] = Tag(t)
          /\ past'[n] = past[n] \cup {Tag(t)}
          /\ \E i \in DOMAIN desc[t].deps :
                /\ desc[t].deps[i].node = n /\ desc[t].deps[i].seen = scxPtr[n]
                /\ i = 1 \/ Tag(t) \in past[desc[t].deps[1].node]

\* Record n is left alone, or marked for the pending operation that froze it.
MarkStep(n) ==
    \/ marked'[n] = marked[n]
    \/ /\ marked'[n]
       /\ \E t \in Threads :
             /\ Pending(t) /\ Tag(t) \notin done /\ scxPtr[n] = Tag(t)
             /\ AllPast(Tag(t), desc[t].deps)
             /\ \E i \in DOMAIN desc[t].deps :
                   desc[t].deps[i].node = n /\ desc[t].deps[i].finalize

\* The update of the pending operation of t, which has all its records.
UpdateStep(t) ==
    LET deps == desc[t].deps
    IN /\ Pending(t) /\ Tag(t) \notin done
       /\ done' = done \cup {Tag(t)}
       /\ AllPast(Tag(t), deps)
       /\ \A i \in DOMAIN deps : deps[i].finalize => marked[deps[i].node]
       /\ val'[deps[1].node] = Tag(t)
       /\ \A n \in Nodes : n # deps[1].node => val'[n] = val[n]
       /\ \A n \in Nodes : ver'[n] = IF \E i \in DOMAIN deps : deps[i].node = n
                                    THEN Tag(t) ELSE ver[n]

\* The descriptor of t: unchanged but for the nodes of an operation that is
\* being built; an outcome is written; published; retired.
OutcomeStep(t) ==
    LET d == desc[t]
    IN \/ /\ desc'[t].seq = d.seq /\ desc'[t].old = d.old
          /\ Odd(d.seq) => /\ desc'[t].deps = d.deps
                           /\ plan'[t] = plan[t] /\ link'[t] = link[t]
          /\ \/ desc'[t].state = d.state
             \/ Odd(d.seq) /\ desc'[t].state = Committed /\ desc'[t].allFrozen /\ Tag(t) \in done
             \/ Odd(d.seq) /\ desc'[t].state = Aborted /\ Doomed(Tag(t), d.deps)
          /\ \/ desc'[t].allFrozen = d.allFrozen
             \/ Odd(d.seq) /\ desc'[t].allFrozen /\ AllPast(Tag(t), d.deps)
       \/ /\ ~Odd(d.seq) /\ desc'[t].seq = d.seq + 1
          /\ desc'[t].state = d.state
       \/ /\ Odd(d.seq) /\ Decided(Tag(t)) /\ desc'[t].seq = d.seq + 1
          /\ desc'[t].deps = d.deps
          /\ desc'[t].state = InProgress /\ ~desc'[t].allFrozen

SharedStep ==
    /\ \A n \in Nodes : FreezeStep(n) /\ MarkStep(n)
    /\ \/ UNCHANGED <<done, val, ver>>
       \/ \E t \in Threads : UpdateStep(t)
    /\ \A t \in Threads : OutcomeStep(t)

-----------------------------------------------------------------------------
(***************************************************************************)
(* What a step leaves true of records, operations and descriptors          *)
(***************************************************************************)
\* The records of an operation are records, the first one exists.
LEMMA DepsType ==
    ASSUME NEW deps \in Seq(Frozen)
    PROVE  /\ \A i \in DOMAIN deps : /\ deps[i].node \in Nodes
                                     /\ deps[i].finalize \in BOOLEAN
                                     /\ deps[i].seen \in Handle
           /\ Shape(deps) => 1 \in DOMAIN deps /\ deps[1].node \in Nodes
<1>1. \A i \in DOMAIN deps : deps[i] \in Frozen
    OBVIOUS
<1>2. Shape(deps) => 1 \in DOMAIN deps
    BY DEF Shape
<1> QED BY <1>1, <1>2 DEF Frozen

\* A published operation whose outcome is open is its owner's current one.
LEMMA OpenOp ==
    ASSUME SeqInv, NEW h \in Handle, Published(h), ~Decided(h)
    PROVE  h.tid \in Threads /\ Pending(h.tid) /\ h = Tag(h.tid)
<1>1. h.tid \in Threads /\ Odd(h.seq) /\ desc[h.tid].seq = h.seq
      /\ desc[h.tid].state = InProgress
    BY DEF SeqInv, DummyOK, Published, Decided, Live, InitHandle
<1> QED BY <1>1 DEF Pending, Tag, Handle

\* The handle of a pending operation is published and not decided.
LEMMA PendingOpen ==
    ASSUME SeqInv, NEW t \in Threads, Pending(t)
    PROVE  ~Decided(Tag(t)) /\ Tag(t) \in Handle /\ Tag(t) # InitHandle
           /\ Published(Tag(t))
<1>1. desc[t].seq \in Nat /\ t # DummyTid
    BY DescriptorType, ThreadsAssumption DEF SeqInv, TypeOK, Tids
<1> QED BY <1>1 DEF Pending, Decided, Live, Tag, Handle, Tids, InitHandle, Published

\* Two threads never have the same current handle.
LEMMA SameTag ==
    ASSUME NEW t, NEW u, Tag(t) = Tag(u) PROVE t = u
BY DEF Tag

\* An outcome is final.
LEMMA DecidedStays ==
    ASSUME SeqInv, SeqInv', SharedStep, NEW h \in Handle, Published(h), Decided(h)
    PROVE  Decided(h)'
<1>1. CASE h = InitHandle
    BY <1>1 DEF SeqInv, DummyOK, Decided, InitHandle
<1>2. CASE h.tid \in Threads /\ h.seq <= desc[h.tid].seq
  <2>1. OutcomeStep(h.tid) /\ desc[h.tid].seq \in Nat /\ h.seq \in Nat
    BY <1>2, DescriptorType DEF SharedStep, SeqInv, TypeOK, Tids, Handle
  <2> QED BY <1>2, <2>1 DEF OutcomeStep, Decided, Live
<1> QED BY <1>1, <1>2 DEF Published

\* The handle of an operation that can still take records is not decided.
LEMMA TakenBy ==
    ASSUME SeqInv, SharedStep, NEW n \in Nodes, scxPtr'[n] # scxPtr[n]
    PROVE  /\ scxPtr'[n] \notin past[n]
           /\ scxPtr'[n] \in Handle
           /\ ~Decided(scxPtr'[n])
           /\ scxPtr'[n] \notin done
BY PendingOpen DEF SharedStep, FreezeStep

\* A link stays a link: whoever takes the record from it was not decided then,
\* and only records of pending operations are newly marked.
LEMMA LinkStays ==
    ASSUME SeqInv, SeqInv', SharedStep, NEW n \in Nodes, NEW x \in Handle,
           Published(x), LinkOK(n, x)
    PROVE  LinkOK(n, x)'
<1>1. x \in past'[n]
    BY DEF LinkOK, SharedStep, FreezeStep
<1>2. Decided(x)'
    BY DecidedStays DEF LinkOK
<1>3. ASSUME scxPtr'[n] = x, x \in done'
      PROVE  ~marked'[n]
  <2>1. scxPtr[n] = x
    BY <1>3, TakenBy DEF LinkOK
  <2>2. x \in done
    BY <1>3, PendingOpen DEF LinkOK, SharedStep, UpdateStep
  <2> QED BY <2>1, <2>2, PendingOpen DEF LinkOK, SharedStep, MarkStep
<1> QED BY <1>1, <1>2, <1>3 DEF LinkOK

\* The same for all the links of an operation.
LEMMA LinksStay ==
    ASSUME SeqInv, SeqInv', SharedStep, NEW deps \in Seq(Frozen), LinksOK(deps),
           \A n \in Nodes : NodeOK(n)
    PROVE  LinksOK(deps)'
<1> SUFFICES ASSUME NEW i \in DOMAIN deps
             PROVE  LinkOK(deps[i].node, deps[i].seen)'
    BY DEF LinksOK
<1>1. LinkOK(deps[i].node, deps[i].seen) /\ deps[i].node \in Nodes /\ deps[i].seen \in Handle
    BY DepsType DEF LinksOK
<1>2. Published(deps[i].seen)
    BY <1>1 DEF LinkOK, NodeOK
<1> QED BY <1>1, <1>2, LinkStays

\* The deps that a descriptor or a copy of it gives operation h.
Describes(h, deps, old) ==
    Live(h) => deps = desc[h.tid].deps /\ old = desc[h.tid].old

\* An operation that lost a record never gets it, nor the record its old value.
LEMMA DoomedStays ==
    ASSUME SeqInv, SeqInv', SharedStep, NEW h \in Handle, Published(h),
           NEW deps \in Seq(Frozen), NEW old, Op(h, deps, old), Describes(h, deps, old),
           Doomed(h, deps)
    PROVE  Doomed(h, deps)'
<1>1. PICK k \in DOMAIN deps :
         /\ h \notin past[deps[k].node]
         /\ scxPtr[deps[k].node] # deps[k].seen
         /\ \A j \in DOMAIN deps : j < k => h \in past[deps[j].node]
    BY DEF Doomed
<1> DEFINE n == deps[k].node
<1>2. n \in Nodes /\ deps[k].seen \in past[n] /\ FreezeStep(n)
    BY DepsType DEF Op, LinksOK, LinkOK, SharedStep
<1>3. h \notin past'[n]
  <2> SUFFICES ASSUME h \in past'[n] PROVE FALSE
      OBVIOUS
  <2>1. PICK t \in Threads :
           /\ h = Tag(t)
           /\ \E i \in DOMAIN desc[t].deps :
                 desc[t].deps[i].node = n /\ desc[t].deps[i].seen = scxPtr[n]
    BY <1>1, <1>2 DEF FreezeStep
  <2>2. deps = desc[t].deps
    BY <2>1 DEF Describes, Live, Tag
  <2> QED BY <1>1, <2>1, <2>2 DEF Op, Shape
<1>4. scxPtr'[n] # deps[k].seen
    BY <1>1, <1>2, TakenBy
<1>5. \A j \in DOMAIN deps : j < k => h \in past'[deps[j].node]
    BY <1>1, DepsType DEF SharedStep, FreezeStep
<1> QED BY <1>3, <1>4, <1>5 DEF Doomed

\* What was frozen for an operation was frozen for it.
LEMMA AllPastStays ==
    ASSUME SharedStep, NEW h, NEW deps \in Seq(Frozen), AllPast(h, deps)
    PROVE  AllPast(h, deps)'
BY DepsType DEF AllPast, SharedStep, FreezeStep

\* The step that writes the outcome of an operation writes the right one.
LEMMA NewlyDecided ==
    ASSUME SeqInv, SeqInv', SharedStep, NEW h \in Handle, Published(h),
           NEW deps \in Seq(Frozen), NEW old, Op(h, deps, old), Describes(h, deps, old),
           ~Decided(h), Decided(h)'
    PROVE  h \in done' \/ Doomed(h, deps)'
<1>1. h.tid \in Threads /\ Pending(h.tid) /\ h = Tag(h.tid)
    BY OpenOp
<1>2. OutcomeStep(h.tid) /\ desc[h.tid].seq \in Nat /\ deps = desc[h.tid].deps
    BY <1>1, DescriptorType
    DEF SharedStep, SeqInv, TypeOK, Tids, Describes, Live, Tag, Handle
<1>3. h \in done \/ Doomed(h, deps)
    BY <1>1, <1>2 DEF OutcomeStep, Decided, Live, Pending
<1>4. done \subseteq done'
    BY DEF SharedStep, UpdateStep
<1> QED BY <1>3, <1>4, DoomedStays

\* What a view of an operation says stays true, whoever holds the view.
LEMMA OpStays ==
    ASSUME SeqInv, SeqInv', SharedStep, \A n \in Nodes : NodeOK(n),
           NEW h \in Handle, Published(h), NEW deps \in Seq(Frozen), NEW old,
           Op(h, deps, old), Describes(h, deps, old)
    PROVE  Op(h, deps, old)'
<1>1. Shape(deps) /\ LinksOK(deps)'
    BY LinksStay DEF Op
<1>2. done \subseteq done' /\ old \in done' \cup {InitHandle}
    BY DEF Op, SharedStep, UpdateStep
<1>3. ASSUME NEW i \in DOMAIN deps, h \in past'[deps[i].node]
      PROVE  scxPtr'[deps[i].node] # deps[i].seen
  <2> DEFINE n == deps[i].node
  <2>1. n \in Nodes /\ deps[i].seen \in past[n] /\ FreezeStep(n)
    BY DepsType DEF Op, LinksOK, LinkOK, SharedStep
  <2>2. CASE scxPtr'[n] = scxPtr[n] /\ past'[n] = past[n]
    BY <1>3, <2>2 DEF Op
  <2>3. CASE ~(scxPtr'[n] = scxPtr[n] /\ past'[n] = past[n])
    BY <2>1, <2>3 DEF FreezeStep
  <2> QED BY <2>2, <2>3
<1>4. Decided(h)' => h \in done' \/ Doomed(h, deps)'
    BY <1>2, NewlyDecided, DoomedStays DEF Op
<1>5. ASSUME h \in done'
      PROVE  /\ AllPast(h, deps)'
             /\ \A i \in DOMAIN deps : deps[i].finalize => marked'[deps[i].node]
             /\ val'[deps[1].node] # old
  <2>1. \A i \in DOMAIN deps : marked[deps[i].node] => marked'[deps[i].node]
    BY DepsType DEF SharedStep, MarkStep
  <2>2. CASE h \in done
    <3>1. AllPast(h, deps)'
      BY <2>2, AllPastStays DEF Op
    <3>2. val'[deps[1].node] # old
      <4>1. deps[1].node \in Nodes /\ old \in done \cup {InitHandle} /\ val[deps[1].node] # old
        BY <2>2, DepsType DEF Op
      <4> QED BY <4>1, PendingOpen DEF SharedStep, UpdateStep
    <3> QED BY <2>1, <2>2, <3>1, <3>2 DEF Op
  <2>3. CASE h \notin done
    <3>1. PICK t \in Threads : UpdateStep(t) /\ h = Tag(t)
      BY <1>5, <2>3 DEF SharedStep, UpdateStep
    <3>2. deps = desc[t].deps
      BY <3>1 DEF Describes, Live, Tag
    <3>3. val'[deps[1].node] = h /\ h # InitHandle /\ old \in done \cup {InitHandle}
      BY <3>1, <3>2, PendingOpen DEF UpdateStep, Op
    <3> QED BY <2>1, <2>3, <3>1, <3>2, <3>3, AllPastStays DEF UpdateStep
  <2> QED BY <2>2, <2>3
<1> QED BY <1>1, <1>2, <1>3, <1>4, <1>5 DEF Op, Shape

\* A pending operation that has all its records stays pending, or its update
\* took effect.
LEMMA PendingNext ==
    ASSUME SharedStep, NEW t \in Threads, Pending(t), AllPast(Tag(t), desc[t].deps)
    PROVE  \/ Tag(t) \in done
           \/ /\ Pending(t)' /\ desc'[t].seq = desc[t].seq
              /\ desc'[t].deps = desc[t].deps /\ desc'[t].old = desc[t].old
BY DEF SharedStep, OutcomeStep, Pending, Doomed, AllPast, Decided, Live, Tag

\* A marked record was removed by an update or is being removed by the pending
\* operation that froze it, before the step and after it.
LEMMA NodeStays ==
    ASSUME SeqInv, SeqInv', SharedStep, \A n \in Nodes : NodeOK(n),
           \A t \in Threads : DescOK(t),
           NEW n \in Nodes
    PROVE  NodeOK(n)'
<1>1. scxPtr'[n] \in past'[n]
    BY DEF SharedStep, FreezeStep, NodeOK
<1>2. ASSUME NEW h \in past'[n] PROVE Published(h)'
  <2>1. Published(h) /\ h \in Handle
    <3>1. CASE h \in past[n]
      BY <3>1 DEF NodeOK, SeqInv, TypeOK
    <3>2. CASE h \notin past[n]
      BY <1>2, <3>2, PendingOpen DEF SharedStep, FreezeStep
    <3> QED BY <3>1, <3>2
  <2>2. Grow
    <3>1. ASSUME NEW t \in Tids PROVE desc'[t].seq \in Nat /\ desc[t].seq <= desc'[t].seq
      <4>1. desc[t].seq \in Nat /\ desc'[t].seq \in Nat
        BY DescriptorType DEF SeqInv, TypeOK
      <4>2. CASE t = DummyTid
        BY <4>2 DEF SeqInv, DummyOK
      <4>3. CASE t \in Threads
        BY <4>1, <4>3 DEF SharedStep, OutcomeStep
      <4> QED BY <4>2, <4>3 DEF Tids
    <3> QED BY <3>1 DEF Grow
  <2> QED BY <2>1, <2>2, PublishedStays DEF SeqInv
<1>3. val'[n] \in done' \cup {InitHandle} /\ ver'[n] \in done' \cup {InitHandle}
  <2>1. val[n] \in done \cup {InitHandle} /\ ver[n] \in done \cup {InitHandle}
    BY DEF NodeOK
  <2> QED BY <2>1 DEF SharedStep, UpdateStep
<1> DEFINE MarkedFor(t) == /\ Pending(t) /\ scxPtr[n] = Tag(t)
                           /\ AllPast(Tag(t), desc[t].deps)
                           /\ \E i \in DOMAIN desc[t].deps :
                                 desc[t].deps[i].node = n /\ desc[t].deps[i].finalize
<1>4. ASSUME marked'[n], scxPtr'[n] \notin done'
      PROVE  \E t \in Threads : MarkedFor(t)'
  <2>1. (\E t \in Threads : MarkedFor(t)) \/ (marked[n] /\ scxPtr[n] \in done)
    BY <1>4 DEF SharedStep, MarkStep, NodeOK
  <2>2. CASE \E t \in Threads : MarkedFor(t)
    <3>1. PICK t \in Threads : MarkedFor(t)
      BY <2>2
    <3>2. scxPtr'[n] = scxPtr[n]
      <4>1. ~Decided(scxPtr[n])
        BY <3>1, PendingOpen
      <4>2. \A u \in Threads : \A i \in DOMAIN desc[u].deps :
               Pending(u) => Decided(desc[u].deps[i].seen)
        BY DEF DescOK, Op, LinksOK, LinkOK, Pending
      <4> QED BY <4>1, <4>2 DEF SharedStep, FreezeStep
    <3>3. Pending(t)' /\ desc'[t].seq = desc[t].seq /\ desc'[t].deps = desc[t].deps
      BY <1>4, <3>1, <3>2, PendingNext DEF SharedStep, UpdateStep
    <3>4. Tag(t)' = Tag(t) /\ desc[t].deps \in Seq(Frozen)
      BY <3>3, DescriptorType DEF Tag, SeqInv, TypeOK, Tids
    <3>5. \A i \in DOMAIN desc[t].deps : Tag(t) \in past'[desc[t].deps[i].node]
      BY <3>1, <3>3, <3>4, DepsType DEF AllPast, SharedStep, FreezeStep
    <3> QED BY <3>1, <3>2, <3>3, <3>4, <3>5 DEF AllPast
  <2>3. CASE marked[n] /\ scxPtr[n] \in done
    <3>1. scxPtr'[n] # scxPtr[n] /\ FreezeStep(n)
      BY <1>4, <2>3 DEF SharedStep, UpdateStep
    <3>2. \A t \in Threads : Pending(t) => LinksOK(desc[t].deps)
      BY DEF DescOK, Op, Pending
    <3> QED BY <2>3, <3>1, <3>2 DEF FreezeStep, LinksOK, LinkOK
  <2> QED BY <2>1, <2>2, <2>3
<1> QED BY <1>1, <1>2, <1>3, <1>4 DEF NodeOK

\* What was proved of the records and the descriptors before the step.
Shared == /\ \A n \in Nodes : NodeOK(n)
          /\ DoneOK
          /\ \A t \in Threads : DescOK(t) /\ PendingOK(t)

\* Only a published operation takes effect.
LEMMA DoneStays ==
    ASSUME SeqInv, SeqInv', SharedStep, Shared PROVE DoneOK'
<1> SUFFICES ASSUME NEW h \in done' PROVE Published(h)' /\ h # InitHandle
    BY DEF DoneOK
<1>1. Published(h) /\ h # InitHandle /\ h \in Handle
    BY PendingOpen DEF Shared, DoneOK, SharedStep, UpdateStep, SeqInv, TypeOK
<1>2. h.tid \in Threads /\ h.seq \in Nat /\ Odd(h.seq) /\ h.seq <= desc[h.tid].seq
    BY <1>1 DEF Published, Handle
<1>3. /\ OutcomeStep(h.tid) /\ desc[h.tid].seq \in Nat /\ desc'[h.tid].seq \in Nat
    BY <1>2, DescriptorType DEF SharedStep, SeqInv, TypeOK, Tids
<1> QED BY <1>1, <1>2, <1>3 DEF OutcomeStep, Published

\* The descriptor of t, when the step does not publish it.
LEMMA DescStays ==
    ASSUME SeqInv, SeqInv', SharedStep, Shared, NEW t \in Threads,
           Odd(desc[t].seq) \/ desc'[t].seq = desc[t].seq,
           ~Odd(desc[t].seq) => LinksOK(desc[t].deps)'
    PROVE  DescOK(t)'
<1>1. /\ desc[t].seq \in Nat /\ desc[t].deps \in Seq(Frozen)
      /\ desc'[t].seq \in Nat /\ desc'[t].allFrozen \in BOOLEAN
    BY DescriptorType DEF SeqInv, TypeOK, Tids
<1>2. CASE ~Odd(desc[t].seq)
    BY <1>1, <1>2 DEF SharedStep, OutcomeStep, Shared, DescOK
<1>3. CASE Odd(desc[t].seq) /\ desc'[t].seq = desc[t].seq
  <2>1. PICK h \in Handle, deps \in Seq(Frozen), old \in Handle :
           h = Tag(t) /\ deps = desc[t].deps /\ old = desc[t].old
    BY <1>1, DescriptorType DEF Tag, Handle, Tids, SeqInv, TypeOK
  <2>2. /\ Published(h) /\ Tag(t)' = h
        /\ Describes(h, deps, old)
    BY <1>1, <1>3, <2>1, ThreadsAssumption DEF Tag, Published, Describes
  <2>3. /\ Op(h, deps, old)
        /\ desc'[t].deps = deps /\ desc'[t].old = old
        /\ plan'[t] = plan[t]
    BY <1>1, <1>3, <2>1 DEF Shared, DescOK, SharedStep, OutcomeStep
  <2>4. Op(h, deps, old)'
    BY <2>2, <2>3, OpStays DEF Shared
  <2>5. AllPast(h, deps) => AllPast(h, deps)'
    BY AllPastStays
  <2>6. Doomed(h, deps) => Doomed(h, deps)'
    BY <2>2, <2>3, DoomedStays
  <2>7. done \subseteq done'
    BY DEF SharedStep, UpdateStep
  <2>8. /\ desc'[t].allFrozen => AllPast(h, deps)'
        /\ desc'[t].state = Committed => desc'[t].allFrozen /\ h \in done'
        /\ desc'[t].state = Aborted => Doomed(h, deps)'
    <3>1. /\ desc[t].allFrozen => AllPast(h, deps)
          /\ desc[t].state = Committed => desc[t].allFrozen /\ h \in done
          /\ desc[t].state = Aborted => Doomed(h, deps)
      BY <1>3, <2>1 DEF Shared, DescOK
    <3>2. OutcomeStep(t)
      BY DEF SharedStep
    <3> QED BY <1>1, <1>3, <2>1, <2>5, <2>6, <2>7, <3>1, <3>2 DEF OutcomeStep
  <2>9. /\ plan[t] \in Footprints[t]
        /\ Len(deps) = Len(plan[t]) /\ Follows(deps, plan[t])
    BY <1>3, <2>1 DEF Shared, DescOK
  <2>10. ASSUME NEW n \in Nodes, h \in past'[n] PROVE h \in past'[deps[1].node]
    <3>1. deps[1].node \in Nodes
      BY <2>3, DepsType DEF Op
    <3>2. h \in past[deps[1].node] => h \in past'[deps[1].node]
      BY <3>1 DEF SharedStep, FreezeStep
    <3>3. CASE h \in past[n]
      BY <1>3, <2>1, <3>2, <3>3 DEF Shared, DescOK
    <3>4. CASE h \notin past[n]
      <4>1. PICK u \in Threads :
               /\ h = Tag(u)
               /\ \E i \in DOMAIN desc[u].deps :
                     /\ desc[u].deps[i].node = n
                     /\ i = 1 \/ Tag(u) \in past[desc[u].deps[1].node]
        BY <2>10, <3>4 DEF SharedStep, FreezeStep
      <4>2. u = t
        BY <2>1, <4>1, SameTag
      <4> QED BY <2>1, <2>10, <3>2, <4>1, <4>2
    <3> QED BY <3>3, <3>4
  <2> QED BY <1>3, <2>2, <2>3, <2>4, <2>8, <2>9, <2>10 DEF DescOK, Follows
<1>4. CASE Odd(desc[t].seq) /\ desc'[t].seq = desc[t].seq + 1
  <2>1. LinksOK(desc[t].deps)
    BY <1>4 DEF Shared, DescOK, Op
  <2>2. /\ desc'[t].deps = desc[t].deps
        /\ desc'[t].state = InProgress /\ ~desc'[t].allFrozen
    BY <1>1, <1>4 DEF SharedStep, OutcomeStep
  <2>3. ~Odd(desc'[t].seq)
    BY <1>1, <1>4, OddNext
  <2>4. \A d \in Seq(Frozen) : LinksOK(d) => LinksOK(d)'
    BY LinksStay DEF Shared
  <2> QED BY <1>1, <2>1, <2>2, <2>3, <2>4 DEF DescOK
<1> QED BY <1>1, <1>2, <1>3, <1>4 DEF SharedStep, OutcomeStep

\* Until its update a pending operation finds the value and the versions its
\* owner read in every record it has or can still get.
LEMMA PendingStays ==
    ASSUME SeqInv, SeqInv', SharedStep, Shared, NEW t \in Threads,
           desc'[t].seq = desc[t].seq
    PROVE  PendingOK(t)'
<1> SUFFICES ASSUME Pending(t)' PROVE PendingOK(t)'
    BY DEF PendingOK
<1>1. PICK h \in Handle, deps \in Seq(Frozen), old \in Handle :
         h = Tag(t) /\ deps = desc[t].deps /\ old = desc[t].old
    BY DescriptorType DEF Tag, Handle, Tids, SeqInv, TypeOK
<1>2. Pending(t) /\ desc[t].seq \in Nat
  <2>1. desc[t].seq \in Nat /\ OutcomeStep(t)
    BY DescriptorType DEF SharedStep, SeqInv, TypeOK, Tids
  <2> QED BY <2>1 DEF OutcomeStep, Pending
<1>3. /\ Tag(t)' = h /\ desc'[t].deps = deps /\ desc'[t].old = old
      /\ link'[t] = link[t]
    BY <1>1, <1>2 DEF Tag, SharedStep, OutcomeStep, Pending
<1>4. ~Decided(h) /\ Op(h, deps, old) /\ PendingOK(t)
    BY <1>1, <1>2, PendingOpen DEF Shared, DescOK, Pending
<1>5. ASSUME NEW n \in Nodes, h \in past'[n]
      PROVE  scxPtr'[n] = h /\ \E i \in DOMAIN deps : deps[i].node = n
  <2>1. FreezeStep(n)
    BY DEF SharedStep
  <2>2. CASE h \in past[n]
    <3>1. scxPtr[n] = h /\ \E i \in DOMAIN deps : deps[i].node = n
      BY <1>1, <1>2, <1>4, <2>2 DEF PendingOK
    <3>2. \A u \in Threads : \A i \in DOMAIN desc[u].deps :
             Pending(u) => Decided(desc[u].deps[i].seen)
      BY DEF Shared, DescOK, Op, LinksOK, LinkOK, Pending
    <3> QED BY <1>4, <2>1, <3>1, <3>2 DEF FreezeStep
  <2>3. CASE h \notin past[n]
    <3>1. PICK u \in Threads :
             /\ h = Tag(u) /\ scxPtr'[n] = Tag(u)
             /\ \E i \in DOMAIN desc[u].deps : desc[u].deps[i].node = n
      BY <1>5, <2>1, <2>3 DEF FreezeStep
    <3>2. u = t
      BY <1>1, <3>1, SameTag
    <3> QED BY <1>1, <3>1, <3>2
  <2> QED BY <2>2, <2>3
\* A record the operation has or can get was that before the step.
<1>6. ASSUME NEW i \in DOMAIN deps, scxPtr'[deps[i].node] \in {deps[i].seen, h}
      PROVE  scxPtr[deps[i].node] \in {deps[i].seen, h}
  <2> DEFINE n == deps[i].node
  <2>1. n \in Nodes /\ deps[i].seen \in past[n] /\ FreezeStep(n)
    BY <1>4, DepsType DEF Op, LinksOK, LinkOK, SharedStep
  <2>2. CASE scxPtr'[n] = scxPtr[n]
    BY <1>6, <2>2
  <2>3. CASE scxPtr'[n] # scxPtr[n]
    <3>1. PICK u \in Threads :
             /\ scxPtr'[n] = Tag(u) /\ Tag(u) \notin past[n]
             /\ \E j \in DOMAIN desc[u].deps :
                   desc[u].deps[j].node = n /\ desc[u].deps[j].seen = scxPtr[n]
      BY <2>1, <2>3 DEF FreezeStep
    <3>2. u = t
      BY <1>1, <1>6, <2>1, <3>1, SameTag
    <3>3. Shape(deps)
      BY <1>4 DEF Op
    <3> QED BY <1>1, <3>1, <3>2, <3>3 DEF Shape
  <2> QED BY <2>2, <2>3
\* Such a record is not one that an update changes.
<1>7. ASSUME NEW i \in DOMAIN deps, scxPtr'[deps[i].node] \in {deps[i].seen, h},
             h \notin done'
      PROVE  val'[deps[i].node] = val[deps[i].node] /\ ver'[deps[i].node] = ver[deps[i].node]
  <2> DEFINE n == deps[i].node
  <2>1. n \in Nodes /\ Decided(deps[i].seen) /\ scxPtr[n] \in {deps[i].seen, h}
    BY <1>4, <1>6, <1>7, DepsType DEF Op, LinksOK, LinkOK
  <2>2. ASSUME NEW u \in Threads, UpdateStep(u), NEW j \in DOMAIN desc[u].deps,
               desc[u].deps[j].node = n
        PROVE  FALSE
    <3>1. Pending(u) /\ Tag(u) \in past[n] /\ Tag(u) \in done'
      BY <2>2 DEF UpdateStep, AllPast
    <3>2. scxPtr[n] = Tag(u) /\ ~Decided(Tag(u))
      BY <2>1, <3>1, PendingOpen DEF Shared, PendingOK
    <3> QED BY <1>7, <2>1, <3>1, <3>2
  <2>3. ASSUME NEW u \in Threads, UpdateStep(u) PROVE 1 \in DOMAIN desc[u].deps
    BY <2>3 DEF UpdateStep, Shared, DescOK, Op, Shape, Pending
  <2> QED BY <2>1, <2>2, <2>3 DEF SharedStep, UpdateStep
<1>8. h \notin done' => h \notin done
    BY DEF SharedStep, UpdateStep
<1>9. 1 \in DOMAIN deps
    BY <1>4, DepsType DEF Op
<1>10. h \notin done =>
         /\ scxPtr[deps[1].node] \in {deps[1].seen, h} => val[deps[1].node] = old
         /\ \A i \in DOMAIN deps : scxPtr[deps[i].node] \in {deps[i].seen, h} =>
               <<deps[i].node, ver[deps[i].node]>> \in link[t]
    BY <1>1, <1>2, <1>4 DEF PendingOK
<1>11. h \notin done' =>
         /\ scxPtr'[deps[1].node] \in {deps[1].seen, h} => val'[deps[1].node] = old
         /\ \A i \in DOMAIN deps : scxPtr'[deps[i].node] \in {deps[i].seen, h} =>
               <<deps[i].node, ver'[deps[i].node]>> \in link'[t]
    BY <1>3, <1>6, <1>7, <1>8, <1>9, <1>10
<1> QED BY <1>3, <1>5, <1>11 DEF PendingOK

\* A record that still holds the handle it was linked with did not change.
LEMMA SeenStays ==
    ASSUME SeqInv, SharedStep, Shared, NEW n \in Nodes, NEW x \in past[n], Decided(x),
           scxPtr'[n] = x
    PROVE  /\ scxPtr[n] = x
           /\ val'[n] = val[n] /\ ver'[n] = ver[n] /\ marked'[n] = marked[n]
<1>1. scxPtr[n] = x
    BY TakenBy
<1>2. marked'[n] = marked[n]
    BY <1>1, PendingOpen DEF SharedStep, MarkStep
<1>3. ASSUME NEW u \in Threads, UpdateStep(u), NEW j \in DOMAIN desc[u].deps,
             desc[u].deps[j].node = n
      PROVE  FALSE
  <2>1. Pending(u) /\ Tag(u) \in past[n]
    BY <1>3 DEF UpdateStep, AllPast
  <2>2. scxPtr[n] = Tag(u) /\ ~Decided(Tag(u))
    BY <2>1, PendingOpen DEF Shared, PendingOK
  <2> QED BY <1>1, <2>2
<1>4. ASSUME NEW u \in Threads, UpdateStep(u) PROVE 1 \in DOMAIN desc[u].deps
    BY <1>4 DEF UpdateStep, Shared, DescOK, Op, Shape, Pending
<1>5. val'[n] = val[n] /\ ver'[n] = ver[n]
    BY <1>3, <1>4 DEF SharedStep, UpdateStep
<1> QED BY <1>1, <1>2, <1>5

\* What a thread knows of the records it linked, after a step of another one.
LEMMA BuildStays ==
    ASSUME SeqInv, SharedStep, Shared, NEW p \in Threads, BuildOK(p),
           desc'[p].deps = desc[p].deps, UNCHANGED <<pc[p], plan[p], child[p], link[p]>>
    PROVE  BuildOK(p)'
<1> SUFFICES ASSUME Linking(p) PROVE BuildOK(p)'
    BY DEF BuildOK, Linking, SharedStep, UpdateStep
<1> DEFINE deps == desc[p].deps
<1>1. ~Odd(desc[p].seq) /\ deps \in Seq(Frozen)
    BY DescriptorType DEF SeqInv, TypeOK, Tids, ParityOK, Linking, Helping
<1>2. LinksOK(deps)
    BY <1>1 DEF Shared, DescOK
<1>3. ASSUME NEW i \in DOMAIN deps, scxPtr'[deps[i].node] = deps[i].seen
      PROVE  /\ scxPtr[deps[i].node] = deps[i].seen
             /\ val'[deps[i].node] = val[deps[i].node]
             /\ ver'[deps[i].node] = ver[deps[i].node]
    BY <1>1, <1>2, <1>3, DepsType, SeenStays DEF LinksOK, LinkOK
<1>4. Len(deps) > 0 => 1 \in DOMAIN deps
    BY <1>1
<1>5. done \subseteq done'
    BY DEF SharedStep, UpdateStep
<1> QED BY <1>3, <1>4, <1>5 DEF BuildOK, Linking, Follows

\* What a thread knows of the record it is linking, after such a step.
LEMMA LlxStays ==
    ASSUME SeqInv, SeqInv', SharedStep, Shared, NEW p \in Threads, LlxOK(p),
           desc'[p].deps = desc[p].deps, UNCHANGED <<pc[p], plan[p], llx[p]>>
    PROVE  LlxOK(p)'
<1> SUFFICES ASSUME pc[p] \in {"llxState", "llxUnmarked", "llxValidate", "snapCopy"} PROVE LlxOK(p)'
    BY DEF LlxOK
<1> DEFINE n == LinkNode(p)  x == llx[p].tag
<1>1. n \in Nodes /\ n' = n /\ x' = x /\ x \in Handle /\ x \in past[n] /\ Published(x)
  <2>1. n \in Nodes
    BY LinkType DEF SeqInv
  <2>2. n' = n /\ x' = x
    BY DEF LinkNode, LinkIndex
  <2>3. x \in Handle /\ x \in past[n]
    BY LocalsType DEF SeqInv, TypeOK, LlxOK
  <2> QED BY <2>1, <2>2, <2>3 DEF Shared, NodeOK
<1>2. x \in past'[n]
    BY <1>1 DEF SharedStep, FreezeStep
<1>3. Decided(x) => Decided(x)'
    BY <1>1, DecidedStays
<1>4. pc[p] = "llxValidate" /\ scxPtr'[n] = x /\ x \in done' => ~marked'[n]
  <2> SUFFICES ASSUME pc[p] = "llxValidate", scxPtr'[n] = x, x \in done' PROVE ~marked'[n]
      OBVIOUS
  <2>1. Decided(x)
    BY DEF LlxOK
  <2>2. x \in done
    BY <2>1, PendingOpen DEF SharedStep, UpdateStep
  <2> QED BY <1>1, <2>1, <2>2, SeenStays DEF LlxOK
<1> QED BY <1>1, <1>2, <1>3, <1>4 DEF LlxOK

\* A copy that was the descriptor's stays so as long as the handle is current.
LEMMA DescribesStays ==
    ASSUME SeqInv, SeqInv', SharedStep, NEW h \in Handle, Published(h), h # InitHandle,
           NEW deps, NEW old, Describes(h, deps, old)
    PROVE  /\ Describes(h, deps, old)'
           /\ Live(h)' => Live(h) /\ (desc[h.tid].allFrozen => desc'[h.tid].allFrozen)
<1> SUFFICES ASSUME Live(h)'
             PROVE  /\ Describes(h, deps, old)'
                    /\ Live(h) /\ (desc[h.tid].allFrozen => desc'[h.tid].allFrozen)
    BY DEF Describes
<1>1. h.tid \in Threads /\ Odd(h.seq) /\ h.seq <= desc[h.tid].seq /\ h.seq \in Nat
    BY DEF Published, Handle
<1>2. OutcomeStep(h.tid) /\ desc[h.tid].seq \in Nat
    BY <1>1, DescriptorType DEF SharedStep, SeqInv, TypeOK, Tids
<1>3. desc'[h.tid].seq = h.seq
    BY DEF Live
<1>4. desc[h.tid].seq = h.seq
    BY <1>1, <1>2, <1>3 DEF OutcomeStep
<1>5. /\ desc'[h.tid].deps = desc[h.tid].deps /\ desc'[h.tid].old = desc[h.tid].old
      /\ desc[h.tid].allFrozen => desc'[h.tid].allFrozen
    BY <1>1, <1>2, <1>3, <1>4 DEF OutcomeStep
<1> QED BY <1>3, <1>4, <1>5 DEF Describes, Live

\* The handle and the copy a helper holds have their types.
LEMMA ViewType ==
    ASSUME SeqInv, NEW p \in Threads, View(p)
    PROVE  /\ job[p].tag \in Handle /\ Published(job[p].tag) /\ job[p].tag # InitHandle
           /\ job[p].deps \in Seq(Frozen) /\ job[p].old \in Handle /\ job[p].i \in Nat
BY HelpSeq, JobType DEF SeqInv, TypeOK, HandlesPublished, ParityOK, HelperOK, View

\* A view of an operation after any step, for the helper that keeps it.
LEMMA ViewStays ==
    ASSUME SeqInv, SeqInv', SharedStep, Shared, NEW p \in Threads, JobOK(p), View(p)
    PROVE  \E h \in Handle, deps \in Seq(Frozen), old \in Handle :
              /\ h = job[p].tag /\ deps = job[p].deps /\ old = job[p].old
              /\ h # InitHandle /\ Published(h)
              /\ Op(h, deps, old) /\ Op(h, deps, old)'
              /\ Describes(h, deps, old) /\ Describes(h, deps, old)'
              /\ Decided(h) => Decided(h)'
              /\ Doomed(h, deps) => Doomed(h, deps)'
              /\ AllPast(h, deps) => AllPast(h, deps)'
              /\ Live(h)' => Live(h) /\ (desc[h.tid].allFrozen => desc'[h.tid].allFrozen)
<1>1. PICK h \in Handle, deps \in Seq(Frozen), old \in Handle :
         /\ h = job[p].tag /\ deps = job[p].deps /\ old = job[p].old
         /\ h # InitHandle /\ Published(h)
    BY ViewType
<1>2. Op(h, deps, old) /\ Describes(h, deps, old)
    BY <1>1 DEF JobOK, Describes
<1>3. Op(h, deps, old)'
    BY <1>1, <1>2, OpStays DEF Shared
<1>4. Describes(h, deps, old)' /\
      (Live(h)' => Live(h) /\ (desc[h.tid].allFrozen => desc'[h.tid].allFrozen))
    BY <1>1, <1>2, DescribesStays
<1>5. /\ Decided(h) => Decided(h)'
      /\ Doomed(h, deps) => Doomed(h, deps)'
      /\ AllPast(h, deps) => AllPast(h, deps)'
    BY <1>1, <1>2, DecidedStays, DoomedStays, AllPastStays
<1> QED BY <1>1, <1>2, <1>3, <1>4, <1>5

\* What a helper knows of the operation it helps, after a step of another one.
LEMMA JobStays ==
    ASSUME SeqInv, SeqInv', SharedStep, Shared, NEW p \in Threads, JobOK(p),
           UNCHANGED <<pc[p], job[p]>>, desc'[p].seq = desc[p].seq
    PROVE  JobOK(p)'
<1>1. CASE ~View(p)
    BY <1>1 DEF JobOK, View, Helping
<1>2. CASE View(p)
  <2>1. PICK h \in Handle, deps \in Seq(Frozen), old \in Handle :
              /\ h = job[p].tag /\ deps = job[p].deps /\ old = job[p].old
              /\ Op(h, deps, old) /\ Op(h, deps, old)'
              /\ Describes(h, deps, old)'
              /\ Decided(h) => Decided(h)'
              /\ Doomed(h, deps) => Doomed(h, deps)'
              /\ AllPast(h, deps) => AllPast(h, deps)'
              /\ Live(h)' => Live(h) /\ (desc[h.tid].allFrozen => desc'[h.tid].allFrozen)
    BY <1>2, ViewStays
  <2>2. /\ job'[p].tag = h /\ job'[p].deps = deps /\ job'[p].old = old
        /\ job'[p].i = job[p].i /\ job'[p].other = job[p].other
    BY <2>1
  <2>3. ASSUME NEW j \in DOMAIN deps
        PROVE  /\ h \in past[deps[j].node] => h \in past'[deps[j].node]
               /\ marked[deps[j].node] => marked'[deps[j].node]
               /\ scxPtr[deps[j].node] # deps[j].seen => scxPtr'[deps[j].node] # deps[j].seen
    <3>1. deps[j].node \in Nodes /\ deps[j].seen \in past[deps[j].node]
      BY <2>1, DepsType DEF Op, LinksOK, LinkOK
    <3> QED BY <3>1, TakenBy DEF SharedStep, FreezeStep, MarkStep
  <2>7. 1 \in DOMAIN deps
    BY <2>1, DepsType DEF Op
  <2>4. done \subseteq done'
    BY DEF SharedStep, UpdateStep
  <2>5. Helping(p) /\ ~job[p].other => h = Tag(p)'
    BY <2>1 DEF JobOK, Tag
  <2>6. pc[p] \in NodeLabels => job[p].i \in DOMAIN deps
    BY <2>1 DEF SeqInv, TypeOK, IndexOK
  <2> QED BY <2>1, <2>2, <2>3, <2>4, <2>5, <2>6, <2>7 DEF JobOK, Describes, View, Helping
<1> QED BY <1>1, <1>2

\* The answer of a call that ended stays the right one.
LEMMA ResultStays ==
    ASSUME SeqInv, SeqInv', SharedStep, Shared, NEW p \in Threads, ResultOK(p),
           UNCHANGED <<pc[p], ret[p]>>, desc'[p].seq = desc[p].seq
    PROVE  ResultOK(p)'
<1> SUFFICES ASSUME pc[p] \in {"idle", "retire"} PROVE ResultOK(p)'
    BY DEF ResultOK
<1>1. Last(p)' = Last(p) /\ done \subseteq done'
    BY DEF Last, SharedStep, UpdateStep
<1>2. desc[p].seq \in Nat /\ (Odd(desc[p].seq) <=> pc[p] = "retire")
    BY DescriptorType DEF SeqInv, TypeOK, Tids, ParityOK, Helping
<1>3. pc[p] = "retire" => Decided(Tag(p))'
  <2> SUFFICES ASSUME pc[p] = "retire" PROVE Decided(Tag(p))'
      OBVIOUS
  <2>1. PICK h \in Handle : h = Tag(p)
    BY <1>2 DEF Tag, Handle, Tids
  <2>2. Published(h) /\ Decided(h) /\ Tag(p)' = h
    BY <1>2, <2>1 DEF Published, Tag, ResultOK
  <2> QED BY <2>2, DecidedStays
<1>4. Last(p) \notin done => Last(p) \notin done'
  <2> SUFFICES ASSUME NEW u \in Threads, UpdateStep(u), Last(p) = Tag(u) PROVE FALSE
      BY DEF SharedStep, UpdateStep
  <2>1. u = p /\ Pending(p) /\ ~Decided(Tag(p))
      BY PendingOpen DEF Last, Tag, UpdateStep
  <2> QED BY <1>2, <2>1 DEF Pending, ResultOK
<1> QED BY <1>1, <1>3, <1>4 DEF ResultOK

-----------------------------------------------------------------------------
(***************************************************************************)
(* The steps                                                               *)
(***************************************************************************)
\* The invariant holds initially.
LEMMA InitOp == Init => OpInv
<1> SUFFICES ASSUME Init PROVE OpInv
    OBVIOUS
<1>1. ~Odd(2)
    BY DEF Odd
<1>2. \A t \in Threads : desc[t].seq = 2 /\ desc[t].state = InProgress
                         /\ ~desc[t].allFrozen /\ desc[t].deps = <<>>
    BY ThreadsAssumption DEF Init, Tids
<1>3. \A n \in Nodes : NodeOK(n)
    BY DEF Init, NodeOK, Published
<1>4. \A t \in Threads : DescOK(t) /\ PendingOK(t)
    BY <1>1, <1>2 DEF DescOK, PendingOK, Pending, LinksOK
<1>5. \A p \in Threads : BuildOK(p) /\ LlxOK(p) /\ JobOK(p) /\ ResultOK(p)
    BY DEF Init, BuildOK, Linking, LlxOK, JobOK, View, Helping, ResultOK
<1> QED BY <1>3, <1>4, <1>5 DEF OpInv, DoneOK, Init

\* What p's step leaves alone of another thread q.
Aside(q) == /\ UNCHANGED <<pc[q], plan[q], child[q], llx[q], job[q], ret[q], link[q]>>
            /\ desc'[q].seq = desc[q].seq /\ desc'[q].deps = desc[q].deps

\* A step keeps the invariant when it keeps p's part of it.
LEMMA Frame ==
    ASSUME SeqInv, SeqInv', OpInv, NEW p \in Threads, SharedStep,
           \A q \in Threads \ {p} : Aside(q),
           DescOK(p)', PendingOK(p)', BuildOK(p)', LlxOK(p)', JobOK(p)', ResultOK(p)'
    PROVE  OpInv' /\ SharedStep
<1>1. Shared
    BY DEF OpInv, Shared
<1>2. (\A n \in Nodes : NodeOK(n)') /\ DoneOK'
    BY <1>1, NodeStays, DoneStays DEF Shared
<1>3. ASSUME NEW q \in Threads \ {p}
      PROVE  /\ DescOK(q)' /\ PendingOK(q)'
             /\ BuildOK(q)' /\ LlxOK(q)' /\ JobOK(q)' /\ ResultOK(q)'
  <2>1. Aside(q)
    OBVIOUS
  <2>2. ~Odd(desc[q].seq) => LinksOK(desc[q].deps)'
    <3> SUFFICES ASSUME ~Odd(desc[q].seq) PROVE LinksOK(desc[q].deps)'
        OBVIOUS
    <3>1. LinksOK(desc[q].deps) /\ desc[q].deps \in Seq(Frozen)
      BY <1>1, DescriptorType DEF Shared, DescOK, SeqInv, TypeOK, Tids
    <3>2. \A d \in Seq(Frozen) : LinksOK(d) => LinksOK(d)'
      BY <1>1, LinksStay DEF Shared
    <3> QED BY <2>1, <3>1, <3>2 DEF Aside
  <2>3. DescOK(q)' /\ PendingOK(q)'
    BY <1>1, <2>1, <2>2, DescStays, PendingStays DEF Aside
  <2>4. BuildOK(q) /\ LlxOK(q) /\ JobOK(q) /\ ResultOK(q)
    BY DEF OpInv
  <2> QED BY <1>1, <2>1, <2>3, <2>4, BuildStays, LlxStays, JobStays, ResultStays DEF Aside
<1> QED BY <1>2, <1>3 DEF OpInv

\* The steps that write no record and no outcome.
Quiet == /\ UNCHANGED <<nodeVars, done, ver, past>>
         /\ \A t \in Threads :
               /\ desc'[t].seq = desc[t].seq /\ desc'[t].old = desc[t].old
               /\ desc'[t].state = desc[t].state /\ desc'[t].allFrozen = desc[t].allFrozen
               /\ Odd(desc[t].seq) => /\ desc'[t].deps = desc[t].deps
                                      /\ plan'[t] = plan[t] /\ link'[t] = link[t]

\* Quiet is the simplest of the steps SharedStep allows.
LEMMA QuietShared == ASSUME Quiet PROVE SharedStep
BY DEF Quiet, SharedStep, FreezeStep, MarkStep, OutcomeStep

\* Such a step of p, whose descriptor keeps its nodes.
LEMMA QuietFrame ==
    ASSUME SeqInv, SeqInv', OpInv, NEW p \in Threads, Quiet, desc' = desc,
           \A q \in Threads \ {p} : Aside(q),
           BuildOK(p)', LlxOK(p)', JobOK(p)', ResultOK(p)'
    PROVE  OpInv' /\ SharedStep
<1>1. SharedStep /\ Shared
    BY QuietShared DEF OpInv, Shared
<1>2. ~Odd(desc[p].seq) => LinksOK(desc[p].deps)'
  <2> SUFFICES ASSUME ~Odd(desc[p].seq) PROVE LinksOK(desc[p].deps)'
      OBVIOUS
  <2>1. LinksOK(desc[p].deps) /\ desc[p].deps \in Seq(Frozen)
      BY <1>1, DescriptorType DEF Shared, DescOK, SeqInv, TypeOK, Tids
  <2>2. \A d \in Seq(Frozen) : LinksOK(d) => LinksOK(d)'
      BY <1>1, LinksStay DEF Shared
  <2> QED BY <2>1, <2>2
<1>3. DescOK(p)' /\ PendingOK(p)'
    BY <1>1, <1>2, DescStays, PendingStays
<1> QED BY <1>1, <1>3, Frame

\* scxInit empties the descriptor, whose sequence number is even.
LEMMA BeginOp ==
    ASSUME SeqInv, SeqInv', OpInv, NEW p \in Threads, Begin(p) PROVE OpInv' /\ SharedStep
<1> PICK fp \in Footprints[p] : Start(p, fp)
    BY DEF Begin
<1> USE DEF Start
<1>1. /\ ~Odd(desc[p].seq) /\ desc[p] \in Descriptor /\ p \in Tids
      /\ desc' = [desc EXCEPT ![p] = [desc[p] EXCEPT !.deps = <<>>]]
    BY DEF SeqInv, TypeOK, Tids, ParityOK, Helping
<1>2. /\ desc'[p].deps = <<>> /\ desc'[p].seq = desc[p].seq
      /\ desc'[p].old = desc[p].old /\ desc'[p].state = desc[p].state
      /\ desc'[p].allFrozen = desc[p].allFrozen
      /\ \A q \in Tids \ {p} : desc'[q] = desc[q]
    BY <1>1 DEF SeqInv, TypeOK, Descriptor
<1>3. /\ pc'[p] = "llxMarked" /\ plan'[p] = fp /\ child'[p] = child[p]
      /\ \A q \in Threads \ {p} : Aside(q)
    BY <1>2 DEF Aside, SeqInv, TypeOK, Tids
<1>4. Quiet
    BY <1>1, <1>2, <1>3 DEF Quiet, Aside, Tids
<1>5. DescOK(p)' /\ PendingOK(p)'
    BY <1>1, <1>2, <1>4, QuietShared, DescStays, PendingStays DEF LinksOK, OpInv, Shared
<1>6. BuildOK(p)' /\ LlxOK(p)' /\ JobOK(p)' /\ ResultOK(p)'
    BY <1>2, <1>3 DEF OpInv, BuildOK, Follows, LlxOK, JobOK, View, Helping, ResultOK
<1> QED BY <1>3, <1>4, <1>5, <1>6, QuietShared, Frame

\* The child pointer is read from the record linked first.
LEMMA ReadFieldOp ==
    ASSUME SeqInv, SeqInv', OpInv, NEW p \in Threads, ReadField(p) PROVE OpInv' /\ SharedStep
<1> USE DEF ReadField
<1>1. /\ desc' = desc /\ pc'[p] \in {"execute", "llxMarked"}
      /\ \A q \in Threads \ {p} : Aside(q)
      /\ child'[p] = val[plan[p][1].node]
      /\ pc'[p] = "execute" => Len(plan[p]) = 1
    BY DEF AfterLink, Aside, SeqInv, TypeOK
<1>2. Quiet
    BY DEF Quiet
<1>3. /\ desc[p].deps \in Seq(Frozen) /\ Len(desc[p].deps) = 1
      /\ Follows(desc[p].deps, plan[p])
  <2>1. desc[p].deps \in Seq(Frozen)
    BY DescriptorType DEF SeqInv, TypeOK, Tids
  <2>2. Len(desc[p].deps) + 1 = 2
    BY DEF SeqInv, TypeOK, IndexOK, LinkIndex
  <2>3. Follows(desc[p].deps, plan[p])
    BY DEF OpInv, BuildOK, Linking
  <2>4. \A s \in Seq(Frozen) : Len(s) + 1 = 2 => Len(s) = 1
    <3>1. \A s \in Seq(Frozen) : Len(s) \in Nat
      OBVIOUS
    <3>2. \A m \in Nat : m + 1 = 2 => m = 1
      OBVIOUS
    <3> QED BY <3>1, <3>2
  <2>5. Len(desc[p].deps) = 1
    BY <2>1, <2>2, <2>4
  <2> QED BY <2>1, <2>3, <2>5
<1>4. /\ desc[p].deps[1].node \in Nodes
      /\ plan[p][1].node = desc[p].deps[1].node
    BY <1>3, DepsType DEF Follows
<1>5. BuildOK(p)'
    BY <1>1, <1>3, <1>4 DEF OpInv, NodeOK, BuildOK, Linking, Follows
<1>6. LlxOK(p)' /\ JobOK(p)' /\ ResultOK(p)'
    BY <1>1 DEF LlxOK, JobOK, View, Helping, ResultOK
<1> QED BY <1>1, <1>2, <1>5, <1>6, QuietFrame

\* The first reads of an LLX: a handle whose operation was aborted never has its
\* update take effect, so its record is not finalized.
LEMMA LlxReadOp ==
    ASSUME SeqInv, SeqInv', OpInv, NEW p \in Threads,
           LlxReadMarked(p) \/ LlxReadPtr(p) \/ LlxReadState(p)
    PROVE  OpInv' /\ SharedStep
<1>1. /\ desc' = desc /\ UNCHANGED <<plan, child, link, job>>
      /\ \A q \in Threads \ {p} : Aside(q)
      /\ pc[p] \in LlxLabels
      /\ pc'[p] \in {"llxPtr", "llxState", "llxUnmarked", "llxValidate", "snapCopy"}
    BY DEF LlxReadMarked, LlxReadPtr, LlxReadState, Aside, SeqInv, TypeOK
<1>2. Quiet
    BY DEF Quiet, LlxReadMarked, LlxReadPtr, LlxReadState
<1>3. BuildOK(p)'
    BY <1>1, <1>2 DEF OpInv, BuildOK, Linking, Follows, Quiet
<1>4. JobOK(p)' /\ ResultOK(p)'
    BY <1>1 DEF JobOK, View, Helping, ResultOK
<1>5. LinkNode(p) \in Nodes /\ LinkNode(p)' = LinkNode(p) /\ llx[p] \in Locals
    BY <1>1, LinkType DEF SeqInv, TypeOK, LinkNode, LinkIndex
<1>6. LlxOK(p)'
  <2>1. CASE LlxReadMarked(p)
    BY <2>1 DEF LlxReadMarked, LlxOK, SeqInv, TypeOK
  <2>2. CASE LlxReadPtr(p)
    <3>1. llx'[p].tag = scxPtr[LinkNode(p)] /\ pc'[p] = "llxState" /\ past' = past
      BY <2>2, <1>5 DEF LlxReadPtr, SeqInv, TypeOK, Locals
    <3> QED BY <1>5, <3>1 DEF LlxOK, OpInv, NodeOK
  <2>3. CASE LlxReadState(p)
    <3> DEFINE x == llx[p].tag
    <3>1. /\ x \in past[LinkNode(p)] /\ Published(x) /\ x \in Handle
      BY <1>5, <2>3 DEF LlxReadState, OpInv, LlxOK, NodeOK, Locals
    <3>2. UNCHANGED <<llx, past, scxPtr, done, marked>>
      BY <2>3 DEF LlxReadState
    <3>3. pc'[p] \in {"llxUnmarked", "llxValidate"} => Decided(x)
      BY <2>3 DEF LlxReadState, Decided, SeqInv, TypeOK
    <3>4. pc'[p] = "llxValidate" => x \notin done
      <4> SUFFICES ASSUME pc'[p] = "llxValidate" PROVE x \notin done
          OBVIOUS
      <4>1. Live(x) /\ desc[x.tid].state = Aborted
        BY <2>3 DEF LlxReadState, SeqInv, TypeOK
      <4>2. x.tid \in Threads /\ Odd(x.seq)
        BY <3>1, <4>1 DEF Published, SeqInv, DummyOK, InitHandle
      <4>3. x = Tag(x.tid) /\ Odd(desc[x.tid].seq)
        BY <3>1, <4>1, <4>2 DEF Live, Tag, Handle
      <4>4. Doomed(x, desc[x.tid].deps) /\ Op(x, desc[x.tid].deps, desc[x.tid].old)
        BY <4>1, <4>2, <4>3 DEF OpInv, DescOK
      <4> QED BY <4>4 DEF Op, Doomed, AllPast
    <3> QED BY <1>1, <1>5, <3>1, <3>2, <3>3, <3>4 DEF LlxOK, Decided, Live
  <2> QED BY <2>1, <2>2, <2>3
<1> QED BY <1>1, <1>2, <1>3, <1>4, <1>6, QuietFrame

\* The attempt of p fails in its LLX.
LEMMA FailedOp ==
    ASSUME SeqInv, SeqInv', OpInv, NEW p \in Threads, FailedLlx(p), SharedStep,
           \A q \in Threads \ {p} : desc'[q].seq = desc[q].seq /\ desc'[q].deps = desc[q].deps,
           desc'[p] = desc[p], ~Odd(desc[p].seq), UNCHANGED <<plan, link>>
    PROVE  OpInv' /\ SharedStep
<1>1. /\ pc'[p] = "idle" /\ ret'[p] \in {"failed", "finalized"} /\ child'[p] = InitHandle
      /\ \A q \in Threads \ {p} : Aside(q)
    BY DEF FailedLlx, Return, Aside, SeqInv, TypeOK
<1>2. BuildOK(p)' /\ LlxOK(p)' /\ JobOK(p)' /\ ResultOK(p)'
    BY <1>1 DEF BuildOK, Linking, LlxOK, JobOK, View, Helping, ResultOK
<1>3. LinksOK(desc[p].deps)'
  <2>1. LinksOK(desc[p].deps) /\ desc[p].deps \in Seq(Frozen)
      BY DescriptorType DEF OpInv, DescOK, SeqInv, TypeOK, Tids
  <2>2. \A d \in Seq(Frozen) : LinksOK(d) => LinksOK(d)'
      BY LinksStay DEF OpInv
  <2> QED BY <2>1, <2>2
<1>4. DescOK(p)' /\ PendingOK(p)'
    BY <1>3, DescStays, PendingStays DEF OpInv, Shared
<1> QED BY <1>1, <1>2, <1>4, Frame

\* A record whose handle is committed is linked only when it is not marked.
LEMMA LlxUnmarkedOp ==
    ASSUME SeqInv, SeqInv', OpInv, NEW p \in Threads, LlxReadUnmarked(p) PROVE OpInv' /\ SharedStep
<1> USE DEF LlxReadUnmarked
<1>1. Quiet /\ desc' = desc /\ ~Odd(desc[p].seq) /\ UNCHANGED <<plan, link>>
    BY DEF Quiet, SeqInv, ParityOK, Helping
<1>2. CASE marked[LinkNode(p)]
    BY <1>1, <1>2, FailedOp, QuietShared
<1>3. CASE ~marked[LinkNode(p)]
  <2>1. /\ pc'[p] = "llxValidate" /\ UNCHANGED <<child, llx, job>>
        /\ \A q \in Threads \ {p} : Aside(q)
    BY <1>3 DEF Aside, SeqInv, TypeOK
  <2>2. BuildOK(p)' /\ JobOK(p)' /\ ResultOK(p)'
    BY <1>1, <2>1 DEF OpInv, BuildOK, Linking, Follows, Quiet, JobOK, View, Helping, ResultOK
  <2>3. LinkNode(p)' = LinkNode(p)
    BY <1>1 DEF LinkNode, LinkIndex
  <2>4. LlxOK(p)'
    BY <1>1, <1>3, <2>1, <2>3 DEF OpInv, LlxOK, Decided, Live, Quiet
  <2> QED BY <1>1, <2>1, <2>2, <2>4, QuietFrame
<1> QED BY <1>2, <1>3

\* The second read of scxPtr: the record is linked as it was since the first.
LEMMA LlxValidateOp ==
    ASSUME SeqInv, SeqInv', OpInv, NEW p \in Threads, LlxValidate(p) PROVE OpInv' /\ SharedStep
<1> USE DEF LlxValidate
<1>1. PICK deps \in Seq(Frozen), n \in Nodes, k \in Nat, x \in Handle, fin \in BOOLEAN :
         /\ deps = desc[p].deps /\ n = LinkNode(p) /\ k = LinkIndex(p)
         /\ x = llx[p].tag /\ fin = plan[p][k].finalize
         /\ k = Len(deps) + 1 /\ k \in 1..Len(plan[p]) /\ n = plan[p][k].node
  <2>1. /\ LinkNode(p) \in Nodes /\ plan[p][LinkIndex(p)] \in Dep
        /\ LinkIndex(p) \in 1..Len(plan[p])
    BY LinkType DEF SeqInv
  <2>2. desc[p].deps \in Seq(Frozen)
    BY DescriptorType DEF SeqInv, TypeOK, Tids
  <2>3. llx[p].tag \in Handle
    BY LocalsType DEF SeqInv, TypeOK
  <2>4. plan[p][LinkIndex(p)].finalize \in BOOLEAN
    BY <2>1 DEF Dep
  <2>5. LinkIndex(p) = Len(desc[p].deps) + 1 /\ Len(desc[p].deps) \in Nat
    BY <2>2 DEF LinkIndex
  <2>6. LinkIndex(p) \in Nat
    BY <2>5
  <2> QED BY <2>1, <2>2, <2>3, <2>4, <2>5, <2>6 DEF LinkNode
<1>2. ~Odd(desc[p].seq) /\ desc[p] \in Descriptor /\ p \in Tids
    BY DEF SeqInv, TypeOK, Tids, ParityOK, Helping
<1>3. CASE scxPtr[n] # x
  <2>1. Quiet
    BY <1>1, <1>3 DEF Quiet
  <2> QED BY <1>1, <1>2, <1>3, <2>1, QuietShared, FailedOp
<1>4. CASE scxPtr[n] = x
  <2>1. PICK dep \in Frozen : dep = [node |-> n, finalize |-> fin, seen |-> x]
    BY DEF Frozen
  <2>2. PICK all \in Seq(Frozen) : all = Append(deps, dep)
    <3>1. Append(deps, dep) \in Seq(Frozen)
      OBVIOUS
    <3> QED BY <3>1
  <2>3. desc' = [desc EXCEPT ![p] = [desc[p] EXCEPT !.deps = all]]
    BY <1>1, <1>4, <2>1, <2>2
  <2>4. /\ desc'[p].deps = all /\ desc'[p].seq = desc[p].seq
        /\ desc'[p].old = desc[p].old /\ desc'[p].state = desc[p].state
        /\ desc'[p].allFrozen = desc[p].allFrozen
        /\ \A q \in Tids \ {p} : desc'[q] = desc[q]
    BY <1>2, <2>3 DEF SeqInv, TypeOK, Descriptor
  <2>5. /\ pc'[p] = IF k = 1 THEN "readField" ELSE AfterLink(p, k)
        /\ UNCHANGED <<plan, child, job, ret>>
        /\ link'[p] = link[p] \cup {<<n, ver[n]>>}
        /\ \A q \in Threads \ {p} : Aside(q)
    <3> DEFINE after == IF k = 1 THEN "readField" ELSE AfterLink(p, k)
    <3>1. /\ pc' = [pc EXCEPT ![p] = after]
          /\ link' = [link EXCEPT ![p] = @ \cup {<<n, ver[n]>>}]
          /\ llx' = [llx EXCEPT ![p] = NoLlx]
          /\ UNCHANGED <<plan, child, job, ret>>
      BY <1>1, <1>4, Zenon DEF Goto
    <3>2. pc \in [Threads -> Labels] /\ link \in [Threads -> SUBSET (Nodes \X Handle)]
          /\ llx \in [Threads -> Locals]
      BY DEF SeqInv, TypeOK
    <3> HIDE DEF LlxValidate, after
    <3>3. pc'[p] = after /\ link'[p] = link[p] \cup {<<n, ver[n]>>}
      BY <3>1, <3>2
    <3>4. \A q \in Threads \ {p} : UNCHANGED <<pc[q], llx[q], link[q]>>
      BY <3>1, <3>2
    <3> QED BY <2>4, <3>3, <3>4, <3>1 DEF Aside, Tids, after
  <2>6. Quiet
    BY <1>2, <1>4, <2>4, <2>5 DEF Quiet, Aside, Tids
  <2>7. /\ \A i \in DOMAIN deps : all[i] = deps[i]
        /\ all[k] = dep
        /\ DOMAIN all = DOMAIN deps \cup {k}
        /\ Len(all) = k
        /\ DOMAIN deps = 1..(k - 1)
    <3> HIDE DEF LlxValidate
    <3>1. deps \in Seq(Frozen) /\ k = Len(deps) + 1 /\ dep \in Frozen /\ all = Append(deps, dep)
      BY <1>1, <2>2
    <3>2. Len(deps) \in Nat /\ DOMAIN deps = 1..Len(deps)
      BY <3>1
    <3>3. Len(all) = Len(deps) + 1 /\ all \in Seq(Frozen)
      BY <3>1
    <3>4. DOMAIN all = 1..(Len(deps) + 1)
      BY <3>3
    <3>5. \A i \in 1..Len(deps) : all[i] = deps[i]
      BY <3>1, <3>2
    <3>6. all[Len(deps) + 1] = dep
      BY <3>1, <3>2
    <3> QED BY <3>1, <3>2, <3>3, <3>4, <3>5, <3>6
  <2>8. LinksOK(all)'
    <3>1. LinksOK(deps)'
      BY <1>1, <1>2, <2>6, QuietShared, LinksStay DEF OpInv, DescOK
    <3>2. LinkOK(n, x)
      BY <1>1, <1>4 DEF OpInv, LlxOK, LinkOK
    <3>3. LinkOK(n, x)'
      BY <2>6, <3>2, QuietShared, LinkStays DEF LinkOK, OpInv, NodeOK
    <3>4. dep.node = n /\ dep.seen = x
      BY <2>1
    <3> QED BY <2>7, <3>1, <3>3, <3>4 DEF LinksOK
  <2>9. DescOK(p)' /\ PendingOK(p)'
    BY <1>2, <2>4, <2>6, <2>8, QuietShared, DescStays, PendingStays DEF OpInv, Shared
  <2>10. BuildOK(p)'
    <3>1. BuildOK(p) /\ Linking(p)
      BY DEF OpInv, Linking
    <3>2. Follows(all, plan[p])
      <4>1. Follows(deps, plan[p])
        BY <1>1, <3>1 DEF BuildOK
      <4>2. dep.node = n /\ dep.finalize = fin
        BY <2>1
      <4>4. all[k].node = plan[p][k].node /\ all[k].finalize = plan[p][k].finalize
        BY <1>1, <2>7, <4>2
      <4>5. k <= Len(plan[p])
        BY <1>1
      <4>3. \A i \in DOMAIN all : i \in DOMAIN deps \/ i = k
        BY <2>7
      <4> QED BY <2>7, <4>1, <4>3, <4>4, <4>5 DEF Follows
    <3>3. pc'[p] = "execute" => Len(all) = Len(plan[p])
      BY <2>5, <2>7 DEF AfterLink
    <3>4. pc'[p] # "readField" /\ scxPtr[all[1].node] = all[1].seen =>
             val[all[1].node] = child[p]
      <4>1. k # 1 => Len(deps) > 0 /\ all[1] = deps[1]
        BY <1>1, <2>7
      <4> QED BY <1>1, <2>5, <3>1, <4>1 DEF BuildOK
    <3>5. ASSUME NEW i \in DOMAIN all, scxPtr[all[i].node] = all[i].seen
          PROVE  <<all[i].node, ver[all[i].node]>> \in link'[p]
      <4>1. CASE i \in DOMAIN deps
        BY <1>1, <2>5, <2>7, <3>1, <3>5, <4>1 DEF BuildOK
      <4>2. CASE i = k
        BY <2>1, <2>5, <2>7, <4>2
      <4> QED BY <2>7, <4>1, <4>2
    <3>6. child[p] \in done \cup {InitHandle} /\ plan[p] \in Footprints[p]
      BY <3>1 DEF BuildOK
    <3> QED BY <2>4, <2>5, <2>6, <3>2, <3>3, <3>4, <3>5, <3>6 DEF BuildOK, Follows, Quiet
  <2>11. LlxOK(p)' /\ JobOK(p)' /\ ResultOK(p)'
    BY <2>5 DEF AfterLink, LlxOK, JobOK, View, Helping, ResultOK
  <2> QED BY <2>5, <2>6, <2>9, <2>10, <2>11, QuietShared, Frame
<1> QED BY <1>3, <1>4

\* A copy whose sequence number is the one of the handle describes the operation.
LEMMA SnapCopyOp ==
    ASSUME SeqInv, SeqInv', OpInv, NEW p \in Threads, SnapCopy(p) PROVE OpInv' /\ SharedStep
<1> USE DEF SnapCopy
<1>1. PICK x \in Handle : x = llx[p].tag
    BY LocalsType DEF SeqInv, TypeOK
<1>2. /\ x # InitHandle /\ Published(x) /\ x.tid \in Threads /\ Odd(x.seq)
      /\ \E n \in Nodes : x \in past[n]
    BY <1>1, LinkType
    DEF SeqInv, ParityOK, HelperOK, HandlesPublished, Published, OpInv, LlxOK
<1>3. /\ job'[p].tag = x /\ job'[p].seq = desc[x.tid].seq
      /\ job'[p].deps = desc[x.tid].deps /\ job'[p].old = desc[x.tid].old
      /\ pc'[p] = "snapCheck" /\ desc' = desc
      /\ \A q \in Threads \ {p} : Aside(q)
    BY <1>1 DEF Aside, SeqInv, TypeOK
<1>4. Quiet
    BY DEF Quiet
<1>5. ASSUME View(p)'
      PROVE  /\ Op(x, desc[x.tid].deps, desc[x.tid].old)
             /\ x \in past[desc[x.tid].deps[1].node]
  <2>1. desc[x.tid].seq = x.seq
    BY <1>3, <1>5 DEF View, Helping
  <2>2. x = Tag(x.tid) /\ DescOK(x.tid)
    BY <1>2, <2>1 DEF Tag, Handle, OpInv
  <2> QED BY <1>2, <2>1, <2>2 DEF DescOK
<1>6. JobOK(p)'
  <2>1. View(p)' => Op(x, desc[x.tid].deps, desc[x.tid].old)'
    <3> SUFFICES ASSUME View(p)' PROVE Op(x, desc[x.tid].deps, desc[x.tid].old)'
        OBVIOUS
    <3>1. PICK deps \in Seq(Frozen), old \in Handle :
             deps = desc[x.tid].deps /\ old = desc[x.tid].old
      BY <1>2, DescriptorType DEF SeqInv, TypeOK, Tids
    <3>2. Op(x, deps, old)'
      BY <1>2, <1>4, <1>5, <3>1, QuietShared, OpStays DEF OpInv, Describes
    <3> QED BY <1>3, <3>1, <3>2
  <2>2. View(p)' => job'[p].tag \in past'[job'[p].deps[1].node]
    BY <1>3, <1>4, <1>5
  <2> QED BY <1>3, <2>1, <2>2 DEF JobOK, Helping
<1>7. BuildOK(p)' /\ LlxOK(p)' /\ ResultOK(p)'
    BY <1>3 DEF OpInv, BuildOK, Linking, LlxOK, ResultOK
<1> QED BY <1>3, <1>4, <1>6, <1>7, QuietFrame

\* A helper of another thread starts at the second record: the first one is where
\* it found the handle.
LEMMA SnapCheckOp ==
    ASSUME SeqInv, SeqInv', OpInv, NEW p \in Threads, SnapCheck(p) PROVE OpInv' /\ SharedStep
<1> USE DEF SnapCheck
<1>1. Quiet /\ desc' = desc /\ ~Odd(desc[p].seq) /\ UNCHANGED <<plan, link>>
    BY DEF Quiet, SeqInv, ParityOK, Helping
<1>2. CASE ~Live(job[p].tag)
    BY <1>1, <1>2, FailedOp, QuietShared
<1>3. CASE Live(job[p].tag)
  <2>1. /\ pc'[p] = HelpFrom(2, job[p].deps) /\ UNCHANGED <<child, llx, job>>
        /\ \A q \in Threads \ {p} : Aside(q)
    BY <1>3 DEF Aside, SeqInv, TypeOK
  <2>2. View(p) /\ job[p].other /\ job[p].i = 2
    <3>1. /\ job[p].tag # InitHandle /\ Published(job[p].tag)
          /\ job[p].tag.seq <= job[p].seq /\ job[p].other
          /\ job[p].seq <= desc[job[p].tag.tid].seq /\ job[p].i = 2
      BY DEF SeqInv, TypeOK, IndexOK, ParityOK, HelperOK, HandlesPublished
    <3>2. job[p].tag.seq \in Nat /\ job[p].seq \in Nat
      BY JobType DEF SeqInv, TypeOK, Handle
    <3> QED BY <1>3, <3>1, <3>2 DEF Live, View
  <2>3. PICK h \in Handle, deps \in Seq(Frozen), old \in Handle :
              /\ h = job[p].tag /\ deps = job[p].deps /\ old = job[p].old
              /\ Op(h, deps, old) /\ Op(h, deps, old)'
              /\ Describes(h, deps, old)'
    BY <1>1, <2>2, ViewStays, QuietShared DEF OpInv, Shared
  <2>4. /\ h \in past'[deps[1].node]
        /\ Len(deps) < 2 => AllPast(h, deps)'
    BY <1>1, <2>2, <2>3 DEF OpInv, JobOK, Quiet, AllPast, Op, Shape
  <2>5. JobOK(p)'
    BY <2>1, <2>2, <2>3, <2>4 DEF JobOK, HelpFrom, Describes, View, Helping
  <2>6. BuildOK(p)' /\ LlxOK(p)' /\ ResultOK(p)'
    BY <2>1 DEF HelpFrom, OpInv, BuildOK, Linking, LlxOK, ResultOK
  <2> QED BY <1>1, <2>1, <2>5, <2>6, QuietFrame
<1> QED BY <1>2, <1>3

-----------------------------------------------------------------------------
(***************************************************************************)
(* The steps that publish, help and retire an operation keep the invariant *)
(* of operations; the outcome of an operation, the answer of scxExecute    *)
(* and the records an update finalized are what they should be; and so the *)
(* provider implements atomic LLX and SCX.                                 *)
(***************************************************************************)
USE DEF State, InProgress, Committed, Aborted, Labels, LlxLabels, HelpLabels, NodeLabels,
        At, Goto, nodeVars, ghostVars

\* A handle that is not published yet is in no history.
LEMMA FreshTag ==
    ASSUME SeqInv, OpInv, NEW p \in Threads, NEW h \in Handle,
           h.tid = p, h.seq = desc[p].seq + 1
    PROVE  /\ h # InitHandle /\ h \notin done
           /\ \A n \in Nodes : h \notin past[n] /\ scxPtr[n] # h
<1>1. desc[p].seq \in Nat /\ p # DummyTid
    BY DescriptorType, ThreadsAssumption DEF SeqInv, TypeOK, Tids
<1>2. h # InitHandle
    BY <1>1 DEF InitHandle
<1>3. ~Published(h)
    BY <1>1, <1>2 DEF Published
<1> QED BY <1>2, <1>3 DEF OpInv, DoneOK, NodeOK

\* The descriptor is published with the records and the old value it was built
\* with, which are still what the thread read unless a record was taken.
LEMMA ExecuteOp ==
    ASSUME SeqInv, SeqInv', OpInv, NEW p \in Threads, Execute(p) PROVE OpInv' /\ SharedStep
<1> USE DEF Execute
<1>1. ~Odd(desc[p].seq) /\ desc[p].seq \in Nat /\ desc[p] \in Descriptor /\ p \in Tids
    BY DescriptorType DEF SeqInv, TypeOK, Tids, ParityOK, Helping
<1>2. /\ desc'[p].seq = desc[p].seq + 1 /\ desc'[p].old = child[p]
      /\ desc'[p].deps = desc[p].deps /\ desc'[p].state = desc[p].state
      /\ desc'[p].allFrozen = desc[p].allFrozen
      /\ \A q \in Tids \ {p} : desc'[q] = desc[q]
    BY <1>1 DEF SeqInv, TypeOK, Descriptor
<1>3. PICK h \in Handle, deps \in Seq(Frozen), old \in Handle, fp \in Footprints[p] :
         /\ h = [tid |-> p, seq |-> desc[p].seq + 1]
         /\ deps = desc[p].deps /\ old = child[p] /\ fp = plan[p]
  <2>1. [tid |-> p, seq |-> desc[p].seq + 1] \in Handle
    BY <1>1 DEF Handle
  <2>2. desc[p].deps \in Seq(Frozen) /\ child[p] \in Handle
    BY <1>1, DescriptorType DEF SeqInv, TypeOK
  <2>3. plan[p] \in Footprints[p]
    BY DEF OpInv, BuildOK, Linking
  <2> QED BY <2>1, <2>2, <2>3
<1>4. /\ pc'[p] = "freeze" /\ child'[p] = child[p] /\ plan'[p] = fp /\ link' = link
      /\ job'[p] = [tag |-> h, seq |-> desc[p].seq + 1, deps |-> deps,
                    old |-> old, i |-> 1, other |-> FALSE]
      /\ \A q \in Threads \ {p} : Aside(q)
    BY <1>2, <1>3 DEF Aside, SeqInv, TypeOK, Tids
<1>5. SharedStep
  <2>1. OutcomeStep(p)
    BY <1>1, <1>2 DEF OutcomeStep
  <2>2. ASSUME NEW q \in Threads \ {p} PROVE OutcomeStep(q)
    BY <1>2, <1>4 DEF OutcomeStep, Aside, Tids
  <2> QED BY <2>1, <2>2 DEF SharedStep, FreezeStep, MarkStep
<1>6. /\ h # InitHandle /\ h \notin done
      /\ \A n \in Nodes : h \notin past[n] /\ scxPtr[n] # h
    BY <1>3, FreshTag
<1>7. Tag(p)' = h /\ Odd(desc'[p].seq) /\ desc[p].state = InProgress /\ ~desc[p].allFrozen
    BY <1>1, <1>2, <1>3, OddNext DEF Tag, OpInv, DescOK
<1>8. /\ Len(deps) = Len(fp) /\ Follows(deps, fp)
      /\ old \in done \cup {InitHandle}
      /\ scxPtr[deps[1].node] = deps[1].seen => val[deps[1].node] = old
      /\ \A i \in DOMAIN deps : scxPtr[deps[i].node] = deps[i].seen =>
            <<deps[i].node, ver[deps[i].node]>> \in link[p]
  <2>1. BuildOK(p) /\ Linking(p) /\ Len(deps) > 0
    <3>1. Len(deps) + 1 > 1
      BY <1>3 DEF SeqInv, TypeOK, IndexOK, LinkIndex
    <3>2. \A s \in Seq(Frozen) : Len(s) \in Nat
      OBVIOUS
    <3> QED BY <3>1, <3>2 DEF OpInv, Linking
  <2> QED BY <1>3, <2>1 DEF BuildOK
<1>9. Shape(deps)
  <2>1. fp \in Seq(Dep) /\ Len(fp) > 0 /\ ~fp[1].finalize
        /\ \A i, j \in DOMAIN fp : fp[i].node = fp[j].node => i = j
    BY FootprintsAssumption
  <2>2. DOMAIN deps = DOMAIN fp /\ 1 \in DOMAIN fp
    BY <1>8, <2>1
  <2> QED BY <1>8, <2>1, <2>2 DEF Shape, Follows
<1>10. LinksOK(deps)'
  <2>1. LinksOK(deps)
    BY <1>1, <1>3 DEF OpInv, DescOK
  <2> QED BY <1>5, <2>1, LinksStay DEF OpInv
<1>11. Op(h, deps, old)'
  <2>1. ~Decided(h)'
    BY <1>2, <1>3, <1>7 DEF Decided, Live
  <2> QED BY <1>6, <1>8, <1>9, <1>10, <2>1, DepsType DEF Op
<1>12. DescOK(p)'
  <2>1. /\ desc'[p].deps = deps /\ desc'[p].old = old
        /\ ~desc'[p].allFrozen /\ desc'[p].state = "inprogress"
    BY <1>2, <1>3, <1>7
  <2>2. \A n \in Nodes : h \notin past'[n]
    BY <1>6
  <2>3. plan'[p] \in Footprints[p] /\ Len(deps) = Len(plan'[p])
        /\ Follows(deps, plan'[p])
    BY <1>4, <1>8
  <2> QED BY <1>7, <1>11, <2>1, <2>2, <2>3 DEF DescOK, Follows
<1>13. PendingOK(p)'
  <2>1. \A i \in DOMAIN deps : deps[i].node \in Nodes
    BY DepsType
  <2>2. 1 \in DOMAIN deps
    BY <1>9, DepsType
  <2>3. /\ \A n \in Nodes : h \notin past'[n] /\ scxPtr'[n] # h
        /\ scxPtr' = scxPtr /\ val' = val /\ ver' = ver
    BY <1>6
  <2>4. /\ scxPtr'[deps[1].node] \in {deps[1].seen, h} => val'[deps[1].node] = old
        /\ \A i \in DOMAIN deps : scxPtr'[deps[i].node] \in {deps[i].seen, h} =>
              <<deps[i].node, ver'[deps[i].node]>> \in link'[p]
    BY <1>4, <1>8, <2>1, <2>2, <2>3
  <2>5. desc'[p].deps = deps /\ desc'[p].old = old
    BY <1>2, <1>3
  <2> HIDE DEF Execute
  <2> QED BY <1>7, <2>3, <2>4, <2>5 DEF PendingOK
<1>14. BuildOK(p)' /\ LlxOK(p)' /\ ResultOK(p)'
    BY <1>4, <1>3, <1>8 DEF BuildOK, Linking, LlxOK, ResultOK
<1>15. JobOK(p)'
  <2>1. Live(h)' => deps = desc'[h.tid].deps /\ old = desc'[h.tid].old
    BY <1>2, <1>3
  <2> QED BY <1>4, <1>7, <1>11, <2>1, DepsType DEF JobOK, View, Helping
<1> QED BY <1>4, <1>5, <1>12, <1>13, <1>14, <1>15, Frame

-----------------------------------------------------------------------------
(***************************************************************************)
(* Helping                                                                 *)
(***************************************************************************)

\* A step of help, or the end of one, keeps the invariant when it keeps what
\* the helper knows of the operation and what it tells its caller.
LEMMA HelpFrame ==
    ASSUME SeqInv, SeqInv', OpInv, NEW p \in Threads, SharedStep,
           \A q \in Threads \ {p} : Aside(q),
           desc'[p].seq = desc[p].seq, desc'[p].deps = desc[p].deps,
           child'[p] \in {child[p], InitHandle},
           pc'[p] \in HelpLabels \cup {"retire", "idle"},
           JobOK(p)', ResultOK(p)'
    PROVE  OpInv' /\ SharedStep
<1>1. LinksOK(desc[p].deps) => LinksOK(desc[p].deps)'
  <2>1. desc[p].deps \in Seq(Frozen)
    BY DescriptorType DEF SeqInv, TypeOK, Tids
  <2>2. \A d \in Seq(Frozen) : LinksOK(d) => LinksOK(d)'
    BY LinksStay DEF OpInv
  <2> QED BY <2>1, <2>2
<1>2. ~Odd(desc[p].seq) => LinksOK(desc[p].deps)
  BY DEF OpInv, DescOK
<1>3. DescOK(p)' /\ PendingOK(p)'
  BY <1>1, <1>2, DescStays, PendingStays DEF OpInv, Shared
<1>4. BuildOK(p)' /\ LlxOK(p)'
  <2>1. done \subseteq done'
    BY DEF SharedStep, UpdateStep
  <2>2. child[p] \in done \cup {InitHandle}
    BY DEF OpInv, BuildOK
  <2>3. child'[p] \in done' \cup {InitHandle}
    BY <2>1, <2>2
  <2>4. ~Linking(p)' /\ pc'[p] \notin {"llxState", "llxUnmarked", "llxValidate", "snapCopy"}
    BY DEF Linking
  <2> QED BY <2>3, <2>4 DEF BuildOK, LlxOK
<1> QED BY <1>3, <1>4, Frame

\* A helper goes on to the next record once the operation has all those up to
\* the current one.
LEMMA NextNodeJob ==
    ASSUME SeqInv, SeqInv', OpInv, SharedStep,
           NEW p \in Threads, pc[p] \in NodeLabels, NextNode(p), desc'[p].seq = desc[p].seq,
           Current(p).node \in Nodes => job[p].tag \in past'[Current(p).node]
    PROVE  JobOK(p)'
<1>1. PICK h \in Handle, deps \in Seq(Frozen), old \in Handle :
              /\ h = job[p].tag /\ deps = job[p].deps /\ old = job[p].old
              /\ Op(h, deps, old)'
              /\ Describes(h, deps, old)'
    BY ViewStays DEF OpInv, Shared, View, Helping
<1>2. PICK i \in Nat : i = job[p].i /\ i \in 1..Len(deps)
    BY <1>1, CurrentType DEF SeqInv
<1>3. /\ pc'[p] = HelpFrom(i + 1, deps)
      /\ job'[p] = [job[p] EXCEPT !.i = i + 1] /\ job[p] \in Job
    BY <1>1, <1>2 DEF NextNode, SeqInv, TypeOK
<1>4. /\ job'[p].tag = h /\ job'[p].deps = deps /\ job'[p].old = old
      /\ job'[p].i = i + 1 /\ job'[p].other = job[p].other
    BY <1>1, <1>3, JobIndex DEF Job
<1>5. ASSUME NEW j \in DOMAIN deps, j < i + 1 PROVE h \in past'[deps[j].node]
  <2>1. deps[j].node \in Nodes
    BY DepsType
  <2>2. CASE j = i
    BY <1>1, <1>2, <2>1, <2>2 DEF Current
  <2>3. CASE j < i
    <3>1. h \in past[deps[j].node]
      BY <1>1, <1>2, <2>3 DEF OpInv, JobOK
    <3> QED BY <2>1, <3>1 DEF SharedStep, FreezeStep
  <2> QED BY <1>2, <1>5, <2>2, <2>3
<1>6. i + 1 > Len(deps) => AllPast(h, deps)'
  <2>1. i + 1 > Len(deps) => \A j \in DOMAIN deps : j < i + 1
    BY <1>2
  <2> QED BY <1>5, <2>1 DEF AllPast
<1>7. Helping(p) /\ ~job[p].other => h = Tag(p)'
    BY <1>1 DEF OpInv, JobOK, Tag
<1>8. CASE i + 1 <= Len(deps)
  <2>1. pc'[p] = "freeze"
    BY <1>3, <1>8 DEF HelpFrom
  <2> QED BY <1>1, <1>4, <1>5, <1>7, <2>1 DEF JobOK, Describes, View, Helping
<1>9. CASE ~(i + 1 <= Len(deps))
  <2>1. pc'[p] = "setFrozen" /\ AllPast(h, deps)'
    <3>1. i + 1 > Len(deps)
      BY <1>2, <1>9
    <3> QED BY <1>3, <1>6, <1>9, <3>1 DEF HelpFrom
  <2> QED BY <1>1, <1>4, <1>7, <2>1 DEF JobOK, Describes, View, Helping
<1> QED BY <1>8, <1>9

\* The freezing CAS only succeeds while the operation is pending.
LEMMA FreezeOp ==
    ASSUME SeqInv, SeqInv', OpInv, NEW p \in Threads, Freeze(p) PROVE OpInv' /\ SharedStep
<1> USE DEF Freeze
<1>1. /\ pc[p] = "freeze" /\ desc' = desc /\ UNCHANGED <<plan, child, link>>
      /\ \A q \in Threads \ {p} : Aside(q)
    BY DEF Aside, NextNode, SeqInv, TypeOK
<1>2. PICK h \in Handle, deps \in Seq(Frozen), old \in Handle, i \in Nat :
              /\ h = job[p].tag /\ deps = job[p].deps /\ old = job[p].old
              /\ i = job[p].i /\ i \in DOMAIN deps
              /\ h # InitHandle /\ Published(h)
              /\ Op(h, deps, old) /\ Describes(h, deps, old)
              /\ Current(p) = deps[i]
              /\ \A j \in DOMAIN deps : j < i => h \in past[deps[j].node]
  <2>1. View(p) /\ JobOK(p)
    BY <1>1 DEF View, Helping, OpInv
  <2>2. job[p].i \in DOMAIN job[p].deps
    BY <1>1 DEF SeqInv, TypeOK, IndexOK
  <2> QED BY <1>1, <2>1, <2>2, ViewType DEF JobOK, Describes, Current
<1>3. /\ deps[i].node \in Nodes /\ deps[i].seen \in Handle /\ 1 \in DOMAIN deps
    BY <1>2, DepsType DEF Op
<1>4. CASE scxPtr[deps[i].node] # deps[i].seen
  <2>1. /\ pc'[p] = "reread" /\ job' = job /\ Quiet
    BY <1>2, <1>4 DEF Quiet, SeqInv, TypeOK
  <2>2. JobOK(p)'
    <3>1. PICK g \in Handle, d \in Seq(Frozen), o \in Handle :
              /\ g = job[p].tag /\ d = job[p].deps /\ o = job[p].old
              /\ Op(g, d, o)' /\ Describes(g, d, o)'
      BY <1>1, <2>1, QuietShared, ViewStays DEF OpInv, Shared, View, Helping
    <3>2. g = h /\ d = deps /\ o = old
      BY <1>2, <3>1
    <3>3. Helping(p) /\ ~job[p].other => h = Tag(p)'
      BY <1>1, <1>2 DEF OpInv, JobOK, Tag
    <3>4. scxPtr'[deps[i].node] # deps[i].seen /\ past' = past
      BY <1>2, <1>4
    <3> QED BY <1>1, <1>2, <2>1, <3>1, <3>2, <3>3, <3>4 DEF JobOK, Describes, View, Helping
  <2>3. ResultOK(p)'
    BY <2>1 DEF ResultOK
  <2> QED BY <1>1, <2>1, <2>2, <2>3, QuietShared, HelpFrame
<1>5. CASE scxPtr[deps[i].node] = deps[i].seen
  <2> DEFINE n == deps[i].node
  <2>1. /\ scxPtr' = [scxPtr EXCEPT ![n] = h]
        /\ past' = [past EXCEPT ![n] = past[n] \cup {h}]
        /\ NextNode(p) /\ UNCHANGED <<marked, val, ret, done, ver>>
    BY <1>2, <1>5
  <2>2. h \notin past[n]
    BY <1>2, <1>5 DEF Op
  <2>3. ~Decided(h) /\ h \notin done
    <3>1. ~AllPast(h, deps)
      BY <1>2, <2>2 DEF AllPast
    <3>2. ~Doomed(h, deps)
      <4> SUFFICES ASSUME NEW k \in DOMAIN deps,
                          h \notin past[deps[k].node], scxPtr[deps[k].node] # deps[k].seen,
                          \A j \in DOMAIN deps : j < k => h \in past[deps[j].node]
                   PROVE  FALSE
          BY DEF Doomed
      <4>1. k # i /\ ~(k < i) /\ ~(i < k)
          BY <1>2, <1>5, <2>2
      <4>2. k \in Nat /\ i \in Nat
          OBVIOUS
      <4> QED BY <4>1, <4>2
    <3> QED BY <1>2, <3>1, <3>2 DEF Op
  <2>4. PICK t \in Threads : Pending(t) /\ h = Tag(t) /\ deps = desc[t].deps
    <3>1. h.tid \in Threads /\ Pending(h.tid) /\ h = Tag(h.tid)
      BY <1>2, <2>3, OpenOp
    <3> QED BY <1>2, <3>1 DEF Describes, Live, Tag
  <2>5. FreezeStep(n)
    <3>1. i = 1 \/ h \in past[deps[1].node]
      BY <1>2, <1>3
    <3>2. scxPtr'[n] = h /\ past'[n] = past[n] \cup {h}
      BY <1>3, <2>1 DEF SeqInv, TypeOK
    <3> QED BY <1>2, <1>5, <2>2, <2>3, <2>4, <3>1, <3>2 DEF FreezeStep
  <2>6. \A m \in Nodes \ {n} : scxPtr'[m] = scxPtr[m] /\ past'[m] = past[m]
    BY <2>1 DEF SeqInv, TypeOK
  <2>7. SharedStep
    BY <1>1, <2>1, <2>5, <2>6 DEF SharedStep, FreezeStep, MarkStep, OutcomeStep
  <2>8. job[p].tag \in past'[Current(p).node] /\ pc'[p] \in {"freeze", "setFrozen"}
    BY <1>2, <1>3, <2>1 DEF NextNode, HelpFrom, SeqInv, TypeOK
  <2>9. JobOK(p)'
    BY <1>1, <2>1, <2>7, <2>8, NextNodeJob
  <2>10. ResultOK(p)'
    BY <2>8 DEF ResultOK
  <2> QED BY <1>1, <2>7, <2>8, <2>9, <2>10, HelpFrame
<1> QED BY <1>4, <1>5

\* A record that a helper did not find frozen for the operation was lost to
\* another, unless the operation is decided.
LEMMA FreezeRereadOp ==
    ASSUME SeqInv, SeqInv', OpInv, NEW p \in Threads, FreezeReread(p) PROVE OpInv' /\ SharedStep
<1> USE DEF FreezeReread
<1>1. /\ pc[p] = "reread" /\ desc' = desc /\ UNCHANGED <<plan, child, link>>
      /\ \A q \in Threads \ {p} : Aside(q)
      /\ Quiet
    BY DEF Aside, NextNode, SeqInv, TypeOK, Quiet
<1>2. PICK h \in Handle, deps \in Seq(Frozen), old \in Handle, i \in Nat :
              /\ h = job[p].tag /\ deps = job[p].deps /\ old = job[p].old
              /\ i = job[p].i /\ i \in DOMAIN deps
              /\ Published(h) /\ Describes(h, deps, old)
              /\ Current(p) = deps[i] /\ deps[i].node \in Nodes
              /\ scxPtr[deps[i].node] # deps[i].seen
              /\ \A j \in DOMAIN deps : j < i => h \in past[deps[j].node]
  <2>1. View(p) /\ JobOK(p)
    BY <1>1 DEF View, Helping, OpInv
  <2>2. job[p].i \in DOMAIN job[p].deps
    BY <1>1 DEF SeqInv, TypeOK, IndexOK
  <2> QED BY <1>1, <2>1, <2>2, ViewType, DepsType DEF JobOK, Describes, Current
<1>3. CASE scxPtr[deps[i].node] = h
  <2>1. NextNode(p) /\ past' = past /\ pc'[p] \in {"freeze", "setFrozen"}
    BY <1>2, <1>3 DEF NextNode, HelpFrom, SeqInv, TypeOK
  <2>2. job[p].tag \in past'[Current(p).node]
    BY <1>2, <1>3, <2>1 DEF OpInv, NodeOK
  <2>3. JobOK(p)'
    BY <1>1, <2>1, <2>2, QuietShared, NextNodeJob
  <2>4. ResultOK(p)'
    BY <2>1 DEF ResultOK
  <2> QED BY <1>1, <2>1, <2>3, <2>4, QuietShared, HelpFrame
<1>4. CASE scxPtr[deps[i].node] # h
  <2>1. pc'[p] = "readFrozen" /\ job' = job
    BY <1>2, <1>4 DEF SeqInv, TypeOK
  <2>2. Decided(h) \/ Doomed(h, deps)
    <3> SUFFICES ASSUME ~Decided(h) PROVE Doomed(h, deps)
        OBVIOUS
    <3>1. PICK t \in Threads : Pending(t) /\ h = Tag(t)
      BY <1>2, OpenOp
    <3>2. h \notin past[deps[i].node]
      BY <1>2, <1>4, <3>1 DEF OpInv, PendingOK
    <3> QED BY <1>2, <3>2 DEF Doomed
  <2>3. JobOK(p)'
    <3>1. PICK g \in Handle, d \in Seq(Frozen), o \in Handle :
              /\ g = job[p].tag /\ d = job[p].deps /\ o = job[p].old
              /\ Op(g, d, o)' /\ Describes(g, d, o)'
              /\ Decided(g) => Decided(g)'
              /\ Doomed(g, d) => Doomed(g, d)'
      BY <1>1, QuietShared, ViewStays DEF OpInv, Shared, View, Helping
    <3>2. g = h /\ d = deps /\ o = old
      BY <1>2, <3>1
    <3>3. Helping(p) /\ ~job[p].other => h = Tag(p)'
      BY <1>1, <1>2 DEF OpInv, JobOK, Tag
    <3>4. \A j \in DOMAIN deps : j < i => h \in past'[deps[j].node]
      BY <1>2
    <3> QED BY <1>1, <1>2, <2>1, <2>2, <3>1, <3>2, <3>3, <3>4
            DEF JobOK, Describes, View, Helping
  <2>4. ResultOK(p)'
    BY <2>1 DEF ResultOK
  <2> QED BY <1>1, <2>1, <2>3, <2>4, QuietShared, HelpFrame
<1> QED BY <1>3, <1>4

\* What a helper past the freezing of a record knows of its operation.
LEMMA HelpView ==
    ASSUME SeqInv, OpInv, NEW p \in Threads, Helping(p)
    PROVE  \E h \in Handle, deps \in Seq(Frozen), old \in Handle, i \in Nat :
              /\ h = job[p].tag /\ deps = job[p].deps /\ old = job[p].old /\ i = job[p].i
              /\ h # InitHandle /\ Published(h) /\ h.tid \in Threads /\ Odd(h.seq)
              /\ job[p].seq = h.seq /\ job[p] \in Job
              /\ Op(h, deps, old) /\ Describes(h, deps, old)
              /\ ~job[p].other => h = Tag(p)
              /\ 1 \in DOMAIN deps
<1>1. View(p) /\ JobOK(p)
  BY DEF View, OpInv
<1>2. job[p].seq = job[p].tag.seq /\ job[p] \in Job
  BY DEF SeqInv, ParityOK, TypeOK
<1>3. Op(job[p].tag, job[p].deps, job[p].old) /\ Describes(job[p].tag, job[p].deps, job[p].old)
  BY <1>1 DEF JobOK, Describes
<1>4. 1 \in DOMAIN job[p].deps
  BY <1>1, <1>3, ViewType, DepsType DEF Op
<1>5. job[p].tag.tid \in Threads /\ Odd(job[p].tag.seq)
  BY <1>1, ViewType DEF Published
<1>6. ~job[p].other => job[p].tag = Tag(p)
  BY <1>1 DEF JobOK
<1> QED BY <1>1, <1>2, <1>3, <1>4, <1>5, <1>6, ViewType

\* help returns the outcome of an operation of the caller, or to a failed LLX.
LEMMA HelpReturnsOp ==
    ASSUME SeqInv, SeqInv', OpInv, NEW p \in Threads, Helping(p), SharedStep,
           NEW st \in {Committed, Aborted}, HelpReturns(p, st),
           \A t \in Tids : desc'[t].seq = desc[t].seq /\ desc'[t].deps = desc[t].deps,
           UNCHANGED <<plan, link>>,
           NEW h \in Handle, h = job[p].tag,
           ~job[p].other => /\ Decided(h)'
                            /\ st = Committed => h \in done'
                            /\ st = Aborted => h \notin done'
    PROVE  OpInv' /\ SharedStep
<1>1. \A q \in Threads \ {p} : Aside(q)
  BY DEF HelpReturns, FailedLlx, Return, Aside, SeqInv, TypeOK, Tids
<1>2. desc'[p].seq = desc[p].seq /\ desc'[p].deps = desc[p].deps
  BY DEF Tids
<1>3. CASE job[p].other
  <2>1. /\ pc'[p] = "idle" /\ ret'[p] \in {"failed", "finalized"}
        /\ child'[p] = InitHandle
    BY <1>3 DEF HelpReturns, FailedLlx, Return, SeqInv, TypeOK
  <2>2. JobOK(p)' /\ ResultOK(p)'
    BY <2>1 DEF JobOK, View, Helping, ResultOK
  <2> QED BY <1>1, <1>2, <2>1, <2>2, HelpFrame
<1>4. CASE ~job[p].other
  <2>1. pc'[p] = "retire" /\ ret'[p] = st /\ child' = child
    BY <1>4 DEF HelpReturns, SeqInv, TypeOK
  <2>2. h = Tag(p)' /\ h = Last(p)'
    <3>1. h = Tag(p)
      BY <1>4, HelpView
    <3>2. Odd(desc[p].seq)
      BY <1>4 DEF SeqInv, ParityOK
    <3> QED BY <1>2, <3>1, <3>2 DEF Tag, Last
  <2>3. Decided(h)' <=> Decided(Tag(p))'
    BY <2>2 DEF Decided, Live
  <2>4. JobOK(p)' /\ ResultOK(p)'
    BY <1>4, <2>1, <2>2, <2>3 DEF JobOK, View, Helping, ResultOK
  <2> QED BY <1>1, <1>2, <2>1, <2>4, HelpFrame
<1> QED BY <1>3, <1>4

\* An operation that took effect was not doomed.
LEMMA DoneNotDoomed ==
    ASSUME NEW h, NEW deps, NEW old, Op(h, deps, old), h \in done \/ AllPast(h, deps)
    PROVE  ~Doomed(h, deps) /\ (Decided(h) => h \in done)
BY DEF Op, Doomed, AllPast

\* The exits of help at l.110 to l.117.
LEMMA ReadFrozenOp ==
    ASSUME SeqInv, SeqInv', OpInv, NEW p \in Threads, ReadFrozen(p) PROVE OpInv' /\ SharedStep
<1>1. Helping(p) /\ pc[p] = "readFrozen" /\ UNCHANGED <<nodeVars, desc, plan, ghostVars>>
  BY DEF ReadFrozen, Helping
<1>2. Quiet /\ SharedStep
  <2>1. Quiet
    BY <1>1 DEF Quiet
  <2> QED BY <2>1, QuietShared
<1>3. PICK h \in Handle, deps \in Seq(Frozen), old \in Handle :
              /\ h = job[p].tag /\ deps = job[p].deps /\ old = job[p].old
              /\ h.tid \in Threads /\ Odd(h.seq)
              /\ Op(h, deps, old) /\ Describes(h, deps, old)
              /\ ~job[p].other => h = Tag(p)
  BY <1>1, HelpView
<1>4. Decided(h) \/ Doomed(h, deps)
  BY <1>1, <1>3 DEF OpInv, JobOK
<1>5. Live(h) => /\ h = Tag(h.tid) /\ deps = desc[h.tid].deps /\ Odd(desc[h.tid].seq)
                 /\ DescOK(h.tid)
  BY <1>3 DEF Live, Tag, Handle, Describes, OpInv
<1>6. Decided(h) => Decided(h)'
  BY <1>1 DEF Decided, Live
<1>7. CASE ~Live(h) /\ HelpReturns(p, Aborted)
  <2>1. job[p].other
    BY <1>3, <1>7 DEF Live, Tag
  <2> QED BY <1>1, <1>2, <1>3, <1>7, <2>1, HelpReturnsOp
<1>8. CASE Live(h) /\ desc[h.tid].allFrozen /\ HelpReturns(p, Committed)
  <2>1. AllPast(h, deps)
    BY <1>5, <1>8 DEF DescOK
  <2>2. Decided(h) /\ h \in done'
    BY <1>1, <1>3, <1>4, <2>1, DoneNotDoomed
  <2> QED BY <1>1, <1>2, <1>3, <1>6, <1>8, <2>2, HelpReturnsOp
<1>9. CASE /\ Live(h) /\ ~desc[h.tid].allFrozen
           /\ Goto(p, "abort") /\ UNCHANGED <<child, llx, job, ret>>
  <2>1. Doomed(h, deps)
    <3>1. PICK t \in Threads : t = h.tid /\ h = Tag(t) /\ deps = desc[t].deps
                               /\ Odd(desc[t].seq) /\ DescOK(t) /\ ~desc[t].allFrozen
      BY <1>3, <1>5, <1>9
    <3>2. desc[t].state \in State
      BY <3>1, DescriptorType DEF SeqInv, TypeOK, Tids
    <3>3. desc[t].state = Aborted => Doomed(h, deps)
      BY <3>1 DEF DescOK
    <3>4. desc[t].state # Committed
      BY <3>1 DEF DescOK
    <3>5. Decided(h) => desc[t].state # InProgress
      BY <1>9, <3>1 DEF Decided
    <3> QED BY <1>4, <3>2, <3>3, <3>4, <3>5
  <2>2. pc'[p] = "abort" /\ \A q \in Threads \ {p} : Aside(q)
    BY <1>1, <1>9 DEF Aside, SeqInv, TypeOK
  <2>3. JobOK(p)'
    <3>1. PICK g \in Handle, d \in Seq(Frozen), o \in Handle :
              /\ g = job[p].tag /\ d = job[p].deps /\ o = job[p].old
              /\ Op(g, d, o)' /\ Describes(g, d, o)'
              /\ Doomed(g, d) => Doomed(g, d)'
      BY <1>1, <1>2, ViewStays DEF OpInv, Shared, View
    <3>2. g = h /\ d = deps /\ o = old
      BY <1>3, <3>1
    <3>3. Helping(p) /\ ~job[p].other => h = Tag(p)'
      BY <1>1, <1>3 DEF Tag
    <3>4. \A j \in DOMAIN deps : j < job[p].i => h \in past'[deps[j].node]
      BY <1>1, <1>3 DEF OpInv, JobOK
    <3> QED BY <1>1, <1>9, <2>1, <2>2, <3>1, <3>2, <3>3, <3>4
            DEF JobOK, Describes, View, Helping
  <2>4. ResultOK(p)'
    BY <2>2 DEF ResultOK
  <2> QED BY <1>1, <1>2, <1>9, <2>2, <2>3, <2>4, HelpFrame
<1> QED BY <1>3, <1>7, <1>8, <1>9 DEF ReadFrozen

\* A conditional write of the state or of allFrozen changes nothing else.
LEMMA WriteOp ==
    ASSUME SeqInv, OpInv, NEW p \in Threads, Helping(p),
           NEW st \in {Committed, Aborted}, WriteState(p, st) \/ WriteAllFrozen(p)
    PROVE  \A t \in Tids :
              /\ desc'[t].seq = desc[t].seq /\ desc'[t].deps = desc[t].deps
              /\ desc'[t].old = desc[t].old
              /\ \/ UNCHANGED <<desc[t].state, desc[t].allFrozen>>
                 \/ t = job[p].tag.tid /\ desc[t].seq = job[p].tag.seq
              /\ WriteState(p, st) =>
                    /\ desc'[t].allFrozen = desc[t].allFrozen
                    /\ t = job[p].tag.tid /\ desc[t].seq = job[p].tag.seq => desc'[t].state = st
              /\ WriteAllFrozen(p) =>
                    /\ desc'[t].state = desc[t].state
                    /\ t = job[p].tag.tid /\ desc[t].seq = job[p].tag.seq => desc'[t].allFrozen
<1> SUFFICES ASSUME NEW t \in Tids
             PROVE
              /\ desc'[t].seq = desc[t].seq /\ desc'[t].deps = desc[t].deps
              /\ desc'[t].old = desc[t].old
              /\ \/ UNCHANGED <<desc[t].state, desc[t].allFrozen>>
                 \/ t = job[p].tag.tid /\ desc[t].seq = job[p].tag.seq
              /\ WriteState(p, st) =>
                    /\ desc'[t].allFrozen = desc[t].allFrozen
                    /\ t = job[p].tag.tid /\ desc[t].seq = job[p].tag.seq => desc'[t].state = st
              /\ WriteAllFrozen(p) =>
                    /\ desc'[t].state = desc[t].state
                    /\ t = job[p].tag.tid /\ desc[t].seq = job[p].tag.seq => desc'[t].allFrozen
    OBVIOUS
<1>1. desc[t] \in Descriptor /\ job[p].tag.tid \in Tids
  BY HelpView DEF SeqInv, TypeOK, Tids
<1>2. Unchanged(p) <=> desc[job[p].tag.tid].seq = job[p].tag.seq
  BY HelpView DEF Unchanged
<1>3. WriteState(p, st) => desc'[t] = IF t = job[p].tag.tid /\ desc[t].seq = job[p].tag.seq
                                      THEN [desc[t] EXCEPT !.state = st] ELSE desc[t]
  BY <1>1, <1>2 DEF WriteState, SeqInv, TypeOK
<1>4. WriteAllFrozen(p) => desc'[t] = IF t = job[p].tag.tid /\ desc[t].seq = job[p].tag.seq
                                      THEN [desc[t] EXCEPT !.allFrozen = TRUE] ELSE desc[t]
  BY <1>1, <1>2 DEF WriteAllFrozen, SeqInv, TypeOK
<1>5. CASE t = job[p].tag.tid /\ desc[t].seq = job[p].tag.seq
  BY <1>1, <1>3, <1>4, <1>5 DEF Descriptor
<1>6. CASE ~(t = job[p].tag.tid /\ desc[t].seq = job[p].tag.seq)
  BY <1>3, <1>4, <1>6
<1> QED BY <1>5, <1>6

\* A late abort meets an operation that already lost a record.
LEMMA AbortOp ==
    ASSUME SeqInv, SeqInv', OpInv, NEW p \in Threads, Abort(p) PROVE OpInv' /\ SharedStep
<1>1. /\ Helping(p) /\ pc[p] = "abort" /\ UNCHANGED <<nodeVars, plan, ghostVars>>
      /\ WriteState(p, Aborted) /\ HelpReturns(p, Aborted)
  BY DEF Abort, Helping
<1>2. PICK h \in Handle, deps \in Seq(Frozen), old \in Handle :
              /\ h = job[p].tag /\ deps = job[p].deps /\ old = job[p].old
              /\ h.tid \in Threads /\ Odd(h.seq)
              /\ Op(h, deps, old) /\ Describes(h, deps, old)
  BY <1>1, HelpView
<1>3. Doomed(h, deps)
  BY <1>1, <1>2 DEF OpInv, JobOK
<1>4. \A t \in Tids :
         /\ desc'[t].seq = desc[t].seq /\ desc'[t].deps = desc[t].deps
         /\ desc'[t].old = desc[t].old /\ desc'[t].allFrozen = desc[t].allFrozen
         /\ \/ desc'[t].state = desc[t].state
            \/ t = h.tid /\ desc[t].seq = h.seq
         /\ t = h.tid /\ desc[t].seq = h.seq => desc'[t].state = Aborted
  BY <1>1, <1>2, WriteOp
<1>5. SharedStep
  <2>1. ASSUME NEW t \in Threads PROVE OutcomeStep(t)
    <3>1. CASE desc'[t].state = desc[t].state
      BY <1>1, <1>4, <3>1 DEF OutcomeStep, Tids
    <3>2. CASE t = h.tid /\ desc[t].seq = h.seq
      <4>1. h = Tag(t) /\ deps = desc[t].deps
        BY <1>2, <3>2 DEF Tag, Handle, Describes, Live
      <4> QED BY <1>1, <1>2, <1>3, <1>4, <3>2, <4>1 DEF OutcomeStep, Tids
    <3> QED BY <1>4, <3>1, <3>2 DEF Tids
  <2> QED BY <1>1, <2>1 DEF SharedStep, FreezeStep, MarkStep
<1>6. Decided(h)' /\ h \notin done'
  <2>1. h \notin done
    BY <1>2, <1>3, DoneNotDoomed
  <2>2. desc'[h.tid].seq = h.seq => desc'[h.tid].state = Aborted
    BY <1>2, <1>4 DEF Tids
  <2> QED BY <1>1, <2>1, <2>2 DEF Decided, Live
<1> QED BY <1>1, <1>2, <1>4, <1>5, <1>6, HelpReturnsOp

\* The commit follows the update CAS of some helper.
LEMMA CommitOp ==
    ASSUME SeqInv, SeqInv', OpInv, NEW p \in Threads, Commit(p) PROVE OpInv' /\ SharedStep
<1>1. /\ Helping(p) /\ pc[p] = "commit" /\ UNCHANGED <<nodeVars, plan, ghostVars>>
      /\ WriteState(p, Committed) /\ HelpReturns(p, Committed)
  BY DEF Commit, Helping
<1>2. PICK h \in Handle, deps \in Seq(Frozen), old \in Handle :
              /\ h = job[p].tag /\ deps = job[p].deps /\ old = job[p].old
              /\ h.tid \in Threads /\ Odd(h.seq)
              /\ Op(h, deps, old) /\ Describes(h, deps, old)
  BY <1>1, HelpView
<1>3. h \in done /\ (Live(h) => desc[h.tid].allFrozen)
  BY <1>1, <1>2 DEF OpInv, JobOK
<1>4. \A t \in Tids :
         /\ desc'[t].seq = desc[t].seq /\ desc'[t].deps = desc[t].deps
         /\ desc'[t].old = desc[t].old /\ desc'[t].allFrozen = desc[t].allFrozen
         /\ \/ desc'[t].state = desc[t].state
            \/ t = h.tid /\ desc[t].seq = h.seq
         /\ t = h.tid /\ desc[t].seq = h.seq => desc'[t].state = Committed
  BY <1>1, <1>2, WriteOp
<1>5. SharedStep
  <2>1. ASSUME NEW t \in Threads PROVE OutcomeStep(t)
    <3>1. CASE desc'[t].state = desc[t].state
      BY <1>1, <1>4, <3>1 DEF OutcomeStep, Tids
    <3>2. CASE t = h.tid /\ desc[t].seq = h.seq
      <4>1. h = Tag(t) /\ desc[t].allFrozen
        BY <1>2, <1>3, <3>2 DEF Tag, Handle, Live
      <4> QED BY <1>1, <1>2, <1>3, <1>4, <3>2, <4>1 DEF OutcomeStep, Tids
    <3> QED BY <1>4, <3>1, <3>2 DEF Tids
  <2> QED BY <1>1, <2>1 DEF SharedStep, FreezeStep, MarkStep
<1>6. Decided(h)' /\ h \in done'
  <2>1. desc'[h.tid].seq = h.seq => desc'[h.tid].state = Committed
    BY <1>2, <1>4 DEF Tids
  <2> QED BY <1>1, <1>3, <2>1 DEF Decided, Live
<1> QED BY <1>1, <1>2, <1>4, <1>5, <1>6, HelpReturnsOp

\* The allFrozen bit is set once every record was frozen.
LEMMA SetFrozenOp ==
    ASSUME SeqInv, SeqInv', OpInv, NEW p \in Threads, SetFrozen(p) PROVE OpInv' /\ SharedStep
<1>1. /\ Helping(p) /\ pc[p] = "setFrozen" /\ UNCHANGED <<nodeVars, plan, child, ghostVars>>
      /\ WriteAllFrozen(p)
  BY DEF SetFrozen, Helping
<1>2. PICK h \in Handle, deps \in Seq(Frozen), old \in Handle :
              /\ h = job[p].tag /\ deps = job[p].deps /\ old = job[p].old
              /\ h.tid \in Threads /\ Odd(h.seq) /\ job[p] \in Job
              /\ Op(h, deps, old) /\ Describes(h, deps, old)
              /\ ~job[p].other => h = Tag(p)
  BY <1>1, HelpView
<1>3. AllPast(h, deps)
  BY <1>1, <1>2 DEF OpInv, JobOK
<1>4. \A t \in Tids :
         /\ desc'[t].seq = desc[t].seq /\ desc'[t].deps = desc[t].deps
         /\ desc'[t].old = desc[t].old /\ desc'[t].state = desc[t].state
         /\ \/ desc'[t].allFrozen = desc[t].allFrozen
            \/ t = h.tid /\ desc[t].seq = h.seq
         /\ t = h.tid /\ desc[t].seq = h.seq => desc'[t].allFrozen
  BY <1>1, <1>2, WriteOp
<1>5. SharedStep
  <2>1. ASSUME NEW t \in Threads PROVE OutcomeStep(t)
    <3>1. CASE desc'[t].allFrozen = desc[t].allFrozen
      BY <1>1, <1>4, <3>1 DEF OutcomeStep, Tids
    <3>2. CASE t = h.tid /\ desc[t].seq = h.seq
      <4>1. h = Tag(t) /\ deps = desc[t].deps
        BY <1>2, <3>2 DEF Tag, Handle, Describes, Live
      <4> QED BY <1>1, <1>2, <1>3, <1>4, <3>2, <4>1 DEF OutcomeStep, Tids
    <3> QED BY <1>4, <3>1, <3>2 DEF Tids
  <2> QED BY <1>1, <2>1 DEF SharedStep, FreezeStep, MarkStep
<1>6. /\ pc'[p] = MarkFrom(1, deps) /\ pc'[p] \in {"mark", "update"}
      /\ job'[p] = [job[p] EXCEPT !.i = 1]
      /\ \A q \in Threads \ {p} : Aside(q)
  BY <1>1, <1>2, <1>4 DEF SetFrozen, MarkFrom, Aside, SeqInv, TypeOK, Tids
<1>7. /\ job'[p].tag = h /\ job'[p].deps = deps /\ job'[p].old = old
      /\ job'[p].i = 1 /\ job'[p].other = job[p].other
  BY <1>2, <1>6, JobIndex DEF Job
<1>8. JobOK(p)'
  <2>1. PICK g \in Handle, d \in Seq(Frozen), o \in Handle :
            /\ g = job[p].tag /\ d = job[p].deps /\ o = job[p].old
            /\ Op(g, d, o)' /\ Describes(g, d, o)'
            /\ AllPast(g, d) => AllPast(g, d)'
    BY <1>1, <1>5, ViewStays DEF OpInv, Shared, View
  <2>2. g = h /\ d = deps /\ o = old
    BY <1>2, <2>1
  <2>3. Helping(p)' /\ ~job[p].other => h = Tag(p)'
    BY <1>2, <1>4 DEF Tag, Tids
  <2>4. Live(h)' => desc'[h.tid].allFrozen
    BY <1>2, <1>4 DEF Live, Tids
  <2>5. ASSUME NEW j \in DOMAIN deps, deps[j].finalize, pc'[p] = "mark" => j < 1
        PROVE  FALSE
    <3>1. j \in 1..Len(deps)
      OBVIOUS
    <3>2. pc'[p] = "update"
      BY <1>6, <2>5, <3>1
    <3>3. ToMark(1, deps) = {}
      BY <1>6, <3>2 DEF MarkFrom
    <3> QED BY <2>5, <3>1, <3>3 DEF ToMark
  <2> QED BY <1>3, <1>6, <1>7, <2>1, <2>2, <2>3, <2>4, <2>5
          DEF JobOK, Describes, View, Helping
<1>9. ResultOK(p)'
  BY <1>6 DEF ResultOK
<1> QED BY <1>1, <1>4, <1>5, <1>6, <1>8, <1>9, HelpFrame DEF Tids

\* An operation that has all its records and did not take effect is pending,
\* and its records still hold its handle.
LEMMA StillPending ==
    ASSUME SeqInv, OpInv, NEW h \in Handle, Published(h),
           NEW deps \in Seq(Frozen), NEW old, Op(h, deps, old), Describes(h, deps, old),
           AllPast(h, deps), h \notin done
    PROVE  \E t \in Threads :
              /\ Pending(t) /\ h = Tag(t) /\ deps = desc[t].deps /\ old = desc[t].old
              /\ \A i \in DOMAIN deps : scxPtr[deps[i].node] = h
<1>1. ~Decided(h)
  BY DoneNotDoomed
<1>2. PICK t \in Threads : t = h.tid /\ Pending(t) /\ h = Tag(t)
  BY <1>1, OpenOp
<1>3. deps = desc[t].deps /\ old = desc[t].old
  BY <1>2 DEF Describes, Live, Tag
<1>4. \A i \in DOMAIN deps : scxPtr[deps[i].node] = h
  BY <1>2, DepsType DEF AllPast, OpInv, PendingOK
<1> QED BY <1>2, <1>3, <1>4

\* Only a record that the operation holds is newly marked for it.
LEMMA MarkOp ==
    ASSUME SeqInv, SeqInv', OpInv, NEW p \in Threads, Mark(p) PROVE OpInv' /\ SharedStep
<1>1. /\ Helping(p) /\ pc[p] = "mark"
      /\ UNCHANGED <<scxPtr, val, desc, plan, child, llx, ret, ghostVars>>
  BY DEF Mark, Helping
<1>2. PICK h \in Handle, deps \in Seq(Frozen), old \in Handle, i \in Nat :
              /\ h = job[p].tag /\ deps = job[p].deps /\ old = job[p].old /\ i = job[p].i
              /\ Published(h) /\ job[p] \in Job
              /\ Op(h, deps, old) /\ Describes(h, deps, old)
              /\ ~job[p].other => h = Tag(p)
  BY <1>1, HelpView
<1>3. /\ AllPast(h, deps) /\ (Live(h) => desc[h.tid].allFrozen) /\ i > 0
      /\ \A k \in DOMAIN deps : deps[k].finalize /\ k < i => marked[deps[k].node]
  BY <1>1, <1>2 DEF OpInv, JobOK
<1>4. PICK j \in ToMark(i, deps) :
         /\ \A k \in ToMark(i, deps) : j <= k
         /\ marked' = [marked EXCEPT ![deps[j].node] = TRUE]
         /\ job' = [job EXCEPT ![p].i = j + 1]
         /\ Goto(p, MarkFrom(j + 1, deps))
  BY <1>2 DEF Mark
<1>5. j \in Nat /\ j \in DOMAIN deps /\ deps[j].finalize /\ deps[j].node \in Nodes
  <2>1. j \in Nat /\ j \in DOMAIN deps /\ deps[j].finalize
    BY <1>3, <1>4 DEF ToMark
  <2> QED BY <2>1, DepsType
<1>6. SharedStep
  <2>1. ASSUME NEW n \in Nodes PROVE MarkStep(n)
    <3>1. CASE marked'[n] = marked[n]
      BY <3>1 DEF MarkStep
    <3>2. CASE marked'[n] # marked[n]
      <4>1. n = deps[j].node /\ marked'[n] /\ ~marked[n]
        BY <1>4, <1>5, <3>2 DEF SeqInv, TypeOK
      <4>2. h \notin done
        BY <1>2, <1>5, <4>1 DEF Op
      <4>3. PICK t \in Threads :
              /\ Pending(t) /\ h = Tag(t) /\ deps = desc[t].deps
              /\ \A k \in DOMAIN deps : scxPtr[deps[k].node] = h
        BY <1>2, <1>3, <4>2, StillPending
      <4> QED BY <1>3, <1>5, <4>1, <4>2, <4>3 DEF MarkStep
    <3> QED BY <3>1, <3>2
  <2> QED BY <1>1, <2>1 DEF SharedStep, FreezeStep, OutcomeStep
<1>7. /\ pc'[p] = MarkFrom(j + 1, deps) /\ pc'[p] \in {"mark", "update"}
      /\ job'[p] = [job[p] EXCEPT !.i = j + 1]
      /\ \A q \in Threads \ {p} : Aside(q)
  BY <1>1, <1>4 DEF MarkFrom, Aside, SeqInv, TypeOK
<1>8. /\ job'[p].tag = h /\ job'[p].deps = deps /\ job'[p].old = old
      /\ job'[p].i = j + 1 /\ job'[p].other = job[p].other
  BY <1>2, <1>5, <1>7, JobIndex DEF Job
<1>9. ASSUME NEW k \in DOMAIN deps, deps[k].finalize, pc'[p] = "mark" => k < j + 1
      PROVE  marked'[deps[k].node]
  <2>1. k \in Nat /\ k <= Len(deps) /\ deps[k].node \in Nodes
    BY DepsType
  <2>2. k < j + 1
    <3> SUFFICES ASSUME ~(k < j + 1) PROVE FALSE
      OBVIOUS
    <3>1. k \in ToMark(j + 1, deps)
      BY <1>5, <1>9, <2>1 DEF ToMark
    <3> QED BY <1>7, <1>9, <3>1 DEF MarkFrom
  <2>3. CASE k = j
    BY <1>4, <1>5, <2>3 DEF SeqInv, TypeOK
  <2>4. CASE k < i
    BY <1>3, <1>4, <1>9, <2>1, <2>4 DEF SeqInv, TypeOK
  <2>5. CASE i <= k /\ k # j
    <3>1. k \in ToMark(i, deps)
      BY <1>9, <2>1, <2>5 DEF ToMark
    <3>2. j <= k
      BY <1>4, <3>1
    <3> QED BY <1>5, <2>1, <2>2, <2>5, <3>2
  <2> QED BY <1>2, <2>1, <2>3, <2>4, <2>5
<1>10. JobOK(p)'
  <2>1. PICK g \in Handle, d \in Seq(Frozen), o \in Handle :
            /\ g = job[p].tag /\ d = job[p].deps /\ o = job[p].old
            /\ Op(g, d, o)' /\ Describes(g, d, o)'
            /\ AllPast(g, d) => AllPast(g, d)'
    BY <1>1, <1>6, ViewStays DEF OpInv, Shared, View
  <2>2. g = h /\ d = deps /\ o = old
    BY <1>2, <2>1
  <2>3. ~job[p].other => h = Tag(p)'
    BY <1>1, <1>2 DEF Tag
  <2>4. Live(h)' => desc'[h.tid].allFrozen
    BY <1>1, <1>3 DEF Live
  <2>5. job'[p].i > 0
    BY <1>5, <1>8
  <2> QED BY <1>3, <1>7, <1>8, <1>9, <2>1, <2>2, <2>3, <2>4, <2>5
          DEF JobOK, Describes, View, Helping
<1>11. ResultOK(p)'
  BY <1>7 DEF ResultOK
<1> QED BY <1>1, <1>6, <1>7, <1>10, <1>11, HelpFrame

\* The update CAS of an operation takes effect once: the first time a helper
\* gets there the record has the old value, from then on it never has it.
LEMMA UpdateOp ==
    ASSUME SeqInv, SeqInv', OpInv, NEW p \in Threads, Update(p) PROVE OpInv' /\ SharedStep
<1>1. /\ Helping(p) /\ pc[p] = "update" /\ pc' = [pc EXCEPT ![p] = "commit"]
      /\ UNCHANGED <<marked, scxPtr, desc, plan, child, llx, job, ret, link, past>>
  BY DEF Update, Helping
<1>2. PICK h \in Handle, deps \in Seq(Frozen), old \in Handle :
              /\ h = job[p].tag /\ deps = job[p].deps /\ old = job[p].old
              /\ Published(h) /\ 1 \in DOMAIN deps
              /\ Op(h, deps, old) /\ Describes(h, deps, old)
              /\ ~job[p].other => h = Tag(p)
  BY <1>1, HelpView
<1>3. /\ AllPast(h, deps) /\ (Live(h) => desc[h.tid].allFrozen)
      /\ \A k \in DOMAIN deps : deps[k].finalize => marked[deps[k].node]
  BY <1>1, <1>2 DEF OpInv, JobOK
<1>4. \/ /\ val[deps[1].node] = old
         /\ val' = [val EXCEPT ![deps[1].node] = h]
         /\ done' = done \cup {h}
         /\ ver' = [m \in Nodes |-> IF m \in { deps[i].node : i \in DOMAIN deps }
                                    THEN h ELSE ver[m]]
      \/ val[deps[1].node] # old /\ UNCHANGED <<val, done, ver>>
  BY <1>2 DEF Update
<1>5. SharedStep /\ h \in done'
  <2>1. ASSUME NEW t \in Threads PROVE OutcomeStep(t)
    BY <1>1 DEF OutcomeStep
  <2>2. \A n \in Nodes : FreezeStep(n) /\ MarkStep(n)
    BY <1>1 DEF FreezeStep, MarkStep
  <2>3. CASE h \in done
    <3>1. val[deps[1].node] # old
      BY <1>2, <2>3 DEF Op
    <3> QED BY <1>4, <2>1, <2>2, <2>3, <3>1 DEF SharedStep
  <2>4. CASE h \notin done
    <3>1. PICK t \in Threads :
              /\ Pending(t) /\ h = Tag(t) /\ deps = desc[t].deps /\ old = desc[t].old
              /\ \A i \in DOMAIN deps : scxPtr[deps[i].node] = h
      BY <1>2, <1>3, <2>4, StillPending
    <3>2. val[deps[1].node] = old
      BY <1>2, <2>4, <3>1 DEF OpInv, PendingOK
    <3>3. deps[1].node \in Nodes
      BY <1>2, DepsType
    <3>4. UpdateStep(t)
      <4>1. val'[deps[1].node] = h /\ \A n \in Nodes : n # deps[1].node => val'[n] = val[n]
        BY <1>4, <3>2, <3>3 DEF SeqInv, TypeOK
      <4>2. \A n \in Nodes : ver'[n] = IF \E i \in DOMAIN deps : deps[i].node = n
                                       THEN h ELSE ver[n]
        BY <1>4, <3>2
      <4> QED BY <1>3, <1>4, <2>4, <3>1, <3>2, <4>1, <4>2 DEF UpdateStep
    <3>5. h \in done'
      BY <1>4, <3>2
    <3> QED BY <2>1, <2>2, <3>4, <3>5 DEF SharedStep
  <2> QED BY <2>3, <2>4
<1>6. pc'[p] = "commit" /\ \A q \in Threads \ {p} : Aside(q)
  BY <1>1 DEF Aside, SeqInv, TypeOK
<1>7. JobOK(p)'
  <2>1. PICK g \in Handle, d \in Seq(Frozen), o \in Handle :
            /\ g = job[p].tag /\ d = job[p].deps /\ o = job[p].old
            /\ Op(g, d, o)' /\ Describes(g, d, o)'
            /\ AllPast(g, d) => AllPast(g, d)'
    BY <1>1, <1>5, ViewStays DEF OpInv, Shared, View
  <2>2. g = h /\ d = deps /\ o = old
    BY <1>2, <2>1
  <2>3. ~job[p].other => h = Tag(p)'
    BY <1>1, <1>2 DEF Tag
  <2>4. Live(h)' => desc'[h.tid].allFrozen
    BY <1>1, <1>3 DEF Live
  <2>5. \A k \in DOMAIN deps : deps[k].finalize => marked'[deps[k].node]
    BY <1>1, <1>3
  <2> QED BY <1>1, <1>2, <1>3, <1>5, <1>6, <2>1, <2>2, <2>3, <2>4, <2>5
          DEF JobOK, Describes, View, Helping
<1>8. ResultOK(p)'
  BY <1>6 DEF ResultOK
<1> QED BY <1>1, <1>5, <1>6, <1>7, <1>8, HelpFrame

\* The descriptor is reused once the outcome of its operation is known.
LEMMA RetireOp ==
    ASSUME SeqInv, SeqInv', OpInv, NEW p \in Threads, Retire(p) PROVE OpInv' /\ SharedStep
<1>1. /\ pc[p] = "retire" /\ UNCHANGED <<nodeVars, plan, ghostVars>>
      /\ Return(p, ret[p])
      /\ desc' = [desc EXCEPT ![p] = [desc[p] EXCEPT !.seq = desc[p].seq + 1,
                                        !.state = InProgress, !.allFrozen = FALSE]]
  BY DEF Retire
<1>2. Odd(desc[p].seq) /\ desc[p].seq \in Nat /\ desc[p] \in Descriptor /\ p \in Tids
  BY <1>1, DescriptorType DEF SeqInv, TypeOK, Tids, ParityOK
<1>3. /\ desc'[p].seq = desc[p].seq + 1 /\ desc'[p].deps = desc[p].deps
      /\ desc'[p].state = InProgress /\ ~desc'[p].allFrozen
      /\ \A q \in Tids \ {p} : desc'[q] = desc[q]
  BY <1>1, <1>2 DEF SeqInv, TypeOK, Descriptor
<1>4. /\ pc'[p] = "idle" /\ child'[p] = InitHandle /\ ret'[p] = ret[p]
      /\ \A q \in Threads \ {p} : Aside(q)
  BY <1>1, <1>3 DEF Return, Aside, SeqInv, TypeOK, Tids
<1>5. SharedStep
  <2>1. OutcomeStep(p)
    BY <1>1, <1>2, <1>3 DEF OutcomeStep, OpInv, ResultOK
  <2>2. ASSUME NEW q \in Threads \ {p} PROVE OutcomeStep(q)
    BY <1>1, <1>3 DEF OutcomeStep, Tids
  <2> QED BY <1>1, <2>1, <2>2 DEF SharedStep, FreezeStep, MarkStep
<1>6. ~Odd(desc'[p].seq)
  BY <1>2, <1>3, OddNext
<1>7. DescOK(p)' /\ PendingOK(p)'
  BY <1>2, <1>5, <1>6, DescStays DEF OpInv, Shared, PendingOK, Pending
<1>8. BuildOK(p)' /\ LlxOK(p)' /\ JobOK(p)'
  BY <1>4 DEF BuildOK, Linking, LlxOK, JobOK, View, Helping
<1>9. ResultOK(p)'
  <2>1. Last(p)' = Last(p)
    <3>1. (desc[p].seq + 1) - 1 = desc[p].seq
      BY <1>2
    <3> QED BY <1>2, <1>3, <1>6, <3>1 DEF Last
  <2> QED BY <1>1, <1>4, <2>1 DEF ResultOK, OpInv
<1> QED BY <1>4, <1>5, <1>7, <1>8, <1>9, Frame

\* A step that changes nothing keeps the invariant.
LEMMA StutterOp ==
    ASSUME SeqInv, SeqInv', OpInv, UNCHANGED vars PROVE OpInv' /\ SharedStep
<1>1. SharedStep /\ \A q \in Threads : Aside(q)
  BY DEF vars, SharedStep, FreezeStep, MarkStep, OutcomeStep, Aside
<1>2. CASE Threads = {}
  BY <1>1, <1>2, NodeStays, DoneStays DEF OpInv, Shared
<1>3. CASE Threads # {}
  <2>1. PICK p \in Threads : TRUE
    BY <1>3
  <2>2. desc' = desc /\ Quiet
    BY DEF vars, Quiet
  <2>3. BuildOK(p)' /\ LlxOK(p)' /\ JobOK(p)' /\ ResultOK(p)'
    BY <1>1, BuildStays, LlxStays, JobStays, ResultStays DEF OpInv, Shared, Aside
  <2> QED BY <1>1, <2>2, <2>3, QuietFrame
<1> QED BY <1>2, <1>3

\* Every step of every thread keeps the invariant.
LEMMA StepOp == SeqInv /\ SeqInv' /\ OpInv /\ [Next]_vars => OpInv' /\ SharedStep
<1> SUFFICES ASSUME SeqInv, SeqInv', OpInv, [Next]_vars PROVE OpInv' /\ SharedStep
    OBVIOUS
<1>1. ASSUME NEW p \in Threads, Begin(p) \/ Step(p) PROVE OpInv' /\ SharedStep
  BY <1>1, BeginOp, ReadFieldOp, LlxReadOp, LlxUnmarkedOp, LlxValidateOp, SnapCopyOp,
     SnapCheckOp, ExecuteOp, FreezeOp, FreezeRereadOp, ReadFrozenOp, AbortOp, SetFrozenOp,
     MarkOp, UpdateOp, CommitOp, RetireOp
  DEF Step, Llx, Help
<1> QED BY <1>1, StutterOp DEF Next

\* The invariant holds in every state of every execution.
THEOREM OpInvariant == Spec => []OpInv
<1>1. SeqInv /\ [Next]_vars => SeqInv'
    BY StepSeq
<1> QED BY InitOp, <1>1, StepOp, SeqInvariant, PTL DEF Spec

\* The outcome written in a descriptor is the truth, however the abort of a late
\* helper races with the commit of another (l.112-131): a commit only follows an
\* update that took effect, and an operation that is marked aborted never had it
\* take effect and never got all its records.
THEOREM OutcomeCorrect == Spec => []OutcomeIsTrue
<1>1. ASSUME OpInv PROVE OutcomeIsTrue
  <2> SUFFICES ASSUME NEW t \in Threads, Odd(desc[t].seq)
               PROVE  /\ desc[t].state = Committed => Tag(t) \in done
                      /\ desc[t].state = Aborted   => Tag(t) \notin done /\ ~desc[t].allFrozen
      BY DEF OutcomeIsTrue
  <2>1. DescOK(t)
      BY <1>1 DEF OpInv
  <2> QED BY <2>1, DoneNotDoomed DEF DescOK
<1> QED BY <1>1, OpInvariant, PTL

\* What a step that keeps the invariant may not do to a finalized record.
LEMMA FinalizedStays ==
    ASSUME SeqInv, OpInv, SharedStep, NEW n \in Fin
    PROVE  n \in Fin' /\ val'[n] = val[n] /\ scxPtr'[n] = scxPtr[n]
<1>1. n \in Nodes /\ marked[n] /\ scxPtr[n] \in done /\ done \subseteq done'
    BY DEF Fin, SharedStep, UpdateStep
<1>2. scxPtr'[n] = scxPtr[n]
  <2>1. \A t \in Threads : Pending(t) => LinksOK(desc[t].deps)
    BY DEF OpInv, DescOK, Op, Pending
  <2> QED BY <1>1, <2>1 DEF SharedStep, FreezeStep, LinksOK, LinkOK
<1>3. marked'[n]
    BY <1>1 DEF SharedStep, MarkStep
<1>4. val'[n] = val[n]
  <2> SUFFICES ASSUME NEW t \in Threads, UpdateStep(t), n = desc[t].deps[1].node
               PROVE  FALSE
      BY <1>1 DEF SharedStep, UpdateStep
  <2>1. 1 \in DOMAIN desc[t].deps
    BY DEF UpdateStep, OpInv, DescOK, Op, Shape, Pending
  <2>2. scxPtr[n] = Tag(t) /\ Tag(t) \notin done
    BY <1>1, <2>1 DEF UpdateStep, AllPast, OpInv, PendingOK
  <2> QED BY <1>1, <2>2
<1> QED BY <1>1, <1>2, <1>3, <1>4 DEF Fin

\* A record that a committed update removed is never frozen, marked or written
\* again: no helper of an operation that linked it before can reach it.
THEOREM FinalizedCorrect == Spec => FinalizedIsForever
<1>1. SeqInv /\ SeqInv' /\ OpInv /\ [Next]_vars
         => [\A n \in Fin : n \in Fin' /\ val'[n] = val[n] /\ scxPtr'[n] = scxPtr[n]]_vars
    BY StepOp, FinalizedStays
<1> QED BY <1>1, SeqInvariant, OpInvariant, PTL DEF Spec, FinalizedIsForever

-----------------------------------------------------------------------------
(***************************************************************************)
(* What llx answers.  A record that is marked keeps its handle, so the     *)
(* handle an LLX reads after the mark is the one of the operation that     *)
(* removes the record; when the LLX gives up, that operation is decided,   *)
(* and it cannot have been aborted, for it had all its records before it   *)
(* marked one.                                                             *)
(***************************************************************************)
\* p is in llx or in a call of help it made from there.
WithinLlx(p) == \/ pc[p] \in LlxLabels \cup {"snapCopy", "snapCheck"}
                \/ Helping(p) /\ job[p].other

AnswerOK(p) ==
    LET n == LinkNode(p)
    IN /\ llx[p].marked => WithinLlx(p) /\ n \in Nodes /\ marked[n]
       /\ llx[p].marked /\ pc[p] \notin {"llxMarked", "llxPtr"} => scxPtr[n] = llx[p].tag
       /\ pc[p] = "snapCheck" \/ (Helping(p) /\ job[p].other) => job[p].tag = llx[p].tag
       /\ ret[p] = "finalized" => pc[p] = "idle" /\ n \in Fin

AnswerInv == \A p \in Threads : AnswerOK(p)

\* A marked record is never frozen again.
LEMMA MarkedStays ==
    ASSUME SeqInv, OpInv, SharedStep, NEW n \in Nodes, marked[n]
    PROVE  marked'[n] /\ scxPtr'[n] = scxPtr[n]
<1>1. marked'[n]
    BY DEF SharedStep, MarkStep
<1>2. ASSUME NEW t \in Threads, Pending(t), NEW i \in DOMAIN desc[t].deps,
             desc[t].deps[i].node = n, desc[t].deps[i].seen = scxPtr[n]
      PROVE  FALSE
  <2>1. LinkOK(n, scxPtr[n])
    BY <1>2 DEF OpInv, DescOK, Op, LinksOK, Pending
  <2>2. scxPtr[n] \notin done /\ Decided(scxPtr[n])
    BY <2>1 DEF LinkOK
  <2>3. PICK u \in Threads : Pending(u) /\ scxPtr[n] = Tag(u)
    BY <2>2 DEF OpInv, NodeOK
  <2> QED BY <2>2, <2>3, PendingOpen
<1> QED BY <1>1, <1>2 DEF SharedStep, FreezeStep

\* A marked record whose operation is decided was removed by it.
LEMMA MarkedIsFinal ==
    ASSUME SeqInv, OpInv, NEW n \in Nodes, marked[n], Decided(scxPtr[n])
    PROVE  n \in Fin
<1>1. ASSUME NEW t \in Threads, Pending(t), scxPtr[n] = Tag(t) PROVE FALSE
    BY <1>1, PendingOpen
<1> QED BY <1>1 DEF OpInv, NodeOK, Fin

\* The operation that froze a marked record lost none of its records.
LEMMA MarkedNotDoomed ==
    ASSUME SeqInv, OpInv, NEW n \in Nodes, marked[n],
           NEW h, scxPtr[n] = h, NEW deps, NEW old, Op(h, deps, old), Describes(h, deps, old)
    PROVE  ~Doomed(h, deps)
<1>1. CASE h \in done
    BY <1>1, DoneNotDoomed
<1>2. CASE h \notin done
  <2>1. PICK t \in Threads : h = Tag(t) /\ AllPast(Tag(t), desc[t].deps)
    BY <1>2 DEF OpInv, NodeOK
  <2>2. deps = desc[t].deps
    BY <2>1 DEF Describes, Live, Tag
  <2> QED BY <2>1, <2>2, DoneNotDoomed
<1> QED BY <1>1, <1>2

\* A finalized record stays one.
LEMMA FinKept == ASSUME SeqInv, OpInv, SharedStep, NEW n \in Fin PROVE n \in Fin'
BY FinalizedStays

\* A step that goes on within the call of llx, or within the call of a thread
\* that is in none, and answers nothing.
LEMMA AnswerKept ==
    ASSUME SeqInv, OpInv, SharedStep, NEW p \in Threads, AnswerOK(p),
           plan'[p] = plan[p], desc'[p].deps = desc[p].deps,
           llx'[p] = llx[p], ret'[p] = ret[p] \/ ret'[p] # "finalized",
           ret'[p] = "finalized" => pc'[p] = "idle",
           llx[p].marked => WithinLlx(p)',
           pc'[p] \in {"llxMarked", "llxPtr"} \/ pc[p] \notin {"llxMarked", "llxPtr"},
           pc'[p] = "snapCheck" \/ (Helping(p) /\ job[p].other)' => job'[p].tag = llx[p].tag
    PROVE  AnswerOK(p)'
<1>1. PICK n : n = LinkNode(p) /\ n = LinkNode(p)'
    BY DEF LinkNode, LinkIndex
<1>2. llx[p].marked => n \in Nodes /\ marked[n] /\ marked'[n] /\ scxPtr'[n] = scxPtr[n]
    BY <1>1, MarkedStays DEF AnswerOK
<1>3. ret'[p] = "finalized" => n \in Fin'
    BY <1>1, FinKept DEF AnswerOK
<1> QED BY <1>1, <1>2, <1>3 DEF AnswerOK

\* The answer of an LLX that gives up.
LEMMA FailedAnswer ==
    ASSUME SeqInv, OpInv, SharedStep, NEW p \in Threads, FailedLlx(p),
           plan'[p] = plan[p], desc'[p].deps = desc[p].deps,
           llx[p].marked => LinkNode(p) \in Fin
    PROVE  AnswerOK(p)'
<1>1. /\ pc'[p] = "idle" /\ llx'[p] = NoLlx
      /\ ret'[p] = IF llx[p].marked THEN "finalized" ELSE "failed"
    BY DEF FailedLlx, Return, SeqInv, TypeOK
<1>2. LinkNode(p)' = LinkNode(p)
    BY DEF LinkNode, LinkIndex
<1>3. ret'[p] = "finalized" => LinkNode(p) \in Fin'
    BY <1>1, FinKept
<1>4. PICK n : n = LinkNode(p) /\ n = LinkNode(p)'
    BY <1>2
<1> QED BY <1>1, <1>3, <1>4 DEF AnswerOK, NoLlx, Helping

\* What p's step leaves alone of another thread.
LEMMA OthersAside ==
    ASSUME SeqInv, NEW p \in Threads, Begin(p) \/ Step(p)
    PROVE  \A q \in Threads \ {p} : Aside(q)
<1>1. CASE Begin(p)
    BY <1>1 DEF Begin, Start, Aside, SeqInv, TypeOK, Tids
<1>2. CASE ReadField(p) \/ Llx(p) \/ SnapCopy(p)
    BY <1>2 DEF ReadField, Llx, LlxReadMarked, LlxReadPtr, LlxReadState, LlxReadUnmarked,
       LlxValidate, SnapCopy, FailedLlx, Return, Aside, SeqInv, TypeOK, Tids
<1>3. CASE SnapCheck(p) \/ Execute(p) \/ Retire(p)
    BY <1>3 DEF SnapCheck, Execute, Retire, FailedLlx, Return, Aside, SeqInv, TypeOK, Tids
<1>4. CASE Freeze(p) \/ FreezeReread(p) \/ Mark(p) \/ Update(p)
    BY <1>4 DEF Freeze, FreezeReread, Mark, Update, NextNode, Aside, SeqInv, TypeOK, Tids
<1>5. CASE ReadFrozen(p)
    BY <1>5 DEF ReadFrozen, HelpReturns, FailedLlx, Return, Aside, SeqInv, TypeOK, Tids
<1>6. CASE Abort(p) \/ Commit(p) \/ SetFrozen(p)
  <2>1. Helping(p)
    BY <1>6 DEF Abort, Commit, SetFrozen, Helping
  <2>2. \A t \in Tids : desc'[t].seq = desc[t].seq /\ desc'[t].deps = desc[t].deps
    BY <1>6, <2>1, WriteSeq DEF Abort, Commit, SetFrozen
  <2>3. CASE Abort(p) \/ Commit(p)
    BY <2>2, <2>3 DEF Abort, Commit, HelpReturns, FailedLlx, Return, Aside, SeqInv, TypeOK, Tids
  <2>4. CASE SetFrozen(p)
    BY <2>2, <2>4 DEF SetFrozen, Aside, SeqInv, TypeOK, Tids
  <2> QED BY <1>6, <2>3, <2>4
<1> QED BY <1>1, <1>2, <1>3, <1>4, <1>5, <1>6 DEF Step, Help

\* The answer of another thread, and what it knows, stay as they are.
LEMMA OthersAnswer ==
    ASSUME SeqInv, OpInv, SharedStep, NEW q \in Threads, AnswerOK(q), Aside(q)
    PROVE  AnswerOK(q)'
<1>1. WithinLlx(q) => WithinLlx(q)'
    BY DEF Aside, WithinLlx, Helping
<1> QED BY <1>1, AnswerKept DEF Aside, AnswerOK, Helping

\* The start of an attempt, the reads of the caller and of llx.
LEMMA ReadsAnswer ==
    ASSUME SeqInv, OpInv, SharedStep, NEW p \in Threads, AnswerOK(p),
           Begin(p) \/ ReadField(p) \/ LlxReadMarked(p) \/ LlxReadPtr(p) \/ LlxReadState(p)
    PROVE  AnswerOK(p)'
<1>1. CASE Begin(p)
  <2>1. /\ pc'[p] = "llxMarked" /\ ret'[p] = "none" /\ llx' = llx /\ pc[p] = "idle"
    BY <1>1 DEF Begin, Start, SeqInv, TypeOK
  <2>2. ~llx[p].marked
    BY <2>1 DEF AnswerOK, WithinLlx, Helping
  <2> QED BY <2>1, <2>2 DEF AnswerOK, Helping
<1>2. CASE ReadField(p)
  <2>1. /\ pc'[p] \in {"execute", "llxMarked"} /\ UNCHANGED <<plan, desc, llx, job, ret>>
        /\ pc[p] = "readField"
    BY <1>2 DEF ReadField, AfterLink, SeqInv, TypeOK
  <2>2. ~llx[p].marked /\ ret[p] # "finalized"
    BY <2>1 DEF AnswerOK, WithinLlx, Helping
  <2> QED BY <2>1, <2>2 DEF AnswerOK, Helping
<1>3. CASE LlxReadMarked(p)
  <2>1. PICK n \in Nodes : n = LinkNode(p) /\ n = LinkNode(p)'
    BY <1>3, LinkType DEF LlxReadMarked, LinkNode, LinkIndex, SeqInv
  <2>2. /\ pc'[p] = "llxPtr" /\ llx'[p].marked = marked[n] /\ ret' = ret /\ marked' = marked
        /\ pc[p] = "llxMarked"
    BY <1>3, <2>1 DEF LlxReadMarked, SeqInv, TypeOK, Locals
  <2> QED BY <2>1, <2>2 DEF AnswerOK, WithinLlx, Helping
<1>4. CASE LlxReadPtr(p)
  <2>1. PICK n \in Nodes : n = LinkNode(p) /\ n = LinkNode(p)'
    BY <1>4, LinkType DEF LlxReadPtr, LinkNode, LinkIndex, SeqInv
  <2>2. /\ pc'[p] = "llxState" /\ llx'[p].marked = llx[p].marked /\ llx'[p].tag = scxPtr[n]
        /\ UNCHANGED <<ret, marked, scxPtr>> /\ pc[p] = "llxPtr"
    BY <1>4, <2>1 DEF LlxReadPtr, SeqInv, TypeOK, Locals
  <2> QED BY <2>1, <2>2 DEF AnswerOK, WithinLlx, Helping
<1>5. CASE LlxReadState(p)
  <2>1. /\ pc'[p] \in {"llxValidate", "llxUnmarked", "snapCopy"}
        /\ UNCHANGED <<plan, desc, llx, job, ret>> /\ pc[p] = "llxState"
    BY <1>5 DEF LlxReadState, SeqInv, TypeOK
  <2>2. WithinLlx(p)' /\ ~Helping(p)'
    BY <2>1 DEF WithinLlx, Helping
  <2> QED BY <2>1, <2>2, AnswerKept DEF AnswerOK
<1> QED BY <1>1, <1>2, <1>3, <1>4, <1>5

\* The failing exits of llx, and the success, which only an unmarked record has.
LEMMA ValidateAnswer ==
    ASSUME SeqInv, OpInv, SharedStep, NEW p \in Threads, AnswerOK(p),
           LlxReadUnmarked(p) \/ LlxValidate(p)
    PROVE  AnswerOK(p)'
<1>1. CASE LlxReadUnmarked(p)
  <2>1. pc[p] = "llxUnmarked" /\ UNCHANGED <<plan, desc>>
    BY <1>1 DEF LlxReadUnmarked
  <2>2. llx[p].marked => LinkNode(p) \in Fin
    BY <2>1, MarkedIsFinal DEF AnswerOK, OpInv, LlxOK
  <2>3. CASE FailedLlx(p)
    BY <2>1, <2>2, <2>3, FailedAnswer
  <2>4. CASE Goto(p, "llxValidate") /\ UNCHANGED <<child, llx, job, ret>>
    <3>1. pc'[p] = "llxValidate"
      BY <2>4 DEF SeqInv, TypeOK
    <3>2. WithinLlx(p)' /\ ~Helping(p)'
      BY <3>1 DEF WithinLlx, Helping
    <3> QED BY <2>1, <2>4, <3>1, <3>2, AnswerKept DEF AnswerOK
  <2> QED BY <1>1, <2>3, <2>4 DEF LlxReadUnmarked
<1>2. CASE LlxValidate(p) /\ scxPtr[LinkNode(p)] # llx[p].tag
  <2>1. /\ pc[p] = "llxValidate" /\ UNCHANGED <<plan, desc>> /\ FailedLlx(p)
    BY <1>2 DEF LlxValidate
  <2> QED BY <1>2, <2>1, FailedAnswer DEF AnswerOK
<1>3. CASE LlxValidate(p) /\ scxPtr[LinkNode(p)] = llx[p].tag
  <2>1. /\ pc[p] = "llxValidate" /\ ret' = ret /\ llx'[p] = NoLlx
        /\ pc'[p] \in {"readField", "execute", "llxMarked"}
    BY <1>3 DEF LlxValidate, AfterLink, SeqInv, TypeOK
  <2> QED BY <2>1 DEF AnswerOK, NoLlx, Helping
<1> QED BY <1>1, <1>2, <1>3

\* The copy of the descriptor and its check.
LEMMA SnapAnswer ==
    ASSUME SeqInv, OpInv, SharedStep, NEW p \in Threads, AnswerOK(p),
           SnapCopy(p) \/ SnapCheck(p)
    PROVE  AnswerOK(p)'
<1>1. CASE SnapCopy(p)
  <2>1. /\ pc'[p] = "snapCheck" /\ UNCHANGED <<plan, desc, llx, ret>> /\ pc[p] = "snapCopy"
        /\ job'[p].tag = llx[p].tag
    BY <1>1 DEF SnapCopy, SeqInv, TypeOK
  <2>2. WithinLlx(p)'
    BY <2>1 DEF WithinLlx
  <2> QED BY <2>1, <2>2, AnswerKept DEF AnswerOK
<1>2. CASE SnapCheck(p)
  <2>1. pc[p] = "snapCheck" /\ UNCHANGED <<plan, desc>> /\ job[p].other
    BY <1>2 DEF SnapCheck, SeqInv, ParityOK, HelperOK
  <2>2. CASE Live(job[p].tag)
    <3>1. /\ pc'[p] = HelpFrom(2, job[p].deps) /\ UNCHANGED <<llx, job, ret>>
      BY <1>2, <2>2 DEF SnapCheck, SeqInv, TypeOK
    <3>2. pc'[p] \in HelpLabels
      BY <3>1 DEF HelpFrom
    <3>3. WithinLlx(p)'
      BY <2>1, <3>1, <3>2 DEF WithinLlx, Helping
    <3> QED BY <2>1, <3>1, <3>2, <3>3, AnswerKept DEF AnswerOK
  <2>3. CASE ~Live(job[p].tag)
    <3>1. Decided(llx[p].tag) /\ FailedLlx(p)
      BY <1>2, <2>1, <2>3 DEF SnapCheck, AnswerOK, Decided
    <3>2. llx[p].marked => LinkNode(p) \in Fin
      BY <2>1, <3>1, MarkedIsFinal DEF AnswerOK
    <3> QED BY <2>1, <3>1, <3>2, FailedAnswer
  <2> QED BY <2>2, <2>3
<1> QED BY <1>1, <1>2

\* A helper keeps the operation it helps until it returns.
LEMMA HelpJob ==
    ASSUME SeqInv, NEW p \in Threads,
           Freeze(p) \/ FreezeReread(p) \/ SetFrozen(p) \/ Mark(p) \/ Update(p)
    PROVE  /\ pc'[p] \in HelpLabels
           /\ job'[p].tag = job[p].tag /\ job'[p].other = job[p].other
<1>1. job[p] \in Job /\ p \in DOMAIN job
    BY DEF SeqInv, TypeOK
<1>2. pc'[p] \in HelpLabels
    BY DEF Freeze, FreezeReread, SetFrozen, Mark, Update, NextNode, HelpFrom, MarkFrom, SeqInv,
       TypeOK
<1>3. \/ job'[p] = job[p]
      \/ \E k \in Nat : job'[p] = [job[p] EXCEPT !.i = k]
  <2>1. CASE Freeze(p) \/ FreezeReread(p)
    <3>1. job[p].i + 1 \in Nat
      BY <1>1, JobType
    <3> QED BY <1>1, <2>1, <3>1 DEF Freeze, FreezeReread, NextNode
  <2>2. CASE SetFrozen(p) \/ Update(p)
    BY <1>1, <2>2 DEF SetFrozen, Update
  <2>3. CASE Mark(p)
    <3>1. PICK j \in ToMark(job[p].i, job[p].deps) : job' = [job EXCEPT ![p].i = j + 1]
      BY <2>3 DEF Mark
    <3>2. j + 1 \in Nat
      BY <1>1, JobType DEF ToMark
    <3> QED BY <1>1, <3>1, <3>2
  <2> QED BY <2>1, <2>2, <2>3
<1>4. ASSUME NEW k \in Nat, job'[p] = [job[p] EXCEPT !.i = k]
      PROVE  job'[p].tag = job[p].tag /\ job'[p].other = job[p].other
    BY <1>1, <1>4, JobIndex
<1>5. CASE job'[p] = job[p]
    BY <1>2, <1>5
<1> QED BY <1>2, <1>3, <1>4, <1>5

\* The steps of help that do not return.
LEMMA HelpAnswer ==
    ASSUME SeqInv, OpInv, SharedStep, NEW p \in Threads, AnswerOK(p),
           Helping(p), plan'[p] = plan[p], desc'[p].deps = desc[p].deps,
           llx'[p] = llx[p], ret'[p] = ret[p], pc'[p] \in HelpLabels,
           job'[p].tag = job[p].tag, job'[p].other = job[p].other
    PROVE  AnswerOK(p)'
<1>1. WithinLlx(p) => WithinLlx(p)'
    BY DEF WithinLlx, Helping
<1>2. pc[p] \notin {"llxMarked", "llxPtr", "idle"} /\ pc'[p] # "snapCheck"
    BY DEF Helping
<1> QED BY <1>1, <1>2, AnswerKept DEF AnswerOK

\* help returns to the llx that called it when the operation is decided.
LEMMA ReturnsAnswer ==
    ASSUME SeqInv, OpInv, SharedStep, NEW p \in Threads, AnswerOK(p),
           Helping(p), NEW st \in {Committed, Aborted}, HelpReturns(p, st),
           plan'[p] = plan[p], desc'[p].deps = desc[p].deps,
           Decided(job[p].tag) \/ job[p].tag \in done \/ Doomed(job[p].tag, job[p].deps)
    PROVE  AnswerOK(p)'
<1>1. PICK h \in Handle, deps \in Seq(Frozen), old \in Handle :
              /\ h = job[p].tag /\ deps = job[p].deps /\ old = job[p].old
              /\ Op(h, deps, old) /\ Describes(h, deps, old)
    BY HelpView
<1>2. CASE job[p].other
  <2>1. FailedLlx(p)
    BY <1>2 DEF HelpReturns
  <2>2. ASSUME llx[p].marked PROVE LinkNode(p) \in Fin
    <3>1. PICK n \in Nodes : n = LinkNode(p) /\ marked[n] /\ scxPtr[n] = h
      BY <1>1, <1>2, <2>2 DEF AnswerOK, Helping
    <3>2. ~Doomed(h, deps)
      BY <1>1, <3>1, MarkedNotDoomed
    <3> QED BY <1>1, <3>1, <3>2, MarkedIsFinal DEF Fin
  <2> QED BY <2>1, <2>2, FailedAnswer
<1>3. CASE ~job[p].other
  <2>1. pc'[p] = "retire" /\ ret'[p] = st /\ llx' = llx
    BY <1>3 DEF HelpReturns, SeqInv, TypeOK
  <2>2. ~llx[p].marked
    BY <1>3 DEF AnswerOK, WithinLlx, Helping
  <2> QED BY <2>1, <2>2 DEF AnswerOK, Helping
<1> QED BY <1>2, <1>3

\* The steps of scxExecute, within help and after it.
LEMMA ExecuteAnswer ==
    ASSUME SeqInv, SeqInv', OpInv, SharedStep, NEW p \in Threads, AnswerOK(p),
           Execute(p) \/ Help(p) \/ Retire(p)
    PROVE  AnswerOK(p)'
<1>1. CASE Execute(p)
  <2>1. /\ pc[p] = "execute" /\ pc'[p] = "freeze" /\ UNCHANGED <<llx, ret>>
        /\ ~job'[p].other
    BY <1>1 DEF Execute, SeqInv, TypeOK
  <2>2. ~llx[p].marked
    BY <2>1 DEF AnswerOK, WithinLlx, Helping
  <2> QED BY <2>1, <2>2 DEF AnswerOK
<1>2. CASE Retire(p)
  <2>1. pc[p] = "retire" /\ pc'[p] = "idle" /\ llx'[p] = NoLlx /\ ret'[p] = ret[p]
    BY <1>2 DEF Retire, Return, SeqInv, TypeOK
  <2> QED BY <2>1 DEF AnswerOK, NoLlx, Helping
<1>3. ASSUME Help(p) PROVE Helping(p) /\ p \in Tids
    BY <1>3 DEF Help, Freeze, FreezeReread, ReadFrozen, Abort, SetFrozen, Mark, Update,
       Commit, Helping, Tids
<1>4. CASE Freeze(p) \/ FreezeReread(p) \/ SetFrozen(p) \/ Mark(p) \/ Update(p)
  <2>1. UNCHANGED <<plan, llx, ret>> /\ Helping(p)
    BY <1>3, <1>4 DEF Help, Freeze, FreezeReread, SetFrozen, Mark, Update
  <2>2. /\ pc'[p] \in HelpLabels
        /\ job'[p].tag = job[p].tag /\ job'[p].other = job[p].other
    BY <1>4, HelpJob
  <2>3. desc'[p].deps = desc[p].deps
    <3>1. CASE SetFrozen(p)
      BY <2>1, <3>1, WriteSeq DEF SetFrozen, Tids
    <3>2. CASE ~SetFrozen(p)
      BY <1>4, <3>2 DEF Freeze, FreezeReread, Mark, Update
    <3> QED BY <3>1, <3>2
  <2> QED BY <2>1, <2>2, <2>3, HelpAnswer
<1>5. CASE ReadFrozen(p)
  <2>1. /\ pc[p] = "readFrozen" /\ Helping(p) /\ UNCHANGED <<plan, desc, ghostVars>>
    BY <1>5 DEF ReadFrozen, Helping
  <2>2. Decided(job[p].tag) \/ Doomed(job[p].tag, job[p].deps)
    BY <2>1 DEF OpInv, JobOK
  <2>3. CASE HelpReturns(p, Aborted) \/ HelpReturns(p, Committed)
    BY <2>1, <2>2, <2>3, ReturnsAnswer
  <2>4. CASE Goto(p, "abort") /\ UNCHANGED <<child, llx, job, ret>>
    <3>1. pc'[p] = "abort"
      BY <2>4 DEF SeqInv, TypeOK
    <3> QED BY <2>1, <2>4, <3>1, HelpAnswer
  <2> QED BY <1>5, <2>3, <2>4 DEF ReadFrozen
<1>6. CASE Abort(p)
  <2>1. /\ pc[p] = "abort" /\ Helping(p) /\ UNCHANGED plan /\ WriteState(p, Aborted)
        /\ HelpReturns(p, Aborted)
    BY <1>6 DEF Abort, Helping
  <2>2. Doomed(job[p].tag, job[p].deps)
    BY <2>1 DEF OpInv, JobOK
  <2>3. desc'[p].deps = desc[p].deps
    BY <2>1, WriteSeq DEF Tids
  <2> QED BY <2>1, <2>2, <2>3, ReturnsAnswer
<1>7. CASE Commit(p)
  <2>1. /\ pc[p] = "commit" /\ Helping(p) /\ UNCHANGED plan /\ WriteState(p, Committed)
        /\ HelpReturns(p, Committed)
    BY <1>7 DEF Commit, Helping
  <2>2. job[p].tag \in done
    BY <2>1 DEF OpInv, JobOK
  <2>3. desc'[p].deps = desc[p].deps
    BY <2>1, WriteSeq DEF Tids
  <2> QED BY <2>1, <2>2, <2>3, ReturnsAnswer
<1> QED BY <1>1, <1>2, <1>4, <1>5, <1>6, <1>7 DEF Help

\* Every step of every thread keeps what is known of the answers.
LEMMA StepAnswer ==
    SeqInv /\ SeqInv' /\ OpInv /\ AnswerInv /\ [Next]_vars => AnswerInv'
<1> SUFFICES ASSUME SeqInv, SeqInv', OpInv, AnswerInv, [Next]_vars PROVE AnswerInv'
    OBVIOUS
<1>1. SharedStep
    BY StepOp
<1>2. CASE UNCHANGED vars
    BY <1>2 DEF vars, AnswerInv, AnswerOK, WithinLlx, Helping, LinkNode, LinkIndex, Fin
<1>3. ASSUME NEW p \in Threads, Begin(p) \/ Step(p) PROVE AnswerInv'
  <2>1. AnswerOK(p)'
    BY <1>1, <1>3, ReadsAnswer, ValidateAnswer, SnapAnswer, ExecuteAnswer DEF AnswerInv, Step, Llx
  <2>2. ASSUME NEW q \in Threads \ {p} PROVE AnswerOK(q)'
    BY <1>1, <1>3, OthersAside, OthersAnswer DEF AnswerInv
  <2> QED BY <2>1, <2>2 DEF AnswerInv
<1> QED BY <1>2, <1>3 DEF Next

\* What the calls answer is true.  scxExecute answers true exactly when the
\* update of its operation took effect, whichever thread did it and through
\* whichever exit of help the answer comes; and llx answers FINALIZED only for
\* a record that an update removed, however early it read the mark.
THEOREM ResultCorrect == Spec => []ResultIsTrue
<1>1. Init => AnswerInv
    BY DEF Init, AnswerInv, AnswerOK, NoLlx, Helping
<1>2. Spec => []AnswerInv
  <2>1. SeqInv /\ [Next]_vars => SeqInv'
    BY StepSeq
  <2> QED BY <1>1, <2>1, StepAnswer, SeqInvariant, OpInvariant, PTL DEF Spec
<1>3. OpInv /\ AnswerInv => ResultIsTrue
    BY DEF OpInv, ResultOK, AnswerInv, AnswerOK, ResultIsTrue, Last
<1> QED BY <1>2, <1>3, OpInvariant, PTL
-----------------------------------------------------------------------------
(***************************************************************************)
(* The provider implements atomic LLX and SCX: every step of SCX is a step *)
(* of AtomicSCX, with the finalized records Fin for its fin, or leaves the *)
(* abstract state alone.  An LLX takes effect at its second read of        *)
(* scxPtr, an SCX at the first update CAS of its helpers.                  *)
(***************************************************************************)
\* The bound on the operations of a thread.
BoundOK(p) ==
    /\ desc[p].seq >= 2
    /\ Odd(desc[p].seq) => desc[p].seq <= 2 * MaxOps[p] + 1
    /\ ~Odd(desc[p].seq) /\ pc[p] # "idle" => desc[p].seq <= 2 * MaxOps[p]

Bounded == \A p \in Threads : BoundOK(p)

\* What a step does to the sequence number of a thread and to its label.
LEMMA SeqNext ==
    ASSUME SeqInv, NEW p \in Threads, Begin(p) \/ Step(p)
    PROVE  /\ \A q \in Threads \ {p} : desc'[q].seq = desc[q].seq /\ pc'[q] = pc[q]
           /\ \/ /\ desc'[p].seq = desc[p].seq
                 /\ pc[p] = "idle" => desc[p].seq <= 2 * MaxOps[p]
              \/ ~Odd(desc[p].seq) /\ desc'[p].seq = desc[p].seq + 1 /\ pc[p] # "idle"
              \/ Odd(desc[p].seq) /\ desc'[p].seq = desc[p].seq + 1 /\ pc'[p] = "idle"
<1>1. /\ desc \in [Tids -> Descriptor] /\ desc[p] \in Descriptor /\ p \in Tids
      /\ pc \in [Threads -> Labels] /\ Threads \subseteq Tids
  BY DEF SeqInv, TypeOK, Tids
<1>2. CASE Begin(p)
  BY <1>1, <1>2 DEF Begin, Start, Descriptor
<1>3. CASE ReadField(p) \/ LlxReadMarked(p) \/ LlxReadPtr(p) \/ LlxReadState(p) \/ SnapCopy(p)
  BY <1>1, <1>3 DEF ReadField, LlxReadMarked, LlxReadPtr, LlxReadState, SnapCopy
<1>4. CASE LlxReadUnmarked(p) \/ SnapCheck(p)
  BY <1>1, <1>4 DEF LlxReadUnmarked, SnapCheck, FailedLlx, Return
<1>5. CASE LlxValidate(p)
  BY <1>1, <1>5 DEF LlxValidate, FailedLlx, Return, Descriptor
<1>6. CASE Execute(p)
  <2>1. ~Odd(desc[p].seq)
    BY <1>6 DEF Execute, SeqInv, ParityOK, Helping
  <2> QED BY <1>1, <1>6, <2>1 DEF Execute, Descriptor
<1>7. CASE Retire(p)
  <2>1. Odd(desc[p].seq)
    BY <1>7 DEF Retire, SeqInv, ParityOK
  <2> QED BY <1>1, <1>7, <2>1 DEF Retire, Return, Descriptor
<1>8. CASE Freeze(p) \/ FreezeReread(p) \/ Mark(p) \/ Update(p)
  BY <1>1, <1>8 DEF Freeze, FreezeReread, NextNode, Mark, Update
<1>9. CASE ReadFrozen(p)
  BY <1>1, <1>9 DEF ReadFrozen, HelpReturns, FailedLlx, Return
<1>10. CASE Abort(p) \/ Commit(p) \/ SetFrozen(p)
  <2>1. \A t \in Tids : desc'[t].seq = desc[t].seq
    BY <1>10, WriteSeq DEF Abort, Commit, SetFrozen, Helping
  <2> QED BY <1>1, <1>10, <2>1
          DEF Abort, Commit, SetFrozen, HelpReturns, FailedLlx, Return
<1> QED BY <1>2, <1>3, <1>4, <1>5, <1>6, <1>7, <1>8, <1>9, <1>10 DEF Step, Llx, Help

\* A thread executes at most MaxOps operations.
LEMMA BoundStep == SeqInv /\ Bounded /\ [Next]_vars => Bounded'
<1> SUFFICES ASSUME SeqInv, Bounded, [Next]_vars, NEW q \in Threads PROVE BoundOK(q)'
  BY DEF Bounded
<1>1. /\ BoundOK(q) /\ desc[q].seq \in Nat /\ MaxOps[q] \in Nat
      /\ Odd(desc[q].seq + 1) <=> ~Odd(desc[q].seq)
  BY MaxOpsAssumption, DescriptorType, OddNext DEF Bounded, SeqInv, TypeOK, Tids
<1>2. CASE UNCHANGED vars
  BY <1>1, <1>2 DEF vars, BoundOK
<1>3. ASSUME NEW p \in Threads, Begin(p) \/ Step(p) PROVE BoundOK(q)'
  <2>1. CASE p # q
    <3>1. desc'[q].seq = desc[q].seq /\ pc'[q] = pc[q]
      BY <1>3, <2>1, SeqNext
    <3> QED BY <1>1, <3>1 DEF BoundOK
  <2>2. CASE p = q
    <3>1. \/ /\ desc'[q].seq = desc[q].seq
             /\ pc[q] = "idle" => desc[q].seq <= 2 * MaxOps[q]
          \/ ~Odd(desc[q].seq) /\ desc'[q].seq = desc[q].seq + 1 /\ pc[q] # "idle"
          \/ Odd(desc[q].seq) /\ desc'[q].seq = desc[q].seq + 1 /\ pc'[q] = "idle"
      BY <1>3, <2>2, SeqNext
    <3>2. PICK s \in Nat, m \in Nat : s = desc[q].seq /\ m = 2 * MaxOps[q]
      BY <1>1
    <3>3. CASE desc'[q].seq = s /\ (pc[q] = "idle" => s <= m)
      BY <1>1, <3>2, <3>3 DEF BoundOK
    <3>4. CASE ~Odd(s) /\ desc'[q].seq = s + 1 /\ pc[q] # "idle"
      BY <1>1, <3>2, <3>4 DEF BoundOK
    <3>5. CASE Odd(s) /\ desc'[q].seq = s + 1 /\ pc'[q] = "idle"
      BY <1>1, <3>2, <3>5 DEF BoundOK
    <3> QED BY <3>1, <3>2, <3>3, <3>4, <3>5
  <2> QED BY <2>1, <2>2
<1> QED BY <1>2, <1>3 DEF Next

\* The bound holds in every state.
LEMMA Bounds == Spec => []Bounded
<1>1. Init => Bounded
  BY ThreadsAssumption, MaxOpsAssumption DEF Init, Bounded, BoundOK, Odd, Tids
<1> QED BY <1>1, BoundStep, SeqInvariant, PTL DEF Spec

\* So the handle of an operation is one of the bound's.
LEMMA TagBound ==
    ASSUME SeqInv, Bounded, NEW t \in Threads, Odd(desc[t].seq)
    PROVE  Tag(t) \in Tags
<1>1. PICK s \in Nat, m \in Nat : s = desc[t].seq /\ m = MaxOps[t]
  BY MaxOpsAssumption, DescriptorType DEF SeqInv, TypeOK, Tids
<1>2. s >= 2 /\ s <= 2 * m + 1 /\ s % 2 = 1
  BY <1>1 DEF Bounded, BoundOK, Odd
<1>3. PICK k \in 1..m : s = 2 * k + 1
  <2>1. PICK j \in Nat : s = 2 * j + 1
    BY <1>2
  <2>2. j \in 1..m
    BY <1>2, <2>1
  <2> QED BY <2>1, <2>2
<1> QED BY <1>1, <1>3 DEF Tags, Tag

-----------------------------------------------------------------------------
(***************************************************************************)
(* The steps                                                               *)
(***************************************************************************)

\* Without an update no record becomes finalized: a record is frozen or marked
\* for an operation that did not take effect.
LEMMA FinStays ==
    ASSUME SeqInv, OpInv, SharedStep, done' = done PROVE Fin' = Fin
<1>1. ASSUME NEW n \in Fin' PROVE n \in Fin
  <2>1. n \in Nodes /\ marked'[n] /\ scxPtr'[n] \in done
    BY <1>1 DEF Fin
  <2>2. scxPtr'[n] = scxPtr[n]
    BY <2>1, TakenBy
  <2>3. marked[n]
    BY <2>1, <2>2 DEF SharedStep, MarkStep
  <2> QED BY <2>1, <2>2, <2>3 DEF Fin
<1>2. Fin \subseteq Fin'
  BY FinalizedStays
<1> QED BY <1>1, <1>2

\* The update CAS that takes effect is the atomic SCX of the operation's owner,
\* whoever executes it.
LEMMA UpdateAtomic ==
    ASSUME SeqInv, SeqInv', OpInv, Bounded, SharedStep, NEW t \in Threads, UpdateStep(t),
           UNCHANGED <<marked, scxPtr, link>>
    PROVE  Atomic!SCX(t, plan[t], Tag(t)) /\ plan[t] \in Footprints[t] /\ Tag(t) \in Tags
<1>1. PICK deps \in Seq(Frozen), fp \in Seq(Dep), h \in Handle :
         deps = desc[t].deps /\ fp = plan[t] /\ h = Tag(t)
  BY DescriptorType, PendingOpen DEF UpdateStep, SeqInv, TypeOK, Tids
<1>2. Pending(t) /\ h \notin done /\ h # InitHandle /\ done' = done \cup {h}
  BY <1>1, PendingOpen DEF UpdateStep
<1>3. /\ fp \in Footprints[t] /\ Len(deps) = Len(fp) /\ Shape(deps)
      /\ \A i \in DOMAIN deps : deps[i].node = fp[i].node /\ deps[i].finalize = fp[i].finalize
  BY <1>1, <1>2 DEF OpInv, DescOK, Pending, Follows, Op
<1>4. DOMAIN deps = DOMAIN fp /\ 1 \in DOMAIN deps /\ deps[1].node \in Nodes
  BY <1>3, DepsType
<1>5. \A i \in DOMAIN deps : deps[i].node \in Nodes /\ scxPtr[deps[i].node] = h
  BY <1>1, <1>2, DepsType DEF UpdateStep, AllPast, OpInv, PendingOK
<1>6. \A n \in Atomic!NodesOf(fp) : \E i \in DOMAIN deps : deps[i].node = n
  BY <1>3, <1>4 DEF Atomic!NodesOf
<1>7. \A n \in Atomic!NodesOf(fp) : <<n, ver[n]>> \in link[t]
  <2>1. \A i \in DOMAIN deps : scxPtr[deps[i].node] \in {deps[i].seen, h} =>
           <<deps[i].node, ver[deps[i].node]>> \in link[t]
    BY <1>1, <1>2 DEF OpInv, PendingOK
  <2> QED BY <1>5, <1>6, <2>1
<1>8. Atomic!NodesOf(fp) \cap Fin = {}
  BY <1>2, <1>5, <1>6 DEF Fin
<1>9. \A n \in Nodes : h \notin {val[n], ver[n]}
  BY <1>2 DEF OpInv, NodeOK
<1>10. val' = [val EXCEPT ![fp[1].node] = h]
  <2>1. val'[deps[1].node] = h /\ \A n \in Nodes : n # deps[1].node => val'[n] = val[n]
    BY <1>1 DEF UpdateStep
  <2>2. val \in [Nodes -> Handle] /\ val' \in [Nodes -> Handle] /\ fp[1].node = deps[1].node
    BY <1>3, <1>4 DEF SeqInv, TypeOK
  <2> QED BY <1>4, <2>1, <2>2
<1>11. ver' = [n \in Nodes |-> IF n \in Atomic!NodesOf(fp) THEN h ELSE ver[n]]
  <2>1. \A n \in Nodes : (n \in Atomic!NodesOf(fp)) <=> (\E i \in DOMAIN deps : deps[i].node = n)
    BY <1>3, <1>4 DEF Atomic!NodesOf
  <2>2. \A n \in Nodes : ver'[n] = IF n \in Atomic!NodesOf(fp) THEN h ELSE ver[n]
    BY <1>1, <2>1 DEF UpdateStep
  <2>3. ver' \in [Nodes -> Handle]
    BY DEF SeqInv, TypeOK
  <2> QED BY <2>2, <2>3
<1>12. Fin' = Fin \cup Atomic!Finalized(fp)
  <2>1. \A n : n \in Atomic!Finalized(fp) <=>
                  \E i \in DOMAIN deps : deps[i].node = n /\ deps[i].finalize
    BY <1>3, <1>4 DEF Atomic!Finalized
  <2>2. ASSUME NEW n \in Fin' PROVE n \in Fin \cup Atomic!Finalized(fp)
    <3>1. n \in Nodes /\ marked[n] /\ scxPtr[n] \in done \cup {h}
      BY <1>2, <2>2 DEF Fin
    <3>2. CASE scxPtr[n] \in done
      BY <3>1, <3>2 DEF Fin
    <3>3. CASE scxPtr[n] = h
      <4>1. PICK u \in Threads :
               /\ h = Tag(u)
               /\ \E i \in DOMAIN desc[u].deps :
                     desc[u].deps[i].node = n /\ desc[u].deps[i].finalize
        BY <1>2, <3>1, <3>3 DEF OpInv, NodeOK
      <4>2. u = t
        BY <1>1, <4>1, SameTag
      <4> QED BY <1>1, <2>1, <4>1, <4>2
    <3> QED BY <3>1, <3>2, <3>3
  <2>3. ASSUME NEW n \in Atomic!Finalized(fp) PROVE n \in Fin'
    <3>1. PICK i \in DOMAIN deps : deps[i].node = n /\ deps[i].finalize
      BY <2>1, <2>3
    <3>2. n \in Nodes /\ scxPtr'[n] \in done' /\ marked'[n]
      BY <1>1, <1>2, <1>5, <3>1 DEF UpdateStep
    <3> QED BY <3>2 DEF Fin
  <2>4. Fin \subseteq Fin'
    BY FinalizedStays
  <2> QED BY <2>2, <2>3, <2>4
<1>13. Atomic!SCX(t, fp, h)
  BY <1>7, <1>8, <1>9, <1>10, <1>11, <1>12 DEF Atomic!SCX
<1> QED BY <1>1, <1>2, <1>3, <1>13, TagBound DEF Pending

\* A load-link that succeeds is the atomic one: its record is not finalized.
LEMMA ValidateAtomic ==
    ASSUME SeqInv, OpInv, SharedStep, NEW p \in Threads, LlxValidate(p)
    PROVE  [Atomic!Next]_(Atomic!vars)
<1>1. UNCHANGED <<val, ver>> /\ Fin' = Fin
  <2>1. UNCHANGED <<val, ver, done>>
    BY DEF LlxValidate
  <2> QED BY <2>1, FinStays
<1>2. LinkNode(p) \in Nodes
  BY LinkType DEF LlxValidate, SeqInv
<1>3. CASE scxPtr[LinkNode(p)] = llx[p].tag
  <2>1. LinkNode(p) \notin Fin
    BY <1>3 DEF LlxValidate, OpInv, LlxOK, Fin
  <2>2. link' = [link EXCEPT ![p] = @ \cup {<<LinkNode(p), ver[LinkNode(p)]>>}]
    BY <1>3 DEF LlxValidate
  <2>3. Atomic!LLX(p, LinkNode(p))
    BY <1>1, <2>1, <2>2 DEF Atomic!LLX
  <2> QED BY <1>2, <2>3 DEF Atomic!Next
<1>4. CASE scxPtr[LinkNode(p)] # llx[p].tag
  <2>1. link' = link
    BY <1>4 DEF LlxValidate
  <2> QED BY <1>1, <2>1 DEF Atomic!vars
<1> QED BY <1>3, <1>4

\* Every step of the provider is atomic or invisible.
LEMMA StepAtomic ==
    SeqInv /\ SeqInv' /\ OpInv /\ Bounded /\ [Next]_vars => [Atomic!Next]_(Atomic!vars)
<1> SUFFICES ASSUME SeqInv, SeqInv', OpInv, Bounded, [Next]_vars
             PROVE  [Atomic!Next]_(Atomic!vars)
    OBVIOUS
<1>1. SharedStep
  BY StepOp
<1>2. ASSUME UNCHANGED <<val, ver, link, done>> PROVE [Atomic!Next]_(Atomic!vars)
  BY <1>1, <1>2, FinStays DEF Atomic!vars
<1>3. CASE UNCHANGED vars
  BY <1>2, <1>3 DEF vars
<1>4. ASSUME NEW p \in Threads, Begin(p) PROVE [Atomic!Next]_(Atomic!vars)
  <2>1. UNCHANGED <<val, ver, done>> /\ link' = [link EXCEPT ![p] = {}]
    BY <1>4 DEF Begin, Start
  <2>2. Atomic!Begin(p)
    BY <1>1, <2>1, FinStays DEF Atomic!Begin
  <2> QED BY <2>2 DEF Atomic!Next
<1>5. ASSUME NEW p \in Threads, Update(p) PROVE [Atomic!Next]_(Atomic!vars)
  <2>1. UNCHANGED <<marked, scxPtr, link>>
    BY <1>5 DEF Update
  <2>2. CASE UNCHANGED <<done, val, ver>>
    BY <1>2, <2>1, <2>2
  <2>3. ASSUME NEW t \in Threads, UpdateStep(t) PROVE [Atomic!Next]_(Atomic!vars)
    BY <1>1, <2>1, <2>3, UpdateAtomic DEF Atomic!Next
  <2> QED BY <1>1, <2>2, <2>3 DEF SharedStep
<1>6. ASSUME NEW p \in Threads, Step(p), ~LlxValidate(p), ~Update(p)
      PROVE  UNCHANGED <<val, ver, link, done>>
  BY <1>6 DEF Step, Llx, Help, ReadField, LlxReadMarked, LlxReadPtr, LlxReadState,
     LlxReadUnmarked, SnapCopy, SnapCheck, Execute, Freeze, FreezeReread, ReadFrozen,
     Abort, SetFrozen, Mark, Commit, Retire
<1>7. ASSUME NEW p \in Threads, Step(p) PROVE [Atomic!Next]_(Atomic!vars)
  BY <1>1, <1>2, <1>5, <1>6, <1>7, ValidateAtomic
<1> QED BY <1>3, <1>4, <1>7 DEF Next

\* The provider implements atomic LLX and SCX, for any threads, records,
\* footprints and numbers of operations: a committed SCX found none of its
\* records changed or finalized since its owner linked them, and changed its
\* field, finalized its records and made its links stale in one step.
THEOREM ProviderIsAtomic == Spec => AtomicSpec
<1>1. Init => Atomic!Init
  BY DEF Init, Atomic!Init, Fin
<1> QED BY <1>1, StepAtomic, SeqInvariant, OpInvariant, Bounds, PTL
  DEF Spec, AtomicSpec, Atomic!Spec
=============================================================================
