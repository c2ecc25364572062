-------------------------------- MODULE SCX --------------------------------
(***************************************************************************)
(* The LLX/SCX provider of the non-blocking chromatic tree                 *)
(* (common/scx_provider.h over common/descriptors/descriptors_impl.h), one *)
(* access to shared memory per action.                                     *)
(*                                                                         *)
(* Every thread owns ONE descriptor, reused for all its SCXs (the "weak    *)
(* descriptor" transformation).  Its word `mutables' packs a sequence      *)
(* number, the state and the allFrozen bit; a handle <<tid, seq>> stored   *)
(* in a record names one operation, and is stale once the owner has moved  *)
(* to a later sequence number.  The number is even while the owner fills   *)
(* the descriptor in and odd while the operation may be helped.            *)
(*                                                                         *)
(* The provider is driven as tree.h drives it: scxInit, an LLX and a       *)
(* scxAddNode for every record of the footprint, a read of the child       *)
(* pointer of the first record after its LLX, scxExecute on that pointer.  *)
(* A failed LLX ends the attempt, whose caller starts over.                *)
(*                                                                         *)
(* Abstractions: a record has one mutable field; the value an SCX stores   *)
(* is a node allocated for it, so the value is named by the SCX's handle.  *)
(* The retry loops of MUTABLES1_WRITE_FIELD and MUTABLES1_WRITE_BIT end    *)
(* with one successful CAS or one read that makes them give up: each is    *)
(* one conditional write.  A torn DESC1_SNAPSHOT fails its check, because  *)
(* sequence numbers only grow: the copy is one read.                       *)
(***************************************************************************)
EXTENDS Naturals, Sequences, FiniteSets

CONSTANTS Threads,      \* ids of the threads that call the provider
          DummyTid,     \* the owner of the static descriptor of new records
          Nodes,        \* the records
          Footprints,   \* Footprints[p]: the sequences of [node, finalize]
                        \* of p's updates; the first record's field is set
          MaxOps        \* MaxOps[p]: bound on the SCXs p executes

Dep == [node : Nodes, finalize : BOOLEAN]

ASSUME ThreadsAssumption == DummyTid \notin Threads
ASSUME FootprintsAssumption ==
    /\ Footprints \in [Threads -> SUBSET Seq(Dep)]
    /\ \A p \in Threads : \A fp \in Footprints[p] :
          /\ Len(fp) > 0
          /\ ~fp[1].finalize
          /\ \A i, j \in DOMAIN fp : fp[i].node = fp[j].node => i = j
ASSUME MaxOpsAssumption == MaxOps \in [Threads -> Nat]

Tids    == Threads \cup {DummyTid}
Handle  == [tid : Tids, seq : Nat]
InitHandle == [tid |-> DummyTid, seq |-> 0]      \* INIT_SCX_HANDLE

InProgress == "inprogress"
Committed  == "committed"
Aborted    == "aborted"
State      == {InProgress, Committed, Aborted}

VARIABLES
    marked, scxPtr, val,       \* the fields of the records
    desc,                      \* desc[t]: the descriptor of t
    pc,                        \* where each thread is
    plan,                      \* plan[p]: footprint of p's current attempt
    child,                     \* child[p]: child pointer p read, its oldVal
    llx,                       \* llx[p]: locals of p's LLX
    job,                       \* job[p]: locals of p's call of help
    ret,                       \* ret[p]: how p's last call ended
    done, ver, link, past      \* history, for the properties only: handles
                               \* whose update CAS took effect; the last of
                               \* them on each record; versions p linked;
                               \* the values of scxPtr so far

nodeVars  == <<marked, scxPtr, val>>
ghostVars == <<done, ver, link, past>>
vars == <<nodeVars, desc, pc, plan, child, llx, job, ret, ghostVars>>

NoLlx == [marked |-> FALSE, tag |-> InitHandle]
NoJob == [tag |-> InitHandle, seq |-> 0, deps |-> <<>>, old |-> InitHandle,
          i |-> 1, other |-> FALSE]

\* The constructor runs DESC1_INIT_ALL and DESC1_NEW: threads start at 2.
Init ==
    /\ marked = [n \in Nodes |-> FALSE]
    /\ scxPtr = [n \in Nodes |-> InitHandle]
    /\ val    = [n \in Nodes |-> InitHandle]
    /\ desc   = [t \in Tids |->
                   IF t = DummyTid
                   THEN [seq |-> 0, state |-> Committed, allFrozen |-> TRUE,
                         deps |-> <<>>, old |-> InitHandle]
                   ELSE [seq |-> 2, state |-> InProgress, allFrozen |-> FALSE,
                         deps |-> <<>>, old |-> InitHandle]]
    /\ pc     = [p \in Threads |-> "idle"]
    /\ plan   = [p \in Threads |-> <<>>]
    /\ child  = [p \in Threads |-> InitHandle]
    /\ llx    = [p \in Threads |-> NoLlx]
    /\ job    = [p \in Threads |-> NoJob]
    /\ ret    = [p \in Threads |-> "none"]
    /\ done   = {}
    /\ ver    = [n \in Nodes |-> InitHandle]
    /\ link   = [p \in Threads |-> {}]
    /\ past   = [n \in Nodes |-> {InitHandle}]

-----------------------------------------------------------------------------
At(p, label) == pc[p] = label
Goto(p, label) == pc' = [pc EXCEPT ![p] = label]

\* The attempt of p ends with result r; the locals of its frames are gone.
Return(p, r) ==
    /\ Goto(p, "idle")
    /\ ret'   = [ret EXCEPT ![p] = r]
    /\ llx'   = [llx EXCEPT ![p] = NoLlx]
    /\ job'   = [job EXCEPT ![p] = NoJob]
    /\ child' = [child EXCEPT ![p] = InitHandle]

\* The failing exits of LLX: "marked" is its first read (l.189).
FailedLlx(p) == Return(p, IF llx[p].marked THEN "finalized" ELSE "failed")

\* The record p is linking: the records before it were added already.
LinkIndex(p) == Len(desc[p].deps) + 1
LinkNode(p)  == plan[p][LinkIndex(p)].node

\* The descriptor of an operation still describes it.
Live(tag) == desc[tag.tid].seq = tag.seq

(***************************************************************************)
(* The caller: scxInit, and the reads of tree.h between the LLXs           *)
(***************************************************************************)
Start(p, fp) ==
    /\ At(p, "idle")
    /\ desc[p].seq <= 2 * MaxOps[p]
    /\ plan' = [plan EXCEPT ![p] = fp]
    /\ desc' = [desc EXCEPT ![p].deps = <<>>]
    /\ ret'  = [ret EXCEPT ![p] = "none"]
    /\ link' = [link EXCEPT ![p] = {}]
    /\ Goto(p, "llxMarked")
    /\ UNCHANGED <<nodeVars, child, llx, job, done, ver, past>>

AfterLink(p, k) == IF k = Len(plan[p]) THEN "execute" ELSE "llxMarked"

ReadField(p) ==
    /\ At(p, "readField")
    /\ child' = [child EXCEPT ![p] = val[plan[p][1].node]]
    /\ Goto(p, AfterLink(p, 1))
    /\ UNCHANGED <<nodeVars, desc, plan, llx, job, ret, ghostVars>>

(***************************************************************************)
(* llx                                                                     *)
(***************************************************************************)
LlxReadMarked(p) ==
    /\ At(p, "llxMarked")
    /\ llx' = [llx EXCEPT ![p].marked = marked[LinkNode(p)]]
    /\ Goto(p, "llxPtr")
    /\ UNCHANGED <<nodeVars, desc, plan, child, job, ret, ghostVars>>

LlxReadPtr(p) ==
    /\ At(p, "llxPtr")
    /\ llx' = [llx EXCEPT ![p].tag = scxPtr[LinkNode(p)]]
    /\ Goto(p, "llxState")
    /\ UNCHANGED <<nodeVars, desc, plan, child, job, ret, ghostVars>>

\* A stale handle counts as committed (l.176).
LlxReadState(p) ==
    LET tag == llx[p].tag
        state == IF Live(tag) THEN desc[tag.tid].state ELSE Committed
    IN /\ At(p, "llxState")
       /\ \/ state = Aborted    /\ Goto(p, "llxValidate")
          \/ state = Committed  /\ Goto(p, "llxUnmarked")
          \/ state = InProgress /\ Goto(p, "snapCopy")
       /\ UNCHANGED <<nodeVars, desc, plan, child, llx, job, ret, ghostVars>>

\* Mutant: a committed handle is linked without reading `marked' again.
LlxReadUnmarkedNever(p) ==
    /\ At(p, "llxUnmarked")
    /\ Goto(p, "llxValidate")
    /\ UNCHANGED <<nodeVars, desc, plan, child, llx, job, ret, ghostVars>>

LlxReadUnmarked(p) ==
    /\ At(p, "llxUnmarked")
    /\ IF marked[LinkNode(p)]
       THEN FailedLlx(p)
       ELSE Goto(p, "llxValidate") /\ UNCHANGED <<child, llx, job, ret>>
    /\ UNCHANGED <<nodeVars, desc, plan, ghostVars>>

\* The second read of scxPtr; a success is followed by scxAddNode.
LlxValidate(p) ==
    LET n == LinkNode(p)
        k == LinkIndex(p)
    IN /\ At(p, "llxValidate")
       /\ IF scxPtr[n] = llx[p].tag
          THEN /\ desc' = [desc EXCEPT ![p].deps = Append(@,
                             [node |-> n, finalize |-> plan[p][k].finalize,
                              seen |-> llx[p].tag])]
               /\ link' = [link EXCEPT ![p] = @ \cup {<<n, ver[n]>>}]
               /\ llx'  = [llx EXCEPT ![p] = NoLlx]
               /\ Goto(p, IF k = 1 THEN "readField" ELSE AfterLink(p, k))
               /\ UNCHANGED <<child, job, ret>>
          ELSE FailedLlx(p) /\ UNCHANGED <<desc, link>>
       /\ UNCHANGED <<nodeVars, plan, done, ver, past>>

(***************************************************************************)
(* helpOther: a snapshot of the descriptor, then help from the second node *)
(***************************************************************************)
\* Mutant: the loop of l.97 runs one node too far.
HelpFromTooFar(i, deps) == IF i <= Len(deps) + 1 THEN "freeze" ELSE "setFrozen"

HelpFrom(i, deps) == IF i <= Len(deps) THEN "freeze" ELSE "setFrozen"

SnapCopy(p) ==
    LET d == desc[llx[p].tag.tid]
    IN /\ At(p, "snapCopy")
       /\ job' = [job EXCEPT ![p] = [tag |-> llx[p].tag, seq |-> d.seq,
                    deps |-> d.deps, old |-> d.old, i |-> 2, other |-> TRUE]]
       /\ Goto(p, "snapCheck")
       /\ UNCHANGED <<nodeVars, desc, plan, child, llx, ret, ghostVars>>

\* Mutant: the snapshot is used whatever the sequence number says.
SnapCheckNothing(p) ==
    /\ At(p, "snapCheck")
    /\ Goto(p, HelpFrom(2, job[p].deps))
    /\ UNCHANGED <<nodeVars, desc, plan, child, llx, job, ret, ghostVars>>

\* Mutant: an operation in progress is not helped.
SnapCheckGivesUp(p) ==
    /\ At(p, "snapCheck")
    /\ FailedLlx(p)
    /\ UNCHANGED <<nodeVars, desc, plan, ghostVars>>

SnapCheck(p) ==
    /\ At(p, "snapCheck")
    /\ IF Live(job[p].tag)
       THEN Goto(p, HelpFrom(2, job[p].deps)) /\ UNCHANGED <<child, llx, job, ret>>
       ELSE FailedLlx(p)
    /\ UNCHANGED <<nodeVars, desc, plan, ghostVars>>

(***************************************************************************)
(* scxExecute: publish the operation, then help it from its first node     *)
(***************************************************************************)
\* Mutant: the handle is published before DESC1_INITIALIZED.
ExecuteUninitialized(p) ==
    /\ At(p, "execute")
    /\ desc' = [desc EXCEPT ![p].old = child[p]]
    /\ job'  = [job EXCEPT ![p] =
                  [tag  |-> [tid |-> p, seq |-> desc[p].seq + 1],
                   seq  |-> desc[p].seq + 1, deps |-> desc[p].deps,
                   old  |-> child[p], i |-> 1, other |-> FALSE]]
    /\ Goto(p, "freeze")
    /\ UNCHANGED <<nodeVars, plan, child, llx, ret, ghostVars>>

Execute(p) ==
    /\ At(p, "execute")
    /\ desc' = [desc EXCEPT ![p].seq = @ + 1, ![p].old = child[p]]
    /\ job'  = [job EXCEPT ![p] =
                  [tag  |-> [tid |-> p, seq |-> desc[p].seq + 1],
                   seq  |-> desc[p].seq + 1, deps |-> desc[p].deps,
                   old  |-> child[p], i |-> 1, other |-> FALSE]]
    /\ Goto(p, "freeze")
    /\ UNCHANGED <<nodeVars, plan, child, llx, ret, ghostVars>>

(***************************************************************************)
(* help                                                                    *)
(***************************************************************************)
Current(p) == job[p].deps[job[p].i]

NextNode(p) ==
    /\ job' = [job EXCEPT ![p].i = @ + 1]
    /\ Goto(p, HelpFrom(job[p].i + 1, job[p].deps))

\* help returns: to llx when helping another, else to scxExecute.
HelpReturns(p, state) ==
    IF job[p].other
    THEN FailedLlx(p)
    ELSE /\ Goto(p, "retire")
         /\ ret' = [ret EXCEPT ![p] = state]
         /\ UNCHANGED <<child, llx, job>>

\* The conditional writes to the mutables of the operation p helps.
Unchanged(p) == desc[job[p].tag.tid].seq = job[p].seq

WriteState(p, state) ==
    desc' = IF Unchanged(p)
            THEN [desc EXCEPT ![job[p].tag.tid].state = state] ELSE desc

WriteAllFrozen(p) ==
    desc' = IF Unchanged(p)
            THEN [desc EXCEPT ![job[p].tag.tid].allFrozen = TRUE] ELSE desc

\* The freezing CAS.
Freeze(p) ==
    LET n == Current(p).node
    IN /\ At(p, "freeze")
       /\ IF scxPtr[n] = Current(p).seen
          THEN /\ scxPtr' = [scxPtr EXCEPT ![n] = job[p].tag]
               /\ past'   = [past EXCEPT ![n] = @ \cup {job[p].tag}]
               /\ NextNode(p)
          ELSE Goto(p, "reread") /\ UNCHANGED <<scxPtr, past, job>>
       /\ UNCHANGED <<marked, val, desc, plan, child, llx, ret, done, ver, link>>

\* Mutant: a failed CAS means a conflict.
FreezeRereadNever(p) ==
    /\ At(p, "reread")
    /\ Goto(p, "readFrozen")
    /\ UNCHANGED <<nodeVars, desc, plan, child, llx, job, ret, ghostVars>>

\* Mutant: a failed CAS is tried again.
FreezeRereadRetries(p) ==
    /\ At(p, "reread")
    /\ IF scxPtr[Current(p).node] = job[p].tag
       THEN NextNode(p)
       ELSE Goto(p, "freeze") /\ UNCHANGED job
    /\ UNCHANGED <<nodeVars, desc, plan, child, llx, ret, ghostVars>>

\* The read after a failed CAS: another helper may have frozen the node.
FreezeReread(p) ==
    /\ At(p, "reread")
    /\ IF scxPtr[Current(p).node] = job[p].tag
       THEN NextNode(p)
       ELSE Goto(p, "readFrozen") /\ UNCHANGED job
    /\ UNCHANGED <<nodeVars, desc, plan, child, llx, ret, ghostVars>>

\* Mutant: no allFrozen bit, a conflict always aborts.
ReadFrozenNever(p) ==
    /\ At(p, "readFrozen")
    /\ Goto(p, "abort")
    /\ UNCHANGED <<nodeVars, desc, plan, child, llx, job, ret, ghostVars>>

\* Mutant: every operation that lost a node failed.
ReadFrozenAborts(p) ==
    LET tag == job[p].tag
    IN /\ At(p, "readFrozen")
       /\ \/ ~Live(tag) /\ HelpReturns(p, Aborted)
          \/ Live(tag) /\ desc[tag.tid].allFrozen /\ HelpReturns(p, Aborted)
          \/ /\ Live(tag) /\ ~desc[tag.tid].allFrozen
             /\ Goto(p, "abort") /\ UNCHANGED <<child, llx, job, ret>>
       /\ UNCHANGED <<nodeVars, desc, plan, ghostVars>>

ReadFrozen(p) ==
    LET tag == job[p].tag
    IN /\ At(p, "readFrozen")
       /\ \/ ~Live(tag) /\ HelpReturns(p, Aborted)
          \/ Live(tag) /\ desc[tag.tid].allFrozen /\ HelpReturns(p, Committed)
          \/ /\ Live(tag) /\ ~desc[tag.tid].allFrozen
             /\ Goto(p, "abort") /\ UNCHANGED <<child, llx, job, ret>>
       /\ UNCHANGED <<nodeVars, desc, plan, ghostVars>>

Abort(p) ==
    /\ At(p, "abort")
    /\ WriteState(p, Aborted)
    /\ HelpReturns(p, Aborted)
    /\ UNCHANGED <<nodeVars, plan, ghostVars>>

\* The nodes from index i on that the operation still has to mark.
ToMark(i, deps) == { j \in i..Len(deps) : deps[j].finalize }
MarkFrom(i, deps) == IF ToMark(i, deps) = {} THEN "update" ELSE "mark"

SetFrozen(p) ==
    /\ At(p, "setFrozen")
    /\ WriteAllFrozen(p)
    /\ job' = [job EXCEPT ![p].i = 1]
    /\ Goto(p, MarkFrom(1, job[p].deps))
    /\ UNCHANGED <<nodeVars, plan, child, llx, ret, ghostVars>>

Mark(p) ==
    /\ At(p, "mark")
    /\ \E j \in ToMark(job[p].i, job[p].deps) :
          /\ \A m \in ToMark(job[p].i, job[p].deps) : j <= m
          /\ marked' = [marked EXCEPT ![job[p].deps[j].node] = TRUE]
          /\ job' = [job EXCEPT ![p].i = j + 1]
          /\ Goto(p, MarkFrom(j + 1, job[p].deps))
    /\ UNCHANGED <<scxPtr, val, desc, plan, child, llx, ret, ghostVars>>

\* The update CAS; where it takes effect is where the SCX takes effect.
Update(p) ==
    LET n == job[p].deps[1].node
        V == { job[p].deps[i].node : i \in DOMAIN job[p].deps }
    IN /\ At(p, "update")
       /\ IF val[n] = job[p].old
          THEN /\ val'  = [val EXCEPT ![n] = job[p].tag]
               /\ done' = done \cup {job[p].tag}
               /\ ver'  = [m \in Nodes |->
                             IF m \in V THEN job[p].tag ELSE ver[m]]
          ELSE UNCHANGED <<val, done, ver>>
       /\ Goto(p, "commit")
       /\ UNCHANGED <<marked, scxPtr, desc, plan, child, llx, job, ret, link, past>>

Commit(p) ==
    /\ At(p, "commit")
    /\ WriteState(p, Committed)
    /\ HelpReturns(p, Committed)
    /\ UNCHANGED <<nodeVars, plan, ghostVars>>

\* DESC1_NEW and the return of scxExecute.
Retire(p) ==
    /\ At(p, "retire")
    /\ desc' = [desc EXCEPT ![p].seq = @ + 1, ![p].state = InProgress,
                            ![p].allFrozen = FALSE]
    /\ Return(p, ret[p])
    /\ UNCHANGED <<nodeVars, plan, ghostVars>>

-----------------------------------------------------------------------------
Llx(p) == \/ LlxReadMarked(p) \/ LlxReadPtr(p) \/ LlxReadState(p)
          \/ LlxReadUnmarked(p) \/ LlxValidate(p)

Help(p) == \/ Freeze(p) \/ FreezeReread(p) \/ ReadFrozen(p) \/ Abort(p)
           \/ SetFrozen(p) \/ Mark(p) \/ Update(p) \/ Commit(p)

Begin(p) == \E fp \in Footprints[p] : Start(p, fp)

\* The steps of a call that has begun.
Step(p) == \/ ReadField(p) \/ Llx(p) \/ SnapCopy(p) \/ SnapCheck(p)
           \/ Execute(p) \/ Help(p) \/ Retire(p)

Next == \E p \in Threads : Begin(p) \/ Step(p)

Spec == Init /\ [][Next]_vars

-----------------------------------------------------------------------------
(***************************************************************************)
(* Properties                                                              *)
(***************************************************************************)
LlxLabels    == {"llxMarked", "llxPtr", "llxState", "llxUnmarked",
                 "llxValidate"}
NodeLabels   == {"freeze", "reread", "readFrozen", "abort"}
HelpLabels   == NodeLabels \cup {"setFrozen", "mark", "update", "commit"}
Labels       == {"idle", "readField", "snapCopy", "snapCheck", "execute",
                 "retire"} \cup LlxLabels \cup HelpLabels
Frozen       == [node : Nodes, finalize : BOOLEAN, seen : Handle]
Descriptor   == [seq : Nat, state : State, allFrozen : BOOLEAN,
                 deps : Seq(Frozen), old : Handle]
Locals       == [marked : BOOLEAN, tag : Handle]
Job          == [tag : Handle, seq : Nat, deps : Seq(Frozen), old : Handle,
                 i : Nat, other : BOOLEAN]

\* The indices into a footprint or into the nodes of an operation exist.
IndexOK(p) ==
    /\ pc[p] \in LlxLabels \cup {"snapCopy"} => LinkIndex(p) \in DOMAIN plan[p]
    /\ pc[p] = "readField" => LinkIndex(p) = 2 /\ Len(plan[p]) > 0
    /\ pc[p] = "execute" => LinkIndex(p) > 1
    /\ pc[p] = "snapCheck" => job[p].i = 2
    /\ pc[p] \in NodeLabels => job[p].i \in DOMAIN job[p].deps

\* Every variable has its type, and no array is read out of its bounds.
TypeOK ==
    /\ marked \in [Nodes -> BOOLEAN]
    /\ scxPtr \in [Nodes -> Handle]
    /\ val    \in [Nodes -> Handle]
    /\ desc   \in [Tids -> Descriptor]
    /\ pc     \in [Threads -> Labels]
    /\ plan   \in [Threads -> Seq(Dep)]
    /\ child  \in [Threads -> Handle]
    /\ llx    \in [Threads -> Locals]
    /\ job    \in [Threads -> Job]
    /\ ret    \in [Threads -> {"none", "failed", "finalized", Committed, Aborted}]
    /\ done   \in SUBSET Handle
    /\ ver    \in [Nodes -> Handle]
    /\ link   \in [Threads -> SUBSET (Nodes \X Handle)]
    /\ past   \in [Nodes -> SUBSET Handle]
    /\ \A p \in Threads : IndexOK(p)

Odd(n) == n % 2 = 1

Building(p) == pc[p] \in {"idle", "readField", "snapCopy", "snapCheck",
                          "execute"} \cup LlxLabels
Helping(p)  == pc[p] \in HelpLabels

\* The assertions of the code: the owner's sequence number is even while it
\* adds nodes (l.198, 204), odd from scxExecute (l.219) until DESC1_NEW, even
\* again after it (l.222); the handle and the snapshot an operation is helped
\* with carry one odd number (l.140-142).
SequenceParity ==
    \A p \in Threads :
       /\ Odd(desc[p].seq) <=> (pc[p] = "retire" \/ (Helping(p) /\ ~job[p].other))
       /\ Helping(p) => Odd(job[p].tag.seq) /\ job[p].seq = job[p].tag.seq

\* A handle names the static descriptor or an operation that was published.
Published(h) == \/ h = InitHandle
                \/ /\ h.tid \in Threads
                   /\ Odd(h.seq)
                   /\ h.seq <= desc[h.tid].seq

\* No handle that is stored in a record, held by a thread or recorded in a
\* descriptor is ahead of the descriptor it names, so that the check of a
\* sequence number recognises every handle of a reused descriptor as stale.
HandlesPublished ==
    /\ \A n \in Nodes : /\ Published(scxPtr[n])
                        /\ Published(val[n])
                        /\ Published(ver[n])
    /\ \A p \in Threads : Published(llx[p].tag) /\ Published(job[p].tag)
    /\ \A t \in Tids : \A i \in DOMAIN desc[t].deps : Published(desc[t].deps[i].seen)

Tag(t) == [tid |-> t, seq |-> desc[t].seq]

\* The outcome written in a descriptor is the truth: an operation is marked
\* committed only after its update CAS took effect, and one marked aborted
\* never had it take effect and never got all its nodes frozen, however the
\* abort of a late helper races with the commit of another (l.112-131).
OutcomeIsTrue ==
    \A t \in Threads : Odd(desc[t].seq) =>
       /\ desc[t].state = Committed => Tag(t) \in done
       /\ desc[t].state = Aborted   => Tag(t) \notin done /\ ~desc[t].allFrozen

\* The records that a committed update removed.
Fin == { n \in Nodes : marked[n] /\ scxPtr[n] \in done }

\* What the calls answer is true.  scxExecute answers true exactly when the
\* update took effect, although the update CAS may have been another thread's
\* and its own answer may come from the exits of l.110 to l.117.  llx answers
\* FINALIZED only for a record that an update has removed, although it may have
\* read the mark of l.124 before the update CAS (l.169, 189).
ResultIsTrue ==
    \A p \in Threads :
       LET last == [tid |-> p, seq |-> IF Odd(desc[p].seq) THEN desc[p].seq
                                                          ELSE desc[p].seq - 1]
       IN pc[p] \in {"idle", "retire"} =>
             /\ ret[p] = Committed => last \in done
             /\ ret[p] = Aborted   => last \notin done
             /\ ret[p] = "finalized" => LinkNode(p) \in Fin

\* A finalized record is never frozen for another operation and never changes.
FinalizedIsForever ==
    [][\A n \in Fin : n \in Fin' /\ val'[n] = val[n] /\ scxPtr'[n] = scxPtr[n]]_vars

\* The handles of the SCXs an execution within the bound can execute.
Tags == UNION { { [tid |-> p, seq |-> 2 * k + 1] : k \in 1..MaxOps[p] }
                : p \in Threads }

\* The provider implements atomic LLX and SCX.  An SCX takes effect at its
\* update CAS, a successful LLX at its second read of scxPtr.
Atomic == INSTANCE AtomicSCX WITH fin <- Fin, InitTag <- InitHandle
AtomicSpec == Atomic!Spec

\* Operations conflict only when one of them gets through: when every call has
\* ended and some SCX was executed, at least one took effect.
SomeoneWins ==
    (\A p \in Threads : pc[p] = "idle") /\ (\E p \in Threads : desc[p].seq > 2)
       => done # {}

-----------------------------------------------------------------------------
(***************************************************************************)
(* Fairness: a thread that runs is scheduled again and again.  Whether it  *)
(* begins another call is the caller's choice.                             *)
(***************************************************************************)
CONSTANT Survivors      \* threads that never crash, and whose caller retries

\* The other threads may stop for ever between any two of their accesses.
CrashSpec == Spec /\ \A p \in Survivors : WF_vars(Begin(p)) /\ WF_vars(Step(p))

\* Every call of LLX and SCX of a surviving thread returns, whatever the other
\* threads do and wherever they stop.
CallsReturn == \A p \in Survivors : pc[p] # "idle" ~> pc[p] = "idle"

\* A surviving thread that retries its update gets it through, although the
\* others may have crashed with records frozen or marked for operations that
\* are still in progress.
SurvivorCommits == \A p \in Survivors : <>(\E tag \in done : tag.tid = p)
=============================================================================
