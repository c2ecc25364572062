----------------------------- MODULE Sequential -----------------------------
(***************************************************************************)
(* What runs without threads, or is composed of threads that do not share  *)
(* anything while they run: the drivers, the preprocessor on atomic_ops,   *)
(* the hash tables and the sequential tree.  They have no state in common: *)
(* a behaviour is one of the part that "program" names, and the other      *)
(* parts stay idle.                                                        *)
(***************************************************************************)
EXTENDS Driver, AtomicOps, HashSets, SequentialTree

idleDriver ==
    /\ n = 0 /\ num_processes = 1 /\ num_rebal_threads = 0
    /\ phase = 0 /\ i = 0 /\ running = {} /\ leaves = << >> /\ printed = {}

idleOps ==
    /\ platform = [ts |-> "none", dd |-> TRUE, prims |-> {}, twice |-> TRUE]
    /\ have = << >> /\ pass = 0 /\ section = 1

idleTables ==
    /\ hash = [e \in Elements |-> 0] /\ capacity = Capacity /\ data = Empty(Capacity)
    /\ hashTableIndex = << >> /\ list = << >> /\ freeNodes = 0 /\ inserted = {}
    /\ keys = Empty(tableSize(MaxElement)) /\ collected = {}

SeqInit ==
    \/ Init /\ idleOps /\ idleTables /\ SequentialInit
    \/ program = "atomic_ops" /\ idleDriver /\ OpsInit /\ idleTables /\ SequentialInit
    \/ program \in {"HashList", "hashset_new"} /\ idleDriver /\ idleOps /\ TablesInit /\ SequentialInit
    \/ program = "tree.h" /\ idleDriver /\ idleOps /\ idleTables /\ SequentialInit

SeqVars == <<vars, ops, tables, sequential>>

SeqNext ==
    \/ /\ program \in {"nonblocking", "finegrained"} /\ Next
       /\ UNCHANGED <<ops, tables, sequential>>
    \/ /\ program = "atomic_ops" /\ OpsNext
       /\ UNCHANGED <<vars, tables, sequential>>
    \/ /\ program = "HashList" /\ HashListNext
       /\ UNCHANGED <<vars, ops, sequential>>
    \/ /\ program = "hashset_new" /\ HashSetNext
       /\ UNCHANGED <<vars, ops, sequential>>
    \/ /\ program = "tree.h" /\ SequentialNext
       /\ UNCHANGED <<vars, ops, tables>>

SeqSpec == SeqInit /\ [][SeqNext]_SeqVars
=============================================================================
