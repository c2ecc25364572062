------------------------------- MODULE Driver -------------------------------
(***************************************************************************)
(* The two main.cpp: loops that start threads and give thread i the places *)
(* low .. high - 1 of an array of keys, joins between them, and the checks *)
(* at the end.  The tree is the set of keys that the tree modules show it  *)
(* to be.  The arithmetic is C++'s on ints, which does not overflow for    *)
(* any number of keys that fits in memory; a shuffled array is an array of *)
(* other names for the keys, so that the key in place j is called j.       *)
(***************************************************************************)
EXTENDS Integers, Sequences, FiniteSets

CONSTANTS Sizes, MaxProcesses, MaxRebalancers  \* the command line's arguments

ASSUME DriverAssumption ==
    /\ Sizes \subseteq Nat \ {0} /\ MaxProcesses \in Nat \ {0}
    /\ MaxRebalancers \in Nat

VARIABLES
    program,            \* which main runs
    n,                  \* the number of keys
    num_processes,
    num_rebal_threads,
    phase,              \* the loop main is in
    i,                  \* its counter
    running,            \* the threads that have not ended yet
    leaves,             \* leaves[k]: how many leaves of the tree have key k
    printed             \* the complaints of the checks

args == <<program, n, num_processes, num_rebal_threads>>
vars == <<args, phase, i, running, leaves, printed>>

\* The loops that start threads, in order.
Loops ==
    IF program = "nonblocking"
    THEN <<"insert", "rebalance", "delete", "deleteMixed", "insertMixed">>
    ELSE <<"insert", "rebalance", "delete", "rebalance">>

\* The keys that a program inserts first, and the ones NonBlocking adds.
Keys == 0 .. n - 1
NewKeys == n .. n + (n \div 5) - 1

Init ==
    /\ program \in {"nonblocking", "finegrained"}
    /\ n \in Sizes /\ num_processes \in 1 .. MaxProcesses
    /\ num_rebal_threads \in 0 .. MaxRebalancers
    /\ program = "finegrained" => num_rebal_threads = 1
    /\ phase = 1 /\ i = 0
    /\ running = {} /\ printed = {}
    /\ leaves = [k \in Keys \cup NewKeys |-> 0]

\* init makes room for that many threads.
Room == num_processes + 4

\* How many threads a loop starts.
Started(loop) ==
    CASE loop = "rebalance" -> num_rebal_threads
      [] loop = "deleteMixed" -> IF num_processes = 1 THEN 1 ELSE num_processes \div 2
      [] loop = "insertMixed" -> num_processes - num_processes \div 2
      [] OTHER -> num_processes

\* How many places it shares out.
Share(loop) ==
    CASE loop = "rebalance" -> 0
      [] loop = "insert" -> n
      [] OTHER -> IF program = "finegrained" THEN n \div 10 ELSE n \div 5

\* The key in a place of its array: keys, del_keys, remain_keys, new_keys.
KeyAt(loop, j) ==
    CASE loop = "insertMixed" -> n + j
      [] loop = "deleteMixed" -> n \div 5 + j
      [] loop = "delete" /\ program = "finegrained" -> 10 * j
      [] OTHER -> j

\* The number under which a thread calls the non-blocking tree.
Tid(loop, t) ==
    CASE loop = "rebalance" -> num_processes + t
      [] loop = "insertMixed" -> num_processes \div 2 + t
      [] OTHER -> t

\* Mutant: the rest of the division goes to nobody.
HighNoRest(loop, t) == (t + 1) * (Share(loop) \div Started(loop))

\* The last thread takes what the division leaves over; in the loop that
\* starts the deletions of the mixed phase it is not the thread's number that
\* is compared with that of the last thread.
High(loop, t) ==
    LET high == (t + 1) * (Share(loop) \div Started(loop))
        last == IF loop = "deleteMixed" THEN high = Started(loop) - 1
                                         ELSE t = Started(loop) - 1
    IN IF last THEN Share(loop) ELSE high

Low(loop, t) == t * (Share(loop) \div Started(loop))

InALoop == phase <= Len(Loops)
Loop == Loops[phase]

Start ==
    /\ InALoop /\ i < Started(Loop)
    /\ running' = running \cup
          { [loop |-> Loop, tid |-> Tid(Loop, i),
             low |-> Low(Loop, i), high |-> High(Loop, i)] }
    /\ i' = i + 1
    /\ UNCHANGED <<args, phase, leaves, printed>>

(***************************************************************************)
(* insert_nodes and delete_nodes.  Threads that run at the same time have  *)
(* other keys, or delete the same ones, so that a thread takes one step.   *)
(* insertKey does not look whether the key is there.                       *)
(***************************************************************************)
Workers == {t \in running : t.loop # "rebalance"}

Work(t) ==
    LET mine == {KeyAt(t.loop, j) : j \in t.low .. t.high - 1} IN
    /\ leaves' = [k \in DOMAIN leaves |->
          IF k \notin mine THEN leaves[k]
          ELSE IF t.loop \in {"insert", "insertMixed"} THEN leaves[k] + 1
          ELSE IF leaves[k] > 0 THEN leaves[k] - 1 ELSE 0]
    /\ running' = running \ {t}
    /\ UNCHANGED <<args, phase, i, printed>>

\* Which threads main waits for before it goes on from a loop; the
\* rebalancing threads of NonBlocking run on until the end.
Joined ==
    CASE Loop = "insert" \/ (program = "finegrained" /\ Loop = "delete") -> {}
      [] Loop = "deleteMixed" -> IF num_processes = 1 THEN Workers ELSE {}
      [] OTHER -> Workers

(***************************************************************************)
(* The checks: which keys must not be found, and which must.               *)
(***************************************************************************)
Found == {k \in DOMAIN leaves : leaves[k] > 0}

Remaining(lo, hi) == {KeyAt("deleteMixed", j) : j \in lo .. hi - 1}

Round3 ==
    (Remaining(0, n \div 5) \cap Found)
      \cup (Remaining(n \div 5, n - n \div 5 - n \div 5) \ Found)
      \cup (NewKeys \ Found)

AfterInsertion == IF program = "finegrained" THEN Keys \ Found ELSE {}

AfterDeletion ==
    LET tenth == {k \in Keys : k % 10 = 0} IN
    (tenth \cap Found) \cup ((Keys \ tenth) \ Found)

AfterRebalancing == IF n % 10 = 0 THEN {} ELSE Keys \ Found

\* Mutant: the single thread that deletes is not waited for.
NextLoopAtOnce ==
    /\ InALoop /\ i = Started(Loop)
    /\ Loop # "deleteMixed" => Joined = {}
    /\ phase' = phase + 1 /\ i' = 0
    /\ running' = IF program = "finegrained" /\ Loop = "rebalance" THEN {} ELSE running
    /\ printed' = IF phase = 2 THEN AfterInsertion ELSE printed
    /\ UNCHANGED <<args, leaves>>

NextLoop ==
    /\ InALoop /\ i = Started(Loop)
    /\ Joined = {}
    /\ phase' = phase + 1 /\ i' = 0
    /\ running' = IF program = "finegrained" /\ Loop = "rebalance" THEN {} ELSE running
    /\ printed' = IF phase = 2 THEN AfterInsertion ELSE printed
    /\ UNCHANGED <<args, leaves>>

Check ==
    /\ phase = Len(Loops) + 1
    /\ phase' = phase + 1
    /\ printed' = printed \cup IF program = "nonblocking" THEN Round3
                               ELSE AfterDeletion \cup AfterRebalancing
    /\ running' = {}
    /\ UNCHANGED <<args, i, leaves>>

Next ==
    \/ Start
    \/ \E t \in Workers : Work(t)
    \/ NextLoop
    \/ Check

Spec == Init /\ [][Next]_vars
-----------------------------------------------------------------------------
Ended == phase = Len(Loops) + 2

\* The keys on which main's arithmetic and its checks disagree, none when the
\* shares divide evenly.  main.cpp:199 recognises the last deletion of the
\* mixed phase by the wrong number, and what the division leaves over may be
\* deleted by nobody; the fine-grained main deletes every tenth key of the
\* first 10 * (n / 10), looks for every tenth of n, and after rebalancing for
\* all of them unless n is a multiple of ten.
Disputed ==
    LET p == Started("deleteMixed")
        s == Share("deleteMixed")
    IN IF program = "nonblocking"
       THEN {KeyAt("deleteMixed", j) : j \in p * (s \div p) .. s - 1}
       ELSE {k \in Keys : k % 10 = 0 /\ n % 10 # 0}

\* Every key is inserted once, by one thread; and, whatever the number of keys
\* and of processes, all that was inserted, deleted or left alone by any of the
\* threads is found, or not found, as the checks of main expect it, but for the
\* keys of the division's rest.
ChecksPass ==
    /\ \A k \in DOMAIN leaves : leaves[k] <= 1
    /\ Ended => printed \subseteq Disputed

\* Threads of the non-blocking tree that run at the same time have different
\* numbers: a descriptor, which has a single owner, is never reused by two.
\* They are all below the one init makes room for, if there are no more
\* rebalancing threads than that: main does not look at its argument.
TidsAreOwn ==
    program = "nonblocking" =>
       /\ num_processes + num_rebal_threads <= Room => \A t \in running : t.tid < Room
       /\ \A t, u \in running : t # u => t.tid # u.tid
=============================================================================
