# Formal models of two concurrent chromatic trees and of the library beside them

The repository holds two programs, each a chromatic tree (a relaxed-balance red-black tree: leaves carry the keys,
weights stand for colours, rebalancing is left to threads of its own) and a `main` that fills it, deletes from it and
checks it:

* `NonBlockingChromaticTree/tree/src`: a lock-free tree (`tree.h`) on LLX/SCX primitives with reusable descriptors
  (`common/scx_provider.h`, `common/descriptors/`), a part of a larger library of building blocks (`common/`);
* `fineGrainedChromaticTree/tree/src`: a tree with one reader-writer lock per record (`tree_par.h`), and an older
  sequential version (`tree.h`).

Paths below are relative to these directories; NB stands for the first `tree.h`, FG for `tree_par.h`.

## Inventory

| Component | State | Operations | Interacts with | Hard behaviour | What makes it correct |
|---|---|---|---|---|---|
| LLX/SCX provider (`scx_provider.h`, `descriptors_impl.h`) | per record `marked`, `scxPtr`, child fields; per thread one descriptor: `mutables`, nodes, expected handles | `scxInit`, `scxAddNode`, `llx`, `scxExecute`, `helpOther`, `help` | called by NB; threads help one another's operations | helpers at any stage, reuse of a descriptor under a helper, aborts racing commits, threads that stop | atomic LLX and SCX; the answers of `scxExecute` and FINALIZED are true; stale handles are recognised; calls return |
| Non-blocking tree, keys (NB 57-235) | records below `GLOBAL_ROOT`; locals of every call | `insertKey`, `deleteKey`, `getNode` | provider; rebalancing changes what they stand on | reads between load-links, retries, walks through removed records | a set of keys, linearizably; removed = finalized; calls end |
| Non-blocking tree, rebalancing (NB 237-832) | the same heap; the call stack of `rebalance` | eight `tryRebalance` functions, `rebalance` | provider; other rebalancing threads | cases taken in any order on a changing tree, pointers followed twice | weighted heights kept; ends; ends balanced; no NULL followed |
| Lock-based tree (FG) | heap, a lock per record, records freed | `insert`, `remove`, `search`, a rebalancing thread | locks only | hand over hand with a re-read pointer, frees under waiters, rotations below the locks held | a set of keys; locks on entry; no undefined behaviour; everything ends |
| The two `main.cpp` | arrays of keys, loops of threads, thread numbers | start loops, joins, checks at the end | both trees | remainders of divisions, numbers used twice | every key belongs to one thread; a number is used by one thread at a time; the checks at the end pass |
| Sequential tree (`fineGrained...`, `tree.h`) | heap | `insert`, `remove`, `search`, `rebalance` | none | new roots that callers must store | a set with equal path weights |
| Reclaimers (`recordmgr/reclaimer_*.h`), user-space RCU (`urcu/`) | epoch, announcements, limbo bags, hazard pointers, signals | `leaveQuiescentState`, `enterQuiescentState`, `protect`, `retire`, `qProtect`, `synchronize` | pools below, data structures above | late announcements, signals in mid-operation, lists that change under a scan | nothing is freed that a thread may still follow |
| Pools, bags, allocators (`recordmgr/`) | per-thread bags of blocks, a lock-free stack of blocks | `get`, `add`, `addMoveFullBlocks`, `addMoveAll` | below the reclaimers | ABA on the stack, blocks that move between bags | an object is in one place |
| DCSS, KCAS (`dcss/`, `kcas/`, `descriptors_impl2.h`) | words with tagged pointers, descriptors used again | `dcssPtr`, `readPtr`, `writePtr`, `start`, `addPtrAddr`, `execute` | threads help one another | late helpers, stale descriptors, numbers of threads passed on | atomic; no pointer to a descriptor left behind; helping ends |
| RLU (`rlu/`) | objects with copies, write-sets, versions | sections, `rlu_dereference`, `rlu_try_lock`, `rlu_abort`, `rlu_free`, deferred commits | threads wait for and ask one another | write-back under readers, write-sets used again | a section sees one version; freed objects are unused; waiting ends |
| Range queries (`rq/`) | time stamps of nodes, announcements, bags, snapshot collectors | `start_traversal`, `visit`, `end_traversal`, `linearize_update_at_write/cas` | a data structure above, `rwlock.h`, DCSS and DEBRA below | nodes between announcement and bag, times not yet set, reports while a collector closes | a query answers with the nodes of one moment |
| `atomic_ops/` | which primitives the preprocessor has defined | inclusion of a platform's header and of the rules | everything that is atomic | some 3000 lines of rules, included more than once | derived primitives keep their order; the rules converge |
| `rq/hashlist.h`, `recordmgr/hashtable.h` | tables | `insert`, `contains`, `clear`, `expand` | range queries, reclaimers | collisions, growth | sets |

The rest of `common/` is listed under "Not modelled". The tree programs themselves use the provider and its
descriptors; the other building blocks come without a caller in the repository, and are modelled under small clients.
The hazards, each at its line, with the properties that watch it, are in `PROJECT.json`.

## Modules

| Module | Models |
|---|---|
| `AtomicSCX` | what LLX and SCX promise: load-link, validated multi-record update, finalizing |
| `SCX` | the provider, one access to shared memory per action, driven as NB drives it |
| `SCXProofs` | theorems about it: types and handles, the invariant of operations, outcomes, and the refinement |
| `KeySet` | what a search tree promises: a set whose operations take effect in one step of their own call |
| `ChromaticTree`, `ChromaticTreeProofs` | NB's heap, and each of its changes as the one step in which its SCX takes effect; what these changes keep |
| `NonBlockingTree`, `NonBlockingTreeProofs` | NB's `insertKey`, `deleteKey`, `getNode` step by step, beside rebalancing, in the phases of `main`; theorems about them |
| `RebalanceScan` | the scan of a rebalancing thread, one read of a child pointer per action |
| `FineGrainedTree` | FG: locks, hand-over-hand descents, frees, the recursive rebalancing thread |
| `FineGrainedTreeProofs` | theorems about it: locks held, the refinement of `KeySet`, weights, for updates and searches without a pass beside them |
| `Driver` | both `main.cpp`: loops that share out keys, thread numbers, joins, checks |
| `DriverProofs` | theorems about it: thread numbers, and what the checks find, for all numbers of keys and threads |
| `SequentialTree` | the sequential tree, a visit of a node per step of `rebalance` |
| `Reclamation` | what all reclaimers share: clients that find, unlink and retire records; bags; the pool |
| `Debra`, `DebraPlus`, `EpochTree`, `HazardPointers`, `UserRCU` | `reclaimer_debra.h` and `_debracap.h`; `_debraplus.h` with `recovery_manager.h`; `_ebr_tree.h` and `_ebr_token.h`; `_hazardptr.h` with `arraylist.h`; both compilations of `urcu_impl.h`, and `reclaimer_rcu.h` |
| `Pools` | `pool_perthread_and_shared.h`, `pool_none.h`, `blockbag.h`, `lockfreeblockbag.h`, `blockpool.h`, three allocators |
| `Reclaimers` | all of these side by side, one of which is compiled in |
| `ReclaimersProofs` | theorems about them, for any number of threads, records and blocks |
| `Clients` | threads with programs and stacks of frames, and what an atomic object could have answered |
| `Dcss`, `Kcas` | `descriptors_impl2.h`, `dcss_impl.h`, `dcss_plus_impl.h`; `kcas_reuse_impl.h`, `kcas_reuse_htm_impl.h` |
| `DcssProofs` | theorem about DCSS: it is atomic, and leaves no pointer behind |
| `Rlu` | `rlu.cpp` |
| `RluProofs` | theorems about it: what a section sees |
| `Multiword` | DCSS, KCAS and RLU side by side |
| `RwLock` | `rwlock.h` in its two own compilations |
| `RangeData`, `RangeLocks`, `RangeDcss`, `RangeSnap` | what the providers share, over a small external data structure; `rq_rwlock.h` and `rq_htm_rwlock.h`; `rq_dcssp.h`; `rq_snapcollector.h` with `snapcollector.h`, `reportitem.h` |
| `RangeQueries` | the providers side by side |
| `Platforms`, `AtomicOps` | what the headers under `sysdeps/` define; the rules of `generalize.h` and `generalize-small.h` |
| `HashSets` | the compiled variant of `HashList`, and `hashset_new` |
| `Sequential` | `Driver`, `AtomicOps`, `HashSets`, `SequentialTree` side by side |
| `MCSCX`, `MCTree`, `MCFine`, `MCReclaim`, `MCWords`, `MCRange` | small instances |

A module that puts components side by side has a variable (`scheme`, `program`) that says which of them a behaviour is
about; the state of the others keeps its first value. Memory is sequentially consistent in all modules that have threads:
the code orders its accesses with CASes and fences on x86, and only the delay of plain stores would differ.

### SCX

Each of the actions named `Llx...`, `Snap...`, `Freeze`, `FreezeReread`, `ReadFrozen`, `Abort`, `SetFrozen`, `Mark`,
`Update`, `Commit`, `Retire` is one read, write or CAS of the provider, in program order. `scxPtr` holds handles
(owner, sequence number) as in the code; a handle is live only while its number is that of the owner's descriptor.
`job[p]` holds the locals of p's call of `help`, for its own operation or for another's. `done`, `ver`, `link` and
`past` (the handles a record has held) are history: no guard reads them.

* `MUTABLES1_WRITE_FIELD` and `_WRITE_BIT` loop until one CAS succeeds or the sequence number has moved on: one
  conditional write. A torn `DESC1_SNAPSHOT` fails its check, for sequence numbers only grow: the copy is one read.
* Sequence numbers do not wrap. The code gives them a field of fixed width, which a run of the program does not
  exhaust.
* A record has one mutable child field. The value an SCX stores is a node made for it and is named by its handle.

### ChromaticTree, NonBlockingTree, RebalanceScan

LLX and SCX are atomic here, which is what `SCX` is checked to implement (`AtomicSpec`). A reservation `n \in linked[p]`
is lost when an SCX takes effect on a set holding `n`, or never given on a finalized record. The LLX and SCX of the code
may also fail on meeting an operation in progress; the caller then starts over from the root, a state a slow thread is in
anyhow, so that these failures add no state. Between two load-links the thread reads child pointers as the code does; each
of these reads is an action. Rebalancing enters by its successful SCX: what the function read after its load-links cannot
have changed by then, so that its tests are made on the heap as it is. Functions and their mirror images (2A/2B, 3A/3B,
5A/5B) are one definition with the side as a parameter.

A script is a sequence of phases, each giving the threads their operations, bounding `numRebalOps` by `maxRebalOps` and
saying whether a rebalancing thread is followed read by read. `NextPhase` is the join. `todo[p]` is what p has left,
`at[p]` are the locals `n0` to `n3`.

`scan` is the call stack of `rebalance`. The conditions are a table of terms in program order (`Tests`); a term about a
child is one read of a pointer, one about a grandchild is two, and following NULL stops the thread (`"NULL followed"`).
A scan goes back from NULL and from a record without any child (`Childless`, NB 779); one that has a single child is
tested like any other, and where a test follows the other pointer the thread stops. What a pointer leads to never changes
its key, its weight or whether it is a leaf. The pointers given to the recursive calls are read in any order, as C++ allows.
`Call` is the successful SCX of the function for the case found; it may fail while updates are under way or when the tree
is no longer the one the case was found on.

### FineGrainedTree

An action is an acquisition, a read that another thread can make stale, or everything up to the next acquisition.
`held[t]` are the locks of t; a search takes them shared. `stack` is the call stack of `rebalance`. What C++ leaves
undefined (NULL or freed memory used, a lock unlocked that is not held, one locked twice) sets `error` and stops the
system; `Stop` lets it stutter there and at the end of the program, so that TLC's deadlock check finds exactly the states
in which threads wait for one another. Threads of the passing run insert, remove and search in phases without passes of
the rebalancing thread, which has phases of its own: their overlap goes wrong (`FGEntry`).

A search unlocks a record before it reads the child pointer in it again (FG 290-292, 295-297). In between a removal that
waited for this lock may free the record (419). What the read then gives is not known: it may still be the pointer
(`Call`), or the program has used what is no longer its own (`Reread`, after which it stops). `OnlyRereadsFail` says that
nothing else of this kind happens, and `ProgramEnds` and `IsKeySet` are about programs until then.

### Reclaimers

A client thread runs operations: it finds a record that the data structure reaches (`holds`), may unlink and retire it,
and ends its operation. `me[p]` are p's private variables in the scheme, `word` what threads announce (epochs, nodes of
the tournament tree, tokens, the urcu table), `list` the records announced one by one, `bags` the limbo bags in blocks.
`record_manager::startOp` ends in a full barrier. `Plan` gives the number of threads, who unlinks, `BLOCK_SIZE`, and the
last epoch in which an operation starts. A signal of DEBRA+ interrupts its target before the target's next step, which
is what the scheme asks of the operating system.

In `Pools` whatever a thread does to bags of its own is one step; reads and CASes of the shared stack are steps of their
own, and a block that the reader has seen may have been freed, used again and be back by then.

### Multiword and RangeQueries

`views` in `Clients` holds every state an atomic object may be in given the calls and answers so far; `Linearizable` says
that there is always one. A frame of a stack is a function in progress: its `pc` and locals. In `Dcss` a word holds
a value or a tagged pointer `<<kind, tid, seq>>`. An action is one access to shared memory, with what follows in private
memory. A hardware transaction is one step, or fails.

The repository has no data structure that uses an `RQProvider`. The external one in `RangeData` has buckets, each a word
with the set of its nodes, replaced as a whole, and with logical deletion a word per node for its mark. Spin waits are
guards: the loop ends when its condition holds.

### Driver, AtomicOps, HashSets, SequentialTree

`Driver` follows the loops that start and join threads, with the share of the array (`Low`, `High`) and the thread number
each gets, and computes what the checks at the end of `main` find. `AtomicOps` holds a set `have` of primitives with the
order each has; `Platform(name)` is what a platform's header defines, a rule adds a primitive made from others, and
`section` is where the inclusion has got to. Names and the cases of the headers are those of the source; macros for
`double_t` and the `nop` macros are left out. `HashSets` takes any hash function, up to exchange of elements.
`SequentialTree` names nodes by key (a leaf k, its inner node `MaxTreeKey` + k).

## Runs

| Run | Asks | Bounds, and why they are enough |
|---|---|---|
| `SCXTrio` | Are the answers of `scxExecute` and FINALIZED true? When rotations and an update below them freeze records in conflicting orders, does one get through? Are LLX and SCX atomic (`AtomicSpec`, a refinement)? | 3 threads, one SCX each on 4 records, every pair overlapping: a helper is itself helped |
| `SCXCrash` | Are stale handles recognised when a descriptor is reused under a slow helper? Does a thread that retries get its update through, and do its calls return, although the other may stop for ever at any step? | 2 threads; the survivor has 3 SCXs, one more than the other can make fail, and a helper can be two reuses late |
| `NBTree` | Is the tree a set (linearizability, a refinement of `KeySet`)? Is what leaves it finalized, and only that? Do the eight cases keep the weighted heights, end, and leave no violation below the root? Does every operation end? Does a scan meet no NULL, and leave nothing undone? | 2 threads with 2 or 3 operations each on trees of up to 5 keys; insertions around one leaf beside up to 3 rebalancing steps; deletions of neighbours and of absent keys in trees rebalanced before; deletions beside insertions at the sibling; trees from all orders of 5 keys, rebalanced 0 to 2 times, losing 2 keys; 9 steps are never used up; scans beside two insertions and another thread's rotation, and on trees that lost keys |
| `FGTree` | Locks on entry (an update holds its record and the parent, a search the record it reads, so that none sees an insertion half done), no undefined behaviour, linearizability, termination without deadlock; do rotations come to rest? | 2 threads with 3 operations each around the same leaves; all orders of 4 keys and 5 of 6 keys, with removals, left to up to 4 passes |
| `Sequential` | Do the checks of `main` pass for all keys but those a division leaves over (`Disputed`, see Divergences), and is a thread number used by one thread at a time? Do derived primitives keep the order their name promises, and does another inclusion of the rules change nothing? Are the tables sets? Is the sequential tree one? | sizes with and without remainders up to 6 processes; all platforms and options, with every request of a `compare_and_swap`; every pattern of collisions among 5 elements and 3 hashes, tables starting at 2 places; every sequence of insertions, removals and rebalancing of keys below 7, in which all cases of `rebalance` occur |
| `Reclaimers` | Is a record freed that a thread may still follow (`HeldIsNotFreed`)? Is an object in two places, or lost, in the pools (`OnePlace`)? | 2 or 3 threads, until a record retired in the first epoch is freed (three epochs later); blocks of 1 or 2 objects; for the pools, programs that fill, empty and refill the shared stack under a slow reader |
| `Multiword` | Are DCSS, KCAS and its variant with transactions atomic? Is no pointer to a descriptor left when all is quiet? Does an RLU section see one version, are freed objects unused, do waiting and helping end? | 3 threads and 2 words: KCAS in opposite orders, a descriptor used again, a thread number passed on; RLU with deferred commits, a freed object, aborts, both kinds of locks; one thread writes back at a time (see Divergences) |
| `RangeQueries` | Does a query answer with the nodes of one moment? Is a deleted node found as long as a query may need it? Do queries and locks end? | 3 threads, 2 keys, 4 nodes; one update of each kind beside a query under each provider, both kinds of deletion, and two queries sharing a collector |
| `NBRotated`, `FGEntry`, `HazardMissed`, `RangeReports` | see Findings | the smallest instances on which it happens |

Deadlock checking is off where threads may come to the end of their work (all but `FGTree` and `FGEntry`, in which
`Stop` marks that end). The two `ProgramsEnd` say that all programs end, so that waiting for ever violates them.

The bounds are constants of the instances (`MaxOps`, `Scripts`, `Plan`, `Programs`, `Cases`, `Sizes`, `MaxProcesses`,
`MaxElement`, `MaxTreeKey`, ...), and have smaller values than constants of the code of the same meaning where these only
set how long it takes until something happens: `BLOCK_SIZE`, `MIN_OPS_BEFORE_READ`, `RLU_MAX_WRITE_SETS`, `MAX_VERSION`, the first
capacity of a table (`Capacity`, 32 in the code), the capacity of hazard lists.

## Fairness

Threads are scheduled by the operating system: weak fairness of a thread's steps says that one that can go on is run at
last. `CrashSpec` asks this of `Survivors` only, whose callers also retry (as `insertKey` and `deleteKey` loop); the
others may stop for ever between any two accesses. `ScanFairSpec` and `FairSpec` of the trees ask it of every worker, of
`main`, and in `ScanFairSpec` of the thread that scans; nothing is asked of the other rebalancing threads. Locks are not
assumed fair: in the scripts of `FGTree` operations are finite, so that weak fairness of each thread suffices.

`Multiword` and `RangeQueries` ask for less, `WF_vars(Next)`: as long as anything can happen something does. Spin waits
are guards there, so that a behaviour that goes on for ever without an end of the programs is one in which threads undo
or repeat one another's work, and `ProgramsEnd` excludes it under any scheduling.

## Findings

* `NBRotated`. `tryDelete` (NB 121-136) reads parent and leaf again below the grandparent of its search and compares
  keys only. After a rotation (or an insertion next to the leaf) the record there may be an internal one with the deleted
  key: it is spliced out with its subtree, and keys nobody deletes vanish, which `main.cpp` reports as "Old key ... not
  found".
* `FGEntry`. An insertion locks a child, releases the grandparent and reads the child pointer again for its recursive
  call (FG 355-370); `balanceCase2` meanwhile rotates the record without a lock on it. The call then works on a record it
  has not locked, against the comment at FG 304.
* `HazardMissed`. `AtomicArrayList::erase` (`arraylist.h:54`) moves the last hazard pointer into the erased slot, which
  a scan may already have passed, and the slot it came from may be filled again: the scan misses a hazard pointer and the
  record is freed, against the comment at `reclaimer_hazardptr.h:224`.
* `RangeReports`. Reports on one node are sorted with removals before insertions (`reportitem.h:13-15, 55`), so that an
  insertion followed by its deletion counts as an insertion, against the comment at `snapcollector.h:376`.

The scripts of `NBTree` keep deletions from insertions at the same leaf and from rotations and scans, those of `FGTree`
keep updates and passes in different phases, hazard pointers of `Reclaimers` are given up one at a time, and collectors
see no key come and go, because of these findings; everything else about those overlaps is unclaimed.

### Divergences

Seen while modelling, with the same modules and other scripts, or in the source; no run is kept for them.

Non-blocking tree:

* Deletion gives up: a leaf with key 1 and its parent with key 3; `deleteKey(1)` has load-linked the grandparent, and
  `insertKey(2)` puts an internal record with key 2 above the leaf. The deletion reads that record, sees another key,
  and answers that 1 is absent (NB 134-136): it stays in the tree. `main` deletes and inserts together in its mixed phase.
* Scan beside a deletion: insert 3, 5, 2, and let a scan stand before the third conjunct of `checkCase2`
  (`node->left->left->weight`, NB 754) at the node with key 5; `deleteKey(2)` replaces the red child by a leaf. The
  scan reads `node->left` again, a leaf now, and follows its NULL child. `main` runs its rebalancing threads beside
  the deletions.
* Heights: insert 1, 4, 2, 5, 3 with one rebalancing step, delete 4, insert 6 with up to two more. `tryInsert` gives the
  new internal record the weight of the leaf less one, and its new leaf weight 1, while the old leaf keeps an overweight it
  got from a deletion: weighted heights differ, which `main.cpp` reports as "Height(new) different".
* One child: `tryRebalance3A` and `3B` (NB 346-396 and its mirror image) ask whether the outer record is a leaf, not
  whether `nodeLeftRight` is. An insertion at an overweight leaf can leave a red leaf, on which the double rotation makes
  two records with one NULL child each; `isLeaf` takes these for leaves and the keys below are not found any more, without
  any overlap of operations: insert 5, 3, 2, 6 and rebalance once; delete 3, 6; insert 1 and rebalance up to three times in
  total; insert 0, delete 2; one more rebalancing step loses 0 and 5. The proofs about the tree allow such records.
* Root: insert 3, 5, 2 and rebalance once. A red-red pair at the root of the tree is covered by no case of `rebalance`;
  `check_balance` reports "left red-red".
* Mixed phase: NB's `main.cpp:199` compares `high`, not `i`, with the last thread's number, so that the rest of the
  division is deleted by nobody, or a place is deleted twice; the check at 237-241 expects all of them gone.
* `num_rebal_threads` is not bounded, but the provider has descriptors for four (`init(num_processes + 4)`).

Lock-based tree:

* Removal: insert 6, 5, 3, 1, then remove 5 beside one pass. The leaf has moved from under the record locked as its
  parent, and `recursiveRemove` takes the wrong record for the sibling (FG 400-408, "CAN ASSUME right child").
* Search: insert 1 and 2, then remove 1 beside a search for 2. The removal holds the leaf with 1 and its parent and waits for
  the sibling, the internal record at which the search stands. The search locks the leaf with 2 and unlocks the sibling
  (FG 290-291); the removal takes it over into the parent and frees it (405-420); the search reads `left` of what was freed
  (292). `FGTree` finds such states when it checks `error # "reread"`.
* A first pass that comes before the first insertion follows a NULL pointer (465), and a pass beside removals may lock
  a freed record again (254).
* Tenths: `main` deletes `keys[i*10]` for i < n/10 and later expects all `keys[i]` with 10 dividing i to be gone, one
  more when 10 does not divide n (checks at 204-214 and 229-236).
* In the sequential `tree.h` a removal that frees the root drops the new root it gets back: `GLOBAL_ROOT` dangles.

Multi-word operations and RLU:

* `rlu.cpp:578-579` takes the version of a write-back in three steps. Two threads that write back at once take the same
  version, and a reader takes a copy whose owner has not announced it (893), or sees two versions in one section. With
  coarse locks `rlu_thread_finish` (743-745) synchronizes outside the writer lock and meets the same race. The programs
  of `Multiword` have one thread write back at a time.
* After `rlu_abort` objects given to `rlu_free` stay in the free list; a failed CAS in `rlu_try_lock` leaves `p_cur`
  advanced; a request to write back that arrives between the test and the reset of `is_sync` is dropped; `rlu_init`
  returns early with coarse locks (632-641).
* `kcas_reuse_htm_impl.h:460-472`: a transaction that meets another operation's pointer makes the operation fail. The
  model allows KCAS with transactions to fail spuriously.

Range queries:

* `rq_dcssp.h:495, 530`: `helpProcess` may help an operation that its owner has not installed yet, and a query takes its
  outcome for decided.
* `snapcollector.h`: the comment at 284 says that blocking the list of reports closes it; it does not while the owner has
  appended and not moved the tail. `AddNode` answers NULL for the head as well as for the blocker.
* `rq_rwlock.h`, `rq_htm_rwlock.h`: a failed deletion of several nodes leaves pointers announced for which a query waits.
* `MAX_PAYLOAD_PTRS` is 6, less than `MAX_NODES_DELETED_ATOMICALLY`, 8.

Library:

* `atomic_ops`: `read_ordered.h` and `ordered_except_wr.h` declare `AO_HAVE_NOP_READ` and `_WRITE` in capitals, which
  nothing asks for; `gcc/powerpc.h:116` and `ibmc/powerpc.h:54` define `AO_store_release` and declare
  `AO_HAVE_load_acquire`; the s390 and arm headers include the ordered headers before loads and stores exist;
  `generalize.h:842` and `generalize-small.h:241` define primitives without their `AO_HAVE`, against `atomic_ops.h:108-113`.
* `allocator_once.h` that has run out puts NULLs into a bag (`blockbag.h:519-521`); `lockfreeblockbag.h:62` reads the link
  of a block that another thread may have deleted; `pool_none.h` leaks, as its own comment says.
* `hashlist.h`, the variants that are compiled out: `clear` does not reset the size (464-474), or leaves a NULL tail that
  `extendList` follows (595-618). `hashtable.h`: `NEXT_INDEX` lacks the wrap; it is unused.

## Proofs

Every theorem holds for all threads, records, footprints, keys, scripts and arguments of `main`, with no assumption but
those that `SCX`, `ChromaticTree`, `NonBlockingTree`, `FineGrainedTree`, `Driver`, `Reclamation`, `EpochTree` and
`Multiword` state about their constants, and the hypotheses that are named below.

### The provider

`SCXProofs`: `TypeCorrect`, `ParityCorrect` (the assertions of the code on the parity of sequence numbers) and
`HandlesCorrect` (no handle is ahead of its descriptor). `TypeOK` is inductive by itself; it includes that no index leaves
its array (`IndexOK`), which is why the length of a plan and of a job's nodes is related to the program counter. The other
two need `SeqInv`. Parity alone is not inductive: a helper may only start with an odd handle, and where it gets it from (a
record, a field of another descriptor) must be known to hold published handles only; a published handle stays so because
numbers only grow (`PublishedStays`). `SeqInv` also says that the static descriptor never changes and that a thread that
copies a descriptor gets a number between that of the handle it follows and the current one (`HelperOK`), so that the check
after the copy makes all three equal.

Its second part: `OutcomeCorrect` (`OutcomeIsTrue`), `ResultCorrect` (`ResultIsTrue`) and `FinalizedCorrect`
(`FinalizedIsForever`), from the invariant `OpInv`. What these properties say of a state cannot be seen in
it: a helper that woke up late must not do anything, although all it has is a copy of an operation. `OpInv` therefore speaks
of what has happened. A record remembers the handles it has held (`past`), and these never come back. A decided operation
either took effect, with its handle in the past of all its records, or is `Doomed`: a record lost its link before it was
frozen, those in front of it having been frozen (`Op`). While an operation is pending, nobody takes a record from it
(`PendingOK`), and what a link saw was written by an operation that is decided (`LinkOK`). A helper's copy satisfies `Op` for
ever, also when the descriptor has moved on (`JobOK`). `OpInvariant` says that all of it is inductive; each action has a lemma that
says what it may do to one operation, and the operations it does not concern are dealt with once. That FINALIZED is
answered of removed records only is `AnswerInv`, on top of it: a marked record is never frozen again (`MarkedStays`), so
that the handle an LLX reads after the mark is that of the operation which removes the record; when the LLX gives up this
operation is decided, and it is not `Doomed`, having had all its records when it marked one (`MarkedNotDoomed`).

The last part is the refinement, `ProviderIsAtomic` (`AtomicSpec`). A record counts as finalized for the abstract object when it is marked
and the operation that holds it has taken effect (`Fin`). An LLX takes effect at its second read of `scxPtr`, an SCX at the
first of its helpers' CASes on the child; every other step is shown to stutter.

### The non-blocking tree

`ChromaticTreeProofs` treats every change of the heap as a graft: fresh records take the place of dropped ones below a
parent, and lead to some of the children of what is dropped. Its lemmas say what a graft keeps, and that `Insert`, `Delete`
and each of the eight cases of rebalancing is one, under whatever weights. They are:

* `Forest`: pointers lead to records, no two live records share a child, a live record leads to live ones. `Ranked`: there is
  a rank that falls along every pointer, finalized records included, and is kept in order by grafts. It excludes cycles, and
  gives the threads that walk through records already removed a measure of how far down they are.
* `Spanning`: every live record but the root has a live parent. With ranks this makes reachable what is live
  (`SpanningReachable`), by the least-rank argument that stands for an induction. `Under`, a recursive function, is handled
  as the least set that contains the record and its children (`UnderIs`).
* `Order`: sets `R` (the keys whose search comes by) and `K` (the keys that may be below) for every record, finalized ones
  included. Copies of a record by rotations inherit them; no comparison of keys with those below is made by the code that
  would make an order visible in one state.

`NonBlockingTreeProofs` has the invariant `ShapeInv`: types, `Forest`, `Ranked`, and `Stands`: each record that a thread has
in hand is below the one before it, is no leaf where the code has gone down from it, and is still its child as long as the
thread's reservation on the parent is good. Without the latter an SCX that succeeds would not be a graft. Theorems:

* `TypeCorrect`: `Spec => []TypeOK`;
* `ReachableCorrect`: no record that can be reached is finalized;
* `OnlyDeletionsLose`: `RemovedIsFinalized` is broken, in any reachable state, by no step but that of a deletion that takes
  an inner record for its leaf (the finding `NBRotated`); `RemovedCorrect`: so it holds as long as no deletion has begun.

The others are about phases without deletions (`NoDeletions`), with insertions, searches and rebalancing in any order and
number. With deletions they are false (Divergences). `NoDeletions` speaks of the phases up to the current one, so that they
hold of the insertions in front of the first deletion of a program that has some. What makes these trees easier is `Light`:
nothing is overweight and every leaf weighs 1, so that the cases 4 and 5 of rebalancing do not occur (`LightCases`).

* `LockFreeTreeIsKeySet` (`IsKeySet`): the tree implements `KeySet`. A search for a key ends at the one live leaf whose set
  `R` has the key (`EndIs`), the keys at these leaves are the set (`Holds`), which rebalancing does not change and an
  insertion extends by its key (`RebalanceSound`, `InsertSound`). `Sound` follows a search that is
  under way, through records removed before too: it stays in a set closed under its steps (`Explores`), and a leaf it would
  find below a removed record was the one for its key at the moment of the removal, which `seen` remembers (`Saw`).
* `InsertedCorrect` (`InsertedIsFound`): every key that was to be inserted is in the tree when the last phase is over. Its
  invariant `InsertedSoFar` counts what each thread has done of its work (`LeftOf`).
* `WeightsCorrect` (`WeightsMakeSense`): there is an assignment `H` of one number to each record that is the sum of the weights
  along every path down to a leaf (`Even`), which every swing keeps for the old records and extends to the fresh ones
  (`SwingWeighs`). Only sentinels have the key `MaxKey` (`Guarded`), which decides the weight an insertion gives, and only the
  root of the tree, which `tryRebalance1` lightens without looking, is below zero (`Positive`). `WeightedHeights`, a recursive
  function, is the least relation that adds up weights (`Sums`), and is `H` by the least-rank argument (`EvenSums`).
* `QuietCorrect` (`QuietIsBalanced`): if no case applies anywhere, a red record with a red child has a red parent
  (`RedRedAbove`), and so on up to the root, which a rank excludes.

### The lock-based tree

`FineGrainedTreeProofs`: all its theorems but `WeightIsInLeaves` have the hypothesis `[]NoPass`: the rebalancing thread
makes no pass. With one they are false, whatever else runs: `balanceCase2` changes records that nobody has locked
(`FGEntry`, Divergences). What is left is all of `insert`, `remove` and `search`, for any number of threads, keys and
operations, between all of their acquisitions.

* `LocksProtect` (`OnlyRereadsFail`): no NULL or freed record is used and no lock is misused, but for the search that reads
  a record it has unlocked; `UpdatesHoldLocks` (`LockedOnEntry`); `LockTypeCorrect` (`TypeOK`).
* `LockTreeIsKeySet` (`IsKeySet`): the tree implements `KeySet`, so that its operations are linearizable.
* `WeightIsInLeaves` (`OnlyLeavesWeigh`), with passes beside any updates: leaves weigh 1, internal records nothing, also when
  a rotation has pulled a record from under an update, and `rebalance` comes to none of the cases that move weight.

`WeightIsInLeaves` rests on an invariant of its own, `Weighed`. A rotation does not know whether the tree is still one, so
the invariant says nothing of its shape: pointers lead to records, never to the sentinel (`Linked`), and each record weighs
what its kind says (`Weighs`). Two writers could still spoil it, each by a record that the other turns from a leaf into an
internal one, or back. `Alone` says that no worker has a lock the rebalancing thread has, and `Calling` that a call of
`rebalance` holds its record and an internal parent until the recursive calls; an insertion only ever changes a leaf that is
not the sentinel, and a removal never comes to write the sentinel (`Turned`): it overwrites an internal record, which adds
nothing to the weight of the sibling whose children it takes. The cases that add or take away
weight want a black internal record, or a leaf that is overweight, and there is neither.

`KeptCorrect` is the invariant the others rest on, `Kept`. Its parts:

* `IsSearchTree`: the records in use are a tree (`IsTree`), without cycles (`Ranks`), in which the search for a leaf's key
  comes to that leaf (`Sorted`). That what a search visits is decided by the comparisons the code makes, and not by an order
  between keys, keeps the argument about insertions and removals short: below the place they change, paths stay as they
  are. `Path` is the least set that holds the root and, with a record, the next one; the recursive function `SearchEnd` of
  the model is unfolded by showing that its equation has a solution.
* `Placed`: what each thread has in hand and the locks it holds, label by label (`Footing`). The record it is to lock next is
  still the child of the one it holds, because only a holder of both changes the pointer between them. A removal
  needs three locks to take its leaf and the sibling away, so that no holder of one of them is left with a freed record; a
  search that has unlocked a record keeps only the child it has locked.
* `Exclusive`: a record has one holder, or several that search.

For the refinement, every step starts an operation, goes on with one or ends one (`StepIs`). An insertion adds its key in
the step in which it ends (`InsertAdds`), a removal takes it away (`RemoveSubtracts`), and every other answer is decided by
the leaf it is read at (`LeafDecides`). The history variable `seen` stands for what the abstract object could have answered
since the call (`SeenOK`).

### The drivers

`DriverProofs`: `TidsCorrect` (`TidsAreOwn`) and `ChecksCorrect` (`ChecksPass`). `DriverInvariant` says which loops' threads
may run in each phase (`Together`), that each of them is the thread of one turn of one loop (`Origin`), and what the tree
contains: a key, once, when the thread that inserts it has ended and none that deletes it (`Contents`). Neither property is
inductive alone: that a join makes the numbers of the next loop free needs to know where the threads that are left came
from, and that the checks are silent needs to know which threads have ended. Below it is arithmetic: the shares of a loop
do not overlap, so that no key is inserted twice (`SharesAre`, `OneInserter`); with the rest that the last thread takes they
cover the array, but for the deletions of the mixed phase, which cover all places but the rest (`PlacesTaken`, `MixedRest`);
what is deleted before an insertion is none of its keys (`NotDeleted`).

### The reclaimers

`ReclaimersProofs`, for the schemes of `Debra`, `DebraPlus`, `EpochTree`, `HazardPointers` and `UserRCU`, any
number of threads, records, blocks and records per block, and any `MinOps`:

* `HeldCorrect` (`HeldIsNotFreed`): no record is handed to the pool while a thread may still follow a pointer to it;
* `OnePlaceCorrect` (`OnePlace`): every record is in the structure, in one thread's hands, in one bag of one thread or in
  the pool, and nowhere else. For the client of `Pools` the same property speaks of blocks and free lists
  (`ObjectsInOnePlace`), which recursive functions over the heap define, and stays with TLC.

A record's place (`Places`) is the same argument for all schemes: a step that touches memory retires, unlinks, frees,
stores or releases (`Moves`), and `MovesPlaces` says that each of these leaves every record in one place. That nothing held is
freed is another invariant for each scheme; `ReclaimersInv` is the one of the scheme that is compiled in, `ReclaimersStep`
that no step breaks it. `HeldIsNotFreed` alone is not inductive: it does not say why a record that is in a bag now, and is
held, will be let go before the bag is emptied. The invariants count:

* `DebraInv`, for debra and debracap. A record in the current bag of u is freed at u's third rotation from now, one in the
  next bag at the first (`Age`). How often u may rotate while the operation of p goes on (`Turns`) is at most once for an
  epoch that it has read and not yet acted on, once if it has not seen the current epoch, and once if the epoch can still
  move on, which it cannot if p's announcement is of an older epoch and nobody who would move it has checked p already
  (`Passes`). `DebraHeld`: a record that p holds is in no bag whose age is not above that number.
* `TokenInv`: there is one token (`OneToken`). u frees a bag when the token has come to it, and so only once before p
  ends its operation if the token meets u before it meets p (`Reaches`, by the distance around the ring), and not at all
  otherwise; a bag that is current when its record is retired is emptied at the second visit.
* `TreeInv`: a node of the tournament tree with epoch v is evidence that all threads below it have announced v or
  later (`Reached`, `TreeNodes`), a thread that climbs with v has it for the node it stands on and, once it has looked,
  for the sibling (`Fits`); below a quiescent node there are no threads. Hence the root moves only when all leaves have
  reached it, and no leaf is more than one epoch behind. That below a parent is what is below its two children (`Under`)
  needs the number of leaves to be a power of two, at most 128.
* `RcuInv`: a reader that holds a record which p has unlinked is awaited by p's `synchronize` (`Awaited`): it has not yet been
  copied, or what was copied of it is what it still announces, and the loop has not come past it; with time stamps, its own is no
  later than the one it is compared with. For `rcu`, whose waiting is done in the library, it is the contract of `call_rcu` in the model.
* `HazardInv`: what a thread may follow is exactly what the first slots of its list name (`Hazards`), and a scan that has such a
  record in its bag has found it, or has that slot still to read (`Noticed`). It is here that `erase` matters: a slot filled
  by a move from the end of the list may have been read before. The invariant is proved for operations that give up all
  hazard pointers at once (`Unprotects = {}`); with single ones the theorems say nothing (`Unprotecting`), since the run
  `HazardMissed` shows that a scan can then miss one.
* `PlusInv`: a thread of DEBRA+ in its operation (`Busy`) is protected by the count of epochs, as in `DebraInv`; one that was
  interrupted and recovers only by the records it has announced (`PlusNoticed`). A signal takes a thread from one to
  the other. Then no scan can have passed it without finding these records, since a bag that is scanned is next to be
  emptied, and none of a busy thread's records is in such a bag (its age would be 1 and the scan itself is a turn).

Assumed are `RoomAssumption` (the lists have room for what is announced, as the assertion in `arraylist.h:45` demands, bags
and threads are not empty) and `ThreadsAssumption` (`reclaimer_ebr_tree.h:392` ends a program with more than 128 threads).

### RLU

`RluProofs`: `SectionsCorrect` (`SectionSeesOneState`), for any threads, objects and programs, any number of write-sets
and of deferred commits, with aborts, requests to write back, threads that end, and both kinds of locks. Its hypotheses:

* `OneWritesBack`: one thread is between its decision to write back and the end of it at a time. With two the
  property is false (Divergences, `rlu.cpp:578`). Sections, locks, commits and aborts of the others go on beside it.
* `VersionsLast`: the version stays below `MAX_VERSION` (`LONG_MAX - 1` in the code), which as a thread's
  `writer_version` says that it writes nothing back.

`RluAssumption` asks that threads are numbered from 1, as the code numbers them from 0, and
`RluProgramsAssumption` says what callers give: sections of reads, writes and frees, and that an object which holds a
pointer is given pointers only.

The invariant is `RluInv`. What a section sees is decided when it reads its version, and `SectionSeesOneState` speaks of
when it reads an object; the parts say why nothing that matters changes between the two:

* `Local`: the counters of a thread's write-sets. Those from `ws_head` to `ws_tail` have different places in the ring, and
  the places outside of them are empty (`Empty`).
* `CopiesLock`, `LockedHaveCopies`: an object is locked exactly as long as there is a live copy of it (`LiveAt`), one that is in
  a write-set committed and not yet written back, or in that of the current section, and the lock is the address of that
  copy. So there is one copy of an object, and a write-back finds the object still locked by what it writes.
* `Seen`: the state at version v is that of the objects, overlaid with the copies whose owner writes back at v or before.
  `LatestIsSeen` ties it to the history variable `latest`, `SnapIsSeen` says that the snapshot of a section is `Seen` at its
  local version, now as when it began. For writing an object back and unlocking it does not change what is `Seen` at the new
  version, and sections at older ones are gone by then.
* `Waits`: that they are gone. A thread that writes objects back has no `Slow` reader, one whose version is older; while it
  waits, the run counters it still has to see change are those of the slow readers that are left.
* `Steals`, `Loads`: a reader may take the address of a copy, and use it after its owner has written it back, unlocked the
  object and gone on to other sections. The place is used again at the earliest after another write-back, since a thread
  has room for twice the write-sets it may collect (`Lasts`), and that one waits for the reader.
* `NoStealing`: a section that takes no copies, because nothing was announced when it began, need not.

Each action has a lemma on what it leaves of the thread's own part (`Gentle`, `Calm`), and the other threads are dealt with by
what a step does not change for them (`OthersSame`). `Clients` and the stacks of frames, shared with DCSS and KCAS, are dealt
with once (`Becomes`). TLC checked the parts of `RluInv` on the RLU programs of `Multiword`, in which `OneWritesBack` holds, and
on larger ones under that constraint.

### DCSS

`DcssProofs`: `DcssLinearizable` (`Linearizable` and `QuietIsPlain`, when `scheme` is `"dcss"`), for any number of threads and
words, and any programs of double-compare-single-swaps, reads and direct writes. `DcssProgramsAssumption` says what callers
give: some words are written directly, first addresses are among them, and second addresses are not. For the code reads a
first address without looking for a pointer in it (`dcss_impl.h:32`), and a direct write would overwrite one. The hypothesis `IsMultiword` says that the atomic object, a parameter of `Clients`, is that of
`Multiword` on these calls (`MultiwordIs`).

The invariant is `DcssInv`. `FramesOK` relates frames, tags and words:

* `StackOK`, `HelpOK`: a thread with its pointer in a word stays in the call until the pointer is gone (`Owns`). A helper
  knows the fields and the state of an operation as long as the number of its tag is the descriptor's, and nothing of it
  afterwards: it may then hold any state, that of the owner's next operation too, but no word holds its tag any more.
* `WordOK`: a word that is not plain holds the tag of the operation of a thread that owns it, on its second address.

What an operation answers is decided by the helper whose state the descriptor gets, and it took effect when that helper
read the first address; until the compare-and-swap nobody knows which one it is. `OutcomesOK` therefore speaks of all the
outcomes there may be: for each undecided operation that it has not taken effect, or that it has with a state that some
helper is about to propose (`Allowed`). Each of them, with the words read through the pointers in them (`View`), is a state
the atomic object may be in (`Explained`). A helper that reads the first address adds an outcome, which the object explains
because it may let that operation take effect now (`helpAddr1OK`); a compare-and-swap selects among them (`Decides`); steps
that give up, renew a descriptor or put a plain word in place of a pointer change no view. `Explained` is a recursive function;
that it is the least set closed under effects (`ExplainedLeast`, `ExplainedClosed`) follows by the least-number argument, each
round giving a further thread its answer. TLC checked `FramesOK` and `OutcomesOK` on the DCSS programs of `Multiword`.

### Only model-checked

`SomeoneWins` (it depends on the orders in which the footprints of all three threads name their records);
`RemovedIsFinalized` when deletions run, which is false in general (`NBRotated`), and holds on the scripts of `NBTree`;
likewise weights, balance, linearizability and `InsertedIsFound` of the non-blocking tree when deletions run; how long
rebalancing goes on (`RebalancingEnds`); of the lock-based tree whether passes of the rebalancing thread come to rest (`Settles`), and all that happens beside or
after them but for the weights; of the library KCAS (`Linearizable`, `QuietIsPlain`), what RLU frees (`FreedIsUnused`), range queries, pools, `atomic_ops`, tables and the sequential
tree; liveness and ENABLED, which are outside the prover's reach, as is what recursive functions over a heap or a list
compute by induction (`Chain`). The invariants `OpInv`, `ShapeInv` and `Kept` were checked
by TLC on the instances of `SCXTrio`, `SCXCrash`, `NBTree` and (for the updates) `FGTree`.

## Not modelled

* NB frees no memory, and is not connected to the reclaimers. `reclaimer_none.h` frees nothing; nothing includes
  `reclaimer_ebr_tree_q.h`. Of the reclaimers the bags of further record types and `deinitThread` are left out.
* `pool_numa.h` (selected nowhere, unfinished by its own comments), the erasing iterator of the block bag, the layout of
  memory in cache lines, the wrappers of `record_manager.h`, which forward calls, and `debug_info.h`.
* `rq_unsafe.h`, which promises nothing of a query, and `rq_debugging.h`, which checks and prints; the recollection of
  collectors; `upgradeLock` of `rwlock.h`, which nothing calls.
* The kernel variant of RLU, its nested writer locks and statistics.
* `locks_impl.h` and `rtm.h`: a spin lock that is one step here, and the instructions of transactional memory. That the
  instructions in the headers of `atomic_ops` do what their names say is taken as given.
* `plaf.h`, `papi`, `gstats.h`, `binding.h`, `server_clock.h`, `tree_stats.h`: portability, statistics, counters, pinning.
* The lock of the standard library (used by its contract, `Lock`, `Unlock`, `Free`), printing, timing, test scripts;
  both `tree.cpp` are empty.

## Plan

Done: the provider and its proofs; the trees with the scan of `rebalance`; the drivers; reclaimers and pools; DCSS, KCAS,
RLU, with proofs that DCSS is atomic and of what the sections of RLU see; range queries; `atomic_ops`; hash tables; the
sequential tree. Next, proofs:

1. `RwLock`: writers exclude everybody; `Kcas`: `QuietIsPlain`, with outcomes as in `DcssProofs`;
   `Rlu`: `FreedIsUnused`, from `Waits`.
