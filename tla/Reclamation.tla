---------------------------- MODULE Reclamation ----------------------------
(***************************************************************************)
(* What every reclaimer of common/recordmgr shares: threads that run       *)
(* operations on a data structure, find records in it, unlink some of them *)
(* and retire those, and a pool to which a reclaimer hands a retired       *)
(* record once it believes that nobody can still use it.                   *)
(*                                                                         *)
(* The schemes are modules of their own that extend this one.  A behaviour *)
(* follows one scheme; the variables a scheme has no use for keep their    *)
(* first value.  record_manager::startOp ends in a full barrier, so that   *)
(* the accesses to shared memory are taken one at a time in program order. *)
(***************************************************************************)
EXTENDS Integers, FiniteSets, FiniteSetsExt

CONSTANTS
    Records,      \* what the data structure is made of
    NoRecord,     \* a NULL pointer
    Plan,         \* [scheme -> [threads, updaters, last, block]]: the number
                  \*   of threads, those that unlink records, the epoch
                  \*   after which no operation starts (a bound), and
                  \*   BLOCK_SIZE, the records in a full block of a bag
    MinOps,       \* MIN_OPS_BEFORE_READ, MIN_TIME_BEFORE_TRY_ADVANCE
    Slots         \* room in a thread's list of announced records

ASSUME RoomAssumption ==
    /\ NoRecord \notin Records
    /\ MinOps \in Nat \ {0} /\ Slots \in Nat \ {0}
    /\ \A s \in DOMAIN Plan : {Plan[s].threads, Plan[s].block} \subseteq Nat \ {0}
    /\ \A s \in DOMAIN Plan \cap {"debraplus", "hazardptr"} :
          \A p \in 0 .. Plan[s].threads - 1 : Plan[s].slots[p] \in 0 .. Slots

VARIABLES
    scheme,   \* the reclaimer that was compiled in
    pc,       \* pc[p]: where p is
    me,       \* me[p]: p's private variables
    linked,   \* the records that the data structure reaches
    holds,    \* holds[p]: the records p may still follow
    pool,     \* the records handed to the pool
    bags,     \* bags[p][i]: p's i-th limbo bag
    cur,      \* cur[p]: the bag that takes what p retires
    epoch,    \* the global epoch, or clock
    word,     \* word[i]: announced epochs, the nodes of a tree, tokens
    list      \* list[p]: the records p announces, an AtomicArrayList

vars == <<scheme, pc, me, linked, holds, pool, bags, cur, epoch, word, list>>
mem  == <<linked, holds, pool, bags, cur>>

Procs == 0 .. Plan[scheme].threads - 1
N     == Plan[scheme].threads
BlockSize == Plan[scheme].block

Local == [read    |-> 0,       \* the epoch read, the value that climbs a tree
          seen    |-> 1,       \* localvar_announcedEpoch, other copies
          checked |-> 0,       \* how many announcements have been looked at
          since   |-> 0,       \* opsSinceRead, timeSinceTryAdvance
          at      |-> 0,       \* the node, or the index, that is looked at
          ix      |-> 0, size |-> 0,  \* where in whose list, and how far
          times   |-> << >>,   \* times: the counters synchronize has copied
          obj     |-> NoRecord, \* the record that is being announced
          found   |-> {},      \* the announced records a scan has found
          mine    |-> {}]      \* unlinked by p, not retired yet

\* An AtomicArrayList: the slots behind the size keep what they held.
EmptyList == [data |-> [i \in 0 .. Slots - 1 |-> NoRecord], size |-> 0]

Announced(p) == {list[p].data[i] : i \in 0 .. list[p].size - 1}

(***************************************************************************)
(* Epochs: a multiple of EPOCH_INCREMENT, and bit 0 for quiescence.        *)
(***************************************************************************)
BITS_EPOCH(a) == a - (a % 2)
QUIESCENT(a)  == a % 2 = 1
GET_WITH_QUIESCENT(a) == BITS_EPOCH(a) + 1
EPOCH_INCREMENT == 2

Go(p, l)   == pc' = [pc EXCEPT ![p] = l]
Set(p, r)  == me' = [me EXCEPT ![p] = r]
At(p, s, l) == scheme \in s /\ p \in Procs /\ pc[p] = l

(***************************************************************************)
(* A block bag gives up its full blocks only (addMoveFullBlocks); which of *)
(* its records sit in the block that is not full is left open.             *)
(***************************************************************************)
getSizeInBlocks(bag) == Cardinality(bag) \div BlockSize + 1

FullBlocks(bag) == kSubset((Cardinality(bag) \div BlockSize) * BlockSize, bag)

\* rotateEpochBags: the oldest of n bags is emptied into the pool and
\* becomes the current one.
RotateBags(p, n) ==
    LET next == (cur[p] + 1) % n IN
    \E freed \in FullBlocks(bags[p][next]) :
       /\ pool' = pool \cup freed
       /\ bags' = [bags EXCEPT ![p][next] = @ \ freed]
       /\ cur' = [cur EXCEPT ![p] = next]
       /\ UNCHANGED <<linked, holds>>

Retired == UNION {bags[p][i] : p \in Procs, i \in 0 .. 2}

(***************************************************************************)
(* A list of announced records has one writer and any number of readers.   *)
(* Its owner fills a slot and then moves the size; a reader takes the size *)
(* once and then the slots one by one.                                     *)
(***************************************************************************)
AddStore(p, r) == list' = [list EXCEPT ![p].data[list[p].size] = r]

AddSize(p)     == list' = [list EXCEPT ![p].size = @ + 1]

Clear(p)       == list' = [list EXCEPT ![p].size = 0]

\* Everybody's announcements are put in a hash set, list by list.
ScanSize(p) ==
    IF me[p].at >= N THEN Go(p, "scanned") /\ UNCHANGED me
    ELSE /\ Set(p, [me[p] EXCEPT !.size = list[me[p].at].size, !.ix = 0])
         /\ Go(p, "scanSlot")

ScanSlot(p) ==
    IF me[p].ix >= me[p].size
      THEN Set(p, [me[p] EXCEPT !.at = @ + 1]) /\ Go(p, "scanSize")
    ELSE /\ Set(p, [me[p] EXCEPT !.found = @ \cup {list[me[p].at].data[me[p].ix]},
                                 !.ix = @ + 1])
         /\ UNCHANGED pc

Scan(p) ==
    /\ \/ pc[p] = "scanSize" /\ ScanSize(p)
       \/ pc[p] = "scanSlot" /\ ScanSlot(p)
    /\ UNCHANGED <<scheme, mem, epoch, word, list>>

StartScan(p, m) == Set(p, [m EXCEPT !.found = {}, !.at = 0]) /\ Go(p, "scanSize")

(***************************************************************************)
(* What an operation does to the data structure.  A pointer is read from   *)
(* it; the thread that unlinks a record retires it into its current bag.   *)
(***************************************************************************)
Find(p) ==
    /\ \E r \in linked \ holds[p] : holds' = [holds EXCEPT ![p] = @ \cup {r}]
    /\ UNCHANGED <<scheme, pc, me, linked, pool, bags, cur, epoch, word, list>>

Unlink(p, r) ==
    /\ p \in Plan[scheme].updaters
    /\ r \in linked \cap holds[p]
    /\ linked' = linked \ {r}

retire(p, r) ==
    /\ bags' = [bags EXCEPT ![p][cur[p]] = @ \cup {r}]
    /\ UNCHANGED <<pool, cur>>

UnlinkAndRetire(p) ==
    /\ \E r \in Records : Unlink(p, r) /\ retire(p, r)
    /\ UNCHANGED <<scheme, pc, me, holds, epoch, word, list>>

Init ==
    /\ scheme \in DOMAIN Plan
    /\ pc = [p \in Procs |-> "idle"]
    /\ linked = Plan[scheme].records
    /\ holds = [p \in Procs |-> {}]
    /\ pool = {}
    /\ bags = [p \in Procs |-> [i \in 0 .. 2 |-> {}]]
    /\ cur = [p \in Procs |-> 0]
    /\ list = [p \in Procs |-> EmptyList]
=============================================================================
