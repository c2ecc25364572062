------------------------------- MODULE Pools -------------------------------
(***************************************************************************)
(* Below the reclaimers: allocators hand out objects, and a pool keeps     *)
(* those that came back (pool_perthread_and_shared.h, pool_none.h).  Each  *)
(* thread has a free bag, a list of blocks (blockbag.h) of which only the  *)
(* first is not full; a bag that has grown gives a full block to the       *)
(* shared bag, a lock-free stack (lockfreeblockbag.h), and a thread whose  *)
(* bag is empty takes one from there.  Empty blocks wait in a pool of      *)
(* their own, one per thread (blockpool.h).                                *)
(*                                                                         *)
(* What a thread does to its own bags is one step: nobody else looks at    *)
(* them.  The head of the shared stack is read, and replaced, in steps of  *)
(* their own, and so is the link of a block that may be anywhere by then.  *)
(*                                                                         *)
(* The bags are those of one record type, of "free" objects and of those   *)
(* "limbo" objects that a reclaimer holds back.  Each thread makes the     *)
(* calls of its program.                                                   *)
(***************************************************************************)
EXTENDS Reclamation, SequencesExt

CONSTANTS
    Arena,       \* how many blocks new can make for a thread (a bound)
    Threshold,   \* POOL_THRESHOLD_IN_BLOCKS
    MaxSpare     \* MAX_BLOCK_POOL_SIZE

ASSUME PoolAssumption ==
    /\ Arena \in Nat \ {0}
    /\ Threshold \in Nat /\ Threshold >= 3     \* "assert(b)" in add
    /\ MaxSpare \in Nat

VARIABLE store

NoBlock  == <<0, 0>>
Blocks   == Procs \X (1 .. Arena)
Bags     == Procs \X {"free", "limbo"}
Free(p)  == <<p, "free">>
Limbo(p) == <<p, "limbo">>

-----------------------------------------------------------------------------
(* Blocks.  new returns the one that the thread deleted last, or one that   *)
(* was never used; <<p, i>> is the i-th that was made for thread p.         *)

fromPool(s, p) == IF s.spare[p] # << >> THEN Last(s.spare[p])
                  ELSE IF s.heap[p] # << >> THEN Last(s.heap[p])
                  ELSE <<p, s.made[p] + 1>>

allocateBlock(s, p, next) ==
    LET taken == fromPool(s, p)
        t     == [s EXCEPT !.next[taken] = next, !.data[taken] = << >>]
    IN  IF s.spare[p] # << >> THEN [t EXCEPT !.spare[p] = Front(@)]
        ELSE IF s.heap[p] # << >> THEN [t EXCEPT !.heap[p] = Front(@)]
        ELSE [t EXCEPT !.made[p] = @ + 1]

deallocateBlock(s, p, b) ==
    IF Len(s.spare[p]) = MaxSpare
      THEN [s EXCEPT !.heap[p] = Append(@, b)]
      ELSE [s EXCEPT !.spare[p] = Append(@, b)]

\* The blocks from b on, as the iterator meets them.
Chain(s, b) ==
    LET walk[n \in 0 .. N * Arena] ==
          IF n = 0 THEN IF b = NoBlock THEN << >> ELSE <<b>>
          ELSE LET w == walk[n - 1] IN
               IF w = << >> \/ s.next[Last(w)] = NoBlock THEN w
               ELSE Append(w, s.next[Last(w)])
    IN  walk[N * Arena]

-----------------------------------------------------------------------------
(* Bags: g is one of them, g[1] its owner. *)

computeSizeInBlocks(s, g) == Len(Chain(s, s.head[g]))
computeSize(s, g) ==
    FoldLeft(LAMBDA n, b : n + Len(s.data[b]), 0, Chain(s, s.head[g]))
isEmpty(s, g) == s.next[s.head[g]] = NoBlock /\ s.data[s.head[g]] = << >>

add(s, g, x) ==
    LET h == s.head[g]
        t == [s EXCEPT !.data[h] = Append(@, x)]
    IN  IF Len(t.data[h]) < BlockSize THEN t
        ELSE [allocateBlock(t, g[1], h) EXCEPT !.head[g] = fromPool(t, g[1]),
                                               !.size[g] = @ + 1]

\* The block that gives the next object, and the bag without it: an empty
\* head makes way for the block behind it.
giver(s, g) == IF s.data[s.head[g]] # << >> THEN s.head[g] ELSE s.next[s.head[g]]
first(s, g) == Last(s.data[giver(s, g)])

remove(s, g) ==
    LET from == giver(s, g)
        t    == [s EXCEPT !.data[from] = Front(@)]
    IN  IF from = s.head[g] THEN t
        ELSE deallocateBlock([t EXCEPT !.head[g] = from, !.size[g] = @ - 1],
                             g[1], s.head[g])

second(s, g) == s.next[s.head[g]]

removeFullBlock(s, g) ==
    [s EXCEPT !.next[s.head[g]] = s.next[second(s, g)],
              !.next[second(s, g)] = NoBlock, !.size[g] = @ - 1]

addFullBlock(s, g, b) ==
    [s EXCEPT !.next[s.tail[g]] = b, !.tail[g] = b, !.size[g] = @ + 1]

\* The blocks of o behind predecessor are hung behind those of g.
appendMoveFullBlocks(s, g, o, predecessor) ==
    IF s.next[predecessor] = NoBlock THEN s
    ELSE LET t == [s EXCEPT !.next[s.tail[g]] = s.next[predecessor],
                            !.next[predecessor] = NoBlock,
                            !.tail[g] = s.tail[o],
                            !.tail[o] = predecessor]
         IN  [t EXCEPT !.size[g] = computeSizeInBlocks(t, g),
                       !.size[o] = computeSizeInBlocks(t, o)]

appendMoveAll(s, g, o) ==
    LET t == appendMoveFullBlocks(s, g, o, s.head[o])
        rest[n \in 0 .. computeSize(t, o)] ==
          IF n = 0 THEN t
          ELSE LET u == rest[n - 1] IN add(remove(u, o), g, first(u, o))
        r == rest[computeSize(t, o)]
    IN  [r EXCEPT !.size[g] = computeSizeInBlocks(r, g)]

clearWithoutFreeingElements(s, g) ==
    LET chain == Chain(s, s.head[g])
        freed == FoldLeft(LAMBDA t, b : deallocateBlock([t EXCEPT !.data[b] = << >>],
                                                        g[1], b),
                          s, Tail(chain))
    IN  [freed EXCEPT !.next[s.head[g]] = NoBlock, !.data[s.head[g]] = << >>,
                      !.tail[g] = s.head[g], !.size[g] = 1]

-----------------------------------------------------------------------------
(* Allocators.  <<p, i>> is the i-th object that was made for thread p;     *)
(* NoRecord stands for NULL, which allocator_once returns when the thread's *)
(* share of its memory is used up.  allocator_once and allocator_bump never give memory twice.  *)

given(s, p) ==
    IF s.alloc = "new" /\ s.freed[p] # << >> THEN Last(s.freed[p])
    ELSE IF s.alloc = "once" /\ s.brk[p] >= Plan[scheme].room THEN NoRecord
    ELSE <<p, s.brk[p] + 1>>

allocate(s, p) ==
    IF s.alloc = "new" /\ s.freed[p] # << >> THEN [s EXCEPT !.freed[p] = Front(@)]
    ELSE IF s.alloc = "once" /\ s.brk[p] >= Plan[scheme].room THEN s
    ELSE [s EXCEPT !.brk[p] = @ + 1]

\* p frees the objects of a sequence.
deallocate(s, p, xs) ==
    [s EXCEPT !.freed[p] = @ \o SelectSeq(xs, LAMBDA x : x # NoRecord)]

\* The objects behind b.
Listed(s, b) == FoldLeft(LAMBDA xs, c : xs \o s.data[c], << >>, Chain(s, b))

deallocateAndClear(s, g) ==
    LET t == deallocate(s, g[1], Listed(s, s.head[g]))
        emptied[n \in 0 .. computeSize(s, g)] ==
          IF n = 0 THEN t ELSE remove(emptied[n - 1], g)
    IN  IF s.alloc = "new" THEN emptied[computeSize(s, g)]
        ELSE clearWithoutFreeingElements(t, g)

-----------------------------------------------------------------------------
(* The calls of a thread. *)

PoolInit ==
    /\ me = [p \in Procs |-> Local]
    /\ epoch = 0 /\ word = << >>
    /\ \E program \in Plan[scheme].programs, alloc \in Plan[scheme].alloc :
       LET empty == [g \in Bags |-> <<g[1], IF g = Free(g[1]) THEN 1 ELSE 2>>]
           none  == [p \in Procs |-> << >>]
       IN
       store = [todo |-> program, hand |-> [p \in Procs |-> {}],
                alloc |-> alloc, brk |-> [p \in Procs |-> 0], freed |-> none,
                lost |-> << >>,
                head |-> empty, tail |-> empty, size |-> [g \in Bags |-> 1],
                next |-> [b \in Blocks |-> NoBlock],
                data |-> [b \in Blocks |-> << >>],
                spare |-> none, heap |-> none, made |-> [p \in Procs |-> 2],
                shared |-> [ptr |-> NoBlock, tag |-> 0]]

Calls(p, ss, calls) ==
    At(p, ss, "idle") /\ store.todo[p] # << >> /\ Head(store.todo[p]) \in calls

Over(s, p) == [s EXCEPT !.todo[p] = Tail(@)]

Hands(s, p, x) == [s EXCEPT !.hand[p] = @ \cup ({x} \ {NoRecord})]

Stays == UNCHANGED <<scheme, mem, epoch, word, list>>

\* remove: the free bag has an object.
get(p) ==
    /\ Calls(p, {"pools"}, {"get"}) /\ ~isEmpty(store, Free(p))
    /\ store' = Over(Hands(remove(store, Free(p)), p, first(store, Free(p))), p)
    /\ UNCHANGED <<pc, me>> /\ Stays

Taken(s, p) == Over(Hands(remove(s, Free(p)), p, first(s, Free(p))), p)

fresh(s, p) ==
    LET more[n \in 0 .. BlockSize] ==
          IF n = 0 THEN s
          ELSE add(allocate(more[n - 1], p), Free(p), given(more[n - 1], p))
    IN  more[BlockSize]

\* It has none.  getBlock reads the head, and the link of the block that it
\* found there, before it swaps; without a shared block, a block full of
\* new objects is made.
getBlock(p) ==
    /\ Stays
    /\ \/ /\ Calls(p, {"pools"}, {"get"}) /\ isEmpty(store, Free(p))
          /\ IF store.shared.ptr = NoBlock
               THEN store' = Taken(fresh(store, p), p) /\ UNCHANGED <<pc, me>>
               ELSE /\ Set(p, [me[p] EXCEPT !.at = store.shared.ptr,
                                            !.seen = store.shared.tag])
                    /\ Go(p, "link") /\ UNCHANGED store
       \/ /\ At(p, {"pools"}, "link")
          /\ Set(p, [me[p] EXCEPT !.ix = store.next[me[p].at]])
          /\ Go(p, "take") /\ UNCHANGED store

\* Mutant: a head without a tag.
takeUntagged(p) ==
    /\ At(p, {"pools"}, "take") /\ Go(p, "idle")
    /\ UNCHANGED me /\ Stays
    /\ IF store.shared.ptr = me[p].at
         THEN LET s == [store EXCEPT !.shared.ptr = me[p].ix, !.next[me[p].at] = NoBlock] IN
              store' = Taken(addFullBlock(s, Free(p), me[p].at), p)
         ELSE UNCHANGED store

\* When the head has changed, getBlock begins again.
take(p) ==
    /\ At(p, {"pools"}, "take") /\ Go(p, "idle")
    /\ UNCHANGED me /\ Stays
    /\ IF store.shared = [ptr |-> me[p].at, tag |-> me[p].seen]
         THEN LET s == [store EXCEPT !.shared = [ptr |-> me[p].ix, tag |-> @.tag + 1],
                                     !.next[me[p].at] = NoBlock]
              IN  store' = Taken(addFullBlock(s, Free(p), me[p].at), p)
         ELSE UNCHANGED store

\* A bag that has grown too large sets out to give a full block away;
\* otherwise the call is over.
Gives(p, s, large) ==
    IF large THEN /\ store' = removeFullBlock(s, Free(p))
                  /\ Set(p, [me[p] EXCEPT !.at = second(s, Free(p))])
                  /\ Go(p, "give")
    ELSE store' = Over(s, p) /\ Go(p, "idle") /\ UNCHANGED me

Object(p) == CHOOSE x \in store.hand[p] : TRUE

pool_add(p) ==
    /\ Calls(p, {"pools"}, {"add"}) /\ store.hand[p] # {} /\ Stays
    /\ LET x == Object(p)
           s == add([store EXCEPT !.hand[p] = @ \ {x}], Free(p), x)
       IN  Gives(p, s, /\ s.size[Free(p)] > store.size[Free(p)]
                       /\ s.size[Free(p)] > Threshold)

Large(s, p) == s.size[Free(p)] >= Threshold

addMoveFullBlocks(p) ==
    /\ Stays
    /\ \/ /\ Calls(p, {"pools"}, {"move"})
          /\ LET s == appendMoveFullBlocks(store, Free(p), Limbo(p), store.head[Limbo(p)])
             IN  Gives(p, s, Large(s, p))
       \/ /\ Calls(p, {"pools"}, {"moveAfter"})
          /\ LET chain == Chain(store, store.head[Limbo(p)]) IN
             \E i \in DOMAIN chain :
                LET s == appendMoveFullBlocks(store, Free(p), Limbo(p), chain[i])
                IN  Gives(p, s, Large(s, p))

addMoveAll(p) ==
    /\ Calls(p, {"pools"}, {"moveAll"}) /\ Stays
    /\ LET s == appendMoveAll(store, Free(p), Limbo(p)) IN Gives(p, s, Large(s, p))

addBlock(p) ==
    /\ Stays
    /\ \/ /\ At(p, {"pools"}, "give")
          /\ store' = [store EXCEPT !.next[me[p].at] = store.shared.ptr]
          /\ Set(p, [me[p] EXCEPT !.seen = store.shared.tag, !.ix = store.shared.ptr])
          /\ Go(p, "push")
       \/ /\ At(p, {"pools"}, "push")
          /\ IF store.shared = [ptr |-> me[p].ix, tag |-> me[p].seen]
               THEN LET s == [store EXCEPT !.shared = [ptr |-> me[p].at, tag |-> @.tag + 1]]
                    IN  Gives(p, s, Head(s.todo[p]) # "add" /\ Large(s, p))
               ELSE Go(p, "give") /\ UNCHANGED <<me, store>>

\* What a reclaimer does with its bag before that.
limbo_add(p) ==
    /\ Calls(p, {"pools", "pool_none"}, {"retire"}) /\ store.hand[p] # {}
    /\ LET x == Object(p) IN
       store' = Over(add([store EXCEPT !.hand[p] = @ \ {x}], Limbo(p), x), p)
    /\ UNCHANGED <<pc, me>> /\ Stays

\* pool_none passes everything on to the allocator, except that what is
\* moved from behind a block is lost.
pool_none(p) ==
    /\ UNCHANGED <<pc, me>> /\ Stays
    /\ \/ /\ Calls(p, {"pool_none"}, {"get"})
          /\ store' = Over(Hands(allocate(store, p), p, given(store, p)), p)
       \/ /\ Calls(p, {"pool_none"}, {"add"}) /\ store.hand[p] # {}
          /\ store' = Over(deallocate([store EXCEPT !.hand[p] = @ \ {Object(p)}],
                                      p, <<Object(p)>>), p)
       \/ /\ Calls(p, {"pool_none"}, {"move", "moveAll"})
          /\ store' = Over(deallocateAndClear(store, Limbo(p)), p)
       \/ /\ Calls(p, {"pool_none"}, {"moveAfter"})
          /\ store' = Over([clearWithoutFreeingElements(store, Limbo(p)) EXCEPT
                              !.lost = @ \o Listed(store, store.head[Limbo(p)])], p)

\* The destructor of the pool, when every thread has emptied its limbo bag:
\* thread 0 drains the shared stack, and the free bags are cleared.
drained(s) ==
    LET chain == Chain(s, s.shared.ptr) IN
    FoldLeft(LAMBDA t, b :
               deallocateBlock([deallocate(t, 0, Reverse(t.data[b])) EXCEPT
                                  !.data[b] = << >>, !.shared.tag = @ + 1], 0, b),
             [s EXCEPT !.shared.ptr = NoBlock], chain)

destroy ==
    /\ scheme = "pools" /\ \A p \in Procs : At(p, {"pools"}, "idle") /\ store.todo[p] = << >>
    /\ \A p \in Procs : isEmpty(store, Limbo(p))
    /\ UNCHANGED <<me, scheme, mem, epoch, word, list>>
    /\ pc' = [p \in Procs |-> "destroyed"]
    /\ LET cleared[n \in 0 .. N] ==
             IF n = 0 THEN drained(store) ELSE deallocateAndClear(cleared[n - 1], Free(n - 1))
       IN  store' = cleared[N]

PoolNext(p) ==
    \/ get(p) \/ getBlock(p) \/ take(p) \/ pool_add(p) \/ addMoveFullBlocks(p)
    \/ addMoveAll(p) \/ addBlock(p) \/ limbo_add(p) \/ pool_none(p)

-----------------------------------------------------------------------------
\* validate of blockbag.h, and what it does not look at: the tail.
Valid(s, g) ==
    LET chain == Chain(s, s.head[g]) IN
    /\ chain # << >> /\ s.tail[g] = Last(chain)
    /\ Len(s.data[s.head[g]]) < BlockSize
    /\ \A i \in 2 .. Len(chain) : Len(s.data[chain[i]]) = BlockSize
    /\ s.size[g] = Len(chain)

\* Where objects are: in a hand, in a bag, in the shared stack, in a block on
\* its way there, freed or lost.
KeptBy(p) ==
    Listed(store, store.head[Free(p)]) \o Listed(store, store.head[Limbo(p)])
      \o store.freed[p] \o SetToSeq(store.hand[p])
      \o (IF pc[p] \in {"give", "push"} THEN store.data[me[p].at] ELSE << >>)

Kept ==
    LET upTo[n \in 0 .. N] == IF n = 0 THEN store.lost \o Listed(store, store.shared.ptr)
                              ELSE upTo[n - 1] \o KeptBy(n - 1)
    IN  SelectSeq(upTo[N], LAMBDA x : x # NoRecord)

ObjectsInOnePlace ==
    LET kept == Kept IN
    /\ IsInjective(kept)
    /\ ToSet(kept) = UNION {{p} \X (1 .. store.brk[p]) : p \in Procs}
=============================================================================
