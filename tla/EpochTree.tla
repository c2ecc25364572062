----------------------------- MODULE EpochTree -----------------------------
(***************************************************************************)
(* reclaimer_ebr_tree.h: the threads' announcements are the leaves of a    *)
(* tournament tree, word[i] its nodes, and the epoch is its root.  A       *)
(* thread carries its epoch towards the root as long as the sibling has    *)
(* announced the same one, and moves the epoch on when it gets there.  A   *)
(* thread announces nothing when its operation ends.  The simpler scheme   *)
(* with a token follows below.                                             *)
(***************************************************************************)
EXTENDS Reclamation

MAX_THREADS_POW2 == 128     \* plaf.h; a program with more threads ends at once
ASSUME ThreadsAssumption ==
    "ebr_tree" \in DOMAIN Plan => Plan["ebr_tree"].threads <= MAX_THREADS_POW2

Powers  == {1, 2, 4, 8, 16, 32, 64, 128}
roundUpPow2(n) == CHOOSE x \in Powers : x >= n /\ x < 2 * n

numThreadsPow2 == roundUpPow2(N)
EBRT_ROOT      == 1
EBRT_LEAF(tid) == tid + numThreadsPow2
EBRT_PARENT(i) == i \div 2
Sibling(i)     == IF i % 2 = 0 THEN i + 1 ELSE i - 1

\* The leaves without a thread are quiescent, and so is a node all of whose
\* leaves are.
Under(i, tid) == \E d \in Powers : EBRT_LEAF(tid) \div d = i
Fake(i) == \A l \in 0 .. numThreadsPow2 - 1 : Under(i, l) => l >= N

EpochTreeInit ==
    /\ me = [p \in Procs |-> Local]
    /\ epoch = 0
    /\ word = [i \in 1 .. 2 * numThreadsPow2 - 1 |->
                 IF i = EBRT_ROOT THEN EPOCH_INCREMENT
                 ELSE IF Fake(i) THEN GET_WITH_QUIESCENT(0) ELSE 0]

Tree(p, l) == At(p, {"ebr_tree"}, l)

\* Every MinOps-th operation sets out from its leaf with what the leaf holds;
\* the leaf of a single thread is the root, and there is nowhere to go.
Due(p, m, val) ==
    IF (m.since + 1) % MinOps # 0
      THEN Set(p, [m EXCEPT !.since = @ + 1]) /\ Go(p, "in")
      ELSE /\ Set(p, [m EXCEPT !.since = 0, !.at = EBRT_LEAF(p), !.read = val])
           /\ Go(p, IF EBRT_LEAF(p) > EBRT_ROOT THEN "climb" ELSE "in")

\* startOp reads the root, and announces a new epoch before it rotates.
tree_startOp(p) ==
    LET leaf == word[EBRT_LEAF(p)]
        e    == word[EBRT_ROOT]
    IN
    \/ /\ Tree(p, "idle") /\ e <= Plan[scheme].last[p]
       /\ IF e # BITS_EPOCH(leaf)
            THEN Set(p, [me[p] EXCEPT !.read = e]) /\ Go(p, "announce")
            ELSE Due(p, me[p], leaf)
       /\ UNCHANGED <<scheme, mem, epoch, word, list>>
    \/ /\ Tree(p, "announce")
       /\ word' = [word EXCEPT ![EBRT_LEAF(p)] = me[p].read]
       /\ Go(p, "rotate")
       /\ UNCHANGED <<scheme, mem, me, epoch, list>>
    \/ /\ Tree(p, "rotate")
       /\ RotateBags(p, 3)
       /\ Due(p, me[p], leaf)
       /\ UNCHANGED <<scheme, epoch, word, list>>

\* tryAdvance: the sibling must have announced the same epoch, or nothing.
SiblingAgrees(i, val) == word[Sibling(i)] = val \/ QUIESCENT(word[Sibling(i)])

tree_climb(p) ==
    /\ Tree(p, "climb")
    /\ Go(p, IF ~SiblingAgrees(me[p].at, me[p].read) THEN "in"
             ELSE IF EBRT_PARENT(me[p].at) = EBRT_ROOT THEN "root" ELSE "parent")
    /\ UNCHANGED <<scheme, mem, me, epoch, word, list>>

\* The root must hold exactly the value that has come up.
tree_root(p) ==
    /\ Tree(p, "root")
    /\ word' = [word EXCEPT ![EBRT_ROOT] =
                  IF @ = me[p].read THEN @ + EPOCH_INCREMENT ELSE @]
    /\ Go(p, "in")
    /\ UNCHANGED <<scheme, mem, me, epoch, list>>

\* Any other node must hold a smaller one, and still hold it when it is
\* swapped: otherwise somebody else carries on.
tree_parent(p) ==
    LET up == EBRT_PARENT(me[p].at) IN
    /\ UNCHANGED <<scheme, mem, epoch, list>>
    /\ \/ /\ Tree(p, "parent")
          /\ IF word[up] >= me[p].read THEN Go(p, "in") /\ UNCHANGED me
             ELSE Go(p, "swap") /\ Set(p, [me[p] EXCEPT !.size = word[up]])
          /\ UNCHANGED word
       \/ /\ Tree(p, "swap")
          /\ IF word[up] = me[p].size
               THEN /\ word' = [word EXCEPT ![up] = me[p].read]
                    /\ Set(p, [me[p] EXCEPT !.at = up]) /\ Go(p, "climb")
               ELSE Go(p, "in") /\ UNCHANGED <<word, me>>

tree_endOp(p) ==
    /\ Tree(p, "in")
    /\ holds' = [holds EXCEPT ![p] = {}]
    /\ Go(p, "idle")
    /\ UNCHANGED <<scheme, me, linked, pool, bags, cur, epoch, word, list>>

EpochTreeNext(p) ==
    \/ tree_startOp(p) \/ tree_climb(p) \/ tree_root(p) \/ tree_parent(p)
    \/ Tree(p, "in") /\ Find(p)
    \/ Tree(p, "in") /\ UnlinkAndRetire(p)
    \/ tree_endOp(p)

-----------------------------------------------------------------------------
(***************************************************************************)
(* reclaimer_ebr_token.h: one token goes round.  A thread that finds it    *)
(* when an operation starts passes it on and then empties the bag it       *)
(* filled before it last had the token.                                    *)
(***************************************************************************)
TokenInit ==
    /\ me = [p \in Procs |-> Local]
    /\ epoch = 0
    /\ word = [p \in Procs |-> IF p = 0 THEN 1 ELSE 0]

Token(p, l) == At(p, {"ebr_token"}, l)

token_startOp(p) ==
    /\ Token(p, "idle")
    /\ IF word[p] = 1
         THEN /\ word' = [[word EXCEPT ![p] = 0] EXCEPT ![(p + 1) % N] = 1]
              /\ Go(p, "rotate")
         ELSE Go(p, "in") /\ UNCHANGED word
    /\ UNCHANGED <<scheme, mem, me, epoch, list>>

\* last is emptied, and swapped with curr.
token_rotate(p) ==
    /\ Token(p, "rotate")
    /\ RotateBags(p, 2)
    /\ Go(p, "in")
    /\ UNCHANGED <<scheme, me, epoch, word, list>>

token_endOp(p) ==
    /\ Token(p, "in")
    /\ holds' = [holds EXCEPT ![p] = {}]
    /\ Go(p, "idle")
    /\ UNCHANGED <<scheme, me, linked, pool, bags, cur, epoch, word, list>>

TokenNext(p) ==
    \/ token_startOp(p) \/ token_rotate(p)
    \/ Token(p, "in") /\ Find(p)
    \/ Token(p, "in") /\ UnlinkAndRetire(p)
    \/ token_endOp(p)
=============================================================================
