----------------------------- MODULE DebraPlus -----------------------------
(***************************************************************************)
(* reclaimer_debraplus.h with recovery_manager.h.  As in Debra a thread    *)
(* announces epochs, but one that holds everybody up is sent a signal: its *)
(* handler makes it quiescent and jumps back to the checkpoint, where the  *)
(* thread cleans up after its operation.  For that it may use the records  *)
(* it has announced one by one (qProtect), and no other.                   *)
(*                                                                         *)
(* A signal is taken to interrupt its target before the target's next      *)
(* step.  In what follows the checkpoint the signal is blocked.            *)
(***************************************************************************)
EXTENDS Reclamation

CONSTANTS
    ScanBlocks,    \* scanThreshold: blocks in a bag before it is emptied
    SignalBlocks,  \* NEUTRALIZE_THRESHOLD_IN_BLOCKS
    MinEpochOps    \* MINIMUM_OPERATIONS_BEFORE_NEW_EPOCH_CR

isQuiescent(p) == QUIESCENT(word[p])

NextBag(p) == (cur[p] + 1) % 3

\* startOp: in a new epoch the bags are rotated.  A bag that is too small
\* keeps what it has.
plus_read(p) ==
    /\ At(p, {"debraplus"}, "idle") /\ epoch <= Plan[scheme].last[p]
    /\ UNCHANGED <<scheme, linked, holds, pool, bags, epoch, word, list>>
    /\ IF epoch = BITS_EPOCH(word[p])
         THEN Set(p, [me[p] EXCEPT !.read = epoch]) /\ Go(p, "check") /\ UNCHANGED cur
       ELSE IF getSizeInBlocks(bags[p][NextBag(p)]) >= ScanBlocks
         THEN StartScan(p, [me[p] EXCEPT !.read = epoch, !.checked = 0]) /\ UNCHANGED cur
       ELSE /\ Set(p, [me[p] EXCEPT !.read = epoch, !.checked = 0])
            /\ cur' = [cur EXCEPT ![p] = NextBag(p)]
            /\ Go(p, "check")

plus_scan(p) == scheme = "debraplus" /\ p \in Procs /\ Scan(p)

\* The announced records are swapped to the front; the blocks behind the
\* one that holds the first of the others are full and are given away.
plus_free(p) ==
    LET bag  == bags[p][NextBag(p)]
        rest == bag \ me[p].found
        full == ((Cardinality(rest) - 1) \div BlockSize) * BlockSize
    IN
    /\ At(p, {"debraplus"}, "scanned")
    /\ \E freed \in kSubset(IF rest = {} THEN 0 ELSE full, rest) :
          /\ pool' = pool \cup freed
          /\ bags' = [bags EXCEPT ![p][NextBag(p)] = @ \ freed]
    /\ cur' = [cur EXCEPT ![p] = NextBag(p)]
    /\ Go(p, "check")
    /\ UNCHANGED <<scheme, me, linked, holds, epoch, word, list>>

\* crashhandler, and the jump to the checkpoint.
Interrupted(q) ==
    IF isQuiescent(q) THEN UNCHANGED <<word, holds>>
    ELSE /\ word' = [word EXCEPT ![q] = GET_WITH_QUIESCENT(@)]
         /\ holds' = [holds EXCEPT ![q] = @ \cap Announced(q)]

\* One more announcement is looked at.  neutralizeOther: only a thread whose
\* bag has grown sends the signal.
LooksPassed(p, q) ==
    IF q >= N THEN TRUE ELSE BITS_EPOCH(word[q]) = me[p].read \/ isQuiescent(q)

plus_check(p) ==
    LET q == me[p].checked
        count == q + 1
        next  == IF count >= N /\ count > MinEpochOps THEN "advance" ELSE "announce"
    IN
    /\ At(p, {"debraplus"}, "check")
    /\ UNCHANGED <<scheme, linked, pool, bags, cur, epoch, list>>
    /\ IF LooksPassed(p, q)
         THEN /\ Set(p, [me[p] EXCEPT !.checked = count])
              /\ Go(p, next) /\ UNCHANGED <<word, holds>>
       ELSE IF getSizeInBlocks(bags[p][cur[p]]) >= SignalBlocks
         THEN /\ Set(p, [me[p] EXCEPT !.checked = count])
              /\ Interrupted(q)
              /\ pc' = [pc EXCEPT ![p] = next, ![q] = "retire"]
       ELSE Go(p, "announce") /\ UNCHANGED <<me, word, holds>>

plus_advance(p) ==
    /\ At(p, {"debraplus"}, "advance")
    /\ epoch' = IF epoch = me[p].read THEN epoch + EPOCH_INCREMENT ELSE epoch
    /\ Go(p, "announce")
    /\ UNCHANGED <<scheme, mem, me, word, list>>

\* Announced last: nobody may interrupt what came before.
plus_announce(p) ==
    /\ At(p, {"debraplus"}, "announce")
    /\ word' = [word EXCEPT ![p] = me[p].read]
    /\ Go(p, "in")
    /\ UNCHANGED <<scheme, mem, me, epoch, list>>

\* qProtect: announce, then ask whether the record may be retired, and take
\* the announcement back if so.
plus_qProtect(p) ==
    \/ /\ At(p, {"debraplus"}, "in") /\ list[p].size < Plan[scheme].slots[p]
       /\ \E r \in holds[p] \ Announced(p) : AddStore(p, r)
       /\ Go(p, "announced") /\ UNCHANGED <<scheme, mem, me, epoch, word>>
    \/ /\ At(p, {"debraplus"}, "announced")
       /\ AddSize(p)
       /\ Go(p, "confirm") /\ UNCHANGED <<scheme, mem, me, epoch, word>>
    \/ /\ At(p, {"debraplus"}, "confirm")
       /\ IF list[p].data[list[p].size - 1] \in linked THEN UNCHANGED list
          ELSE list' = [list EXCEPT ![p].size = @ - 1]
       /\ Go(p, "in") /\ UNCHANGED <<scheme, mem, me, epoch, word>>

plus_unlink(p) ==
    /\ At(p, {"debraplus"}, "in")
    /\ \E r \in Records : Unlink(p, r) /\ Set(p, [me[p] EXCEPT !.mine = @ \cup {r}])
    /\ UNCHANGED <<scheme, pc, holds, pool, bags, cur, epoch, word, list>>

plus_endOp(p) ==
    /\ At(p, {"debraplus"}, "in")
    /\ word' = [word EXCEPT ![p] = GET_WITH_QUIESCENT(@)]
    /\ holds' = [holds EXCEPT ![p] = @ \cap Announced(p)]
    /\ Go(p, "retire")
    /\ UNCHANGED <<scheme, me, linked, pool, bags, cur, epoch, list>>

\* Records are retired by a quiescent thread: after its operation, or when
\* it recovers.
plus_retire(p) ==
    /\ At(p, {"debraplus"}, "retire")
    /\ bags' = [bags EXCEPT ![p][cur[p]] = @ \cup me[p].mine]
    /\ Set(p, [me[p] EXCEPT !.mine = {}])
    /\ Clear(p) /\ holds' = [holds EXCEPT ![p] = {}]
    /\ Go(p, "idle")
    /\ UNCHANGED <<scheme, linked, pool, cur, epoch, word>>

DebraPlusNext(p) ==
    \/ plus_read(p) \/ plus_scan(p) \/ plus_free(p)
    \/ plus_check(p) \/ plus_advance(p) \/ plus_announce(p)
    \/ At(p, {"debraplus"}, "in") /\ Find(p)
    \/ plus_qProtect(p) \/ plus_unlink(p) \/ plus_endOp(p)
    \/ plus_retire(p)
=============================================================================
