------------------------------- MODULE Debra -------------------------------
(***************************************************************************)
(* reclaimer_debra.h and reclaimer_debracap.h.  A thread announces the     *)
(* epoch it has read when an operation starts and adds a quiescent bit to  *)
(* it when the operation ends.  Operation by operation it looks at one     *)
(* more thread's announcement; when all have been seen in its epoch, or    *)
(* quiescent, it moves the epoch on.  A thread that meets a new epoch      *)
(* empties the bag it filled three epochs before.                          *)
(*                                                                         *)
(* reclaimer_debra announces after it has emptied the bag,                 *)
(* reclaimer_debracap before; the latter also looks at all announcements   *)
(* at once when its bag grows.                                             *)
(***************************************************************************)
EXTENDS Reclamation

DebraInit ==
    /\ me = [p \in Procs |-> Local]
    /\ epoch = 0
    /\ word = [p \in Procs |-> GET_WITH_QUIESCENT(0)]

\* A thread that is new to the epoch forgets whom it has checked.
ReadEpoch(p) ==
    /\ epoch <= Plan[scheme].last[p]
    /\ Set(p, [me[p] EXCEPT !.read = epoch, !.seen = epoch,
                            !.checked = IF epoch # me[p].seen THEN 0 ELSE @])
    /\ UNCHANGED <<scheme, mem, epoch, word, list>>

NewToEpoch(p) == epoch # me[p].seen

Announce(p) ==
    /\ word' = [word EXCEPT ![p] = me[p].read]
    /\ UNCHANGED <<scheme, mem, me, epoch, list>>

\* Mutant: two limbo bags, as if a record could be freed one epoch earlier.
RotateTwo(p) ==
    /\ RotateBags(p, 2)
    /\ UNCHANGED <<scheme, me, epoch, word, list>>

Rotate(p) ==
    /\ RotateBags(p, 3)
    /\ UNCHANGED <<scheme, me, epoch, word, list>>

Passed(p, q) == BITS_EPOCH(word[q]) = me[p].read \/ QUIESCENT(word[q])

\* Every MinOps-th operation looks at one announcement.
Check(p) ==
    LET checked == me[p].checked + 1 IN
    /\ UNCHANGED <<scheme, mem, epoch, word, list>>
    /\ IF me[p].since + 1 # MinOps
         THEN Set(p, [me[p] EXCEPT !.since = @ + 1]) /\ Go(p, "in")
       ELSE IF Passed(p, me[p].checked)
         THEN /\ Set(p, [me[p] EXCEPT !.since = 0, !.checked = checked])
              /\ Go(p, IF checked >= N THEN "advance" ELSE "in")
       ELSE Set(p, [me[p] EXCEPT !.since = 0]) /\ Go(p, "in")

\* The compare-and-swap on the epoch.  When it fails somebody else has
\* moved the epoch on.
AdvanceEpoch(p) ==
    /\ epoch' = IF epoch = me[p].read THEN epoch + EPOCH_INCREMENT ELSE epoch
    /\ UNCHANGED <<scheme, mem, me, word, list>>

debra_startOp(p) ==
    \/ At(p, {"debra"}, "idle") /\ ReadEpoch(p)
         /\ Go(p, IF NewToEpoch(p) THEN "rotate" ELSE "announce")
    \/ At(p, {"debra"}, "rotate") /\ Rotate(p) /\ Go(p, "announce")
    \/ At(p, {"debra"}, "announce") /\ Announce(p) /\ Go(p, "check")
    \/ At(p, {"debra"}, "check") /\ Check(p)
    \/ At(p, {"debra"}, "advance") /\ AdvanceEpoch(p) /\ Go(p, "in")

debracap_startOp(p) ==
    \/ At(p, {"debracap"}, "idle") /\ ReadEpoch(p)
         /\ Go(p, IF NewToEpoch(p) THEN "announceFirst" ELSE "announce")
    \/ At(p, {"debracap"}, "announceFirst") /\ Announce(p) /\ Go(p, "rotate")
    \/ At(p, {"debracap"}, "announce") /\ Announce(p) /\ Go(p, "check")
    \/ At(p, {"debracap"}, "rotate") /\ Rotate(p) /\ Go(p, "check")
    \/ At(p, {"debracap"}, "check") /\ Check(p)
    \/ At(p, {"debracap"}, "advance") /\ AdvanceEpoch(p) /\ Go(p, "in")

debra_endOp(p) ==
    /\ At(p, {"debra", "debracap"}, "in")
    /\ word' = [word EXCEPT ![p] = GET_WITH_QUIESCENT(me[p].seen)]
    /\ holds' = [holds EXCEPT ![p] = {}]
    /\ Go(p, "idle")
    /\ UNCHANGED <<scheme, me, linked, pool, bags, cur, epoch, list>>

\* After it has retired a record into a bag of two blocks or more (the code
\* does so once in 1000 times), debracap reads the epoch again, and goes
\* through the announcements from where it stands.
debracap_retire(p) ==
    \/ /\ At(p, {"debracap"}, "in")
       /\ \E r \in Records : Unlink(p, r) /\ retire(p, r)
       /\ Go(p, IF getSizeInBlocks(bags'[p][cur[p]]) >= 2 THEN "large" ELSE "in")
       /\ UNCHANGED <<scheme, me, holds, epoch, word, list>>
    \/ /\ At(p, {"debracap"}, "large")
       /\ Go(p, IF epoch = BITS_EPOCH(me[p].seen) THEN "all" ELSE "in")
       /\ UNCHANGED <<scheme, mem, me, epoch, word, list>>
    \/ /\ At(p, {"debracap"}, "all")
       /\ UNCHANGED <<scheme, mem, epoch, word, list>>
       /\ IF me[p].checked >= N THEN Go(p, "advance") /\ UNCHANGED me
          ELSE IF Passed(p, me[p].checked)
            THEN Set(p, [me[p] EXCEPT !.checked = @ + 1]) /\ UNCHANGED pc
          ELSE Go(p, "in") /\ UNCHANGED me

DebraNext(p) ==
    \/ debra_startOp(p) \/ debracap_startOp(p)
    \/ At(p, {"debra", "debracap"}, "in") /\ Find(p)
    \/ At(p, {"debra"}, "in") /\ UnlinkAndRetire(p)
    \/ debracap_retire(p)
    \/ debra_endOp(p)
=============================================================================
