-------------------------------- MODULE Kcas --------------------------------
(***************************************************************************)
(* k-word compare-and-swap (kcas_reuse_impl.h), and the variant that tries *)
(* hardware transactions first (kcas_reuse_htm_impl.h).  Each word is      *)
(* taken with a restricted double-compare-single-swap, rdcss, which puts   *)
(* the pointer to the KCAS in only while the KCAS is undecided.            *)
(*                                                                         *)
(* Threads number themselves: a thread takes the first free entry of       *)
(* thread_ids when it first needs a number, and gives it back at its end,  *)
(* so that a later thread uses the same descriptors.                       *)
(***************************************************************************)
EXTENDS Dcss, SequencesExt

\* The compiled variant: kcas_reuse_htm_impl.h.
Transactions == scheme = "kcas_htm"

VARIABLE thread_ids     \* thread_ids[t]: the thread with number t, or Nothing

\* entries: a sequence of [addr, oldval, newval]
Matches(es, m) == \A i \in DOMAIN es : m[es[i].addr] = es[i].oldval

Written(es, m) ==
    [a \in DOMAIN m |-> IF \E i \in DOMAIN es : es[i].addr = a
                         THEN es[CHOOSE i \in DOMAIN es : es[i].addr = a].newval
                         ELSE m[a]]

Before(e, f) == e.addr < f.addr

\* kcasdesc_sort: by address.
Sorted(entries) == SortSeq(entries, Before)

HelpKcas(tag, own, entries, l) ==
    [pc |-> l, tag |-> tag, own |-> own, entries |-> entries, i |-> 1, state |-> "undecided"]

HelpRdcss(tag, f, l) == [pc |-> l, tag |-> tag, f |-> f, state |-> "undecided"]

-----------------------------------------------------------------------------
\* TIDGenerator: look for a free entry and claim it, from the first again
\* when somebody else was faster.
idScan(p) ==
    /\ At(p, "id_scan")
    /\ Top(p).i <= Cardinality(Tids)        \* the assertion on KCAS_MAX_THREADS
    /\ IF thread_ids[Top(p).i] # Nothing
         THEN Put(p, [Top(p) EXCEPT !.i = @ + 1])
         ELSE Go(p, "id_claim")
    /\ UNCHANGED <<memory, thread_ids, history>>

idClaim(p) ==
    LET i == Top(p).i IN
    /\ At(p, "id_claim")
    /\ \/ /\ thread_ids[i] = Nothing
          /\ thread_ids' = [thread_ids EXCEPT ![i] = p]
          /\ tid' = [tid EXCEPT ![p] = i]
          /\ Pop(p)
       \/ /\ thread_ids[i] # Nothing
          /\ Put(p, [Top(p) EXCEPT !.i = 1, !.pc = "id_scan"])
          /\ UNCHANGED <<thread_ids, tid>>
    /\ UNCHANGED <<word, desc, scheme, history>>

idRelease(p) ==
    /\ scheme # "dcss" /\ doing[p] = Nothing /\ todo[p] = << >> /\ tid[p] # Nothing
    /\ thread_ids' = [thread_ids EXCEPT ![tid[p]] = Nothing]
    /\ tid' = [tid EXCEPT ![p] = Nothing]
    /\ UNCHANGED <<word, desc, scheme, stack, history>>

-----------------------------------------------------------------------------
kcasStart(p) ==
    /\ At(p, "kcas") /\ tid[p] = Nothing
    /\ Invoke(p, Top(p), [pc |-> "id_scan", i |-> 1])
    /\ UNCHANGED <<memory, thread_ids, history>>

\* start; the entries are added one by one.
kcasNew(p) ==
    /\ At(p, "kcas") /\ tid[p] # Nothing
    /\ NewDescriptor("kcas", tid[p])
    /\ Go(p, "execute")
    /\ UNCHANGED <<word, tid, thread_ids, scheme, history>>

execute(p) ==
    /\ At(p, "execute")
    /\ Initialized("kcas", tid[p], Sorted(Top(p).entries))
    /\ Go(p, IF Transactions THEN "transaction" ELSE "help_own")
    /\ UNCHANGED <<word, tid, thread_ids, scheme, history>>

\* A transaction sees the words at one moment, and changes all or none.  One
\* that fails for a reason of its own is tried again, or given up for the
\* lock-free path; a word that does not hold the old value, because of
\* another operation in progress too, fails the operation.
transaction(p) ==
    LET es == Top(p).entries IN
    /\ At(p, "transaction")
    /\ \/ /\ Matches(es, word)
          /\ word' = Written(es, word)
          /\ Return(p, <<"done", TRUE>>)
       \/ /\ ~Matches(es, word)
          /\ Return(p, <<"done", FALSE>>)
          /\ UNCHANGED word
       \/ Go(p, "help_own") /\ UNCHANGED <<word, history>>
    /\ UNCHANGED <<desc, tid, thread_ids, scheme>>

helpOwn(p) ==
    /\ At(p, "help_own")
    /\ Put(p, HelpKcas(Tag("kcas", tid[p]), TRUE, desc["kcas"][tid[p]].f, "help"))
    /\ UNCHANGED <<memory, thread_ids, history>>

kcasRead(p) ==
    LET r == word[Top(p).addr] IN
    /\ At(p, "kcas_read")
    /\ \/ /\ tid[p] = Nothing
          /\ Invoke(p, Top(p), [pc |-> "id_scan", i |-> 1])
          /\ UNCHANGED history
       \/ /\ tid[p] # Nothing /\ Is("rdcss", r)
          /\ Invoke(p, Top(p), HelpRdcss(r, Nothing, "rdcss_help"))
          /\ UNCHANGED history
       \/ /\ tid[p] # Nothing /\ Is("kcas", r)
          /\ Invoke(p, Top(p), HelpKcas(r, FALSE, << >>, "help_other"))
          /\ UNCHANGED history
       \/ tid[p] # Nothing /\ ~IsTagged(r) /\ Return(p, <<"value", r>>)
    /\ UNCHANGED <<memory, thread_ids>>

-----------------------------------------------------------------------------
\* The end of a call of help.
Helped(p, succeeded) ==
    IF Top(p).own THEN Return(p, <<"done", succeeded>>) ELSE Pop(p) /\ UNCHANGED history

helpOther(p) ==
    /\ At(p, "help_other")
    /\ IF Valid(Top(p).tag)
         THEN Put(p, [Top(p) EXCEPT !.entries = Target(Top(p).tag).f, !.pc = "help"])
         ELSE Pop(p)
    /\ UNCHANGED <<memory, thread_ids, history>>

\* Who helps has met the pointer in some word, so that the first is taken.
help(p) ==
    /\ At(p, "help")
    /\ \/ /\ ~Valid(Top(p).tag)
          /\ Helped(p, FALSE)
       \/ /\ Valid(Top(p).tag)
          /\ Put(p, [Top(p) EXCEPT
                !.i = IF Top(p).own THEN 1 ELSE 2,
                !.pc = IF Target(Top(p).tag).state = "undecided" THEN "entry" ELSE "phase_2"])
          /\ UNCHANGED history
    /\ UNCHANGED <<memory, thread_ids>>

\* The next word: a new descriptor for rdcss.
entry(p) ==
    /\ At(p, "entry")
    /\ \/ /\ Top(p).i > Len(Top(p).entries)
          /\ Put(p, [Top(p) EXCEPT !.state = "succeeded", !.pc = "decide"])
          /\ UNCHANGED desc
       \/ /\ Top(p).i <= Len(Top(p).entries)
          /\ NewDescriptor("rdcss", tid[p])
          /\ Go(p, "rdcss_new")
    /\ UNCHANGED <<word, tid, thread_ids, scheme, history>>

rdcssNew(p) ==
    LET e == Top(p).entries[Top(p).i] IN
    /\ At(p, "rdcss_new")
    /\ Initialized("rdcss", tid[p],
          [old1 |-> Top(p).tag, addr2 |-> e.addr, old2 |-> e.oldval, new2 |-> Top(p).tag])
    /\ Go(p, "rdcss")
    /\ UNCHANGED <<word, tid, thread_ids, scheme, history>>

\* What help makes of the answer r of rdcss: the word is already taken for
\* this KCAS, taken by another, which is helped first, or of a wrong value.
RdcssAnswered(p, me, r) ==
    \/ /\ r = me.tag
       /\ Put(p, [me EXCEPT !.i = @ + 1, !.pc = "entry"])
    \/ /\ Is("kcas", r) /\ r # me.tag
       /\ Invoke(p, [me EXCEPT !.pc = "entry"], HelpKcas(r, FALSE, << >>, "help_other"))
    \/ /\ ~IsTagged(r)
       /\ Put(p, [me EXCEPT !.state = "failed", !.pc = "decide"])

rdcss(p) ==
    LET f == desc["rdcss"][tid[p]].f  r == word[f.addr2]
        tag == Tag("rdcss", tid[p])   me == Top(p) IN
    /\ At(p, "rdcss")
    /\ CompareAndSwap(f.addr2, f.old2, tag)
    /\ \/ /\ r = f.old2
          /\ Invoke(p, [me EXCEPT !.i = @ + 1, !.pc = "entry"], HelpRdcss(tag, f, "rdcss_state"))
       \/ /\ Is("rdcss", r)
          /\ Invoke(p, me, HelpRdcss(r, Nothing, "rdcss_help"))
       \/ /\ r # f.old2 /\ ~Is("rdcss", r)
          /\ RdcssAnswered(p, me, r)
    /\ UNCHANGED <<desc, tid, thread_ids, scheme, history>>

rdcssHelpOther(p) ==
    /\ At(p, "rdcss_help")
    /\ IF Valid(Top(p).tag)
         THEN Put(p, [Top(p) EXCEPT !.f = Target(Top(p).tag).f, !.pc = "rdcss_state"])
         ELSE Pop(p)
    /\ UNCHANGED <<memory, thread_ids, history>>

\* A KCAS whose descriptor is used again counts as decided.
rdcssState(p) ==
    LET kcas == Top(p).f.old1 IN
    /\ At(p, "rdcss_state")
    /\ Put(p, [Top(p) EXCEPT !.pc = "rdcss_finish",
                  !.state = IF Valid(kcas) THEN Target(kcas).state ELSE "succeeded"])
    /\ UNCHANGED <<memory, thread_ids, history>>

rdcssFinish(p) ==
    LET f == Top(p).f IN
    /\ At(p, "rdcss_finish")
    /\ CompareAndSwap(f.addr2, Top(p).tag,
                      IF Top(p).state = "undecided" THEN f.new2 ELSE f.old2)
    /\ Pop(p)
    /\ UNCHANGED <<desc, tid, thread_ids, scheme, history>>

\* Mutant: the last to finish decides.
decideAgain(p) ==
    /\ At(p, "decide")
    /\ desc' = IF Valid(Top(p).tag)
                 THEN [desc EXCEPT !["kcas"][Top(p).tag[2]].state = Top(p).state] ELSE desc
    /\ Go(p, "phase_2")
    /\ UNCHANGED <<word, tid, thread_ids, scheme, history>>

\* SEQBITS_CAS_FIELD
decide(p) ==
    LET tag == Top(p).tag IN
    /\ At(p, "decide")
    /\ desc' = IF Valid(tag) /\ Target(tag).state = "undecided"
                 THEN [desc EXCEPT !["kcas"][tag[2]].state = Top(p).state] ELSE desc
    /\ Go(p, "phase_2")
    /\ UNCHANGED <<word, tid, thread_ids, scheme, history>>

phase2(p) ==
    /\ At(p, "phase_2")
    /\ \/ /\ ~Valid(Top(p).tag)
          /\ Helped(p, FALSE)
       \/ /\ Valid(Top(p).tag)
          /\ Put(p, [Top(p) EXCEPT !.i = 1, !.state = Target(Top(p).tag).state,
                                   !.pc = "release"])
          /\ UNCHANGED history
    /\ UNCHANGED <<memory, thread_ids>>

\* Mutant: the words a failed KCAS has taken are not given back.
releaseOnSuccess(p) ==
    LET me == Top(p)  e == me.entries[me.i]  won == me.state = "succeeded" IN
    /\ At(p, "release")
    /\ CompareAndSwap(e.addr, me.tag, IF won THEN e.newval ELSE me.tag)
    /\ \/ /\ me.i < Len(me.entries)
          /\ Put(p, [me EXCEPT !.i = @ + 1])
          /\ UNCHANGED history
       \/ me.i = Len(me.entries) /\ Helped(p, won)
    /\ UNCHANGED <<desc, tid, thread_ids, scheme>>

release(p) ==
    LET me == Top(p)  e == me.entries[me.i]  won == me.state = "succeeded" IN
    /\ At(p, "release")
    /\ CompareAndSwap(e.addr, me.tag, IF won THEN e.newval ELSE e.oldval)
    /\ \/ /\ me.i < Len(me.entries)
          /\ Put(p, [me EXCEPT !.i = @ + 1])
          /\ UNCHANGED history
       \/ me.i = Len(me.entries) /\ Helped(p, won)
    /\ UNCHANGED <<desc, tid, thread_ids, scheme>>

KcasStep(p) ==
    \/ idScan(p) \/ idClaim(p) \/ idRelease(p)
    \/ kcasStart(p) \/ kcasNew(p) \/ execute(p) \/ transaction(p) \/ helpOwn(p) \/ kcasRead(p)
    \/ helpOther(p) \/ help(p) \/ entry(p) \/ rdcssNew(p) \/ rdcss(p)
    \/ rdcssHelpOther(p) \/ rdcssState(p) \/ rdcssFinish(p)
    \/ decide(p) \/ phase2(p) \/ release(p)

-----------------------------------------------------------------------------
\* A k-word compare-and-swap in one step.  With transactions one may also
\* fail because it met another in progress.
KcasEffects(op, m) ==
    (IF Matches(op.entries, m) THEN {<<Written(op.entries, m), <<"done", TRUE>>>>} ELSE {})
    \cup (IF ~Matches(op.entries, m) \/ Transactions THEN {<<m, <<"done", FALSE>>>>} ELSE {})
=============================================================================
