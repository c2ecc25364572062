-------------------------------- MODULE Dcss --------------------------------
(***************************************************************************)
(* Words of memory that hold a value or a tagged pointer to a descriptor,  *)
(* and the descriptors, one per thread and kind, which are used again for  *)
(* the next operation under a new sequence number (descriptors_impl2.h).   *)
(*                                                                         *)
(* A tagged pointer is <<kind, tid, seq>>, a value <<n>>.  The number is   *)
(* even while the owner writes the fields; nobody obtains a snapshot then, *)
(* so that the fields are written in one step, and since numbers only      *)
(* grow, a snapshot whose number is still right at its end is the          *)
(* descriptor of one moment.                                               *)
(***************************************************************************)
EXTENDS Clients, TLC

CONSTANTS
    Addresses,    \* the words
    Tids          \* the thread numbers there is a descriptor for

VARIABLES
    scheme,  \* what is compiled in
    word,    \* word[a]
    desc,    \* desc[kind][tid]: [seq, state, f], f the fields
    tid      \* tid[p]: the number of p, or Nothing

memory == <<scheme, word, desc, tid>>

IsTagged(v)    == Len(v) = 3
Is(kind, v)    == IsTagged(v) /\ v[1] = kind
Tag(kind, t)   == <<kind, t, desc[kind][t].seq>>
Target(tag)    == desc[tag[1]][tag[2]]
\* The descriptor is still the one the tag was made for.
Valid(tag)     == Target(tag).seq = tag[3]

NewDescriptor(kind, t) ==
    desc' = [desc EXCEPT ![kind][t].seq = @ + 1, ![kind][t].state = "undecided"]

Initialized(kind, t, f) ==
    desc' = [desc EXCEPT ![kind][t].seq = @ + 1, ![kind][t].f = f]

FreshDescriptor == [seq |-> 1, state |-> "undecided", f |-> Nothing]

\* BOOL_CAS
CompareAndSwap(a, old, new) ==
    word' = IF word[a] = old THEN [word EXCEPT ![a] = new] ELSE word

-----------------------------------------------------------------------------
(***************************************************************************)
(* Double-compare-single-swap (dcss_impl.h and dcss_plus_impl.h): addr2    *)
(* goes from old2 to new2 if addr1 holds old1.  addr1 is a word that       *)
(* others write directly.  The operation first puts a pointer to its       *)
(* descriptor into addr2; whoever meets it there completes the operation.  *)
(***************************************************************************)
DcssFrame(op) == [pc |-> "dcss_new", op |-> op]

HelpFrame(tag, own, f, l) ==
    [pc |-> l, tag |-> tag, own |-> own, f |-> f, state |-> "failed"]

dcssNew(p) ==
    /\ At(p, "dcss_new")
    /\ NewDescriptor("dcss", tid[p])
    /\ Go(p, "dcss_fields")
    /\ UNCHANGED <<scheme, word, tid, history>>

dcssFields(p) ==
    /\ At(p, "dcss_fields")
    /\ Initialized("dcss", tid[p], Top(p).op)
    /\ Go(p, "dcss")
    /\ UNCHANGED <<scheme, word, tid, history>>

dcssInstall(p) ==
    LET f == desc["dcss"][tid[p]].f
        r == word[f.addr2]
        tag == Tag("dcss", tid[p]) IN
    /\ At(p, "dcss")
    /\ CompareAndSwap(f.addr2, f.old2, tag)
    /\ \/ /\ r = f.old2
          /\ Put(p, HelpFrame(tag, TRUE, f, "dcss_addr1"))
          /\ UNCHANGED history
       \/ /\ Is("dcss", r)
          /\ Invoke(p, Top(p), HelpFrame(r, FALSE, Nothing, "dcss_help"))
          /\ UNCHANGED history
       \/ /\ r # f.old2 /\ ~Is("dcss", r)
          /\ Return(p, <<"failed_addr2", r>>)
    /\ UNCHANGED <<scheme, desc, tid>>

dcssRead(p) ==
    LET r == word[Top(p).addr] IN
    /\ At(p, "dcss_read")
    /\ \/ /\ Is("dcss", r)
          /\ Invoke(p, Top(p), HelpFrame(r, FALSE, Nothing, "dcss_help"))
          /\ UNCHANGED history
       \/ ~Is("dcss", r) /\ Return(p, <<"value", r>>)
    /\ UNCHANGED memory

-----------------------------------------------------------------------------
dcssHelpOther(p) ==
    /\ At(p, "dcss_help")
    /\ IF Valid(Top(p).tag)
         THEN Put(p, [Top(p) EXCEPT !.f = Target(Top(p).tag).f, !.pc = "dcss_addr1"])
         ELSE Pop(p)
    /\ UNCHANGED <<memory, history>>

\* The state that the descriptor should get.
helpAddr1(p) ==
    LET f == Top(p).f IN
    /\ At(p, "dcss_addr1")
    /\ Put(p, [Top(p) EXCEPT !.pc = "dcss_look",
                !.state = IF word[f.addr1] = f.old1 THEN "succeeded" ELSE "failed"])
    /\ UNCHANGED <<memory, history>>

\* MUTABLES_VAL_CAS_FIELD, its first look: a helper whose descriptor is used
\* for another operation by now gives up.
helpLook(p) ==
    /\ At(p, "dcss_look")
    /\ IF Valid(Top(p).tag) THEN Go(p, "dcss_decide") ELSE Pop(p)
    /\ UNCHANGED <<memory, history>>

\* Its compare-and-swap.  When it fails, the state that is found counts, even
\* that of a later operation, unless it is undecided.
helpDecide(p) ==
    LET tag == Top(p).tag  found == Target(tag).state IN
    /\ At(p, "dcss_decide")
    /\ \/ /\ found = "undecided" /\ Valid(tag)
          /\ desc' = [desc EXCEPT ![tag[1]][tag[2]].state = Top(p).state]
          /\ Go(p, "dcss_finish")
       \/ /\ found = "undecided" /\ ~Valid(tag)
          /\ Go(p, "dcss_look") /\ UNCHANGED desc
       \/ /\ found # "undecided"
          /\ Put(p, [Top(p) EXCEPT !.pc = "dcss_finish", !.state = found])
          /\ UNCHANGED desc
    /\ UNCHANGED <<scheme, word, tid, history>>

\* Mutant: the pointer of an operation that failed stays in the word.
helpFinishOnSuccess(p) ==
    /\ At(p, "dcss_finish")
    /\ CompareAndSwap(Top(p).f.addr2, Top(p).tag,
          IF Top(p).state = "succeeded" THEN Top(p).f.new2 ELSE Top(p).tag)
    /\ IF Top(p).own
         THEN Return(p, IF Top(p).state = "succeeded" THEN <<"success">> ELSE <<"failed_addr1">>)
         ELSE Pop(p) /\ UNCHANGED history
    /\ UNCHANGED <<scheme, desc, tid>>

helpFinish(p) ==
    LET f == Top(p).f  s == Top(p).state IN
    /\ At(p, "dcss_finish")
    /\ CompareAndSwap(f.addr2, Top(p).tag, IF s = "succeeded" THEN f.new2 ELSE f.old2)
    /\ IF Top(p).own
         THEN Return(p, IF s = "succeeded" THEN <<"success">> ELSE <<"failed_addr1">>)
         ELSE Pop(p) /\ UNCHANGED history
    /\ UNCHANGED <<scheme, desc, tid>>

DcssStep(p) ==
    \/ dcssNew(p) \/ dcssFields(p) \/ dcssInstall(p) \/ dcssRead(p)
    \/ dcssHelpOther(p) \/ helpAddr1(p) \/ helpLook(p) \/ helpDecide(p) \/ helpFinish(p)

-----------------------------------------------------------------------------
\* A double-compare-single-swap in one step, with its answers.
DcssEffect(op, m) ==
    IF m[op.addr2] # op.old2 THEN <<m, <<"failed_addr2", m[op.addr2]>>>>
    ELSE IF m[op.addr1] # op.old1 THEN <<m, <<"failed_addr1">>>>
    ELSE <<[m EXCEPT ![op.addr2] = op.new2], <<"success">>>>
=============================================================================
