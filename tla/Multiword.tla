----------------------------- MODULE Multiword -----------------------------
(***************************************************************************)
(* Programs that change and read words through DCSS, KCAS, or KCAS with    *)
(* transactions, or objects through RLU.  A call is a record: do names the *)
(* operation.                                                              *)
(***************************************************************************)
EXTENDS Dcss, Kcas, Rlu

CONSTANTS
    Programs,      \* Programs[scheme]: the sets of calls, per thread
    FirstData,     \* what the objects of RLU hold at first
    MaxWriteSets   \* the argument of rlu_init, for fine-grained locking

ASSUME RluAssumption ==
    /\ RLU_MAX_WRITE_SETS \in Nat /\ MAX_VERSION \in Nat
    /\ RLU_MAX_WRITE_SETS >= 2
    /\ MaxWriteSets \in Nat \ {0}
    /\ MaxWriteSets * 2 <= RLU_MAX_WRITE_SETS
    /\ Threads = 1 .. Cardinality(Threads) /\ Cardinality(Threads) \in Nat
    /\ Nothing \notin Threads /\ Nothing \notin Threads \X Nat \X Nat

\* What objects hold.  Those that hold a pointer at first are only given
\* pointers, and a section follows no others.
Values   == Objects \cup Int
Pointers == {o \in Objects : FirstData[o] \in Objects}

RluSteps ==
    [do : {"read", "free"}, obj : Objects]
    \cup [do : {"follow"}, obj : Pointers]
    \cup [do : {"write"}, obj : Pointers, val : Objects]
    \cup [do : {"write"}, obj : Objects \ Pointers, val : Values]

RluCalls ==
    [do : {"section"}, coarse : BOOLEAN, abort : BOOLEAN, tries : Nat, steps : Seq(RluSteps)]
    \cup [do : {"finish"}]

ASSUME RluProgramsAssumption ==
    /\ Nothing \notin RluCalls
    /\ FirstData \in [Objects -> Values]
    /\ \A s \in DOMAIN Programs \cap {"rlu", "rlu_coarse"} :
          \A programs \in Programs[s] : programs \in [Threads -> Seq(RluCalls)]

\* What words hold, and what DCSS and its readers are given: the first address
\* of a DCSS is a word that is written directly, the second one is not.
Plain == {v \in Seq(Int) : Len(v) = 1}

DcssCalls(direct) ==
    [do : {"dcss"}, addr1 : direct, old1 : Plain, addr2 : Addresses \ direct, old2 : Plain, new2 : Plain]
    \cup [do : {"store"}, addr : direct, val : Plain]
    \cup [do : {"read"}, addr : Addresses]

DcssAnswers ==
    {<<"stored">>, <<"success">>, <<"failed_addr1">>} \cup ({"failed_addr2", "value"} \X Plain)

ASSUME DcssProgramsAssumption ==
    /\ Nothing \notin DcssAnswers
    /\ "dcss" \in DOMAIN Programs =>
       /\ Threads \subseteq Tids
       /\ \E direct \in SUBSET Addresses :
             /\ Nothing \notin DcssCalls(direct)
             /\ \A programs \in Programs["dcss"] : programs \in [Threads -> Seq(DcssCalls(direct))]

vars == <<memory, thread_ids, rlu, stack, history>>

MultiwordApply(op, m) ==
    CASE op.do = "dcss"  -> {DcssEffect(op, m)}
      [] op.do = "kcas"  -> KcasEffects(op, m)
      [] op.do = "store" -> {<<[m EXCEPT ![op.addr] = op.val], <<"stored">>>>}
      [] op.do = "read"  -> {<<m, <<"value", m[op.addr]>>>>}
      [] op.do \in {"section", "finish"} -> {<<m, <<"done">>>>}

Frame(op) ==
    CASE op.do = "dcss"  -> DcssFrame(op)
      [] op.do = "kcas"  -> [pc |-> "kcas", entries |-> op.entries]
      [] op.do = "store" -> [pc |-> "store", addr |-> op.addr, val |-> op.val]
      [] op.do = "read"  -> [pc |-> IF scheme = "dcss" THEN "dcss_read" ELSE "kcas_read",
                             addr |-> op.addr]
      [] op.do = "section" -> SectionFrame(op)
      [] op.do = "finish"  -> FinishFrame(op)

Call(p) == Begin(p, Frame(Head(todo[p]))) /\ UNCHANGED <<memory, thread_ids, rlu>>

\* What others do to addr1 of a DCSS.
Store(p) ==
    /\ At(p, "store")
    /\ word' = [word EXCEPT ![Top(p).addr] = Top(p).val]
    /\ Return(p, <<"stored">>)
    /\ UNCHANGED <<scheme, desc, tid, thread_ids, rlu>>

Step(p) ==
    \/ Call(p)
    \/ Store(p)
    \/ scheme = "dcss" /\ DcssStep(p) /\ UNCHANGED <<thread_ids, rlu>>
    \/ scheme \in {"kcas", "kcas_htm"} /\ KcasStep(p) /\ UNCHANGED rlu
    \/ scheme \in {"rlu", "rlu_coarse"} /\ RluStep(p) /\ UNCHANGED <<memory, thread_ids>>

Init ==
    /\ scheme \in DOMAIN Programs
    /\ word = [a \in Addresses |-> <<0>>]
    /\ desc = [k \in {"dcss", "kcas", "rdcss"} |-> [t \in Tids |-> FreshDescriptor]]
    /\ thread_ids = [t \in Tids |-> Nothing]
    /\ tid = [p \in Threads |-> IF scheme = "dcss" THEN p ELSE Nothing]
    /\ RluInit(FirstData, IF scheme = "rlu_coarse" THEN 1 ELSE MaxWriteSets)
    /\ ClientsInit(word, Programs[scheme])

Next == \E p \in Threads : Step(p)

Spec == Init /\ [][Next]_vars /\ WF_vars(Next)

-----------------------------------------------------------------------------
\* When nobody is in a call, the words hold values: no pointer to a
\* descriptor is left behind, and the values are those of the atomic object.
QuietIsPlain ==
    Quiet => \E v \in views : v.state = word

\* Every program ends, although threads help each other at any time.
ProgramsEnd == <>Done
=============================================================================
