------------------------------ MODULE AtomicOps ------------------------------
(***************************************************************************)
(* common/atomic_ops, atomic_ops.h and generalize.h: from the primitives   *)
(* of a platform's header the preprocessor derives others, rule after      *)
(* rule, once or twice.  A derived primitive is one that is there, or one  *)
(* with a fence before or behind it, or a loop around compare_and_swap.    *)
(* What each orders is kept with it.                                       *)
(***************************************************************************)
EXTENDS Platforms, Naturals, Sequences, TLC
LOCAL INSTANCE SequencesExt

VARIABLES
    platform,  \* [ts, dd, prims, twice]
    have,      \* have[p]: the order that primitive p enforces, if AO_HAVE_p
    pass,      \* how often generalize.h has been begun
    section    \* and the section of it that comes next

ops == <<platform, have, pass, section>>

(***************************************************************************)
(* Orders: <<x, y>> is in one if every x before the operation comes before *)
(* every y after it, where "op" is the operation itself and "r" and "w"    *)
(* are reads and writes.                                                   *)
(***************************************************************************)
Accesses == {"r", "w"}

Promise(op, b) ==
    CASE op = "nop" /\ b = "full" -> Accesses \X Accesses
      [] op = "nop" /\ b = "read" -> {<<"r", "r">>}
      [] op = "nop" /\ b = "write" -> {<<"w", "w">>}
      [] b = ""        -> {}
      [] b = "release" -> Accesses \X {"op"}
      [] b = "acquire" -> {"op"} \X Accesses
      [] op # "nop" /\ b = "read"  -> {"op", "r"} \X {"r"}
      [] op # "nop" /\ b = "write" -> {"w"} \X {"op", "w"}
      [] op # "nop" /\ b = "full"  -> (Accesses \X {"op", "r", "w"}) \cup ({"op"} \X Accesses)
      [] b = "release_write"   -> {<<"w", "op">>}
      [] b = "acquire_read"    -> {<<"op", "r">>}
      [] b = "dd_acquire_read" -> {<<"op", "dependent">>}

\* What the operation does to memory.
Effects(op) == CASE op = "load" -> {"r"} [] op = "store" -> {"w"} [] OTHER -> Accesses

\* One after the other: at most one is not a fence.
InTurn(h, by, op) ==
    LET fence(k)  == by[k][2] = "nop"
        at        == {k \in DOMAIN by : ~fence(k)}
        order(k)  ==
          IF ~fence(k) THEN h[by[k]]
          ELSE h[by[k]]
               \cup {<<x, "op">> : x \in {y \in Accesses : /\ \E j \in at : k < j
                                                           /\ {y} \X Effects(op) \subseteq h[by[k]]}}
               \cup {<<"op", x>> : x \in {y \in Accesses : /\ \E j \in at : j < k
                                                           /\ Effects(op) \X {y} \subseteq h[by[k]]}}
    IN  UNION {order(k) : k \in DOMAIN by}

\* An operation that reads is before the reads of what its result points to
\* if it is before all reads, and on most platforms anyway.
Closed(order, reads) ==
    order \cup {<<x, y>> \in Accesses \X Accesses :
                  <<x, "op">> \in order /\ <<"op", y>> \in order}
          \cup IF reads \/ <<"op", "r">> \in order THEN {<<"op", "dependent">>} ELSE {}

Trusted(p) == Closed(Promise(p[2], p[3]), platform.dd)

-----------------------------------------------------------------------------
(***************************************************************************)
(* Rules.                                                                  *)
(***************************************************************************)
Rule(s, op, b, by) == [to |-> <<s, op, b>>, by |-> by]
From(s, op, b, c)  == Rule(s, op, b, <<<<s, op, c>>>>)

BeforeAFence(s, op, b, c) == Rule(s, op, b, <<<<s, op, c>>, Nop("full")>>)
AfterAFence(s, op, b, c) == Rule(s, op, b, <<Nop("full"), <<s, op, c>>>>)

\* From the operation with each of the barriers.
Each(s, op, barriers, from) ==
    [k \in DOMAIN barriers |-> Rule(s, op, barriers[k], <<<<s, from, barriers[k]>>>>)]

Weaken(s, op) ==
    [k \in 1 .. 4 |-> From(s, op, <<"release", "acquire", "write", "read">>[k], "full")]

Plain(s, op) ==
    [k \in 1 .. 4 |-> From(s, op, "", <<"release", "acquire", "write", "read">>[k])]

OneSided(s, op) ==
    <<From(s, op, "release_write", "write"), From(s, op, "release_write", "release"),
      From(s, op, "acquire_read", "read"), From(s, op, "acquire_read", "acquire")>>

DataDependent(s, op) ==
    <<From(s, op, "dd_acquire_read", IF platform.dd THEN "" ELSE "acquire_read")>>

\* Where fetch_and_add_full (of less than a word) and or_full are made from
\* acquire they are not declared, so that nothing is made from them.
Undeclared(s, op) == Weaken(s, op) \o Plain(s, op) \o OneSided(s, op)

General(s, op) ==
    Weaken(s, op) \o Plain(s, op) \o <<AfterAFence(s, op, "full", "acquire")>>
    \o OneSided(s, op) \o DataDependent(s, op)

(***************************************************************************)
(* Sections of generalize.h, in order.                                     *)
(***************************************************************************)
testAndSetByCas(h) ==
    LET size == platform.ts
        none == \A b \in {"", "release", "acquire", "read", "full"} :
                  <<"word", "test_and_set", b>> \notin DOMAIN h
    IN  IF ~none THEN << >>
        ELSE [k \in 1 .. 4 |->
                LET b == <<"full", "acquire", "release", "">>[k]
                IN  Rule("word", "test_and_set", b, <<<<size, CAS, b>>>>)]
             \o <<BeforeAFence("word", "test_and_set", "acquire", "")>>

nops ==
    <<Rule("word", "nop", "", << >>), Rule("word", "nop", "full", <<<<"word", "test_and_set", "full">>>>),
      From("word", "nop", "read", "full"), From("word", "nop", "write", "full")>>

loadRest(s) ==
    <<From(s, "load", "read", "full"), From(s, "load", "acquire_read", "acquire"),
      BeforeAFence(s, "load", "acquire", ""),
      Rule(s, "load", "read", <<<<s, "load", "">>, Nop("read")>>),
      AfterAFence(s, "load", "full", "acquire"),
      From(s, "load", "acquire_read", "read"), From(s, "load", "", "acquire_read")>>
    \o DataDependent(s, "load")

load ==
    <<From("word", "load", "acquire", "full"), From("word", "load", "", "acquire")>>
    \o loadRest("word")

storeRest(s) ==
    <<From(s, "store", "write", "full"), From(s, "store", "release_write", "release"),
      From(s, "store", "", "write"), AfterAFence(s, "store", "release", ""),
      Rule(s, "store", "write", <<Nop("write"), <<s, "store", "">>>>),
      From(s, "store", "release_write", "write"), BeforeAFence(s, "store", "full", "release")>>

store ==
    <<From("word", "store", "release", "full"), From("word", "store", "", "release")>>
    \o storeRest("word")

testAndSetFenced ==
    <<AfterAFence("word", "test_and_set", "release", ""),
      BeforeAFence("word", "test_and_set", "acquire", "")>>

CasLoops == <<"full", "acquire", "release", "">>

fetchAndAdd == Each("word", "fetch_and_add", CasLoops, CAS) \o General("word", "fetch_and_add")

\* In the order the variants of fetch_and_add are asked for.
ByAdding ==
    <<"full", "release", "acquire", "write", "read", "release_write", "acquire_read", "">>

fetchAndAdd1 ==
    Each("word", "fetch_and_add1", ByAdding, "fetch_and_add") \o General("word", "fetch_and_add1")

fetchAndSub1 ==
    Each("word", "fetch_and_sub1", ByAdding, "fetch_and_add") \o General("word", "fetch_and_sub1")

or == Each("word", "or", <<"full">>, CAS) \o Undeclared("word", "or")

testAndSet == General("word", "test_and_set")

\* compare_and_swap is first made stronger where it is plain.
Swap(op) ==
    <<BeforeAFence("word", op, "acquire", ""), AfterAFence("word", op, "release", "")>>
    \o General("word", op)

compareAndSwap             == Swap(CAS)
compareDoubleAndSwapDouble == Swap(CDSD)
compareAndSwapDouble       == Swap(CSD)
doubleCompareAndSwap       == Each("word", DCAS, <<"release", "acquire", "full">>, CDSD)

\* generalize-small.h, three times the same.
smallLoad(s) ==
    <<From(s, "load", "", "acquire"), From(s, "load", "acquire", "full")>> \o loadRest(s)

smallStore(s) ==
    <<From(s, "store", "", "release"), From(s, "store", "release", "full")>> \o storeRest(s)

smallAdd(s) ==
    Each(s, "fetch_and_add", <<"full", "acquire", "release">>, CAS)
    \o Undeclared(s, "fetch_and_add") \o DataDependent(s, "fetch_and_add")

smallAdd1(s) == Each(s, "fetch_and_add1", ByAdding, "fetch_and_add") \o General(s, "fetch_and_add1")
smallSub1(s) == Each(s, "fetch_and_sub1", ByAdding, "fetch_and_add") \o General(s, "fetch_and_sub1")

charLoad      == smallLoad("char")
charStore     == smallStore("char")
charAdd       == smallAdd("char")
charAdd1      == smallAdd1("char")
charSub1      == smallSub1("char")
shortLoad     == smallLoad("short")
shortStore    == smallStore("short")
shortAdd      == smallAdd("short")
shortAdd1     == smallAdd1("short")
shortSub1     == smallSub1("short")
intLoad       == smallLoad("int")
intStore      == smallStore("int")
intAdd        == smallAdd("int")
intAdd1       == smallAdd1("int")
intSub1       == smallSub1("int")

generalize(h) ==
    <<testAndSetByCas(h), nops, load, store, testAndSetFenced, fetchAndAdd, fetchAndAdd1,
      fetchAndSub1, or, testAndSet, compareAndSwap,
      charLoad, charStore, charAdd, charAdd1, charSub1,
      shortLoad, shortStore, shortAdd, shortAdd1, shortSub1,
      intLoad, intStore, intAdd, intAdd1, intSub1,
      compareDoubleAndSwapDouble, compareAndSwapDouble, doubleCompareAndSwap>>

-----------------------------------------------------------------------------
\* What has its primitives and is not there is defined; dd_acquire_read is
\* defined again.
Applies(h, r) ==
    /\ \A k \in DOMAIN r.by : r.by[k] \in DOMAIN h
    /\ r.to \in DOMAIN h => r.to[3] = "dd_acquire_read"

Apply(h, r) ==
    IF ~Applies(h, r) THEN h
    ELSE (r.to :> Closed(InTurn(h, r.by, r.to[2]), platform.dd)) @@ h

Included(h, rules) == FoldLeft(Apply, h, rules)

OpsInit ==
    /\ \E name \in DOMAIN Options, requireCas \in BOOLEAN :
         \E def \in SUBSET Options[name] :
             /\ Implemented(name, def, requireCas)
             /\ platform = Platform(name, def, requireCas)
    /\ have = [p \in platform.prims |-> Trusted(p)]
    /\ pass = 1 /\ section = 1

Derived == section > Len(generalize(have))

Include ==
    /\ ~Derived
    /\ have' = Included(have, generalize(have)[section])
    /\ section' = section + 1
    /\ UNCHANGED <<platform, pass>>

IncludeAgain ==
    /\ Derived /\ pass = 1 /\ platform.twice
    /\ pass' = 2 /\ section' = 1
    /\ UNCHANGED <<platform, have>>

OpsNext == Include \/ IncludeAgain

-----------------------------------------------------------------------------
\* Every primitive orders what the barrier in its name says.
KeepsOrder == \A p \in DOMAIN have : Promise(p[2], p[3]) \subseteq have[p]

\* "We observe that this converges after a small fixed number of iterations"
\* (atomic_ops.h): after the passes a platform gets, no rule defines anything
\* more.
Converges ==
    pass >= 1 /\ (pass = 2 \/ ~platform.twice) /\ Derived =>
      \A rules \in ToSet(generalize(have)) : \A k \in DOMAIN rules :
        Applies(have, rules[k]) => rules[k].to \in DOMAIN have
=============================================================================
