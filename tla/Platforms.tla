------------------------------ MODULE Platforms ------------------------------
(***************************************************************************)
(* common/atomic_ops: which primitives a platform's header declares with   *)
(* AO_HAVE.  A primitive is <<size, operation, barrier>>; what its         *)
(* instructions do is external, and that they order memory accesses as its *)
(* barrier says is taken on trust.  A header is an operator on the macros  *)
(* that are defined, or on the primitives declared before it is included.  *)
(***************************************************************************)
Word  == {"word"}
Widths == {"word", "char", "short", "int"}

Prim(sizes, op, barriers) == sizes \X {op} \X barriers
Full(sizes, op)           == Prim(sizes, op, {"full"})
Nop(b)                    == <<"word", "nop", b>>
If(condition, prims)      == IF condition THEN prims ELSE {}

CAS  == "compare_and_swap"
CDSD == "compare_double_and_swap_double"
CSD  == "compare_and_swap_double"
DCAS == "double_compare_and_swap"

-----------------------------------------------------------------------------
\* Headers that others include.
atomic_load_store == Prim(Word, "load", {""}) \cup Prim(Word, "store", {""})

all_atomic_load_store == Prim(Widths, "load", {""}) \cup Prim(Widths, "store", {""})

\* The same, and the addresses are asserted to be aligned.
all_aligned_atomic_load_store == all_atomic_load_store

acquire_release_volatile ==
    Prim(Word, "load", {"acquire"}) \cup Prim(Word, "store", {"release"})

all_acquire_release_volatile ==
    Prim(Widths, "load", {"acquire"}) \cup Prim(Widths, "store", {"release"})

\* It declares AO_HAVE_NOP_READ, which nobody asks for.
read_ordered(have) ==
    have \cup UNION {Prim({s}, "load", {"read", "acquire"}) :
                       s \in {z \in Widths : <<z, "load", "">> \in have}}

\* The same with AO_HAVE_NOP_WRITE.
ordered_except_wr(have) ==
    read_ordered(have)
    \cup UNION {Prim({s}, "store", {"write", "release"}) :
                  s \in {z \in Widths : <<z, "store", "">> \in have}}

ordered(have) == ordered_except_wr(have) \cup {Nop("full")}

ao_t_is_int(have) ==
    LET shared == Prim(Word, CAS, {"full", "acquire", "release", "write", "read", ""})
                  \cup acquire_release_volatile \cup Full(Word, "fetch_and_add")
                  \cup Prim(Word, "fetch_and_add1", {"acquire", "release"})
                  \cup Prim(Word, "fetch_and_sub1", {"acquire", "release"})
    IN  have \cup {<<"int", p[2], p[3]>> : p \in have \cap shared}

\* With locks, on demand where there is no compare_and_swap; a store has to
\* take the lock as well.
emul_cas(have) ==
    (have \ Prim(Word, "store", {"", "write", "release", "full"}))
    \cup Full(Word, CAS) \cup If(<<"word", CDSD, "">> \notin have, Full(Word, CDSD))
    \cup Full(Word, "store")

common32_defs(def) ==
    Full(Word, "fetch_and_add") \cup Full(Word, "fetch_and_add1")
    \cup Full(Word, "fetch_and_sub1")
    \cup If("AO_ASSUME_WINDOWS98" \in def, Full(Word, CAS))

-----------------------------------------------------------------------------
\* Headers of platforms.  ts: the size of a test-and-set location.
ordered_load_store == ordered(all_atomic_load_store)
x86_load_store     == ordered_except_wr(all_aligned_atomic_load_store)

gcc_x86(def) ==
    [ts |-> "char", dd |-> TRUE, prims |-> ao_t_is_int(x86_load_store
       \cup If("AO_USE_PENTIUM4_INSTRS" \in def, {Nop("full")})
       \cup Full(Widths \ {"int"}, "fetch_and_add") \cup Full(Word, "or")
       \cup Full(Word, "test_and_set") \cup Full(Word, CAS) \cup Full(Word, CDSD))]

gcc_x86_64(def) ==
    [ts |-> "char", dd |-> TRUE, prims |-> x86_load_store \cup {Nop("full")}
       \cup Full(Widths, "fetch_and_add") \cup Full(Word, "or") \cup Full(Word, "test_and_set")
       \cup Full(Word, CAS)
       \cup If(def \cap {"AO_CMPXCHG16B_AVAILABLE", "AO_WEAK_DOUBLE_CAS_EMULATION"} # {},
               Full(Word, CDSD))]

sunc_x86(def) ==
    [ts |-> "char", dd |-> TRUE, prims |-> ao_t_is_int(x86_load_store
       \cup If("AO_USE_PENTIUM4_INSTRS" \in def, {Nop("full")})
       \cup Full(Widths \ {"int"}, "fetch_and_add") \cup Full(Word, "or")
       \cup Full(Word, "test_and_set") \cup Full(Word, CAS))]

sunc_x86_64(def) == gcc_x86_64(def)

msftc_x86(def) ==
    [ts |-> "char", dd |-> TRUE, prims |-> ao_t_is_int(x86_load_store \cup common32_defs(def)
       \cup If("AO_USE_PENTIUM4_INSTRS" \in def, {Nop("full")})
       \cup Full(Word, "test_and_set")
       \cup If("AO_ASSUME_VISTA" \in def, Full(Word, CDSD) \cup Full(Word, DCAS)))]

msftc_x86_64(def) ==
    LET assembler == "AO_ASM_X64_AVAILABLE" \in def IN
    [ts |-> IF assembler THEN "char" ELSE "word", dd |-> TRUE,
     prims |-> x86_load_store \cup Full(Word, "fetch_and_add") \cup Full(Word, "fetch_and_add1")
       \cup Full(Word, "fetch_and_sub1") \cup Full(Word, CAS)
       \cup If(assembler, {Nop("full")} \cup Full(Word, "test_and_set"))
       \cup If("AO_CMPXCHG16B_AVAILABLE" \in def, Full(Word, CDSD))]

\* In a long of 32 bits, an int has the primitives of a word.
ia64_atomics(sizes) ==
    {Nop("full")} \cup Prim(sizes, "fetch_and_add1", {"acquire", "release"})
    \cup Prim(sizes, "fetch_and_sub1", {"acquire", "release"})

ia64_load_store == all_atomic_load_store \cup all_acquire_release_volatile

gcc_ia64(def) ==
    LET own(sizes) == ia64_load_store \cup ia64_atomics(sizes)
                      \cup Prim(sizes \cup {"char", "short"}, CAS, {"acquire", "release"}) IN
    [ts |-> "char", dd |-> TRUE,
     prims |-> IF "_ILP32" \in def THEN ao_t_is_int(own(Word)) ELSE own({"word", "int"})]

icc_ia64(def) ==
    [ts |-> "char", dd |-> TRUE, prims |-> ia64_load_store \cup ia64_atomics(Word)
       \cup Prim(Widths, CAS, {"acquire", "release"})]

hpc_ia64(def) ==
    LET own == ia64_load_store \cup ia64_atomics(Word)
               \cup Prim(Widths \ {"int"}, CAS, {"acquire", "release"}) IN
    [ts |-> "char", dd |-> TRUE,
     prims |-> IF "__LP64__" \in def THEN own ELSE ao_t_is_int(own)]

\* A location is a struct that test_and_set clears.
gcc_hppa(def) ==
    [ts |-> "struct", dd |-> TRUE, prims |-> ordered_load_store \cup Full(Word, "test_and_set")]

hpc_hppa(def) ==
    [ts |-> "struct", dd |-> TRUE,
     prims |-> ordered(atomic_load_store) \cup Full(Word, "test_and_set")]

gcc_alpha(def) ==
    [ts |-> "word", dd |-> FALSE,
     prims |-> atomic_load_store \cup {Nop("full"), Nop("write")} \cup Prim(Word, CAS, {""})]

\* ordered_except_wr comes too early to find a load or a store.
gcc_s390(def) ==
    [ts |-> "word", dd |-> TRUE,
     prims |-> ordered_except_wr({}) \cup all_aligned_atomic_load_store \cup Full(Word, CAS)]

gcc_sparc(def) ==
    [ts |-> "char", dd |-> TRUE,
     prims |-> ordered_except_wr(all_atomic_load_store) \cup Full(Word, "test_and_set")
       \cup If("AO_NO_SPARC_V9" \notin def, Full(Word, CAS))]

sunc_sparc(def) == gcc_sparc({"AO_NO_SPARC_V9"})

gcc_m68k(def) ==
    [ts |-> "char", dd |-> TRUE, prims |-> ao_t_is_int(ordered(all_aligned_atomic_load_store)
       \cup Full(Word, "test_and_set") \cup Full(Word, CAS))]

\* store_release is defined; what is declared instead is load_acquire, twice.
gcc_powerpc(def) ==
    LET plain == {"", "acquire", "release", "full"}
        own   == all_aligned_atomic_load_store \cup {Nop("full"), Nop("read"), Nop("write")}
                 \cup Prim(Word, "load", {"acquire"}) \cup Prim(Word, "test_and_set", plain)
                 \cup Prim(Word, CAS, plain) \cup Prim(Word, "fetch_and_add", plain) IN
    [ts |-> "word", dd |-> TRUE,
     prims |-> IF "__powerpc64__" \in def THEN own ELSE ao_t_is_int(own)]

\* The same slip, and no nop_full but what test_and_set_full gives.
ibmc_powerpc(def) ==
    LET barriers == {"acquire", "release", "full"} IN
    [ts |-> "none", dd |-> TRUE,
     prims |-> all_aligned_atomic_load_store \cup {Nop("read"), Nop("write")}
       \cup Prim(Word, "load", {"acquire"}) \cup Prim(Word, "test_and_set", barriers)
       \cup Prim(Word, CAS, barriers)]

arm_v6 ==
    {Nop("full")} \cup atomic_load_store
    \cup Prim(Word, "test_and_set", {""}) \cup Prim(Word, "fetch_and_add", {""})
    \cup Prim(Word, "fetch_and_add1", {""}) \cup Prim(Word, "fetch_and_sub1", {""})
    \cup Prim(Word, CAS, {""}) \cup Prim(Word, CDSD, {""})

\* read_ordered comes too early here as well.
gcc_arm(def) ==
    [ts |-> "word", dd |-> TRUE,
     prims |-> read_ordered({})
       \cup IF "__ARM_ARCH_7__" \in def THEN arm_v6
            ELSE all_atomic_load_store \cup Full(Word, "test_and_set")]

armcc_arm_v6(def) == [ts |-> "word", dd |-> TRUE, prims |-> read_ordered({}) \cup arm_v6]

msftc_arm(def) ==
    [ts |-> "word", dd |-> TRUE,
     prims |-> read_ordered({}) \cup common32_defs({"AO_ASSUME_WINDOWS98"})
       \cup IF "_M_ARM >= 6" \in def
            THEN If("AO_UNIPROCESSOR" \in def, {Nop("full")})
                 \cup Prim(Word, "load", {""}) \cup Full(Word, "store")
            ELSE all_atomic_load_store]

gcc_cris(def) ==
    [ts |-> "word", dd |-> TRUE, prims |-> ordered_load_store \cup Full(Word, "test_and_set")]

gcc_mips(def) ==
    [ts |-> "word", dd |-> FALSE,
     prims |-> ao_t_is_int(all_aligned_atomic_load_store \cup acquire_release_volatile
       \cup {Nop("full")} \cup Prim(Word, CAS, {"", "acquire", "release", "full"}))]

gcc_sh(def) ==
    [ts |-> "char", dd |-> TRUE, prims |-> ordered_load_store \cup Full(Word, "test_and_set")]

gcc_avr32(def) ==
    [ts |-> "word", dd |-> TRUE,
     prims |-> ordered_load_store \cup Full(Word, "test_and_set") \cup Full(Word, CAS)]

\* Every operation takes a lock.
generic_pthread(def) ==
    [ts |-> "word", dd |-> TRUE,
     prims |-> {Nop("full")} \cup Full(Widths, "load") \cup Full(Widths, "store")
       \cup Full(Word, "test_and_set") \cup Full(Widths, "fetch_and_add") \cup Full(Word, "or")
       \cup Full(Word, CAS) \cup Full(Word, CDSD) \cup Full(Word, CSD)]

-----------------------------------------------------------------------------
\* The macros a platform's header asks about.
Options ==
    LET p4 == {"AO_USE_PENTIUM4_INSTRS"}
        double == {"AO_CMPXCHG16B_AVAILABLE", "AO_WEAK_DOUBLE_CAS_EMULATION"} IN
    [gcc_x86 |-> p4, gcc_x86_64 |-> double, sunc_x86 |-> p4, sunc_x86_64 |-> double,
     msftc_x86 |-> p4 \cup {"AO_ASSUME_WINDOWS98", "AO_ASSUME_VISTA"},
     msftc_x86_64 |-> {"AO_ASM_X64_AVAILABLE", "AO_CMPXCHG16B_AVAILABLE"},
     gcc_ia64 |-> {"_ILP32"}, icc_ia64 |-> {}, hpc_ia64 |-> {"__LP64__"},
     gcc_hppa |-> {}, hpc_hppa |-> {}, gcc_alpha |-> {}, gcc_s390 |-> {},
     gcc_sparc |-> {"AO_NO_SPARC_V9"}, sunc_sparc |-> {}, gcc_m68k |-> {},
     gcc_powerpc |-> {"__powerpc64__"}, ibmc_powerpc |-> {}, gcc_arm |-> {"__ARM_ARCH_7__"},
     armcc_arm_v6 |-> {}, msftc_arm |-> {"_M_ARM >= 6", "AO_UNIPROCESSOR"}, gcc_cris |-> {},
     gcc_mips |-> {}, gcc_sh |-> {}, gcc_avr32 |-> {}, generic_pthread |-> {}]

Header(def) ==
    [gcc_x86 |-> gcc_x86(def), gcc_x86_64 |-> gcc_x86_64(def), sunc_x86 |-> sunc_x86(def),
     sunc_x86_64 |-> sunc_x86_64(def), msftc_x86 |-> msftc_x86(def),
     msftc_x86_64 |-> msftc_x86_64(def), gcc_ia64 |-> gcc_ia64(def), icc_ia64 |-> icc_ia64(def),
     hpc_ia64 |-> hpc_ia64(def), gcc_hppa |-> gcc_hppa(def), hpc_hppa |-> hpc_hppa(def),
     gcc_alpha |-> gcc_alpha(def), gcc_s390 |-> gcc_s390(def), gcc_sparc |-> gcc_sparc(def),
     sunc_sparc |-> sunc_sparc(def), gcc_m68k |-> gcc_m68k(def), gcc_powerpc |-> gcc_powerpc(def),
     ibmc_powerpc |-> ibmc_powerpc(def), gcc_arm |-> gcc_arm(def),
     armcc_arm_v6 |-> armcc_arm_v6(def), msftc_arm |-> msftc_arm(def), gcc_cris |-> gcc_cris(def),
     gcc_mips |-> gcc_mips(def), gcc_sh |-> gcc_sh(def), gcc_avr32 |-> gcc_avr32(def),
     generic_pthread |-> generic_pthread(def)]

\* What atomic_ops.h makes of a header: emulation where it is asked for, and
\* a second pass where one is known not to be enough.
CanEmulate == {"gcc_hppa", "hpc_hppa", "gcc_sparc", "sunc_sparc", "gcc_arm", "gcc_sh"}

GeneralizeTwice ==
    {"gcc_ia64", "icc_ia64", "hpc_ia64", "gcc_alpha", "gcc_cris", "ibmc_powerpc",
     "armcc_arm_v6", "msftc_arm"}

NoCas(prims) == {<<"word", CAS, b>> : b \in {"", "full", "acquire"}} \cap prims = {}

\* Elsewhere the compiler stops with an error.
Implemented(name, def, requireCas) ==
    requireCas => ~NoCas(Header(def)[name].prims) \/ name \in CanEmulate

Emulated(name, def, requireCas) ==
    LET prims == Header(def)[name].prims IN
    IF requireCas /\ NoCas(prims) THEN emul_cas(prims) ELSE prims

\* Mutant: platforms that can emulate compare_and_swap get one pass.
PlatformOnce(name, def, requireCas) ==
    [ts |-> Header(def)[name].ts, dd |-> Header(def)[name].dd,
     prims |-> Emulated(name, def, requireCas), twice |-> name \in GeneralizeTwice]

Platform(name, def, requireCas) ==
    LET prims == Emulated(name, def, requireCas) IN
    [ts |-> Header(def)[name].ts, dd |-> Header(def)[name].dd, prims |-> prims,
     twice |-> \/ name \in GeneralizeTwice
               \/ name \in CanEmulate /\ <<"word", CAS, "full">> \notin prims]
=============================================================================
