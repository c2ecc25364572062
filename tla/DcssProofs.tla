----------------------------- MODULE DcssProofs -----------------------------
(***************************************************************************)
(* Double-compare-single-swap is linearizable, and leaves no pointer to a  *)
(* descriptor behind, for any threads, words and programs in which the     *)
(* words it compares only are those that are written directly.             *)
(***************************************************************************)
EXTENDS Multiword, TLAPS, FiniteSetTheorems, WellFoundedInduction

\* The words that are written directly.
Direct == CHOOSE direct \in SUBSET Addresses :
             /\ Nothing \notin DcssCalls(direct)
             /\ \A programs \in Programs["dcss"] : programs \in [Threads -> Seq(DcssCalls(direct))]

Calls   == DcssCalls(Direct)
DcssOps == [do : {"dcss"}, addr1 : Direct, old1 : Plain,
            addr2 : Addresses \ Direct, old2 : Plain, new2 : Plain]

Memories == [Addresses -> Plain]

\* The atomic object of Clients is that of Multiword.
IsMultiword ==
    \A op \in Calls, m \in Memories :
       /\ op.do = "dcss"  => Apply(op, m) = {DcssEffect(op, m)}
       /\ op.do = "store" => Apply(op, m) = {<<[m EXCEPT ![op.addr] = op.val], <<"stored">>>>}
       /\ op.do = "read"  => Apply(op, m) = {<<m, <<"value", m[op.addr]>>>>}

\* Any atomic object that answers these calls as MultiwordApply does is one.
LEMMA MultiwordIs ==
    ASSUME \A op \in Calls, m \in Memories : Apply(op, m) = MultiwordApply(op, m)
    PROVE  IsMultiword
<1> SUFFICES ASSUME NEW op \in Calls, NEW m \in Memories
             PROVE  /\ op.do = "dcss"  => MultiwordApply(op, m) = {DcssEffect(op, m)}
                    /\ op.do = "store" => MultiwordApply(op, m)
                                            = {<<[m EXCEPT ![op.addr] = op.val], <<"stored">>>>}
                    /\ op.do = "read"  => MultiwordApply(op, m) = {<<m, <<"value", m[op.addr]>>>>}
    BY DEF IsMultiword
<1>1. ASSUME op.do = "dcss" PROVE MultiwordApply(op, m) = {DcssEffect(op, m)}
    BY <1>1 DEF MultiwordApply
<1>2. ASSUME op.do = "store"
      PROVE  MultiwordApply(op, m) = {<<[m EXCEPT ![op.addr] = op.val], <<"stored">>>>}
    BY <1>2 DEF MultiwordApply
<1>3. ASSUME op.do = "read" PROVE MultiwordApply(op, m) = {<<m, <<"value", m[op.addr]>>>>}
    BY <1>3 DEF MultiwordApply
<1> QED BY <1>1, <1>2, <1>3

LEMMA DirectIs ==
    ASSUME "dcss" \in DOMAIN Programs
    PROVE  /\ Direct \subseteq Addresses /\ Threads \subseteq Tids /\ Nothing \notin Calls
           /\ \A programs \in Programs["dcss"] : programs \in [Threads -> Seq(Calls)]
BY DcssProgramsAssumption, Zenon DEF Direct, Calls

-----------------------------------------------------------------------------
(***************************************************************************)
(* What an atomic object may answer.                                       *)
(***************************************************************************)
Views == [state : Memories, got : [Threads -> DcssAnswers \cup {Nothing}]]

Doing == doing \in [Threads -> Calls \cup {Nothing}]

\* The effect of each kind of call, and its answer.
LEMMA Effects ==
    ASSUME IsMultiword, NEW op \in Calls, NEW m \in Memories
    PROVE  /\ op.do = "dcss" => op \in DcssOps /\ Apply(op, m) = {DcssEffect(op, m)}
           /\ op.do = "store" => /\ op.addr \in Direct /\ op.val \in Plain
                                 /\ Apply(op, m) = {<<[m EXCEPT ![op.addr] = op.val], <<"stored">>>>}
           /\ op.do = "read" => /\ op.addr \in Addresses
                                /\ Apply(op, m) = {<<m, <<"value", m[op.addr]>>>>}
           /\ op.do \in {"dcss", "store", "read"}
<1>1. op.do \in {"dcss", "store", "read"}
    BY DEF Calls, DcssCalls
<1>2. op.do = "dcss" => op \in DcssOps
    BY DEF Calls, DcssCalls, DcssOps
<1>3. op.do = "store" => op.addr \in Direct /\ op.val \in Plain
    BY DEF Calls, DcssCalls
<1>4. op.do = "read" => op.addr \in Addresses
    BY DEF Calls, DcssCalls
<1> QED BY <1>1, <1>2, <1>3, <1>4 DEF IsMultiword

LEMMA EffectType ==
    ASSUME "dcss" \in DOMAIN Programs, IsMultiword, NEW op \in Calls, NEW m \in Memories,
           NEW o \in Apply(op, m)
    PROVE  o = <<o[1], o[2]>> /\ o[1] \in Memories /\ o[2] \in DcssAnswers /\ o[2] # Nothing
<1>1. Nothing \notin DcssAnswers
    BY DcssProgramsAssumption
<1>2. CASE op.do = "dcss"
  <2>1. o = DcssEffect(op, m) /\ op \in DcssOps
      BY <1>2, Effects
  <2>2. /\ op.addr1 \in Addresses /\ op.addr2 \in Addresses
        /\ op.old1 \in Plain /\ op.old2 \in Plain /\ op.new2 \in Plain
      BY <2>1, DirectIs DEF DcssOps
  <2>3. [m EXCEPT ![op.addr2] = op.new2] \in Memories /\ m[op.addr2] \in Plain
      BY <2>2 DEF Memories
  <2>4. <<"failed_addr2", m[op.addr2]>> \in DcssAnswers
        /\ <<"success">> \in DcssAnswers /\ <<"failed_addr1">> \in DcssAnswers
      BY <2>3 DEF DcssAnswers
  <2> QED BY <1>1, <2>1, <2>3, <2>4 DEF DcssEffect
<1>3. CASE op.do = "store"
  <2>1. o = <<[m EXCEPT ![op.addr] = op.val], <<"stored">>>> /\ op.addr \in Direct /\ op.val \in Plain
      BY <1>3, Effects
  <2>2. [m EXCEPT ![op.addr] = op.val] \in Memories
      BY <2>1 DEF Memories
  <2>3. <<"stored">> \in DcssAnswers
      BY DEF DcssAnswers
  <2> QED BY <1>1, <2>1, <2>2, <2>3
<1>4. CASE op.do = "read"
  <2>1. o = <<m, <<"value", m[op.addr]>>>> /\ op.addr \in Addresses
      BY <1>4, Effects
  <2>2. <<"value", m[op.addr]>> \in DcssAnswers
      BY <2>1 DEF DcssAnswers, Memories
  <2> QED BY <1>1, <2>1, <2>2
<1> QED BY <1>2, <1>3, <1>4, Effects

LEMMA WithType ==
    ASSUME "dcss" \in DOMAIN Programs, IsMultiword, Doing, NEW v \in Views, NEW p \in Threads,
           doing[p] # Nothing, v.got[p] = Nothing, NEW w \in With(v, p)
    PROVE  /\ w \in Views /\ w.got[p] # Nothing
           /\ \A q \in Threads \ {p} : w.got[q] = v.got[q]
<1>1. doing[p] \in Calls /\ v.state \in Memories /\ v.got \in [Threads -> DcssAnswers \cup {Nothing}]
    BY DEF Doing, Views
<1>2. PICK o \in Apply(doing[p], v.state) : w = [v EXCEPT !.state = o[1], !.got[p] = o[2]]
    BY Zenon DEF With
<1>3. o[1] \in Memories /\ o[2] \in DcssAnswers /\ o[2] # Nothing
    BY <1>1, <1>2, EffectType
<1>4. w.state = o[1] /\ w.got = [v.got EXCEPT ![p] = o[2]] /\ w \in Views
    BY <1>1, <1>2, <1>3 DEF Views
<1> QED BY <1>1, <1>3, <1>4

-----------------------------------------------------------------------------
(***************************************************************************)
(* Explained is the least set that contains the views and what follows     *)
(* when a call takes effect.                                               *)
(***************************************************************************)
LEMMA LeastNatural ==
    ASSUME NEW T \in SUBSET Nat, T # {}
    PROVE  \E i \in T : \A j \in T : ~(j < i)
<1>1. PICK I : I = T
    OBVIOUS
<1>2. I \subseteq Nat /\ I # {}
    BY <1>1
<1>3. \E i \in I : \A j \in I : ~(<<j, i>> \in OpToRel(<, Nat))
    BY <1>2, WFMin, NatLessThanWellFounded, Zenon
<1> QED BY <1>1, <1>2, <1>3 DEF OpToRel

\* What holds at 0, and passes from each number to the next, holds up to N.
LEMMA UpTo ==
    ASSUME NEW N \in Nat, NEW S, 0 \in S, \A k \in 1 .. N : k - 1 \in S => k \in S
    PROVE  N \in S
<1> SUFFICES ASSUME N \notin S PROVE FALSE
    OBVIOUS
<1>1. PICK T : T = {k \in 0 .. N : k \notin S}
    OBVIOUS
<1>2. T \subseteq Nat /\ T # {}
    BY <1>1
<1>4. PICK i \in T : \A j \in T : ~(j < i)
    BY <1>2, LeastNatural
<1>5. i \in 1 .. N
    BY <1>1
<1>6. i - 1 \notin T
    BY <1>4, <1>5
<1>7. i - 1 \in S
    BY <1>1, <1>5, <1>6
<1> QED BY <1>1, <1>5, <1>7

LEMMA ThreadsAre == IsFiniteSet(Threads) /\ Cardinality(Threads) \in Nat
<1>1. Cardinality(Threads) \in Nat /\ Threads = 1 .. Cardinality(Threads)
    BY RluAssumption
<1>2. IsFiniteSet(1 .. Cardinality(Threads))
    BY <1>1, FS_Interval
<1> QED BY <1>1, <1>2

Levels(U, k) ==
    U = [n \in 0 .. k |-> IF n = 0 THEN views ELSE U[n - 1] \cup TakesEffect(U[n - 1])]

LEMMA SomeLevels ==
    ASSUME NEW N \in Nat PROVE \E U : Levels(U, N)
<1>1. PICK S : S = {k \in Nat : \E U : Levels(U, k)}
    OBVIOUS
<1>2. 0 \in S
  <2>1. PICK U : U = [n \in 0 .. 0 |-> views]
      OBVIOUS
  <2>2. U = [n \in 0 .. 0 |-> IF n = 0 THEN views ELSE U[n - 1] \cup TakesEffect(U[n - 1])]
      BY <2>1
  <2> QED BY <1>1, <2>2 DEF Levels
<1>3. ASSUME NEW k \in 1 .. N, k - 1 \in S PROVE k \in S
  <2>1. PICK U : Levels(U, k - 1)
      BY <1>1, <1>3
  <2>2. PICK W : W = [n \in 0 .. k |-> IF n = k THEN U[k - 1] \cup TakesEffect(U[k - 1]) ELSE U[n]]
      OBVIOUS
  <2>3. ASSUME NEW n \in 0 .. k
        PROVE  W[n] = IF n = 0 THEN views ELSE W[n - 1] \cup TakesEffect(W[n - 1])
    <3>1. CASE n = 0
        BY <2>1, <2>2, <3>1 DEF Levels
    <3>2. CASE n = k
      <4>1. W[n] = U[k - 1] \cup TakesEffect(U[k - 1]) /\ W[k - 1] = U[k - 1] /\ n # 0
          BY <2>2, <3>2
      <4> QED BY <4>1, <3>2
    <3>3. CASE n # 0 /\ n # k
      <4>1. n \in 0 .. k - 1 /\ n - 1 \in 0 .. k
          BY <3>3
      <4>2. W[n] = U[n] /\ W[n - 1] = U[n - 1]
          BY <2>2, <3>3, <4>1
      <4>3. U[n] = U[n - 1] \cup TakesEffect(U[n - 1])
          BY <2>1, <3>3, <4>1 DEF Levels
      <4> QED BY <3>3, <4>2, <4>3
    <3> QED BY <3>1, <3>2, <3>3
  <2>4. W = [n \in 0 .. k |-> W[n]]
      BY <2>2
  <2>5. W = [n \in 0 .. k |-> IF n = 0 THEN views ELSE W[n - 1] \cup TakesEffect(W[n - 1])]
      BY <2>3, <2>4, Zenon
  <2>6. Levels(W, k)
      BY <2>5, Zenon DEF Levels
  <2> QED BY <1>1, <2>6
<1>4. N \in S
    BY <1>2, <1>3, UpTo
<1> QED BY <1>1, <1>4

LEMMA ExplainedIs ==
    \E U : Levels(U, Cardinality(Threads)) /\ Explained = U[Cardinality(Threads)]
<1> DEFINE Solution == CHOOSE U : U = [n \in 0 .. Cardinality(Threads) |->
              IF n = 0 THEN views ELSE U[n - 1] \cup TakesEffect(U[n - 1])]
<1>1. \E U : U = [n \in 0 .. Cardinality(Threads) |->
              IF n = 0 THEN views ELSE U[n - 1] \cup TakesEffect(U[n - 1])]
    BY SomeLevels, ThreadsAre, Zenon DEF Levels
<1>2. Solution = [n \in 0 .. Cardinality(Threads) |->
              IF n = 0 THEN views ELSE Solution[n - 1] \cup TakesEffect(Solution[n - 1])]
    BY <1>1, Zenon
<1>3. Explained = Solution[Cardinality(Threads)]
    BY Zenon DEF Explained
<1> QED BY <1>2, <1>3, Zenon DEF Levels

LEMMA LevelsAre ==
    ASSUME NEW N \in Nat, NEW U, Levels(U, N)
    PROVE  U[0] = views /\ \A k \in 1 .. N : U[k] = U[k - 1] \cup TakesEffect(U[k - 1])
<1>1. \A n \in 0 .. N : U[n] = IF n = 0 THEN views ELSE U[n - 1] \cup TakesEffect(U[n - 1])
    BY Zenon DEF Levels
<1>2. U[0] = views
  <2>1. 0 \in 0 .. N
      OBVIOUS
  <2> QED BY <1>1, <2>1, Zenon
<1>3. ASSUME NEW k \in 1 .. N PROVE U[k] = U[k - 1] \cup TakesEffect(U[k - 1])
  <2>1. k \in 0 .. N /\ k # 0
      OBVIOUS
  <2> QED BY <1>1, <2>1, Zenon
<1> QED BY <1>2, <1>3

May(v, p) == doing[p] # Nothing /\ v.got[p] = Nothing

LEMMA TakesEffectIs ==
    ASSUME NEW V, NEW w
    PROVE  w \in TakesEffect(V) <=> \E v \in V, p \in Threads : May(v, p) /\ w \in With(v, p)
<1>1. ASSUME NEW v \in V, NEW p \in Threads, May(v, p), w \in With(v, p) PROVE w \in TakesEffect(V)
  <2>1. PICK x : x = <<v, p>>
      OBVIOUS
  <2>2. x \in V \X Threads /\ x[1] = v /\ x[2] = p
      BY <2>1
  <2> QED BY <1>1, <2>2, Zenon DEF TakesEffect, May
<1>2. ASSUME w \in TakesEffect(V)
      PROVE  \E v \in V, p \in Threads : May(v, p) /\ w \in With(v, p)
  <2>1. PICK x \in V \X Threads : doing[x[2]] # Nothing /\ x[1].got[x[2]] = Nothing /\ w \in With(x[1], x[2])
      BY <1>2, Zenon DEF TakesEffect
  <2>2. x[1] \in V /\ x[2] \in Threads
      OBVIOUS
  <2> QED BY <2>1, <2>2, Zenon DEF May
<1> QED BY <1>1, <1>2

LEMMA ViewsExplained == views \subseteq Explained
<1> PICK N \in Nat : N = Cardinality(Threads)
    BY ThreadsAre
<1>1. PICK U : Levels(U, N) /\ Explained = U[N]
    BY ExplainedIs
<1>2. PICK S : S = {k \in 0 .. N : views \subseteq U[k]}
    OBVIOUS
<1>3. 0 \in S /\ \A k \in 1 .. N : k - 1 \in S => k \in S
    BY <1>1, <1>2, LevelsAre
<1>4. N \in S
    BY <1>3, UpTo
<1> QED BY <1>1, <1>2, <1>4

LEMMA ExplainedLeast ==
    ASSUME NEW X, views \subseteq X,
           \A v \in X, p \in Threads : May(v, p) => With(v, p) \subseteq X
    PROVE  Explained \subseteq X
<1> PICK N \in Nat : N = Cardinality(Threads)
    BY ThreadsAre
<1>1. PICK U : Levels(U, N) /\ Explained = U[N]
    BY ExplainedIs
<1>2. PICK S : S = {k \in 0 .. N : U[k] \subseteq X}
    OBVIOUS
<1>3. 0 \in S
    BY <1>1, <1>2, LevelsAre
<1>4. ASSUME NEW k \in 1 .. N, k - 1 \in S PROVE k \in S
  <2>1. U[k - 1] \subseteq X /\ U[k] = U[k - 1] \cup TakesEffect(U[k - 1])
      BY <1>1, <1>2, <1>4, LevelsAre
  <2>2. TakesEffect(U[k - 1]) \subseteq X
      BY <2>1, TakesEffectIs
  <2> QED BY <1>2, <2>1, <2>2
<1>5. N \in S
    BY <1>3, <1>4, UpTo
<1> QED BY <1>1, <1>2, <1>5

ObjectOK == "dcss" \in DOMAIN Programs /\ IsMultiword /\ Doing /\ views \subseteq Views

LEMMA ExplainedType ==
    ASSUME ObjectOK PROVE Explained \subseteq Views
<1>1. \A v \in Views, p \in Threads : May(v, p) => With(v, p) \subseteq Views
    BY WithType DEF ObjectOK, May
<1> QED BY <1>1, ExplainedLeast DEF ObjectOK

\* Each round of TakesEffect gives another thread its answer.
LEMMA ExplainedClosed ==
    ASSUME ObjectOK, NEW v \in Explained, NEW p \in Threads, May(v, p)
    PROVE  With(v, p) \subseteq Explained
<1> DEFINE Given(x) == {q \in Threads : x.got[q] # Nothing}
<1> PICK N \in Nat : N = Cardinality(Threads)
    BY ThreadsAre
<1>1. PICK U : Levels(U, N) /\ Explained = U[N]
    BY ExplainedIs
<1>2. \A k \in 1 .. N : U[k] = U[k - 1] \cup TakesEffect(U[k - 1])
    BY <1>1, LevelsAre
<1>3. \A x : IsFiniteSet(Given(x)) /\ Cardinality(Given(x)) \in Nat
    BY ThreadsAre, FS_Subset, FS_CardinalityType
<1>4. PICK T : T = {k \in 0 .. N : U[k] \subseteq Views}
    OBVIOUS
<1>5. \A k \in 0 .. N : U[k] \subseteq Views
  <2> SUFFICES ASSUME NEW k \in 0 .. N PROVE k \in T
      BY <1>4
  <2>1. 0 \in T
      BY <1>1, <1>4, LevelsAre DEF ObjectOK
  <2>2. ASSUME NEW j \in 1 .. k, j - 1 \in T PROVE j \in T
    <3>1. U[j - 1] \subseteq Views /\ U[j] = U[j - 1] \cup TakesEffect(U[j - 1])
        BY <1>2, <1>4, <2>2
    <3>2. TakesEffect(U[j - 1]) \subseteq Views
        BY <3>1, TakesEffectIs, WithType DEF ObjectOK, May
    <3> QED BY <1>4, <3>1, <3>2
  <2> QED BY <2>1, <2>2, UpTo
<1>6. PICK S : S = {k \in 0 .. N : \A x \in U[k] : k = 0 \/ x \in U[k - 1] \/ Cardinality(Given(x)) >= k}
    OBVIOUS
<1>7. 0 \in S
    BY <1>6
<1>8. ASSUME NEW k \in 1 .. N, k - 1 \in S PROVE k \in S
  <2> SUFFICES ASSUME NEW x \in U[k], x \notin U[k - 1] PROVE Cardinality(Given(x)) >= k
      BY <1>6
  <2>1. x \in TakesEffect(U[k - 1])
      BY <1>2
  <2>2. PICK y \in U[k - 1], q \in Threads : May(y, q) /\ x \in With(y, q)
      BY <2>1, TakesEffectIs
  <2>3. y \in Views /\ x.got[q] # Nothing /\ y.got[q] = Nothing
        /\ \A r \in Threads \ {q} : x.got[r] = y.got[r]
      BY <1>5, <2>2, WithType DEF ObjectOK, May
  <2>4. Given(x) = Given(y) \cup {q} /\ q \notin Given(y)
      BY <2>3
  <2>5. Cardinality(Given(x)) = Cardinality(Given(y)) + 1
    <3> PICK G : G = Given(y)
        OBVIOUS
    <3>1. IsFiniteSet(G) /\ q \notin G /\ Given(x) = G \cup {q}
        BY <1>3, <2>4
    <3>2. Cardinality(G \cup {q}) = Cardinality(G) + 1
        BY <3>1, FS_AddElement
    <3> QED BY <3>1, <3>2
  <2>6. k - 1 = 0 \/ Cardinality(Given(y)) >= k - 1
    <3> SUFFICES ASSUME k - 1 # 0 PROVE Cardinality(Given(y)) >= k - 1
        OBVIOUS
    <3>1. y \notin U[k - 1 - 1]
      <4> SUFFICES ASSUME y \in U[k - 1 - 1] PROVE FALSE
          OBVIOUS
      <4>1. x \in TakesEffect(U[k - 1 - 1])
          BY <2>2, TakesEffectIs
      <4>2. k - 1 \in 1 .. N
          OBVIOUS
      <4>3. U[k - 1] = U[k - 1 - 1] \cup TakesEffect(U[k - 1 - 1])
          BY <1>2, <4>2
      <4> QED BY <4>1, <4>3
    <3> QED BY <1>6, <1>8, <3>1
  <2>7. Cardinality(Given(y)) \in Nat
      BY <1>3
  <2> HIDE DEF Given
  <2> QED BY <2>5, <2>6, <2>7
<1>9. N \in S
    BY <1>7, <1>8, UpTo
<1>10. Given(v) \subseteq Threads \ {p}
    BY DEF May
<1>11. Cardinality(Given(v)) < N /\ N # 0
  <2>1. IsFiniteSet(Threads \ {p}) /\ Cardinality(Threads \ {p}) = N - 1
      BY ThreadsAre, FS_RemoveElement
  <2>2. Cardinality(Given(v)) <= Cardinality(Threads \ {p})
      BY <1>10, <2>1, FS_Subset
  <2>3. Cardinality(Threads \ {p}) \in Nat
      BY <2>1, FS_CardinalityType
  <2> QED BY <1>3, <2>1, <2>2, <2>3
<1>12. v \in U[N - 1]
  <2>1. v \in U[N] /\ N \in S
      BY <1>1, <1>9
  <2>2. N = 0 \/ v \in U[N - 1] \/ Cardinality(Given(v)) >= N
      BY <1>6, <2>1
  <2>3. Cardinality(Given(v)) \in Nat
      BY <1>3
  <2> HIDE DEF Given
  <2> QED BY <1>11, <2>2, <2>3
<1>13. With(v, p) \subseteq TakesEffect(U[N - 1])
    BY <1>12, TakesEffectIs
<1> QED BY <1>1, <1>2, <1>11, <1>13

ClosedUnder(X) == \A v \in X, p \in Threads : May(v, p) => With(v, p) \subseteq X

LEMMA ExplainedNext ==
    /\ (views \subseteq Explained)'
    /\ (ObjectOK => ClosedUnder(Explained))'
<1>1. ObjectOK => ClosedUnder(Explained)
    BY ExplainedClosed DEF ClosedUnder
<1> QED BY <1>1, ViewsExplained, PTL

\* Calls that begin add to what is explained.
LEMMA ExplainedGrows ==
    ASSUME ObjectOK, ObjectOK', views \subseteq views',
           \A p \in Threads : doing[p] # Nothing => doing'[p] = doing[p]
    PROVE  Explained \subseteq Explained'
<1>1. views' \subseteq Explained'
    BY ExplainedNext
<1>2. ASSUME NEW v \in Explained', NEW p \in Threads, May(v, p)
      PROVE  With(v, p) \subseteq Explained'
  <2>1. doing'[p] = doing[p] /\ doing[p] # Nothing /\ v.got[p] = Nothing
      BY <1>2 DEF May
  <2>2. With(v, p)' = With(v, p)
      BY <2>1 DEF With
  <2>3. ClosedUnder(Explained)'
      BY ExplainedNext
  <2>4. May(v, p)'
      BY <2>1 DEF May
  <2> QED BY <2>2, <2>3, <2>4 DEF ClosedUnder
<1> QED BY <1>1, <1>2, ExplainedLeast

-----------------------------------------------------------------------------
(***************************************************************************)
(* The frames of the threads, the tags they hold, and the words.           *)
(***************************************************************************)
States     == {"undecided", "succeeded", "failed"}
Decided    == {"succeeded", "failed"}
HelpLabels == {"dcss_help", "dcss_addr1", "dcss_look", "dcss_decide", "dcss_finish"}

NewFrames   == [pc : {"dcss_new", "dcss_fields", "dcss"}, op : DcssOps]
ReadFrames  == [pc : {"dcss_read"}, addr : Addresses]
StoreFrames == [pc : {"store"}, addr : Direct, val : Plain]
HelpFrames  == [pc : HelpLabels, tag : {"dcss"} \X Threads \X Nat, own : BOOLEAN,
                f : DcssOps \cup {Nothing}, state : Decided]

Descriptors == [seq : Nat, state : States, f : DcssOps \cup {Nothing}]

D(t)     == desc["dcss"][t]
TagOf(t) == <<"dcss", t, D(t).seq>>

MemoryOK ==
    /\ word = [a \in Addresses |-> word[a]]
    /\ desc \in [{"dcss", "kcas", "rdcss"} -> [Tids -> Descriptors]]
    /\ tid = [p \in Threads |-> p]
    /\ todo \in [Threads -> Seq(Calls)]
    /\ stack = [p \in Threads |-> stack[p]]

\* The thread has put its descriptor into a word, and has not answered yet.
Owns(p) == stack[p] # << >> /\ Top(p).pc \in HelpLabels /\ Top(p).own

\* The frame of a call that has not put a descriptor into a word.
CallFrame(p, b) ==
    \/ /\ b \in NewFrames /\ doing[p] = b.op
       /\ b.pc \in {"dcss_fields", "dcss"} => D(p).state = "undecided"
       /\ b.pc = "dcss" => D(p).f = b.op
    \/ b \in ReadFrames /\ doing[p] \in Calls /\ doing[p].do = "read" /\ doing[p].addr = b.addr
    \/ b \in StoreFrames /\ doing[p] = [do |-> "store", addr |-> b.addr, val |-> b.val]

OwnFrame(p, h) ==
    /\ h \in HelpFrames /\ h.own /\ h.pc # "dcss_help"
    /\ h.tag = TagOf(p) /\ h.f = doing[p] /\ D(p).f = doing[p] /\ doing[p] \in DcssOps
    /\ D(p).state = "undecided" => word[doing[p].addr2] = TagOf(p)

StackOK(p) ==
    \/ stack[p] = << >> /\ doing[p] = Nothing
    \/ stack[p] = <<stack[p][1]>> /\ CallFrame(p, stack[p][1])
    \/ stack[p] = <<stack[p][1]>> /\ OwnFrame(p, stack[p][1])
    \/ /\ stack[p] = <<stack[p][1], stack[p][2]>>
       /\ stack[p][1] \in HelpFrames /\ ~stack[p][1].own
       /\ CallFrame(p, stack[p][2]) /\ stack[p][2].pc \in {"dcss", "dcss_read"}

\* What a helper knows of the operation it helps with: nothing, once the
\* descriptor is used for the next one.
HelpOK(h) ==
    LET t == h.tag[2] IN
    /\ h.pc # "dcss_help" => h.f \in DcssOps
    /\ h.tag[3] <= D(t).seq
    /\ h.tag = TagOf(t) =>
       /\ D(t).f \in DcssOps
       /\ D(t).state = "undecided" => Owns(t)
       /\ h.pc # "dcss_help" => h.f = D(t).f
       /\ h.pc = "dcss_finish" => h.state = D(t).state

WordOK(a) ==
    \/ a \notin Direct /\ \E t \in Threads : Owns(t) /\ word[a] = TagOf(t) /\ doing[t].addr2 = a
    \/ word[a] \in Plain

FramesOK ==
    /\ MemoryOK
    /\ \A p \in Threads : StackOK(p)
    /\ \A p \in Threads : (stack[p] # << >> /\ Top(p).pc \in HelpLabels) => HelpOK(Top(p))
    /\ \A a \in Addresses : WordOK(a)

-----------------------------------------------------------------------------
(***************************************************************************)
(* An operation takes effect when the helper whose state the descriptor    *)
(* gets has read addr1: until the descriptor has its state, nobody knows   *)
(* which one that is.  An outcome says it for each operation, or that it   *)
(* has not taken effect.                                                   *)
(***************************************************************************)
Outcomes == [Threads -> States]

Proposed(t, s) ==
    \E q \in Threads : /\ stack[q] # << >> /\ Top(q).pc \in {"dcss_look", "dcss_decide"}
                       /\ Top(q).tag = TagOf(t) /\ Top(q).state = s

Allowed(x) ==
    \A t \in Threads :
       IF ~Owns(t) THEN x[t] = "undecided"
       ELSE IF D(t).state = "undecided" THEN x[t] = "undecided" \/ Proposed(t, x[t])
       ELSE x[t] = D(t).state

ValueOf(a, x) ==
    IF ~IsTagged(word[a]) THEN word[a]
    ELSE IF x[word[a][2]] = "succeeded" THEN doing[word[a][2]].new2 ELSE doing[word[a][2]].old2

GotOf(s) == CASE s = "undecided" -> Nothing [] s = "succeeded" -> <<"success">> [] s = "failed" -> <<"failed_addr1">>

View(x) == [state |-> [a \in Addresses |-> ValueOf(a, x)], got |-> [t \in Threads |-> GotOf(x[t])]]

OutcomesOK == \A x \in Outcomes : Allowed(x) => View(x) \in Explained

DcssInv == ObjectOK /\ FramesOK /\ OutcomesOK

-----------------------------------------------------------------------------
(***************************************************************************)
(* Stacks.                                                                 *)
(***************************************************************************)
StackChanges(p, s) == stack' = [stack EXCEPT ![p] = s]

LEMMA PairIn ==
    ASSUME NEW S, NEW a \in S, NEW b \in S
    PROVE  <<a>> \o <<b>> = <<a, b>>
<1> DEFINE s == <<a>> \o <<b>>
<1>1. s \in Seq(S) /\ s[1] = a /\ s[2] = b /\ Len(s) = 2
    OBVIOUS
<1>2. s = [i \in 1 .. 2 |-> s[i]]
    BY <1>1
<1>3. <<a, b>> = [i \in 1 .. 2 |-> <<a, b>>[i]]
    OBVIOUS
<1>4. \A i \in 1 .. 2 : s[i] = <<a, b>>[i]
    BY <1>1
<1> QED BY <1>2, <1>3, <1>4

LEMMA Pair ==
    ASSUME NEW a, NEW b
    PROVE  <<a>> \o <<b>> = <<a, b>>
<1>1. a \in {a, b} /\ b \in {a, b}
    OBVIOUS
<1> QED BY <1>1, PairIn

LEMMA PutOne ==
    ASSUME NEW p \in Threads, NEW b, stack[p] = <<b>>, NEW f, Put(p, f)
    PROVE  StackChanges(p, <<f>>)
<1>1. Tail(stack[p]) = << >>
    OBVIOUS
<1>2. <<f>> \o << >> = <<f>>
    OBVIOUS
<1> QED BY <1>1, <1>2 DEF Put, StackChanges

LEMMA PutTwo ==
    ASSUME NEW p \in Threads, NEW h, NEW b, stack[p] = <<h, b>>, NEW f, Put(p, f)
    PROVE  StackChanges(p, <<f, b>>)
<1>1. Tail(stack[p]) = <<b>>
    OBVIOUS
<1>2. <<f>> \o <<b>> = <<f, b>>
    BY Pair
<1> QED BY <1>1, <1>2 DEF Put, StackChanges

LEMMA PopTwo ==
    ASSUME NEW p \in Threads, NEW h, NEW b, stack[p] = <<h, b>>, Pop(p)
    PROVE  StackChanges(p, <<b>>)
<1>1. Tail(stack[p]) = <<b>>
    OBVIOUS
<1> QED BY <1>1 DEF Pop, StackChanges

LEMMA InvokeOne ==
    ASSUME NEW p \in Threads, NEW b, stack[p] = <<b>>, NEW f, NEW g, Invoke(p, f, g)
    PROVE  StackChanges(p, <<g, f>>)
<1>1. Tail(stack[p]) = << >>
    OBVIOUS
<1>2. <<g, f>> \o << >> = <<g, f>>
  <2> PICK S : S = {g, f}
      OBVIOUS
  <2>1. <<g, f>> \in Seq(S)
      OBVIOUS
  <2> QED BY <2>1
<1> QED BY <1>1, <1>2 DEF Invoke, StackChanges

\* What a return from the innermost function does.
LEMMA ReturnOne ==
    ASSUME NEW p \in Threads, NEW b, stack[p] = <<b>>, NEW r, Return(p, r)
    PROVE  Answer(p, r) /\ StackChanges(p, << >>)
<1>1. Len(stack[p]) = 1
    OBVIOUS
<1> QED BY <1>1 DEF Return, Answer, StackChanges

LEMMA StackIs ==
    ASSUME MemoryOK, NEW p \in Threads, NEW s, StackChanges(p, s)
    PROVE  /\ stack' = [q \in Threads |-> stack'[q]]
           /\ stack'[p] = s /\ \A q \in Threads \ {p} : stack'[q] = stack[q]
BY DEF MemoryOK, StackChanges

\* The frame at the top, by where its code is.
LEMMA InNew ==
    ASSUME FramesOK, NEW p \in Threads, stack[p] # << >>,
           Top(p).pc \in {"dcss_new", "dcss_fields", "dcss"}
    PROVE  /\ stack[p] = <<Top(p)>> /\ Top(p) \in NewFrames /\ CallFrame(p, Top(p))
           /\ doing[p] = Top(p).op /\ doing[p] \in DcssOps /\ ~Owns(p)
<1>1. StackOK(p)
    BY DEF FramesOK
<1>2. CASE stack[p] = <<stack[p][1]>> /\ CallFrame(p, stack[p][1])
  <2>1. Top(p) = stack[p][1]
      BY <1>2 DEF Top
  <2> QED BY <1>2, <2>1 DEF CallFrame, NewFrames, ReadFrames, StoreFrames, Owns, HelpLabels
<1>3. CASE stack[p] = <<stack[p][1]>> /\ OwnFrame(p, stack[p][1])
  <2>1. Top(p) = stack[p][1]
      BY <1>3 DEF Top
  <2> QED BY <1>3, <2>1 DEF OwnFrame, HelpFrames, HelpLabels
<1>4. CASE stack[p] = <<stack[p][1], stack[p][2]>> /\ stack[p][1] \in HelpFrames
  <2>1. Top(p) = stack[p][1]
      BY <1>4 DEF Top
  <2> QED BY <1>4, <2>1 DEF HelpFrames, HelpLabels
<1> QED BY <1>1, <1>2, <1>3, <1>4 DEF StackOK

LEMMA InRead ==
    ASSUME FramesOK, NEW p \in Threads, stack[p] # << >>, Top(p).pc = "dcss_read"
    PROVE  /\ stack[p] = <<Top(p)>> /\ Top(p) \in ReadFrames /\ CallFrame(p, Top(p))
           /\ doing[p] \in Calls /\ doing[p].do = "read" /\ doing[p].addr = Top(p).addr /\ ~Owns(p)
<1>1. StackOK(p)
    BY DEF FramesOK
<1>2. CASE stack[p] = <<stack[p][1]>> /\ CallFrame(p, stack[p][1])
  <2>1. Top(p) = stack[p][1]
      BY <1>2 DEF Top
  <2> QED BY <1>2, <2>1 DEF CallFrame, NewFrames, ReadFrames, StoreFrames, Owns, HelpLabels
<1>3. CASE stack[p] = <<stack[p][1]>> /\ OwnFrame(p, stack[p][1])
  <2>1. Top(p) = stack[p][1]
      BY <1>3 DEF Top
  <2> QED BY <1>3, <2>1 DEF OwnFrame, HelpFrames, HelpLabels
<1>4. CASE stack[p] = <<stack[p][1], stack[p][2]>> /\ stack[p][1] \in HelpFrames
  <2>1. Top(p) = stack[p][1]
      BY <1>4 DEF Top
  <2> QED BY <1>4, <2>1 DEF HelpFrames, HelpLabels
<1> QED BY <1>1, <1>2, <1>3, <1>4 DEF StackOK

LEMMA InStore ==
    ASSUME FramesOK, NEW p \in Threads, stack[p] # << >>, Top(p).pc = "store"
    PROVE  /\ stack[p] = <<Top(p)>> /\ Top(p) \in StoreFrames
           /\ doing[p] = [do |-> "store", addr |-> Top(p).addr, val |-> Top(p).val] /\ ~Owns(p)
<1>1. StackOK(p)
    BY DEF FramesOK
<1>2. CASE stack[p] = <<stack[p][1]>> /\ CallFrame(p, stack[p][1])
  <2>1. Top(p) = stack[p][1]
      BY <1>2 DEF Top
  <2> QED BY <1>2, <2>1 DEF CallFrame, NewFrames, ReadFrames, StoreFrames, Owns, HelpLabels
<1>3. CASE stack[p] = <<stack[p][1]>> /\ OwnFrame(p, stack[p][1])
  <2>1. Top(p) = stack[p][1]
      BY <1>3 DEF Top
  <2> QED BY <1>3, <2>1 DEF OwnFrame, HelpFrames, HelpLabels
<1>4. CASE stack[p] = <<stack[p][1], stack[p][2]>> /\ stack[p][1] \in HelpFrames
  <2>1. Top(p) = stack[p][1]
      BY <1>4 DEF Top
  <2> QED BY <1>4, <2>1 DEF HelpFrames, HelpLabels
<1> QED BY <1>1, <1>2, <1>3, <1>4 DEF StackOK

LEMMA InHelp ==
    ASSUME FramesOK, NEW p \in Threads, stack[p] # << >>, Top(p).pc \in HelpLabels
    PROVE  /\ Top(p) \in HelpFrames /\ HelpOK(Top(p))
           /\ \/ /\ Owns(p) /\ Top(p).own /\ stack[p] = <<Top(p)>> /\ OwnFrame(p, Top(p))
              \/ \E b : /\ ~Owns(p) /\ ~Top(p).own /\ stack[p] = <<Top(p), b>>
                        /\ CallFrame(p, b) /\ b.pc \in {"dcss", "dcss_read"}
<1>1. StackOK(p) /\ HelpOK(Top(p))
    BY DEF FramesOK
<1>2. CASE stack[p] = <<stack[p][1]>> /\ CallFrame(p, stack[p][1])
  <2>1. Top(p) = stack[p][1]
      BY <1>2 DEF Top
  <2> QED BY <1>2, <2>1 DEF CallFrame, NewFrames, ReadFrames, StoreFrames, HelpLabels
<1>3. CASE stack[p] = <<stack[p][1]>> /\ OwnFrame(p, stack[p][1])
  <2>1. Top(p) = stack[p][1]
      BY <1>3 DEF Top
  <2>2. Top(p) \in HelpFrames /\ Top(p).own
      BY <1>3, <2>1 DEF OwnFrame
  <2> QED BY <1>1, <1>3, <2>1, <2>2 DEF Owns
<1>4. CASE /\ stack[p] = <<stack[p][1], stack[p][2]>>
           /\ stack[p][1] \in HelpFrames /\ ~stack[p][1].own
           /\ CallFrame(p, stack[p][2]) /\ stack[p][2].pc \in {"dcss", "dcss_read"}
  <2>1. PICK b : b = stack[p][2]
      OBVIOUS
  <2>2. Top(p) = stack[p][1]
      BY <1>4 DEF Top
  <2>3. stack[p] = <<Top(p), b>> /\ ~Top(p).own /\ Top(p) \in HelpFrames
      BY <1>4, <2>1, <2>2
  <2> QED BY <1>1, <1>4, <2>1, <2>2, <2>3 DEF Owns
<1> QED BY <1>1, <1>2, <1>3, <1>4 DEF StackOK

-----------------------------------------------------------------------------
(***************************************************************************)
(* Steps that change nothing but the stack of a thread.                    *)
(***************************************************************************)
LEMMA OthersOwn ==
    ASSUME MemoryOK, NEW p \in Threads, NEW s, StackChanges(p, s), NEW q \in Threads \ {p}
    PROVE  (Owns(q)' <=> Owns(q))
<1>1. stack'[q] = stack[q]
    BY StackIs
<1> QED BY <1>1 DEF Owns, Top

LEMMA FrameStep ==
    ASSUME FramesOK, NEW p \in Threads, NEW s, StackChanges(p, s), UNCHANGED <<memory, history>>,
           StackOK(p)', (Owns(p)' <=> Owns(p)),
           s = << >> \/ s[1].pc \notin HelpLabels \/ (s[1] \in HelpFrames /\ HelpOK(s[1]))
    PROVE  FramesOK'
<1>0. MemoryOK
    BY DEF FramesOK
<1>1. /\ stack' = [q \in Threads |-> stack'[q]]
      /\ stack'[p] = s /\ \A q \in Threads \ {p} : stack'[q] = stack[q]
    BY <1>0, StackIs
<1>2. word' = word /\ desc' = desc /\ tid' = tid /\ todo' = todo /\ doing' = doing
    BY DEF memory, history
<1>3. \A q \in Threads : (Owns(q)' <=> Owns(q))
    BY <1>0, OthersOwn
<1>4. MemoryOK'
    BY <1>0, <1>1, <1>2 DEF MemoryOK
<1>5. ASSUME NEW q \in Threads PROVE StackOK(q)'
  <2>1. CASE q = p
      BY <2>1
  <2>2. CASE q # p
    <3>1. stack'[q] = stack[q] /\ StackOK(q)
        BY <1>1, <2>2 DEF FramesOK
    <3> QED BY <1>2, <3>1 DEF StackOK, CallFrame, OwnFrame, TagOf, D
  <2> QED BY <2>1, <2>2
<1>6. ASSUME NEW h \in HelpFrames, HelpOK(h) PROVE HelpOK(h)'
  <2>1. h.tag[2] \in Threads
      BY DEF HelpFrames
  <2> QED BY <1>2, <1>3, <1>6, <2>1 DEF HelpOK, TagOf, D
<1>7. ASSUME NEW q \in Threads, (stack[q] # << >> /\ Top(q).pc \in HelpLabels)' PROVE HelpOK(Top(q))'
  <2>1. CASE q = p
    <3>1. stack'[q] = s /\ Top(q)' = s[1]
        BY <1>1, <2>1 DEF Top
    <3>2. s[1] \in HelpFrames /\ HelpOK(s[1])
        BY <1>7, <3>1
    <3>3. HelpOK(s[1])'
        BY <1>6, <3>2
    <3> QED BY <3>1, <3>3 DEF HelpOK, TagOf, D, Owns, Top
  <2>2. CASE q # p
    <3>1. stack'[q] = stack[q] /\ Top(q)' = Top(q)
        BY <1>1, <2>2 DEF Top
    <3>2. stack[q] # << >> /\ Top(q).pc \in HelpLabels
        BY <1>7, <3>1
    <3>3. PICK h : h = Top(q)
        OBVIOUS
    <3>4. h \in HelpFrames /\ HelpOK(h)
        BY <3>2, <3>3, InHelp
    <3>5. HelpOK(h)' /\ Top(q)' = h
        BY <1>6, <3>1, <3>3, <3>4
    <3> QED BY <3>5 DEF HelpOK
  <2> QED BY <2>1, <2>2
<1>8. ASSUME NEW a \in Addresses PROVE WordOK(a)'
  <2>1. WordOK(a)
      BY DEF FramesOK
  <2> QED BY <1>2, <1>3, <2>1 DEF WordOK, TagOf, D
<1> QED BY <1>4, <1>5, <1>7, <1>8 DEF FramesOK

\* The outcomes afterwards are outcomes that were allowed before.
LEMMA SameOutcomes ==
    ASSUME OutcomesOK, Explained \subseteq Explained',
           \A x \in Outcomes : Allowed(x)' => Allowed(x) /\ View(x)' = View(x)
    PROVE  OutcomesOK'
BY DEF OutcomesOK

LEMMA ViewSame ==
    ASSUME FramesOK, NEW x \in Outcomes, word' = word,
           \A q \in Threads : Owns(q) => doing'[q] = doing[q]
    PROVE  View(x)' = View(x)
<1>1. ASSUME NEW a \in Addresses PROVE ValueOf(a, x)' = ValueOf(a, x)
  <2>1. WordOK(a)
      BY DEF FramesOK
  <2>2. CASE word[a] \in Plain
    <3>0. Len(word[a]) = 1
        BY <2>2, Zenon DEF Plain
    <3>1. ~IsTagged(word[a])
        BY <3>0 DEF IsTagged
    <3> QED BY <3>1 DEF ValueOf, IsTagged
  <2>3. ASSUME NEW t \in Threads, Owns(t), word[a] = TagOf(t) PROVE ValueOf(a, x)' = ValueOf(a, x)
    <3>1. word[a][2] = t /\ doing'[t] = doing[t]
        BY <2>3 DEF TagOf
    <3> QED BY <3>1 DEF ValueOf, IsTagged
  <2> QED BY <2>1, <2>2, <2>3 DEF WordOK
<1> QED BY <1>1, Zenon DEF View

LEMMA HistorySame ==
    ASSUME ObjectOK, UNCHANGED history
    PROVE  ObjectOK' /\ Explained \subseteq Explained'
<1>1. doing' = doing /\ views' = views
    BY DEF history
<1>2. ObjectOK'
  <2>1. (doing \in [Threads -> Calls \cup {Nothing}])'
      BY <1>1 DEF ObjectOK, Doing
  <2>2. (views \subseteq Views)'
      BY <1>1 DEF ObjectOK
  <2>3. IsMultiword'
      BY DEF ObjectOK, IsMultiword
  <2>4. ("dcss" \in DOMAIN Programs)'
      BY DEF ObjectOK
  <2> QED BY <2>1, <2>2, <2>3, <2>4 DEF ObjectOK, Doing
<1> QED BY <1>1, <1>2, ExplainedGrows

Proposing == {"dcss_look", "dcss_decide"}

LEMMA FrameOutcomes ==
    ASSUME DcssInv, NEW p \in Threads, NEW s, StackChanges(p, s), UNCHANGED <<memory, history>>,
           (Owns(p)' <=> Owns(p)),
           \/ s = << >> \/ s[1].pc \notin Proposing
           \/ /\ stack[p] # << >> /\ Top(p).pc \in Proposing
              /\ s[1].tag = Top(p).tag /\ s[1].state = Top(p).state
    PROVE  ObjectOK' /\ OutcomesOK'
<1>0. MemoryOK /\ FramesOK /\ OutcomesOK /\ ObjectOK
    BY DEF DcssInv, FramesOK
<1>1. stack'[p] = s /\ \A q \in Threads \ {p} : stack'[q] = stack[q]
    BY <1>0, StackIs
<1>2. word' = word /\ desc' = desc /\ doing' = doing
    BY DEF memory, history
<1>3. \A q \in Threads : (Owns(q)' <=> Owns(q))
    BY <1>0, OthersOwn
<1>4. ASSUME NEW t \in Threads, NEW o, Proposed(t, o)' PROVE Proposed(t, o)
  <2>1. PICK q \in Threads : (/\ stack[q] # << >> /\ Top(q).pc \in Proposing
                              /\ Top(q).tag = TagOf(t) /\ Top(q).state = o)'
      BY <1>4 DEF Proposed, Proposing
  <2>2. TagOf(t)' = TagOf(t)
      BY <1>2 DEF TagOf, D
  <2>3. CASE q # p
    <3>1. Top(q)' = Top(q) /\ stack'[q] = stack[q]
        BY <1>1, <2>3 DEF Top
    <3> QED BY <2>1, <2>2, <3>1 DEF Proposed, Proposing
  <2>4. CASE q = p
    <3>1. Top(p)' = s[1] /\ s # << >>
        BY <1>1, <2>1, <2>4 DEF Top
    <3> QED BY <2>1, <2>2, <2>4, <3>1 DEF Proposed, Proposing
  <2> QED BY <2>3, <2>4
<1>5. ASSUME NEW x \in Outcomes, Allowed(x)' PROVE Allowed(x) /\ View(x)' = View(x)
  <2>1. View(x)' = View(x)
      BY <1>0, <1>2, ViewSame
  <2>2. \A t \in Threads : D(t)' = D(t)
      BY <1>2 DEF D
  <2>3. Allowed(x)
      BY <1>3, <1>4, <1>5, <2>2 DEF Allowed
  <2> QED BY <2>1, <2>3
<1>6. ObjectOK' /\ Explained \subseteq Explained'
    BY <1>0, HistorySame
<1> QED BY <1>0, <1>5, <1>6, SameOutcomes

-----------------------------------------------------------------------------
(***************************************************************************)
(* The words, and helpers.                                                 *)
(***************************************************************************)
LEMMA Owner ==
    ASSUME FramesOK, NEW t \in Threads, Owns(t)
    PROVE  stack[t] = <<Top(t)>> /\ OwnFrame(t, Top(t)) /\ HelpOK(Top(t))
<1>1. stack[t] # << >> /\ Top(t).pc \in HelpLabels
    BY DEF Owns
<1> QED BY <1>1, InHelp

LEMMA DescriptorType ==
    ASSUME FramesOK, ObjectOK, NEW t \in Threads
    PROVE  /\ D(t) \in Descriptors /\ t \in Tids
           /\ D(t).seq \in Nat /\ D(t).state \in States /\ D(t).f \in DcssOps \cup {Nothing}
<1>1. t \in Tids
    BY DirectIs DEF ObjectOK
<1>2. desc["dcss"] \in [Tids -> Descriptors]
    BY DEF FramesOK, MemoryOK
<1> QED BY <1>1, <1>2 DEF D, Descriptors

LEMMA TagIs ==
    ASSUME FramesOK, NEW a \in Addresses, word[a] \notin Plain
    PROVE  \E t \in Threads : /\ Owns(t) /\ word[a] = TagOf(t) /\ doing[t].addr2 = a /\ a \notin Direct
                              /\ Is("dcss", word[a])
<1>1. PICK t \in Threads : Owns(t) /\ word[a] = TagOf(t) /\ doing[t].addr2 = a /\ a \notin Direct
    BY DEF FramesOK, WordOK
<1>2. Is("dcss", word[a])
    BY <1>1 DEF Is, IsTagged, TagOf
<1> QED BY <1>1, <1>2

LEMMA PlainIs ==
    ASSUME NEW v \in Plain PROVE ~IsTagged(v) /\ \A k : ~Is(k, v)
<1>1. Len(v) = 1
    BY Zenon DEF Plain
<1> QED BY <1>1 DEF IsTagged, Is

LEMMA HelperPuts ==
    ASSUME FramesOK, NEW p \in Threads, stack[p] # << >>, Top(p).pc \in HelpLabels,
           UNCHANGED <<memory, history>>, NEW h \in HelpFrames, Put(p, h), h.pc # "dcss_help",
           h.own = Top(p).own, h.tag = Top(p).tag, h.own => h.f = Top(p).f, HelpOK(h)
    PROVE  /\ FramesOK' /\ (Owns(p)' <=> Owns(p))
           /\ \E s : StackChanges(p, s) /\ s[1] = h
<1>0. MemoryOK /\ h.pc \in HelpLabels
    BY DEF FramesOK, HelpFrames
<1>1. word' = word /\ desc' = desc /\ doing' = doing
    BY DEF memory, history
<1>2. CASE Owns(p)
  <2>1. stack[p] = <<Top(p)>> /\ OwnFrame(p, Top(p)) /\ h.own
      BY <1>2, Owner DEF Owns
  <2>2. StackChanges(p, <<h>>)
      BY <2>1, PutOne
  <2>3. stack'[p] = <<h>>
      BY <1>0, <2>2, StackIs
  <2>4. Owns(p)'
      BY <1>0, <2>1, <2>3 DEF Owns, Top
  <2>5. OwnFrame(p, h)'
      BY <1>1, <2>1 DEF OwnFrame, TagOf, D
  <2>6. StackOK(p)'
      BY <2>3, <2>5 DEF StackOK
  <2>7. FramesOK'
      BY <1>2, <2>2, <2>4, <2>6, FrameStep
  <2> QED BY <1>2, <2>2, <2>4, <2>7
<1>3. CASE ~Owns(p)
  <2>1. PICK b : /\ ~Top(p).own /\ stack[p] = <<Top(p), b>>
                 /\ CallFrame(p, b) /\ b.pc \in {"dcss", "dcss_read"}
      BY <1>3, InHelp
  <2>2. StackChanges(p, <<h, b>>)
      BY <2>1, PutTwo
  <2>3. stack'[p] = <<h, b>> /\ ~h.own
      BY <1>0, <2>1, <2>2, StackIs
  <2>4. ~Owns(p)'
      BY <2>3 DEF Owns, Top
  <2>5. CallFrame(p, b)'
      BY <1>1, <2>1 DEF CallFrame, D
  <2>6. StackOK(p)'
      BY <2>1, <2>3, <2>5 DEF StackOK
  <2>7. FramesOK'
      BY <1>3, <2>2, <2>4, <2>6, FrameStep
  <2> QED BY <1>3, <2>2, <2>4, <2>7
<1> QED BY <1>2, <1>3

LEMMA HelperPops ==
    ASSUME DcssInv, NEW p \in Threads, stack[p] # << >>, Top(p).pc \in HelpLabels, ~Owns(p),
           UNCHANGED <<memory, history>>, Pop(p)
    PROVE  DcssInv'
<1>0. MemoryOK /\ FramesOK
    BY DEF DcssInv, FramesOK
<1>1. word' = word /\ desc' = desc /\ doing' = doing
    BY DEF memory, history
<1>2. PICK b : stack[p] = <<Top(p), b>> /\ CallFrame(p, b) /\ b.pc \in {"dcss", "dcss_read"}
    BY <1>0, InHelp
<1>3. StackChanges(p, <<b>>)
    BY <1>2, PopTwo
<1>4. stack'[p] = <<b>> /\ b.pc \notin HelpLabels /\ b.pc \notin Proposing
    BY <1>0, <1>2, <1>3, StackIs DEF HelpLabels, Proposing
<1>5. ~Owns(p)'
    BY <1>4 DEF Owns, Top
<1>6. CallFrame(p, b)'
    BY <1>1, <1>2 DEF CallFrame, D
<1>7. StackOK(p)'
    BY <1>4, <1>6 DEF StackOK
<1>8. (Owns(p)' <=> Owns(p)) /\ <<b>>[1] = b
    BY <1>5
<1>9. FramesOK'
    BY <1>0, <1>3, <1>4, <1>7, <1>8, FrameStep
<1>10. ObjectOK' /\ OutcomesOK'
    BY <1>3, <1>4, <1>8, FrameOutcomes
<1> QED BY <1>9, <1>10 DEF DcssInv

\* A tag that is met in a word is that of an operation in progress.
LEMMA HelperBegins ==
    ASSUME DcssInv, NEW p \in Threads, NEW b, stack[p] = <<b>>, CallFrame(p, b),
           b.pc \in {"dcss", "dcss_read"}, NEW a \in Addresses, Is("dcss", word[a]),
           UNCHANGED <<memory, history>>,
           Invoke(p, b, HelpFrame(word[a], FALSE, Nothing, "dcss_help"))
    PROVE  DcssInv'
<1>0. MemoryOK /\ FramesOK /\ ObjectOK
    BY DEF DcssInv, FramesOK
<1>1. word' = word /\ desc' = desc /\ doing' = doing
    BY DEF memory, history
<1>2. PICK t \in Threads : Owns(t) /\ word[a] = TagOf(t)
    BY <1>0, PlainIs, TagIs
<1>3. PICK h : h = HelpFrame(word[a], FALSE, Nothing, "dcss_help")
    OBVIOUS
<1>4. h = [pc |-> "dcss_help", tag |-> TagOf(t), own |-> FALSE, f |-> Nothing, state |-> "failed"]
    BY <1>2, <1>3 DEF HelpFrame
<1>5. D(t).seq \in Nat /\ D(t).f \in DcssOps
    BY <1>0, <1>2, Owner, DescriptorType DEF OwnFrame
<1>6. h \in HelpFrames
    BY <1>4, <1>5 DEF HelpFrames, HelpLabels, Decided, TagOf
<1>7. HelpOK(h)
  <2>1. h.tag[2] = t /\ h.tag[3] = D(t).seq /\ h.pc = "dcss_help"
      BY <1>4 DEF TagOf
  <2> QED BY <1>2, <1>5, <2>1 DEF HelpOK
<1>8. StackChanges(p, <<h, b>>)
    BY <1>3, InvokeOne
<1>9. stack'[p] = <<h, b>> /\ ~h.own
    BY <1>0, <1>4, <1>8, StackIs
<1>10. ~Owns(p) /\ ~Owns(p)'
    BY <1>9 DEF Owns, Top, HelpLabels
<1>11. CallFrame(p, b)'
    BY <1>1 DEF CallFrame, D
<1>12. StackOK(p)'
    BY <1>6, <1>9, <1>11 DEF StackOK
<1>13. <<h, b>>[1] = h /\ h.pc \notin Proposing /\ (Owns(p)' <=> Owns(p))
    BY <1>4, <1>10 DEF Proposing
<1>14. FramesOK'
    BY <1>0, <1>6, <1>7, <1>8, <1>12, <1>13, FrameStep
<1>15. ObjectOK' /\ OutcomesOK'
    BY <1>8, <1>13, FrameOutcomes
<1> QED BY <1>14, <1>15 DEF DcssInv

-----------------------------------------------------------------------------
(***************************************************************************)
(* The steps of a helper that change its frame only.                       *)
(***************************************************************************)
\* A tag, and the descriptor it is made for.
LEMMA TagType ==
    ASSUME NEW h \in HelpFrames
    PROVE  /\ h.tag = <<"dcss", h.tag[2], h.tag[3]>> /\ h.tag[2] \in Threads /\ h.tag[3] \in Nat
           /\ Target(h.tag) = D(h.tag[2])
           /\ Valid(h.tag) <=> h.tag = TagOf(h.tag[2])
<1>1. h.tag \in {"dcss"} \X Threads \X Nat
    BY DEF HelpFrames
<1>2. h.tag = <<"dcss", h.tag[2], h.tag[3]>> /\ h.tag[2] \in Threads /\ h.tag[3] \in Nat
    BY <1>1
<1>3. h.tag[1] = "dcss"
    BY <1>1
<1> QED BY <1>2, <1>3 DEF Target, Valid, TagOf, D

LEMMA dcssHelpOtherOK ==
    ASSUME DcssInv, NEW p \in Threads, dcssHelpOther(p)
    PROVE  DcssInv'
<1>0. FramesOK /\ ObjectOK
    BY DEF DcssInv
<1>1. stack[p] # << >> /\ Top(p).pc = "dcss_help" /\ Top(p).pc \in HelpLabels
    BY DEF dcssHelpOther, At, HelpLabels
<1>2. UNCHANGED <<memory, history>>
    BY DEF dcssHelpOther
<1> PICK g : g = Top(p)
    OBVIOUS
<1>3. g \in HelpFrames /\ HelpOK(g) /\ ~Owns(p) /\ ~g.own
    BY <1>0, <1>1, InHelp DEF OwnFrame
<1>4. g.tag[2] \in Threads /\ Target(g.tag) = D(g.tag[2]) /\ (Valid(g.tag) <=> g.tag = TagOf(g.tag[2]))
    BY <1>3, TagType
<1>5. CASE Valid(g.tag)
  <2> PICK h : h = [g EXCEPT !.f = Target(g.tag).f, !.pc = "dcss_addr1"]
      OBVIOUS
  <2>1. Put(p, h)
      BY <1>5 DEF dcssHelpOther
  <2>2. D(g.tag[2]).f \in DcssOps
      BY <1>3, <1>4, <1>5 DEF HelpOK
  <2>3. h \in HelpFrames /\ h.own = g.own /\ h.tag = g.tag /\ h.pc = "dcss_addr1"
        /\ h.f = D(g.tag[2]).f
      BY <1>3, <1>4, <2>2 DEF HelpFrames, HelpLabels
  <2>4. HelpOK(h)
      BY <1>3, <1>4, <2>2, <2>3 DEF HelpOK
  <2>5. /\ FramesOK' /\ (Owns(p)' <=> Owns(p))
        /\ \E s : StackChanges(p, s) /\ s[1] = h
    <3>1. h.own = Top(p).own /\ h.tag = Top(p).tag /\ (h.own => h.f = Top(p).f) /\ h.pc # "dcss_help"
        BY <1>3, <2>3
    <3> QED BY <1>0, <1>1, <1>2, <2>1, <2>3, <2>4, <3>1, HelperPuts
  <2>6. h.pc \notin Proposing
      BY <2>3 DEF Proposing
  <2>7. ObjectOK' /\ OutcomesOK'
      BY <1>2, <2>5, <2>6, FrameOutcomes
  <2> QED BY <2>5, <2>7 DEF DcssInv
<1>6. CASE ~Valid(g.tag)
  <2>1. Pop(p)
      BY <1>6 DEF dcssHelpOther
  <2> QED BY <1>1, <1>2, <1>3, <2>1, HelperPops
<1> QED BY <1>5, <1>6

LEMMA helpLookOK ==
    ASSUME DcssInv, NEW p \in Threads, helpLook(p)
    PROVE  DcssInv'
<1>0. FramesOK /\ ObjectOK
    BY DEF DcssInv
<1>1. stack[p] # << >> /\ Top(p).pc = "dcss_look" /\ Top(p).pc \in HelpLabels
    BY DEF helpLook, At, HelpLabels
<1>2. UNCHANGED <<memory, history>>
    BY DEF helpLook
<1> PICK g : g = Top(p)
    OBVIOUS
<1>3. g \in HelpFrames /\ HelpOK(g) /\ (g.own => OwnFrame(p, g)) /\ (Owns(p) <=> g.own)
    BY <1>0, <1>1, InHelp DEF Owns
<1>4. g.tag[2] \in Threads /\ (Valid(g.tag) <=> g.tag = TagOf(g.tag[2]))
    BY <1>3, TagType
<1>5. CASE Valid(g.tag)
  <2> PICK h : h = [g EXCEPT !.pc = "dcss_decide"]
      OBVIOUS
  <2>1. Put(p, h)
      BY <1>5 DEF helpLook, Go
  <2>2. h \in HelpFrames /\ h.own = g.own /\ h.tag = g.tag /\ h.pc = "dcss_decide"
        /\ h.f = g.f /\ h.state = g.state
      BY <1>3 DEF HelpFrames, HelpLabels
  <2>3. HelpOK(h)
      BY <1>1, <1>3, <2>2 DEF HelpOK
  <2>4. /\ FramesOK' /\ (Owns(p)' <=> Owns(p))
        /\ \E s : StackChanges(p, s) /\ s[1] = h
    <3>1. h.own = Top(p).own /\ h.tag = Top(p).tag /\ (h.own => h.f = Top(p).f) /\ h.pc # "dcss_help"
        BY <2>2
    <3> QED BY <1>0, <1>1, <1>2, <2>1, <2>2, <2>3, <3>1, HelperPuts
  <2>5. g.pc \in Proposing
      BY <1>1 DEF Proposing
  <2>6. ObjectOK' /\ OutcomesOK'
      BY <1>1, <1>2, <2>2, <2>4, <2>5, FrameOutcomes
  <2> QED BY <2>4, <2>6 DEF DcssInv
<1>6. CASE ~Valid(g.tag)
  <2>1. ~g.own
    <3>1. g.own => g.tag = TagOf(p) /\ g.tag[2] = p
        BY <1>3 DEF OwnFrame, TagOf
    <3> QED BY <1>4, <1>6, <3>1
  <2>2. Pop(p)
      BY <1>6 DEF helpLook
  <2> QED BY <1>1, <1>2, <1>3, <2>1, <2>2, HelperPops
<1> QED BY <1>5, <1>6

\* The two ways in which the compare-and-swap of helpDecide fails.
LEMMA DecidedAlready ==
    ASSUME DcssInv, NEW p \in Threads, At(p, "dcss_decide"), UNCHANGED <<memory, history>>,
           \/ /\ Target(Top(p).tag).state = "undecided" /\ ~Valid(Top(p).tag)
              /\ Go(p, "dcss_look")
           \/ /\ Target(Top(p).tag).state # "undecided"
              /\ Put(p, [Top(p) EXCEPT !.pc = "dcss_finish", !.state = Target(Top(p).tag).state])
    PROVE  DcssInv'
<1>0. FramesOK /\ ObjectOK
    BY DEF DcssInv
<1>1. stack[p] # << >> /\ Top(p).pc = "dcss_decide" /\ Top(p).pc \in HelpLabels /\ Top(p).pc \in Proposing
    BY DEF At, HelpLabels, Proposing
<1> PICK g : g = Top(p)
    OBVIOUS
<1>3. g \in HelpFrames /\ HelpOK(g)
    BY <1>0, <1>1, InHelp
<1>4. g.tag[2] \in Threads /\ Target(g.tag) = D(g.tag[2])
    BY <1>3, TagType
<1>5. D(g.tag[2]).state \in States
    BY <1>0, <1>4, DescriptorType
<1>6. CASE Go(p, "dcss_look")
  <2> PICK h : h = [g EXCEPT !.pc = "dcss_look"]
      OBVIOUS
  <2>1. Put(p, h)
      BY <1>6 DEF Go
  <2>2. h \in HelpFrames /\ h.own = g.own /\ h.tag = g.tag /\ h.pc = "dcss_look"
        /\ h.f = g.f /\ h.state = g.state
      BY <1>3 DEF HelpFrames, HelpLabels
  <2>3. HelpOK(h)
      BY <1>1, <1>3, <2>2 DEF HelpOK
  <2>4. /\ FramesOK' /\ (Owns(p)' <=> Owns(p))
        /\ \E s : StackChanges(p, s) /\ s[1] = h
    <3>1. h.own = Top(p).own /\ h.tag = Top(p).tag /\ (h.own => h.f = Top(p).f) /\ h.pc # "dcss_help"
        BY <2>2
    <3> QED BY <1>0, <1>1, <2>1, <2>2, <2>3, <3>1, HelperPuts
  <2>6. ObjectOK' /\ OutcomesOK'
      BY <1>1, <2>2, <2>4, FrameOutcomes
  <2> QED BY <2>4, <2>6 DEF DcssInv
<1>7. CASE /\ Target(g.tag).state # "undecided"
           /\ Put(p, [g EXCEPT !.pc = "dcss_finish", !.state = Target(g.tag).state])
  <2> PICK h : h = [g EXCEPT !.pc = "dcss_finish", !.state = Target(g.tag).state]
      OBVIOUS
  <2>1. Put(p, h)
      BY <1>7
  <2>2. D(g.tag[2]).state \in Decided
      BY <1>4, <1>5, <1>7 DEF States, Decided
  <2>3. h \in HelpFrames /\ h.own = g.own /\ h.tag = g.tag /\ h.pc = "dcss_finish"
        /\ h.f = g.f /\ h.state = D(g.tag[2]).state
      BY <1>3, <1>4, <2>2 DEF HelpFrames, HelpLabels
  <2>4. HelpOK(h)
      BY <1>1, <1>3, <2>3 DEF HelpOK
  <2>5. /\ FramesOK' /\ (Owns(p)' <=> Owns(p))
        /\ \E s : StackChanges(p, s) /\ s[1] = h
    <3>1. h.own = Top(p).own /\ h.tag = Top(p).tag /\ (h.own => h.f = Top(p).f) /\ h.pc # "dcss_help"
        BY <2>3
    <3> QED BY <1>0, <1>1, <2>1, <2>3, <2>4, <3>1, HelperPuts
  <2>6. h.pc \notin Proposing
      BY <2>3 DEF Proposing
  <2>7. ObjectOK' /\ OutcomesOK'
      BY <2>5, <2>6, FrameOutcomes
  <2> QED BY <2>5, <2>7 DEF DcssInv
<1> QED BY <1>6, <1>7

-----------------------------------------------------------------------------
(***************************************************************************)
(* An operation takes effect.                                              *)
(***************************************************************************)
LEMMA WithIs ==
    ASSUME NEW v \in Views, NEW p \in Threads, NEW n \in Memories, NEW r \in DcssAnswers,
           Apply(doing[p], v.state) = {<<n, r>>}
    PROVE  \A w : w \in With(v, p) <=> w = [state |-> n, got |-> [v.got EXCEPT ![p] = r]]
<1>1. \A w : w \in With(v, p) <=>
             \E o \in Apply(doing[p], v.state) : w = [v EXCEPT !.state = o[1], !.got[p] = o[2]]
    BY Zenon DEF With
<1>2. \A w : w \in With(v, p) <=> w = [v EXCEPT !.state = <<n, r>>[1], !.got[p] = <<n, r>>[2]]
    BY <1>1, Zenon
<1>3. [v EXCEPT !.state = <<n, r>>[1], !.got[p] = <<n, r>>[2]]
        = [state |-> n, got |-> [v.got EXCEPT ![p] = r]]
  <2> PICK w : w = [v EXCEPT !.state = <<n, r>>[1], !.got[p] = <<n, r>>[2]]
      OBVIOUS
  <2>1. w.state = n /\ w.got = [v.got EXCEPT ![p] = r] /\ w \in Views
      BY DEF Views
  <2>2. w = [state |-> w.state, got |-> w.got]
      BY <2>1 DEF Views
  <2> QED BY <2>1, <2>2
<1> QED BY <1>2, <1>3

LEMMA ViewType ==
    ASSUME FramesOK, ObjectOK, NEW x \in Outcomes
    PROVE  View(x) \in Views
<1>1. ASSUME NEW a \in Addresses PROVE ValueOf(a, x) \in Plain
  <2>1. CASE word[a] \in Plain
      BY <2>1, PlainIs DEF ValueOf
  <2>2. CASE word[a] \notin Plain
    <3>1. PICK t \in Threads : Owns(t) /\ word[a] = TagOf(t) /\ Is("dcss", word[a])
        BY <2>2, TagIs
    <3>2. doing[t] \in DcssOps
        BY <3>1, Owner DEF OwnFrame
    <3>3. word[a][2] = t /\ IsTagged(word[a]) /\ doing[t].new2 \in Plain /\ doing[t].old2 \in Plain
        BY <3>1, <3>2 DEF TagOf, Is, DcssOps
    <3> QED BY <3>3 DEF ValueOf
  <2> QED BY <2>1, <2>2
<1>2. ASSUME NEW t \in Threads PROVE GotOf(x[t]) \in DcssAnswers \cup {Nothing}
  <2>1. x[t] \in States
      BY DEF Outcomes
  <2> QED BY <2>1 DEF GotOf, DcssAnswers, States
<1> QED BY <1>1, <1>2 DEF View, Views, Memories

\* What holds a value in a view, and the words that hold a tag.
LEMMA ValueIs ==
    ASSUME FramesOK, NEW x \in Outcomes, NEW a \in Addresses
    PROVE  /\ word[a] \in Plain => View(x).state[a] = word[a]
           /\ \A t \in Threads : Owns(t) /\ word[a] = TagOf(t) =>
                 /\ View(x).state[a] = IF x[t] = "succeeded" THEN doing[t].new2 ELSE doing[t].old2
                 /\ a = doing[t].addr2
<1>1. View(x).state[a] = ValueOf(a, x)
    BY DEF View
<1>2. ASSUME word[a] \in Plain PROVE View(x).state[a] = word[a]
    BY <1>1, <1>2, PlainIs DEF ValueOf
<1>3. ASSUME NEW t \in Threads, Owns(t), word[a] = TagOf(t)
      PROVE  /\ View(x).state[a] = IF x[t] = "succeeded" THEN doing[t].new2 ELSE doing[t].old2
             /\ a = doing[t].addr2
  <2>1. IsTagged(word[a]) /\ word[a][2] = t
      BY <1>3 DEF TagOf, IsTagged
  <2>2. word[a] \notin Plain
      BY <2>1, PlainIs
  <2>3. PICK u \in Threads : word[a] = TagOf(u) /\ doing[u].addr2 = a
      BY <2>2, TagIs
  <2>4. u = t
      BY <2>1, <2>3 DEF TagOf
  <2> QED BY <1>1, <2>1, <2>3, <2>4 DEF ValueOf
<1> QED BY <1>2, <1>3

LEMMA Decides ==
    ASSUME FramesOK, ObjectOK, NEW x \in Outcomes, NEW t \in Threads, Owns(t), D(t).state = "undecided",
           x[t] = IF word[doing[t].addr1] = doing[t].old1 THEN "succeeded" ELSE "failed",
           NEW y, y = [x EXCEPT ![t] = "undecided"]
    PROVE  /\ y \in Outcomes /\ May(View(y), t) /\ View(x) \in With(View(y), t)
<1>1. y \in Outcomes /\ y[t] = "undecided" /\ \A u \in Threads \ {t} : y[u] = x[u]
    BY DEF Outcomes, States
<1>2. /\ doing[t] \in DcssOps /\ word[doing[t].addr2] = TagOf(t)
    BY Owner DEF OwnFrame
<1> PICK op : op = doing[t]
    OBVIOUS
<1>3. op \in Calls /\ op.do = "dcss" /\ op # Nothing
    BY <1>2, DirectIs DEF Calls, DcssCalls, DcssOps, ObjectOK
<1>4. op.addr1 \in Direct /\ op.addr1 \in Addresses /\ op.addr2 \in Addresses
    BY <1>2, DirectIs DEF DcssOps, ObjectOK
<1> PICK m, n : m = View(y).state /\ n = View(x).state
    OBVIOUS
<1>5. m \in Memories /\ n \in Memories
    BY <1>1, ViewType DEF Views
<1>6. m[op.addr2] = op.old2 /\ n[op.addr2] = IF x[t] = "succeeded" THEN op.new2 ELSE op.old2
  <2>1. \A z \in Outcomes :
           View(z).state[op.addr2] = IF z[t] = "succeeded" THEN op.new2 ELSE op.old2
      BY <1>2, <1>4, ValueIs
  <2>2. y[t] # "succeeded"
      BY <1>1
  <2> QED BY <1>1, <2>1, <2>2
<1>7. word[op.addr1] \in Plain
    BY <1>4, TagIs
<1>8. m[op.addr1] = word[op.addr1]
    BY <1>1, <1>4, <1>7, ValueIs
<1>9. ASSUME NEW a \in Addresses, a # op.addr2 PROVE n[a] = m[a]
  <2>1. CASE word[a] \in Plain
      BY <1>1, <2>1, ValueIs
  <2>2. CASE word[a] \notin Plain
    <3>1. PICK u \in Threads : Owns(u) /\ word[a] = TagOf(u) /\ doing[u].addr2 = a
        BY <2>2, TagIs
    <3>2. u # t
        BY <1>9, <3>1
    <3>3. \A z \in Outcomes :
             View(z).state[a] = IF z[u] = "succeeded" THEN doing[u].new2 ELSE doing[u].old2
        BY <3>1, ValueIs
    <3>4. y[u] = x[u]
        BY <1>1, <3>2
    <3> QED BY <1>1, <3>3, <3>4
  <2> QED BY <2>1, <2>2
<1>10. n = IF x[t] = "succeeded" THEN [m EXCEPT ![op.addr2] = op.new2] ELSE m
  <2>1. m = [a \in Addresses |-> m[a]] /\ n = [a \in Addresses |-> n[a]]
      BY <1>5 DEF Memories
  <2>2. CASE x[t] = "succeeded"
    <3>1. [m EXCEPT ![op.addr2] = op.new2] = [a \in Addresses |-> n[a]]
        BY <1>6, <1>9, <2>1, <2>2
    <3> QED BY <2>1, <2>2, <3>1
  <2>3. CASE x[t] # "succeeded"
    <3>1. \A a \in Addresses : n[a] = m[a]
        BY <1>6, <1>9, <2>3
    <3> QED BY <2>1, <2>3, <3>1
  <2> QED BY <2>2, <2>3
<1> PICK r : r = IF x[t] = "succeeded" THEN <<"success">> ELSE <<"failed_addr1">>
    OBVIOUS
<1>11. DcssEffect(op, m) = <<n, r>>
    BY <1>6, <1>8, <1>10 DEF DcssEffect
<1>12. Apply(op, m) = {<<n, r>>}
    BY <1>3, <1>5, <1>11, Effects DEF ObjectOK
<1> PICK g, k : g = View(y).got /\ k = View(x).got
    OBVIOUS
<1>13. View(x) = [state |-> n, got |-> k]
    BY DEF View
<1>14. k = [g EXCEPT ![t] = r]
  <2>1. g = [u \in Threads |-> GotOf(y[u])] /\ k = [u \in Threads |-> GotOf(x[u])]
      BY DEF View
  <2>2. GotOf(x[t]) = r
      BY DEF GotOf
  <2>3. \A u \in Threads \ {t} : GotOf(x[u]) = GotOf(y[u])
      BY <1>1
  <2>4. ASSUME NEW u \in Threads PROVE [g EXCEPT ![t] = r][u] = GotOf(x[u])
    <3>1. CASE u = t
        BY <2>1, <2>2, <3>1
    <3>2. CASE u # t
        BY <2>1, <2>3, <3>2
    <3> QED BY <3>1, <3>2
  <2>5. [g EXCEPT ![t] = r] = [u \in Threads |-> [g EXCEPT ![t] = r][u]]
      BY <2>1
  <2>6. [g EXCEPT ![t] = r] = [u \in Threads |-> GotOf(x[u])]
      BY <2>4, <2>5, Zenon
  <2> QED BY <2>1, <2>6
<1>15. r \in DcssAnswers
    BY DEF DcssAnswers
<1>16. View(x) \in With(View(y), t)
  <2>1. View(y) \in Views
      BY <1>1, ViewType
  <2> QED BY <1>5, <1>12, <1>13, <1>14, <1>15, <2>1, WithIs
<1>17. View(y).got[t] = Nothing
    BY <1>1 DEF View, GotOf
<1> QED BY <1>1, <1>3, <1>16, <1>17 DEF May

LEMMA helpAddr1OK ==
    ASSUME DcssInv, NEW p \in Threads, helpAddr1(p)
    PROVE  DcssInv'
<1>0. FramesOK /\ ObjectOK /\ OutcomesOK /\ MemoryOK
    BY DEF DcssInv, FramesOK
<1>1. stack[p] # << >> /\ Top(p).pc = "dcss_addr1" /\ Top(p).pc \in HelpLabels
    BY DEF helpAddr1, At, HelpLabels
<1>2. UNCHANGED <<memory, history>>
    BY DEF helpAddr1
<1> PICK g : g = Top(p)
    OBVIOUS
<1>3. g \in HelpFrames /\ HelpOK(g) /\ g.f \in DcssOps
    BY <1>0, <1>1, InHelp DEF HelpOK
<1> PICK t \in Threads : t = g.tag[2]
    BY <1>3, TagType
<1> PICK o \in Decided : o = IF word[g.f.addr1] = g.f.old1 THEN "succeeded" ELSE "failed"
    BY DEF Decided
<1> PICK h : h = [g EXCEPT !.pc = "dcss_look", !.state = o]
    OBVIOUS
<1>4. Put(p, h)
    BY DEF helpAddr1
<1>5. h \in HelpFrames /\ h.own = g.own /\ h.tag = g.tag /\ h.pc = "dcss_look"
      /\ h.f = g.f /\ h.state = o
    BY <1>3 DEF HelpFrames, HelpLabels
<1>6. HelpOK(h)
    BY <1>1, <1>3, <1>5 DEF HelpOK
<1>7. /\ FramesOK' /\ (Owns(p)' <=> Owns(p))
      /\ \E s : StackChanges(p, s) /\ s[1] = h
  <2>1. h.own = Top(p).own /\ h.tag = Top(p).tag /\ (h.own => h.f = Top(p).f) /\ h.pc # "dcss_help"
      BY <1>5
  <2> QED BY <1>0, <1>1, <1>2, <1>4, <1>5, <1>6, <2>1, HelperPuts
<1>8. PICK s : StackChanges(p, s) /\ s[1] = h
    BY <1>7
<1>9. stack'[p] = s /\ (\A q \in Threads \ {p} : stack'[q] = stack[q]) /\ Top(p)' = h
    BY <1>0, <1>8, StackIs DEF Top
<1>10. word' = word /\ desc' = desc /\ doing' = doing
    BY <1>2 DEF memory, history
<1>11. \A q \in Threads : Owns(q)' <=> Owns(q)
    BY <1>0, <1>7, <1>8, OthersOwn
<1>12. \A u \in Threads : D(u)' = D(u) /\ TagOf(u)' = TagOf(u)
    BY <1>10 DEF D, TagOf
\* A proposal is one that was there, or the one of p.
<1>13. ASSUME NEW u \in Threads, NEW k, Proposed(u, k)'
       PROVE  Proposed(u, k) \/ (u = t /\ k = o /\ g.tag = TagOf(t))
  <2>1. PICK q \in Threads : (/\ stack[q] # << >> /\ Top(q).pc \in Proposing
                              /\ Top(q).tag = TagOf(u) /\ Top(q).state = k)'
      BY <1>13 DEF Proposed, Proposing
  <2>2. CASE q # p
    <3>1. Top(q)' = Top(q) /\ stack'[q] = stack[q]
        BY <1>9, <2>2 DEF Top
    <3> QED BY <1>12, <2>1, <3>1 DEF Proposed, Proposing
  <2>3. CASE q = p
    <3>1. g.tag = TagOf(u) /\ k = o
        BY <1>5, <1>9, <1>12, <2>1, <2>3
    <3>2. u = t
        BY <3>1 DEF TagOf
    <3> QED BY <3>1, <3>2
  <2> QED BY <2>2, <2>3
<1>14. ObjectOK' /\ Explained \subseteq Explained'
    BY <1>0, <1>2, HistorySame
<1>15. ASSUME NEW x \in Outcomes, Allowed(x)' PROVE View(x)' \in Explained'
  <2>1. View(x)' = View(x)
      BY <1>0, <1>10, ViewSame
  <2>2. CASE Owns(t) /\ g.tag = TagOf(t) /\ D(t).state = "undecided" /\ x[t] = o
    <3> PICK y : y = [x EXCEPT ![t] = "undecided"]
        OBVIOUS
    <3>1. g.f = doing[t]
        BY <1>0, <1>1, <1>3, <2>2, Owner DEF HelpOK, OwnFrame
    <3>2. y \in Outcomes /\ May(View(y), t) /\ View(x) \in With(View(y), t)
        BY <1>0, <2>2, <3>1, Decides
    <3>3. y[t] = "undecided" /\ \A u \in Threads \ {t} : y[u] = x[u]
        BY DEF Outcomes
    <3>4. Allowed(y)
        BY <1>11, <1>12, <1>13, <1>15, <2>2, <3>3 DEF Allowed
    <3>5. View(y) \in Explained
        BY <1>0, <3>2, <3>4 DEF OutcomesOK
    <3>6. With(View(y), t) \subseteq Explained
        BY <1>0, <3>2, <3>5, ExplainedClosed
    <3> QED BY <1>14, <2>1, <3>2, <3>6
  <2>3. CASE ~(Owns(t) /\ g.tag = TagOf(t) /\ D(t).state = "undecided" /\ x[t] = o)
    <3>1. Allowed(x)
        BY <1>11, <1>12, <1>13, <1>15, <2>3 DEF Allowed
    <3> QED BY <1>0, <1>14, <2>1, <3>1 DEF OutcomesOK
  <2> QED BY <2>2, <2>3
<1>16. OutcomesOK'
    BY <1>15 DEF OutcomesOK
<1> QED BY <1>7, <1>14, <1>16 DEF DcssInv

-----------------------------------------------------------------------------
(***************************************************************************)
(* Steps that change a descriptor.                                         *)
(***************************************************************************)
DescriptorChanges(t, d) == desc' = [desc EXCEPT !["dcss"][t] = d]

LEMMA DescriptorsAre ==
    ASSUME FramesOK, ObjectOK, NEW t \in Threads, NEW d \in Descriptors, DescriptorChanges(t, d)
    PROVE  /\ desc' \in [{"dcss", "kcas", "rdcss"} -> [Tids -> Descriptors]]
           /\ D(t)' = d /\ \A u \in Threads \ {t} : D(u)' = D(u) /\ TagOf(u)' = TagOf(u)
<1>1. t \in Tids /\ \A u \in Threads : u \in Tids
    BY DirectIs DEF ObjectOK
<1>2. desc \in [{"dcss", "kcas", "rdcss"} -> [Tids -> Descriptors]]
    BY DEF FramesOK, MemoryOK
<1>3. desc' = [desc EXCEPT !["dcss"] = [desc["dcss"] EXCEPT ![t] = d]]
    BY <1>2 DEF DescriptorChanges
<1> PICK e : e = [desc["dcss"] EXCEPT ![t] = d]
    OBVIOUS
<1>4. e \in [Tids -> Descriptors] /\ e[t] = d /\ \A u \in Tids \ {t} : e[u] = desc["dcss"][u]
    BY <1>1, <1>2
<1>5. desc' = [desc EXCEPT !["dcss"] = e]
    BY <1>3
<1>6. desc' \in [{"dcss", "kcas", "rdcss"} -> [Tids -> Descriptors]] /\ desc'["dcss"] = e
    BY <1>2, <1>4, <1>5
<1> QED BY <1>1, <1>4, <1>6 DEF D, TagOf

LEMMA helpDecideOK ==
    ASSUME DcssInv, NEW p \in Threads, helpDecide(p)
    PROVE  DcssInv'
<1>0. FramesOK /\ ObjectOK /\ OutcomesOK /\ MemoryOK
    BY DEF DcssInv, FramesOK
<1>1. stack[p] # << >> /\ Top(p).pc = "dcss_decide" /\ Top(p).pc \in HelpLabels
    BY DEF helpDecide, At, HelpLabels
<1>2. scheme' = scheme /\ word' = word /\ tid' = tid /\ UNCHANGED history
    BY DEF helpDecide
<1> PICK g : g = Top(p)
    OBVIOUS
<1>3. g \in HelpFrames /\ HelpOK(g)
    BY <1>0, <1>1, InHelp
<1>4. /\ g.tag = <<"dcss", g.tag[2], g.tag[3]>> /\ g.tag[2] \in Threads
      /\ Target(g.tag) = D(g.tag[2]) /\ (Valid(g.tag) <=> g.tag = TagOf(g.tag[2]))
    BY <1>3, TagType
<1>5. CASE ~(Target(g.tag).state = "undecided" /\ Valid(g.tag))
  <2>1. UNCHANGED <<memory, history>> /\ At(p, "dcss_decide")
      BY <1>5 DEF helpDecide, memory
  <2>2. \/ /\ Target(Top(p).tag).state = "undecided" /\ ~Valid(Top(p).tag)
           /\ Go(p, "dcss_look")
        \/ /\ Target(Top(p).tag).state # "undecided"
           /\ Put(p, [Top(p) EXCEPT !.pc = "dcss_finish", !.state = Target(Top(p).tag).state])
      BY <1>5 DEF helpDecide
  <2> QED BY <2>1, <2>2, DecidedAlready, Zenon
<1>6. CASE Target(g.tag).state = "undecided" /\ Valid(g.tag)
  <2> PICK t \in Threads : t = g.tag[2]
      BY <1>4
  <2>1. g.tag = TagOf(t) /\ D(t).state = "undecided" /\ Owns(t) /\ g.state \in Decided
      BY <1>3, <1>4, <1>6 DEF HelpOK, HelpFrames
  <2> PICK d : d = [D(t) EXCEPT !.state = g.state]
      OBVIOUS
  <2>2. d \in Descriptors /\ d.seq = D(t).seq /\ d.state = g.state /\ d.f = D(t).f
      BY <1>0, <2>1, DescriptorType DEF Descriptors, States, Decided
  <2>3. DescriptorChanges(t, d) /\ Go(p, "dcss_finish")
    <3>1. desc' = [desc EXCEPT ![g.tag[1]][g.tag[2]].state = g.state] /\ Go(p, "dcss_finish")
        BY <1>6 DEF helpDecide
    <3>2. g.tag[1] = "dcss" /\ g.tag[2] = t
        BY <1>4
    <3>3. desc' = [desc EXCEPT !["dcss"][t].state = g.state]
        BY <3>1, <3>2
    <3>4. t \in Tids /\ desc \in [{"dcss", "kcas", "rdcss"} -> [Tids -> Descriptors]]
        BY <1>0, DirectIs DEF ObjectOK, MemoryOK
    <3>5. desc' = [desc EXCEPT !["dcss"][t] = d]
        BY <3>3, <3>4 DEF D
    <3> QED BY <3>1, <3>5 DEF DescriptorChanges
  <2>4. /\ desc' \in [{"dcss", "kcas", "rdcss"} -> [Tids -> Descriptors]]
        /\ D(t)' = d /\ \A u \in Threads \ {t} : D(u)' = D(u) /\ TagOf(u)' = TagOf(u)
      BY <1>0, <2>2, <2>3, DescriptorsAre
  <2>5. \A u \in Threads : TagOf(u)' = TagOf(u) /\ D(u)'.seq = D(u).seq /\ D(u)'.f = D(u).f
      BY <2>2, <2>4 DEF TagOf
  <2> PICK h : h = [g EXCEPT !.pc = "dcss_finish"]
      OBVIOUS
  <2>6. Put(p, h)
      BY <2>3 DEF Go
  <2>7. h \in HelpFrames /\ h.own = g.own /\ h.tag = g.tag /\ h.pc = "dcss_finish"
        /\ h.f = g.f /\ h.state = g.state
      BY <1>3 DEF HelpFrames, HelpLabels
  <2>8. doing' = doing /\ todo' = todo /\ views' = views
      BY <1>2 DEF history
  <2>9. ASSUME NEW s, StackChanges(p, s), s[1] = h, s # << >>
        PROVE  /\ MemoryOK' /\ (\A q \in Threads \ {p} : StackOK(q)')
               /\ (Owns(p)' <=> Owns(p)) /\ (StackOK(p)' => FramesOK' /\ OutcomesOK')
    <3>1. /\ stack' = [q \in Threads |-> stack'[q]]
          /\ stack'[p] = s /\ (\A q \in Threads \ {p} : stack'[q] = stack[q]) /\ Top(p)' = h
        BY <1>0, <2>9, StackIs DEF Top
    <3>2. MemoryOK'
        BY <1>0, <1>2, <2>4, <2>8, <3>1 DEF MemoryOK
    <3>3. Owns(p)' <=> Owns(p)
        BY <1>1, <2>7, <2>9, <3>1 DEF Owns, Top, HelpLabels
    <3>4. \A q \in Threads : Owns(q)' <=> Owns(q)
        BY <1>0, <2>9, <3>3, OthersOwn
    <3>5. ASSUME NEW q \in Threads \ {p} PROVE StackOK(q)'
      <4>1. stack'[q] = stack[q] /\ StackOK(q)
          BY <1>0, <3>1 DEF FramesOK
      <4>2. CASE q = t
        <5>1. stack[q] = <<Top(q)>> /\ OwnFrame(q, Top(q)) /\ Top(q)' = Top(q)
            BY <1>0, <2>1, <4>1, <4>2, Owner DEF Top
        <5>2. stack'[q] = <<stack'[q][1]>> /\ stack'[q][1] = Top(q)
            BY <4>1, <5>1
        <5>3. D(q)'.state # "undecided"
            BY <2>1, <2>2, <2>4, <4>2 DEF Decided
        <5>4. OwnFrame(q, Top(q))'
            BY <2>5, <2>8, <5>1, <5>3 DEF OwnFrame
        <5> QED BY <5>1, <5>2, <5>4 DEF StackOK
      <4>3. CASE q # t
          BY <1>2, <2>4, <2>8, <4>1, <4>3 DEF StackOK, CallFrame, OwnFrame
      <4> QED BY <4>2, <4>3
    <3>6. ASSUME NEW q \in Threads, (stack[q] # << >> /\ Top(q).pc \in HelpLabels)'
          PROVE  HelpOK(Top(q))'
      <4>1. CASE q = p
        <5>1. Top(q)' = h /\ h.tag[2] = t
            BY <2>1, <2>7, <3>1, <4>1 DEF TagOf
        <5>2. h.f \in DcssOps /\ h.tag[3] <= D(t).seq /\ D(t).f \in DcssOps /\ h.f = D(t).f
            BY <1>1, <1>3, <2>1, <2>7, <5>1 DEF HelpOK
        <5>3. Owns(t)' /\ h.state = D(t)'.state /\ D(t)'.seq = D(t).seq /\ D(t)'.f = D(t).f
            BY <2>1, <2>2, <2>4, <2>7, <3>4
        <5> QED BY <5>1, <5>2, <5>3 DEF HelpOK
      <4>2. CASE q # p
        <5> PICK k : k = Top(q)
            OBVIOUS
        <5>1. Top(q)' = k /\ k \in HelpFrames /\ HelpOK(k)
          <6>1. stack'[q] = stack[q] /\ Top(q)' = Top(q)
              BY <3>1, <4>2 DEF Top
          <6>2. stack[q] # << >> /\ Top(q).pc \in HelpLabels
              BY <3>6, <6>1
          <6> QED BY <1>0, <6>1, <6>2, InHelp
        <5> PICK u \in Threads : u = k.tag[2]
            BY <5>1, TagType
        <5>2. CASE u # t
            BY <2>4, <2>5, <3>4, <5>1, <5>2 DEF HelpOK
        <5>3. CASE u = t
          <6>1. k.tag = TagOf(t) => k.pc # "dcss_finish"
              BY <2>1, <5>1, <5>3 DEF HelpOK, HelpFrames, Decided
          <6> QED BY <2>1, <2>5, <3>4, <5>1, <5>3, <6>1 DEF HelpOK
        <5> QED BY <5>2, <5>3
      <4> QED BY <4>1, <4>2
    <3>7. ASSUME NEW a \in Addresses PROVE WordOK(a)'
      <4>1. WordOK(a)
          BY <1>0 DEF FramesOK
      <4> QED BY <1>2, <2>5, <2>8, <3>4, <4>1 DEF WordOK
    <3>8. ASSUME NEW u \in Threads, NEW k, Proposed(u, k)' PROVE Proposed(u, k)
      <4>1. PICK q \in Threads : (/\ stack[q] # << >> /\ Top(q).pc \in Proposing
                                  /\ Top(q).tag = TagOf(u) /\ Top(q).state = k)'
          BY <3>8 DEF Proposed, Proposing
      <4>2. q # p
          BY <2>7, <3>1, <4>1 DEF Proposing
      <4>3. stack'[q] = stack[q] /\ Top(q)' = Top(q)
          BY <3>1, <4>2 DEF Top
      <4> QED BY <2>5, <4>1, <4>3 DEF Proposed, Proposing
    <3>9. Proposed(t, g.state)
        BY <1>1, <2>1 DEF Proposed
    <3>10. ASSUME NEW x \in Outcomes, Allowed(x)' PROVE Allowed(x) /\ View(x)' = View(x)
      <4>1. View(x)' = View(x)
          BY <1>0, <1>2, <2>8, ViewSame
      <4>2. x[t] = g.state
          BY <2>1, <2>2, <2>4, <3>4, <3>10 DEF Allowed, Decided
      <4>3. ASSUME NEW u \in Threads
            PROVE  IF ~Owns(u) THEN x[u] = "undecided"
                   ELSE IF D(u).state = "undecided" THEN x[u] = "undecided" \/ Proposed(u, x[u])
                   ELSE x[u] = D(u).state
        <5>1. CASE u = t
            BY <2>1, <3>9, <4>2, <5>1
        <5>2. CASE u # t
            BY <2>4, <3>4, <3>8, <3>10, <5>2 DEF Allowed
        <5> QED BY <5>1, <5>2
      <4> QED BY <4>1, <4>3 DEF Allowed
    <3>11. OutcomesOK'
        BY <1>0, <1>2, <3>10, HistorySame, SameOutcomes
    <3> QED BY <3>2, <3>3, <3>5, <3>6, <3>7, <3>11 DEF FramesOK
  <2>10. ObjectOK'
      BY <1>0, <1>2, HistorySame
  <2>11. CASE Owns(p)
    <3>1. stack[p] = <<g>> /\ OwnFrame(p, g)
        BY <1>0, <2>11, Owner
    <3>2. StackChanges(p, <<h>>)
        BY <2>6, <3>1, PutOne
    <3>3. stack'[p] = <<h>>
        BY <1>0, <3>2, StackIs
    <3>4. t = p
        BY <2>1, <3>1 DEF OwnFrame, TagOf
    <3>5. D(p)'.state # "undecided"
        BY <2>1, <2>2, <2>4, <3>4 DEF Decided
    <3>6. OwnFrame(p, h)'
        BY <2>5, <2>7, <2>8, <3>1, <3>5 DEF OwnFrame
    <3>7. StackOK(p)'
        BY <3>3, <3>6 DEF StackOK
    <3> QED BY <2>9, <2>10, <3>2, <3>7 DEF DcssInv
  <2>12. CASE ~Owns(p)
    <3>1. PICK b : /\ ~g.own /\ stack[p] = <<g, b>>
                   /\ CallFrame(p, b) /\ b.pc \in {"dcss", "dcss_read"}
        BY <1>0, <1>1, <2>12, InHelp
    <3>2. StackChanges(p, <<h, b>>)
        BY <2>6, <3>1, PutTwo
    <3>3. stack'[p] = <<h, b>> /\ ~h.own
        BY <1>0, <2>7, <3>1, <3>2, StackIs
    <3>4. p # t
        BY <2>1, <2>12
    <3>5. CallFrame(p, b)'
        BY <2>4, <2>8, <3>1, <3>4 DEF CallFrame
    <3>6. StackOK(p)'
      <4>1. stack'[p] = <<stack'[p][1], stack'[p][2]>> /\ stack'[p][1] = h /\ stack'[p][2] = b
          BY <3>3
      <4> QED BY <2>7, <3>1, <3>3, <3>5, <4>1 DEF StackOK
    <3> QED BY <2>9, <2>10, <3>2, <3>6 DEF DcssInv
  <2> QED BY <2>11, <2>12
<1> QED BY <1>5, <1>6

\* A descriptor gets another number, which no helper knows.
LEMMA Renewed ==
    ASSUME DcssInv, NEW p \in Threads, ~Owns(p), NEW d \in Descriptors, DescriptorChanges(p, d),
           D(p).seq < d.seq, NEW b, StackChanges(p, <<b>>), b.pc \notin HelpLabels,
           UNCHANGED <<scheme, word, tid, history>>, CallFrame(p, b)'
    PROVE  DcssInv'
<1>0. FramesOK /\ ObjectOK /\ OutcomesOK /\ MemoryOK
    BY DEF DcssInv, FramesOK
<1>1. word' = word /\ tid' = tid /\ doing' = doing /\ todo' = todo /\ UNCHANGED history
    BY DEF history
<1>2. /\ desc' \in [{"dcss", "kcas", "rdcss"} -> [Tids -> Descriptors]]
      /\ D(p)' = d /\ \A u \in Threads \ {p} : D(u)' = D(u) /\ TagOf(u)' = TagOf(u)
    BY <1>0, DescriptorsAre
<1>3. /\ stack' = [q \in Threads |-> stack'[q]]
      /\ stack'[p] = <<b>> /\ (\A q \in Threads \ {p} : stack'[q] = stack[q]) /\ Top(p)' = b
    BY <1>0, StackIs DEF Top
<1>4. ~Owns(p)'
    BY <1>3 DEF Owns
<1>5. \A q \in Threads : Owns(q)' <=> Owns(q)
    BY <1>0, <1>4, OthersOwn
<1>6. MemoryOK'
    BY <1>0, <1>1, <1>2, <1>3 DEF MemoryOK
<1>7. ASSUME NEW q \in Threads PROVE StackOK(q)'
  <2>1. CASE q = p
      BY <1>3, <2>1 DEF StackOK
  <2>2. CASE q # p
    <3>1. stack'[q] = stack[q] /\ StackOK(q)
        BY <1>0, <1>3, <2>2 DEF FramesOK
    <3> QED BY <1>1, <1>2, <2>2, <3>1 DEF StackOK, CallFrame, OwnFrame
  <2> QED BY <2>1, <2>2
<1>8. D(p).seq \in Nat /\ d.seq \in Nat
    BY <1>0, DescriptorType DEF Descriptors
<1>9. ASSUME NEW q \in Threads, (stack[q] # << >> /\ Top(q).pc \in HelpLabels)'
      PROVE  HelpOK(Top(q))'
  <2>1. q # p
      BY <1>3, <1>9
  <2> PICK k : k = Top(q)
      OBVIOUS
  <2>2. Top(q)' = k /\ k \in HelpFrames /\ HelpOK(k)
    <3>1. stack'[q] = stack[q] /\ Top(q)' = Top(q)
        BY <1>3, <2>1 DEF Top
    <3>2. stack[q] # << >> /\ Top(q).pc \in HelpLabels
        BY <1>9, <3>1
    <3> QED BY <1>0, <3>1, <3>2, InHelp
  <2> PICK u \in Threads : u = k.tag[2]
      BY <2>2, TagType
  <2>3. CASE u # p
      BY <1>2, <1>5, <2>2, <2>3 DEF HelpOK
  <2>4. CASE u = p
    <3>1. k.tag[3] \in Nat /\ k.tag[3] <= D(p).seq /\ (k.pc # "dcss_help" => k.f \in DcssOps)
        BY <2>2, <2>4, TagType DEF HelpOK
    <3>2. k.tag[3] < D(p)'.seq
        BY <1>2, <1>8, <3>1
    <3>3. k.tag # TagOf(p)'
        BY <1>2, <1>8, <3>1, <3>2 DEF TagOf
    <3>4. k.tag[3] <= D(p)'.seq
        BY <1>2, <1>8, <3>1, <3>2
    <3> QED BY <2>2, <2>4, <3>1, <3>3, <3>4 DEF HelpOK
  <2> QED BY <2>3, <2>4
<1>10. ASSUME NEW a \in Addresses PROVE WordOK(a)'
  <2>1. WordOK(a)
      BY <1>0 DEF FramesOK
  <2>2. \A t \in Threads : Owns(t) => TagOf(t)' = TagOf(t)
      BY <1>2
  <2> QED BY <1>1, <1>5, <2>1, <2>2 DEF WordOK
<1>11. ASSUME NEW u \in Threads \ {p}, NEW k, Proposed(u, k)' PROVE Proposed(u, k)
  <2>1. PICK q \in Threads : (/\ stack[q] # << >> /\ Top(q).pc \in Proposing
                              /\ Top(q).tag = TagOf(u) /\ Top(q).state = k)'
      BY <1>11 DEF Proposed, Proposing
  <2>2. q # p
      BY <1>3, <2>1 DEF Proposing, HelpLabels
  <2>3. stack'[q] = stack[q] /\ Top(q)' = Top(q)
      BY <1>3, <2>2 DEF Top
  <2> QED BY <1>2, <2>1, <2>3 DEF Proposed, Proposing
<1>12. ASSUME NEW x \in Outcomes, Allowed(x)' PROVE Allowed(x) /\ View(x)' = View(x)
  <2>1. View(x)' = View(x)
      BY <1>0, <1>1, ViewSame
  <2>2. ASSUME NEW u \in Threads
        PROVE  IF ~Owns(u) THEN x[u] = "undecided"
               ELSE IF D(u).state = "undecided" THEN x[u] = "undecided" \/ Proposed(u, x[u])
               ELSE x[u] = D(u).state
    <3>1. CASE u = p
        BY <1>4, <1>12, <3>1 DEF Allowed
    <3>2. CASE u # p
        BY <1>2, <1>5, <1>11, <1>12, <3>2 DEF Allowed
    <3> QED BY <3>1, <3>2
  <2> QED BY <2>1, <2>2 DEF Allowed
<1>13. ObjectOK' /\ OutcomesOK'
    BY <1>0, <1>1, <1>12, HistorySame, SameOutcomes
<1> QED BY <1>6, <1>7, <1>9, <1>10, <1>13 DEF DcssInv, FramesOK

LEMMA dcssNewOK ==
    ASSUME DcssInv, NEW p \in Threads, dcssNew(p)
    PROVE  DcssInv'
<1>0. FramesOK /\ ObjectOK /\ MemoryOK
    BY DEF DcssInv, FramesOK
<1>1. stack[p] # << >> /\ Top(p).pc = "dcss_new"
    BY DEF dcssNew, At
<1> PICK g : g = Top(p)
    OBVIOUS
<1>2. stack[p] = <<g>> /\ g \in NewFrames /\ doing[p] = g.op /\ ~Owns(p)
    BY <1>0, <1>1, InNew
<1> PICK b : b = [g EXCEPT !.pc = "dcss_fields"]
    OBVIOUS
<1>3. b \in NewFrames /\ b.pc = "dcss_fields" /\ b.op = g.op
    BY <1>2 DEF NewFrames
<1>4. StackChanges(p, <<b>>)
    BY <1>2, PutOne DEF dcssNew, Go
<1>5. D(p) \in Descriptors /\ p \in Tids /\ D(p).seq \in Nat
    BY <1>0, DescriptorType
<1> PICK d : d = [D(p) EXCEPT !.seq = D(p).seq + 1, !.state = "undecided"]
    OBVIOUS
<1>6. d \in Descriptors /\ d.seq = D(p).seq + 1 /\ d.state = "undecided"
  <2> PICK e : e = D(p)
      OBVIOUS
  <2>1. e \in Descriptors /\ d = [e EXCEPT !.seq = e.seq + 1, !.state = "undecided"]
      BY <1>5
  <2>2. e.seq + 1 \in Nat
      BY <1>5
  <2> QED BY <2>1, <2>2 DEF Descriptors, States
<1>7. DescriptorChanges(p, d)
  <2>1. tid[p] = p
      BY <1>0 DEF MemoryOK
  <2>2. desc' = [desc EXCEPT !["dcss"][p].seq = @ + 1, !["dcss"][p].state = "undecided"]
      BY <2>1 DEF dcssNew, NewDescriptor
  <2>3. desc \in [{"dcss", "kcas", "rdcss"} -> [Tids -> Descriptors]]
      BY <1>0 DEF MemoryOK
  <2> QED BY <1>5, <2>2, <2>3 DEF DescriptorChanges, D
<1>8. UNCHANGED <<scheme, word, tid, history>>
    BY DEF dcssNew
<1>9. CallFrame(p, b)'
  <2>1. D(p)' = d
      BY <1>0, <1>6, <1>7, DescriptorsAre
  <2> QED BY <1>2, <1>3, <1>6, <1>8, <2>1 DEF CallFrame, history
<1>10. D(p).seq < d.seq /\ b.pc \notin HelpLabels
    BY <1>3, <1>5, <1>6 DEF HelpLabels
<1> QED BY <1>2, <1>4, <1>6, <1>7, <1>8, <1>9, <1>10, Renewed

LEMMA dcssFieldsOK ==
    ASSUME DcssInv, NEW p \in Threads, dcssFields(p)
    PROVE  DcssInv'
<1>0. FramesOK /\ ObjectOK /\ MemoryOK
    BY DEF DcssInv, FramesOK
<1>1. stack[p] # << >> /\ Top(p).pc = "dcss_fields"
    BY DEF dcssFields, At
<1> PICK g : g = Top(p)
    OBVIOUS
<1>2. stack[p] = <<g>> /\ g \in NewFrames /\ doing[p] = g.op /\ ~Owns(p) /\ CallFrame(p, g)
    BY <1>0, <1>1, InNew
<1> PICK b : b = [g EXCEPT !.pc = "dcss"]
    OBVIOUS
<1>3. b \in NewFrames /\ b.pc = "dcss" /\ b.op = g.op
    BY <1>2 DEF NewFrames
<1>4. StackChanges(p, <<b>>)
    BY <1>2, PutOne DEF dcssFields, Go
<1>5. D(p) \in Descriptors /\ p \in Tids /\ D(p).seq \in Nat
    BY <1>0, DescriptorType
<1> PICK d : d = [D(p) EXCEPT !.seq = D(p).seq + 1, !.f = g.op]
    OBVIOUS
<1>6. d \in Descriptors /\ d.seq = D(p).seq + 1 /\ d.f = g.op /\ d.state = D(p).state
  <2> PICK e : e = D(p)
      OBVIOUS
  <2>1. e \in Descriptors /\ d = [e EXCEPT !.seq = e.seq + 1, !.f = g.op]
      BY <1>5
  <2>2. e.seq + 1 \in Nat /\ g.op \in DcssOps
      BY <1>2, <1>5 DEF NewFrames
  <2> QED BY <2>1, <2>2 DEF Descriptors
<1>7. DescriptorChanges(p, d)
  <2>1. tid[p] = p
      BY <1>0 DEF MemoryOK
  <2>2. desc' = [desc EXCEPT !["dcss"][p].seq = @ + 1, !["dcss"][p].f = g.op]
      BY <2>1 DEF dcssFields, Initialized
  <2>3. desc \in [{"dcss", "kcas", "rdcss"} -> [Tids -> Descriptors]]
      BY <1>0 DEF MemoryOK
  <2> QED BY <1>5, <2>2, <2>3 DEF DescriptorChanges, D
<1>8. UNCHANGED <<scheme, word, tid, history>>
    BY DEF dcssFields
<1>9. CallFrame(p, b)'
  <2>1. D(p)' = d
      BY <1>0, <1>6, <1>7, DescriptorsAre
  <2>2. D(p).state = "undecided"
      BY <1>1, <1>2 DEF CallFrame, NewFrames, ReadFrames, StoreFrames
  <2> QED BY <1>2, <1>3, <1>6, <1>8, <2>1, <2>2 DEF CallFrame, history
<1>10. D(p).seq < d.seq /\ b.pc \notin HelpLabels
    BY <1>3, <1>5, <1>6 DEF HelpLabels
<1> QED BY <1>2, <1>4, <1>6, <1>7, <1>8, <1>9, <1>10, Renewed

-----------------------------------------------------------------------------
(***************************************************************************)
(* A call ends.  In the outcomes it had, when it did not own a descriptor, *)
(* it takes effect now; when it did, it has taken effect already.          *)
(***************************************************************************)
LEMMA AnswerTypes ==
    ASSUME ObjectOK, NEW p \in Threads, NEW r, Answer(p, r)
    PROVE  /\ ObjectOK' /\ views' \subseteq Explained' /\ todo' = todo
           /\ doing'[p] = Nothing /\ \A q \in Threads \ {p} : doing'[q] = doing[q]
           /\ \A v \in Explained : v.got[p] = r =>
                 [state |-> v.state, got |-> [v.got EXCEPT ![p] = Nothing]] \in Explained'
<1>1. /\ views' = {[v EXCEPT !.got[p] = Nothing] : v \in {w \in Explained : w.got[p] = r}}
      /\ doing' = [doing EXCEPT ![p] = Nothing] /\ todo' = todo
    BY DEF Answer
<1>2. Explained \subseteq Views
    BY ExplainedType
<1>3. ASSUME NEW v \in Explained
      PROVE  /\ [v EXCEPT !.got[p] = Nothing] \in Views
             /\ [v EXCEPT !.got[p] = Nothing] = [state |-> v.state, got |-> [v.got EXCEPT ![p] = Nothing]]
  <2> PICK w : w = [v EXCEPT !.got[p] = Nothing]
      OBVIOUS
  <2>1. w.state = v.state /\ w.got = [v.got EXCEPT ![p] = Nothing] /\ w \in Views
      BY <1>2 DEF Views
  <2>2. w = [state |-> w.state, got |-> w.got]
      BY <2>1 DEF Views
  <2> QED BY <2>1, <2>2
<1>4. ASSUME NEW w \in views'
      PROVE  \E v \in Explained : v.got[p] = r /\ w = [v EXCEPT !.got[p] = Nothing]
    BY <1>1, <1>4, Zenon
<1>5. views' \subseteq Views
  <2> SUFFICES ASSUME NEW w \in views' PROVE w \in Views
      OBVIOUS
  <2>1. PICK v \in Explained : w = [v EXCEPT !.got[p] = Nothing]
      BY <1>4
  <2> QED BY <1>3, <2>1
<1>6. ObjectOK'
  <2>1. (doing \in [Threads -> Calls \cup {Nothing}])'
      BY <1>1 DEF ObjectOK, Doing
  <2>2. (views \subseteq Views)'
      BY <1>5
  <2>3. IsMultiword'
      BY DEF ObjectOK, IsMultiword
  <2>4. ("dcss" \in DOMAIN Programs)'
      BY DEF ObjectOK
  <2> QED BY <2>1, <2>2, <2>3, <2>4 DEF ObjectOK, Doing
<1>7. views' \subseteq Explained'
    BY ExplainedNext
<1>8. ASSUME NEW v \in Explained, v.got[p] = r
      PROVE  [state |-> v.state, got |-> [v.got EXCEPT ![p] = Nothing]] \in Explained'
  <2>1. v \in {w \in Explained : w.got[p] = r}
      BY <1>8
  <2>2. [v EXCEPT !.got[p] = Nothing] \in views'
      BY <1>1, <2>1, Zenon
  <2> QED BY <1>3, <1>7, <2>2
<1>9. doing'[p] = Nothing /\ \A q \in Threads \ {p} : doing'[q] = doing[q]
    BY <1>1 DEF ObjectOK, Doing
<1> QED BY <1>1, <1>6, <1>7, <1>8, <1>9

LEMMA AnswerFrames ==
    ASSUME FramesOK, ObjectOK, NEW p \in Threads, NEW r, Answer(p, r), StackChanges(p, << >>),
           UNCHANGED <<scheme, desc, tid>>, word' = [a \in Addresses |-> word'[a]],
           Owns(p) => D(p).state # "undecided",
           \A a \in Addresses : word'[a] \in Plain \/ (word'[a] = word[a] /\ word[a] # TagOf(p)),
           \A q \in Threads \ {p} :
              Owns(q) /\ D(q).state = "undecided" => word'[doing[q].addr2] = word[doing[q].addr2]
    PROVE  FramesOK'
<1>0. MemoryOK
    BY DEF FramesOK
<1>1. todo' = todo /\ doing'[p] = Nothing /\ \A q \in Threads \ {p} : doing'[q] = doing[q]
    BY AnswerTypes
<1>2. \A u \in Threads : D(u)' = D(u) /\ TagOf(u)' = TagOf(u)
    BY DEF D, TagOf
<1>3. /\ stack' = [q \in Threads |-> stack'[q]]
      /\ stack'[p] = << >> /\ (\A q \in Threads \ {p} : stack'[q] = stack[q])
    BY <1>0, StackIs
<1>4. ~Owns(p)'
    BY <1>3 DEF Owns
<1>5. \A q \in Threads \ {p} : Owns(q)' <=> Owns(q)
    BY <1>0, OthersOwn
<1>6. MemoryOK'
    BY <1>0, <1>1, <1>3 DEF MemoryOK
<1>7. ASSUME NEW q \in Threads PROVE StackOK(q)'
  <2>1. CASE q = p
      BY <1>1, <1>3, <2>1 DEF StackOK
  <2>2. CASE q # p
    <3>1. stack'[q] = stack[q] /\ StackOK(q) /\ doing'[q] = doing[q]
        BY <1>1, <1>3, <2>2 DEF FramesOK
    <3>2. CASE Owns(q)
      <4>1. stack[q] = <<Top(q)>> /\ OwnFrame(q, Top(q)) /\ Top(q)' = Top(q)
          BY <3>1, <3>2, Owner DEF Top
      <4>2. stack'[q] = <<stack'[q][1]>> /\ stack'[q][1] = Top(q)
          BY <3>1, <4>1
      <4>3. OwnFrame(q, Top(q))'
          BY <1>2, <2>2, <3>1, <3>2, <4>1 DEF OwnFrame
      <4> QED BY <4>1, <4>2, <4>3 DEF StackOK
    <3>3. CASE ~Owns(q)
      <4>1. ~(stack[q] = <<stack[q][1]>> /\ OwnFrame(q, stack[q][1]))
        <5> SUFFICES ASSUME stack[q] = <<stack[q][1]>>, OwnFrame(q, stack[q][1]) PROVE FALSE
            OBVIOUS
        <5>1. Top(q) = stack[q][1] /\ stack[q] # << >>
            BY DEF Top
        <5> QED BY <3>3, <5>1 DEF OwnFrame, Owns, HelpFrames
      <4> QED BY <1>2, <3>1, <4>1 DEF StackOK, CallFrame
    <3> QED BY <3>2, <3>3
  <2> QED BY <2>1, <2>2
<1>8. ASSUME NEW q \in Threads, (stack[q] # << >> /\ Top(q).pc \in HelpLabels)'
      PROVE  HelpOK(Top(q))'
  <2>1. q # p
      BY <1>3, <1>8
  <2> PICK k : k = Top(q)
      OBVIOUS
  <2>2. Top(q)' = k /\ k \in HelpFrames /\ HelpOK(k)
    <3>1. stack'[q] = stack[q] /\ Top(q)' = Top(q)
        BY <1>3, <2>1 DEF Top
    <3>2. stack[q] # << >> /\ Top(q).pc \in HelpLabels
        BY <1>8, <3>1
    <3> QED BY <3>1, <3>2, InHelp
  <2>3. k.tag[2] \in Threads
      BY <2>2, TagType
  <2> QED BY <1>2, <1>5, <2>2, <2>3 DEF HelpOK
<1>9. ASSUME NEW a \in Addresses PROVE WordOK(a)'
  <2>1. CASE word'[a] \in Plain
      BY <2>1 DEF WordOK
  <2>2. CASE word'[a] \notin Plain
    <3>1. word'[a] = word[a] /\ word[a] # TagOf(p) /\ WordOK(a)
        BY <2>2 DEF FramesOK
    <3>2. PICK t \in Threads : Owns(t) /\ word[a] = TagOf(t) /\ doing[t].addr2 = a /\ a \notin Direct
        BY <2>2, <3>1, TagIs
    <3>3. t # p
        BY <3>1, <3>2
    <3> QED BY <1>1, <1>2, <1>5, <3>1, <3>2, <3>3 DEF WordOK
  <2> QED BY <2>1, <2>2
<1> QED BY <1>6, <1>7, <1>8, <1>9 DEF FramesOK

\* In every outcome in which the call of p has got z, p may answer r, and the
\* words have the values of a view in which it has.
AnswerExplained(p, r, z) ==
    \A y \in Outcomes : Allowed(y) /\ y[p] = z =>
       \E v \in Explained : /\ v.got = [View(y).got EXCEPT ![p] = r]
                            /\ \A a \in Addresses : v.state[a] = IF word'[a] \in Plain THEN word'[a]
                                                                 ELSE View(y).state[a]

LEMMA AnswerOK ==
    ASSUME DcssInv, NEW p \in Threads, NEW r, Answer(p, r), StackChanges(p, << >>),
           UNCHANGED <<scheme, desc, tid>>, word' = [a \in Addresses |-> word'[a]],
           NEW z \in States,
           IF Owns(p) THEN z = D(p).state /\ z # "undecided" ELSE z = "undecided",
           \A a \in Addresses : word'[a] \in Plain \/ (word'[a] = word[a] /\ word[a] # TagOf(p)),
           \A q \in Threads \ {p} :
              Owns(q) /\ D(q).state = "undecided" => word'[doing[q].addr2] = word[doing[q].addr2],
           AnswerExplained(p, r, z)
    PROVE  DcssInv'
<1>0. FramesOK /\ ObjectOK /\ OutcomesOK /\ MemoryOK
    BY DEF DcssInv, FramesOK
<1>1. FramesOK'
    BY <1>0, AnswerFrames
<1>2. /\ ObjectOK' /\ \A q \in Threads \ {p} : doing'[q] = doing[q]
      /\ \A v \in Explained : v.got[p] = r =>
            [state |-> v.state, got |-> [v.got EXCEPT ![p] = Nothing]] \in Explained'
    BY <1>0, AnswerTypes
<1>3. stack'[p] = << >> /\ (\A q \in Threads \ {p} : stack'[q] = stack[q])
    BY <1>0, StackIs
<1>4. ~Owns(p)'
    BY <1>3 DEF Owns
<1>5. \A q \in Threads \ {p} : Owns(q)' <=> Owns(q)
    BY <1>0, OthersOwn
<1>6. \A u \in Threads : D(u)' = D(u) /\ TagOf(u)' = TagOf(u)
    BY DEF D, TagOf
<1>7. ASSUME NEW u \in Threads, NEW k, Proposed(u, k)' PROVE Proposed(u, k)
  <2>1. PICK q \in Threads : (/\ stack[q] # << >> /\ Top(q).pc \in Proposing
                              /\ Top(q).tag = TagOf(u) /\ Top(q).state = k)'
      BY <1>7 DEF Proposed, Proposing
  <2>2. q # p
      BY <1>3, <2>1
  <2>3. stack'[q] = stack[q] /\ Top(q)' = Top(q)
      BY <1>3, <2>2 DEF Top
  <2> QED BY <1>6, <2>1, <2>3 DEF Proposed, Proposing
<1>8. ASSUME NEW x \in Outcomes, Allowed(x)' PROVE View(x)' \in Explained'
  <2> PICK y : y = [x EXCEPT ![p] = z]
      OBVIOUS
  <2>1. y \in Outcomes /\ y[p] = z /\ (\A u \in Threads \ {p} : y[u] = x[u])
      BY DEF Outcomes
  <2>2. x[p] = "undecided"
      BY <1>4, <1>8 DEF Allowed
  <2>3. ASSUME NEW u \in Threads
        PROVE  IF ~Owns(u) THEN y[u] = "undecided"
               ELSE IF D(u).state = "undecided" THEN y[u] = "undecided" \/ Proposed(u, y[u])
               ELSE y[u] = D(u).state
    <3>1. CASE u = p
        BY <2>1, <3>1
    <3>2. CASE u # p
        BY <1>5, <1>6, <1>7, <1>8, <2>1, <3>2 DEF Allowed
    <3> QED BY <3>1, <3>2
  <2>4. Allowed(y)
      BY <2>3 DEF Allowed
  <2>5. PICK v \in Explained : /\ v.got = [View(y).got EXCEPT ![p] = r]
                               /\ \A a \in Addresses : v.state[a] = IF word'[a] \in Plain THEN word'[a]
                                                                    ELSE View(y).state[a]
      BY <2>1, <2>4 DEF AnswerExplained
  <2>6. v \in Views
      BY <1>0, <2>5, ExplainedType
  <2> PICK g, k : g = View(y).got /\ k = [t \in Threads |-> GotOf(x[t])]
      OBVIOUS
  <2>7. g = [t \in Threads |-> GotOf(y[t])]
      BY DEF View
  <2>8. v.got[p] = r
      BY <2>5, <2>7
  <2>9. [v.got EXCEPT ![p] = Nothing] = k
    <3> PICK e : e = [v.got EXCEPT ![p] = Nothing]
        OBVIOUS
    <3>1. v.got = [g EXCEPT ![p] = r]
        BY <2>5
    <3>2. e = [t \in Threads |-> e[t]]
        BY <2>7, <3>1
    <3>3. ASSUME NEW t \in Threads PROVE e[t] = GotOf(x[t])
      <4>1. CASE t = p
          BY <2>2, <2>7, <3>1, <4>1 DEF GotOf
      <4>2. CASE t # p
          BY <2>1, <2>7, <3>1, <4>2
      <4> QED BY <4>1, <4>2
    <3>4. e = [t \in Threads |-> GotOf(x[t])]
        BY <3>2, <3>3, Zenon
    <3> QED BY <3>4
  <2>10. v.state = [a \in Addresses |-> ValueOf(a, x)']
    <3>1. v.state = [a \in Addresses |-> v.state[a]]
        BY <2>6 DEF Views, Memories
    <3>2. ASSUME NEW a \in Addresses PROVE v.state[a] = ValueOf(a, x)'
      <4>1. CASE word'[a] \in Plain
        <5>1. ~IsTagged(word'[a])
            BY <4>1, PlainIs
        <5> QED BY <2>5, <4>1, <5>1 DEF ValueOf, IsTagged
      <4>2. CASE word'[a] \notin Plain
        <5>1. word'[a] = word[a] /\ word[a] # TagOf(p)
            BY <4>2
        <5>2. PICK u \in Threads : Owns(u) /\ word[a] = TagOf(u) /\ doing[u].addr2 = a
            BY <1>0, <4>2, <5>1, TagIs
        <5>3. u # p /\ doing'[u] = doing[u] /\ y[u] = x[u]
            BY <1>2, <2>1, <5>1, <5>2
        <5>4. View(y).state[a] = IF y[u] = "succeeded" THEN doing[u].new2 ELSE doing[u].old2
          <6>1. \A w \in Outcomes :
                   View(w).state[a] = IF w[u] = "succeeded" THEN doing[u].new2 ELSE doing[u].old2
              BY <1>0, <5>2, ValueIs
          <6> QED BY <2>1, <6>1
        <5>5. IsTagged(word'[a]) /\ word'[a][2] = u
            BY <5>1, <5>2 DEF TagOf, IsTagged
        <5>6. ValueOf(a, x)' = IF x[u] = "succeeded" THEN doing'[u].new2 ELSE doing'[u].old2
            BY <5>5 DEF ValueOf, IsTagged
        <5> QED BY <2>5, <4>2, <5>3, <5>4, <5>6
      <4> QED BY <4>1, <4>2
    <3> QED BY <3>1, <3>2, Zenon
  <2>11. View(x)' = [state |-> [a \in Addresses |-> ValueOf(a, x)'], got |-> k]
      BY DEF View
  <2>12. View(x)' = [state |-> v.state, got |-> [v.got EXCEPT ![p] = Nothing]]
      BY <2>9, <2>10, <2>11, Zenon
  <2>13. [state |-> v.state, got |-> [v.got EXCEPT ![p] = Nothing]] \in Explained'
      BY <1>2, <2>5, <2>8
  <2> QED BY <2>12, <2>13, Zenon
<1>9. OutcomesOK'
    BY <1>8 DEF OutcomesOK
<1> QED BY <1>1, <1>2, <1>9 DEF DcssInv

\* A call that takes effect at its answer.
LEMMA AnswersNow ==
    ASSUME DcssInv, NEW p \in Threads, ~Owns(p), doing[p] # Nothing,
           NEW r \in DcssAnswers, NEW y \in Outcomes, Allowed(y), NEW n \in Memories,
           Apply(doing[p], View(y).state) = {<<n, r>>}
    PROVE  \E v \in Explained : v.got = [View(y).got EXCEPT ![p] = r] /\ v.state = n
<1>0. FramesOK /\ ObjectOK /\ OutcomesOK
    BY DEF DcssInv
<1>1. View(y) \in Explained /\ View(y) \in Views
    BY <1>0, ViewType DEF OutcomesOK
<1>2. y[p] = "undecided"
    BY DEF Allowed
<1>3. May(View(y), p)
    BY <1>2 DEF May, View, GotOf
<1> PICK v : v = [state |-> n, got |-> [View(y).got EXCEPT ![p] = r]]
    OBVIOUS
<1>4. v \in With(View(y), p)
    BY <1>1, WithIs
<1>5. v \in Explained
    BY <1>0, <1>1, <1>3, <1>4, ExplainedClosed
<1> QED BY <1>5

LEMMA NoTag ==
    ASSUME FramesOK, NEW p \in Threads, ~Owns(p), NEW a \in Addresses
    PROVE  word[a] # TagOf(p)
<1> SUFFICES ASSUME word[a] = TagOf(p) PROVE FALSE
    OBVIOUS
<1>1. word[a] \notin Plain
    BY PlainIs DEF TagOf, IsTagged
<1>2. PICK t \in Threads : Owns(t) /\ word[a] = TagOf(t)
    BY <1>1, TagIs
<1> QED BY <1>2 DEF TagOf

\* A read, or a DCSS that does not find old2, takes effect where it has found
\* a value.
LEMMA FoundOK ==
    ASSUME DcssInv, NEW p \in Threads, ~Owns(p), doing[p] # Nothing, NEW r \in DcssAnswers,
           Answer(p, r), StackChanges(p, << >>), UNCHANGED memory,
           \A m \in Memories : (\A a \in Addresses : word[a] \in Plain => m[a] = word[a]) =>
              Apply(doing[p], m) = {<<m, r>>}
    PROVE  DcssInv'
<1>0. FramesOK /\ ObjectOK /\ MemoryOK
    BY DEF DcssInv, FramesOK
<1>1. UNCHANGED <<scheme, desc, tid>> /\ word' = word
    BY DEF memory
<1>2. word' = [a \in Addresses |-> word'[a]]
    BY <1>0, <1>1 DEF MemoryOK
<1>3. \A a \in Addresses : word'[a] \in Plain \/ (word'[a] = word[a] /\ word[a] # TagOf(p))
    BY <1>0, <1>1, NoTag
<1>4. \A q \in Threads \ {p} :
         Owns(q) /\ D(q).state = "undecided" => word'[doing[q].addr2] = word[doing[q].addr2]
    BY <1>1
<1>5. ASSUME NEW y \in Outcomes, Allowed(y), y[p] = "undecided"
      PROVE  \E v \in Explained : /\ v.got = [View(y).got EXCEPT ![p] = r]
                                  /\ \A a \in Addresses : v.state[a] = IF word'[a] \in Plain THEN word'[a]
                                                                       ELSE View(y).state[a]
  <2> PICK m : m = View(y).state
      OBVIOUS
  <2>1. m \in Memories
      BY <1>0, ViewType DEF Views
  <2>2. \A a \in Addresses : word[a] \in Plain => m[a] = word[a]
      BY <1>0, ValueIs
  <2>3. Apply(doing[p], m) = {<<m, r>>}
      BY <2>1, <2>2
  <2>4. PICK v \in Explained : v.got = [View(y).got EXCEPT ![p] = r] /\ v.state = m
      BY <1>5, <2>1, <2>3, AnswersNow
  <2>5. \A a \in Addresses : v.state[a] = IF word'[a] \in Plain THEN word'[a] ELSE View(y).state[a]
      BY <1>1, <2>2, <2>4
  <2> QED BY <2>4, <2>5
<1> PICK z \in States : z = "undecided"
    BY DEF States
<1>6. AnswerExplained(p, r, z)
    BY <1>5 DEF AnswerExplained
<1> QED BY <1>1, <1>2, <1>3, <1>4, <1>6, AnswerOK

LEMMA dcssReadOK ==
    ASSUME DcssInv, NEW p \in Threads, dcssRead(p)
    PROVE  DcssInv'
<1>0. FramesOK /\ ObjectOK
    BY DEF DcssInv
<1>1. stack[p] # << >> /\ Top(p).pc = "dcss_read" /\ UNCHANGED memory
    BY DEF dcssRead, At
<1> PICK g : g = Top(p)
    OBVIOUS
<1>2. /\ stack[p] = <<g>> /\ g \in ReadFrames /\ CallFrame(p, g) /\ ~Owns(p)
      /\ doing[p] \in Calls /\ doing[p].do = "read" /\ doing[p].addr = g.addr
    BY <1>0, <1>1, InRead
<1>3. g.addr \in Addresses /\ doing[p] # Nothing
    BY <1>0, <1>2, DirectIs DEF ReadFrames, ObjectOK
<1> PICK r : r = word[g.addr]
    OBVIOUS
<1>4. CASE Is("dcss", r)
  <2>1. Invoke(p, g, HelpFrame(r, FALSE, Nothing, "dcss_help")) /\ UNCHANGED history
      BY <1>4 DEF dcssRead
  <2>2. UNCHANGED <<memory, history>> /\ g.pc \in {"dcss", "dcss_read"}
      BY <1>1, <2>1
  <2> QED BY <1>2, <1>3, <1>4, <2>1, <2>2, HelperBegins
<1>5. CASE ~Is("dcss", r)
  <2>1. Return(p, <<"value", r>>)
      BY <1>5 DEF dcssRead
  <2>2. Answer(p, <<"value", r>>) /\ StackChanges(p, << >>)
      BY <1>2, <2>1, ReturnOne
  <2>3. r \in Plain
      BY <1>0, <1>3, <1>5, TagIs
  <2>4. <<"value", r>> \in DcssAnswers
      BY <2>3 DEF DcssAnswers
  <2>5. ASSUME NEW m \in Memories, \A a \in Addresses : word[a] \in Plain => m[a] = word[a]
        PROVE  Apply(doing[p], m) = {<<m, <<"value", r>>>>}
    <3>1. Apply(doing[p], m) = {<<m, <<"value", m[doing[p].addr]>>>>}
        BY <1>0, <1>2, Effects DEF ObjectOK
    <3>2. m[doing[p].addr] = r
        BY <1>2, <1>3, <2>3, <2>5
    <3> QED BY <3>1, <3>2
  <2> QED BY <1>1, <1>2, <1>3, <2>2, <2>4, <2>5, FoundOK
<1> QED BY <1>4, <1>5

\* The pointer to the descriptor is put into addr2.
LEMMA Installs ==
    ASSUME DcssInv, NEW p \in Threads, NEW g \in NewFrames, stack[p] = <<g>>, CallFrame(p, g), g.pc = "dcss",
           ~Owns(p), NEW op \in DcssOps, op = g.op, word[op.addr2] = op.old2,
           word' = [word EXCEPT ![op.addr2] = TagOf(p)], UNCHANGED <<scheme, desc, tid, history>>,
           NEW h, StackChanges(p, <<h>>),
           h = [pc |-> "dcss_addr1", tag |-> TagOf(p), own |-> TRUE, f |-> op, state |-> "failed"]
    PROVE  DcssInv'
<1>0. FramesOK /\ ObjectOK /\ OutcomesOK /\ MemoryOK
    BY DEF DcssInv, FramesOK
<1>1. doing' = doing /\ todo' = todo /\ UNCHANGED history
    BY DEF history
<1>2. doing[p] = op /\ D(p).f = op /\ D(p).state = "undecided"
    BY DEF CallFrame, NewFrames, ReadFrames, StoreFrames
<1>3. \A u \in Threads : D(u)' = D(u) /\ TagOf(u)' = TagOf(u)
    BY DEF D, TagOf
<1>5. D(p).seq \in Nat
    BY <1>0, DescriptorType
<1>6. h \in HelpFrames /\ h.pc = "dcss_addr1" /\ h.own /\ h.tag = TagOf(p) /\ h.f = op
    BY <1>5 DEF HelpFrames, HelpLabels, Decided, TagOf
<1>7. /\ stack' = [q \in Threads |-> stack'[q]]
      /\ stack'[p] = <<h>> /\ (\A q \in Threads \ {p} : stack'[q] = stack[q]) /\ Top(p)' = h
  <2>1. /\ stack' = [q \in Threads |-> stack'[q]]
        /\ stack'[p] = <<h>> /\ \A q \in Threads \ {p} : stack'[q] = stack[q]
      BY <1>0, StackIs
  <2> QED BY <2>1 DEF Top
<1>8. Owns(p)'
    BY <1>6, <1>7 DEF Owns, HelpLabels
<1>9. \A q \in Threads \ {p} : Owns(q)' <=> Owns(q)
    BY <1>0, OthersOwn
<1>10. op.addr2 \in Addresses /\ op.addr2 \notin Direct /\ op.old2 \in Plain
    BY DEF DcssOps
<1>11. word'[op.addr2] = TagOf(p) /\ \A a \in Addresses \ {op.addr2} : word'[a] = word[a]
    BY <1>0, <1>10 DEF MemoryOK
<1>12. MemoryOK'
    BY <1>0, <1>1, <1>7 DEF MemoryOK
<1>13. ASSUME NEW q \in Threads PROVE StackOK(q)'
  <2>1. CASE q = p
    <3>1. OwnFrame(p, h)'
        BY <1>1, <1>2, <1>3, <1>6, <1>11 DEF OwnFrame
    <3>2. stack'[p] = <<stack'[p][1]>> /\ stack'[p][1] = h
        BY <1>7
    <3> QED BY <2>1, <3>1, <3>2 DEF StackOK
  <2>2. CASE q # p
    <3>1. stack'[q] = stack[q] /\ StackOK(q) /\ doing'[q] = doing[q]
        BY <1>0, <1>1, <1>7, <2>2 DEF FramesOK
    <3>2. CASE Owns(q)
      <4>1. stack[q] = <<Top(q)>> /\ OwnFrame(q, Top(q)) /\ Top(q)' = Top(q)
          BY <1>0, <3>1, <3>2, Owner DEF Top
      <4>2. stack'[q] = <<stack'[q][1]>> /\ stack'[q][1] = Top(q)
          BY <3>1, <4>1
      <4>3. doing[q].addr2 \in Addresses
          BY <4>1 DEF OwnFrame, DcssOps
      <4>4. ~IsTagged(word[op.addr2])
          BY <1>10, PlainIs
      <4>5. D(q).state = "undecided" => word'[doing[q].addr2] = word[doing[q].addr2]
          BY <1>11, <4>1, <4>3, <4>4 DEF OwnFrame, TagOf, IsTagged
      <4>6. OwnFrame(q, Top(q))'
          BY <1>3, <3>1, <4>1, <4>5 DEF OwnFrame
      <4> QED BY <4>1, <4>2, <4>6 DEF StackOK
    <3>3. CASE ~Owns(q)
      <4>1. ~(stack[q] = <<stack[q][1]>> /\ OwnFrame(q, stack[q][1]))
        <5> SUFFICES ASSUME stack[q] = <<stack[q][1]>>, OwnFrame(q, stack[q][1]) PROVE FALSE
            OBVIOUS
        <5>1. Top(q) = stack[q][1] /\ stack[q] # << >>
            BY DEF Top
        <5> QED BY <3>3, <5>1 DEF OwnFrame, Owns, HelpFrames
      <4> QED BY <1>3, <3>1, <4>1 DEF StackOK, CallFrame
    <3> QED BY <3>2, <3>3
  <2> QED BY <2>1, <2>2
<1>14. ASSUME NEW q \in Threads, (stack[q] # << >> /\ Top(q).pc \in HelpLabels)'
       PROVE  HelpOK(Top(q))'
  <2>1. CASE q = p
    <3>1. h.tag[2] = p /\ h.tag[3] = D(p).seq
        BY <1>6 DEF TagOf
    <3> QED BY <1>2, <1>3, <1>5, <1>6, <1>7, <1>8, <2>1, <3>1 DEF HelpOK
  <2>2. CASE q # p
    <3> PICK k : k = Top(q)
        OBVIOUS
    <3>1. Top(q)' = k /\ k \in HelpFrames /\ HelpOK(k)
      <4>1. stack'[q] = stack[q] /\ Top(q)' = Top(q)
          BY <1>7, <2>2 DEF Top
      <4>2. stack[q] # << >> /\ Top(q).pc \in HelpLabels
          BY <1>14, <4>1
      <4> QED BY <1>0, <4>1, <4>2, InHelp
    <3>2. k.tag[2] \in Threads
        BY <3>1, TagType
    <3>3. Owns(k.tag[2]) => Owns(k.tag[2])'
        BY <1>8, <1>9, <3>2
    <3> QED BY <1>3, <3>1, <3>2, <3>3 DEF HelpOK
  <2> QED BY <2>1, <2>2
<1>15. ASSUME NEW a \in Addresses PROVE WordOK(a)'
  <2>1. CASE a = op.addr2
      BY <1>1, <1>2, <1>3, <1>8, <1>10, <1>11, <2>1 DEF WordOK
  <2>2. CASE a # op.addr2
    <3>1. word'[a] = word[a] /\ WordOK(a)
        BY <1>0, <1>11, <2>2 DEF FramesOK
    <3>2. \A q \in Threads : Owns(q) => Owns(q)'
        BY <1>8, <1>9
    <3> QED BY <1>1, <1>3, <3>1, <3>2 DEF WordOK
  <2> QED BY <2>1, <2>2
<1>16. ASSUME NEW u \in Threads, NEW k, Proposed(u, k)' PROVE Proposed(u, k) /\ u # p
  <2>1. PICK q \in Threads : (/\ stack[q] # << >> /\ Top(q).pc \in Proposing
                              /\ Top(q).tag = TagOf(u) /\ Top(q).state = k)'
      BY <1>16 DEF Proposed, Proposing
  <2>2. q # p
      BY <1>6, <1>7, <2>1 DEF Proposing
  <2>3. stack'[q] = stack[q] /\ Top(q)' = Top(q)
      BY <1>7, <2>2 DEF Top
  <2>4. stack[q] # << >> /\ Top(q).pc \in Proposing /\ Top(q).tag = TagOf(u) /\ Top(q).state = k
      BY <1>3, <2>1, <2>3
  <2>5. u # p
    <3> SUFFICES ASSUME u = p PROVE FALSE
        OBVIOUS
    <3>1. HelpOK(Top(q)) /\ Top(q).tag = TagOf(p) /\ Top(q).tag[2] = p
        BY <1>0, <2>4, InHelp DEF Proposing, HelpLabels, TagOf
    <3> QED BY <1>2, <3>1 DEF HelpOK
  <2> QED BY <2>4, <2>5 DEF Proposed, Proposing
<1>17. ASSUME NEW x \in Outcomes, Allowed(x)' PROVE Allowed(x) /\ View(x)' = View(x)
  <2>1. x[p] = "undecided"
      BY <1>2, <1>3, <1>8, <1>16, <1>17 DEF Allowed
  <2>2. ASSUME NEW u \in Threads
        PROVE  IF ~Owns(u) THEN x[u] = "undecided"
               ELSE IF D(u).state = "undecided" THEN x[u] = "undecided" \/ Proposed(u, x[u])
               ELSE x[u] = D(u).state
    <3>1. CASE u = p
        BY <2>1, <3>1
    <3>2. CASE u # p
        BY <1>3, <1>9, <1>16, <1>17, <3>2 DEF Allowed
    <3> QED BY <3>1, <3>2
  <2>3. ASSUME NEW a \in Addresses PROVE ValueOf(a, x)' = ValueOf(a, x)
    <3>1. CASE a = op.addr2
      <4>1. IsTagged(word'[a]) /\ word'[a][2] = p
          BY <1>11, <3>1 DEF TagOf, IsTagged
      <4>2. ValueOf(a, x)' = op.old2
          BY <1>1, <1>2, <2>1, <4>1 DEF ValueOf, IsTagged
      <4>3. ~IsTagged(word[a])
          BY <1>10, <3>1, PlainIs
      <4> QED BY <3>1, <4>2, <4>3 DEF ValueOf
    <3>2. CASE a # op.addr2
      <4>1. word'[a] = word[a]
          BY <1>11, <3>2
      <4> QED BY <1>1, <4>1 DEF ValueOf, IsTagged
    <3> QED BY <3>1, <3>2
  <2>4. View(x)' = View(x)
      BY <2>3, Zenon DEF View
  <2> QED BY <2>2, <2>4 DEF Allowed
<1>18. ObjectOK' /\ OutcomesOK'
    BY <1>0, <1>1, <1>17, HistorySame, SameOutcomes
<1> QED BY <1>12, <1>13, <1>14, <1>15, <1>18 DEF DcssInv, FramesOK

LEMMA dcssInstallOK ==
    ASSUME DcssInv, NEW p \in Threads, dcssInstall(p)
    PROVE  DcssInv'
<1>0. FramesOK /\ ObjectOK /\ MemoryOK
    BY DEF DcssInv, FramesOK
<1>1. stack[p] # << >> /\ Top(p).pc = "dcss" /\ UNCHANGED <<scheme, desc, tid>>
    BY DEF dcssInstall, At
<1> PICK g : g = Top(p)
    OBVIOUS
<1>2. /\ stack[p] = <<g>> /\ g \in NewFrames /\ CallFrame(p, g) /\ ~Owns(p)
      /\ doing[p] = g.op /\ g.op \in DcssOps
    BY <1>0, <1>1, InNew
<1> PICK op \in DcssOps : op = g.op
    BY <1>2
<1>3. D(p).f = op
    BY <1>1, <1>2 DEF CallFrame, NewFrames, ReadFrames, StoreFrames
<1>4. tid[p] = p
    BY <1>0 DEF MemoryOK
<1>5. desc["dcss"][tid[p]].f = op /\ Tag("dcss", tid[p]) = TagOf(p)
    BY <1>3, <1>4 DEF D, Tag, TagOf
<1>6. op.addr2 \in Addresses /\ op.addr2 \notin Direct /\ op.old2 \in Plain
    BY DEF DcssOps
<1> PICK r : r = word[op.addr2]
    OBVIOUS
<1>7. CompareAndSwap(op.addr2, op.old2, TagOf(p))
    BY <1>5 DEF dcssInstall
<1>8. \/ r = op.old2 /\ Put(p, HelpFrame(TagOf(p), TRUE, op, "dcss_addr1")) /\ UNCHANGED history
      \/ Is("dcss", r) /\ Invoke(p, g, HelpFrame(r, FALSE, Nothing, "dcss_help")) /\ UNCHANGED history
      \/ r # op.old2 /\ ~Is("dcss", r) /\ Return(p, <<"failed_addr2", r>>)
    BY <1>5 DEF dcssInstall
<1>9. CASE r = op.old2 /\ Put(p, HelpFrame(TagOf(p), TRUE, op, "dcss_addr1")) /\ UNCHANGED history
  <2> PICK h : h = [pc |-> "dcss_addr1", tag |-> TagOf(p), own |-> TRUE, f |-> op, state |-> "failed"]
      OBVIOUS
  <2>1. Put(p, h)
      BY <1>9, Zenon DEF HelpFrame
  <2>2. StackChanges(p, <<h>>)
      BY <1>2, <2>1, PutOne
  <2>3. word' = [word EXCEPT ![op.addr2] = TagOf(p)]
      BY <1>7, <1>9 DEF CompareAndSwap
  <2> QED BY <1>1, <1>2, <1>9, <2>2, <2>3, Installs
<1>10. CASE Is("dcss", r) /\ Invoke(p, g, HelpFrame(r, FALSE, Nothing, "dcss_help")) /\ UNCHANGED history
  <2>1. r # op.old2
      BY <1>6, <1>10, PlainIs
  <2>2. word' = word
      BY <1>7, <2>1 DEF CompareAndSwap
  <2>3. UNCHANGED <<memory, history>> /\ g.pc \in {"dcss", "dcss_read"}
      BY <1>1, <1>10, <2>2 DEF memory
  <2> QED BY <1>2, <1>6, <1>10, <2>3, HelperBegins
<1>11. CASE r # op.old2 /\ ~Is("dcss", r) /\ Return(p, <<"failed_addr2", r>>)
  <2>1. Answer(p, <<"failed_addr2", r>>) /\ StackChanges(p, << >>)
      BY <1>2, <1>11, ReturnOne
  <2>2. word' = word
      BY <1>7, <1>11 DEF CompareAndSwap
  <2>3. UNCHANGED memory
      BY <1>1, <2>2 DEF memory
  <2>4. r \in Plain
      BY <1>0, <1>6, <1>11, TagIs
  <2>5. <<"failed_addr2", r>> \in DcssAnswers
      BY <2>4 DEF DcssAnswers
  <2>6. op \in Calls /\ op.do = "dcss" /\ op # Nothing
      BY <1>0, DirectIs DEF Calls, DcssCalls, DcssOps, ObjectOK
  <2>7. ASSUME NEW m \in Memories, \A a \in Addresses : word[a] \in Plain => m[a] = word[a]
        PROVE  Apply(doing[p], m) = {<<m, <<"failed_addr2", r>>>>}
    <3>1. Apply(op, m) = {DcssEffect(op, m)}
        BY <1>0, <2>6, Effects DEF ObjectOK
    <3>2. m[op.addr2] = r
        BY <1>6, <2>4, <2>7
    <3>3. DcssEffect(op, m) = <<m, <<"failed_addr2", r>>>>
        BY <1>11, <3>2 DEF DcssEffect
    <3> QED BY <1>2, <3>1, <3>3
  <2> QED BY <1>2, <2>1, <2>3, <2>5, <2>6, <2>7, FoundOK
<1> QED BY <1>8, <1>9, <1>10, <1>11

LEMMA StoreOK ==
    ASSUME DcssInv, NEW p \in Threads, Store(p)
    PROVE  DcssInv'
<1>0. FramesOK /\ ObjectOK /\ MemoryOK
    BY DEF DcssInv, FramesOK
<1>1. stack[p] # << >> /\ Top(p).pc = "store" /\ UNCHANGED <<scheme, desc, tid>>
    BY DEF Store, At
<1> PICK g : g = Top(p)
    OBVIOUS
<1>2. /\ stack[p] = <<g>> /\ g \in StoreFrames /\ ~Owns(p)
      /\ doing[p] = [do |-> "store", addr |-> g.addr, val |-> g.val]
    BY <1>0, <1>1, InStore
<1> PICK b, w : b = g.addr /\ w = g.val
    OBVIOUS
<1>3. b \in Direct /\ b \in Addresses /\ w \in Plain
    BY <1>0, <1>2, DirectIs DEF StoreFrames, ObjectOK
<1>4. doing[p] \in Calls /\ doing[p].do = "store" /\ doing[p].addr = b /\ doing[p].val = w
      /\ doing[p] # Nothing
    BY <1>0, <1>2, <1>3, DirectIs DEF Calls, DcssCalls, ObjectOK
<1>5. word' = [word EXCEPT ![b] = w] /\ Return(p, <<"stored">>)
    BY DEF Store
<1> PICK r : r = <<"stored">>
    OBVIOUS
<1>6. Answer(p, r) /\ StackChanges(p, << >>)
    BY <1>2, <1>5, ReturnOne
<1>7. word' = [a \in Addresses |-> word'[a]] /\ word'[b] = w /\ \A a \in Addresses \ {b} : word'[a] = word[a]
    BY <1>0, <1>3, <1>5 DEF MemoryOK
<1>8. \A a \in Addresses : word'[a] \in Plain \/ (word'[a] = word[a] /\ word[a] # TagOf(p))
    BY <1>0, <1>2, <1>3, <1>7, NoTag
<1>9. ASSUME NEW q \in Threads \ {p}, Owns(q)
      PROVE  word'[doing[q].addr2] = word[doing[q].addr2]
  <2>1. doing[q].addr2 \in Addresses \ Direct
      BY <1>0, <1>9, Owner DEF OwnFrame, DcssOps
  <2> QED BY <1>3, <1>7, <2>1
<1>10. r \in DcssAnswers
    BY DEF DcssAnswers
<1>11. ASSUME NEW y \in Outcomes, Allowed(y), y[p] = "undecided"
       PROVE  \E v \in Explained : /\ v.got = [View(y).got EXCEPT ![p] = r]
                                   /\ \A a \in Addresses : v.state[a] = IF word'[a] \in Plain THEN word'[a]
                                                                        ELSE View(y).state[a]
  <2> PICK m : m = View(y).state
      OBVIOUS
  <2> PICK n : n = [m EXCEPT ![b] = w]
      OBVIOUS
  <2>1. m \in Memories
      BY <1>0, ViewType DEF Views
  <2>2. n \in Memories /\ n[b] = w /\ \A a \in Addresses \ {b} : n[a] = m[a]
      BY <1>3, <2>1 DEF Memories
  <2>3. Apply(doing[p], m) = {<<n, r>>}
      BY <1>0, <1>4, <2>1, Effects DEF ObjectOK
  <2>4. PICK v \in Explained : v.got = [View(y).got EXCEPT ![p] = r] /\ v.state = n
      BY <1>2, <1>4, <1>10, <1>11, <2>2, <2>3, AnswersNow
  <2>5. \A a \in Addresses : word[a] \in Plain => m[a] = word[a]
      BY <1>0, ValueIs
  <2>6. \A a \in Addresses : v.state[a] = IF word'[a] \in Plain THEN word'[a] ELSE View(y).state[a]
      BY <1>3, <1>7, <2>2, <2>4, <2>5
  <2> QED BY <2>4, <2>6
<1> PICK z \in States : z = "undecided"
    BY DEF States
<1> QED
  <2>1. IF Owns(p) THEN z = D(p).state /\ z # "undecided" ELSE z = "undecided"
      BY <1>2
  <2>2. \A q \in Threads \ {p} :
           Owns(q) /\ D(q).state = "undecided" => word'[doing[q].addr2] = word[doing[q].addr2]
      BY <1>9
  <2>3. AnswerExplained(p, r, z)
      BY <1>11 DEF AnswerExplained
  <2>4. word' = [a \in Addresses |-> word'[a]]
      BY <1>7
  <2> QED BY <1>1, <1>6, <1>8, <2>1, <2>2, <2>3, <2>4, AnswerOK

\* The value that replaces the pointer is the one that the outcomes say.
LEMMA FinishWord ==
    ASSUME DcssInv, NEW p \in Threads, stack[p] # << >>, Top(p).pc = "dcss_finish",
           NEW g, g = Top(p),
           CompareAndSwap(g.f.addr2, g.tag, IF g.state = "succeeded" THEN g.f.new2 ELSE g.f.old2)
    PROVE  /\ word' = [a \in Addresses |-> word'[a]]
           /\ \A q \in Threads : Owns(q) /\ D(q).state = "undecided" =>
                 word'[doing[q].addr2] = word[doing[q].addr2]
           /\ \A a \in Addresses : word'[a] \in Plain \/ (word'[a] = word[a] /\ (Owns(p) => word[a] # TagOf(p)))
           /\ \A y \in Outcomes : Allowed(y) =>
                 \A a \in Addresses : word'[a] \in Plain => word'[a] = View(y).state[a]
<1>0. FramesOK /\ ObjectOK /\ MemoryOK
    BY DEF DcssInv, FramesOK
<1>1. g \in HelpFrames /\ HelpOK(g) /\ g.f \in DcssOps /\ g.state \in Decided
    BY <1>0, InHelp DEF HelpOK, HelpLabels, HelpFrames
<1> PICK b : b = g.f.addr2
    OBVIOUS
<1> PICK w : w = IF g.state = "succeeded" THEN g.f.new2 ELSE g.f.old2
    OBVIOUS
<1>2. b \in Addresses /\ w \in Plain
    BY <1>1 DEF DcssOps
<1>3. word' = IF word[b] = g.tag THEN [word EXCEPT ![b] = w] ELSE word
    BY DEF CompareAndSwap
<1>4. \A y \in Outcomes : \A a \in Addresses : word[a] \in Plain => word[a] = View(y).state[a]
    BY <1>0, ValueIs
<1>5. CASE word[b] # g.tag
  <2>1. word' = word
      BY <1>3, <1>5
  <2>2. ASSUME NEW a \in Addresses, Owns(p) PROVE word[a] # TagOf(p)
    <3> SUFFICES ASSUME word[a] = TagOf(p) PROVE FALSE
        OBVIOUS
    <3>1. g.tag = TagOf(p) /\ g.f = doing[p]
        BY <1>0, <2>2, Owner DEF OwnFrame
    <3>2. word[a] \notin Plain
        BY PlainIs DEF TagOf, IsTagged
    <3>3. PICK t \in Threads : word[a] = TagOf(t) /\ doing[t].addr2 = a
        BY <1>0, <3>2, TagIs
    <3>4. t = p
        BY <3>3 DEF TagOf
    <3> QED BY <1>5, <3>1, <3>3, <3>4
  <2>3. ASSUME NEW a \in Addresses
        PROVE  word'[a] \in Plain \/ (word'[a] = word[a] /\ (Owns(p) => word[a] # TagOf(p)))
      BY <2>1, <2>2
  <2> QED BY <1>0, <1>4, <2>1, <2>3 DEF MemoryOK
<1>6. CASE word[b] = g.tag
  <2>1. word' = [a \in Addresses |-> word'[a]] /\ word'[b] = w
        /\ \A a \in Addresses \ {b} : word'[a] = word[a]
      BY <1>0, <1>2, <1>3, <1>6 DEF MemoryOK
  <2>2. word[b] \notin Plain
    <3>1. PICK t, k : g.tag = <<"dcss", t, k>>
        BY <1>1, TagType
    <3>2. IsTagged(g.tag)
        BY <3>1 DEF IsTagged
    <3> QED BY <1>6, <3>2, PlainIs
  <2>3. PICK t \in Threads : Owns(t) /\ word[b] = TagOf(t) /\ doing[t].addr2 = b
      BY <1>0, <1>2, <2>2, TagIs
  <2>4. g.tag = TagOf(t) /\ g.tag[2] = t
      BY <1>6, <2>3 DEF TagOf
  <2>5. g.state = D(t).state /\ g.f = D(t).f
      BY <1>1, <2>4 DEF HelpOK
  <2>6. g.f = doing[t] /\ D(t).state # "undecided"
      BY <1>0, <1>1, <2>3, <2>5, Owner DEF OwnFrame, Decided
  <2>7. ASSUME NEW q \in Threads, Owns(q), D(q).state = "undecided"
        PROVE  word'[doing[q].addr2] = word[doing[q].addr2]
    <3>1. word[doing[q].addr2] = TagOf(q) /\ doing[q].addr2 \in Addresses
        BY <1>0, <2>7, Owner DEF OwnFrame, DcssOps
    <3>2. q # t
        BY <2>6, <2>7
    <3>3. doing[q].addr2 # b
        BY <2>3, <3>1, <3>2 DEF TagOf
    <3> QED BY <2>1, <3>1, <3>3
  <2>8. ASSUME NEW a \in Addresses
        PROVE  word'[a] \in Plain \/ (word'[a] = word[a] /\ (Owns(p) => word[a] # TagOf(p)))
    <3>1. CASE a = b
        BY <1>2, <2>1, <3>1
    <3>2. CASE a # b
      <4>1. word'[a] = word[a]
          BY <2>1, <3>2
      <4>2. CASE word[a] \in Plain
          BY <4>1, <4>2
      <4>3. CASE word[a] \notin Plain
        <5>1. PICK u \in Threads : Owns(u) /\ word[a] = TagOf(u) /\ doing[u].addr2 = a
            BY <1>0, <4>3, TagIs
        <5>2. u # t
            BY <2>3, <3>2, <5>1
        <5>3. Owns(p) => p = t
          <6>1. Owns(p) => g.tag = TagOf(p)
              BY <1>0, Owner DEF OwnFrame
          <6> QED BY <2>4, <6>1 DEF TagOf
        <5>4. Owns(p) => word[a] # TagOf(p)
            BY <5>1, <5>2, <5>3 DEF TagOf
        <5> QED BY <4>1, <5>4
      <4> QED BY <4>2, <4>3
    <3> QED BY <3>1, <3>2
  <2>9. ASSUME NEW y \in Outcomes, Allowed(y), NEW a \in Addresses, word'[a] \in Plain
        PROVE  word'[a] = View(y).state[a]
    <3>1. CASE a = b
      <4>1. y[t] = g.state
          BY <2>3, <2>5, <2>6, <2>9 DEF Allowed
      <4>2. \A z \in Outcomes :
               View(z).state[b] = IF z[t] = "succeeded" THEN doing[t].new2 ELSE doing[t].old2
          BY <1>0, <1>2, <2>3, ValueIs
      <4> QED BY <2>1, <2>6, <3>1, <4>1, <4>2
    <3>2. CASE a # b
        BY <1>4, <2>1, <2>9, <3>2
    <3> QED BY <3>1, <3>2
  <2> QED BY <2>1, <2>7, <2>8, <2>9
<1> QED BY <1>5, <1>6

\* A helper that has finished goes back to its own call.
LEMMA HelperFinishes ==
    ASSUME DcssInv, NEW p \in Threads, ~Owns(p), NEW b, StackChanges(p, <<b>>), CallFrame(p, b),
           b.pc \notin HelpLabels, UNCHANGED <<scheme, desc, tid, history>>,
           word' = [a \in Addresses |-> word'[a]],
           \A q \in Threads :
              Owns(q) /\ D(q).state = "undecided" => word'[doing[q].addr2] = word[doing[q].addr2],
           \A a \in Addresses : word'[a] \in Plain \/ word'[a] = word[a],
           \A y \in Outcomes : Allowed(y) =>
              \A a \in Addresses : word'[a] \in Plain => word'[a] = View(y).state[a]
    PROVE  DcssInv'
<1>0. FramesOK /\ ObjectOK /\ OutcomesOK /\ MemoryOK
    BY DEF DcssInv, FramesOK
<1>1. doing' = doing /\ todo' = todo /\ UNCHANGED history
    BY DEF history
<1>2. \A u \in Threads : D(u)' = D(u) /\ TagOf(u)' = TagOf(u)
    BY DEF D, TagOf
<1>3. /\ stack' = [q \in Threads |-> stack'[q]]
      /\ stack'[p] = <<b>> /\ (\A q \in Threads \ {p} : stack'[q] = stack[q])
    BY <1>0, StackIs
<1>4. ~Owns(p)'
    BY <1>3 DEF Owns, Top
<1>5. \A q \in Threads : Owns(q)' <=> Owns(q)
    BY <1>0, <1>4, OthersOwn
<1>6. MemoryOK'
    BY <1>0, <1>1, <1>3 DEF MemoryOK
<1>7. ASSUME NEW q \in Threads PROVE StackOK(q)'
  <2>1. CASE q = p
    <3>1. CallFrame(p, b)'
        BY <1>1, <1>2 DEF CallFrame
    <3>2. stack'[p] = <<stack'[p][1]>> /\ stack'[p][1] = b
        BY <1>3
    <3> QED BY <2>1, <3>1, <3>2 DEF StackOK
  <2>2. CASE q # p
    <3>1. stack'[q] = stack[q] /\ StackOK(q) /\ doing'[q] = doing[q]
        BY <1>0, <1>1, <1>3, <2>2 DEF FramesOK
    <3>2. CASE Owns(q)
      <4>1. stack[q] = <<Top(q)>> /\ OwnFrame(q, Top(q)) /\ Top(q)' = Top(q)
          BY <1>0, <3>1, <3>2, Owner DEF Top
      <4>2. stack'[q] = <<stack'[q][1]>> /\ stack'[q][1] = Top(q)
          BY <3>1, <4>1
      <4>3. OwnFrame(q, Top(q))'
          BY <1>2, <3>1, <3>2, <4>1 DEF OwnFrame
      <4> QED BY <4>1, <4>2, <4>3 DEF StackOK
    <3>3. CASE ~Owns(q)
      <4>1. ~(stack[q] = <<stack[q][1]>> /\ OwnFrame(q, stack[q][1]))
        <5> SUFFICES ASSUME stack[q] = <<stack[q][1]>>, OwnFrame(q, stack[q][1]) PROVE FALSE
            OBVIOUS
        <5>1. Top(q) = stack[q][1] /\ stack[q] # << >>
            BY DEF Top
        <5> QED BY <3>3, <5>1 DEF OwnFrame, Owns, HelpFrames
      <4> QED BY <1>2, <3>1, <4>1 DEF StackOK, CallFrame
    <3> QED BY <3>2, <3>3
  <2> QED BY <2>1, <2>2
<1>8. ASSUME NEW q \in Threads, (stack[q] # << >> /\ Top(q).pc \in HelpLabels)'
      PROVE  HelpOK(Top(q))'
  <2>1. q # p
      BY <1>3, <1>8 DEF Top
  <2> PICK k : k = Top(q)
      OBVIOUS
  <2>2. Top(q)' = k /\ k \in HelpFrames /\ HelpOK(k)
    <3>1. stack'[q] = stack[q] /\ Top(q)' = Top(q)
        BY <1>3, <2>1 DEF Top
    <3>2. stack[q] # << >> /\ Top(q).pc \in HelpLabels
        BY <1>8, <3>1
    <3> QED BY <1>0, <3>1, <3>2, InHelp
  <2>3. k.tag[2] \in Threads
      BY <2>2, TagType
  <2> QED BY <1>2, <1>5, <2>2, <2>3 DEF HelpOK
<1>9. ASSUME NEW a \in Addresses PROVE WordOK(a)'
  <2>1. CASE word'[a] \in Plain
      BY <2>1 DEF WordOK
  <2>2. CASE word'[a] \notin Plain
    <3>1. word'[a] = word[a] /\ WordOK(a)
        BY <1>0, <2>2 DEF FramesOK
    <3> QED BY <1>1, <1>2, <1>5, <3>1 DEF WordOK
  <2> QED BY <2>1, <2>2
<1>10. ASSUME NEW u \in Threads, NEW k, Proposed(u, k)' PROVE Proposed(u, k)
  <2>1. PICK q \in Threads : (/\ stack[q] # << >> /\ Top(q).pc \in Proposing
                              /\ Top(q).tag = TagOf(u) /\ Top(q).state = k)'
      BY <1>10 DEF Proposed, Proposing
  <2>2. q # p
      BY <1>3, <2>1 DEF Top, Proposing, HelpLabels
  <2>3. stack'[q] = stack[q] /\ Top(q)' = Top(q)
      BY <1>3, <2>2 DEF Top
  <2> QED BY <1>2, <2>1, <2>3 DEF Proposed, Proposing
<1>11. ASSUME NEW x \in Outcomes, Allowed(x)' PROVE Allowed(x) /\ View(x)' = View(x)
  <2>1. Allowed(x)
      BY <1>2, <1>5, <1>10, <1>11 DEF Allowed
  <2>2. ASSUME NEW a \in Addresses PROVE ValueOf(a, x)' = ValueOf(a, x)
    <3>1. CASE word'[a] \in Plain
      <4>1. word'[a] = View(x).state[a]
          BY <2>1, <3>1
      <4>2. View(x).state[a] = ValueOf(a, x)
          BY DEF View
      <4>3. ValueOf(a, x)' = word'[a]
          BY <3>1, PlainIs DEF ValueOf, IsTagged
      <4> QED BY <4>1, <4>2, <4>3
    <3>2. CASE word'[a] \notin Plain
      <4>1. word'[a] = word[a]
          BY <3>2
      <4> QED BY <1>1, <4>1 DEF ValueOf, IsTagged
    <3> QED BY <3>1, <3>2
  <2>3. View(x)' = View(x)
      BY <2>2, Zenon DEF View
  <2> QED BY <2>1, <2>3
<1>12. ObjectOK' /\ OutcomesOK'
    BY <1>0, <1>1, <1>11, HistorySame, SameOutcomes
<1> QED BY <1>6, <1>7, <1>8, <1>9, <1>12 DEF DcssInv, FramesOK

LEMMA helpFinishOK ==
    ASSUME DcssInv, NEW p \in Threads, helpFinish(p)
    PROVE  DcssInv'
<1>0. FramesOK /\ ObjectOK /\ OutcomesOK /\ MemoryOK
    BY DEF DcssInv, FramesOK
<1>1. /\ stack[p] # << >> /\ Top(p).pc = "dcss_finish" /\ Top(p).pc \in HelpLabels
      /\ UNCHANGED <<scheme, desc, tid>>
    BY DEF helpFinish, At, HelpLabels
<1> PICK g : g = Top(p)
    OBVIOUS
<1>2. g \in HelpFrames /\ HelpOK(g) /\ g.state \in Decided
    BY <1>0, <1>1, InHelp DEF HelpFrames
<1>3. CompareAndSwap(g.f.addr2, g.tag, IF g.state = "succeeded" THEN g.f.new2 ELSE g.f.old2)
    BY DEF helpFinish
<1>4. /\ word' = [a \in Addresses |-> word'[a]]
      /\ \A q \in Threads : Owns(q) /\ D(q).state = "undecided" =>
            word'[doing[q].addr2] = word[doing[q].addr2]
      /\ \A a \in Addresses : word'[a] \in Plain \/ (word'[a] = word[a] /\ (Owns(p) => word[a] # TagOf(p)))
      /\ \A y \in Outcomes : Allowed(y) =>
            \A a \in Addresses : word'[a] \in Plain => word'[a] = View(y).state[a]
    BY <1>1, <1>3, FinishWord
<1>5. CASE Owns(p)
  <2>1. stack[p] = <<g>> /\ OwnFrame(p, g) /\ g.own
      BY <1>0, <1>5, Owner DEF Owns
  <2> PICK r : r = IF g.state = "succeeded" THEN <<"success">> ELSE <<"failed_addr1">>
      OBVIOUS
  <2>2. Return(p, r)
      BY <2>1 DEF helpFinish
  <2>3. Answer(p, r) /\ StackChanges(p, << >>)
      BY <2>1, <2>2, ReturnOne
  <2>4. g.state = D(p).state
    <3>1. g.tag = TagOf(p) /\ g.tag[2] = p
        BY <2>1 DEF OwnFrame, TagOf
    <3> QED BY <1>1, <1>2, <3>1 DEF HelpOK
  <2> PICK z \in States : z = g.state
      BY <1>2 DEF States, Decided
  <2>5. z # "undecided" /\ GotOf(z) = r
      BY <1>2 DEF Decided, GotOf
  <2>6. IF Owns(p) THEN z = D(p).state /\ z # "undecided" ELSE z = "undecided"
      BY <1>5, <2>4, <2>5
  <2>7. \A a \in Addresses : word'[a] \in Plain \/ (word'[a] = word[a] /\ word[a] # TagOf(p))
      BY <1>4, <1>5
  <2>8. \A q \in Threads \ {p} :
           Owns(q) /\ D(q).state = "undecided" => word'[doing[q].addr2] = word[doing[q].addr2]
      BY <1>4
  <2>9. ASSUME NEW y \in Outcomes, Allowed(y), y[p] = z
        PROVE  \E v \in Explained : /\ v.got = [View(y).got EXCEPT ![p] = r]
                                    /\ \A a \in Addresses : v.state[a] = IF word'[a] \in Plain THEN word'[a]
                                                                         ELSE View(y).state[a]
    <3>1. View(y) \in Explained
        BY <1>0, <2>9 DEF OutcomesOK
    <3> PICK k : k = View(y).got
        OBVIOUS
    <3>2. k = [t \in Threads |-> GotOf(y[t])]
        BY DEF View
    <3>3. k[p] = r
        BY <2>5, <2>9, <3>2
    <3>4. k = [k EXCEPT ![p] = r]
        BY <3>2, <3>3
    <3>5. \A a \in Addresses : View(y).state[a] = IF word'[a] \in Plain THEN word'[a] ELSE View(y).state[a]
        BY <1>4, <2>9
    <3> QED BY <3>1, <3>4, <3>5
  <2>10. word' = [a \in Addresses |-> word'[a]]
      BY <1>4
  <2>11. AnswerExplained(p, r, z)
      BY <2>9 DEF AnswerExplained
  <2>12. UNCHANGED <<scheme, desc, tid>>
      BY <1>1
  <2> QED BY <2>3, <2>6, <2>7, <2>8, <2>10, <2>11, <2>12, AnswerOK
<1>6. CASE ~Owns(p)
  <2>1. PICK b : ~g.own /\ stack[p] = <<g, b>> /\ CallFrame(p, b) /\ b.pc \in {"dcss", "dcss_read"}
      BY <1>0, <1>1, <1>6, InHelp
  <2>2. Pop(p) /\ UNCHANGED history
      BY <2>1 DEF helpFinish
  <2>3. StackChanges(p, <<b>>)
      BY <2>1, <2>2, PopTwo
  <2>4. b.pc \notin HelpLabels
      BY <2>1 DEF HelpLabels
  <2>5. UNCHANGED <<scheme, desc, tid, history>>
      BY <1>1, <2>2
  <2>6. \A a \in Addresses : word'[a] \in Plain \/ word'[a] = word[a]
      BY <1>4
  <2> QED BY <1>4, <1>6, <2>1, <2>3, <2>4, <2>5, <2>6, HelperFinishes
<1> QED BY <1>5, <1>6

-----------------------------------------------------------------------------
(***************************************************************************)
(* A call begins.                                                          *)
(***************************************************************************)
LEMMA FrameIs ==
    ASSUME ObjectOK, scheme = "dcss", NEW op \in Calls
    PROVE  \E b : /\ b = Frame(op) /\ b.pc \notin HelpLabels
                  /\ \/ b \in NewFrames /\ op = b.op /\ b.pc = "dcss_new"
                     \/ b \in ReadFrames /\ op.do = "read" /\ op.addr = b.addr
                     \/ b \in StoreFrames /\ op = [do |-> "store", addr |-> b.addr, val |-> b.val]
<1>1. CASE op.do = "dcss"
  <2> PICK b : b = [pc |-> "dcss_new", op |-> op]
      OBVIOUS
  <2>1. Frame(op) = b
      BY <1>1 DEF Frame, DcssFrame
  <2>2. op \in DcssOps
      BY <1>1 DEF Calls, DcssCalls, DcssOps
  <2>3. b \in NewFrames /\ b.op = op /\ b.pc = "dcss_new" /\ b.pc \notin HelpLabels
      BY <2>2 DEF NewFrames, HelpLabels
  <2> QED BY <2>1, <2>3
<1>2. CASE op.do = "store"
  <2> PICK b : b = [pc |-> "store", addr |-> op.addr, val |-> op.val]
      OBVIOUS
  <2>1. Frame(op) = b
      BY <1>2 DEF Frame
  <2>2. op.addr \in Direct /\ op.val \in Plain /\ op = [do |-> "store", addr |-> op.addr, val |-> op.val]
      BY <1>2 DEF Calls, DcssCalls
  <2>3. b \in StoreFrames /\ b.addr = op.addr /\ b.val = op.val /\ b.pc \notin HelpLabels
      BY <2>2 DEF StoreFrames, HelpLabels
  <2> QED BY <2>1, <2>2, <2>3
<1>3. CASE op.do = "read"
  <2> PICK b : b = [pc |-> "dcss_read", addr |-> op.addr]
      OBVIOUS
  <2>1. Frame(op) = b
      BY <1>3 DEF Frame
  <2>2. op.addr \in Addresses
      BY <1>3 DEF Calls, DcssCalls
  <2>3. b \in ReadFrames /\ b.addr = op.addr /\ b.pc \notin HelpLabels
      BY <2>2 DEF ReadFrames, HelpLabels
  <2> QED BY <1>3, <2>1, <2>3
<1>4. op.do \in {"dcss", "store", "read"}
    BY DEF Calls, DcssCalls
<1> QED BY <1>1, <1>2, <1>3, <1>4

LEMMA CallOK ==
    ASSUME DcssInv, scheme = "dcss", NEW p \in Threads, Call(p)
    PROVE  DcssInv'
<1>0. FramesOK /\ ObjectOK /\ OutcomesOK /\ MemoryOK
    BY DEF DcssInv, FramesOK
<1>1. /\ doing[p] = Nothing /\ todo[p] # << >> /\ doing' = [doing EXCEPT ![p] = Head(todo[p])]
      /\ todo' = [todo EXCEPT ![p] = Tail(@)] /\ views' = views
      /\ StackChanges(p, <<Frame(Head(todo[p]))>>) /\ UNCHANGED memory
    BY DEF Call, Begin, StackChanges
<1>2. todo[p] \in Seq(Calls)
    BY <1>0 DEF MemoryOK
<1>3. Head(todo[p]) \in Calls /\ Tail(todo[p]) \in Seq(Calls)
    BY <1>1, <1>2
<1> PICK op \in Calls : op = Head(todo[p])
    BY <1>3
<1> PICK b : /\ b = Frame(op) /\ b.pc \notin HelpLabels
             /\ \/ b \in NewFrames /\ op = b.op /\ b.pc = "dcss_new"
                \/ b \in ReadFrames /\ op.do = "read" /\ op.addr = b.addr
                \/ b \in StoreFrames /\ op = [do |-> "store", addr |-> b.addr, val |-> b.val]
    BY <1>0, FrameIs
<1>4. StackChanges(p, <<b>>)
    BY <1>1
<1>5. /\ stack' = [q \in Threads |-> stack'[q]]
      /\ stack'[p] = <<b>> /\ \A q \in Threads \ {p} : stack'[q] = stack[q]
    BY <1>0, <1>4, StackIs
<1>6. word' = word /\ desc' = desc /\ tid' = tid
    BY <1>1 DEF memory
<1>7. \A u \in Threads : D(u)' = D(u) /\ TagOf(u)' = TagOf(u)
    BY <1>6 DEF D, TagOf
<1>8. doing'[p] = op /\ \A q \in Threads \ {p} : doing'[q] = doing[q]
    BY <1>0, <1>1 DEF ObjectOK, Doing
<1>9. ~Owns(p)
  <2> SUFFICES ASSUME Owns(p) PROVE FALSE
      OBVIOUS
  <2>1. doing[p] \in DcssOps
      BY <1>0, Owner DEF OwnFrame
  <2>2. Nothing \notin DcssOps
      BY <1>0, DirectIs DEF ObjectOK, Calls, DcssCalls, DcssOps
  <2> QED BY <1>1, <2>1, <2>2
<1>10. ~Owns(p)'
    BY <1>5 DEF Owns, Top
<1>11. \A q \in Threads : Owns(q)' <=> Owns(q)
    BY <1>0, <1>4, <1>9, <1>10, OthersOwn
<1>12. MemoryOK'
  <2>1. todo' \in [Threads -> Seq(Calls)]
      BY <1>0, <1>1, <1>3 DEF MemoryOK
  <2> QED BY <1>0, <1>5, <1>6, <2>1 DEF MemoryOK
<1>13. ASSUME NEW q \in Threads PROVE StackOK(q)'
  <2>1. CASE q = p
    <3>1. CallFrame(p, b)'
        BY <1>8 DEF CallFrame
    <3>2. stack'[p] = <<stack'[p][1]>> /\ stack'[p][1] = b
        BY <1>5
    <3> QED BY <2>1, <3>1, <3>2 DEF StackOK
  <2>2. CASE q # p
    <3>1. stack'[q] = stack[q] /\ StackOK(q) /\ doing'[q] = doing[q]
        BY <1>0, <1>5, <1>8, <2>2 DEF FramesOK
    <3> QED BY <1>6, <1>7, <3>1 DEF StackOK, CallFrame, OwnFrame
  <2> QED BY <2>1, <2>2
<1>14. ASSUME NEW q \in Threads, (stack[q] # << >> /\ Top(q).pc \in HelpLabels)'
       PROVE  HelpOK(Top(q))'
  <2>1. q # p
      BY <1>5, <1>14 DEF Top
  <2> PICK k : k = Top(q)
      OBVIOUS
  <2>2. Top(q)' = k /\ k \in HelpFrames /\ HelpOK(k)
    <3>1. stack'[q] = stack[q] /\ Top(q)' = Top(q)
        BY <1>5, <2>1 DEF Top
    <3>2. stack[q] # << >> /\ Top(q).pc \in HelpLabels
        BY <1>14, <3>1
    <3> QED BY <1>0, <3>1, <3>2, InHelp
  <2>3. k.tag[2] \in Threads
      BY <2>2, TagType
  <2> QED BY <1>7, <1>11, <2>2, <2>3 DEF HelpOK
<1>15. ASSUME NEW a \in Addresses PROVE WordOK(a)'
  <2>1. WordOK(a)
      BY <1>0 DEF FramesOK
  <2>2. \A q \in Threads : Owns(q) => doing'[q] = doing[q]
      BY <1>8, <1>9
  <2> QED BY <1>6, <1>7, <1>11, <2>1, <2>2 DEF WordOK
<1>16. ObjectOK'
  <2>1. (doing \in [Threads -> Calls \cup {Nothing}])'
      BY <1>0, <1>1 DEF ObjectOK, Doing
  <2>2. (views \subseteq Views)'
      BY <1>0, <1>1 DEF ObjectOK
  <2>3. IsMultiword'
      BY <1>0 DEF ObjectOK, IsMultiword
  <2>4. ("dcss" \in DOMAIN Programs)'
      BY <1>0 DEF ObjectOK
  <2> QED BY <2>1, <2>2, <2>3, <2>4 DEF ObjectOK, Doing
<1>17. Explained \subseteq Explained'
  <2>1. \A q \in Threads : doing[q] # Nothing => doing'[q] = doing[q]
      BY <1>1, <1>8
  <2>2. views \subseteq views'
      BY <1>1
  <2> QED BY <1>0, <1>16, <2>1, <2>2, ExplainedGrows
<1>18. ASSUME NEW u \in Threads, NEW k, Proposed(u, k)' PROVE Proposed(u, k)
  <2>1. PICK q \in Threads : (/\ stack[q] # << >> /\ Top(q).pc \in Proposing
                              /\ Top(q).tag = TagOf(u) /\ Top(q).state = k)'
      BY <1>18 DEF Proposed, Proposing
  <2>2. q # p
      BY <1>5, <2>1 DEF Top, Proposing, HelpLabels
  <2>3. stack'[q] = stack[q] /\ Top(q)' = Top(q)
      BY <1>5, <2>2 DEF Top
  <2> QED BY <1>7, <2>1, <2>3 DEF Proposed, Proposing
<1>19. ASSUME NEW x \in Outcomes, Allowed(x)' PROVE Allowed(x) /\ View(x)' = View(x)
  <2>1. \A q \in Threads : Owns(q) => doing'[q] = doing[q]
      BY <1>8, <1>9
  <2>2. View(x)' = View(x)
      BY <1>0, <1>6, <2>1, ViewSame
  <2>3. Allowed(x)
      BY <1>7, <1>11, <1>18, <1>19 DEF Allowed
  <2> QED BY <2>2, <2>3
<1>20. OutcomesOK'
    BY <1>0, <1>17, <1>19, SameOutcomes
<1> QED BY <1>12, <1>13, <1>14, <1>15, <1>16, <1>20 DEF DcssInv, FramesOK

-----------------------------------------------------------------------------
(***************************************************************************)
(* The theorem.                                                            *)
(***************************************************************************)
Kept == scheme = "dcss" => DcssInv

LEMMA DcssStarts ==
    ASSUME IsMultiword, Init PROVE Kept
<1> SUFFICES ASSUME scheme = "dcss" PROVE DcssInv
    BY DEF Kept
<1>0. "dcss" \in DOMAIN Programs
    BY DEF Init
<1>1. /\ word = [a \in Addresses |-> <<0>>]
      /\ desc = [k \in {"dcss", "kcas", "rdcss"} |-> [t \in Tids |-> FreshDescriptor]]
      /\ tid = [p \in Threads |-> p]
      /\ todo \in Programs["dcss"]
      /\ doing = [p \in Threads |-> Nothing] /\ stack = [p \in Threads |-> << >>]
      /\ views = {[state |-> word, got |-> [p \in Threads |-> Nothing]]}
    BY DEF Init, ClientsInit
<1>2. <<0>> \in Plain /\ Len(<<0>>) # 3
    BY DEF Plain
<1>3. word \in Memories
    BY <1>1, <1>2 DEF Memories
<1>4. ObjectOK
  <2>1. [state |-> word, got |-> [p \in Threads |-> Nothing]] \in Views
      BY <1>3 DEF Views
  <2> QED BY <1>0, <1>1, <2>1 DEF ObjectOK, Doing
<1>5. MemoryOK
  <2>1. FreshDescriptor \in Descriptors
      BY DEF FreshDescriptor, Descriptors, States
  <2>2. todo \in [Threads -> Seq(Calls)]
      BY <1>0, <1>1, DirectIs
  <2>3. desc \in [{"dcss", "kcas", "rdcss"} -> [Tids -> Descriptors]]
      BY <1>1, <2>1
  <2> QED BY <1>1, <2>2, <2>3 DEF MemoryOK
<1>6. \A p \in Threads : stack[p] = << >> /\ doing[p] = Nothing /\ ~Owns(p)
    BY <1>1 DEF Owns
<1>7. FramesOK
    BY <1>1, <1>2, <1>5, <1>6 DEF FramesOK, StackOK, WordOK
<1>8. ASSUME NEW x \in Outcomes, Allowed(x) PROVE View(x) \in Explained
  <2>1. \A t \in Threads : GotOf(x[t]) = Nothing
      BY <1>6, <1>8 DEF Allowed, GotOf
  <2>2. \A a \in Addresses : ValueOf(a, x) = word[a]
      BY <1>1, <1>2 DEF ValueOf, IsTagged
  <2>3. View(x) = [state |-> [a \in Addresses |-> word[a]], got |-> [t \in Threads |-> Nothing]]
      BY <2>1, <2>2, Zenon DEF View
  <2>4. [a \in Addresses |-> word[a]] = word
      BY <1>1
  <2>5. View(x) \in views
      BY <1>1, <2>3, <2>4
  <2> QED BY <2>5, ViewsExplained
<1> QED BY <1>4, <1>7, <1>8 DEF DcssInv, OutcomesOK

LEMMA SchemeStays ==
    ASSUME NEW p \in Threads, Step(p) PROVE scheme' = scheme
<1>1. CASE Call(p) \/ Store(p) \/ (RluStep(p) /\ UNCHANGED <<memory, thread_ids>>)
    BY <1>1 DEF Call, Store, memory
<1>2. CASE DcssStep(p)
  <2>1. CASE dcssNew(p) \/ dcssFields(p) \/ dcssInstall(p) \/ dcssRead(p)
      BY <2>1 DEF dcssNew, dcssFields, dcssInstall, dcssRead, memory
  <2>2. CASE dcssHelpOther(p) \/ helpAddr1(p) \/ helpLook(p)
      BY <2>2 DEF dcssHelpOther, helpAddr1, helpLook, memory
  <2>3. CASE helpDecide(p) \/ helpFinish(p)
      BY <2>3 DEF helpDecide, helpFinish
  <2> QED BY <1>2, <2>1, <2>2, <2>3 DEF DcssStep
<1>3. CASE KcasStep(p)
  <2>1. CASE idScan(p) \/ idClaim(p) \/ idRelease(p) \/ kcasStart(p) \/ kcasNew(p)
      BY <2>1 DEF idScan, idClaim, idRelease, kcasStart, kcasNew, memory
  <2>2. CASE execute(p) \/ transaction(p) \/ helpOwn(p) \/ kcasRead(p) \/ helpOther(p)
      BY <2>2 DEF execute, transaction, helpOwn, kcasRead, helpOther, memory
  <2>3. CASE help(p) \/ entry(p) \/ rdcssNew(p) \/ rdcss(p) \/ rdcssHelpOther(p)
      BY <2>3 DEF help, entry, rdcssNew, rdcss, rdcssHelpOther, memory
  <2>4. CASE rdcssState(p) \/ rdcssFinish(p) \/ decide(p) \/ phase2(p) \/ release(p)
      BY <2>4 DEF rdcssState, rdcssFinish, decide, phase2, release, memory
  <2> QED BY <1>3, <2>1, <2>2, <2>3, <2>4 DEF KcasStep
<1> QED BY <1>1, <1>2, <1>3 DEF Step

LEMMA DcssKeeps ==
    ASSUME Kept, [Next]_vars PROVE Kept'
<1>1. CASE UNCHANGED vars
  <2>1. UNCHANGED <<memory, history, stack>>
      BY <1>1 DEF vars
  <2>2. scheme' = scheme /\ word' = word /\ desc' = desc /\ tid' = tid /\ stack' = stack
        /\ todo' = todo /\ doing' = doing /\ views' = views
      BY <2>1 DEF memory, history
  <2> SUFFICES ASSUME DcssInv PROVE DcssInv'
      BY <2>2 DEF Kept
  <2>3. \A q \in Threads : (Owns(q)' <=> Owns(q)) /\ Top(q)' = Top(q) /\ D(q)' = D(q) /\ TagOf(q)' = TagOf(q)
      BY <2>2 DEF Owns, Top, D, TagOf
  <2>4. ObjectOK' /\ Explained \subseteq Explained'
      BY <2>1, HistorySame DEF DcssInv
  <2>5. MemoryOK'
      BY <2>2 DEF DcssInv, FramesOK, MemoryOK
  <2>6. \A p \in Threads : StackOK(p)'
      BY <2>2, <2>3 DEF DcssInv, FramesOK, StackOK, CallFrame, OwnFrame
  <2>7. ASSUME NEW q \in Threads, (stack[q] # << >> /\ Top(q).pc \in HelpLabels)' PROVE HelpOK(Top(q))'
    <3> PICK k : k = Top(q)
        OBVIOUS
    <3>1. stack[q] # << >> /\ Top(q).pc \in HelpLabels
        BY <2>2, <2>3, <2>7
    <3>2. Top(q)' = k /\ k \in HelpFrames /\ HelpOK(k)
        BY <2>3, <3>1, InHelp DEF DcssInv
    <3>3. k.tag[2] \in Threads
        BY <3>2, TagType
    <3> QED BY <2>3, <3>2, <3>3 DEF HelpOK
  <2>8. \A a \in Addresses : WordOK(a)'
      BY <2>2, <2>3 DEF DcssInv, FramesOK, WordOK
  <2>9. ASSUME NEW x \in Outcomes, Allowed(x)' PROVE Allowed(x) /\ View(x)' = View(x)
    <3>1. View(x)' = View(x)
        BY <2>2, ViewSame DEF DcssInv
    <3>2. \A u \in Threads : \A k : Proposed(u, k)' => Proposed(u, k)
        BY <2>2, <2>3 DEF Proposed
    <3>3. Allowed(x)
        BY <2>3, <2>9, <3>2 DEF Allowed
    <3> QED BY <3>1, <3>3
  <2>10. OutcomesOK'
      BY <2>4, <2>9, SameOutcomes DEF DcssInv
  <2> QED BY <2>4, <2>5, <2>6, <2>7, <2>8, <2>10 DEF DcssInv, FramesOK
<1>2. ASSUME NEW p \in Threads, Step(p) PROVE Kept'
  <2> SUFFICES ASSUME scheme' = "dcss" PROVE DcssInv'
      BY DEF Kept
  <2>1. scheme = "dcss"
      BY <1>2, SchemeStays
  <2>2. DcssInv
      BY <2>1 DEF Kept
  <2>3. Call(p) \/ Store(p) \/ DcssStep(p)
      BY <1>2, <2>1 DEF Step
  <2>4. CASE Call(p)
      BY <2>1, <2>2, <2>4, CallOK
  <2>5. CASE Store(p)
      BY <2>2, <2>5, StoreOK
  <2>6. CASE DcssStep(p)
      BY <2>2, <2>6, dcssNewOK, dcssFieldsOK, dcssInstallOK, dcssReadOK, dcssHelpOtherOK,
         helpAddr1OK, helpLookOK, helpDecideOK, helpFinishOK DEF DcssStep
  <2> QED BY <2>3, <2>4, <2>5, <2>6
<1> QED BY <1>1, <1>2 DEF Next

LEMMA DcssMeans ==
    ASSUME Kept, scheme = "dcss" PROVE Linearizable /\ QuietIsPlain
<1>0. DcssInv /\ ObjectOK /\ FramesOK
    BY DEF Kept, DcssInv
<1> PICK x : x = [t \in Threads |-> IF Owns(t) THEN D(t).state ELSE "undecided"]
    OBVIOUS
<1>1. x \in Outcomes /\ Allowed(x)
  <2>1. \A t \in Threads : D(t).state \in States
      BY <1>0, DescriptorType DEF Descriptors
  <2>2. x \in Outcomes
      BY <2>1 DEF Outcomes, States
  <2> QED BY <2>2 DEF Allowed
<1>2. View(x) \in Explained
    BY <1>0, <1>1 DEF DcssInv, OutcomesOK
<1>3. Linearizable
  <2> SUFFICES ASSUME views = {} PROVE FALSE
      BY DEF Linearizable
  <2> PICK X : X = {}
      OBVIOUS
  <2>1. views \subseteq X /\ \A v \in X, p \in Threads : May(v, p) => With(v, p) \subseteq X
      OBVIOUS
  <2>2. Explained \subseteq X
      BY <2>1, ExplainedLeast
  <2> QED BY <1>2, <2>2
<1>4. QuietIsPlain
  <2> SUFFICES ASSUME Quiet PROVE \E v \in views : v.state = word
      BY DEF QuietIsPlain
  <2>1. \A p \in Threads : doing[p] = Nothing
      BY DEF Quiet
  <2>2. \A v \in views, p \in Threads : May(v, p) => With(v, p) \subseteq views
      BY <2>1 DEF May
  <2>3. View(x) \in views
      BY <1>2, <2>2, ExplainedLeast
  <2>4. \A p \in Threads : ~Owns(p)
    <3>1. Nothing \notin DcssOps
        BY <1>0, DirectIs DEF ObjectOK, Calls, DcssCalls, DcssOps
    <3> QED BY <1>0, <2>1, <3>1, Owner DEF OwnFrame
  <2>5. \A a \in Addresses : word[a] \in Plain
      BY <1>0, <2>4 DEF FramesOK, WordOK
  <2>6. \A a \in Addresses : ValueOf(a, x) = word[a]
      BY <2>5, PlainIs DEF ValueOf
  <2>7. View(x).state = [a \in Addresses |-> ValueOf(a, x)]
      BY DEF View
  <2>8. View(x).state = [a \in Addresses |-> word[a]]
      BY <2>6, <2>7, Zenon
  <2>9. word = [a \in Addresses |-> word[a]]
      BY <1>0 DEF FramesOK, MemoryOK
  <2> QED BY <2>3, <2>8, <2>9
<1> QED BY <1>3, <1>4

(***************************************************************************)
(* In every program that writes the words it compares only directly, and   *)
(* the words it changes through DCSS only, each double-compare-single-swap *)
(* (dcss_impl.h, dcss_plus_impl.h) takes effect in one step between its    *)
(* call and its answer, although whoever meets its descriptor completes it *)
(* and the descriptor is used again at once; readers and direct writes     *)
(* too.  When nobody is in a call, the words hold the values of the atomic *)
(* object, and no pointer to a descriptor.                                 *)
(***************************************************************************)
THEOREM DcssLinearizable ==
    ASSUME IsMultiword
    PROVE  Spec => [](scheme = "dcss" => Linearizable /\ QuietIsPlain)
<1>1. Init => Kept
    BY DcssStarts
<1>2. Kept /\ [Next]_vars => Kept'
    BY DcssKeeps
<1>3. Kept => (scheme = "dcss" => Linearizable /\ QuietIsPlain)
    BY DcssMeans
<1> QED BY <1>1, <1>2, <1>3, PTL DEF Spec
=============================================================================
