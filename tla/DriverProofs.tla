---------------------------- MODULE DriverProofs ----------------------------
(***************************************************************************)
(* What the two main.cpp do for every number of keys and of processes: no  *)
(* two threads that run together have the same number, and the checks at   *)
(* the end find what they expect but for the rest of uneven shares.        *)
(***************************************************************************)
EXTENDS Driver, TLAPS

\* The thread that the loop starts with a value of its counter, and its keys.
Thread(L, j) == [loop |-> Loops[L], tid |-> Tid(Loops[L], j),
                 low |-> Low(Loops[L], j), high |-> High(Loops[L], j)]

Mine(L, j) == {KeyAt(Loops[L], x) : x \in Low(Loops[L], j) .. High(Loops[L], j) - 1}

\* The loops whose threads may run in this phase.
Together(L) ==
    \/ L = phase
    \/ L = 1 /\ phase = 2
    \/ program = "nonblocking" /\ L = 2
    \/ program = "nonblocking" /\ L = 4 /\ phase = 5 /\ num_processes > 1
    \/ program = "finegrained" /\ L = 3 /\ phase = 4

Args ==
    /\ program \in {"nonblocking", "finegrained"}
    /\ n \in Nat \ {0} /\ num_processes \in Nat \ {0} /\ num_rebal_threads \in Nat

Counters ==
    /\ phase \in 1 .. Len(Loops) + 2 /\ i \in Nat
    /\ InALoop => i <= Started(Loop)

\* Every thread that runs was started by one of these loops.
Origin(t, L, j) ==
    /\ L <= phase /\ j < Started(Loops[L])
    /\ L = phase => j < i
    /\ Together(L)
    /\ t = Thread(L, j)

Origins == \A t \in running : \E L \in 1 .. Len(Loops), j \in Nat : Origin(t, L, j)

\* A thread has been started and has come to its end.
Finished(L, j) ==
    /\ L < phase \/ (L = phase /\ j < i)
    /\ Thread(L, j) \notin running

Inserters == {L \in 1 .. Len(Loops) : Loops[L] \in {"insert", "insertMixed"}}
Deleters == {L \in 1 .. Len(Loops) : Loops[L] \in {"delete", "deleteMixed"}}

\* The values of the counter of a loop, and the places it shares out.
Turns(L) == 0 .. Started(Loops[L]) - 1
Places(L) == 0 .. Share(Loops[L]) - 1

FinishedOn(Ls, k) ==
    \E L \in Ls : \E j \in Turns(L) : k \in Mine(L, j) /\ Finished(L, j)

\* A key is in the tree, once, when the thread that inserts it has ended and
\* none that deletes it.
Contents ==
    /\ leaves \in [Keys \cup NewKeys -> Nat]
    /\ \A k \in Keys \cup NewKeys :
          leaves[k] = IF FinishedOn(Inserters, k) /\ ~FinishedOn(Deleters, k) THEN 1 ELSE 0

Silent ==
    /\ phase <= Len(Loops) + 1 => printed = {}
    /\ printed \subseteq Disputed

DriverInv == Args /\ Counters /\ Origins /\ Contents /\ Silent

-----------------------------------------------------------------------------
(***************************************************************************)
(* The loops                                                               *)
(***************************************************************************)
\* Their names, by number.
LEMMA LoopsAre ==
    ASSUME program \in {"nonblocking", "finegrained"}
    PROVE  /\ program = "nonblocking" =>
                /\ Len(Loops) = 5 /\ 1 .. Len(Loops) = {1, 2, 3, 4, 5}
                /\ Loops[1] = "insert" /\ Loops[2] = "rebalance" /\ Loops[3] = "delete"
                /\ Loops[4] = "deleteMixed" /\ Loops[5] = "insertMixed"
           /\ program = "finegrained" =>
                /\ Len(Loops) = 4 /\ 1 .. Len(Loops) = {1, 2, 3, 4}
                /\ Loops[1] = "insert" /\ Loops[2] = "rebalance" /\ Loops[3] = "delete"
                /\ Loops[4] = "rebalance"
<1>1. CASE program = "nonblocking"
  <2>1. Loops = <<"insert", "rebalance", "delete", "deleteMixed", "insertMixed">>
      BY <1>1 DEF Loops
  <2>2. /\ Loops[1] = "insert" /\ Loops[2] = "rebalance" /\ Loops[3] = "delete"
        /\ Loops[4] = "deleteMixed" /\ Loops[5] = "insertMixed"
      BY <2>1
  <2>3. Len(Loops) = 5
      BY <2>1
  <2>4. 1 .. 5 = {1, 2, 3, 4, 5}
      OBVIOUS
  <2> QED BY <1>1, <2>2, <2>3, <2>4
<1>2. CASE program = "finegrained"
  <2>1. Loops = <<"insert", "rebalance", "delete", "rebalance">>
      BY <1>2 DEF Loops
  <2>2. /\ Loops[1] = "insert" /\ Loops[2] = "rebalance" /\ Loops[3] = "delete"
        /\ Loops[4] = "rebalance"
      BY <2>1
  <2>3. Len(Loops) = 4
      BY <2>1
  <2>4. 1 .. 4 = {1, 2, 3, 4}
      OBVIOUS
  <2> QED BY <1>2, <2>2, <2>3, <2>4
<1> QED BY <1>1, <1>2

\* What the cases come to.
LEMMA StartedCases ==
    /\ Started("rebalance") = num_rebal_threads
    /\ Started("deleteMixed") = IF num_processes = 1 THEN 1 ELSE num_processes \div 2
    /\ Started("insertMixed") = num_processes - num_processes \div 2
    /\ Started("insert") = num_processes
    /\ Started("delete") = num_processes
BY Zenon DEF Started

\* How many places each loop shares out.
LEMMA ShareCases ==
    /\ Share("rebalance") = 0
    /\ Share("insert") = n
    /\ \A loop \in {"delete", "deleteMixed", "insertMixed"} :
          Share(loop) = IF program = "finegrained" THEN n \div 10 ELSE n \div 5
<1>1. Share("rebalance") = 0 /\ Share("insert") = n
    BY Zenon DEF Share
<1>2. ASSUME NEW loop \in {"delete", "deleteMixed", "insertMixed"}
      PROVE  Share(loop) = IF program = "finegrained" THEN n \div 10 ELSE n \div 5
  <2>1. loop # "rebalance" /\ loop # "insert"
      OBVIOUS
  <2> QED BY <2>1, Zenon DEF Share
<1> QED BY <1>1, <1>2

\* The key in a place of each array.
LEMMA KeyAtCases ==
    ASSUME NEW j
    PROVE  /\ KeyAt("insert", j) = j
           /\ KeyAt("insertMixed", j) = n + j
           /\ KeyAt("deleteMixed", j) = n \div 5 + j
           /\ program = "nonblocking" => KeyAt("delete", j) = j
           /\ program = "finegrained" => KeyAt("delete", j) = 10 * j
<1>1. KeyAt("insert", j) = j /\ KeyAt("insertMixed", j) = n + j
    BY Zenon DEF KeyAt
<1>2. KeyAt("deleteMixed", j) = n \div 5 + j
    BY Zenon DEF KeyAt
<1>3. program = "nonblocking" => KeyAt("delete", j) = j
    BY Zenon DEF KeyAt
<1>4. program = "finegrained" => KeyAt("delete", j) = 10 * j
    BY Zenon DEF KeyAt
<1> QED BY <1>1, <1>2, <1>3, <1>4

\* The number of a thread of each loop.
LEMMA TidCases ==
    ASSUME NEW j
    PROVE  /\ Tid("rebalance", j) = num_processes + j
           /\ Tid("insertMixed", j) = num_processes \div 2 + j
           /\ \A loop \in {"insert", "delete", "deleteMixed"} : Tid(loop, j) = j
<1>1. Tid("rebalance", j) = num_processes + j /\ Tid("insertMixed", j) = num_processes \div 2 + j
    BY Zenon DEF Tid
<1>2. Tid("insert", j) = j /\ Tid("delete", j) = j /\ Tid("deleteMixed", j) = j
    BY Zenon DEF Tid
<1> QED BY <1>1, <1>2

\* The names of the loops.
Names == {"insert", "rebalance", "delete", "deleteMixed", "insertMixed"}

\* Two loops that insert or delete have different names.
LEMMA LoopNames ==
    ASSUME Args
    PROVE  /\ \A L \in 1 .. Len(Loops) : Loops[L] \in Names
           /\ \A L, M \in 1 .. Len(Loops) :
                 Loops[L] # "rebalance" /\ Loops[L] = Loops[M] => L = M
<1>1. CASE program = "nonblocking"
  <2>1. PICK ls : ls = Loops
      OBVIOUS
  <2>2. /\ 1 .. Len(ls) = {1, 2, 3, 4, 5}
        /\ ls[1] = "insert" /\ ls[2] = "rebalance" /\ ls[3] = "delete"
        /\ ls[4] = "deleteMixed" /\ ls[5] = "insertMixed"
      BY <1>1, <2>1, LoopsAre
  <2>3. \A L \in {1, 2, 3, 4, 5} : ls[L] \in Names
      BY <2>2 DEF Names
  <2>4. \A L, M \in {1, 2, 3, 4, 5} : ls[L] # "rebalance" /\ ls[L] = ls[M] => L = M
      BY <2>2, ZenonT(40)
  <2> QED BY <2>1, <2>2, <2>3, <2>4
<1>2. CASE program = "finegrained"
  <2>1. PICK ls : ls = Loops
      OBVIOUS
  <2>2. /\ 1 .. Len(ls) = {1, 2, 3, 4}
        /\ ls[1] = "insert" /\ ls[2] = "rebalance" /\ ls[3] = "delete" /\ ls[4] = "rebalance"
      BY <1>2, <2>1, LoopsAre
  <2>3. \A L \in {1, 2, 3, 4} : ls[L] \in Names
      BY <2>2 DEF Names
  <2>4. \A L, M \in {1, 2, 3, 4} : ls[L] # "rebalance" /\ ls[L] = ls[M] => L = M
      BY <2>2
  <2> QED BY <2>1, <2>2, <2>3, <2>4
<1> QED BY <1>1, <1>2 DEF Args

\* Only rebalancing may get no thread at all.
LEMMA StartedIs ==
    ASSUME Args, NEW loop \in Names
    PROVE  /\ Started(loop) \in Nat /\ Share(loop) \in Nat
           /\ loop # "rebalance" => Started(loop) > 0
<1>1. n \div 5 \in Nat /\ n \div 10 \in Nat /\ num_processes \div 2 \in Nat
    BY DEF Args
<1>2. /\ num_processes = 1 \/ num_processes \div 2 > 0
      /\ num_processes - num_processes \div 2 > 0
    BY DEF Args
<1>3. num_processes \in Nat \ {0} /\ num_rebal_threads \in Nat /\ n \in Nat
    BY DEF Args
<1>4. Started(loop) \in Nat /\ (loop # "rebalance" => Started(loop) > 0)
  <2>1. PICK h \in Nat : /\ h = num_processes \div 2
                         /\ num_processes = 1 \/ h > 0
                         /\ num_processes - h \in Nat \ {0}
      BY <1>1, <1>2, <1>3
  <2>2. CASE loop = "deleteMixed"
    <3>1. Started(loop) = IF num_processes = 1 THEN 1 ELSE num_processes \div 2
        BY <2>2, StartedCases, Zenon
    <3> QED BY <3>1, <2>1, <1>3
  <2>3. CASE loop = "insertMixed"
    <3>1. Started(loop) = num_processes - num_processes \div 2
        BY <2>3, StartedCases, Zenon
    <3> QED BY <3>1, <2>1, <1>3
  <2>4. CASE loop \in {"insert", "delete"}
    <3>1. Started(loop) = num_processes
        BY <2>4, StartedCases, Zenon
    <3> QED BY <3>1, <1>3
  <2>5. CASE loop = "rebalance"
    <3>1. Started(loop) = num_rebal_threads
        BY <2>5, StartedCases, Zenon
    <3> QED BY <3>1, <2>5, <1>3
  <2> QED BY <2>2, <2>3, <2>4, <2>5 DEF Names
<1>5. Share(loop) \in Nat
  <2>1. CASE loop = "rebalance" \/ loop = "insert"
    <3>1. Share(loop) = 0 \/ Share(loop) = n
        BY <2>1, ShareCases, Zenon
    <3> QED BY <3>1, <1>3
  <2>2. CASE loop \in {"delete", "deleteMixed", "insertMixed"}
      BY <1>1, <2>2, ShareCases
  <2> QED BY <2>1, <2>2 DEF Names
<1> QED BY <1>4, <1>5

\* The numbers of the threads of one loop are different ones.
LEMMA TidInjective ==
    ASSUME Args, NEW L \in 1 .. Len(Loops), NEW j \in Nat, NEW k \in Nat,
           Tid(Loops[L], j) = Tid(Loops[L], k)
    PROVE  j = k
<1>4. PICK loop \in Names : loop = Loops[L]
    BY LoopNames
<1>5. num_processes \in Nat /\ num_processes \div 2 \in Int
    BY DEF Args
<1>6. PICK a \in Int : Tid(loop, j) = a + j /\ Tid(loop, k) = a + k
  <2>1. CASE loop = "rebalance"
    <3>1. Tid(loop, j) = num_processes + j /\ Tid(loop, k) = num_processes + k
        BY <2>1, TidCases, Zenon
    <3> QED BY <3>1, <1>5
  <2>2. CASE loop = "insertMixed"
    <3>1. /\ Tid(loop, j) = num_processes \div 2 + j
          /\ Tid(loop, k) = num_processes \div 2 + k
        BY <2>2, TidCases, Zenon
    <3> QED BY <3>1, <1>5
  <2>3. CASE loop \in {"insert", "delete", "deleteMixed"}
    <3>1. Tid(loop, j) = j /\ Tid(loop, k) = k
        BY <2>3, TidCases
    <3>2. j = 0 + j /\ k = 0 + k
        OBVIOUS
    <3> QED BY <3>1, <3>2
  <2> QED BY <2>1, <2>2, <2>3 DEF Names
<1>7. a + j = a + k
    BY <1>4, <1>6
<1> QED BY <1>7

\* A thread tells the name of its loop and the counter's value.
LEMMA ThreadIs ==
    ASSUME Args, NEW L \in 1 .. Len(Loops), NEW M \in 1 .. Len(Loops), NEW j \in Nat, NEW k \in Nat,
           Thread(L, j) = Thread(M, k)
    PROVE  Loops[L] = Loops[M] /\ j = k
<1>1. Thread(L, j).loop = Loops[L] /\ Thread(L, j).tid = Tid(Loops[L], j)
    BY DEF Thread
<1>2. Thread(M, k).loop = Loops[M] /\ Thread(M, k).tid = Tid(Loops[M], k)
    BY DEF Thread
<1>3. Loops[L] = Loops[M] /\ Tid(Loops[L], j) = Tid(Loops[L], k)
    BY <1>1, <1>2
<1> QED BY <1>3, TidInjective

\* The bounds of the counter.
LEMMA TurnsAre ==
    ASSUME Args, NEW L \in 1 .. Len(Loops), NEW p, p = Started(Loops[L]), NEW s, s = Share(Loops[L])
    PROVE  /\ Turns(L) = 0 .. p - 1 /\ p \in Nat /\ Turns(L) \subseteq Nat
           /\ Places(L) = 0 .. s - 1 /\ s \in Nat /\ Places(L) \subseteq Nat
<1>1. PICK loop \in Names : loop = Loops[L]
    BY LoopNames
<1>2. p \in Nat /\ s \in Nat
    BY <1>1, StartedIs
<1>3. Turns(L) = 0 .. p - 1 /\ Places(L) = 0 .. s - 1
    BY DEF Turns, Places
<1> QED BY <1>2, <1>3

\* A thread that inserts or deletes belongs to one loop.
LEMMA WorkersDiffer ==
    ASSUME Args, NEW L \in 1 .. Len(Loops), NEW M \in 1 .. Len(Loops), NEW j \in Nat, NEW k \in Nat,
           Loops[L] # "rebalance", Thread(L, j) = Thread(M, k)
    PROVE  L = M /\ j = k
BY ThreadIs, LoopNames

-----------------------------------------------------------------------------
(***************************************************************************)
(* The shares                                                              *)
(***************************************************************************)
\* What a division gives.
LEMMA Quotient ==
    ASSUME NEW s \in Nat, NEW p \in Nat \ {0}
    PROVE  /\ s \div p \in Nat
           /\ p * (s \div p) <= s
           /\ s % p = 0 => p * (s \div p) = s
<1>1. s = p * (s \div p) + (s % p) /\ s % p \in 0 .. p - 1 /\ s \div p \in Int
    OBVIOUS
<1>2. s \div p \in Nat
    OBVIOUS
<1>3. p * (s \div p) \in Int
    BY <1>2
<1> QED BY <1>1, <1>2, <1>3

\* Multiples grow with the factor.
LEMMA Multiples ==
    ASSUME NEW a \in Nat, NEW b \in Nat, a <= b, NEW q \in Nat
    PROVE  a * q <= b * q /\ a * q \in Nat /\ b * q \in Nat
<1>1. PICK d \in Nat : b = a + d
  <2>1. b - a \in Nat /\ b = a + (b - a)
      OBVIOUS
  <2> QED BY <2>1
<1>2. b * q = a * q + d * q
    BY <1>1
<1>3. a * q \in Nat /\ d * q \in Nat
    OBVIOUS
<1> QED BY <1>2, <1>3

\* Every number below s lies in one of p parts, when the last takes the rest.
LEMMA PartsCover ==
    ASSUME NEW s \in Nat, NEW p \in Nat \ {0}, NEW q \in Nat, p * q <= s, NEW x \in 0 .. s - 1
    PROVE  \E j \in 0 .. p - 1 :
              j * q <= x /\ (x < (j + 1) * q \/ j = p - 1)
<1>1. CASE (p - 1) * q <= x
    BY <1>1
<1>2. CASE ~((p - 1) * q <= x)
  <2>1. q # 0
      BY <1>2
  <2>2. PICK d : d = x \div q
      OBVIOUS
  <2>3. d \in Nat /\ d * q <= x /\ x < (d + 1) * q
    <3>1. x = q * d + (x % q) /\ x % q \in 0 .. q - 1 /\ d \in Nat
      <4>1. x \in Nat /\ q \in Nat \ {0}
          BY <2>1
      <4> HIDE <1>2
      <4> QED BY <4>1, <2>2
    <3>2. q * d = d * q /\ (d + 1) * q = d * q + q /\ d * q \in Nat
        BY <3>1
    <3> QED BY <3>1, <3>2
  <2>4. d < p
    <3>1. CASE d >= p
      <4>1. (p - 1) * q <= d * q
          BY <3>1, <2>3, Multiples
      <4>2. (p - 1) * q \in Nat /\ d * q \in Nat
          BY <2>3
      <4> QED BY <4>1, <4>2, <2>3, <1>2
    <3> QED BY <3>1, <2>3
  <2> QED BY <2>3, <2>4
<1> QED BY <1>1, <1>2

\* The shares of a loop: they end where the array ends; but for the deletions
\* of the mixed phase they do not overlap; and they cover the array, in that
\* loop but for the rest of the division.
LEMMA SharesAre ==
    ASSUME Args, NEW loop \in Names \ {"rebalance"}
    PROVE  /\ \A j \in 0 .. Started(loop) - 1 :
                 Low(loop, j) \in Nat /\ High(loop, j) \in Nat /\ High(loop, j) <= Share(loop)
           /\ loop # "deleteMixed" =>
                 \A j, k \in 0 .. Started(loop) - 1 : j < k => High(loop, j) <= Low(loop, k)
           /\ \A x \in 0 .. Share(loop) - 1 :
                 loop # "deleteMixed" \/ x < Started(loop) * (Share(loop) \div Started(loop)) =>
                    \E j \in 0 .. Started(loop) - 1 : Low(loop, j) <= x /\ x < High(loop, j)
<1>1. PICK s \in Nat, p \in Nat \ {0} : s = Share(loop) /\ p = Started(loop)
    BY StartedIs
<1>2. PICK q \in Nat : q = s \div p /\ p * q <= s /\ (s % p = 0 => p * q = s)
    BY Quotient
<1>3. \A j : Low(loop, j) = j * q
    BY <1>1, <1>2 DEF Low
<1>4. ASSUME NEW j
      PROVE  High(loop, j) = IF \/ loop = "deleteMixed" /\ (j + 1) * q = p - 1
                                \/ loop # "deleteMixed" /\ j = p - 1
                             THEN s ELSE (j + 1) * q
  <2>1. High(loop, j) = IF \/ loop = "deleteMixed" /\ (j + 1) * (Share(loop) \div Started(loop)) = Started(loop) - 1
                           \/ loop # "deleteMixed" /\ j = Started(loop) - 1
                        THEN Share(loop) ELSE (j + 1) * (Share(loop) \div Started(loop))
    <3>1. CASE loop = "deleteMixed"
        BY <3>1, Zenon DEF High
    <3>2. CASE loop # "deleteMixed"
        BY <3>2, Zenon DEF High
    <3> QED BY <3>1, <3>2
  <2> QED BY <2>1, <1>1, <1>2
<1>5. ASSUME NEW j \in 0 .. p - 1
      PROVE  Low(loop, j) \in Nat /\ High(loop, j) \in Nat /\ High(loop, j) <= s
  <2>1. j * q \in Nat /\ (j + 1) * q \in Nat /\ (j + 1) * q <= p * q
      BY Multiples
  <2>2. High(loop, j) = s \/ High(loop, j) = (j + 1) * q
      BY <1>4
  <2> QED BY <2>1, <2>2, <1>2, <1>3
<1>6. ASSUME loop # "deleteMixed", NEW j \in 0 .. p - 1, NEW k \in 0 .. p - 1, j < k
      PROVE  High(loop, j) <= Low(loop, k)
  <2>0. j < k /\ j \in Nat /\ k \in Nat /\ j + 1 <= k /\ j # p - 1
    <3>1. j < k
        BY <1>6
    <3> HIDE <1>6
    <3> QED BY <3>1
  <2>1. (j + 1) * q <= k * q
      BY <2>0, Multiples
  <2>2. j # p - 1
      BY <2>0
  <2>3. High(loop, j) = (j + 1) * q
      BY <1>6, <2>2, <1>4
  <2> QED BY <2>1, <2>3, <1>3
<1>7. ASSUME NEW x \in 0 .. s - 1, loop # "deleteMixed" \/ x < p * q
      PROVE  \E j \in 0 .. p - 1 : Low(loop, j) <= x /\ x < High(loop, j)
  <2>1. PICK j \in 0 .. p - 1 : j * q <= x /\ (x < (j + 1) * q \/ j = p - 1)
      BY <1>2, PartsCover
  <2>2. (j + 1) * q \in Nat /\ High(loop, j) \in Nat
      BY <1>5, Multiples
  <2>3. x < High(loop, j)
    <3>1. CASE High(loop, j) = s
        BY <3>1
    <3>2. CASE High(loop, j) # s
      <4>1. High(loop, j) = (j + 1) * q
          BY <3>2, <1>4
      <4>2. j = p - 1 => x < (j + 1) * q
        <5>1. j = p - 1 => loop = "deleteMixed"
            BY <3>2, <1>4
        <5>2. j = p - 1 => j + 1 = p
            OBVIOUS
        <5> QED BY <5>1, <5>2, <1>2, <1>7
      <4> QED BY <4>1, <4>2, <2>1, <2>2
    <3> QED BY <3>1, <3>2
  <2> QED BY <2>1, <2>3, <1>3
<1>8. Started(loop) * (Share(loop) \div Started(loop)) = p * q
    BY <1>1, <1>2
<1> QED BY <1>1, <1>5, <1>6, <1>7, <1>8

-----------------------------------------------------------------------------
(***************************************************************************)
(* The keys of a thread                                                    *)
(***************************************************************************)
\* Which keys the threads of each loop insert or delete.
LEMMA MineIs ==
    ASSUME Args, NEW L \in 1 .. Len(Loops), NEW j \in Turns(L), NEW k \in Mine(L, j)
    PROVE  /\ Loops[L] = "insert" => k \in 0 .. n - 1
           /\ Loops[L] = "insertMixed" => k \in n .. n + (n \div 5) - 1
           /\ Loops[L] = "deleteMixed" =>
                 k \in n \div 5 .. n \div 5 + (n \div 5) - 1
           /\ Loops[L] = "delete" /\ program = "nonblocking" => k \in 0 .. (n \div 5) - 1
           /\ Loops[L] = "delete" /\ program = "finegrained" =>
                 k \in 0 .. n - 1 /\ k % 10 = 0
<1>1. PICK loop \in Names : loop = Loops[L]
    BY LoopNames
<1>2. CASE loop # "rebalance"
  <2>1. PICK x \in Low(loop, j) .. High(loop, j) - 1 : k = KeyAt(loop, x)
      BY <1>1 DEF Mine
  <2>2. Low(loop, j) \in Nat /\ High(loop, j) \in Nat /\ High(loop, j) <= Share(loop)
      BY <1>1, <1>2, SharesAre DEF Turns
  <2>3. x \in 0 .. Share(loop) - 1 /\ x \in Nat
      BY <2>1, <2>2, StartedIs
  <2>4. n \in Nat /\ n \div 5 \in Nat /\ n \div 10 \in Nat /\ 10 * (n \div 10) <= n
      BY DEF Args
  <2>n. loop \in {"insertMixed", "deleteMixed"} => program = "nonblocking"
    <3>1. program = "finegrained" => Loops[L] \in {"insert", "rebalance", "delete"}
      <4>1. PICK ls : ls = Loops
          OBVIOUS
      <4>2. program = "finegrained" =>
               /\ 1 .. Len(ls) = {1, 2, 3, 4}
               /\ ls[1] = "insert" /\ ls[2] = "rebalance" /\ ls[3] = "delete" /\ ls[4] = "rebalance"
          BY <4>1, LoopsAre
      <4> QED BY <4>1, <4>2
    <3> QED BY <3>1, <1>1 DEF Args
  <2>5. CASE loop = "insert"
    <3>1. k = x /\ x \in 0 .. n - 1
        BY <2>1, <2>3, <2>5, KeyAtCases, ShareCases, Zenon
    <3> QED BY <3>1, <2>5, <1>1
  <2>6. CASE loop = "insertMixed"
    <3>1. k = n + x /\ x \in 0 .. n \div 5 - 1
      <4>1. Share("insertMixed") = n \div 5
          BY <2>6, <2>n, ShareCases
      <4> QED BY <4>1, <2>1, <2>3, <2>6, KeyAtCases, Zenon
    <3>2. k \in n .. n + (n \div 5) - 1
        BY <3>1, <2>4
    <3> QED BY <3>2, <2>6, <1>1
  <2>7. CASE loop = "deleteMixed"
    <3>1. k = n \div 5 + x /\ x \in 0 .. n \div 5 - 1
      <4>1. Share("deleteMixed") = n \div 5
          BY <2>7, <2>n, ShareCases
      <4> QED BY <4>1, <2>1, <2>3, <2>7, KeyAtCases, Zenon
    <3>2. k \in n \div 5 .. n \div 5 + (n \div 5) - 1
        BY <3>1, <2>4
    <3> QED BY <3>2, <2>7, <1>1
  <2>8. CASE loop = "delete" /\ program = "nonblocking"
    <3>1. k = x /\ x \in 0 .. n \div 5 - 1
      <4>1. Share("delete") = n \div 5
          BY <2>8, ShareCases
      <4> QED BY <4>1, <2>1, <2>3, <2>8, KeyAtCases, Zenon
    <3> QED BY <3>1, <2>8, <1>1
  <2>9. CASE loop = "delete" /\ program = "finegrained"
    <3>1. k = 10 * x /\ x \in 0 .. n \div 10 - 1
      <4>1. Share("delete") = n \div 10
          BY <2>9, ShareCases
      <4> QED BY <4>1, <2>1, <2>3, <2>9, KeyAtCases, Zenon
    <3>2. k \in 0 .. n - 1 /\ k % 10 = 0
        BY <3>1, <2>4
    <3> QED BY <3>2, <2>9, <1>1
  <2> QED BY <1>1, <1>2, <2>5, <2>6, <2>7, <2>8, <2>9 DEF Names, Args
<1> QED BY <1>1, <1>2

\* No two threads insert the same key.
LEMMA OneInserter ==
    ASSUME Args, NEW L \in Inserters, NEW M \in Inserters,
           NEW j \in Turns(L), NEW i2 \in Turns(M),
           NEW k, k \in Mine(L, j), k \in Mine(M, i2)
    PROVE  L = M /\ j = i2
<1>1. PICK a \in Names, b \in Names : a = Loops[L] /\ b = Loops[M]
    BY LoopNames DEF Inserters
<1>2. a \in {"insert", "insertMixed"} /\ b \in {"insert", "insertMixed"}
    BY <1>1 DEF Inserters
<1>3. L \in 1 .. Len(Loops) /\ M \in 1 .. Len(Loops)
    BY DEF Inserters
<1>4. n \in Nat /\ n \div 5 \in Nat
    BY DEF Args
<1>5. a = b
  <2>1. a = "insert" => k \in 0 .. n - 1
      BY <1>1, <1>3, MineIs
  <2>2. b = "insert" => k \in 0 .. n - 1
      BY <1>1, <1>3, MineIs
  <2>3. a = "insertMixed" => k \in n .. n + (n \div 5) - 1
      BY <1>1, <1>3, MineIs
  <2>4. b = "insertMixed" => k \in n .. n + (n \div 5) - 1
      BY <1>1, <1>3, MineIs
  <2>5. ~(k \in 0 .. n - 1 /\ k \in n .. n + (n \div 5) - 1)
      BY <1>4
  <2>6. ~(a = "insert" /\ b = "insertMixed")
      BY <2>1, <2>4, <2>5
  <2>7. ~(b = "insert" /\ a = "insertMixed")
      BY <2>2, <2>3, <2>5
  <2> QED BY <1>2, <2>6, <2>7
<1>6. L = M
    BY <1>1, <1>2, <1>3, <1>5, LoopNames
<1>7. PICK x \in Low(a, j) .. High(a, j) - 1 : k = KeyAt(a, x)
    BY <1>1 DEF Mine
<1>8. PICK y \in Low(a, i2) .. High(a, i2) - 1 : k = KeyAt(a, y)
    BY <1>1, <1>6 DEF Mine
<1>9. /\ Low(a, j) \in Nat /\ Low(a, i2) \in Nat /\ High(a, j) \in Nat /\ High(a, i2) \in Nat
      /\ j < i2 => High(a, j) <= Low(a, i2)
      /\ i2 < j => High(a, i2) <= Low(a, j)
    BY <1>1, <1>2, <1>6, SharesAre DEF Turns
<1>10. x = y
  <2>1. CASE a = "insert"
    <3>1. KeyAt(a, x) = x /\ KeyAt(a, y) = y
        BY <2>1, KeyAtCases, Zenon
    <3> QED BY <1>7, <1>8, <3>1
  <2>2. CASE a = "insertMixed"
    <3>1. k = n + x /\ k = n + y
        BY <1>7, <1>8, <2>2, KeyAtCases, Zenon
    <3>2. x \in Int /\ y \in Int
        BY <1>7, <1>8, <1>9
    <3> QED BY <3>1, <3>2, <1>4
  <2> QED BY <1>2, <2>1, <2>2
<1>11. j = i2
  <2>1. j \in Int /\ i2 \in Int
      BY <1>3, <1>6, TurnsAre
  <2>2. ~(j < i2) /\ ~(i2 < j)
      BY <1>7, <1>8, <1>9, <1>10
  <2> QED BY <2>1, <2>2
<1> QED BY <1>6, <1>11

\* Every place of the array belongs to a thread of the loop; in the mixed
\* phase, but for the rest of the division.
LEMMA PlacesTaken ==
    ASSUME Args, NEW L \in 1 .. Len(Loops), Loops[L] # "rebalance",
           NEW x \in Places(L),
           Loops[L] = "deleteMixed" => x < Started(Loops[L]) * (Share(Loops[L]) \div Started(Loops[L]))
    PROVE  \E j \in Turns(L) : KeyAt(Loops[L], x) \in Mine(L, j)
<1>1. PICK loop \in Names \ {"rebalance"} : loop = Loops[L]
    BY LoopNames
<1>2. PICK j \in Turns(L) : Low(loop, j) <= x /\ x < High(loop, j)
    BY <1>1, SharesAre DEF Turns, Places
<1>3. Low(loop, j) \in Nat /\ High(loop, j) \in Nat
    BY <1>1, <1>2, SharesAre DEF Turns
<1>4. x \in Low(loop, j) .. High(loop, j) - 1
  <2>1. x \in Nat
      BY TurnsAre
  <2> QED BY <1>2, <1>3, <2>1
<1> QED BY <1>1, <1>2, <1>4 DEF Mine

-----------------------------------------------------------------------------
(***************************************************************************)
(* Thread numbers                                                          *)
(***************************************************************************)
\* The numbers that the loops of the non-blocking program give out.
LEMMA TidRange ==
    ASSUME Args, program = "nonblocking", NEW L \in 1 .. Len(Loops), NEW j \in Nat,
           j < Started(Loops[L])
    PROVE  /\ Thread(L, j).tid \in Nat
           /\ L = 2 => /\ num_processes <= Thread(L, j).tid
                       /\ Thread(L, j).tid < num_processes + num_rebal_threads
           /\ L # 2 => Thread(L, j).tid < num_processes
           /\ L = 4 /\ num_processes > 1 => Thread(L, j).tid < num_processes \div 2
           /\ L = 5 => num_processes \div 2 <= Thread(L, j).tid
<1>1. PICK ls : ls = Loops
    OBVIOUS
<1>2. /\ L \in {1, 2, 3, 4, 5}
      /\ ls[1] = "insert" /\ ls[2] = "rebalance" /\ ls[3] = "delete"
      /\ ls[4] = "deleteMixed" /\ ls[5] = "insertMixed"
    BY <1>1, LoopsAre
<1>3. PICK h : h = num_processes \div 2
    OBVIOUS
<1>4. /\ num_processes \in Nat \ {0} /\ num_rebal_threads \in Nat
      /\ h \in Nat /\ 2 * h <= num_processes
    BY <1>3 DEF Args
<1>5. Thread(L, j).tid = Tid(ls[L], j) /\ j < Started(ls[L])
    BY <1>1 DEF Thread
<1>6. CASE L = 1 \/ L = 3
  <2>1. Tid(ls[L], j) = j /\ Started(ls[L]) = num_processes
    <3>1. ls[L] \in {"insert", "delete"}
        BY <1>2, <1>6
    <3> QED BY <3>1, TidCases, StartedCases, Zenon
  <2> QED BY <1>4, <1>5, <1>6, <2>1
<1>7. CASE L = 2
  <2>1. Tid(ls[L], j) = num_processes + j /\ Started(ls[L]) = num_rebal_threads
      BY <1>2, <1>7, TidCases, StartedCases, Zenon
  <2> QED BY <1>4, <1>5, <1>7, <2>1
<1>8. CASE L = 4
  <2>1. Tid(ls[L], j) = j /\ Started(ls[L]) = IF num_processes = 1 THEN 1 ELSE num_processes \div 2
      BY <1>2, <1>8, TidCases, StartedCases, Zenon
  <2>2. Started(ls[L]) = IF num_processes = 1 THEN 1 ELSE h
      BY <2>1, <1>3
  <2> QED BY <1>3, <1>4, <1>5, <1>8, <2>1, <2>2
<1>9. CASE L = 5
  <2>1. Tid(ls[L], j) = num_processes \div 2 + j /\ Started(ls[L]) = num_processes - num_processes \div 2
      BY <1>2, <1>9, TidCases, StartedCases, Zenon
  <2>2. Tid(ls[L], j) = h + j /\ Started(ls[L]) = num_processes - h
      BY <2>1, <1>3
  <2> QED BY <1>3, <1>4, <1>5, <1>9, <2>2
<1> QED BY <1>2, <1>6, <1>7, <1>8, <1>9

\* Threads that run together have different numbers.
LEMMA TidsHold == Args /\ Counters /\ Origins => TidsAreOwn
<1> SUFFICES ASSUME Args, Counters, Origins, program = "nonblocking"
             PROVE  /\ num_processes + num_rebal_threads <= Room =>
                          \A t \in running : t.tid < Room
                    /\ \A t, u \in running : t # u => t.tid # u.tid
    BY DEF TidsAreOwn
<1>0. num_processes \in Nat \ {0}
    BY DEF Args
<1>1. ASSUME num_processes + num_rebal_threads <= Room, NEW t \in running
      PROVE  t.tid < Room
  <2>1. PICK L \in 1 .. Len(Loops), j \in Nat : Origin(t, L, j)
      BY DEF Origins
  <2>2. t = Thread(L, j) /\ j < Started(Loops[L])
      BY <2>1 DEF Origin
  <2>3. t.tid \in Nat /\ (t.tid < num_processes \/ t.tid < num_processes + num_rebal_threads)
      BY <2>2, TidRange
  <2>4. num_rebal_threads \in Nat
      BY DEF Args
  <2> QED BY <1>0, <1>1, <2>3, <2>4 DEF Room
<1>2. ASSUME NEW t \in running, NEW u \in running, t.tid = u.tid PROVE t = u
  <2>1. PICK L \in 1 .. Len(Loops), j \in Nat : Origin(t, L, j)
      BY DEF Origins
  <2>2. PICK M \in 1 .. Len(Loops), k \in Nat : Origin(u, M, k)
      BY DEF Origins
  <2>3. PICK a, b : a = t.tid /\ b = u.tid
      OBVIOUS
  <2>4. /\ a \in Nat
        /\ L = 2 => num_processes <= a
        /\ L # 2 => a < num_processes
        /\ L = 4 /\ num_processes > 1 => a < num_processes \div 2
        /\ L = 5 => num_processes \div 2 <= a
      BY <2>1, <2>3, TidRange DEF Origin
  <2>5. /\ M = 2 => num_processes <= a
        /\ M # 2 => a < num_processes
        /\ M = 4 /\ num_processes > 1 => a < num_processes \div 2
        /\ M = 5 => num_processes \div 2 <= a
      BY <1>2, <2>2, <2>3, TidRange DEF Origin
  <2>6. (L = 2 <=> M = 2) /\ ~(L = 4 /\ num_processes > 1 /\ M = 5) /\ ~(M = 4 /\ num_processes > 1 /\ L = 5)
    <3>1. PICK h : h = num_processes \div 2
        OBVIOUS
    <3>2. h \in Nat
        BY <1>0, <3>1
    <3> QED BY <1>0, <2>4, <2>5, <3>1, <3>2
  <2>7. L = M
    <3>1. Together(L) /\ Together(M) /\ program # "finegrained"
        BY <2>1, <2>2 DEF Origin
    <3>2. L \in Int /\ M \in Int /\ phase \in Int
        BY DEF Counters
    <3> QED BY <2>6, <3>1, <3>2 DEF Together
  <2>8. j = k
    <3>1. t = Thread(L, j) /\ u = Thread(L, k)
        BY <2>1, <2>2, <2>7 DEF Origin
    <3>2. Tid(Loops[L], j) = Tid(Loops[L], k)
        BY <1>2, <3>1 DEF Thread
    <3> QED BY <3>2, TidInjective
  <2> QED BY <2>1, <2>2, <2>7, <2>8 DEF Origin
<1> QED BY <1>1, <1>2

-----------------------------------------------------------------------------
(***************************************************************************)
(* The steps                                                               *)
(***************************************************************************)
\* What the arguments determine stays the same.
LEMMA SameArgs ==
    ASSUME UNCHANGED args
    PROVE  /\ Args' <=> Args
           /\ Loops' = Loops /\ Keys' = Keys /\ NewKeys' = NewKeys
           /\ \A l : Started(l)' = Started(l)
           /\ \A L, j : Thread(L, j)' = Thread(L, j) /\ Mine(L, j)' = Mine(L, j)
           /\ \A L : Turns(L)' = Turns(L)
           /\ Inserters' = Inserters /\ Deleters' = Deleters
           /\ Disputed' = Disputed
<1>1. /\ program' = program /\ n' = n
      /\ num_processes' = num_processes /\ num_rebal_threads' = num_rebal_threads
    BY DEF args
<1>2. Loops' = Loops /\ Keys' = Keys /\ NewKeys' = NewKeys /\ (Args' <=> Args)
    BY <1>1 DEF Loops, Keys, NewKeys, Args
<1>3. ASSUME NEW l PROVE Started(l)' = Started(l)
    BY <1>1, Zenon DEF Started
<1>4. ASSUME NEW l PROVE Share(l)' = Share(l)
    BY <1>1, Zenon DEF Share
<1>5. ASSUME NEW l, NEW j
      PROVE  /\ Tid(l, j)' = Tid(l, j) /\ KeyAt(l, j)' = KeyAt(l, j)
             /\ Low(l, j)' = Low(l, j) /\ High(l, j)' = High(l, j)
  <2>1. Tid(l, j)' = Tid(l, j)
      BY <1>1, Zenon DEF Tid
  <2>2. KeyAt(l, j)' = KeyAt(l, j)
      BY <1>1, Zenon DEF KeyAt
  <2>3. Low(l, j)' = Low(l, j)
      BY <1>3, <1>4, Zenon DEF Low
  <2>4. High(l, j)' = High(l, j)
      BY <1>3, <1>4, Zenon DEF High
  <2> QED BY <2>1, <2>2, <2>3, <2>4
<1>6. ASSUME NEW L, NEW j
      PROVE  Thread(L, j)' = Thread(L, j) /\ Mine(L, j)' = Mine(L, j)
    BY <1>2, <1>5 DEF Thread, Mine
<1>7. ASSUME NEW L PROVE Turns(L)' = Turns(L)
    BY <1>2, <1>3 DEF Turns
<1>8. Inserters' = Inserters /\ Deleters' = Deleters
    BY <1>2 DEF Inserters, Deleters
<1>9. Disputed' = Disputed
    BY <1>1, <1>2, <1>3, <1>4, <1>5 DEF Disputed
<1> QED BY <1>2, <1>3, <1>6, <1>7, <1>8, <1>9

\* The loops that insert and those that delete.
LEMMA WhichLoops ==
    ASSUME Args
    PROVE  /\ Inserters \subseteq 1 .. Len(Loops) /\ Deleters \subseteq 1 .. Len(Loops)
           /\ \A L \in Inserters \cup Deleters : Loops[L] # "rebalance"
           /\ \A L \in 1 .. Len(Loops) : Loops[L] # "rebalance" => L \in Inserters \cup Deleters
           /\ Inserters \cap Deleters = {}
           /\ 1 \in Inserters /\ 3 \in Deleters
           /\ program = "nonblocking" => Inserters = {1, 5} /\ Deleters = {3, 4}
           /\ program = "finegrained" => Inserters = {1} /\ Deleters = {3}
<1>1. /\ Inserters \subseteq 1 .. Len(Loops) /\ Deleters \subseteq 1 .. Len(Loops)
      /\ \A L \in Inserters \cup Deleters : Loops[L] # "rebalance"
      /\ Inserters \cap Deleters = {}
    BY DEF Inserters, Deleters
<1>2. \A L \in 1 .. Len(Loops) : Loops[L] # "rebalance" => L \in Inserters \cup Deleters
    BY LoopNames DEF Names, Inserters, Deleters
<1>3. PICK ls : ls = Loops
    OBVIOUS
<1>4. CASE program = "nonblocking"
  <2>1. /\ 1 .. Len(ls) = {1, 2, 3, 4, 5}
        /\ ls[1] = "insert" /\ ls[2] = "rebalance" /\ ls[3] = "delete"
        /\ ls[4] = "deleteMixed" /\ ls[5] = "insertMixed"
      BY <1>3, <1>4, LoopsAre
  <2>2. Inserters = {L \in {1, 2, 3, 4, 5} : ls[L] \in {"insert", "insertMixed"}}
      BY <1>3, <2>1 DEF Inserters
  <2>3. Deleters = {L \in {1, 2, 3, 4, 5} : ls[L] \in {"delete", "deleteMixed"}}
      BY <1>3, <2>1 DEF Deleters
  <2>4. Inserters = {1, 5} /\ Deleters = {3, 4}
      BY <2>1, <2>2, <2>3
  <2> QED BY <1>1, <1>2, <1>4, <2>4
<1>5. CASE program = "finegrained"
  <2>1. /\ 1 .. Len(ls) = {1, 2, 3, 4}
        /\ ls[1] = "insert" /\ ls[2] = "rebalance" /\ ls[3] = "delete" /\ ls[4] = "rebalance"
      BY <1>3, <1>5, LoopsAre
  <2>2. Inserters = {L \in {1, 2, 3, 4} : ls[L] \in {"insert", "insertMixed"}}
      BY <1>3, <2>1 DEF Inserters
  <2>3. Deleters = {L \in {1, 2, 3, 4} : ls[L] \in {"delete", "deleteMixed"}}
      BY <1>3, <2>1 DEF Deleters
  <2>4. Inserters = {1} /\ Deleters = {3}
      BY <2>1, <2>2, <2>3
  <2> QED BY <1>1, <1>2, <1>5, <2>4
<1> QED BY <1>4, <1>5 DEF Args

\* A step by which no thread that inserts or deletes ends.
Steady ==
    /\ UNCHANGED <<args, leaves>>
    /\ \A L \in Inserters \cup Deleters : \A j \in Turns(L) : Finished(L, j)' <=> Finished(L, j)

\* Such a step leaves what the tree contains as it should be.
LEMMA SteadyContents == Contents /\ Steady => Contents'
<1> SUFFICES ASSUME Contents, Steady PROVE Contents'
    OBVIOUS
<1>1. UNCHANGED args /\ leaves' = leaves
    BY DEF Steady
<1>2. /\ Keys' = Keys /\ NewKeys' = NewKeys /\ Inserters' = Inserters /\ Deleters' = Deleters
      /\ \A L : Turns(L)' = Turns(L)
      /\ \A L, j : Mine(L, j)' = Mine(L, j)
    BY <1>1, SameArgs
<1>3. ASSUME NEW k
      PROVE  /\ FinishedOn(Inserters, k)' <=> FinishedOn(Inserters, k)
             /\ FinishedOn(Deleters, k)' <=> FinishedOn(Deleters, k)
    BY <1>2 DEF Steady, FinishedOn
<1> QED BY <1>1, <1>2, <1>3 DEF Contents

\* The threads of a loop that has come to its end have all been started.
LEMMA EndedTurns ==
    ASSUME Args, Counters, InALoop, i = Started(Loop), NEW j \in Turns(phase)
    PROVE  j < i /\ j \in Nat
<1>1. phase \in 1 .. Len(Loops)
    BY DEF Counters, InALoop
<1>2. PICK p : p = Started(Loops[phase])
    OBVIOUS
<1>3. Turns(phase) = 0 .. p - 1 /\ p \in Nat
    BY <1>1, <1>2, TurnsAre
<1> QED BY <1>2, <1>3 DEF Loop

\* A thread is started.
LEMMA StartStep ==
    ASSUME DriverInv, Start
    PROVE  DriverInv'
<1>0. /\ Args /\ Counters /\ Origins /\ Contents /\ Silent
      /\ UNCHANGED args /\ phase' = phase /\ i' = i + 1 /\ leaves' = leaves /\ printed' = printed
      /\ i < Started(Loop) /\ InALoop
    BY DEF DriverInv, Start
<1>1. phase \in 1 .. Len(Loops) /\ i \in Nat /\ Started(Loop) \in Nat
  <2>1. phase \in 1 .. Len(Loops) /\ i \in Nat
      BY <1>0 DEF Counters, InALoop
  <2> QED BY <1>0, <2>1, TurnsAre DEF Loop
<1>2. running' = running \cup {Thread(phase, i)}
    BY DEF Start, Thread, Loop
<1>3. /\ Args' /\ Loops' = Loops
      /\ \A l : Started(l)' = Started(l)
      /\ \A L, j : Thread(L, j)' = Thread(L, j)
    BY <1>0, SameArgs
<1>4. Counters'
    BY <1>0, <1>1, <1>3 DEF Counters, InALoop, Loop
<1>5. Origins'
  <2>1. ASSUME NEW t \in running
        PROVE  \E L \in 1 .. Len(Loops), j \in Nat : Origin(t, L, j)'
    <3>1. PICK L \in 1 .. Len(Loops), j \in Nat : Origin(t, L, j)
        BY <1>0 DEF Origins
    <3>2. Together(L)'
        BY <1>0, <3>1 DEF Origin, Together, args
    <3>3. Origin(t, L, j)'
        BY <1>0, <1>1, <1>3, <3>1, <3>2 DEF Origin
    <3> QED BY <3>3
  <2>2. PICK P, I, T : P = phase /\ I = i /\ T = Thread(phase, i)
      OBVIOUS
  <2>3. Origin(T, P, I)'
    <3>1. Together(P)'
        BY <1>0, <2>2 DEF Together
    <3>2. T = Thread(P, I)'
        BY <1>3, <2>2
    <3>3. I < Started(Loops[P])'
        BY <1>0, <1>3, <2>2 DEF Loop
    <3> QED BY <1>0, <1>1, <2>2, <3>1, <3>2, <3>3 DEF Origin
  <2>4. \A t \in running' : t \in running \/ t = T
      BY <1>2, <2>2
  <2>5. P \in 1 .. Len(Loops) /\ I \in Nat
      BY <1>1, <2>2
  <2>6. (1 .. Len(Loops))' = 1 .. Len(Loops)
      BY <1>3
  <2> QED BY <2>1, <2>3, <2>4, <2>5, <2>6 DEF Origins
<1>6. Steady
  <2> SUFFICES ASSUME NEW L \in Inserters \cup Deleters, NEW j \in Turns(L)
               PROVE  Finished(L, j)' <=> Finished(L, j)
      BY <1>0 DEF Steady
  <2>1. L \in 1 .. Len(Loops) /\ Loops[L] # "rebalance" /\ j \in Nat /\ L \in Int
    <3>1. L \in 1 .. Len(Loops) /\ Loops[L] # "rebalance"
        BY <1>0, WhichLoops
    <3>2. Turns(L) \subseteq Nat
        BY <1>0, <3>1, TurnsAre
    <3> QED BY <3>1, <3>2
  <2>2. Thread(L, j) = Thread(phase, i) <=> L = phase /\ j = i
      BY <1>0, <1>1, <2>1, WorkersDiffer
  <2>3. phase \in Int
      BY <1>1
  <2> QED BY <1>0, <1>1, <1>2, <1>3, <2>1, <2>2, <2>3 DEF Finished
<1>7. Contents'
    BY <1>0, <1>6, SteadyContents
<1>8. Silent'
    BY <1>0, <1>3, SameArgs DEF Silent
<1> QED BY <1>3, <1>4, <1>5, <1>7, <1>8 DEF DriverInv

\* The deleters that have ended have not seen what is still to be inserted.
LEMMA NotDeleted ==
    ASSUME Args, Counters, NEW L \in Inserters, Together(L), NEW j \in Turns(L),
           NEW k \in Mine(L, j)
    PROVE  ~FinishedOn(Deleters, k)
<1> SUFFICES ASSUME NEW M \in Deleters, NEW m \in Turns(M), k \in Mine(M, m), Finished(M, m)
             PROVE  FALSE
    BY DEF FinishedOn
<1>1. M <= phase /\ phase \in Int /\ M \in 1 .. Len(Loops) /\ L \in 1 .. Len(Loops)
  <2>1. M \in 1 .. Len(Loops) /\ L \in 1 .. Len(Loops)
      BY WhichLoops
  <2> QED BY <2>1 DEF Finished, Counters
<1>2. M \in {3, 4} /\ L \in {1, 5} /\ (L = 5 => program = "nonblocking")
    BY WhichLoops DEF Args
<1>3. L # 1
    BY <1>1, <1>2 DEF Together
<1>4. L = 5 /\ program = "nonblocking"
    BY <1>2, <1>3
<1>5. Loops[5] = "insertMixed" /\ Loops[3] = "delete" /\ Loops[4] = "deleteMixed"
  <2>1. PICK ls : ls = Loops
      OBVIOUS
  <2>2. ls[5] = "insertMixed" /\ ls[3] = "delete" /\ ls[4] = "deleteMixed"
      BY <1>4, <2>1, LoopsAre
  <2> QED BY <2>1, <2>2
<1>6. PICK f : f = n \div 5
    OBVIOUS
<1>7. n \in Nat /\ f \in Nat /\ f + f <= n
    BY <1>6 DEF Args
<1>8. k \in n .. n + f - 1
    BY <1>1, <1>4, <1>5, <1>6, MineIs
<1>9. k \in f .. f + f - 1 \/ k \in 0 .. f - 1
  <2>1. CASE M = 3
      BY <1>1, <1>4, <1>5, <1>6, <2>1, MineIs
  <2>2. CASE M = 4
      BY <1>1, <1>4, <1>5, <1>6, <2>2, MineIs
  <2> QED BY <1>2, <2>1, <2>2
<1> QED BY <1>7, <1>8, <1>9

\* A thread inserts or deletes its share and ends.
LEMMA WorkStep ==
    ASSUME DriverInv, NEW t \in Workers, Work(t)
    PROVE  DriverInv'
<1>0. /\ Args /\ Counters /\ Origins /\ Contents /\ Silent
      /\ UNCHANGED args /\ phase' = phase /\ i' = i /\ printed' = printed
      /\ running' = running \ {t} /\ t \in running /\ t.loop # "rebalance"
    BY DEF DriverInv, Work, Workers
<1>1. PICK L0 \in 1 .. Len(Loops), j0 \in Nat : Origin(t, L0, j0)
    BY <1>0 DEF Origins
<1>2. /\ t = Thread(L0, j0) /\ Together(L0) /\ ~Finished(L0, j0)
      /\ j0 < Started(Loops[L0]) /\ L0 <= phase /\ (L0 = phase => j0 < i)
    BY <1>0, <1>1 DEF Origin, Finished
<1>3. t.loop = Loops[L0] /\ t.low = Low(Loops[L0], j0) /\ t.high = High(Loops[L0], j0)
    BY <1>2 DEF Thread
<1>4. L0 \in Inserters \cup Deleters /\ j0 \in Turns(L0)
  <2>1. PICK p : p = Started(Loops[L0])
      OBVIOUS
  <2>2. Turns(L0) = 0 .. p - 1 /\ p \in Nat
      BY <1>0, <2>1, TurnsAre
  <2>3. j0 \in Turns(L0)
      BY <1>2, <2>1, <2>2
  <2> QED BY <1>0, <1>3, <2>3, WhichLoops
<1>5. (t.loop \in {"insert", "insertMixed"}) <=> L0 \in Inserters
    BY <1>3 DEF Inserters
<1>6. leaves' = [k \in Keys \cup NewKeys |->
                   IF k \notin Mine(L0, j0) THEN leaves[k]
                   ELSE IF L0 \in Inserters THEN leaves[k] + 1
                   ELSE IF leaves[k] > 0 THEN leaves[k] - 1 ELSE 0]
  <2>1. {KeyAt(t.loop, j) : j \in t.low .. t.high - 1} = Mine(L0, j0)
      BY <1>3 DEF Mine
  <2>2. DOMAIN leaves = Keys \cup NewKeys
      BY <1>0 DEF Contents
  <2> QED BY <1>5, <2>1, <2>2 DEF Work
<1>7. /\ Args' /\ Loops' = Loops /\ Keys' = Keys /\ NewKeys' = NewKeys
      /\ \A l : Started(l)' = Started(l)
      /\ \A L, j : Thread(L, j)' = Thread(L, j) /\ Mine(L, j)' = Mine(L, j)
      /\ \A L : Turns(L)' = Turns(L)
      /\ Inserters' = Inserters /\ Deleters' = Deleters
    BY <1>0, SameArgs
<1>8. Counters'
    BY <1>0, <1>7 DEF Counters, InALoop, Loop
<1>9. Origins'
  <2>1. ASSUME NEW u \in running
        PROVE  \E L \in 1 .. Len(Loops), j \in Nat : Origin(u, L, j)'
    <3>1. PICK L \in 1 .. Len(Loops), j \in Nat : Origin(u, L, j)
        BY <1>0 DEF Origins
    <3>2. Together(L)'
        BY <1>0, <3>1 DEF Origin, Together, args
    <3>3. Origin(u, L, j)'
        BY <1>0, <1>7, <3>1, <3>2 DEF Origin
    <3> QED BY <3>3
  <2>2. (1 .. Len(Loops))' = 1 .. Len(Loops)
      BY <1>7
  <2> QED BY <1>0, <2>1, <2>2 DEF Origins
<1>10. ASSUME NEW L \in Inserters \cup Deleters, NEW j \in Turns(L)
       PROVE  Finished(L, j)' <=> Finished(L, j) \/ (L = L0 /\ j = j0)
  <2>1. L \in 1 .. Len(Loops) /\ Loops[L] # "rebalance" /\ j \in Nat
    <3>1. L \in 1 .. Len(Loops) /\ Loops[L] # "rebalance"
        BY <1>0, WhichLoops
    <3>2. Turns(L) \subseteq Nat
        BY <1>0, <3>1, TurnsAre
    <3> QED BY <3>1, <3>2
  <2>2. Thread(L, j) = Thread(L0, j0) <=> L = L0 /\ j = j0
      BY <1>0, <1>1, <2>1, WorkersDiffer
  <2>3. phase \in Int /\ L \in Int
      BY <1>0, <2>1 DEF Counters
  <2> QED BY <1>0, <1>2, <1>7, <2>2, <2>3 DEF Finished
<1>11. ASSUME NEW k
       PROVE  /\ FinishedOn(Inserters, k)' <=>
                    FinishedOn(Inserters, k) \/ (L0 \in Inserters /\ k \in Mine(L0, j0))
              /\ FinishedOn(Deleters, k)' <=>
                    FinishedOn(Deleters, k) \/ (L0 \in Deleters /\ k \in Mine(L0, j0))
  <2>1. FinishedOn(Inserters, k)' <=>
           \E L \in Inserters : \E j \in Turns(L) :
              k \in Mine(L, j) /\ (Finished(L, j) \/ (L = L0 /\ j = j0))
      BY <1>7, <1>10 DEF FinishedOn
  <2>2. FinishedOn(Deleters, k)' <=>
           \E L \in Deleters : \E j \in Turns(L) :
              k \in Mine(L, j) /\ (Finished(L, j) \/ (L = L0 /\ j = j0))
      BY <1>7, <1>10 DEF FinishedOn
  <2> QED BY <1>4, <2>1, <2>2 DEF FinishedOn
<1>12. Contents'
  <2>1. ASSUME NEW k \in Keys \cup NewKeys
        PROVE  /\ leaves[k] \in Nat
               /\ leaves[k] = IF FinishedOn(Inserters, k) /\ ~FinishedOn(Deleters, k) THEN 1 ELSE 0
      BY <1>0 DEF Contents
  <2>2. ASSUME NEW k \in Keys \cup NewKeys
        PROVE  /\ leaves'[k] \in Nat
               /\ leaves'[k] = IF FinishedOn(Inserters, k)' /\ ~FinishedOn(Deleters, k)'
                               THEN 1 ELSE 0
    <3>1. CASE k \notin Mine(L0, j0)
        BY <1>6, <1>11, <2>1, <3>1
    <3>2. CASE k \in Mine(L0, j0) /\ L0 \in Inserters
      <4>1. ~FinishedOn(Inserters, k)
        <5> SUFFICES ASSUME NEW L \in Inserters, NEW j \in Turns(L), k \in Mine(L, j),
                            Finished(L, j)
                     PROVE  FALSE
            BY DEF FinishedOn
        <5>1. L = L0 /\ j = j0
            BY <1>0, <1>4, <3>2, OneInserter
        <5> QED BY <1>2, <5>1
      <4>2. ~FinishedOn(Deleters, k)
          BY <1>0, <1>2, <1>4, <3>2, NotDeleted
      <4>3. L0 \notin Deleters
          BY <1>0, <3>2, WhichLoops
      <4>4. leaves'[k] = 1
          BY <1>6, <2>1, <3>2, <4>1
      <4> QED BY <1>11, <3>2, <4>2, <4>3, <4>4
    <3>3. CASE k \in Mine(L0, j0) /\ L0 \notin Inserters
      <4>1. leaves'[k] = 0
          BY <1>6, <2>1, <3>3
      <4> QED BY <1>4, <1>11, <3>3, <4>1
    <3> QED BY <3>1, <3>2, <3>3
  <2>3. DOMAIN leaves' = Keys \cup NewKeys /\ leaves' = [k \in Keys \cup NewKeys |-> leaves'[k]]
      BY <1>6
  <2>4. leaves' \in [Keys \cup NewKeys -> Nat]
      BY <2>2, <2>3
  <2> QED BY <1>7, <2>2, <2>4 DEF Contents
<1>13. Silent'
    BY <1>0, SameArgs DEF Silent
<1> QED BY <1>7, <1>8, <1>9, <1>12, <1>13 DEF DriverInv

-----------------------------------------------------------------------------
(***************************************************************************)
(* Joins and checks                                                        *)
(***************************************************************************)
\* After which loops main has waited for every thread that inserts or deletes.
LEMMA WaitedFor ==
    ASSUME Args, Counters, InALoop, Joined = {},
           \/ phase = 2
           \/ program = "nonblocking" /\ (phase \in {3, 5} \/ (phase = 4 /\ num_processes = 1))
           \/ program = "finegrained" /\ phase = 4
    PROVE  Workers = {}
<1>1. PICK loop : loop = Loop
    OBVIOUS
<1>2. \/ loop = "rebalance"
      \/ loop \in {"delete", "insertMixed"} /\ program = "nonblocking"
      \/ loop = "deleteMixed" /\ num_processes = 1
  <2>1. PICK ls : ls = Loops
      OBVIOUS
  <2>2. loop = ls[phase]
      BY <1>1, <2>1 DEF Loop
  <2>3. CASE program = "nonblocking"
    <3>1. /\ ls[2] = "rebalance" /\ ls[3] = "delete"
          /\ ls[4] = "deleteMixed" /\ ls[5] = "insertMixed"
        BY <2>1, <2>3, LoopsAre
    <3> QED BY <2>2, <2>3, <3>1
  <2>4. CASE program = "finegrained"
    <3>1. ls[2] = "rebalance" /\ ls[4] = "rebalance"
        BY <2>1, <2>4, LoopsAre
    <3> QED BY <2>2, <2>4, <3>1
  <2> QED BY <2>3, <2>4 DEF Args
<1>3. CASE loop = "rebalance"
    BY <1>1, <1>3, Zenon DEF Joined
<1>4. CASE loop \in {"delete", "insertMixed"} /\ program = "nonblocking"
  <2>1. CASE loop = "delete"
      BY <1>1, <1>4, <2>1, Zenon DEF Joined
  <2>2. CASE loop = "insertMixed"
      BY <1>1, <2>2, Zenon DEF Joined
  <2> QED BY <1>4, <2>1, <2>2
<1>5. CASE loop = "deleteMixed" /\ num_processes = 1
    BY <1>1, <1>5, Zenon DEF Joined
<1> QED BY <1>2, <1>3, <1>4, <1>5

\* Then the threads of the loops before it have all ended.
LEMMA AllEnded ==
    ASSUME Args, Workers = {}, NEW L \in 1 .. Len(Loops), Loops[L] # "rebalance", L < phase,
           NEW j
    PROVE  Finished(L, j)
<1>1. Thread(L, j).loop = Loops[L]
    BY DEF Thread
<1> QED BY <1>1 DEF Finished, Workers

\* So the key in every place of its array has been inserted, or deleted.
LEMMA AllTaken ==
    ASSUME Args, Workers = {}, NEW L \in 1 .. Len(Loops), Loops[L] # "rebalance", L < phase,
           NEW x \in Places(L),
           Loops[L] = "deleteMixed" => x < Started(Loops[L]) * (Share(Loops[L]) \div Started(Loops[L]))
    PROVE  \E j \in Turns(L) : KeyAt(Loops[L], x) \in Mine(L, j) /\ Finished(L, j)
<1>1. PICK j \in Turns(L) : KeyAt(Loops[L], x) \in Mine(L, j)
    BY PlacesTaken
<1> QED BY <1>1, AllEnded

\* Every key has been inserted.
LEMMA KeysInserted ==
    ASSUME Args, Workers = {}, 1 < phase, NEW k \in Keys
    PROVE  FinishedOn(Inserters, k)
<1>1. PICK L : L = 1
    OBVIOUS
<1>2. L \in 1 .. Len(Loops) /\ Loops[L] = "insert"
  <2>1. 1 \in 1 .. Len(Loops) /\ Loops[1] = "insert"
    <3>1. CASE program = "nonblocking"
        BY <3>1, LoopsAre
    <3>2. CASE program = "finegrained"
        BY <3>2, LoopsAre
    <3> QED BY <3>1, <3>2 DEF Args
  <2> QED BY <1>1, <2>1
<1>3. Share(Loops[L]) = n
    BY <1>2, ShareCases
<1>4. k \in Places(L)
    BY <1>3 DEF Places, Keys
<1>5. PICK j \in Turns(L) : KeyAt(Loops[L], k) \in Mine(L, j) /\ Finished(L, j)
    BY <1>1, <1>2, <1>4, AllTaken
<1>6. KeyAt(Loops[L], k) = k
    BY <1>2, KeyAtCases
<1> QED BY <1>1, <1>5, <1>6, WhichLoops DEF FinishedOn

\* The keys that nobody deletes stay.
LEMMA Kept ==
    ASSUME Args, NEW k,
           program = "nonblocking" => k \notin 0 .. n \div 5 + (n \div 5) - 1,
           program = "finegrained" => k % 10 # 0
    PROVE  ~FinishedOn(Deleters, k)
<1> SUFFICES ASSUME NEW M \in Deleters, NEW m \in Turns(M), k \in Mine(M, m)
             PROVE  FALSE
    BY DEF FinishedOn
<1>1. M \in 1 .. Len(Loops) /\ Loops[M] \in {"delete", "deleteMixed"}
    BY DEF Deleters
<1>2. PICK f : f = n \div 5
    OBVIOUS
<1>3. f \in Nat
    BY <1>2 DEF Args
<1>4. CASE program = "nonblocking"
  <2>1. k \in f .. f + f - 1 \/ k \in 0 .. f - 1
      BY <1>1, <1>2, <1>4, MineIs
  <2>2. k \notin 0 .. f + f - 1
      BY <1>2, <1>4
  <2> QED BY <1>3, <2>1, <2>2
<1>5. CASE program = "finegrained"
  <2>1. Loops[M] = "delete"
    <3>1. M = 3 /\ Loops[3] = "delete"
        BY <1>5, WhichLoops, LoopsAre
    <3> QED BY <3>1
  <2> QED BY <1>1, <1>5, <2>1, MineIs
<1> QED BY <1>4, <1>5 DEF Args

\* main goes on to the next loop.
LEMMA NextLoopStep ==
    ASSUME DriverInv, NextLoop
    PROVE  DriverInv'
<1>0. /\ Args /\ Counters /\ Origins /\ Contents /\ Silent
      /\ UNCHANGED args /\ phase' = phase + 1 /\ i' = 0 /\ leaves' = leaves
      /\ i = Started(Loop) /\ InALoop /\ Joined = {}
      /\ running' = IF program = "finegrained" /\ Loop = "rebalance" THEN {} ELSE running
      /\ printed' = IF phase = 2 THEN AfterInsertion ELSE printed
    BY DEF DriverInv, NextLoop
<1>1. phase \in 1 .. Len(Loops) /\ phase \in Nat /\ Len(Loops) \in Nat
  <2>1. Len(Loops) \in Nat
      BY <1>0, LoopsAre DEF Args
  <2> QED BY <1>0, <2>1 DEF Counters, InALoop
<1>2. /\ Args' /\ Loops' = Loops
      /\ \A l : Started(l)' = Started(l)
      /\ \A L, j : Thread(L, j)' = Thread(L, j)
      /\ program' = program /\ num_processes' = num_processes
    BY <1>0, SameArgs DEF args
<1>3. Counters'
  <2>1. ASSUME InALoop' PROVE Started(Loop)' \in Nat
    <3>1. PICK P : P = phase + 1
        OBVIOUS
    <3>2. P \in 1 .. Len(Loops)
        BY <1>0, <1>1, <1>2, <2>1, <3>1 DEF InALoop
    <3>3. Started(Loops[P]) \in Nat
        BY <1>0, <3>2, TurnsAre
    <3>4. Started(Loop)' = Started(Loops[P])
        BY <1>0, <1>2, <3>1 DEF Loop
    <3> QED BY <3>3, <3>4
  <2> QED BY <1>0, <1>1, <1>2, <2>1 DEF Counters
<1>4. \/ phase = 2
      \/ program = "nonblocking" /\ (phase \in {3, 5} \/ (phase = 4 /\ num_processes = 1))
      \/ program = "finegrained" /\ phase = 4
      => Workers = {}
    BY <1>0, WaitedFor
<1>5. program = "finegrained" => (Loop = "rebalance" <=> phase \in {2, 4})
  <2>1. PICK ls : ls = Loops
      OBVIOUS
  <2>2. program = "finegrained" =>
           /\ 1 .. Len(ls) = {1, 2, 3, 4}
           /\ ls[1] = "insert" /\ ls[2] = "rebalance" /\ ls[3] = "delete" /\ ls[4] = "rebalance"
      BY <2>1, LoopsAre
  <2> QED BY <1>1, <2>1, <2>2 DEF Loop
<1>6. Origins'
  <2>1. ASSUME NEW t \in running, t \in running'
        PROVE  \E L \in 1 .. Len(Loops), j \in Nat : Origin(t, L, j)'
    <3>1. PICK L \in 1 .. Len(Loops), j \in Nat : Origin(t, L, j)
        BY <1>0 DEF Origins
    <3>2. L <= phase /\ Together(L) /\ t = Thread(L, j) /\ j < Started(Loops[L]) /\ L \in Nat
        BY <3>1 DEF Origin
    <3>3. Loops[L] # "rebalance" => Workers # {}
      <4>1. t.loop = Loops[L]
          BY <3>2 DEF Thread
      <4> QED BY <4>1 DEF Workers
    <3>4. Together(L)'
      <4>1. CASE program = "nonblocking"
        <5>1. L # 2 => Workers # {}
          <6>1. PICK ls : ls = Loops
              OBVIOUS
          <6>2. /\ 1 .. Len(ls) = {1, 2, 3, 4, 5}
                /\ ls[1] = "insert" /\ ls[2] = "rebalance" /\ ls[3] = "delete"
                /\ ls[4] = "deleteMixed" /\ ls[5] = "insertMixed"
              BY <4>1, <6>1, LoopsAre
          <6>3. L # 2 => ls[L] # "rebalance"
              BY <6>1, <6>2
          <6> QED BY <3>3, <6>1, <6>3
        <5>2. phase \in {1, 2, 3, 4, 5} /\ L \in {1, 2, 3, 4, 5}
            BY <1>1, <4>1, LoopsAre
        <5>3. num_processes \in Nat \ {0}
            BY <1>0 DEF Args
        <5> QED BY <1>0, <1>2, <1>4, <3>2, <4>1, <5>1, <5>2, <5>3 DEF Together
      <4>2. CASE program = "finegrained"
        <5>1. phase \notin {2, 4}
            BY <1>0, <1>5, <2>1, <4>2
        <5>2. phase \in {1, 2, 3, 4} /\ L \in {1, 2, 3, 4}
            BY <1>1, <4>2, LoopsAre
        <5> QED BY <1>0, <1>2, <3>2, <4>2, <5>1, <5>2 DEF Together
      <4> QED BY <1>0, <4>1, <4>2 DEF Args
    <3>5. Origin(t, L, j)'
        BY <1>0, <1>1, <1>2, <3>2, <3>4 DEF Origin
    <3> QED BY <3>5
  <2>2. (1 .. Len(Loops))' = 1 .. Len(Loops)
      BY <1>2
  <2>3. running' \subseteq running
      BY <1>0
  <2> QED BY <2>1, <2>2, <2>3 DEF Origins
<1>7. Steady
  <2> SUFFICES ASSUME NEW L \in Inserters \cup Deleters, NEW j \in Turns(L)
               PROVE  Finished(L, j)' <=> Finished(L, j)
      BY <1>0 DEF Steady
  <2>1. L \in 1 .. Len(Loops) /\ Loops[L] # "rebalance" /\ j \in Nat /\ L \in Int
    <3>1. L \in 1 .. Len(Loops) /\ Loops[L] # "rebalance"
        BY <1>0, WhichLoops
    <3>2. Turns(L) \subseteq Nat
        BY <1>0, <3>1, TurnsAre
    <3> QED BY <3>1, <3>2
  <2>2. L = phase => j < i
      BY <1>0, EndedTurns
  <2>3. Thread(L, j) \in running' <=> Thread(L, j) \in running
    <3>1. CASE running' = running
        BY <3>1
    <3>2. CASE running' # running
      <4>1. program = "finegrained" /\ Workers = {}
          BY <1>0, <1>4, <1>5, <3>2
      <4>2. Thread(L, j).loop = Loops[L]
          BY DEF Thread
      <4>3. Thread(L, j) \notin running
          BY <2>1, <4>1, <4>2 DEF Workers
      <4> QED BY <1>0, <4>3
    <3> QED BY <3>1, <3>2
  <2>4. i \in Nat
      BY <1>0 DEF Counters
  <2> QED BY <1>0, <1>1, <1>2, <2>1, <2>2, <2>3, <2>4 DEF Finished
<1>8. Contents'
    BY <1>0, <1>7, SteadyContents
<1>9. printed' = {}
  <2>1. printed = {}
      BY <1>0, <1>1 DEF Silent
  <2>2. CASE phase = 2 /\ program = "finegrained"
    <3>1. ASSUME NEW k \in Keys PROVE k \in Found
      <4>1. Workers = {} /\ 1 < phase
          BY <1>4, <2>2
      <4>2. FinishedOn(Inserters, k)
          BY <1>0, <4>1, KeysInserted
      <4>3. ~FinishedOn(Deleters, k)
          BY <1>0, <2>2, WhichLoops DEF FinishedOn, Finished
      <4>4. leaves[k] = 1 /\ k \in DOMAIN leaves
          BY <1>0, <4>2, <4>3 DEF Contents
      <4> QED BY <4>4 DEF Found
    <3> QED BY <1>0, <2>2, <3>1 DEF AfterInsertion
  <2>3. CASE ~(phase = 2 /\ program = "finegrained")
      BY <1>0, <2>1, <2>3 DEF AfterInsertion
  <2> QED BY <2>2, <2>3
<1>10. Silent'
    BY <1>9 DEF Silent
<1> QED BY <1>2, <1>3, <1>6, <1>8, <1>10 DEF DriverInv

\* A place of the mixed phase whose key is not of the division's rest.
LEMMA MixedRest ==
    ASSUME Args, program = "nonblocking", NEW x \in 0 .. Share("deleteMixed") - 1,
           KeyAt("deleteMixed", x) \notin Disputed
    PROVE  x < Started("deleteMixed") * (Share("deleteMixed") \div Started("deleteMixed"))
<1>1. PICK s \in Nat, p \in Nat \ {0} : s = Share("deleteMixed") /\ p = Started("deleteMixed")
    BY StartedIs DEF Names
<1>2. PICK q \in Nat : q = s \div p
    BY <1>1, Quotient
<1>3. p * q \in Nat /\ x \in 0 .. s - 1
    BY <1>1
<1>4. x \notin p * q .. s - 1
    BY <1>1, <1>2 DEF Disputed
<1> QED BY <1>1, <1>2, <1>3, <1>4

\* What the checks of the non-blocking program look at.
LEMMA Round3Silent ==
    ASSUME Args, Contents, Workers = {}, program = "nonblocking", phase = 6
    PROVE  Round3 \subseteq Disputed
<1>1. PICK f : f = n \div 5
    OBVIOUS
<1>2. n \in Nat /\ f \in Nat /\ f + f <= n
    BY <1>1 DEF Args
<1>3. PICK ls : ls = Loops
    OBVIOUS
<1>4. /\ 1 .. Len(Loops) = {1, 2, 3, 4, 5} /\ ls[4] = "deleteMixed" /\ ls[5] = "insertMixed"
    BY <1>3, LoopsAre
<1>5. Inserters = {1, 5} /\ Deleters = {3, 4}
    BY WhichLoops
<1>6. Share("deleteMixed") = f /\ Share("insertMixed") = f
    BY <1>1, ShareCases
<1>7. ASSUME NEW k \in Keys \cup NewKeys
      PROVE  /\ leaves[k] = IF FinishedOn(Inserters, k) /\ ~FinishedOn(Deleters, k) THEN 1 ELSE 0
             /\ k \in Found <=> leaves[k] > 0
    BY DEF Contents, Found
<1>8. ASSUME NEW k \in Remaining(0, f), k \notin Disputed PROVE k \notin Found
  <2>1. PICK x \in 0 .. f - 1 : k = KeyAt("deleteMixed", x)
      BY DEF Remaining
  <2>2. PICK L : L = 4
      OBVIOUS
  <2>3. L \in 1 .. Len(Loops) /\ Loops[L] = "deleteMixed" /\ L < phase /\ x \in Places(L)
      BY <1>3, <1>4, <1>6, <2>2 DEF Places
  <2>4. x < Started(Loops[L]) * (Share(Loops[L]) \div Started(Loops[L]))
      BY <1>6, <1>8, <2>1, <2>3, MixedRest
  <2>5. PICK j \in Turns(L) : KeyAt(Loops[L], x) \in Mine(L, j) /\ Finished(L, j)
      BY <2>3, <2>4, AllTaken
  <2>6. FinishedOn(Deleters, k)
      BY <1>5, <2>1, <2>2, <2>3, <2>5 DEF FinishedOn
  <2>7. k \in Keys
    <3>1. k = f + x
        BY <1>1, <2>1, KeyAtCases
    <3> QED BY <1>2, <2>1, <3>1 DEF Keys
  <2> QED BY <1>7, <2>6, <2>7
<1>9. ASSUME NEW k \in Remaining(f, n - f - f) PROVE k \in Found
  <2>1. PICK x \in f .. n - f - f - 1 : k = KeyAt("deleteMixed", x)
      BY DEF Remaining
  <2>2. k = f + x
      BY <1>1, <2>1, KeyAtCases
  <2>3. k \in Keys /\ k \notin 0 .. f + f - 1
      BY <1>2, <2>1, <2>2 DEF Keys
  <2>4. FinishedOn(Inserters, k)
      BY <2>3, KeysInserted
  <2>5. ~FinishedOn(Deleters, k)
      BY <1>1, <2>3, Kept
  <2> QED BY <1>7, <2>3, <2>4, <2>5
<1>10. ASSUME NEW k \in NewKeys PROVE k \in Found
  <2>1. k \in n .. n + f - 1
      BY <1>1 DEF NewKeys
  <2>2. PICK x \in 0 .. f - 1 : k = n + x
    <3>1. k - n \in 0 .. f - 1 /\ k = n + (k - n)
        BY <1>2, <2>1
    <3> QED BY <3>1
  <2>3. PICK L : L = 5
      OBVIOUS
  <2>4. L \in 1 .. Len(Loops) /\ Loops[L] = "insertMixed" /\ L < phase /\ x \in Places(L)
      BY <1>3, <1>4, <1>6, <2>3 DEF Places
  <2>5. PICK j \in Turns(L) : KeyAt(Loops[L], x) \in Mine(L, j) /\ Finished(L, j)
      BY <2>4, AllTaken
  <2>6. KeyAt(Loops[L], x) = k
      BY <2>2, <2>4, KeyAtCases
  <2>7. FinishedOn(Inserters, k)
      BY <1>5, <2>3, <2>5, <2>6 DEF FinishedOn
  <2>8. ~FinishedOn(Deleters, k)
    <3>1. k \notin 0 .. f + f - 1
        BY <1>2, <2>1
    <3> QED BY <1>1, <3>1, Kept
  <2> QED BY <1>7, <2>7, <2>8
<1> QED BY <1>1, <1>8, <1>9, <1>10 DEF Round3

\* And those of the fine-grained one.
LEMMA DeletionSilent ==
    ASSUME Args, Contents, Workers = {}, program = "finegrained", phase = 5
    PROVE  AfterDeletion \cup AfterRebalancing \subseteq Disputed
<1>1. PICK f : f = n \div 10
    OBVIOUS
<1>2. n \in Nat /\ f \in Nat /\ Keys = 0 .. n - 1
    BY <1>1 DEF Args, Keys
<1>3. 3 \in 1 .. Len(Loops) /\ Loops[3] = "delete" /\ Deleters = {3}
    BY LoopsAre, WhichLoops
<1>4. ASSUME NEW k \in Keys
      PROVE  /\ leaves[k] = IF FinishedOn(Inserters, k) /\ ~FinishedOn(Deleters, k) THEN 1 ELSE 0
             /\ k \in Found <=> leaves[k] > 0
    BY DEF Contents, Found
<1>5. ASSUME NEW k \in Keys, k % 10 = 0, n % 10 = 0 PROVE k \notin Found
  <2>1. PICK x \in 0 .. f - 1 : k = 10 * x
    <3>1. k \div 10 \in 0 .. f - 1 /\ k = 10 * (k \div 10)
      <4>1. k \in 0 .. n - 1 /\ k % 10 = 0 /\ n = 10 * f
        <5>1. n % 10 = 0
            BY <1>5
        <5>2. n = 10 * f
          <6> HIDE <1>5
          <6> QED BY <1>1, <1>2, <5>1
        <5> QED BY <1>2, <1>5, <5>2
      <4> HIDE <1>5
      <4> QED BY <1>2, <4>1
    <3> QED BY <3>1
  <2>2. PICK L : L = 3
      OBVIOUS
  <2>3. L \in 1 .. Len(Loops) /\ Loops[L] = "delete" /\ L < phase
      BY <1>3, <2>2
  <2>4. x \in Places(L)
      BY <1>1, <2>3, ShareCases DEF Places
  <2>5. PICK j \in Turns(L) : KeyAt(Loops[L], x) \in Mine(L, j) /\ Finished(L, j)
      BY <2>3, <2>4, AllTaken
  <2>6. KeyAt(Loops[L], x) = k
      BY <2>1, <2>3, KeyAtCases
  <2>7. FinishedOn(Deleters, k)
      BY <1>3, <2>2, <2>5, <2>6 DEF FinishedOn
  <2> QED BY <1>4, <2>7
<1>6. ASSUME NEW k \in Keys, k % 10 # 0 PROVE k \in Found
  <2>1. FinishedOn(Inserters, k)
      BY KeysInserted
  <2>2. ~FinishedOn(Deleters, k)
      BY <1>6, Kept
  <2> QED BY <1>4, <2>1, <2>2
<1>7. AfterDeletion \subseteq Disputed
    BY <1>5, <1>6 DEF AfterDeletion, Disputed
<1>8. AfterRebalancing \subseteq Disputed
    BY <1>6 DEF AfterRebalancing, Disputed
<1> QED BY <1>7, <1>8

\* The checks at the end.
LEMMA CheckStep ==
    ASSUME DriverInv, Check
    PROVE  DriverInv'
<1>0. /\ Args /\ Counters /\ Origins /\ Contents /\ Silent
      /\ UNCHANGED args /\ phase' = phase + 1 /\ i' = i /\ leaves' = leaves
      /\ phase = Len(Loops) + 1 /\ running' = {}
      /\ printed' = printed \cup IF program = "nonblocking" THEN Round3
                                 ELSE AfterDeletion \cup AfterRebalancing
    BY DEF DriverInv, Check
<1>1. /\ program = "nonblocking" => Len(Loops) = 5 /\ phase = 6
      /\ program = "finegrained" => Len(Loops) = 4 /\ phase = 5
      /\ Len(Loops) \in Nat /\ phase \in Nat
  <2>1. PICK N : N = Len(Loops)
      OBVIOUS
  <2>2. /\ program = "nonblocking" => N = 5
        /\ program = "finegrained" => N = 4
      BY <1>0, <2>1, LoopsAre
  <2>3. phase = N + 1
      BY <1>0, <2>1
  <2>4. CASE program = "nonblocking"
    <3>1. N = 5 /\ phase = 6 /\ N \in Nat /\ phase \in Nat /\ program # "finegrained"
        BY <2>2, <2>3, <2>4
    <3> QED BY <2>1, <2>4, <3>1, Zenon
  <2>5. CASE program = "finegrained"
    <3>1. N = 4 /\ phase = 5 /\ N \in Nat /\ phase \in Nat /\ program # "nonblocking"
        BY <2>2, <2>3, <2>5
    <3> QED BY <2>1, <2>5, <3>1, Zenon
  <2> QED BY <1>0, <2>4, <2>5 DEF Args
<1>2. /\ Args' /\ Loops' = Loops
      /\ \A L, j : Thread(L, j)' = Thread(L, j)
      /\ Disputed' = Disputed
    BY <1>0, SameArgs
<1>3. Counters'
    BY <1>0, <1>1, <1>2 DEF Counters, InALoop
<1>4. Origins'
    BY <1>0 DEF Origins
<1>5. Workers = {}
  <2> SUFFICES ASSUME NEW t \in running, t.loop # "rebalance" PROVE FALSE
      BY DEF Workers
  <2>1. PICK L \in 1 .. Len(Loops), j \in Nat : Origin(t, L, j)
      BY <1>0 DEF Origins
  <2>2. program = "nonblocking" /\ L = 2
      BY <1>0, <1>1, <2>1 DEF Origin, Together, Args
  <2>3. t.loop = Loops[L]
      BY <2>1 DEF Origin, Thread
  <2> QED BY <2>2, <2>3, LoopsAre
<1>6. Steady
  <2> SUFFICES ASSUME NEW L \in Inserters \cup Deleters, NEW j \in Turns(L)
               PROVE  Finished(L, j)' <=> Finished(L, j)
      BY <1>0 DEF Steady
  <2>1. L \in 1 .. Len(Loops) /\ Loops[L] # "rebalance" /\ L < phase
    <3>1. L \in 1 .. Len(Loops) /\ Loops[L] # "rebalance"
        BY <1>0, WhichLoops
    <3> QED BY <1>0, <1>1, <3>1
  <2>2. Finished(L, j)
      BY <1>0, <1>5, <2>1, AllEnded
  <2>3. Finished(L, j)'
      BY <1>0, <1>1, <2>1 DEF Finished
  <2> QED BY <2>2, <2>3
<1>7. Contents'
    BY <1>0, <1>6, SteadyContents
<1>8. Silent'
  <2>1. ~(phase' <= Len(Loops)' + 1)
      BY <1>0, <1>1, <1>2
  <2>2. printed' \subseteq Disputed
    <3>1. printed \subseteq Disputed
        BY <1>0 DEF Silent
    <3>2. CASE program = "nonblocking"
        BY <1>0, <1>1, <1>5, <3>1, <3>2, Round3Silent
    <3>3. CASE program = "finegrained"
        BY <1>0, <1>1, <1>5, <3>1, <3>3, DeletionSilent
    <3> QED BY <1>0, <3>2, <3>3 DEF Args
  <2> QED BY <1>2, <2>1, <2>2 DEF Silent
<1> QED BY <1>2, <1>3, <1>4, <1>7, <1>8 DEF DriverInv

-----------------------------------------------------------------------------
(***************************************************************************)
(* The theorems                                                            *)
(***************************************************************************)
\* main starts with an empty tree and no thread.
LEMMA InitStep == Init => DriverInv
<1> SUFFICES ASSUME Init PROVE DriverInv
    OBVIOUS
<1>1. Args
    BY DriverAssumption DEF Init, Args
<1>2. Len(Loops) \in Nat /\ Len(Loops) >= 1
    BY <1>1, LoopsAre DEF Args
<1>3. Counters
  <2>1. phase = 1 /\ i = 0
      BY DEF Init
  <2>2. Started(Loop) \in Nat
    <3>1. 1 \in 1 .. Len(Loops)
        BY <1>2
    <3> QED BY <1>1, <2>1, <3>1, TurnsAre DEF Loop
  <2> QED BY <1>2, <2>1, <2>2 DEF Counters, InALoop
<1>4. Origins
    BY DEF Init, Origins
<1>5. Contents
  <2>1. ASSUME NEW k PROVE ~FinishedOn(Inserters, k)
    <3> SUFFICES ASSUME NEW L \in Inserters, NEW j \in Turns(L), Finished(L, j) PROVE FALSE
        BY DEF FinishedOn
    <3>1. L \in 1 .. Len(Loops)
        BY <1>1, WhichLoops
    <3>2. j \in Nat
        BY <1>1, <3>1, TurnsAre
    <3> QED BY <1>2, <3>1, <3>2 DEF Finished, Init
  <2> QED BY <2>1 DEF Init, Contents
<1>6. Silent
    BY DEF Init, Silent
<1> QED BY <1>1, <1>3, <1>4, <1>5, <1>6 DEF DriverInv

\* Every step keeps the invariant.
LEMMA DriverNext == DriverInv /\ [Next]_vars => DriverInv'
<1> SUFFICES ASSUME DriverInv, [Next]_vars PROVE DriverInv'
    OBVIOUS
<1>1. CASE Start
    BY <1>1, StartStep
<1>2. ASSUME NEW t \in Workers, Work(t) PROVE DriverInv'
    BY <1>2, WorkStep
<1>3. CASE NextLoop
    BY <1>3, NextLoopStep
<1>4. CASE Check
    BY <1>4, CheckStep
<1>5. CASE UNCHANGED vars
  <2>1. UNCHANGED <<args, phase, i, running, leaves, printed>>
      BY <1>5 DEF vars
  <2>2. /\ Loops' = Loops /\ (Args' <=> Args) /\ Disputed' = Disputed
        /\ \A l : Started(l)' = Started(l)
        /\ \A L, j : Thread(L, j)' = Thread(L, j)
      BY <2>1, SameArgs
  <2>3. Steady
      BY <2>1, <2>2 DEF Steady, Finished
  <2>4. Contents'
      BY <2>3, SteadyContents DEF DriverInv
  <2>5. Counters' /\ Silent'
      BY <2>1, <2>2 DEF DriverInv, Counters, Silent, InALoop, Loop
  <2>6. Origins'
    <3>1. ASSUME NEW t, NEW L, NEW j PROVE Origin(t, L, j)' <=> Origin(t, L, j)
      <4>1. Together(L)' <=> Together(L)
          BY <2>1 DEF Together, args
      <4> QED BY <2>1, <2>2, <4>1 DEF Origin
    <3>2. (1 .. Len(Loops))' = 1 .. Len(Loops)
        BY <2>2
    <3> QED BY <2>1, <3>1, <3>2 DEF DriverInv, Origins
  <2> QED BY <2>2, <2>4, <2>5, <2>6 DEF DriverInv
<1> QED BY <1>1, <1>2, <1>3, <1>4, <1>5 DEF Next

\* The inductive invariant of the two main.cpp: which threads run, and what
\* the tree contains after those that have ended.
THEOREM DriverInvariant == Spec => []DriverInv
BY InitStep, DriverNext, PTL DEF Spec

\* For every number of processes, threads that run at the same time have
\* different numbers, and all are below what init makes room for.
THEOREM TidsCorrect == Spec => []TidsAreOwn
<1>1. DriverInv => TidsAreOwn
    BY TidsHold DEF DriverInv
<1> QED BY <1>1, DriverInvariant, PTL

\* For every number of keys and of processes, no key is inserted twice, and the
\* checks of main complain of nothing but the rest of the division.
THEOREM ChecksCorrect == Spec => []ChecksPass
<1>1. DriverInv => ChecksPass
    BY DEF DriverInv, Contents, Silent, ChecksPass
<1> QED BY <1>1, DriverInvariant, PTL
=============================================================================
