-------------------------- MODULE ReclaimersProofs --------------------------
(***************************************************************************)
(* What the reclaimers promise, for any number of threads, records and     *)
(* blocks: no record that a thread may still follow is handed to the pool, *)
(* and every record is in one place.                                       *)
(***************************************************************************)
EXTENDS Reclaimers, FiniteSetTheorems, TLAPS

-----------------------------------------------------------------------------
(***************************************************************************)
(* Places                                                                  *)
(***************************************************************************)
\* The records of a scheme.
Stock == Plan[scheme].records

PlaceTypes ==
    /\ scheme \in DOMAIN Plan
    /\ linked \subseteq Stock /\ pool \subseteq Stock
    /\ bags \in [Procs -> [0 .. 2 -> SUBSET Stock]] /\ cur \in [Procs -> 0 .. 2]
    /\ \A p \in Procs : me[p].mine \subseteq Stock

\* No record is in two places.
MineApart ==
    \A p \in Procs :
       /\ me[p].mine \cap linked = {} /\ me[p].mine \cap pool = {}
       /\ \A q \in Procs : p # q => me[p].mine \cap me[q].mine = {}
       /\ \A q \in Procs, i \in 0 .. 2 : me[p].mine \cap bags[q][i] = {}

BagsApart ==
    \A p \in Procs, i \in 0 .. 2 :
       /\ bags[p][i] \cap linked = {} /\ bags[p][i] \cap pool = {}
       /\ \A q \in Procs, j \in 0 .. 2 :
             p # q \/ i # j => bags[p][i] \cap bags[q][j] = {}

Apart == linked \cap pool = {} /\ MineApart /\ BagsApart

\* And each is somewhere.
Somewhere ==
    \A r \in Stock :
       \/ r \in linked \/ r \in pool
       \/ \E p \in Procs : r \in me[p].mine
       \/ \E p \in Procs, i \in 0 .. 2 : r \in bags[p][i]

Places == PlaceTypes /\ Apart /\ Somewhere

\* How a step moves records.
Unmoved == UNCHANGED <<linked, pool, bags>> /\ \A p \in Procs : me'[p].mine = me[p].mine

Retires(p, i, r) ==
    /\ r \in linked /\ linked' = linked \ {r}
    /\ bags' = [bags EXCEPT ![p][i] = @ \cup {r}]
    /\ pool' = pool /\ \A q \in Procs : me'[q].mine = me[q].mine

Unlinks(p, r) ==
    /\ r \in linked /\ linked' = linked \ {r}
    /\ bags' = bags /\ pool' = pool
    /\ \A q \in Procs : me'[q].mine = IF q = p THEN me[p].mine \cup {r} ELSE me[q].mine

Frees(p, i, F) ==
    /\ F \subseteq bags[p][i] /\ pool' = pool \cup F
    /\ bags' = [bags EXCEPT ![p][i] = @ \ F]
    /\ linked' = linked /\ \A q \in Procs : me'[q].mine = me[q].mine

Stores(p, i) ==
    /\ bags' = [bags EXCEPT ![p][i] = @ \cup me[p].mine]
    /\ linked' = linked /\ pool' = pool
    /\ \A q \in Procs : me'[q].mine = IF q = p THEN {} ELSE me[q].mine

Releases(p) ==
    /\ pool' = pool \cup me[p].mine
    /\ linked' = linked /\ bags' = bags
    /\ \A q \in Procs : me'[q].mine = IF q = p THEN {} ELSE me[q].mine

Moves ==
    /\ scheme' = scheme /\ cur' \in [Procs -> 0 .. 2]
    /\ \/ Unmoved
       \/ \E p \in Procs, i \in 0 .. 2 : \E r \in Stock : Retires(p, i, r)
       \/ \E p \in Procs : \E r \in Stock : Unlinks(p, r)
       \/ \E p \in Procs, i \in 0 .. 2 : \E F \in SUBSET Stock : Frees(p, i, F)
       \/ \E p \in Procs, i \in 0 .. 2 : Stores(p, i)
       \/ \E p \in Procs : Releases(p)

\* The threads are numbers.
LEMMA ProcsAre ==
    ASSUME scheme \in DOMAIN Plan
    PROVE  N \in Nat \ {0} /\ Procs = 0 .. N - 1 /\ Procs \subseteq Nat
<1>1. N \in Nat \ {0}
    BY RoomAssumption DEF N
<1> QED BY <1>1 DEF Procs, N

\* The numbers of threads and records are those of the scheme.
LEMMA SameScheme ==
    ASSUME scheme' = scheme
    PROVE  N' = N /\ Procs' = Procs /\ Stock' = Stock /\ BlockSize' = BlockSize
BY DEF N, Procs, Stock, BlockSize

\* A change to one bag.
LEMMA BagsExcept ==
    ASSUME bags \in [Procs -> [0 .. 2 -> SUBSET Stock]], NEW p \in Procs, NEW i \in 0 .. 2,
           NEW X \in SUBSET Stock
    PROVE  /\ [bags EXCEPT ![p][i] = X] \in [Procs -> [0 .. 2 -> SUBSET Stock]]
           /\ \A q \in Procs, j \in 0 .. 2 :
                 [bags EXCEPT ![p][i] = X][q][j] = IF q = p /\ j = i THEN X ELSE bags[q][j]
OBVIOUS

\* The full blocks of a bag hold records of the bag.
LEMMA FullBlocksIn ==
    ASSUME NEW bag, NEW F \in FullBlocks(bag)
    PROVE  F \subseteq bag
BY Zenon DEF FullBlocks, kSubset

\* Every move leaves each record in one place.
LEMMA MovesPlaces == Places /\ Moves => Places'
<1> SUFFICES ASSUME Places, Moves PROVE Places'
    OBVIOUS
<1>0. /\ PlaceTypes /\ Apart /\ Somewhere /\ scheme' = scheme /\ cur' \in [Procs -> 0 .. 2]
      /\ Procs' = Procs /\ Stock' = Stock
    BY SameScheme DEF Places, Moves
<1>1. CASE Unmoved
  <2>1. PlaceTypes'
      BY <1>0, <1>1 DEF PlaceTypes, Unmoved
  <2>2. Apart'
      BY <1>0, <1>1 DEF Apart, MineApart, BagsApart, Unmoved
  <2>3. Somewhere'
      BY <1>0, <1>1 DEF Somewhere, Unmoved
  <2> QED BY <2>1, <2>2, <2>3 DEF Places
<1>2. ASSUME NEW p \in Procs, NEW i \in 0 .. 2, NEW r \in Stock, Retires(p, i, r)
      PROVE  Places'
  <2>1. /\ r \in linked /\ linked' = linked \ {r} /\ pool' = pool
        /\ \A q \in Procs : me'[q].mine = me[q].mine
      BY <1>2 DEF Retires
  <2>2. /\ bags' \in [Procs -> [0 .. 2 -> SUBSET Stock]]
        /\ \A q \in Procs, j \in 0 .. 2 :
              bags'[q][j] = IF q = p /\ j = i THEN bags[p][i] \cup {r} ELSE bags[q][j]
    <3>1. PICK X \in SUBSET Stock : X = bags[p][i] \cup {r}
        BY <1>0 DEF PlaceTypes
    <3>2. bags' = [bags EXCEPT ![p][i] = X]
        BY <1>2, <3>1 DEF Retires
    <3> QED BY <1>0, <3>1, <3>2, BagsExcept DEF PlaceTypes
  <2>3. PlaceTypes'
      BY <1>0, <2>1, <2>2 DEF PlaceTypes
  <2>4. Apart'
    <3>1. linked' \cap pool' = {}
        BY <1>0, <2>1, <2>2 DEF Apart, MineApart, BagsApart
    <3>2. MineApart'
        BY <1>0, <2>1, <2>2 DEF Apart, MineApart, BagsApart
    <3>3. BagsApart'
        BY <1>0, <2>1, <2>2 DEF Apart, MineApart, BagsApart
    <3> QED BY <3>1, <3>2, <3>3 DEF Apart
  <2>5. Somewhere'
      BY <1>0, <2>1, <2>2 DEF Somewhere
  <2> QED BY <2>3, <2>4, <2>5 DEF Places
<1>3. ASSUME NEW p \in Procs, NEW r \in Stock, Unlinks(p, r)
      PROVE  Places'
  <2>1. PlaceTypes'
      BY <1>0, <1>3 DEF PlaceTypes, Unlinks
  <2>2. Apart'
      BY <1>0, <1>3 DEF Apart, MineApart, BagsApart, Unlinks
  <2>3. Somewhere'
      BY <1>0, <1>3 DEF Somewhere, Unlinks
  <2> QED BY <2>1, <2>2, <2>3 DEF Places
<1>4. ASSUME NEW p \in Procs, NEW i \in 0 .. 2, NEW F \in SUBSET Stock, Frees(p, i, F)
      PROVE  Places'
  <2>1. /\ F \subseteq bags[p][i] /\ linked' = linked /\ pool' = pool \cup F
        /\ \A q \in Procs : me'[q].mine = me[q].mine
      BY <1>4 DEF Frees
  <2>2. /\ bags' \in [Procs -> [0 .. 2 -> SUBSET Stock]]
        /\ \A q \in Procs, j \in 0 .. 2 :
              bags'[q][j] = IF q = p /\ j = i THEN bags[p][i] \ F ELSE bags[q][j]
    <3>1. PICK X \in SUBSET Stock : X = bags[p][i] \ F
        BY <1>0 DEF PlaceTypes
    <3>2. bags' = [bags EXCEPT ![p][i] = X]
        BY <1>4, <3>1 DEF Frees
    <3>3. /\ bags' \in [Procs -> [0 .. 2 -> SUBSET Stock]]
          /\ \A q \in Procs, j \in 0 .. 2 :
                bags'[q][j] = IF q = p /\ j = i THEN X ELSE bags[q][j]
        BY <1>0, <3>2, BagsExcept DEF PlaceTypes
    <3> QED BY <3>1, <3>3
  <2>3. PlaceTypes'
      BY <1>0, <2>1, <2>2 DEF PlaceTypes
  <2>4. Apart'
    <3>1. linked' \cap pool' = {}
        BY <1>0, <2>1, <2>2 DEF Apart, MineApart, BagsApart
    <3>2. MineApart'
        BY <1>0, <2>1, <2>2 DEF Apart, MineApart, BagsApart
    <3>3. BagsApart'
        BY <1>0, <2>1, <2>2 DEF Apart, MineApart, BagsApart
    <3> QED BY <3>1, <3>2, <3>3 DEF Apart
  <2>5. Somewhere'
      BY <1>0, <2>1, <2>2 DEF Somewhere
  <2> QED BY <2>3, <2>4, <2>5 DEF Places
<1>5. ASSUME NEW p \in Procs, NEW i \in 0 .. 2, Stores(p, i)
      PROVE  Places'
  <2>1. /\ linked' = linked /\ pool' = pool
        /\ \A q \in Procs : me'[q].mine = IF q = p THEN {} ELSE me[q].mine
      BY <1>5 DEF Stores
  <2>2. /\ bags' \in [Procs -> [0 .. 2 -> SUBSET Stock]]
        /\ \A q \in Procs, j \in 0 .. 2 :
              bags'[q][j] = IF q = p /\ j = i THEN bags[p][i] \cup me[p].mine ELSE bags[q][j]
    <3>1. PICK X \in SUBSET Stock : X = bags[p][i] \cup me[p].mine
        BY <1>0 DEF PlaceTypes
    <3>2. bags' = [bags EXCEPT ![p][i] = X]
        BY <1>5, <3>1 DEF Stores
    <3> QED BY <1>0, <3>1, <3>2, BagsExcept DEF PlaceTypes
  <2>3. PlaceTypes'
      BY <1>0, <2>1, <2>2 DEF PlaceTypes
  <2>4. Apart'
    <3>1. linked' \cap pool' = {}
        BY <1>0, <2>1, <2>2 DEF Apart, MineApart, BagsApart
    <3>2. MineApart'
        BY <1>0, <2>1, <2>2 DEF Apart, MineApart, BagsApart
    <3>3. BagsApart'
        BY <1>0, <2>1, <2>2 DEF Apart, MineApart, BagsApart
    <3> QED BY <3>1, <3>2, <3>3 DEF Apart
  <2>5. Somewhere'
      BY <1>0, <2>1, <2>2 DEF Somewhere
  <2> QED BY <2>3, <2>4, <2>5 DEF Places
<1>6. ASSUME NEW p \in Procs, Releases(p)
      PROVE  Places'
  <2>1. PlaceTypes'
      BY <1>0, <1>6 DEF PlaceTypes, Releases
  <2>2. Apart'
      BY <1>0, <1>6 DEF Apart, MineApart, BagsApart, Releases
  <2>3. Somewhere'
      BY <1>0, <1>6 DEF Somewhere, Releases
  <2> QED BY <2>1, <2>2, <2>3 DEF Places
<1> QED BY <1>1, <1>2, <1>3, <1>4, <1>5, <1>6 DEF Moves

-----------------------------------------------------------------------------
(***************************************************************************)
(* reclaimer_debra and reclaimer_debracap                                  *)
(***************************************************************************)
DebraLabels == {"idle", "rotate", "announce", "announceFirst", "check", "advance", "in",
                "large", "all"}

DebraLocal == [read : Nat, seen : Nat, checked : Nat, since : Nat, at : {0},
               ix : {0}, size : {0}, times : {<< >>}, obj : {NoRecord}, found : {{}}, mine : {{}}]

\* What a thread has announced is the epoch of its operation.
Visible(p) ==
    \/ pc[p] \in {"check", "advance", "in", "large", "all"}
    \/ pc[p] = "rotate" /\ scheme = "debracap"

DebraThread(p) ==
    /\ me[p].read <= epoch /\ me[p].read % 2 = 0
    /\ me[p].seen = me[p].read \/ (me[p].seen = 1 /\ pc[p] = "idle")
    /\ IF Visible(p) THEN word[p] = me[p].read ELSE word[p] % 2 = 1
    /\ holds[p] # {} => pc[p] \in {"in", "large", "all", "advance"}
    /\ pc[p] = "advance" => me[p].checked >= N
    /\ pc[p] \in {"rotate", "announceFirst", "announce", "check"} => me[p].checked < N
    /\ pc[p] \in {"idle", "in", "large"} /\ me[p].read = epoch => me[p].checked < N

DebraTypes ==
    /\ epoch \in Nat /\ epoch % 2 = 0
    /\ pc \in [Procs -> DebraLabels] /\ me \in [Procs -> DebraLocal]
    /\ word \in [Procs -> Nat] /\ holds \in [Procs -> SUBSET Stock]

\* The epoch may still move on while p goes on with its operation: somebody
\* has seen p in this epoch, or can.
Passes(p) ==
    \/ word[p] = epoch
    \/ \E q \in Procs : me[q].read = epoch /\ me[q].checked > p

\* How often u may rotate its bags meanwhile.
Turns(u, p) ==
    (IF pc[u] \in {"rotate", "announceFirst"} THEN 1 ELSE 0)
      + (IF me[u].seen # epoch THEN 1 ELSE 0) + (IF Passes(p) THEN 1 ELSE 0)

\* After how many rotations a bag is emptied.
Age(u, i) == IF i = cur[u] THEN 3 ELSE IF i = (cur[u] + 1) % 3 THEN 1 ELSE 2

DebraHeld ==
    \A p \in Procs : \A r \in holds[p] :
       /\ r \notin pool
       /\ \A u \in Procs, i \in 0 .. 2 : r \in bags[u][i] => Turns(u, p) < Age(u, i)

DebraInv == DebraTypes /\ (\A p \in Procs : DebraThread(p)) /\ DebraHeld

InDebra == scheme \in {"debra", "debracap"}

\* A step by which no thread may rotate more often.
LEMMA DebraHeldStays ==
    ASSUME Places, DebraTypes, DebraHeld,
           UNCHANGED <<scheme, linked, pool, bags, cur>>,
           \A p \in Procs : holds'[p] \subseteq holds[p] \cup linked,
           \A p \in Procs, u \in Procs :
              holds[p] # {} /\ holds'[p] # {} => Turns(u, p)' <= Turns(u, p)
    PROVE  DebraHeld'
<1>0. Procs' = Procs /\ PlaceTypes /\ Apart
    BY SameScheme DEF Places
<1>1. ASSUME NEW p \in Procs, NEW r \in holds'[p]
      PROVE  /\ r \notin pool
             /\ \A u \in Procs, i \in 0 .. 2 : r \in bags[u][i] => Turns(u, p)' < Age(u, i)
  <2>1. CASE r \in linked
      BY <1>0, <2>1 DEF Apart, BagsApart
  <2>2. CASE r \in holds[p]
    <3>1. r \notin pool
        BY <2>2 DEF DebraHeld
    <3>2. ASSUME NEW u \in Procs, NEW i \in 0 .. 2, r \in bags[u][i]
          PROVE  Turns(u, p)' < Age(u, i)
      <4>1. Turns(u, p) < Age(u, i) /\ Turns(u, p)' <= Turns(u, p)
          BY <2>2, <1>1, <3>2 DEF DebraHeld
      <4>2. Turns(u, p) \in Int /\ Turns(u, p)' \in Int /\ Age(u, i) \in Int
          BY DEF Turns, Age
      <4> QED BY <4>1, <4>2
    <3> QED BY <3>1, <3>2
  <2> QED BY <1>1, <2>1, <2>2
<1>2. \A u, i : Age(u, i)' = Age(u, i)
    BY DEF Age
<1> QED BY <1>0, <1>1, <1>2 DEF DebraHeld

\* The private variables of a thread keep their types.
LEMMA DebraLocalSet ==
    ASSUME NEW R \in DebraLocal, NEW x \in Nat, NEW y \in Nat, NEW c \in Nat, NEW d \in Nat
    PROVE  /\ [R EXCEPT !.read = x, !.seen = y, !.checked = c] \in DebraLocal
           /\ [R EXCEPT !.since = d, !.checked = c] \in DebraLocal
           /\ [R EXCEPT !.since = d] \in DebraLocal
           /\ [R EXCEPT !.checked = c] \in DebraLocal
<1>1. \A S \in DebraLocal : [S EXCEPT !.read = x] \in DebraLocal
    BY DEF DebraLocal
<1>2. \A S \in DebraLocal : [S EXCEPT !.seen = y] \in DebraLocal
    BY DEF DebraLocal
<1>3. \A S \in DebraLocal : [S EXCEPT !.checked = c] \in DebraLocal
    BY DEF DebraLocal
<1>4. \A S \in DebraLocal : [S EXCEPT !.since = d] \in DebraLocal
    BY DEF DebraLocal
<1> QED BY Zenon, <1>1, <1>2, <1>3, <1>4

\* A step of one thread.
LEMMA OneThread ==
    ASSUME NEW T, NEW p \in Procs, NEW M \in T, me \in [Procs -> T],
           me' = [me EXCEPT ![p] = M]
    PROVE  /\ me' \in [Procs -> T] /\ me'[p] = M
           /\ \A q \in Procs \ {p} : me'[q] = me[q]
OBVIOUS

\* A thread that goes to a label is there, and the others stay where they are.
LEMMA OneLabel ==
    ASSUME NEW T, NEW p \in Procs, NEW l \in T, pc \in [Procs -> T], Go(p, l)
    PROVE  /\ pc' \in [Procs -> T] /\ pc'[p] = l
           /\ \A q \in Procs \ {p} : pc'[q] = pc[q]
BY DEF Go

Pending(l, seen) ==
    (IF l \in {"rotate", "announceFirst"} THEN 1 ELSE 0) + (IF seen # epoch THEN 1 ELSE 0)

\* A step of p by which no bag is changed and the epoch stays.
LEMMA DebraLocalStep ==
    ASSUME Places, DebraInv, InDebra, NEW p \in Procs, NEW M \in DebraLocal,
           NEW l \in DebraLabels,
           UNCHANGED <<scheme, linked, pool, bags, cur, epoch>>,
           me' = [me EXCEPT ![p] = M], Go(p, l),
           word' \in [Procs -> Nat], \A q \in Procs \ {p} : word'[q] = word[q],
           holds' \in [Procs -> SUBSET Stock], \A q \in Procs \ {p} : holds'[q] = holds[q],
           holds'[p] \subseteq holds[p] \cup linked,
           holds[p] = {} \/ holds'[p] = {} \/ word'[p] = word[p],
           \A q \in Procs :
              M.read = epoch /\ M.checked > q /\ holds[q] # {} => Passes(q),
           Pending(l, M.seen) <= Pending(pc[p], me[p].seen),
           pc'[p] = l /\ me'[p] = M => DebraThread(p)'
    PROVE  DebraInv' /\ Moves
<1>0. /\ DebraTypes /\ DebraHeld /\ PlaceTypes
      /\ Procs' = Procs /\ Stock' = Stock /\ N' = N
    BY SameScheme DEF DebraInv, Places
<1>1. /\ me' \in [Procs -> DebraLocal] /\ me'[p] = M
      /\ \A q \in Procs \ {p} : me'[q] = me[q]
    BY <1>0, OneThread DEF DebraTypes
<1>2. /\ pc' \in [Procs -> DebraLabels] /\ pc'[p] = l
      /\ \A q \in Procs \ {p} : pc'[q] = pc[q]
    BY <1>0, OneLabel DEF DebraTypes
<1>3. M.mine = {} /\ me[p].mine = {}
    BY <1>0 DEF DebraTypes, DebraLocal
<1>4. DebraTypes'
    BY <1>0, <1>1, <1>2 DEF DebraTypes
<1>5. Moves
    BY <1>0, <1>1, <1>3 DEF Moves, Unmoved, PlaceTypes
<1>6. \A q \in Procs : DebraThread(q)
    BY DEF DebraInv
<1>7. ASSUME NEW q \in Procs PROVE DebraThread(q)'
  <2>1. CASE q = p
      BY <1>1, <1>2, <2>1
  <2>2. CASE q # p
      BY <1>0, <1>1, <1>2, <1>6, <2>2 DEF DebraThread, Visible
  <2> QED BY <2>1, <2>2
<1>8. ASSUME NEW q \in Procs, Passes(q)', holds[q] # {}, holds'[q] # {} PROVE Passes(q)
  <2>1. CASE word'[q] = epoch'
      BY <1>8, <2>1 DEF Passes
  <2>2. ASSUME NEW u \in Procs, me'[u].read = epoch, me'[u].checked > q
        PROVE  Passes(q)
    <3>1. CASE u # p
        BY <1>1, <2>2, <3>1 DEF Passes
    <3>2. CASE u = p
        BY <1>1, <1>8, <2>2, <3>2
    <3> QED BY <3>1, <3>2
  <2> QED BY <1>0, <1>8, <2>1, <2>2 DEF Passes
<1>9. ASSUME NEW q \in Procs, NEW u \in Procs, holds[q] # {}, holds'[q] # {}
      PROVE  Turns(u, q)' <= Turns(u, q)
  <2>1. CASE u = p
      BY <1>0, <1>1, <1>2, <1>8, <1>9, <2>1 DEF Turns, Pending
  <2>2. CASE u # p
      BY <1>0, <1>1, <1>2, <1>8, <1>9, <2>2 DEF Turns
  <2> QED BY <2>1, <2>2
<1>10. DebraHeld'
    BY <1>0, <1>9, DebraHeldStays
<1> QED BY <1>4, <1>5, <1>7, <1>10, <1>0 DEF DebraInv

\* The epoch is read.
LEMMA DebraReadEpoch ==
    ASSUME Places, DebraInv, InDebra, NEW p \in Procs, pc[p] = "idle", ReadEpoch(p),
           NEW l \in DebraLabels, Go(p, l),
           l = IF NewToEpoch(p) THEN IF scheme = "debra" THEN "rotate" ELSE "announceFirst"
               ELSE "announce"
    PROVE  DebraInv' /\ Moves
<1>0. /\ DebraTypes /\ DebraThread(p)
      /\ UNCHANGED <<scheme, linked, holds, pool, bags, cur, epoch, word, list>>
      /\ Procs' = Procs /\ Stock' = Stock /\ N' = N
    BY SameScheme DEF DebraInv, Places, ReadEpoch, mem
<1>1. me[p] \in DebraLocal /\ epoch \in Nat /\ word[p] \in Nat
    BY <1>0 DEF DebraTypes
<1>2. PICK c \in Nat : c = IF epoch # me[p].seen THEN 0 ELSE me[p].checked
    BY <1>1 DEF DebraLocal
<1>3. PICK M : M = [me[p] EXCEPT !.read = epoch, !.seen = epoch, !.checked = c]
    OBVIOUS
<1>4. /\ M \in DebraLocal /\ M.read = epoch /\ M.seen = epoch /\ M.checked = c
  <2>1. M \in DebraLocal
      BY Zenon, <1>1, <1>3, DebraLocalSet
  <2> QED BY <1>1, <1>3, <2>1 DEF DebraLocal
<1>5. me' = [me EXCEPT ![p] = M]
    BY <1>2, <1>3 DEF ReadEpoch, Set
<1>6. ASSUME NEW q \in Procs, M.read = epoch, M.checked > q PROVE Passes(q)
  <2>1. q \in Nat
      BY ProcsAre DEF Places, PlaceTypes
  <2>2. epoch = me[p].seen /\ me[p].checked > q
      BY <1>2, <1>4, <1>6, <2>1
  <2>3. me[p].read = epoch
      BY <1>0, <2>2 DEF DebraThread, DebraTypes
  <2> QED BY <2>2, <2>3 DEF Passes
<1>7. Pending(l, M.seen) <= Pending(pc[p], me[p].seen)
    BY <1>4 DEF Pending, NewToEpoch
<1>8. c < N
  <2>1. CASE epoch # me[p].seen
      BY <1>2, <2>1, ProcsAre DEF Places, PlaceTypes
  <2>2. CASE epoch = me[p].seen
    <3>1. me[p].read = epoch
        BY <1>0, <2>2 DEF DebraThread, DebraTypes
    <3> QED BY <1>0, <1>2, <2>2, <3>1 DEF DebraThread
  <2> QED BY <2>1, <2>2
<1>9. pc'[p] = l /\ me'[p] = M => DebraThread(p)'
    BY <1>0, <1>1, <1>4, <1>8 DEF DebraThread, Visible, InDebra, NewToEpoch, DebraTypes
<1> QED BY <1>0, <1>4, <1>5, <1>6, <1>7, <1>9, DebraLocalStep DEF DebraTypes

\* The epoch that was read is announced.
LEMMA DebraAnnounce ==
    ASSUME Places, DebraInv, InDebra, NEW p \in Procs, Announce(p), NEW l \in DebraLabels, Go(p, l),
           \/ pc[p] = "announce" /\ l = "check"
           \/ scheme = "debracap" /\ pc[p] = "announceFirst" /\ l = "rotate"
    PROVE  DebraInv' /\ Moves
<1>0. /\ DebraTypes /\ DebraThread(p)
      /\ UNCHANGED <<scheme, linked, holds, pool, bags, cur, epoch, me, list>>
      /\ Procs' = Procs /\ Stock' = Stock /\ N' = N
    BY SameScheme DEF DebraInv, Places, Announce, mem
<1>1. me[p] \in DebraLocal /\ epoch \in Nat
    BY <1>0 DEF DebraTypes
<1>2. me' = [me EXCEPT ![p] = me[p]]
    BY <1>0 DEF DebraTypes
<1>3. holds[p] = {}
    BY <1>0 DEF DebraThread
<1>4. ASSUME NEW q \in Procs, me[p].read = epoch, me[p].checked > q PROVE Passes(q)
    BY <1>4 DEF Passes
<1>5. Pending(l, me[p].seen) <= Pending(pc[p], me[p].seen)
    BY DEF Pending
<1>6. pc'[p] = l /\ me'[p] = me[p] => DebraThread(p)'
    BY <1>0, <1>1 DEF DebraThread, Visible, InDebra, DebraTypes, Announce
<1>7. word' \in [Procs -> Nat] /\ \A q \in Procs \ {p} : word'[q] = word[q]
    BY <1>0, <1>1 DEF DebraTypes, DebraLocal, Announce
<1> QED BY <1>0, <1>1, <1>2, <1>3, <1>4, <1>5, <1>6, <1>7, DebraLocalStep DEF DebraTypes

\* A thread that is looked at passes for one that is in the epoch only if it is.
LEMMA DebraPassed ==
    ASSUME Places, DebraInv, NEW p \in Procs, NEW q \in Procs, holds[q] # {},
           Passed(p, q), me[p].read = epoch
    PROVE  Passes(q)
<1>1. /\ DebraThread(q) /\ word[q] \in Nat /\ me[q] \in DebraLocal
    BY DEF DebraInv, DebraTypes
<1>2. word[q] = me[q].read /\ word[q] % 2 = 0
    BY <1>1 DEF DebraThread, Visible
<1>3. word[q] = me[p].read
    BY <1>1, <1>2 DEF Passed, BITS_EPOCH, QUIESCENT
<1> QED BY <1>3 DEF Passes

\* One more announcement has been looked at.
LEMMA DebraCheck ==
    ASSUME Places, DebraInv, InDebra, NEW p \in Procs, NEW M \in DebraLocal, NEW l \in DebraLabels,
           me' = [me EXCEPT ![p] = M], Go(p, l), UNCHANGED <<scheme, mem, epoch, word, list>>,
           M.read = me[p].read, M.seen = me[p].seen,
           pc[p] \in {"check", "all"}, l \in {"in", "all", "advance"},
           \/ M.checked = me[p].checked
           \/ M.checked = me[p].checked + 1 /\ me[p].checked < N /\ Passed(p, me[p].checked),
           l = "advance" => M.checked >= N, l = "in" => M.checked < N
    PROVE  DebraInv' /\ Moves
<1>0. /\ DebraTypes /\ DebraThread(p)
      /\ UNCHANGED <<scheme, linked, holds, pool, bags, cur, epoch, word, list>>
      /\ Procs' = Procs /\ Stock' = Stock /\ N' = N
      /\ N \in Nat \ {0} /\ Procs = 0 .. N - 1
    BY SameScheme, ProcsAre DEF DebraInv, Places, PlaceTypes, mem
<1>1. me[p] \in DebraLocal /\ epoch \in Nat
    BY <1>0 DEF DebraTypes
<1>2. me[p].checked \in Nat /\ M.checked \in Nat
    BY <1>1 DEF DebraLocal
<1>3. ASSUME NEW q \in Procs, M.read = epoch, M.checked > q, holds[q] # {} PROVE Passes(q)
  <2>1. CASE me[p].checked > q
      BY <1>3, <2>1 DEF Passes
  <2>2. CASE ~(me[p].checked > q)
    <3>1. q = me[p].checked /\ Passed(p, q)
        BY <1>0, <1>2, <1>3, <2>2
    <3> QED BY <1>3, <3>1, DebraPassed
  <2> QED BY <2>1, <2>2
<1>4. Pending(l, M.seen) <= Pending(pc[p], me[p].seen)
    BY DEF Pending
<1>5. pc'[p] = l /\ me'[p] = M => DebraThread(p)'
    BY <1>0, <1>1 DEF DebraThread, Visible, InDebra, DebraTypes
<1> QED BY <1>0, <1>3, <1>4, <1>5, DebraLocalStep DEF DebraTypes

\* The last step of a check.
LEMMA DebraCheckOne ==
    ASSUME Places, DebraInv, InDebra, NEW p \in Procs, pc[p] = "check", Check(p)
    PROVE  DebraInv' /\ Moves
<1>0. DebraTypes /\ me[p] \in DebraLocal /\ me[p].checked < N /\ N \in Nat
    BY ProcsAre DEF DebraInv, DebraTypes, DebraThread, Places, PlaceTypes
<1>1. me[p].checked \in Nat /\ me[p].since \in Nat /\ me[p].since + 1 \in Nat
      /\ me[p].checked + 1 \in Nat
    BY <1>0 DEF DebraLocal
<1>2. CASE me[p].since + 1 # MinOps
  <2>1. PICK M : M = [me[p] EXCEPT !.since = me[p].since + 1]
      OBVIOUS
  <2>2. M \in DebraLocal
      BY Zenon, <1>0, <1>1, <2>1, DebraLocalSet
  <2>3. M.read = me[p].read /\ M.seen = me[p].seen /\ M.checked = me[p].checked
      BY <1>0, <2>1 DEF DebraLocal
  <2>4. me' = [me EXCEPT ![p] = M] /\ Go(p, "in")
      BY <1>2, <2>1 DEF Check, Set
  <2> QED BY <1>0, <2>2, <2>3, <2>4, DebraCheck DEF Check, DebraLabels
<1>3. CASE me[p].since + 1 = MinOps /\ Passed(p, me[p].checked)
  <2>1. PICK M : M = [me[p] EXCEPT !.since = 0, !.checked = me[p].checked + 1]
      OBVIOUS
  <2>2. M \in DebraLocal
      BY Zenon, <1>0, <1>1, <2>1, DebraLocalSet
  <2>3. M.read = me[p].read /\ M.seen = me[p].seen /\ M.checked = me[p].checked + 1
      BY <1>0, <2>1 DEF DebraLocal
  <2>4. PICK l : l = IF me[p].checked + 1 >= N THEN "advance" ELSE "in"
      OBVIOUS
  <2>5. me' = [me EXCEPT ![p] = M] /\ Go(p, l)
      BY <1>3, <2>1, <2>4 DEF Check, Set
  <2>6. l \in DebraLabels /\ l \in {"in", "all", "advance"} /\ (l = "advance" => M.checked >= N)
        /\ (l = "in" => M.checked < N)
      BY <1>0, <1>1, <2>3, <2>4 DEF DebraLabels
  <2> QED BY <1>0, <1>3, <2>2, <2>3, <2>5, <2>6, DebraCheck DEF Check
<1>4. CASE me[p].since + 1 = MinOps /\ ~Passed(p, me[p].checked)
  <2>1. PICK M : M = [me[p] EXCEPT !.since = 0]
      OBVIOUS
  <2>2. M \in DebraLocal
      BY Zenon, <1>0, <1>1, <2>1, DebraLocalSet
  <2>3. M.read = me[p].read /\ M.seen = me[p].seen /\ M.checked = me[p].checked
      BY <1>0, <2>1 DEF DebraLocal
  <2>4. me' = [me EXCEPT ![p] = M] /\ Go(p, "in")
      BY <1>4, <2>1 DEF Check, Set
  <2> QED BY <1>0, <2>2, <2>3, <2>4, DebraCheck DEF Check, DebraLabels
<1> QED BY <1>2, <1>3, <1>4

\* The same when all announcements are looked at.
LEMMA DebraCheckAll ==
    ASSUME Places, DebraInv, InDebra, NEW p \in Procs, pc[p] = "all",
           UNCHANGED <<scheme, mem, epoch, word, list>>,
           IF me[p].checked >= N THEN Go(p, "advance") /\ UNCHANGED me
           ELSE IF Passed(p, me[p].checked)
             THEN Set(p, [me[p] EXCEPT !.checked = @ + 1]) /\ UNCHANGED pc
           ELSE Go(p, "in") /\ UNCHANGED me
    PROVE  DebraInv' /\ Moves
<1>0. /\ DebraTypes /\ me[p] \in DebraLocal /\ N \in Nat
    BY ProcsAre DEF DebraInv, DebraTypes, Places, PlaceTypes
<1>1. me[p].checked \in Nat /\ me[p].checked + 1 \in Nat
    BY <1>0 DEF DebraLocal
<1>2. me = [me EXCEPT ![p] = me[p]] /\ pc = [pc EXCEPT ![p] = pc[p]]
    BY <1>0 DEF DebraTypes
<1>3. CASE me[p].checked >= N
    BY <1>0, <1>2, <1>3, DebraCheck DEF DebraLabels
<1>4. CASE me[p].checked < N /\ Passed(p, me[p].checked)
  <2>1. PICK M : M = [me[p] EXCEPT !.checked = me[p].checked + 1]
      OBVIOUS
  <2>2. M \in DebraLocal
      BY Zenon, <1>0, <1>1, <2>1, DebraLocalSet
  <2>3. M.read = me[p].read /\ M.seen = me[p].seen /\ M.checked = me[p].checked + 1
      BY <1>0, <2>1 DEF DebraLocal
  <2>4. me' = [me EXCEPT ![p] = M] /\ Go(p, "all")
      BY <1>0, <1>1, <1>2, <1>4, <2>1 DEF Set, Go
  <2> QED BY <1>4, <2>2, <2>3, <2>4, DebraCheck DEF DebraLabels
<1>5. CASE me[p].checked < N /\ ~Passed(p, me[p].checked)
    BY <1>0, <1>1, <1>2, <1>5, DebraCheck DEF DebraLabels
<1> QED BY <1>0, <1>1, <1>3, <1>4, <1>5

\* An operation ends, or a record is found, or the bag is looked at.
LEMMA DebraInside ==
    ASSUME Places, DebraInv, InDebra, NEW p \in Procs, NEW l \in DebraLabels, Go(p, l),
           UNCHANGED <<scheme, linked, pool, bags, cur, epoch, me>>,
           holds' \in [Procs -> SUBSET Stock], \A q \in Procs \ {p} : holds'[q] = holds[q],
           \/ /\ pc[p] = "in" /\ l = "idle" /\ holds'[p] = {}
              /\ word' = [word EXCEPT ![p] = GET_WITH_QUIESCENT(me[p].seen)]
           \/ /\ pc[p] \in {"in", "large"} /\ word' = word /\ holds'[p] \subseteq holds[p] \cup linked
              /\ l = "in" \/ (l = "all" /\ pc[p] = "large")
    PROVE  DebraInv' /\ Moves
<1>0. /\ DebraTypes /\ DebraThread(p) /\ Procs' = Procs /\ Stock' = Stock /\ N' = N
    BY SameScheme DEF DebraInv, Places
<1>1. me[p] \in DebraLocal /\ epoch \in Nat
    BY <1>0 DEF DebraTypes
<1>2. me' = [me EXCEPT ![p] = me[p]]
    BY <1>0 DEF DebraTypes
<1>3. me[p].seen \in Nat /\ GET_WITH_QUIESCENT(me[p].seen) \in Nat
      /\ GET_WITH_QUIESCENT(me[p].seen) % 2 = 1
    BY <1>1 DEF DebraLocal, GET_WITH_QUIESCENT, BITS_EPOCH
<1>4. ASSUME NEW q \in Procs, me[p].read = epoch, me[p].checked > q PROVE Passes(q)
    BY <1>4 DEF Passes
<1>5. Pending(l, me[p].seen) <= Pending(pc[p], me[p].seen)
    BY DEF Pending
<1>6. word' \in [Procs -> Nat] /\ \A q \in Procs \ {p} : word'[q] = word[q]
    BY <1>0, <1>3 DEF DebraTypes
<1>7. pc'[p] = l /\ me'[p] = me[p] => DebraThread(p)'
    BY <1>0, <1>1, <1>3 DEF DebraThread, Visible, InDebra, DebraTypes
<1> QED BY <1>0, <1>1, <1>2, <1>4, <1>5, <1>6, <1>7, DebraLocalStep DEF DebraTypes

\* A record is unlinked and retired: nobody can rotate that often while p
\* is in its operation.
LEMMA DebraRetire ==
    ASSUME Places, DebraInv, InDebra, NEW p \in Procs, NEW l \in {"in", "large"}, pc[p] = "in",
           Go(p, l), UNCHANGED <<scheme, me, holds, epoch, word>>,
           NEW r \in Records, Unlink(p, r), retire(p, r)
    PROVE  DebraInv' /\ Moves
<1>0. /\ DebraTypes /\ DebraHeld /\ PlaceTypes /\ (\A q \in Procs : DebraThread(q))
      /\ Procs' = Procs /\ Stock' = Stock /\ N' = N
    BY SameScheme DEF DebraInv, Places
<1>1. /\ pc' \in [Procs -> DebraLabels] /\ pc'[p] = l
      /\ \A q \in Procs \ {p} : pc'[q] = pc[q]
  <2>1. l \in DebraLabels
      BY DEF DebraLabels
  <2> QED BY <1>0, <2>1, OneLabel DEF DebraTypes
<1>2. r \in linked /\ r \in Stock /\ linked' = linked \ {r} /\ pool' = pool /\ cur' = cur
      /\ bags' = [bags EXCEPT ![p][cur[p]] = @ \cup {r}]
    BY <1>0 DEF Unlink, retire, PlaceTypes
<1>3. PICK i \in 0 .. 2 : i = cur[p]
    BY <1>0 DEF PlaceTypes
<1>4. Moves
  <2>1. Retires(p, i, r)
      BY <1>2, <1>3 DEF Retires
  <2> QED BY <1>0, <1>2, <2>1 DEF Moves, PlaceTypes
<1>5. DebraTypes'
    BY <1>0, <1>1 DEF DebraTypes
<1>6. ASSUME NEW q \in Procs PROVE DebraThread(q)'
    BY <1>0, <1>1, <1>6 DEF DebraThread, Visible
<1>7. \A u \in Procs, q \in Procs : Turns(u, q)' = Turns(u, q)
    BY <1>0, <1>1 DEF Turns, Passes
<1>8. DebraHeld'
  <2>1. \A u \in Procs, j \in 0 .. 2 :
           bags'[u][j] = IF u = p /\ j = i THEN bags[p][i] \cup {r} ELSE bags[u][j]
    <3>1. PICK X \in SUBSET Stock : X = bags[p][i] \cup {r}
        BY <1>0, <1>2 DEF PlaceTypes
    <3>2. bags' = [bags EXCEPT ![p][i] = X]
        BY <1>2, <1>3, <3>1
    <3> QED BY <1>0, <3>1, <3>2, BagsExcept DEF PlaceTypes
  <2>2. ASSUME NEW q \in Procs, NEW x \in holds[q], NEW u \in Procs, NEW j \in 0 .. 2,
               x \in bags'[u][j]
        PROVE  Turns(u, q) < Age(u, j)
    <3>1. CASE x \in bags[u][j]
        BY <1>0, <2>2, <3>1 DEF DebraHeld
    <3>2. CASE x \notin bags[u][j]
      <4>1. u = p /\ j = cur[p]
          BY <1>3, <2>1, <2>2, <3>2
      <4> QED BY <4>1 DEF Turns, Age
    <3> QED BY <3>1, <3>2
  <2>3. \A u \in Procs : \A j : Age(u, j)' = Age(u, j)
      BY <1>2 DEF Age
  <2> QED BY <1>0, <1>2, <1>7, <2>2, <2>3 DEF DebraHeld
<1> QED BY <1>4, <1>5, <1>6, <1>8, <1>0 DEF DebraInv

\* The epoch moves on only when every operation under way has been seen in
\* it: from then on they keep it where it is.
LEMMA DebraAdvance ==
    ASSUME Places, DebraInv, InDebra, NEW p \in Procs, pc[p] = "advance", AdvanceEpoch(p),
           Go(p, "in")
    PROVE  DebraInv' /\ Moves
<1>0. /\ DebraTypes /\ DebraHeld /\ PlaceTypes /\ (\A q \in Procs : DebraThread(q))
      /\ Procs' = Procs /\ Stock' = Stock /\ N' = N /\ N \in Nat /\ Procs = 0 .. N - 1
    BY SameScheme, ProcsAre DEF DebraInv, Places, PlaceTypes, AdvanceEpoch
<1>1. /\ pc' \in [Procs -> DebraLabels] /\ pc'[p] = "in"
      /\ \A q \in Procs \ {p} : pc'[q] = pc[q]
  <2>1. "in" \in DebraLabels
      BY DEF DebraLabels
  <2> QED BY <1>0, <2>1, OneLabel DEF DebraTypes
<1>2. /\ UNCHANGED <<scheme, linked, holds, pool, bags, cur, me, word>>
      /\ epoch' = IF epoch = me[p].read THEN epoch + 2 ELSE epoch
    BY DEF AdvanceEpoch, mem, EPOCH_INCREMENT
<1>3. DebraTypes'
    BY <1>0, <1>1, <1>2 DEF DebraTypes
<1>4. Moves
    BY <1>0, <1>2 DEF Moves, Unmoved, PlaceTypes
<1>5. ASSUME NEW q \in Procs PROVE DebraThread(q)'
  <2>1. me[q] \in DebraLocal /\ epoch \in Nat /\ word[q] \in Nat
      BY <1>0 DEF DebraTypes
  <2>2. me[q].read \in Nat /\ me[q].checked \in Nat
      BY <2>1 DEF DebraLocal
  <2>3. DebraThread(q) /\ DebraThread(p) /\ N' = N /\ N \in Nat
      BY <1>0
  <2>4. epoch' \in Nat /\ epoch <= epoch'
      BY <1>2, <2>1
  <2>5. CASE q = p
    <3>1. me'[p] = me[p] /\ word'[p] = word[p] /\ holds'[p] = holds[p]
        BY <1>2
    <3>2. me[p].read # epoch'
        BY <1>2, <2>1, <2>2, <2>5
    <3> QED BY <1>1, <2>1, <2>2, <2>3, <2>4, <2>5, <3>1, <3>2 DEF DebraThread, Visible
  <2>6. CASE q # p
    <3>1. /\ me'[q] = me[q] /\ word'[q] = word[q] /\ holds'[q] = holds[q]
          /\ pc'[q] = pc[q] /\ scheme' = scheme
        BY <1>1, <1>2, <2>6
    <3>2. me[q].read = epoch' => epoch' = epoch
        BY <1>2, <2>1, <2>2, <2>3 DEF DebraThread
    <3> QED BY <2>1, <2>2, <2>3, <2>4, <3>1, <3>2 DEF DebraThread, Visible
  <2> QED BY <2>5, <2>6
<1>6. ASSUME NEW q \in Procs, NEW u \in Procs, holds[q] # {}
      PROVE  Turns(u, q)' <= Turns(u, q)
  <2>1. CASE epoch = me[p].read
    <3>1. me[p].checked >= N /\ me[p].checked \in Nat /\ epoch \in Nat
        BY <1>0 DEF DebraThread, DebraTypes, DebraLocal
    <3>2. Passes(q)
        BY <1>0, <2>1, <3>1 DEF Passes
    <3>3. ~Passes(q)'
      <4>1. word[q] = me[q].read /\ me[q].read <= epoch /\ me[q].read \in Nat
          BY <1>0, <1>6 DEF DebraThread, Visible, DebraTypes, DebraLocal
      <4>2. \A w \in Procs : me[w].read <= epoch /\ me[w].read \in Nat
          BY <1>0 DEF DebraThread, DebraTypes, DebraLocal
      <4> QED BY <1>0, <1>2, <2>1, <3>1, <4>1, <4>2 DEF Passes
    <3> QED BY <1>0, <1>1, <1>2, <3>2, <3>3 DEF Turns
  <2>2. CASE epoch # me[p].read
      BY <1>0, <1>1, <1>2, <2>2 DEF Turns, Passes
  <2> QED BY <2>1, <2>2
<1>7. DebraHeld'
    BY <1>0, <1>2, <1>6, DebraHeldStays
<1> QED BY <1>3, <1>4, <1>5, <1>7, <1>0 DEF DebraInv

\* The bag that is emptied holds nothing that anybody may follow.
LEMMA DebraRotate ==
    ASSUME Places, DebraInv, InDebra, NEW p \in Procs, pc[p] = "rotate", Rotate(p),
           NEW l \in DebraLabels, Go(p, l), l = IF scheme = "debra" THEN "announce" ELSE "check"
    PROVE  DebraInv' /\ Moves
<1>0. /\ DebraTypes /\ DebraHeld /\ PlaceTypes /\ Apart /\ (\A q \in Procs : DebraThread(q))
      /\ UNCHANGED <<scheme, me, epoch, word, list>>
      /\ Procs' = Procs /\ Stock' = Stock /\ N' = N
    BY SameScheme DEF DebraInv, Places, Rotate
<1>1. /\ pc' \in [Procs -> DebraLabels] /\ pc'[p] = l
      /\ \A q \in Procs \ {p} : pc'[q] = pc[q]
    BY <1>0, OneLabel DEF DebraTypes
<1>2. PICK i \in 0 .. 2 : i = (cur[p] + 1) % 3
    BY <1>0 DEF PlaceTypes
<1>3. PICK F \in FullBlocks(bags[p][i]) :
         /\ pool' = pool \cup F /\ bags' = [bags EXCEPT ![p][i] = @ \ F]
         /\ cur' = [cur EXCEPT ![p] = i] /\ UNCHANGED <<linked, holds>>
    BY <1>2 DEF Rotate, RotateBags
<1>4. F \subseteq bags[p][i] /\ F \in SUBSET Stock
    BY <1>0, <1>3, FullBlocksIn DEF PlaceTypes
<1>5. /\ cur' \in [Procs -> 0 .. 2] /\ cur'[p] = i /\ \A q \in Procs \ {p} : cur'[q] = cur[q]
    BY <1>0, <1>3 DEF PlaceTypes
<1>6. Moves
  <2>1. Frees(p, i, F)
      BY <1>0, <1>3, <1>4 DEF Frees
  <2> QED BY <1>0, <1>4, <1>5, <2>1 DEF Moves
<1>7. DebraTypes'
    BY <1>0, <1>1, <1>3 DEF DebraTypes
<1>8. ASSUME NEW q \in Procs PROVE DebraThread(q)'
    BY <1>0, <1>1, <1>3, <1>8 DEF DebraThread, Visible, InDebra
<1>9. /\ bags' \in [Procs -> [0 .. 2 -> SUBSET Stock]]
      /\ \A q \in Procs, j \in 0 .. 2 :
            bags'[q][j] = IF q = p /\ j = i THEN bags[p][i] \ F ELSE bags[q][j]
  <2>1. PICK X \in SUBSET Stock : X = bags[p][i] \ F
      BY <1>0 DEF PlaceTypes
  <2>2. bags' = [bags EXCEPT ![p][i] = X]
      BY <1>3, <2>1
  <2>3. /\ bags' \in [Procs -> [0 .. 2 -> SUBSET Stock]]
        /\ \A q \in Procs, j \in 0 .. 2 :
              bags'[q][j] = IF q = p /\ j = i THEN X ELSE bags[q][j]
      BY <1>0, <2>2, BagsExcept DEF PlaceTypes
  <2> QED BY <2>1, <2>3
<1>10. ASSUME NEW q \in Procs, NEW r \in holds[q] PROVE r \notin F
  <2>1. SUFFICES ASSUME r \in bags[p][i] PROVE FALSE
      BY <1>4
  <2>2. Turns(p, q) < Age(p, i)
      BY <1>0, <2>1 DEF DebraHeld
  <2>3. Age(p, i) = 1
      BY <1>0, <1>2 DEF Age, PlaceTypes
  <2>4. Turns(p, q) >= 1
      BY DEF Turns
  <2>5. Turns(p, q) \in Int
      BY DEF Turns
  <2> QED BY <2>2, <2>3, <2>4, <2>5
<1>11. ASSUME NEW q \in Procs, NEW r \in holds[q], NEW u \in Procs, NEW j \in 0 .. 2,
              r \in bags[u][j]
       PROVE  Turns(u, q)' < Age(u, j)'
  <2>1. Turns(u, q) < Age(u, j) /\ Turns(u, q) \in Int
      BY <1>0, <1>11 DEF DebraHeld, Turns
  <2>2. Passes(q)' <=> Passes(q)
      BY <1>0 DEF Passes
  <2>3. CASE u # p
      BY <1>0, <1>1, <1>5, <2>1, <2>2, <2>3 DEF Turns, Age
  <2>4. CASE u = p
    <3>1. Turns(p, q)' = Turns(p, q) - 1
        BY <1>0, <1>1, <2>2 DEF Turns
    <3>2. cur[p] \in {0, 1, 2} /\ j \in {0, 1, 2}
        BY <1>0 DEF PlaceTypes
    <3>3. Age(p, j)' >= Age(p, j) - 1 /\ Age(p, j)' \in Int /\ Age(p, j) \in Int
        BY <1>2, <1>5, <3>2 DEF Age
    <3> QED BY <2>1, <2>4, <3>1, <3>3
  <2> QED BY <2>3, <2>4
<1>12. DebraHeld'
  <2>1. ASSUME NEW q \in Procs, NEW r \in holds[q] PROVE r \notin pool'
      BY <1>0, <1>3, <1>10, <2>1 DEF DebraHeld
  <2>2. ASSUME NEW q \in Procs, NEW r \in holds[q], NEW u \in Procs, NEW j \in 0 .. 2,
               r \in bags'[u][j]
        PROVE  Turns(u, q)' < Age(u, j)'
    <3>1. r \in bags[u][j]
        BY <1>9, <2>2
    <3> QED BY <1>11, <3>1
  <2> QED BY <1>0, <1>3, <2>1, <2>2 DEF DebraHeld
<1> QED BY <1>6, <1>7, <1>8, <1>12, <1>0 DEF DebraInv

\* An operation of a thread, as the code takes its steps.
LEMMA DebraStep ==
    ASSUME Places, DebraInv, InDebra, NEW p \in Procs, DebraNext(p)
    PROVE  DebraInv' /\ Moves
<1>0. DebraTypes /\ PlaceTypes
    BY DEF DebraInv, Places
<1>1. CASE pc[p] = "idle" /\ debra_startOp(p)
  <2>1. PICK l : l = IF NewToEpoch(p) THEN "rotate" ELSE "announce"
      OBVIOUS
  <2>2. ReadEpoch(p) /\ Go(p, l) /\ scheme = "debra"
      BY <1>1, <2>1 DEF debra_startOp, At
  <2> QED BY <1>1, <2>1, <2>2, DebraReadEpoch DEF DebraLabels
<1>2. CASE pc[p] = "idle" /\ debracap_startOp(p)
  <2>1. PICK l : l = IF NewToEpoch(p) THEN "announceFirst" ELSE "announce"
      OBVIOUS
  <2>2. ReadEpoch(p) /\ Go(p, l) /\ scheme = "debracap"
      BY <1>2, <2>1 DEF debracap_startOp, At
  <2> QED BY <1>2, <2>1, <2>2, DebraReadEpoch DEF DebraLabels
<1>3. CASE pc[p] = "rotate" /\ (debra_startOp(p) \/ debracap_startOp(p))
  <2>1. PICK l : l = IF scheme = "debra" THEN "announce" ELSE "check"
      OBVIOUS
  <2>2. Rotate(p) /\ Go(p, l)
      BY <1>3, <2>1 DEF debra_startOp, debracap_startOp, At
  <2> QED BY <1>3, <2>1, <2>2, DebraRotate DEF DebraLabels
<1>4. CASE pc[p] = "announce" /\ (debra_startOp(p) \/ debracap_startOp(p))
  <2>1. Announce(p) /\ Go(p, "check")
      BY <1>4 DEF debra_startOp, debracap_startOp, At
  <2> QED BY <1>4, <2>1, DebraAnnounce DEF DebraLabels
<1>5. CASE pc[p] = "announceFirst" /\ (debra_startOp(p) \/ debracap_startOp(p))
  <2>1. Announce(p) /\ Go(p, "rotate") /\ scheme = "debracap"
      BY <1>5 DEF debra_startOp, debracap_startOp, At
  <2> QED BY <1>5, <2>1, DebraAnnounce DEF DebraLabels
<1>6. CASE pc[p] = "check" /\ (debra_startOp(p) \/ debracap_startOp(p))
  <2>1. Check(p)
      BY <1>6 DEF debra_startOp, debracap_startOp, At
  <2> QED BY <1>6, <2>1, DebraCheckOne
<1>7. CASE pc[p] = "advance" /\ (debra_startOp(p) \/ debracap_startOp(p))
  <2>1. AdvanceEpoch(p) /\ Go(p, "in")
      BY <1>7 DEF debra_startOp, debracap_startOp, At
  <2> QED BY <1>7, <2>1, DebraAdvance
<1>8. debra_startOp(p) \/ debracap_startOp(p) =>
        pc[p] \in {"idle", "rotate", "announce", "announceFirst", "check", "advance"}
    BY DEF debra_startOp, debracap_startOp, At
<1>9. CASE pc[p] = "in" /\ Find(p)
  <2>1. PICK r \in linked \ holds[p] : holds' = [holds EXCEPT ![p] = @ \cup {r}]
      BY <1>9 DEF Find
  <2>2. UNCHANGED <<scheme, pc, me, linked, pool, bags, cur, epoch, word>>
      BY <1>9 DEF Find
  <2>3. /\ holds' \in [Procs -> SUBSET Stock] /\ \A q \in Procs \ {p} : holds'[q] = holds[q]
        /\ holds'[p] \subseteq holds[p] \cup linked
      BY <1>0, <2>1 DEF DebraTypes, PlaceTypes
  <2>4. Go(p, "in")
      BY <1>0, <1>9, <2>2 DEF Go, DebraTypes
  <2> QED BY <1>9, <2>2, <2>3, <2>4, DebraInside DEF DebraLabels
<1>10. CASE pc[p] = "in" /\ UnlinkAndRetire(p)
  <2>1. PICK r \in Records : Unlink(p, r) /\ retire(p, r)
      BY <1>10 DEF UnlinkAndRetire
  <2>2. UNCHANGED <<scheme, pc, me, holds, epoch, word, list>>
      BY <1>10 DEF UnlinkAndRetire
  <2>3. Go(p, "in")
      BY <1>0, <1>10, <2>2 DEF Go, DebraTypes
  <2> QED BY <1>10, <2>1, <2>2, <2>3, DebraRetire
<1>11. CASE pc[p] = "in" /\ debracap_retire(p)
  <2>1. PICK r \in Records : Unlink(p, r) /\ retire(p, r)
      BY <1>11 DEF debracap_retire, At
  <2>2. PICK l : l = IF getSizeInBlocks(bags'[p][cur[p]]) >= 2 THEN "large" ELSE "in"
      OBVIOUS
  <2>3. Go(p, l) /\ UNCHANGED <<scheme, me, holds, epoch, word, list>>
      BY <1>11, <2>2 DEF debracap_retire, At
  <2>4. l \in {"in", "large"}
      BY <2>2
  <2> QED BY <1>11, <2>1, <2>3, <2>4, DebraRetire
<1>12. CASE pc[p] = "large" /\ debracap_retire(p)
  <2>1. PICK l : l = IF epoch = BITS_EPOCH(me[p].seen) THEN "all" ELSE "in"
      OBVIOUS
  <2>2. Go(p, l) /\ UNCHANGED <<scheme, mem, me, epoch, word, list>>
      BY <1>12, <2>1 DEF debracap_retire, At
  <2>3. l \in DebraLabels /\ l \in {"all", "in"}
      BY <2>1 DEF DebraLabels
  <2> QED BY <1>0, <1>12, <2>2, <2>3, DebraInside, SameScheme DEF mem, DebraTypes
<1>13. CASE pc[p] = "all" /\ debracap_retire(p)
  <2>1. /\ UNCHANGED <<scheme, mem, epoch, word, list>>
        /\ IF me[p].checked >= N THEN Go(p, "advance") /\ UNCHANGED me
           ELSE IF Passed(p, me[p].checked)
             THEN Set(p, [me[p] EXCEPT !.checked = @ + 1]) /\ UNCHANGED pc
           ELSE Go(p, "in") /\ UNCHANGED me
      BY <1>13 DEF debracap_retire, At
  <2> QED BY <1>13, <2>1, DebraCheckAll
<1>14. debracap_retire(p) => pc[p] \in {"in", "large", "all"}
    BY DEF debracap_retire, At
<1>15. CASE debra_endOp(p)
  <2>1. /\ pc[p] = "in" /\ word' = [word EXCEPT ![p] = GET_WITH_QUIESCENT(me[p].seen)]
        /\ holds' = [holds EXCEPT ![p] = {}] /\ Go(p, "idle")
        /\ UNCHANGED <<scheme, me, linked, pool, bags, cur, epoch, list>>
      BY <1>15 DEF debra_endOp, At
  <2>2. /\ holds' \in [Procs -> SUBSET Stock] /\ holds'[p] = {}
        /\ \A q \in Procs \ {p} : holds'[q] = holds[q]
      BY <1>0, <2>1 DEF DebraTypes
  <2> QED BY <2>1, <2>2, DebraInside DEF DebraLabels
<1>16. \/ debra_startOp(p) \/ debracap_startOp(p)
       \/ pc[p] = "in" /\ Find(p)
       \/ pc[p] = "in" /\ UnlinkAndRetire(p)
       \/ debracap_retire(p) \/ debra_endOp(p)
    BY DEF DebraNext, At
<1> QED BY <1>1, <1>2, <1>3, <1>4, <1>5, <1>6, <1>7, <1>8, <1>9, <1>10, <1>11, <1>12,
           <1>13, <1>14, <1>15, <1>16

\* At first nothing is held and nothing was retired.
LEMMA PlacesInit == Init /\ (\A p \in Procs : me[p].mine = {}) => Places
<1> SUFFICES ASSUME Init, \A p \in Procs : me[p].mine = {} PROVE Places
    OBVIOUS
<1>1. /\ PlaceTypes /\ linked = Stock /\ pool = {}
      /\ \A p \in Procs, i \in 0 .. 2 : bags[p][i] = {}
    BY DEF Init, PlaceTypes, Stock
<1> QED BY <1>1 DEF Places, Apart, MineApart, BagsApart, Somewhere

\* The invariant of debra holds at the beginning.
LEMMA DebraInitial == Init /\ DebraInit => Places /\ DebraInv
<1> SUFFICES ASSUME Init, DebraInit PROVE Places /\ DebraInv
    OBVIOUS
<1>0. /\ N \in Nat \ {0} /\ GET_WITH_QUIESCENT(0) = 1
    BY ProcsAre DEF Init, GET_WITH_QUIESCENT, BITS_EPOCH
<1>1. Local \in DebraLocal /\ Local.read = 0 /\ Local.seen = 1 /\ Local.checked = 0
      /\ Local.mine = {}
    BY DEF Local, DebraLocal
<1>2. /\ epoch = 0 /\ \A p \in Procs : me[p] = Local /\ word[p] = 1 /\ pc[p] = "idle"
      /\ \A p \in Procs : holds[p] = {}
    BY <1>0 DEF DebraInit, Init
<1>3. DebraTypes
    BY <1>0, <1>1 DEF DebraTypes, DebraInit, Init, DebraLabels
<1>4. \A p \in Procs : DebraThread(p)
    BY <1>0, <1>1, <1>2 DEF DebraThread, Visible
<1>5. DebraHeld
    BY <1>2 DEF DebraHeld
<1>6. Places
    BY <1>1, <1>2, PlacesInit
<1> QED BY <1>3, <1>4, <1>5, <1>6 DEF DebraInv

-----------------------------------------------------------------------------
(***************************************************************************)
(* reclaimer_ebr_token                                                     *)
(***************************************************************************)
\* How far the token has to go from t.
Distance(t, u) == IF u >= t THEN u - t ELSE u - t + N

\* The token gets to u before it waits for p.
Reaches(u, p) == \E t \in Procs : word[t] = 1 /\ Distance(t, u) < Distance(t, p)

TokenTurns(u, p) ==
    (IF pc[u] = "rotate" THEN 1 ELSE 0) + (IF Reaches(u, p) THEN 1 ELSE 0)

TokenAge(u, i) == IF i = cur[u] THEN 2 ELSE 1

TokenLabels == {"idle", "rotate", "in"}

TokenTypes ==
    /\ pc \in [Procs -> TokenLabels] /\ cur \in [Procs -> 0 .. 1]
    /\ holds \in [Procs -> SUBSET Stock]
    /\ \A p \in Procs : holds[p] # {} => pc[p] = "in"

OneToken ==
    \E t \in Procs : word = [q \in Procs |-> IF q = t THEN 1 ELSE 0]

TokenHeld ==
    \A p \in Procs : \A r \in holds[p] :
       /\ r \notin pool
       /\ \A u \in Procs, i \in 0 .. 2 : r \in bags[u][i] => TokenTurns(u, p) < TokenAge(u, i)

TokenInv == TokenTypes /\ OneToken /\ TokenHeld

\* The token goes to the next thread.
LEMMA NextThread ==
    ASSUME scheme \in DOMAIN Plan, NEW p \in Procs
    PROVE  /\ (p + 1) % N \in Procs
           /\ (p + 1) % N = IF p = N - 1 THEN 0 ELSE p + 1
<1>1. N \in Nat \ {0} /\ Procs = 0 .. N - 1
    BY ProcsAre
<1>2. \A n \in Nat \ {0} : \A k \in 0 .. n - 1 : (k + 1) % n = IF k = n - 1 THEN 0 ELSE k + 1
    OBVIOUS
<1> QED BY <1>1, <1>2

\* Each step brings it nearer to everybody but the thread that had it.
LEMMA Nearer ==
    ASSUME scheme \in DOMAIN Plan, NEW t \in Procs, NEW u \in Procs, NEW p \in Procs, t # p
    PROVE  LET s == (t + 1) % N IN
           Distance(s, u) < Distance(s, p) => t # u /\ Distance(t, u) < Distance(t, p)
<1>1. N \in Nat \ {0} /\ Procs = 0 .. N - 1
    BY ProcsAre
<1>2. PICK s : s = IF t = N - 1 THEN 0 ELSE t + 1
    OBVIOUS
<1>3. s = (t + 1) % N
    BY <1>2, NextThread
<1>4. Distance(s, u) < Distance(s, p) => t # u /\ Distance(t, u) < Distance(t, p)
    BY <1>1, <1>2 DEF Distance
<1> QED BY <1>3, <1>4

\* A step by which no thread may rotate more often.
LEMMA TokenHeldStays ==
    ASSUME Places, TokenInv,
           UNCHANGED <<scheme, linked, pool, bags, cur>>,
           \A p \in Procs : holds'[p] \subseteq holds[p] \cup linked,
           \A p \in Procs, u \in Procs :
              holds[p] # {} /\ holds'[p] # {} => TokenTurns(u, p)' <= TokenTurns(u, p)
    PROVE  TokenHeld'
<1>0. Procs' = Procs /\ PlaceTypes /\ Apart
    BY SameScheme DEF Places
<1>1. ASSUME NEW p \in Procs, NEW r \in holds'[p]
      PROVE  /\ r \notin pool
             /\ \A u \in Procs, i \in 0 .. 2 : r \in bags[u][i] => TokenTurns(u, p)' < TokenAge(u, i)
  <2>1. CASE r \in linked
      BY <1>0, <2>1 DEF Apart, BagsApart
  <2>2. CASE r \in holds[p]
    <3>1. r \notin pool
        BY <2>2 DEF TokenInv, TokenHeld
    <3>2. ASSUME NEW u \in Procs, NEW i \in 0 .. 2, r \in bags[u][i]
          PROVE  TokenTurns(u, p)' < TokenAge(u, i)
      <4>1. TokenTurns(u, p) < TokenAge(u, i) /\ TokenTurns(u, p)' <= TokenTurns(u, p)
          BY <2>2, <1>1, <3>2 DEF TokenInv, TokenHeld
      <4>2. TokenTurns(u, p) \in Int /\ TokenTurns(u, p)' \in Int /\ TokenAge(u, i) \in Int
          BY DEF TokenTurns, TokenAge
      <4> QED BY <4>1, <4>2
    <3> QED BY <3>1, <3>2
  <2> QED BY <1>1, <2>1, <2>2
<1>2. \A u \in Procs, i \in 0 .. 2 : TokenAge(u, i)' = TokenAge(u, i)
    BY DEF TokenAge
<1> QED BY <1>0, <1>1, <1>2 DEF TokenHeld

\* An operation starts, and the token may be passed on.
LEMMA TokenStart ==
    ASSUME Places, TokenInv, NEW p \in Procs, token_startOp(p)
    PROVE  TokenInv' /\ Moves
<1>0. /\ TokenTypes /\ PlaceTypes /\ pc[p] = "idle" /\ scheme \in DOMAIN Plan
      /\ UNCHANGED <<scheme, linked, holds, pool, bags, cur, me, epoch, list>>
      /\ Procs' = Procs /\ Stock' = Stock /\ N' = N
    BY SameScheme DEF TokenInv, Places, PlaceTypes, token_startOp, Token, At, mem
<1>1. PICK t \in Procs : word = [q \in Procs |-> IF q = t THEN 1 ELSE 0]
    BY DEF TokenInv, OneToken
<1>2. \A u \in Procs, q \in Procs : Reaches(u, q) <=> Distance(t, u) < Distance(t, q)
    BY <1>1 DEF Reaches
<1>3. Moves
    BY <1>0 DEF Moves, Unmoved, PlaceTypes
<1>4. holds[p] = {}
    BY <1>0 DEF TokenTypes
<1>5. \A u \in Procs, q \in Procs : Distance(u, q)' = Distance(u, q)
    BY <1>0 DEF Distance
<1>6. CASE p = t
  <2>1. PICK s \in Procs : s = (t + 1) % N
      BY <1>0, NextThread
  <2>2. /\ word' = [[word EXCEPT ![p] = 0] EXCEPT ![s] = 1]
        /\ Go(p, "rotate")
      BY <1>1, <1>6, <2>1 DEF token_startOp
  <2>3. word' = [q \in Procs |-> IF q = s THEN 1 ELSE 0]
      BY <1>1, <1>6, <2>2
  <2>4. /\ pc' \in [Procs -> TokenLabels] /\ pc'[p] = "rotate"
        /\ \A q \in Procs \ {p} : pc'[q] = pc[q]
      BY <1>0, <2>2, OneLabel DEF TokenTypes, TokenLabels
  <2>5. \A u \in Procs, q \in Procs : Reaches(u, q)' <=> Distance(s, u) < Distance(s, q)
      BY <1>0, <1>5, <2>3 DEF Reaches
  <2>6. ASSUME NEW q \in Procs, NEW u \in Procs, holds[q] # {}
        PROVE  TokenTurns(u, q)' <= TokenTurns(u, q)
    <3>1. q # t
        BY <1>4, <1>6, <2>6
    <3>2. Reaches(u, q)' => t # u /\ Reaches(u, q)
        BY <1>0, <1>2, <2>1, <2>5, <3>1, Nearer
    <3>3. u = t => Reaches(u, q)
      <4>1. N \in Nat \ {0} /\ Procs = 0 .. N - 1
          BY <1>0, ProcsAre
      <4>2. Distance(t, t) < Distance(t, q)
          BY <3>1, <4>1 DEF Distance
      <4> QED BY <1>2, <4>2
    <3> QED BY <1>0, <1>6, <2>4, <3>2, <3>3 DEF TokenTurns
  <2>7. TokenHeld'
      BY <1>0, <2>6, TokenHeldStays
  <2>8. TokenTypes' /\ OneToken'
      BY <1>0, <1>4, <2>3, <2>4 DEF TokenTypes, OneToken
  <2> QED BY <1>3, <2>7, <2>8 DEF TokenInv
<1>7. CASE p # t
  <2>1. word' = word /\ Go(p, "in")
      BY <1>1, <1>7 DEF token_startOp
  <2>2. /\ pc' \in [Procs -> TokenLabels] /\ pc'[p] = "in"
        /\ \A q \in Procs \ {p} : pc'[q] = pc[q]
      BY <1>0, <2>1, OneLabel DEF TokenTypes, TokenLabels
  <2>3. ASSUME NEW q \in Procs, NEW u \in Procs
        PROVE  TokenTurns(u, q)' <= TokenTurns(u, q)
      BY <1>0, <1>5, <2>1, <2>2 DEF TokenTurns, Reaches
  <2>4. TokenHeld'
      BY <1>0, <2>3, TokenHeldStays
  <2>5. TokenTypes' /\ OneToken'
      BY <1>0, <2>1, <2>2 DEF TokenTypes, OneToken, TokenInv
  <2> QED BY <1>3, <2>4, <2>5 DEF TokenInv
<1> QED BY <1>6, <1>7

\* The bag that is emptied was filled before the last round of the token.
LEMMA TokenRotate ==
    ASSUME Places, TokenInv, NEW p \in Procs, token_rotate(p)
    PROVE  TokenInv' /\ Moves
<1>0. /\ TokenTypes /\ TokenHeld /\ PlaceTypes /\ pc[p] = "rotate" /\ RotateBags(p, 2) /\ Go(p, "in")
      /\ UNCHANGED <<scheme, me, epoch, word, list>>
      /\ Procs' = Procs /\ Stock' = Stock /\ N' = N
    BY SameScheme DEF TokenInv, Places, token_rotate, Token, At
<1>1. /\ pc' \in [Procs -> TokenLabels] /\ pc'[p] = "in"
      /\ \A q \in Procs \ {p} : pc'[q] = pc[q]
    BY <1>0, OneLabel DEF TokenTypes, TokenLabels
<1>2. PICK i \in 0 .. 2 : i = (cur[p] + 1) % 2 /\ i # cur[p] /\ i \in 0 .. 1
    BY <1>0 DEF TokenTypes
<1>3. PICK F \in FullBlocks(bags[p][i]) :
         /\ pool' = pool \cup F /\ bags' = [bags EXCEPT ![p][i] = @ \ F]
         /\ cur' = [cur EXCEPT ![p] = i] /\ UNCHANGED <<linked, holds>>
    BY <1>0, <1>2 DEF RotateBags
<1>4. F \subseteq bags[p][i] /\ F \in SUBSET Stock
    BY <1>0, <1>3, FullBlocksIn DEF PlaceTypes
<1>5. /\ cur' \in [Procs -> 0 .. 1] /\ cur'[p] = i /\ \A q \in Procs \ {p} : cur'[q] = cur[q]
    BY <1>0, <1>2, <1>3 DEF TokenTypes
<1>6. Moves
  <2>1. Frees(p, i, F)
      BY <1>0, <1>3, <1>4 DEF Frees
  <2>2. cur' \in [Procs -> 0 .. 2]
      BY <1>5
  <2> QED BY <1>0, <1>4, <2>1, <2>2 DEF Moves
<1>7. TokenTypes' /\ OneToken'
    BY <1>0, <1>1, <1>3, <1>5 DEF TokenTypes, OneToken, TokenInv
<1>8. /\ bags' \in [Procs -> [0 .. 2 -> SUBSET Stock]]
      /\ \A q \in Procs, j \in 0 .. 2 :
            bags'[q][j] = IF q = p /\ j = i THEN bags[p][i] \ F ELSE bags[q][j]
  <2>1. PICK X : X = bags[p][i] \ F
      OBVIOUS
  <2>2. bags' = [bags EXCEPT ![p][i] = X] /\ i \in 0 .. 2
      BY <1>2, <1>3, <2>1
  <2>3. bags[p][i] \in SUBSET Stock
      BY <1>0, <2>2 DEF PlaceTypes
  <2>4. X \in SUBSET Stock
      BY <2>1, <2>3
  <2>5. /\ bags' \in [Procs -> [0 .. 2 -> SUBSET Stock]]
        /\ \A q \in Procs, j \in 0 .. 2 :
              bags'[q][j] = IF q = p /\ j = i THEN X ELSE bags[q][j]
      BY <1>0, <2>2, <2>4, BagsExcept DEF PlaceTypes
  <2> QED BY <2>1, <2>5
<1>9. ASSUME NEW q \in Procs, NEW r \in holds[q] PROVE r \notin F
  <2>1. SUFFICES ASSUME r \in bags[p][i] PROVE FALSE
      BY <1>4
  <2>2. TokenTurns(p, q) < TokenAge(p, i)
      BY <1>0, <2>1 DEF TokenHeld
  <2> QED BY <1>0, <1>2, <2>2 DEF TokenTurns, TokenAge
<1>10. ASSUME NEW q \in Procs, NEW r \in holds[q], NEW u \in Procs, NEW j \in 0 .. 2,
              r \in bags[u][j]
       PROVE  TokenTurns(u, q)' < TokenAge(u, j)'
  <2>1. TokenTurns(u, q) < TokenAge(u, j)
      BY <1>0, <1>10 DEF TokenHeld
  <2>2. Reaches(u, q)' <=> Reaches(u, q)
      BY <1>0 DEF Reaches, Distance
  <2>3. CASE u # p
      BY <1>0, <1>1, <1>5, <2>1, <2>2, <2>3 DEF TokenTurns, TokenAge
  <2>4. CASE u = p
      BY <1>0, <1>1, <1>2, <1>5, <2>1, <2>2, <2>4 DEF TokenTurns, TokenAge
  <2> QED BY <2>3, <2>4
<1>11. TokenHeld'
  <2>1. ASSUME NEW q \in Procs, NEW r \in holds[q] PROVE r \notin pool'
      BY <1>0, <1>3, <1>9, <2>1 DEF TokenHeld
  <2>2. ASSUME NEW q \in Procs, NEW r \in holds[q], NEW u \in Procs, NEW j \in 0 .. 2,
               r \in bags'[u][j]
        PROVE  TokenTurns(u, q)' < TokenAge(u, j)'
    <3>1. r \in bags[u][j]
        BY <1>8, <2>2
    <3> QED BY <1>10, <3>1
  <2> QED BY <1>0, <1>3, <2>1, <2>2 DEF TokenHeld
<1> QED BY <1>6, <1>7, <1>11 DEF TokenInv

\* A record is unlinked and retired into the bag that is emptied last.
LEMMA TokenRetire ==
    ASSUME Places, TokenInv, NEW p \in Procs, pc[p] = "in", UnlinkAndRetire(p)
    PROVE  TokenInv' /\ Moves
<1>0. /\ TokenTypes /\ TokenHeld /\ PlaceTypes /\ UNCHANGED <<scheme, pc, me, holds, epoch, word, list>>
      /\ Procs' = Procs /\ Stock' = Stock /\ N' = N
    BY SameScheme DEF TokenInv, Places, UnlinkAndRetire
<1>1. PICK r : /\ r \in linked /\ r \in Stock /\ linked' = linked \ {r}
               /\ pool' = pool /\ cur' = cur /\ bags' = [bags EXCEPT ![p][cur[p]] = @ \cup {r}]
    BY <1>0 DEF UnlinkAndRetire, Unlink, retire, PlaceTypes
<1>2. PICK i \in 0 .. 2 : i = cur[p]
    BY <1>0 DEF PlaceTypes
<1>3. Moves
  <2>1. Retires(p, i, r)
      BY <1>0, <1>1, <1>2 DEF Retires
  <2> QED BY <1>0, <1>1, <2>1 DEF Moves, PlaceTypes
<1>4. TokenTypes' /\ OneToken'
    BY <1>0, <1>1 DEF TokenTypes, OneToken, TokenInv
<1>5. \A u \in Procs, q \in Procs : TokenTurns(u, q)' = TokenTurns(u, q)
    BY <1>0 DEF TokenTurns, Reaches, Distance
<1>6. TokenHeld'
  <2>1. \A u \in Procs, j \in 0 .. 2 :
           bags'[u][j] = IF u = p /\ j = i THEN bags[p][i] \cup {r} ELSE bags[u][j]
    <3>1. PICK X \in SUBSET Stock : X = bags[p][i] \cup {r}
        BY <1>0, <1>1 DEF PlaceTypes
    <3>2. bags' = [bags EXCEPT ![p][i] = X]
        BY <1>1, <1>2, <3>1
    <3> QED BY <1>0, <3>1, <3>2, BagsExcept DEF PlaceTypes
  <2>2. ASSUME NEW q \in Procs, NEW x \in holds[q], NEW u \in Procs, NEW j \in 0 .. 2,
               x \in bags'[u][j]
        PROVE  TokenTurns(u, q) < TokenAge(u, j)
    <3>1. CASE x \in bags[u][j]
        BY <1>0, <2>2, <3>1 DEF TokenHeld
    <3>2. CASE x \notin bags[u][j]
      <4>1. u = p /\ j = cur[p]
          BY <1>2, <2>1, <2>2, <3>2
      <4> QED BY <4>1 DEF TokenTurns, TokenAge
    <3> QED BY <3>1, <3>2
  <2>3. \A u \in Procs : \A j : TokenAge(u, j)' = TokenAge(u, j)
      BY <1>1 DEF TokenAge
  <2> QED BY <1>0, <1>1, <1>5, <2>2, <2>3 DEF TokenHeld
<1> QED BY <1>3, <1>4, <1>6 DEF TokenInv

\* An operation of a thread, as the code takes its steps.
LEMMA TokenStep ==
    ASSUME Places, TokenInv, NEW p \in Procs, TokenNext(p)
    PROVE  TokenInv' /\ Moves
<1>0. TokenTypes /\ PlaceTypes
    BY DEF TokenInv, Places
<1>1. ASSUME UNCHANGED <<scheme, me, linked, pool, bags, cur, epoch, word, list>>,
             holds' \in [Procs -> SUBSET Stock], NEW l \in {"in", "idle"}, Go(p, l), pc[p] = "in",
             \A q \in Procs \ {p} : holds'[q] = holds[q],
             holds'[p] \subseteq holds[p] \cup linked, holds'[p] # {} => l = "in"
      PROVE  TokenInv' /\ Moves
  <2>0. Procs' = Procs /\ Stock' = Stock /\ N' = N
      BY <1>1, SameScheme
  <2>1. Moves
      BY <1>0, <1>1 DEF Moves, Unmoved, PlaceTypes
  <2>2. /\ pc' \in [Procs -> TokenLabels] /\ pc'[p] = l
        /\ \A q \in Procs \ {p} : pc'[q] = pc[q]
    <3>1. l \in TokenLabels
        BY <1>1 DEF TokenLabels
    <3>2. pc \in [Procs -> TokenLabels] /\ Go(p, l)
        BY <1>0, <1>1 DEF TokenTypes
    <3> QED BY <3>1, <3>2, OneLabel
  <2>3. TokenTypes' /\ OneToken'
      BY <1>0, <1>1, <2>0, <2>2 DEF TokenTypes, OneToken, TokenInv
  <2>4. \A q \in Procs, u \in Procs : TokenTurns(u, q)' <= TokenTurns(u, q)
      BY <1>1, <2>0, <2>2 DEF TokenTurns, Reaches, Distance
  <2>5. \A q \in Procs : holds'[q] \subseteq holds[q] \cup linked
      BY <1>1
  <2>6. TokenHeld'
      BY <1>1, <2>4, <2>5, TokenHeldStays
  <2> QED BY <2>1, <2>3, <2>6 DEF TokenInv
<1>2. CASE pc[p] = "in" /\ Find(p)
  <2>1. PICK r \in linked \ holds[p] : holds' = [holds EXCEPT ![p] = @ \cup {r}]
      BY <1>2 DEF Find
  <2>2. /\ holds' \in [Procs -> SUBSET Stock] /\ \A q \in Procs \ {p} : holds'[q] = holds[q]
        /\ holds'[p] \subseteq holds[p] \cup linked
      BY <1>0, <2>1 DEF TokenTypes, PlaceTypes
  <2>3. Go(p, "in") /\ UNCHANGED <<scheme, me, linked, pool, bags, cur, epoch, word, list>>
      BY <1>0, <1>2 DEF Go, Find, TokenTypes
  <2> QED BY <1>1, <1>2, <2>2, <2>3
<1>3. CASE token_endOp(p)
  <2>1. /\ pc[p] = "in" /\ holds' = [holds EXCEPT ![p] = {}] /\ Go(p, "idle")
        /\ UNCHANGED <<scheme, me, linked, pool, bags, cur, epoch, word, list>>
      BY <1>3 DEF token_endOp, Token, At
  <2>2. /\ holds' \in [Procs -> SUBSET Stock] /\ \A q \in Procs \ {p} : holds'[q] = holds[q]
        /\ holds'[p] = {}
      BY <1>0, <2>1 DEF TokenTypes
  <2> QED BY <1>1, <2>1, <2>2
<1>4. \/ token_startOp(p) \/ token_rotate(p)
      \/ pc[p] = "in" /\ Find(p)
      \/ pc[p] = "in" /\ UnlinkAndRetire(p)
      \/ token_endOp(p)
    BY DEF TokenNext, Token, At
<1> QED BY <1>2, <1>3, <1>4, TokenStart, TokenRotate, TokenRetire

\* The invariant of ebr_token holds at the beginning.
LEMMA TokenInitial == Init /\ TokenInit => Places /\ TokenInv
<1> SUFFICES ASSUME Init, TokenInit PROVE Places /\ TokenInv
    OBVIOUS
<1>0. N \in Nat \ {0} /\ 0 \in Procs
    BY ProcsAre DEF Init
<1>1. \A p \in Procs : me[p].mine = {} /\ holds[p] = {}
    BY DEF TokenInit, Init, Local
<1>2. TokenTypes /\ OneToken /\ TokenHeld
    BY <1>0, <1>1 DEF TokenTypes, TokenLabels, OneToken, TokenHeld, TokenInit, Init
<1> QED BY <1>1, <1>2, PlacesInit DEF TokenInv

-----------------------------------------------------------------------------
(***************************************************************************)
(* urcu, both ways, and reclaimer_rcu                                      *)
(***************************************************************************)
Rcu == scheme \in {"rcu", "urcu", "urcu_tsc"}

\* The private variables of a thread: times has what synchronize has copied.
RcuLocal == [read : Nat, seen : {1}, checked : {0}, since : {0}, at : Nat,
             ix : {0}, size : {0}, times : UNION {[S -> Nat] : S \in SUBSET Procs},
             obj : {NoRecord}, found : SUBSET Stock, mine : SUBSET Stock]

RcuLabels == {"idle", "lock", "in", "copy", "wait"}

RcuTypes ==
    /\ pc \in [Procs -> RcuLabels] /\ me \in [Procs -> RcuLocal]
    /\ word \in [Procs -> Nat] /\ epoch \in Nat
    /\ holds \in [Procs -> SUBSET Stock]

RcuThread(p) ==
    /\ holds[p] # {} => pc[p] = "in"
    /\ scheme = "rcu" => pc[p] \in {"idle", "in"} /\ me[p].mine = {}
    /\ scheme # "rcu" =>
          /\ word[p] % 2 = (IF pc[p] = "in" THEN 0 ELSE 1)
          /\ me[p].mine # {} => pc[p] \in {"in", "copy", "wait"}
          /\ DOMAIN me[p].times = IF pc[p] = "wait" THEN Procs
                                  ELSE IF pc[p] = "copy" /\ scheme = "urcu" THEN 0 .. me[p].at - 1
                                  ELSE {}
          /\ me[p].at <= N
    /\ scheme = "urcu_tsc" =>
          /\ me[p].read <= 2 * epoch /\ me[p].read % 2 = 0
          /\ pc[p] = "copy" => me[p].at = 0
          /\ pc[p] = "in" => word[p] <= 2 * epoch

\* What q follows and has been unlinked is waited for: reclaimer_rcu knows
\* that q must leave, and synchronize has not yet come past q.
Awaited(p, q) ==
    /\ pc[p] = "copy" /\ scheme = "urcu" /\ me[p].at > q => me[p].times[q] = word[q]
    /\ pc[p] = "wait" =>
          /\ me[p].at <= q /\ word[q] <= me[p].times[q]
          /\ scheme = "urcu" => me[p].times[q] % 2 = 0

RcuHeld ==
    \A q \in Procs : \A r \in holds[q] :
       /\ r \notin pool
       /\ scheme = "rcu" => r \in linked \/ r \in me[q].found
       /\ \A p \in Procs : r \in me[p].mine => Awaited(p, q)

RcuInv == RcuTypes /\ (\A p \in Procs : RcuThread(p)) /\ RcuHeld

\* A step of p by which at most what p has unlinked moves.
LEMMA RcuLocalStep ==
    ASSUME Places, RcuInv, Rcu, NEW p \in Procs,
           UNCHANGED <<scheme, bags, cur, epoch>>,
           me' \in [Procs -> RcuLocal], \A q \in Procs \ {p} : me'[q] = me[q],
           pc' \in [Procs -> RcuLabels], \A q \in Procs \ {p} : pc'[q] = pc[q],
           word' \in [Procs -> Nat], \A q \in Procs \ {p} : word'[q] = word[q],
           holds' \in [Procs -> SUBSET Stock], \A q \in Procs \ {p} : holds'[q] = holds[q],
           holds'[p] \subseteq holds[p] \cup linked,
           holds'[p] = {} \/ (word'[p] = word[p] /\ me'[p].found = me[p].found),
           \/ me'[p].mine = me[p].mine /\ linked' = linked /\ pool' = pool
           \/ \E r \in linked : /\ me'[p].mine = me[p].mine \cup {r} /\ linked' = linked \ {r}
                                /\ pool' = pool /\ scheme # "rcu"
           \/ /\ me'[p].mine = {} /\ pool' = pool \cup me[p].mine /\ linked' = linked
              /\ holds' = holds /\ \A q \in Procs : holds[q] \cap me[p].mine = {},
           RcuThread(p)',
           \A q \in Procs :
              holds'[q] \cap me'[p].mine # {} => Awaited(p, q)'
    PROVE  RcuInv' /\ Moves
<1>0. /\ RcuTypes /\ RcuHeld /\ PlaceTypes /\ Apart /\ (\A q \in Procs : RcuThread(q))
      /\ Procs' = Procs /\ Stock' = Stock /\ N' = N
    BY SameScheme DEF RcuInv, Places
<1>1. Moves
  <2>1. CASE me'[p].mine = me[p].mine /\ linked' = linked /\ pool' = pool
      BY <1>0, <2>1 DEF Moves, Unmoved, PlaceTypes
  <2>2. ASSUME NEW r \in linked, me'[p].mine = me[p].mine \cup {r}, linked' = linked \ {r}, pool' = pool
        PROVE  Moves
    <3>1. Unlinks(p, r) /\ r \in Stock
        BY <1>0, <2>2 DEF Unlinks, PlaceTypes
    <3> QED BY <1>0, <3>1 DEF Moves, PlaceTypes
  <2>3. CASE me'[p].mine = {} /\ pool' = pool \cup me[p].mine /\ linked' = linked
    <3>1. Releases(p)
        BY <1>0, <2>3 DEF Releases
    <3> QED BY <1>0, <3>1 DEF Moves, PlaceTypes
  <2> QED BY <2>1, <2>2, <2>3
<1>2. RcuTypes'
  <2>1. RcuLocal' = RcuLocal
      BY <1>0 DEF RcuLocal
  <2> QED BY <1>0, <2>1 DEF RcuTypes
<1>3. ASSUME NEW q \in Procs PROVE RcuThread(q)'
  <2>1. CASE q = p
      BY <2>1
  <2>2. CASE q # p
      BY <1>0, <2>2 DEF RcuThread
  <2> QED BY <2>1, <2>2
<1>4. ASSUME NEW q \in Procs, NEW r \in holds'[q]
      PROVE  /\ r \notin pool'
             /\ scheme = "rcu" => r \in linked' \/ r \in me'[q].found
             /\ \A u \in Procs : r \in me'[u].mine => Awaited(u, q)'
  <2>1. r \in holds[q] \/ (q = p /\ r \in linked)
      BY <1>4
  <2>2. r \notin pool
      BY <1>0, <2>1 DEF RcuHeld, Apart
  <2>3. r \notin pool'
      BY <1>0, <1>4, <2>1, <2>2 DEF Apart, MineApart
  <2>4. scheme = "rcu" => r \in linked' \/ r \in me'[q].found
    <3>1. CASE q = p
        BY <1>0, <1>4, <2>1, <3>1 DEF RcuHeld
    <3>2. CASE q # p
        BY <1>0, <1>4, <2>1, <3>2 DEF RcuHeld
    <3> QED BY <3>1, <3>2
  <2>5. ASSUME NEW u \in Procs, r \in me'[u].mine PROVE Awaited(u, q)'
    <3>1. CASE u = p
        BY <1>4, <2>5, <3>1
    <3>2. CASE u # p
      <4>1. r \in me[u].mine /\ me'[u] = me[u] /\ pc'[u] = pc[u]
          BY <2>5, <3>2
      <4>2. r \in holds[q]
          BY <1>0, <2>1, <4>1 DEF Apart, MineApart
      <4>3. Awaited(u, q)
          BY <1>0, <4>1, <4>2 DEF RcuHeld
      <4>4. word'[q] = word[q]
          BY <1>4
      <4> QED BY <1>0, <4>1, <4>3, <4>4 DEF Awaited
    <3> QED BY <3>1, <3>2
  <2> QED BY <2>3, <2>4, <2>5
<1>5. RcuHeld'
    BY <1>0, <1>4 DEF RcuHeld
<1> QED BY <1>1, <1>2, <1>3, <1>5, <1>0 DEF RcuInv

\* The private variables of a thread keep their types.
LEMMA RcuLocalSet ==
    ASSUME NEW R \in RcuLocal, NEW n \in Nat, NEW X \in SUBSET Stock,
           NEW T \in UNION {[S -> Nat] : S \in SUBSET Procs}
    PROVE  /\ [R EXCEPT !.read = n] \in RcuLocal
           /\ [R EXCEPT !.mine = X] \in RcuLocal
           /\ [R EXCEPT !.found = X] \in RcuLocal
           /\ [R EXCEPT !.at = n] \in RcuLocal
           /\ [R EXCEPT !.times = T] \in RcuLocal
           /\ [R EXCEPT !.times = T, !.at = n] \in RcuLocal
           /\ [R EXCEPT !.mine = X, !.at = n, !.times = T] \in RcuLocal
<1>1. \A Q \in RcuLocal : [Q EXCEPT !.read = n] \in RcuLocal
    BY DEF RcuLocal
<1>2. \A Q \in RcuLocal : [Q EXCEPT !.mine = X] \in RcuLocal
    BY DEF RcuLocal
<1>3. \A Q \in RcuLocal : [Q EXCEPT !.found = X] \in RcuLocal
    BY DEF RcuLocal
<1>4. \A Q \in RcuLocal : [Q EXCEPT !.at = n] \in RcuLocal
    BY DEF RcuLocal
<1>5. \A Q \in RcuLocal : [Q EXCEPT !.times = T] \in RcuLocal
    BY DEF RcuLocal
<1> QED BY Zenon, <1>1, <1>2, <1>3, <1>4, <1>5

\* A step of one thread of an RCU reclaimer leaves the others as they are.
LEMMA RcuSets ==
    ASSUME RcuTypes, NEW p \in Procs, NEW M \in RcuLocal, NEW l \in RcuLabels,
           me' = [me EXCEPT ![p] = M], Go(p, l)
    PROVE  /\ me' \in [Procs -> RcuLocal] /\ me'[p] = M /\ \A q \in Procs \ {p} : me'[q] = me[q]
           /\ pc' \in [Procs -> RcuLabels] /\ pc'[p] = l /\ \A q \in Procs \ {p} : pc'[q] = pc[q]
<1>1. /\ me' \in [Procs -> RcuLocal] /\ me'[p] = M
      /\ \A q \in Procs \ {p} : me'[q] = me[q]
    BY OneThread DEF RcuTypes
<1>2. /\ pc' \in [Procs -> RcuLabels] /\ pc'[p] = l
      /\ \A q \in Procs \ {p} : pc'[q] = pc[q]
    BY OneLabel DEF RcuTypes
<1> QED BY <1>1, <1>2

\* A reader enters its section.
LEMMA RcuReadLock ==
    ASSUME Places, RcuInv, Rcu, NEW p \in Procs, readLock(p)
    PROVE  RcuInv' /\ Moves
<1>0. /\ RcuTypes /\ PlaceTypes /\ RcuThread(p) /\ me[p] \in RcuLocal /\ word[p] \in Nat
      /\ epoch \in Nat /\ UNCHANGED <<scheme, linked, holds, pool, bags, cur, epoch, list>>
      /\ Procs' = Procs /\ Stock' = Stock /\ N' = N /\ N \in Nat
    BY SameScheme, ProcsAre DEF RcuInv, RcuTypes, Places, PlaceTypes, readLock, At, mem
<1>1. /\ holds[p] = {} /\ me[p].mine = {} /\ pc[p] \in {"idle", "lock"} /\ scheme \in Own
    BY <1>0 DEF RcuThread, readLock, At, Own
<1>2. ASSUME me' \in [Procs -> RcuLocal], \A q \in Procs \ {p} : me'[q] = me[q],
             pc' \in [Procs -> RcuLabels], \A q \in Procs \ {p} : pc'[q] = pc[q],
             word' \in [Procs -> Nat], \A q \in Procs \ {p} : word'[q] = word[q],
             me'[p].mine = {}, RcuThread(p)'
      PROVE  RcuInv' /\ Moves
  <2>1. /\ holds' \in [Procs -> SUBSET Stock] /\ holds'[p] = {}
        /\ \A q \in Procs : holds'[q] = holds[q] /\ ~(holds'[q] \cap me'[p].mine # {})
      BY <1>0, <1>1, <1>2 DEF RcuTypes
  <2> QED BY <1>0, <1>1, <1>2, <2>1, RcuLocalStep
<1>3. CASE pc[p] = "idle" /\ scheme = "urcu"
  <2>1. /\ word' = [word EXCEPT ![p] = word[p] + 1] /\ Go(p, "in") /\ me' = me /\ "in" \in RcuLabels
      BY <1>3 DEF readLock, At, RcuLabels
  <2>2. /\ word' \in [Procs -> Nat] /\ word'[p] = word[p] + 1
        /\ \A q \in Procs \ {p} : word'[q] = word[q]
      BY <1>0, <2>1 DEF RcuTypes
  <2>3. pc' \in [Procs -> RcuLabels] /\ pc'[p] = "in" /\ \A q \in Procs \ {p} : pc'[q] = pc[q]
      BY <1>0, <2>1, OneLabel DEF RcuTypes
  <2>4. RcuThread(p)'
      BY <1>0, <1>1, <1>3, <2>1, <2>2, <2>3 DEF RcuThread
  <2> QED BY <1>0, <1>1, <1>2, <2>1, <2>2, <2>3, <2>4 DEF RcuTypes
<1>4. CASE pc[p] = "idle" /\ scheme = "urcu_tsc"
  <2>1. PICK M : M = [me[p] EXCEPT !.read = 2 * epoch]
      OBVIOUS
  <2>2. me' = [me EXCEPT ![p] = M] /\ Go(p, "lock") /\ word' = word /\ "lock" \in RcuLabels
      BY <1>4, <2>1 DEF readLock, At, Set, RcuLabels
  <2>3. M \in RcuLocal
    <3>1. 2 * epoch \in Nat
        BY <1>0
    <3>2. me[p].mine \in SUBSET Stock /\ me[p].times \in UNION {[S -> Nat] : S \in SUBSET Procs}
        BY <1>0 DEF RcuLocal
    <3> QED BY Zenon, <1>0, <2>1, <3>1, <3>2, RcuLocalSet
  <2>4. M.read = 2 * epoch /\ M.mine = {} /\ M.at = me[p].at /\ M.times = me[p].times
      BY <1>0, <1>1, <2>1 DEF RcuLocal
  <2>5. /\ me' \in [Procs -> RcuLocal] /\ me'[p] = M /\ \A q \in Procs \ {p} : me'[q] = me[q]
        /\ pc' \in [Procs -> RcuLabels] /\ pc'[p] = "lock" /\ \A q \in Procs \ {p} : pc'[q] = pc[q]
      BY <1>0, <2>2, <2>3, RcuSets
  <2>6. RcuThread(p)'
      BY <1>0, <1>1, <1>4, <2>2, <2>4, <2>5 DEF RcuThread
  <2> QED BY <1>0, <1>2, <2>2, <2>4, <2>5, <2>6 DEF RcuTypes
<1>5. CASE pc[p] = "lock" /\ scheme = "urcu_tsc"
  <2>1. word' = [word EXCEPT ![p] = me[p].read] /\ Go(p, "in") /\ me' = me /\ "in" \in RcuLabels
      BY <1>5 DEF readLock, At, RcuLabels
  <2>2. /\ word' \in [Procs -> Nat] /\ word'[p] = me[p].read
        /\ \A q \in Procs \ {p} : word'[q] = word[q]
      BY <1>0, <2>1 DEF RcuTypes, RcuLocal
  <2>3. pc' \in [Procs -> RcuLabels] /\ pc'[p] = "in" /\ \A q \in Procs \ {p} : pc'[q] = pc[q]
      BY <1>0, <2>1, OneLabel DEF RcuTypes
  <2>4. RcuThread(p)'
      BY <1>0, <1>1, <1>5, <2>1, <2>2, <2>3 DEF RcuThread
  <2> QED BY <1>0, <1>1, <1>2, <2>1, <2>2, <2>3, <2>4 DEF RcuTypes
<1> QED BY <1>3, <1>4, <1>5 DEF readLock, At

\* A record is unlinked: its thread will wait for everybody.
LEMMA RcuUnlink ==
    ASSUME Places, RcuInv, Rcu, NEW p \in Procs, rcu_unlink(p)
    PROVE  RcuInv' /\ Moves
<1>0. /\ RcuTypes /\ PlaceTypes /\ RcuThread(p) /\ me[p] \in RcuLocal
      /\ pc[p] = "in" /\ scheme # "rcu" /\ "in" \in RcuLabels
      /\ UNCHANGED <<scheme, pc, holds, pool, bags, cur, epoch, word, list>>
      /\ Procs' = Procs /\ Stock' = Stock /\ N' = N
    BY SameScheme DEF RcuInv, RcuTypes, RcuLabels, Places, rcu_unlink, At, Own
<1>1. PICK r \in linked : /\ linked' = linked \ {r}
                          /\ me' = [me EXCEPT ![p] = [me[p] EXCEPT !.mine = @ \cup {r}]]
    BY DEF rcu_unlink, Unlink, Set
<1>2. PICK M : M = [me[p] EXCEPT !.mine = me[p].mine \cup {r}]
    OBVIOUS
<1>3. me' = [me EXCEPT ![p] = M] /\ Go(p, "in")
    BY <1>0, <1>1, <1>2 DEF Go, RcuTypes
<1>4. M \in RcuLocal
  <2>1. me[p].mine \cup {r} \in SUBSET Stock
      BY <1>0, <1>1 DEF RcuLocal, PlaceTypes
  <2>2. me[p].at \in Nat /\ me[p].times \in UNION {[S -> Nat] : S \in SUBSET Procs}
      BY <1>0 DEF RcuLocal
  <2> QED BY Zenon, <1>0, <1>2, <2>1, <2>2, RcuLocalSet
<1>5. /\ M.read = me[p].read /\ M.mine = me[p].mine \cup {r} /\ M.at = me[p].at
      /\ M.found = me[p].found /\ M.times = me[p].times
    BY <1>0, <1>2 DEF RcuLocal
<1>6. /\ me' \in [Procs -> RcuLocal] /\ me'[p] = M /\ \A q \in Procs \ {p} : me'[q] = me[q]
      /\ pc' \in [Procs -> RcuLabels] /\ pc'[p] = "in" /\ \A q \in Procs \ {p} : pc'[q] = pc[q]
    BY <1>0, <1>3, <1>4, RcuSets
<1>7. RcuThread(p)'
    BY <1>0, <1>5, <1>6 DEF RcuThread
<1>8. \A q \in Procs : Awaited(p, q)'
    BY <1>6 DEF Awaited
<1>9. \A q \in Procs : holds'[q] = holds[q] /\ holds' \in [Procs -> SUBSET Stock] /\ word' \in [Procs -> Nat]
    BY <1>0 DEF RcuTypes
<1> QED BY <1>0, <1>1, <1>5, <1>6, <1>7, <1>8, <1>9, RcuLocalStep

\* The section ends, and the wait begins if something was unlinked.
LEMMA RcuReadUnlock ==
    ASSUME Places, RcuInv, Rcu, NEW p \in Procs, readUnlock(p)
    PROVE  RcuInv' /\ Moves
<1>0. /\ RcuTypes /\ PlaceTypes /\ RcuThread(p) /\ me[p] \in RcuLocal /\ word[p] \in Nat
      /\ epoch \in Nat /\ pc[p] = "in" /\ scheme # "rcu"
      /\ UNCHANGED <<scheme, linked, pool, bags, cur, epoch, list>>
      /\ Procs' = Procs /\ Stock' = Stock /\ N' = N /\ N \in Nat
    BY SameScheme, ProcsAre DEF RcuInv, RcuTypes, Places, PlaceTypes, readUnlock, At, Own
<1>1. /\ word' = [word EXCEPT ![p] = word[p] + 1] /\ holds' = [holds EXCEPT ![p] = {}]
  <2>1. GET_WITH_QUIESCENT(word[p]) = word[p] + 1
      BY <1>0 DEF RcuThread, GET_WITH_QUIESCENT, BITS_EPOCH
  <2> QED BY <2>1 DEF readUnlock
<1>2. /\ word' \in [Procs -> Nat] /\ (\A q \in Procs \ {p} : word'[q] = word[q])
      /\ word'[p] = word[p] + 1 /\ word'[p] % 2 = 1
      /\ holds' \in [Procs -> SUBSET Stock] /\ (\A q \in Procs \ {p} : holds'[q] = holds[q])
      /\ holds'[p] = {}
    BY <1>0, <1>1 DEF RcuTypes, RcuThread
<1>3. PICK l \in RcuLabels, M \in RcuLocal :
         /\ me' = [me EXCEPT ![p] = M] /\ Go(p, l)
         /\ M.read = me[p].read /\ M.mine = me[p].mine /\ M.times = me[p].times
         /\ \/ l = "idle" /\ M.mine = {} /\ M.at = me[p].at
            \/ l = "copy" /\ M.at = 0
  <2>1. CASE me[p].mine = {}
    <3>1. Go(p, "idle") /\ me' = [me EXCEPT ![p] = me[p]] /\ "idle" \in RcuLabels
        BY <1>0, <2>1 DEF readUnlock, RcuTypes, RcuLabels
    <3> QED BY <1>0, <2>1, <3>1
  <2>2. CASE me[p].mine # {}
    <3>1. PICK M : M = [me[p] EXCEPT !.at = 0]
        OBVIOUS
    <3>2. Go(p, "copy") /\ me' = [me EXCEPT ![p] = M] /\ "copy" \in RcuLabels
        BY <2>2, <3>1 DEF readUnlock, Set, RcuLabels
    <3>3. M \in RcuLocal
      <4>1. 0 \in Nat /\ me[p].mine \in SUBSET Stock
            /\ me[p].times \in UNION {[S -> Nat] : S \in SUBSET Procs}
          BY <1>0 DEF RcuLocal
      <4> QED BY Zenon, <1>0, <3>1, <4>1, RcuLocalSet
    <3>4. M.read = me[p].read /\ M.mine = me[p].mine /\ M.at = 0 /\ M.times = me[p].times
        BY <1>0, <3>1 DEF RcuLocal
    <3> QED BY <3>2, <3>3, <3>4
  <2> QED BY <2>1, <2>2
<1>4. /\ me' \in [Procs -> RcuLocal] /\ me'[p] = M /\ \A q \in Procs \ {p} : me'[q] = me[q]
      /\ pc' \in [Procs -> RcuLabels] /\ pc'[p] = l /\ \A q \in Procs \ {p} : pc'[q] = pc[q]
    BY <1>0, <1>3, RcuSets
<1>5. RcuThread(p)'
  <2>1. 0 .. 0 - 1 = {} /\ DOMAIN me[p].times = {} /\ me[p].read \in Nat
      BY <1>0 DEF RcuThread, RcuLocal
  <2>2. DOMAIN me'[p].times = IF pc'[p] = "copy" /\ scheme = "urcu" THEN 0 .. me'[p].at - 1 ELSE {}
      BY <1>3, <1>4, <2>1
  <2>3. /\ me'[p].at <= N /\ (me'[p].mine # {} => pc'[p] = "copy") /\ pc'[p] \in {"idle", "copy"}
        /\ me'[p].read = me[p].read /\ (pc'[p] = "copy" => me'[p].at = 0)
      BY <1>0, <1>3, <1>4 DEF RcuThread
  <2> QED BY <1>0, <1>2, <2>2, <2>3 DEF RcuThread
<1>6. ASSUME NEW q \in Procs, holds'[q] \cap me'[p].mine # {} PROVE Awaited(p, q)'
  <2>1. me'[p].at = 0 /\ pc'[p] = "copy"
      BY <1>3, <1>4, <1>6
  <2>2. ~(0 > q)
      BY ProcsAre DEF Places, PlaceTypes
  <2> QED BY <2>1, <2>2 DEF Awaited
<1>7. me'[p].mine = me[p].mine /\ holds'[p] \subseteq holds[p] \cup linked
    BY <1>2, <1>3, <1>4
<1> QED BY <1>0, <1>2, <1>4, <1>5, <1>6, <1>7, RcuLocalStep

\* synchronize copies the counters.
LEMMA RcuCopy ==
    ASSUME Places, RcuInv, Rcu, NEW p \in Procs, copy(p)
    PROVE  RcuInv' /\ Moves
<1>0. /\ RcuTypes /\ RcuHeld /\ PlaceTypes /\ RcuThread(p) /\ me[p] \in RcuLocal
      /\ (\A q \in Procs : RcuThread(q))
      /\ epoch \in Nat /\ pc[p] = "copy" /\ scheme \in Own
      /\ UNCHANGED <<scheme, linked, pool, bags, cur, epoch, list, word, holds>>
      /\ Procs' = Procs /\ Stock' = Stock /\ N' = N /\ N \in Nat \ {0} /\ Procs = 0 .. N - 1
    BY SameScheme, ProcsAre DEF RcuInv, RcuTypes, Places, PlaceTypes, copy, At, Own, mem
<1>1. me[p].at \in Nat /\ me[p].at <= N /\ me[p].mine \in SUBSET Stock /\ holds[p] = {}
      /\ me[p].times \in UNION {[S -> Nat] : S \in SUBSET Procs}
    BY <1>0 DEF RcuLocal, RcuThread, Own
<1>2. ASSUME NEW q \in Procs, holds[q] \cap me[p].mine # {}
      PROVE  /\ word[q] % 2 = 0 /\ (scheme = "urcu_tsc" => word[q] <= 2 * epoch)
             /\ scheme = "urcu" /\ me[p].at > q => me[p].times[q] = word[q]
             /\ word[q] \in Nat
  <2>1. pc[q] = "in" /\ Awaited(p, q) /\ word[q] \in Nat
      BY <1>0, <1>2 DEF RcuHeld, RcuThread, RcuTypes
  <2> QED BY <1>0, <2>1 DEF Awaited, RcuThread, Own
<1>3. ASSUME NEW l \in RcuLabels, NEW M \in RcuLocal, me' = [me EXCEPT ![p] = M], Go(p, l),
             M.mine = me[p].mine, M.read = me[p].read, M.at \in 0 .. N, M.found = me[p].found,
             \/ /\ l = "wait" /\ M.at = 0 /\ DOMAIN M.times = Procs
                /\ \A q \in Procs : holds[q] \cap me[p].mine # {} =>
                      word[q] <= M.times[q] /\ (scheme = "urcu" => M.times[q] % 2 = 0)
             \/ /\ l = "copy" /\ scheme = "urcu" /\ DOMAIN M.times = 0 .. M.at - 1
                /\ \A q \in Procs : holds[q] \cap me[p].mine # {} /\ M.at > q => M.times[q] = word[q]
      PROVE  RcuInv' /\ Moves
  <2>1. /\ me' \in [Procs -> RcuLocal] /\ me'[p] = M /\ \A q \in Procs \ {p} : me'[q] = me[q]
        /\ pc' \in [Procs -> RcuLabels] /\ pc'[p] = l /\ \A q \in Procs \ {p} : pc'[q] = pc[q]
      BY <1>0, <1>3, RcuSets
  <2>2. RcuThread(p)'
      BY <1>0, <1>1, <1>3, <2>1 DEF RcuThread, Own
  <2>3. ASSUME NEW q \in Procs, holds'[q] \cap me'[p].mine # {} PROVE Awaited(p, q)'
      BY <1>0, <1>3, <2>1, <2>3 DEF Awaited
  <2>4. word' \in [Procs -> Nat] /\ holds' \in [Procs -> SUBSET Stock] /\ holds'[p] = {}
      BY <1>0, <1>1 DEF RcuTypes
  <2>5. (\A q \in Procs \ {p} : word'[q] = word[q]) /\ \A q \in Procs \ {p} : holds'[q] = holds[q]
      BY <1>0
  <2> QED BY <1>0, <1>3, <2>1, <2>2, <2>3, <2>4, <2>5, RcuLocalStep
<1>4. CASE scheme = "urcu" /\ me[p].at = N
  <2>1. PICK M : M = [me[p] EXCEPT !.at = 0]
      OBVIOUS
  <2>2. me' = [me EXCEPT ![p] = M] /\ Go(p, "wait") /\ "wait" \in RcuLabels
      BY <1>4, <2>1 DEF copy, At, Set, RcuLabels
  <2>3. M \in RcuLocal
    <3>1. /\ 0 \in Nat /\ me[p].mine \in SUBSET Stock /\ me[p] \in RcuLocal
          /\ me[p].times \in UNION {[S -> Nat] : S \in SUBSET Procs}
        BY <1>0, <1>1
    <3> QED BY Zenon, <2>1, <3>1, RcuLocalSet
  <2>4. /\ M.read = me[p].read /\ M.mine = me[p].mine /\ M.at = 0 /\ M.times = me[p].times
        /\ M.found = me[p].found
      BY <1>0, <2>1 DEF RcuLocal
  <2>5. DOMAIN M.times = Procs
      BY <1>0, <1>4, <2>4 DEF RcuThread
  <2>6. \A q \in Procs : holds[q] \cap me[p].mine # {} =>
           word[q] <= M.times[q] /\ (scheme = "urcu" => M.times[q] % 2 = 0)
      BY <1>0, <1>2, <1>4, <2>4
  <2>7. M.at \in 0 .. N
      BY <1>0, <2>4
  <2> QED BY <1>3, <2>2, <2>3, <2>4, <2>5, <2>6, <2>7
<1>5. CASE scheme = "urcu" /\ me[p].at # N
  <2>1. PICK m \in Nat : m = me[p].at /\ m < N /\ m \in Procs
      BY <1>0, <1>1, <1>5
  <2>2. me[p].times \in [0 .. m - 1 -> Nat]
    <3>1. DOMAIN me[p].times = 0 .. m - 1
        BY <1>0, <1>5, <2>1 DEF RcuThread
    <3> QED BY <1>1, <3>1
  <2>3. PICK T : T = OneMore(p)
      OBVIOUS
  <2>4. /\ T \in [0 .. m -> Nat] /\ T[m] = word[m] /\ \A k \in 0 .. m - 1 : T[k] = me[p].times[k]
    <3>1. T = [q \in 0 .. m |-> IF q < m THEN me[p].times[q] ELSE word[q]]
        BY <2>1, <2>3 DEF OneMore
    <3>2. \A q \in 0 .. m : word[q] \in Nat
        BY <1>0, <2>1 DEF RcuTypes
    <3>3. \A q \in 0 .. m : q < m => q \in 0 .. m - 1 /\ me[p].times[q] \in Nat
        BY <2>1, <2>2
    <3>4. T \in [0 .. m -> Nat]
        BY <3>1, <3>2, <3>3
    <3>5. m \in 0 .. m /\ \A k \in 0 .. m - 1 : k \in 0 .. m /\ k < m
        BY <2>1
    <3> QED BY <2>1, <3>1, <3>4, <3>5
  <2>5. PICK M : M = [me[p] EXCEPT !.times = T, !.at = m + 1]
      OBVIOUS
  <2>6. me' = [me EXCEPT ![p] = M] /\ pc' = pc
      BY <1>5, <2>1, <2>3, <2>5 DEF copy, At, Set
  <2>7. Go(p, "copy") /\ "copy" \in RcuLabels
      BY <1>0, <2>6 DEF Go, RcuLabels, RcuTypes
  <2>8. M \in RcuLocal
    <3>1. m + 1 \in Nat /\ 0 .. m \in SUBSET Procs
        BY <1>0, <2>1
    <3>2. T \in UNION {[S -> Nat] : S \in SUBSET Procs}
        BY <2>4, <3>1
    <3> QED BY Zenon, <1>0, <1>1, <2>5, <3>1, <3>2, RcuLocalSet
  <2>9. /\ M.read = me[p].read /\ M.mine = me[p].mine /\ M.at = m + 1 /\ M.times = T
        /\ M.found = me[p].found
      BY <1>0, <2>5 DEF RcuLocal
  <2>10. M.at \in 0 .. N /\ DOMAIN M.times = 0 .. M.at - 1
    <3>1. DOMAIN T = 0 .. m /\ (m + 1) - 1 = m /\ m + 1 \in 0 .. N
        BY <1>0, <2>1, <2>4
    <3> QED BY <2>9, <3>1
  <2>11. ASSUME NEW q \in Procs, holds[q] \cap me[p].mine # {}, M.at > q PROVE M.times[q] = word[q]
    <3>1. CASE q = m
        BY <2>4, <2>9, <3>1
    <3>2. CASE q # m
      <4>1. q \in 0 .. m - 1 /\ m > q
          BY <1>0, <2>1, <2>9, <2>11, <3>2
      <4> QED BY <1>2, <1>5, <2>1, <2>4, <2>9, <2>11, <4>1
    <3> QED BY <3>1, <3>2
  <2> QED BY <1>3, <1>5, <2>6, <2>7, <2>8, <2>9, <2>10, <2>11
<1>6. CASE scheme = "urcu_tsc"
  <2>1. PICK T : T = [q \in Procs |-> 2 * epoch]
      OBVIOUS
  <2>2. PICK M : M = [me[p] EXCEPT !.times = T]
      OBVIOUS
  <2>3. me' = [me EXCEPT ![p] = M] /\ Go(p, "wait") /\ "wait" \in RcuLabels
      BY <1>6, <2>1, <2>2 DEF copy, At, Set, RcuLabels
  <2>4. M \in RcuLocal
    <3>1. 2 * epoch \in Nat
        BY <1>0
    <3>2. T \in UNION {[S -> Nat] : S \in SUBSET Procs}
        BY <2>1, <3>1
    <3> QED BY Zenon, <1>0, <1>1, <2>2, <3>2, RcuLocalSet
  <2>5. /\ M.read = me[p].read /\ M.mine = me[p].mine /\ M.at = me[p].at /\ M.times = T
        /\ M.found = me[p].found
      BY <1>0, <2>2 DEF RcuLocal
  <2>6. M.at = 0 /\ DOMAIN M.times = Procs /\ M.at \in 0 .. N
      BY <1>0, <1>6, <2>1, <2>5 DEF RcuThread
  <2>7. \A q \in Procs : M.times[q] = 2 * epoch
      BY <2>1, <2>5
  <2> QED BY <1>2, <1>3, <1>6, <2>3, <2>4, <2>5, <2>6, <2>7
<1> QED BY <1>0, <1>4, <1>5, <1>6 DEF Own

\* A thread that follows what was unlinked is not come past.
LEMMA RcuWait ==
    ASSUME Places, RcuInv, Rcu, NEW p \in Procs, wait(p) \/ synchronized(p)
    PROVE  RcuInv' /\ Moves
<1>0. /\ RcuTypes /\ RcuHeld /\ PlaceTypes /\ RcuThread(p) /\ me[p] \in RcuLocal
      /\ (\A q \in Procs : RcuThread(q))
      /\ pc[p] = "wait" /\ scheme \in Own
      /\ UNCHANGED <<scheme, linked, bags, cur, epoch, list, word, holds>>
      /\ Procs' = Procs /\ Stock' = Stock /\ N' = N /\ N \in Nat \ {0} /\ Procs = 0 .. N - 1
    BY SameScheme, ProcsAre
         DEF RcuInv, RcuTypes, Places, PlaceTypes, wait, synchronized, At, Own, mem
<1>1. me[p].at \in Nat /\ me[p].at <= N /\ me[p].mine \in SUBSET Stock /\ holds[p] = {}
      /\ me[p].times \in UNION {[S -> Nat] : S \in SUBSET Procs}
    BY <1>0 DEF RcuLocal, RcuThread, Own
<1>2. ASSUME NEW q \in Procs, holds[q] \cap me[p].mine # {}
      PROVE  me[p].at <= q /\ Awaited(p, q) /\ ~Left(p, q)
  <2>1. pc[q] = "in" /\ Awaited(p, q) /\ word[q] \in Nat
      BY <1>0, <1>2 DEF RcuHeld, RcuThread, RcuTypes
  <2>2. word[q] % 2 = 0
      BY <1>0, <2>1 DEF RcuThread, Own
  <2>3. me[p].times[q] \in Nat
      BY <1>0, <1>1 DEF RcuThread, Own
  <2> QED BY <1>0, <2>1, <2>2, <2>3 DEF Awaited, Left, QUIESCENT
<1>3. word' \in [Procs -> Nat] /\ holds' \in [Procs -> SUBSET Stock] /\ holds'[p] = {}
      /\ (\A q \in Procs : word'[q] = word[q]) /\ \A q \in Procs : holds'[q] = holds[q]
    BY <1>0, <1>1 DEF RcuTypes
<1>4. CASE wait(p)
  <2>1. PICK M : M = [me[p] EXCEPT !.at = me[p].at + 1]
      OBVIOUS
  <2>2. me' = [me EXCEPT ![p] = M] /\ Go(p, "wait") /\ "wait" \in RcuLabels /\ pool' = pool
        /\ me[p].at < N /\ Left(p, me[p].at)
      BY <1>0, <1>4, <2>1 DEF wait, Set, RcuLabels, Go, RcuTypes, mem
  <2>3. M \in RcuLocal
    <3>1. /\ me[p].at + 1 \in Nat /\ me[p].mine \in SUBSET Stock /\ me[p] \in RcuLocal
          /\ me[p].times \in UNION {[S -> Nat] : S \in SUBSET Procs}
        BY <1>0, <1>1
    <3> QED BY Zenon, <2>1, <3>1, RcuLocalSet
  <2>4. /\ M.read = me[p].read /\ M.mine = me[p].mine /\ M.at = me[p].at + 1
        /\ M.times = me[p].times /\ M.found = me[p].found
      BY <1>0, <2>1 DEF RcuLocal
  <2>5. /\ me' \in [Procs -> RcuLocal] /\ me'[p] = M /\ \A q \in Procs \ {p} : me'[q] = me[q]
        /\ pc' \in [Procs -> RcuLabels] /\ pc'[p] = "wait" /\ \A q \in Procs \ {p} : pc'[q] = pc[q]
      BY <1>0, <2>2, <2>3, RcuSets
  <2>6. RcuThread(p)'
      BY <1>0, <1>1, <2>2, <2>4, <2>5 DEF RcuThread, Own
  <2>7. ASSUME NEW q \in Procs, holds'[q] \cap me'[p].mine # {} PROVE Awaited(p, q)'
    <3>1. me[p].at <= q /\ Awaited(p, q) /\ q # me[p].at
        BY <1>2, <1>3, <2>2, <2>4, <2>5, <2>7
    <3>2. me[p].at + 1 <= q
        BY <1>0, <1>1, <3>1
    <3> QED BY <1>0, <2>4, <2>5, <3>1, <3>2 DEF Awaited
  <2> QED BY <1>0, <1>3, <2>2, <2>4, <2>5, <2>6, <2>7, RcuLocalStep
<1>5. CASE synchronized(p)
  <2>1. PICK T : T = << >> /\ T \in UNION {[S -> Nat] : S \in SUBSET Procs} /\ DOMAIN T = {}
    <3>1. << >> \in [{} -> Nat] /\ DOMAIN << >> = {}
        OBVIOUS
    <3>2. {} \in SUBSET Procs
        OBVIOUS
    <3> QED BY <3>1, <3>2
  <2>2. PICK M : M = [me[p] EXCEPT !.mine = {}, !.at = 0, !.times = T]
      OBVIOUS
  <2>3. me' = [me EXCEPT ![p] = M] /\ Go(p, "idle") /\ "idle" \in RcuLabels
        /\ pool' = pool \cup me[p].mine /\ me[p].at = N
      BY <1>5, <2>1, <2>2 DEF synchronized, Set, RcuLabels
  <2>4. M \in RcuLocal
    <3>1. 0 \in Nat /\ {} \in SUBSET Stock
        OBVIOUS
    <3> QED BY Zenon, <1>0, <2>1, <2>2, <3>1, RcuLocalSet
  <2>5. M.read = me[p].read /\ M.mine = {} /\ M.at = 0 /\ M.times = T /\ M.found = me[p].found
      BY <1>0, <2>2 DEF RcuLocal
  <2>6. /\ me' \in [Procs -> RcuLocal] /\ me'[p] = M /\ \A q \in Procs \ {p} : me'[q] = me[q]
        /\ pc' \in [Procs -> RcuLabels] /\ pc'[p] = "idle" /\ \A q \in Procs \ {p} : pc'[q] = pc[q]
      BY <1>0, <2>3, <2>4, RcuSets
  <2>7. RcuThread(p)'
      BY <1>0, <1>1, <2>1, <2>5, <2>6 DEF RcuThread, Own
  <2>8. \A q \in Procs : holds[q] \cap me[p].mine = {}
      BY <1>0, <1>2, <2>3
  <2>9. \A q \in Procs : ~(holds'[q] \cap me'[p].mine # {})
      BY <2>5, <2>6
  <2>10. holds' = holds /\ me'[p].mine = {}
      BY <1>0, <2>5, <2>6
  <2> QED BY <1>0, <1>3, <2>3, <2>6, <2>7, <2>8, <2>9, <2>10, RcuLocalStep
<1> QED BY <1>4, <1>5

\* A record is found, or an operation of reclaimer_rcu starts or ends.
LEMMA RcuInside ==
    ASSUME Places, RcuInv, Rcu, NEW p \in Procs,
           \/ pc[p] = "in" /\ Find(p)
           \/ rcu_startOp(p) \/ rcu_endOp(p)
    PROVE  RcuInv' /\ Moves
<1>0. /\ RcuTypes /\ PlaceTypes /\ RcuThread(p) /\ me[p] \in RcuLocal
      /\ UNCHANGED <<scheme, linked, pool, bags, cur, epoch, list, word>>
      /\ Procs' = Procs /\ Stock' = Stock /\ N' = N
    BY SameScheme DEF RcuInv, RcuTypes, Places, Find, rcu_startOp, rcu_endOp, mem
<1>1. word' \in [Procs -> Nat] /\ (\A q \in Procs : word'[q] = word[q])
    BY <1>0 DEF RcuTypes
<1>2. CASE pc[p] = "in" /\ Find(p)
  <2>1. PICK r \in linked \ holds[p] : holds' = [holds EXCEPT ![p] = @ \cup {r}]
      BY <1>2 DEF Find
  <2>2. /\ holds' \in [Procs -> SUBSET Stock] /\ \A q \in Procs \ {p} : holds'[q] = holds[q]
        /\ holds'[p] \subseteq holds[p] \cup linked
      BY <1>0, <2>1 DEF RcuTypes, PlaceTypes
  <2>3. me' = me /\ pc' = pc
      BY <1>2 DEF Find
  <2>4. /\ me' \in [Procs -> RcuLocal] /\ me'[p] = me[p] /\ \A q \in Procs \ {p} : me'[q] = me[q]
        /\ pc' \in [Procs -> RcuLabels] /\ pc'[p] = "in" /\ \A q \in Procs \ {p} : pc'[q] = pc[q]
      BY <1>0, <1>2, <2>3 DEF RcuTypes
  <2>5. RcuThread(p)'
      BY <1>0, <1>1, <1>2, <2>4 DEF RcuThread
  <2>6. \A q \in Procs : Awaited(p, q)'
      BY <2>4 DEF Awaited
  <2>7. me'[p].mine = me[p].mine /\ me'[p].found = me[p].found
      BY <2>4
  <2> QED BY <1>0, <1>1, <2>2, <2>4, <2>5, <2>6, <2>7, RcuLocalStep
<1>3. CASE rcu_startOp(p)
  <2>1. pc[p] = "idle" /\ scheme = "rcu" /\ Go(p, "in") /\ me' = me /\ holds' = holds /\ "in" \in RcuLabels
      BY <1>3 DEF rcu_startOp, At, mem, RcuLabels
  <2>2. /\ me' \in [Procs -> RcuLocal] /\ me'[p] = me[p] /\ \A q \in Procs \ {p} : me'[q] = me[q]
        /\ pc' \in [Procs -> RcuLabels] /\ pc'[p] = "in" /\ \A q \in Procs \ {p} : pc'[q] = pc[q]
      BY <1>0, <2>1, OneLabel DEF RcuTypes
  <2>3. RcuThread(p)'
      BY <1>0, <1>1, <2>1, <2>2 DEF RcuThread
  <2>4. \A q \in Procs : Awaited(p, q)'
      BY <2>2 DEF Awaited
  <2>5. holds' \in [Procs -> SUBSET Stock] /\ holds'[p] = {} /\ \A q \in Procs : holds'[q] = holds[q]
      BY <1>0, <2>1 DEF RcuTypes, RcuThread
  <2>6. me'[p].mine = me[p].mine /\ holds'[p] \subseteq holds[p] \cup linked
      BY <2>2, <2>5
  <2> QED BY <1>0, <1>1, <2>2, <2>3, <2>4, <2>5, <2>6, RcuLocalStep
<1>4. CASE rcu_endOp(p)
  <2>1. PICK M : M = [me[p] EXCEPT !.found = {}]
      OBVIOUS
  <2>2. /\ pc[p] = "in" /\ scheme = "rcu" /\ Go(p, "idle") /\ "idle" \in RcuLabels
        /\ me' = [me EXCEPT ![p] = M] /\ holds' = [holds EXCEPT ![p] = {}]
      BY <1>4, <2>1 DEF rcu_endOp, At, Set, RcuLabels
  <2>3. M \in RcuLocal
    <3>1. me[p].at \in Nat /\ {} \in SUBSET Stock
          /\ me[p].times \in UNION {[S -> Nat] : S \in SUBSET Procs}
        BY <1>0 DEF RcuLocal
    <3> QED BY Zenon, <1>0, <2>1, <3>1, RcuLocalSet
  <2>4. M.mine = me[p].mine
      BY <1>0, <2>1 DEF RcuLocal
  <2>5. /\ me' \in [Procs -> RcuLocal] /\ me'[p] = M /\ \A q \in Procs \ {p} : me'[q] = me[q]
        /\ pc' \in [Procs -> RcuLabels] /\ pc'[p] = "idle" /\ \A q \in Procs \ {p} : pc'[q] = pc[q]
      BY <1>0, <2>2, <2>3, RcuSets
  <2>6. holds' \in [Procs -> SUBSET Stock] /\ holds'[p] = {} /\ \A q \in Procs \ {p} : holds'[q] = holds[q]
      BY <1>0, <2>2 DEF RcuTypes
  <2>7. RcuThread(p)'
      BY <1>0, <2>2, <2>4, <2>5, <2>6 DEF RcuThread
  <2>8. \A q \in Procs : Awaited(p, q)'
      BY <2>5 DEF Awaited
  <2>9. me'[p].mine = me[p].mine /\ holds'[p] \subseteq holds[p] \cup linked
      BY <2>4, <2>5, <2>6
  <2> QED BY <1>0, <1>1, <2>5, <2>6, <2>7, <2>8, <2>9, RcuLocalStep
<1> QED BY <1>2, <1>3, <1>4

\* reclaimer_rcu retires a record: everybody in a section must leave first.
LEMMA RcuRetire ==
    ASSUME Places, RcuInv, Rcu, NEW p \in Procs, rcu_retire(p)
    PROVE  RcuInv' /\ Moves
<1>0. /\ RcuTypes /\ RcuHeld /\ PlaceTypes /\ Apart /\ (\A q \in Procs : RcuThread(q))
      /\ scheme = "rcu" /\ UNCHANGED <<scheme, pc, holds, epoch, word, list>>
      /\ Procs' = Procs /\ Stock' = Stock /\ N' = N
    BY SameScheme DEF RcuInv, Places, rcu_retire, At
<1>1. PICK r : /\ r \in linked /\ r \in Stock /\ linked' = linked \ {r}
               /\ pool' = pool /\ cur' = cur /\ bags' = [bags EXCEPT ![p][cur[p]] = @ \cup {r}]
               /\ me' = [q \in Procs |-> IF pc[q] = "in"
                                           THEN [me[q] EXCEPT !.found = @ \cup {r}] ELSE me[q]]
    BY <1>0 DEF rcu_retire, Unlink, retire, PlaceTypes
<1>2. PICK i \in 0 .. 2 : i = cur[p]
    BY <1>0 DEF PlaceTypes
<1>3. ASSUME NEW q \in Procs
      PROVE  /\ me'[q] \in RcuLocal /\ me'[q].mine = me[q].mine /\ me'[q].times = me[q].times
             /\ me'[q].at = me[q].at /\ me'[q].read = me[q].read
             /\ me'[q].found = IF pc[q] = "in" THEN me[q].found \cup {r} ELSE me[q].found
  <2>1. me[q] \in RcuLocal
      BY <1>0 DEF RcuTypes
  <2>2. PICK X : X = me[q].found \cup {r}
      OBVIOUS
  <2>3. PICK M : M = [me[q] EXCEPT !.found = X]
      OBVIOUS
  <2>4. /\ M.mine = me[q].mine /\ M.times = me[q].times /\ M.at = me[q].at
        /\ M.read = me[q].read /\ M.found = X
      BY <2>1, <2>3 DEF RcuLocal
  <2>5. M \in RcuLocal
    <3>1. /\ me[q].at \in Nat /\ X \in SUBSET Stock
          /\ me[q].times \in UNION {[S -> Nat] : S \in SUBSET Procs}
        BY <1>1, <2>1, <2>2 DEF RcuLocal
    <3> QED BY Zenon, <2>1, <2>3, <3>1, RcuLocalSet
  <2>6. me'[q] = IF pc[q] = "in" THEN M ELSE me[q]
      BY <1>1, <2>2, <2>3
  <2> QED BY <2>1, <2>2, <2>4, <2>5, <2>6
<1>4. Moves
  <2>1. Retires(p, i, r)
      BY <1>1, <1>2, <1>3 DEF Retires
  <2> QED BY <1>0, <1>1, <2>1 DEF Moves, PlaceTypes
<1>5. RcuTypes'
  <2>1. RcuLocal' = RcuLocal
      BY <1>0 DEF RcuLocal
  <2>2. me' \in [Procs -> RcuLocal]
      BY <1>1, <1>3
  <2> QED BY <1>0, <2>1, <2>2 DEF RcuTypes
<1>6. ASSUME NEW q \in Procs PROVE RcuThread(q)'
    BY <1>0, <1>3 DEF RcuThread
<1>7. ASSUME NEW q \in Procs, NEW x \in holds[q]
      PROVE  /\ x \notin pool' /\ (x \in linked' \/ x \in me'[q].found)
             /\ \A u \in Procs : x \in me'[u].mine => Awaited(u, q)'
  <2>1. x \notin pool' /\ (x \in linked \/ x \in me[q].found) /\ pc[q] = "in"
      BY <1>0, <1>1, <1>7 DEF RcuHeld, RcuThread
  <2>2. x \in linked' \/ x \in me'[q].found
      BY <1>1, <1>3, <2>1
  <2>3. \A u \in Procs : me'[u].mine = {}
      BY <1>0, <1>3 DEF RcuThread
  <2> QED BY <2>1, <2>2, <2>3
<1>8. RcuHeld'
    BY <1>0, <1>7 DEF RcuHeld
<1> QED BY <1>0, <1>4, <1>5, <1>6, <1>8 DEF RcuInv

\* The callback gives the record to the pool when they have left.
LEMMA RcuCallback ==
    ASSUME Places, RcuInv, Rcu, NEW p \in Procs, rcuCallback(p)
    PROVE  RcuInv' /\ Moves
<1>0. /\ RcuTypes /\ RcuHeld /\ PlaceTypes /\ Apart /\ (\A q \in Procs : RcuThread(q))
      /\ scheme = "rcu" /\ UNCHANGED <<scheme, pc, me, linked, holds, cur, epoch, word, list>>
      /\ Procs' = Procs /\ Stock' = Stock /\ N' = N
    BY SameScheme DEF RcuInv, Places, rcuCallback
<1>1. PICK r \in bags[p][0] : /\ \A q \in Procs : r \notin me[q].found
                              /\ pool' = pool \cup {r} /\ bags' = [bags EXCEPT ![p][0] = @ \ {r}]
    BY DEF rcuCallback
<1>2. r \in Stock /\ 0 \in 0 .. 2 /\ {r} \subseteq bags[p][0] /\ {r} \in SUBSET Stock
    BY <1>0, <1>1 DEF PlaceTypes
<1>3. Moves
  <2>1. Frees(p, 0, {r})
      BY <1>0, <1>1, <1>2 DEF Frees
  <2> QED BY <1>0, <1>2, <2>1 DEF Moves, PlaceTypes
<1>4. RcuTypes'
  <2>1. RcuLocal' = RcuLocal
      BY <1>0 DEF RcuLocal
  <2> QED BY <1>0, <2>1 DEF RcuTypes
<1>5. ASSUME NEW q \in Procs PROVE RcuThread(q)'
    BY <1>0 DEF RcuThread
<1>6. \A q \in Procs : r \notin holds[q]
    BY <1>0, <1>1, <1>2 DEF RcuHeld, Apart, BagsApart
<1>7. \A q \in Procs, u \in Procs : Awaited(u, q)' <=> Awaited(u, q)
    BY <1>0 DEF Awaited
<1>8. RcuHeld'
    BY <1>0, <1>1, <1>6, <1>7 DEF RcuHeld
<1> QED BY <1>0, <1>3, <1>4, <1>5, <1>8 DEF RcuInv

\* The clock runs on.
LEMMA RcuTick ==
    ASSUME Places, RcuInv, Rcu, Tick
    PROVE  RcuInv' /\ Moves
<1>0. /\ RcuTypes /\ RcuHeld /\ PlaceTypes /\ (\A q \in Procs : RcuThread(q))
      /\ UNCHANGED <<scheme, pc, me, linked, pool, bags, holds, cur, word, list>>
      /\ epoch' = epoch + 1 /\ Procs' = Procs /\ Stock' = Stock /\ N' = N
    BY SameScheme DEF RcuInv, Places, Tick, mem
<1>1. Moves
    BY <1>0 DEF Moves, Unmoved, PlaceTypes
<1>2. RcuTypes'
  <2>1. RcuLocal' = RcuLocal
      BY <1>0 DEF RcuLocal
  <2> QED BY <1>0, <2>1 DEF RcuTypes
<1>3. ASSUME NEW q \in Procs PROVE RcuThread(q)'
  <2>1. me[q].read \in Nat /\ word[q] \in Nat /\ epoch \in Nat
      BY <1>0 DEF RcuTypes, RcuLocal
  <2> QED BY <1>0, <2>1 DEF RcuThread
<1>4. RcuHeld'
    BY <1>0 DEF RcuHeld, Awaited
<1> QED BY <1>0, <1>1, <1>2, <1>3, <1>4 DEF RcuInv

\* A step of a thread, or of call_rcu's thread on its behalf.
LEMMA RcuStep ==
    ASSUME Places, RcuInv, Rcu, NEW p \in Procs, RCUNext(p)
    PROVE  RcuInv' /\ Moves
<1>1. \/ readLock(p) \/ readUnlock(p) \/ rcu_unlink(p)
      \/ copy(p) \/ wait(p) \/ synchronized(p)
      \/ (pc[p] = "in" /\ Find(p))
      \/ rcu_startOp(p) \/ rcu_retire(p) \/ rcu_endOp(p) \/ rcuCallback(p)
    BY DEF RCUNext, At
<1> QED BY <1>1, RcuReadLock, RcuReadUnlock, RcuUnlink, RcuCopy, RcuWait, RcuInside,
           RcuRetire, RcuCallback

\* The invariant of the RCU reclaimers holds at the beginning.
LEMMA RcuInitial == Init /\ RCUInit /\ Rcu => Places /\ RcuInv
<1> SUFFICES ASSUME Init, RCUInit, Rcu PROVE Places /\ RcuInv
    OBVIOUS
<1>0. N \in Nat \ {0} /\ Procs = 0 .. N - 1
    BY ProcsAre DEF Init
<1>1. /\ Local.mine = {} /\ Local.read = 0 /\ Local.at = 0 /\ Local.times = << >>
    BY DEF Local
<1>2. << >> \in UNION {[S -> Nat] : S \in SUBSET Procs} /\ DOMAIN << >> = {}
  <2>1. << >> \in [{} -> Nat] /\ DOMAIN << >> = {} /\ {} \in SUBSET Procs
      OBVIOUS
  <2> QED BY <2>1
<1>3. Local \in RcuLocal
    BY <1>2 DEF Local, RcuLocal
<1>4. /\ epoch = 1 /\ \A p \in Procs : me[p] = Local /\ word[p] = 1 /\ pc[p] = "idle"
      /\ \A p \in Procs : holds[p] = {}
    BY DEF RCUInit, Init
<1>5. RcuTypes
    BY <1>3 DEF RcuTypes, RcuLabels, RCUInit, Init
<1>6. ASSUME NEW p \in Procs PROVE RcuThread(p)
    BY <1>0, <1>1, <1>2, <1>4 DEF RcuThread
<1>7. RcuHeld
    BY <1>4 DEF RcuHeld
<1>8. Places
    BY <1>1, <1>4, PlacesInit
<1> QED BY <1>5, <1>6, <1>7, <1>8 DEF RcuInv

-----------------------------------------------------------------------------
(***************************************************************************)
(* reclaimer_ebr_tree                                                      *)
(***************************************************************************)
P2      == numThreadsPow2
Root    == word[EBRT_ROOT]
Leaf(p) == word[EBRT_LEAF(p)]

\* Whoever is below node i has announced v, or a later epoch.
Reached(i, v) == \A q \in Procs : Under(i, q) => Leaf(q) >= v

TreeLabels == {"idle", "announce", "rotate", "climb", "root", "parent", "swap", "in"}

TreeLocal == [read : Nat, seen : {1}, checked : {0}, since : Nat, at : Nat,
              ix : {0}, size : Nat, times : {<< >>}, obj : {NoRecord}, found : {{}}, mine : {{}}]

TreeTypes ==
    /\ pc \in [Procs -> TreeLabels] /\ me \in [Procs -> TreeLocal]
    /\ word \in [1 .. 2 * P2 - 1 -> Nat] /\ holds \in [Procs -> SUBSET Stock]
    /\ Root % 2 = 0

\* What a thread that climbs carries with it has been announced by everybody
\* below the node that it has come to.
Fits(p, l, m) ==
    /\ Leaf(p) % 2 = 0 /\ Leaf(p) <= Root /\ Root <= Leaf(p) + 2
    /\ l = "announce" => m.read % 2 = 0 /\ Leaf(p) + 2 <= m.read /\ m.read <= Root
    /\ l \in {"climb", "root", "parent", "swap"} =>
          /\ m.at \in 2 .. 2 * P2 - 1 /\ m.read % 2 = 0 /\ m.read <= Root
          /\ Reached(m.at, m.read)
    /\ l \in {"root", "parent", "swap"} => Reached(Sibling(m.at), m.read)
    /\ l = "root" => EBRT_PARENT(m.at) = EBRT_ROOT
    /\ l \in {"parent", "swap"} => EBRT_PARENT(m.at) # EBRT_ROOT
    /\ P2 = 1 => l \in {"idle", "in"}

TreeThread(p) == Fits(p, pc[p], me[p]) /\ (holds[p] # {} => pc[p] = "in")

TreeNodes ==
    \A i \in 2 .. 2 * P2 - 1 :
       IF QUIESCENT(word[i]) THEN \A q \in Procs : ~Under(i, q) ELSE Reached(i, word[i])

\* Twice the number of times that u may rotate its bags while p goes on.
Known(u) == IF pc[u] = "announce" THEN me[u].read ELSE Leaf(u)

TreeTurns(u, p) ==
    (IF pc[u] \in {"announce", "rotate"} THEN 2 ELSE 0) + Leaf(p) + 2 - Known(u)

TreeHeld ==
    \A p \in Procs : \A r \in holds[p] :
       /\ r \notin pool
       /\ \A u \in Procs, i \in 0 .. 2 : r \in bags[u][i] => TreeTurns(u, p) < 2 * Age(u, i)

TreeInv == TreeTypes /\ (\A p \in Procs : TreeThread(p)) /\ TreeNodes /\ TreeHeld

\* The tree is large enough for the threads, and no larger than it must be.
LEMMA TreeSize ==
    ASSUME scheme = "ebr_tree", scheme \in DOMAIN Plan
    PROVE  P2 \in Powers /\ N <= P2 /\ P2 < 2 * N /\ P2 \in Nat \ {0}
<1>1. N \in 1 .. 128
  <2>1. N <= 128
      BY ThreadsAssumption DEF N, MAX_THREADS_POW2
  <2>2. N \in Nat \ {0}
      BY ProcsAre
  <2> QED BY <2>1, <2>2
<1>2. \E x \in Powers : x >= N /\ x < 2 * N
    BY <1>1 DEF Powers
<1>3. P2 \in Powers /\ P2 >= N /\ P2 < 2 * N
    BY <1>2, Zenon DEF P2, numThreadsPow2, roundUpPow2
<1> QED BY <1>1, <1>3 DEF Powers

\* Where a thread's leaf is, and what is above it.
LEMMA TreeShape ==
    ASSUME scheme = "ebr_tree", scheme \in DOMAIN Plan, NEW q \in Procs
    PROVE  /\ EBRT_LEAF(q) \in P2 .. 2 * P2 - 1
           /\ Under(EBRT_ROOT, q) /\ Under(EBRT_LEAF(q), q)
           /\ \A i \in P2 .. 2 * P2 - 1 : Under(i, q) => i = EBRT_LEAF(q)
           /\ \A i \in 2 .. 2 * P2 - 1 :
                 /\ Sibling(i) \in 2 .. 2 * P2 - 1
                 /\ EBRT_PARENT(i) \in 1 .. P2 - 1
                 /\ Under(EBRT_PARENT(i), q) => Under(i, q) \/ Under(Sibling(i), q)
<1>0. /\ P2 \in Powers /\ N <= P2 /\ P2 \in Nat \ {0} /\ q \in 0 .. N - 1 /\ N \in Nat
      /\ numThreadsPow2 = P2
    BY TreeSize, ProcsAre DEF P2
<1>1. PICK l \in P2 .. 2 * P2 - 1 : l = EBRT_LEAF(q)
    BY <1>0 DEF EBRT_LEAF
<1>2. l \div 1 = l /\ l \div P2 = 1
    BY <1>0, <1>1 DEF Powers
<1>3. Under(EBRT_ROOT, q) /\ Under(EBRT_LEAF(q), q)
    BY <1>0, <1>1, <1>2 DEF Under, EBRT_ROOT, Powers
<1>4. \A d \in Powers : d # 1 => l \div d < P2
    BY <1>0, <1>1 DEF Powers
<1>5. \A i \in P2 .. 2 * P2 - 1 : Under(i, q) => i = EBRT_LEAF(q)
  <2> SUFFICES ASSUME NEW i \in P2 .. 2 * P2 - 1, NEW d \in Powers, l \div d = i
               PROVE  i = l
      BY <1>1 DEF Under
  <2> QED BY <1>0, <1>2, <1>4
<1>6. ASSUME NEW i \in 2 .. 2 * P2 - 1
      PROVE  /\ Sibling(i) \in 2 .. 2 * P2 - 1
             /\ EBRT_PARENT(i) \in 1 .. P2 - 1
  <2>1. P2 \in Nat
      BY <1>0
  <2> QED BY <2>1 DEF Sibling, EBRT_PARENT
<1>7. ASSUME NEW i \in 2 .. 2 * P2 - 1, Under(EBRT_PARENT(i), q)
      PROVE  Under(i, q) \/ Under(Sibling(i), q)
  <2>1. PICK d \in Powers : l \div d = i \div 2
      BY <1>1, <1>7 DEF Under, EBRT_PARENT
  <2>2. i \in Nat /\ l \in Nat /\ d # 1
    <3>1. i \div 2 < P2
        BY <1>0
    <3> QED BY <1>0, <1>2, <2>1, <3>1
  <2>3. \E e \in Powers : l \div e = i \/ l \div e = Sibling(i)
      BY <2>1, <2>2 DEF Powers, Sibling
  <2> QED BY <1>1, <2>3 DEF Under
<1> QED BY <1>1, <1>3, <1>5, <1>6, <1>7

\* A step by which no thread may rotate more often.
LEMMA TreeHeldStays ==
    ASSUME Places, TreeInv, UNCHANGED <<scheme, linked, pool, bags, cur>>,
           \A p \in Procs : holds'[p] \subseteq holds[p] \cup linked,
           \A p \in Procs, u \in Procs :
              holds[p] # {} /\ holds'[p] # {} =>
                 /\ TreeTurns(u, p)' <= TreeTurns(u, p)
                 /\ TreeTurns(u, p)' \in Int /\ TreeTurns(u, p) \in Int
    PROVE  TreeHeld'
<1>0. Procs' = Procs /\ PlaceTypes /\ Apart
    BY SameScheme DEF Places
<1>1. ASSUME NEW p \in Procs, NEW r \in holds'[p]
      PROVE  /\ r \notin pool
             /\ \A u \in Procs, i \in 0 .. 2 :
                   r \in bags[u][i] => TreeTurns(u, p)' < 2 * Age(u, i)
  <2>1. CASE r \in linked
      BY <1>0, <2>1 DEF Apart, BagsApart
  <2>2. CASE r \in holds[p]
    <3>1. r \notin pool
        BY <2>2 DEF TreeInv, TreeHeld
    <3>2. ASSUME NEW u \in Procs, NEW i \in 0 .. 2, r \in bags[u][i]
          PROVE  TreeTurns(u, p)' < 2 * Age(u, i)
      <4>1. /\ TreeTurns(u, p) < 2 * Age(u, i) /\ TreeTurns(u, p)' <= TreeTurns(u, p)
            /\ TreeTurns(u, p)' \in Int /\ TreeTurns(u, p) \in Int
          BY <2>2, <1>1, <3>2 DEF TreeInv, TreeHeld
      <4>2. Age(u, i) \in Int
          BY DEF Age
      <4> QED BY <4>1, <4>2
    <3> QED BY <3>1, <3>2
  <2> QED BY <1>1, <2>1, <2>2
<1>2. \A u, i : Age(u, i)' = Age(u, i)
    BY DEF Age
<1> QED BY <1>0, <1>1, <1>2 DEF TreeHeld

\* A step of p by which no bag is changed.
LEMMA TreeLocalStep ==
    ASSUME Places, TreeInv, scheme = "ebr_tree", NEW p \in Procs, NEW M \in TreeLocal,
           NEW l \in TreeLabels,
           UNCHANGED <<scheme, linked, pool, bags, cur>>,
           me' = [me EXCEPT ![p] = M], Go(p, l),
           holds' \in [Procs -> SUBSET Stock], \A q \in Procs \ {p} : holds'[q] = holds[q],
           holds'[p] \subseteq holds[p] \cup linked,
           word' \in [1 .. 2 * P2 - 1 -> Nat],
           \A q \in Procs : Leaf(q)' >= Leaf(q) /\ (q # p => Leaf(q)' = Leaf(q)),
           Leaf(p)' = Leaf(p) \/ holds[p] = {},
           Root' % 2 = 0, Root' >= Root, \A q \in Procs : Root' <= Leaf(q)' + 2,
           TreeNodes',
           IF pc[p] \in {"announce", "rotate"} THEN Known(p)' >= Known(p)
           ELSE Known(p)' >= Known(p) + (IF l \in {"announce", "rotate"} THEN 2 ELSE 0),
           Fits(p, l, M)', holds'[p] # {} => l = "in"
    PROVE  TreeInv' /\ Moves
<1>0. /\ TreeTypes /\ TreeHeld /\ PlaceTypes /\ (\A q \in Procs : TreeThread(q))
      /\ Procs' = Procs /\ Stock' = Stock /\ N' = N /\ P2' = P2 /\ numThreadsPow2' = numThreadsPow2
      /\ scheme' = scheme
    BY SameScheme DEF TreeInv, Places, P2, numThreadsPow2, roundUpPow2, N
<1>13. /\ P2 \in Nat \ {0} /\ \A q \in Procs : EBRT_LEAF(q) \in P2 .. 2 * P2 - 1
    BY <1>0, TreeShape, TreeSize DEF PlaceTypes
<1>1. /\ me' \in [Procs -> TreeLocal] /\ me'[p] = M
      /\ \A q \in Procs \ {p} : me'[q] = me[q]
    BY <1>0, OneThread DEF TreeTypes
<1>2. /\ pc' \in [Procs -> TreeLabels] /\ pc'[p] = l
      /\ \A q \in Procs \ {p} : pc'[q] = pc[q]
    BY <1>0, OneLabel DEF TreeTypes
<1>3. M.mine = {} /\ me[p].mine = {}
    BY <1>0 DEF TreeTypes, TreeLocal
<1>4. TreeTypes'
    BY <1>0, <1>1, <1>2 DEF TreeTypes, TreeLocal
<1>5. Moves
    BY <1>0, <1>1, <1>3 DEF Moves, Unmoved, PlaceTypes
<1>6. /\ Root \in Nat /\ Root' \in Nat
      /\ \A q \in Procs : Leaf(q) \in Nat /\ Leaf(q)' \in Nat
    BY <1>0, <1>13 DEF TreeTypes, Root, Leaf, EBRT_ROOT, EBRT_LEAF
<1>7. ASSUME NEW i, NEW v \in Nat, Reached(i, v) PROVE Reached(i, v)'
  <2>1. \A q : Under(i, q)' <=> Under(i, q)
      BY <1>0 DEF Under, EBRT_LEAF
  <2> QED BY <1>0, <1>6, <1>7, <2>1 DEF Reached
<1>8. ASSUME NEW q \in Procs PROVE TreeThread(q)'
  <2>1. CASE q = p
      BY <1>1, <1>2, <2>1 DEF TreeThread, Fits
  <2>2. CASE q # p
    <3>1. /\ TreeThread(q) /\ pc'[q] = pc[q] /\ me'[q] = me[q] /\ holds'[q] = holds[q]
          /\ Leaf(q)' = Leaf(q) /\ me[q].read \in Nat
        BY <1>0, <1>1, <1>2, <2>2 DEF TreeTypes, TreeLocal
    <3>2. pc[q] \in {"climb", "root", "parent", "swap"} => Reached(me[q].at, me[q].read)'
        BY <1>7, <3>1 DEF TreeThread, Fits
    <3>3. pc[q] \in {"root", "parent", "swap"} => Reached(Sibling(me[q].at), me[q].read)'
        BY <1>7, <3>1 DEF TreeThread, Fits
    <3>4. Root' <= Leaf(q)' + 2 /\ Leaf(q)' <= Root'
        BY <1>6, <3>1 DEF TreeThread, Fits
    <3>5. /\ (Sibling(me[q].at))' = Sibling(me[q].at)
          /\ (EBRT_PARENT(me[q].at))' = EBRT_PARENT(me[q].at)
        BY <3>1 DEF Sibling, EBRT_PARENT
    <3> QED BY <1>0, <1>6, <3>1, <3>2, <3>3, <3>4, <3>5 DEF TreeThread, Fits
  <2> QED BY <2>1, <2>2
<1>9. ASSUME NEW q \in Procs, NEW u \in Procs, holds[q] # {}, holds'[q] # {}
      PROVE  /\ TreeTurns(u, q)' <= TreeTurns(u, q)
             /\ TreeTurns(u, q)' \in Int /\ TreeTurns(u, q) \in Int
  <2>1. Leaf(q)' = Leaf(q)
      BY <1>9
  <2>2. me[u].read \in Nat /\ me'[u].read \in Nat
      BY <1>0, <1>1 DEF TreeTypes, TreeLocal
  <2>3. Known(u) \in Nat /\ Known(u)' \in Nat
      BY <1>6, <2>2 DEF Known
  <2>4. CASE u = p
    <3>1. TreeTurns(u, q) = (IF pc[p] \in {"announce", "rotate"} THEN 2 ELSE 0) + Leaf(q) + 2 - Known(p)
        BY <2>4 DEF TreeTurns
    <3>2. TreeTurns(u, q)' = (IF l \in {"announce", "rotate"} THEN 2 ELSE 0) + Leaf(q) + 2 - Known(p)'
        BY <1>2, <2>1, <2>4 DEF TreeTurns
    <3>3. Known(p) \in Nat /\ Known(p)' \in Nat /\ Leaf(q) \in Nat
        BY <1>6, <2>3, <2>4
    <3> QED BY <3>1, <3>2, <3>3
  <2>5. CASE u # p
    <3>1. Known(u)' = Known(u) /\ pc'[u] = pc[u]
        BY <1>1, <1>2, <2>5 DEF Known
    <3> QED BY <1>6, <2>1, <2>3, <3>1 DEF TreeTurns
  <2> QED BY <2>4, <2>5
<1>10. \A q \in Procs : holds'[q] \subseteq holds[q] \cup linked
    OBVIOUS
<1>11. TreeHeld'
    BY <1>9, <1>10, TreeHeldStays
<1> QED BY <1>4, <1>5, <1>8, <1>11, <1>0 DEF TreeInv

\* A step of p by which neither a bag nor the tree is changed.
LEMMA TreeQuietStep ==
    ASSUME Places, TreeInv, scheme = "ebr_tree", NEW p \in Procs, NEW M \in TreeLocal,
           NEW l \in TreeLabels,
           UNCHANGED <<scheme, linked, pool, bags, cur, word>>,
           me' = [me EXCEPT ![p] = M], Go(p, l),
           holds' \in [Procs -> SUBSET Stock], \A q \in Procs \ {p} : holds'[q] = holds[q],
           holds'[p] \subseteq holds[p] \cup linked,
           pc[p] \notin {"announce", "rotate"}, l # "rotate",
           Fits(p, l, M), holds'[p] # {} => l = "in"
    PROVE  TreeInv' /\ Moves
<1>0. /\ TreeTypes /\ PlaceTypes /\ TreeNodes /\ (\A q \in Procs : TreeThread(q))
      /\ Procs' = Procs /\ N' = N /\ P2' = P2 /\ numThreadsPow2' = numThreadsPow2
      /\ word' = word
    BY SameScheme DEF TreeInv, Places, P2, numThreadsPow2, roundUpPow2, N
<1>1. /\ P2 \in Nat \ {0} /\ \A q \in Procs : EBRT_LEAF(q) \in P2 .. 2 * P2 - 1
    BY <1>0, TreeShape, TreeSize DEF PlaceTypes
<1>2. /\ Root \in Nat /\ \A q \in Procs : Leaf(q) \in Nat
    BY <1>0, <1>1 DEF TreeTypes, Root, Leaf, EBRT_ROOT
<1>3. Root' = Root /\ \A q \in Procs : Leaf(q)' = Leaf(q)
    BY <1>0 DEF Root, Leaf, EBRT_ROOT, EBRT_LEAF
<1>4. /\ \A i, q : Under(i, q)' <=> Under(i, q)
      /\ \A i, v : Reached(i, v)' <=> Reached(i, v)
    BY <1>0, <1>3 DEF Under, Reached, EBRT_LEAF
<1>5. TreeNodes'
    BY <1>0, <1>4 DEF TreeNodes
<1>6. Fits(p, l, M)'
    BY <1>0, <1>3, <1>4 DEF Fits
<1>7. \A q \in Procs : Root' <= Leaf(q)' + 2
    BY <1>0, <1>3 DEF TreeThread, Fits
<1>8. Known(p)' = IF l = "announce" THEN M.read ELSE Leaf(p)
  <2>1. pc'[p] = l /\ me'[p] = M
      BY <1>0 DEF Go, TreeTypes
  <2> QED BY <1>3, <2>1 DEF Known
<1>9. Known(p) = Leaf(p)
    BY DEF Known
<1>10. M.read \in Nat /\ (l = "announce" => M.read >= Leaf(p) + 2)
    BY <1>2 DEF Fits, TreeLocal
<1>11. Known(p)' >= Known(p) + (IF l \in {"announce", "rotate"} THEN 2 ELSE 0)
    BY <1>2, <1>8, <1>9, <1>10
<1>12. /\ \A q \in Procs : Leaf(q)' >= Leaf(q) /\ (q # p => Leaf(q)' = Leaf(q))
       /\ Root' % 2 = 0 /\ Root' >= Root /\ word' \in [1 .. 2 * P2 - 1 -> Nat]
    BY <1>0, <1>2, <1>3 DEF TreeTypes
<1> QED BY <1>3, <1>5, <1>6, <1>7, <1>11, <1>12, TreeLocalStep

\* The private variables of a thread keep their types.
LEMMA TreeLocalSet ==
    ASSUME NEW R \in TreeLocal, NEW x \in Nat, NEW a \in Nat, NEW d \in Nat
    PROVE  /\ [R EXCEPT !.read = x] \in TreeLocal
           /\ [R EXCEPT !.at = a] \in TreeLocal
           /\ [R EXCEPT !.size = x] \in TreeLocal
           /\ [R EXCEPT !.since = d] \in TreeLocal
           /\ [R EXCEPT !.since = 0, !.at = a, !.read = x] \in TreeLocal
<1>1. \A S \in TreeLocal : [S EXCEPT !.read = x] \in TreeLocal
    BY DEF TreeLocal
<1>2. \A S \in TreeLocal : [S EXCEPT !.at = a] \in TreeLocal
    BY DEF TreeLocal
<1>3. \A S \in TreeLocal : [S EXCEPT !.since = d] \in TreeLocal
    BY DEF TreeLocal
<1>4. \A S \in TreeLocal : [S EXCEPT !.since = 0] \in TreeLocal
    BY DEF TreeLocal
<1>5. \A S \in TreeLocal : [S EXCEPT !.size = x] \in TreeLocal
    BY DEF TreeLocal
<1> QED BY Zenon, <1>1, <1>2, <1>3, <1>4, <1>5

\* Whether a thread sets out, as the counter says.
LEMMA TreeDue ==
    ASSUME Places, TreeInv, scheme = "ebr_tree", NEW p \in Procs, Due(p, me[p], Leaf(p)),
           pc[p] \in {"idle", "rotate"}
    PROVE  \E M \in TreeLocal, l \in {"in", "climb"} :
              /\ me' = [me EXCEPT ![p] = M] /\ Go(p, l) /\ Fits(p, l, M)
<1>0. /\ TreeTypes /\ PlaceTypes /\ TreeThread(p) /\ me[p] \in TreeLocal /\ Leaf(p) \in Nat
      /\ P2 \in Nat \ {0} /\ EBRT_LEAF(p) \in P2 .. 2 * P2 - 1 /\ numThreadsPow2 = P2
  <2>1. /\ TreeTypes /\ PlaceTypes /\ TreeThread(p)
      BY DEF TreeInv, Places
  <2>2. /\ P2 \in Nat \ {0} /\ EBRT_LEAF(p) \in P2 .. 2 * P2 - 1 /\ numThreadsPow2 = P2
      BY <2>1, TreeShape, TreeSize DEF PlaceTypes, P2
  <2> QED BY <2>1, <2>2 DEF TreeTypes, Leaf, EBRT_LEAF
<1>1. CASE (me[p].since + 1) % MinOps # 0
  <2>1. PICK M : M = [me[p] EXCEPT !.since = @ + 1]
      OBVIOUS
  <2>2. me[p].since + 1 \in Nat
      BY <1>0 DEF TreeLocal
  <2>3. M \in TreeLocal
      BY Zenon, <1>0, <2>1, <2>2, TreeLocalSet
  <2>4. me' = [me EXCEPT ![p] = M] /\ Go(p, "in")
      BY <1>1, <2>1 DEF Due, Set
  <2>5. Fits(p, "in", M)
      BY <1>0 DEF TreeThread, Fits
  <2> QED BY <2>3, <2>4, <2>5
<1>2. CASE ~((me[p].since + 1) % MinOps # 0)
  <2>1. PICK M : M = [me[p] EXCEPT !.since = 0, !.at = EBRT_LEAF(p), !.read = Leaf(p)]
      OBVIOUS
  <2>2. EBRT_LEAF(p) \in Nat
      BY <1>0
  <2>3. M \in TreeLocal
      BY Zenon, <1>0, <2>1, <2>2, TreeLocalSet
  <2>4. M.at = EBRT_LEAF(p) /\ M.read = Leaf(p)
      BY <1>0, <2>1 DEF TreeLocal
  <2>5. PICK l : l = IF EBRT_LEAF(p) > EBRT_ROOT THEN "climb" ELSE "in"
      OBVIOUS
  <2>6. me' = [me EXCEPT ![p] = M] /\ Go(p, l)
      BY <1>2, <2>1, <2>5 DEF Due, Set
  <2>7. Reached(EBRT_LEAF(p), Leaf(p))
    <3> SUFFICES ASSUME NEW q \in Procs, Under(EBRT_LEAF(p), q) PROVE Leaf(q) >= Leaf(p)
        BY DEF Reached
    <3>1. EBRT_LEAF(q) = EBRT_LEAF(p)
        BY <1>0, TreeShape DEF PlaceTypes
    <3> QED BY <1>0, <3>1 DEF Leaf
  <2>8. Fits(p, l, M)
    <3>1. P2 = 1 => EBRT_LEAF(p) = 1
        BY <1>0
    <3> QED BY <1>0, <2>4, <2>5, <2>7, <3>1 DEF TreeThread, Fits, EBRT_ROOT
  <2> QED BY <2>3, <2>5, <2>6, <2>8
<1> QED BY <1>1, <1>2

\* What the steps of a thread start from.
LEMMA TreeFacts ==
    ASSUME Places, TreeInv, scheme = "ebr_tree", NEW p \in Procs
    PROVE  /\ TreeTypes /\ PlaceTypes /\ TreeThread(p) /\ me[p] \in TreeLocal /\ TreeNodes
           /\ P2 \in Nat \ {0} /\ EBRT_LEAF(p) \in P2 .. 2 * P2 - 1 /\ numThreadsPow2 = P2
           /\ Leaf(p) \in Nat /\ Root \in Nat /\ word[EBRT_ROOT] = Root
           /\ word[EBRT_LEAF(p)] = Leaf(p) /\ holds \in [Procs -> SUBSET Stock]
<1>1. /\ TreeTypes /\ PlaceTypes /\ TreeThread(p) /\ TreeNodes
    BY DEF TreeInv, Places
<1>2. /\ P2 \in Nat \ {0} /\ EBRT_LEAF(p) \in P2 .. 2 * P2 - 1 /\ numThreadsPow2 = P2
    BY <1>1, TreeShape, TreeSize DEF PlaceTypes, P2
<1> QED BY <1>1, <1>2 DEF TreeTypes, Leaf, EBRT_LEAF, Root, EBRT_ROOT

\* An operation starts.
LEMMA TreeStart ==
    ASSUME Places, TreeInv, scheme = "ebr_tree", NEW p \in Procs, pc[p] = "idle",
           IF Root # BITS_EPOCH(Leaf(p))
             THEN Set(p, [me[p] EXCEPT !.read = Root]) /\ Go(p, "announce")
             ELSE Due(p, me[p], Leaf(p)),
           UNCHANGED <<scheme, mem, epoch, word, list>>
    PROVE  TreeInv' /\ Moves
<1>0. /\ TreeTypes /\ TreeThread(p) /\ me[p] \in TreeLocal /\ Leaf(p) \in Nat /\ Root \in Nat
      /\ UNCHANGED <<scheme, linked, pool, bags, cur, word, holds>>
      /\ holds \in [Procs -> SUBSET Stock] /\ Stock' = Stock
    BY TreeFacts, SameScheme DEF mem
<1>1. CASE Root # BITS_EPOCH(Leaf(p))
  <2>1. PICK M : M = [me[p] EXCEPT !.read = Root]
      OBVIOUS
  <2>2. M \in TreeLocal
      BY Zenon, <1>0, <2>1, TreeLocalSet
  <2>3. me' = [me EXCEPT ![p] = M] /\ Go(p, "announce") /\ M.read = Root
      BY <1>0, <1>1, <2>1 DEF Set, TreeLocal
  <2>4. BITS_EPOCH(Leaf(p)) = Leaf(p)
      BY <1>0 DEF BITS_EPOCH, TreeThread, Fits
  <2>5. P2 # 1
    <3>1. ASSUME P2 = 1 PROVE Leaf(p) = Root
        BY <3>1, TreeFacts DEF EBRT_ROOT
    <3> QED BY <1>1, <2>4, <3>1
  <2>6. Fits(p, "announce", M)
      BY <1>0, <1>1, <2>3, <2>4, <2>5 DEF Fits, TreeThread, TreeTypes
  <2>7. "announce" \in TreeLabels /\ holds[p] = {}
      BY <1>0 DEF TreeLabels, TreeThread
  <2> QED BY <1>0, <2>2, <2>3, <2>6, <2>7, TreeQuietStep
<1>2. CASE ~(Root # BITS_EPOCH(Leaf(p)))
  <2>1. PICK M \in TreeLocal, l \in {"in", "climb"} :
           me' = [me EXCEPT ![p] = M] /\ Go(p, l) /\ Fits(p, l, M)
      BY <1>2, TreeDue
  <2>2. l \in TreeLabels /\ holds[p] = {}
      BY <1>0 DEF TreeLabels, TreeThread
  <2> QED BY <1>0, <2>1, <2>2, TreeQuietStep
<1> QED BY <1>1, <1>2

\* A thread that climbs goes on if the sibling has announced the same.
LEMMA TreeClimb ==
    ASSUME Places, TreeInv, scheme = "ebr_tree", NEW p \in Procs, tree_climb(p)
    PROVE  TreeInv' /\ Moves
<1>0. /\ TreeTypes /\ TreeThread(p) /\ me[p] \in TreeLocal /\ Leaf(p) \in Nat /\ Root \in Nat
      /\ UNCHANGED <<scheme, linked, pool, bags, cur, word, holds, me>> /\ pc[p] = "climb"
      /\ holds \in [Procs -> SUBSET Stock] /\ Stock' = Stock /\ TreeNodes
    BY TreeFacts, SameScheme DEF mem, tree_climb, Tree, At
<1>1. PICK l \in TreeLabels :
         l = IF ~SiblingAgrees(me[p].at, me[p].read) THEN "in"
             ELSE IF EBRT_PARENT(me[p].at) = EBRT_ROOT THEN "root" ELSE "parent"
    BY DEF TreeLabels
<1>2. Go(p, l)
    BY <1>1 DEF tree_climb
<1>3. me' = [me EXCEPT ![p] = me[p]] /\ holds[p] = {} /\ Fits(p, "climb", me[p])
    BY <1>0 DEF TreeTypes, TreeThread
<1>4. ASSUME SiblingAgrees(me[p].at, me[p].read) PROVE Reached(Sibling(me[p].at), me[p].read)
  <2>1. /\ me[p].at \in 2 .. 2 * P2 - 1 /\ me[p].read % 2 = 0 /\ me[p].read \in Nat
        /\ Sibling(me[p].at) \in 2 .. 2 * P2 - 1
    <3>1. me[p].at \in 2 .. 2 * P2 - 1
        BY <1>3 DEF Fits
    <3> QED BY <1>0, <1>3, <3>1, TreeShape, TreeFacts DEF Fits, TreeLocal, PlaceTypes
  <2>2. CASE QUIESCENT(word[Sibling(me[p].at)])
      BY <1>0, <2>1, <2>2 DEF TreeNodes, Reached
  <2>3. CASE ~QUIESCENT(word[Sibling(me[p].at)])
      BY <1>0, <1>4, <2>1, <2>3 DEF TreeNodes, SiblingAgrees
  <2> QED BY <2>2, <2>3
<1>5. Fits(p, l, me[p])
    BY <1>1, <1>3, <1>4 DEF Fits
<1> QED BY <1>0, <1>1, <1>2, <1>3, <1>5, TreeQuietStep

\* Below the parent there is nobody who is not below the node or its sibling.
LEMMA TreeUp ==
    ASSUME Places, TreeInv, scheme = "ebr_tree", NEW i \in 2 .. 2 * P2 - 1, NEW v,
           Reached(i, v), Reached(Sibling(i), v)
    PROVE  Reached(EBRT_PARENT(i), v)
BY TreeShape DEF Reached, Places, PlaceTypes

\* The parent is looked at.
LEMMA TreeParentRead ==
    ASSUME Places, TreeInv, scheme = "ebr_tree", NEW p \in Procs, pc[p] = "parent",
           NEW up, up = EBRT_PARENT(me[p].at),
           IF word[up] >= me[p].read THEN Go(p, "in") /\ UNCHANGED me
           ELSE Go(p, "swap") /\ Set(p, [me[p] EXCEPT !.size = word[up]]),
           UNCHANGED <<scheme, mem, epoch, word, list>>
    PROVE  TreeInv' /\ Moves
<1>0. /\ TreeTypes /\ TreeThread(p) /\ me[p] \in TreeLocal /\ Leaf(p) \in Nat /\ Root \in Nat
      /\ UNCHANGED <<scheme, linked, pool, bags, cur, word, holds>>
      /\ holds \in [Procs -> SUBSET Stock] /\ Stock' = Stock /\ TreeNodes
      /\ P2 \in Nat \ {0}
    BY TreeFacts, SameScheme DEF mem
<1>1. holds[p] = {} /\ Fits(p, "parent", me[p]) /\ "in" \in TreeLabels /\ "swap" \in TreeLabels
    BY <1>0 DEF TreeThread, TreeLabels
<1>2. CASE word[up] >= me[p].read
  <2>1. me' = [me EXCEPT ![p] = me[p]] /\ Go(p, "in") /\ Fits(p, "in", me[p])
      BY <1>0, <1>1, <1>2 DEF TreeTypes, Fits
  <2> QED BY <1>0, <1>1, <2>1, TreeQuietStep
<1>3. CASE ~(word[up] >= me[p].read)
  <2>1. PICK M : M = [me[p] EXCEPT !.size = word[up]]
      OBVIOUS
  <2>2. up \in 1 .. 2 * P2 - 1 /\ word[up] \in Nat
    <3>1. me[p].at \in 2 .. 2 * P2 - 1 /\ up = me[p].at \div 2
        BY <1>1 DEF Fits, EBRT_PARENT
    <3>2. up \in 1 .. 2 * P2 - 1
        BY <1>0, <3>1
    <3> QED BY <1>0, <3>2 DEF TreeTypes
  <2>3. M \in TreeLocal
      BY Zenon, <1>0, <2>1, <2>2, TreeLocalSet
  <2>4. me' = [me EXCEPT ![p] = M] /\ Go(p, "swap") /\ M.at = me[p].at /\ M.read = me[p].read
      BY <1>0, <1>3, <2>1 DEF Set, TreeLocal
  <2>5. Fits(p, "swap", M)
      BY <1>1, <2>4 DEF Fits
  <2> QED BY <1>0, <1>1, <2>3, <2>4, <2>5, TreeQuietStep
<1> QED BY <1>2, <1>3

\* A node takes a value that everybody below it has reached.
LEMMA TreeNodeSet ==
    ASSUME Places, TreeInv, scheme = "ebr_tree", scheme' = scheme,
           NEW i \in 1 .. 2 * P2 - 1, NEW v \in Nat, v % 2 = 0,
           word' = [word EXCEPT ![i] = v],
           \A q \in Procs : Leaf(q)' >= Leaf(q),
           i # EBRT_ROOT => \A q \in Procs : Under(i, q) => Leaf(q)' >= v
    PROVE  TreeNodes'
<1>0. /\ TreeTypes /\ PlaceTypes /\ TreeNodes
      /\ Procs' = Procs /\ N' = N /\ P2' = P2 /\ numThreadsPow2' = numThreadsPow2
    BY SameScheme DEF TreeInv, Places, P2, numThreadsPow2, roundUpPow2, N
<1>1. /\ P2 \in Nat \ {0} /\ \A q \in Procs : EBRT_LEAF(q) \in P2 .. 2 * P2 - 1
    BY <1>0, TreeShape, TreeSize DEF PlaceTypes
<1>2. /\ \A j, q : Under(j, q)' <=> Under(j, q)
    BY <1>0 DEF Under, EBRT_LEAF
<1>3. word \in [1 .. 2 * P2 - 1 -> Nat] /\ word' \in [1 .. 2 * P2 - 1 -> Nat]
    BY <1>0 DEF TreeTypes
<1>4. \A q \in Procs : Leaf(q) \in Nat /\ Leaf(q)' \in Nat
  <2>1. \A q \in Procs : EBRT_LEAF(q)' = EBRT_LEAF(q) /\ EBRT_LEAF(q) \in 1 .. 2 * P2 - 1
      BY <1>0, <1>1 DEF EBRT_LEAF
  <2> QED BY <1>3, <2>1 DEF Leaf
<1>5. ASSUME NEW j \in 2 .. 2 * P2 - 1
      PROVE  IF QUIESCENT(word'[j]) THEN \A q \in Procs : ~Under(j, q)
             ELSE \A q \in Procs : Under(j, q) => Leaf(q)' >= word'[j]
  <2>1. CASE j = i
    <3>1. word'[j] = v /\ ~QUIESCENT(word'[j]) /\ i # EBRT_ROOT
        BY <1>3, <2>1 DEF QUIESCENT, EBRT_ROOT
    <3> QED BY <2>1, <3>1
  <2>2. CASE j # i
    <3>1. word'[j] = word[j] /\ word[j] \in Nat
        BY <1>3, <2>2
    <3>2. CASE QUIESCENT(word[j])
        BY <1>0, <3>1, <3>2 DEF TreeNodes
    <3>3. CASE ~QUIESCENT(word[j])
      <4>1. \A q \in Procs : Under(j, q) => Leaf(q) >= word[j]
          BY <1>0, <3>3 DEF TreeNodes, Reached
      <4>2. \A q \in Procs : Under(j, q) => Leaf(q)' >= word[j]
          BY <1>4, <3>1, <4>1
      <4> QED BY <3>1, <3>3, <4>2
    <3> QED BY <3>2, <3>3
  <2> QED BY <2>1, <2>2
<1>6. \A j \in 2 .. 2 * P2 - 1 : QUIESCENT(word[j])' <=> QUIESCENT(word'[j])
    BY DEF QUIESCENT
<1> QED BY <1>0, <1>2, <1>5 DEF TreeNodes, Reached, QUIESCENT

\* The epoch is announced.
LEMMA TreeAnnounce ==
    ASSUME Places, TreeInv, scheme = "ebr_tree", NEW p \in Procs, pc[p] = "announce",
           word' = [word EXCEPT ![EBRT_LEAF(p)] = me[p].read], Go(p, "rotate"),
           UNCHANGED <<scheme, mem, me, epoch, list>>
    PROVE  TreeInv' /\ Moves
<1>0. /\ TreeTypes /\ PlaceTypes /\ TreeThread(p) /\ me[p] \in TreeLocal
      /\ UNCHANGED <<scheme, linked, pool, bags, cur, me, holds>>
      /\ holds \in [Procs -> SUBSET Stock] /\ Stock' = Stock
      /\ Procs' = Procs /\ N' = N /\ P2' = P2 /\ numThreadsPow2' = numThreadsPow2
      /\ \A q \in Procs : TreeThread(q)
    BY TreeFacts, SameScheme DEF mem, TreeInv, P2, numThreadsPow2, roundUpPow2, N
<1>1. /\ P2 \in Nat \ {0} /\ numThreadsPow2 = P2 /\ Root \in Nat /\ word[EBRT_ROOT] = Root
      /\ \A q \in Procs : /\ EBRT_LEAF(q) \in P2 .. 2 * P2 - 1 /\ Leaf(q) \in Nat
                          /\ word[EBRT_LEAF(q)] = Leaf(q)
    BY TreeFacts
<1>2. /\ holds[p] = {} /\ Leaf(p) + 2 <= me[p].read /\ me[p].read <= Root /\ me[p].read \in Nat
      /\ me[p].read % 2 = 0 /\ P2 # 1 /\ Root <= Leaf(p) + 2
    BY <1>0 DEF TreeThread, Fits, TreeLocal
<1>3. PICK e \in 1 .. 2 * P2 - 1 : e = EBRT_LEAF(p) /\ e # EBRT_ROOT
    BY <1>1, <1>2 DEF EBRT_ROOT
<1>4. word \in [1 .. 2 * P2 - 1 -> Nat] /\ word' = [word EXCEPT ![e] = me[p].read]
    BY <1>0, <1>3 DEF TreeTypes
<1>5. word' \in [1 .. 2 * P2 - 1 -> Nat]
    BY <1>2, <1>4
<1>6. /\ Leaf(p)' = me[p].read /\ \A q \in Procs \ {p} : Leaf(q)' = Leaf(q)
      /\ Root' = Root
  <2>1. Leaf(p)' = word'[e]
      BY <1>0, <1>3 DEF Leaf, EBRT_LEAF
  <2>2. ASSUME NEW q \in Procs \ {p} PROVE Leaf(q)' = Leaf(q)
    <3>1. EBRT_LEAF(q) # e /\ EBRT_LEAF(q) \in 1 .. 2 * P2 - 1 /\ EBRT_LEAF(q)' = EBRT_LEAF(q)
      <4>1. p \in Nat /\ q \in Nat
          BY <1>0, ProcsAre DEF PlaceTypes
      <4> QED BY <1>0, <1>1, <1>3, <4>1 DEF EBRT_LEAF
    <3> QED BY <1>4, <3>1 DEF Leaf
  <2>3. Root' = Root
      BY <1>1, <1>3, <1>4 DEF Root, EBRT_ROOT
  <2> QED BY <1>3, <1>4, <2>1, <2>2, <2>3
<1>7. \A q \in Procs : Leaf(q)' >= Leaf(q) /\ (q # p => Leaf(q)' = Leaf(q))
    BY <1>1, <1>2, <1>6
<1>8. \A q \in Procs : Under(e, q) => Leaf(q)' >= me[p].read
  <2> SUFFICES ASSUME NEW q \in Procs, Under(e, q) PROVE Leaf(q)' >= me[p].read
      OBVIOUS
  <2>1. EBRT_LEAF(q) = EBRT_LEAF(p)
      BY <1>0, <1>1, <1>3, TreeShape DEF PlaceTypes
  <2>2. q = p
    <3>1. p \in Nat /\ q \in Nat
        BY <1>0, ProcsAre DEF PlaceTypes
    <3> QED BY <1>1, <2>1, <3>1 DEF EBRT_LEAF
  <2> QED BY <1>2, <1>6, <2>2
<1>9. TreeNodes'
    BY <1>0, <1>2, <1>3, <1>4, <1>7, <1>8, TreeNodeSet
<1>10. Fits(p, "rotate", me[p])'
    BY <1>0, <1>1, <1>2, <1>6 DEF Fits
<1>11. \A q \in Procs : Root' <= Leaf(q)' + 2
  <2>1. \A q \in Procs : Root <= Leaf(q) + 2
      BY <1>0 DEF TreeThread, Fits
  <2> QED BY <1>1, <1>2, <1>6, <2>1
<1>12. Known(p)' >= Known(p)
  <2>1. pc'[p] = "rotate"
      BY <1>0 DEF TreeTypes, Go
  <2>2. Known(p)' = me[p].read /\ Known(p) = me[p].read
      BY <1>6, <2>1 DEF Known
  <2> QED BY <1>2, <2>2
<1>13. me' = [me EXCEPT ![p] = me[p]] /\ "rotate" \in TreeLabels
    BY <1>0 DEF TreeTypes, TreeLabels
<1>14. Root' % 2 = 0 /\ Root' >= Root
    BY <1>0, <1>1, <1>6 DEF TreeTypes
<1> QED BY <1>0, <1>2, <1>5, <1>7, <1>9, <1>10, <1>11, <1>12, <1>13, <1>14, TreeLocalStep

\* A node above the leaves, or the epoch, is changed while nobody announces.
LEMMA TreeNodeStep ==
    ASSUME Places, TreeInv, scheme = "ebr_tree", NEW p \in Procs,
           pc[p] \in {"root", "swap"},
           NEW up \in 1 .. P2 - 1, NEW v \in Nat, v % 2 = 0, word' = [word EXCEPT ![up] = v],
           NEW M \in TreeLocal, me' = [me EXCEPT ![p] = M],
           NEW l \in {"in", "climb"}, Go(p, l),
           UNCHANGED <<scheme, mem, epoch, list>>,
           up = EBRT_ROOT => v >= Root /\ l = "in" /\ \A q \in Procs : v <= Leaf(q) + 2,
           up # EBRT_ROOT => Reached(up, v) /\ v <= Root,
           l = "climb" => M.at = up /\ M.read = v
    PROVE  TreeInv' /\ Moves
<1>0. /\ TreeTypes /\ PlaceTypes /\ TreeThread(p) /\ (\A q \in Procs : TreeThread(q))
      /\ UNCHANGED <<scheme, linked, pool, bags, cur, holds>>
      /\ holds \in [Procs -> SUBSET Stock] /\ Stock' = Stock
      /\ Procs' = Procs /\ N' = N /\ P2' = P2 /\ numThreadsPow2' = numThreadsPow2
    BY TreeFacts, SameScheme DEF mem, TreeInv, P2, numThreadsPow2, roundUpPow2, N
<1>1. /\ P2 \in Nat \ {0} /\ numThreadsPow2 = P2 /\ Root \in Nat /\ word[EBRT_ROOT] = Root
      /\ \A q \in Procs : /\ EBRT_LEAF(q) \in P2 .. 2 * P2 - 1 /\ Leaf(q) \in Nat
                          /\ word[EBRT_LEAF(q)] = Leaf(q)
    BY TreeFacts
<1>2. /\ holds[p] = {} /\ Fits(p, pc[p], me[p]) /\ l \in TreeLabels
    BY <1>0 DEF TreeThread, TreeLabels
<1>3. word \in [1 .. 2 * P2 - 1 -> Nat] /\ word' \in [1 .. 2 * P2 - 1 -> Nat]
    BY <1>0 DEF TreeTypes
<1>4. up \in 1 .. 2 * P2 - 1
    BY <1>1
<1>5. \A q \in Procs : Leaf(q)' = Leaf(q)
  <2> SUFFICES ASSUME NEW q \in Procs PROVE Leaf(q)' = Leaf(q)
      OBVIOUS
  <2>1. EBRT_LEAF(q) # up /\ EBRT_LEAF(q)' = EBRT_LEAF(q)
      BY <1>0, <1>1 DEF EBRT_LEAF
  <2> QED BY <1>3, <2>1 DEF Leaf
<1>6. Root' = IF up = EBRT_ROOT THEN v ELSE Root
    BY <1>1, <1>3, <1>4 DEF Root, EBRT_ROOT
<1>7. /\ Root' >= Root /\ Root' % 2 = 0 /\ \A q \in Procs : Root' <= Leaf(q)' + 2
  <2>1. \A q \in Procs : Root <= Leaf(q) + 2
      BY <1>0 DEF TreeThread, Fits
  <2> QED BY <1>0, <1>1, <1>5, <1>6, <2>1 DEF TreeTypes
<1>8. TreeNodes'
  <2>1. \A q \in Procs : Leaf(q)' >= Leaf(q)
      BY <1>1, <1>5
  <2>2. up # EBRT_ROOT => \A q \in Procs : Under(up, q) => Leaf(q)' >= v
      BY <1>5 DEF Reached
  <2> QED BY <1>0, <1>4, <2>1, <2>2, TreeNodeSet
<1>9. Fits(p, l, M)'
  <2>1. Leaf(p) % 2 = 0 /\ Leaf(p) <= Root
      BY <1>2 DEF Fits
  <2>2. Leaf(p)' % 2 = 0 /\ Leaf(p)' <= Root' /\ Root' <= Leaf(p)' + 2
      BY <1>1, <1>5, <1>6, <1>7, <2>1
  <2>3. P2 # 1
      BY <1>2 DEF Fits
  <2>4. CASE l = "in"
      BY <1>0, <2>2, <2>4 DEF Fits
  <2>5. CASE l = "climb"
    <3>1. up # EBRT_ROOT /\ up \in 2 .. 2 * P2 - 1
        BY <1>4, <2>5 DEF EBRT_ROOT
    <3>2. \A q : Under(up, q)' <=> Under(up, q)
        BY <1>0 DEF Under, EBRT_LEAF
    <3>3. Reached(up, v)'
        BY <1>0, <1>5, <3>1, <3>2 DEF Reached
    <3>4. v <= Root'
        BY <1>6, <3>1
    <3>5. Reached(M.at, M.read)'
        BY <2>5, <3>3
    <3> QED BY <1>0, <2>2, <2>3, <2>5, <3>1, <3>4, <3>5 DEF Fits
  <2> QED BY <2>4, <2>5
<1>10. Known(p)' = Known(p) /\ Known(p) \in Nat
  <2>1. pc'[p] = l
      BY <1>0 DEF TreeTypes, Go
  <2> QED BY <1>1, <1>5, <2>1 DEF Known
<1>11. IF pc[p] \in {"announce", "rotate"} THEN Known(p)' >= Known(p)
       ELSE Known(p)' >= Known(p) + (IF l \in {"announce", "rotate"} THEN 2 ELSE 0)
    BY <1>10
<1>12. /\ \A q \in Procs : Leaf(q)' >= Leaf(q) /\ (q # p => Leaf(q)' = Leaf(q))
       /\ Leaf(p)' = Leaf(p)
    BY <1>1, <1>5
<1> QED BY <1>0, <1>2, <1>3, <1>7, <1>8, <1>9, <1>11, <1>12, TreeLocalStep

\* The parent takes the value that has come up, unless it has changed.
LEMMA TreeSwap ==
    ASSUME Places, TreeInv, scheme = "ebr_tree", NEW p \in Procs, pc[p] = "swap",
           NEW up, up = EBRT_PARENT(me[p].at),
           IF word[up] = me[p].size
             THEN /\ word' = [word EXCEPT ![up] = me[p].read]
                  /\ Set(p, [me[p] EXCEPT !.at = up]) /\ Go(p, "climb")
             ELSE Go(p, "in") /\ UNCHANGED <<word, me>>,
           UNCHANGED <<scheme, mem, epoch, list>>
    PROVE  TreeInv' /\ Moves
<1>0. /\ TreeTypes /\ TreeThread(p) /\ me[p] \in TreeLocal /\ P2 \in Nat \ {0}
      /\ UNCHANGED <<scheme, linked, pool, bags, cur, holds>>
      /\ holds \in [Procs -> SUBSET Stock] /\ Stock' = Stock
    BY TreeFacts, SameScheme DEF mem
<1>1. /\ holds[p] = {} /\ Fits(p, "swap", me[p])
    BY <1>0 DEF TreeThread
<1>2. /\ me[p].at \in 2 .. 2 * P2 - 1 /\ me[p].read \in Nat /\ me[p].read % 2 = 0
      /\ me[p].read <= Root
      /\ Reached(me[p].at, me[p].read) /\ Reached(Sibling(me[p].at), me[p].read)
      /\ up # EBRT_ROOT
    BY <1>0, <1>1 DEF Fits, TreeLocal
<1>3. up \in 1 .. P2 - 1 /\ up \in Nat /\ Reached(up, me[p].read)
  <2>1. up \in 1 .. P2 - 1
      BY <1>0, <1>2 DEF EBRT_PARENT
  <2> QED BY <1>0, <1>2, <2>1, TreeUp
<1>4. CASE word[up] = me[p].size
  <2>1. PICK M : M = [me[p] EXCEPT !.at = up]
      OBVIOUS
  <2>2. M \in TreeLocal
      BY Zenon, <1>0, <1>2, <1>3, <2>1, TreeLocalSet
  <2>3. me' = [me EXCEPT ![p] = M] /\ Go(p, "climb") /\ M.at = up /\ M.read = me[p].read
        /\ word' = [word EXCEPT ![up] = me[p].read]
      BY <1>0, <1>4, <2>1 DEF Set, TreeLocal
  <2> QED BY <1>2, <1>3, <2>2, <2>3, TreeNodeStep
<1>5. CASE ~(word[up] = me[p].size)
  <2>1. /\ me' = [me EXCEPT ![p] = me[p]] /\ Go(p, "in") /\ Fits(p, "in", me[p])
        /\ word' = word /\ "in" \in TreeLabels
      BY <1>0, <1>1, <1>5 DEF TreeTypes, Fits, TreeLabels
  <2> QED BY <1>0, <1>1, <2>1, TreeQuietStep
<1> QED BY <1>4, <1>5

\* The epoch moves on when everybody has announced it.
LEMMA TreeRoot ==
    ASSUME Places, TreeInv, scheme = "ebr_tree", NEW p \in Procs, tree_root(p)
    PROVE  TreeInv' /\ Moves
<1>0. /\ TreeTypes /\ TreeThread(p) /\ me[p] \in TreeLocal /\ P2 \in Nat \ {0}
      /\ UNCHANGED <<scheme, linked, pool, bags, cur, holds, me>> /\ pc[p] = "root"
      /\ word[EBRT_ROOT] = Root /\ Root \in Nat /\ PlaceTypes
      /\ UNCHANGED <<scheme, mem, epoch, list>> /\ Go(p, "in")
      /\ \A q \in Procs : TreeThread(q) /\ Leaf(q) \in Nat
    BY TreeFacts DEF mem, tree_root, Tree, At, TreeInv
<1>1. /\ holds[p] = {} /\ Fits(p, "root", me[p])
    BY <1>0 DEF TreeThread
<1>2. /\ me[p].at \in 2 .. 2 * P2 - 1 /\ me[p].read \in Nat /\ me[p].read % 2 = 0
      /\ Reached(me[p].at, me[p].read) /\ Reached(Sibling(me[p].at), me[p].read)
      /\ EBRT_PARENT(me[p].at) = EBRT_ROOT /\ P2 # 1
    BY <1>0, <1>1 DEF Fits, TreeLocal
<1>3. Reached(EBRT_ROOT, me[p].read)
    BY <1>2, TreeUp
<1>4. \A q \in Procs : Leaf(q) >= me[p].read
    BY <1>0, <1>3, TreeShape DEF Reached, PlaceTypes
<1>5. PICK v \in Nat : v = IF Root = me[p].read THEN Root + 2 ELSE Root
    BY <1>0
<1>6. word' = [word EXCEPT ![EBRT_ROOT] = v]
    BY <1>0, <1>5 DEF tree_root, EPOCH_INCREMENT
<1>7. v % 2 = 0 /\ v >= Root /\ \A q \in Procs : v <= Leaf(q) + 2
  <2>1. Root % 2 = 0 /\ \A q \in Procs : Root <= Leaf(q) + 2
      BY <1>0 DEF TreeThread, Fits, TreeTypes
  <2> QED BY <1>0, <1>2, <1>4, <1>5, <2>1
<1>8. EBRT_ROOT \in 1 .. P2 - 1
    BY <1>0, <1>2 DEF EBRT_ROOT
<1>9. me' = [me EXCEPT ![p] = me[p]]
    BY <1>0 DEF TreeTypes
<1> QED BY <1>0, <1>6, <1>7, <1>8, <1>9, TreeNodeStep

\* The bag that is emptied holds nothing that anybody may follow.
LEMMA TreeRotate ==
    ASSUME Places, TreeInv, scheme = "ebr_tree", NEW p \in Procs, pc[p] = "rotate",
           RotateBags(p, 3), Due(p, me[p], Leaf(p)), UNCHANGED <<scheme, epoch, word, list>>
    PROVE  TreeInv' /\ Moves
<1>0. /\ TreeTypes /\ TreeHeld /\ PlaceTypes /\ TreeNodes
      /\ Procs' = Procs /\ Stock' = Stock /\ N' = N
      /\ P2' = P2 /\ numThreadsPow2' = numThreadsPow2
      /\ \A q \in Procs : TreeThread(q) /\ Leaf(q) \in Nat
    BY TreeFacts, SameScheme DEF TreeInv, P2, numThreadsPow2, roundUpPow2, N
<1>1. PICK M \in TreeLocal, l \in {"in", "climb"} :
         me' = [me EXCEPT ![p] = M] /\ Go(p, l) /\ Fits(p, l, M)
    BY TreeDue
<1>2. /\ pc' \in [Procs -> TreeLabels] /\ pc'[p] = l
      /\ \A q \in Procs \ {p} : pc'[q] = pc[q]
  <2>1. l \in TreeLabels
      BY DEF TreeLabels
  <2> QED BY <1>0, <1>1, <2>1, OneLabel DEF TreeTypes
<1>3. /\ me' \in [Procs -> TreeLocal] /\ me'[p] = M
      /\ \A q \in Procs \ {p} : me'[q] = me[q]
    BY <1>0, <1>1, OneThread DEF TreeTypes
<1>4. PICK i \in 0 .. 2 : i = (cur[p] + 1) % 3 /\ i # cur[p]
    BY <1>0 DEF PlaceTypes
<1>5. PICK F \in FullBlocks(bags[p][i]) :
         /\ pool' = pool \cup F /\ bags' = [bags EXCEPT ![p][i] = @ \ F]
         /\ cur' = [cur EXCEPT ![p] = i] /\ UNCHANGED <<linked, holds>>
    BY <1>4 DEF RotateBags
<1>6. F \subseteq bags[p][i] /\ F \in SUBSET Stock
    BY <1>0, <1>5, FullBlocksIn DEF PlaceTypes
<1>7. /\ cur' \in [Procs -> 0 .. 2] /\ cur'[p] = i /\ \A q \in Procs \ {p} : cur'[q] = cur[q]
    BY <1>0, <1>5 DEF PlaceTypes
<1>8. Moves
  <2>1. \A q \in Procs : me'[q].mine = me[q].mine
    <3>1. me[p].mine = {} /\ M.mine = {}
        BY <1>0 DEF TreeTypes, TreeLocal
    <3> QED BY <1>3, <3>1
  <2>2. Frees(p, i, F)
      BY <1>5, <1>6, <2>1 DEF Frees
  <2> QED BY <1>6, <1>7, <2>2 DEF Moves
<1>9. /\ Root' = Root /\ \A q \in Procs : Leaf(q)' = Leaf(q)
    BY <1>0 DEF Root, Leaf, EBRT_ROOT, EBRT_LEAF
<1>10. TreeTypes'
    BY <1>0, <1>2, <1>3, <1>5, <1>9 DEF TreeTypes, TreeLocal
<1>11. /\ \A j, q : Under(j, q)' <=> Under(j, q)
       /\ \A j, v : Reached(j, v)' <=> Reached(j, v)
    BY <1>0, <1>9 DEF Under, Reached, EBRT_LEAF
<1>12. TreeNodes'
    BY <1>0, <1>11 DEF TreeNodes
<1>13. ASSUME NEW q \in Procs PROVE TreeThread(q)'
  <2>1. CASE q = p
    <3>1. Fits(p, l, M)'
        BY <1>0, <1>1, <1>9, <1>11 DEF Fits
    <3>2. holds'[p] = {}
        BY <1>0, <1>5 DEF TreeThread
    <3> QED BY <1>2, <1>3, <2>1, <3>1, <3>2 DEF TreeThread, Fits
  <2>2. CASE q # p
    <3>1. /\ TreeThread(q) /\ pc'[q] = pc[q] /\ me'[q] = me[q] /\ holds'[q] = holds[q]
        BY <1>0, <1>2, <1>3, <1>5, <2>2
    <3>2. /\ (Sibling(me[q].at))' = Sibling(me[q].at)
          /\ (EBRT_PARENT(me[q].at))' = EBRT_PARENT(me[q].at)
          /\ EBRT_ROOT' = EBRT_ROOT
        BY <3>1 DEF Sibling, EBRT_PARENT, EBRT_ROOT
    <3>3. /\ (Reached(me[q].at, me[q].read))' <=> Reached(me[q].at, me[q].read)
          /\ (Reached(Sibling(me[q].at), me[q].read))' <=> Reached(Sibling(me[q].at), me[q].read)
        BY <1>0, <1>9, <1>11, <3>1, <3>2 DEF Reached
    <3> QED BY <1>0, <1>9, <3>1, <3>2, <3>3 DEF TreeThread, Fits
  <2> QED BY <2>1, <2>2
<1>14. /\ bags' \in [Procs -> [0 .. 2 -> SUBSET Stock]]
       /\ \A q \in Procs, j \in 0 .. 2 :
             bags'[q][j] = IF q = p /\ j = i THEN bags[p][i] \ F ELSE bags[q][j]
  <2>1. PICK X : X = bags[p][i] \ F
      OBVIOUS
  <2>2. bags' = [bags EXCEPT ![p][i] = X] /\ i \in 0 .. 2
      BY <1>5, <2>1
  <2>3. bags[p][i] \in SUBSET Stock
      BY <1>0, <2>2 DEF PlaceTypes
  <2>4. X \in SUBSET Stock
      BY <2>1, <2>3
  <2>5. /\ bags' \in [Procs -> [0 .. 2 -> SUBSET Stock]]
        /\ \A q \in Procs, j \in 0 .. 2 :
              bags'[q][j] = IF q = p /\ j = i THEN X ELSE bags[q][j]
      BY <1>0, <2>2, <2>4, BagsExcept DEF PlaceTypes
  <2> QED BY <2>1, <2>5
<1>15. ASSUME NEW u \in Procs, NEW q \in Procs
       PROVE  /\ TreeTurns(u, q) \in Int
              /\ TreeTurns(u, q)' = TreeTurns(u, q) - (IF u = p THEN 2 ELSE 0)
              /\ u = p => TreeTurns(u, q) >= 2
  <2>1. /\ Leaf(q) \in Nat /\ Leaf(u) \in Nat /\ Leaf(u) <= Root /\ Root <= Leaf(q) + 2
        /\ Root \in Nat /\ me[u].read \in Nat
      BY <1>0, TreeFacts DEF TreeThread, Fits, TreeTypes, TreeLocal
  <2>2. CASE u = p
      BY <1>2, <1>9, <2>1, <2>2 DEF TreeTurns, Known
  <2>3. CASE u # p
      BY <1>2, <1>3, <1>9, <2>1, <2>3 DEF TreeTurns, Known
  <2> QED BY <2>2, <2>3
<1>16. ASSUME NEW u \in Procs, NEW j \in 0 .. 2
       PROVE  /\ Age(u, j) \in Nat
              /\ ~(u = p /\ j = i) => Age(u, j)' = Age(u, j) - (IF u = p THEN 1 ELSE 0)
              /\ u = p /\ j = i => Age(u, j) = 1
  <2>1. cur[u] \in 0 .. 2
      BY <1>0 DEF PlaceTypes
  <2> QED BY <1>4, <1>7, <2>1 DEF Age
<1>17. ASSUME NEW q \in Procs, NEW r \in holds[q], NEW u \in Procs, NEW j \in 0 .. 2,
              r \in bags[u][j]
       PROVE  TreeTurns(u, q)' < 2 * Age(u, j)' /\ ~(u = p /\ j = i)
  <2>1. TreeTurns(u, q) < 2 * Age(u, j)
      BY <1>0, <1>17 DEF TreeHeld
  <2> QED BY <1>15, <1>16, <2>1
<1>18. TreeHeld'
  <2>1. ASSUME NEW q \in Procs, NEW r \in holds[q] PROVE r \notin pool'
    <3>1. r \notin F
        BY <1>6, <1>17
    <3> QED BY <1>0, <1>5, <3>1 DEF TreeHeld
  <2>2. ASSUME NEW q \in Procs, NEW r \in holds[q], NEW u \in Procs, NEW j \in 0 .. 2,
               r \in bags'[u][j]
        PROVE  TreeTurns(u, q)' < 2 * Age(u, j)'
    <3>1. r \in bags[u][j]
        BY <1>14, <2>2
    <3> QED BY <1>17, <3>1
  <2> QED BY <1>0, <1>5, <2>1, <2>2 DEF TreeHeld
<1> QED BY <1>0, <1>8, <1>10, <1>12, <1>13, <1>18 DEF TreeInv

\* A record is unlinked and retired into the bag that is emptied last.
LEMMA TreeRetire ==
    ASSUME Places, TreeInv, scheme = "ebr_tree", NEW p \in Procs, pc[p] = "in", UnlinkAndRetire(p)
    PROVE  TreeInv' /\ Moves
<1>0. /\ TreeTypes /\ TreeHeld /\ PlaceTypes /\ TreeNodes
      /\ UNCHANGED <<scheme, pc, me, holds, epoch, word, list>>
      /\ Procs' = Procs /\ Stock' = Stock /\ N' = N
      /\ P2' = P2 /\ numThreadsPow2' = numThreadsPow2
      /\ \A q \in Procs : TreeThread(q) /\ Leaf(q) \in Nat
    BY TreeFacts, SameScheme DEF TreeInv, UnlinkAndRetire, P2, numThreadsPow2, roundUpPow2, N
<1>1. PICK r : /\ r \in linked /\ r \in Stock /\ linked' = linked \ {r}
               /\ pool' = pool /\ cur' = cur /\ bags' = [bags EXCEPT ![p][cur[p]] = @ \cup {r}]
    BY <1>0 DEF UnlinkAndRetire, Unlink, retire, PlaceTypes
<1>2. PICK i \in 0 .. 2 : i = cur[p]
    BY <1>0 DEF PlaceTypes
<1>3. Moves
  <2>1. Retires(p, i, r)
      BY <1>0, <1>1, <1>2 DEF Retires
  <2> QED BY <1>0, <1>1, <2>1 DEF Moves, PlaceTypes
<1>4. /\ Root' = Root /\ \A q \in Procs : Leaf(q)' = Leaf(q)
    BY <1>0 DEF Root, Leaf, EBRT_ROOT, EBRT_LEAF
<1>5. /\ \A j, q : Under(j, q)' <=> Under(j, q)
      /\ \A j, v : Reached(j, v)' <=> Reached(j, v)
    BY <1>0, <1>4 DEF Under, Reached, EBRT_LEAF
<1>6. TreeTypes' /\ TreeNodes'
    BY <1>0, <1>4, <1>5 DEF TreeTypes, TreeNodes
<1>7. ASSUME NEW q \in Procs PROVE TreeThread(q)'
  <2>1. /\ TreeThread(q) /\ pc'[q] = pc[q] /\ me'[q] = me[q] /\ holds'[q] = holds[q]
      BY <1>0
  <2>2. /\ (Sibling(me[q].at))' = Sibling(me[q].at)
        /\ (EBRT_PARENT(me[q].at))' = EBRT_PARENT(me[q].at)
        /\ EBRT_ROOT' = EBRT_ROOT
      BY <2>1 DEF Sibling, EBRT_PARENT, EBRT_ROOT
  <2>3. /\ (Reached(me[q].at, me[q].read))' <=> Reached(me[q].at, me[q].read)
        /\ (Reached(Sibling(me[q].at), me[q].read))' <=> Reached(Sibling(me[q].at), me[q].read)
      BY <1>0, <1>4, <1>5, <2>1, <2>2 DEF Reached
  <2> QED BY <1>0, <1>4, <2>1, <2>2, <2>3 DEF TreeThread, Fits
<1>8. \A u \in Procs, q \in Procs : TreeTurns(u, q)' = TreeTurns(u, q)
    BY <1>0, <1>4 DEF TreeTurns, Known
<1>9. TreeHeld'
  <2>1. \A u \in Procs, j \in 0 .. 2 :
           bags'[u][j] = IF u = p /\ j = i THEN bags[p][i] \cup {r} ELSE bags[u][j]
    <3>1. PICK X \in SUBSET Stock : X = bags[p][i] \cup {r}
        BY <1>0, <1>1 DEF PlaceTypes
    <3>2. bags' = [bags EXCEPT ![p][i] = X]
        BY <1>1, <1>2, <3>1
    <3> QED BY <1>0, <3>1, <3>2, BagsExcept DEF PlaceTypes
  <2>2. ASSUME NEW q \in Procs, NEW x \in holds[q], NEW u \in Procs, NEW j \in 0 .. 2,
               x \in bags'[u][j]
        PROVE  TreeTurns(u, q) < 2 * Age(u, j)
    <3>1. CASE x \in bags[u][j]
        BY <1>0, <2>2, <3>1 DEF TreeHeld
    <3>2. CASE x \notin bags[u][j]
      <4>1. u = p /\ j = cur[p]
          BY <1>2, <2>1, <2>2, <3>2
      <4>2. Age(p, cur[p]) = 3
          BY DEF Age
      <4>3. Leaf(q) <= Root /\ Root <= Leaf(p) + 2 /\ Leaf(q) \in Nat /\ Leaf(p) \in Nat
            /\ Root \in Nat
          BY <1>0, TreeFacts DEF TreeThread, Fits
      <4>4. TreeTurns(p, q) <= 4 /\ TreeTurns(p, q) \in Int
          BY <4>3 DEF TreeTurns, Known
      <4> QED BY <4>1, <4>2, <4>4
    <3> QED BY <3>1, <3>2
  <2>3. \A u \in Procs : \A j : Age(u, j)' = Age(u, j)
      BY <1>1 DEF Age
  <2> QED BY <1>0, <1>1, <1>8, <2>2, <2>3 DEF TreeHeld
<1> QED BY <1>0, <1>3, <1>6, <1>7, <1>9 DEF TreeInv

\* An operation finds a record, or ends.
LEMMA TreeInside ==
    ASSUME Places, TreeInv, scheme = "ebr_tree", NEW p \in Procs, pc[p] = "in",
           Find(p) \/ tree_endOp(p)
    PROVE  TreeInv' /\ Moves
<1>0. /\ TreeTypes /\ PlaceTypes /\ Fits(p, "in", me[p]) /\ me[p] \in TreeLocal
    BY TreeFacts DEF TreeThread
<1>1. /\ UNCHANGED <<scheme, linked, pool, bags, cur, word>> /\ me' = [me EXCEPT ![p] = me[p]]
    BY <1>0 DEF Find, tree_endOp, TreeTypes
<1>2. CASE Find(p)
  <2>1. PICK r \in linked \ holds[p] : holds' = [holds EXCEPT ![p] = @ \cup {r}]
      BY <1>2 DEF Find
  <2>2. /\ holds' \in [Procs -> SUBSET Stock] /\ \A q \in Procs \ {p} : holds'[q] = holds[q]
        /\ holds'[p] \subseteq holds[p] \cup linked
      BY <1>0, <2>1 DEF TreeTypes, PlaceTypes
  <2>3. Go(p, "in") /\ "in" \in TreeLabels
      BY <1>0, <1>2 DEF Go, Find, TreeTypes, TreeLabels
  <2> QED BY <1>0, <1>1, <2>2, <2>3, TreeQuietStep
<1>3. CASE tree_endOp(p)
  <2>1. /\ holds' = [holds EXCEPT ![p] = {}] /\ Go(p, "idle") /\ "idle" \in TreeLabels
      BY <1>3 DEF tree_endOp, TreeLabels
  <2>2. /\ holds' \in [Procs -> SUBSET Stock] /\ \A q \in Procs \ {p} : holds'[q] = holds[q]
        /\ holds'[p] = {}
      BY <1>0, <2>1 DEF TreeTypes
  <2>3. Fits(p, "idle", me[p])
      BY <1>0 DEF Fits
  <2> QED BY <1>0, <1>1, <2>1, <2>2, <2>3, TreeQuietStep
<1> QED BY <1>2, <1>3

\* A step of a thread.
LEMMA TreeStep ==
    ASSUME Places, TreeInv, NEW p \in Procs, EpochTreeNext(p)
    PROVE  TreeInv' /\ Moves
<1>0. scheme = "ebr_tree"
    BY Zenon DEF EpochTreeNext, tree_startOp, tree_climb, tree_root, tree_parent, tree_endOp,
                   Tree, At
<1>1. CASE tree_startOp(p)
  <2>1. word[EBRT_LEAF(p)] = Leaf(p) /\ word[EBRT_ROOT] = Root
      BY DEF Leaf, Root
  <2>2. \/ /\ pc[p] = "idle"
           /\ IF Root # BITS_EPOCH(Leaf(p))
                THEN Set(p, [me[p] EXCEPT !.read = Root]) /\ Go(p, "announce")
                ELSE Due(p, me[p], Leaf(p))
           /\ UNCHANGED <<scheme, mem, epoch, word, list>>
        \/ /\ pc[p] = "announce" /\ word' = [word EXCEPT ![EBRT_LEAF(p)] = me[p].read]
           /\ Go(p, "rotate") /\ UNCHANGED <<scheme, mem, me, epoch, list>>
        \/ /\ pc[p] = "rotate" /\ RotateBags(p, 3) /\ Due(p, me[p], Leaf(p))
           /\ UNCHANGED <<scheme, epoch, word, list>>
      BY <1>1, <2>1, Zenon DEF tree_startOp, Tree, At
  <2> QED BY <1>0, <2>2, TreeStart, TreeAnnounce, TreeRotate
<1>2. CASE tree_parent(p)
  <2>1. PICK up : up = EBRT_PARENT(me[p].at)
      OBVIOUS
  <2>2. /\ UNCHANGED <<scheme, mem, epoch, list>>
        /\ \/ /\ pc[p] = "parent"
              /\ IF word[up] >= me[p].read THEN Go(p, "in") /\ UNCHANGED me
                 ELSE Go(p, "swap") /\ Set(p, [me[p] EXCEPT !.size = word[up]])
              /\ UNCHANGED word
           \/ /\ pc[p] = "swap"
              /\ IF word[up] = me[p].size
                   THEN /\ word' = [word EXCEPT ![up] = me[p].read]
                        /\ Set(p, [me[p] EXCEPT !.at = up]) /\ Go(p, "climb")
                   ELSE Go(p, "in") /\ UNCHANGED <<word, me>>
      BY <1>2, <2>1, Zenon DEF tree_parent, Tree, At
  <2>3. CASE pc[p] = "parent"
      BY <1>0, <2>1, <2>2, <2>3, TreeParentRead
  <2>4. CASE pc[p] = "swap"
      BY <1>0, <2>1, <2>2, <2>4, TreeSwap
  <2> QED BY <2>2, <2>3, <2>4
<1>3. \/ tree_startOp(p) \/ tree_climb(p) \/ tree_root(p) \/ tree_parent(p)
      \/ pc[p] = "in" /\ Find(p)
      \/ pc[p] = "in" /\ UnlinkAndRetire(p)
      \/ pc[p] = "in" /\ tree_endOp(p)
    BY DEF EpochTreeNext, Tree, At, tree_endOp
<1> QED BY <1>0, <1>1, <1>2, <1>3, TreeClimb, TreeRoot, TreeInside, TreeRetire

\* Nothing has been announced when the program starts.
LEMMA TreeInitial == Init /\ EpochTreeInit /\ scheme = "ebr_tree" => Places /\ TreeInv
<1> SUFFICES ASSUME Init, EpochTreeInit, scheme = "ebr_tree" PROVE Places /\ TreeInv
    OBVIOUS
<1>0. /\ scheme \in DOMAIN Plan /\ N \in Nat \ {0} /\ Procs = 0 .. N - 1
      /\ P2 \in Nat \ {0} /\ numThreadsPow2 = P2
    BY ProcsAre, TreeSize DEF Init, P2
<1>1. Local \in TreeLocal /\ Local.mine = {}
    BY DEF Local, TreeLocal
<1>2. /\ \A p \in Procs : me[p] = Local /\ pc[p] = "idle" /\ holds[p] = {}
      /\ pc \in [Procs -> TreeLabels] /\ me \in [Procs -> TreeLocal]
      /\ holds \in [Procs -> SUBSET Stock]
    BY <1>1 DEF EpochTreeInit, Init, TreeLabels
<1>3. GET_WITH_QUIESCENT(0) = 1
    BY DEF GET_WITH_QUIESCENT, BITS_EPOCH
<1>4. word = [i \in 1 .. 2 * P2 - 1 |-> IF i = EBRT_ROOT THEN 2 ELSE IF Fake(i) THEN 1 ELSE 0]
    BY <1>0, <1>3 DEF EpochTreeInit, EPOCH_INCREMENT
<1>5. Root = 2 /\ word \in [1 .. 2 * P2 - 1 -> Nat]
    BY <1>0, <1>4 DEF Root, EBRT_ROOT
<1>6. ASSUME NEW q \in Procs
      PROVE  /\ Leaf(q) = IF P2 = 1 THEN 2 ELSE 0
             /\ \A i : Under(i, q) => ~Fake(i)
  <2>1. /\ EBRT_LEAF(q) \in P2 .. 2 * P2 - 1 /\ Under(EBRT_LEAF(q), q)
      BY <1>0, TreeShape
  <2>2. \A i : Under(i, q) => ~Fake(i)
    <3>1. q \in 0 .. P2 - 1 /\ ~(q >= N)
        BY <1>0, TreeSize
    <3> QED BY <1>0, <3>1 DEF Fake
  <2>3. EBRT_LEAF(q) = EBRT_ROOT <=> P2 = 1
    <3>1. P2 = 1 => EBRT_LEAF(q) = 1
        BY <2>1
    <3> QED BY <1>0, <2>1, <3>1 DEF EBRT_ROOT
  <2>4. EBRT_LEAF(q) \in 1 .. 2 * P2 - 1
      BY <1>0, <2>1
  <2> QED BY <1>4, <2>1, <2>2, <2>3, <2>4 DEF Leaf
<1>7. TreeTypes
    BY <1>2, <1>5 DEF TreeTypes
<1>8. ASSUME NEW q \in Procs PROVE TreeThread(q)
    BY <1>2, <1>5, <1>6 DEF TreeThread, Fits
<1>9. TreeNodes
  <2> SUFFICES ASSUME NEW i \in 2 .. 2 * P2 - 1
               PROVE  IF QUIESCENT(word[i]) THEN \A q \in Procs : ~Under(i, q)
                      ELSE Reached(i, word[i])
      BY DEF TreeNodes
  <2>1. word[i] = IF Fake(i) THEN 1 ELSE 0
      BY <1>0, <1>4 DEF EBRT_ROOT
  <2>2. QUIESCENT(word[i]) <=> Fake(i)
      BY <2>1 DEF QUIESCENT
  <2> QED BY <1>6, <2>1, <2>2 DEF Reached
<1>10. TreeHeld
    BY <1>2 DEF TreeHeld
<1>11. Places
    BY <1>1, <1>2, PlacesInit
<1> QED BY <1>7, <1>8, <1>9, <1>10, <1>11 DEF TreeInv

-----------------------------------------------------------------------------
(***************************************************************************)
(* reclaimer_hazardptr, when no operation gives up a single record         *)
(***************************************************************************)
Slot      == Stock \cup {NoRecord}
Lists     == [data : [0 .. Slots - 1 -> Slot], size : 0 .. Slots]
ScanLabels == {"scanSize", "scanSlot", "scanned"}

HazardLabels == ScanLabels \cup {"idle", "in", "found", "stored", "confirm", "erase", "shrink"}

HazardLocal == [read : {0}, seen : {1}, checked : {0}, since : {0}, at : Nat,
                ix : Nat, size : 0 .. Slots, times : {<< >>}, obj : Slot,
                found : SUBSET Slot, mine : {{}}]

HazardTypes ==
    /\ pc \in [Procs -> HazardLabels] /\ me \in [Procs -> HazardLocal]
    /\ list \in [Procs -> Lists] /\ holds \in [Procs -> SUBSET Stock]

\* The first slots of a thread's list hold what it may follow; the last one
\* may be in doubt.
Full(p) == list[p].size - (IF pc[p] \in {"confirm", "erase", "shrink"} THEN 1 ELSE 0)

Hazards(p) == {list[p].data[i] : i \in 0 .. Full(p) - 1}

HazardThread(p) ==
    /\ holds[p] = Hazards(p) /\ Full(p) \in 0 .. Slots
    /\ pc[p] \in {"found", "stored", "confirm", "erase"} =>
          me[p].obj \in Stock /\ me[p].obj \notin holds[p]
    /\ pc[p] \in {"found", "stored"} => list[p].size < Slots
    /\ pc[p] = "stored" => list[p].data[list[p].size] = me[p].obj
    /\ pc[p] \in {"confirm", "erase"} => list[p].data[list[p].size - 1] = me[p].obj
    /\ pc[p] = "idle" => list[p].size = 0
    /\ pc[p] = "scanSlot" => me[p].at < N
    /\ pc[p] = "scanned" => me[p].at >= N

\* The scan of u does not miss that p has announced r.
Noticed(u, p, r) ==
    \/ r \in me[u].found
    \/ me[u].at < p
    \/ me[u].at = p /\ pc[u] = "scanSize"
    \/ /\ me[u].at = p /\ pc[u] = "scanSlot"
       /\ \E j \in 0 .. Slots - 1 : /\ me[u].ix <= j /\ j < me[u].size
                                    /\ j < Full(p) /\ list[p].data[j] = r

HazardHeld ==
    \A p \in Procs : \A r \in holds[p] :
       /\ r \notin pool
       /\ \A u \in Procs : pc[u] \in ScanLabels /\ r \in bags[u][0] => Noticed(u, p, r)

HazardInv == HazardTypes /\ (\A p \in Procs : HazardThread(p)) /\ HazardHeld

\* A step of p by which it announces, or takes back, and no bag is changed.
LEMMA HazardOwnStep ==
    ASSUME Places, HazardInv, NEW p \in Procs, pc[p] \notin ScanLabels, pc'[p] \notin ScanLabels,
           UNCHANGED <<scheme, linked, pool, bags, cur>>,
           me' \in [Procs -> HazardLocal], pc' \in [Procs -> HazardLabels],
           list' \in [Procs -> Lists], holds' \in [Procs -> SUBSET Stock],
           \A q \in Procs \ {p} : me'[q] = me[q] /\ pc'[q] = pc[q]
                                    /\ list'[q] = list[q] /\ holds'[q] = holds[q],
           holds'[p] \subseteq holds[p] \cup linked,
           \/ holds'[p] = {}
           \/ /\ Full(p) <= Full(p)'
              /\ \A j \in 0 .. Full(p) - 1 : list'[p].data[j] = list[p].data[j],
           HazardThread(p)'
    PROVE  HazardInv' /\ Moves
<1>0. /\ HazardTypes /\ HazardHeld /\ PlaceTypes /\ Apart /\ (\A q \in Procs : HazardThread(q))
      /\ Procs' = Procs /\ Stock' = Stock /\ N' = N
    BY SameScheme DEF HazardInv, Places
<1>1. \A q \in Procs \ {p} : me'[q] = me[q]
    OBVIOUS
<1>2. \A q \in Procs \ {p} : pc'[q] = pc[q]
    OBVIOUS
<1>3. \A q \in Procs \ {p} : list'[q] = list[q]
    OBVIOUS
<1>4. \A q \in Procs \ {p} : holds'[q] = holds[q]
    OBVIOUS
<1>5. HazardTypes'
  <2>1. HazardLocal' = HazardLocal /\ Lists' = Lists
      BY <1>0 DEF HazardLocal, Lists, Slot
  <2> QED BY <1>0, <2>1 DEF HazardTypes
<1>6. Moves
  <2>1. me'[p].mine = {} /\ me[p].mine = {}
      BY <1>0 DEF HazardTypes, HazardLocal
  <2> QED BY <1>0, <1>1, <2>1 DEF Moves, Unmoved, PlaceTypes
<1>7. ASSUME NEW q \in Procs, q # p PROVE Full(q)' = Full(q)
    BY <1>2, <1>3, <1>7 DEF Full
<1>8. ASSUME NEW q \in Procs PROVE HazardThread(q)'
  <2>1. CASE q = p
      BY <1>1, <1>2, <1>3, <1>4, <2>1
  <2>2. CASE q # p
    <3>1. /\ HazardThread(q) /\ pc'[q] = pc[q] /\ me'[q] = me[q] /\ list'[q] = list[q]
          /\ holds'[q] = holds[q] /\ Full(q)' = Full(q)
        BY <1>0, <1>1, <1>2, <1>3, <1>4, <1>7, <2>2
    <3>2. Hazards(q)' = Hazards(q)
        BY <3>1 DEF Hazards
    <3> QED BY <1>0, <3>1, <3>2 DEF HazardThread
  <2> QED BY <2>1, <2>2
<1>9. ASSUME NEW q \in Procs, NEW r \in holds'[q], NEW u \in Procs,
             pc'[u] \in ScanLabels, r \in bags[u][0]
      PROVE  Noticed(u, q, r)'
  <2>1. u # p /\ pc'[u] = pc[u] /\ me'[u] = me[u]
      BY <1>1, <1>2, <1>9 DEF ScanLabels
  <2>2. r \in holds[q]
    <3>1. r \notin linked
        BY <1>0, <1>9 DEF Apart, BagsApart
    <3> QED BY <1>4, <1>9, <3>1
  <2>3. Noticed(u, q, r)
      BY <1>0, <1>9, <2>1, <2>2 DEF HazardHeld
  <2>4. ASSUME NEW j \in 0 .. Slots - 1, j < Full(q), list[q].data[j] = r
        PROVE  j < Full(q)' /\ list'[q].data[j] = r
    <3>1. CASE q # p
        BY <1>3, <1>7, <2>4, <3>1
    <3>2. CASE q = p
      <4>1. /\ Full(p) <= Full(p)' /\ \A k \in 0 .. Full(p) - 1 : list'[p].data[k] = list[p].data[k]
          BY <1>4, <1>9, <3>2
      <4>2. Full(p) \in Int /\ Full(p)' \in Int
          BY <1>0, <1>3, RoomAssumption DEF Full, HazardTypes, Lists
      <4>3. j \in 0 .. Full(p) - 1
          BY <2>4, <3>2, <4>2
      <4> QED BY <1>3, <2>4, <3>2, <4>1, <4>2, <4>3
    <3> QED BY <3>1, <3>2
  <2> QED BY <2>1, <2>3, <2>4 DEF Noticed
<1>10. HazardHeld'
  <2>1. ASSUME NEW q \in Procs, NEW r \in holds'[q] PROVE r \notin pool'
    <3>1. r \in holds[q] \cup linked
        BY <1>4, <2>1
    <3> QED BY <1>0, <3>1 DEF HazardHeld, Apart
  <2> QED BY <1>0, <1>9, <2>1 DEF HazardHeld
<1> QED BY <1>0, <1>5, <1>6, <1>8, <1>10 DEF HazardInv

\* A step of the scan of u.
LEMMA HazardScanStep ==
    ASSUME Places, HazardInv, NEW u \in Procs, NEW M \in HazardLocal, NEW l \in ScanLabels,
           pc[u] \in ScanLabels, UNCHANGED <<scheme, mem, list>>,
           me' = [me EXCEPT ![u] = M], Go(u, l),
           l = "scanSlot" => M.at < N, l = "scanned" => M.at >= N,
           me'[u] = M /\ pc'[u] = l =>
              \A q \in Procs : \A r \in holds[q] :
                 r \in bags[u][0] /\ Noticed(u, q, r) => Noticed(u, q, r)'
    PROVE  HazardInv' /\ Moves
<1>0. /\ HazardTypes /\ HazardHeld /\ PlaceTypes /\ (\A q \in Procs : HazardThread(q))
      /\ UNCHANGED <<scheme, linked, pool, bags, cur, holds, list>>
      /\ Procs' = Procs /\ Stock' = Stock /\ N' = N
    BY SameScheme DEF HazardInv, Places, mem
<1>1. /\ me' \in [Procs -> HazardLocal] /\ me'[u] = M
      /\ \A q \in Procs \ {u} : me'[q] = me[q]
    BY <1>0, OneThread DEF HazardTypes
<1>2. /\ pc' \in [Procs -> HazardLabels] /\ pc'[u] = l
      /\ \A q \in Procs \ {u} : pc'[q] = pc[q]
  <2>1. l \in HazardLabels
      BY DEF HazardLabels
  <2> QED BY <1>0, <2>1, OneLabel DEF HazardTypes
<1>3. HazardTypes'
  <2>1. HazardLocal' = HazardLocal /\ Lists' = Lists
      BY <1>0 DEF HazardLocal, Lists, Slot
  <2> QED BY <1>0, <1>1, <1>2, <2>1 DEF HazardTypes
<1>4. Moves
  <2>1. M.mine = {} /\ me[u].mine = {}
      BY <1>0 DEF HazardTypes, HazardLocal
  <2> QED BY <1>0, <1>1, <2>1 DEF Moves, Unmoved, PlaceTypes
<1>5. ASSUME NEW q \in Procs PROVE Full(q)' = Full(q)
  <2>1. CASE q = u
      BY <1>0, <1>2, <2>1 DEF Full, ScanLabels
  <2>2. CASE q # u
      BY <1>0, <1>2, <2>2 DEF Full
  <2> QED BY <2>1, <2>2
<1>6. ASSUME NEW q \in Procs PROVE HazardThread(q)'
  <2>1. /\ HazardThread(q) /\ list'[q] = list[q] /\ holds'[q] = holds[q] /\ Hazards(q)' = Hazards(q)
        /\ Full(q)' = Full(q)
      BY <1>0, <1>5 DEF Hazards
  <2>2. CASE q = u
      BY <1>0, <1>1, <1>2, <2>1, <2>2 DEF HazardThread, ScanLabels
  <2>3. CASE q # u
    <3>1. pc'[q] = pc[q] /\ me'[q] = me[q]
        BY <1>1, <1>2, <2>3
    <3> QED BY <1>0, <2>1, <3>1 DEF HazardThread
  <2> QED BY <2>2, <2>3
<1>7. ASSUME NEW q \in Procs, NEW r \in holds[q], NEW v \in Procs,
             pc'[v] \in ScanLabels, r \in bags[v][0]
      PROVE  Noticed(v, q, r)'
  <2>1. CASE v = u
      BY <1>0, <1>1, <1>2, <1>7, <2>1 DEF HazardHeld
  <2>2. CASE v # u
    <3>1. pc'[v] = pc[v] /\ me'[v] = me[v] /\ Noticed(v, q, r)
        BY <1>0, <1>1, <1>2, <1>7, <2>2 DEF HazardHeld
    <3> QED BY <1>0, <1>5, <3>1 DEF Noticed
  <2> QED BY <2>1, <2>2
<1>8. HazardHeld'
    BY <1>0, <1>7 DEF HazardHeld
<1> QED BY <1>0, <1>3, <1>4, <1>6, <1>8 DEF HazardInv

\* The private variables of a thread keep their types.
LEMMA HazardLocalSet ==
    /\ \A S \in HazardLocal : \A o \in Slot : [S EXCEPT !.obj = o] \in HazardLocal
    /\ \A S \in HazardLocal : \A c \in 0 .. Slots : [S EXCEPT !.size = c, !.ix = 0] \in HazardLocal
    /\ \A S \in HazardLocal : \A a \in Nat : [S EXCEPT !.at = a] \in HazardLocal
    /\ \A S \in HazardLocal : \A b \in Nat : \A F \in SUBSET Slot :
          [S EXCEPT !.found = F, !.ix = b] \in HazardLocal
    /\ \A S \in HazardLocal : [S EXCEPT !.found = {}, !.at = 0] \in HazardLocal
<1>1. \A S \in HazardLocal : \A o \in Slot : [S EXCEPT !.obj = o] \in HazardLocal
    BY DEF HazardLocal
<1>2. \A S \in HazardLocal : \A c \in 0 .. Slots : [S EXCEPT !.size = c] \in HazardLocal
    BY DEF HazardLocal
<1>3. \A S \in HazardLocal : \A b \in Nat : [S EXCEPT !.ix = b] \in HazardLocal
    BY DEF HazardLocal
<1>4. \A S \in HazardLocal : \A a \in Nat : [S EXCEPT !.at = a] \in HazardLocal
    BY DEF HazardLocal
<1>5. \A S \in HazardLocal : \A F \in SUBSET Slot : [S EXCEPT !.found = F] \in HazardLocal
    BY DEF HazardLocal
<1>6. 0 \in Nat /\ {} \in SUBSET Slot
    OBVIOUS
<1> QED BY Zenon, <1>1, <1>2, <1>3, <1>4, <1>5, <1>6

\* What the steps of a thread start from.
LEMMA HazardFacts ==
    ASSUME Places, HazardInv, NEW p \in Procs
    PROVE  /\ HazardTypes /\ PlaceTypes /\ HazardThread(p) /\ me[p] \in HazardLocal
           /\ list[p] \in Lists /\ list[p].size \in 0 .. Slots
           /\ list[p].data \in [0 .. Slots - 1 -> Slot]
           /\ holds[p] \in SUBSET Stock /\ Slots \in Nat \ {0} /\ Full(p) \in 0 .. Slots
           /\ me \in [Procs -> HazardLocal] /\ pc \in [Procs -> HazardLabels]
           /\ list \in [Procs -> Lists] /\ holds \in [Procs -> SUBSET Stock]
BY RoomAssumption DEF HazardInv, HazardTypes, Places, Lists, HazardThread

\* The label of p, and nobody else's.
LEMMA HazardLabel ==
    ASSUME HazardTypes, NEW p \in Procs, NEW l \in HazardLabels, Go(p, l)
    PROVE  /\ pc' \in [Procs -> HazardLabels] /\ pc'[p] = l
           /\ \A q \in Procs \ {p} : pc'[q] = pc[q]
BY OneLabel DEF HazardTypes

\* An operation starts.
LEMMA HazardStart ==
    ASSUME Places, HazardInv, NEW p \in Procs, hp_startOp(p)
    PROVE  HazardInv' /\ Moves
<1>0. /\ HazardTypes /\ HazardThread(p) /\ pc[p] = "idle"
      /\ UNCHANGED <<scheme, linked, pool, bags, cur, list, holds, me>>
      /\ Procs' = Procs /\ Stock' = Stock /\ N' = N /\ Full(p) \in 0 .. Slots
    BY HazardFacts, SameScheme DEF mem, hp_startOp, Hazard, At
<1>1. /\ pc' \in [Procs -> HazardLabels] /\ pc'[p] = "in"
      /\ \A q \in Procs \ {p} : pc'[q] = pc[q]
  <2>1. "in" \in HazardLabels
      BY DEF HazardLabels
  <2> QED BY <1>0, <2>1, HazardLabel DEF hp_startOp
<1>2. Full(p)' = Full(p) /\ Hazards(p)' = Hazards(p)
    BY <1>0, <1>1 DEF Full, Hazards
<1>3. HazardThread(p)'
    BY <1>0, <1>1, <1>2 DEF HazardThread
<1>4. pc[p] \notin ScanLabels /\ pc'[p] \notin ScanLabels
    BY <1>0, <1>1 DEF ScanLabels
<1> QED BY <1>0, <1>1, <1>2, <1>3, <1>4, HazardOwnStep DEF HazardTypes

\* It finds a record.
LEMMA HazardFinds ==
    ASSUME Places, HazardInv, scheme = "hazardptr", NEW p \in Procs,
           pc[p] = "in", list[p].size < Plan[scheme].slots[p],
           NEW r \in linked \ holds[p], Set(p, [me[p] EXCEPT !.obj = r]), Go(p, "found"),
           UNCHANGED <<scheme, mem, epoch, word, list>>
    PROVE  HazardInv' /\ Moves
<1>0. /\ HazardTypes /\ PlaceTypes /\ HazardThread(p) /\ me[p] \in HazardLocal
      /\ UNCHANGED <<scheme, linked, pool, bags, cur, list, holds>>
      /\ Procs' = Procs /\ Stock' = Stock /\ N' = N /\ Full(p) \in 0 .. Slots
      /\ Slots \in Nat /\ list[p].size \in 0 .. Slots
    BY HazardFacts, SameScheme DEF mem
<1>1. PICK M : M = [me[p] EXCEPT !.obj = r]
    OBVIOUS
<1>2. r \in Slot /\ r \in Stock
    BY <1>0 DEF PlaceTypes, Slot
<1>3. M \in HazardLocal
    BY Zenon, <1>0, <1>1, <1>2, HazardLocalSet
<1>4. M.obj = r /\ me' = [me EXCEPT ![p] = M]
    BY <1>0, <1>1 DEF HazardLocal, Set
<1>5. /\ me' \in [Procs -> HazardLocal] /\ me'[p] = M /\ \A q \in Procs \ {p} : me'[q] = me[q]
    BY <1>0, <1>3, <1>4, OneThread DEF HazardTypes
<1>6. /\ pc' \in [Procs -> HazardLabels] /\ pc'[p] = "found"
      /\ \A q \in Procs \ {p} : pc'[q] = pc[q]
  <2>1. "found" \in HazardLabels
      BY DEF HazardLabels
  <2> QED BY <1>0, <2>1, HazardLabel
<1>7. Full(p)' = Full(p) /\ Hazards(p)' = Hazards(p)
    BY <1>0, <1>6 DEF Full, Hazards
<1>8. list[p].size < Slots
  <2>1. Plan[scheme].slots[p] \in 0 .. Slots
      BY <1>0, RoomAssumption DEF Procs, PlaceTypes
  <2> QED BY <1>0, <2>1
<1>9. HazardThread(p)'
    BY <1>0, <1>2, <1>4, <1>5, <1>6, <1>7, <1>8 DEF HazardThread
<1>10. pc[p] \notin ScanLabels /\ pc'[p] \notin ScanLabels
    BY <1>6 DEF ScanLabels
<1> QED BY <1>0, <1>5, <1>6, <1>7, <1>9, <1>10, HazardOwnStep DEF HazardTypes

\* The record is stored in a slot behind the list.
LEMMA HazardStores ==
    ASSUME Places, HazardInv, NEW p \in Procs, pc[p] = "found",
           AddStore(p, me[p].obj), Go(p, "stored"), UNCHANGED <<scheme, mem, me, epoch, word>>
    PROVE  HazardInv' /\ Moves
<1>0. /\ HazardTypes /\ HazardThread(p) /\ list[p] \in Lists
      /\ list[p].data \in [0 .. Slots - 1 -> Slot] /\ list[p].size \in 0 .. Slots
      /\ UNCHANGED <<scheme, linked, pool, bags, cur, holds, me>>
      /\ Procs' = Procs /\ Stock' = Stock /\ N' = N /\ Full(p) \in 0 .. Slots
      /\ Slots \in Nat
    BY HazardFacts, SameScheme DEF mem
<1>1. PICK L : L = [list[p] EXCEPT !.data[list[p].size] = me[p].obj]
    OBVIOUS
<1>2. /\ list[p].size < Slots /\ list[p].size \in 0 .. Slots - 1
      /\ me[p].obj \in Slot /\ me[p].obj \in Stock /\ Full(p) = list[p].size
    BY <1>0 DEF HazardThread, Slot, Full
<1>3. /\ L.size = list[p].size /\ L.data = [list[p].data EXCEPT ![list[p].size] = me[p].obj]
      /\ L \in Lists
    BY <1>0, <1>1, <1>2 DEF Lists
<1>4. list' \in [Procs -> Lists] /\ list'[p] = L /\ \A q \in Procs \ {p} : list'[q] = list[q]
    BY <1>0, <1>1, <1>3 DEF AddStore, HazardTypes
<1>5. /\ L.data[list[p].size] = me[p].obj
      /\ \A j \in 0 .. Full(p) - 1 : L.data[j] = list[p].data[j]
    BY <1>0, <1>2, <1>3
<1>6. /\ pc' \in [Procs -> HazardLabels] /\ pc'[p] = "stored"
      /\ \A q \in Procs \ {p} : pc'[q] = pc[q]
  <2>1. "stored" \in HazardLabels
      BY DEF HazardLabels
  <2> QED BY <1>0, <2>1, HazardLabel
<1>7. Full(p)' = Full(p) /\ Hazards(p)' = Hazards(p)
  <2>1. Full(p)' = Full(p)
      BY <1>3, <1>4, <1>6 DEF Full
  <2> QED BY <1>4, <1>5, <2>1 DEF Hazards
<1>8. HazardThread(p)'
    BY <1>0, <1>2, <1>3, <1>4, <1>5, <1>6, <1>7 DEF HazardThread
<1>9. pc[p] \notin ScanLabels /\ pc'[p] \notin ScanLabels
    BY <1>6 DEF ScanLabels
<1> QED BY <1>0, <1>4, <1>5, <1>6, <1>7, <1>8, <1>9, HazardOwnStep DEF HazardTypes

\* The size grows.
LEMMA HazardGrows ==
    ASSUME Places, HazardInv, NEW p \in Procs, pc[p] = "stored",
           AddSize(p), Go(p, "confirm"), UNCHANGED <<scheme, mem, me, epoch, word>>
    PROVE  HazardInv' /\ Moves
<1>0. /\ HazardTypes /\ HazardThread(p) /\ list[p] \in Lists
      /\ list[p].size \in 0 .. Slots
      /\ UNCHANGED <<scheme, linked, pool, bags, cur, holds, me>>
      /\ Procs' = Procs /\ Stock' = Stock /\ N' = N /\ Full(p) \in 0 .. Slots
      /\ Slots \in Nat
    BY HazardFacts, SameScheme DEF mem
<1>1. PICK L : L = [list[p] EXCEPT !.size = @ + 1]
    OBVIOUS
<1>2. list[p].size < Slots /\ Full(p) = list[p].size /\ list[p].data[list[p].size] = me[p].obj
    BY <1>0 DEF HazardThread, Full
<1>3. L.size = list[p].size + 1 /\ L.data = list[p].data /\ L \in Lists
    BY <1>0, <1>1, <1>2 DEF Lists
<1>4. list' \in [Procs -> Lists] /\ list'[p] = L /\ \A q \in Procs \ {p} : list'[q] = list[q]
    BY <1>0, <1>1, <1>3 DEF AddSize, HazardTypes
<1>5. /\ pc' \in [Procs -> HazardLabels] /\ pc'[p] = "confirm"
      /\ \A q \in Procs \ {p} : pc'[q] = pc[q]
  <2>1. "confirm" \in HazardLabels
      BY DEF HazardLabels
  <2> QED BY <1>0, <2>1, HazardLabel
<1>6. Full(p)' = Full(p) /\ Hazards(p)' = Hazards(p)
  <2>1. Full(p)' = Full(p)
      BY <1>0, <1>2, <1>3, <1>4, <1>5 DEF Full
  <2> QED BY <1>3, <1>4, <2>1 DEF Hazards
<1>7. list'[p].data[list'[p].size - 1] = me[p].obj
    BY <1>0, <1>2, <1>3, <1>4
<1>8. HazardThread(p)'
    BY <1>0, <1>2, <1>3, <1>4, <1>5, <1>6, <1>7 DEF HazardThread
<1>9. pc[p] \notin ScanLabels /\ pc'[p] \notin ScanLabels
    BY <1>5 DEF ScanLabels
<1> QED BY <1>0, <1>3, <1>4, <1>5, <1>6, <1>8, <1>9, HazardOwnStep DEF HazardTypes

\* The data structure is asked whether the record is still there.
LEMMA HazardConfirms ==
    ASSUME Places, HazardInv, NEW p \in Procs, pc[p] = "confirm",
           IF me[p].obj \in linked
             THEN holds' = [holds EXCEPT ![p] = @ \cup {me[p].obj}] /\ Go(p, "in")
             ELSE Go(p, "erase") /\ UNCHANGED holds,
           UNCHANGED <<scheme, me, linked, pool, bags, cur, epoch, word, list>>
    PROVE  HazardInv' /\ Moves
<1>0. /\ HazardTypes /\ HazardThread(p) /\ list[p] \in Lists
      /\ list[p].size \in 0 .. Slots /\ me[p].obj \in Stock
      /\ Procs' = Procs /\ Stock' = Stock /\ N' = N /\ Full(p) \in 0 .. Slots
      /\ Slots \in Nat /\ Full(p) = list[p].size - 1
    BY HazardFacts, SameScheme DEF HazardThread, Full
<1>1. CASE me[p].obj \in linked
  <2>1. /\ holds' \in [Procs -> SUBSET Stock] /\ holds'[p] = holds[p] \cup {me[p].obj}
        /\ \A q \in Procs \ {p} : holds'[q] = holds[q]
      BY <1>0, <1>1 DEF HazardTypes
  <2>2. /\ pc' \in [Procs -> HazardLabels] /\ pc'[p] = "in"
        /\ \A q \in Procs \ {p} : pc'[q] = pc[q]
    <3>1. "in" \in HazardLabels
        BY DEF HazardLabels
    <3> QED BY <1>0, <1>1, <3>1, HazardLabel
  <2>3. Full(p)' = Full(p) + 1
      BY <1>0, <2>2 DEF Full
  <2>4. Hazards(p)' = Hazards(p) \cup {me[p].obj}
    <3>1. Hazards(p)' = {list[p].data[i] : i \in 0 .. Full(p)}
      <4>1. Full(p)' - 1 = Full(p)
          BY <1>0, <2>3
      <4> QED BY <4>1 DEF Hazards
    <3>2. list[p].data[Full(p)] = me[p].obj
        BY <1>0 DEF HazardThread
    <3>3. 0 .. Full(p) = (0 .. Full(p) - 1) \cup {Full(p)}
        BY <1>0
    <3> QED BY <3>1, <3>2, <3>3 DEF Hazards
  <2>5. HazardThread(p)'
      BY <1>0, <2>1, <2>2, <2>3, <2>4 DEF HazardThread
  <2>6. pc[p] \notin ScanLabels /\ pc'[p] \notin ScanLabels
      BY <2>2 DEF ScanLabels
  <2> QED BY <1>0, <1>1, <2>1, <2>2, <2>3, <2>5, <2>6, HazardOwnStep DEF HazardTypes
<1>2. CASE me[p].obj \notin linked
  <2>1. /\ pc' \in [Procs -> HazardLabels] /\ pc'[p] = "erase" /\ holds' = holds
        /\ \A q \in Procs \ {p} : pc'[q] = pc[q]
    <3>1. "erase" \in HazardLabels
        BY DEF HazardLabels
    <3> QED BY <1>0, <1>2, <3>1, HazardLabel
  <2>2. Full(p)' = Full(p) /\ Hazards(p)' = Hazards(p)
      BY <1>0, <2>1 DEF Full, Hazards
  <2>3. HazardThread(p)'
      BY <1>0, <2>1, <2>2 DEF HazardThread
  <2>4. pc[p] \notin ScanLabels /\ pc'[p] \notin ScanLabels
      BY <2>1 DEF ScanLabels
  <2> QED BY <1>0, <2>1, <2>2, <2>3, <2>4, HazardOwnStep DEF HazardTypes
<1> QED BY <1>1, <1>2

\* The record to be taken back is the last one, and no slot changes.
LEMMA HazardErasedLast ==
    ASSUME Places, HazardInv, NEW p \in Procs, pc[p] = "erase",
           NEW ix, ix = CHOOSE i \in 0 .. list[p].size - 1 :
                    /\ list[p].data[i] = me[p].obj
                    /\ \A j \in 0 .. i - 1 : list[p].data[j] # me[p].obj,
           list' = [list EXCEPT ![p].data[ix] = list[p].data[list[p].size - 1]]
    PROVE  list' = list
<1>0. /\ HazardTypes /\ HazardThread(p) /\ list[p] \in Lists
      /\ list[p].size \in 0 .. Slots /\ list[p].data \in [0 .. Slots - 1 -> Slot]
      /\ Full(p) \in 0 .. Slots
      /\ Slots \in Nat /\ Full(p) = list[p].size - 1
    BY HazardFacts DEF HazardThread, Full
<1>1. PICK n \in 0 .. Slots - 1 : n = list[p].size - 1
    BY <1>0
<1>2. /\ list[p].data[n] = me[p].obj
      /\ \A j \in 0 .. n - 1 : list[p].data[j] # me[p].obj
  <2>1. list[p].data[n] = me[p].obj /\ me[p].obj \notin Hazards(p)
      BY <1>0, <1>1 DEF HazardThread
  <2> QED BY <1>0, <1>1, <2>1 DEF Hazards
<1>3. ix = n
  <2>1. /\ n \in 0 .. list[p].size - 1
        /\ list[p].data[n] = me[p].obj
        /\ \A j \in 0 .. n - 1 : list[p].data[j] # me[p].obj
      BY <1>0, <1>1, <1>2
  <2>2. /\ ix \in 0 .. list[p].size - 1 /\ list[p].data[ix] = me[p].obj
      BY <2>1, Zenon
  <2> QED BY <1>0, <1>1, <1>2, <2>2
<1>4. [list[p] EXCEPT !.data[n] = list[p].data[n]] = list[p]
    BY <1>0, <1>1 DEF Lists
<1> QED BY <1>0, <1>1, <1>3, <1>4 DEF HazardTypes

\* So nothing happens but that the size is to shrink.
LEMMA HazardErases ==
    ASSUME Places, HazardInv, NEW p \in Procs, pc[p] = "erase", Go(p, "shrink"), list' = list,
           UNCHANGED <<scheme, mem, me, epoch, word>>
    PROVE  HazardInv' /\ Moves
<1>0. /\ HazardTypes /\ HazardThread(p)
      /\ UNCHANGED <<scheme, linked, pool, bags, cur, holds, me>>
      /\ Procs' = Procs /\ Stock' = Stock /\ N' = N /\ Full(p) \in 0 .. Slots
    BY HazardFacts, SameScheme DEF mem
<1>1. /\ pc' \in [Procs -> HazardLabels] /\ pc'[p] = "shrink"
      /\ \A q \in Procs \ {p} : pc'[q] = pc[q]
  <2>1. "shrink" \in HazardLabels
      BY DEF HazardLabels
  <2> QED BY <1>0, <2>1, HazardLabel
<1>2. Full(p)' = Full(p) /\ Hazards(p)' = Hazards(p)
    BY <1>0, <1>1 DEF Full, Hazards
<1>3. HazardThread(p)'
    BY <1>0, <1>1, <1>2 DEF HazardThread
<1>4. pc[p] \notin ScanLabels /\ pc'[p] \notin ScanLabels
    BY <1>1 DEF ScanLabels
<1> QED BY <1>0, <1>1, <1>2, <1>3, <1>4, HazardOwnStep DEF HazardTypes

\* The list shrinks.
LEMMA HazardShrinks ==
    ASSUME Places, HazardInv, NEW p \in Procs, pc[p] = "shrink", Go(p, "in"),
           list' = [list EXCEPT ![p].size = @ - 1],
           UNCHANGED <<scheme, mem, me, epoch, word>>
    PROVE  HazardInv' /\ Moves
<1>0. /\ HazardTypes /\ HazardThread(p) /\ list[p] \in Lists
      /\ list[p].size \in 0 .. Slots
      /\ UNCHANGED <<scheme, linked, pool, bags, cur, holds, me>>
      /\ Procs' = Procs /\ Stock' = Stock /\ N' = N /\ Full(p) \in 0 .. Slots
      /\ Slots \in Nat /\ Full(p) = list[p].size - 1
    BY HazardFacts, SameScheme DEF HazardThread, Full, mem
<1>1. PICK L : L = [list[p] EXCEPT !.size = @ - 1]
    OBVIOUS
<1>2. L.size = Full(p) /\ L.data = list[p].data /\ L \in Lists
    BY <1>0, <1>1 DEF Lists
<1>3. list' \in [Procs -> Lists] /\ list'[p] = L /\ \A q \in Procs \ {p} : list'[q] = list[q]
    BY <1>0, <1>1, <1>2 DEF HazardTypes
<1>4. /\ pc' \in [Procs -> HazardLabels] /\ pc'[p] = "in"
      /\ \A q \in Procs \ {p} : pc'[q] = pc[q]
  <2>1. "in" \in HazardLabels
      BY DEF HazardLabels
  <2> QED BY <1>0, <2>1, HazardLabel
<1>5. Full(p)' = Full(p) /\ Hazards(p)' = Hazards(p)
  <2>1. Full(p)' = Full(p)
      BY <1>0, <1>2, <1>3, <1>4 DEF Full
  <2> QED BY <1>2, <1>3, <2>1 DEF Hazards
<1>6. HazardThread(p)'
    BY <1>0, <1>2, <1>3, <1>4, <1>5 DEF HazardThread
<1>7. pc[p] \notin ScanLabels /\ pc'[p] \notin ScanLabels
    BY <1>4 DEF ScanLabels
<1> QED BY <1>0, <1>2, <1>3, <1>4, <1>5, <1>6, <1>7, HazardOwnStep DEF HazardTypes

\* The operation ends, and gives up all its records.
LEMMA HazardEnds ==
    ASSUME Places, HazardInv, NEW p \in Procs, hp_endOp(p)
    PROVE  HazardInv' /\ Moves
<1>0. /\ HazardTypes /\ HazardThread(p) /\ list[p] \in Lists
      /\ list[p].size \in 0 .. Slots /\ pc[p] = "in"
      /\ UNCHANGED <<scheme, linked, pool, bags, cur, me>>
      /\ Procs' = Procs /\ Stock' = Stock /\ N' = N /\ Full(p) \in 0 .. Slots
      /\ Slots \in Nat /\ Clear(p) /\ holds' = [holds EXCEPT ![p] = {}] /\ Go(p, "idle")
    BY HazardFacts, SameScheme DEF HazardThread, hp_endOp, Hazard, At
<1>1. PICK L : L = [list[p] EXCEPT !.size = 0]
    OBVIOUS
<1>2. L.size = 0 /\ L.data = list[p].data /\ L \in Lists
    BY <1>0, <1>1 DEF Lists
<1>3. list' \in [Procs -> Lists] /\ list'[p] = L /\ \A q \in Procs \ {p} : list'[q] = list[q]
    BY <1>0, <1>1, <1>2 DEF HazardTypes, Clear
<1>4. /\ pc' \in [Procs -> HazardLabels] /\ pc'[p] = "idle"
      /\ \A q \in Procs \ {p} : pc'[q] = pc[q]
  <2>1. "idle" \in HazardLabels
      BY DEF HazardLabels
  <2> QED BY <1>0, <2>1, HazardLabel
<1>5. /\ holds' \in [Procs -> SUBSET Stock] /\ holds'[p] = {}
      /\ \A q \in Procs \ {p} : holds'[q] = holds[q]
    BY <1>0 DEF HazardTypes
<1>6. Full(p)' = 0 /\ Hazards(p)' = {}
  <2>1. Full(p)' = 0
      BY <1>2, <1>3, <1>4 DEF Full
  <2> QED BY <2>1 DEF Hazards
<1>7. HazardThread(p)'
    BY <1>0, <1>2, <1>3, <1>4, <1>5, <1>6 DEF HazardThread
<1>8. pc[p] \notin ScanLabels /\ pc'[p] \notin ScanLabels
    BY <1>0, <1>4 DEF ScanLabels
<1> QED BY <1>0, <1>3, <1>4, <1>5, <1>7, <1>8, HazardOwnStep DEF HazardTypes

\* The next list is begun, or all have been seen.
LEMMA HazardScanSize ==
    ASSUME Places, HazardInv, NEW u \in Procs, pc[u] = "scanSize", ScanSize(u),
           UNCHANGED <<scheme, mem, epoch, word, list>>
    PROVE  HazardInv' /\ Moves
<1>0. /\ HazardTypes /\ PlaceTypes /\ HazardThread(u) /\ me[u] \in HazardLocal
      /\ N \in Nat \ {0} /\ Procs = 0 .. N - 1 /\ list' = list /\ Slots \in Nat
      /\ \A q \in Procs : HazardThread(q) /\ Full(q) \in 0 .. Slots
    BY HazardFacts, ProcsAre DEF PlaceTypes, HazardInv
<1>1. CASE me[u].at >= N
  <2>1. Go(u, "scanned") /\ me' = [me EXCEPT ![u] = me[u]]
      BY <1>0, <1>1 DEF ScanSize, HazardTypes
  <2>2. pc'[u] = "scanned" /\ me'[u] = me[u]
      BY <1>0, <2>1 DEF Go, HazardTypes
  <2>3. \A q \in Procs : \A r : Noticed(u, q, r) => Noticed(u, q, r)'
    <3>1. \A q \in Procs : me[u].at # q
        BY <1>0, <1>1
    <3> QED BY <2>2, <3>1 DEF Noticed
  <2>4. "scanned" \in ScanLabels /\ pc[u] \in ScanLabels
      BY DEF ScanLabels
  <2> QED BY <1>0, <1>1, <2>1, <2>3, <2>4, HazardScanStep
<1>2. CASE ~(me[u].at >= N)
  <2>0. me[u].at \in Procs
      BY <1>0, <1>2 DEF HazardLocal
  <2>1. PICK c \in 0 .. Slots : c = list[me[u].at].size
      BY <2>0, HazardFacts
  <2>2. PICK M : M = [me[u] EXCEPT !.size = c, !.ix = 0]
      OBVIOUS
  <2>3. M \in HazardLocal
      BY Zenon, <1>0, <2>2, HazardLocalSet
  <2>4. /\ M.size = c /\ M.ix = 0 /\ M.at = me[u].at /\ M.found = me[u].found
      BY <1>0, <2>2 DEF HazardLocal
  <2>5. Go(u, "scanSlot") /\ me' = [me EXCEPT ![u] = M]
      BY <1>2, <2>1, <2>2 DEF ScanSize, Set
  <2>6. pc'[u] = "scanSlot" /\ me'[u] = M
      BY <1>0, <2>5 DEF Go, HazardTypes
  <2>7. ASSUME NEW q \in Procs, NEW r \in holds[q], Noticed(u, q, r)
        PROVE  Noticed(u, q, r)'
    <3>1. CASE me[u].at = q
      <4>1. PICK j \in 0 .. Full(q) - 1 : list[q].data[j] = r
          BY <1>0 DEF HazardThread, Hazards
      <4>2. j \in 0 .. Slots - 1 /\ j < Full(q)
          BY <1>0, <4>1
      <4>3. j < c /\ 0 <= j
        <5>1. list[q].size \in 0 .. Slots /\ Full(q) \in 0 .. Slots
            BY HazardFacts
        <5>2. Full(q) <= list[q].size
            BY <5>1 DEF Full
        <5> QED BY <1>0, <2>1, <3>1, <4>1, <5>1, <5>2
      <4>4. Full(q)' = Full(q)
        <5>1. CASE q = u
            BY <1>0, <2>6, <5>1 DEF Full
        <5>2. CASE q # u
            BY <1>0, <2>5, <5>2 DEF Full, Go, HazardTypes
        <5> QED BY <5>1, <5>2
      <4> QED BY <1>0, <2>4, <2>6, <3>1, <4>1, <4>2, <4>3, <4>4 DEF Noticed
    <3>2. CASE me[u].at # q
        BY <2>4, <2>6, <2>7, <3>2 DEF Noticed
    <3> QED BY <3>1, <3>2
  <2>8. "scanSlot" \in ScanLabels /\ pc[u] \in ScanLabels
      BY DEF ScanLabels
  <2>9. M.at < N
      BY <1>0, <2>0, <2>4
  <2> QED BY <1>0, <2>3, <2>5, <2>7, <2>8, <2>9, HazardScanStep
<1> QED BY <1>1, <1>2

\* One more slot is looked at, or the list has been seen.
LEMMA HazardScanSlot ==
    ASSUME Places, HazardInv, NEW u \in Procs, pc[u] = "scanSlot", ScanSlot(u),
           UNCHANGED <<scheme, mem, epoch, word, list>>
    PROVE  HazardInv' /\ Moves
<1>0. /\ HazardTypes /\ PlaceTypes /\ HazardThread(u) /\ me[u] \in HazardLocal
      /\ N \in Nat \ {0} /\ Procs = 0 .. N - 1 /\ list' = list /\ Slots \in Nat
      /\ me[u].at \in Procs /\ me[u].at \in Nat /\ me[u].ix \in Nat /\ me[u].size \in 0 .. Slots
      /\ me[u].found \in SUBSET Slot
  <2>1. /\ HazardTypes /\ PlaceTypes /\ HazardThread(u) /\ me[u] \in HazardLocal
        /\ N \in Nat \ {0} /\ Procs = 0 .. N - 1 /\ list' = list /\ Slots \in Nat
      BY HazardFacts, ProcsAre DEF PlaceTypes
  <2>2. me[u].at < N
      BY <2>1 DEF HazardThread
  <2> QED BY <2>1, <2>2 DEF HazardLocal
<1>1. CASE me[u].ix >= me[u].size
  <2>1. PICK M : M = [me[u] EXCEPT !.at = me[u].at + 1]
      OBVIOUS
  <2>2. M \in HazardLocal
    <3>1. me[u].at + 1 \in Nat
        BY <1>0
    <3> QED BY Zenon, <1>0, <2>1, <3>1, HazardLocalSet
  <2>3. M.at = me[u].at + 1 /\ M.found = me[u].found
      BY <1>0, <2>1 DEF HazardLocal
  <2>4. Go(u, "scanSize") /\ me' = [me EXCEPT ![u] = M]
      BY <1>1, <2>1 DEF ScanSlot, Set
  <2>5. pc'[u] = "scanSize" /\ me'[u] = M
      BY <1>0, <2>4 DEF Go, HazardTypes
  <2>6. \A q \in Procs : \A r : Noticed(u, q, r) => Noticed(u, q, r)'
      BY <1>0, <1>1, <2>3, <2>5 DEF Noticed
  <2>7. "scanSize" \in ScanLabels /\ pc[u] \in ScanLabels
      BY DEF ScanLabels
  <2> QED BY <1>0, <2>2, <2>4, <2>6, <2>7, HazardScanStep
<1>2. CASE ~(me[u].ix >= me[u].size)
  <2>1. PICK v : v = list[me[u].at].data[me[u].ix]
      OBVIOUS
  <2>2. PICK M : M = [me[u] EXCEPT !.found = me[u].found \cup {v}, !.ix = me[u].ix + 1]
      OBVIOUS
  <2>3. M \in HazardLocal
    <3>1. me[u].ix \in 0 .. Slots - 1
        BY <1>0, <1>2
    <3>2. v \in Slot
      <4>1. list[me[u].at].data \in [0 .. Slots - 1 -> Slot]
          BY <1>0, HazardFacts
      <4> QED BY <2>1, <3>1, <4>1
    <3>3. me[u].found \cup {v} \in SUBSET Slot /\ me[u].ix + 1 \in Nat
        BY <1>0, <3>2
    <3> QED BY Zenon, <1>0, <2>2, <3>3, HazardLocalSet
  <2>4. /\ M.size = me[u].size /\ M.ix = me[u].ix + 1 /\ M.at = me[u].at
        /\ M.found = me[u].found \cup {v}
      BY <1>0, <2>2 DEF HazardLocal
  <2>5. /\ me' = [me EXCEPT ![u] = M] /\ pc' = pc
      BY <1>2, <2>1, <2>2 DEF ScanSlot, Set
  <2>6. pc'[u] = "scanSlot" /\ me'[u] = M /\ Go(u, "scanSlot")
      BY <1>0, <2>5 DEF Go, HazardTypes
  <2>7. ASSUME NEW q \in Procs, NEW r, Noticed(u, q, r)
        PROVE  Noticed(u, q, r)'
    <3>1. CASE \E j \in 0 .. Slots - 1 : /\ me[u].at = q
                  /\ me[u].ix <= j /\ j < me[u].size /\ j < Full(q) /\ list[q].data[j] = r
      <4>1. PICK j \in 0 .. Slots - 1 : /\ me[u].at = q
                  /\ me[u].ix <= j /\ j < me[u].size /\ j < Full(q) /\ list[q].data[j] = r
          BY <3>1
      <4>2. CASE j = me[u].ix
          BY <2>1, <2>4, <2>6, <4>1, <4>2 DEF Noticed
      <4>3. CASE j # me[u].ix
        <5>1. Full(q)' = Full(q)
            BY <1>0, <2>5 DEF Full
        <5>2. M.ix <= j
            BY <1>0, <2>4, <4>1, <4>3
        <5> QED BY <1>0, <2>4, <2>6, <4>1, <5>1, <5>2 DEF Noticed
      <4> QED BY <4>2, <4>3
    <3>2. CASE r \in me[u].found \/ me[u].at < q
        BY <2>4, <2>6, <3>2 DEF Noticed
    <3> QED BY <2>7, <3>1, <3>2 DEF Noticed
  <2>8. "scanSlot" \in ScanLabels /\ pc[u] \in ScanLabels /\ M.at < N
      BY <1>0, <2>4 DEF ScanLabels
  <2> QED BY <1>0, <2>3, <2>5, <2>6, <2>7, <2>8, HazardScanStep
<1> QED BY <1>1, <1>2

\* A record is unlinked and retired; with enough of them a scan starts.
LEMMA HazardRetires ==
    ASSUME Places, HazardInv, NEW p \in Procs, hp_retire(p)
    PROVE  HazardInv' /\ Moves
<1>0. /\ HazardTypes /\ HazardHeld /\ PlaceTypes /\ Apart /\ me[p] \in HazardLocal
      /\ pc[p] = "in" /\ UNCHANGED <<scheme, holds, epoch, word, list>>
      /\ Procs' = Procs /\ Stock' = Stock /\ N' = N /\ N \in Nat \ {0} /\ Procs = 0 .. N - 1
      /\ \A q \in Procs : HazardThread(q) /\ Full(q) \in 0 .. Slots
    BY HazardFacts, SameScheme, ProcsAre
         DEF hp_retire, Hazard, At, HazardInv, Places, PlaceTypes
<1>1. PICK r : /\ r \in linked /\ r \in Stock /\ linked' = linked \ {r}
               /\ pool' = pool /\ cur' = cur /\ bags' = [bags EXCEPT ![p][cur[p]] = @ \cup {r}]
  <2>1. \E r \in Records : Unlink(p, r) /\ retire(p, r)
      BY DEF hp_retire
  <2> QED BY <1>0, <2>1 DEF Unlink, retire, PlaceTypes
<1>2. PICK i \in 0 .. 2 : i = cur[p]
    BY <1>0 DEF PlaceTypes
<1>3. PICK M \in HazardLocal, l \in {"in", "scanSize"} :
         /\ me' = [me EXCEPT ![p] = M] /\ Go(p, l) /\ (l = "scanSize" => M.at = 0)
         /\ M.obj = me[p].obj
  <2>1. CASE Cardinality(bags'[p][0]) >= Capacity
    <3>1. PICK M : M = [me[p] EXCEPT !.found = {}, !.at = 0]
        OBVIOUS
    <3>2. M \in HazardLocal
        BY Zenon, <1>0, <3>1, HazardLocalSet
    <3>3. M.at = 0 /\ M.obj = me[p].obj
        BY <1>0, <3>1 DEF HazardLocal
    <3>4. me' = [me EXCEPT ![p] = M] /\ Go(p, "scanSize")
        BY <2>1, <3>1 DEF hp_retire, StartScan, Set
    <3> QED BY <3>2, <3>3, <3>4
  <2>2. CASE ~(Cardinality(bags'[p][0]) >= Capacity)
    <3>1. me' = me /\ pc' = pc
        BY <2>2 DEF hp_retire
    <3>2. me' = [me EXCEPT ![p] = me[p]] /\ Go(p, "in")
        BY <1>0, <3>1 DEF HazardTypes, Go
    <3> QED BY <1>0, <3>2
  <2> QED BY <2>1, <2>2
<1>4. /\ me' \in [Procs -> HazardLocal] /\ me'[p] = M /\ \A q \in Procs \ {p} : me'[q] = me[q]
    BY <1>0, <1>3, OneThread DEF HazardTypes
<1>5. /\ pc' \in [Procs -> HazardLabels] /\ pc'[p] = l
      /\ \A q \in Procs \ {p} : pc'[q] = pc[q]
  <2>1. l \in HazardLabels
      BY DEF HazardLabels, ScanLabels
  <2> QED BY <1>0, <1>3, <2>1, HazardLabel
<1>6. Moves
  <2>1. \A q \in Procs : me'[q].mine = me[q].mine
    <3>1. me[p].mine = {} /\ M.mine = {}
        BY <1>0 DEF HazardLocal
    <3> QED BY <1>4, <3>1
  <2>2. Retires(p, i, r)
      BY <1>0, <1>1, <1>2, <2>1 DEF Retires
  <2> QED BY <1>0, <1>1, <2>2 DEF Moves, PlaceTypes
<1>7. ASSUME NEW q \in Procs PROVE Full(q)' = Full(q)
  <2>1. CASE q = p
      BY <1>0, <1>5, <2>1 DEF Full
  <2>2. CASE q # p
      BY <1>0, <1>5, <2>2 DEF Full
  <2> QED BY <2>1, <2>2
<1>8. HazardTypes'
  <2>1. HazardLocal' = HazardLocal /\ Lists' = Lists
      BY <1>0 DEF HazardLocal, Lists, Slot
  <2> QED BY <1>0, <1>4, <1>5, <2>1 DEF HazardTypes
<1>9. ASSUME NEW q \in Procs PROVE HazardThread(q)'
  <2>1. /\ HazardThread(q) /\ list'[q] = list[q] /\ holds'[q] = holds[q] /\ Hazards(q)' = Hazards(q)
        /\ Full(q)' = Full(q)
      BY <1>0, <1>7 DEF Hazards
  <2>2. CASE q = p
      BY <1>0, <1>4, <1>5, <2>1, <2>2 DEF HazardThread
  <2>3. CASE q # p
    <3>1. pc'[q] = pc[q] /\ me'[q] = me[q]
        BY <1>4, <1>5, <2>3
    <3> QED BY <1>0, <2>1, <3>1 DEF HazardThread
  <2> QED BY <2>2, <2>3
<1>10. \A u \in Procs, j \in 0 .. 2 :
          bags'[u][j] = IF u = p /\ j = i THEN bags[p][i] \cup {r} ELSE bags[u][j]
    <3>1. PICK X \in SUBSET Stock : X = bags[p][i] \cup {r}
        BY <1>0, <1>1 DEF PlaceTypes
    <3>2. bags' = [bags EXCEPT ![p][i] = X]
        BY <1>1, <1>2, <3>1
    <3> QED BY <1>0, <3>1, <3>2, BagsExcept DEF PlaceTypes
<1>11. ASSUME NEW q \in Procs, NEW x \in holds[q], NEW u \in Procs,
              pc'[u] \in ScanLabels, x \in bags'[u][0]
       PROVE  Noticed(u, q, x)'
  <2>1. CASE u = p
    <3>1. pc'[u] = "scanSize" /\ me'[u].at = 0 /\ q \in Nat
        BY <1>0, <1>3, <1>4, <1>5, <1>11, <2>1 DEF ScanLabels
    <3>2. me'[u].at < q \/ me'[u].at = q
        BY <3>1
    <3> QED BY <3>1, <3>2 DEF Noticed
  <2>2. CASE u # p
    <3>1. x \in bags[u][0] /\ pc'[u] = pc[u] /\ me'[u] = me[u]
        BY <1>4, <1>5, <1>10, <1>11, <2>2
    <3>2. Noticed(u, q, x)
        BY <1>0, <1>11, <3>1 DEF HazardHeld
    <3> QED BY <1>0, <1>7, <3>1, <3>2 DEF Noticed
  <2> QED BY <2>1, <2>2
<1>12. HazardHeld'
    BY <1>0, <1>1, <1>11 DEF HazardHeld
<1> QED BY <1>0, <1>6, <1>8, <1>9, <1>12 DEF HazardInv

\* What nobody has announced is freed.
LEMMA HazardFrees ==
    ASSUME Places, HazardInv, NEW p \in Procs, hp_free(p)
    PROVE  HazardInv' /\ Moves
<1>0. /\ HazardTypes /\ HazardHeld /\ PlaceTypes /\ Apart /\ me[p] \in HazardLocal
      /\ pc[p] = "scanned" /\ UNCHANGED <<scheme, me, linked, holds, cur, epoch, word, list>>
      /\ Procs' = Procs /\ Stock' = Stock /\ N' = N /\ N \in Nat \ {0} /\ Procs = 0 .. N - 1
      /\ \A q \in Procs : HazardThread(q) /\ Full(q) \in 0 .. Slots
    BY HazardFacts, SameScheme, ProcsAre
         DEF hp_free, Hazard, At, HazardInv, Places, PlaceTypes
<1>1. PICK F : F = bags[p][0] \ me[p].found
    OBVIOUS
<1>2. pool' = pool \cup F /\ bags' = [bags EXCEPT ![p][0] = @ \cap me[p].found] /\ Go(p, "in")
    BY <1>1 DEF hp_free
<1>3. bags' = [bags EXCEPT ![p][0] = bags[p][0] \ F]
  <2>1. bags[p][0] \cap me[p].found = bags[p][0] \ F
      BY <1>1
  <2> QED BY <1>2, <2>1
<1>4. Moves
  <2>1. Frees(p, 0, F)
      BY <1>0, <1>1, <1>2, <1>3 DEF Frees
  <2>2. PICK i \in 0 .. 2 : i = 0
      OBVIOUS
  <2>3. bags[p][i] \in SUBSET Stock
      BY <1>0 DEF PlaceTypes
  <2>4. F \in SUBSET Stock /\ Frees(p, i, F)
      BY <1>1, <2>1, <2>2, <2>3
  <2>5. scheme' = scheme /\ cur' \in [Procs -> 0 .. 2]
      BY <1>0 DEF PlaceTypes
  <2> QED BY <2>4, <2>5 DEF Moves
<1>5. /\ pc' \in [Procs -> HazardLabels] /\ pc'[p] = "in"
      /\ \A q \in Procs \ {p} : pc'[q] = pc[q]
  <2>1. "in" \in HazardLabels
      BY DEF HazardLabels
  <2> QED BY <1>0, <1>2, <2>1, HazardLabel
<1>6. ASSUME NEW q \in Procs PROVE Full(q)' = Full(q)
  <2>1. CASE q = p
      BY <1>0, <1>5, <2>1 DEF Full
  <2>2. CASE q # p
      BY <1>0, <1>5, <2>2 DEF Full
  <2> QED BY <2>1, <2>2
<1>7. HazardTypes'
  <2>1. HazardLocal' = HazardLocal /\ Lists' = Lists
      BY <1>0 DEF HazardLocal, Lists, Slot
  <2> QED BY <1>0, <1>5, <2>1 DEF HazardTypes
<1>8. ASSUME NEW q \in Procs PROVE HazardThread(q)'
  <2>1. /\ HazardThread(q) /\ list'[q] = list[q] /\ holds'[q] = holds[q] /\ Hazards(q)' = Hazards(q)
        /\ Full(q)' = Full(q)
      BY <1>0, <1>6 DEF Hazards
  <2>2. CASE q = p
      BY <1>0, <1>5, <2>1, <2>2 DEF HazardThread
  <2>3. CASE q # p
    <3>1. pc'[q] = pc[q] /\ me'[q] = me[q]
        BY <1>0, <1>5, <2>3
    <3> QED BY <1>0, <2>1, <3>1 DEF HazardThread
  <2> QED BY <2>2, <2>3
<1>9. \A u \in Procs, j \in 0 .. 2 :
         bags'[u][j] = IF u = p /\ j = 0 THEN bags[p][0] \ F ELSE bags[u][j]
  <2>1. PICK i \in 0 .. 2 : i = 0
      OBVIOUS
  <2>2. PICK X : X = bags[p][i] \ F
      OBVIOUS
  <2>3. bags' = [bags EXCEPT ![p][i] = X]
      BY <1>3, <2>1, <2>2
  <2>4. bags[p][i] \in SUBSET Stock
      BY <1>0, <2>1 DEF PlaceTypes
  <2>5. X \in SUBSET Stock
      BY <2>2, <2>4
  <2>6. \A u \in Procs, j \in 0 .. 2 :
           bags'[u][j] = IF u = p /\ j = i THEN X ELSE bags[u][j]
      BY <1>0, <2>3, <2>5, BagsExcept DEF PlaceTypes
  <2> QED BY <2>1, <2>2, <2>6
<1>10. ASSUME NEW q \in Procs, NEW x \in holds[q] PROVE x \notin F
  <2>1. SUFFICES ASSUME x \in bags[p][0] PROVE x \in me[p].found
      BY <1>1
  <2>2. Noticed(p, q, x)
      BY <1>0, <2>1 DEF HazardHeld, ScanLabels
  <2>3. me[p].at >= N /\ q < N /\ q \in Nat /\ me[p].at \in Nat
      BY <1>0 DEF HazardThread, HazardLocal
  <2> QED BY <1>0, <2>2, <2>3 DEF Noticed
<1>11. ASSUME NEW q \in Procs, NEW x \in holds[q], NEW u \in Procs,
              pc'[u] \in ScanLabels, x \in bags'[u][0]
       PROVE  Noticed(u, q, x)'
  <2>1. u # p
      BY <1>5, <1>11 DEF ScanLabels
  <2>2. x \in bags[u][0] /\ pc'[u] = pc[u] /\ me'[u] = me[u]
      BY <1>0, <1>5, <1>9, <1>11, <2>1
  <2>3. Noticed(u, q, x)
      BY <1>0, <1>11, <2>2 DEF HazardHeld
  <2> QED BY <1>0, <1>6, <2>2, <2>3 DEF Noticed
<1>12. HazardHeld'
    BY <1>0, <1>2, <1>10, <1>11 DEF HazardHeld
<1> QED BY <1>0, <1>4, <1>7, <1>8, <1>12 DEF HazardInv

\* A step of a thread.
LEMMA HazardStep ==
    ASSUME Places, HazardInv, Unprotects = {}, NEW p \in Procs, HazardNext(p)
    PROVE  HazardInv' /\ Moves
<1>1. scheme = "hazardptr"
    BY Zenon DEF HazardNext, hp_startOp, hp_protect, hp_unprotect, hp_erase, hp_retire, hp_scan,
                   hp_free, hp_endOp, Hazard, At
<1>2. CASE hp_protect(p)
  <2>1. CASE /\ pc[p] = "in" /\ list[p].size < Plan[scheme].slots[p]
             /\ \E r \in linked \ holds[p] : Set(p, [me[p] EXCEPT !.obj = r])
             /\ Go(p, "found") /\ UNCHANGED <<scheme, mem, epoch, word, list>>
    <3>1. PICK r \in linked \ holds[p] : Set(p, [me[p] EXCEPT !.obj = r])
        BY <2>1
    <3> QED BY <1>1, <2>1, <3>1, HazardFinds
  <2>2. \/ /\ pc[p] = "in" /\ list[p].size < Plan[scheme].slots[p]
           /\ \E r \in linked \ holds[p] : Set(p, [me[p] EXCEPT !.obj = r])
           /\ Go(p, "found") /\ UNCHANGED <<scheme, mem, epoch, word, list>>
        \/ /\ pc[p] = "found" /\ AddStore(p, me[p].obj)
           /\ Go(p, "stored") /\ UNCHANGED <<scheme, mem, me, epoch, word>>
        \/ /\ pc[p] = "stored" /\ AddSize(p)
           /\ Go(p, "confirm") /\ UNCHANGED <<scheme, mem, me, epoch, word>>
        \/ /\ pc[p] = "confirm"
           /\ IF me[p].obj \in linked
                THEN /\ holds' = [holds EXCEPT ![p] = @ \cup {me[p].obj}]
                     /\ Go(p, "in")
                ELSE Go(p, "erase") /\ UNCHANGED holds
           /\ UNCHANGED <<scheme, me, linked, pool, bags, cur, epoch, word, list>>
      BY <1>2, Zenon DEF hp_protect, Hazard, At
  <2> QED BY <2>1, <2>2, HazardStores, HazardGrows, HazardConfirms
<1>3. CASE hp_erase(p)
  <2>1. PICK ix : ix = CHOOSE i \in 0 .. list[p].size - 1 :
                    /\ list[p].data[i] = me[p].obj
                    /\ \A j \in 0 .. i - 1 : list[p].data[j] # me[p].obj
      OBVIOUS
  <2>2. \/ /\ pc[p] = "erase"
           /\ list' = [list EXCEPT ![p].data[ix] = list[p].data[list[p].size - 1]]
           /\ Go(p, "shrink") /\ UNCHANGED <<scheme, mem, me, epoch, word>>
        \/ /\ pc[p] = "shrink" /\ list' = [list EXCEPT ![p].size = @ - 1]
           /\ Go(p, "in") /\ UNCHANGED <<scheme, mem, me, epoch, word>>
      BY <1>3, <2>1, Zenon DEF hp_erase, Hazard, At
  <2>3. pc[p] = "erase" => list' = list
      BY <2>1, <2>2, HazardErasedLast
  <2> QED BY <2>2, <2>3, HazardErases, HazardShrinks
<1>4. CASE hp_scan(p)
  <2>1. /\ \/ pc[p] = "scanSize" /\ ScanSize(p)
           \/ pc[p] = "scanSlot" /\ ScanSlot(p)
        /\ UNCHANGED <<scheme, mem, epoch, word, list>>
      BY <1>4 DEF hp_scan, Scan
  <2> QED BY <2>1, HazardScanSize, HazardScanSlot
<1>5. ~hp_unprotect(p)
    BY DEF hp_unprotect
<1> QED BY <1>2, <1>3, <1>4, <1>5, HazardStart, HazardRetires, HazardFrees, HazardEnds
        DEF HazardNext

\* Nothing has been announced when the program starts.
LEMMA HazardInitial == Init /\ HazardInit => Places /\ HazardInv
<1> SUFFICES ASSUME Init, HazardInit PROVE Places /\ HazardInv
    OBVIOUS
<1>0. Slots \in Nat \ {0}
    BY RoomAssumption
<1>1. Local \in HazardLocal /\ Local.mine = {}
    BY <1>0 DEF Local, HazardLocal, Slot
<1>2. EmptyList \in Lists /\ EmptyList.size = 0
    BY <1>0 DEF EmptyList, Lists, Slot
<1>3. /\ \A p \in Procs : me[p] = Local /\ pc[p] = "idle" /\ holds[p] = {} /\ list[p] = EmptyList
      /\ pc \in [Procs -> HazardLabels] /\ me \in [Procs -> HazardLocal]
      /\ holds \in [Procs -> SUBSET Stock] /\ list \in [Procs -> Lists]
    BY <1>1, <1>2 DEF HazardInit, Init, HazardLabels
<1>4. HazardTypes
    BY <1>3 DEF HazardTypes
<1>5. ASSUME NEW p \in Procs PROVE HazardThread(p)
  <2>1. Full(p) = 0
      BY <1>2, <1>3 DEF Full
  <2>2. Hazards(p) = {}
      BY <2>1 DEF Hazards
  <2> QED BY <1>0, <1>2, <1>3, <2>1, <2>2 DEF HazardThread
<1>6. HazardHeld
    BY <1>3 DEF HazardHeld
<1>7. Places
    BY <1>1, <1>3, PlacesInit
<1> QED BY <1>4, <1>5, <1>6, <1>7 DEF HazardInv

-----------------------------------------------------------------------------
(***************************************************************************)
(* reclaimer_debraplus                                                     *)
(***************************************************************************)
PlusLabels == ScanLabels \cup {"idle", "check", "advance", "announce", "in", "announced",
                               "confirm", "retire"}

PlusLocal == [read : Nat, seen : {1}, checked : Nat, since : {0}, at : Nat,
              ix : Nat, size : 0 .. Slots, times : {<< >>}, obj : {NoRecord},
              found : SUBSET Slot, mine : SUBSET Stock]

PlusTypes ==
    /\ epoch \in Nat /\ epoch % 2 = 0
    /\ pc \in [Procs -> PlusLabels] /\ me \in [Procs -> PlusLocal]
    /\ word \in [Procs -> Nat] /\ holds \in [Procs -> SUBSET Stock]
    /\ list \in [Procs -> Lists]

\* p has announced an epoch and was not interrupted.
Busy(p) == pc[p] \in {"in", "announced", "confirm"}

PlusThread(p) ==
    /\ me[p].read <= epoch /\ me[p].read % 2 = 0
    /\ Busy(p) => word[p] = me[p].read
    /\ pc[p] \in {"idle", "retire"} => word[p] = me[p].read + 1
    /\ ~Busy(p) => word[p] % 2 = 1
    /\ holds[p] # {} => Busy(p) \/ pc[p] = "retire"
    /\ pc[p] = "retire" => holds[p] \subseteq Announced(p)
    /\ pc[p] = "announced" => list[p].size < Slots
    /\ pc[p] = "confirm" => list[p].size > 0
    /\ pc[p] = "scanSlot" => me[p].at < N
    /\ pc[p] = "scanned" => me[p].at >= N
    /\ pc[p] = "advance" => me[p].checked >= N

\* How often u may rotate its bags while the operation of p goes on.
PlusTurns(u, p) ==
    (IF pc[u] \in ScanLabels THEN 1 ELSE 0)
      + (IF me[u].read # epoch THEN 1 ELSE 0) + (IF Passes(p) THEN 1 ELSE 0)

\* The scan of u does not miss that p, which recovers, has announced r.
PlusNoticed(u, p, r) ==
    \/ r \in me[u].found
    \/ me[u].at < p
    \/ me[u].at = p /\ pc[u] = "scanSize"
    \/ /\ me[u].at = p /\ pc[u] = "scanSlot"
       /\ \E j \in 0 .. Slots - 1 : me[u].ix <= j /\ j < me[u].size /\ list[p].data[j] = r

\* What p holds in its operation is too young to be freed; what it holds
\* when it recovers it has announced.
PlusHeld ==
    \A p \in Procs : \A r \in holds[p] :
       /\ r \notin pool
       /\ Busy(p) =>
             \A u \in Procs, i \in 0 .. 2 : r \in bags[u][i] => PlusTurns(u, p) < Age(u, i)
       /\ ~Busy(p) =>
             \A u \in Procs :
                pc[u] \in ScanLabels /\ r \in bags[u][NextBag(u)] => PlusNoticed(u, p, r)

PlusInv == PlusTypes /\ (\A p \in Procs : PlusThread(p)) /\ PlusHeld

\* What the steps of a thread start from.
LEMMA PlusFacts ==
    ASSUME Places, PlusInv
    PROVE  /\ PlusTypes /\ PlusHeld /\ PlaceTypes /\ Apart
           /\ (\A q \in Procs : PlusThread(q) /\ me[q] \in PlusLocal /\ list[q] \in Lists
                                  /\ word[q] \in Nat /\ holds[q] \in SUBSET Stock)
           /\ N \in Nat \ {0} /\ Procs = 0 .. N - 1 /\ Slots \in Nat \ {0} /\ epoch \in Nat
BY ProcsAre, RoomAssumption DEF PlusInv, PlusTypes, Places, PlaceTypes

\* The parts of an announced word.
LEMMA EvenEpoch ==
    ASSUME NEW e \in Nat, e % 2 = 0
    PROVE  /\ BITS_EPOCH(e) = e /\ BITS_EPOCH(e + 1) = e /\ GET_WITH_QUIESCENT(e) = e + 1
           /\ ~QUIESCENT(e) /\ QUIESCENT(e + 1) /\ (e + 1) % 2 = 1 /\ (e + 2) % 2 = 0
BY DEF BITS_EPOCH, GET_WITH_QUIESCENT, QUIESCENT

\* The bag that is emptied next is the oldest.
LEMMA NextIsOldest ==
    ASSUME PlaceTypes, NEW u \in Procs
    PROVE  NextBag(u) \in 0 .. 2 /\ Age(u, NextBag(u)) = 1 /\ NextBag(u) # cur[u]
<1>1. cur[u] \in {0, 1, 2}
    BY DEF PlaceTypes
<1> QED BY <1>1 DEF NextBag, Age

\* A step that moves nothing to or from a bag.
LEMMA PlusHeldStays ==
    ASSUME Places, PlusInv, UNCHANGED <<scheme, pool, bags, cur>>,
           \A p \in Procs : holds'[p] \subseteq holds[p] \cup linked,
           \A p \in Procs, u \in Procs :
              holds[p] # {} /\ holds'[p] # {} /\ Busy(p)' =>
                 Busy(p) /\ PlusTurns(u, p)' <= PlusTurns(u, p),
           \A p \in Procs, u \in Procs : \A r \in holds[p] :
              r \in holds'[p] /\ ~Busy(p)' /\ pc'[u] \in ScanLabels /\ r \in bags[u][NextBag(u)] =>
                 \/ PlusNoticed(u, p, r)'
                 \/ Busy(p) /\ pc[u] \in ScanLabels
    PROVE  PlusHeld'
<1>0. Procs' = Procs /\ PlaceTypes /\ Apart /\ PlusHeld
    BY SameScheme, PlusFacts
<1>1. \A u, i : Age(u, i)' = Age(u, i) /\ NextBag(u)' = NextBag(u)
    BY DEF Age, NextBag
<1>2. ASSUME NEW p \in Procs, NEW r \in holds'[p], r \notin holds[p]
      PROVE  r \notin pool /\ \A u \in Procs, i \in 0 .. 2 : r \notin bags[u][i]
  <2>1. r \in linked
      BY <1>2
  <2> QED BY <1>0, <2>1 DEF Apart, BagsApart
<1>3. ASSUME NEW p \in Procs, NEW r \in holds'[p] PROVE r \notin pool'
    BY <1>0, <1>2, <1>3 DEF PlusHeld
<1>4. ASSUME NEW p \in Procs, NEW r \in holds'[p], NEW u \in Procs, NEW i \in 0 .. 2,
             Busy(p)', r \in bags'[u][i]
      PROVE  PlusTurns(u, p)' < Age(u, i)'
  <2>1. r \in holds[p]
      BY <1>2, <1>4
  <2>2. Busy(p) /\ PlusTurns(u, p)' <= PlusTurns(u, p)
      BY <1>4, <2>1
  <2>3. PlusTurns(u, p) < Age(u, i)
      BY <1>0, <1>4, <2>1, <2>2 DEF PlusHeld
  <2>4. PlusTurns(u, p) \in Int /\ PlusTurns(u, p)' \in Int /\ Age(u, i) \in Int
      BY DEF PlusTurns, Age
  <2> QED BY <1>1, <2>2, <2>3, <2>4
<1>5. ASSUME NEW p \in Procs, NEW r \in holds'[p], NEW u \in Procs,
             ~Busy(p)', pc'[u] \in ScanLabels, r \in bags[u][NextBag(u)]
      PROVE  PlusNoticed(u, p, r)'
  <2>1. NextBag(u) \in 0 .. 2 /\ Age(u, NextBag(u)) = 1
      BY <1>0, NextIsOldest
  <2>2. r \in holds[p]
      BY <1>2, <1>5, <2>1
  <2>3. ~(Busy(p) /\ pc[u] \in ScanLabels)
    <3>1. SUFFICES ASSUME Busy(p), pc[u] \in ScanLabels PROVE FALSE
        OBVIOUS
    <3>2. PlusTurns(u, p) < 1
        BY <1>0, <1>5, <2>1, <2>2, <3>1 DEF PlusHeld
    <3>3. PlusTurns(u, p) >= 1 /\ PlusTurns(u, p) \in Int
        BY <3>1 DEF PlusTurns
    <3> QED BY <3>2, <3>3
  <2> QED BY <1>5, <2>2, <2>3
<1> QED BY <1>0, <1>1, <1>3, <1>4, <1>5 DEF PlusHeld

\* A step by which the threads of C go on with what they do: no bag is
\* changed, nobody scans, and no epoch begins.
LEMMA PlusOwnStep ==
    ASSUME Places, PlusInv, NEW C \in SUBSET Procs,
           UNCHANGED <<scheme, pool, bags, cur, epoch>>,
           me' \in [Procs -> PlusLocal], pc' \in [Procs -> PlusLabels],
           list' \in [Procs -> Lists], holds' \in [Procs -> SUBSET Stock],
           word' \in [Procs -> Nat],
           \A q \in Procs \ C : me'[q] = me[q] /\ pc'[q] = pc[q] /\ list'[q] = list[q]
                                  /\ holds'[q] = holds[q] /\ word'[q] = word[q],
           \A p \in C :
              /\ pc[p] \notin ScanLabels /\ pc'[p] \notin ScanLabels
              /\ holds'[p] \subseteq holds[p] \cup linked /\ (holds'[p] # {} => Busy(p))
              /\ me'[p].read = me[p].read /\ (Busy(p) /\ Busy(p)' => word'[p] = word[p])
              /\ \A q \in Procs :
                    Busy(q) /\ Busy(q)' /\ me'[p].checked > q /\ me[p].read = epoch =>
                       me[p].checked > q \/ word[q] = epoch
              /\ PlusThread(p)'
    PROVE  PlusInv'
<1>0. /\ PlusTypes /\ PlusHeld /\ PlaceTypes /\ Apart /\ (\A q \in Procs : PlusThread(q))
      /\ Procs' = Procs /\ Stock' = Stock /\ N' = N
    BY SameScheme, PlusFacts
<1>1. PlusTypes'
  <2>1. PlusLocal' = PlusLocal /\ Lists' = Lists
      BY <1>0 DEF PlusLocal, Lists, Slot
  <2> QED BY <1>0, <2>1 DEF PlusTypes
<1>2. ASSUME NEW q \in Procs PROVE PlusThread(q)'
  <2>1. CASE q \in C
      BY <2>1
  <2>2. CASE q \notin C
    <3>1. /\ me'[q] = me[q] /\ pc'[q] = pc[q] /\ list'[q] = list[q]
          /\ holds'[q] = holds[q] /\ word'[q] = word[q]
        BY <2>2
    <3>2. Announced(q)' = Announced(q) /\ (Busy(q)' <=> Busy(q))
        BY <3>1 DEF Announced, Busy
    <3> QED BY <1>0, <3>1, <3>2 DEF PlusThread
  <2> QED BY <2>1, <2>2
<1>3. ASSUME NEW q \in Procs, NEW u \in Procs, holds[q] # {}, holds'[q] # {}, Busy(q)'
      PROVE  Busy(q) /\ PlusTurns(u, q)' <= PlusTurns(u, q)
  <2>1. Busy(q)
      BY <1>3 DEF Busy
  <2>2. word'[q] = word[q]
      BY <1>3, <2>1
  <2>3. Passes(q)' => Passes(q)
    <3>1. ASSUME NEW v \in Procs, me'[v].read = epoch, me'[v].checked > q PROVE Passes(q)
      <4>1. CASE v \in C
          BY <1>3, <2>1, <3>1, <4>1 DEF Passes
      <4>2. CASE v \notin C
          BY <3>1, <4>2 DEF Passes
      <4> QED BY <4>1, <4>2
    <3> QED BY <1>0, <2>2, <3>1 DEF Passes
  <2>4. me'[u].read = me[u].read /\ (pc'[u] \in ScanLabels <=> pc[u] \in ScanLabels)
      OBVIOUS
  <2> QED BY <2>1, <2>3, <2>4 DEF PlusTurns
<1>4. ASSUME NEW q \in Procs, NEW u \in Procs, NEW r \in holds[q],
             r \in holds'[q], ~Busy(q)', pc'[u] \in ScanLabels, r \in bags[u][NextBag(u)]
      PROVE  PlusNoticed(u, q, r)' \/ (Busy(q) /\ pc[u] \in ScanLabels)
  <2>1. u \notin C /\ me'[u] = me[u] /\ pc'[u] = pc[u]
      BY <1>4
  <2>2. CASE q \in C
      BY <1>4, <2>1, <2>2
  <2>3. CASE q \notin C
    <3>1. list'[q] = list[q] /\ ~Busy(q)
        BY <1>4, <2>3 DEF Busy
    <3>2. PlusNoticed(u, q, r)
        BY <1>0, <1>4, <2>1, <3>1 DEF PlusHeld
    <3> QED BY <2>1, <3>1, <3>2 DEF PlusNoticed
  <2> QED BY <2>2, <2>3
<1>5. \A q \in Procs : holds'[q] \subseteq holds[q] \cup linked
    OBVIOUS
<1>6. PlusHeld'
    BY <1>3, <1>4, <1>5, PlusHeldStays
<1> QED BY <1>0, <1>1, <1>2, <1>6 DEF PlusInv

\* Such a step of one thread.
LEMMA PlusOneStep ==
    ASSUME Places, PlusInv, NEW p \in Procs,
           UNCHANGED <<scheme, pool, bags, cur, epoch>>,
           me' \in [Procs -> PlusLocal], pc' \in [Procs -> PlusLabels],
           list' \in [Procs -> Lists], holds' \in [Procs -> SUBSET Stock],
           word' \in [Procs -> Nat],
           \A q \in Procs \ {p} : me'[q] = me[q] /\ pc'[q] = pc[q] /\ list'[q] = list[q]
                                    /\ holds'[q] = holds[q] /\ word'[q] = word[q],
           pc[p] \notin ScanLabels, pc'[p] \notin ScanLabels,
           holds'[p] \subseteq holds[p] \cup linked, holds'[p] # {} => Busy(p),
           me'[p].read = me[p].read, Busy(p) /\ Busy(p)' => word'[p] = word[p],
           \A q \in Procs :
              Busy(q) /\ Busy(q)' /\ me'[p].checked > q /\ me[p].read = epoch =>
                 me[p].checked > q \/ word[q] = epoch,
           PlusThread(p)'
    PROVE  PlusInv' /\ (linked' = linked /\ me'[p].mine = me[p].mine => Moves)
<1>1. PICK C \in SUBSET Procs : C = {p}
    OBVIOUS
<1>2. \A q \in Procs \ C : me'[q] = me[q] /\ pc'[q] = pc[q] /\ list'[q] = list[q]
                             /\ holds'[q] = holds[q] /\ word'[q] = word[q]
    BY <1>1
<1>3. \A q \in C :
         /\ pc[q] \notin ScanLabels /\ pc'[q] \notin ScanLabels
         /\ holds'[q] \subseteq holds[q] \cup linked /\ (holds'[q] # {} => Busy(q))
         /\ me'[q].read = me[q].read /\ (Busy(q) /\ Busy(q)' => word'[q] = word[q])
         /\ \A v \in Procs :
               Busy(v) /\ Busy(v)' /\ me'[q].checked > v /\ me[q].read = epoch =>
                  me[q].checked > v \/ word[v] = epoch
         /\ PlusThread(q)'
    BY <1>1
<1>4. PlusInv'
    BY <1>2, <1>3, PlusOwnStep
<1>5. ASSUME linked' = linked, me'[p].mine = me[p].mine PROVE Moves
  <2>1. \A q \in Procs : me'[q].mine = me[q].mine
      BY <1>5
  <2> QED BY <1>5, <2>1 DEF Moves, Unmoved, Places, PlaceTypes
<1> QED BY <1>4, <1>5

\* The private variables of a thread keep their types.
LEMMA PlusLocalSet ==
    /\ \A S \in PlusLocal : \A x \in Nat : [S EXCEPT !.read = x] \in PlusLocal
    /\ \A S \in PlusLocal : \A c \in Nat : [S EXCEPT !.checked = c] \in PlusLocal
    /\ \A S \in PlusLocal : \A x \in Nat : [S EXCEPT !.read = x, !.checked = 0] \in PlusLocal
    /\ \A S \in PlusLocal : \A X \in SUBSET Stock : [S EXCEPT !.mine = X] \in PlusLocal
    /\ \A S \in PlusLocal : \A c \in 0 .. Slots : [S EXCEPT !.size = c, !.ix = 0] \in PlusLocal
    /\ \A S \in PlusLocal : \A a \in Nat : [S EXCEPT !.at = a] \in PlusLocal
    /\ \A S \in PlusLocal : \A b \in Nat : \A F \in SUBSET Slot :
          [S EXCEPT !.found = F, !.ix = b] \in PlusLocal
    /\ \A S \in PlusLocal : [S EXCEPT !.found = {}, !.at = 0] \in PlusLocal
<1>1. \A S \in PlusLocal : \A x \in Nat : [S EXCEPT !.read = x] \in PlusLocal
    BY DEF PlusLocal
<1>2. \A S \in PlusLocal : \A c \in Nat : [S EXCEPT !.checked = c] \in PlusLocal
    BY DEF PlusLocal
<1>3. \A S \in PlusLocal : \A X \in SUBSET Stock : [S EXCEPT !.mine = X] \in PlusLocal
    BY DEF PlusLocal
<1>4. \A S \in PlusLocal : \A c \in 0 .. Slots : [S EXCEPT !.size = c] \in PlusLocal
    BY DEF PlusLocal
<1>5. \A S \in PlusLocal : \A b \in Nat : [S EXCEPT !.ix = b] \in PlusLocal
    BY DEF PlusLocal
<1>6. \A S \in PlusLocal : \A a \in Nat : [S EXCEPT !.at = a] \in PlusLocal
    BY DEF PlusLocal
<1>7. \A S \in PlusLocal : \A F \in SUBSET Slot : [S EXCEPT !.found = F] \in PlusLocal
    BY DEF PlusLocal
<1>8. 0 \in Nat /\ {} \in SUBSET Slot
    OBVIOUS
<1> QED BY Zenon, <1>1, <1>2, <1>3, <1>4, <1>5, <1>6, <1>7, <1>8

\* The label of p, and nobody else's.
LEMMA PlusLabel ==
    ASSUME PlusTypes, NEW p \in Procs, NEW l \in PlusLabels, Go(p, l)
    PROVE  /\ pc' \in [Procs -> PlusLabels] /\ pc'[p] = l
           /\ \A q \in Procs \ {p} : pc'[q] = pc[q]
BY OneLabel DEF PlusTypes

\* The private variables of p, and nobody else's.
LEMMA PlusSet ==
    ASSUME PlusTypes, NEW p \in Procs, NEW M \in PlusLocal, Set(p, M)
    PROVE  /\ me' \in [Procs -> PlusLocal] /\ me'[p] = M
           /\ \A q \in Procs \ {p} : me'[q] = me[q]
BY OneThread DEF PlusTypes, Set

\* In the epoch of its last operation a thread goes on counting.
LEMMA PlusReadSame ==
    ASSUME Places, PlusInv, NEW p \in Procs, pc[p] = "idle", epoch = BITS_EPOCH(word[p]),
           Set(p, [me[p] EXCEPT !.read = epoch]), Go(p, "check"),
           UNCHANGED <<scheme, linked, holds, pool, bags, cur, epoch, word, list>>
    PROVE  PlusInv' /\ Moves
<1>0. PlusTypes /\ PlusThread(p) /\ me[p] \in PlusLocal /\ Procs' = Procs /\ N' = N /\ epoch \in Nat
    BY PlusFacts, SameScheme
<1>1. me[p].read = epoch
  <2>1. word[p] = me[p].read + 1 /\ me[p].read \in Nat /\ me[p].read % 2 = 0
      BY <1>0 DEF PlusThread, PlusLocal
  <2> QED BY <2>1, EvenEpoch
<1>2. [me[p] EXCEPT !.read = epoch] = me[p]
    BY <1>0, <1>1 DEF PlusLocal
<1>3. /\ me' \in [Procs -> PlusLocal] /\ me'[p] = me[p] /\ \A q \in Procs \ {p} : me'[q] = me[q]
    BY <1>0, <1>2, PlusSet
<1>4. /\ pc' \in [Procs -> PlusLabels] /\ pc'[p] = "check"
      /\ \A q \in Procs \ {p} : pc'[q] = pc[q]
  <2>1. "check" \in PlusLabels
      BY DEF PlusLabels
  <2> QED BY <1>0, <2>1, PlusLabel
<1>5. PlusThread(p)' /\ holds'[p] = {}
    BY <1>0, <1>3, <1>4 DEF PlusThread, Busy
<1>6. pc[p] \notin ScanLabels /\ pc'[p] \notin ScanLabels /\ ~Busy(p)
    BY <1>4 DEF ScanLabels, Busy
<1> QED BY <1>0, <1>3, <1>4, <1>5, <1>6, PlusOneStep DEF PlusTypes

\* Nobody rotates more often in a step that begins no epoch.
LEMMA PlusTurnsStay ==
    ASSUME NEW u, NEW q, epoch' = epoch, Passes(q)' => Passes(q),
           pc'[u] \in ScanLabels /\ pc[u] \notin ScanLabels =>
              me[u].read # epoch /\ me'[u].read = epoch,
           me'[u].read # epoch => me[u].read # epoch
    PROVE  PlusTurns(u, q)' <= PlusTurns(u, q)
BY DEF PlusTurns

\* A bag loses some of its records.
LEMMA BagLoses ==
    ASSUME bags \in [Procs -> [0 .. 2 -> SUBSET Stock]], NEW p \in Procs, NEW i \in 0 .. 2,
           NEW F
    PROVE  \A q \in Procs, j \in 0 .. 2 :
              [bags EXCEPT ![p][i] = bags[p][i] \ F][q][j]
                 = IF q = p /\ j = i THEN bags[p][i] \ F ELSE bags[q][j]
<1>1. PICK X : X = bags[p][i] \ F
    OBVIOUS
<1>2. X \in SUBSET Stock
  <2>1. bags[p][i] \in SUBSET Stock
      OBVIOUS
  <2> QED BY <1>1, <2>1
<1>3. \A q \in Procs, j \in 0 .. 2 :
         [bags EXCEPT ![p][i] = X][q][j] = IF q = p /\ j = i THEN X ELSE bags[q][j]
    BY <1>2, BagsExcept
<1> QED BY <1>1, <1>3

\* A new epoch is read, and the next bag is large: its owner starts a scan.
LEMMA PlusReadScan ==
    ASSUME Places, PlusInv, NEW p \in Procs, pc[p] = "idle", epoch # BITS_EPOCH(word[p]),
           StartScan(p, [me[p] EXCEPT !.read = epoch, !.checked = 0]),
           UNCHANGED <<scheme, linked, holds, pool, bags, cur, epoch, word, list>>
    PROVE  PlusInv' /\ Moves
<1>0. /\ PlusTypes /\ PlusHeld /\ PlaceTypes /\ (\A q \in Procs : PlusThread(q))
      /\ me[p] \in PlusLocal /\ Procs' = Procs /\ N' = N /\ Stock' = Stock
      /\ epoch \in Nat /\ epoch % 2 = 0
    BY PlusFacts, SameScheme DEF PlusTypes
<1>1. me[p].read # epoch
  <2>1. word[p] = me[p].read + 1 /\ me[p].read \in Nat /\ me[p].read % 2 = 0
      BY <1>0 DEF PlusThread, PlusLocal
  <2> QED BY <2>1, EvenEpoch
<1>2. PICK L \in PlusLocal : L = [me[p] EXCEPT !.read = epoch, !.checked = 0]
    BY Zenon, <1>0, PlusLocalSet
<1>3. PICK M \in PlusLocal : M = [L EXCEPT !.found = {}, !.at = 0]
    BY Zenon, PlusLocalSet
<1>4. /\ M.read = epoch /\ M.checked = 0 /\ M.found = {} /\ M.at = 0 /\ M.mine = me[p].mine
    BY <1>0, <1>2, <1>3 DEF PlusLocal
<1>5. /\ me' \in [Procs -> PlusLocal] /\ me'[p] = M /\ \A q \in Procs \ {p} : me'[q] = me[q]
    BY <1>0, <1>2, <1>3, PlusSet DEF StartScan
<1>6. /\ pc' \in [Procs -> PlusLabels] /\ pc'[p] = "scanSize"
      /\ \A q \in Procs \ {p} : pc'[q] = pc[q]
  <2>1. "scanSize" \in PlusLabels
      BY DEF PlusLabels, ScanLabels
  <2> QED BY <1>0, <2>1, PlusLabel DEF StartScan
<1>7. PlusTypes'
  <2>1. PlusLocal' = PlusLocal /\ Lists' = Lists
      BY <1>0 DEF PlusLocal, Lists, Slot
  <2> QED BY <1>0, <1>5, <1>6, <2>1 DEF PlusTypes
<1>8. Moves
  <2>1. \A q \in Procs : me'[q].mine = me[q].mine
      BY <1>4, <1>5
  <2> QED BY <1>0, <2>1 DEF Moves, Unmoved, PlaceTypes
<1>9. ASSUME NEW q \in Procs PROVE PlusThread(q)'
  <2>1. CASE q = p
      BY <1>0, <1>4, <1>5, <1>6, <2>1 DEF PlusThread, Busy
  <2>2. CASE q # p
    <3>1. me'[q] = me[q] /\ pc'[q] = pc[q]
        BY <1>5, <1>6, <2>2
    <3>2. Announced(q)' = Announced(q) /\ (Busy(q)' <=> Busy(q))
        BY <1>0, <3>1 DEF Announced, Busy
    <3> QED BY <1>0, <3>1, <3>2 DEF PlusThread
  <2> QED BY <2>1, <2>2
<1>10. ASSUME NEW q \in Procs, NEW u \in Procs, Busy(q)'
       PROVE  Busy(q) /\ PlusTurns(u, q)' <= PlusTurns(u, q)
  <2>1. Busy(q)
      BY <1>6, <1>10 DEF Busy
  <2>2. Passes(q)' => Passes(q)
    <3>1. ASSUME NEW v \in Procs, me'[v].read = epoch, me'[v].checked > q PROVE Passes(q)
      <4>1. v # p
          BY <1>0, <1>4, <1>5, <3>1, PlusFacts
      <4> QED BY <1>5, <3>1, <4>1 DEF Passes
    <3> QED BY <1>0, <3>1 DEF Passes
  <2>3. CASE u = p
    <3>1. me[u].read # epoch /\ me'[u].read = epoch /\ epoch' = epoch
        BY <1>1, <1>4, <1>5, <2>3
    <3> QED BY <2>1, <2>2, <3>1, PlusTurnsStay
  <2>4. CASE u # p
    <3>1. pc'[u] = pc[u] /\ me'[u].read = me[u].read /\ epoch' = epoch
        BY <1>5, <1>6, <2>4
    <3> QED BY <2>1, <2>2, <3>1, PlusTurnsStay
  <2> QED BY <2>1, <2>3, <2>4
<1>11. ASSUME NEW q \in Procs, NEW u \in Procs, NEW r \in holds[q],
             ~Busy(q)', pc'[u] \in ScanLabels, r \in bags[u][NextBag(u)]
      PROVE  PlusNoticed(u, q, r)' \/ (Busy(q) /\ pc[u] \in ScanLabels)
  <2>1. CASE u = p
    <3>1. 0 < q \/ 0 = q
        BY PlusFacts
    <3> QED BY <1>4, <1>5, <1>6, <2>1, <3>1 DEF PlusNoticed
  <2>2. CASE u # p
    <3>1. me'[u] = me[u] /\ pc'[u] = pc[u]
        BY <1>5, <1>6, <2>2
    <3>2. Busy(q) \/ PlusNoticed(u, q, r)
        BY <1>0, <1>11, <3>1 DEF PlusHeld
    <3> QED BY <1>0, <1>11, <3>1, <3>2 DEF PlusNoticed
  <2> QED BY <2>1, <2>2
<1>12. PlusHeld'
    BY <1>10, <1>11, PlusHeldStays
<1> QED BY <1>0, <1>7, <1>8, <1>9, <1>12 DEF PlusInv

\* How often a thread still turns to its next bag in the epochs that began.
PlusPending(l, x) == (IF l \in ScanLabels THEN 1 ELSE 0) + (IF x # epoch THEN 1 ELSE 0)

\* The next bag becomes the current one.
LEMMA PlusTurnOver ==
    ASSUME Places, PlusInv, NEW p \in Procs, NEW i \in 0 .. 2, i = NextBag(p),
           NEW F \in SUBSET Stock, F \subseteq bags[p][i],
           \A q \in Procs : \A r \in holds[q] : r \notin F,
           pool' = pool \cup F, bags' = [bags EXCEPT ![p][i] = bags[p][i] \ F],
           cur' = [cur EXCEPT ![p] = i],
           UNCHANGED <<scheme, linked, holds, epoch, word, list>>,
           me' \in [Procs -> PlusLocal], \A q \in Procs \ {p} : me'[q] = me[q],
           pc' \in [Procs -> PlusLabels], \A q \in Procs \ {p} : pc'[q] = pc[q],
           ~Busy(p), pc'[p] = "check", me'[p].mine = me[p].mine,
           PlusPending(pc'[p], me'[p].read) = PlusPending(pc[p], me[p].read) - 1,
           \A q \in Procs : me'[p].read = epoch /\ me'[p].checked > q =>
                               me[p].read = epoch /\ me[p].checked > q,
           PlusThread(p)'
    PROVE  PlusInv' /\ Moves
<1>0. /\ PlusTypes /\ PlusHeld /\ PlaceTypes /\ Apart /\ (\A q \in Procs : PlusThread(q))
      /\ Procs' = Procs /\ Stock' = Stock /\ N' = N
    BY PlusFacts, SameScheme
<1>1. /\ cur' \in [Procs -> 0 .. 2] /\ cur'[p] = i /\ \A q \in Procs \ {p} : cur'[q] = cur[q]
    BY <1>0 DEF PlaceTypes
<1>2. Moves
  <2>1. \A q \in Procs : me'[q].mine = me[q].mine
      OBVIOUS
  <2>2. Frees(p, i, F)
      BY <2>1 DEF Frees
  <2> QED BY <1>1, <2>2 DEF Moves
<1>3. PlusTypes'
  <2>1. PlusLocal' = PlusLocal /\ Lists' = Lists
      BY <1>0 DEF PlusLocal, Lists, Slot
  <2> QED BY <1>0, <2>1 DEF PlusTypes
<1>4. ASSUME NEW q \in Procs
      PROVE  PlusThread(q)' /\ (Busy(q)' <=> Busy(q)) /\ Announced(q)' = Announced(q)
  <2>1. CASE q = p
      BY <2>1 DEF Busy, Announced
  <2>2. CASE q # p
    <3>1. me'[q] = me[q] /\ pc'[q] = pc[q]
        BY <2>2
    <3>2. Announced(q)' = Announced(q) /\ (Busy(q)' <=> Busy(q))
        BY <3>1 DEF Announced, Busy
    <3> QED BY <1>0, <3>1, <3>2 DEF PlusThread
  <2> QED BY <2>1, <2>2
<1>5. \A q \in Procs, j \in 0 .. 2 :
         bags'[q][j] = IF q = p /\ j = i THEN bags[p][i] \ F ELSE bags[q][j]
  <2>1. bags \in [Procs -> [0 .. 2 -> SUBSET Stock]]
      BY <1>0 DEF PlaceTypes
  <2> QED BY <2>1, BagLoses
<1>6. ASSUME NEW q \in Procs, NEW r \in holds[q], NEW u \in Procs, NEW j \in 0 .. 2,
             Busy(q), r \in bags'[u][j]
      PROVE  PlusTurns(u, q)' < Age(u, j)'
  <2>1. PlusTurns(u, q) < Age(u, j) /\ PlusTurns(u, q) \in Int
      BY <1>0, <1>5, <1>6 DEF PlusHeld, PlusTurns
  <2>2. Passes(q)' => Passes(q)
    <3>1. ASSUME NEW v \in Procs, me'[v].read = epoch, me'[v].checked > q PROVE Passes(q)
      <4>1. CASE v = p
          BY <3>1, <4>1 DEF Passes
      <4>2. CASE v # p
          BY <3>1, <4>2 DEF Passes
      <4> QED BY <4>1, <4>2
    <3> QED BY <1>0, <3>1 DEF Passes
  <2>3. CASE u # p
    <3>1. PlusTurns(u, q)' <= PlusTurns(u, q) /\ PlusTurns(u, q)' \in Int
        BY <2>2, <2>3 DEF PlusTurns
    <3>2. Age(u, j)' = Age(u, j) /\ Age(u, j) \in Int
        BY <1>1, <2>3 DEF Age
    <3> QED BY <2>1, <3>1, <3>2
  <2>4. CASE u = p
    <3>1. PlusTurns(p, q)' <= PlusTurns(p, q) - 1 /\ PlusTurns(p, q)' \in Int
        BY <2>2 DEF PlusTurns, PlusPending
    <3>2. cur[p] \in {0, 1, 2} /\ j \in {0, 1, 2}
        BY <1>0 DEF PlaceTypes
    <3>3. i = (cur[p] + 1) % 3
        BY DEF NextBag
    <3>4. Age(p, j)' >= Age(p, j) - 1 /\ Age(p, j)' \in Int /\ Age(p, j) \in Int
        BY <1>1, <3>2, <3>3 DEF Age
    <3> QED BY <2>1, <2>4, <3>1, <3>4
  <2> QED BY <2>3, <2>4
<1>7. ASSUME NEW q \in Procs, NEW r \in holds[q], NEW u \in Procs,
             ~Busy(q), pc'[u] \in ScanLabels, r \in bags'[u][NextBag(u)']
      PROVE  PlusNoticed(u, q, r)'
  <2>1. u # p
      BY <1>7 DEF ScanLabels
  <2>2. NextBag(u)' = NextBag(u) /\ NextBag(u) \in 0 .. 2
      BY <1>0, <1>1, <2>1, NextIsOldest DEF NextBag
  <2>3. r \in bags[u][NextBag(u)] /\ me'[u] = me[u] /\ pc'[u] = pc[u]
      BY <1>5, <1>7, <2>1, <2>2
  <2>4. PlusNoticed(u, q, r)
      BY <1>0, <1>7, <2>3 DEF PlusHeld
  <2> QED BY <2>3, <2>4 DEF PlusNoticed
<1>8. ASSUME NEW q \in Procs, NEW r \in holds[q] PROVE r \notin pool'
    BY <1>0, <1>8 DEF PlusHeld
<1>9. PlusHeld'
    BY <1>0, <1>4, <1>6, <1>7, <1>8 DEF PlusHeld
<1> QED BY <1>0, <1>2, <1>3, <1>4, <1>9 DEF PlusInv

\* A new epoch is read, and the next bag is small: it keeps what it has.
LEMMA PlusReadNew ==
    ASSUME Places, PlusInv, NEW p \in Procs, pc[p] = "idle", epoch # BITS_EPOCH(word[p]),
           Set(p, [me[p] EXCEPT !.read = epoch, !.checked = 0]), Go(p, "check"),
           cur' = [cur EXCEPT ![p] = NextBag(p)],
           UNCHANGED <<scheme, linked, holds, pool, bags, epoch, word, list>>
    PROVE  PlusInv' /\ Moves
<1>0. /\ PlusTypes /\ PlaceTypes /\ PlusThread(p) /\ me[p] \in PlusLocal
      /\ Procs' = Procs /\ N' = N /\ epoch \in Nat /\ epoch % 2 = 0
    BY PlusFacts, SameScheme DEF PlusTypes
<1>1. me[p].read # epoch
  <2>1. word[p] = me[p].read + 1 /\ me[p].read \in Nat /\ me[p].read % 2 = 0
      BY <1>0 DEF PlusThread, PlusLocal
  <2> QED BY <2>1, EvenEpoch
<1>2. PICK M \in PlusLocal : M = [me[p] EXCEPT !.read = epoch, !.checked = 0]
    BY Zenon, <1>0, PlusLocalSet
<1>3. M.read = epoch /\ M.checked = 0 /\ M.mine = me[p].mine
    BY <1>0, <1>2 DEF PlusLocal
<1>4. /\ me' \in [Procs -> PlusLocal] /\ me'[p] = M /\ \A q \in Procs \ {p} : me'[q] = me[q]
    BY <1>0, <1>2, PlusSet
<1>5. /\ pc' \in [Procs -> PlusLabels] /\ pc'[p] = "check"
      /\ \A q \in Procs \ {p} : pc'[q] = pc[q]
  <2>1. "check" \in PlusLabels
      BY DEF PlusLabels
  <2> QED BY <1>0, <2>1, PlusLabel
<1>6. PICK i \in 0 .. 2 : i = NextBag(p)
    BY <1>0, NextIsOldest
<1>7. PICK F \in SUBSET Stock : F = {}
    OBVIOUS
<1>8. bags' = [bags EXCEPT ![p][i] = bags[p][i] \ F]
    BY <1>0, <1>7 DEF PlaceTypes
<1>9. PlusThread(p)' /\ ~Busy(p)
    BY <1>0, <1>3, <1>4, <1>5 DEF PlusThread, Busy
<1>10. PlusPending(pc'[p], me'[p].read) = PlusPending(pc[p], me[p].read) - 1
    BY <1>1, <1>3, <1>4, <1>5 DEF PlusPending, ScanLabels
<1>11. \A q \in Procs : ~(me'[p].checked > q)
    BY <1>3, <1>4, PlusFacts
<1>12. /\ F \subseteq bags[p][i] /\ pool' = pool \cup F /\ cur' = [cur EXCEPT ![p] = i]
       /\ \A q \in Procs : \A r \in holds[q] : r \notin F
    BY <1>6, <1>7
<1> QED BY <1>3, <1>4, <1>5, <1>6, <1>7, <1>8, <1>9, <1>10, <1>11, <1>12, PlusTurnOver

\* What nobody holds in its operation, and nobody has announced, is freed.
LEMMA PlusFrees ==
    ASSUME Places, PlusInv, NEW p \in Procs, plus_free(p)
    PROVE  PlusInv' /\ Moves
<1>0. /\ PlusTypes /\ PlusHeld /\ PlaceTypes /\ PlusThread(p) /\ me[p] \in PlusLocal
      /\ Procs' = Procs /\ N' = N /\ N \in Nat /\ Procs = 0 .. N - 1
      /\ pc[p] = "scanned" /\ UNCHANGED <<scheme, me, linked, holds, epoch, word, list>>
    BY PlusFacts, SameScheme DEF plus_free, At
<1>1. PICK i \in 0 .. 2 : i = NextBag(p)
    BY <1>0, NextIsOldest
<1>2. PICK k, rest, F : /\ rest = bags[p][i] \ me[p].found /\ F \in kSubset(k, rest)
                        /\ pool' = pool \cup F /\ bags' = [bags EXCEPT ![p][i] = @ \ F]
                        /\ cur' = [cur EXCEPT ![p] = i]
    BY <1>1, Zenon DEF plus_free
<1>3. F \subseteq bags[p][i] \ me[p].found
    BY <1>2, Zenon DEF kSubset
<1>4. F \in SUBSET Stock /\ F \subseteq bags[p][i] /\ bags' = [bags EXCEPT ![p][i] = bags[p][i] \ F]
  <2>1. bags[p][i] \in SUBSET Stock
      BY <1>0 DEF PlaceTypes
  <2> QED BY <1>2, <1>3, <2>1
<1>5. /\ pc' \in [Procs -> PlusLabels] /\ pc'[p] = "check"
      /\ \A q \in Procs \ {p} : pc'[q] = pc[q]
  <2>1. "check" \in PlusLabels
      BY DEF PlusLabels
  <2>2. Go(p, "check")
      BY DEF plus_free
  <2> QED BY <1>0, <2>1, <2>2, PlusLabel
<1>6. ASSUME NEW q \in Procs, NEW r \in holds[q] PROVE r \notin F
  <2>1. SUFFICES ASSUME r \in bags[p][i], r \notin me[p].found PROVE FALSE
      BY <1>3
  <2>2. CASE Busy(q)
    <3>1. PlusTurns(p, q) < Age(p, i)
        BY <1>0, <2>1, <2>2 DEF PlusHeld
    <3>2. Age(p, i) = 1
        BY <1>0, <1>1, NextIsOldest
    <3>3. PlusTurns(p, q) >= 1 /\ PlusTurns(p, q) \in Int
        BY <1>0 DEF PlusTurns, ScanLabels
    <3> QED BY <3>1, <3>2, <3>3
  <2>3. CASE ~Busy(q)
    <3>1. PlusNoticed(p, q, r)
        BY <1>0, <1>1, <2>1, <2>3 DEF PlusHeld, ScanLabels
    <3>2. me[p].at >= N /\ q < N /\ q \in Nat /\ me[p].at \in Nat
        BY <1>0 DEF PlusThread, PlusLocal
    <3> QED BY <1>0, <2>1, <3>1, <3>2 DEF PlusNoticed
  <2> QED BY <2>2, <2>3
<1>7. PlusThread(p)' /\ ~Busy(p)
    BY <1>0, <1>5 DEF PlusThread, Busy
<1>8. PlusPending(pc'[p], me'[p].read) = PlusPending(pc[p], me[p].read) - 1
    BY <1>0, <1>5 DEF PlusPending, ScanLabels
<1>9. me' \in [Procs -> PlusLocal] /\ me'[p] = me[p] /\ \A q \in Procs \ {p} : me'[q] = me[q]
    BY <1>0 DEF PlusTypes
<1>10. pool' = pool \cup F /\ cur' = [cur EXCEPT ![p] = i]
    BY <1>2
<1> QED BY <1>0, <1>1, <1>4, <1>5, <1>6, <1>7, <1>8, <1>9, <1>10, PlusTurnOver

\* A step of the scan of u.
LEMMA PlusScanStep ==
    ASSUME Places, PlusInv, NEW u \in Procs, NEW M \in PlusLocal, NEW l \in ScanLabels,
           pc[u] \in ScanLabels, UNCHANGED <<scheme, mem, epoch, word, list>>,
           me' = [me EXCEPT ![u] = M], Go(u, l),
           M.read = me[u].read, M.checked = me[u].checked, M.mine = me[u].mine,
           l = "scanSlot" => M.at < N, l = "scanned" => M.at >= N,
           me'[u] = M /\ pc'[u] = l =>
              \A q \in Procs : \A r \in holds[q] :
                 r \in Announced(q) /\ PlusNoticed(u, q, r) => PlusNoticed(u, q, r)'
    PROVE  PlusInv' /\ Moves
<1>0. /\ PlusTypes /\ PlusHeld /\ PlaceTypes /\ (\A q \in Procs : PlusThread(q))
      /\ UNCHANGED <<scheme, linked, pool, bags, cur, holds, epoch, word, list>>
      /\ Procs' = Procs /\ Stock' = Stock /\ N' = N
    BY PlusFacts, SameScheme DEF mem
<1>1. /\ me' \in [Procs -> PlusLocal] /\ me'[u] = M
      /\ \A q \in Procs \ {u} : me'[q] = me[q]
    BY <1>0, OneThread DEF PlusTypes
<1>2. /\ pc' \in [Procs -> PlusLabels] /\ pc'[u] = l
      /\ \A q \in Procs \ {u} : pc'[q] = pc[q]
  <2>1. l \in PlusLabels
      BY DEF PlusLabels
  <2> QED BY <1>0, <2>1, PlusLabel
<1>3. PlusTypes'
  <2>1. PlusLocal' = PlusLocal /\ Lists' = Lists
      BY <1>0 DEF PlusLocal, Lists, Slot
  <2> QED BY <1>0, <1>1, <1>2, <2>1 DEF PlusTypes
<1>4. Moves
  <2>1. \A q \in Procs : me'[q].mine = me[q].mine
      BY <1>1
  <2> QED BY <1>0, <2>1 DEF Moves, Unmoved, PlaceTypes
<1>5. ASSUME NEW q \in Procs PROVE PlusThread(q)' /\ (Busy(q)' <=> Busy(q))
  <2>1. PlusThread(q) /\ Announced(q)' = Announced(q)
      BY <1>0 DEF Announced
  <2>2. CASE q = u
    <3>1. ~Busy(q) /\ ~Busy(q)' /\ pc'[q] \notin {"idle", "retire", "announced", "confirm", "advance"}
        BY <1>2, <2>2 DEF Busy, ScanLabels
    <3>2. pc[q] \notin {"idle", "retire"}
        BY <2>2 DEF ScanLabels
    <3> QED BY <1>0, <1>1, <1>2, <2>1, <2>2, <3>1, <3>2 DEF PlusThread
  <2>3. CASE q # u
    <3>1. pc'[q] = pc[q] /\ me'[q] = me[q] /\ (Busy(q)' <=> Busy(q))
        BY <1>1, <1>2, <2>3 DEF Busy
    <3> QED BY <1>0, <2>1, <3>1 DEF PlusThread
  <2> QED BY <2>2, <2>3
<1>6. ASSUME NEW q \in Procs, NEW v \in Procs, Busy(q)'
      PROVE  Busy(q) /\ PlusTurns(v, q)' <= PlusTurns(v, q)
  <2>1. Busy(q) /\ epoch' = epoch
      BY <1>0, <1>5, <1>6
  <2>2. Passes(q)' => Passes(q)
      BY <1>0, <1>1 DEF Passes
  <2>3. me'[v].read = me[v].read /\ (pc'[v] \in ScanLabels => pc[v] \in ScanLabels)
      BY <1>1, <1>2
  <2> QED BY <2>1, <2>2, <2>3, PlusTurnsStay
<1>7. ASSUME NEW q \in Procs, NEW v \in Procs, NEW r \in holds[q],
             ~Busy(q)', pc'[v] \in ScanLabels, r \in bags[v][NextBag(v)]
      PROVE  PlusNoticed(v, q, r)' \/ (Busy(q) /\ pc[v] \in ScanLabels)
  <2>1. ~Busy(q) /\ pc[v] \in ScanLabels
      BY <1>2, <1>5, <1>7
  <2>2. PlusNoticed(v, q, r) /\ r \in Announced(q)
      BY <1>0, <1>7, <2>1 DEF PlusHeld, PlusThread
  <2>3. CASE v = u
      BY <1>1, <1>2, <2>2, <2>3
  <2>4. CASE v # u
    <3>1. pc'[v] = pc[v] /\ me'[v] = me[v]
        BY <1>1, <1>2, <2>4
    <3> QED BY <1>0, <2>2, <3>1 DEF PlusNoticed
  <2> QED BY <2>3, <2>4
<1>8. PlusHeld'
    BY <1>0, <1>6, <1>7, PlusHeldStays
<1> QED BY <1>0, <1>3, <1>4, <1>5, <1>8 DEF PlusInv

\* The size of the next list is read.
LEMMA PlusScanSize ==
    ASSUME Places, PlusInv, NEW u \in Procs, pc[u] = "scanSize", ScanSize(u),
           UNCHANGED <<scheme, mem, epoch, word, list>>
    PROVE  PlusInv' /\ Moves
<1>0. /\ PlusTypes /\ PlaceTypes /\ me[u] \in PlusLocal
      /\ N \in Nat \ {0} /\ Procs = 0 .. N - 1 /\ list' = list /\ Slots \in Nat
    BY PlusFacts
<1>1. CASE me[u].at >= N
  <2>1. Go(u, "scanned") /\ me' = [me EXCEPT ![u] = me[u]]
      BY <1>0, <1>1 DEF ScanSize, PlusTypes
  <2>2. pc'[u] = "scanned" /\ me'[u] = me[u]
      BY <1>0, <2>1 DEF Go, PlusTypes
  <2>3. \A q \in Procs : \A r : PlusNoticed(u, q, r) => PlusNoticed(u, q, r)'
    <3>1. \A q \in Procs : me[u].at # q
        BY <1>0, <1>1
    <3> QED BY <2>2, <3>1 DEF PlusNoticed
  <2>4. "scanned" \in ScanLabels /\ pc[u] \in ScanLabels
      BY DEF ScanLabels
  <2> QED BY <1>0, <1>1, <2>1, <2>3, <2>4, PlusScanStep
<1>2. CASE ~(me[u].at >= N)
  <2>0. me[u].at \in Procs
      BY <1>0, <1>2 DEF PlusLocal
  <2>1. PICK c \in 0 .. Slots : c = list[me[u].at].size
      BY <2>0, PlusFacts DEF Lists
  <2>2. PICK M : M = [me[u] EXCEPT !.size = c, !.ix = 0]
      OBVIOUS
  <2>3. M \in PlusLocal
      BY Zenon, <1>0, <2>2, PlusLocalSet
  <2>4. /\ M.size = c /\ M.ix = 0 /\ M.at = me[u].at /\ M.found = me[u].found
        /\ M.read = me[u].read /\ M.checked = me[u].checked /\ M.mine = me[u].mine
      BY <1>0, <2>2 DEF PlusLocal
  <2>5. Go(u, "scanSlot") /\ me' = [me EXCEPT ![u] = M]
      BY <1>2, <2>1, <2>2 DEF ScanSize, Set
  <2>6. pc'[u] = "scanSlot" /\ me'[u] = M
      BY <1>0, <2>5 DEF Go, PlusTypes
  <2>7. ASSUME NEW q \in Procs, NEW r \in Announced(q), PlusNoticed(u, q, r)
        PROVE  PlusNoticed(u, q, r)'
    <3>1. CASE me[u].at = q
      <4>1. PICK j \in 0 .. list[q].size - 1 : list[q].data[j] = r
          BY DEF Announced
      <4>2. list[q].size \in 0 .. Slots
          BY PlusFacts DEF Lists
      <4>3. j \in 0 .. Slots - 1 /\ 0 <= j /\ j < c
          BY <1>0, <2>1, <3>1, <4>1, <4>2
      <4> QED BY <1>0, <2>4, <2>6, <3>1, <4>1, <4>3 DEF PlusNoticed
    <3>2. CASE me[u].at # q
        BY <2>4, <2>6, <2>7, <3>2 DEF PlusNoticed
    <3> QED BY <3>1, <3>2
  <2>8. "scanSlot" \in ScanLabels /\ pc[u] \in ScanLabels
      BY DEF ScanLabels
  <2>9. M.at < N
      BY <1>0, <2>0, <2>4
  <2> QED BY <1>0, <2>3, <2>4, <2>5, <2>7, <2>8, <2>9, PlusScanStep
<1> QED BY <1>1, <1>2

\* One more slot is looked at, or the list has been seen.
LEMMA PlusScanSlot ==
    ASSUME Places, PlusInv, NEW u \in Procs, pc[u] = "scanSlot", ScanSlot(u),
           UNCHANGED <<scheme, mem, epoch, word, list>>
    PROVE  PlusInv' /\ Moves
<1>0. /\ PlusTypes /\ PlaceTypes /\ me[u] \in PlusLocal
      /\ N \in Nat \ {0} /\ Procs = 0 .. N - 1 /\ list' = list /\ Slots \in Nat
      /\ me[u].at \in Procs /\ me[u].at \in Nat /\ me[u].ix \in Nat /\ me[u].size \in 0 .. Slots
      /\ me[u].found \in SUBSET Slot
  <2>1. /\ PlusTypes /\ PlaceTypes /\ PlusThread(u) /\ me[u] \in PlusLocal
        /\ N \in Nat \ {0} /\ Procs = 0 .. N - 1 /\ list' = list /\ Slots \in Nat
      BY PlusFacts
  <2>2. me[u].at < N
      BY <2>1 DEF PlusThread
  <2> QED BY <2>1, <2>2 DEF PlusLocal
<1>1. CASE me[u].ix >= me[u].size
  <2>1. PICK M : M = [me[u] EXCEPT !.at = me[u].at + 1]
      OBVIOUS
  <2>2. M \in PlusLocal
    <3>1. me[u].at + 1 \in Nat
        BY <1>0
    <3> QED BY Zenon, <1>0, <2>1, <3>1, PlusLocalSet
  <2>3. /\ M.at = me[u].at + 1 /\ M.found = me[u].found
        /\ M.read = me[u].read /\ M.checked = me[u].checked /\ M.mine = me[u].mine
      BY <1>0, <2>1 DEF PlusLocal
  <2>4. Go(u, "scanSize") /\ me' = [me EXCEPT ![u] = M]
      BY <1>1, <2>1 DEF ScanSlot, Set
  <2>5. pc'[u] = "scanSize" /\ me'[u] = M
      BY <1>0, <2>4 DEF Go, PlusTypes
  <2>6. \A q \in Procs : \A r : PlusNoticed(u, q, r) => PlusNoticed(u, q, r)'
      BY <1>0, <1>1, <2>3, <2>5 DEF PlusNoticed
  <2>7. "scanSize" \in ScanLabels /\ pc[u] \in ScanLabels
      BY DEF ScanLabels
  <2> QED BY <1>0, <2>2, <2>3, <2>4, <2>6, <2>7, PlusScanStep
<1>2. CASE ~(me[u].ix >= me[u].size)
  <2>1. PICK v : v = list[me[u].at].data[me[u].ix]
      OBVIOUS
  <2>2. PICK M : M = [me[u] EXCEPT !.found = me[u].found \cup {v}, !.ix = me[u].ix + 1]
      OBVIOUS
  <2>3. M \in PlusLocal
    <3>1. me[u].ix \in 0 .. Slots - 1
        BY <1>0, <1>2
    <3>2. v \in Slot
      <4>1. list[me[u].at].data \in [0 .. Slots - 1 -> Slot]
          BY <1>0, PlusFacts DEF Lists
      <4> QED BY <2>1, <3>1, <4>1
    <3>3. me[u].found \cup {v} \in SUBSET Slot /\ me[u].ix + 1 \in Nat
        BY <1>0, <3>2
    <3> QED BY Zenon, <1>0, <2>2, <3>3, PlusLocalSet
  <2>4. /\ M.size = me[u].size /\ M.ix = me[u].ix + 1 /\ M.at = me[u].at
        /\ M.found = me[u].found \cup {v}
        /\ M.read = me[u].read /\ M.checked = me[u].checked /\ M.mine = me[u].mine
      BY <1>0, <2>2 DEF PlusLocal
  <2>5. /\ me' = [me EXCEPT ![u] = M] /\ pc' = pc
      BY <1>2, <2>1, <2>2 DEF ScanSlot, Set
  <2>6. pc'[u] = "scanSlot" /\ me'[u] = M /\ Go(u, "scanSlot")
      BY <1>0, <2>5 DEF Go, PlusTypes
  <2>7. ASSUME NEW q \in Procs, NEW r, PlusNoticed(u, q, r)
        PROVE  PlusNoticed(u, q, r)'
    <3>1. CASE \E j \in 0 .. Slots - 1 : /\ me[u].at = q
                  /\ me[u].ix <= j /\ j < me[u].size /\ list[q].data[j] = r
      <4>1. PICK j \in 0 .. Slots - 1 : /\ me[u].at = q
                  /\ me[u].ix <= j /\ j < me[u].size /\ list[q].data[j] = r
          BY <3>1
      <4>2. CASE j = me[u].ix
          BY <2>1, <2>4, <2>6, <4>1, <4>2 DEF PlusNoticed
      <4>3. CASE j # me[u].ix
        <5>1. M.ix <= j
            BY <1>0, <2>4, <4>1, <4>3
        <5> QED BY <1>0, <2>4, <2>6, <4>1, <5>1 DEF PlusNoticed
      <4> QED BY <4>2, <4>3
    <3>2. CASE r \in me[u].found \/ me[u].at < q
        BY <2>4, <2>6, <3>2 DEF PlusNoticed
    <3> QED BY <2>7, <3>1, <3>2 DEF PlusNoticed
  <2>8. "scanSlot" \in ScanLabels /\ pc[u] \in ScanLabels /\ M.at < N
      BY <1>0, <2>4 DEF ScanLabels
  <2> QED BY <1>0, <2>3, <2>4, <2>5, <2>6, <2>7, <2>8, PlusScanStep
<1> QED BY <1>1, <1>2

\* The announcement that p looks at is not in the way of the next epoch.
LEMMA PlusPasses ==
    ASSUME Places, PlusInv, NEW p \in Procs, pc[p] = "check", LooksPassed(p, me[p].checked),
           NEW l \in {"advance", "announce"}, l = "advance" => me[p].checked + 1 >= N,
           Set(p, [me[p] EXCEPT !.checked = me[p].checked + 1]), Go(p, l),
           UNCHANGED <<scheme, linked, pool, bags, cur, epoch, list, word, holds>>
    PROVE  PlusInv' /\ Moves
<1>0. /\ PlusTypes /\ (\A q \in Procs : PlusThread(q)) /\ me[p] \in PlusLocal
      /\ Procs' = Procs /\ N' = N /\ epoch \in Nat /\ me[p].checked \in Nat /\ N \in Nat
      /\ \A q \in Procs : q \in Nat /\ q < N /\ me[q].read \in Nat
    BY PlusFacts, SameScheme DEF PlusLocal
<1>1. PICK c \in Nat : c = me[p].checked + 1
    BY <1>0
<1>2. PICK M \in PlusLocal : M = [me[p] EXCEPT !.checked = c]
    BY Zenon, <1>0, PlusLocalSet
<1>3. M.read = me[p].read /\ M.checked = c /\ M.mine = me[p].mine
    BY <1>0, <1>2 DEF PlusLocal
<1>4. /\ me' \in [Procs -> PlusLocal] /\ me'[p] = M /\ \A q \in Procs \ {p} : me'[q] = me[q]
  <2>1. Set(p, M)
      BY <1>1, <1>2
  <2> QED BY <1>0, <2>1, PlusSet
<1>5. /\ pc' \in [Procs -> PlusLabels] /\ pc'[p] = l
      /\ \A q \in Procs \ {p} : pc'[q] = pc[q]
  <2>1. l \in PlusLabels
      BY DEF PlusLabels
  <2> QED BY <1>0, <2>1, PlusLabel
<1>6. ASSUME NEW q \in Procs, Busy(q), c > q, me[p].read = epoch
      PROVE  me[p].checked > q \/ word[q] = epoch
  <2>1. SUFFICES ASSUME q = me[p].checked PROVE word[q] = epoch
      BY <1>0, <1>1, <1>6
  <2>2. word[q] = me[q].read /\ me[q].read % 2 = 0
      BY <1>0, <1>6 DEF PlusThread
  <2>3. BITS_EPOCH(word[q]) = word[q] /\ ~isQuiescent(q)
      BY <1>0, <2>2, EvenEpoch DEF isQuiescent
  <2>4. BITS_EPOCH(word[q]) = me[p].read \/ isQuiescent(q)
    <3>1. LooksPassed(p, q) /\ ~(q >= N)
        BY <1>0, <2>1
    <3> QED BY Zenon, <3>1 DEF LooksPassed
  <2> QED BY <1>6, <2>3, <2>4
<1>7. PlusThread(p)' /\ ~Busy(p) /\ holds'[p] = {}
    BY <1>0, <1>1, <1>3, <1>4, <1>5 DEF PlusThread, Busy
<1>8. pc[p] \notin ScanLabels /\ pc'[p] \notin ScanLabels
    BY <1>5 DEF ScanLabels
<1> QED BY <1>0, <1>3, <1>4, <1>5, <1>6, <1>7, <1>8, PlusOneStep DEF PlusTypes

\* A thread that is in the way is interrupted: it keeps what it announced.
LEMMA PlusInterrupts ==
    ASSUME Places, PlusInv, NEW p \in Procs, pc[p] = "check", NEW q, q = me[p].checked,
           ~LooksPassed(p, q), Interrupted(q),
           NEW l \in {"advance", "announce"}, l = "advance" => q + 1 >= N,
           Set(p, [me[p] EXCEPT !.checked = q + 1]),
           pc' = [pc EXCEPT ![p] = l, ![q] = "retire"],
           UNCHANGED <<scheme, linked, pool, bags, cur, epoch, list>>
    PROVE  PlusInv' /\ Moves
<1>0. /\ PlusTypes /\ (\A v \in Procs : PlusThread(v)) /\ me[p] \in PlusLocal
      /\ Procs' = Procs /\ N' = N /\ epoch \in Nat /\ q \in Nat /\ N \in Nat
      /\ Procs = 0 .. N - 1 /\ \A v \in Procs : me[v].read \in Nat
    BY PlusFacts, SameScheme DEF PlusLocal
<1>1. q \in Procs /\ BITS_EPOCH(word[q]) # me[p].read /\ ~isQuiescent(q)
    BY <1>0 DEF LooksPassed
<1>2. Busy(q)
    BY <1>0, <1>1 DEF PlusThread, isQuiescent, QUIESCENT
<1>3. ~Busy(p) /\ q # p
    BY <1>2 DEF Busy
<1>4. PICK M \in PlusLocal : M = [me[p] EXCEPT !.checked = q + 1]
  <2>1. q + 1 \in Nat
      BY <1>0
  <2> QED BY Zenon, <1>0, <2>1, PlusLocalSet
<1>5. M.read = me[p].read /\ M.checked = q + 1 /\ M.mine = me[p].mine
    BY <1>0, <1>4 DEF PlusLocal
<1>6. /\ me' \in [Procs -> PlusLocal] /\ me'[p] = M /\ \A v \in Procs \ {p} : me'[v] = me[v]
    BY <1>0, <1>4, PlusSet
<1>7. /\ pc' \in [Procs -> PlusLabels] /\ pc'[p] = l /\ pc'[q] = "retire"
      /\ \A v \in Procs \ {p, q} : pc'[v] = pc[v]
    BY <1>0, <1>1, <1>3 DEF PlusTypes, PlusLabels
<1>8. /\ word' = [word EXCEPT ![q] = GET_WITH_QUIESCENT(@)]
      /\ holds' = [holds EXCEPT ![q] = @ \cap Announced(q)]
    BY <1>1 DEF Interrupted
<1>9. word[q] = me[q].read /\ GET_WITH_QUIESCENT(word[q]) = me[q].read + 1
      /\ (me[q].read + 1) % 2 = 1
    BY <1>0, <1>1, <1>2, EvenEpoch DEF PlusThread
<1>10. /\ word' \in [Procs -> Nat] /\ word'[q] = me[q].read + 1
       /\ \A v \in Procs \ {q} : word'[v] = word[v]
  <2>1. PICK w \in Nat : w = me[q].read + 1
      BY <1>0, <1>1
  <2>2. word' = [word EXCEPT ![q] = w]
      BY <1>8, <1>9, <2>1
  <2> QED BY <1>0, <1>1, <2>1, <2>2 DEF PlusTypes
<1>11. /\ holds' \in [Procs -> SUBSET Stock] /\ holds'[q] = holds[q] \cap Announced(q)
       /\ \A v \in Procs \ {q} : holds'[v] = holds[v]
  <2>1. PICK H \in SUBSET Stock : H = holds[q] \cap Announced(q)
      BY <1>0, <1>1 DEF PlusTypes
  <2> QED BY <1>0, <1>1, <1>8, <2>1 DEF PlusTypes
<1>12. PlusThread(p)' /\ holds'[p] = {}
    BY <1>0, <1>3, <1>5, <1>6, <1>7, <1>10, <1>11 DEF PlusThread, Busy
<1>13. PlusThread(q)'
  <2>1. Announced(q)' = Announced(q) /\ me'[q] = me[q] /\ ~Busy(q)'
      BY <1>1, <1>3, <1>6, <1>7 DEF Announced, Busy
  <2> QED BY <1>0, <1>1, <1>7, <1>9, <1>10, <1>11, <2>1 DEF PlusThread
<1>14. PICK C \in SUBSET Procs : C = {p, q}
    BY <1>1
<1>15. \A v \in Procs \ C : me'[v] = me[v] /\ pc'[v] = pc[v] /\ list'[v] = list[v]
                              /\ holds'[v] = holds[v] /\ word'[v] = word[v]
    BY <1>6, <1>7, <1>10, <1>11, <1>14
<1>16. ASSUME NEW v \in C
       PROVE  /\ pc[v] \notin ScanLabels /\ pc'[v] \notin ScanLabels
              /\ holds'[v] \subseteq holds[v] \cup linked /\ (holds'[v] # {} => Busy(v))
              /\ me'[v].read = me[v].read /\ (Busy(v) /\ Busy(v)' => word'[v] = word[v])
              /\ \A w \in Procs :
                    Busy(w) /\ Busy(w)' /\ me'[v].checked > w /\ me[v].read = epoch =>
                       me[v].checked > w \/ word[w] = epoch
              /\ PlusThread(v)'
  <2>1. CASE v = p
    <3>1. ASSUME NEW w \in Procs, Busy(w), Busy(w)', me'[p].checked > w PROVE me[p].checked > w
      <4>1. w # q
          BY <1>7, <3>1 DEF Busy
      <4> QED BY <1>0, <1>5, <1>6, <3>1, <4>1
    <3>2. pc[p] \notin ScanLabels /\ pc'[p] \notin ScanLabels /\ ~Busy(p)'
        BY <1>7 DEF ScanLabels, Busy
    <3> QED BY <1>5, <1>6, <1>12, <2>1, <3>1, <3>2
  <2>2. CASE v = q
    <3>1. pc[q] \notin ScanLabels /\ pc'[q] \notin ScanLabels /\ ~Busy(q)'
        BY <1>2, <1>7 DEF ScanLabels, Busy
    <3>2. me'[q] = me[q]
        BY <1>1, <1>3, <1>6
    <3> QED BY <1>2, <1>11, <1>13, <2>2, <3>1, <3>2
  <2> QED BY <1>14, <1>16, <2>1, <2>2
<1>17. PlusInv'
    BY <1>0, <1>6, <1>7, <1>10, <1>11, <1>15, <1>16, PlusOwnStep DEF PlusTypes
<1>18. Moves
  <2>1. \A v \in Procs : me'[v].mine = me[v].mine
      BY <1>5, <1>6
  <2> QED BY <2>1 DEF Moves, Unmoved, Places, PlaceTypes
<1> QED BY <1>17, <1>18

\* One more announcement is looked at.
LEMMA PlusChecks ==
    ASSUME Places, PlusInv, NEW p \in Procs, plus_check(p)
    PROVE  PlusInv' /\ Moves
<1>0. /\ PlusTypes /\ PlusThread(p) /\ me[p] \in PlusLocal /\ Procs' = Procs /\ N' = N
      /\ pc[p] = "check" /\ UNCHANGED <<scheme, linked, pool, bags, cur, epoch, list>>
      /\ N \in Nat /\ me[p].checked \in Nat
    BY PlusFacts, SameScheme DEF plus_check, At, PlusLocal
<1>1. PICK q : q = me[p].checked
    OBVIOUS
<1>2. PICK l \in {"advance", "announce"} :
         l = IF q + 1 >= N /\ q + 1 > MinEpochOps THEN "advance" ELSE "announce"
    OBVIOUS
<1>3. /\ l = "advance" => q + 1 >= N
      /\ IF LooksPassed(p, q)
           THEN /\ Set(p, [me[p] EXCEPT !.checked = q + 1])
                /\ Go(p, l) /\ UNCHANGED <<word, holds>>
         ELSE IF getSizeInBlocks(bags[p][cur[p]]) >= SignalBlocks
           THEN /\ Set(p, [me[p] EXCEPT !.checked = q + 1])
                /\ Interrupted(q)
                /\ pc' = [pc EXCEPT ![p] = l, ![q] = "retire"]
         ELSE Go(p, "announce") /\ UNCHANGED <<me, word, holds>>
  <2>1. l = "advance" => q + 1 >= N
      BY <1>2
  <2> QED BY Zenon, <1>1, <1>2, <2>1 DEF plus_check
<1>4. CASE LooksPassed(p, q)
    BY <1>0, <1>1, <1>3, <1>4, PlusPasses
<1>5. CASE ~LooksPassed(p, q) /\ getSizeInBlocks(bags[p][cur[p]]) >= SignalBlocks
    BY <1>0, <1>1, <1>3, <1>5, PlusInterrupts
<1>6. CASE Go(p, "announce") /\ UNCHANGED <<me, word, holds>>
  <2>1. /\ pc' \in [Procs -> PlusLabels] /\ pc'[p] = "announce"
        /\ \A v \in Procs \ {p} : pc'[v] = pc[v]
    <3>1. "announce" \in PlusLabels
        BY DEF PlusLabels
    <3> QED BY <1>0, <1>6, <3>1, PlusLabel
  <2>2. PlusThread(p)' /\ ~Busy(p) /\ holds'[p] = {}
      BY <1>0, <1>6, <2>1 DEF PlusThread, Busy
  <2>3. pc[p] \notin ScanLabels /\ pc'[p] \notin ScanLabels
      BY <1>0, <2>1 DEF ScanLabels
  <2> QED BY <1>0, <1>6, <2>1, <2>2, <2>3, PlusOneStep DEF PlusTypes
<1> QED BY <1>3, <1>4, <1>5, <1>6

\* The epoch moves on when nobody is in the way.
LEMMA PlusAdvances ==
    ASSUME Places, PlusInv, NEW p \in Procs, plus_advance(p)
    PROVE  PlusInv' /\ Moves
<1>0. /\ PlusTypes /\ PlusHeld /\ PlaceTypes /\ (\A q \in Procs : PlusThread(q))
      /\ Procs' = Procs /\ Stock' = Stock /\ N' = N /\ N \in Nat /\ Procs = 0 .. N - 1
      /\ pc[p] = "advance" /\ epoch \in Nat /\ epoch % 2 = 0 /\ (epoch + 2) % 2 = 0
      /\ \A q \in Procs : me[q].read \in Nat /\ me[q].checked \in Nat /\ me[q] \in PlusLocal
      /\ UNCHANGED <<scheme, linked, holds, pool, bags, cur, me, word, list>>
    BY PlusFacts, SameScheme, EvenEpoch DEF plus_advance, At, mem, PlusTypes, PlusLocal
<1>1. epoch' = IF epoch = me[p].read THEN epoch + 2 ELSE epoch
    BY DEF plus_advance, EPOCH_INCREMENT
<1>2. epoch' \in Nat /\ epoch <= epoch' /\ epoch' % 2 = 0
    BY <1>0, <1>1
<1>3. /\ pc' \in [Procs -> PlusLabels] /\ pc'[p] = "announce"
      /\ \A q \in Procs \ {p} : pc'[q] = pc[q]
  <2>1. "announce" \in PlusLabels /\ Go(p, "announce")
      BY DEF PlusLabels, plus_advance
  <2> QED BY <1>0, <2>1, PlusLabel
<1>4. PlusTypes'
  <2>1. PlusLocal' = PlusLocal /\ Lists' = Lists
      BY <1>0 DEF PlusLocal, Lists, Slot
  <2> QED BY <1>0, <1>2, <1>3, <2>1 DEF PlusTypes
<1>5. Moves
    BY <1>0 DEF Moves, Unmoved, PlaceTypes
<1>6. ASSUME NEW q \in Procs PROVE PlusThread(q)' /\ (Busy(q)' <=> Busy(q))
  <2>1. PlusThread(q) /\ Announced(q)' = Announced(q)
      BY <1>0 DEF Announced
  <2>2. me[q].read <= epoch'
      BY <1>0, <1>2, <2>1 DEF PlusThread
  <2>3. CASE q = p
      BY <1>0, <1>3, <2>1, <2>2, <2>3 DEF PlusThread, Busy
  <2>4. CASE q # p
    <3>1. pc'[q] = pc[q] /\ me'[q] = me[q] /\ (Busy(q)' <=> Busy(q))
        BY <1>0, <1>3, <2>4 DEF Busy
    <3> QED BY <1>0, <2>1, <2>2, <3>1 DEF PlusThread
  <2> QED BY <2>3, <2>4
<1>7. ASSUME NEW q \in Procs, NEW u \in Procs, Busy(q)'
      PROVE  Busy(q) /\ PlusTurns(u, q)' <= PlusTurns(u, q)
  <2>1. Busy(q)
      BY <1>6, <1>7
  <2>2. pc'[u] \in ScanLabels <=> pc[u] \in ScanLabels
      BY <1>0, <1>3 DEF ScanLabels
  <2>3. CASE epoch = me[p].read
    <3>1. Passes(q)
      <4>1. me[p].checked >= N
          BY <1>0 DEF PlusThread
      <4> QED BY <1>0, <2>3, <4>1 DEF Passes
    <3>2. ~Passes(q)'
      <4>1. word[q] = me[q].read /\ \A w \in Procs : me[w].read <= epoch
          BY <1>0, <2>1 DEF PlusThread
      <4> QED BY <1>0, <1>1, <2>3, <4>1 DEF Passes
    <3> QED BY <1>0, <2>1, <2>2, <3>1, <3>2 DEF PlusTurns
  <2>4. CASE epoch # me[p].read
    <3>1. epoch' = epoch
        BY <1>1, <2>4
    <3>2. Passes(q)' => Passes(q)
        BY <1>0, <3>1 DEF Passes
    <3> QED BY <1>0, <2>1, <2>2, <3>1, <3>2, PlusTurnsStay
  <2> QED BY <2>3, <2>4
<1>8. ASSUME NEW q \in Procs, NEW u \in Procs, NEW r \in holds[q],
             ~Busy(q)', pc'[u] \in ScanLabels, r \in bags[u][NextBag(u)]
      PROVE  PlusNoticed(u, q, r)'
  <2>1. ~Busy(q) /\ pc'[u] = pc[u] /\ me'[u] = me[u]
      BY <1>0, <1>3, <1>6, <1>8 DEF ScanLabels
  <2>2. PlusNoticed(u, q, r)
      BY <1>0, <1>8, <2>1 DEF PlusHeld
  <2> QED BY <1>0, <2>1, <2>2 DEF PlusNoticed
<1>9. PlusHeld'
    BY <1>0, <1>7, <1>8, PlusHeldStays
<1> QED BY <1>0, <1>4, <1>5, <1>6, <1>9 DEF PlusInv

\* The thread can be interrupted from now on.
LEMMA PlusAnnounces ==
    ASSUME Places, PlusInv, NEW p \in Procs, plus_announce(p)
    PROVE  PlusInv' /\ Moves
<1>0. /\ PlusTypes /\ PlusThread(p) /\ me[p].read \in Nat /\ Procs' = Procs /\ N' = N
      /\ pc[p] = "announce" /\ UNCHANGED <<scheme, linked, holds, pool, bags, cur, me, epoch, list>>
      /\ word' = [word EXCEPT ![p] = me[p].read] /\ Go(p, "in")
    BY PlusFacts, SameScheme DEF plus_announce, At, mem, PlusLocal
<1>1. /\ pc' \in [Procs -> PlusLabels] /\ pc'[p] = "in"
      /\ \A q \in Procs \ {p} : pc'[q] = pc[q]
  <2>1. "in" \in PlusLabels
      BY DEF PlusLabels
  <2> QED BY <1>0, <2>1, PlusLabel
<1>2. /\ word' \in [Procs -> Nat] /\ word'[p] = me[p].read
      /\ \A q \in Procs \ {p} : word'[q] = word[q]
    BY <1>0 DEF PlusTypes
<1>3. PlusThread(p)' /\ ~Busy(p) /\ holds'[p] = {}
    BY <1>0, <1>1, <1>2 DEF PlusThread, Busy
<1>4. pc[p] \notin ScanLabels /\ pc'[p] \notin ScanLabels
    BY <1>0, <1>1 DEF ScanLabels
<1> QED BY <1>0, <1>1, <1>2, <1>3, <1>4, PlusOneStep DEF PlusTypes

\* It finds a record.
LEMMA PlusFinds ==
    ASSUME Places, PlusInv, NEW p \in Procs, pc[p] = "in", Find(p)
    PROVE  PlusInv' /\ Moves
<1>0. /\ PlusTypes /\ PlaceTypes /\ PlusThread(p) /\ Procs' = Procs /\ N' = N
      /\ UNCHANGED <<scheme, pc, me, linked, pool, bags, cur, epoch, word, list>>
    BY PlusFacts, SameScheme DEF Find
<1>1. PICK r \in linked : holds' = [holds EXCEPT ![p] = @ \cup {r}]
    BY DEF Find
<1>2. /\ holds' \in [Procs -> SUBSET Stock] /\ holds'[p] = holds[p] \cup {r}
      /\ \A q \in Procs \ {p} : holds'[q] = holds[q]
    BY <1>0, <1>1 DEF PlusTypes, PlaceTypes
<1>3. PlusThread(p)' /\ Busy(p)
    BY <1>0 DEF PlusThread, Busy
<1>4. pc[p] \notin ScanLabels /\ pc'[p] \notin ScanLabels
    BY <1>0 DEF ScanLabels
<1> QED BY <1>0, <1>2, <1>3, <1>4, PlusOneStep DEF PlusTypes

\* qProtect: the list of p changes, and where it is in its operation.
LEMMA PlusProtects ==
    ASSUME Places, PlusInv, NEW p \in Procs, Busy(p), NEW l \in {"in", "announced", "confirm"},
           NEW L \in Lists, list' = [list EXCEPT ![p] = L], Go(p, l),
           l = "announced" => L.size < Slots, l = "confirm" => L.size > 0,
           UNCHANGED <<scheme, mem, me, epoch, word>>
    PROVE  PlusInv' /\ Moves
<1>0. /\ PlusTypes /\ PlusThread(p) /\ Procs' = Procs /\ N' = N
      /\ UNCHANGED <<scheme, linked, holds, pool, bags, cur, me, epoch, word>>
    BY PlusFacts, SameScheme DEF mem
<1>1. /\ pc' \in [Procs -> PlusLabels] /\ pc'[p] = l
      /\ \A q \in Procs \ {p} : pc'[q] = pc[q]
  <2>1. l \in PlusLabels
      BY DEF PlusLabels
  <2> QED BY <1>0, <2>1, PlusLabel
<1>2. /\ list' \in [Procs -> Lists] /\ list'[p] = L
      /\ \A q \in Procs \ {p} : list'[q] = list[q]
    BY <1>0 DEF PlusTypes
<1>3. PlusThread(p)'
    BY <1>0, <1>1, <1>2 DEF PlusThread, Busy
<1>4. pc[p] \notin ScanLabels /\ pc'[p] \notin ScanLabels
    BY <1>1 DEF ScanLabels, Busy
<1> QED BY <1>0, <1>1, <1>2, <1>3, <1>4, PlusOneStep DEF PlusTypes

\* The lists that its steps leave.
LEMMA PlusListSet ==
    ASSUME NEW L \in Lists
    PROVE  /\ \A c \in 0 .. Slots : [L EXCEPT !.size = c] \in Lists /\ [L EXCEPT !.size = c].size = c
           /\ \A i \in 0 .. Slots - 1, r \in Slot :
                 [L EXCEPT !.data[i] = r] \in Lists /\ [L EXCEPT !.data[i] = r].size = L.size
<1>1. \A c \in 0 .. Slots : [L EXCEPT !.size = c] \in Lists /\ [L EXCEPT !.size = c].size = c
    BY DEF Lists
<1>2. ASSUME NEW i \in 0 .. Slots - 1, NEW r \in Slot
      PROVE  [L EXCEPT !.data[i] = r] \in Lists /\ [L EXCEPT !.data[i] = r].size = L.size
  <2>1. PICK d \in [0 .. Slots - 1 -> Slot] : d = [L.data EXCEPT ![i] = r]
      BY DEF Lists
  <2>2. [L EXCEPT !.data[i] = r] = [L EXCEPT !.data = d]
      BY <2>1
  <2> QED BY <2>1, <2>2 DEF Lists
<1> QED BY <1>1, <1>2

\* It announces a record, in two steps, and asks whether it is still linked.
LEMMA PlusProtect ==
    ASSUME Places, PlusInv, NEW p \in Procs, plus_qProtect(p)
    PROVE  PlusInv' /\ Moves
<1>0. /\ list[p] \in Lists /\ list[p].size \in 0 .. Slots /\ PlusThread(p) /\ Slots \in Nat
      /\ holds[p] \in SUBSET Stock
    BY PlusFacts DEF Lists
<1>1. CASE At(p, {"debraplus"}, "in") /\ list[p].size < Plan[scheme].slots[p]
           /\ (\E r \in holds[p] \ Announced(p) : AddStore(p, r))
           /\ Go(p, "announced") /\ UNCHANGED <<scheme, mem, me, epoch, word>>
  <2>1. PICK r \in Slot : AddStore(p, r)
      BY <1>0, <1>1 DEF Slot
  <2>2. list[p].size \in 0 .. Slots - 1
    <3>1. scheme = "debraplus" /\ scheme \in DOMAIN Plan /\ p \in 0 .. Plan[scheme].threads - 1
        BY <1>1 DEF At, Places, PlaceTypes, Procs
    <3>2. Plan[scheme].slots[p] \in 0 .. Slots
        BY <3>1, RoomAssumption
    <3> QED BY <1>0, <1>1, <3>2
  <2>3. PICK L : L = [list[p] EXCEPT !.data[list[p].size] = r]
      OBVIOUS
  <2>4. L \in Lists /\ L.size = list[p].size
      BY <1>0, <2>2, <2>3, PlusListSet
  <2>5. list' = [list EXCEPT ![p] = L] /\ L.size < Slots
      BY <1>0, <2>1, <2>2, <2>3, <2>4 DEF AddStore
  <2>6. Busy(p)
      BY <1>1 DEF Busy, At
  <2> QED BY <1>1, <2>4, <2>5, <2>6, PlusProtects
<1>2. CASE At(p, {"debraplus"}, "announced") /\ AddSize(p) /\ Go(p, "confirm")
           /\ UNCHANGED <<scheme, mem, me, epoch, word>>
  <2>1. PICK c \in 0 .. Slots : c = list[p].size + 1
      BY <1>0, <1>2 DEF PlusThread, At
  <2>2. PICK L : L = [list[p] EXCEPT !.size = c]
      OBVIOUS
  <2>3. L \in Lists /\ L.size = c
      BY <1>0, <2>2, PlusListSet
  <2>4. list' = [list EXCEPT ![p] = L] /\ L.size > 0
      BY <1>0, <1>2, <2>1, <2>2, <2>3 DEF AddSize
  <2>5. Busy(p)
      BY <1>2 DEF Busy, At
  <2> QED BY <1>2, <2>3, <2>4, <2>5, PlusProtects
<1>3. CASE /\ At(p, {"debraplus"}, "confirm")
           /\ IF list[p].data[list[p].size - 1] \in linked THEN UNCHANGED list
              ELSE list' = [list EXCEPT ![p].size = @ - 1]
           /\ Go(p, "in") /\ UNCHANGED <<scheme, mem, me, epoch, word>>
  <2>1. Busy(p) /\ list[p].size > 0
      BY <1>0, <1>3 DEF Busy, PlusThread, At
  <2>2. CASE list' = list
    <3>1. list' = [list EXCEPT ![p] = list[p]]
        BY <2>2, PlusFacts DEF PlusTypes
    <3> QED BY <1>0, <1>3, <2>1, <3>1, PlusProtects
  <2>3. CASE list' = [list EXCEPT ![p].size = @ - 1]
    <3>1. PICK c \in 0 .. Slots : c = list[p].size - 1
        BY <1>0, <2>1
    <3>2. PICK L : L = [list[p] EXCEPT !.size = c]
        OBVIOUS
    <3>3. L \in Lists
        BY <1>0, <3>2, PlusListSet
    <3>4. list' = [list EXCEPT ![p] = L]
        BY <2>3, <3>1, <3>2
    <3> QED BY <1>3, <2>1, <3>3, <3>4, PlusProtects
  <2> QED BY <1>3, <2>2, <2>3
<1> QED BY <1>1, <1>2, <1>3, Zenon DEF plus_qProtect

\* A record is unlinked, and kept until the thread is quiescent.
LEMMA PlusUnlinks ==
    ASSUME Places, PlusInv, NEW p \in Procs, plus_unlink(p)
    PROVE  PlusInv' /\ Moves
<1>0. /\ PlusTypes /\ PlaceTypes /\ PlusThread(p) /\ Procs' = Procs /\ N' = N /\ me[p] \in PlusLocal
      /\ pc[p] = "in" /\ UNCHANGED <<scheme, pc, holds, pool, bags, cur, epoch, word, list>>
    BY PlusFacts, SameScheme DEF plus_unlink, At
<1>1. PICK r \in Stock : /\ r \in linked /\ linked' = linked \ {r}
                         /\ Set(p, [me[p] EXCEPT !.mine = me[p].mine \cup {r}])
    BY <1>0 DEF plus_unlink, Unlink, PlaceTypes
<1>2. PICK X \in SUBSET Stock : X = me[p].mine \cup {r}
    BY <1>0 DEF PlaceTypes
<1>3. PICK M \in PlusLocal : M = [me[p] EXCEPT !.mine = X]
    BY Zenon, <1>0, PlusLocalSet
<1>4. M.read = me[p].read /\ M.checked = me[p].checked /\ M.mine = X
    BY <1>0, <1>3 DEF PlusLocal
<1>5. /\ me' \in [Procs -> PlusLocal] /\ me'[p] = M /\ \A q \in Procs \ {p} : me'[q] = me[q]
  <2>1. Set(p, M)
      BY <1>1, <1>2, <1>3
  <2> QED BY <1>0, <2>1, PlusSet
<1>6. PlusThread(p)' /\ Busy(p)
    BY <1>0, <1>4, <1>5 DEF PlusThread, Busy
<1>7. pc[p] \notin ScanLabels /\ pc'[p] \notin ScanLabels
    BY <1>0 DEF ScanLabels
<1>8. PlusInv'
    BY <1>0, <1>4, <1>5, <1>6, <1>7, PlusOneStep DEF PlusTypes
<1>9. Moves
  <2>1. Unlinks(p, r)
      BY <1>0, <1>1, <1>2, <1>4, <1>5 DEF Unlinks
  <2> QED BY <1>0, <2>1 DEF Moves, PlaceTypes
<1> QED BY <1>8, <1>9

\* The thread is quiescent, and keeps what it announced.
LEMMA PlusEnds ==
    ASSUME Places, PlusInv, NEW p \in Procs, plus_endOp(p)
    PROVE  PlusInv' /\ Moves
<1>0. /\ PlusTypes /\ PlusThread(p) /\ Procs' = Procs /\ N' = N /\ me[p].read \in Nat
      /\ pc[p] = "in" /\ UNCHANGED <<scheme, me, linked, pool, bags, cur, epoch, list>>
      /\ Go(p, "retire")
    BY PlusFacts, SameScheme DEF plus_endOp, At, PlusLocal
<1>1. PICK w \in Nat : w = me[p].read + 1
    BY <1>0
<1>2. Busy(p)
    BY <1>0 DEF Busy
<1>3. word' = [word EXCEPT ![p] = w] /\ w % 2 = 1
  <2>1. GET_WITH_QUIESCENT(word[p]) = w /\ w % 2 = 1
      BY <1>0, <1>1, <1>2, EvenEpoch DEF PlusThread
  <2> QED BY <2>1 DEF plus_endOp
<1>4. /\ word' \in [Procs -> Nat] /\ word'[p] = w
      /\ \A q \in Procs \ {p} : word'[q] = word[q]
    BY <1>0, <1>3 DEF PlusTypes
<1>5. PICK H \in SUBSET Stock : H = holds[p] \cap Announced(p)
    BY <1>0 DEF PlusTypes
<1>6. /\ holds' \in [Procs -> SUBSET Stock] /\ holds'[p] = H
      /\ \A q \in Procs \ {p} : holds'[q] = holds[q]
    BY <1>0, <1>5 DEF PlusTypes, plus_endOp
<1>7. /\ pc' \in [Procs -> PlusLabels] /\ pc'[p] = "retire"
      /\ \A q \in Procs \ {p} : pc'[q] = pc[q]
  <2>1. "retire" \in PlusLabels
      BY DEF PlusLabels
  <2> QED BY <1>0, <2>1, PlusLabel
<1>8. ~Busy(p)' /\ Announced(p)' = Announced(p)
    BY <1>0, <1>7 DEF Busy, Announced
<1>9. PlusThread(p)'
    BY <1>0, <1>1, <1>3, <1>4, <1>5, <1>6, <1>7, <1>8 DEF PlusThread
<1>10. pc[p] \notin ScanLabels /\ pc'[p] \notin ScanLabels
    BY <1>0, <1>7 DEF ScanLabels
<1> QED BY <1>0, <1>2, <1>4, <1>5, <1>6, <1>7, <1>8, <1>9, <1>10, PlusOneStep DEF PlusTypes

\* Nobody scans a bag that is in use.
LEMMA PlusRetires ==
    ASSUME Places, PlusInv, NEW p \in Procs, plus_retire(p)
    PROVE  PlusInv' /\ Moves
<1>0. /\ PlusTypes /\ PlusHeld /\ PlaceTypes /\ Apart /\ (\A q \in Procs : PlusThread(q))
      /\ Procs' = Procs /\ Stock' = Stock /\ N' = N /\ me[p] \in PlusLocal /\ list[p] \in Lists
      /\ pc[p] = "retire" /\ UNCHANGED <<scheme, linked, pool, cur, epoch, word>>
      /\ Slots \in Nat /\ Go(p, "idle")
    BY PlusFacts, SameScheme DEF plus_retire, At
<1>1. PICK i \in 0 .. 2 : i = cur[p]
    BY <1>0 DEF PlaceTypes
<1>2. PICK X \in SUBSET Stock : X = bags[p][i] \cup me[p].mine
    BY <1>0 DEF PlaceTypes
<1>3. bags' = [bags EXCEPT ![p][i] = X]
    BY <1>1, <1>2 DEF plus_retire
<1>4. \A q \in Procs, j \in 0 .. 2 : bags'[q][j] = IF q = p /\ j = i THEN X ELSE bags[q][j]
    BY <1>0, <1>3, BagsExcept DEF PlaceTypes
<1>5. PICK M \in PlusLocal : M = [me[p] EXCEPT !.mine = {}]
  <2>1. {} \in SUBSET Stock
      OBVIOUS
  <2> QED BY Zenon, <1>0, <2>1, PlusLocalSet
<1>6. M.read = me[p].read /\ M.checked = me[p].checked /\ M.mine = {}
    BY <1>0, <1>5 DEF PlusLocal
<1>7. /\ me' \in [Procs -> PlusLocal] /\ me'[p] = M /\ \A q \in Procs \ {p} : me'[q] = me[q]
  <2>1. Set(p, M)
      BY <1>5 DEF plus_retire
  <2> QED BY <1>0, <2>1, PlusSet
<1>8. /\ holds' \in [Procs -> SUBSET Stock] /\ holds'[p] = {}
      /\ \A q \in Procs \ {p} : holds'[q] = holds[q]
    BY <1>0 DEF PlusTypes, plus_retire
<1>9. /\ pc' \in [Procs -> PlusLabels] /\ pc'[p] = "idle"
      /\ \A q \in Procs \ {p} : pc'[q] = pc[q]
  <2>1. "idle" \in PlusLabels
      BY DEF PlusLabels
  <2> QED BY <1>0, <2>1, PlusLabel
<1>10. /\ list' \in [Procs -> Lists]
       /\ \A q \in Procs \ {p} : list'[q] = list[q]
  <2>1. PICK L : L = [list[p] EXCEPT !.size = 0]
      OBVIOUS
  <2>2. L \in Lists
      BY <1>0, <2>1, PlusListSet
  <2>3. list' = [list EXCEPT ![p] = L]
      BY <2>1 DEF plus_retire, Clear
  <2> QED BY <1>0, <2>2, <2>3 DEF PlusTypes
<1>11. PlusTypes'
  <2>1. PlusLocal' = PlusLocal /\ Lists' = Lists
      BY <1>0 DEF PlusLocal, Lists, Slot
  <2> QED BY <1>0, <1>7, <1>8, <1>9, <1>10, <2>1 DEF PlusTypes
<1>12. Moves
  <2>1. \A q \in Procs : me'[q].mine = IF q = p THEN {} ELSE me[q].mine
      BY <1>6, <1>7
  <2>2. Stores(p, i)
      BY <1>0, <1>2, <1>3, <2>1 DEF Stores
  <2> QED BY <1>0, <2>2 DEF Moves, PlaceTypes
<1>13. ASSUME NEW q \in Procs PROVE PlusThread(q)' /\ (Busy(q)' <=> Busy(q))
  <2>1. CASE q = p
      BY <1>0, <1>6, <1>7, <1>8, <1>9, <2>1 DEF PlusThread, Busy
  <2>2. CASE q # p
    <3>1. /\ pc'[q] = pc[q] /\ me'[q] = me[q] /\ list'[q] = list[q] /\ holds'[q] = holds[q]
        BY <1>7, <1>8, <1>9, <1>10, <2>2
    <3>2. Announced(q)' = Announced(q) /\ (Busy(q)' <=> Busy(q))
        BY <3>1 DEF Announced, Busy
    <3> QED BY <1>0, <3>1, <3>2 DEF PlusThread
  <2> QED BY <2>1, <2>2
<1>14. ASSUME NEW q \in Procs, NEW r \in holds'[q], NEW u \in Procs, NEW j \in 0 .. 2,
              Busy(q), r \in bags'[u][j]
       PROVE  PlusTurns(u, q)' < Age(u, j)'
  <2>1. r \in holds[q]
      BY <1>8, <1>14
  <2>2. PlusTurns(u, q)' <= PlusTurns(u, q)
    <3>1. Passes(q)' => Passes(q)
        BY <1>0, <1>6, <1>7 DEF Passes
    <3>2. me'[u].read = me[u].read /\ (pc'[u] \in ScanLabels => pc[u] \in ScanLabels)
        BY <1>6, <1>7, <1>9 DEF ScanLabels
    <3> QED BY <1>0, <3>1, <3>2, PlusTurnsStay
  <2>3. Age(u, j)' = Age(u, j)
      BY <1>0 DEF Age
  <2>4. PlusTurns(u, q) < Age(u, j)
    <3>1. CASE r \in bags[u][j]
        BY <1>0, <1>14, <2>1, <3>1 DEF PlusHeld
    <3>2. CASE r \notin bags[u][j]
      <4>1. u = p /\ j = i
          BY <1>4, <1>14, <3>2
      <4>2. Age(u, j) = 3
          BY <1>1, <4>1 DEF Age
      <4> QED BY <1>0, <4>1, <4>2 DEF PlusTurns, ScanLabels
    <3> QED BY <3>1, <3>2
  <2>5. PlusTurns(u, q) \in Int /\ PlusTurns(u, q)' \in Int /\ Age(u, j) \in Int
      BY DEF PlusTurns, Age
  <2> QED BY <2>2, <2>3, <2>4, <2>5
<1>15. ASSUME NEW q \in Procs, NEW r \in holds'[q], NEW u \in Procs,
              ~Busy(q), pc'[u] \in ScanLabels, r \in bags'[u][NextBag(u)]
       PROVE  PlusNoticed(u, q, r)'
  <2>1. u # p /\ q # p /\ NextBag(u) \in 0 .. 2
      BY <1>0, <1>8, <1>9, <1>15, NextIsOldest DEF ScanLabels
  <2>2. r \in bags[u][NextBag(u)] /\ r \in holds[q] /\ pc'[u] = pc[u] /\ me'[u] = me[u]
        /\ list'[q] = list[q]
      BY <1>4, <1>7, <1>8, <1>9, <1>10, <1>15, <2>1
  <2>3. PlusNoticed(u, q, r)
      BY <1>0, <1>15, <2>2 DEF PlusHeld
  <2> QED BY <2>2, <2>3 DEF PlusNoticed
<1>16. PlusHeld'
  <2>1. \A q \in Procs : \A r \in holds'[q] : r \notin pool'
      BY <1>0, <1>8 DEF PlusHeld
  <2>2. \A u : NextBag(u)' = NextBag(u)
      BY <1>0 DEF NextBag
  <2> QED BY <1>0, <1>13, <1>14, <1>15, <2>1, <2>2 DEF PlusHeld
<1> QED BY <1>0, <1>11, <1>12, <1>13, <1>16 DEF PlusInv

\* An operation of a thread, or its part in one.
LEMMA PlusReads ==
    ASSUME Places, PlusInv, NEW p \in Procs, plus_read(p)
    PROVE  PlusInv' /\ Moves
<1>0. pc[p] = "idle" /\ UNCHANGED <<scheme, linked, holds, pool, bags, epoch, word, list>>
    BY DEF plus_read, At
<1>1. CASE epoch = BITS_EPOCH(word[p])
  <2>1. Set(p, [me[p] EXCEPT !.read = epoch]) /\ Go(p, "check") /\ UNCHANGED cur
      BY <1>1 DEF plus_read
  <2> QED BY <1>0, <1>1, <2>1, PlusReadSame
<1>2. CASE epoch # BITS_EPOCH(word[p]) /\ getSizeInBlocks(bags[p][NextBag(p)]) >= ScanBlocks
  <2>1. StartScan(p, [me[p] EXCEPT !.read = epoch, !.checked = 0]) /\ UNCHANGED cur
      BY <1>2, Zenon DEF plus_read
  <2> QED BY <1>0, <1>2, <2>1, PlusReadScan
<1>3. CASE epoch # BITS_EPOCH(word[p]) /\ ~(getSizeInBlocks(bags[p][NextBag(p)]) >= ScanBlocks)
  <2>1. /\ Set(p, [me[p] EXCEPT !.read = epoch, !.checked = 0])
        /\ cur' = [cur EXCEPT ![p] = NextBag(p)]
        /\ Go(p, "check")
      BY <1>3, Zenon DEF plus_read
  <2> QED BY <1>0, <1>3, <2>1, PlusReadNew
<1> QED BY <1>1, <1>2, <1>3

\* A step of a thread.
LEMMA PlusStep ==
    ASSUME Places, PlusInv, NEW p \in Procs, DebraPlusNext(p)
    PROVE  PlusInv' /\ Moves
<1>1. CASE plus_scan(p)
  <2>1. /\ \/ pc[p] = "scanSize" /\ ScanSize(p)
           \/ pc[p] = "scanSlot" /\ ScanSlot(p)
        /\ UNCHANGED <<scheme, mem, epoch, word, list>>
      BY <1>1 DEF plus_scan, Scan
  <2> QED BY <2>1, PlusScanSize, PlusScanSlot
<1>2. CASE At(p, {"debraplus"}, "in") /\ Find(p)
    BY <1>2, PlusFinds DEF At
<1> QED BY <1>1, <1>2, PlusReads, PlusFrees, PlusChecks, PlusAdvances, PlusAnnounces, PlusProtect,
           PlusUnlinks, PlusEnds, PlusRetires DEF DebraPlusNext

\* At first everybody is quiescent and holds nothing.
LEMMA PlusInitial == Init /\ DebraInit => Places /\ PlusInv
<1> SUFFICES ASSUME Init, DebraInit PROVE Places /\ PlusInv
    OBVIOUS
<1>0. Slots \in Nat \ {0} /\ GET_WITH_QUIESCENT(0) = 1
    BY RoomAssumption DEF GET_WITH_QUIESCENT, BITS_EPOCH
<1>1. Local \in PlusLocal /\ Local.mine = {} /\ Local.read = 0
    BY <1>0 DEF Local, PlusLocal, Slot
<1>2. EmptyList \in Lists
    BY <1>0 DEF EmptyList, Lists, Slot
<1>3. /\ \A p \in Procs : me[p] = Local /\ pc[p] = "idle" /\ holds[p] = {} /\ word[p] = 1
      /\ pc \in [Procs -> PlusLabels] /\ me \in [Procs -> PlusLocal] /\ word \in [Procs -> Nat]
      /\ holds \in [Procs -> SUBSET Stock] /\ list \in [Procs -> Lists] /\ epoch = 0
    BY <1>0, <1>1, <1>2 DEF DebraInit, Init, PlusLabels
<1>4. PlusTypes
    BY <1>3 DEF PlusTypes
<1>5. ASSUME NEW p \in Procs PROVE PlusThread(p)
    BY <1>1, <1>3 DEF PlusThread, Busy
<1>6. PlusHeld
    BY <1>3 DEF PlusHeld
<1>7. Places
    BY <1>1, <1>3, PlacesInit
<1> QED BY <1>4, <1>5, <1>6, <1>7 DEF PlusInv

-----------------------------------------------------------------------------
(***************************************************************************)
(* All of them                                                             *)
(***************************************************************************)
PoolsAlone == scheme \in {"pools", "pool_none"}

ReclaimersInv ==
    \/ PoolsAlone /\ \A p \in Procs : holds[p] = {}
    \/ InDebra /\ Places /\ DebraInv
    \/ scheme = "debraplus" /\ Places /\ PlusInv
    \/ scheme = "ebr_tree" /\ Places /\ TreeInv
    \/ scheme = "ebr_token" /\ Places /\ TokenInv
    \/ scheme = "hazardptr" /\ (Unprotects = {} => Places /\ HazardInv)
    \/ Rcu /\ Places /\ RcuInv

\* A step is one of the reclaimer that was compiled in.
LEMMA StepIsOfScheme ==
    ASSUME NEW p
    PROVE  /\ DebraNext(p) => InDebra
           /\ DebraPlusNext(p) => scheme = "debraplus" /\ scheme' = scheme
           /\ EpochTreeNext(p) => scheme = "ebr_tree"
           /\ TokenNext(p) => scheme = "ebr_token"
           /\ HazardNext(p) => scheme = "hazardptr" /\ scheme' = scheme
           /\ RCUNext(p) => Rcu
           /\ Tick => Rcu
<1>1. DebraNext(p) => InDebra
  <2>1. DebraNext(p) => scheme = "debra" \/ scheme = "debracap"
      BY Zenon DEF DebraNext, debra_startOp, debracap_startOp, debracap_retire, debra_endOp, At
  <2> QED BY <2>1 DEF InDebra
<1>2. DebraPlusNext(p) => scheme = "debraplus" /\ scheme' = scheme
  <2>1. DebraPlusNext(p) => scheme = "debraplus"
      BY Zenon DEF DebraPlusNext, plus_read, plus_scan, plus_free, plus_check, plus_advance,
                     plus_announce, plus_qProtect, plus_unlink, plus_endOp, plus_retire, At
  <2>2. DebraPlusNext(p) => scheme' = scheme
      BY Zenon DEF DebraPlusNext, plus_read, plus_scan, plus_free, plus_check, plus_advance,
                     plus_announce, plus_qProtect, plus_unlink, plus_endOp, plus_retire, Scan, Find
  <2> QED BY <2>1, <2>2
<1>3. EpochTreeNext(p) => scheme = "ebr_tree"
    BY Zenon DEF EpochTreeNext, tree_startOp, tree_climb, tree_root, tree_parent, tree_endOp,
                   Tree, At
<1>4. TokenNext(p) => scheme = "ebr_token"
    BY Zenon DEF TokenNext, token_startOp, token_rotate, token_endOp, Token, At
<1>5. HazardNext(p) => scheme = "hazardptr" /\ scheme' = scheme
  <2>1. HazardNext(p) => scheme = "hazardptr"
      BY Zenon DEF HazardNext, hp_startOp, hp_protect, hp_unprotect, hp_erase, hp_retire,
                     hp_scan, hp_free, hp_endOp, Hazard, At
  <2>2. HazardNext(p) => scheme' = scheme
      BY Zenon DEF HazardNext, hp_startOp, hp_protect, hp_unprotect, hp_erase, hp_retire,
                     hp_scan, hp_free, hp_endOp, Scan
  <2> QED BY <2>1, <2>2
<1>6. RCUNext(p) => Rcu
  <2>1. RCUNext(p) => scheme = "urcu" \/ scheme = "urcu_tsc" \/ scheme = "rcu"
      BY Zenon DEF RCUNext, readLock, readUnlock, rcu_unlink, copy, wait, synchronized,
                     rcu_startOp, rcu_retire, rcu_endOp, rcuCallback, Own, At
  <2> QED BY <2>1 DEF Rcu
<1>7. Tick => Rcu
    BY DEF Tick, Rcu
<1> QED BY <1>1, <1>2, <1>3, <1>4, <1>5, <1>6, <1>7

\* Nothing is held while the pools are looked at by themselves.
LEMMA PoolSteps ==
    ASSUME NEW p, PoolNext(p) \/ destroy
    PROVE  PoolsAlone /\ scheme' = scheme /\ holds' = holds
<1>1. Stays => scheme' = scheme /\ holds' = holds
    BY DEF Stays, mem
<1>2. PoolNext(p) => Stays
    BY Zenon DEF PoolNext, get, getBlock, take, pool_add, addMoveFullBlocks, addMoveAll,
                   addBlock, limbo_add, pool_none
<1>3. PoolNext(p) => scheme = "pools" \/ scheme = "pool_none"
    BY Zenon DEF PoolNext, get, getBlock, take, pool_add, addMoveFullBlocks, addMoveAll,
                   addBlock, limbo_add, pool_none, Calls, At
<1>4. destroy => scheme = "pools" /\ scheme' = scheme /\ holds' = holds
    BY Zenon DEF destroy, mem
<1> QED BY <1>1, <1>2, <1>3, <1>4 DEF PoolsAlone

\* The invariant of the reclaimer holds at first.
LEMMA ReclaimersInitial == AnyInit => ReclaimersInv
<1> SUFFICES ASSUME AnyInit PROVE ReclaimersInv
    OBVIOUS
<1>0. Init
    BY DEF AnyInit
<1>1. CASE scheme \in {"pools", "pool_none"} /\ PoolInit
    BY <1>0, <1>1 DEF ReclaimersInv, PoolsAlone, Init
<1>2. CASE scheme \in {"debra", "debracap", "debraplus"} /\ DebraInit
    BY <1>0, <1>2, DebraInitial, PlusInitial DEF ReclaimersInv, InDebra
<1>3. CASE scheme = "ebr_tree" /\ EpochTreeInit
    BY <1>0, <1>3, TreeInitial DEF ReclaimersInv
<1>4. CASE scheme = "ebr_token" /\ TokenInit
    BY <1>0, <1>4, TokenInitial DEF ReclaimersInv
<1>5. CASE scheme = "hazardptr" /\ HazardInit
    BY <1>0, <1>5, HazardInitial DEF ReclaimersInv
<1>6. CASE scheme \in {"urcu", "urcu_tsc", "rcu"} /\ RCUInit
    BY <1>0, <1>6, RcuInitial DEF ReclaimersInv, Rcu
<1> QED BY <1>1, <1>2, <1>3, <1>4, <1>5, <1>6, Zenon DEF AnyInit

\* The invariants are about the variables of the schemes only.
LEMMA ReclaimersStutter ==
    ASSUME ReclaimersInv, UNCHANGED vars
    PROVE  ReclaimersInv'
<1>0. /\ UNCHANGED <<scheme, pc, me, linked, holds, pool, bags, cur, epoch, word, list>>
      /\ Procs' = Procs /\ Stock' = Stock /\ N' = N
    BY SameScheme DEF vars
<1>1. Places' <=> Places
    BY <1>0 DEF Places, PlaceTypes, Apart, MineApart, BagsApart, Somewhere
<1>2. DebraInv' <=> DebraInv
    BY <1>0 DEF DebraInv, DebraTypes, DebraThread, DebraHeld, Visible, Turns, Passes, Age
<1>3. PlusInv' <=> PlusInv
  <2>1. PlusTypes' <=> PlusTypes
      BY <1>0 DEF PlusTypes, PlusLocal, Lists, Slot
  <2>2. \A p : (PlusThread(p)' <=> PlusThread(p)) /\ (Busy(p)' <=> Busy(p))
      BY <1>0 DEF PlusThread, Busy, Announced
  <2>3. PlusHeld' <=> PlusHeld
    <3>1. \A u, p, r : /\ PlusNoticed(u, p, r)' <=> PlusNoticed(u, p, r)
                       /\ PlusTurns(u, p)' = PlusTurns(u, p)
                       /\ Age(u, r)' = Age(u, r) /\ NextBag(u)' = NextBag(u)
        BY <1>0 DEF PlusNoticed, PlusTurns, Passes, Age, NextBag
    <3> QED BY <1>0, <2>2, <3>1 DEF PlusHeld
  <2> QED BY <1>0, <2>1, <2>2, <2>3 DEF PlusInv
<1>4. TreeInv' <=> TreeInv
  <2>0. P2' = P2 /\ numThreadsPow2' = numThreadsPow2
      BY <1>0, SameScheme DEF P2, numThreadsPow2, roundUpPow2, N
  <2>1. Root' = Root /\ EBRT_ROOT' = EBRT_ROOT
      BY <1>0, <2>0 DEF Root, EBRT_ROOT
  <2>2. ASSUME NEW p \in Procs PROVE Leaf(p)' = Leaf(p) /\ Known(p)' = Known(p)
    <3>1. Leaf(p)' = Leaf(p)
        BY <1>0, <2>0 DEF Leaf, EBRT_LEAF
    <3> QED BY <1>0, <2>0, <3>1 DEF Known
  <2>3. ASSUME NEW i, NEW p PROVE Under(i, p)' <=> Under(i, p)
      BY <1>0, <2>0 DEF Under, EBRT_LEAF
  <2>4. ASSUME NEW i, NEW v PROVE Reached(i, v)' <=> Reached(i, v)
      BY <1>0, <2>0, <2>2, <2>3 DEF Reached
  <2>5. TreeTypes' <=> TreeTypes
      BY <1>0, <2>0, <2>1 DEF TreeTypes, TreeLocal
  <2>6. ASSUME NEW p \in Procs PROVE TreeThread(p)' <=> TreeThread(p)
    <3>1. /\ (Sibling(me[p].at))' = Sibling(me[p].at)
          /\ (EBRT_PARENT(me[p].at))' = EBRT_PARENT(me[p].at)
          /\ (Reached(me[p].at, me[p].read))' <=> Reached(me[p].at, me[p].read)
        BY <1>0, <2>0, <2>2, <2>3 DEF Sibling, EBRT_PARENT, Reached
    <3>2. (Reached(Sibling(me[p].at), me[p].read))' <=> Reached(Sibling(me[p].at), me[p].read)
        BY <1>0, <2>0, <2>2, <2>3, <3>1 DEF Reached
    <3> QED BY <1>0, <2>0, <2>1, <2>2, <3>1, <3>2 DEF TreeThread, Fits
  <2>7. TreeNodes' <=> TreeNodes
    <3>1. ASSUME NEW i \in 2 .. 2 * P2 - 1
          PROVE  (Reached(i, word[i]))' <=> Reached(i, word[i])
        BY <1>0, <2>2, <2>3 DEF Reached
    <3> QED BY <1>0, <2>0, <2>3, <3>1 DEF TreeNodes, QUIESCENT
  <2>8. TreeHeld' <=> TreeHeld
    <3>1. ASSUME NEW u \in Procs, NEW p \in Procs PROVE TreeTurns(u, p)' = TreeTurns(u, p)
        BY <1>0, <2>0, <2>1, <2>2 DEF TreeTurns
    <3>2. ASSUME NEW u, NEW i PROVE Age(u, i)' = Age(u, i)
        BY <1>0, <2>0 DEF Age
    <3> QED BY <1>0, <2>0, <3>1, <3>2 DEF TreeHeld
  <2> QED BY <1>0, <2>0, <2>5, <2>6, <2>7, <2>8 DEF TreeInv
<1>5. TokenInv' <=> TokenInv
  <2>1. \A u, p, i : TokenTurns(u, p)' = TokenTurns(u, p) /\ TokenAge(u, i)' = TokenAge(u, i)
      BY <1>0 DEF TokenTurns, TokenAge, Reaches, Distance
  <2> QED BY <1>0, <2>1 DEF TokenInv, TokenTypes, OneToken, TokenHeld
<1>6. HazardInv' <=> HazardInv
  <2>1. HazardTypes' <=> HazardTypes
      BY <1>0 DEF HazardTypes, HazardLocal, Lists, Slot
  <2>2. \A p : Full(p)' = Full(p) /\ Hazards(p)' = Hazards(p)
      BY <1>0 DEF Full, Hazards
  <2>3. \A u, p, r : Noticed(u, p, r)' <=> Noticed(u, p, r)
      BY <1>0, <2>2 DEF Noticed
  <2> QED BY <1>0, <2>1, <2>2, <2>3 DEF HazardInv, HazardThread, HazardHeld
<1>7. RcuInv' <=> RcuInv
    BY <1>0 DEF RcuInv, RcuTypes, RcuLocal, RcuThread, RcuHeld, Awaited
<1> QED BY <1>0, <1>1, <1>2, <1>3, <1>4, <1>5, <1>6, <1>7
           DEF ReclaimersInv, PoolsAlone, InDebra, Rcu

\* And after every step.
LEMMA ReclaimersStep ==
    ASSUME ReclaimersInv, [Next]_<<vars, store>>
    PROVE  ReclaimersInv'
<1>1. CASE UNCHANGED vars
    BY <1>1, ReclaimersStutter
<1>2. CASE Tick
    BY <1>2, StepIsOfScheme, RcuTick, MovesPlaces
         DEF ReclaimersInv, PoolsAlone, InDebra, Rcu, Moves
<1>3. ASSUME NEW p \in Procs, Step(p) PROVE ReclaimersInv'
  <2>1. CASE DebraNext(p)
    <3>1. Places /\ DebraInv /\ InDebra
        BY <2>1, StepIsOfScheme DEF ReclaimersInv, PoolsAlone, InDebra, Rcu
    <3>2. DebraInv' /\ Moves /\ Places'
        BY <1>3, <2>1, <3>1, DebraStep, MovesPlaces
    <3> QED BY <3>1, <3>2 DEF ReclaimersInv, InDebra, Moves
  <2>2. CASE DebraPlusNext(p)
    <3>1. Places /\ PlusInv /\ scheme = "debraplus"
        BY <2>2, StepIsOfScheme DEF ReclaimersInv, PoolsAlone, InDebra, Rcu
    <3>2. PlusInv' /\ Moves /\ Places'
        BY <1>3, <2>2, <3>1, PlusStep, MovesPlaces
    <3> QED BY <3>1, <3>2 DEF ReclaimersInv, Moves
  <2>3. CASE EpochTreeNext(p)
    <3>1. Places /\ TreeInv /\ scheme = "ebr_tree"
        BY <2>3, StepIsOfScheme DEF ReclaimersInv, PoolsAlone, InDebra, Rcu
    <3>2. TreeInv' /\ Moves /\ Places'
        BY <1>3, <2>3, <3>1, TreeStep, MovesPlaces
    <3> QED BY <3>1, <3>2 DEF ReclaimersInv, Moves
  <2>4. CASE TokenNext(p)
    <3>1. Places /\ TokenInv /\ scheme = "ebr_token"
        BY <2>4, StepIsOfScheme DEF ReclaimersInv, PoolsAlone, InDebra, Rcu
    <3>2. TokenInv' /\ Moves /\ Places'
        BY <1>3, <2>4, <3>1, TokenStep, MovesPlaces
    <3> QED BY <3>1, <3>2 DEF ReclaimersInv, Moves
  <2>5. CASE HazardNext(p)
    <3>1. (Unprotects = {} => Places /\ HazardInv) /\ scheme = "hazardptr" /\ scheme' = scheme
        BY <2>5, StepIsOfScheme DEF ReclaimersInv, PoolsAlone, InDebra, Rcu
    <3>2. Unprotects = {} => HazardInv' /\ Places'
        BY <1>3, <2>5, <3>1, HazardStep, MovesPlaces
    <3> QED BY <3>1, <3>2 DEF ReclaimersInv
  <2>6. CASE RCUNext(p)
    <3>1. Places /\ RcuInv /\ Rcu
        BY <2>6, StepIsOfScheme DEF ReclaimersInv, PoolsAlone, InDebra, Rcu
    <3>2. RcuInv' /\ Moves /\ Places'
        BY <1>3, <2>6, <3>1, RcuStep, MovesPlaces
    <3> QED BY <3>1, <3>2 DEF ReclaimersInv, Rcu, Moves
  <2> QED BY <1>3, <2>1, <2>2, <2>3, <2>4, <2>5, <2>6 DEF Step
<1>4. ASSUME NEW p \in Procs, PoolNext(p) PROVE ReclaimersInv'
  <2>1. PoolsAlone /\ scheme' = scheme /\ holds' = holds
      BY <1>4, PoolSteps
  <2> QED BY <2>1, SameScheme DEF ReclaimersInv, PoolsAlone, InDebra, Rcu
<1>5. CASE destroy
  <2>1. PoolsAlone /\ scheme' = scheme /\ holds' = holds
      BY <1>5, PoolSteps
  <2> QED BY <2>1, SameScheme DEF ReclaimersInv, PoolsAlone, InDebra, Rcu
<1> QED BY <1>1, <1>2, <1>3, <1>4, <1>5 DEF Next

\* When the operations of hazardptr give up single records, a scan may miss
\* one that is moved within a list.
Unprotecting == scheme = "hazardptr" /\ Unprotects # {}

\* The invariant of each reclaimer holds as long as it runs.
THEOREM ReclaimersCorrect == Spec => []ReclaimersInv
<1>1. AnyInit => ReclaimersInv
    BY ReclaimersInitial
<1>2. ReclaimersInv /\ [Next]_<<vars, store>> => ReclaimersInv'
    BY ReclaimersStep
<1> QED BY <1>1, <1>2, PTL DEF Spec

\* No reclaimer hands a record to the pool that a thread may still follow,
\* whatever the number of threads and records.
THEOREM HeldCorrect == Spec => [](Unprotecting \/ HeldIsNotFreed)
<1>1. ReclaimersInv => Unprotecting \/ HeldIsNotFreed
  <2> SUFFICES ASSUME ReclaimersInv, ~Unprotecting, NEW p \in Procs, NEW r \in holds[p]
               PROVE  r \notin pool
      BY DEF HeldIsNotFreed
  <2> QED BY DEF ReclaimersInv, Unprotecting, DebraInv, DebraHeld, PlusInv, PlusHeld, TreeInv,
                 TreeHeld, TokenInv, TokenHeld, HazardInv, HazardHeld, RcuInv, RcuHeld
<1> QED BY <1>1, ReclaimersCorrect, PTL

\* What is in one place is counted once.
LEMMA PlacesAreOne ==
    ASSUME Places, NEW r \in Stock
    PROVE  Cardinality({w \in Procs \X (0 .. 2) : r \in bags[w[1]][w[2]]})
             + Cardinality({p \in Procs : r \in me[p].mine})
             + (IF r \in linked THEN 1 ELSE 0)
             + (IF r \in pool THEN 1 ELSE 0) = 1
<1> DEFINE W == {w \in Procs \X (0 .. 2) : r \in bags[w[1]][w[2]]}
           M == {p \in Procs : r \in me[p].mine}
<1>0. PlaceTypes /\ Apart /\ Somewhere
    BY DEF Places
<1>1. Cardinality({}) = 0 /\ \A x : Cardinality({x}) = 1
    BY FS_EmptySet, FS_Singleton
<1>2. CASE r \in linked \/ r \in pool
  <2>1. W = {} /\ M = {}
      BY <1>0, <1>2 DEF Apart, MineApart, BagsApart
  <2>2. ~(r \in linked /\ r \in pool)
      BY <1>0 DEF Apart
  <2>3. Cardinality(W) = 0 /\ Cardinality(M) = 0
      BY <1>1, <2>1, Zenon
  <2> HIDE DEF W, M
  <2>4. Cardinality(W) + Cardinality(M) + (IF r \in linked THEN 1 ELSE 0)
          + (IF r \in pool THEN 1 ELSE 0) = 1
      BY <1>2, <2>2, <2>3
  <2> QED BY <2>4 DEF W, M
<1>3. ASSUME NEW p \in Procs, r \in me[p].mine
      PROVE  Cardinality(W) + Cardinality(M) + (IF r \in linked THEN 1 ELSE 0)
               + (IF r \in pool THEN 1 ELSE 0) = 1
  <2>1. W = {} /\ r \notin linked /\ r \notin pool
      BY <1>0, <1>3 DEF Apart, MineApart
  <2>2. M = {p}
      BY <1>0, <1>3 DEF Apart, MineApart
  <2>3. Cardinality(W) = 0 /\ Cardinality(M) = 1
      BY <1>1, <2>1, <2>2, Zenon
  <2> HIDE DEF W, M
  <2> QED BY <2>1, <2>3
<1>4. ASSUME NEW p \in Procs, NEW i \in 0 .. 2, r \in bags[p][i]
      PROVE  Cardinality(W) + Cardinality(M) + (IF r \in linked THEN 1 ELSE 0)
               + (IF r \in pool THEN 1 ELSE 0) = 1
  <2>1. M = {} /\ r \notin linked /\ r \notin pool
      BY <1>0, <1>4 DEF Apart, MineApart, BagsApart
  <2>2. W = {<<p, i>>}
      BY <1>0, <1>4 DEF Apart, BagsApart
  <2>3. Cardinality(W) = 1 /\ Cardinality(M) = 0
      BY <1>1, <2>1, <2>2, Zenon
  <2> HIDE DEF W, M
  <2> QED BY <2>1, <2>3
<1> QED BY <1>0, <1>2, <1>3, <1>4 DEF Somewhere

\* Every record is in one place: none is retired or freed twice, and none is
\* lost when a bag is emptied or takes its turn.
THEOREM OnePlaceCorrect == Spec => [](PoolsAlone \/ Unprotecting \/ OnePlace)
<1>1. ReclaimersInv => PoolsAlone \/ Unprotecting \/ OnePlace
  <2> SUFFICES ASSUME ReclaimersInv, ~PoolsAlone, ~Unprotecting PROVE OnePlace
      OBVIOUS
  <2>1. Places
      BY DEF ReclaimersInv, Unprotecting
  <2> QED BY <2>1, PlacesAreOne DEF OnePlace, PoolsAlone, Stock
<1> QED BY <1>1, ReclaimersCorrect, PTL
=============================================================================
