----------------------------- MODULE RluProofs -----------------------------
(***************************************************************************)
(* A section of RLU sees the objects of one version: SectionSeesOneState,  *)
(* for any threads, objects, programs and numbers of write-sets, provided  *)
(* that one thread writes back at a time.                                  *)
(***************************************************************************)
EXTENDS Multiword, TLAPS

-----------------------------------------------------------------------------
(***************************************************************************)
(* Labels.                                                                 *)
(***************************************************************************)
Pc(p) == IF stack[p] = << >> THEN "idle" ELSE Top(p).pc

\* In a section that has read its version.
Reading == {"commit_version", "writer_lock", "section", "deref", "steal", "load",
            "try_lock", "lock", "change", "leave", "abort"}
InSection == Reading \cup {"local_version"}
Outside  == {"reader_lock", "register", "release_writer_lock", "checkpoint", "end"}
\* At an object.
AtObject == {"deref", "steal", "load", "try_lock", "lock", "change"}

\* Where a write-back has its version, has announced it, and has waited.
Writes   == {"write_back", "unlock", "written_back"}
Alone    == {"reset"} \cup Writes
Waiting  == {"init_quiescence", "wait"}
HasVersion == {"announce"} \cup Waiting \cup Alone
Announced  == Waiting \cup Alone \cup {"commit"}
WritingBack == {"writer_version", "announce"} \cup Announced
Syncing  == {"sync", "free"} \cup WritingBack

\* One thread writes back at a time.
OneWritesBack ==
    \A p, q \in Threads : Pc(p) \in WritingBack /\ Pc(q) \in WritingBack => p = q

-----------------------------------------------------------------------------
(***************************************************************************)
(* Types.                                                                  *)
(***************************************************************************)
Slots == 0 .. RLU_MAX_WRITE_SETS - 1

Copies == {c \in [obj : Objects, run_counter : Nat, val : Values] :
             c.obj \in Pointers => c.val \in Objects}
WriteSets == [num_of_objs : Nat, writer_locks : SUBSET {"general"}, buffer : Seq(Copies)]

ThreadData ==
    [run_counter : Nat, local_version : Nat, writer_version : Nat,
     is_check_locks : BOOLEAN, is_steal : BOOLEAN, is_write_detected : BOOLEAN, is_sync : BOOLEAN,
     ws_head : Nat, ws_wb : Nat, ws_tail : Nat, max_write_sets : Nat,
     sets : [Slots -> WriteSets], free_nodes : SUBSET Objects]

Addrs == Threads \X Slots \X (Nat \ {0})

States == {s \in [Objects -> Values] : \A o \in Pointers : s[o] \in Objects}

\* What a section saw, and that it should have.
Right == {x \in [obj : Objects, val : Values, should : Values] : x.val = x.should}

SectionFrames ==
    [pc : InSection \cup Outside, op : RluCalls, steps : Seq(RluSteps), tries : Nat,
     at : Objects \cup {Nothing}, ptr : Addrs \cup {Nothing}, failed : BOOLEAN,
     snap : States \cup {Nothing}, got : SUBSET Right, ret : {Nothing}]

SyncFrames ==
    [pc : Syncing, version : Nat, who : Nat, waits : Seq(Nat), ws : Nat, i : Nat]

FinishFrames == [pc : {"finish"}, op : RluCalls, left : Nat]

\* A write-back that has not begun to wait.
Fresh(g) == g.pc \in {"sync", "writer_version", "announce"} => g.who = 1 /\ g.waits = << >>

\* The frame of a section.
FrameOK(f) ==
    /\ f.op.do = "section"
    /\ f.pc \in Reading => f.snap \in States
    /\ f.pc \in AtObject => f.steps # << >> /\ f.at = Head(f.steps).obj /\ f.at \in Objects
    /\ f.pc \in {"deref", "steal", "load"} => Head(f.steps).do \in {"read", "follow"}
    /\ f.pc \in {"try_lock", "lock", "change"} => Head(f.steps).do = "write"
    /\ f.pc = "steal" => f.ptr \in Addrs

Below(f) ==
    \/ f \in SectionFrames /\ FrameOK(f) /\ f.pc \in Outside
    \/ f \in FinishFrames

Stacks(s) ==
    \/ s = << >>
    \/ \E f \in SectionFrames : s = <<f>> /\ FrameOK(f)
    \/ \E f \in FinishFrames : s = <<f>>
    \/ \E g \in SyncFrames, f \in SectionFrames \cup FinishFrames : s = <<g, f>> /\ Fresh(g) /\ Below(f)

StacksOK == DOMAIN stack = Threads /\ \A p \in Threads : Stacks(stack[p])

TypeOK ==
    /\ scheme \in {"rlu", "rlu_coarse"}
    /\ todo \in [Threads -> Seq(RluCalls)]
    /\ version \in [writer : Nat, commit : Nat]
    /\ copy_of \in [Objects -> Addrs \cup {Nothing}]
    /\ data \in States /\ latest \in States
    /\ self \in [Threads -> ThreadData]
    /\ StacksOK

-----------------------------------------------------------------------------
(***************************************************************************)
(* What a thread knows of itself.                                          *)
(***************************************************************************)
Num(q, w)     == self[q].sets[w].num_of_objs
Buf(q, w)     == self[q].sets[w].buffer
Copy(q, w, i) == Buf(q, w)[i]

\* Where its write-back is.
Pos(q) == IF Pc(q) \in Writes THEN <<Top(q).ws, Top(q).i>> ELSE <<0, 1>>

\* The write-sets from head to tail are different ones, the others are empty.
Counts(q) ==
    LET me == self[q] IN
    /\ me.ws_head <= me.ws_wb /\ me.ws_wb <= me.ws_tail
    /\ me.ws_tail <= me.ws_wb + me.max_write_sets
    /\ me.ws_wb <= me.ws_head + me.max_write_sets
    /\ me.max_write_sets >= 1 /\ 2 * me.max_write_sets <= RLU_MAX_WRITE_SETS

Empty(q) ==
    \A w \in Slots :
       (\A k \in self[q].ws_head .. self[q].ws_tail :
           w = WS_INDEX(k) => k = self[q].ws_tail /\ ~Running(q)) => Num(q, w) = 0

Buffers(q) ==
    \A w \in Slots : /\ Num(q, w) <= Len(Buf(q, w))
                     /\ \A i \in 1 .. Num(q, w) : Copy(q, w, i).run_counter <= self[q].run_counter

\* Copies of earlier sections can be told from those of this one.
Older(q) ==
    \A k \in self[q].ws_wb .. self[q].ws_tail - 1 : \A i \in 1 .. Num(q, WS_INDEX(k)) :
       Copy(q, WS_INDEX(k), i).run_counter < self[q].run_counter

Sets(q) == Counts(q) /\ Empty(q) /\ Buffers(q) /\ Older(q)

Flags(q) ==
    LET me == self[q] IN
    /\ Running(q) <=> Pc(q) \in InSection
    /\ Running(q) /\ Num(q, Cur(q)) > 0 => me.is_write_detected
    /\ Pc(q) \in {"local_version", "commit_version", "writer_lock"} => ~me.is_write_detected
    /\ Pc(q) \in {"lock", "change"} => me.is_write_detected
    /\ Pc(q) \in Reading \ {"commit_version"} /\ ~me.is_check_locks =>
          ~me.is_steal /\ ~me.is_write_detected /\ me.ws_tail = me.ws_wb

Position(q) ==
    LET me == self[q] IN
    /\ Pc(q) \notin Syncing => me.ws_tail < me.ws_wb + me.max_write_sets
    /\ Pc(q) \in {"commit", "free"} => me.ws_wb = me.ws_tail
    /\ Pc(q) \in Writes => /\ me.ws_head = me.ws_wb
                           /\ me.ws_wb <= Top(q).ws /\ Top(q).ws <= me.ws_tail /\ Top(q).i >= 1
    /\ Pc(q) = "unlock" => Top(q).ws < me.ws_tail /\ Top(q).i <= Num(q, WS_INDEX(Top(q).ws))
    /\ Pc(q) = "written_back" => Top(q).ws = me.ws_tail

Local(q) == Sets(q) /\ Flags(q) /\ Position(q)

-----------------------------------------------------------------------------
(***************************************************************************)
(* Locked objects and live copies belong to each other.                    *)
(***************************************************************************)
LiveAt(q, k, i) ==
    /\ self[q].ws_wb <= k
    /\ k < self[q].ws_tail \/ (k = self[q].ws_tail /\ Running(q))
    /\ 1 <= i /\ i <= Num(q, WS_INDEX(k))
    /\ k > Pos(q)[1] \/ (k = Pos(q)[1] /\ i >= Pos(q)[2])

CopiesLock ==
    \A q \in Threads : \A k \in Nat, i \in Nat :
       LiveAt(q, k, i) => copy_of[Copy(q, WS_INDEX(k), i).obj] = <<q, WS_INDEX(k), i>>

LockedHaveCopies ==
    \A o \in Objects : copy_of[o] # Nothing =>
       \E q \in Threads : \E k \in Nat, i \in Nat :
          LiveAt(q, k, i) /\ copy_of[o] = <<q, WS_INDEX(k), i>> /\ Copy(q, WS_INDEX(k), i).obj = o

-----------------------------------------------------------------------------
(***************************************************************************)
(* Versions.                                                               *)
(***************************************************************************)
VersionOf(q) ==
    /\ self[q].writer_version = IF Pc(q) \in HasVersion THEN Top(q).version ELSE MAX_VERSION
    /\ Pc(q) \in {"writer_version", "announce"} =>
          Top(q).version = version.writer + 1 /\ version.commit = version.writer
    /\ Pc(q) \in Announced =>
          Top(q).version = version.writer /\ version.writer = version.commit + 1
    /\ Pc(q) \in Reading => self[q].local_version <= version.writer

Versions ==
    /\ \A q \in Threads : VersionOf(q)
    /\ (\A q \in Threads : Pc(q) \notin WritingBack) => version.commit = version.writer

CopyVal(c) == Copy(c[1], c[2], c[3]).val

\* The state at version v, for p: what a write-back has announced by then, or p
\* changed, is in the copy.
Seen(p, v, o) ==
    IF copy_of[o] # Nothing /\ (copy_of[o][1] = p \/ self[copy_of[o][1]].writer_version <= v)
      THEN CopyVal(copy_of[o]) ELSE data[o]

LatestIsSeen == \A o \in Objects : latest[o] = Seen(Nothing, version.writer, o)

WrittenBack(q) ==
    Pc(q) = "unlock" =>
       LET c == Copy(q, WS_INDEX(Top(q).ws), Top(q).i) IN data[c.obj] = c.val

SnapIsSeen(p) ==
    Pc(p) \in Reading => \A o \in Objects : Top(p).snap[o] = Seen(p, self[p].local_version, o)

\* Who looks at no copies of others need not.
NoStealing(p) ==
    Pc(p) \in Reading \ {"commit_version"} /\ ~self[p].is_steal =>
       \A q \in Threads \ {p} : self[q].writer_version > self[p].local_version

-----------------------------------------------------------------------------
(***************************************************************************)
(* What a section is about to use.                                         *)
(***************************************************************************)
\* A copy of another that stays while p reads: it is in a write-set that will
\* be used again only after a write-back that waits for p.
Lasts(p, c, from) ==
    \E k \in Nat : /\ from <= k /\ k < self[c[1]].ws_tail /\ WS_INDEX(k) = c[2]
                   /\ CopyVal(c) = Top(p).snap[Top(p).at]

Early(p, c) == self[c[1]].writer_version <= self[p].local_version

Steals(p) ==
    LET c == Top(p).ptr  at == Top(p).at IN
    Pc(p) = "steal" =>
       /\ c[1] # p
       /\ copy_of[at] # Nothing => copy_of[at][1] # p
       /\ copy_of[at] # Nothing /\ Early(p, copy_of[at]) => copy_of[at] = c
       /\ Early(p, c) => Lasts(p, c, self[c[1]].ws_wb)

Loads(p) ==
    LET c == Top(p).ptr  at == Top(p).at IN
    Pc(p) = "load" =>
       /\ c = Nothing => data[at] = Top(p).snap[at]
       /\ c # Nothing /\ c[1] = p => copy_of[at] = c
       /\ c # Nothing /\ c[1] # p =>
             Lasts(p, c, IF Early(p, c) THEN self[c[1]].ws_wb ELSE self[c[1]].ws_head)

Changes(p) ==
    Pc(p) = "change" =>
       /\ copy_of[Top(p).at] # Nothing
       /\ copy_of[Top(p).at][1] = p /\ copy_of[Top(p).at][2] = Cur(p)

-----------------------------------------------------------------------------
(***************************************************************************)
(* Whom a write-back waits for.                                            *)
(***************************************************************************)
Slow(q, p) == Pc(p) \in Reading /\ self[p].local_version < Top(q).version

Waits(q) ==
    /\ Pc(q) = "init_quiescence" =>
          /\ Top(q).who >= 1 /\ Len(Top(q).waits) = Top(q).who - 1
          /\ \A p \in Threads : Slow(q, p) /\ p < Top(q).who => Top(q).waits[p] = self[p].run_counter
    /\ Pc(q) = "wait" =>
          /\ Top(q).who >= 1
          /\ \A p \in Threads : Slow(q, p) => p >= Top(q).who /\ Top(q).waits[p] = self[p].run_counter
    /\ Pc(q) \in Alone => \A p \in Threads : ~Slow(q, p)

-----------------------------------------------------------------------------
OfThread(p) ==
    /\ Local(p) /\ WrittenBack(p) /\ SnapIsSeen(p) /\ NoStealing(p)
    /\ Steals(p) /\ Loads(p) /\ Changes(p) /\ Waits(p)

RluInv ==
    /\ TypeOK /\ CopiesLock /\ LockedHaveCopies /\ Versions /\ LatestIsSeen
    /\ \A p \in Threads : OfThread(p)

-----------------------------------------------------------------------------
(***************************************************************************)
(* Stacks.                                                                 *)
(***************************************************************************)
\* What a step leaves to the other threads, and the frame g it leaves p.
Others(p) ==
    \A q \in Threads \ {p} :
       stack'[q] = stack[q] /\ Pc(q)' = Pc(q) /\ Top(q)' = Top(q) /\ Pos(q)' = Pos(q)

Becomes(p, g) == StacksOK' /\ Others(p) /\ Pc(p)' = g.pc /\ Top(p)' = g

\* In a section the frame of the section is all there is.
LEMMA SectionStack ==
    ASSUME StacksOK, NEW p \in Threads, Pc(p) \in InSection \cup Outside
    PROVE  /\ stack[p] = <<Top(p)>> /\ Tail(stack[p]) = << >> /\ stack[p] # << >>
           /\ Top(p) \in SectionFrames /\ FrameOK(Top(p)) /\ Top(p).pc = Pc(p)
<1>1. stack[p] # << >> /\ Top(p).pc = Pc(p)
    BY DEF Pc, InSection, Outside, Reading
<1>2. \/ \E f \in SectionFrames : stack[p] = <<f>> /\ FrameOK(f)
      \/ \E f \in FinishFrames : stack[p] = <<f>>
      \/ \E g \in SyncFrames, f \in SectionFrames \cup FinishFrames : stack[p] = <<g, f>>
    BY <1>1 DEF StacksOK, Stacks
<1>3. ASSUME NEW f \in FinishFrames, stack[p] = <<f>> PROVE FALSE
    BY <1>1, <1>3 DEF Top, FinishFrames, InSection, Outside, Reading
<1>4. ASSUME NEW g \in SyncFrames, NEW f, stack[p] = <<g, f>> PROVE FALSE
    BY <1>1, <1>4 DEF Top, SyncFrames, InSection, Outside, Reading, Syncing, WritingBack,
                      Announced, Waiting, Alone, Writes
<1>5. PICK f \in SectionFrames : stack[p] = <<f>> /\ FrameOK(f)
    BY <1>2, <1>3, <1>4
<1> QED BY <1>1, <1>5 DEF Top

\* In a write-back there is a frame below, of a section that is not reading or
\* of finish.
LEMMA SyncStack ==
    ASSUME StacksOK, NEW p \in Threads, Pc(p) \in Syncing
    PROVE  /\ stack[p] # << >> /\ Top(p) \in SyncFrames /\ Top(p).pc = Pc(p) /\ Fresh(Top(p))
           /\ \E f \in SectionFrames \cup FinishFrames :
                 stack[p] = <<Top(p), f>> /\ Tail(stack[p]) = <<f>> /\ Below(f)
<1>1. stack[p] # << >> /\ Top(p).pc = Pc(p)
    BY DEF Pc, Syncing, WritingBack, Announced, Waiting, Alone, Writes
<1>2. \/ \E f \in SectionFrames : stack[p] = <<f>> /\ FrameOK(f)
      \/ \E f \in FinishFrames : stack[p] = <<f>>
      \/ \E g \in SyncFrames, f \in SectionFrames \cup FinishFrames :
            stack[p] = <<g, f>> /\ Fresh(g) /\ Below(f)
    BY <1>1 DEF StacksOK, Stacks
<1>3. ASSUME NEW f \in FinishFrames, stack[p] = <<f>> PROVE FALSE
    BY <1>1, <1>3 DEF Top, FinishFrames, Syncing, WritingBack, Announced, Waiting, Alone, Writes
<1>4. ASSUME NEW f \in SectionFrames, stack[p] = <<f>> PROVE FALSE
    BY <1>1, <1>4 DEF Top, SectionFrames, InSection, Outside, Reading, Syncing, WritingBack,
                      Announced, Waiting, Alone, Writes
<1>5. PICK g \in SyncFrames, f \in SectionFrames \cup FinishFrames :
        stack[p] = <<g, f>> /\ Fresh(g) /\ Below(f)
    BY <1>2, <1>3, <1>4
<1> QED BY <1>1, <1>5 DEF Top

LEMMA FinishStack ==
    ASSUME StacksOK, NEW p \in Threads, Pc(p) = "finish"
    PROVE  /\ stack[p] = <<Top(p)>> /\ Tail(stack[p]) = << >> /\ stack[p] # << >>
           /\ Top(p) \in FinishFrames /\ Top(p).pc = Pc(p)
<1>1. stack[p] # << >> /\ Top(p).pc = Pc(p)
    BY DEF Pc
<1>2. \/ \E f \in SectionFrames : stack[p] = <<f>> /\ FrameOK(f)
      \/ \E f \in FinishFrames : stack[p] = <<f>>
      \/ \E g \in SyncFrames, f \in SectionFrames \cup FinishFrames :
            stack[p] = <<g, f>> /\ Fresh(g) /\ Below(f)
    BY <1>1 DEF StacksOK, Stacks
<1>3. ASSUME NEW f \in SectionFrames, stack[p] = <<f>> PROVE FALSE
    BY <1>1, <1>3 DEF Top, SectionFrames, InSection, Outside, Reading
<1>4. ASSUME NEW g \in SyncFrames, NEW f, stack[p] = <<g, f>> PROVE FALSE
    BY <1>1, <1>4 DEF Top, SyncFrames, Syncing, WritingBack, Announced, Waiting, Alone, Writes
<1>5. PICK f \in FinishFrames : stack[p] = <<f>>
    BY <1>2, <1>3, <1>4
<1> QED BY <1>1, <1>5 DEF Top

LEMMA Pair ==
    ASSUME NEW S, NEW a \in S, NEW b \in S
    PROVE  <<a>> \o <<b>> = <<a, b>>
<1> DEFINE s == <<a>> \o <<b>>
<1>1. s \in Seq(S) /\ s[1] = a /\ s[2] = b /\ Len(s) = 2
    OBVIOUS
<1>2. s = [i \in 1 .. 2 |-> s[i]]
    BY <1>1
<1>3. <<a, b>> = [i \in 1 .. 2 |-> <<a, b>>[i]]
    OBVIOUS
<1>4. \A i \in 1 .. 2 : s[i] = <<a, b>>[i]
    BY <1>1
<1> QED BY <1>2, <1>3, <1>4

\* One new stack for p.
LEMMA NewStack ==
    ASSUME StacksOK, NEW p \in Threads, NEW s, Stacks(s), stack' = [stack EXCEPT ![p] = s]
    PROVE  StacksOK' /\ Others(p) /\ stack'[p] = s
<1>1. DOMAIN stack' = Threads /\ stack'[p] = s /\ \A q \in Threads \ {p} : stack'[q] = stack[q]
    BY DEF StacksOK
<1>2. StacksOK'
    BY <1>1 DEF StacksOK
<1>3. ASSUME NEW q \in Threads \ {p}
      PROVE  Pc(q)' = Pc(q) /\ Top(q)' = Top(q) /\ Pos(q)' = Pos(q)
    BY <1>1 DEF Pc, Top, Pos
<1> QED BY <1>1, <1>2, <1>3 DEF Others

LEMMA PutSection ==
    ASSUME StacksOK, NEW p \in Threads, Pc(p) \in InSection \cup Outside,
           NEW g \in SectionFrames, FrameOK(g), Put(p, g)
    PROVE  Becomes(p, g)
<1>1. Tail(stack[p]) = << >>
    BY SectionStack
<1>2. stack' = [stack EXCEPT ![p] = <<g>> \o << >>]
    BY <1>1 DEF Put
<1>3. <<g>> \o << >> = <<g>>
    OBVIOUS
<1>4. stack' = [stack EXCEPT ![p] = <<g>>] /\ Stacks(<<g>>)
    BY <1>2, <1>3 DEF Stacks
<1>5. StacksOK' /\ Others(p) /\ stack'[p] = <<g>>
    BY <1>4, NewStack
<1> QED BY <1>5 DEF Becomes, Pc, Top

LEMMA PutSync ==
    ASSUME StacksOK, NEW p \in Threads, Pc(p) \in Syncing, NEW g \in SyncFrames, Fresh(g), Put(p, g)
    PROVE  Becomes(p, g)
<1>1. PICK f \in SectionFrames \cup FinishFrames : Tail(stack[p]) = <<f>> /\ Below(f)
    BY SyncStack
<1>2. stack' = [stack EXCEPT ![p] = <<g>> \o <<f>>]
    BY <1>1 DEF Put
<1>3. <<g>> \o <<f>> = <<g, f>>
  <2> DEFINE S == SyncFrames \cup SectionFrames \cup FinishFrames
  <2>1. g \in S /\ f \in S
    OBVIOUS
  <2> HIDE DEF S
  <2> QED BY <2>1, Pair
<1>4. stack' = [stack EXCEPT ![p] = <<g, f>>] /\ Stacks(<<g, f>>)
    BY <1>1, <1>2, <1>3 DEF Stacks
<1>5. StacksOK' /\ Others(p) /\ stack'[p] = <<g, f>>
    BY <1>4, NewStack
<1> QED BY <1>5 DEF Becomes, Pc, Top

LEMMA InvokeSync ==
    ASSUME StacksOK, NEW p \in Threads, Pc(p) \in InSection \cup Outside \cup {"finish"},
           NEW f \in SectionFrames \cup FinishFrames, Below(f), Invoke(p, f, SyncFrame)
    PROVE  Becomes(p, SyncFrame)
<1>1. Tail(stack[p]) = << >>
    BY SectionStack, FinishStack
<1>2. SyncFrame \in SyncFrames /\ Fresh(SyncFrame)
    BY DEF SyncFrame, SyncFrames, Syncing, Fresh
<1>3. <<SyncFrame, f>> \o << >> = <<SyncFrame, f>>
  <2> DEFINE S == SyncFrames \cup SectionFrames \cup FinishFrames
  <2>1. SyncFrame \in S /\ f \in S
    BY <1>2
  <2> HIDE DEF S
  <2>2. <<SyncFrame, f>> \in Seq(S)
    BY <2>1
  <2> QED BY <2>2
<1>4. stack' = [stack EXCEPT ![p] = <<SyncFrame, f>>] /\ Stacks(<<SyncFrame, f>>)
    BY <1>1, <1>2, <1>3 DEF Invoke, Stacks
<1>5. StacksOK' /\ Others(p) /\ stack'[p] = <<SyncFrame, f>>
    BY <1>4, NewStack
<1> QED BY <1>5 DEF Becomes, Pc, Top

LEMMA PopSync ==
    ASSUME StacksOK, NEW p \in Threads, Pc(p) \in Syncing, Pop(p)
    PROVE  StacksOK' /\ Others(p) /\ Pc(p)' \in Outside \cup {"finish"}
<1>1. PICK f \in SectionFrames \cup FinishFrames : Tail(stack[p]) = <<f>> /\ Below(f)
    BY SyncStack
<1>2. stack' = [stack EXCEPT ![p] = <<f>>] /\ Stacks(<<f>>)
    BY <1>1 DEF Pop, Stacks, Below
<1>3. StacksOK' /\ Others(p) /\ stack'[p] = <<f>>
    BY <1>2, NewStack
<1>4. f.pc \in Outside \cup {"finish"}
    BY <1>1 DEF Below, FinishFrames
<1> QED BY <1>3, <1>4 DEF Pc, Top

-----------------------------------------------------------------------------
(***************************************************************************)
(* Arithmetic, and updates of records.                                     *)
(***************************************************************************)
LEMMA WsSlots ==
    ASSUME NEW k \in Nat
    PROVE  WS_INDEX(k) \in Slots
BY RluAssumption DEF WS_INDEX, Slots

\* Write-sets less than RLU_MAX_WRITE_SETS apart are different.
LEMMA WsDiffer ==
    ASSUME NEW a \in Nat, NEW b \in Nat, a < b, b < a + RLU_MAX_WRITE_SETS
    PROVE  WS_INDEX(a) # WS_INDEX(b)
<1> DEFINE n == RLU_MAX_WRITE_SETS  qa == a \div n  qb == b \div n
<1>1. n \in Nat \ {0}
    BY RluAssumption
<1>0. b < a + n
    OBVIOUS
<1> HIDE DEF n
<1>2. \A s \in Nat : /\ s = n * (s \div n) + (s % n) /\ s % n \in 0 .. n - 1
                     /\ s \div n \in Int
    BY <1>1
<1>3. a = n * qa + (a % n) /\ b = n * qb + (b % n) /\ qa \in Int /\ qb \in Int
    BY <1>2
<1> HIDE DEF qa, qb
<1>4. SUFFICES ASSUME a % n = b % n PROVE FALSE
    BY DEF WS_INDEX, n
<1>5. a % n \in Int /\ b % n \in Int
    BY <1>2
<1>6. PICK d \in Int : d = qb - qa
    BY <1>3
<1>7. n * qb = n * qa + n * d /\ n * qa \in Int /\ n * d \in Int
    BY <1>1, <1>3, <1>6
<1>8. b - a = n * d
    BY <1>3, <1>4, <1>5, <1>7
<1>9. 0 < n * d /\ n * d < n
    BY <1>0, <1>1, <1>7, <1>8
<1>10. d >= 1 => n * d >= n
    BY <1>1, <1>6
<1>11. d <= 0 => n * d <= 0
    BY <1>1, <1>6
<1> QED BY <1>1, <1>6, <1>7, <1>9, <1>10, <1>11

\* Updates of the frame of a section.
LEMMA FrameGo ==
    ASSUME NEW f \in SectionFrames, NEW l \in InSection \cup Outside
    PROVE  LET g == [f EXCEPT !.pc = l] IN
           /\ g \in SectionFrames /\ g.pc = l /\ g.op = f.op /\ g.steps = f.steps /\ g.at = f.at
           /\ g.ptr = f.ptr /\ g.snap = f.snap
BY DEF SectionFrames

LEMMA FrameEnd ==
    ASSUME NEW f \in SectionFrames, NEW l \in InSection \cup Outside
    PROVE  LET g == [f EXCEPT !.pc = l, !.got = {}, !.snap = Nothing] IN
           /\ g \in SectionFrames /\ g.pc = l /\ g.op = f.op
BY DEF SectionFrames

LEMMA FrameTypes ==
    ASSUME NEW f \in SectionFrames
    PROVE  /\ f.pc \in InSection \cup Outside /\ f.op \in RluCalls /\ f.steps \in Seq(RluSteps)
           /\ f.at \in Objects \cup {Nothing} /\ f.ptr \in Addrs \cup {Nothing}
           /\ f.snap \in States \cup {Nothing} /\ f.got \in SUBSET Right /\ f.tries \in Nat
BY DEF SectionFrames

-----------------------------------------------------------------------------
(***************************************************************************)
(* Steps that leave versions, write-sets and objects alone.                *)
(***************************************************************************)
SameSets(q) == \A w \in Slots : Num(q, w)' = Num(q, w) /\ Buf(q, w)' = Buf(q, w)

SameCore(q) ==
    /\ self'[q].run_counter = self[q].run_counter
    /\ self'[q].writer_version = self[q].writer_version
    /\ self'[q].ws_head = self[q].ws_head /\ self'[q].ws_wb = self[q].ws_wb
    /\ self'[q].ws_tail = self[q].ws_tail /\ self'[q].max_write_sets = self[q].max_write_sets
    /\ SameSets(q)

SameReader(q) ==
    /\ self'[q].local_version = self[q].local_version
    /\ self'[q].is_check_locks = self[q].is_check_locks
    /\ self'[q].is_steal = self[q].is_steal
    /\ self'[q].is_write_detected = self[q].is_write_detected

OthersSame(p) == Others(p) /\ \A q \in Threads \ {p} : SameCore(q) /\ SameReader(q)

Calm(p) ==
    /\ TypeOK' /\ OthersSame(p) /\ SameCore(p) /\ Pos(p)' = Pos(p)
    /\ UNCHANGED <<copy_of, data, latest>> /\ version'.writer = version.writer

LEMMA NoPosition ==
    ASSUME NEW p, Pc(p) \notin Writes, Pc(p)' \notin Writes
    PROVE  Pos(p)' = Pos(p)
BY DEF Pos

LEMMA StackStep ==
    ASSUME TypeOK, scheme' = scheme, todo' \in [Threads -> Seq(RluCalls)],
           UNCHANGED <<version, copy_of, data, self, latest>>,
           NEW p \in Threads, StacksOK', Others(p), Pc(p) \notin Writes, Pc(p)' \notin Writes
    PROVE  Calm(p) /\ SameReader(p)
<1>1. \A q \in Threads : SameCore(q) /\ SameReader(q)
    BY DEF SameCore, SameReader, SameSets, Num, Buf
<1>2. Pos(p)' = Pos(p)
    BY NoPosition
<1>3. TypeOK'
    BY DEF TypeOK
<1> QED BY <1>1, <1>2, <1>3 DEF Calm, OthersSame

\* What one step of a thread leaves of the write-sets of another.
LEMMA LiveSame ==
    ASSUME NEW q \in Threads, SameCore(q), Pos(q)' = Pos(q), NEW k \in Nat, NEW i \in Nat
    PROVE  /\ LiveAt(q, k, i)' <=> LiveAt(q, k, i)
           /\ Copy(q, WS_INDEX(k), i)' = Copy(q, WS_INDEX(k), i)
<1>1. WS_INDEX(k) \in Slots
    BY WsSlots
<1>2. /\ Num(q, WS_INDEX(k))' = Num(q, WS_INDEX(k)) /\ Buf(q, WS_INDEX(k))' = Buf(q, WS_INDEX(k))
      /\ self'[q].ws_wb = self[q].ws_wb /\ self'[q].ws_tail = self[q].ws_tail
      /\ self'[q].run_counter = self[q].run_counter
    BY <1>1 DEF SameCore, SameSets
<1> QED BY <1>2 DEF LiveAt, Copy, Running

\* Addresses in use name slots.
LEMMA CopyOfAddr ==
    ASSUME TypeOK, NEW o \in Objects, copy_of[o] # Nothing
    PROVE  /\ copy_of[o] \in Addrs /\ copy_of[o][1] \in Threads /\ copy_of[o][2] \in Slots
           /\ copy_of[o][3] \in Nat \ {0}
BY DEF TypeOK, Addrs

LEMMA AddrIs ==
    ASSUME NEW c \in Addrs
    PROVE  c[1] \in Threads /\ c[2] \in Slots /\ c[3] \in Nat \ {0} /\ c # Nothing
<1>1. c[1] \in Threads /\ c[2] \in Slots /\ c[3] \in Nat \ {0} /\ c = <<c[1], c[2], c[3]>>
    BY DEF Addrs
<1>2. c \in Threads \X Nat \X Nat
    BY <1>1 DEF Slots
<1> QED BY <1>1, <1>2, RluAssumption

LEMMA CopyValSame ==
    ASSUME NEW c \in Addrs, SameSets(c[1])
    PROVE  CopyVal(c)' = CopyVal(c)
<1>1. Buf(c[1], c[2])' = Buf(c[1], c[2])
    BY AddrIs DEF SameSets
<1> QED BY <1>1 DEF CopyVal, Copy

LEMMA CalmCopies ==
    ASSUME TypeOK, CopiesLock, LockedHaveCopies, LatestIsSeen, NEW p \in Threads, Calm(p)
    PROVE  CopiesLock' /\ LockedHaveCopies' /\ LatestIsSeen'
<1>1. \A q \in Threads : SameCore(q) /\ Pos(q)' = Pos(q)
    BY DEF Calm, OthersSame, Others
<1>2. \A q \in Threads : \A k \in Nat, i \in Nat :
         /\ LiveAt(q, k, i)' <=> LiveAt(q, k, i)
         /\ Copy(q, WS_INDEX(k), i)' = Copy(q, WS_INDEX(k), i)
    BY <1>1, LiveSame
<1>3. copy_of' = copy_of /\ data' = data /\ latest' = latest /\ version'.writer = version.writer
    BY DEF Calm
<1>4. CopiesLock'
  <2> SUFFICES ASSUME NEW q \in Threads, NEW k \in Nat, NEW i \in Nat, LiveAt(q, k, i)'
               PROVE  copy_of'[Copy(q, WS_INDEX(k), i)'.obj] = <<q, WS_INDEX(k), i>>
      BY DEF CopiesLock
  <2>1. LiveAt(q, k, i) /\ Copy(q, WS_INDEX(k), i)' = Copy(q, WS_INDEX(k), i)
      BY <1>2
  <2> QED BY <2>1, <1>3 DEF CopiesLock
<1>5. LockedHaveCopies'
  <2> SUFFICES ASSUME NEW o \in Objects, copy_of[o] # Nothing
               PROVE  \E q \in Threads : \E k \in Nat, i \in Nat :
                         /\ LiveAt(q, k, i)' /\ copy_of[o] = <<q, WS_INDEX(k), i>>
                         /\ Copy(q, WS_INDEX(k), i)'.obj = o
      BY <1>3 DEF LockedHaveCopies
  <2>1. PICK q \in Threads : \E k \in Nat, i \in Nat :
          LiveAt(q, k, i) /\ copy_of[o] = <<q, WS_INDEX(k), i>> /\ Copy(q, WS_INDEX(k), i).obj = o
      BY DEF LockedHaveCopies
  <2> QED BY <2>1, <1>2
<1>6. ASSUME NEW o \in Objects PROVE Seen(Nothing, version.writer, o)' = Seen(Nothing, version.writer, o)
  <2>1. copy_of[o] # Nothing =>
           /\ CopyVal(copy_of[o])' = CopyVal(copy_of[o])
           /\ self'[copy_of[o][1]].writer_version = self[copy_of[o][1]].writer_version
      BY <1>1, <1>3, CopyOfAddr, CopyValSame DEF SameCore
  <2> QED BY <1>3, <2>1 DEF Seen
<1>7. LatestIsSeen'
    BY <1>3, <1>6 DEF LatestIsSeen
<1> QED BY <1>4, <1>5, <1>7

-----------------------------------------------------------------------------
(***************************************************************************)
(* What a step of p leaves true of another thread q.                       *)
(***************************************************************************)
\* No step does more to a section q than this: p changes the owner of an object
\* from or to itself, and a write-back changes objects to what q should see.
\* What q may have found in a write-set of p stays, and p does not come to
\* have a version that q has seen announced.
Gentle(p, q) ==
    LET me == self[p]  new == self'[p] IN
    /\ \/ new.writer_version = me.writer_version
       \/ new.writer_version > self[q].local_version
    /\ \A o \in Objects : copy_of'[o] # copy_of[o] =>
          /\ copy_of[o] # Nothing => copy_of[o][1] = p
          /\ copy_of'[o] # Nothing =>
                copy_of'[o][1] = p /\ new.writer_version > self[q].local_version
    /\ \A o \in Objects : data'[o] = data[o] \/ data'[o] = Top(q).snap[o]
    /\ \A k \in Nat : me.ws_head <= k /\ k < me.ws_tail => Buf(p, WS_INDEX(k))' = Buf(p, WS_INDEX(k))
    /\ new.ws_tail >= me.ws_tail
    /\ \/ new.ws_head = me.ws_head
       \/ new.ws_head = me.ws_wb /\ me.writer_version <= self[q].local_version
    /\ new.ws_wb = me.ws_wb \/ new.writer_version > self[q].local_version

LEMMA ThreadType ==
    ASSUME TypeOK, NEW p \in Threads
    PROVE  /\ self[p] \in ThreadData
           /\ self[p].run_counter \in Nat /\ self[p].local_version \in Nat
           /\ self[p].writer_version \in Nat /\ self[p].ws_head \in Nat /\ self[p].ws_wb \in Nat
           /\ self[p].ws_tail \in Nat /\ self[p].max_write_sets \in Nat
           /\ self[p].is_check_locks \in BOOLEAN /\ self[p].is_steal \in BOOLEAN
           /\ self[p].is_write_detected \in BOOLEAN
           /\ self[p].sets \in [Slots -> WriteSets]
           /\ \A w \in Slots : self[p].sets[w] \in WriteSets /\ Num(p, w) \in Nat /\ Buf(p, w) \in Seq(Copies)
BY DEF TypeOK, ThreadData, WriteSets, Num, Buf

LEMMA OthersLocal ==
    ASSUME TypeOK, NEW p \in Threads, OthersSame(p), NEW q \in Threads \ {p}, Local(q)
    PROVE  Local(q)'
<1>1. /\ SameCore(q) /\ SameReader(q)
      /\ Pc(q)' = Pc(q) /\ Top(q)' = Top(q)
    BY DEF OthersSame, Others
<1>2. Sets(q)'
  <2>1. Counts(q)' /\ Empty(q)' /\ Buffers(q)'
      BY <1>1 DEF Local, Sets, Counts, Empty, Buffers, Copy, SameCore, SameSets, Running
  <2>2. ASSUME NEW k \in self[q].ws_wb .. self[q].ws_tail - 1
        PROVE  /\ Num(q, WS_INDEX(k))' = Num(q, WS_INDEX(k))
               /\ Buf(q, WS_INDEX(k))' = Buf(q, WS_INDEX(k))
    <3>1. k \in Nat
        BY ThreadType
    <3> QED BY <1>1, <3>1, WsSlots DEF SameCore, SameSets
  <2>3. Older(q)'
      BY <1>1, <2>2 DEF Local, Sets, Older, Copy, SameCore
  <2> QED BY <2>1, <2>3 DEF Sets
<1>3. ASSUME NEW k \in Nat PROVE Num(q, WS_INDEX(k))' = Num(q, WS_INDEX(k))
    BY <1>1, WsSlots DEF SameCore, SameSets
<1>4. Flags(q)'
  <2>1. Num(q, Cur(q))' = Num(q, Cur(q))
    <3>1. self[q].ws_tail \in Nat /\ self'[q].ws_tail = self[q].ws_tail
        BY <1>1, ThreadType DEF SameCore
    <3> QED BY <3>1, <1>3 DEF Cur
  <2> QED BY <1>1, <2>1 DEF Local, Flags, SameCore, SameReader, Running
<1>5. Position(q)'
  <2>1. Pc(q) = "unlock" => Num(q, WS_INDEX(Top(q).ws))' = Num(q, WS_INDEX(Top(q).ws))
    <3>1. Pc(q) = "unlock" => Top(q).ws \in Nat
        BY SyncStack DEF TypeOK, SyncFrames, Syncing, WritingBack, Announced, Alone, Writes
    <3>2. Top(q)'.ws = Top(q).ws
        BY <1>1
    <3> QED BY <3>1, <3>2, <1>3
  <2> QED BY <1>1, <2>1 DEF Local, Position, SameCore
<1> QED BY <1>2, <1>4, <1>5 DEF Local

\* What a section has in hand.
LEMMA ReadingTop ==
    ASSUME TypeOK, NEW q \in Threads, Pc(q) \in Reading
    PROVE  /\ Top(q) \in SectionFrames /\ Top(q).pc = Pc(q) /\ Top(q).snap \in States
           /\ Top(q).steps \in Seq(RluSteps) /\ Top(q).op.do = "section" /\ FrameOK(Top(q))
           /\ Pc(q) \in AtObject =>
                 Top(q).at \in Objects /\ Top(q).steps # << >> /\ Top(q).at = Head(Top(q).steps).obj
           /\ Top(q).ptr \in Addrs \cup {Nothing}
           /\ Pc(q) = "steal" => Top(q).ptr \in Addrs
<1>1. Top(q) \in SectionFrames /\ FrameOK(Top(q)) /\ Top(q).pc = Pc(q)
    BY SectionStack DEF TypeOK, InSection
<1> QED BY <1>1, FrameTypes DEF FrameOK

LEMMA OthersUse ==
    ASSUME TypeOK, TypeOK', NEW p \in Threads, Local(p), OthersSame(p), NEW q \in Threads \ {p},
           Pc(q) \in Reading => Gentle(p, q),
           Steals(q), Loads(q), Changes(q)
    PROVE  Steals(q)' /\ Loads(q)' /\ Changes(q)'
<1> PICK c, at : c = Top(q).ptr /\ at = Top(q).at
    OBVIOUS
<1> PICK me, new : me = self[p] /\ new = self'[p]
    OBVIOUS
<1>1. /\ SameCore(q) /\ SameReader(q)
      /\ Pc(q)' = Pc(q) /\ Top(q)' = Top(q)
    BY DEF OthersSame, Others
<1>2. SUFFICES ASSUME Pc(q) \in {"steal", "load", "change"} PROVE Steals(q)' /\ Loads(q)' /\ Changes(q)'
    BY <1>1 DEF Steals, Loads, Changes
<1>3. Gentle(p, q) /\ Pc(q) \in Reading /\ at \in Objects /\ Pc(q) \in AtObject
    BY <1>2, ReadingTop DEF Reading, AtObject
<1>4. copy_of[at] # Nothing /\ copy_of[at][1] = q => copy_of'[at] = copy_of[at]
    BY <1>3 DEF Gentle
<1>5. /\ me.ws_head \in Nat /\ me.ws_wb \in Nat /\ me.ws_tail \in Nat /\ me.writer_version \in Nat
      /\ self[q].local_version \in Nat /\ me.ws_head <= me.ws_wb
      /\ new.ws_head \in Nat /\ new.ws_wb \in Nat /\ new.ws_tail \in Nat /\ new.writer_version \in Nat
  <2>1. self'[p] \in ThreadData
      BY DEF TypeOK
  <2> QED BY <2>1, ThreadType DEF Local, Sets, Counts, ThreadData
<1>6. ASSUME NEW d \in Addrs, d[1] # q
      PROVE  /\ Early(q, d)' => Early(q, d)
             /\ Early(q, d) /\ Early(q, d)' /\ Lasts(q, d, self[d[1]].ws_wb) =>
                   Lasts(q, d, self[d[1]].ws_wb)'
             /\ Lasts(q, d, IF Early(q, d) THEN self[d[1]].ws_wb ELSE self[d[1]].ws_head) =>
                   Lasts(q, d, IF Early(q, d) THEN self[d[1]].ws_wb ELSE self[d[1]].ws_head)'
  <2>1. CASE d[1] # p
    <3>1. SameCore(d[1]) /\ d[1] \in Threads
        BY <2>1, AddrIs DEF OthersSame
    <3>2. CopyVal(d)' = CopyVal(d)
        BY <3>1, CopyValSame DEF SameCore
    <3> QED BY <3>1, <3>2, <1>1 DEF Early, Lasts, SameCore, SameReader
  <2>2. CASE d[1] = p
    <3>1. Early(q, d)' => Early(q, d) /\ new.ws_wb = me.ws_wb
        BY <1>1, <1>3, <1>5, <2>2 DEF Gentle, Early, SameReader
    <3>2. ASSUME NEW k \in Nat, me.ws_head <= k, k < me.ws_tail, WS_INDEX(k) = d[2],
                 CopyVal(d) = Top(q).snap[at]
          PROVE  CopyVal(d)' = Top(q)'.snap[Top(q)'.at] /\ k < new.ws_tail
      <4>1. Buf(p, d[2])' = Buf(p, d[2]) /\ new.ws_tail >= me.ws_tail
          BY <3>2, <1>3 DEF Gentle
      <4>2. CopyVal(d)' = CopyVal(d)
          BY <4>1, <2>2 DEF CopyVal, Copy
      <4> QED BY <3>2, <4>1, <4>2, <1>1, <1>5
    <3>3. ASSUME Lasts(q, d, me.ws_wb), Early(q, d)' PROVE Lasts(q, d, self[d[1]].ws_wb)'
      <4>1. PICK k \in Nat : /\ me.ws_wb <= k /\ k < me.ws_tail /\ WS_INDEX(k) = d[2]
                             /\ CopyVal(d) = Top(q).snap[at]
          BY <3>3, <2>2 DEF Lasts
      <4> QED BY <4>1, <3>1, <3>2, <3>3, <1>5, <2>2 DEF Lasts
    <3>4. ASSUME Lasts(q, d, IF Early(q, d) THEN me.ws_wb ELSE me.ws_head), ~Early(q, d)'
          PROVE  Lasts(q, d, self[d[1]].ws_head)'
      <4>1. PICK k \in Nat : /\ (IF Early(q, d) THEN me.ws_wb ELSE me.ws_head) <= k
                             /\ k < me.ws_tail /\ WS_INDEX(k) = d[2]
                             /\ CopyVal(d) = Top(q).snap[at]
          BY <3>4, <2>2 DEF Lasts
      <4>2. me.ws_head <= k /\ (Early(q, d) => me.ws_wb <= k)
          BY <4>1, <1>5
      <4>3. new.ws_head = me.ws_head \/ (new.ws_head = me.ws_wb /\ Early(q, d))
          BY <1>3, <2>2 DEF Gentle, Early
      <4>4. new.ws_head <= k
          BY <4>2, <4>3
      <4> QED BY <4>1, <4>2, <4>4, <3>2, <2>2 DEF Lasts
    <3> QED BY <3>1, <3>3, <3>4, <2>2 DEF Lasts
  <2> QED BY <2>1, <2>2
<1>7. Steals(q)'
  <2> SUFFICES ASSUME Pc(q) = "steal" PROVE Steals(q)'
      BY <1>1 DEF Steals
  <2>1. c \in Addrs /\ c[1] # q
      BY <1>3, ReadingTop DEF Steals
  <2>2. copy_of'[at] # Nothing => copy_of'[at][1] # q
      BY <1>3 DEF Steals, Gentle
  <2>3. ASSUME copy_of'[at] # Nothing, Early(q, copy_of[at])' PROVE copy_of'[at] = c
    <3>1. CASE copy_of'[at] = copy_of[at]
      <4>1. copy_of[at] \in Addrs /\ copy_of[at][1] # q
          BY <2>3, <3>1, <1>3, CopyOfAddr DEF Steals
      <4>2. Early(q, copy_of[at])
        <5>1. PICK d \in Addrs : d = copy_of[at] /\ d[1] # q
            BY <4>1
        <5>2. Early(q, d)'
            BY <5>1, <3>1, <2>3 DEF Early
        <5> QED BY <5>1, <5>2, <1>6
      <4> QED BY <4>2, <3>1, <2>3 DEF Steals
    <3>2. CASE copy_of'[at] # copy_of[at]
      <4>1. copy_of'[at][1] = p /\ new.writer_version > self[q].local_version
          BY <3>2, <2>3, <1>3 DEF Gentle
      <4>2. new.writer_version <= self[q].local_version
          BY <4>1, <2>3, <1>1 DEF Early, SameReader
      <4>3. new.writer_version = me.writer_version \/ new.writer_version > self[q].local_version
          BY <1>3 DEF Gentle
      <4> QED BY <4>1, <4>2, <4>3, <1>5
    <3> QED BY <3>1, <3>2
  <2>4. Early(q, c)' => Lasts(q, c, self[c[1]].ws_wb)'
      BY <2>1, <1>6 DEF Steals
  <2> QED BY <2>1, <2>2, <2>3, <2>4, <1>1 DEF Steals, Early
<1>8. Loads(q)'
  <2> SUFFICES ASSUME Pc(q) = "load" PROVE Loads(q)'
      BY <1>1 DEF Loads
  <2>1. c = Nothing => data'[at] = Top(q).snap[at]
      BY <1>3 DEF Loads, Gentle
  <2>2. c # Nothing /\ c[1] = q => copy_of'[at] = c
      BY <1>4 DEF Loads
  <2>3. c # Nothing => c \in Addrs
      BY <1>3, ReadingTop
  <2>4. c # Nothing /\ c[1] # q =>
           Lasts(q, c, IF Early(q, c) THEN self[c[1]].ws_wb ELSE self[c[1]].ws_head)'
      BY <2>3, <1>6 DEF Loads
  <2> QED BY <2>1, <2>2, <2>4, <1>1 DEF Loads, Early, Lasts
<1>9. Changes(q)'
    BY <1>1, <1>4 DEF Changes, Cur, SameCore
<1> QED BY <1>7, <1>8, <1>9

LEMMA OthersWait ==
    ASSUME NEW p \in Threads, OthersSame(p), NEW q \in Threads \ {p}, Waits(q),
           Pc(q) \in Waiting \cup Alone /\ Slow(q, p)' =>
              Slow(q, p) /\ self'[p].run_counter = self[p].run_counter
    PROVE  Waits(q)'
<1>1. Pc(q)' = Pc(q) /\ Top(q)' = Top(q)
    BY DEF OthersSame, Others
<1>2. SUFFICES ASSUME Pc(q) \in Waiting \cup Alone PROVE Waits(q)'
    BY <1>1 DEF Waits, Waiting
<1>3. ASSUME NEW r \in Threads, Slow(q, r)'
      PROVE  Slow(q, r) /\ self'[r].run_counter = self[r].run_counter
  <2>1. CASE r = p
      BY <2>1, <1>2, <1>3
  <2>2. CASE r # p
      BY <2>2, <1>1, <1>3 DEF OthersSame, Others, SameCore, SameReader, Slow
  <2> QED BY <2>1, <2>2
<1>4. Pc(q) = "init_quiescence" =>
        \A r \in Threads : Slow(q, r)' /\ r < Top(q).who => Top(q).waits[r] = self'[r].run_counter
    BY <1>3 DEF Waits
<1>5. Pc(q) = "wait" =>
        /\ Top(q).who >= 1
        /\ \A r \in Threads : Slow(q, r)' => r >= Top(q).who /\ Top(q).waits[r] = self'[r].run_counter
    BY <1>3 DEF Waits
<1>6. Pc(q) \in Alone => \A r \in Threads : ~Slow(q, r)'
    BY <1>3 DEF Waits
<1> QED BY <1>1, <1>4, <1>5, <1>6 DEF Waits

LEMMA OthersStep ==
    ASSUME TypeOK, TypeOK', NEW p \in Threads, Local(p), OthersSame(p), NEW q \in Threads \ {p},
           OfThread(q),
           Pc(q) \in Reading => /\ Gentle(p, q)
                                /\ \A o \in Objects : Seen(q, self[q].local_version, o)'
                                                        = Seen(q, self[q].local_version, o),
           data' = data \/ Pc(q) # "unlock",
           Pc(q) \in Waiting \cup Alone /\ Slow(q, p)' =>
              Slow(q, p) /\ self'[p].run_counter = self[p].run_counter
    PROVE  OfThread(q)'
<1>1. /\ SameCore(q) /\ SameReader(q)
      /\ Pc(q)' = Pc(q) /\ Top(q)' = Top(q)
    BY DEF OthersSame, Others
<1>2. Local(q)' /\ Steals(q)' /\ Loads(q)' /\ Changes(q)' /\ Waits(q)'
    BY OthersLocal, OthersUse, OthersWait DEF OfThread
<1>3. WrittenBack(q)'
  <2> SUFFICES ASSUME Pc(q) = "unlock" PROVE WrittenBack(q)'
      BY <1>1 DEF WrittenBack
  <2>1. Top(q).ws \in Nat
      BY SyncStack DEF TypeOK, SyncFrames, Syncing, WritingBack, Announced, Alone, Writes
  <2>2. Copy(q, WS_INDEX(Top(q).ws), Top(q).i)' = Copy(q, WS_INDEX(Top(q).ws), Top(q).i)
      BY <1>1, <2>1, WsSlots DEF SameCore, SameSets, Copy
  <2> QED BY <1>1, <2>2 DEF WrittenBack, OfThread
<1>4. SnapIsSeen(q)'
    BY <1>1 DEF SnapIsSeen, OfThread, SameReader
<1>5. NoStealing(q)'
  <2> SUFFICES ASSUME Pc(q) \in Reading \ {"commit_version"}, ~self[q].is_steal,
                      NEW r \in Threads \ {q}
               PROVE  self'[r].writer_version > self[q].local_version
      BY <1>1 DEF NoStealing, SameReader
  <2>1. self[r].writer_version > self[q].local_version
      BY DEF NoStealing, OfThread
  <2>2. CASE r = p
      BY <2>1, <2>2 DEF Gentle
  <2>3. CASE r # p
      BY <2>1, <2>3 DEF OthersSame, SameCore
  <2> QED BY <2>2, <2>3
<1> QED BY <1>2, <1>3, <1>4, <1>5 DEF OfThread

\* Versions of the others.
LEMMA OthersVersion ==
    ASSUME NEW p \in Threads, OthersSame(p), NEW q \in Threads \ {p}, VersionOf(q),
           version.writer \in Nat, version'.writer \in Nat, self[q].local_version \in Nat,
           \/ version' = version
           \/ Pc(q) \notin WritingBack /\ version'.writer >= version.writer
    PROVE  VersionOf(q)'
<1>1. /\ SameCore(q) /\ SameReader(q)
      /\ Pc(q)' = Pc(q) /\ Top(q)' = Top(q)
    BY DEF OthersSame, Others
<1>2. CASE version' = version
    BY <1>1, <1>2 DEF VersionOf, SameCore, SameReader
<1>3. CASE Pc(q) \notin WritingBack /\ version'.writer >= version.writer
    BY <1>1, <1>3 DEF VersionOf, SameCore, SameReader, WritingBack
<1> QED BY <1>2, <1>3

\* A calm step of p: what p has to see to itself.
LEMMA CalmStep ==
    ASSUME RluInv, NEW p \in Threads, Calm(p),
           version' = version \/ \A q \in Threads \ {p} : Pc(q) \notin WritingBack,
           Pc(p)' \in Reading => \/ Pc(p) \in Reading /\ self'[p].local_version = self[p].local_version
                                 \/ self'[p].local_version = version.writer,
           OfThread(p)', Versions'
    PROVE  RluInv'
<1>1. TypeOK /\ TypeOK' /\ OthersSame(p) /\ SameCore(p) /\ Local(p)
    BY DEF RluInv, Calm, OfThread
<1>2. CopiesLock' /\ LockedHaveCopies' /\ LatestIsSeen'
    BY CalmCopies DEF RluInv
<1>3. ASSUME NEW q \in Threads \ {p} PROVE OfThread(q)'
  <2>1. OfThread(q) /\ VersionOf(q)
      BY DEF RluInv, Versions
  <2>2. copy_of' = copy_of /\ data' = data
      BY DEF Calm
  <2>3. Gentle(p, q)
    <3>1. ASSUME NEW k \in Nat PROVE Buf(p, WS_INDEX(k))' = Buf(p, WS_INDEX(k))
        BY <1>1, WsSlots DEF SameCore, SameSets
    <3> QED BY <1>1, <2>2, <3>1, ThreadType DEF Gentle, SameCore
  <2>4. ASSUME NEW o \in Objects
        PROVE  Seen(q, self[q].local_version, o)' = Seen(q, self[q].local_version, o)
    <3>1. self'[q].local_version = self[q].local_version
        BY <1>1 DEF OthersSame, SameReader
    <3>2. \A r \in Threads : SameCore(r)
        BY <1>1 DEF OthersSame
    <3>3. copy_of[o] # Nothing =>
             /\ CopyVal(copy_of[o])' = CopyVal(copy_of[o])
             /\ self'[copy_of[o][1]].writer_version = self[copy_of[o][1]].writer_version
        BY <1>1, <2>2, <3>2, CopyOfAddr, CopyValSame DEF SameCore
    <3> QED BY <2>2, <3>1, <3>3 DEF Seen
  <2>5. ASSUME Pc(q) \in Waiting \cup Alone, Slow(q, p)'
        PROVE  Slow(q, p) /\ self'[p].run_counter = self[p].run_counter
    <3>1. Top(q)' = Top(q) /\ Top(q).version = version.writer /\ version.writer \in Nat
        BY <1>1, <2>1, <2>5 DEF OthersSame, Others, VersionOf, Announced, TypeOK
    <3>2. Pc(p) \in Reading /\ self'[p].local_version = self[p].local_version
        BY <2>5, <3>1 DEF Slow
    <3> QED BY <2>5, <3>1, <3>2, <1>1 DEF Slow, SameCore
  <2> QED BY <1>1, <2>1, <2>2, <2>3, <2>4, <2>5, OthersStep
<1> QED BY <1>1, <1>2, <1>3 DEF RluInv

LEMMA CalmVersions ==
    ASSUME TypeOK, TypeOK', Versions, NEW p \in Threads, OthersSame(p), version' = version,
           Pc(p)' \in WritingBack <=> Pc(p) \in WritingBack, VersionOf(p)'
    PROVE  Versions'
<1>1. ASSUME NEW q \in Threads PROVE VersionOf(q)'
  <2>1. CASE q = p
      BY <2>1
  <2>2. CASE q # p
      BY <2>2, ThreadType, OthersVersion DEF Versions, TypeOK
  <2> QED BY <2>1, <2>2
<1>2. ASSUME NEW q \in Threads, Pc(q) \in WritingBack PROVE Pc(q)' \in WritingBack
    BY <1>2 DEF OthersSame, Others
<1> QED BY <1>1, <1>2 DEF Versions

LEMMA SetsSame ==
    ASSUME TypeOK, NEW p \in Threads, SameCore(p), Sets(p)
    PROVE  /\ Sets(p)' /\ Num(p, Cur(p))' = Num(p, Cur(p)) /\ (Running(p)' <=> Running(p))
           /\ \A k \in Nat : Num(p, WS_INDEX(k))' = Num(p, WS_INDEX(k)) /\ Buf(p, WS_INDEX(k))' = Buf(p, WS_INDEX(k))
<1>1. ASSUME NEW k \in Nat
      PROVE  Num(p, WS_INDEX(k))' = Num(p, WS_INDEX(k)) /\ Buf(p, WS_INDEX(k))' = Buf(p, WS_INDEX(k))
    BY WsSlots DEF SameCore, SameSets
<1>2. Counts(p)' /\ Empty(p)' /\ Buffers(p)'
    BY DEF Sets, Counts, Empty, Buffers, Copy, SameCore, SameSets, Running
<1>3. Older(p)'
  <2>1. \A k \in self[p].ws_wb .. self[p].ws_tail - 1 : k \in Nat
      BY ThreadType
  <2> QED BY <1>1, <2>1 DEF Sets, Older, Copy, SameCore
<1>4. Num(p, Cur(p))' = Num(p, Cur(p))
  <2>1. self[p].ws_tail \in Nat /\ self'[p].ws_tail = self[p].ws_tail
      BY ThreadType DEF SameCore
  <2> QED BY <2>1, <1>1 DEF Cur
<1> QED BY <1>1, <1>2, <1>3, <1>4 DEF Sets, SameCore, Running

\* Out of sections and write-backs there is nothing to take care of.
Still == {"idle", "finish", "sync", "free"} \cup Outside

LEMMA StillLabels ==
    ASSUME NEW l \in Still
    PROVE  /\ l \notin InSection /\ l \notin Reading /\ l \notin WritingBack /\ l \notin HasVersion
           /\ l \notin Announced /\ l \notin Writes /\ l \notin Alone
           /\ l \notin {"writer_version", "announce", "unlock", "written_back", "commit",
                        "init_quiescence", "wait", "steal", "load", "change", "lock",
                        "local_version", "commit_version", "writer_lock"}
BY DEF Still, Outside, InSection, Reading, WritingBack, HasVersion, Announced, Writes, Alone, Waiting

LEMMA StillStep ==
    ASSUME RluInv, NEW p \in Threads, Calm(p), version' = version,
           Pc(p) \in Still, Pc(p)' \in Still \ {"free"},
           Pc(p) \in Syncing /\ Pc(p)' \notin Syncing =>
              self[p].ws_tail < self[p].ws_wb + self[p].max_write_sets
    PROVE  RluInv'
<1>1. TypeOK /\ TypeOK' /\ OthersSame(p) /\ SameCore(p) /\ OfThread(p) /\ Local(p)
    BY DEF RluInv, Calm, OfThread
<1>2. Sets(p)' /\ (Running(p)' <=> Running(p))
    BY <1>1, SetsSame DEF Local
<1>3. Flags(p)'
  <2>1. ~Running(p)
      BY <1>1, StillLabels DEF Local, Flags
  <2> QED BY <1>2, <2>1, StillLabels DEF Flags
<1>4. Position(p)'
  <2>1. Pc(p)' \notin Syncing => self[p].ws_tail < self[p].ws_wb + self[p].max_write_sets
      BY <1>1 DEF Local, Position
  <2>2. /\ self'[p].ws_tail = self[p].ws_tail /\ self'[p].ws_wb = self[p].ws_wb
        /\ self'[p].max_write_sets = self[p].max_write_sets
      BY <1>1 DEF SameCore
  <2> QED BY <2>1, <2>2, StillLabels DEF Position
<1>5. OfThread(p)'
    BY <1>2, <1>3, <1>4, StillLabels
    DEF OfThread, Local, WrittenBack, SnapIsSeen, NoStealing, Steals, Loads, Changes, Waits
<1>6. VersionOf(p)'
    BY <1>1, StillLabels DEF RluInv, Versions, VersionOf, SameCore
<1>7. Versions'
    BY <1>1, <1>6, CalmVersions, StillLabels DEF RluInv
<1> QED BY <1>1, <1>5, <1>7, CalmStep, StillLabels

\* A new frame that is outside.
LEMMA OutsideFrame ==
    ASSUME NEW f \in SectionFrames, FrameOK(f), NEW l \in Outside
    PROVE  LET g == [f EXCEPT !.pc = l] IN
           g \in SectionFrames /\ FrameOK(g) /\ Below(g) /\ g.pc = l
<1> DEFINE g == [f EXCEPT !.pc = l]
<1>1. g \in SectionFrames /\ g.pc = l /\ g.op = f.op
    BY FrameGo
<1>2. l \notin Reading /\ l \notin AtObject
    BY StillLabels DEF Still, AtObject, Reading
<1>3. FrameOK(g)
    BY <1>1, <1>2 DEF FrameOK, AtObject
<1> QED BY <1>1, <1>3 DEF Below

LEMMA CallStep ==
    ASSUME RluInv, NEW p \in Threads, Pc(p) = "idle", scheme' = scheme, UNCHANGED rlu,
           Begin(p, Frame(Head(todo[p])))
    PROVE  RluInv'
<1>1. TypeOK /\ todo[p] \in Seq(RluCalls) /\ todo[p] # << >>
    BY DEF RluInv, TypeOK, Begin
<1>2. Head(todo[p]) \in RluCalls /\ Tail(todo[p]) \in Seq(RluCalls)
    BY <1>1
<1>3. PICK op \in RluCalls : op = Head(todo[p])
    BY <1>2
<1>4. ASSUME op.do = "section"
      PROVE  Stacks(<<Frame(op)>>) /\ Frame(op).pc = "reader_lock"
  <2>1. Frame(op) = SectionFrame(op)
      BY <1>4, Zenon DEF Frame
  <2>2. op.steps \in Seq(RluSteps) /\ op.tries \in Nat
      BY <1>4 DEF RluCalls
  <2>3. Frame(op) \in SectionFrames /\ Frame(op).pc = "reader_lock" /\ FrameOK(Frame(op))
      BY <1>4, <2>1, <2>2 DEF SectionFrame, SectionFrames, FrameOK, Outside, Reading, AtObject
  <2>4. Stacks(<<Frame(op)>>)
      BY <2>3 DEF Stacks
  <2> QED BY <2>3, <2>4
<1>5. ASSUME op.do = "finish"
      PROVE  Stacks(<<Frame(op)>>) /\ Frame(op).pc = "finish"
  <2>1. Frame(op) = FinishFrame(op)
      BY <1>5, Zenon DEF Frame
  <2>2. Frame(op) \in FinishFrames /\ Frame(op).pc = "finish"
      BY <2>1 DEF FinishFrame, FinishFrames
  <2> QED BY <2>2 DEF Stacks
<1>6. Stacks(<<Frame(op)>>) /\ Frame(op).pc \in {"reader_lock", "finish"}
    BY <1>4, <1>5 DEF RluCalls
<1>7. stack' = [stack EXCEPT ![p] = <<Frame(op)>>] /\ todo' = [todo EXCEPT ![p] = Tail(@)]
    BY <1>3 DEF Begin
<1>8. StacksOK' /\ Others(p) /\ stack'[p] = <<Frame(op)>>
    BY <1>1, <1>6, <1>7, NewStack DEF TypeOK
<1>9. Pc(p)' \in {"reader_lock", "finish"}
    BY <1>6, <1>8 DEF Pc, Top
<1>10. Calm(p)
  <2>1. todo' \in [Threads -> Seq(RluCalls)]
      BY <1>1, <1>2, <1>7 DEF TypeOK
  <2>2. Pc(p) \notin Writes /\ Pc(p)' \notin Writes
      BY <1>9 DEF Writes
  <2> QED BY <1>1, <1>8, <2>1, <2>2, StackStep DEF rlu
<1>11. Pc(p) \in Still /\ Pc(p)' \in Still \ {"free"} /\ Pc(p) \notin Syncing
    BY <1>9 DEF Still, Outside, Syncing, WritingBack, Announced, Waiting, Alone, Writes
<1> QED BY <1>10, <1>11, StillStep DEF rlu

LEMMA StillStack ==
    ASSUME RluInv, NEW p \in Threads, scheme' = scheme, todo' = todo,
           UNCHANGED <<version, copy_of, data, self, latest>>, StacksOK', Others(p),
           Pc(p) \in Still, Pc(p)' \in Still \ {"free"},
           Pc(p) \in Syncing /\ Pc(p)' \notin Syncing =>
              self[p].ws_tail < self[p].ws_wb + self[p].max_write_sets
    PROVE  RluInv'
<1>1. TypeOK /\ todo' \in [Threads -> Seq(RluCalls)]
    BY DEF RluInv, TypeOK
<1>2. Calm(p)
    BY <1>1, StackStep, StillLabels
<1> QED BY <1>2, StillStep

LEMMA OutsideLabels ==
    ASSUME NEW l \in Outside \cup {"finish"}
    PROVE  l \in Still \ {"free"} /\ l \notin Syncing
BY DEF Still, Outside, Syncing, WritingBack, Announced, Waiting, Alone, Writes

\* At an outside label p may go on, or into a write-back.
LEMMA CheckpointStep ==
    ASSUME RluInv, NEW p \in Threads, Pc(p) \in Outside, scheme' = scheme, UNCHANGED <<rlu, history>>,
           NEW g \in SectionFrames, FrameOK(g), g.pc \in Outside, Checkpoint(p, g)
    PROVE  RluInv'
<1>1. Below(g) /\ StacksOK
    BY DEF Below, RluInv, TypeOK
<1>2. Becomes(p, SyncFrame) \/ Becomes(p, g)
    BY <1>1, InvokeSync, PutSection DEF Checkpoint
<1>3. StacksOK' /\ Others(p) /\ Pc(p)' \in Still \ {"free"}
    BY <1>2, OutsideLabels DEF Becomes, SyncFrame, Still
<1> QED BY <1>3, OutsideLabels, StillStack DEF rlu, history

LEMMA AtIs ==
    ASSUME NEW p, NEW l, At(p, l)
    PROVE  Pc(p) = l
BY DEF At, Pc

LEMMA ReaderLockStep ==
    ASSUME RluInv, NEW p \in Threads, scheme' = scheme, readerLock(p) PROVE RluInv'
<1>1. Pc(p) = "reader_lock" /\ Pc(p) \in Outside /\ "register" \in Outside
    BY AtIs DEF readerLock, Outside
<1>2. Top(p) \in SectionFrames /\ FrameOK(Top(p))
    BY <1>1, SectionStack DEF RluInv, TypeOK
<1>3. PICK g : g = [Top(p) EXCEPT !.pc = "register"]
    OBVIOUS
<1>4. g \in SectionFrames /\ FrameOK(g) /\ g.pc \in Outside
    BY <1>1, <1>2, <1>3, OutsideFrame
<1> QED BY <1>1, <1>3, <1>4, CheckpointStep DEF readerLock

LEMMA EndOfSection ==
    ASSUME RluInv, NEW p \in Threads, scheme' = scheme, checkpoint(p) PROVE RluInv'
<1>1. Pc(p) = "checkpoint" /\ Pc(p) \in Outside /\ "end" \in Outside
    BY AtIs DEF checkpoint, Outside
<1>2. Top(p) \in SectionFrames /\ FrameOK(Top(p))
    BY <1>1, SectionStack DEF RluInv, TypeOK
<1>3. PICK g : g = [Top(p) EXCEPT !.pc = "end", !.got = {}, !.snap = Nothing]
    OBVIOUS
<1>4. g \in SectionFrames /\ FrameOK(g) /\ g.pc \in Outside
  <2>1. g \in SectionFrames /\ g.pc = "end" /\ g.op = Top(p).op
      BY <1>1, <1>2, <1>3, FrameEnd
  <2> QED BY <1>1, <1>2, <2>1 DEF FrameOK, Reading, AtObject
<1> QED BY <1>1, <1>3, <1>4, CheckpointStep DEF checkpoint

LEMMA ReleaseStep ==
    ASSUME RluInv, NEW p \in Threads, scheme' = scheme, releaseWriterLock(p) PROVE RluInv'
<1>1. Pc(p) = "release_writer_lock" /\ Pc(p) \in Outside /\ "checkpoint" \in Outside
    BY AtIs DEF releaseWriterLock, Outside
<1>2. Top(p) \in SectionFrames /\ FrameOK(Top(p)) /\ StacksOK
    BY <1>1, SectionStack DEF RluInv, TypeOK
<1>3. PICK g : g = [Top(p) EXCEPT !.pc = "checkpoint"]
    OBVIOUS
<1>4. g \in SectionFrames /\ FrameOK(g) /\ g.pc \in Outside
    BY <1>1, <1>2, <1>3, OutsideFrame
<1>5. Becomes(p, g)
    BY <1>1, <1>2, <1>3, <1>4, PutSection DEF releaseWriterLock, Go
<1>6. StacksOK' /\ Others(p) /\ Pc(p)' \in Still \ {"free"} /\ Pc(p) \in Still /\ Pc(p) \notin Syncing
    BY <1>1, <1>4, <1>5, OutsideLabels DEF Becomes
<1> QED BY <1>6, StillStack DEF releaseWriterLock, history

LEMMA EndStep ==
    ASSUME RluInv, NEW p \in Threads, scheme' = scheme, end(p) PROVE RluInv'
<1>1. Pc(p) = "end" /\ Pc(p) \in Outside
    BY AtIs DEF end, Outside
<1>2. Top(p) \in SectionFrames /\ FrameOK(Top(p)) /\ StacksOK /\ stack[p] = <<Top(p)>>
    BY <1>1, SectionStack DEF RluInv, TypeOK
<1>3. Pc(p) \in Still /\ Pc(p) \notin Syncing
    BY <1>1, OutsideLabels
<1>4. CASE Top(p).failed /\ Top(p).tries > 0
  <2>1. PICK g : g = [SectionFrame(Top(p).op) EXCEPT !.tries = Top(p).tries - 1]
      OBVIOUS
  <2>2. Top(p).op \in RluCalls /\ Top(p).tries \in Nat /\ Top(p).op.do = "section"
      BY <1>2, FrameTypes DEF FrameOK
  <2>3. Top(p).op.steps \in Seq(RluSteps) /\ Top(p).op.tries \in Nat
      BY <2>2 DEF RluCalls
  <2>4. SectionFrame(Top(p).op) \in SectionFrames
      BY <2>2, <2>3 DEF SectionFrame, SectionFrames, Outside
  <2>5. SectionFrame(Top(p).op).pc = "reader_lock" /\ SectionFrame(Top(p).op).op = Top(p).op
      BY DEF SectionFrame
  <2>6. g \in SectionFrames /\ g.pc = "reader_lock" /\ g.op = Top(p).op
      BY <1>4, <2>1, <2>2, <2>4, <2>5 DEF SectionFrames
  <2>7. FrameOK(g) /\ g.pc \in Outside
      BY <2>2, <2>6 DEF FrameOK, Reading, AtObject, Outside
  <2>8. Becomes(p, g)
      BY <1>1, <1>2, <1>4, <2>1, <2>6, <2>7, PutSection DEF end
  <2>9. StacksOK' /\ Others(p) /\ Pc(p)' \in Still \ {"free"}
      BY <2>7, <2>8, OutsideLabels DEF Becomes
  <2> QED BY <1>3, <1>4, <2>9, StillStack DEF end, history, rlu
<1>5. CASE ~(Top(p).failed /\ Top(p).tries > 0)
  <2>1. Answer(p, <<"done">>)
      BY <1>2, <1>5 DEF end, Return
  <2>2. stack' = [stack EXCEPT ![p] = << >>] /\ todo' = todo
      BY <2>1 DEF Answer
  <2>3. StacksOK' /\ Others(p) /\ stack'[p] = << >>
      BY <1>2, <2>2, NewStack DEF Stacks
  <2>4. Pc(p)' \in Still \ {"free"}
      BY <2>3 DEF Pc, Still
  <2> QED BY <1>3, <2>2, <2>3, <2>4, StillStack DEF end, rlu
<1> QED BY <1>4, <1>5

LEMMA FinishStep ==
    ASSUME RluInv, NEW p \in Threads, scheme' = scheme, finish(p) PROVE RluInv'
<1>1. Pc(p) = "finish"
    BY AtIs DEF finish
<1>2. Top(p) \in FinishFrames /\ StacksOK /\ stack[p] = <<Top(p)>>
    BY <1>1, FinishStack DEF RluInv, TypeOK
<1>3. Pc(p) \in Still /\ Pc(p) \notin Syncing
    BY <1>1, OutsideLabels
<1>4. CASE Top(p).left > 0 /\ Invoke(p, [Top(p) EXCEPT !.left = @ - 1], SyncFrame) /\ UNCHANGED history
  <2>1. PICK g : g = [Top(p) EXCEPT !.left = @ - 1]
      OBVIOUS
  <2>2. g \in FinishFrames
      BY <1>2, <1>4, <2>1 DEF FinishFrames
  <2>3. Becomes(p, SyncFrame)
      BY <1>1, <1>2, <1>4, <2>1, <2>2, InvokeSync DEF Below
  <2>4. StacksOK' /\ Others(p) /\ Pc(p)' \in Still \ {"free"}
      BY <2>3 DEF Becomes, SyncFrame, Still
  <2> QED BY <1>3, <1>4, <2>4, StillStack DEF finish, history, rlu
<1>5. CASE Top(p).left = 0 /\ Return(p, <<"done">>)
  <2>1. Answer(p, <<"done">>)
      BY <1>2, <1>5 DEF Return
  <2>2. stack' = [stack EXCEPT ![p] = << >>] /\ todo' = todo
      BY <2>1 DEF Answer
  <2>3. StacksOK' /\ Others(p) /\ stack'[p] = << >>
      BY <1>2, <2>2, NewStack DEF Stacks
  <2>4. Pc(p)' \in Still \ {"free"}
      BY <2>3 DEF Pc, Still
  <2> QED BY <1>3, <2>2, <2>3, <2>4, StillStack DEF finish, rlu
<1> QED BY <1>4, <1>5 DEF finish

-----------------------------------------------------------------------------
(***************************************************************************)
(* Write-backs, up to the end of the waiting.                              *)
(***************************************************************************)
LEMMA SelfStep ==
    ASSUME TypeOK, NEW p \in Threads, NEW t \in ThreadData, self' = [self EXCEPT ![p] = t]
    PROVE  /\ self' \in [Threads -> ThreadData] /\ self'[p] = t
           /\ \A q \in Threads \ {p} : self'[q] = self[q] /\ SameCore(q) /\ SameReader(q)
<1>1. self' \in [Threads -> ThreadData] /\ self'[p] = t /\ \A q \in Threads \ {p} : self'[q] = self[q]
    BY DEF TypeOK
<1> QED BY <1>1 DEF SameCore, SameReader, SameSets, Num, Buf

LEMMA SyncLabels ==
    ASSUME NEW l \in Syncing
    PROVE  /\ l \notin InSection /\ l \notin Reading /\ l \notin {"idle", "finish"} /\ l \notin Outside
           /\ l \notin {"steal", "load", "change", "lock", "local_version", "commit_version", "writer_lock"}
BY DEF Syncing, Outside, InSection, Reading, WritingBack, Announced, Writes, Alone, Waiting

LEMMA WritingLabels ==
    /\ WritingBack \subseteq Syncing
    /\ HasVersion \subseteq WritingBack /\ Announced \subseteq WritingBack
    /\ Waiting \subseteq Announced /\ Alone \subseteq Announced /\ Writes \subseteq Alone
    /\ Waiting \subseteq HasVersion /\ Alone \subseteq HasVersion
    /\ {"writer_version", "announce", "commit"} \subseteq WritingBack
    /\ {"sync", "free"} \subseteq Syncing \ WritingBack
BY DEF Syncing, WritingBack, HasVersion, Announced, Writes, Alone, Waiting

LEMMA SyncThread ==
    ASSUME NEW p, Pc(p)' \in Syncing, Local(p)', WrittenBack(p)', Waits(p)'
    PROVE  OfThread(p)'
BY SyncLabels DEF OfThread, SnapIsSeen, NoStealing, Steals, Loads, Changes

LEMMA SyncFlags ==
    ASSUME TypeOK, NEW p \in Threads, Flags(p), Pc(p) \in Syncing, Pc(p)' \in Syncing,
           self'[p].run_counter = self[p].run_counter
    PROVE  Flags(p)' /\ ~Running(p) /\ ~Running(p)'
<1>1. ~Running(p)
    BY SyncLabels DEF Flags
<1>2. ~Running(p)'
    BY <1>1 DEF Running
<1> QED BY <1>1, <1>2, SyncLabels DEF Flags

LEMMA ProcessFreeStep ==
    ASSUME RluInv, NEW p \in Threads, scheme' = scheme, processFree(p) PROVE RluInv'
<1>1. Pc(p) = "free" /\ Pc(p) \in Syncing /\ Pc(p) \in Still
    BY AtIs DEF processFree, Syncing, Still
<1>2. TypeOK /\ Local(p)
    BY DEF RluInv, OfThread
<1>3. PICK t : t = [self[p] EXCEPT !.free_nodes = {}]
    OBVIOUS
<1>4. t \in ThreadData /\ self[p] \in ThreadData /\ self' = [self EXCEPT ![p] = t]
    BY <1>2, <1>3, ThreadType DEF processFree, ThreadData
<1>5. self' \in [Threads -> ThreadData] /\ \A q \in Threads : SameCore(q) /\ SameReader(q)
  <2>1. self'[p] = t
      BY <1>2, <1>4, SelfStep
  <2>2. SameCore(p) /\ SameReader(p)
      BY <1>3, <1>4, <2>1 DEF SameCore, SameReader, SameSets, Num, Buf, ThreadData
  <2> QED BY <1>2, <1>4, <2>2, SelfStep
<1>6. StacksOK' /\ Others(p) /\ Pc(p)' \in Outside \cup {"finish"}
    BY <1>1, <1>2, PopSync DEF TypeOK, processFree
<1>7. Pc(p)' \in Still \ {"free"}
    BY <1>6, OutsideLabels
<1>8. Calm(p)
  <2>1. Pos(p)' = Pos(p)
      BY <1>1, <1>7, StillLabels, NoPosition
  <2>2. TypeOK'
      BY <1>2, <1>5, <1>6 DEF TypeOK, processFree, history
  <2> QED BY <1>5, <1>6, <2>1, <2>2 DEF Calm, OthersSame, processFree
<1>9. self[p].ws_tail < self[p].ws_wb + self[p].max_write_sets
    BY <1>1, <1>2, ThreadType DEF Local, Position, Sets, Counts
<1> QED BY <1>1, <1>7, <1>8, <1>9, StillStep DEF processFree

LEMMA SyncStep ==
    ASSUME RluInv, OneWritesBack', NEW p \in Threads, scheme' = scheme, sync(p) PROVE RluInv'
<1>1. Pc(p) = "sync" /\ Pc(p) \in Syncing /\ Pc(p) \in Still
    BY AtIs DEF sync, Syncing, Still
<1>2. TypeOK /\ Local(p) /\ StacksOK /\ Versions
    BY DEF RluInv, OfThread, TypeOK
<1>3. CASE self[p].ws_tail = self[p].ws_head
  <2>1. StacksOK' /\ Others(p) /\ Pc(p)' \in Outside \cup {"finish"}
      BY <1>1, <1>2, <1>3, PopSync DEF sync
  <2>2. Pc(p)' \in Still \ {"free"}
      BY <2>1, OutsideLabels
  <2>3. self[p].ws_tail < self[p].ws_wb + self[p].max_write_sets
      BY <1>2, <1>3, ThreadType DEF Local, Sets, Counts
  <2> QED BY <1>1, <2>1, <2>2, <2>3, StillStack DEF sync, rlu, history
<1>4. CASE self[p].ws_tail # self[p].ws_head
  <2>1. PICK g : g = [Top(p) EXCEPT !.version = version.writer + 1, !.pc = "writer_version"]
      OBVIOUS
  <2>2. Top(p) \in SyncFrames /\ version.writer \in Nat
      BY <1>1, <1>2, SyncStack DEF TypeOK
  <2>3. g \in SyncFrames /\ g.version = version.writer + 1 /\ g.pc = "writer_version"
    <3>1. "writer_version" \in Syncing /\ version.writer + 1 \in Nat
        BY <2>2, WritingLabels
    <3> QED BY <2>1, <2>2, <3>1 DEF SyncFrames
  <2>4. Becomes(p, g)
    <3>1. Fresh(g)
        BY <1>1, <1>2, <2>1, <2>2, <2>3, SyncStack DEF Fresh, SyncFrames
    <3> QED BY <1>1, <1>2, <1>4, <2>1, <2>3, <3>1, PutSync DEF sync
  <2>5. /\ Pc(p)' = "writer_version" /\ Pc(p)' \notin Writes /\ Pc(p) \notin Writes
        /\ Pc(p)' \in Syncing /\ Pc(p)' \notin HasVersion /\ Pc(p)' \notin Announced
      BY <1>1, <2>3, <2>4
      DEF Becomes, Writes, Syncing, WritingBack, HasVersion, Announced, Waiting, Alone
  <2>6. Calm(p) /\ SameReader(p)
      BY <1>2, <2>4, <2>5, StackStep DEF sync, rlu, history, Becomes, TypeOK
  <2>7. Pc(p)' \in WritingBack
      BY <2>5, WritingLabels
  <2>8. ASSUME NEW q \in Threads PROVE Pc(q) \notin WritingBack
    <3>1. CASE q = p
        BY <1>1, <3>1, WritingLabels
    <3>2. CASE q # p
        BY <2>4, <2>7, <3>2 DEF OneWritesBack, Becomes, Others
    <3> QED BY <3>1, <3>2
  <2>9. version.commit = version.writer /\ version' = version
      BY <1>2, <2>8 DEF Versions, sync, rlu
  <2>10. OfThread(p)'
    <3>1. Flags(p)'
        BY <1>1, <1>2, <2>5, <2>6, SyncFlags DEF Local, Calm, SameCore
    <3>2. Sets(p)'
        BY <1>2, <2>6, SetsSame DEF Calm, Local
    <3>3. Position(p)' /\ WrittenBack(p)' /\ Waits(p)'
        BY <2>5 DEF Position, WrittenBack, Waits, Alone
    <3> QED BY <2>5, <3>1, <3>2, <3>3, SyncThread DEF Local
  <2>11. VersionOf(p)'
    <3>1. self'[p].writer_version = MAX_VERSION
        BY <1>1, <1>2, StillLabels DEF Versions, VersionOf, sync, rlu
    <3> QED BY <2>3, <2>4, <2>5, <2>9, <3>1, SyncLabels DEF VersionOf, Becomes
  <2>12. Versions'
    <3>1. ASSUME NEW q \in Threads \ {p} PROVE VersionOf(q)'
        BY <1>2, <2>6, <2>9, OthersVersion, ThreadType DEF Versions, Calm, TypeOK
    <3> QED BY <2>7, <2>11, <3>1 DEF Versions
  <2> QED BY <2>5, <2>6, <2>9, <2>10, <2>12, CalmStep, SyncLabels
<1> QED BY <1>3, <1>4

\* Steps of the waiting.
LEMMA WaitingStep ==
    ASSUME RluInv, NEW p \in Threads, Calm(p), version' = version, self' = self,
           Pc(p) \in Waiting, Pc(p)' \in Waiting \cup {"reset"},
           Top(p)'.version = Top(p).version, Waits(p)'
    PROVE  RluInv'
<1>1. TypeOK /\ TypeOK' /\ OthersSame(p) /\ SameCore(p) /\ Local(p) /\ Versions
    BY DEF RluInv, Calm, OfThread
<1>2. /\ Pc(p)' \in Syncing /\ Pc(p) \in Syncing /\ Pc(p)' \notin Writes
      /\ Pc(p)' \notin {"commit", "free", "unlock", "written_back", "writer_version", "announce"}
      /\ Pc(p) \in HasVersion /\ Pc(p)' \in HasVersion
      /\ Pc(p) \in Announced /\ Pc(p)' \in Announced
      /\ Pc(p) \in WritingBack /\ Pc(p)' \in WritingBack
    BY DEF Waiting, Syncing, WritingBack, Announced, HasVersion, Alone, Writes
<1>3. Flags(p)' /\ Sets(p)'
    BY <1>1, <1>2, SyncFlags, SetsSame DEF Local, SameCore
<1>4. Position(p)' /\ WrittenBack(p)'
    BY <1>2 DEF Position, WrittenBack
<1>5. OfThread(p)'
    BY <1>2, <1>3, <1>4, SyncThread DEF Local
<1>6. VersionOf(p)'
    BY <1>1, <1>2, SyncLabels DEF Versions, VersionOf
<1>7. Versions'
    BY <1>1, <1>2, <1>6, CalmVersions
<1> QED BY <1>2, <1>5, <1>7, CalmStep, SyncLabels

LEMMA WaitingNext ==
    ASSUME NEW f \in SyncFrames, NEW n \in Nat
    PROVE  LET g == [f EXCEPT !.who = n] IN
           /\ g \in SyncFrames /\ g.pc = f.pc /\ g.who = n /\ g.waits = f.waits
           /\ g.version = f.version
BY DEF SyncFrames

LEMMA SyncGo ==
    ASSUME NEW f \in SyncFrames, NEW l \in Syncing
    PROVE  LET g == [f EXCEPT !.pc = l] IN
           /\ g \in SyncFrames /\ g.pc = l /\ g.version = f.version /\ g.ws = f.ws /\ g.i = f.i
BY DEF SyncFrames

LEMMA SyncTypes ==
    ASSUME NEW f \in SyncFrames
    PROVE  /\ f.pc \in Syncing /\ f.version \in Nat /\ f.who \in Nat /\ f.waits \in Seq(Nat)
           /\ f.ws \in Nat /\ f.i \in Nat
BY DEF SyncFrames

LEMMA ThreadNumbers ==
    /\ Threads \subseteq Nat /\ \A p \in Threads : p >= 1
    /\ \A n \in Nat : n \notin Threads /\ n >= 1 => \A p \in Threads : p < n
<1>1. PICK m \in Nat : Threads = 1 .. m
    BY RluAssumption
<1> QED BY <1>1

\* Who is slow does not change while p waits.
LEMMA SlowSame ==
    ASSUME NEW p \in Threads, Others(p), self' = self, Pc(p) \in Syncing, Pc(p)' \in Syncing,
           Top(p)'.version = Top(p).version, NEW r \in Threads
    PROVE  /\ Slow(p, r)' <=> Slow(p, r)
           /\ Slow(p, r) => r # p
BY SyncLabels DEF Slow, Others

LEMMA InitQuiescenceStep ==
    ASSUME RluInv, NEW p \in Threads, scheme' = scheme, initQuiescence(p) PROVE RluInv'
<1>1. /\ Pc(p) = "init_quiescence" /\ Pc(p) \in Syncing /\ Pc(p) \in Waiting
      /\ "wait" \in Syncing /\ "wait" \in Waiting
    BY AtIs DEF initQuiescence, Syncing, WritingBack, Announced, Waiting
<1>2. TypeOK /\ StacksOK /\ Waits(p)
    BY DEF RluInv, TypeOK, OfThread
<1>3. PICK me, t : me = Top(p) /\ t = me.who
    OBVIOUS
<1>4. me \in SyncFrames /\ me.pc = Pc(p) /\ t \in Nat /\ me.waits \in Seq(Nat)
    BY <1>1, <1>2, <1>3, SyncStack, SyncTypes
<1>5. /\ t >= 1 /\ Len(me.waits) = t - 1
      /\ \A r \in Threads : Slow(p, r) /\ r < t => me.waits[r] = self[r].run_counter
    BY <1>1, <1>2, <1>3 DEF Waits
<1>6. CASE t \in Threads
  <2>1. PICK x : x = IF t # p /\ Running(t) THEN self[t].run_counter ELSE 0
      OBVIOUS
  <2>2. x \in Nat /\ Append(me.waits, x) \in Seq(Nat)
      BY <1>2, <1>4, <1>6, <2>1, ThreadType
  <2>3. PICK g : g = [me EXCEPT !.who = t + 1, !.waits = Append(me.waits, x)]
      OBVIOUS
  <2>4. Put(p, g)
      BY <1>3, <1>6, <2>1, <2>3 DEF initQuiescence
  <2>5. /\ g \in SyncFrames /\ g.pc = me.pc /\ g.who = t + 1 /\ g.version = me.version
        /\ g.waits = Append(me.waits, x)
    <3>1. PICK n, w : n = t + 1 /\ w = Append(me.waits, x)
        OBVIOUS
    <3>2. n \in Nat /\ w \in Seq(Nat)
        BY <1>4, <2>2, <3>1
    <3>3. g = [me EXCEPT !.who = n, !.waits = w]
        BY <2>3, <3>1
    <3> QED BY <1>4, <3>1, <3>2, <3>3 DEF SyncFrames
  <2>6. Becomes(p, g)
      BY <1>1, <1>2, <1>4, <2>4, <2>5, PutSync DEF Fresh
  <2>7. Pc(p)' = Pc(p) /\ Top(p)' = g
      BY <1>4, <2>5, <2>6 DEF Becomes
  <2>8. Calm(p)
      BY <1>1, <1>2, <2>6, <2>7, StackStep DEF initQuiescence, rlu, history, Becomes, TypeOK, Waiting, Writes
  <2>9. ASSUME NEW r \in Threads, Slow(p, r)', r < t + 1
        PROVE  g.waits[r] = self[r].run_counter
    <3>1. Slow(p, r) /\ r # p
        BY <1>1, <1>3, <2>5, <2>6, <2>7, <2>9, SlowSame DEF Becomes, initQuiescence, rlu
    <3>2. CASE r < t
      <4>1. r \in 1 .. Len(me.waits)
          BY <1>4, <1>5, <3>2, ThreadNumbers
      <4> QED BY <1>4, <1>5, <2>2, <2>5, <3>1, <3>2, <4>1
    <3>3. CASE r = t
      <4>1. Running(t)
          BY <3>1, <3>3 DEF Slow, RluInv, OfThread, Local, Flags, InSection
      <4> QED BY <1>4, <1>5, <2>1, <2>2, <2>5, <3>1, <3>3, <4>1
    <3> QED BY <1>4, <2>9, <3>2, <3>3, ThreadNumbers
  <2>10. Waits(p)'
    <3>1. Len(g.waits) = g.who - 1 /\ g.who >= 1
        BY <1>4, <1>5, <2>2, <2>5
    <3>2. self' = self
        BY DEF initQuiescence, rlu
    <3> QED BY <1>1, <2>5, <2>7, <2>9, <3>1, <3>2 DEF Waits, Alone, Writes
  <2> QED BY <1>1, <1>3, <2>5, <2>7, <2>8, <2>10, WaitingStep DEF initQuiescence, rlu
<1>7. CASE t \notin Threads
  <2>1. PICK g : g = [me EXCEPT !.who = 1, !.pc = "wait"]
      OBVIOUS
  <2>2. Put(p, g)
      BY <1>3, <1>7, <2>1 DEF initQuiescence
  <2>3. /\ g \in SyncFrames /\ g.pc = "wait" /\ g.who = 1 /\ g.version = me.version
        /\ g.waits = me.waits
    <3>1. PICK n \in Nat, l \in Syncing : n = 1 /\ l = "wait"
        BY <1>1
    <3> QED BY <1>4, <2>1, <3>1 DEF SyncFrames
  <2>4. Becomes(p, g)
      BY <1>1, <1>2, <2>2, <2>3, PutSync DEF Fresh
  <2>5. Pc(p)' = "wait" /\ Top(p)' = g
      BY <2>3, <2>4 DEF Becomes
  <2>6. Calm(p)
      BY <1>1, <1>2, <2>4, <2>5, StackStep DEF initQuiescence, rlu, history, Becomes, TypeOK, Waiting, Writes
  <2>7. Waits(p)'
    <3>1. self' = self
        BY DEF initQuiescence, rlu
    <3>2. ASSUME NEW r \in Threads, Slow(p, r)' PROVE r >= g.who /\ g.waits[r] = self[r].run_counter
      <4>1. Slow(p, r) /\ r < t /\ r >= 1
          BY <1>1, <1>3, <1>4, <1>5, <1>7, <2>3, <2>4, <2>5, <3>1, <3>2, SlowSame, ThreadNumbers DEF Becomes
      <4> QED BY <1>5, <2>3, <4>1
    <3> QED BY <2>3, <2>5, <3>1, <3>2 DEF Waits, Alone, Writes
  <2> QED BY <1>1, <1>3, <2>3, <2>5, <2>6, <2>7, WaitingStep DEF initQuiescence, rlu
<1> QED BY <1>6, <1>7

LEMMA WaitStep ==
    ASSUME RluInv, NEW p \in Threads, scheme' = scheme, waitForQuiescence(p) PROVE RluInv'
<1>1. /\ Pc(p) = "wait" /\ Pc(p) \in Syncing /\ Pc(p) \in Waiting
      /\ "reset" \in Syncing /\ "reset" \notin Writes
    BY AtIs DEF waitForQuiescence, Syncing, WritingBack, Announced, Waiting, Alone, Writes
<1>2. TypeOK /\ StacksOK /\ Waits(p) /\ self' = self
    BY DEF RluInv, TypeOK, OfThread, waitForQuiescence, rlu
<1>3. PICK me, t : me = Top(p) /\ t = me.who
    OBVIOUS
<1>4. me \in SyncFrames /\ me.pc = Pc(p) /\ t \in Nat /\ me.waits \in Seq(Nat)
    BY <1>1, <1>2, <1>3, SyncStack, SyncTypes
<1>5. /\ t >= 1
      /\ \A r \in Threads : Slow(p, r) => r >= t /\ me.waits[r] = self[r].run_counter
    BY <1>1, <1>2, <1>3 DEF Waits
<1>6. CASE /\ t \in Threads
           /\ \/ me.waits[t] \in {0} \cup (Nat \ {self[t].run_counter})
              \/ self[t].local_version >= me.version
           /\ Put(p, [me EXCEPT !.who = t + 1])
  <2>1. PICK g : g = [me EXCEPT !.who = t + 1]
      OBVIOUS
  <2>2. /\ g \in SyncFrames /\ g.pc = me.pc /\ g.who = t + 1 /\ g.version = me.version
        /\ g.waits = me.waits
    <3>1. PICK n \in Nat : n = t + 1
        BY <1>4
    <3> QED BY <1>4, <2>1, <3>1, WaitingNext
  <2>3. Becomes(p, g)
      BY <1>1, <1>2, <1>4, <1>6, <2>1, <2>2, PutSync DEF Fresh
  <2>4. Pc(p)' = Pc(p) /\ Top(p)' = g
      BY <1>4, <2>2, <2>3 DEF Becomes
  <2>5. Calm(p)
      BY <1>1, <1>2, <2>3, <2>4, StackStep DEF waitForQuiescence, rlu, history, Becomes, TypeOK, Waiting, Writes
  <2>6. ASSUME NEW r \in Threads, Slow(p, r)' PROVE r >= g.who /\ g.waits[r] = self[r].run_counter
    <3>1. Slow(p, r) /\ r >= t /\ me.waits[r] = self[r].run_counter
        BY <1>1, <1>2, <1>3, <1>5, <2>2, <2>3, <2>4, <2>6, SlowSame DEF Becomes
    <3>2. r # t
      <4>1. Running(r) /\ self[r].run_counter \in Nat /\ self[r].local_version \in Nat
          BY <1>2, <3>1, ThreadType DEF Slow, RluInv, OfThread, Local, Flags, InSection
      <4>2. self[r].run_counter # 0
          BY <4>1 DEF Running
      <4>3. me.version \in Nat /\ self[r].local_version < me.version
          BY <1>3, <1>4, <3>1, SyncTypes DEF Slow
      <4> QED BY <1>6, <3>1, <4>1, <4>2, <4>3
    <3> QED BY <1>4, <2>2, <3>1, <3>2, ThreadNumbers
  <2>7. Waits(p)'
      BY <1>1, <1>2, <1>4, <2>2, <2>4, <2>6 DEF Waits, Alone, Writes
  <2> QED BY <1>1, <1>2, <1>3, <2>2, <2>4, <2>5, <2>7, WaitingStep DEF waitForQuiescence, rlu
<1>7. CASE t \notin Threads /\ Go(p, "reset")
  <2>1. PICK g : g = [me EXCEPT !.pc = "reset"]
      OBVIOUS
  <2>2. g \in SyncFrames /\ g.pc = "reset" /\ g.version = me.version
      BY <1>1, <1>4, <2>1, SyncGo
  <2>3. Becomes(p, g)
      BY <1>1, <1>2, <1>3, <1>7, <2>1, <2>2, PutSync DEF Go, Fresh
  <2>4. Pc(p)' = "reset" /\ Top(p)' = g
      BY <2>2, <2>3 DEF Becomes
  <2>5. Calm(p)
      BY <1>1, <1>2, <2>3, <2>4, StackStep DEF waitForQuiescence, rlu, history, Becomes, TypeOK, Waiting, Writes
  <2>6. ASSUME NEW r \in Threads PROVE ~Slow(p, r)'
      BY <1>1, <1>2, <1>3, <1>4, <1>5, <1>7, <2>2, <2>3, <2>4, SlowSame, ThreadNumbers DEF Becomes
  <2>7. Waits(p)'
      BY <2>4, <2>6 DEF Waits
  <2> QED BY <1>1, <1>2, <1>3, <2>2, <2>4, <2>5, <2>7, WaitingStep DEF waitForQuiescence, rlu
<1> QED BY <1>3, <1>6, <1>7 DEF waitForQuiescence

-----------------------------------------------------------------------------
(***************************************************************************)
(* Sections: steps that read.                                              *)
(***************************************************************************)
LEMMA CalmSeen ==
    ASSUME TypeOK, NEW p \in Threads, Calm(p), NEW r, NEW v, NEW o \in Objects
    PROVE  Seen(r, v, o)' = Seen(r, v, o)
<1>1. copy_of' = copy_of /\ data' = data /\ \A q \in Threads : SameCore(q)
    BY DEF Calm, OthersSame
<1>2. copy_of[o] # Nothing =>
         /\ CopyVal(copy_of[o])' = CopyVal(copy_of[o])
         /\ self'[copy_of[o][1]].writer_version = self[copy_of[o][1]].writer_version
    BY <1>1, CopyOfAddr, CopyValSame DEF SameCore
<1> QED BY <1>1, <1>2 DEF Seen

LEMMA ReadingLabels ==
    ASSUME NEW l \in InSection
    PROVE  /\ l \notin Syncing /\ l \notin WritingBack /\ l \notin HasVersion /\ l \notin Announced
           /\ l \notin Writes /\ l \notin Alone /\ l \notin Waiting
           /\ l \notin {"commit", "free", "unlock", "written_back", "writer_version", "announce",
                        "init_quiescence", "wait"}
BY DEF Syncing, InSection, Reading, WritingBack, HasVersion, Announced, Writes, Alone, Waiting

\* What a step within a section has to show.
LEMMA SectionStep ==
    ASSUME RluInv, NEW p \in Threads, Calm(p), version' = version,
           Pc(p) \in InSection, Pc(p)' \in Reading,
           \/ Pc(p) \in Reading /\ self'[p].local_version = self[p].local_version
           \/ self'[p].local_version = version.writer,
           Flags(p)', SnapIsSeen(p)', NoStealing(p)', Steals(p)', Loads(p)', Changes(p)'
    PROVE  RluInv'
<1>1. TypeOK /\ TypeOK' /\ OthersSame(p) /\ SameCore(p) /\ Local(p) /\ Versions
    BY DEF RluInv, Calm, OfThread
<1>2. Pc(p)' \in InSection
    BY DEF InSection
<1>3. Sets(p)'
    BY <1>1, SetsSame DEF Local
<1>4. Position(p)'
  <2>1. self[p].ws_tail < self[p].ws_wb + self[p].max_write_sets
      BY <1>1, ReadingLabels DEF Local, Position
  <2>2. /\ self'[p].ws_tail = self[p].ws_tail /\ self'[p].ws_wb = self[p].ws_wb
        /\ self'[p].max_write_sets = self[p].max_write_sets
      BY <1>1 DEF SameCore
  <2> QED BY <1>2, <2>1, <2>2, ReadingLabels DEF Position
<1>5. OfThread(p)'
    BY <1>2, <1>3, <1>4, ReadingLabels DEF OfThread, Local, WrittenBack, Waits
<1>6. VersionOf(p)'
  <2>1. self'[p].writer_version = MAX_VERSION
      BY <1>1, ReadingLabels DEF Versions, VersionOf, SameCore
  <2>2. self'[p].local_version <= version.writer
      BY <1>1 DEF Versions, VersionOf, TypeOK
  <2> QED BY <1>2, <2>1, <2>2, ReadingLabels DEF VersionOf
<1>7. Versions'
    BY <1>1, <1>2, <1>6, ReadingLabels, CalmVersions
<1> QED BY <1>1, <1>5, <1>7, CalmStep

\* Most steps of a section change no more than its frame.
LEMMA ReadOn ==
    ASSUME RluInv, NEW p \in Threads, Calm(p), version' = version, SameReader(p),
           Pc(p) \in Reading \ {"commit_version"},
           Pc(p)' \in Reading \ {"commit_version", "writer_lock", "lock"},
           Pc(p)' = "change" => self[p].is_write_detected,
           Top(p)'.snap = Top(p).snap, Steals(p)', Loads(p)', Changes(p)'
    PROVE  RluInv'
<1>1. TypeOK /\ OthersSame(p) /\ SameCore(p) /\ Local(p) /\ SnapIsSeen(p) /\ NoStealing(p)
    BY DEF RluInv, Calm, OfThread
<1>2. Pc(p) \in InSection /\ Pc(p)' \in InSection /\ Pc(p)' # "local_version"
    BY DEF InSection, Reading
<1>3. Flags(p)'
  <2>1. Num(p, Cur(p))' = Num(p, Cur(p)) /\ (Running(p)' <=> Running(p))
      BY <1>1, SetsSame DEF Local
  <2>2. self'[p].ws_tail = self[p].ws_tail /\ self'[p].ws_wb = self[p].ws_wb
      BY <1>1 DEF SameCore
  <2> QED BY <1>1, <1>2, <2>1, <2>2 DEF Local, Flags, SameReader
<1>4. SnapIsSeen(p)'
    BY <1>1, CalmSeen DEF SnapIsSeen, SameReader
<1>5. NoStealing(p)'
  <2> SUFFICES ASSUME ~self[p].is_steal, NEW q \in Threads \ {p}
               PROVE  self'[q].writer_version > self[p].local_version
      BY DEF NoStealing, SameReader
  <2> QED BY <1>1 DEF NoStealing, OthersSame, SameCore
<1> QED BY <1>2, <1>3, <1>4, <1>5, SectionStep DEF SameReader

\* The frame of a section as it goes on.
LEMMA SectionPut ==
    ASSUME RluInv, NEW p \in Threads, Pc(p) \in InSection, scheme' = scheme, todo' = todo,
           self' \in [Threads -> ThreadData], \A q \in Threads : SameCore(q),
           \A q \in Threads \ {p} : SameReader(q),
           UNCHANGED <<version, copy_of, data, latest>>,
           NEW g \in SectionFrames, FrameOK(g), g.pc \in Reading, Put(p, g)
    PROVE  Calm(p) /\ Pc(p)' = g.pc /\ Top(p)' = g
<1>1. TypeOK /\ StacksOK
    BY DEF RluInv, TypeOK
<1>2. Becomes(p, g)
    BY <1>1, PutSection
<1>3. TypeOK'
    BY <1>1, <1>2 DEF TypeOK, Becomes
<1>4. Pos(p)' = Pos(p)
  <2>1. Pc(p)' \in InSection
      BY <1>2 DEF Becomes, InSection
  <2> QED BY <2>1, ReadingLabels, NoPosition
<1> QED BY <1>2, <1>3, <1>4 DEF Calm, OthersSame, Becomes

LEMMA SelfSame ==
    ASSUME TypeOK, self' = self
    PROVE  self' \in [Threads -> ThreadData] /\ \A q \in Threads : SameCore(q) /\ SameReader(q)
BY DEF TypeOK, SameCore, SameReader, SameSets, Num, Buf

\* g is the frame f of a section, at another label.
Relabelled(f, g) ==
    /\ g \in SectionFrames /\ g.op = f.op /\ g.steps = f.steps /\ g.at = f.at
    /\ g.snap = f.snap

LEMMA SectionGo ==
    ASSUME NEW f \in SectionFrames, NEW g, Relabelled(f, g), FrameOK(f),
           f.pc \in Reading, g.pc \in Reading \ {"steal"},
           g.pc \in AtObject => f.pc \in AtObject,
           g.pc \in {"deref", "load"} => f.pc \in {"deref", "steal", "load"},
           g.pc \in {"try_lock", "lock", "change"} => f.pc \in {"try_lock", "lock", "change"}
    PROVE  FrameOK(g)
BY DEF FrameOK, Relabelled

LEMMA TryWriterLockStep ==
    ASSUME RluInv, NEW p \in Threads, scheme' = scheme, tryWriterLock(p) PROVE RluInv'
<1>1. Pc(p) = "writer_lock" /\ Pc(p) \in Reading /\ Pc(p) \in InSection
    BY AtIs DEF tryWriterLock, Reading, InSection
<1>2. TypeOK /\ Top(p) \in SectionFrames /\ FrameOK(Top(p)) /\ Top(p).pc = Pc(p)
    BY <1>1, SectionStack DEF RluInv, TypeOK
<1>3. PICK g : g = IF writer_lock = Nothing THEN [Top(p) EXCEPT !.pc = "section"]
                   ELSE [Top(p) EXCEPT !.failed = TRUE, !.pc = "abort"]
    OBVIOUS
<1>4. Put(p, g)
    BY <1>3, Zenon DEF tryWriterLock, Go
<1>5. g \in SectionFrames /\ FrameOK(g) /\ g.pc \in {"section", "abort"} /\ g.snap = Top(p).snap
  <2>1. Relabelled(Top(p), g) /\ g.pc \in {"section", "abort"}
    <3>1. CASE writer_lock = Nothing
        BY <1>2, <1>3, <3>1 DEF SectionFrames, Relabelled, InSection, Reading
    <3>2. CASE writer_lock # Nothing
        BY <1>2, <1>3, <3>2 DEF SectionFrames, Relabelled, InSection, Reading
    <3> QED BY <3>1, <3>2
  <2>2. g.pc \in Reading /\ g.pc \notin AtObject
      BY <2>1 DEF Reading, AtObject
  <2> QED BY <1>1, <1>2, <2>1, <2>2, SectionGo DEF AtObject, Relabelled
<1>7. Cur(p) \in Slots /\ self[p] \in ThreadData
    BY <1>2, ThreadType, WsSlots DEF Cur
<1>8. self' \in [Threads -> ThreadData] /\ \A q \in Threads : SameCore(q) /\ SameReader(q)
  <2>1. CASE writer_lock = Nothing
    <3>1. PICK w \in Slots : w = Cur(p)
        BY <1>7
    <3>2. PICK t : t = [self[p] EXCEPT !.sets[w].writer_locks = {"general"}]
        OBVIOUS
    <3>3. self' = [self EXCEPT ![p] = t]
        BY <2>1, <3>1, <3>2 DEF tryWriterLock
    <3>4. t \in ThreadData
        BY <1>7, <3>2 DEF ThreadData, WriteSets
    <3>5. self' \in [Threads -> ThreadData] /\ self'[p] = t
          /\ \A q \in Threads \ {p} : SameCore(q) /\ SameReader(q)
        BY <1>2, <3>3, <3>4, SelfStep
    <3>6. \A v \in Slots : /\ t.sets[v].num_of_objs = self[p].sets[v].num_of_objs
                            /\ t.sets[v].buffer = self[p].sets[v].buffer
        BY <1>7, <3>2 DEF ThreadData, WriteSets
    <3>7. SameSets(p)
        BY <3>5, <3>6 DEF SameSets, Num, Buf
    <3>8. SameCore(p) /\ SameReader(p)
        BY <1>7, <3>2, <3>5, <3>7 DEF SameCore, SameReader, ThreadData
    <3> QED BY <3>5, <3>8
  <2>2. CASE writer_lock # Nothing
      BY <1>2, <2>2, SelfSame DEF tryWriterLock
  <2> QED BY <2>1, <2>2
<1>9. Calm(p) /\ Pc(p)' = g.pc /\ Top(p)' = g
    BY <1>1, <1>4, <1>5, <1>8, SectionPut DEF tryWriterLock, history, Reading
<1>10. Steals(p)' /\ Loads(p)' /\ Changes(p)'
    BY <1>5, <1>9 DEF Steals, Loads, Changes
<1> QED BY <1>1, <1>5, <1>8, <1>9, <1>10, ReadOn DEF tryWriterLock, Reading

LEMMA InSectionStep ==
    ASSUME RluInv, NEW p \in Threads, scheme' = scheme, section(p) PROVE RluInv'
<1>1. Pc(p) = "section" /\ Pc(p) \in Reading /\ Pc(p) \in InSection
    BY AtIs DEF section, Reading, InSection
<1>2. TypeOK /\ Top(p) \in SectionFrames /\ FrameOK(Top(p)) /\ Top(p).pc = Pc(p)
    BY <1>1, SectionStack DEF RluInv, TypeOK
<1>3. PICK me, s : me = Top(p) /\ s = Head(me.steps)
    OBVIOUS
<1>4. me \in SectionFrames /\ FrameOK(me) /\ me.pc = "section" /\ me.steps \in Seq(RluSteps)
      /\ me.snap \in States /\ me.op.do = "section"
    BY <1>1, <1>2, <1>3, FrameTypes DEF FrameOK
<1>5. me.steps # << >> => s \in RluSteps /\ Tail(me.steps) \in Seq(RluSteps)
    BY <1>3, <1>4
<1>6. \E g \in SectionFrames : /\ FrameOK(g) /\ Put(p, g) /\ g.snap = me.snap
                               /\ g.pc \in {"section", "abort", "leave", "try_lock", "deref"}
  <2>1. CASE me.steps = << >> /\ Go(p, IF me.op.abort THEN "abort" ELSE "leave")
    <3>1. PICK l : l = IF me.op.abort THEN "abort" ELSE "leave"
        OBVIOUS
    <3>2. l \in {"abort", "leave"}
        BY <3>1
    <3>3. l \in Reading /\ l \notin AtObject /\ l \notin {"steal", "deref", "load", "try_lock", "lock", "change"}
        BY <3>2 DEF Reading, AtObject
    <3>4. PICK g : g = [me EXCEPT !.pc = l]
        OBVIOUS
    <3>5. Relabelled(me, g) /\ g.pc = l
        BY <1>4, <3>3, <3>4 DEF Relabelled, SectionFrames, InSection
    <3>6. g \in SectionFrames /\ FrameOK(g) /\ g.snap = me.snap
        BY <1>4, <3>3, <3>5, SectionGo DEF Relabelled, Reading
    <3> QED
      <4>1. Go(p, l)
          BY <1>3, <2>1, <3>1
      <4>2. Put(p, g)
          BY <1>3, <3>4, <4>1 DEF Go
      <4> QED BY <3>2, <3>5, <3>6, <4>2
  <2>2. CASE me.steps # << >> /\ s.do = "free" /\ Put(p, [me EXCEPT !.steps = Tail(@)])
    <3>1. PICK w \in Seq(RluSteps) : w = Tail(me.steps)
        BY <1>5, <2>2
    <3>2. PICK g : g = [me EXCEPT !.steps = w]
        OBVIOUS
    <3>3. g \in SectionFrames /\ g.pc = "section" /\ g.op = me.op /\ g.snap = me.snap
        BY <1>4, <3>2 DEF SectionFrames
    <3>4. FrameOK(g)
        BY <1>4, <3>3 DEF FrameOK, AtObject
    <3> QED BY <2>2, <3>1, <3>2, <3>3, <3>4
  <2>3. CASE /\ me.steps # << >> /\ s.do # "free"
             /\ Put(p, [me EXCEPT !.at = s.obj, !.pc = IF s.do = "write" THEN "try_lock" ELSE "deref"])
    <3>1. PICK l, o : l = (IF s.do = "write" THEN "try_lock" ELSE "deref") /\ o = s.obj
        OBVIOUS
    <3>2. /\ o \in Objects /\ l \in {"try_lock", "deref"} /\ s.do \in {"read", "follow", "write"}
          /\ l = "try_lock" <=> s.do = "write"
        BY <1>5, <2>3, <3>1 DEF RluSteps, Pointers
    <3>3. PICK g : g = [me EXCEPT !.at = o, !.pc = l]
        OBVIOUS
    <3>4. l \in InSection
        BY <3>2 DEF InSection, Reading
    <3>5. /\ g \in SectionFrames /\ g.pc = l /\ g.op = me.op /\ g.snap = me.snap /\ g.at = o
          /\ g.steps = me.steps
        BY <1>4, <3>2, <3>3, <3>4 DEF SectionFrames
    <3>6. FrameOK(g)
        BY <1>3, <1>4, <2>3, <3>1, <3>2, <3>5 DEF FrameOK, AtObject
    <3> QED BY <2>3, <3>1, <3>2, <3>3, <3>5, <3>6
  <2> QED BY <1>3, <2>1, <2>2, <2>3 DEF section
<1>7. PICK g \in SectionFrames : /\ FrameOK(g) /\ Put(p, g) /\ g.snap = me.snap
                                 /\ g.pc \in {"section", "abort", "leave", "try_lock", "deref"}
    BY <1>6
<1>8. self' \in [Threads -> ThreadData] /\ \A q \in Threads : SameCore(q) /\ SameReader(q)
  <2>1. CASE UNCHANGED self
      BY <1>2, <2>1, SelfSame
  <2>2. CASE s \in RluSteps /\ s.do = "free" /\ self' = [self EXCEPT ![p].free_nodes = @ \cup {s.obj}]
    <3>1. PICK o : o = s.obj
        OBVIOUS
    <3>2. o \in Objects
        BY <2>2, <3>1 DEF RluSteps, Pointers
    <3>3. PICK t : t = [self[p] EXCEPT !.free_nodes = @ \cup {o}]
        OBVIOUS
    <3>4. self' = [self EXCEPT ![p] = t]
        BY <2>2, <3>1, <3>3
    <3>5. t \in ThreadData
        BY <1>2, <3>2, <3>3, ThreadType DEF ThreadData
    <3>6. self' \in [Threads -> ThreadData] /\ self'[p] = t
          /\ \A q \in Threads \ {p} : SameCore(q) /\ SameReader(q)
        BY <1>2, <3>4, <3>5, SelfStep
    <3>7. self[p] \in ThreadData
        BY <1>2, ThreadType
    <3>8. SameCore(p) /\ SameReader(p)
        BY <3>3, <3>6, <3>7 DEF SameCore, SameReader, SameSets, Num, Buf, ThreadData
    <3> QED BY <3>6, <3>8
  <2> QED BY <1>3, <1>5, <2>1, <2>2 DEF section
<1>9. Calm(p) /\ Pc(p)' = g.pc /\ Top(p)' = g
  <2>1. g.pc \in Reading
      BY <1>7 DEF Reading
  <2> QED BY <1>1, <1>7, <1>8, <2>1, SectionPut DEF section, history
<1>10. Steals(p)' /\ Loads(p)' /\ Changes(p)'
    BY <1>7, <1>9 DEF Steals, Loads, Changes
<1> QED BY <1>1, <1>3, <1>7, <1>8, <1>9, <1>10, ReadOn DEF section, Reading

\* The owner of a locked object has its copy.
LEMMA Owner ==
    ASSUME LockedHaveCopies, NEW o \in Objects, copy_of[o] # Nothing
    PROVE  /\ copy_of[o][1] \in Threads
           /\ \E k \in Nat, i \in Nat :
                 /\ LiveAt(copy_of[o][1], k, i) /\ copy_of[o] = <<copy_of[o][1], WS_INDEX(k), i>>
                 /\ Copy(copy_of[o][1], WS_INDEX(k), i).obj = o
<1>1. PICK q \in Threads : \E k \in Nat, i \in Nat :
        LiveAt(q, k, i) /\ copy_of[o] = <<q, WS_INDEX(k), i>> /\ Copy(q, WS_INDEX(k), i).obj = o
    BY DEF LockedHaveCopies
<1>2. copy_of[o][1] = q
    BY <1>1
<1> QED BY <1>1, <1>2

\* Another's copy that p may take is in a write-set that is being written back.
LEMMA EarlyLasts ==
    ASSUME RluInv, version.writer < MAX_VERSION, NEW p \in Threads, Pc(p) \in Reading,
           NEW o \in Objects, copy_of[o] # Nothing, copy_of[o][1] # p, Early(p, copy_of[o])
    PROVE  \E k \in Nat : /\ self[copy_of[o][1]].ws_wb <= k /\ k < self[copy_of[o][1]].ws_tail
                          /\ WS_INDEX(k) = copy_of[o][2]
<1>1. PICK q \in Threads : q = copy_of[o][1]
    BY Owner DEF RluInv
<1>2. PICK k \in Nat, i \in Nat : LiveAt(q, k, i) /\ copy_of[o] = <<q, WS_INDEX(k), i>>
    BY <1>1, Owner DEF RluInv
<1>3. TypeOK /\ VersionOf(q) /\ VersionOf(p) /\ Flags(q)
    BY DEF RluInv, Versions, OfThread, Local
<1>4. self[q].writer_version # MAX_VERSION
    BY <1>1, <1>3, ThreadType, RluAssumption DEF Early, VersionOf, TypeOK
<1>5. Pc(q) \in HasVersion
    BY <1>3, <1>4 DEF VersionOf
<1>6. ~Running(q)
    BY <1>3, <1>5, WritingLabels, SyncLabels DEF Flags
<1> QED BY <1>1, <1>2, <1>6 DEF LiveAt

LEMMA SeenIs ==
    ASSUME RluInv, NEW p \in Threads, Pc(p) \in Reading, NEW o \in Objects
    PROVE  /\ copy_of[o] # Nothing /\ (copy_of[o][1] = p \/ Early(p, copy_of[o])) =>
                 Top(p).snap[o] = CopyVal(copy_of[o])
           /\ ~(copy_of[o] # Nothing /\ (copy_of[o][1] = p \/ Early(p, copy_of[o]))) =>
                 Top(p).snap[o] = data[o]
<1>1. Top(p).snap[o] = Seen(p, self[p].local_version, o)
    BY DEF RluInv, OfThread, SnapIsSeen
<1> QED BY <1>1 DEF Seen, Early

LEMMA DerefStep ==
    ASSUME RluInv, version.writer < MAX_VERSION, NEW p \in Threads, scheme' = scheme, deref(p)
    PROVE  RluInv'
<1>1. /\ Pc(p) = "deref" /\ Pc(p) \in Reading /\ Pc(p) \in InSection /\ Pc(p) \in AtObject
      /\ "load" \in Reading /\ "steal" \in Reading /\ "load" \in AtObject /\ "steal" \in AtObject
    BY AtIs DEF deref, Reading, InSection, AtObject
<1>2. TypeOK /\ StacksOK /\ Top(p) \in SectionFrames /\ FrameOK(Top(p)) /\ Top(p).pc = Pc(p)
    BY <1>1, SectionStack DEF RluInv, TypeOK
<1>3. PICK me, c, at : me = Top(p) /\ at = me.at /\ c = copy_of[at]
    OBVIOUS
<1>4. at \in Objects /\ (c # Nothing => c \in Addrs)
    BY <1>1, <1>2, <1>3, ReadingTop, CopyOfAddr
<1>5. PICK g : /\ Put(p, g)
               /\ \/ /\ ~(self[p].is_check_locks /\ c # Nothing)
                     /\ g = [me EXCEPT !.ptr = Nothing, !.pc = "load"]
                  \/ /\ self[p].is_check_locks /\ c # Nothing /\ c[1] = p
                     /\ g = [me EXCEPT !.ptr = c, !.pc = "load"]
                  \/ /\ self[p].is_check_locks /\ c # Nothing /\ c[1] # p /\ self[p].is_steal
                     /\ g = [me EXCEPT !.ptr = c, !.pc = "steal"]
                  \/ /\ self[p].is_check_locks /\ c # Nothing /\ c[1] # p /\ ~self[p].is_steal
                     /\ g = [me EXCEPT !.ptr = Nothing, !.pc = "load"]
    BY <1>3 DEF deref, SlowPath
<1> DEFINE Takes == self[p].is_check_locks /\ c # Nothing /\ (c[1] = p \/ self[p].is_steal)
<1>16. PICK x, l : /\ x = (IF Takes THEN c ELSE Nothing)
                  /\ l = (IF Takes /\ c[1] # p THEN "steal" ELSE "load")
    OBVIOUS
<1>6. /\ g = [me EXCEPT !.ptr = x, !.pc = l]
      /\ \/ x = Nothing /\ l = "load" /\ ~(self[p].is_check_locks /\ c # Nothing)
         \/ x = c /\ c # Nothing /\ l = "load" /\ c[1] = p
         \/ x = c /\ c # Nothing /\ l = "steal" /\ c[1] # p
         \/ x = Nothing /\ l = "load" /\ c # Nothing /\ c[1] # p /\ ~self[p].is_steal
    BY <1>5, <1>16
<1>7. x \in Addrs \cup {Nothing} /\ l \in {"load", "steal"}
    BY <1>4, <1>6
<1>8. Relabelled(me, g) /\ g.pc = l /\ g.ptr = x
    BY <1>2, <1>3, <1>6, <1>7 DEF Relabelled, SectionFrames, InSection, Reading
<1>9. FrameOK(g)
    BY <1>1, <1>2, <1>3, <1>4, <1>6, <1>7, <1>8 DEF FrameOK, Relabelled
<1>10. self' \in [Threads -> ThreadData] /\ \A q \in Threads : SameCore(q) /\ SameReader(q)
    BY <1>2, SelfSame DEF deref, rlu
<1>11. Calm(p) /\ Pc(p)' = l /\ Top(p)' = g
    BY <1>1, <1>5, <1>7, <1>8, <1>9, <1>10, SectionPut DEF deref, history, rlu, Relabelled
<1>12. UNCHANGED <<version, copy_of, data, self>> /\ g.at = at /\ g.snap = me.snap
    BY <1>3, <1>8 DEF deref, rlu, Relabelled
<1>13. Steals(p)'
  <2> SUFFICES ASSUME l = "steal" PROVE Steals(p)'
      BY <1>11 DEF Steals
  <2>1. x = c /\ c # Nothing /\ c[1] # p
      BY <1>6
  <2>2. ASSUME Early(p, c) PROVE Lasts(p, c, self[c[1]].ws_wb)'
    <3>1. me.snap[at] = CopyVal(c)
        BY <1>1, <1>3, <1>4, <2>1, <2>2, SeenIs
    <3>2. \E k \in Nat : /\ self[c[1]].ws_wb <= k /\ k < self[c[1]].ws_tail /\ WS_INDEX(k) = c[2]
        BY <1>1, <1>3, <1>4, <2>1, <2>2, EarlyLasts
    <3>3. CopyVal(c)' = CopyVal(c)
        BY <1>12 DEF CopyVal, Copy, Buf
    <3> QED BY <1>11, <1>12, <3>1, <3>2, <3>3 DEF Lasts
  <2> QED BY <1>3, <1>8, <1>11, <1>12, <2>1, <2>2 DEF Steals, Early
<1>14. Loads(p)'
  <2> SUFFICES ASSUME l = "load" PROVE Loads(p)'
      BY <1>11 DEF Loads
  <2>1. x = Nothing => data[at] = me.snap[at]
    <3> SUFFICES ASSUME x = Nothing PROVE data[at] = me.snap[at]
        OBVIOUS
    <3>0. Flags(p) /\ Position(p) /\ NoStealing(p) /\ LockedHaveCopies
        BY DEF RluInv, OfThread, Local
    <3>1. CASE c = Nothing
        BY <1>1, <1>3, <1>4, <3>1, SeenIs
    <3>2. CASE c # Nothing /\ ~self[p].is_steal /\ c[1] # p
      <4>1. ~Early(p, c)
          BY <1>1, <1>4, <3>0, <3>2, AddrIs, ThreadType, <1>2 DEF NoStealing, Early
      <4> QED BY <1>1, <1>3, <1>4, <3>2, <4>1, SeenIs
    <3>3. CASE c # Nothing /\ ~self[p].is_check_locks
      <4>1. ~self[p].is_steal /\ ~self[p].is_write_detected /\ self[p].ws_tail = self[p].ws_wb
          BY <1>1, <3>0, <3>3 DEF Flags
      <4>2. c[1] # p
        <5> SUFFICES ASSUME c[1] = p PROVE FALSE
            OBVIOUS
        <5>1. PICK k \in Nat, i \in Nat : LiveAt(p, k, i)
            BY <1>3, <1>4, <3>0, <3>3, Owner
        <5>2. k = self[p].ws_tail /\ Running(p) /\ 1 <= i /\ i <= Num(p, WS_INDEX(k))
            BY <1>2, <4>1, <5>1, ThreadType DEF LiveAt
        <5>3. Cur(p) \in Slots
            BY <5>2, WsSlots DEF Cur
        <5> QED BY <1>2, <3>0, <4>1, <5>2, <5>3, ThreadType DEF Flags, Cur
      <4> QED BY <3>2, <3>3, <4>1, <4>2
    <3> QED BY <1>4, <1>6, <3>1, <3>2, <3>3, AddrIs
  <2>2. x # Nothing => x = c /\ c[1] = p
      BY <1>6
  <2> QED BY <1>3, <1>8, <1>11, <1>12, <2>1, <2>2 DEF Loads
<1>15. Changes(p)'
    BY <1>7, <1>11 DEF Changes
<1> QED BY <1>1, <1>3, <1>7, <1>10, <1>11, <1>12, <1>13, <1>14, <1>15, ReadOn DEF Reading

LEMMA StealStep ==
    ASSUME RluInv, NEW p \in Threads, scheme' = scheme, steal(p) PROVE RluInv'
<1>1. /\ Pc(p) = "steal" /\ Pc(p) \in Reading /\ Pc(p) \in InSection /\ Pc(p) \in AtObject
      /\ "load" \in Reading /\ "load" \in AtObject
    BY AtIs DEF steal, Reading, InSection, AtObject
<1>2. TypeOK /\ StacksOK /\ Top(p) \in SectionFrames /\ FrameOK(Top(p)) /\ Top(p).pc = Pc(p)
    BY <1>1, SectionStack DEF RluInv, TypeOK
<1>3. PICK me, c, at : me = Top(p) /\ at = me.at /\ c = me.ptr
    OBVIOUS
<1>4. at \in Objects /\ c \in Addrs
    BY <1>1, <1>2, <1>3, ReadingTop
<1>5. PICK x : x = IF Early(p, c) THEN c ELSE Nothing
    OBVIOUS
<1>6. PICK g : g = [me EXCEPT !.ptr = x, !.pc = "load"]
    OBVIOUS
<1>7. x \in Addrs \cup {Nothing}
    BY <1>4, <1>5
<1>8. Relabelled(me, g) /\ g.pc = "load" /\ g.ptr = x
    BY <1>1, <1>2, <1>3, <1>6, <1>7 DEF Relabelled, SectionFrames, InSection
<1>9. FrameOK(g)
    BY <1>1, <1>2, <1>3, <1>8, SectionGo
<1>10. Put(p, g)
  <2>1. g = [me EXCEPT !.pc = "load", !.ptr = x]
      BY <1>1, <1>2, <1>3, <1>6, <1>7 DEF SectionFrames
  <2> QED BY <1>3, <1>5, <2>1 DEF steal, Early
<1>11. self' \in [Threads -> ThreadData] /\ \A q \in Threads : SameCore(q) /\ SameReader(q)
    BY <1>2, SelfSame DEF steal, rlu
<1>12. Calm(p) /\ Pc(p)' = "load" /\ Top(p)' = g
    BY <1>1, <1>8, <1>9, <1>10, <1>11, SectionPut DEF steal, history, rlu, Relabelled
<1>13. UNCHANGED <<version, copy_of, data, self>> /\ g.at = at /\ g.snap = me.snap
    BY <1>3, <1>8 DEF steal, rlu, Relabelled
<1>14. Loads(p)'
  <2>1. Steals(p)
      BY DEF RluInv, OfThread
  <2>2. CASE Early(p, c)
    <3>1. Lasts(p, c, self[c[1]].ws_wb) /\ c[1] # p /\ c # Nothing
        BY <1>1, <1>3, <1>4, <2>1, <2>2, AddrIs DEF Steals
    <3>2. CopyVal(c)' = CopyVal(c)
        BY <1>13 DEF CopyVal, Copy, Buf
    <3>3. Lasts(p, c, self[c[1]].ws_wb)'
        BY <1>3, <1>12, <1>13, <3>1, <3>2 DEF Lasts
    <3> QED BY <1>5, <1>8, <1>12, <1>13, <2>2, <3>1, <3>3 DEF Loads, Early
  <2>3. CASE ~Early(p, c)
    <3>1. ~(copy_of[at] # Nothing /\ (copy_of[at][1] = p \/ Early(p, copy_of[at])))
        BY <1>1, <1>3, <2>1, <2>3 DEF Steals
    <3>2. data[at] = me.snap[at]
        BY <1>1, <1>3, <1>4, <3>1, SeenIs
    <3> QED BY <1>5, <1>8, <1>12, <1>13, <2>3, <3>2 DEF Loads
  <2> QED BY <2>2, <2>3
<1>15. Steals(p)' /\ Changes(p)'
    BY <1>12 DEF Steals, Changes
<1> QED BY <1>1, <1>3, <1>11, <1>12, <1>13, <1>14, <1>15, ReadOn DEF Reading

\* What a section finds is what it should.
LEMMA LoadIsRight ==
    ASSUME RluInv, NEW p \in Threads, Pc(p) = "load"
    PROVE  LET me == Top(p)  c == me.ptr IN
           Top(p).snap[Top(p).at] = IF c = Nothing THEN data[me.at]
                                    ELSE self[c[1]].sets[c[2]].buffer[c[3]].val
<1>1. Pc(p) \in Reading /\ Pc(p) \in AtObject
    BY DEF Reading, AtObject
<1>2. TypeOK /\ Loads(p)
    BY DEF RluInv, OfThread
<1>3. PICK c, at : c = Top(p).ptr /\ at = Top(p).at
    OBVIOUS
<1>4. at \in Objects
    BY <1>1, <1>2, <1>3, ReadingTop
<1>5. CASE c = Nothing
    BY <1>2, <1>3, <1>5 DEF Loads
<1>6. CASE c # Nothing /\ c[1] = p
  <2>1. copy_of[at] = c
      BY <1>2, <1>3, <1>6 DEF Loads
  <2>2. Top(p).snap[at] = CopyVal(c)
      BY <1>1, <1>4, <1>6, <2>1, SeenIs
  <2> QED BY <1>3, <1>6, <2>2 DEF CopyVal, Copy, Buf
<1>7. CASE c # Nothing /\ c[1] # p
  <2>1. Top(p).snap[at] = CopyVal(c)
      BY <1>2, <1>3, <1>7 DEF Loads, Lasts
  <2> QED BY <1>3, <1>7, <2>1 DEF CopyVal, Copy, Buf
<1> QED BY <1>5, <1>6, <1>7

LEMMA LoadStep ==
    ASSUME RluInv, NEW p \in Threads, scheme' = scheme, load(p) PROVE RluInv'
<1>0. At(p, "load") /\ UNCHANGED <<rlu, history>>
    BY Zenon DEF load
<1>1. Pc(p) = "load" /\ Pc(p) \in Reading /\ Pc(p) \in InSection /\ Pc(p) \in AtObject
    BY <1>0, AtIs DEF Reading, InSection, AtObject
<1>2. TypeOK /\ StacksOK /\ Top(p) \in SectionFrames /\ FrameOK(Top(p)) /\ Top(p).pc = Pc(p)
    BY <1>1, SectionStack DEF RluInv, TypeOK
<1>3. PICK me, s, at, v : /\ me = Top(p) /\ s = Head(me.steps) /\ at = me.at /\ v = me.snap[at]
    OBVIOUS
<1>4. /\ at \in Objects /\ me.snap \in States /\ me.steps \in Seq(RluSteps) /\ me.steps # << >>
      /\ at = s.obj /\ s.do \in {"read", "follow"} /\ me.op.do = "section"
    BY <1>1, <1>2, <1>3, ReadingTop DEF FrameOK
<1>5. v \in Values /\ s \in RluSteps /\ (s.do = "follow" => v \in Objects)
  <2>1. v \in Values /\ s \in RluSteps /\ (at \in Pointers => v \in Objects)
      BY <1>3, <1>4 DEF States
  <2>2. s.do = "follow" => at \in Pointers
      BY <1>4, <2>1 DEF RluSteps
  <2> QED BY <2>1, <2>2
<1>6. PICK x : x = [obj |-> at, val |-> v, should |-> v]
    OBVIOUS
<1>7. x \in Right
    BY <1>4, <1>5, <1>6 DEF Right
<1>8. PICK w : w = IF s.do = "follow" THEN <<[do |-> "read", obj |-> v]>> \o Tail(me.steps)
                   ELSE Tail(me.steps)
    OBVIOUS
<1>9. w \in Seq(RluSteps)
  <2>1. Tail(me.steps) \in Seq(RluSteps)
      BY <1>4
  <2>2. CASE s.do = "follow"
    <3>1. PICK y : y = [do |-> "read", obj |-> v]
        OBVIOUS
    <3>2. y \in RluSteps
        BY <1>5, <2>2, <3>1 DEF RluSteps
    <3>3. <<y>> \in Seq(RluSteps)
        BY <3>2
    <3> QED BY <1>8, <2>1, <2>2, <3>1, <3>3
  <2> QED BY <1>8, <2>1, <2>2
<1>10. PICK h : h = [me EXCEPT !.got = @ \cup {x}]
    OBVIOUS
<1>18. PICK g : g = [h EXCEPT !.pc = "section", !.steps = w]
    OBVIOUS
<1>11. h.steps = me.steps /\ h \in SectionFrames
    BY <1>2, <1>3, <1>7, <1>10 DEF SectionFrames
<1>12. g \in SectionFrames /\ g.pc = "section" /\ g.op = me.op /\ g.snap = me.snap
  <2>1. h.op = me.op /\ h.snap = me.snap
      BY <1>2, <1>3, <1>10 DEF SectionFrames
  <2>2. "section" \in InSection \cup Outside
      BY DEF InSection, Reading
  <2> QED BY <1>9, <1>18, <1>11, <2>1, <2>2 DEF SectionFrames
<1>13. FrameOK(g) /\ g.pc \in Reading
    BY <1>4, <1>12 DEF FrameOK, AtObject, Reading
<1>14. Put(p, g)
  <2>1. v = IF me.ptr = Nothing THEN data[at] ELSE self[me.ptr[1]].sets[me.ptr[2]].buffer[me.ptr[3]].val
      BY <1>1, <1>3, LoadIsRight
  <2>2. [obj |-> me.at, val |-> IF me.ptr = Nothing THEN data[me.at]
                                  ELSE self[me.ptr[1]].sets[me.ptr[2]].buffer[me.ptr[3]].val,
           should |-> me.snap[me.at]] = x
      BY <1>3, <1>6, <2>1, Zenon
  <2>3. [h EXCEPT !.pc = "section",
           !.steps = IF s.do = "follow" THEN <<[do |-> "read", obj |-> v]>> \o Tail(h.steps)
                                        ELSE Tail(h.steps)] = g
      BY <1>8, <1>11, <1>18, Zenon
  <2> QED BY <1>3, <1>10, <2>1, <2>2, <2>3, Zenon DEF load
<1>15. self' \in [Threads -> ThreadData] /\ \A q \in Threads : SameCore(q) /\ SameReader(q)
    BY <1>0, <1>2, SelfSame DEF rlu
<1>16. Calm(p) /\ Pc(p)' = "section" /\ Top(p)' = g
    BY <1>0, <1>1, <1>12, <1>13, <1>14, <1>15, SectionPut DEF history, rlu
<1>17. Steals(p)' /\ Loads(p)' /\ Changes(p)'
    BY <1>16 DEF Steals, Loads, Changes
<1> QED BY <1>0, <1>1, <1>3, <1>12, <1>13, <1>15, <1>16, <1>17, ReadOn DEF rlu, Reading

\* A thread is asked to write back.
LEMMA AskSync ==
    ASSUME NEW S \in [Threads -> ThreadData], NEW a \in Threads
    PROVE  LET T == [S EXCEPT ![a].is_sync = TRUE] IN
           /\ T \in [Threads -> ThreadData]
           /\ \A q \in Threads :
                 /\ T[q].run_counter = S[q].run_counter /\ T[q].writer_version = S[q].writer_version
                 /\ T[q].ws_head = S[q].ws_head /\ T[q].ws_wb = S[q].ws_wb
                 /\ T[q].ws_tail = S[q].ws_tail /\ T[q].max_write_sets = S[q].max_write_sets
                 /\ T[q].sets = S[q].sets /\ T[q].local_version = S[q].local_version
                 /\ T[q].is_check_locks = S[q].is_check_locks /\ T[q].is_steal = S[q].is_steal
                 /\ T[q].is_write_detected = S[q].is_write_detected
<1> DEFINE T == [S EXCEPT ![a].is_sync = TRUE]
<1>1. PICK t : t = [S[a] EXCEPT !.is_sync = TRUE]
    OBVIOUS
<1>2. T = [S EXCEPT ![a] = t]
    BY <1>1
<1>3. S[a] \in ThreadData
    OBVIOUS
<1>4. t \in ThreadData
    BY <1>1, <1>3 DEF ThreadData
<1>5. T \in [Threads -> ThreadData] /\ T[a] = t /\ \A q \in Threads \ {a} : T[q] = S[q]
    BY <1>2, <1>4
<1>6. /\ t.run_counter = S[a].run_counter /\ t.writer_version = S[a].writer_version
      /\ t.ws_head = S[a].ws_head /\ t.ws_wb = S[a].ws_wb
      /\ t.ws_tail = S[a].ws_tail /\ t.max_write_sets = S[a].max_write_sets
      /\ t.sets = S[a].sets /\ t.local_version = S[a].local_version
      /\ t.is_check_locks = S[a].is_check_locks /\ t.is_steal = S[a].is_steal
      /\ t.is_write_detected = S[a].is_write_detected
    BY <1>1, <1>3 DEF ThreadData
<1> HIDE DEF T
<1>7. T \in [Threads -> ThreadData] /\ \A q \in Threads :
                 /\ T[q].run_counter = S[q].run_counter /\ T[q].writer_version = S[q].writer_version
                 /\ T[q].ws_head = S[q].ws_head /\ T[q].ws_wb = S[q].ws_wb
                 /\ T[q].ws_tail = S[q].ws_tail /\ T[q].max_write_sets = S[q].max_write_sets
                 /\ T[q].sets = S[q].sets /\ T[q].local_version = S[q].local_version
                 /\ T[q].is_check_locks = S[q].is_check_locks /\ T[q].is_steal = S[q].is_steal
                 /\ T[q].is_write_detected = S[q].is_write_detected
    BY <1>5, <1>6
<1> QED BY <1>7 DEF T

\* A section that cannot lock an object gives up.
LEMMA FailStep ==
    ASSUME RluInv, NEW p \in Threads, scheme' = scheme, todo' = todo, Pc(p) \in {"try_lock", "lock"},
           self' \in [Threads -> ThreadData], \A q \in Threads : SameCore(q) /\ SameReader(q),
           UNCHANGED <<version, copy_of, data, latest>>, Fail(p)
    PROVE  RluInv'
<1>1. /\ Pc(p) \in Reading /\ Pc(p) \in InSection
      /\ Pc(p) \in Reading \ {"commit_version"}
      /\ "abort" \in Reading \ {"commit_version", "writer_lock", "lock"}
      /\ "abort" \notin AtObject
    BY DEF Reading, InSection, AtObject
<1>2. TypeOK /\ Top(p) \in SectionFrames /\ FrameOK(Top(p)) /\ Top(p).pc = Pc(p)
    BY <1>1, SectionStack DEF RluInv, TypeOK
<1>3. PICK me : me = Top(p)
    OBVIOUS
<1>4. PICK g : g = [me EXCEPT !.failed = TRUE, !.pc = "abort"]
    OBVIOUS
<1>5. Relabelled(me, g) /\ g.pc = "abort"
    BY <1>2, <1>3, <1>4 DEF Relabelled, SectionFrames, InSection, Reading
<1>6. FrameOK(g)
    BY <1>1, <1>2, <1>3, <1>5, SectionGo
<1>7. Put(p, g)
    BY <1>3, <1>4 DEF Fail
<1>8. Calm(p) /\ Pc(p)' = "abort" /\ Top(p)' = g
    BY <1>1, <1>5, <1>6, <1>7, SectionPut DEF Relabelled
<1>9. Steals(p)' /\ Loads(p)' /\ Changes(p)'
    BY <1>8 DEF Steals, Loads, Changes
<1> QED BY <1>1, <1>3, <1>5, <1>8, <1>9, ReadOn DEF Relabelled

LEMMA TryLockStep ==
    ASSUME RluInv, NEW p \in Threads, scheme' = scheme, tryLock(p) PROVE RluInv'
<1>0. At(p, "try_lock") /\ UNCHANGED <<version, writer_lock, copy_of, data, freed, latest, history>>
    BY Zenon DEF tryLock
<1>1. /\ Pc(p) = "try_lock" /\ Pc(p) \in Reading /\ Pc(p) \in InSection /\ Pc(p) \in AtObject
      /\ Pc(p) \in Reading \ {"commit_version"}
      /\ {"lock", "change"} \subseteq Reading \cap AtObject
    BY <1>0, AtIs DEF Reading, InSection, AtObject
<1>2. /\ TypeOK /\ StacksOK /\ Top(p) \in SectionFrames /\ FrameOK(Top(p)) /\ Top(p).pc = Pc(p)
      /\ Local(p) /\ SnapIsSeen(p) /\ NoStealing(p) /\ LockedHaveCopies
    BY <1>1, SectionStack DEF RluInv, TypeOK, OfThread
<1>3. PICK me, c, at : me = Top(p) /\ at = me.at /\ c = copy_of[at]
    OBVIOUS
<1>4. at \in Objects /\ (c # Nothing => c \in Addrs) /\ self[p] \in ThreadData
    BY <1>1, <1>2, <1>3, ReadingTop, CopyOfAddr, ThreadType
<1>5. todo' = todo /\ UNCHANGED <<version, copy_of, data, latest>>
    BY <1>0 DEF history
<1>6. ASSUME NEW l \in {"lock", "change"}, Go(p, l), self' \in [Threads -> ThreadData],
             \A q \in Threads : SameCore(q), \A q \in Threads \ {p} : SameReader(q)
      PROVE  Calm(p) /\ Pc(p)' = l /\ Top(p)'.snap = me.snap /\ Top(p)'.at = at
  <2>1. PICK g : g = [me EXCEPT !.pc = l]
      OBVIOUS
  <2>2. Relabelled(me, g) /\ g.pc = l
      BY <1>1, <1>2, <1>3, <2>1 DEF Relabelled, SectionFrames, InSection
  <2>3. FrameOK(g)
      BY <1>1, <1>2, <1>3, <2>2, SectionGo
  <2>4. Calm(p) /\ Pc(p)' = g.pc /\ Top(p)' = g
      BY <1>1, <1>3, <1>5, <1>6, <2>1, <2>2, <2>3, SectionPut DEF Relabelled, Go
  <2> QED BY <1>3, <2>2, <2>4 DEF Relabelled
<1>7. CASE /\ c = Nothing /\ Go(p, "lock")
           /\ self' = [self EXCEPT ![p].is_write_detected = TRUE, ![p].is_check_locks = TRUE]
  <2>1. PICK t : t = [self[p] EXCEPT !.is_write_detected = TRUE, !.is_check_locks = TRUE]
      OBVIOUS
  <2>2. self' = [self EXCEPT ![p] = t] /\ t \in ThreadData
      BY <1>2, <1>4, <1>7, <2>1 DEF ThreadData, TypeOK
  <2>3. self' \in [Threads -> ThreadData] /\ self'[p] = t
        /\ \A q \in Threads \ {p} : SameCore(q) /\ SameReader(q)
      BY <1>2, <2>2, SelfStep
  <2>4. SameCore(p) /\ t.is_write_detected /\ t.is_check_locks /\ t.is_steal = self[p].is_steal
        /\ t.local_version = self[p].local_version
      BY <1>4, <2>1, <2>3 DEF SameCore, SameSets, Num, Buf, ThreadData
  <2>5. Calm(p) /\ Pc(p)' = "lock" /\ Top(p)'.snap = me.snap
      BY <1>6, <1>7, <2>3, <2>4
  <2>6. Flags(p)'
    <3>1. Num(p, Cur(p))' = Num(p, Cur(p)) /\ (Running(p)' <=> Running(p))
        BY <1>2, <2>4, SetsSame DEF Local
    <3> QED BY <1>1, <1>2, <2>3, <2>4, <2>5, <3>1 DEF Local, Flags, InSection, Reading
  <2>7. SnapIsSeen(p)'
      BY <1>1, <1>2, <1>3, <2>3, <2>4, <2>5, CalmSeen DEF SnapIsSeen
  <2>8. NoStealing(p)'
    <3> SUFFICES ASSUME ~self[p].is_steal, NEW q \in Threads \ {p}
                 PROVE  self'[q].writer_version > self[p].local_version
        BY <2>3, <2>4 DEF NoStealing
    <3> QED BY <1>1, <1>2, <2>3 DEF NoStealing, SameCore
  <2>9. Steals(p)' /\ Loads(p)' /\ Changes(p)'
      BY <2>5 DEF Steals, Loads, Changes
  <2> QED BY <1>1, <1>5, <2>3, <2>4, <2>5, <2>6, <2>7, <2>8, <2>9, SectionStep
<1>8. CASE /\ c # Nothing /\ c[1] = p /\ Go(p, "change") /\ UNCHANGED self
           /\ self[p].sets[c[2]].buffer[c[3]].run_counter = self[p].run_counter
  <2>1. self' \in [Threads -> ThreadData] /\ \A q \in Threads : SameCore(q) /\ SameReader(q)
      BY <1>2, <1>8, SelfSame
  <2>2. Calm(p) /\ Pc(p)' = "change" /\ Top(p)'.snap = me.snap /\ Top(p)'.at = at
      BY <1>6, <1>8, <2>1
  <2>3. PICK k \in Nat, i \in Nat : LiveAt(p, k, i) /\ c = <<p, WS_INDEX(k), i>>
    <3>1. copy_of[at] # Nothing /\ copy_of[at][1] = p /\ at \in Objects /\ LockedHaveCopies
        BY <1>2, <1>3, <1>4, <1>8
    <3>2. \E k \in Nat, i \in Nat : LiveAt(p, k, i) /\ copy_of[at] = <<p, WS_INDEX(k), i>>
        BY <3>1, Owner
    <3> QED BY <1>3, <3>2
  <2>4. k = self[p].ws_tail
    <3> SUFFICES ASSUME k # self[p].ws_tail PROVE FALSE
        OBVIOUS
    <3>1. k \in self[p].ws_wb .. self[p].ws_tail - 1 /\ i \in 1 .. Num(p, WS_INDEX(k))
      <4>1. WS_INDEX(k) \in Slots /\ self[p].ws_tail \in Nat /\ self[p].ws_wb \in Nat
          BY <1>2, WsSlots, ThreadType
      <4>2. Num(p, WS_INDEX(k)) \in Nat
          BY <1>2, <4>1, ThreadType
      <4> QED BY <2>3, <4>1, <4>2 DEF LiveAt
    <3>2. Copy(p, WS_INDEX(k), i).run_counter < self[p].run_counter
        BY <1>2, <3>1 DEF Local, Sets, Older
    <3>3. Copy(p, WS_INDEX(k), i).run_counter = self[p].run_counter
        BY <1>8, <2>3 DEF Copy, Buf
    <3> QED BY <1>2, <3>2, <3>3, ThreadType
  <2>5. c[2] = Cur(p) /\ Num(p, Cur(p)) > 0 /\ Running(p)
    <3>1. Cur(p) \in Slots
        BY <2>3, <2>4, WsSlots DEF Cur
    <3>2. Num(p, Cur(p)) \in Nat
        BY <1>2, <3>1, ThreadType
    <3> QED BY <1>2, <2>3, <2>4, <3>2, ThreadType DEF LiveAt, Cur
  <2>6. self[p].is_write_detected
      BY <1>2, <2>5 DEF Local, Flags
  <2>7. Changes(p)'
      BY <1>3, <1>5, <1>8, <2>2, <2>5 DEF Changes, Cur
  <2>8. Steals(p)' /\ Loads(p)'
      BY <2>2 DEF Steals, Loads
  <2>9. "change" \in Reading \ {"commit_version", "writer_lock", "lock"}
      BY <1>1
  <2> QED BY <1>1, <1>3, <1>5, <2>1, <2>2, <2>6, <2>7, <2>8, <2>9, ReadOn
<1>9. CASE c # Nothing /\ Fail(p) /\ self' = [self EXCEPT ![p].is_sync = TRUE]
  <2>1. self' \in [Threads -> ThreadData] /\ \A q \in Threads : SameCore(q) /\ SameReader(q)
    <3>1. PICK S \in [Threads -> ThreadData] : S = self
        BY <1>2 DEF TypeOK
    <3>2. self' = [S EXCEPT ![p].is_sync = TRUE]
        BY <1>9, <3>1
    <3>3. /\ self' \in [Threads -> ThreadData]
          /\ \A q \in Threads :
                 /\ S[q].run_counter = self'[q].run_counter /\ S[q].writer_version = self'[q].writer_version
                 /\ S[q].ws_head = self'[q].ws_head /\ S[q].ws_wb = self'[q].ws_wb
                 /\ S[q].ws_tail = self'[q].ws_tail /\ S[q].max_write_sets = self'[q].max_write_sets
                 /\ S[q].sets = self'[q].sets /\ S[q].local_version = self'[q].local_version
                 /\ S[q].is_check_locks = self'[q].is_check_locks /\ S[q].is_steal = self'[q].is_steal
                 /\ S[q].is_write_detected = self'[q].is_write_detected
        BY <3>2, AskSync
    <3> QED BY <3>1, <3>3 DEF SameCore, SameReader, SameSets, Num, Buf
  <2> QED BY <1>1, <1>5, <1>9, <2>1, FailStep
<1>10. CASE /\ c # Nothing /\ Fail(p)
            /\ self' = [self EXCEPT ![c[1]].is_sync = TRUE, ![p].is_sync = TRUE]
  <2>1. PICK S : S = [self EXCEPT ![c[1]].is_sync = TRUE]
      OBVIOUS
  <2>2. c[1] \in Threads
      BY <1>4, <1>10, AddrIs
  <2>3. self \in [Threads -> ThreadData]
      BY <1>2 DEF TypeOK
  <2>4. /\ S \in [Threads -> ThreadData]
        /\ \A q \in Threads :
                 /\ S[q].run_counter = self[q].run_counter /\ S[q].writer_version = self[q].writer_version
                 /\ S[q].ws_head = self[q].ws_head /\ S[q].ws_wb = self[q].ws_wb
                 /\ S[q].ws_tail = self[q].ws_tail /\ S[q].max_write_sets = self[q].max_write_sets
                 /\ S[q].sets = self[q].sets /\ S[q].local_version = self[q].local_version
                 /\ S[q].is_check_locks = self[q].is_check_locks /\ S[q].is_steal = self[q].is_steal
                 /\ S[q].is_write_detected = self[q].is_write_detected
      BY <2>1, <2>2, <2>3, AskSync
  <2>5. self' = [S EXCEPT ![p].is_sync = TRUE]
      BY <1>10, <2>1
  <2>6. /\ self' \in [Threads -> ThreadData]
        /\ \A q \in Threads :
                 /\ S[q].run_counter = self'[q].run_counter /\ S[q].writer_version = self'[q].writer_version
                 /\ S[q].ws_head = self'[q].ws_head /\ S[q].ws_wb = self'[q].ws_wb
                 /\ S[q].ws_tail = self'[q].ws_tail /\ S[q].max_write_sets = self'[q].max_write_sets
                 /\ S[q].sets = self'[q].sets /\ S[q].local_version = self'[q].local_version
                 /\ S[q].is_check_locks = self'[q].is_check_locks /\ S[q].is_steal = self'[q].is_steal
                 /\ S[q].is_write_detected = self'[q].is_write_detected
      BY <2>4, <2>5, AskSync
  <2>7. \A q \in Threads : SameCore(q) /\ SameReader(q)
      BY <2>4, <2>6 DEF SameCore, SameReader, SameSets, Num, Buf
  <2> QED BY <1>1, <1>5, <1>10, <2>6, <2>7, FailStep
<1> QED BY <1>3, <1>7, <1>8, <1>9, <1>10, Zenon DEF tryLock

-----------------------------------------------------------------------------
(***************************************************************************)
(* The version of a section.                                               *)
(***************************************************************************)
\* A value of a live copy is one of its object.
LEMMA CopyValType ==
    ASSUME TypeOK, LockedHaveCopies, NEW p \in Threads, NEW o \in Objects, copy_of[o] # Nothing,
           Sets(copy_of[o][1])
    PROVE  CopyVal(copy_of[o]) \in Values /\ (o \in Pointers => CopyVal(copy_of[o]) \in Objects)
<1>1. PICK q \in Threads : q = copy_of[o][1]
    BY Owner
<1>2. PICK k \in Nat, i \in Nat : /\ LiveAt(q, k, i) /\ copy_of[o] = <<q, WS_INDEX(k), i>>
                                  /\ Copy(q, WS_INDEX(k), i).obj = o
    BY <1>1, Owner
<1>3. WS_INDEX(k) \in Slots
    BY WsSlots
<1>4. Num(q, WS_INDEX(k)) \in Nat /\ Buf(q, WS_INDEX(k)) \in Seq(Copies)
    BY <1>3, ThreadType
<1>5. i \in 1 .. Len(Buf(q, WS_INDEX(k)))
    BY <1>1, <1>2, <1>3, <1>4 DEF LiveAt, Sets, Buffers
<1>6. Copy(q, WS_INDEX(k), i) \in Copies
    BY <1>4, <1>5 DEF Copy
<1>7. CopyVal(copy_of[o]) = Copy(q, WS_INDEX(k), i).val
    BY <1>2 DEF CopyVal
<1> QED BY <1>2, <1>6, <1>7 DEF Copies

\* What the write-sets of p from its last write-back on make of a state.
LEMMA Overlay ==
    ASSUME TypeOK, CopiesLock, LockedHaveCopies, NEW p \in Threads, Sets(p), Pc(p) \notin Writes,
           Running(p) => Num(p, Cur(p)) = 0, NEW s \in States
    PROVE  /\ Overlaid(s, p, self[p].ws_wb, self[p].ws_tail) \in States
           /\ \A o \in Objects : Overlaid(s, p, self[p].ws_wb, self[p].ws_tail)[o] =
                IF copy_of[o] # Nothing /\ copy_of[o][1] = p THEN CopyVal(copy_of[o]) ELSE s[o]
<1> DEFINE indices(o, c) == {i \in 1 .. self[p].sets[WS_INDEX(c)].num_of_objs :
                             self[p].sets[WS_INDEX(c)].buffer[i].obj = o}
           last(o)     == {c \in self[p].ws_wb .. self[p].ws_tail - 1 : indices(o, c) # {}}
           val(o)      == IF last(o) = {} THEN s[o]
                          ELSE self[p].sets[WS_INDEX(Max(last(o)))].buffer[
                                 CHOOSE i \in indices(o, Max(last(o))) : TRUE].val
           ov == Overlaid(s, p, self[p].ws_wb, self[p].ws_tail)
<1>1. ov = [o \in Objects |-> val(o)]
  <2>1. DOMAIN s = Objects
      BY DEF States
  <2> QED BY <2>1 DEF Overlaid
<1>2. self[p].ws_wb \in Nat /\ self[p].ws_tail \in Nat /\ Counts(p) /\ self[p].max_write_sets \in Nat
    BY ThreadType DEF Sets
<1>7. \A o, c : c \in last(o) <=> c \in self[p].ws_wb .. self[p].ws_tail - 1 /\ indices(o, c) # {}
    OBVIOUS
<1>8. \A o, c, i : i \in indices(o, c) <=> /\ i \in 1 .. Num(p, WS_INDEX(c))
                                         /\ Copy(p, WS_INDEX(c), i).obj = o
    BY DEF Num, Copy, Buf
<1> HIDE DEF last, indices
<1>9. \A o : last(o) = {} => val(o) = s[o]
    BY Zenon
<1>10. \A o : last(o) # {} =>
         val(o) = Copy(p, WS_INDEX(Max(last(o))), CHOOSE i \in indices(o, Max(last(o))) : TRUE).val
    BY Zenon DEF Copy, Buf
<1> HIDE DEF val
<1>3. ASSUME NEW o \in Objects, NEW c \in last(o), NEW i \in indices(o, c)
      PROVE  c \in Nat /\ i \in Nat /\ copy_of[o] = <<p, WS_INDEX(c), i>>
  <2>1. c \in Nat /\ self[p].ws_wb <= c /\ c < self[p].ws_tail
      BY <1>2, <1>7
  <2>2. WS_INDEX(c) \in Slots
      BY <2>1, WsSlots
  <2>3. i \in Nat /\ 1 <= i /\ i <= Num(p, WS_INDEX(c)) /\ Copy(p, WS_INDEX(c), i).obj = o
      BY <2>2, <1>8, ThreadType
  <2>4. LiveAt(p, c, i)
    <3>1. Pos(p) = <<0, 1>>
        BY DEF Pos
    <3> QED BY <2>1, <2>3, <3>1 DEF LiveAt
  <2> QED BY <2>1, <2>3, <2>4 DEF CopiesLock
<1>4. ASSUME NEW o \in Objects, last(o) # {}
      PROVE  /\ copy_of[o] # Nothing /\ copy_of[o][1] = p /\ val(o) = CopyVal(copy_of[o])
  <2>1. PICK c \in last(o) : TRUE
      BY <1>4
  <2>2. \E i : i \in indices(o, c)
      BY <1>7
  <2>3. c \in Nat /\ self[p].ws_wb <= c /\ c < self[p].ws_tail /\ copy_of[o][2] = WS_INDEX(c)
      BY <1>2, <1>3, <1>7, <2>2
  <2>4. ASSUME NEW d \in last(o) PROVE d = c
    <3>1. \E i : i \in indices(o, d)
        BY <1>7
    <3>2. d \in Nat /\ self[p].ws_wb <= d /\ d < self[p].ws_tail /\ copy_of[o][2] = WS_INDEX(d)
        BY <1>2, <1>3, <1>7, <3>1
    <3>3. RLU_MAX_WRITE_SETS \in Nat /\ self[p].ws_tail <= self[p].ws_wb + RLU_MAX_WRITE_SETS
      <4>1. /\ self[p].ws_tail <= self[p].ws_wb + self[p].max_write_sets
            /\ 2 * self[p].max_write_sets <= RLU_MAX_WRITE_SETS
          BY <1>2 DEF Counts
      <4> QED BY <1>2, <4>1, RluAssumption
    <3>4. /\ c < d => d < c + RLU_MAX_WRITE_SETS
          /\ d < c => c < d + RLU_MAX_WRITE_SETS
        BY <1>2, <2>3, <3>2, <3>3
    <3>5. ~(c < d) /\ ~(d < c)
        BY <2>3, <3>2, <3>4, WsDiffer
    <3> QED BY <2>3, <3>2, <3>5
  <2>5. last(o) = {c}
      BY <2>1, <2>4
  <2>6. Max(last(o)) = c
      BY <2>3, <2>5 DEF Max
  <2>7. PICK i : i = CHOOSE j \in indices(o, c) : TRUE
      OBVIOUS
  <2>8. i \in indices(o, c)
      BY <2>2, <2>7
  <2>9. copy_of[o] = <<p, WS_INDEX(c), i>>
      BY <2>1, <2>8, <1>3
  <2>10. val(o) = Copy(p, WS_INDEX(c), i).val
      BY <1>4, <1>10, <2>6, <2>7
  <2>11. copy_of[o] # Nothing
      BY <2>3, <2>8, <2>9, <1>3, WsSlots, RluAssumption DEF Slots
  <2> QED BY <2>9, <2>10, <2>11 DEF CopyVal
<1>5. ASSUME NEW o \in Objects, copy_of[o] # Nothing, copy_of[o][1] = p
      PROVE  last(o) # {}
  <2>1. PICK k \in Nat, i \in Nat : LiveAt(p, k, i) /\ Copy(p, WS_INDEX(k), i).obj = o
      BY <1>5, Owner
  <2>2. k < self[p].ws_tail
      BY <2>1 DEF LiveAt, Cur
  <2>3. WS_INDEX(k) \in Slots
      BY WsSlots
  <2>4. Num(p, WS_INDEX(k)) \in Nat
      BY <2>3, ThreadType
  <2>5. i \in indices(o, k)
      BY <1>8, <2>1, <2>4 DEF LiveAt
  <2>6. k \in last(o)
      BY <1>2, <1>7, <2>1, <2>2, <2>5 DEF LiveAt
  <2> QED BY <2>6
<1>6. \A o \in Objects : val(o) =
         IF copy_of[o] # Nothing /\ copy_of[o][1] = p THEN CopyVal(copy_of[o]) ELSE s[o]
    BY <1>4, <1>5, <1>9
<1>11. \A o \in Objects : val(o) \in Values /\ (o \in Pointers => val(o) \in Objects)
  <2> SUFFICES ASSUME NEW o \in Objects
               PROVE  val(o) \in Values /\ (o \in Pointers => val(o) \in Objects)
      OBVIOUS
  <2>1. CASE copy_of[o] # Nothing /\ copy_of[o][1] = p
    <3>1. val(o) = CopyVal(copy_of[o])
        BY <1>6, <2>1
    <3> QED BY <2>1, <3>1, CopyValType
  <2>2. CASE ~(copy_of[o] # Nothing /\ copy_of[o][1] = p)
    <3>1. val(o) = s[o]
        BY <1>6, <2>2
    <3> QED BY <3>1 DEF States, Pointers
  <2> QED BY <2>1, <2>2
<1> QED BY <1>1, <1>6, <1>11 DEF States, Pointers

\* A thread outside sections has nothing in the write-set it will use next.
LEMMA NextIsEmpty ==
    ASSUME TypeOK, NEW p \in Threads, Sets(p), ~Running(p),
           self[p].ws_tail < self[p].ws_wb + self[p].max_write_sets
    PROVE  Num(p, Cur(p)) = 0
<1>1. /\ self[p].ws_head \in Nat /\ self[p].ws_wb \in Nat /\ self[p].ws_tail \in Nat
      /\ self[p].max_write_sets \in Nat /\ Counts(p) /\ RLU_MAX_WRITE_SETS \in Nat
    BY ThreadType, RluAssumption DEF Sets
<1>2. self[p].ws_tail < self[p].ws_head + RLU_MAX_WRITE_SETS
    BY <1>1 DEF Counts
<1>3. ASSUME NEW k \in self[p].ws_head .. self[p].ws_tail, Cur(p) = WS_INDEX(k)
      PROVE  k = self[p].ws_tail
    BY <1>1, <1>2, <1>3, WsDiffer DEF Cur
<1>4. Cur(p) \in Slots
    BY <1>1, WsSlots DEF Cur
<1> QED BY <1>3, <1>4 DEF Sets, Empty

LEMMA LocalVersionStep ==
    ASSUME RluInv, NEW p \in Threads, scheme' = scheme, localVersion(p) PROVE RluInv'
<1>1. Pc(p) = "local_version" /\ Pc(p) \in InSection /\ "commit_version" \in Reading
    BY AtIs DEF localVersion, Reading, InSection
<1>2. /\ TypeOK /\ Top(p) \in SectionFrames /\ FrameOK(Top(p)) /\ Top(p).pc = Pc(p) /\ Local(p)
      /\ CopiesLock /\ LockedHaveCopies /\ LatestIsSeen /\ Sets(p) /\ Flags(p)
    BY <1>1, SectionStack DEF RluInv, TypeOK, OfThread, Local
<1>3. Running(p) => Num(p, Cur(p)) = 0
  <2>1. Cur(p) \in Slots
      BY <1>2, ThreadType, WsSlots DEF Cur
  <2> QED BY <1>1, <1>2, <2>1, ThreadType DEF Flags
<1>4. Pc(p) \notin Writes /\ latest \in States /\ version.writer \in Nat
    BY <1>1, <1>2, ReadingLabels DEF TypeOK
<1>5. PICK snap : snap = Overlaid(latest, p, self[p].ws_wb, self[p].ws_tail)
    OBVIOUS
<1>6. /\ snap \in States
      /\ \A o \in Objects : snap[o] =
            IF copy_of[o] # Nothing /\ copy_of[o][1] = p THEN CopyVal(copy_of[o]) ELSE latest[o]
    BY <1>2, <1>3, <1>4, <1>5, Overlay
<1>19. PICK me : me = Top(p)
    OBVIOUS
<1>7. PICK g : g = [me EXCEPT !.pc = "commit_version", !.snap = snap]
    OBVIOUS
<1>8. g \in SectionFrames /\ g.pc = "commit_version" /\ g.snap = snap /\ g.op = me.op
  <2>1. "commit_version" \in InSection
      BY DEF InSection, Reading
  <2> QED BY <1>2, <1>6, <1>7, <1>19, <2>1 DEF SectionFrames
<1>9. FrameOK(g)
    BY <1>2, <1>6, <1>8, <1>19 DEF FrameOK, AtObject
<1>10. Put(p, g)
    BY <1>5, <1>7, <1>19 DEF localVersion
<1>11. PICK t : t = [self[p] EXCEPT !.local_version = version.writer]
    OBVIOUS
<1>12. /\ self' = [self EXCEPT ![p] = t] /\ t \in ThreadData /\ self[p] \in ThreadData
       /\ UNCHANGED <<version, copy_of, data, latest>>
  <2>1. self[p] \in ThreadData
      BY <1>2, ThreadType
  <2>2. t \in ThreadData
      BY <1>4, <1>11, <2>1 DEF ThreadData
  <2> QED BY <1>11, <2>1, <2>2 DEF localVersion
<1>13. self' \in [Threads -> ThreadData] /\ self'[p] = t
       /\ \A q \in Threads \ {p} : SameCore(q) /\ SameReader(q)
    BY <1>2, <1>12, SelfStep
<1>14. /\ SameCore(p) /\ t.local_version = version.writer
       /\ t.is_write_detected = self[p].is_write_detected
    BY <1>11, <1>12, <1>13 DEF SameCore, SameSets, Num, Buf, ThreadData
<1>15. Calm(p) /\ Pc(p)' = "commit_version" /\ Top(p)' = g
    BY <1>1, <1>8, <1>9, <1>10, <1>12, <1>13, <1>14, SectionPut DEF localVersion, history
<1>16. Flags(p)'
  <2>1. Num(p, Cur(p))' = Num(p, Cur(p)) /\ (Running(p)' <=> Running(p))
      BY <1>2, <1>14, SetsSame
  <2> QED BY <1>1, <1>2, <1>13, <1>14, <1>15, <2>1 DEF Flags, InSection, Reading
<1>17. SnapIsSeen(p)'
  <2> SUFFICES ASSUME NEW o \in Objects PROVE g.snap[o] = Seen(p, version.writer, o)'
      BY <1>12, <1>13, <1>14, <1>15 DEF SnapIsSeen, Seen
  <2>1. latest[o] = Seen(Nothing, version.writer, o)
      BY <1>2 DEF LatestIsSeen
  <2>2. copy_of[o] # Nothing => copy_of[o][1] # Nothing
      BY <1>2, CopyOfAddr, RluAssumption
  <2>3. snap[o] = Seen(p, version.writer, o)
      BY <1>6, <2>1, <2>2 DEF Seen
  <2>4. PICK v : v = version.writer
      OBVIOUS
  <2>5. Seen(p, v, o)' = Seen(p, v, o)
      BY <1>2, <1>15, CalmSeen
  <2> QED BY <1>8, <1>12, <2>3, <2>4, <2>5
<1>18. NoStealing(p)' /\ Steals(p)' /\ Loads(p)' /\ Changes(p)'
    BY <1>15 DEF NoStealing, Steals, Loads, Changes
<1> QED BY <1>1, <1>12, <1>13, <1>14, <1>15, <1>16, <1>17, <1>18, SectionStep

LEMMA CommitVersionStep ==
    ASSUME RluInv, version.writer < MAX_VERSION, NEW p \in Threads, scheme' = scheme, commitVersion(p)
    PROVE  RluInv'
<1>1. /\ Pc(p) = "commit_version" /\ Pc(p) \in InSection /\ Pc(p) \in Reading
      /\ {"writer_lock", "section"} \subseteq Reading
    BY AtIs DEF commitVersion, Reading, InSection
<1>2. /\ TypeOK /\ Top(p) \in SectionFrames /\ FrameOK(Top(p)) /\ Top(p).pc = Pc(p) /\ Local(p)
      /\ Flags(p) /\ SnapIsSeen(p) /\ Versions /\ self[p] \in ThreadData
    BY <1>1, SectionStack, ThreadType DEF RluInv, TypeOK, OfThread, Local
<1>3. PICK me, l : me = Top(p) /\ l = IF me.op.coarse THEN "writer_lock" ELSE "section"
    OBVIOUS
<1>4. l \in {"writer_lock", "section"}
    BY <1>3
<1>5. PICK g : g = [me EXCEPT !.pc = l]
    OBVIOUS
<1>6. Relabelled(me, g) /\ g.pc = l
    BY <1>1, <1>2, <1>3, <1>4, <1>5 DEF Relabelled, SectionFrames, InSection
<1>7. FrameOK(g)
  <2>1. l \notin AtObject
      BY <1>4 DEF AtObject
  <2> QED BY <1>1, <1>2, <1>3, <1>4, <1>6, <2>1, SectionGo DEF AtObject
<1>8. Put(p, g)
  <2>1. Go(p, l)
      BY <1>3 DEF commitVersion
  <2> QED BY <1>3, <1>5, <2>1 DEF Go
<1>20. PICK b, d : /\ b = ~(self[p].local_version = version.commit)
                  /\ d = (~(self[p].local_version = version.commit) \/ self[p].ws_tail # self[p].ws_wb)
    BY Zenon
<1>9. /\ b \in BOOLEAN /\ d \in BOOLEAN
      /\ b <=> self[p].local_version # version.commit
      /\ d <=> b \/ self[p].ws_tail # self[p].ws_wb
    BY <1>20
<1>10. PICK t : t = [self[p] EXCEPT !.is_steal = b, !.is_check_locks = d]
    OBVIOUS
<1>11. self' = [self EXCEPT ![p] = t] /\ UNCHANGED <<version, copy_of, data, latest>>
  <2>3. /\ self' = [self EXCEPT ![p].is_steal = b, ![p].is_check_locks = d]
        /\ UNCHANGED <<version, copy_of, data, latest>>
      BY <1>20, Zenon DEF commitVersion
  <2> QED BY <1>2, <1>10, <2>3 DEF TypeOK
<1>12. t \in ThreadData
    BY <1>2, <1>9, <1>10 DEF ThreadData
<1>13. self' \in [Threads -> ThreadData] /\ self'[p] = t
       /\ \A q \in Threads \ {p} : SameCore(q) /\ SameReader(q)
    BY <1>2, <1>11, <1>12, SelfStep
<1>14. /\ SameCore(p) /\ t.local_version = self[p].local_version
       /\ t.is_write_detected = self[p].is_write_detected /\ t.is_steal = b /\ t.is_check_locks = d
    BY <1>2, <1>10, <1>12, <1>13 DEF SameCore, SameSets, Num, Buf, ThreadData
<1>15. Calm(p) /\ Pc(p)' = l /\ Top(p)' = g
    BY <1>1, <1>4, <1>6, <1>7, <1>8, <1>11, <1>13, <1>14, SectionPut DEF Relabelled, commitVersion, history
<1>16. Flags(p)'
  <2>1. Num(p, Cur(p))' = Num(p, Cur(p)) /\ (Running(p)' <=> Running(p))
      BY <1>2, <1>14, SetsSame DEF Local
  <2>2. /\ ~t.is_write_detected
        /\ ~t.is_check_locks => ~t.is_steal /\ self[p].ws_tail = self[p].ws_wb
      BY <1>1, <1>2, <1>9, <1>14 DEF Flags
  <2>3. self'[p].ws_tail = self[p].ws_tail /\ self'[p].ws_wb = self[p].ws_wb
      BY <1>14 DEF SameCore
  <2> QED BY <1>1, <1>2, <1>4, <1>13, <1>14, <1>15, <2>1, <2>2, <2>3 DEF Flags, InSection
<1>17. SnapIsSeen(p)'
    BY <1>1, <1>2, <1>3, <1>6, <1>13, <1>14, <1>15, CalmSeen DEF SnapIsSeen, Relabelled
<1>18. NoStealing(p)'
  <2> SUFFICES ASSUME ~t.is_steal, NEW q \in Threads \ {p}
               PROVE  self'[q].writer_version > self[p].local_version
      BY <1>13, <1>14 DEF NoStealing
  <2>1. self[p].local_version = version.commit
      BY <1>9, <1>14
  <2>2. self'[q].writer_version = self[q].writer_version
      BY <1>13 DEF SameCore
  <2>3. VersionOf(q) /\ VersionOf(p)
      BY <1>2 DEF Versions
  <2>4. version.writer \in Nat /\ version.commit \in Nat /\ self[p].local_version <= version.writer
      BY <1>1, <1>2, <2>3 DEF TypeOK, VersionOf
  <2>5. CASE Pc(q) \notin HasVersion
      BY <2>2, <2>3, <2>4, <2>5, <1>2, ThreadType, RluAssumption DEF VersionOf
  <2>6. CASE Pc(q) \in HasVersion
    <3>1. Pc(q) = "announce" \/ Pc(q) \in Announced
        BY <2>6 DEF HasVersion, Announced
    <3>2. Top(q).version = version.commit + 1
        BY <2>3, <2>4, <3>1 DEF VersionOf
    <3> QED BY <2>1, <2>2, <2>3, <2>4, <2>6, <3>2 DEF VersionOf
  <2> QED BY <2>5, <2>6
<1>19. Steals(p)' /\ Loads(p)' /\ Changes(p)'
    BY <1>4, <1>15 DEF Steals, Loads, Changes
<1> QED BY <1>1, <1>4, <1>11, <1>13, <1>14, <1>15, <1>16, <1>17, <1>18, <1>19, SectionStep

-----------------------------------------------------------------------------
(***************************************************************************)
(* Steps that change write-sets, versions or objects.                      *)
(***************************************************************************)
LEMMA LoudStep ==
    ASSUME RluInv, TypeOK', NEW p \in Threads, OthersSame(p),
           CopiesLock', LockedHaveCopies', LatestIsSeen', Versions', OfThread(p)',
           \A q \in Threads \ {p} : Pc(q) \in Reading =>
              /\ Gentle(p, q)
              /\ \A o \in Objects : Seen(q, self[q].local_version, o)'
                                      = Seen(q, self[q].local_version, o),
           data' = data \/ \A q \in Threads \ {p} : Pc(q) # "unlock",
           Pc(p)' \in Reading => /\ Pc(p) \in Reading
                                 /\ self'[p].local_version = self[p].local_version
                                 /\ self'[p].run_counter = self[p].run_counter
    PROVE  RluInv'
<1>1. TypeOK /\ Local(p)
    BY DEF RluInv, OfThread
<1>2. ASSUME NEW q \in Threads \ {p} PROVE OfThread(q)'
  <2>1. OfThread(q) /\ Top(q)' = Top(q)
      BY DEF RluInv, OthersSame, Others
  <2>2. Pc(q) \in Waiting \cup Alone /\ Slow(q, p)' =>
           Slow(q, p) /\ self'[p].run_counter = self[p].run_counter
      BY <2>1 DEF Slow
  <2> QED BY <1>1, <2>1, <2>2, OthersStep
<1> QED BY <1>2 DEF RluInv

LEMMA LiveCopies ==
    ASSUME CopiesLock, LockedHaveCopies, NEW p \in Threads, copy_of' = copy_of, OthersSame(p),
           \A k \in Nat, i \in Nat :
              /\ LiveAt(p, k, i)' <=> LiveAt(p, k, i)
              /\ LiveAt(p, k, i) => Copy(p, WS_INDEX(k), i)'.obj = Copy(p, WS_INDEX(k), i).obj
    PROVE  CopiesLock' /\ LockedHaveCopies'
<1>1. ASSUME NEW q \in Threads, NEW k \in Nat, NEW i \in Nat
      PROVE  /\ LiveAt(q, k, i)' <=> LiveAt(q, k, i)
             /\ LiveAt(q, k, i) => Copy(q, WS_INDEX(k), i)'.obj = Copy(q, WS_INDEX(k), i).obj
  <2>1. CASE q = p
      BY <2>1
  <2>2. CASE q # p
      BY <2>2, LiveSame DEF OthersSame, Others
  <2> QED BY <2>1, <2>2
<1>2. CopiesLock'
  <2> SUFFICES ASSUME NEW q \in Threads, NEW k \in Nat, NEW i \in Nat, LiveAt(q, k, i)'
               PROVE  copy_of'[Copy(q, WS_INDEX(k), i)'.obj] = <<q, WS_INDEX(k), i>>
      BY DEF CopiesLock
  <2>1. LiveAt(q, k, i) /\ Copy(q, WS_INDEX(k), i)'.obj = Copy(q, WS_INDEX(k), i).obj
      BY <1>1
  <2>2. copy_of[Copy(q, WS_INDEX(k), i).obj] = <<q, WS_INDEX(k), i>>
      BY <2>1 DEF CopiesLock
  <2> QED BY <2>1, <2>2
<1>3. LockedHaveCopies'
  <2> SUFFICES ASSUME NEW o \in Objects, copy_of[o] # Nothing
               PROVE  \E q \in Threads : \E k \in Nat, i \in Nat :
                         /\ LiveAt(q, k, i)' /\ copy_of[o] = <<q, WS_INDEX(k), i>>
                         /\ Copy(q, WS_INDEX(k), i)'.obj = o
      BY DEF LockedHaveCopies
  <2>1. PICK q \in Threads : \E k \in Nat, i \in Nat :
          LiveAt(q, k, i) /\ copy_of[o] = <<q, WS_INDEX(k), i>> /\ Copy(q, WS_INDEX(k), i).obj = o
      BY DEF LockedHaveCopies
  <2>2. PICK k \in Nat, i \in Nat :
          LiveAt(q, k, i) /\ copy_of[o] = <<q, WS_INDEX(k), i>> /\ Copy(q, WS_INDEX(k), i).obj = o
      BY <2>1
  <2>3. LiveAt(q, k, i)' /\ Copy(q, WS_INDEX(k), i)'.obj = o
      BY <1>1, <2>2
  <2> QED BY <2>2, <2>3
<1> QED BY <1>2, <1>3

\* At version v the others see the same: either they see no copy of p at it, or
\* the copy is as it was.
LEMMA SeenSame ==
    ASSUME TypeOK, TypeOK', NEW p \in Threads, OthersSame(p), data' = data, NEW o \in Objects,
           NEW v, NEW r, r # p,
           \/ /\ self[p].writer_version > v /\ self'[p].writer_version > v
              /\ \/ copy_of'[o] = copy_of[o]
                 \/ /\ copy_of[o] # Nothing => copy_of[o][1] = p
                    /\ copy_of'[o] # Nothing => copy_of'[o][1] = p
           \/ /\ copy_of'[o] = copy_of[o]
              /\ copy_of[o] # Nothing /\ copy_of[o][1] = p =>
                    /\ self'[p].writer_version = self[p].writer_version
                    /\ CopyVal(copy_of[o])' = CopyVal(copy_of[o]),
           v \in Nat
    PROVE  Seen(r, v, o)' = Seen(r, v, o)
<1>1. ASSUME NEW c \in Addrs, c[1] # p
      PROVE  CopyVal(c)' = CopyVal(c) /\ self'[c[1]].writer_version = self[c[1]].writer_version
    BY <1>1, AddrIs, CopyValSame DEF OthersSame, SameCore
<1>2. self[p].writer_version \in Nat /\ self'[p].writer_version \in Nat
  <2>1. self'[p] \in ThreadData
      BY DEF TypeOK
  <2> QED BY <2>1, ThreadType DEF ThreadData
<1>3. /\ copy_of[o] # Nothing => copy_of[o] \in Addrs
      /\ copy_of'[o] # Nothing => copy_of'[o] \in Addrs
    BY DEF TypeOK
<1>4. CASE copy_of'[o] = copy_of[o]
  <2>1. CASE copy_of[o] = Nothing \/ copy_of[o][1] # p
      BY <1>1, <1>3, <1>4, <2>1 DEF Seen
  <2>2. CASE copy_of[o] # Nothing /\ copy_of[o][1] = p
      BY <1>2, <1>3, <1>4, <2>2 DEF Seen
  <2> QED BY <2>1, <2>2
<1>5. CASE /\ self[p].writer_version > v /\ self'[p].writer_version > v
           /\ copy_of[o] # Nothing => copy_of[o][1] = p
           /\ copy_of'[o] # Nothing => copy_of'[o][1] = p
  <2>1. Seen(r, v, o) = data[o]
      BY <1>2, <1>5 DEF Seen
  <2>2. Seen(r, v, o)' = data[o]
      BY <1>2, <1>5 DEF Seen
  <2> QED BY <2>1, <2>2
<1> QED BY <1>4, <1>5

\* Steps of a section change nothing that the others see.
LEMMA OthersSee ==
    ASSUME RluInv, TypeOK', NEW p \in Threads, OthersSame(p), data' = data, latest' = latest,
           version' = version, version.writer < MAX_VERSION,
           self[p].writer_version = MAX_VERSION, self'[p].writer_version > version.writer,
           \A o \in Objects : \/ copy_of'[o] = copy_of[o]
                              \/ /\ copy_of[o] # Nothing => copy_of[o][1] = p
                                 /\ copy_of'[o] # Nothing => copy_of'[o][1] = p
    PROVE  /\ LatestIsSeen'
           /\ \A q \in Threads \ {p} : Pc(q) \in Reading =>
                 /\ self'[p].writer_version > self[q].local_version
                 /\ \A o \in Objects : Seen(q, self[q].local_version, o)'
                                         = Seen(q, self[q].local_version, o)
<1>1. /\ TypeOK /\ version.writer \in Nat /\ self[p].writer_version \in Nat
      /\ self'[p].writer_version \in Nat
  <2>1. self'[p] \in ThreadData
      BY DEF TypeOK
  <2> QED BY <2>1, ThreadType DEF RluInv, TypeOK, ThreadData
<1>2. LatestIsSeen'
  <2> SUFFICES ASSUME NEW o \in Objects PROVE latest[o] = Seen(Nothing, version.writer, o)'
      BY DEF LatestIsSeen
  <2>1. PICK v \in Nat : v = version.writer
      BY <1>1
  <2>2. Seen(Nothing, v, o)' = Seen(Nothing, v, o)
      BY <1>1, <2>1, SeenSame, RluAssumption
  <2> QED BY <2>1, <2>2 DEF RluInv, LatestIsSeen
<1>3. ASSUME NEW q \in Threads \ {p}, Pc(q) \in Reading
      PROVE  /\ self'[p].writer_version > self[q].local_version
             /\ \A o \in Objects : Seen(q, self[q].local_version, o)'
                                     = Seen(q, self[q].local_version, o)
  <2>1. VersionOf(q) /\ self[q].local_version \in Nat
      BY <1>1, ThreadType DEF RluInv, Versions
  <2>2. self[q].local_version <= version.writer /\ self'[q].local_version = self[q].local_version
      BY <1>3, <2>1 DEF VersionOf, OthersSame, SameReader
  <2>3. PICK v \in Nat : v = self[q].local_version /\ v <= version.writer
      BY <2>1, <2>2
  <2>4. self[p].writer_version > v /\ self'[p].writer_version > v
      BY <1>1, <2>3
  <2>5. ASSUME NEW o \in Objects PROVE Seen(q, v, o)' = Seen(q, v, o)
      BY <1>1, <2>4, SeenSame
  <2> QED BY <2>2, <2>3, <2>4, <2>5
<1> QED BY <1>2, <1>3

\* The versions that a step outside write-backs leaves alone.
LEMMA OwnVersion ==
    ASSUME RluInv, TypeOK', NEW p \in Threads, OthersSame(p), version' = version,
           Pc(p) \notin WritingBack, Pc(p)' \notin WritingBack,
           self'[p].writer_version = self[p].writer_version,
           Pc(p)' \in Reading => Pc(p) \in Reading /\ self'[p].local_version = self[p].local_version
    PROVE  Versions' /\ self[p].writer_version = MAX_VERSION
<1>1. TypeOK /\ Versions /\ VersionOf(p)
    BY DEF RluInv, Versions
<1>2. /\ Pc(p) \notin HasVersion /\ Pc(p)' \notin HasVersion /\ Pc(p)' \notin Announced
      /\ Pc(p)' \notin {"writer_version", "announce"}
    BY WritingLabels
<1>3. VersionOf(p)'
    BY <1>1, <1>2 DEF VersionOf
<1> QED BY <1>1, <1>2, <1>3, CalmVersions DEF VersionOf

\* What Gentle asks of a step of a section that keeps its write-sets.
LEMMA GentleSection ==
    ASSUME NEW p \in Threads, NEW q \in Threads \ {p}, data' = data,
           self'[p].writer_version = self[p].writer_version,
           self'[p].writer_version > self[q].local_version,
           self'[p].ws_head = self[p].ws_head, self'[p].ws_tail >= self[p].ws_tail,
           \A o \in Objects : copy_of'[o] # copy_of[o] =>
              /\ copy_of[o] # Nothing => copy_of[o][1] = p
              /\ copy_of'[o] # Nothing => copy_of'[o][1] = p,
           \A k \in Nat : self[p].ws_head <= k /\ k < self[p].ws_tail =>
              Buf(p, WS_INDEX(k))' = Buf(p, WS_INDEX(k))
    PROVE  Gentle(p, q)
BY DEF Gentle

\* The run counters of copies.
LEMMA BuffersStep ==
    ASSUME TypeOK, NEW p \in Threads, Buffers(p),
           self'[p].run_counter \in Nat, self'[p].run_counter >= self[p].run_counter,
           \A w \in Slots : Buf(p, w)' = Buf(p, w) /\ Num(p, w)' \in Nat /\ Num(p, w)' <= Num(p, w)
    PROVE  Buffers(p)'
<1> SUFFICES ASSUME NEW w \in Slots
             PROVE  /\ Num(p, w)' <= Len(Buf(p, w)')
                    /\ \A i \in 1 .. Num(p, w)' : Copy(p, w, i)'.run_counter <= self'[p].run_counter
    BY DEF Buffers
<1>1. /\ Num(p, w) \in Nat /\ Num(p, w) <= Len(Buf(p, w)) /\ Buf(p, w) \in Seq(Copies)
      /\ self[p].run_counter \in Nat /\ Buf(p, w)' = Buf(p, w)
    BY ThreadType DEF Buffers
<1>2. ASSUME NEW i \in 1 .. Num(p, w)'
      PROVE  Copy(p, w, i)'.run_counter <= self'[p].run_counter
  <2>0. i \in 1 .. Num(p, w)
      BY <1>1
  <2>1. Copy(p, w, i) \in Copies
      BY <1>1, <2>0 DEF Copy
  <2>2. Copy(p, w, i).run_counter \in Nat
      BY <2>1 DEF Copies
  <2>3. Copy(p, w, i).run_counter <= self[p].run_counter
      BY <2>0 DEF Buffers
  <2>4. Copy(p, w, i)' = Copy(p, w, i)
      BY <1>1 DEF Copy
  <2> QED BY <1>1, <2>2, <2>3, <2>4
<1> QED BY <1>1, <1>2

LEMMA OlderStep ==
    ASSUME TypeOK, NEW p \in Threads, Buffers(p), Older(p),
           self'[p].run_counter \in Nat, self'[p].run_counter >= self[p].run_counter,
           self'[p].ws_wb \in Nat, self'[p].ws_tail \in Nat,
           \A k \in Nat : self'[p].ws_wb <= k /\ k < self'[p].ws_tail =>
              /\ \/ self[p].ws_wb <= k /\ k < self[p].ws_tail
                 \/ self'[p].run_counter > self[p].run_counter
              /\ Buf(p, WS_INDEX(k))' = Buf(p, WS_INDEX(k))
              /\ Num(p, WS_INDEX(k))' <= Num(p, WS_INDEX(k)) /\ Num(p, WS_INDEX(k))' \in Nat
    PROVE  Older(p)'
<1> SUFFICES ASSUME NEW k \in self'[p].ws_wb .. self'[p].ws_tail - 1, NEW i \in 1 .. Num(p, WS_INDEX(k))'
             PROVE  Copy(p, WS_INDEX(k), i)'.run_counter < self'[p].run_counter
    BY DEF Older
<1>1. k \in Nat /\ self'[p].ws_wb <= k /\ k < self'[p].ws_tail
    OBVIOUS
<1>2. WS_INDEX(k) \in Slots
    BY <1>1, WsSlots
<1>3. /\ Num(p, WS_INDEX(k)) \in Nat /\ Buf(p, WS_INDEX(k)) \in Seq(Copies)
      /\ Num(p, WS_INDEX(k)) <= Len(Buf(p, WS_INDEX(k)))
      /\ self[p].run_counter \in Nat /\ self[p].ws_wb \in Nat /\ self[p].ws_tail \in Nat
    BY <1>2, ThreadType DEF Buffers
<1>4. /\ Buf(p, WS_INDEX(k))' = Buf(p, WS_INDEX(k)) /\ i \in 1 .. Num(p, WS_INDEX(k))
      /\ \/ k \in self[p].ws_wb .. self[p].ws_tail - 1
         \/ self'[p].run_counter > self[p].run_counter
    BY <1>1, <1>3
<1>5. Copy(p, WS_INDEX(k), i) \in Copies
    BY <1>3, <1>4 DEF Copy
<1>6. Copy(p, WS_INDEX(k), i).run_counter \in Nat
    BY <1>5 DEF Copies
<1>7. Copy(p, WS_INDEX(k), i).run_counter <= self[p].run_counter
    BY <1>2, <1>4 DEF Buffers
<1>8. k \in self[p].ws_wb .. self[p].ws_tail - 1 =>
        Copy(p, WS_INDEX(k), i).run_counter < self[p].run_counter
    BY <1>4 DEF Older
<1> QED BY <1>3, <1>4, <1>6, <1>7, <1>8 DEF Copy

LEMMA RegisterStep ==
    ASSUME RluInv, version.writer < MAX_VERSION, NEW p \in Threads, scheme' = scheme, register(p)
    PROVE  RluInv'
<1>0. /\ At(p, "register") /\ UNCHANGED <<version, writer_lock, copy_of, data, freed, latest, history>>
      /\ self' = [self EXCEPT ![p].run_counter = @ + 1, ![p].is_write_detected = FALSE]
      /\ Go(p, "local_version")
    BY DEF register
<1>1. /\ Pc(p) = "register" /\ Pc(p) \in Outside /\ "local_version" \in InSection
      /\ "local_version" \notin Reading
    BY <1>0, AtIs DEF Reading, InSection, Outside
<1>2. /\ TypeOK /\ Top(p) \in SectionFrames /\ FrameOK(Top(p)) /\ Top(p).pc = Pc(p) /\ Local(p)
      /\ StacksOK /\ Sets(p) /\ Flags(p) /\ Position(p) /\ CopiesLock /\ LockedHaveCopies
    BY <1>1, SectionStack DEF RluInv, TypeOK, OfThread, Local
<1>3. PICK me : me = Top(p)
    OBVIOUS
<1>4. PICK g : g = [me EXCEPT !.pc = "local_version"]
    OBVIOUS
<1>5. g \in SectionFrames /\ g.pc = "local_version" /\ g.op = me.op
    BY <1>1, <1>2, <1>3, <1>4 DEF SectionFrames
<1>6. FrameOK(g)
    BY <1>1, <1>2, <1>3, <1>5 DEF FrameOK, AtObject
<1>7. Becomes(p, g)
    BY <1>0, <1>1, <1>2, <1>3, <1>4, <1>5, <1>6, PutSection DEF Go
<1>25. PICK n \in Nat : n = self[p].run_counter + 1
    BY <1>2, ThreadType
<1>8. PICK t : t = [self[p] EXCEPT !.run_counter = n, !.is_write_detected = FALSE]
    OBVIOUS
<1>9. self[p] \in ThreadData /\ t \in ThreadData /\ self' = [self EXCEPT ![p] = t]
  <2>1. self[p] \in ThreadData
      BY <1>2, ThreadType
  <2>2. t \in ThreadData
      BY <1>8, <2>1 DEF ThreadData
  <2> QED BY <1>0, <1>2, <1>8, <1>25, <2>1, <2>2 DEF TypeOK
<1>10. self' \in [Threads -> ThreadData] /\ self'[p] = t
       /\ \A q \in Threads \ {p} : SameCore(q) /\ SameReader(q)
    BY <1>2, <1>9, SelfStep
<1>11. /\ t.run_counter = self[p].run_counter + 1 /\ ~t.is_write_detected
       /\ t.writer_version = self[p].writer_version /\ t.ws_head = self[p].ws_head
       /\ t.ws_wb = self[p].ws_wb /\ t.ws_tail = self[p].ws_tail
       /\ t.max_write_sets = self[p].max_write_sets /\ t.sets = self[p].sets
    BY <1>8, <1>9, <1>25 DEF ThreadData
<1>12. OthersSame(p) /\ TypeOK' /\ Pc(p)' = "local_version"
    BY <1>0, <1>2, <1>5, <1>7, <1>10 DEF OthersSame, Becomes, TypeOK, history
<1>13. SameSets(p) /\ \A k \in Nat : Buf(p, WS_INDEX(k))' = Buf(p, WS_INDEX(k))
    BY <1>10, <1>11 DEF SameSets, Num, Buf
<1>14. self[p].run_counter \in Nat /\ ~Running(p) /\ Running(p)'
  <2>1. ~Running(p) /\ self[p].run_counter \in Nat
      BY <1>1, <1>2, OutsideLabels, StillLabels, ThreadType DEF Flags
  <2>2. (self[p].run_counter + 1) % 2 = 1
      BY <2>1 DEF Running
  <2> QED BY <1>10, <1>11, <2>1, <2>2 DEF Running
<1>15. /\ self[p].ws_tail < self[p].ws_wb + self[p].max_write_sets
       /\ Num(p, Cur(p)) = 0
  <2>1. self[p].ws_tail < self[p].ws_wb + self[p].max_write_sets
      BY <1>1, <1>2, OutsideLabels DEF Position
  <2> QED BY <1>2, <1>14, <2>1, NextIsEmpty
<1>16. Pos(p)' = Pos(p)
    BY <1>1, <1>12, OutsideLabels, StillLabels, ReadingLabels, NoPosition
<1>17. CopiesLock' /\ LockedHaveCopies'
  <2>1. ASSUME NEW k \in Nat, NEW i \in Nat
        PROVE  /\ LiveAt(p, k, i)' <=> LiveAt(p, k, i)
               /\ Copy(p, WS_INDEX(k), i)' = Copy(p, WS_INDEX(k), i)
    <3>1. /\ Num(p, WS_INDEX(k))' = Num(p, WS_INDEX(k)) /\ Buf(p, WS_INDEX(k))' = Buf(p, WS_INDEX(k))
        BY <1>13, WsSlots DEF SameSets
    <3> QED BY <1>10, <1>11, <1>14, <1>15, <1>16, <3>1 DEF LiveAt, Copy, Cur
  <2> QED BY <1>0, <1>2, <1>12, <2>1, LiveCopies
<1>18. Versions' /\ self[p].writer_version = MAX_VERSION
  <2>1. Pc(p) \notin WritingBack /\ Pc(p)' \notin WritingBack /\ Pc(p)' \notin Reading
      BY <1>1, <1>12, OutsideLabels, StillLabels, ReadingLabels
  <2> QED BY <1>0, <1>10, <1>11, <1>12, <2>1, OwnVersion
<1>19. /\ LatestIsSeen'
       /\ \A q \in Threads \ {p} : Pc(q) \in Reading =>
                 /\ self'[p].writer_version > self[q].local_version
                 /\ \A o \in Objects : Seen(q, self[q].local_version, o)'
                                         = Seen(q, self[q].local_version, o)
    BY <1>0, <1>2, <1>10, <1>11, <1>12, <1>18, OthersSee, RluAssumption DEF TypeOK
<1>20. ASSUME NEW q \in Threads \ {p}, Pc(q) \in Reading PROVE Gentle(p, q)
  <2>1. self'[p].ws_tail >= self[p].ws_tail
      BY <1>2, <1>10, <1>11, ThreadType
  <2> QED BY <1>0, <1>10, <1>11, <1>13, <1>19, <1>20, <2>1, GentleSection
<1>21. Sets(p)'
  <2>1. Counts(p)'
      BY <1>2, <1>10, <1>11 DEF Sets, Counts
  <2>2. Empty(p)'
      BY <1>2, <1>10, <1>11, <1>13, <1>14 DEF Sets, Empty, SameSets
  <2>3. \A w \in Slots : Buf(p, w)' = Buf(p, w) /\ Num(p, w)' = Num(p, w) /\ Num(p, w) \in Nat
      BY <1>2, <1>13, ThreadType DEF SameSets
  <2>4. self'[p].run_counter \in Nat /\ self'[p].run_counter > self[p].run_counter
      BY <1>10, <1>11, <1>14
  <2>5. Buffers(p)'
      BY <1>2, <1>14, <2>3, <2>4, BuffersStep DEF Sets
  <2>6. Older(p)'
    <3>1. /\ self'[p].ws_wb = self[p].ws_wb /\ self'[p].ws_tail = self[p].ws_tail
          /\ self[p].ws_wb \in Nat /\ self[p].ws_tail \in Nat
        BY <1>2, <1>10, <1>11, ThreadType
    <3>2. \A k \in Nat : /\ Buf(p, WS_INDEX(k))' = Buf(p, WS_INDEX(k))
                         /\ Num(p, WS_INDEX(k))' <= Num(p, WS_INDEX(k)) /\ Num(p, WS_INDEX(k))' \in Nat
        BY <2>3, WsSlots
    <3> QED BY <1>2, <1>14, <2>4, <3>1, <3>2, OlderStep DEF Sets
  <2> QED BY <2>1, <2>2, <2>5, <2>6 DEF Sets
<1>22. Flags(p)'
  <2>1. Num(p, Cur(p))' = 0
    <3>1. Cur(p) \in Slots
        BY <1>2, ThreadType, WsSlots DEF Cur
    <3> QED BY <1>10, <1>11, <1>13, <1>15, <3>1 DEF Cur, SameSets
  <2> QED BY <1>1, <1>10, <1>11, <1>12, <1>14, <2>1 DEF Flags
<1>23. Position(p)'
    BY <1>10, <1>11, <1>12, <1>15, ReadingLabels, <1>1 DEF Position
<1>24. OfThread(p)'
    BY <1>1, <1>12, <1>21, <1>22, <1>23
    DEF OfThread, Local, WrittenBack, SnapIsSeen, NoStealing, Steals, Loads, Changes, Waits, Alone, Writes
<1> QED BY <1>0, <1>1, <1>12, <1>17, <1>18, <1>19, <1>20, <1>24, LoudStep

\* The write-set of a section is none of those before it.
LEMMA CurApart ==
    ASSUME TypeOK, NEW p \in Threads, Sets(p), self[p].ws_tail < self[p].ws_wb + self[p].max_write_sets
    PROVE  /\ Cur(p) \in Slots
           /\ \A k \in Nat : self[p].ws_head <= k /\ k < self[p].ws_tail => WS_INDEX(k) # Cur(p)
           /\ self[p].ws_head <= self[p].ws_wb
<1>1. /\ self[p].ws_head \in Nat /\ self[p].ws_wb \in Nat /\ self[p].ws_tail \in Nat
      /\ self[p].max_write_sets \in Nat /\ Counts(p) /\ RLU_MAX_WRITE_SETS \in Nat
    BY ThreadType, RluAssumption DEF Sets
<1>2. self[p].ws_tail < self[p].ws_head + RLU_MAX_WRITE_SETS /\ self[p].ws_head <= self[p].ws_wb
    BY <1>1 DEF Counts
<1>3. ASSUME NEW k \in Nat, self[p].ws_head <= k, k < self[p].ws_tail
      PROVE  WS_INDEX(k) # Cur(p)
    BY <1>1, <1>2, <1>3, WsDiffer DEF Cur
<1>4. Cur(p) \in Slots
    BY <1>1, WsSlots DEF Cur
<1> QED BY <1>2, <1>3, <1>4

\* One write-set of a thread changes.
SetTo(p, w, ws) == self' = [self EXCEPT ![p].sets[w] = ws]

SetIs(p, w, ws) ==
    /\ self' \in [Threads -> ThreadData]
    /\ \A q \in Threads \ {p} : SameCore(q) /\ SameReader(q)
    /\ SameReader(p)
    /\ self'[p].run_counter = self[p].run_counter
    /\ self'[p].writer_version = self[p].writer_version
    /\ self'[p].ws_head = self[p].ws_head /\ self'[p].ws_wb = self[p].ws_wb
    /\ self'[p].ws_tail = self[p].ws_tail /\ self'[p].max_write_sets = self[p].max_write_sets
    /\ Num(p, w)' = ws.num_of_objs /\ Buf(p, w)' = ws.buffer
    /\ \A v \in Slots \ {w} : Num(p, v)' = Num(p, v) /\ Buf(p, v)' = Buf(p, v)

LEMMA SetStep ==
    ASSUME TypeOK, NEW p \in Threads, NEW w \in Slots, NEW ws \in WriteSets, SetTo(p, w, ws)
    PROVE  SetIs(p, w, ws)
<1>1. self[p] \in ThreadData /\ self[p].sets \in [Slots -> WriteSets]
    BY ThreadType
<1>2. PICK sets : sets = [self[p].sets EXCEPT ![w] = ws]
    OBVIOUS
<1>3. /\ sets \in [Slots -> WriteSets] /\ sets[w] = ws
      /\ \A v \in Slots \ {w} : sets[v] = self[p].sets[v]
    BY <1>1, <1>2
<1>4. PICK t : t = [self[p] EXCEPT !.sets = sets]
    OBVIOUS
<1>5. t \in ThreadData
    BY <1>1, <1>3, <1>4 DEF ThreadData
<1>6. self' = [self EXCEPT ![p] = t]
    BY <1>2, <1>4 DEF SetTo
<1>7. self' \in [Threads -> ThreadData] /\ self'[p] = t
      /\ \A q \in Threads \ {p} : SameCore(q) /\ SameReader(q)
    BY <1>5, <1>6, SelfStep
<1>8. /\ t.sets = sets /\ t.run_counter = self[p].run_counter
      /\ t.writer_version = self[p].writer_version
      /\ t.ws_head = self[p].ws_head /\ t.ws_wb = self[p].ws_wb
      /\ t.ws_tail = self[p].ws_tail /\ t.max_write_sets = self[p].max_write_sets
      /\ t.local_version = self[p].local_version /\ t.is_check_locks = self[p].is_check_locks
      /\ t.is_steal = self[p].is_steal /\ t.is_write_detected = self[p].is_write_detected
    BY <1>1, <1>4 DEF ThreadData
<1> QED BY <1>3, <1>7, <1>8 DEF SetIs, SameReader, Num, Buf

\* The buffer of a write-set with one more copy.
LEMMA BufferMore ==
    ASSUME NEW b \in Seq(Copies), NEW n \in Nat, n <= Len(b), NEW c \in Copies,
           NEW d, d = IF n + 1 \in DOMAIN b THEN [b EXCEPT ![n + 1] = c] ELSE Append(b, c)
    PROVE  d \in Seq(Copies) /\ n + 1 <= Len(d) /\ d[n + 1] = c /\ \A j \in 1 .. n : d[j] = b[j]
<1>1. CASE n + 1 \in DOMAIN b
    BY <1>1
<1>2. CASE n + 1 \notin DOMAIN b
  <2>1. Len(b) = n
      BY <1>2
  <2> QED BY <1>2, <2>1
<1> QED BY <1>1, <1>2

\* Objects that p locks and unlocks.
LEMMA LiveChange ==
    ASSUME TypeOK, CopiesLock, LockedHaveCopies, \A q \in Threads : Buffers(q),
           NEW p \in Threads, OthersSame(p),
           \A o \in Objects : copy_of[o] # Nothing /\ copy_of[o][1] # p => copy_of'[o] = copy_of[o],
           \A k \in Nat, i \in Nat :
              LiveAt(p, k, i)' => copy_of'[Copy(p, WS_INDEX(k), i)'.obj] = <<p, WS_INDEX(k), i>>,
           \A o \in Objects : copy_of'[o] # Nothing /\ (copy_of[o] = Nothing \/ copy_of[o][1] = p) =>
              \E k \in Nat, i \in Nat :
                 /\ LiveAt(p, k, i)' /\ copy_of'[o] = <<p, WS_INDEX(k), i>>
                 /\ Copy(p, WS_INDEX(k), i)'.obj = o
    PROVE  CopiesLock' /\ LockedHaveCopies'
<1>1. ASSUME NEW q \in Threads \ {p}, NEW k \in Nat, NEW i \in Nat
      PROVE  /\ LiveAt(q, k, i)' <=> LiveAt(q, k, i)
             /\ Copy(q, WS_INDEX(k), i)' = Copy(q, WS_INDEX(k), i)
    BY LiveSame DEF OthersSame, Others
<1>2. CopiesLock'
  <2> SUFFICES ASSUME NEW q \in Threads, NEW k \in Nat, NEW i \in Nat, LiveAt(q, k, i)'
               PROVE  copy_of'[Copy(q, WS_INDEX(k), i)'.obj] = <<q, WS_INDEX(k), i>>
      BY DEF CopiesLock
  <2>0. CASE q = p
      BY <2>0
  <2> SUFFICES ASSUME q # p PROVE copy_of'[Copy(q, WS_INDEX(k), i)'.obj] = <<q, WS_INDEX(k), i>>
      BY <2>0
  <2>1. LiveAt(q, k, i) /\ Copy(q, WS_INDEX(k), i)' = Copy(q, WS_INDEX(k), i)
      BY <1>1
  <2>2. copy_of[Copy(q, WS_INDEX(k), i).obj] = <<q, WS_INDEX(k), i>>
      BY <2>1 DEF CopiesLock
  <2>3. Copy(q, WS_INDEX(k), i).obj \in Objects /\ <<q, WS_INDEX(k), i>> \in Addrs
    <3>1. WS_INDEX(k) \in Slots /\ i \in 1 .. Num(q, WS_INDEX(k)) /\ i \in Nat \ {0}
        BY <2>1, WsSlots, ThreadType DEF LiveAt
    <3>2. Buf(q, WS_INDEX(k)) \in Seq(Copies) /\ i <= Len(Buf(q, WS_INDEX(k)))
        BY <3>1, ThreadType DEF Buffers
    <3> QED BY <3>1, <3>2 DEF Copy, Copies, Addrs
  <2> QED BY <2>1, <2>2, <2>3, AddrIs
<1>3. LockedHaveCopies'
  <2> SUFFICES ASSUME NEW o \in Objects, copy_of'[o] # Nothing
               PROVE  \E q \in Threads : \E k \in Nat, i \in Nat :
                         /\ LiveAt(q, k, i)' /\ copy_of'[o] = <<q, WS_INDEX(k), i>>
                         /\ Copy(q, WS_INDEX(k), i)'.obj = o
      BY DEF LockedHaveCopies
  <2>1. CASE copy_of[o] = Nothing \/ copy_of[o][1] = p
      BY <2>1
  <2>2. CASE copy_of[o] # Nothing /\ copy_of[o][1] # p
    <3>1. PICK q \in Threads : \E k \in Nat, i \in Nat :
            LiveAt(q, k, i) /\ copy_of[o] = <<q, WS_INDEX(k), i>> /\ Copy(q, WS_INDEX(k), i).obj = o
        BY <2>2 DEF LockedHaveCopies
    <3>2. PICK k \in Nat, i \in Nat :
            LiveAt(q, k, i) /\ copy_of[o] = <<q, WS_INDEX(k), i>> /\ Copy(q, WS_INDEX(k), i).obj = o
        BY <3>1
    <3>5. copy_of'[o] = copy_of[o]
        BY <2>2
    <3>6. <<q, WS_INDEX(k), i>>[1] = q
        OBVIOUS
    <3>3. q # p /\ copy_of'[o] = copy_of[o]
        BY <2>2, <3>2, <3>5, <3>6
    <3>4. LiveAt(q, k, i)' /\ Copy(q, WS_INDEX(k), i)'.obj = o
        BY <1>1, <3>2, <3>3
    <3> QED BY <3>2, <3>3, <3>4
  <2> QED BY <2>1, <2>2
<1> QED BY <1>2, <1>3

\* What p itself sees.
LEMMA OwnSeen ==
    ASSUME TypeOK, NEW p \in Threads, OthersSame(p), NEW v, NEW o \in Objects,
           copy_of'[o] = copy_of[o], data'[o] = data[o],
           copy_of[o] # Nothing /\ copy_of[o][1] = p => CopyVal(copy_of[o])' = CopyVal(copy_of[o])
    PROVE  Seen(p, v, o)' = Seen(p, v, o)
<1>1. ASSUME NEW c \in Addrs, c[1] # p
      PROVE  CopyVal(c)' = CopyVal(c) /\ self'[c[1]].writer_version = self[c[1]].writer_version
    BY <1>1, AddrIs, CopyValSame DEF OthersSame, SameCore
<1>2. copy_of[o] # Nothing => copy_of[o] \in Addrs
    BY DEF TypeOK
<1>3. CASE copy_of[o] = Nothing
    BY <1>3 DEF Seen
<1>4. CASE copy_of[o] # Nothing /\ copy_of[o][1] = p
    BY <1>4 DEF Seen
<1>5. CASE copy_of[o] # Nothing /\ copy_of[o][1] # p
    BY <1>1, <1>2, <1>5 DEF Seen
<1> QED BY <1>3, <1>4, <1>5

NewSet(ws, n, b) == [ws EXCEPT !.num_of_objs = n, !.buffer = b]

LEMMA NewSetIs ==
    ASSUME NEW ws \in WriteSets, NEW n \in Nat, NEW b \in Seq(Copies)
    PROVE  LET new == NewSet(ws, n, b) IN
           new \in WriteSets /\ new.num_of_objs = n /\ new.buffer = b
BY DEF NewSet, WriteSets

LEMMA LockOK ==
    ASSUME RluInv, version.writer < MAX_VERSION, NEW p \in Threads, scheme' = scheme, lock(p),
           copy_of[Top(p).at] = Nothing
    PROVE  RluInv'
<1>0. /\ At(p, "lock") /\ UNCHANGED <<version, writer_lock, data, freed, latest, history>>
      /\ copy_of' = [copy_of EXCEPT ![Top(p).at] = <<p, Cur(p), Num(p, Cur(p)) + 1>>]
      /\ self' = [self EXCEPT ![p].sets[Cur(p)] =
                   NewSet(self[p].sets[Cur(p)], Num(p, Cur(p)) + 1,
                      IF Num(p, Cur(p)) + 1 \in DOMAIN Buf(p, Cur(p))
                        THEN [Buf(p, Cur(p)) EXCEPT ![Num(p, Cur(p)) + 1] = CopyOf(p, Top(p).at)]
                        ELSE Append(Buf(p, Cur(p)), CopyOf(p, Top(p).at)))]
      /\ Go(p, "change")
    BY DEF lock, Num, Buf, NewSet
<1>1. Pc(p) = "lock" /\ Pc(p) \in Reading /\ "change" \in Reading
    BY <1>0, AtIs DEF Reading
<1>2. /\ TypeOK /\ Top(p) \in SectionFrames /\ FrameOK(Top(p)) /\ Top(p).pc = Pc(p) /\ Local(p)
      /\ StacksOK /\ Sets(p) /\ Flags(p) /\ Position(p) /\ CopiesLock /\ LockedHaveCopies
      /\ Top(p).at \in Objects /\ Top(p).snap \in States
    BY <1>1, SectionStack, ReadingTop DEF RluInv, TypeOK, OfThread, Local, InSection, AtObject
<1>3. PICK me : me = Top(p)
    OBVIOUS
<1>4. PICK g : g = [me EXCEPT !.pc = "change"]
    OBVIOUS
<1>5. Relabelled(me, g) /\ g.pc = "change"
    BY <1>1, <1>2, <1>3, <1>4 DEF SectionFrames, Relabelled, InSection
<1>6. FrameOK(g) /\ g \in SectionFrames
    BY <1>1, <1>2, <1>3, <1>5, SectionGo DEF Relabelled, AtObject
<1>7. Becomes(p, g)
    BY <1>0, <1>1, <1>2, <1>3, <1>4, <1>6, PutSection DEF Go, InSection
<1>8. PICK at : at = Top(p).at
    OBVIOUS
<1>9. /\ Cur(p) \in Slots /\ self[p].ws_tail \in Nat
      /\ \A k \in Nat : self[p].ws_head <= k /\ k < self[p].ws_tail => WS_INDEX(k) # Cur(p)
      /\ self[p].ws_head <= self[p].ws_wb
    BY <1>1, <1>2, ReadingLabels, CurApart, ThreadType DEF Position, InSection
<1>42. /\ self[p].ws_head \in Nat /\ self[p].ws_wb \in Nat /\ self[p].ws_tail \in Nat
       /\ self[p].ws_head <= self[p].ws_wb /\ self[p].ws_wb <= self[p].ws_tail
    BY <1>2, ThreadType DEF Sets, Counts
<1>10. PICK w \in Slots : w = Cur(p)
    BY <1>9
<1>11. PICK n \in Nat : n = Num(p, w)
    BY <1>2, ThreadType
<1>12. PICK b \in Seq(Copies) : b = Buf(p, w) /\ n <= Len(b)
    BY <1>2, <1>11, ThreadType DEF Sets, Buffers
<1>13. PICK c : c = CopyOf(p, at)
    OBVIOUS
<1>14. c \in Copies /\ c.obj = at /\ c.run_counter = self[p].run_counter /\ c.val = data[at]
    BY <1>2, <1>8, <1>13, ThreadType DEF CopyOf, Copies, TypeOK, States
<1>15. PICK d : d = IF n + 1 \in DOMAIN b THEN [b EXCEPT ![n + 1] = c] ELSE Append(b, c)
    OBVIOUS
<1>16. d \in Seq(Copies) /\ n + 1 <= Len(d) /\ d[n + 1] = c /\ \A j \in 1 .. n : d[j] = b[j]
    BY <1>12, <1>14, <1>15, BufferMore
<1>41. PICK x \in WriteSets : x = self[p].sets[w]
    BY <1>2, ThreadType
<1>44. PICK m \in Nat : m = n + 1
    BY <1>11
<1>17. PICK ws : ws = NewSet(x, m, d)
    OBVIOUS
<1>18. ws \in WriteSets /\ ws.num_of_objs = n + 1 /\ ws.buffer = d
  <2>1. d \in Seq(Copies)
      BY <1>16
  <2>2. NewSet(x, m, d) \in WriteSets /\ NewSet(x, m, d).num_of_objs = m /\ NewSet(x, m, d).buffer = d
      BY ONLY <2>1, NewSetIs, x \in WriteSets, m \in Nat
  <2> QED BY <1>17, <1>44, <2>2
<1>19. self' = [self EXCEPT ![p].sets[w] = ws]
    BY <1>0, <1>8, <1>10, <1>11, <1>12, <1>13, <1>15, <1>17, <1>41, <1>44, Zenon
<1>20. /\ self' \in [Threads -> ThreadData]
       /\ \A q \in Threads \ {p} : SameCore(q) /\ SameReader(q)
       /\ SameReader(p)
       /\ self'[p].run_counter = self[p].run_counter
       /\ self'[p].writer_version = self[p].writer_version
       /\ self'[p].ws_head = self[p].ws_head /\ self'[p].ws_wb = self[p].ws_wb
       /\ self'[p].ws_tail = self[p].ws_tail /\ self'[p].max_write_sets = self[p].max_write_sets
       /\ Num(p, w)' = n + 1 /\ Buf(p, w)' = d
       /\ \A v \in Slots \ {w} : Num(p, v)' = Num(p, v) /\ Buf(p, v)' = Buf(p, v)
  <2>1. SetIs(p, w, ws)
      BY <1>2, <1>10, <1>18, <1>19, SetStep DEF SetTo
  <2> QED BY <2>1, <1>18 DEF SetIs
<1>21. /\ copy_of' \in [Objects -> Addrs \cup {Nothing}] /\ copy_of'[at] = <<p, w, n + 1>>
       /\ \A o \in Objects \ {at} : copy_of'[o] = copy_of[o]
       /\ copy_of[at] = Nothing /\ at \in Objects
  <2>1. <<p, w, n + 1>> \in Addrs
      BY DEF Addrs
  <2> QED BY <1>0, <1>2, <1>8, <1>10, <1>11, <2>1 DEF TypeOK
<1>22. OthersSame(p) /\ TypeOK' /\ Pc(p)' = "change" /\ Top(p)' = g
    BY <1>0, <1>2, <1>5, <1>7, <1>20, <1>21 DEF OthersSame, Becomes, TypeOK, history
<1>23. Running(p) /\ Running(p)' /\ self[p].is_write_detected
    BY <1>1, <1>2, <1>20 DEF Flags, Running, InSection
<1>24. Pos(p) = <<0, 1>> /\ Pos(p)' = <<0, 1>>
    BY <1>1, <1>22, ReadingLabels DEF Pos, InSection, Writes
<1>25. ASSUME NEW k \in Nat, self[p].ws_wb <= k, k <= self[p].ws_tail
       PROVE  /\ k < self[p].ws_tail => WS_INDEX(k) \in Slots \ {w}
              /\ k = self[p].ws_tail => WS_INDEX(k) = w
  <2>1. self[p].ws_head \in Nat /\ self[p].ws_wb \in Nat
      BY <1>2, ThreadType
  <2> QED BY <1>9, <1>10, <1>25, <2>1, WsSlots DEF Cur
<1>26. ASSUME NEW k \in Nat, NEW i \in Nat
       PROVE  /\ LiveAt(p, k, i) => LiveAt(p, k, i)' /\ Copy(p, WS_INDEX(k), i)' = Copy(p, WS_INDEX(k), i)
              /\ LiveAt(p, k, i)' => LiveAt(p, k, i) \/ (k = self[p].ws_tail /\ i = n + 1)
              /\ k = self[p].ws_tail /\ i = n + 1 =>
                    LiveAt(p, k, i)' /\ Copy(p, WS_INDEX(k), i)' = c /\ WS_INDEX(k) = w
  <2>1. self[p].ws_wb \in Nat /\ self[p].ws_tail \in Nat /\ self[p].ws_wb <= self[p].ws_tail
      BY <1>2, ThreadType DEF Sets, Counts
  <2>2. CASE ~(self[p].ws_wb <= k /\ k <= self[p].ws_tail)
      BY <1>20, <2>1, <2>2 DEF LiveAt
  <2>3. CASE self[p].ws_wb <= k /\ k < self[p].ws_tail
    <3>1. WS_INDEX(k) \in Slots \ {w}
        BY <1>25, <2>1, <2>3
    <3>2. Num(p, WS_INDEX(k))' = Num(p, WS_INDEX(k)) /\ Buf(p, WS_INDEX(k))' = Buf(p, WS_INDEX(k))
        BY <1>20, <3>1
    <3>3. k # self[p].ws_tail
        BY <2>1, <2>3
    <3> QED BY <1>20, <1>23, <1>24, <3>2, <3>3 DEF LiveAt, Copy
  <2>4. CASE k = self[p].ws_tail
    <3>1. WS_INDEX(k) = w
        BY <1>25, <2>1, <2>4
    <3>2. LiveAt(p, k, i) <=> i \in 1 .. n
        BY <1>11, <1>23, <1>24, <2>1, <2>4, <3>1 DEF LiveAt
    <3>3. LiveAt(p, k, i)' <=> i \in 1 .. n + 1
        BY <1>20, <1>23, <1>24, <2>1, <2>4, <3>1 DEF LiveAt
    <3>4. i \in 1 .. n => Copy(p, w, i)' = Copy(p, w, i)
        BY <1>12, <1>16, <1>20 DEF Copy
    <3>5. i = n + 1 => Copy(p, w, i)' = c
        BY <1>16, <1>20 DEF Copy
    <3> QED BY <2>4, <3>1, <3>2, <3>3, <3>4, <3>5
  <2> QED BY <2>1, <2>2, <2>3, <2>4
<1>27. CopiesLock' /\ LockedHaveCopies'
  <2>1. \A o \in Objects : copy_of[o] # Nothing => copy_of'[o] = copy_of[o]
      BY <1>21
  <2>2. ASSUME NEW k \in Nat, NEW i \in Nat, LiveAt(p, k, i)'
        PROVE  copy_of'[Copy(p, WS_INDEX(k), i)'.obj] = <<p, WS_INDEX(k), i>>
    <3>1. CASE LiveAt(p, k, i)
      <4>1. copy_of[Copy(p, WS_INDEX(k), i).obj] = <<p, WS_INDEX(k), i>>
          BY <1>2, <3>1 DEF CopiesLock
      <4>2. Copy(p, WS_INDEX(k), i)' = Copy(p, WS_INDEX(k), i)
          BY <1>26, <3>1
      <4>3. Copy(p, WS_INDEX(k), i).obj \in Objects
        <5>1. WS_INDEX(k) \in Slots /\ i \in 1 .. Num(p, WS_INDEX(k))
            BY <1>2, <3>1, WsSlots, ThreadType DEF LiveAt
        <5>2. Buf(p, WS_INDEX(k)) \in Seq(Copies) /\ i \in 1 .. Len(Buf(p, WS_INDEX(k)))
            BY <1>2, <5>1, ThreadType DEF Sets, Buffers
        <5>3. Copy(p, WS_INDEX(k), i) \in Copies
            BY <5>2 DEF Copy
        <5> QED BY <5>3 DEF Copies
      <4>4. <<p, WS_INDEX(k), i>> \in Addrs
          BY <3>1, WsSlots DEF LiveAt, Addrs
      <4> QED BY <4>1, <4>2, <4>3, <4>4, <2>1, AddrIs
    <3>2. CASE k = self[p].ws_tail /\ i = n + 1
        BY <1>14, <1>21, <1>26, <3>2
    <3> QED BY <1>26, <2>2, <3>1, <3>2
  <2>3. ASSUME NEW o \in Objects, copy_of'[o] # Nothing, copy_of[o] = Nothing \/ copy_of[o][1] = p
        PROVE  \E k \in Nat, i \in Nat :
                 /\ LiveAt(p, k, i)' /\ copy_of'[o] = <<p, WS_INDEX(k), i>>
                 /\ Copy(p, WS_INDEX(k), i)'.obj = o
    <3>1. CASE o = at
      <4>1. PICK k \in Nat, i \in Nat : k = self[p].ws_tail /\ i = n + 1
          BY <1>9
      <4> QED BY <1>14, <1>21, <1>26, <3>1, <4>1
    <3>2. CASE o # at
      <4>0. copy_of'[o] = copy_of[o]
          BY <1>21, <3>2
      <4>1. PICK k \in Nat, i \in Nat :
              /\ LiveAt(p, k, i) /\ copy_of[o] = <<p, WS_INDEX(k), i>>
              /\ Copy(p, WS_INDEX(k), i).obj = o
          BY <1>2, <2>3, <4>0, Owner
      <4> QED BY <1>26, <4>0, <4>1
    <3> QED BY <3>1, <3>2
  <2>4. \A q \in Threads : Buffers(q)
      BY DEF RluInv, OfThread, Local, Sets
  <2> QED BY <1>2, <1>22, <2>1, <2>2, <2>3, <2>4, LiveChange
<1>28. Versions' /\ self[p].writer_version = MAX_VERSION
  <2>1. Pc(p) \notin WritingBack /\ Pc(p)' \notin WritingBack
      BY <1>1, <1>22, ReadingLabels DEF InSection
  <2>2. self'[p].local_version = self[p].local_version
      BY <1>20 DEF SameReader
  <2> QED BY <1>0, <1>1, <1>20, <1>22, <2>1, <2>2, OwnVersion
<1>43. copy_of'[at] # Nothing /\ copy_of'[at][1] = p /\ copy_of'[at][2] = w
  <2>1. <<p, w, n + 1>> \in Addrs
      BY DEF Addrs
  <2> QED BY <1>21, <2>1, AddrIs
<1>29. \A o \in Objects : \/ copy_of'[o] = copy_of[o]
                          \/ copy_of[o] = Nothing /\ copy_of'[o] # Nothing /\ copy_of'[o][1] = p
    BY <1>21, <1>43
<1>30. /\ LatestIsSeen'
       /\ \A q \in Threads \ {p} : Pc(q) \in Reading =>
                 /\ self'[p].writer_version > self[q].local_version
                 /\ \A o \in Objects : Seen(q, self[q].local_version, o)'
                                         = Seen(q, self[q].local_version, o)
  <2>1. self'[p].writer_version > version.writer
      BY <1>2, <1>20, <1>28, RluAssumption DEF TypeOK
  <2> QED BY <1>0, <1>2, <1>22, <1>28, <1>29, <2>1, OthersSee
<1>31. ASSUME NEW k \in Nat, self[p].ws_head <= k, k < self[p].ws_tail
       PROVE  /\ Buf(p, WS_INDEX(k))' = Buf(p, WS_INDEX(k)) /\ Num(p, WS_INDEX(k))' = Num(p, WS_INDEX(k))
              /\ Num(p, WS_INDEX(k)) \in Nat
    BY <1>2, <1>9, <1>10, <1>20, <1>31, WsSlots, ThreadType
<1>32. ASSUME NEW q \in Threads \ {p}, Pc(q) \in Reading PROVE Gentle(p, q)
  <2>1. self'[p].ws_tail >= self[p].ws_tail
      BY <1>9, <1>20
  <2> QED BY <1>0, <1>20, <1>29, <1>30, <1>31, <1>32, <2>1, GentleSection
<1>33. Sets(p)'
  <2>1. Counts(p)'
      BY <1>2, <1>20 DEF Sets, Counts
  <2>2. Empty(p)'
    <3> SUFFICES ASSUME NEW v \in Slots,
                        \A k \in self[p].ws_head .. self[p].ws_tail : v # WS_INDEX(k)
                 PROVE  Num(p, v)' = 0
        BY <1>20, <1>23 DEF Empty
    <3>1. v # w
      <4>1. self[p].ws_tail \in self[p].ws_head .. self[p].ws_tail
          BY <1>2, <1>42
      <4> QED BY <1>10, <4>1 DEF Cur
    <3>2. Num(p, v) = 0
        BY <1>2 DEF Sets, Empty
    <3> QED BY <1>20, <3>1, <3>2
  <2>3. Buffers(p)'
    <3> SUFFICES ASSUME NEW v \in Slots
                 PROVE  /\ Num(p, v)' <= Len(Buf(p, v)')
                        /\ \A i \in 1 .. Num(p, v)' : Copy(p, v, i)'.run_counter <= self'[p].run_counter
        BY DEF Buffers
    <3>1. CASE v # w
        BY <1>2, <1>20, <3>1 DEF Sets, Buffers, Copy
    <3>2. CASE v = w
      <4>1. Num(p, w)' <= Len(Buf(p, w)')
          BY <1>16, <1>20
      <4>2. ASSUME NEW i \in 1 .. n + 1
            PROVE  Copy(p, w, i)'.run_counter <= self[p].run_counter
        <5>1. CASE i \in 1 .. n
          <6>1. Copy(p, w, i)' = Copy(p, w, i)
              BY <1>12, <1>16, <1>20, <5>1 DEF Copy
          <6>2. Copy(p, w, i).run_counter <= self[p].run_counter
              BY <1>2, <1>11, <5>1 DEF Sets, Buffers
          <6> QED BY <6>1, <6>2
        <5>2. CASE i = n + 1
          <6>1. Copy(p, w, i)' = c /\ self[p].run_counter \in Nat
              BY <1>2, <1>16, <1>20, <5>2, ThreadType DEF Copy
          <6> QED BY <1>14, <6>1
        <5> QED BY <5>1, <5>2
      <4> QED BY <1>20, <3>2, <4>1, <4>2
    <3> QED BY <3>1, <3>2
  <2>4. Older(p)'
    <3> SUFFICES ASSUME NEW k \in self[p].ws_wb .. self[p].ws_tail - 1, NEW i \in 1 .. Num(p, WS_INDEX(k))'
                 PROVE  Copy(p, WS_INDEX(k), i)'.run_counter < self[p].run_counter
        BY <1>20 DEF Older
    <3>1. k \in Nat /\ self[p].ws_head <= k /\ k < self[p].ws_tail
        BY <1>42
    <3>2. Buf(p, WS_INDEX(k))' = Buf(p, WS_INDEX(k)) /\ Num(p, WS_INDEX(k))' = Num(p, WS_INDEX(k))
        BY <1>31, <3>1
    <3> QED BY <1>2, <3>2 DEF Sets, Older, Copy
  <2> QED BY <2>1, <2>2, <2>3, <2>4 DEF Sets
<1>34. Flags(p)'
    BY <1>1, <1>2, <1>20, <1>22, <1>23 DEF Flags, SameReader, InSection
<1>35. Position(p)'
    BY <1>1, <1>2, <1>20, <1>22, ReadingLabels DEF Position, InSection
<1>36. SnapIsSeen(p)'
  <2> SUFFICES ASSUME NEW o \in Objects
               PROVE  me.snap[o] = Seen(p, self[p].local_version, o)'
      BY <1>5, <1>20, <1>22 DEF SnapIsSeen, SameReader, Relabelled
  <2>1. PICK v : v = self[p].local_version
      OBVIOUS
  <2>2. me.snap[o] = Seen(p, v, o)
      BY <1>1, <1>3, <2>1 DEF RluInv, OfThread, SnapIsSeen
  <2>3. CASE o = at
    <3>1. Seen(p, v, o) = data[at]
        BY <1>21, <2>3 DEF Seen
    <3>2. copy_of'[at] # Nothing /\ copy_of'[at][1] = p
        BY <1>43
    <3>3. CopyVal(copy_of[at])' = d[n + 1].val
        BY <1>20, <1>21 DEF CopyVal, Copy
    <3>4. Seen(p, v, o)' = data[at]
        BY <1>14, <1>16, <2>3, <3>2, <3>3 DEF Seen
    <3> QED BY <2>1, <2>2, <3>1, <3>4, <1>20 DEF SameReader
  <2>4. CASE o # at
    <3>1. copy_of'[o] = copy_of[o] /\ data'[o] = data[o]
        BY <1>0, <1>21, <2>4
    <3>2. ASSUME copy_of[o] # Nothing, copy_of[o][1] = p
          PROVE  CopyVal(copy_of[o])' = CopyVal(copy_of[o])
      <4>1. PICK k \in Nat, i \in Nat : LiveAt(p, k, i) /\ copy_of[o] = <<p, WS_INDEX(k), i>>
          BY <1>2, <3>2, Owner
      <4>2. Copy(p, WS_INDEX(k), i)' = Copy(p, WS_INDEX(k), i)
          BY <1>26, <4>1
      <4>3. CopyVal(copy_of[o]) = Copy(p, WS_INDEX(k), i).val
          BY <4>1 DEF CopyVal
      <4>4. CopyVal(copy_of[o])' = Copy(p, WS_INDEX(k), i)'.val
          BY <4>1, <3>1 DEF CopyVal
      <4> QED BY <4>2, <4>3, <4>4
    <3>3. Seen(p, v, o)' = Seen(p, v, o)
        BY <1>2, <1>22, <3>1, <3>2, OwnSeen
    <3> QED BY <2>1, <2>2, <3>3, <1>20 DEF SameReader
  <2> QED BY <2>3, <2>4
<1>37. NoStealing(p)'
    BY <1>1, <1>20, <1>22 DEF NoStealing, SameReader, SameCore, RluInv, OfThread
<1>38. Changes(p)'
    BY <1>5, <1>8, <1>3, <1>10, <1>20, <1>22, <1>43 DEF Changes, Cur, Relabelled
<1>39. OfThread(p)'
    BY <1>22, <1>33, <1>34, <1>35, <1>36, <1>37, <1>38
    DEF OfThread, Local, WrittenBack, Steals, Loads, Waits, Alone, Writes
<1>40. self'[p].local_version = self[p].local_version
    BY <1>20 DEF SameReader
<1> QED BY <1>0, <1>1, <1>20, <1>22, <1>27, <1>28, <1>30, <1>32, <1>39, <1>40, LoudStep

LEMMA LockStep ==
    ASSUME RluInv, version.writer < MAX_VERSION, NEW p \in Threads, scheme' = scheme, lock(p)
    PROVE  RluInv'
<1>1. CASE copy_of[Top(p).at] = Nothing
    BY <1>1, LockOK
<1>2. CASE copy_of[Top(p).at] # Nothing
  <2>1. /\ At(p, "lock") /\ UNCHANGED <<version, writer_lock, data, freed, latest, history>>
        /\ Fail(p) /\ UNCHANGED <<copy_of, self>>
      BY <1>2 DEF lock
  <2>2. Pc(p) = "lock"
      BY <2>1, AtIs
  <2> QED BY <2>1, <2>2, SelfSame, FailStep DEF RluInv, history
<1> QED BY <1>1, <1>2

\* The value of a copy.
NewVal(ws, i, v) == [ws EXCEPT !.buffer[i].val = v]

LEMMA NewValIs ==
    ASSUME NEW ws \in WriteSets, NEW i \in 1 .. Len(ws.buffer), NEW v \in Values,
           ws.buffer[i].obj \in Pointers => v \in Objects
    PROVE  /\ NewVal(ws, i, v) \in WriteSets /\ NewVal(ws, i, v).num_of_objs = ws.num_of_objs
           /\ Len(NewVal(ws, i, v).buffer) = Len(ws.buffer)
           /\ \A j \in 1 .. Len(ws.buffer) : j # i => NewVal(ws, i, v).buffer[j] = ws.buffer[j]
           /\ NewVal(ws, i, v).buffer[i].obj = ws.buffer[i].obj
           /\ NewVal(ws, i, v).buffer[i].run_counter = ws.buffer[i].run_counter
           /\ NewVal(ws, i, v).buffer[i].val = v
<1>1. PICK b \in Seq(Copies) : b = ws.buffer
    BY DEF WriteSets
<1>2. PICK c \in Copies : c = b[i]
    BY <1>1
<1>3. PICK e : e = [c EXCEPT !.val = v]
    OBVIOUS
<1>4. e \in Copies /\ e.obj = c.obj /\ e.run_counter = c.run_counter /\ e.val = v
    BY <1>1, <1>2, <1>3 DEF Copies
<1>5. PICK d : d = [b EXCEPT ![i] = e]
    OBVIOUS
<1>6. d \in Seq(Copies) /\ Len(d) = Len(b) /\ d[i] = e /\ \A j \in 1 .. Len(b) : j # i => d[j] = b[j]
    BY <1>1, <1>4, <1>5
<1>7. PICK new : new = [ws EXCEPT !.buffer = d]
    OBVIOUS
<1>8. new \in WriteSets /\ new.num_of_objs = ws.num_of_objs /\ new.buffer = d
    BY <1>6, <1>7 DEF WriteSets
<1>9. NewVal(ws, i, v) = new
    BY <1>1, <1>2, <1>3, <1>5, <1>7, Zenon DEF NewVal
<1> QED BY <1>1, <1>2, <1>4, <1>6, <1>8, <1>9

\* The write-set of a section in hand.
LEMMA InHand ==
    ASSUME RluInv, NEW p \in Threads, Pc(p) \in InSection
    PROVE  /\ Cur(p) \in Slots
           /\ self[p].ws_head \in Nat /\ self[p].ws_wb \in Nat /\ self[p].ws_tail \in Nat
           /\ self[p].ws_head <= self[p].ws_wb /\ self[p].ws_wb <= self[p].ws_tail
           /\ \A k \in Nat : self[p].ws_head <= k /\ k < self[p].ws_tail =>
                 WS_INDEX(k) \in Slots \ {Cur(p)}
           /\ WS_INDEX(self[p].ws_tail) = Cur(p)
           /\ Running(p) /\ Pos(p) = <<0, 1>>
<1>1. TypeOK /\ Sets(p) /\ Flags(p) /\ Position(p)
    BY DEF RluInv, OfThread, Local
<1>2. self[p].ws_tail < self[p].ws_wb + self[p].max_write_sets
    BY <1>1, ReadingLabels DEF Position
<1>3. /\ Cur(p) \in Slots
      /\ \A k \in Nat : self[p].ws_head <= k /\ k < self[p].ws_tail => WS_INDEX(k) # Cur(p)
    BY <1>1, <1>2, CurApart
<1>4. /\ self[p].ws_head \in Nat /\ self[p].ws_wb \in Nat /\ self[p].ws_tail \in Nat
      /\ self[p].ws_head <= self[p].ws_wb /\ self[p].ws_wb <= self[p].ws_tail
    BY <1>1, ThreadType DEF Sets, Counts
<1> QED BY <1>1, <1>3, <1>4, WsSlots, ReadingLabels DEF Flags, Cur, Pos

\* The copies of it are those that lock for the section.
LEMMA LiveInHand ==
    ASSUME RluInv, NEW p \in Threads, Pc(p) \in InSection, NEW o \in Objects,
           copy_of[o] # Nothing, copy_of[o][1] = p, copy_of[o][2] = Cur(p)
    PROVE  \E i \in 1 .. Num(p, Cur(p)) : copy_of[o] = <<p, Cur(p), i>> /\ Copy(p, Cur(p), i).obj = o
<1>1. PICK k \in Nat, i \in Nat :
        /\ LiveAt(p, k, i) /\ copy_of[o] = <<p, WS_INDEX(k), i>> /\ Copy(p, WS_INDEX(k), i).obj = o
    BY Owner DEF RluInv
<1>2. WS_INDEX(k) = Cur(p)
    BY <1>1
<1>3. i \in 1 .. Num(p, Cur(p))
    BY <1>1, <1>2 DEF LiveAt
<1> QED BY <1>1, <1>2, <1>3

LEMMA ChangeStep ==
    ASSUME RluInv, version.writer < MAX_VERSION, NEW p \in Threads, scheme' = scheme, change(p)
    PROVE  RluInv'
<1>0. /\ At(p, "change") /\ UNCHANGED <<version, writer_lock, copy_of, data, freed, latest, history>>
    BY Zenon DEF change
<1>40. self' = [self EXCEPT ![p].sets[copy_of[Top(p).at][2]].buffer[copy_of[Top(p).at][3]].val
                              = Head(Top(p).steps).val]
    BY Zenon DEF change
<1>41. Put(p, [Top(p) EXCEPT !.snap[Top(p).at] = Head(Top(p).steps).val,
                             !.steps = Tail(@), !.pc = "section"])
    BY Zenon DEF change
<1>1. Pc(p) = "change" /\ Pc(p) \in InSection /\ Pc(p) \in Reading /\ "section" \in Reading
    BY <1>0, AtIs DEF Reading, InSection
<1>2. /\ TypeOK /\ Top(p) \in SectionFrames /\ FrameOK(Top(p)) /\ Top(p).pc = Pc(p) /\ Local(p)
      /\ StacksOK /\ Sets(p) /\ Flags(p) /\ Position(p) /\ CopiesLock /\ LockedHaveCopies
      /\ Top(p).at \in Objects /\ Top(p).snap \in States /\ Changes(p)
    BY <1>1, SectionStack, ReadingTop DEF RluInv, TypeOK, OfThread, Local, InSection, AtObject
<1>3. PICK me \in SectionFrames : me = Top(p) /\ me.snap \in States
    BY <1>2
<1>4. PICK at \in Objects : at = me.at
    BY <1>2, <1>3
<1>5. PICK s \in RluSteps : s = Head(me.steps) /\ s.do = "write" /\ s.obj = at
  <2>1. me.steps \in Seq(RluSteps) /\ me.steps # << >>
      BY <1>1, <1>2, <1>3, FrameTypes DEF FrameOK, AtObject
  <2>2. Head(me.steps) \in RluSteps
      BY <2>1
  <2> QED BY <1>1, <1>2, <1>3, <1>4, <2>2 DEF FrameOK, AtObject
<1>6. PICK v \in Values : v = s.val /\ (at \in Pointers => v \in Objects)
    BY <1>5 DEF RluSteps, Values
<1>7. /\ \A k \in Nat : self[p].ws_head <= k /\ k < self[p].ws_tail => WS_INDEX(k) \in Slots \ {Cur(p)}
      /\ self[p].ws_head \in Nat /\ self[p].ws_wb \in Nat /\ self[p].ws_tail \in Nat
      /\ self[p].ws_head <= self[p].ws_wb /\ self[p].ws_wb <= self[p].ws_tail
      /\ WS_INDEX(self[p].ws_tail) = Cur(p) /\ Running(p) /\ Pos(p) = <<0, 1>>
    BY <1>1, InHand
<1>8. PICK w \in Slots : w = Cur(p)
    BY <1>1, InHand
<1>9. PICK i \in 1 .. Num(p, w) : copy_of[at] = <<p, w, i>> /\ Copy(p, w, i).obj = at
    BY <1>1, <1>2, <1>3, <1>4, <1>8, LiveInHand DEF Changes
<1>10. PICK x \in WriteSets : x = self[p].sets[w]
    BY <1>2, ThreadType
<1>11. i \in 1 .. Len(x.buffer) /\ x.buffer[i].obj = at /\ x.buffer \in Seq(Copies)
  <2>1. Num(p, w) \in Nat /\ Num(p, w) <= Len(Buf(p, w)) /\ x.buffer = Buf(p, w)
        /\ Buf(p, w) \in Seq(Copies)
      BY <1>2, <1>10, ThreadType DEF Sets, Buffers, Buf
  <2> QED BY <1>9, <2>1 DEF Copy
<1>12. PICK y : y = NewVal(x, i, v)
    OBVIOUS
<1>13. /\ y \in WriteSets /\ y.num_of_objs = x.num_of_objs /\ Len(y.buffer) = Len(x.buffer)
       /\ \A j \in 1 .. Len(x.buffer) : j # i => y.buffer[j] = x.buffer[j]
       /\ y.buffer[i].obj = x.buffer[i].obj /\ y.buffer[i].run_counter = x.buffer[i].run_counter
       /\ y.buffer[i].val = v
    BY <1>6, <1>11, <1>12, NewValIs
<1>14. SetTo(p, w, y)
  <2>1. copy_of[Top(p).at][2] = w /\ copy_of[Top(p).at][3] = i
      BY <1>3, <1>4, <1>9
  <2>2. self' = [self EXCEPT ![p].sets[w] = [self[p].sets[w] EXCEPT !.buffer[i].val = v]]
      BY <1>40, <1>3, <1>5, <1>6, <2>1, Zenon
  <2> QED BY <1>10, <1>12, <2>2, Zenon DEF SetTo, NewVal
<1>15. SetIs(p, w, y)
    BY <1>2, <1>13, <1>14, SetStep
<1>20. /\ self' \in [Threads -> ThreadData]
       /\ \A q \in Threads \ {p} : SameCore(q) /\ SameReader(q)
       /\ SameReader(p)
       /\ self'[p].run_counter = self[p].run_counter
       /\ self'[p].writer_version = self[p].writer_version
       /\ self'[p].ws_head = self[p].ws_head /\ self'[p].ws_wb = self[p].ws_wb
       /\ self'[p].ws_tail = self[p].ws_tail /\ self'[p].max_write_sets = self[p].max_write_sets
       /\ Num(p, w)' = Num(p, w) /\ Buf(p, w)' = y.buffer
       /\ \A u \in Slots \ {w} : Num(p, u)' = Num(p, u) /\ Buf(p, u)' = Buf(p, u)
    BY <1>10, <1>13, <1>15 DEF SetIs, Num
<1>16. /\ \A u \in Slots : Num(p, u)' = Num(p, u) /\ Num(p, u) \in Nat /\ Num(p, u) <= Len(Buf(p, u))
                           /\ Len(Buf(p, u)') = Len(Buf(p, u))
       /\ \A u \in Slots : \A j \in 1 .. Num(p, u) :
             /\ Copy(p, u, j)'.obj = Copy(p, u, j).obj
             /\ Copy(p, u, j)'.run_counter = Copy(p, u, j).run_counter
             /\ u # w \/ j # i => Copy(p, u, j)' = Copy(p, u, j)
       /\ Copy(p, w, i)'.val = v
  <2>1. x.buffer = Buf(p, w)
      BY <1>10 DEF Buf
  <2>2. \A u \in Slots : Num(p, u) \in Nat /\ Num(p, u) <= Len(Buf(p, u)) /\ Buf(p, u) \in Seq(Copies)
      BY <1>2, ThreadType DEF Sets, Buffers
  <2>3. ASSUME NEW j \in 1 .. Num(p, w)
        PROVE  /\ Copy(p, w, j)'.obj = Copy(p, w, j).obj
               /\ Copy(p, w, j)'.run_counter = Copy(p, w, j).run_counter
               /\ j # i => Copy(p, w, j)' = Copy(p, w, j)
    <3>1. j \in 1 .. Len(x.buffer)
        BY <2>1, <2>2
    <3>2. CASE j = i
        BY <1>13, <1>20, <2>1, <3>2 DEF Copy
    <3>3. CASE j # i
        BY <1>13, <1>20, <2>1, <3>1, <3>3 DEF Copy
    <3> QED BY <3>2, <3>3
  <2>4. ASSUME NEW u \in Slots \ {w}, NEW j PROVE Copy(p, u, j)' = Copy(p, u, j)
      BY <1>20 DEF Copy
  <2>5. Copy(p, w, i)'.val = v
      BY <1>13, <1>20 DEF Copy
  <2> QED BY <1>13, <1>20, <2>1, <2>2, <2>3, <2>4, <2>5
<1>17. PICK z \in Seq(RluSteps) : z = Tail(me.steps)
  <2>1. me.steps \in Seq(RluSteps) /\ me.steps # << >>
      BY <1>1, <1>2, <1>3, FrameTypes DEF FrameOK, AtObject
  <2>2. Tail(me.steps) \in Seq(RluSteps)
      BY <2>1
  <2> QED BY <2>2
<1>18. PICK snap \in States : snap = [me.snap EXCEPT ![at] = v]
    BY <1>3, <1>4, <1>6 DEF States, Pointers
<1>19. PICK g : g = [me EXCEPT !.snap = snap, !.steps = z, !.pc = "section"]
    OBVIOUS
<1>21. g \in SectionFrames /\ g.pc = "section" /\ g.op = me.op /\ g.snap = snap
    BY <1>1, <1>17, <1>18, <1>19 DEF SectionFrames, InSection
<1>22. FrameOK(g)
    BY <1>1, <1>2, <1>3, <1>18, <1>21 DEF FrameOK, AtObject
<1>23. Becomes(p, g)
  <2>1. Put(p, g)
      BY <1>41, <1>3, <1>4, <1>5, <1>6, <1>17, <1>18, <1>19, Zenon
  <2> QED BY <1>1, <1>2, <1>21, <1>22, <2>1, PutSection
<1>24. OthersSame(p) /\ TypeOK' /\ Pc(p)' = "section" /\ Top(p)' = g
    BY <1>0, <1>2, <1>21, <1>23, <1>20 DEF OthersSame, Becomes, TypeOK, history
<1>25. Running(p)' /\ self[p].is_write_detected /\ Pos(p)' = <<0, 1>>
    BY <1>1, <1>2, <1>7, <1>20, <1>24, ReadingLabels DEF Flags, Running, Pos, InSection
<1>26. CopiesLock' /\ LockedHaveCopies'
  <2>1. ASSUME NEW k \in Nat, NEW j \in Nat
        PROVE  /\ LiveAt(p, k, j)' <=> LiveAt(p, k, j)
               /\ LiveAt(p, k, j) => Copy(p, WS_INDEX(k), j)'.obj = Copy(p, WS_INDEX(k), j).obj
    <3>1. PICK u \in Slots : u = WS_INDEX(k)
        BY WsSlots
    <3>2. Num(p, u)' = Num(p, u)
        BY <1>16
    <3>3. LiveAt(p, k, j)' <=> LiveAt(p, k, j)
        BY <1>7, <1>20, <1>25, <3>1, <3>2 DEF LiveAt
    <3>4. LiveAt(p, k, j) => j \in 1 .. Num(p, u)
        BY <3>1 DEF LiveAt
    <3> QED BY <1>16, <3>1, <3>3, <3>4
  <2> QED BY <1>0, <1>2, <1>24, <2>1, LiveCopies
<1>27. self'[p].local_version = self[p].local_version
    BY <1>20 DEF SameReader
<1>28. Versions' /\ self[p].writer_version = MAX_VERSION
  <2>1. Pc(p) \notin WritingBack /\ Pc(p)' \notin WritingBack
      BY <1>1, <1>24, ReadingLabels DEF InSection
  <2> QED BY <1>0, <1>1, <1>20, <1>24, <1>27, <2>1, OwnVersion
<1>30. /\ LatestIsSeen'
       /\ \A q \in Threads \ {p} : Pc(q) \in Reading =>
                 /\ self'[p].writer_version > self[q].local_version
                 /\ \A o \in Objects : Seen(q, self[q].local_version, o)'
                                         = Seen(q, self[q].local_version, o)
  <2>1. self'[p].writer_version > version.writer
      BY <1>2, <1>20, <1>28, RluAssumption DEF TypeOK
  <2> QED BY <1>0, <1>2, <1>24, <1>28, <2>1, OthersSee
<1>31. ASSUME NEW k \in Nat, self[p].ws_head <= k, k < self[p].ws_tail
       PROVE  Buf(p, WS_INDEX(k))' = Buf(p, WS_INDEX(k))
    BY <1>7, <1>8, <1>20, <1>31
<1>32. ASSUME NEW q \in Threads \ {p}, Pc(q) \in Reading PROVE Gentle(p, q)
  <2>1. self'[p].ws_tail >= self[p].ws_tail
      BY <1>7, <1>20
  <2> QED BY <1>0, <1>20, <1>30, <1>31, <1>32, <2>1, GentleSection
<1>33. Sets(p)'
  <2>1. Counts(p)'
      BY <1>2, <1>20 DEF Sets, Counts
  <2>2. Empty(p)'
      BY <1>2, <1>7, <1>16, <1>20, <1>25 DEF Sets, Empty
  <2>3. Buffers(p)'
      BY <1>2, <1>16, <1>20 DEF Sets, Buffers
  <2>4. Older(p)'
    <3> SUFFICES ASSUME NEW k \in self[p].ws_wb .. self[p].ws_tail - 1, NEW j \in 1 .. Num(p, WS_INDEX(k))'
                 PROVE  Copy(p, WS_INDEX(k), j)'.run_counter < self[p].run_counter
        BY <1>20 DEF Older
    <3>1. k \in Nat
        BY <1>7
    <3>2. PICK u \in Slots : u = WS_INDEX(k)
        BY <3>1, WsSlots
    <3>3. j \in 1 .. Num(p, u)
        BY <1>16, <3>2
    <3> QED BY <1>2, <1>16, <3>2, <3>3 DEF Sets, Older
  <2> QED BY <2>1, <2>2, <2>3, <2>4 DEF Sets
<1>34. Flags(p)'
    BY <1>1, <1>2, <1>7, <1>20, <1>24, <1>25 DEF Flags, SameReader, InSection
<1>35. Position(p)'
    BY <1>1, <1>2, <1>20, <1>24, ReadingLabels DEF Position, InSection
<1>36. SnapIsSeen(p)'
  <2> SUFFICES ASSUME NEW o \in Objects
               PROVE  snap[o] = Seen(p, self[p].local_version, o)'
      BY <1>20, <1>21, <1>24 DEF SnapIsSeen, SameReader
  <2>1. PICK lv : lv = self[p].local_version
      OBVIOUS
  <2>2. me.snap[o] = Seen(p, lv, o)
      BY <1>1, <1>3, <2>1 DEF RluInv, OfThread, SnapIsSeen
  <2>3. CASE o = at
    <3>1. copy_of'[at] = <<p, w, i>> /\ copy_of'[at] # Nothing
        BY <1>0, <1>2, <1>3, <1>4, <1>9, <1>1 DEF Changes
    <3>2. CopyVal(copy_of[at])' = v
        BY <1>16, <3>1 DEF CopyVal
    <3>3. Seen(p, lv, o)' = v
        BY <2>3, <3>1, <3>2 DEF Seen
    <3>4. snap[at] = v
        BY <1>3, <1>18 DEF States
    <3> QED BY <1>27, <2>1, <2>3, <3>3, <3>4
  <2>4. CASE o # at
    <3>2. ASSUME copy_of[o] # Nothing, copy_of[o][1] = p
          PROVE  CopyVal(copy_of[o])' = CopyVal(copy_of[o])
      <4>1. PICK k \in Nat, j \in Nat :
              /\ LiveAt(p, k, j) /\ copy_of[o] = <<p, WS_INDEX(k), j>> /\ Copy(p, WS_INDEX(k), j).obj = o
          BY <1>2, <3>2, Owner
      <4>2. PICK u \in Slots : u = WS_INDEX(k)
          BY WsSlots
      <4>3. j \in 1 .. Num(p, u) /\ (u # w \/ j # i)
          BY <1>9, <2>4, <4>1, <4>2 DEF LiveAt
      <4>4. Copy(p, u, j)' = Copy(p, u, j)
          BY <1>16, <4>3
      <4>5. copy_of[o][1] = p /\ copy_of[o][2] = u /\ copy_of[o][3] = j /\ copy_of' = copy_of
          BY <1>0, <4>1, <4>2
      <4>6. CopyVal(copy_of[o]) = Copy(p, u, j).val
          BY <4>5 DEF CopyVal
      <4>7. CopyVal(copy_of[o])' = Copy(p, u, j)'.val
          BY <4>5 DEF CopyVal
      <4> QED BY <4>4, <4>6, <4>7
    <3>3. Seen(p, lv, o)' = Seen(p, lv, o)
        BY <1>0, <1>2, <1>24, <3>2, OwnSeen
    <3>4. snap[o] = me.snap[o]
        BY <1>3, <1>18, <2>4 DEF States
    <3> QED BY <1>27, <2>1, <2>2, <3>3, <3>4
  <2> QED BY <2>3, <2>4
<1>37. NoStealing(p)'
    BY <1>1, <1>20, <1>24 DEF NoStealing, SameReader, SameCore, RluInv, OfThread
<1>39. OfThread(p)'
    BY <1>24, <1>33, <1>34, <1>35, <1>36, <1>37
    DEF OfThread, Local, WrittenBack, Steals, Loads, Changes, Waits, Alone, Writes
<1> QED BY <1>0, <1>1, <1>20, <1>24, <1>26, <1>28, <1>30, <1>32, <1>39, <1>27, LoudStep

\* A section ends: t is what p keeps.  Its write-set is empty, or is one of
\* those to write back.
Ends(p, t) ==
    /\ t.run_counter = self[p].run_counter + 1 /\ ~t.is_write_detected
    /\ t.writer_version = self[p].writer_version /\ t.ws_head = self[p].ws_head
    /\ t.ws_wb = self[p].ws_wb /\ t.max_write_sets = self[p].max_write_sets
    /\ \A w \in Slots : t.sets[w].buffer = Buf(p, w)
    /\ \A w \in Slots \ {Cur(p)} : t.sets[w].num_of_objs = Num(p, w)
    /\ \/ t.ws_tail = self[p].ws_tail /\ t.sets[Cur(p)].num_of_objs = 0
       \/ t.ws_tail = self[p].ws_tail + 1 /\ t.sets[Cur(p)].num_of_objs = Num(p, Cur(p))

Unlocks(p, t) ==
    \A o \in Objects :
       \/ copy_of'[o] = copy_of[o]
          /\ ~(/\ t.ws_tail = self[p].ws_tail
               /\ copy_of[o] # Nothing /\ copy_of[o][1] = p /\ copy_of[o][2] = Cur(p))
       \/ /\ copy_of'[o] = Nothing /\ t.ws_tail = self[p].ws_tail
          /\ copy_of[o] # Nothing /\ copy_of[o][1] = p /\ copy_of[o][2] = Cur(p)

LEMMA SectionEnds ==
    ASSUME RluInv, version.writer < MAX_VERSION, NEW p \in Threads, Pc(p) \in {"leave", "abort"},
           scheme' = scheme, todo' = todo, UNCHANGED <<version, data, latest>>,
           copy_of' \in [Objects -> Addrs \cup {Nothing}],
           NEW t \in ThreadData, self' = [self EXCEPT ![p] = t], Ends(p, t), Unlocks(p, t),
           StacksOK', Others(p), Pc(p)' \in Still \ {"free"},
           Pc(p)' \notin Syncing => t.ws_tail < self[p].ws_wb + self[p].max_write_sets
    PROVE  RluInv'
<1>1. Pc(p) \in InSection /\ Pc(p) \in Reading
    BY DEF Reading, InSection
<1>2. /\ TypeOK /\ Local(p) /\ Sets(p) /\ Flags(p) /\ Position(p) /\ CopiesLock /\ LockedHaveCopies
    BY DEF RluInv, OfThread, Local
<1>3. PICK w \in Slots : w = Cur(p)
    BY <1>1, InHand
<1>4. /\ \A k \in Nat : self[p].ws_head <= k /\ k < self[p].ws_tail => WS_INDEX(k) \in Slots \ {w}
      /\ self[p].ws_head \in Nat /\ self[p].ws_wb \in Nat /\ self[p].ws_tail \in Nat
      /\ self[p].ws_head <= self[p].ws_wb /\ self[p].ws_wb <= self[p].ws_tail
      /\ WS_INDEX(self[p].ws_tail) = w /\ Running(p) /\ Pos(p) = <<0, 1>>
      /\ self[p].max_write_sets \in Nat
      /\ self[p].ws_tail < self[p].ws_wb + self[p].max_write_sets
    BY <1>1, <1>2, <1>3, InHand, ReadingLabels, ThreadType DEF Position
<1>5. PICK tail \in Nat : tail = t.ws_tail /\ tail \in {self[p].ws_tail, self[p].ws_tail + 1}
    BY <1>4 DEF Ends
<1>6. self' \in [Threads -> ThreadData] /\ self'[p] = t
      /\ \A q \in Threads \ {p} : SameCore(q) /\ SameReader(q)
    BY <1>2, SelfStep
<1>7. /\ self'[p].run_counter = self[p].run_counter + 1 /\ ~self'[p].is_write_detected
      /\ self'[p].writer_version = self[p].writer_version /\ self'[p].ws_head = self[p].ws_head
      /\ self'[p].ws_wb = self[p].ws_wb /\ self'[p].max_write_sets = self[p].max_write_sets
      /\ self'[p].ws_tail = tail
      /\ \A u \in Slots : Buf(p, u)' = Buf(p, u)
      /\ \A u \in Slots \ {w} : Num(p, u)' = Num(p, u)
      /\ \/ tail = self[p].ws_tail /\ Num(p, w)' = 0
         \/ tail = self[p].ws_tail + 1 /\ Num(p, w)' = Num(p, w)
    BY <1>3, <1>5, <1>6 DEF Ends, Num, Buf
<1>8. OthersSame(p) /\ TypeOK'
    BY <1>2, <1>6 DEF OthersSame, TypeOK
<1>9. self[p].run_counter \in Nat /\ ~Running(p)'
  <2>1. self[p].run_counter \in Nat
      BY <1>2, ThreadType
  <2>2. (self[p].run_counter + 1) % 2 # 1
      BY <1>4, <2>1 DEF Running
  <2> QED BY <1>7, <2>1, <2>2 DEF Running
<1>10. Pos(p)' = <<0, 1>>
    BY StillLabels DEF Pos
<1>11. \A u \in Slots : /\ Num(p, u) \in Nat /\ Num(p, u)' \in Nat /\ Num(p, u)' <= Num(p, u)
  <2>1. \A u \in Slots : Num(p, u) \in Nat
      BY <1>2, ThreadType
  <2>2. CASE tail = self[p].ws_tail /\ Num(p, w)' = 0
      BY <1>7, <2>1, <2>2
  <2>3. CASE tail = self[p].ws_tail + 1 /\ Num(p, w)' = Num(p, w)
      BY <1>7, <2>1, <2>3
  <2> QED BY <1>7, <2>2, <2>3
<1>12. ASSUME NEW k \in Nat, NEW i \in Nat
       PROVE  /\ LiveAt(p, k, i)' <=> LiveAt(p, k, i) /\ (k < self[p].ws_tail \/ tail # self[p].ws_tail)
              /\ Copy(p, WS_INDEX(k), i)' = Copy(p, WS_INDEX(k), i)
  <2>1. PICK u \in Slots : u = WS_INDEX(k)
      BY WsSlots
  <2>2. Copy(p, u, i)' = Copy(p, u, i)
      BY <1>7 DEF Copy
  <2>3. CASE ~(self[p].ws_wb <= k /\ k <= self[p].ws_tail)
      BY <1>4, <1>5, <1>7, <1>9, <2>1, <2>2, <2>3 DEF LiveAt
  <2>4. CASE self[p].ws_wb <= k /\ k < self[p].ws_tail
    <3>1. u \in Slots \ {w}
        BY <1>4, <2>1, <2>4
    <3>2. Num(p, u)' = Num(p, u)
        BY <1>7, <3>1
    <3> QED BY <1>4, <1>5, <1>7, <1>9, <1>10, <2>1, <2>2, <2>4, <3>2 DEF LiveAt
  <2>5. CASE k = self[p].ws_tail
    <3>1. u = w
        BY <1>4, <2>1, <2>5
    <3>2. CASE tail = self[p].ws_tail
      <4>1. ~LiveAt(p, k, i)'
          BY <1>4, <1>7, <1>9, <2>5, <3>2 DEF LiveAt
      <4> QED BY <1>4, <2>1, <2>2, <2>5, <3>2, <4>1
    <3>3. CASE tail = self[p].ws_tail + 1
      <4>1. Num(p, u)' = Num(p, u)
          BY <1>4, <1>7, <3>1, <3>3
      <4> QED BY <1>4, <1>7, <1>9, <1>10, <2>1, <2>2, <2>5, <3>3, <4>1 DEF LiveAt
    <3> QED BY <1>5, <3>2, <3>3
  <2> QED BY <1>4, <2>3, <2>4, <2>5
<1>13. CopiesLock' /\ LockedHaveCopies'
  <2>1. \A o \in Objects : copy_of[o] # Nothing /\ copy_of[o][1] # p => copy_of'[o] = copy_of[o]
      BY DEF Unlocks
  <2>2. ASSUME NEW k \in Nat, NEW i \in Nat, LiveAt(p, k, i)'
        PROVE  copy_of'[Copy(p, WS_INDEX(k), i)'.obj] = <<p, WS_INDEX(k), i>>
    <3>1. /\ LiveAt(p, k, i) /\ (k < self[p].ws_tail \/ tail # self[p].ws_tail)
          /\ Copy(p, WS_INDEX(k), i)' = Copy(p, WS_INDEX(k), i)
        BY <1>12, <2>2
    <3>2. copy_of[Copy(p, WS_INDEX(k), i).obj] = <<p, WS_INDEX(k), i>>
        BY <1>2, <3>1 DEF CopiesLock
    <3>3. Copy(p, WS_INDEX(k), i).obj \in Objects
      <4>1. WS_INDEX(k) \in Slots /\ i \in 1 .. Num(p, WS_INDEX(k))
          BY <1>2, <3>1, WsSlots, ThreadType DEF LiveAt
      <4>2. Buf(p, WS_INDEX(k)) \in Seq(Copies) /\ i \in 1 .. Len(Buf(p, WS_INDEX(k)))
          BY <1>2, <4>1, ThreadType DEF Sets, Buffers
      <4>3. Copy(p, WS_INDEX(k), i) \in Copies
          BY <4>2 DEF Copy
      <4> QED BY <4>3 DEF Copies
    <3>4. k < self[p].ws_tail => WS_INDEX(k) # w
        BY <1>4, <3>1 DEF LiveAt
    <3>5. PICK o \in Objects : o = Copy(p, WS_INDEX(k), i).obj
        BY <3>3
    <3>6. copy_of[o][2] = WS_INDEX(k)
        BY <3>2, <3>5
    <3>7. copy_of'[o] = copy_of[o]
        BY <1>3, <1>5, <3>1, <3>4, <3>6 DEF Unlocks
    <3> QED BY <3>1, <3>2, <3>5, <3>7
  <2>3. ASSUME NEW o \in Objects, copy_of'[o] # Nothing, copy_of[o] = Nothing \/ copy_of[o][1] = p
        PROVE  \E k \in Nat, i \in Nat :
                 /\ LiveAt(p, k, i)' /\ copy_of'[o] = <<p, WS_INDEX(k), i>>
                 /\ Copy(p, WS_INDEX(k), i)'.obj = o
    <3>1. /\ copy_of'[o] = copy_of[o] /\ copy_of[o] # Nothing /\ copy_of[o][1] = p
          /\ tail # self[p].ws_tail \/ copy_of[o][2] # w
        BY <1>3, <1>5, <2>3 DEF Unlocks
    <3>2. PICK k \in Nat, i \in Nat :
            /\ LiveAt(p, k, i) /\ copy_of[o] = <<p, WS_INDEX(k), i>>
            /\ Copy(p, WS_INDEX(k), i).obj = o
        BY <1>2, <3>1, Owner
    <3>3. copy_of[o][2] = WS_INDEX(k)
        BY <3>2
    <3>4. k < self[p].ws_tail \/ tail # self[p].ws_tail
        BY <1>4, <3>1, <3>2, <3>3 DEF LiveAt
    <3> QED BY <1>12, <3>1, <3>2, <3>4
  <2>4. \A q \in Threads : Buffers(q)
      BY DEF RluInv, OfThread, Local, Sets
  <2> QED BY <1>2, <1>8, <2>1, <2>2, <2>3, <2>4, LiveChange
<1>14. Pc(p)' \notin Reading /\ Pc(p)' \notin WritingBack /\ Pc(p) \notin WritingBack
    BY <1>1, StillLabels, ReadingLabels
<1>15. Versions' /\ self[p].writer_version = MAX_VERSION
    BY <1>7, <1>8, <1>14, OwnVersion
<1>16. \A o \in Objects : \/ copy_of'[o] = copy_of[o]
                          \/ /\ copy_of[o] # Nothing => copy_of[o][1] = p
                             /\ copy_of'[o] # Nothing => copy_of'[o][1] = p
    BY DEF Unlocks
<1>17. /\ LatestIsSeen'
       /\ \A q \in Threads \ {p} : Pc(q) \in Reading =>
                 /\ self'[p].writer_version > self[q].local_version
                 /\ \A o \in Objects : Seen(q, self[q].local_version, o)'
                                         = Seen(q, self[q].local_version, o)
  <2>1. self'[p].writer_version > version.writer
      BY <1>2, <1>7, <1>15, RluAssumption DEF TypeOK
  <2> QED BY <1>8, <1>15, <1>16, <2>1, OthersSee
<1>18. ASSUME NEW q \in Threads \ {p}, Pc(q) \in Reading PROVE Gentle(p, q)
  <2>1. self'[p].ws_tail >= self[p].ws_tail
      BY <1>4, <1>5, <1>7
  <2>2. \A k \in Nat : self[p].ws_head <= k /\ k < self[p].ws_tail =>
              Buf(p, WS_INDEX(k))' = Buf(p, WS_INDEX(k))
      BY <1>7, WsSlots
  <2>3. \A o \in Objects : copy_of'[o] # copy_of[o] =>
              /\ copy_of[o] # Nothing => copy_of[o][1] = p
              /\ copy_of'[o] # Nothing => copy_of'[o][1] = p
      BY <1>16
  <2> QED BY <1>7, <1>17, <1>18, <2>1, <2>2, <2>3, GentleSection
<1>19. Sets(p)'
  <2>1. Counts(p)'
      BY <1>2, <1>4, <1>5, <1>7 DEF Sets, Counts
  <2>2. Empty(p)'
    <3> SUFFICES ASSUME NEW u \in Slots, \A k \in self[p].ws_head .. tail : u = WS_INDEX(k) => k = tail
                 PROVE  Num(p, u)' = 0
        BY <1>7, <1>9 DEF Empty
    <3>1. CASE u = w
      <4>1. tail = self[p].ws_tail
          BY <1>4, <1>5, <3>1
      <4> QED BY <1>4, <1>7, <3>1, <4>1
    <3>2. CASE u # w
      <4>1. ASSUME NEW k \in self[p].ws_head .. self[p].ws_tail PROVE u # WS_INDEX(k)
        <5>1. k \in self[p].ws_head .. tail
            BY <1>4, <1>5
        <5>2. k = self[p].ws_tail => u # WS_INDEX(k)
            BY <1>4, <3>2
        <5>3. k < self[p].ws_tail => k # tail
            BY <1>4, <1>5
        <5> QED BY <1>4, <5>1, <5>2, <5>3
      <4>2. Num(p, u) = 0
          BY <1>2, <4>1 DEF Sets, Empty
      <4> QED BY <1>7, <3>2, <4>2
    <3> QED BY <3>1, <3>2
  <2>3. self'[p].run_counter \in Nat /\ self'[p].run_counter > self[p].run_counter
      BY <1>7, <1>9
  <2>4. Buffers(p)'
      BY <1>2, <1>7, <1>9, <1>11, <2>3, BuffersStep DEF Sets
  <2>5. Older(p)'
    <3>1. self'[p].ws_wb \in Nat /\ self'[p].ws_tail \in Nat
        BY <1>4, <1>7
    <3>2. \A k \in Nat : /\ Buf(p, WS_INDEX(k))' = Buf(p, WS_INDEX(k))
                         /\ Num(p, WS_INDEX(k))' <= Num(p, WS_INDEX(k)) /\ Num(p, WS_INDEX(k))' \in Nat
        BY <1>7, <1>11, WsSlots
    <3>3. self'[p].run_counter >= self[p].run_counter
        BY <1>7, <1>9
    <3> QED BY <1>2, <2>3, <3>1, <3>2, <3>3, OlderStep DEF Sets
  <2> QED BY <2>1, <2>2, <2>4, <2>5 DEF Sets
<1>20. Flags(p)'
    BY <1>9, StillLabels DEF Flags
<1>21. Position(p)'
  <2>1. Pc(p)' \notin {"commit", "free"} /\ Pc(p)' \notin Writes /\ Pc(p)' \notin {"unlock", "written_back"}
      BY StillLabels
  <2>2. Pc(p)' \notin Syncing => self'[p].ws_tail < self'[p].ws_wb + self'[p].max_write_sets
      BY <1>5, <1>7
  <2> QED BY <2>1, <2>2 DEF Position
<1>22. OfThread(p)'
    BY <1>19, <1>20, <1>21, StillLabels
    DEF OfThread, Local, WrittenBack, SnapIsSeen, NoStealing, Steals, Loads, Changes, Waits
<1> QED BY <1>8, <1>13, <1>14, <1>15, <1>17, <1>18, <1>22, LoudStep

LEMMA EndFrame ==
    ASSUME RluInv, NEW p \in Threads, Pc(p) \in {"leave", "abort"}, NEW l \in Outside
    PROVE  LET g == [Top(p) EXCEPT !.pc = l] IN
           /\ g \in SectionFrames /\ FrameOK(g) /\ Below(g) /\ g.pc = l
           /\ (Put(p, g) => Becomes(p, g))
           /\ (Invoke(p, g, SyncFrame) => Becomes(p, SyncFrame))
<1>1. Pc(p) \in InSection
    BY DEF Reading, InSection
<1>2. StacksOK /\ Top(p) \in SectionFrames /\ FrameOK(Top(p))
    BY <1>1, SectionStack DEF RluInv, TypeOK
<1>3. PICK g : g = [Top(p) EXCEPT !.pc = l]
    OBVIOUS
<1>4. g \in SectionFrames /\ FrameOK(g) /\ Below(g) /\ g.pc = l
    BY <1>2, <1>3, OutsideFrame
<1>5. Put(p, g) => Becomes(p, g)
    BY <1>1, <1>2, <1>4, PutSection
<1>6. Invoke(p, g, SyncFrame) => Becomes(p, SyncFrame)
    BY <1>1, <1>2, <1>4, InvokeSync
<1> QED BY <1>3, <1>4, <1>5, <1>6

LEMMA AbortStep ==
    ASSUME RluInv, version.writer < MAX_VERSION, NEW p \in Threads, scheme' = scheme, abort(p)
    PROVE  RluInv'
<1>0. At(p, "abort") /\ UNCHANGED <<version, data, freed, latest, history>> /\ Go(p, "checkpoint")
    BY Zenon DEF abort
<1>1. copy_of' = [o \in Objects |-> IF self[p].is_write_detected /\ o \in Mine(p) THEN Nothing
                                    ELSE copy_of[o]]
    BY Zenon DEF abort
<1>2. self' = [self EXCEPT ![p].run_counter = @ + 1, ![p].is_write_detected = FALSE,
                           ![p].sets[Cur(p)] = [@ EXCEPT !.num_of_objs = 0, !.writer_locks = {}]]
    BY Zenon DEF abort
<1>3. Pc(p) = "abort" /\ Pc(p) \in InSection /\ "checkpoint" \in Outside /\ "checkpoint" \in Still \ {"free"}
      /\ "checkpoint" \notin Syncing
    BY <1>0, AtIs, OutsideLabels DEF InSection, Reading, Outside
<1>4. TypeOK /\ self[p] \in ThreadData /\ Flags(p) /\ Position(p)
    BY ThreadType DEF RluInv, OfThread, Local
<1>5. PICK w \in Slots : w = Cur(p)
    BY <1>3, InHand
<1>6. PICK x \in WriteSets : x = self[p].sets[w]
    BY <1>4, ThreadType
<1>7. PICK y : y = [x EXCEPT !.num_of_objs = 0, !.writer_locks = {}]
    OBVIOUS
<1>8. y \in WriteSets /\ y.num_of_objs = 0 /\ y.buffer = x.buffer
    BY <1>6, <1>7 DEF WriteSets
<1>9. PICK n \in Nat : n = self[p].run_counter + 1
    BY <1>4, ThreadType
<1>10. PICK sets : sets = [self[p].sets EXCEPT ![w] = y]
    OBVIOUS
<1>11. /\ sets \in [Slots -> WriteSets] /\ sets[w] = y
       /\ \A u \in Slots \ {w} : sets[u] = self[p].sets[u]
    BY <1>4, <1>8, <1>10, ThreadType
<1>12. PICK t : t = [self[p] EXCEPT !.run_counter = n, !.is_write_detected = FALSE, !.sets = sets]
    OBVIOUS
<1>13. t \in ThreadData /\ t.run_counter = n /\ t.is_write_detected = FALSE /\ t.sets = sets
       /\ t.writer_version = self[p].writer_version /\ t.ws_head = self[p].ws_head
       /\ t.ws_wb = self[p].ws_wb /\ t.max_write_sets = self[p].max_write_sets
       /\ t.ws_tail = self[p].ws_tail
    BY <1>4, <1>9, <1>11, <1>12 DEF ThreadData
<1>14. self' = [self EXCEPT ![p] = t]
    BY <1>2, <1>5, <1>6, <1>7, <1>9, <1>10, <1>12, Zenon
<1>15. Ends(p, t)
    BY <1>5, <1>6, <1>8, <1>9, <1>11, <1>13 DEF Ends, Num, Buf
<1>16. copy_of' \in [Objects -> Addrs \cup {Nothing}] /\ Unlocks(p, t)
  <2>1. ASSUME NEW o \in Objects, copy_of[o] # Nothing, copy_of[o][1] = p, copy_of[o][2] = Cur(p)
        PROVE  self[p].is_write_detected /\ o \in Mine(p)
    <3>1. PICK i \in 1 .. Num(p, Cur(p)) : copy_of[o] = <<p, Cur(p), i>>
        BY <1>3, <2>1, LiveInHand
    <3>2. Num(p, Cur(p)) > 0 /\ Running(p)
        BY <1>3, <1>4, <1>5, <3>1, InHand, ThreadType
    <3> QED BY <1>4, <2>1, <3>2 DEF Flags, Mine
  <2>2. ASSUME NEW o \in Objects, o \in Mine(p)
        PROVE  copy_of[o] # Nothing /\ copy_of[o][1] = p /\ copy_of[o][2] = Cur(p)
      BY <2>2 DEF Mine
  <2>3. copy_of' \in [Objects -> Addrs \cup {Nothing}]
      BY <1>1, <1>4 DEF TypeOK
  <2> QED BY <1>1, <1>13, <2>1, <2>2, <2>3 DEF Unlocks
<1>17. PICK g : g = [Top(p) EXCEPT !.pc = "checkpoint"]
    OBVIOUS
<1>18. StacksOK' /\ Others(p) /\ Pc(p)' = "checkpoint"
    BY <1>0, <1>3, EndFrame DEF Go, Becomes
<1>19. t.ws_tail < self[p].ws_wb + self[p].max_write_sets
    BY <1>3, <1>4, <1>13, ReadingLabels DEF Position
<1>20. todo' = todo /\ UNCHANGED <<version, data, latest>>
    BY <1>0 DEF history
<1> QED BY <1>3, <1>13, <1>14, <1>15, <1>16, <1>18, <1>19, <1>20, SectionEnds

LEMMA LeaveStep ==
    ASSUME RluInv, version.writer < MAX_VERSION, NEW p \in Threads, scheme' = scheme, leave(p)
    PROVE  RluInv'
<1>0. At(p, "leave") /\ UNCHANGED <<version, copy_of, data, freed, latest, history>>
    BY Zenon DEF leave
<1>1. /\ Pc(p) = "leave" /\ Pc(p) \in InSection
      /\ {"checkpoint", "release_writer_lock"} \subseteq Outside
      /\ {"checkpoint", "release_writer_lock"} \subseteq Still \ {"free"}
    BY <1>0, AtIs, OutsideLabels DEF InSection, Reading, Outside
<1>2. TypeOK /\ self[p] \in ThreadData /\ Flags(p) /\ Position(p)
    BY ThreadType DEF RluInv, OfThread, Local
<1>3. PICK w \in Slots : w = Cur(p)
    BY <1>1, InHand
<1>4. PICK n \in Nat : n = self[p].run_counter + 1
    BY <1>2, ThreadType
<1>5. todo' = todo /\ UNCHANGED <<version, data, latest>>
      /\ copy_of' \in [Objects -> Addrs \cup {Nothing}]
    BY <1>0, <1>2 DEF history, TypeOK
<1>6. CASE self[p].is_write_detected
  <2>1. self' = [self EXCEPT ![p].run_counter = @ + 1, ![p].is_write_detected = FALSE,
                             ![p].ws_tail = self[p].ws_tail + 1]
      BY <1>6, Zenon DEF leave
  <2>2. IF SyncIsDue(p, self[p].ws_tail + 1)
          THEN Invoke(p, [Top(p) EXCEPT !.pc = "release_writer_lock"], SyncFrame)
          ELSE Go(p, "release_writer_lock")
      BY <1>6, Zenon DEF leave
  <2>3. PICK tail \in Nat : tail = self[p].ws_tail + 1
      BY <1>2, ThreadType
  <2>4. PICK t : t = [self[p] EXCEPT !.run_counter = n, !.is_write_detected = FALSE, !.ws_tail = tail]
      OBVIOUS
  <2>5. t \in ThreadData /\ t.run_counter = n /\ t.is_write_detected = FALSE /\ t.sets = self[p].sets
        /\ t.writer_version = self[p].writer_version /\ t.ws_head = self[p].ws_head
        /\ t.ws_wb = self[p].ws_wb /\ t.max_write_sets = self[p].max_write_sets
        /\ t.ws_tail = tail
      BY <1>2, <1>4, <2>3, <2>4 DEF ThreadData
  <2>6. self' = [self EXCEPT ![p] = t]
      BY <1>4, <2>1, <2>3, <2>4, Zenon
  <2>7. Ends(p, t)
      BY <1>4, <2>3, <2>5 DEF Ends, Num, Buf
  <2>8. Unlocks(p, t)
      BY <1>0, <1>2, <2>3, <2>5, ThreadType DEF Unlocks
  <2>9. /\ StacksOK' /\ Others(p) /\ Pc(p)' \in Still \ {"free"}
        /\ Pc(p)' \notin Syncing => tail < self[p].ws_wb + self[p].max_write_sets
    <3>1. CASE SyncIsDue(p, tail)
      <4>1. Becomes(p, SyncFrame)
          BY <1>1, <2>2, <2>3, <3>1, EndFrame
      <4>2. SyncFrame.pc = "sync" /\ "sync" \in Still \ {"free"} /\ "sync" \in Syncing
          BY DEF SyncFrame, Still, Syncing
      <4> QED BY <4>1, <4>2 DEF Becomes
    <3>2. CASE ~SyncIsDue(p, tail)
      <4>1. Go(p, "release_writer_lock")
          BY <2>2, <2>3, <3>2
      <4>2. StacksOK' /\ Others(p) /\ Pc(p)' = "release_writer_lock"
          BY <1>1, <4>1, EndFrame DEF Go, Becomes
      <4>3. tail < self[p].ws_wb + self[p].max_write_sets
        <5>1. self[p].ws_wb \in Nat /\ self[p].max_write_sets \in Nat
            BY <1>2, ThreadType
        <5> QED BY <3>2, <5>1 DEF SyncIsDue
      <4> QED BY <1>1, <4>2, <4>3
    <3> QED BY <3>1, <3>2
  <2> QED BY <1>1, <1>5, <2>5, <2>6, <2>7, <2>8, <2>9, SectionEnds
<1>7. CASE ~self[p].is_write_detected
  <2>1. self' = [self EXCEPT ![p].run_counter = @ + 1, ![p].sets[Cur(p)].writer_locks = {}]
      BY <1>7, Zenon DEF leave
  <2>2. Go(p, "checkpoint")
      BY <1>7, Zenon DEF leave
  <2>3. PICK x \in WriteSets : x = self[p].sets[w]
      BY <1>2, ThreadType
  <2>4. PICK y : y = [x EXCEPT !.writer_locks = {}]
      OBVIOUS
  <2>5. y \in WriteSets /\ y.num_of_objs = x.num_of_objs /\ y.buffer = x.buffer
      BY <2>3, <2>4 DEF WriteSets
  <2>6. PICK sets : sets = [self[p].sets EXCEPT ![w] = y]
      OBVIOUS
  <2>7. /\ sets \in [Slots -> WriteSets] /\ sets[w] = y
        /\ \A u \in Slots \ {w} : sets[u] = self[p].sets[u]
      BY <1>2, <2>5, <2>6, ThreadType
  <2>8. PICK t : t = [self[p] EXCEPT !.run_counter = n, !.sets = sets]
      OBVIOUS
  <2>9. t \in ThreadData /\ t.run_counter = n /\ t.is_write_detected = self[p].is_write_detected
        /\ t.sets = sets
        /\ t.writer_version = self[p].writer_version /\ t.ws_head = self[p].ws_head
        /\ t.ws_wb = self[p].ws_wb /\ t.max_write_sets = self[p].max_write_sets
        /\ t.ws_tail = self[p].ws_tail
      BY <1>2, <1>4, <2>7, <2>8 DEF ThreadData
  <2>10. self' = [self EXCEPT ![p] = t]
      BY <1>3, <1>4, <2>1, <2>3, <2>4, <2>6, <2>8, Zenon
  <2>11. Num(p, w) = 0
    <3>1. Num(p, Cur(p)) \in Nat /\ Running(p)
        BY <1>1, <1>2, <1>3, InHand, ThreadType
    <3>2. ~(Num(p, Cur(p)) > 0)
        BY <1>2, <1>7, <3>1 DEF Flags
    <3> QED BY <1>3, <3>1, <3>2
  <2>12. Ends(p, t)
      BY <1>3, <1>4, <1>7, <2>3, <2>5, <2>7, <2>9, <2>11 DEF Ends, Num, Buf
  <2>13. Unlocks(p, t)
    <3>1. ASSUME NEW o \in Objects, copy_of[o] # Nothing, copy_of[o][1] = p, copy_of[o][2] = Cur(p)
          PROVE  FALSE
      <4>1. PICK i \in 1 .. Num(p, Cur(p)) : copy_of[o] = <<p, Cur(p), i>>
          BY <1>1, <3>1, LiveInHand
      <4> QED BY <1>3, <2>11, <4>1
    <3> QED BY <1>0, <3>1 DEF Unlocks
  <2>14. StacksOK' /\ Others(p) /\ Pc(p)' = "checkpoint"
      BY <1>1, <2>2, EndFrame DEF Go, Becomes
  <2>15. t.ws_tail < self[p].ws_wb + self[p].max_write_sets
      BY <1>1, <1>2, <2>9, ReadingLabels DEF Position
  <2> QED BY <1>1, <1>5, <2>9, <2>10, <2>12, <2>13, <2>14, <2>15, SectionEnds
<1> QED BY <1>6, <1>7

-----------------------------------------------------------------------------
(***************************************************************************)
(* The write-back.                                                         *)
(***************************************************************************)
LEMMA SyncHand ==
    ASSUME RluInv, NEW p \in Threads, Pc(p) \in Syncing
    PROVE  /\ TypeOK /\ Local(p) /\ Sets(p) /\ Flags(p) /\ Position(p) /\ Versions /\ VersionOf(p)
           /\ CopiesLock /\ LockedHaveCopies /\ LatestIsSeen /\ Waits(p) /\ WrittenBack(p)
           /\ Top(p) \in SyncFrames /\ Top(p).pc = Pc(p) /\ Fresh(Top(p)) /\ StacksOK
           /\ Top(p).version \in Nat /\ Top(p).ws \in Nat /\ Top(p).i \in Nat
           /\ Counts(p) /\ self[p].ws_head \in Nat /\ self[p].ws_wb \in Nat /\ self[p].ws_tail \in Nat
           /\ self[p].max_write_sets \in Nat /\ RLU_MAX_WRITE_SETS \in Nat /\ ~Running(p)
           /\ version.writer \in Nat /\ version.commit \in Nat
<1>1. TypeOK /\ OfThread(p) /\ Versions /\ CopiesLock /\ LockedHaveCopies /\ LatestIsSeen /\ StacksOK
    BY DEF RluInv, TypeOK
<1>2. Top(p) \in SyncFrames /\ Top(p).pc = Pc(p) /\ Fresh(Top(p))
    BY <1>1, SyncStack
<1>3. ~Running(p)
    BY <1>1, SyncLabels DEF OfThread, Local, Flags
<1>4. version.writer \in Nat /\ version.commit \in Nat
    BY <1>1 DEF TypeOK
<1>5. Local(p) /\ Waits(p) /\ WrittenBack(p)
    BY <1>1 DEF OfThread
<1>6. /\ self[p].ws_head \in Nat /\ self[p].ws_wb \in Nat /\ self[p].ws_tail \in Nat
      /\ self[p].max_write_sets \in Nat /\ RLU_MAX_WRITE_SETS \in Nat
    BY <1>1, ThreadType, RluAssumption
<1>7. Top(p).version \in Nat /\ Top(p).ws \in Nat /\ Top(p).i \in Nat
    BY <1>2, SyncTypes
<1> QED BY <1>1, <1>2, <1>3, <1>4, <1>5, <1>6, <1>7 DEF Local, Sets, Versions

\* p goes on with g.
LEMMA SyncPut ==
    ASSUME RluInv, NEW p \in Threads, Pc(p) \in Syncing, NEW g \in SyncFrames, Fresh(g), Put(p, g)
    PROVE  /\ StacksOK' /\ Others(p) /\ Pc(p)' = g.pc /\ Top(p)' = g /\ Pc(p)' \in Syncing
<1>1. StacksOK
    BY DEF RluInv, TypeOK
<1>2. Becomes(p, g)
    BY <1>1, PutSync
<1>3. g.pc \in Syncing
    BY SyncTypes
<1> QED BY <1>2, <1>3 DEF Becomes

LEMMA WriterGo ==
    ASSUME RluInv, NEW p \in Threads, Pc(p) \in Syncing, NEW l \in Syncing \ {"sync", "writer_version"},
           l = "announce" => Pc(p) = "writer_version", Go(p, l)
    PROVE  /\ StacksOK' /\ Others(p) /\ Pc(p)' = l /\ Pc(p)' \in Syncing /\ Top(p)' \in SyncFrames
           /\ Top(p)'.version = Top(p).version /\ Top(p)'.ws = Top(p).ws /\ Top(p)'.i = Top(p).i
           /\ Top(p)'.who = Top(p).who /\ Top(p)'.waits = Top(p).waits
<1>1. PICK f \in SyncFrames : f = Top(p) /\ f.pc = Pc(p) /\ Fresh(f)
    BY SyncHand
<1>2. PICK g : g = [f EXCEPT !.pc = l]
    OBVIOUS
<1>3. /\ g \in SyncFrames /\ g.pc = l /\ g.version = f.version /\ g.ws = f.ws /\ g.i = f.i
      /\ g.who = f.who /\ g.waits = f.waits
    BY <1>2 DEF SyncFrames
<1>4. Fresh(g)
    BY <1>1, <1>3 DEF Fresh
<1>5. Put(p, g)
    BY <1>1, <1>2 DEF Go
<1> QED BY <1>1, <1>3, <1>4, <1>5, SyncPut

\* The parts of the invariant that a step of a write-back shows.
LEMMA WritingStep ==
    ASSUME RluInv, TypeOK', NEW p \in Threads, OthersSame(p), Pc(p) \in Syncing, Pc(p)' \in Syncing,
           self'[p].run_counter = self[p].run_counter,
           CopiesLock', LockedHaveCopies', LatestIsSeen', Versions',
           Sets(p)', Position(p)', WrittenBack(p)', Waits(p)',
           \A q \in Threads \ {p} : Pc(q) \in Reading =>
              /\ Gentle(p, q)
              /\ \A o \in Objects : Seen(q, self[q].local_version, o)'
                                      = Seen(q, self[q].local_version, o),
           data' = data \/ \A q \in Threads \ {p} : Pc(q) # "unlock"
    PROVE  RluInv'
<1>1. Flags(p)'
    BY SyncHand, SyncFlags
<1>2. OfThread(p)'
    BY <1>1, SyncThread DEF Local
<1>3. Pc(p)' \notin Reading
    BY SyncLabels
<1> QED BY <1>2, <1>3, LoudStep

LEMMA SetsKept ==
    ASSUME TypeOK, NEW p \in Threads, Sets(p), SameSets(p),
           self'[p].run_counter = self[p].run_counter,
           self'[p].ws_head = self[p].ws_head, self'[p].ws_wb = self[p].ws_wb,
           self'[p].ws_tail = self[p].ws_tail, self'[p].max_write_sets = self[p].max_write_sets
    PROVE  Sets(p)' /\ (Running(p)' <=> Running(p))
<1>1. ASSUME NEW k \in Nat
      PROVE  Num(p, WS_INDEX(k))' = Num(p, WS_INDEX(k)) /\ Buf(p, WS_INDEX(k))' = Buf(p, WS_INDEX(k))
    BY WsSlots DEF SameSets
<1>2. Counts(p)' /\ Empty(p)' /\ Buffers(p)'
    BY DEF Sets, Counts, Empty, Buffers, Copy, SameSets, Running
<1>3. Older(p)'
  <2>1. \A k \in self[p].ws_wb .. self[p].ws_tail - 1 : k \in Nat
      BY ThreadType
  <2> QED BY <1>1, <2>1 DEF Sets, Older, Copy
<1> QED BY <1>2, <1>3 DEF Sets, Running

\* Versions, while p writes back.
LEMMA WritingVersions ==
    ASSUME RluInv, TypeOK', NEW p \in Threads, OthersSame(p), Pc(p)' \in WritingBack, VersionOf(p)',
           \/ version' = version
           \/ /\ version'.writer >= version.writer
              /\ \A q \in Threads \ {p} : Pc(q) \notin WritingBack
    PROVE  Versions'
<1>1. ASSUME NEW q \in Threads \ {p} PROVE VersionOf(q)'
  <2>1. VersionOf(q) /\ TypeOK
      BY DEF RluInv, Versions
  <2>2. version.writer \in Nat /\ version'.writer \in Nat /\ self[q].local_version \in Nat
      BY <2>1, ThreadType DEF TypeOK
  <2> QED BY <2>1, <2>2, OthersVersion
<1> QED BY <1>1 DEF Versions

LEMMA WriterVersionStep ==
    ASSUME RluInv, version.writer < MAX_VERSION, NEW p \in Threads, scheme' = scheme, writerVersion(p)
    PROVE  RluInv'
<1>0. /\ At(p, "writer_version") /\ UNCHANGED <<version, writer_lock, copy_of, data, freed, latest, history>>
      /\ self' = [self EXCEPT ![p].writer_version = Top(p).version] /\ Go(p, "announce")
    BY Zenon DEF writerVersion
<1>1. /\ Pc(p) = "writer_version" /\ Pc(p) \in WritingBack /\ Pc(p) \in Syncing
      /\ "announce" \in Syncing \ {"sync", "writer_version"} /\ "announce" \in WritingBack
      /\ "announce" \notin Writes /\ "announce" \in HasVersion /\ "announce" \notin Announced
      /\ Pc(p) \notin HasVersion /\ Pc(p) \notin Writes
    BY <1>0, AtIs DEF Syncing, WritingBack, Announced, Waiting, Alone, Writes, HasVersion
<1>2. /\ StacksOK' /\ Others(p) /\ Pc(p)' = "announce" /\ Pc(p)' \in Syncing
      /\ Top(p)'.version = Top(p).version
    BY <1>0, <1>1, WriterGo
<1>3. /\ TypeOK /\ Sets(p) /\ VersionOf(p) /\ CopiesLock /\ LockedHaveCopies
      /\ Top(p).version \in Nat /\ version.writer \in Nat /\ self[p] \in ThreadData
    BY <1>1, SyncHand, ThreadType
<1>4. /\ Top(p).version = version.writer + 1 /\ version.commit = version.writer
      /\ self[p].writer_version = MAX_VERSION
    BY <1>1, <1>3 DEF VersionOf
<1>5. PICK n \in Nat : n = Top(p).version
    BY <1>3
<1>6. PICK t : t = [self[p] EXCEPT !.writer_version = n]
    OBVIOUS
<1>7. /\ t \in ThreadData /\ t.run_counter = self[p].run_counter /\ t.writer_version = n
      /\ t.ws_head = self[p].ws_head
      /\ t.ws_wb = self[p].ws_wb /\ t.ws_tail = self[p].ws_tail
      /\ t.max_write_sets = self[p].max_write_sets /\ t.sets = self[p].sets
    BY <1>3, <1>6 DEF ThreadData
<1>8. self' \in [Threads -> ThreadData] /\ self'[p] = t
      /\ \A q \in Threads \ {p} : SameCore(q) /\ SameReader(q)
    BY <1>0, <1>3, <1>5, <1>6, <1>7, SelfStep
<1>9. OthersSame(p) /\ TypeOK'
    BY <1>0, <1>2, <1>3, <1>8 DEF OthersSame, TypeOK, history
<1>10. SameSets(p) /\ \A k \in Nat : Buf(p, WS_INDEX(k))' = Buf(p, WS_INDEX(k))
                                     /\ Num(p, WS_INDEX(k))' = Num(p, WS_INDEX(k))
    BY <1>7, <1>8 DEF SameSets, Num, Buf
<1>11. Sets(p)' /\ (Running(p)' <=> Running(p))
    BY <1>3, <1>7, <1>8, <1>10, SetsKept
<1>12. Pos(p)' = Pos(p)
    BY <1>1, <1>2, NoPosition
<1>13. CopiesLock' /\ LockedHaveCopies'
  <2>1. ASSUME NEW k \in Nat, NEW i \in Nat
        PROVE  /\ LiveAt(p, k, i)' <=> LiveAt(p, k, i)
               /\ Copy(p, WS_INDEX(k), i)' = Copy(p, WS_INDEX(k), i)
    <3>1. Num(p, WS_INDEX(k))' = Num(p, WS_INDEX(k)) /\ Buf(p, WS_INDEX(k))' = Buf(p, WS_INDEX(k))
        BY <1>10
    <3> QED BY <1>7, <1>8, <1>11, <1>12, <3>1 DEF LiveAt, Copy
  <2> QED BY <1>0, <1>3, <1>9, <2>1, LiveCopies
<1>14. /\ LatestIsSeen'
       /\ \A q \in Threads \ {p} : Pc(q) \in Reading =>
                 /\ self'[p].writer_version > self[q].local_version
                 /\ \A o \in Objects : Seen(q, self[q].local_version, o)'
                                         = Seen(q, self[q].local_version, o)
  <2>1. self'[p].writer_version > version.writer
      BY <1>3, <1>4, <1>5, <1>7, <1>8
  <2> QED BY <1>0, <1>4, <1>9, <2>1, OthersSee
<1>15. Versions'
  <2>1. VersionOf(p)'
    <3>1. Pc(p)' \notin Reading
        BY <1>2, SyncLabels
    <3> QED BY <1>0, <1>1, <1>2, <1>4, <1>5, <1>7, <1>8, <3>1 DEF VersionOf
  <2> QED BY <1>0, <1>1, <1>2, <1>9, <2>1, WritingVersions
<1>16. ASSUME NEW q \in Threads \ {p}, Pc(q) \in Reading PROVE Gentle(p, q)
  <2>1. self'[p].writer_version > self[q].local_version
      BY <1>14, <1>16
  <2>2. /\ self'[p].ws_head = self[p].ws_head /\ self'[p].ws_wb = self[p].ws_wb
        /\ self'[p].ws_tail >= self[p].ws_tail
      BY <1>3, <1>7, <1>8, ThreadType
  <2> QED BY <1>0, <1>10, <2>1, <2>2 DEF Gentle
<1>17. Position(p)' /\ WrittenBack(p)' /\ Waits(p)'
    BY <1>1, <1>2 DEF Position, WrittenBack, Waits, Alone
<1> QED BY <1>0, <1>1, <1>2, <1>7, <1>8, <1>9, <1>11, <1>13, <1>14, <1>15, <1>16, <1>17, WritingStep

\* Who sees another's copy at the present version, when only p writes back.
LEMMA OnlyWriter ==
    ASSUME RluInv, NEW p \in Threads, OneWritesBack, Pc(p) \in WritingBack,
           NEW q \in Threads \ {p}
    PROVE  Pc(q) \notin WritingBack /\ Pc(q) # "unlock" /\ self[q].writer_version = MAX_VERSION
<1>1. Pc(q) \notin WritingBack
    BY DEF OneWritesBack
<1>2. Pc(q) \notin HasVersion /\ Pc(q) # "unlock"
  <2>1. "unlock" \in WritingBack
      BY DEF WritingBack, Announced, Alone, Writes
  <2> QED BY <1>1, <2>1, WritingLabels
<1> QED BY <1>1, <1>2 DEF RluInv, Versions, VersionOf

LEMMA AnnounceStep ==
    ASSUME RluInv, OneWritesBack, version'.writer < MAX_VERSION, NEW p \in Threads,
           scheme' = scheme, announceVersion(p)
    PROVE  RluInv'
<1>0. /\ At(p, "announce") /\ UNCHANGED <<writer_lock, copy_of, data, self, freed, history>>
      /\ version' = [version EXCEPT !.writer = @ + 1]
      /\ latest' = Overlaid(latest, p, self[p].ws_wb, self[p].ws_tail)
      /\ Go(p, "init_quiescence")
    BY Zenon DEF announceVersion
<1>1. /\ Pc(p) = "announce" /\ Pc(p) \in WritingBack /\ Pc(p) \in Syncing
      /\ "init_quiescence" \in Syncing \ {"sync", "writer_version", "announce"}
      /\ "init_quiescence" \in WritingBack /\ "init_quiescence" \in Announced
      /\ "init_quiescence" \notin Alone
      /\ "init_quiescence" \notin Writes /\ "init_quiescence" \in HasVersion
      /\ Pc(p) \in HasVersion /\ Pc(p) \notin Writes
    BY <1>0, AtIs DEF Syncing, WritingBack, Announced, Waiting, Alone, Writes, HasVersion
<1>2. /\ StacksOK' /\ Others(p) /\ Pc(p)' = "init_quiescence" /\ Pc(p)' \in Syncing
      /\ Top(p)'.version = Top(p).version /\ Top(p)'.who = Top(p).who /\ Top(p)'.waits = Top(p).waits
    BY <1>0, <1>1, WriterGo
<1>3. /\ TypeOK /\ Sets(p) /\ VersionOf(p) /\ CopiesLock /\ LockedHaveCopies /\ LatestIsSeen
      /\ Top(p).version \in Nat /\ version.writer \in Nat /\ version.commit \in Nat /\ ~Running(p)
      /\ Fresh(Top(p)) /\ Top(p).pc = Pc(p)
    BY <1>1, SyncHand
<1>4. /\ Top(p).version = version.writer + 1 /\ version.commit = version.writer
      /\ self[p].writer_version = Top(p).version
    BY <1>1, <1>3 DEF VersionOf
<1>5. PICK n \in Nat : n = version.writer + 1
    BY <1>3
<1>6. /\ version' \in [writer : Nat, commit : Nat] /\ version'.writer = n
      /\ version'.commit = version.commit
    BY <1>0, <1>3, <1>5 DEF TypeOK
<1>7. /\ latest' \in States
      /\ \A o \in Objects : latest'[o] =
            IF copy_of[o] # Nothing /\ copy_of[o][1] = p THEN CopyVal(copy_of[o]) ELSE latest[o]
  <2>1. latest \in States
      BY <1>3 DEF TypeOK
  <2> QED BY <1>0, <1>1, <1>3, <2>1, Overlay
<1>8. \A q \in Threads : SameCore(q) /\ SameReader(q)
    BY <1>0, <1>3, SelfSame
<1>9. OthersSame(p) /\ TypeOK'
    BY <1>0, <1>2, <1>3, <1>6, <1>7, <1>8 DEF OthersSame, TypeOK, history
<1>10. Pos(p)' = Pos(p)
    BY <1>1, <1>2, NoPosition
<1>11. CopiesLock' /\ LockedHaveCopies'
  <2>1. SameCore(p)
      BY <1>8
  <2>2. ASSUME NEW k \in Nat, NEW i \in Nat
        PROVE  /\ LiveAt(p, k, i)' <=> LiveAt(p, k, i)
               /\ Copy(p, WS_INDEX(k), i)' = Copy(p, WS_INDEX(k), i)
      BY <1>10, <2>1, LiveSame
  <2> QED BY <1>0, <1>3, <1>9, <2>2, LiveCopies
<1>12. ASSUME NEW r, NEW v, NEW o \in Objects PROVE Seen(r, v, o)' = Seen(r, v, o)
  <2>1. CASE copy_of[o] = Nothing
      BY <1>0, <2>1 DEF Seen
  <2>2. CASE copy_of[o] # Nothing
    <3>1. PICK c \in Addrs : c = copy_of[o]
        BY <1>3, <2>2 DEF TypeOK
    <3>2. CopyVal(c)' = CopyVal(c)
        BY <1>8, AddrIs, CopyValSame DEF SameCore
    <3>3. CopyVal(copy_of[o])' = CopyVal(c)'
        BY <1>0, <3>1 DEF CopyVal
    <3>4. CopyVal(copy_of[o])' = CopyVal(copy_of[o])
        BY <3>1, <3>2, <3>3
    <3> QED BY <1>0, <3>4 DEF Seen
  <2> QED BY <2>1, <2>2
<1>13. LatestIsSeen'
  <2> SUFFICES ASSUME NEW o \in Objects PROVE latest'[o] = Seen(Nothing, n, o)'
      BY <1>6 DEF LatestIsSeen
  <2>1. Seen(Nothing, n, o)' = Seen(Nothing, n, o)
      BY <1>12
  <2>2. n < MAX_VERSION
      BY <1>6
  <2>3. latest[o] = Seen(Nothing, version.writer, o)
      BY <1>3 DEF LatestIsSeen
  <2>4. CASE copy_of[o] = Nothing
      BY <1>7, <2>1, <2>3, <2>4 DEF Seen
  <2>5. CASE copy_of[o] # Nothing /\ copy_of[o][1] = p
    <3>1. self[p].writer_version <= n
        BY <1>3, <1>4, <1>5
    <3>2. Seen(Nothing, n, o) = CopyVal(copy_of[o])
        BY <2>5, <3>1 DEF Seen
    <3> QED BY <1>7, <2>1, <2>5, <3>2
  <2>6. CASE copy_of[o] # Nothing /\ copy_of[o][1] # p
    <3>1. PICK q \in Threads \ {p} : q = copy_of[o][1]
        BY <1>3, <2>6, CopyOfAddr
    <3>2. self[q].writer_version = MAX_VERSION
        BY <1>1, OnlyWriter
    <3>3. /\ ~(self[q].writer_version <= n) /\ ~(self[q].writer_version <= version.writer)
          /\ q # Nothing
        BY <1>3, <1>5, <2>2, <3>2, RluAssumption
    <3>4. Seen(Nothing, n, o) = data[o] /\ Seen(Nothing, version.writer, o) = data[o]
        BY <2>6, <3>1, <3>3 DEF Seen
    <3> QED BY <1>7, <2>1, <2>3, <2>6, <3>4
  <2> QED BY <2>4, <2>5, <2>6
<1>14. Versions'
  <2>1. VersionOf(p)'
    <3>1. Pc(p)' \notin Reading /\ Pc(p)' \notin {"writer_version", "announce"}
        BY <1>2, SyncLabels
    <3> QED BY <1>0, <1>1, <1>2, <1>4, <1>5, <1>6, <3>1 DEF VersionOf
  <2>2. version'.writer >= version.writer
      BY <1>3, <1>5, <1>6
  <2>3. \A q \in Threads \ {p} : Pc(q) \notin WritingBack
      BY <1>1, OnlyWriter
  <2> QED BY <1>1, <1>2, <1>9, <2>1, <2>2, <2>3, WritingVersions
<1>15. ASSUME NEW q \in Threads \ {p}, Pc(q) \in Reading PROVE Gentle(p, q)
  <2>1. \A k \in Nat : Buf(p, WS_INDEX(k))' = Buf(p, WS_INDEX(k))
      BY <1>0 DEF Buf
  <2>2. self[p].ws_tail >= self[p].ws_tail
      BY <1>3, ThreadType
  <2> QED BY <1>0, <2>1, <2>2 DEF Gentle
<1>16. Sets(p)'
    BY <1>3, <1>8, SetsSame
<1>17. Position(p)' /\ WrittenBack(p)'
    BY <1>1, <1>2 DEF Position, WrittenBack
<1>18. Waits(p)'
  <2>1. Top(p).who = 1 /\ Top(p).waits = << >>
      BY <1>1, <1>3 DEF Fresh
  <2>2. \A r \in Threads : ~(r < 1)
      BY ThreadNumbers
  <2>3. Len(<< >>) = 0
      OBVIOUS
  <2> QED BY <1>1, <1>2, <2>1, <2>2, <2>3 DEF Waits
<1>19. data' = data /\ self' = self
    BY <1>0
<1> QED
    BY <1>1, <1>2, <1>9, <1>11, <1>12, <1>13, <1>14, <1>15, <1>16, <1>17, <1>18, <1>19, WritingStep

\* Whom a write-back has waited for sees its copies.
LEMMA WaitedFor ==
    ASSUME RluInv, NEW p \in Threads, Pc(p) \in Alone, NEW q \in Threads, Pc(q) \in Reading
    PROVE  /\ self[p].writer_version = version.writer
           /\ self[p].writer_version <= self[q].local_version
           /\ self[q].local_version <= version.writer /\ q # p
<1>1. Pc(p) \in Syncing /\ Pc(p) \in HasVersion /\ Pc(p) \in Announced
    BY WritingLabels
<1>2. TypeOK /\ VersionOf(p) /\ Waits(p) /\ Top(p).version \in Nat
    BY <1>1, SyncHand
<1>3. self[p].writer_version = Top(p).version /\ Top(p).version = version.writer
    BY <1>1, <1>2 DEF VersionOf
<1>4. self[q].local_version \in Nat /\ VersionOf(q)
    BY <1>2, ThreadType DEF RluInv, Versions
<1>5. ~(self[q].local_version < Top(p).version)
    BY <1>2 DEF Waits, Slow
<1>6. q # p
    BY <1>1, SyncLabels
<1> QED BY <1>2, <1>3, <1>4, <1>5, <1>6 DEF VersionOf

LEMMA WrittenBackStep ==
    ASSUME RluInv, version.writer < MAX_VERSION, NEW p \in Threads, scheme' = scheme, writtenBack(p)
    PROVE  RluInv'
<1>0. /\ At(p, "written_back") /\ UNCHANGED <<version, writer_lock, copy_of, data, freed, latest, history>>
      /\ self' = [self EXCEPT ![p].ws_wb = self[p].ws_tail, ![p].writer_version = MAX_VERSION]
      /\ Go(p, "commit")
    BY Zenon DEF writtenBack
<1>1. /\ Pc(p) = "written_back" /\ Pc(p) \in WritingBack /\ Pc(p) \in Syncing /\ Pc(p) \in Writes
      /\ Pc(p) \in Alone
      /\ "commit" \in Syncing \ {"sync", "writer_version", "announce"} /\ "commit" \in WritingBack
      /\ "commit" \notin Writes /\ "commit" \notin HasVersion /\ "commit" \in Announced
      /\ "commit" \notin Alone /\ "commit" \notin Waiting
      /\ Pc(p) \in Announced
    BY <1>0, AtIs DEF Syncing, WritingBack, Announced, Waiting, Alone, Writes, HasVersion
<1>2. /\ StacksOK' /\ Others(p) /\ Pc(p)' = "commit" /\ Pc(p)' \in Syncing
      /\ Top(p)'.version = Top(p).version
    BY <1>0, <1>1, WriterGo
<1>3. /\ TypeOK /\ Sets(p) /\ VersionOf(p) /\ CopiesLock /\ LockedHaveCopies /\ LatestIsSeen
      /\ Top(p).version \in Nat /\ version.writer \in Nat /\ version.commit \in Nat /\ ~Running(p)
      /\ Position(p) /\ Counts(p) /\ self[p].ws_head \in Nat /\ self[p].ws_wb \in Nat
      /\ self[p].ws_tail \in Nat /\ self[p].max_write_sets \in Nat
      /\ Top(p).ws \in Nat
    BY <1>1, SyncHand
<1>4. /\ self[p].ws_head = self[p].ws_wb /\ Top(p).ws = self[p].ws_tail
    BY <1>1, <1>3 DEF Position
<1>5. PICK tail \in Nat : tail = self[p].ws_tail
    BY <1>3
<1>6. PICK t : t = [self[p] EXCEPT !.ws_wb = tail, !.writer_version = MAX_VERSION]
    OBVIOUS
<1>7. /\ t \in ThreadData /\ t.run_counter = self[p].run_counter /\ t.writer_version = MAX_VERSION
      /\ t.ws_head = self[p].ws_head
      /\ t.ws_wb = tail /\ t.ws_tail = self[p].ws_tail
      /\ t.max_write_sets = self[p].max_write_sets /\ t.sets = self[p].sets
  <2>1. self[p] \in ThreadData /\ MAX_VERSION \in Nat
      BY <1>3, ThreadType, RluAssumption
  <2> QED BY <1>5, <1>6, <2>1 DEF ThreadData
<1>8. self' \in [Threads -> ThreadData] /\ self'[p] = t
      /\ \A q \in Threads \ {p} : SameCore(q) /\ SameReader(q)
  <2>1. self' = [self EXCEPT ![p] = t]
      BY <1>0, <1>5, <1>6, Zenon
  <2> QED BY <1>3, <1>7, <2>1, SelfStep
<1>9. OthersSame(p) /\ TypeOK'
    BY <1>0, <1>2, <1>3, <1>8 DEF OthersSame, TypeOK, history
<1>10. SameSets(p) /\ \A u : Buf(p, u)' = Buf(p, u) /\ Num(p, u)' = Num(p, u)
    BY <1>7, <1>8 DEF SameSets, Num, Buf
<1>11. ~Running(p)'
    BY <1>3, <1>7, <1>8 DEF Running
<1>12. \A k \in Nat, i \in Nat : ~LiveAt(p, k, i) /\ ~LiveAt(p, k, i)'
  <2>1. Pos(p)[1] = self[p].ws_tail
      BY <1>1, <1>4 DEF Pos
  <2>2. ASSUME NEW k \in Nat, NEW i \in Nat PROVE ~LiveAt(p, k, i)
      BY <1>3, <2>1 DEF LiveAt
  <2>3. ASSUME NEW k \in Nat, NEW i \in Nat PROVE ~LiveAt(p, k, i)'
      BY <1>3, <1>5, <1>7, <1>8, <1>11 DEF LiveAt
  <2> QED BY <2>2, <2>3
<1>13. CopiesLock' /\ LockedHaveCopies'
    BY <1>0, <1>3, <1>9, <1>12, LiveCopies
<1>14. \A o \in Objects : copy_of[o] # Nothing => copy_of[o][1] # p
    BY <1>3, <1>12, Owner
<1>15. ASSUME NEW r, r # p, NEW v \in Nat, NEW o \in Objects PROVE Seen(r, v, o)' = Seen(r, v, o)
    BY <1>0, <1>3, <1>9, <1>14, <1>15, SeenSame
<1>16. LatestIsSeen'
  <2> SUFFICES ASSUME NEW o \in Objects PROVE latest[o] = Seen(Nothing, version.writer, o)'
      BY <1>0 DEF LatestIsSeen
  <2>1. PICK v \in Nat : v = version.writer
      BY <1>3
  <2>2. Seen(Nothing, v, o)' = Seen(Nothing, v, o)
      BY <1>15, RluAssumption
  <2>3. version' = version
      BY <1>0
  <2> QED BY <1>3, <2>1, <2>2, <2>3 DEF LatestIsSeen
<1>17. Versions'
  <2>1. VersionOf(p)'
    <3>1. Pc(p)' \notin Reading /\ Pc(p)' \notin {"writer_version", "announce"}
        BY <1>1, <1>2, SyncLabels
    <3>2. Top(p).version = version.writer /\ version.writer = version.commit + 1
        BY <1>1, <1>3 DEF VersionOf
    <3> QED BY <1>0, <1>1, <1>2, <1>7, <1>8, <3>1, <3>2 DEF VersionOf
  <2> QED BY <1>0, <1>1, <1>2, <1>9, <2>1, WritingVersions
<1>18. ASSUME NEW q \in Threads \ {p}, Pc(q) \in Reading
       PROVE  /\ Gentle(p, q)
              /\ \A o \in Objects : Seen(q, self[q].local_version, o)'
                                      = Seen(q, self[q].local_version, o)
  <2>1. self[q].local_version \in Nat /\ self[q].local_version <= version.writer
      BY <1>1, <1>3, <1>18, WaitedFor, ThreadType
  <2>2. self'[p].writer_version > self[q].local_version
    <3>1. PICK v \in Nat : v = self[q].local_version
        BY <2>1
    <3>2. PICK n \in Nat : n = version.writer
        BY <1>3
    <3>3. MAX_VERSION \in Nat /\ v <= n /\ n < MAX_VERSION
        BY <2>1, <3>1, <3>2, RluAssumption
    <3> QED BY <1>7, <1>8, <3>1, <3>3
  <2>3. /\ self'[p].ws_head = self[p].ws_head /\ self'[p].ws_tail >= self[p].ws_tail
      BY <1>3, <1>7, <1>8
  <2>4. Gentle(p, q)
      BY <1>0, <1>10, <2>2, <2>3 DEF Gentle
  <2>5. PICK v \in Nat : v = self[q].local_version
      BY <2>1
  <2>6. self'[q].local_version = self[q].local_version
      BY <1>9 DEF OthersSame, SameReader
  <2> QED BY <1>15, <2>4, <2>5, <2>6
<1>19. Sets(p)'
  <2>1. Counts(p)'
      BY <1>3, <1>4, <1>5, <1>7, <1>8 DEF Counts
  <2>2. Empty(p)' /\ Buffers(p)'
      BY <1>3, <1>7, <1>8, <1>10, <1>11 DEF Sets, Empty, Buffers, Copy
  <2>3. Older(p)'
      BY <1>3, <1>5, <1>7, <1>8 DEF Older
  <2> QED BY <2>1, <2>2, <2>3 DEF Sets
<1>20. Position(p)' /\ WrittenBack(p)' /\ Waits(p)'
    BY <1>1, <1>2, <1>5, <1>7, <1>8 DEF Position, WrittenBack, Waits, Waiting
<1>21. self'[p].run_counter = self[p].run_counter /\ data' = data
    BY <1>0, <1>7, <1>8
<1> QED BY <1>1, <1>2, <1>9, <1>13, <1>16, <1>17, <1>18, <1>19, <1>20, <1>21, WritingStep

LEMMA CommitStep ==
    ASSUME RluInv, OneWritesBack, NEW p \in Threads, scheme' = scheme, commit(p)
    PROVE  RluInv'
<1>0. /\ At(p, "commit") /\ UNCHANGED <<writer_lock, copy_of, data, freed, latest, history>>
      /\ version' = [version EXCEPT !.commit = @ + 1]
      /\ self' = [self EXCEPT ![p].is_sync = FALSE] /\ Go(p, "free")
    BY Zenon DEF commit
<1>1. /\ Pc(p) = "commit" /\ Pc(p) \in WritingBack /\ Pc(p) \in Syncing /\ Pc(p) \notin Writes
      /\ "free" \in Syncing \ {"sync", "writer_version", "announce"} /\ "free" \notin WritingBack
      /\ "free" \notin Writes /\ "free" \notin HasVersion /\ "free" \notin Announced
      /\ "free" \notin Alone /\ "free" \notin Waiting
      /\ Pc(p) \in Announced /\ Pc(p) \notin HasVersion
    BY <1>0, AtIs DEF Syncing, WritingBack, Announced, Waiting, Alone, Writes, HasVersion
<1>2. /\ StacksOK' /\ Others(p) /\ Pc(p)' = "free" /\ Pc(p)' \in Syncing
    BY <1>0, <1>1, WriterGo
<1>3. /\ TypeOK /\ Sets(p) /\ Flags(p) /\ Position(p) /\ VersionOf(p) /\ Versions
      /\ version.writer \in Nat /\ version.commit \in Nat /\ self[p] \in ThreadData
    BY <1>1, SyncHand, ThreadType
<1>4. version.writer = version.commit + 1 /\ self[p].writer_version = MAX_VERSION
      /\ self[p].ws_wb = self[p].ws_tail
    BY <1>1, <1>3 DEF VersionOf, Position
<1>5. PICK n \in Nat : n = version.commit + 1
    BY <1>3
<1>6. version' \in [writer : Nat, commit : Nat] /\ version'.commit = n /\ version'.writer = version.writer
    BY <1>0, <1>3, <1>5 DEF TypeOK
<1>7. PICK t : t = [self[p] EXCEPT !.is_sync = FALSE]
    OBVIOUS
<1>8. /\ t \in ThreadData /\ t.run_counter = self[p].run_counter
      /\ t.writer_version = self[p].writer_version /\ t.ws_head = self[p].ws_head
      /\ t.ws_wb = self[p].ws_wb /\ t.ws_tail = self[p].ws_tail
      /\ t.max_write_sets = self[p].max_write_sets /\ t.sets = self[p].sets
    BY <1>3, <1>7 DEF ThreadData
<1>9. self' \in [Threads -> ThreadData] /\ self'[p] = t
      /\ \A q \in Threads \ {p} : SameCore(q) /\ SameReader(q)
  <2>1. self' = [self EXCEPT ![p] = t]
      BY <1>0, <1>7
  <2> QED BY <1>3, <1>8, <2>1, SelfStep
<1>10. SameCore(p)
    BY <1>8, <1>9 DEF SameCore, SameSets, Num, Buf
<1>11. Pos(p)' = Pos(p)
    BY <1>1, <1>2, NoPosition
<1>12. Calm(p)
    BY <1>0, <1>2, <1>3, <1>6, <1>9, <1>10, <1>11 DEF Calm, OthersSame, TypeOK, history
<1>13. OfThread(p)'
  <2>1. Flags(p)'
      BY <1>1, <1>2, <1>3, <1>8, <1>9, SyncFlags
  <2>2. Sets(p)'
      BY <1>3, <1>10, SetsSame
  <2>3. Position(p)' /\ WrittenBack(p)' /\ Waits(p)'
      BY <1>1, <1>2, <1>4, <1>8, <1>9 DEF Position, WrittenBack, Waits, Waiting
  <2> QED BY <1>2, <2>1, <2>2, <2>3, SyncThread DEF Local
<1>14. \A q \in Threads \ {p} : Pc(q) \notin WritingBack
    BY <1>1, OnlyWriter
<1>15. Versions'
  <2>1. VersionOf(p)'
    <3>1. Pc(p)' \notin Reading /\ Pc(p)' \notin {"writer_version", "announce"}
        BY <1>1, <1>2, SyncLabels
    <3> QED BY <1>1, <1>2, <1>4, <1>8, <1>9, <3>1 DEF VersionOf
  <2>2. ASSUME NEW q \in Threads \ {p} PROVE VersionOf(q)'
    <3>1. self[q].local_version \in Nat /\ VersionOf(q) /\ OthersSame(p)
        BY <1>3, <1>12, ThreadType DEF Versions, Calm
    <3>2. version'.writer \in Nat /\ version'.writer >= version.writer
        BY <1>3, <1>6
    <3> QED BY <1>3, <1>14, <3>1, <3>2, OthersVersion
  <2>3. version'.commit = version'.writer
      BY <1>4, <1>5, <1>6
  <2> QED BY <2>1, <2>2, <2>3 DEF Versions
<1>16. Pc(p)' \notin Reading
    BY <1>2, SyncLabels
<1> QED BY <1>12, <1>13, <1>14, <1>15, <1>16, CalmStep

\* The copy a write-back is at.
LEMMA AtPlace ==
    ASSUME RluInv, NEW p \in Threads, Pc(p) \in Writes, Top(p).ws < self[p].ws_tail,
           Top(p).i <= Num(p, WS_INDEX(Top(p).ws))
    PROVE  \E k \in Nat, i \in Nat \ {0}, w \in Slots, c \in Copies :
              /\ k = Top(p).ws /\ i = Top(p).i /\ w = WS_INDEX(k) /\ c = Copy(p, w, i)
              /\ self[p].ws_wb <= k /\ k < self[p].ws_tail /\ i <= Num(p, w) /\ Pos(p) = <<k, i>>
              /\ LiveAt(p, k, i) /\ c.obj \in Objects /\ copy_of[c.obj] = <<p, w, i>>
              /\ copy_of[c.obj] # Nothing /\ CopyVal(copy_of[c.obj]) = c.val
              /\ c.val \in Values /\ (c.obj \in Pointers => c.val \in Objects)
<1>1. Pc(p) \in Syncing
    BY WritingLabels
<1>2. /\ TypeOK /\ Position(p) /\ Sets(p) /\ CopiesLock
      /\ Top(p).ws \in Nat /\ Top(p).i \in Nat
    BY <1>1, SyncHand
<1>3. PICK k \in Nat, i \in Nat : k = Top(p).ws /\ i = Top(p).i
    BY <1>2
<1>4. i \in Nat \ {0} /\ self[p].ws_wb <= k /\ k < self[p].ws_tail
    BY <1>2, <1>3 DEF Position
<1>5. PICK w \in Slots : w = WS_INDEX(k)
    BY WsSlots
<1>6. PICK c : c = Copy(p, w, i)
    OBVIOUS
<1>7. c \in Copies
  <2>1. Num(p, w) \in Nat /\ Num(p, w) <= Len(Buf(p, w)) /\ Buf(p, w) \in Seq(Copies) /\ i <= Num(p, w)
      BY <1>2, <1>3, <1>5, ThreadType DEF Sets, Buffers
  <2>2. i \in 1 .. Len(Buf(p, w))
      BY <1>4, <2>1
  <2> QED BY <1>6, <2>1, <2>2 DEF Copy
<1>8. Pos(p) = <<k, i>>
    BY <1>3 DEF Pos
<1>9. LiveAt(p, k, i)
    BY <1>3, <1>4, <1>8 DEF LiveAt
<1>10. copy_of[c.obj] = <<p, w, i>>
    BY <1>2, <1>5, <1>6, <1>9 DEF CopiesLock
<1>11. <<p, w, i>> \in Addrs
    BY <1>4 DEF Addrs
<1>12. copy_of[c.obj] # Nothing
    BY <1>10, <1>11, AddrIs
<1>13. CopyVal(copy_of[c.obj]) = c.val
    BY <1>6, <1>10 DEF CopyVal
<1>14. c.obj \in Objects /\ c.val \in Values /\ (c.obj \in Pointers => c.val \in Objects)
    BY <1>7 DEF Copies
<1> QED BY <1>3, <1>4, <1>5, <1>6, <1>7, <1>8, <1>9, <1>10, <1>12, <1>13, <1>14

\* Whoever reads while p writes back sees the copies of p.
LEMMA SeesCopies ==
    ASSUME RluInv, NEW p \in Threads, Pc(p) \in Alone, NEW o \in Objects,
           copy_of[o] # Nothing, copy_of[o][1] = p
    PROVE  /\ Seen(Nothing, version.writer, o) = CopyVal(copy_of[o])
           /\ \A q \in Threads : Pc(q) \in Reading =>
                 /\ Seen(q, self[q].local_version, o) = CopyVal(copy_of[o])
                 /\ Top(q).snap[o] = CopyVal(copy_of[o])
<1>1. Pc(p) \in Syncing /\ Pc(p) \in HasVersion /\ Pc(p) \in Announced
    BY WritingLabels
<1>2. self[p].writer_version = version.writer /\ version.writer \in Nat
    BY <1>1, SyncHand DEF VersionOf
<1>3. Seen(Nothing, version.writer, o) = CopyVal(copy_of[o])
    BY <1>2 DEF Seen
<1>4. ASSUME NEW q \in Threads, Pc(q) \in Reading
      PROVE  /\ Seen(q, self[q].local_version, o) = CopyVal(copy_of[o])
             /\ Top(q).snap[o] = CopyVal(copy_of[o])
  <2>1. Seen(q, self[q].local_version, o) = CopyVal(copy_of[o])
      BY <1>4, WaitedFor DEF Seen
  <2>2. SnapIsSeen(q)
      BY DEF RluInv, OfThread
  <2> QED BY <1>4, <2>1, <2>2 DEF SnapIsSeen
<1> QED BY <1>3, <1>4

\* A step of a write-back that leaves the threads' own data alone.
LEMMA PlaceStep ==
    ASSUME RluInv, NEW p \in Threads, scheme' = scheme, todo' = todo,
           UNCHANGED <<version, self, latest>>, Pc(p) \in Writes, Pc(p)' \in Writes,
           copy_of' \in [Objects -> Addrs \cup {Nothing}], data' \in States,
           StacksOK', Others(p), Top(p)'.version = Top(p).version
    PROVE  /\ TypeOK' /\ OthersSame(p) /\ \A q \in Threads : SameCore(q) /\ SameReader(q)
           /\ Sets(p)' /\ Versions' /\ Waits(p)'
           /\ Pc(p) \in Syncing /\ Pc(p)' \in Syncing /\ Pc(p) \in Alone /\ Pc(p) \in WritingBack
           /\ \A c : CopyVal(c)' = CopyVal(c)
<1>1. /\ Pc(p) \in Syncing /\ Pc(p)' \in Syncing /\ Pc(p)' \in WritingBack /\ Pc(p)' \in Alone
      /\ Pc(p) \in HasVersion /\ Pc(p)' \in HasVersion /\ Pc(p) \in Announced /\ Pc(p)' \in Announced
      /\ Pc(p) \in Alone /\ Pc(p) \in WritingBack
    BY WritingLabels
<1>2. /\ Pc(p)' \notin Waiting /\ Pc(p)' \notin {"init_quiescence", "wait"}
      /\ Pc(p)' \notin {"writer_version", "announce"}
    BY DEF Writes, Waiting
<1>3. TypeOK /\ Sets(p) /\ VersionOf(p) /\ Waits(p)
    BY <1>1, SyncHand
<1>4. \A q \in Threads : SameCore(q) /\ SameReader(q)
    BY <1>3, SelfSame
<1>5. OthersSame(p) /\ TypeOK'
    BY <1>3, <1>4 DEF OthersSame, TypeOK
<1>6. Sets(p)'
    BY <1>3, <1>4, SetsSame
<1>7. Pc(p)' \notin Reading
    BY <1>1, SyncLabels
<1>8. VersionOf(p)'
    BY <1>1, <1>2, <1>3, <1>7 DEF VersionOf
<1>9. Versions'
    BY <1>1, <1>5, <1>8, WritingVersions
<1>10. Waits(p)'
  <2>1. ASSUME NEW r \in Threads PROVE ~Slow(p, r)'
    <3>1. ~Slow(p, r)
        BY <1>1, <1>3 DEF Waits
    <3> QED BY <1>1, <3>1, SlowSame
  <2> QED BY <1>2, <2>1 DEF Waits
<1>11. \A c : CopyVal(c)' = CopyVal(c)
    BY DEF CopyVal, Copy, Buf
<1> QED BY <1>1, <1>4, <1>5, <1>6, <1>9, <1>10, <1>11

\* The write-back writes the copy it is at.
LEMMA WriteObject ==
    ASSUME RluInv, OneWritesBack, NEW p \in Threads, scheme' = scheme, Pc(p) = "write_back",
           UNCHANGED <<version, copy_of, self, latest, todo>>, Go(p, "unlock"),
           Top(p).ws < self[p].ws_tail, Top(p).i <= Num(p, WS_INDEX(Top(p).ws)),
           NEW c, c = Copy(p, WS_INDEX(Top(p).ws), Top(p).i),
           data' = [data EXCEPT ![c.obj] = c.val]
    PROVE  RluInv'
<1>1. /\ Pc(p) \in Writes /\ "unlock" \in Writes /\ Pc(p) \in Syncing
      /\ "unlock" \in Syncing \ {"sync", "writer_version", "announce"}
    BY DEF Writes, Syncing, WritingBack, Announced, Alone
<1>2. /\ StacksOK' /\ Others(p) /\ Pc(p)' = "unlock"
      /\ Top(p)'.version = Top(p).version /\ Top(p)'.ws = Top(p).ws /\ Top(p)'.i = Top(p).i
    BY <1>1, WriterGo
<1>3. /\ TypeOK /\ CopiesLock /\ LockedHaveCopies /\ LatestIsSeen /\ Position(p)
    BY <1>1, SyncHand
<1>4. PICK k \in Nat, i \in Nat \ {0}, w \in Slots, x \in Copies :
        /\ k = Top(p).ws /\ i = Top(p).i /\ w = WS_INDEX(k) /\ x = Copy(p, w, i)
        /\ self[p].ws_wb <= k /\ k < self[p].ws_tail /\ i <= Num(p, w) /\ Pos(p) = <<k, i>>
        /\ LiveAt(p, k, i) /\ x.obj \in Objects /\ copy_of[x.obj] = <<p, w, i>>
        /\ copy_of[x.obj] # Nothing /\ CopyVal(copy_of[x.obj]) = x.val
        /\ x.val \in Values /\ (x.obj \in Pointers => x.val \in Objects)
    BY <1>1, AtPlace
<1>0. c = x
    BY <1>4
<1>5. PICK at \in Objects : at = c.obj
    BY <1>0, <1>4
<1>6. PICK v \in Values : v = c.val /\ (at \in Pointers => v \in Objects)
    BY <1>0, <1>4, <1>5
<1>7. data \in States /\ data' = [data EXCEPT ![at] = v]
    BY <1>3, <1>5, <1>6 DEF TypeOK
<1>8. data' \in States /\ data'[at] = v /\ \A o \in Objects \ {at} : data'[o] = data[o]
    BY <1>6, <1>7 DEF States, Pointers
<1>9. copy_of[at] # Nothing /\ copy_of[at][1] = p /\ CopyVal(copy_of[at]) = v
    BY <1>0, <1>4, <1>5, <1>6
<1>10. copy_of' \in [Objects -> Addrs \cup {Nothing}]
    BY <1>3 DEF TypeOK
<1>11. /\ TypeOK' /\ OthersSame(p) /\ \A q \in Threads : SameCore(q) /\ SameReader(q)
       /\ Sets(p)' /\ Versions' /\ Waits(p)'
       /\ Pc(p) \in Syncing /\ Pc(p)' \in Syncing /\ Pc(p) \in Alone /\ Pc(p) \in WritingBack
       /\ \A d : CopyVal(d)' = CopyVal(d)
    BY <1>1, <1>2, <1>8, <1>10, PlaceStep
<1>12. Pos(p)' = Pos(p)
    BY <1>1, <1>2 DEF Pos
<1>13. CopiesLock' /\ LockedHaveCopies'
  <2>1. SameCore(p)
      BY <1>11
  <2>2. ASSUME NEW j \in Nat, NEW n \in Nat
        PROVE  /\ LiveAt(p, j, n)' <=> LiveAt(p, j, n)
               /\ Copy(p, WS_INDEX(j), n)' = Copy(p, WS_INDEX(j), n)
      BY <1>12, <2>1, LiveSame
  <2> QED BY <1>3, <1>11, <2>2, LiveCopies
\* The object is locked, and who sees the copy sees the same as before.
<1>14. ASSUME NEW r, NEW u, NEW o \in Objects, o = at => Seen(r, u, o) = v
       PROVE  Seen(r, u, o)' = Seen(r, u, o)
  <2>1. CASE o = at
    <3>1. Seen(r, u, o)' = CopyVal(copy_of[o])' \/ Seen(r, u, o)' = data'[o]
        BY DEF Seen
    <3>2. CopyVal(copy_of[o])' = CopyVal(copy_of[o])'
        OBVIOUS
    <3>3. CopyVal(copy_of[o])' = v
      <4>1. PICK d : d = copy_of[at]
          OBVIOUS
      <4>2. CopyVal(d)' = CopyVal(d) /\ copy_of' = copy_of
          BY <1>11
      <4>3. CopyVal(copy_of[o])' = CopyVal(d)'
          BY <2>1, <4>1, <4>2 DEF CopyVal
      <4> QED BY <1>9, <4>1, <4>2, <4>3
    <3> QED BY <1>8, <1>14, <2>1, <3>1, <3>3
  <2>2. CASE o # at
    <3>1. PICK d : d = copy_of[o]
        OBVIOUS
    <3>2. CopyVal(d)' = CopyVal(d) /\ copy_of' = copy_of /\ self' = self /\ data'[o] = data[o]
        BY <1>8, <1>11, <2>2
    <3>3. CopyVal(copy_of[o])' = CopyVal(copy_of[o])
        BY <3>1, <3>2 DEF CopyVal
    <3> QED BY <3>2, <3>3 DEF Seen
  <2> QED BY <2>1, <2>2
<1>15. /\ Seen(Nothing, version.writer, at) = v
       /\ \A q \in Threads : Pc(q) \in Reading =>
             Seen(q, self[q].local_version, at) = v /\ Top(q).snap[at] = v
    BY <1>9, <1>11, SeesCopies
<1>16. LatestIsSeen'
  <2> SUFFICES ASSUME NEW o \in Objects PROVE latest[o] = Seen(Nothing, version.writer, o)'
      BY DEF LatestIsSeen
  <2>1. PICK u : u = version.writer
      OBVIOUS
  <2>2. Seen(Nothing, u, o)' = Seen(Nothing, u, o)
      BY <1>14, <1>15, <2>1
  <2> QED BY <1>3, <2>1, <2>2 DEF LatestIsSeen
<1>17. ASSUME NEW q \in Threads \ {p}, Pc(q) \in Reading
       PROVE  /\ Gentle(p, q)
              /\ \A o \in Objects : Seen(q, self[q].local_version, o)'
                                      = Seen(q, self[q].local_version, o)
  <2>1. PICK u : u = self[q].local_version
      OBVIOUS
  <2>2. \A o \in Objects : Seen(q, u, o)' = Seen(q, u, o)
      BY <1>14, <1>15, <1>17, <2>1
  <2>3. \A o \in Objects : data'[o] = data[o] \/ data'[o] = Top(q).snap[o]
      BY <1>8, <1>15, <1>17
  <2>4. \A j \in Nat : Buf(p, WS_INDEX(j))' = Buf(p, WS_INDEX(j))
      BY DEF Buf
  <2>5. self[p].ws_tail >= self[p].ws_tail
      BY <1>3, ThreadType
  <2> QED BY <2>1, <2>2, <2>3, <2>4, <2>5 DEF Gentle
<1>18. \A q \in Threads \ {p} : Pc(q) # "unlock"
    BY <1>11, OnlyWriter
<1>19. Num(p, WS_INDEX(k))' = Num(p, WS_INDEX(k)) /\ Copy(p, w, i)' = Copy(p, w, i)
    BY DEF Num, Copy, Buf
<1>20. Position(p)'
    BY <1>1, <1>2, <1>3, <1>4, <1>19 DEF Position, Syncing, Writes
<1>21. WrittenBack(p)'
  <2>1. Top(p)'.ws = k /\ Top(p)'.i = i
      BY <1>2, <1>4
  <2>2. WS_INDEX(Top(p)'.ws) = w
      BY <1>4, <2>1
  <2>3. Copy(p, WS_INDEX(Top(p).ws), Top(p).i)' = Copy(p, w, i)'
      BY <2>1, <2>2 DEF Copy
  <2>4. Copy(p, WS_INDEX(Top(p).ws), Top(p).i)' = c
      BY <1>0, <1>4, <1>19, <2>3
  <2> QED BY <1>5, <1>6, <1>8, <2>4 DEF WrittenBack
<1> QED BY <1>11, <1>13, <1>16, <1>17, <1>18, <1>20, <1>21, WritingStep

\* The write-back goes on to another place.
LEMMA PlaceMoves ==
    ASSUME RluInv, NEW p \in Threads, scheme' = scheme, todo' = todo,
           UNCHANGED <<version, copy_of, data, self, latest>>, Pc(p) \in Writes, Pc(p)' \in Writes,
           StacksOK', Others(p), Top(p)'.version = Top(p).version,
           \A k \in Nat, i \in Nat : LiveAt(p, k, i)' <=> LiveAt(p, k, i),
           Position(p)', WrittenBack(p)'
    PROVE  RluInv'
<1>1. TypeOK /\ CopiesLock /\ LockedHaveCopies /\ LatestIsSeen
    BY DEF RluInv
<1>2. copy_of' \in [Objects -> Addrs \cup {Nothing}] /\ data' \in States
    BY <1>1 DEF TypeOK
<1>3. /\ TypeOK' /\ OthersSame(p) /\ \A q \in Threads : SameCore(q) /\ SameReader(q)
      /\ Sets(p)' /\ Versions' /\ Waits(p)'
      /\ Pc(p) \in Syncing /\ Pc(p)' \in Syncing /\ Pc(p) \in Alone /\ Pc(p) \in WritingBack
      /\ \A d : CopyVal(d)' = CopyVal(d)
    BY <1>2, PlaceStep
<1>4. CopiesLock' /\ LockedHaveCopies'
  <2>1. \A k \in Nat, i \in Nat : Copy(p, WS_INDEX(k), i)' = Copy(p, WS_INDEX(k), i)
      BY DEF Copy, Buf
  <2> QED BY <1>1, <1>3, <2>1, LiveCopies
<1>5. ASSUME NEW r, NEW u, NEW o PROVE Seen(r, u, o)' = Seen(r, u, o)
  <2>1. CopyVal(copy_of[o])' = CopyVal(copy_of[o])
      BY DEF CopyVal, Copy, Buf
  <2> QED BY <2>1 DEF Seen
<1>6. LatestIsSeen'
  <2>1. PICK u : u = version.writer
      OBVIOUS
  <2> QED BY <1>1, <1>5, <2>1 DEF LatestIsSeen
<1>7. ASSUME NEW q \in Threads \ {p}, Pc(q) \in Reading
      PROVE  /\ Gentle(p, q)
             /\ \A o \in Objects : Seen(q, self[q].local_version, o)'
                                     = Seen(q, self[q].local_version, o)
  <2>1. PICK u : u = self[q].local_version
      OBVIOUS
  <2>2. \A o \in Objects : Seen(q, u, o)' = Seen(q, u, o)
      BY <1>5
  <2>3. \A k \in Nat : Buf(p, WS_INDEX(k))' = Buf(p, WS_INDEX(k))
      BY DEF Buf
  <2>4. self[p].ws_tail >= self[p].ws_tail
      BY <1>1, ThreadType
  <2> QED BY <2>1, <2>2, <2>3, <2>4 DEF Gentle
<1> QED BY <1>3, <1>4, <1>6, <1>7, WritingStep

\* A write-back that is at the end of a write-set goes on to the next.
LEMMA NextSet ==
    ASSUME RluInv, NEW p \in Threads, scheme' = scheme, todo' = todo,
           UNCHANGED <<version, copy_of, data, self, latest>>, Pc(p) = "write_back",
           Top(p).ws < self[p].ws_tail, Top(p).i > Num(p, WS_INDEX(Top(p).ws)),
           Put(p, [Top(p) EXCEPT !.ws = @ + 1, !.i = 1])
    PROVE  RluInv'
<1>1. /\ Pc(p) \in Writes /\ Pc(p) \in Syncing
      /\ Pc(p) \notin {"unlock", "written_back", "commit", "free"}
    BY DEF Writes, Syncing, WritingBack, Announced, Alone
<1>2. /\ TypeOK /\ Position(p) /\ Top(p) \in SyncFrames /\ Top(p).pc = Pc(p) /\ Top(p).ws \in Nat
      /\ Top(p).i \in Nat /\ self[p].ws_wb \in Nat /\ self[p].ws_tail \in Nat
    BY <1>1, SyncHand
<1>3. PICK k \in Nat : k = Top(p).ws
    BY <1>2
<1>4. PICK n \in Nat : n = k + 1
    BY <1>3
<1>5. PICK f \in SyncFrames : f = Top(p)
    BY <1>2
<1>6. PICK g : g = [f EXCEPT !.ws = n, !.i = 1]
    OBVIOUS
<1>7. /\ g \in SyncFrames /\ g.pc = "write_back" /\ g.ws = n /\ g.i = 1 /\ g.version = f.version
    BY <1>2, <1>5, <1>6 DEF SyncFrames
<1>8. Put(p, g) /\ Fresh(g)
    BY <1>3, <1>4, <1>5, <1>6, <1>7 DEF Fresh
<1>9. StacksOK' /\ Others(p) /\ Pc(p)' = "write_back" /\ Top(p)' = g
    BY <1>1, <1>7, <1>8, SyncPut
<1>10. Pos(p) = <<k, Top(p).i>> /\ Pos(p)' = <<n, 1>>
    BY <1>1, <1>3, <1>7, <1>9 DEF Pos
<1>11. ASSUME NEW j \in Nat, NEW i \in Nat PROVE LiveAt(p, j, i)' <=> LiveAt(p, j, i)
  <2>1. Num(p, WS_INDEX(j))' = Num(p, WS_INDEX(j)) /\ Num(p, WS_INDEX(j)) \in Nat
      BY <1>2, WsSlots, ThreadType DEF Num
  <2>2. j = k => Num(p, WS_INDEX(j)) < Top(p).i
      BY <1>2, <1>3, <2>1
  <2>3. Running(p)' <=> Running(p)
      BY DEF Running
  <2> QED BY <1>2, <1>3, <1>4, <1>10, <2>1, <2>2, <2>3 DEF LiveAt
<1>12. Position(p)' /\ WrittenBack(p)'
  <2>1. /\ self[p].ws_head = self[p].ws_wb /\ self[p].ws_wb <= n /\ n <= self[p].ws_tail
      BY <1>1, <1>2, <1>3, <1>4 DEF Position
  <2> QED BY <1>1, <1>7, <1>9, <2>1 DEF Position, WrittenBack
<1>13. Top(p)'.version = Top(p).version /\ Pc(p)' \in Writes
    BY <1>1, <1>5, <1>7, <1>9
<1> QED BY <1>1, <1>9, <1>11, <1>12, <1>13, PlaceMoves

LEMMA WriteBackStep ==
    ASSUME RluInv, OneWritesBack, NEW p \in Threads, scheme' = scheme, writeBack(p)
    PROVE  RluInv'
<1>1. /\ At(p, "write_back") /\ UNCHANGED <<version, copy_of, self, latest>> /\ todo' = todo
    BY Zenon DEF writeBack, history
<1>2. Pc(p) = "write_back" /\ Pc(p) \in Writes /\ Pc(p) \in Syncing
    BY <1>1, AtIs DEF Writes, Syncing, WritingBack, Announced, Alone
<1>3. CASE /\ Top(p).ws < self[p].ws_tail
           /\ Top(p).i <= self[p].sets[WS_INDEX(Top(p).ws)].num_of_objs
           /\ data' = [data EXCEPT
                ![self[p].sets[WS_INDEX(Top(p).ws)].buffer[Top(p).i].obj]
                    = self[p].sets[WS_INDEX(Top(p).ws)].buffer[Top(p).i].val]
           /\ Go(p, "unlock")
  <2>1. PICK c : c = Copy(p, WS_INDEX(Top(p).ws), Top(p).i)
      OBVIOUS
  <2>2. data' = [data EXCEPT ![c.obj] = c.val] /\ Go(p, "unlock")
      BY <1>3, <2>1 DEF Copy, Buf
  <2>3. Top(p).ws < self[p].ws_tail /\ Top(p).i <= Num(p, WS_INDEX(Top(p).ws))
      BY <1>3 DEF Num
  <2> QED BY <1>1, <1>2, <2>1, <2>2, <2>3, WriteObject
<1>4. CASE /\ Top(p).ws < self[p].ws_tail
           /\ Top(p).i > self[p].sets[WS_INDEX(Top(p).ws)].num_of_objs
           /\ Put(p, [Top(p) EXCEPT !.ws = @ + 1, !.i = 1]) /\ UNCHANGED data
  <2>1. UNCHANGED <<version, copy_of, data, self, latest>>
      BY <1>1, <1>4
  <2>2. Top(p).ws < self[p].ws_tail /\ Top(p).i > Num(p, WS_INDEX(Top(p).ws))
      BY <1>4 DEF Num
  <2>3. Put(p, [Top(p) EXCEPT !.ws = @ + 1, !.i = 1])
      BY <1>4
  <2> QED BY <1>1, <1>2, <2>1, <2>2, <2>3, NextSet, Zenon
<1>5. CASE Top(p).ws = self[p].ws_tail /\ Go(p, "written_back") /\ UNCHANGED data
  <2>1. /\ "written_back" \in Syncing \ {"sync", "writer_version", "announce"}
        /\ "written_back" \in Writes /\ "written_back" # "unlock"
      BY DEF Writes, Syncing, WritingBack, Announced, Alone
  <2>2. /\ StacksOK' /\ Others(p) /\ Pc(p)' = "written_back" /\ Pc(p)' \in Writes
        /\ Top(p)'.version = Top(p).version /\ Top(p)'.ws = Top(p).ws /\ Top(p)'.i = Top(p).i
      BY <1>2, <1>5, <2>1, WriterGo
  <2>3. Pos(p)' = Pos(p)
      BY <1>2, <2>2 DEF Pos
  <2>4. \A k \in Nat, i \in Nat : LiveAt(p, k, i)' <=> LiveAt(p, k, i)
      BY <1>1, <2>3 DEF LiveAt, Num, Running
  <2>5. Position(p)
      BY <1>2, SyncHand
  <2>6. Position(p)' /\ WrittenBack(p)'
      BY <1>1, <1>2, <1>5, <2>1, <2>2, <2>5 DEF Position, WrittenBack, Syncing, Writes
  <2> QED BY <1>1, <1>2, <1>5, <2>2, <2>4, <2>6, PlaceMoves
<1> QED BY <1>3, <1>4, <1>5, Zenon DEF writeBack

LEMMA UnlockStep ==
    ASSUME RluInv, OneWritesBack, NEW p \in Threads, scheme' = scheme, unlock(p)
    PROVE  RluInv'
<1>1. At(p, "unlock") /\ UNCHANGED <<version, data, self, latest>> /\ todo' = todo
    BY Zenon DEF unlock, history
<1>2. /\ Pc(p) = "unlock" /\ Pc(p) \in Writes /\ Pc(p) \in Syncing /\ "write_back" \in Writes
      /\ "write_back" \notin {"unlock", "written_back", "commit", "free"} /\ "write_back" \in Syncing
    BY <1>1, AtIs DEF Writes, Syncing, WritingBack, Announced, Alone
<1>3. /\ TypeOK /\ CopiesLock /\ LockedHaveCopies /\ LatestIsSeen /\ Position(p) /\ WrittenBack(p)
      /\ Top(p) \in SyncFrames /\ Top(p).ws \in Nat /\ Top(p).i \in Nat /\ Counts(p) /\ ~Running(p)
      /\ self[p].ws_wb \in Nat /\ self[p].ws_tail \in Nat /\ self[p].max_write_sets \in Nat
      /\ RLU_MAX_WRITE_SETS \in Nat
    BY <1>2, SyncHand
<1>4. PICK k \in Nat, i \in Nat \ {0}, w \in Slots, c \in Copies :
        /\ k = Top(p).ws /\ i = Top(p).i /\ w = WS_INDEX(k) /\ c = Copy(p, w, i)
        /\ self[p].ws_wb <= k /\ k < self[p].ws_tail /\ i <= Num(p, w) /\ Pos(p) = <<k, i>>
        /\ LiveAt(p, k, i) /\ c.obj \in Objects /\ copy_of[c.obj] = <<p, w, i>>
        /\ copy_of[c.obj] # Nothing /\ CopyVal(copy_of[c.obj]) = c.val
        /\ c.val \in Values /\ (c.obj \in Pointers => c.val \in Objects)
  <2>1. Top(p).ws < self[p].ws_tail /\ Top(p).i <= Num(p, WS_INDEX(Top(p).ws))
      BY <1>2, <1>3 DEF Position
  <2> QED BY <1>2, <2>1, AtPlace
<1>5. PICK at \in Objects : at = c.obj
    BY <1>4
<1>6. copy_of' = [copy_of EXCEPT ![at] = Nothing]
  <2>1. at = self[p].sets[WS_INDEX(Top(p).ws)].buffer[Top(p).i].obj
    <3>1. at = Copy(p, WS_INDEX(Top(p).ws), Top(p).i).obj
        BY <1>4, <1>5
    <3> QED BY <3>1 DEF Copy, Buf
  <2> QED BY <2>1, Zenon DEF unlock
<1>7. /\ copy_of' \in [Objects -> Addrs \cup {Nothing}] /\ copy_of'[at] = Nothing
      /\ \A o \in Objects \ {at} : copy_of'[o] = copy_of[o]
    BY <1>3, <1>6 DEF TypeOK
<1>8. copy_of[at] # Nothing /\ copy_of[at] = <<p, w, i>> /\ CopyVal(copy_of[at]) = data[at]
  <2>1. Copy(p, WS_INDEX(Top(p).ws), Top(p).i) = c
      BY <1>4
  <2>2. data[at] = c.val
      BY <1>2, <1>3, <1>5, <2>1 DEF WrittenBack
  <2> QED BY <1>4, <1>5, <2>2
<1>9. copy_of[at][1] = p
    BY <1>8
<1>10. PICK n \in Nat : n = i + 1
    BY <1>4
<1>11. PICK f \in SyncFrames : f = Top(p)
    BY <1>3
<1>12. PICK g : g = [f EXCEPT !.i = n, !.pc = "write_back"]
    OBVIOUS
<1>13. g \in SyncFrames /\ g.pc = "write_back" /\ g.ws = k /\ g.i = n /\ g.version = f.version
  <2>1. f.ws = k /\ "write_back" \in Syncing
      BY <1>2, <1>4, <1>11
  <2> QED BY <1>12, <2>1 DEF SyncFrames
<1>14. Put(p, g) /\ Fresh(g)
  <2>1. n = Top(p).i + 1
      BY <1>4, <1>10
  <2>2. Put(p, g)
      BY <1>11, <1>12, <2>1, Zenon DEF unlock
  <2> QED BY <1>13, <2>2 DEF Fresh
<1>15. StacksOK' /\ Others(p) /\ Pc(p)' = "write_back" /\ Top(p)' = g
    BY <1>2, <1>13, <1>14, SyncPut
<1>16. /\ TypeOK' /\ OthersSame(p) /\ \A q \in Threads : SameCore(q) /\ SameReader(q)
       /\ Sets(p)' /\ Versions' /\ Waits(p)'
       /\ Pc(p) \in Syncing /\ Pc(p)' \in Syncing /\ Pc(p) \in Alone /\ Pc(p) \in WritingBack
       /\ \A d : CopyVal(d)' = CopyVal(d)
  <2>1. data' \in States /\ Pc(p)' \in Writes /\ Top(p)'.version = Top(p).version
      BY <1>1, <1>2, <1>3, <1>11, <1>13, <1>15 DEF TypeOK
  <2>2. UNCHANGED <<version, self, latest>> /\ todo' = todo
      BY <1>1
  <2> QED BY <1>2, <1>7, <1>15, <2>1, <2>2, PlaceStep
<1>17. Pos(p)' = <<k, n>>
    BY <1>2, <1>13, <1>15 DEF Pos
<1>18. ASSUME NEW j \in Nat, NEW m \in Nat
       PROVE  /\ LiveAt(p, j, m)' <=> LiveAt(p, j, m) /\ <<j, m>> # <<k, i>>
              /\ Copy(p, WS_INDEX(j), m)' = Copy(p, WS_INDEX(j), m)
  <2>1. Num(p, WS_INDEX(j))' = Num(p, WS_INDEX(j)) /\ self' = self
      BY <1>1 DEF Num
  <2>2. Running(p)' <=> Running(p)
      BY <1>1 DEF Running
  <2>3. LiveAt(p, j, m)' <=>
          /\ self[p].ws_wb <= j
          /\ j < self[p].ws_tail
          /\ 1 <= m /\ m <= Num(p, WS_INDEX(j))
          /\ j > k \/ (j = k /\ m >= n)
      BY <1>3, <1>17, <2>1, <2>2 DEF LiveAt
  <2>4. LiveAt(p, j, m) <=>
          /\ self[p].ws_wb <= j
          /\ j < self[p].ws_tail
          /\ 1 <= m /\ m <= Num(p, WS_INDEX(j))
          /\ j > k \/ (j = k /\ m >= i)
      BY <1>3, <1>4 DEF LiveAt
  <2>5. <<j, m>> # <<k, i>> <=> (j # k \/ m # i)
      OBVIOUS
  <2>6. m >= n <=> m >= i /\ m # i
      BY <1>10
  <2>7. Copy(p, WS_INDEX(j), m)' = Copy(p, WS_INDEX(j), m)
      BY <1>1 DEF Copy, Buf
  <2> QED BY <2>3, <2>4, <2>5, <2>6, <2>7
<1>19. CopiesLock' /\ LockedHaveCopies'
  <2>1. \A q \in Threads : Buffers(q)
      BY DEF RluInv, OfThread, Local, Sets
  <2>2. \A o \in Objects : copy_of[o] # Nothing /\ copy_of[o][1] # p => copy_of'[o] = copy_of[o]
      BY <1>7, <1>9
  <2>3. ASSUME NEW j \in Nat, NEW m \in Nat, LiveAt(p, j, m)'
        PROVE  copy_of'[Copy(p, WS_INDEX(j), m)'.obj] = <<p, WS_INDEX(j), m>>
    <3>1. LiveAt(p, j, m) /\ <<j, m>> # <<k, i>> /\ Copy(p, WS_INDEX(j), m)' = Copy(p, WS_INDEX(j), m)
        BY <1>18, <2>3
    <3>2. PICK o : o = Copy(p, WS_INDEX(j), m).obj
        OBVIOUS
    <3>7. CopiesLock
        BY <1>3
    <3>8. copy_of[Copy(p, WS_INDEX(j), m).obj] = <<p, WS_INDEX(j), m>>
        BY <3>1, <3>7 DEF CopiesLock
    <3>3. copy_of[o] = <<p, WS_INDEX(j), m>>
        BY <3>2, <3>8
    <3>4. o # at
      <4>1. SUFFICES ASSUME o = at PROVE FALSE
          OBVIOUS
      <4>2. <<p, WS_INDEX(j), m>> = <<p, w, i>>
          BY <1>8, <3>3, <4>1
      <4>3. WS_INDEX(j) = WS_INDEX(k) /\ j # k
          BY <1>4, <3>1, <4>2
      <4>4. j > k /\ j < self[p].ws_tail
          BY <1>3, <1>4, <3>1, <4>3 DEF LiveAt
      <4>5. j < k + RLU_MAX_WRITE_SETS
          BY <1>3, <1>4, <4>4 DEF Counts
      <4> QED BY <4>3, <4>4, <4>5, WsDiffer
    <3>5. o \in Objects
      <4>1. m \in 1 .. Num(p, WS_INDEX(j)) /\ m \in Nat \ {0} /\ WS_INDEX(j) \in Slots
          BY <3>1, WsSlots, <1>3, ThreadType DEF LiveAt
      <4>2. Buf(p, WS_INDEX(j)) \in Seq(Copies) /\ m \in 1 .. Len(Buf(p, WS_INDEX(j)))
          BY <1>3, <2>1, <4>1, ThreadType DEF Buffers
      <4>3. Copy(p, WS_INDEX(j), m) \in Copies
          BY <4>2 DEF Copy
      <4> QED BY <3>2, <4>3 DEF Copies
    <3> QED BY <1>7, <3>1, <3>2, <3>3, <3>4, <3>5
  <2>4. ASSUME NEW o \in Objects, copy_of'[o] # Nothing, copy_of[o] = Nothing \/ copy_of[o][1] = p
        PROVE  \E j \in Nat, m \in Nat :
                  /\ LiveAt(p, j, m)' /\ copy_of'[o] = <<p, WS_INDEX(j), m>>
                  /\ Copy(p, WS_INDEX(j), m)'.obj = o
    <3>1. o # at /\ copy_of'[o] = copy_of[o] /\ copy_of[o][1] = p /\ copy_of[o] # Nothing
        BY <1>7, <2>4
    <3>2. PICK q \in Threads : \E j \in Nat, m \in Nat :
            LiveAt(q, j, m) /\ copy_of[o] = <<q, WS_INDEX(j), m>> /\ Copy(q, WS_INDEX(j), m).obj = o
        BY <1>3, <3>1 DEF LockedHaveCopies
    <3>3. PICK j \in Nat, m \in Nat :
            LiveAt(q, j, m) /\ copy_of[o] = <<q, WS_INDEX(j), m>> /\ Copy(q, WS_INDEX(j), m).obj = o
        BY <3>2
    <3>4. q = p
        BY <3>1, <3>3
    <3>5. <<j, m>> # <<k, i>>
        BY <1>4, <1>5, <3>1, <3>3, <3>4
    <3>6. LiveAt(p, j, m)' /\ Copy(p, WS_INDEX(j), m)'.obj = o
        BY <1>18, <3>3, <3>4, <3>5
    <3> QED BY <3>1, <3>3, <3>4, <3>6
  <2> QED BY <1>3, <1>16, <2>1, <2>2, <2>3, <2>4, LiveChange
<1>20. ASSUME NEW r, NEW u, NEW o \in Objects, o = at => Seen(r, u, o) = data[at]
       PROVE  Seen(r, u, o)' = Seen(r, u, o)
  <2>1. CASE o = at
    <3>1. Seen(r, u, o)' = data'[o]
        BY <1>7, <2>1 DEF Seen
    <3> QED BY <1>1, <1>20, <2>1, <3>1
  <2>2. CASE o # at
    <3>1. copy_of'[o] = copy_of[o] /\ self' = self /\ data' = data
        BY <1>1, <1>7, <2>2
    <3>2. CopyVal(copy_of[o])' = CopyVal(copy_of[o])
        BY <3>1 DEF CopyVal, Copy, Buf
    <3> QED BY <3>1, <3>2 DEF Seen
  <2> QED BY <2>1, <2>2
<1>21. /\ Seen(Nothing, version.writer, at) = data[at]
       /\ \A q \in Threads : Pc(q) \in Reading => Seen(q, self[q].local_version, at) = data[at]
    BY <1>8, <1>9, <1>16, SeesCopies
<1>22. LatestIsSeen'
  <2> SUFFICES ASSUME NEW o \in Objects PROVE latest[o] = Seen(Nothing, version.writer, o)'
      BY <1>1 DEF LatestIsSeen
  <2>1. PICK u : u = version.writer
      OBVIOUS
  <2>2. Seen(Nothing, u, o)' = Seen(Nothing, u, o)
      BY <1>20, <1>21, <2>1
  <2>3. version' = version
      BY <1>1
  <2> QED BY <1>3, <2>1, <2>2, <2>3 DEF LatestIsSeen
<1>23. ASSUME NEW q \in Threads \ {p}, Pc(q) \in Reading
       PROVE  /\ Gentle(p, q)
              /\ \A o \in Objects : Seen(q, self[q].local_version, o)'
                                      = Seen(q, self[q].local_version, o)
  <2>1. PICK u : u = self[q].local_version
      OBVIOUS
  <2>2. \A o \in Objects : Seen(q, u, o)' = Seen(q, u, o)
      BY <1>20, <1>21, <1>23, <2>1
  <2>3. \A o \in Objects : copy_of'[o] # copy_of[o] =>
           (copy_of[o] # Nothing => copy_of[o][1] = p) /\ copy_of'[o] = Nothing
      BY <1>7, <1>9
  <2>4. self' = self /\ data' = data /\ \A j \in Nat : Buf(p, WS_INDEX(j))' = Buf(p, WS_INDEX(j))
      BY <1>1 DEF Buf
  <2>5. self[p].ws_tail >= self[p].ws_tail
      BY <1>3
  <2> QED BY <2>1, <2>2, <2>3, <2>4, <2>5 DEF Gentle
<1>24. Position(p)' /\ WrittenBack(p)'
  <2>1. self[p].ws_head = self[p].ws_wb /\ n >= 1 /\ self[p].ws_wb <= k /\ k <= self[p].ws_tail
      BY <1>2, <1>3, <1>4, <1>10 DEF Position
  <2>2. self' = self
      BY <1>1
  <2> QED BY <1>2, <1>13, <1>15, <2>1, <2>2 DEF Position, WrittenBack
<1>25. self' = self /\ data' = data
    BY <1>1
<1> QED BY <1>16, <1>19, <1>22, <1>23, <1>24, <1>25, WritingStep

\* The write-sets that a write-back empties are apart from those it writes.
LEMMA OldApart ==
    ASSUME TypeOK, NEW p \in Threads, Counts(p),
           NEW c \in self[p].ws_head .. self[p].ws_wb - 1,
           NEW k \in Nat, self[p].ws_wb <= k, k < self[p].ws_tail
    PROVE  WS_INDEX(c) # WS_INDEX(k)
<1>1. /\ self[p].ws_head \in Nat /\ self[p].ws_wb \in Nat /\ self[p].ws_tail \in Nat
      /\ self[p].max_write_sets \in Nat /\ RLU_MAX_WRITE_SETS \in Nat
    BY ThreadType, RluAssumption
<1>2. c \in Nat /\ c < k /\ k < c + RLU_MAX_WRITE_SETS
    BY <1>1 DEF Counts
<1> QED BY <1>2, WsDiffer

\* s with the write-sets at the slots in old emptied.
Emptied(s, old) ==
    [i \in DOMAIN s |->
       IF i \in old THEN [s[i] EXCEPT !.num_of_objs = 0, !.writer_locks = {}] ELSE s[i]]

LEMMA EmptiedIs ==
    ASSUME NEW s \in [Slots -> WriteSets], NEW old
    PROVE  /\ Emptied(s, old) \in [Slots -> WriteSets]
           /\ \A w \in Slots : /\ Emptied(s, old)[w].buffer = s[w].buffer
                               /\ Emptied(s, old)[w].num_of_objs =
                                     IF w \in old THEN 0 ELSE s[w].num_of_objs
<1>1. DOMAIN s = Slots
    OBVIOUS
<1>2. ASSUME NEW w \in Slots
      PROVE  /\ Emptied(s, old)[w] \in WriteSets
             /\ Emptied(s, old)[w].buffer = s[w].buffer
             /\ Emptied(s, old)[w].num_of_objs = IF w \in old THEN 0 ELSE s[w].num_of_objs
  <2>1. PICK x \in WriteSets : x = s[w]
      OBVIOUS
  <2>2. PICK y : y = [x EXCEPT !.num_of_objs = 0, !.writer_locks = {}]
      OBVIOUS
  <2>3. y \in WriteSets /\ y.num_of_objs = 0 /\ y.buffer = x.buffer
      BY <2>2 DEF WriteSets
  <2>4. Emptied(s, old)[w] = IF w \in old THEN y ELSE x
      BY <1>1, <2>1, <2>2, Zenon DEF Emptied
  <2> QED BY <2>1, <2>3, <2>4
<1>3. Emptied(s, old) = [w \in Slots |-> Emptied(s, old)[w]]
    BY <1>1, Zenon DEF Emptied
<1> QED BY <1>2, <1>3

LEMMA ResetStep ==
    ASSUME RluInv, NEW p \in Threads, scheme' = scheme, reset(p)
    PROVE  RluInv'
<1> PICK old : old = {WS_INDEX(c) : c \in self[p].ws_head .. self[p].ws_wb - 1}
    OBVIOUS
<1>1. At(p, "reset") /\ UNCHANGED <<version, copy_of, data, latest>> /\ todo' = todo
    BY Zenon DEF reset, history
<1>2. /\ Pc(p) = "reset" /\ Pc(p) \in Syncing /\ Pc(p) \in Alone /\ Pc(p) \notin Writes
      /\ Pc(p) \in HasVersion /\ Pc(p) \in Announced
      /\ "write_back" \in Writes /\ "write_back" \in Syncing /\ "write_back" \in WritingBack
      /\ "write_back" \in HasVersion /\ "write_back" \in Announced /\ "write_back" \in Alone
      /\ "write_back" \notin {"unlock", "written_back", "commit", "free", "writer_version", "announce",
                              "init_quiescence", "wait"}
    BY <1>1, AtIs DEF Writes, Syncing, WritingBack, Announced, HasVersion, Alone
<1>3. /\ TypeOK /\ CopiesLock /\ LockedHaveCopies /\ LatestIsSeen /\ VersionOf(p) /\ Waits(p) /\ Sets(p)
      /\ Top(p) \in SyncFrames /\ Top(p).pc = Pc(p) /\ Top(p).version \in Nat /\ Counts(p) /\ ~Running(p)
      /\ self[p].ws_head \in Nat /\ self[p].ws_wb \in Nat /\ self[p].ws_tail \in Nat
      /\ self[p].max_write_sets \in Nat /\ version.writer \in Nat
    BY <1>2, SyncHand
<1>4. PICK wb \in Nat : wb = self[p].ws_wb
    BY <1>3
<1>5. self[p] \in ThreadData /\ self[p].sets \in [Slots -> WriteSets] /\ self[p].run_counter \in Nat
    BY <1>3, ThreadType
<1>6. PICK sets : sets = Emptied(self[p].sets, old)
    OBVIOUS
<1>7. /\ sets \in [Slots -> WriteSets]
      /\ \A w \in Slots : /\ sets[w].buffer = self[p].sets[w].buffer
                          /\ sets[w].num_of_objs = IF w \in old THEN 0 ELSE self[p].sets[w].num_of_objs
    BY <1>5, <1>6, EmptiedIs
<1>8. PICK t : t = [self[p] EXCEPT !.ws_head = wb, !.sets = sets]
    OBVIOUS
<1>9. /\ t \in ThreadData /\ t.run_counter = self[p].run_counter /\ t.sets = sets
      /\ t.writer_version = self[p].writer_version /\ t.ws_head = wb
      /\ t.ws_wb = self[p].ws_wb /\ t.max_write_sets = self[p].max_write_sets
      /\ t.ws_tail = self[p].ws_tail
    BY <1>5, <1>7, <1>8 DEF ThreadData
<1>10. self' \in [Threads -> ThreadData] /\ self'[p] = t
       /\ \A q \in Threads \ {p} : SameCore(q) /\ SameReader(q)
  <2>1. self' = [self EXCEPT ![p] = t]
      BY <1>4, <1>6, <1>8, Zenon DEF reset, NowUnused, Emptied
  <2> QED BY <1>3, <1>9, <2>1, SelfStep
<1>11. PICK f \in SyncFrames : f = Top(p) /\ f.pc = Pc(p)
    BY <1>3
<1>12. PICK g : g = [f EXCEPT !.ws = wb, !.i = 1, !.pc = "write_back"]
    OBVIOUS
<1>13. /\ g \in SyncFrames /\ g.pc = "write_back" /\ g.ws = wb /\ g.i = 1 /\ g.version = f.version
    BY <1>2, <1>12 DEF SyncFrames
<1>14. Put(p, g) /\ Fresh(g)
  <2>1. Put(p, g)
      BY <1>4, <1>11, <1>12, Zenon DEF reset
  <2> QED BY <1>13, <2>1 DEF Fresh
<1>15. StacksOK' /\ Others(p) /\ Pc(p)' = "write_back" /\ Top(p)' = g
    BY <1>2, <1>13, <1>14, SyncPut
<1>16. OthersSame(p) /\ TypeOK'
    BY <1>1, <1>3, <1>10, <1>15 DEF OthersSame, TypeOK
<1>17. ASSUME NEW w \in Slots
       PROVE  Buf(p, w)' = Buf(p, w) /\ Num(p, w)' = IF w \in old THEN 0 ELSE Num(p, w)
    BY <1>7, <1>9, <1>10 DEF Buf, Num
<1>18. ASSUME NEW k \in Nat, wb <= k, k < self[p].ws_tail
       PROVE  WS_INDEX(k) \notin old
    BY <1>3, <1>4, <1>18, OldApart
<1>19. ~Running(p)'
    BY <1>3, <1>9, <1>10 DEF Running
<1>20. ASSUME NEW k \in Nat, NEW i \in Nat
       PROVE  /\ LiveAt(p, k, i)' <=> LiveAt(p, k, i)
              /\ Copy(p, WS_INDEX(k), i)' = Copy(p, WS_INDEX(k), i)
  <2>1. WS_INDEX(k) \in Slots
      BY WsSlots
  <2>2. Copy(p, WS_INDEX(k), i)' = Copy(p, WS_INDEX(k), i)
      BY <1>17, <2>1 DEF Copy
  <2>3. wb <= k /\ k < self[p].ws_tail => Num(p, WS_INDEX(k))' = Num(p, WS_INDEX(k))
      BY <1>17, <1>18, <2>1
  <2>4. Pos(p) = <<0, 1>> /\ Pos(p)' = <<wb, 1>>
      BY <1>2, <1>13, <1>15 DEF Pos
  <2>5. LiveAt(p, k, i) <=> /\ wb <= k /\ k < self[p].ws_tail
                            /\ 1 <= i /\ i <= Num(p, WS_INDEX(k))
      BY <1>3, <1>4, <2>4 DEF LiveAt
  <2>6. LiveAt(p, k, i)' <=> /\ wb <= k /\ k < self[p].ws_tail
                             /\ 1 <= i /\ i <= Num(p, WS_INDEX(k))'
      BY <1>3, <1>4, <1>9, <1>10, <1>19, <2>4 DEF LiveAt
  <2> QED BY <2>2, <2>3, <2>5, <2>6
<1>21. CopiesLock' /\ LockedHaveCopies'
    BY <1>1, <1>3, <1>16, <1>20, LiveCopies
<1>22. ASSUME NEW r, r # p, NEW v \in Nat, NEW o \in Objects PROVE Seen(r, v, o)' = Seen(r, v, o)
  <2>1. copy_of[o] # Nothing /\ copy_of[o][1] = p => CopyVal(copy_of[o])' = CopyVal(copy_of[o])
    <3>1. SUFFICES ASSUME copy_of[o] # Nothing, copy_of[o][1] = p
                   PROVE  CopyVal(copy_of[o])' = CopyVal(copy_of[o])
        OBVIOUS
    <3>2. PICK d \in Addrs : d = copy_of[o] /\ d[1] = p
        BY <1>3, <3>1 DEF TypeOK
    <3>3. Buf(p, d[2])' = Buf(p, d[2])
        BY <1>17, AddrIs
    <3>4. copy_of' = copy_of
        BY <1>1
    <3> QED BY <3>2, <3>3, <3>4 DEF CopyVal, Copy
  <2>2. copy_of' = copy_of /\ data' = data /\ self'[p].writer_version = self[p].writer_version
      BY <1>1, <1>9, <1>10
  <2> QED BY <1>3, <1>16, <1>22, <2>1, <2>2, SeenSame
<1>23. LatestIsSeen'
  <2> SUFFICES ASSUME NEW o \in Objects PROVE latest[o] = Seen(Nothing, version.writer, o)'
      BY <1>1 DEF LatestIsSeen
  <2>1. PICK v \in Nat : v = version.writer
      BY <1>3
  <2>2. Seen(Nothing, v, o)' = Seen(Nothing, v, o)
      BY <1>22, RluAssumption
  <2>3. version' = version
      BY <1>1
  <2> QED BY <1>3, <2>1, <2>2, <2>3 DEF LatestIsSeen
<1>24. Versions'
  <2>1. VersionOf(p)'
    <3>1. Pc(p)' \notin Reading
        BY <1>2, <1>15, SyncLabels
    <3>2. Top(p)'.version = Top(p).version
        BY <1>11, <1>13, <1>15
    <3> QED BY <1>1, <1>2, <1>3, <1>9, <1>10, <1>15, <3>1, <3>2 DEF VersionOf
  <2> QED BY <1>1, <1>2, <1>15, <1>16, <2>1, WritingVersions
<1>25. ASSUME NEW q \in Threads \ {p}, Pc(q) \in Reading
       PROVE  /\ Gentle(p, q)
              /\ \A o \in Objects : Seen(q, self[q].local_version, o)'
                                      = Seen(q, self[q].local_version, o)
  <2>1. self[p].writer_version <= self[q].local_version
      BY <1>2, <1>25, WaitedFor
  <2>2. \A k \in Nat : Buf(p, WS_INDEX(k))' = Buf(p, WS_INDEX(k))
      BY <1>17, WsSlots
  <2>3. self'[p].ws_tail >= self[p].ws_tail
      BY <1>3, <1>9, <1>10
  <2>4. Gentle(p, q)
      BY <1>1, <1>4, <1>9, <1>10, <2>1, <2>2, <2>3 DEF Gentle
  <2>5. PICK v \in Nat : v = self[q].local_version
      BY <1>3, ThreadType
  <2>6. self'[q].local_version = self[q].local_version
      BY <1>16 DEF OthersSame, SameReader
  <2> QED BY <1>22, <2>4, <2>5, <2>6
<1>26. Sets(p)'
  <2>1. Counts(p)'
      BY <1>3, <1>4, <1>9, <1>10 DEF Counts
  <2>2. Empty(p)'
    <3> SUFFICES ASSUME NEW w \in Slots,
                        \A k \in wb .. self[p].ws_tail : w = WS_INDEX(k) => k = self[p].ws_tail
                 PROVE  Num(p, w)' = 0
        BY <1>4, <1>9, <1>10 DEF Empty
    <3>1. CASE w \in old
        BY <1>17, <3>1
    <3>2. CASE w \notin old
      <4>1. ASSUME NEW k \in self[p].ws_head .. self[p].ws_tail, w = WS_INDEX(k)
            PROVE  k = self[p].ws_tail
        <5>1. CASE k < wb
          <6>1. k \in self[p].ws_head .. self[p].ws_wb - 1
              BY <1>3, <1>4, <5>1
          <6> QED BY <3>2, <4>1, <6>1
        <5>2. CASE k >= wb
            BY <1>3, <4>1, <5>2
        <5> QED BY <1>3, <5>1, <5>2
      <4>2. Num(p, w) = 0
          BY <1>3, <4>1 DEF Sets, Empty
      <4> QED BY <1>17, <3>2, <4>2
    <3> QED BY <3>1, <3>2
  <2>3. self'[p].run_counter \in Nat /\ self'[p].run_counter >= self[p].run_counter
      BY <1>5, <1>9, <1>10
  <2>4. \A w \in Slots : Buf(p, w)' = Buf(p, w) /\ Num(p, w)' \in Nat /\ Num(p, w)' <= Num(p, w)
      BY <1>3, <1>17, ThreadType
  <2>5. Buffers(p) /\ Older(p)
      BY <1>3 DEF Sets
  <2>6. Buffers(p)'
      BY <1>3, <2>3, <2>4, <2>5, BuffersStep
  <2>7. self'[p].ws_wb = self[p].ws_wb /\ self'[p].ws_tail = self[p].ws_tail
      BY <1>9, <1>10
  <2>8. Older(p)'
      BY <1>3, <2>3, <2>4, <2>5, <2>7, WsSlots, OlderStep
  <2> QED BY <2>1, <2>2, <2>6, <2>8 DEF Sets
<1>27. Position(p)' /\ WrittenBack(p)'
  <2>1. wb <= self[p].ws_tail
      BY <1>3, <1>4 DEF Counts
  <2> QED BY <1>2, <1>4, <1>9, <1>10, <1>13, <1>15, <2>1 DEF Position, WrittenBack
<1>28. Waits(p)'
  <2>1. ASSUME NEW r \in Threads PROVE ~Slow(p, r)'
    <3>1. ~Slow(p, r)
        BY <1>2, <1>3 DEF Waits
    <3>2. CASE r = p
        BY <1>2, <1>15, <3>2, SyncLabels DEF Slow
    <3>3. CASE r # p
        BY <1>11, <1>13, <1>15, <1>16, <3>1, <3>3 DEF Slow, OthersSame, Others, SameReader
    <3> QED BY <3>2, <3>3
  <2> QED BY <1>2, <1>15, <2>1 DEF Waits
<1>29. self'[p].run_counter = self[p].run_counter /\ data' = data /\ Pc(p)' \in Syncing
    BY <1>1, <1>2, <1>9, <1>10, <1>15
<1> QED BY <1>2, <1>16, <1>21, <1>23, <1>24, <1>25, <1>26, <1>27, <1>28, <1>29, WritingStep

-----------------------------------------------------------------------------
(***************************************************************************)
(* All steps.                                                              *)
(***************************************************************************)
\* Who is in no call has no frame.
CallsOK == DOMAIN doing = Threads /\ \A p \in Threads : doing[p] = Nothing => stack[p] = << >>

Keeps(p) == DOMAIN stack' = DOMAIN stack /\ \A q \in DOMAIN stack \ {p} : stack'[q] = stack[q]

LEMMA PutKeeps ==
    ASSUME NEW p, NEW f, Put(p, f) PROVE Keeps(p)
<1>1. PICK s : s = <<f>> \o Tail(stack[p])
    OBVIOUS
<1>2. stack' = [stack EXCEPT ![p] = s]
    BY <1>1 DEF Put
<1> QED BY <1>2 DEF Keeps

LEMMA GoKeeps ==
    ASSUME NEW p, NEW l, Go(p, l) PROVE Keeps(p)
BY PutKeeps DEF Go

LEMMA InvokeKeeps ==
    ASSUME NEW p, NEW f, NEW g, Invoke(p, f, g) PROVE Keeps(p)
<1>1. PICK s : s = <<g, f>> \o Tail(stack[p])
    OBVIOUS
<1>2. stack' = [stack EXCEPT ![p] = s]
    BY <1>1 DEF Invoke
<1> QED BY <1>2 DEF Keeps

LEMMA PopKeeps ==
    ASSUME NEW p, Pop(p) PROVE Keeps(p)
<1>1. PICK s : s = Tail(stack[p])
    OBVIOUS
<1>2. stack' = [stack EXCEPT ![p] = s]
    BY <1>1 DEF Pop
<1> QED BY <1>2 DEF Keeps

LEMMA ReturnKeeps ==
    ASSUME NEW p, NEW r, Return(p, r) PROVE Answer(p, r) \/ (Keeps(p) /\ doing' = doing)
<1>1. SUFFICES ASSUME stack' = [stack EXCEPT ![p] = <<[@[2] EXCEPT !.ret = r]>> \o SubSeq(@, 3, Len(@))],
                      UNCHANGED history
               PROVE  Keeps(p) /\ doing' = doing
    BY Zenon DEF Return
<1>2. PICK s : s = <<[stack[p][2] EXCEPT !.ret = r]>> \o SubSeq(stack[p], 3, Len(stack[p]))
    OBVIOUS
<1>3. stack' = [stack EXCEPT ![p] = s]
    BY <1>1, <1>2, Zenon
<1> QED BY <1>1, <1>3 DEF Keeps, history

LEMMA CheckpointKeeps ==
    ASSUME NEW p, NEW f, Checkpoint(p, f) PROVE Keeps(p)
BY PutKeeps, InvokeKeeps DEF Checkpoint

\* A step of a section or of a write-back is one of a thread in a call.
LEMMA RluInCall ==
    ASSUME NEW p, RluStep(p)
    PROVE  /\ stack[p] # << >>
           /\ (Keeps(p) /\ doing' = doing) \/ Answer(p, <<"done">>)
<1>1. CASE readerLock(p) \/ checkpoint(p)
    BY <1>1, CheckpointKeeps, Zenon DEF readerLock, checkpoint, At, history
<1>2. CASE register(p) \/ commitVersion(p) \/ releaseWriterLock(p) \/ abort(p)
    BY <1>2, GoKeeps, Zenon DEF register, commitVersion, releaseWriterLock, abort, At, history
<1>3. CASE localVersion(p)
    BY <1>3, PutKeeps, Zenon DEF localVersion, At, history
<1>4. CASE tryWriterLock(p)
    BY <1>4, PutKeeps, GoKeeps, Zenon DEF tryWriterLock, At, history
<1>5. CASE section(p)
    BY <1>5, PutKeeps, GoKeeps, Zenon DEF section, At, history
<1>6. CASE deref(p) \/ steal(p) \/ load(p) \/ change(p)
    BY <1>6, PutKeeps, Zenon DEF deref, steal, load, change, At, history
<1>7. CASE tryLock(p)
    BY <1>7, PutKeeps, GoKeeps, Zenon DEF tryLock, Fail, At, history
<1>8. CASE lock(p)
    BY <1>8, PutKeeps, GoKeeps, Zenon DEF lock, Fail, At, history
<1>9. CASE leave(p)
    BY <1>9, GoKeeps, InvokeKeeps, Zenon DEF leave, At, history
<1>10. CASE end(p)
    BY <1>10, PutKeeps, ReturnKeeps, Zenon DEF end, At, history
<1>11. CASE finish(p)
    BY <1>11, InvokeKeeps, ReturnKeeps, Zenon DEF finish, At, history
<1>12. CASE sync(p)
    BY <1>12, PutKeeps, PopKeeps, Zenon DEF sync, At, history
<1>13. CASE writerVersion(p) \/ announceVersion(p) \/ writtenBack(p) \/ commit(p)
    BY <1>13, GoKeeps, Zenon DEF writerVersion, announceVersion, writtenBack, commit, At, history
<1>14. CASE initQuiescence(p) \/ reset(p) \/ unlock(p)
    BY <1>14, PutKeeps, Zenon DEF initQuiescence, reset, unlock, At, history
<1>15. CASE waitForQuiescence(p)
    BY <1>15, PutKeeps, GoKeeps, Zenon DEF waitForQuiescence, At, history
<1>16. CASE writeBack(p)
    BY <1>16, PutKeeps, GoKeeps, Zenon DEF writeBack, At, history
<1>17. CASE processFree(p)
    BY <1>17, PopKeeps, Zenon DEF processFree, At, history
<1> QED BY <1>1, <1>2, <1>3, <1>4, <1>5, <1>6, <1>7, <1>8, <1>9, <1>10, <1>11, <1>12, <1>13, <1>14,
       <1>15, <1>16, <1>17, Zenon DEF RluStep

LEMMA CallsStep ==
    ASSUME StacksOK, CallsOK, NEW p \in Threads, RluStep(p)
    PROVE  CallsOK'
<1>1. DOMAIN stack = Threads
    BY DEF StacksOK
<1>2. CASE Keeps(p) /\ doing' = doing
  <2>1. stack[p] # << >>
      BY RluInCall
  <2> QED BY <1>1, <1>2, <2>1 DEF CallsOK, Keeps
<1>3. CASE Answer(p, <<"done">>)
  <2>1. doing' = [doing EXCEPT ![p] = Nothing] /\ stack' = [stack EXCEPT ![p] = << >>]
      BY <1>3, Zenon DEF Answer
  <2> QED BY <1>1, <2>1 DEF CallsOK
<1> QED BY <1>2, <1>3, RluInCall

LEMMA CallsBegin ==
    ASSUME TypeOK, CallsOK, NEW p \in Threads, NEW f, Begin(p, f)
    PROVE  CallsOK' /\ Pc(p) = "idle"
<1>1. /\ doing[p] = Nothing /\ todo[p] # << >> /\ doing' = [doing EXCEPT ![p] = Head(todo[p])]
      /\ stack' = [stack EXCEPT ![p] = <<f>>]
    BY Zenon DEF Begin
<1>2. DOMAIN stack = Threads /\ todo[p] \in Seq(RluCalls)
    BY DEF TypeOK, StacksOK
<1>3. Head(todo[p]) \in RluCalls
    BY <1>1, <1>2
<1>4. Head(todo[p]) # Nothing
    BY <1>3, RluProgramsAssumption
<1> QED BY <1>1, <1>2, <1>4 DEF CallsOK, Pc

\* One step of a section or of a write-back.
LEMMA RluStepKeeps ==
    ASSUME RluInv, OneWritesBack, OneWritesBack', version.writer < MAX_VERSION,
           version'.writer < MAX_VERSION, NEW p \in Threads, scheme' = scheme, RluStep(p)
    PROVE  RluInv'
<1>1. CASE readerLock(p) \/ register(p) \/ localVersion(p) \/ commitVersion(p) \/ tryWriterLock(p)
    BY <1>1, ReaderLockStep, RegisterStep, LocalVersionStep, CommitVersionStep, TryWriterLockStep, Zenon
<1>2. CASE section(p) \/ deref(p) \/ steal(p) \/ load(p) \/ tryLock(p) \/ lock(p) \/ change(p)
    BY <1>2, InSectionStep, DerefStep, StealStep, LoadStep, TryLockStep, LockStep, ChangeStep, Zenon
<1>3. CASE leave(p) \/ releaseWriterLock(p) \/ abort(p) \/ checkpoint(p) \/ end(p) \/ finish(p)
    BY <1>3, LeaveStep, ReleaseStep, AbortStep, EndOfSection, EndStep, FinishStep, Zenon
<1>4. CASE sync(p) \/ writerVersion(p) \/ announceVersion(p) \/ initQuiescence(p)
           \/ waitForQuiescence(p) \/ reset(p)
    BY <1>4, SyncStep, WriterVersionStep, AnnounceStep, InitQuiescenceStep, WaitStep, ResetStep, Zenon
<1>5. CASE writeBack(p) \/ unlock(p) \/ writtenBack(p) \/ commit(p) \/ processFree(p)
    BY <1>5, WriteBackStep, UnlockStep, WrittenBackStep, CommitStep, ProcessFreeStep, Zenon
<1> QED BY <1>1, <1>2, <1>3, <1>4, <1>5, Zenon DEF RluStep

LEMMA NextStep ==
    ASSUME RluInv, CallsOK, OneWritesBack, OneWritesBack', version.writer < MAX_VERSION,
           version'.writer < MAX_VERSION, [Next]_vars
    PROVE  RluInv' /\ CallsOK'
<1>1. TypeOK /\ StacksOK /\ scheme \in {"rlu", "rlu_coarse"}
    BY DEF RluInv, TypeOK
<1>2. ASSUME NEW p \in Threads, Step(p) PROVE RluInv' /\ CallsOK'
  <2>1. CASE Call(p)
    <3>1. /\ Begin(p, Frame(Head(todo[p]))) /\ UNCHANGED rlu /\ scheme' = scheme
        BY <2>1, Zenon DEF Call, memory
    <3>2. CallsOK' /\ Pc(p) = "idle"
        BY <1>1, <3>1, CallsBegin
    <3> QED BY <3>1, <3>2, CallStep, Zenon
  <2>2. ASSUME Store(p) PROVE FALSE
    <3>1. Pc(p) = "store" /\ stack[p] # << >> /\ Top(p).pc = "store"
        BY <2>2, Zenon DEF Store, At, Pc
    <3>2. ASSUME NEW f \in SectionFrames, stack[p] = <<f>> PROVE FALSE
        BY <3>1, <3>2 DEF Top, SectionFrames, InSection, Reading, Outside
    <3>3. ASSUME NEW f \in FinishFrames, stack[p] = <<f>> PROVE FALSE
        BY <3>1, <3>3 DEF Top, FinishFrames
    <3>4. ASSUME NEW g \in SyncFrames, NEW f, stack[p] = <<g, f>> PROVE FALSE
        BY <3>1, <3>4 DEF Top, SyncFrames, Syncing, WritingBack, Announced, Waiting, Alone, Writes
    <3> QED BY <1>1, <3>1, <3>2, <3>3, <3>4 DEF StacksOK, Stacks
  <2>3. CASE RluStep(p) /\ UNCHANGED <<memory, thread_ids>>
    <3>1. scheme' = scheme
        BY <2>3 DEF memory
    <3> QED BY <1>1, <2>3, <3>1, RluStepKeeps, CallsStep
  <2>4. ~(scheme = "dcss") /\ ~(scheme \in {"kcas", "kcas_htm"})
      BY <1>1
  <2> QED BY <1>2, <2>1, <2>2, <2>3, <2>4, Zenon DEF Step
<1>3. CASE UNCHANGED vars
  <2>1. UNCHANGED <<scheme, version, writer_lock, copy_of, data, self, freed, latest, stack, todo, doing>>
      BY <1>3 DEF vars, memory, rlu, history
  <2>2. CallsOK'
      BY <2>1 DEF CallsOK
  <2>3. \A p : Pc(p)' = Pc(p) /\ Top(p)' = Top(p)
      BY <2>1 DEF Pc, Top
  <2>4. TypeOK' /\ CopiesLock' /\ LockedHaveCopies' /\ Versions' /\ LatestIsSeen'
    <3>1. TypeOK'
        BY <1>1, <2>1 DEF TypeOK, StacksOK
    <3>3. CopiesLock' /\ LockedHaveCopies'
      <4>1. CopiesLock /\ LockedHaveCopies
          BY DEF RluInv
      <4>2. ASSUME NEW q, NEW k, NEW i PROVE LiveAt(q, k, i)' <=> LiveAt(q, k, i)
          BY <2>1, <2>3 DEF LiveAt, Pos, Running, Num
      <4>3. ASSUME NEW q, NEW k, NEW i PROVE Copy(q, WS_INDEX(k), i)' = Copy(q, WS_INDEX(k), i)
          BY <2>1 DEF Copy, Buf
      <4>4. CopiesLock'
        <5> SUFFICES ASSUME NEW q \in Threads, NEW k \in Nat, NEW i \in Nat, LiveAt(q, k, i)'
                     PROVE  copy_of'[Copy(q, WS_INDEX(k), i)'.obj] = <<q, WS_INDEX(k), i>>
            BY DEF CopiesLock
        <5>1. copy_of[Copy(q, WS_INDEX(k), i).obj] = <<q, WS_INDEX(k), i>>
            BY <4>1, <4>2 DEF CopiesLock
        <5> QED BY <2>1, <4>3, <5>1
      <4>5. LockedHaveCopies'
        <5> SUFFICES ASSUME NEW o \in Objects, copy_of[o] # Nothing
                     PROVE  \E q \in Threads : \E k \in Nat, i \in Nat :
                               /\ LiveAt(q, k, i)' /\ copy_of[o] = <<q, WS_INDEX(k), i>>
                               /\ Copy(q, WS_INDEX(k), i)'.obj = o
            BY <2>1 DEF LockedHaveCopies
        <5> QED BY <4>1, <4>2, <4>3 DEF LockedHaveCopies
      <4> QED BY <4>4, <4>5
    <3>4. Versions'
        BY <2>1, <2>3 DEF RluInv, Versions, VersionOf
    <3>5. LatestIsSeen'
        BY <2>1 DEF RluInv, LatestIsSeen, Seen, CopyVal, Copy, Buf
    <3> QED BY <3>1, <3>3, <3>4, <3>5
  <2>5. ASSUME NEW p \in Threads PROVE OfThread(p)'
    <3>1. OfThread(p)
        BY DEF RluInv
    <3>2. Local(p)'
        BY <2>1, <2>3, <3>1
        DEF OfThread, Local, Sets, Counts, Empty, Buffers, Older, Flags, Position, Num, Buf, Copy, Running, Cur
    <3>3. WrittenBack(p)' /\ SnapIsSeen(p)' /\ NoStealing(p)'
      <4>1. WrittenBack(p)'
          BY <2>1, <2>3, <3>1 DEF OfThread, WrittenBack, Copy, Buf
      <4>2. ASSUME NEW o PROVE Seen(p, self[p].local_version, o)' = Seen(p, self[p].local_version, o)
          BY <2>1 DEF Seen, CopyVal, Copy, Buf
      <4>3. SnapIsSeen(p)'
          BY <2>1, <2>3, <3>1, <4>2 DEF OfThread, SnapIsSeen
      <4>4. NoStealing(p)'
          BY <2>1, <2>3, <3>1 DEF OfThread, NoStealing
      <4> QED BY <4>1, <4>3, <4>4
    <3>4. Steals(p)' /\ Loads(p)' /\ Changes(p)' /\ Waits(p)'
      <4>1. ASSUME NEW c PROVE (Early(p, c)' <=> Early(p, c)) /\ CopyVal(c)' = CopyVal(c)
          BY <2>1 DEF Early, CopyVal, Copy, Buf
      <4>2. ASSUME NEW c, NEW from PROVE Lasts(p, c, from)' <=> Lasts(p, c, from)
          BY <2>1, <2>3, <4>1 DEF Lasts
      <4>3. Steals(p)'
          BY <2>1, <2>3, <3>1, <4>1, <4>2 DEF OfThread, Steals
      <4>4. Loads(p)'
          BY <2>1, <2>3, <3>1, <4>1, <4>2 DEF OfThread, Loads
      <4>5. Changes(p)'
          BY <2>1, <2>3, <3>1 DEF OfThread, Changes, Cur
      <4>6. Waits(p)'
          BY <2>1, <2>3, <3>1 DEF OfThread, Waits, Slow
      <4> QED BY <4>3, <4>4, <4>5, <4>6
    <3> QED BY <3>2, <3>3, <3>4 DEF OfThread
  <2> QED BY <2>2, <2>4, <2>5 DEF RluInv
<1> QED BY <1>2, <1>3, Zenon DEF Next

LEMMA InitRlu ==
    ASSUME Init, scheme \in {"rlu", "rlu_coarse"}
    PROVE  RluInv /\ CallsOK
<1>1. PICK max : max = IF scheme = "rlu_coarse" THEN 1 ELSE MaxWriteSets
    OBVIOUS
<1>2. max \in Nat /\ max >= 1 /\ 2 * max <= RLU_MAX_WRITE_SETS /\ RLU_MAX_WRITE_SETS \in Nat
    BY <1>1, RluAssumption
<1>3. RluInit(FirstData, max) /\ ClientsInit(word, Programs[scheme]) /\ scheme \in DOMAIN Programs
    BY <1>1, Zenon DEF Init
<1>4. /\ version = [writer |-> 0, commit |-> 0]
      /\ copy_of = [o \in Objects |-> Nothing] /\ data = FirstData /\ latest = FirstData
      /\ self = [p \in Threads |-> NewThread(max)]
    BY <1>3 DEF RluInit
<1>5. /\ todo \in Programs[scheme] /\ doing = [p \in Threads |-> Nothing]
      /\ stack = [p \in Threads |-> << >>]
    BY <1>3 DEF ClientsInit
<1>6. PICK t : t = NewThread(max)
    OBVIOUS
<1>7. /\ t \in ThreadData /\ t.run_counter = 0 /\ t.writer_version = MAX_VERSION
      /\ t.ws_head = 0 /\ t.ws_wb = 0 /\ t.ws_tail = 0 /\ t.max_write_sets = max
      /\ \A w \in Slots : t.sets[w].num_of_objs = 0 /\ t.sets[w].buffer = << >>
  <2>1. EmptySet \in WriteSets /\ EmptySet.num_of_objs = 0 /\ EmptySet.buffer = << >>
      BY DEF EmptySet, WriteSets
  <2>2. MAX_VERSION \in Nat
      BY RluAssumption
  <2>3. t.sets = [i \in Slots |-> EmptySet]
      BY <1>6 DEF NewThread, Slots
  <2>4. t.sets \in [Slots -> WriteSets]
      BY <2>1, <2>3
  <2> QED BY <1>2, <1>6, <2>1, <2>2, <2>3, <2>4 DEF NewThread, ThreadData, Slots
<1>8. ASSUME NEW p \in Threads PROVE self[p] = t /\ Pc(p) = "idle" /\ stack[p] = << >>
    BY <1>4, <1>5, <1>6 DEF Pc
<1>9. "idle" \in Still \ {"free"} /\ "idle" \notin Syncing
    BY DEF Still, Syncing, WritingBack, Announced, Waiting, Alone, Writes
<1>10. TypeOK
  <2>1. todo \in [Threads -> Seq(RluCalls)]
      BY <1>3, <1>5, RluProgramsAssumption
  <2>2. FirstData \in States
      BY RluProgramsAssumption DEF States, Pointers
  <2>3. version \in [writer : Nat, commit : Nat]
      BY <1>4
  <2>4. self \in [Threads -> ThreadData]
      BY <1>4, <1>6, <1>7
  <2>5. StacksOK
      BY <1>5 DEF StacksOK, Stacks
  <2>6. copy_of \in [Objects -> Addrs \cup {Nothing}]
      BY <1>4
  <2> QED BY <1>4, <2>1, <2>2, <2>3, <2>4, <2>5, <2>6 DEF TypeOK
<1>11. ASSUME NEW q \in Threads, NEW w \in Slots PROVE Num(q, w) = 0 /\ Buf(q, w) = << >>
    BY <1>7, <1>8 DEF Num, Buf
<1>12. CopiesLock /\ LockedHaveCopies
  <2>1. ASSUME NEW q \in Threads, NEW k \in Nat, NEW i \in Nat PROVE ~LiveAt(q, k, i)
    <3>1. Num(q, WS_INDEX(k)) = 0
        BY <1>11, WsSlots
    <3> QED BY <3>1 DEF LiveAt
  <2>2. \A o \in Objects : copy_of[o] = Nothing
      BY <1>4
  <2> QED BY <2>1, <2>2 DEF CopiesLock, LockedHaveCopies
<1>13. Versions
    BY <1>4, <1>7, <1>8, <1>9, StillLabels DEF Versions, VersionOf
<1>14. LatestIsSeen
    BY <1>4 DEF LatestIsSeen, Seen
<1>15. ASSUME NEW p \in Threads PROVE OfThread(p)
  <2>1. ~Running(p)
      BY <1>7, <1>8 DEF Running
  <2>2. Sets(p)
    <3>1. Counts(p)
        BY <1>2, <1>7, <1>8 DEF Counts
    <3>2. Empty(p) /\ Buffers(p)
        BY <1>11 DEF Empty, Buffers
    <3>3. Older(p)
        BY <1>7, <1>8 DEF Older
    <3> QED BY <3>1, <3>2, <3>3 DEF Sets
  <2>3. Flags(p)
      BY <1>8, <1>9, <2>1, StillLabels DEF Flags
  <2>4. Position(p)
      BY <1>2, <1>7, <1>8, <1>9, StillLabels DEF Position
  <2> QED BY <1>8, <1>9, <2>2, <2>3, <2>4, StillLabels
      DEF OfThread, Local, WrittenBack, SnapIsSeen, NoStealing, Steals, Loads, Changes, Waits
<1>16. CallsOK
    BY <1>5 DEF CallsOK
<1> QED BY <1>10, <1>12, <1>13, <1>14, <1>15, <1>16 DEF RluInv

LEMMA InvSees ==
    ASSUME TypeOK PROVE SectionSeesOneState
<1> SUFFICES ASSUME NEW p \in Threads, NEW i \in DOMAIN stack[p], "got" \in DOMAIN stack[p][i],
                    NEW x \in stack[p][i].got
             PROVE  x.val = x.should
    BY DEF SectionSeesOneState
<1>1. \/ stack[p] = << >>
      \/ \E f \in SectionFrames \cup FinishFrames : stack[p] = <<f>>
      \/ \E g \in SyncFrames, f \in SectionFrames \cup FinishFrames : stack[p] = <<g, f>>
    BY DEF TypeOK, StacksOK, Stacks
<1>2. stack[p][i] \in SectionFrames \cup FinishFrames \cup SyncFrames
    BY <1>1
<1>3. ASSUME NEW f \in FinishFrames \cup SyncFrames PROVE "got" \notin DOMAIN f
  <2>1. CASE f \in FinishFrames
    <3>1. f = [pc |-> f.pc, op |-> f.op, left |-> f.left]
        BY <2>1 DEF FinishFrames
    <3>2. DOMAIN f = {"pc", "op", "left"}
        BY <3>1
    <3> QED BY <3>2
  <2>2. CASE f \in SyncFrames
    <3>1. f = [pc |-> f.pc, version |-> f.version, who |-> f.who, waits |-> f.waits, ws |-> f.ws,
               i |-> f.i]
        BY <2>2 DEF SyncFrames
    <3>2. DOMAIN f = {"pc", "version", "who", "waits", "ws", "i"}
        BY <3>1
    <3> QED BY <3>2
  <2> QED BY <2>1, <2>2
<1>4. stack[p][i] \in SectionFrames
    BY <1>2, <1>3
<1>5. x \in Right
    BY <1>4 DEF SectionFrames
<1> QED BY <1>5 DEF Right

-----------------------------------------------------------------------------
\* The versions do not come to the mark of a thread that writes nothing back.
VersionsLast == version.writer < MAX_VERSION

\* What a section reads and takes for the state of the objects is that of the
\* last version announced before it began, with its own changes (rlu_deref,
\* rlu_try_lock), as long as one thread is in rlu_sync_and_writeback at a time,
\* and the versions last.
THEOREM SectionsCorrect ==
    /\ Spec /\ scheme \in {"rlu", "rlu_coarse"}
    /\ []OneWritesBack /\ []VersionsLast
    => []SectionSeesOneState
<1>1. Init /\ scheme \in {"rlu", "rlu_coarse"} => RluInv /\ CallsOK
    BY InitRlu
<1>2. /\ RluInv /\ CallsOK /\ OneWritesBack /\ OneWritesBack' /\ VersionsLast /\ VersionsLast'
      /\ [Next]_vars
      => (RluInv /\ CallsOK)'
    BY NextStep DEF VersionsLast
<1>3. RluInv => SectionSeesOneState
    BY InvSees DEF RluInv
<1> QED BY <1>1, <1>2, <1>3, PTL DEF Spec
=============================================================================
