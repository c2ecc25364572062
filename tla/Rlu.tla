--------------------------------- MODULE Rlu ---------------------------------
(***************************************************************************)
(* Read-log-update, rlu.cpp: sections that read objects, and change copies *)
(* of objects they have locked.  A thread that commits moves on to its     *)
(* next write-set; when it has to, it synchronizes: it advances the global *)
(* version, waits for the sections of others that began before, and writes *)
(* its copies back.  Sections that begin later take the copies until then. *)
(*                                                                         *)
(* The threads, their sections and what these read and write are the       *)
(* callers'.  An object is in the place of its address, a copy has the     *)
(* address <<thread, write-set, place>>.                                   *)
(***************************************************************************)
EXTENDS Clients, FiniteSetsExt

CONSTANTS
    Objects,
    RLU_MAX_WRITE_SETS,
    MAX_VERSION     \* LONG_MAX - 1

VARIABLES
    version,    \* [writer, commit]: g_rlu_writer_version, g_rlu_commit_version
    writer_lock,\* who has the general writer lock, or Nothing
    copy_of,    \* copy_of[o]: the header of o, the address of a copy or Nothing
    data,       \* data[o]
    self,       \* self[p]: rlu_thread_data_t
    freed,      \* the objects given back to the allocator
    latest      \* history: data[o] as the versions announced so far make it

rlu == <<version, writer_lock, copy_of, data, self, freed, latest>>

WS_INDEX(counter) == counter % RLU_MAX_WRITE_SETS
Running(t)        == self[t].run_counter % 2 = 1
EmptySet          == [num_of_objs |-> 0, writer_locks |-> {}, buffer |-> << >>]

\* rlu_thread_init
NewThread(max) ==
    [run_counter |-> 0, local_version |-> 0, writer_version |-> MAX_VERSION,
     is_check_locks |-> FALSE, is_steal |-> FALSE, is_write_detected |-> FALSE, is_sync |-> FALSE,
     ws_head |-> 0, ws_wb |-> 0, ws_tail |-> 0, max_write_sets |-> max,
     sets |-> [i \in 0 .. RLU_MAX_WRITE_SETS - 1 |-> EmptySet], free_nodes |-> {}]

\* What the write-sets of p from counter a to b - 1 make of the state s.
Overlaid(s, p, a, b) ==
    LET entry(o, c) == {i \in 1 .. self[p].sets[WS_INDEX(c)].num_of_objs :
                          self[p].sets[WS_INDEX(c)].buffer[i].obj = o}
        last(o)     == {c \in a .. b - 1 : entry(o, c) # {}} IN
    [o \in DOMAIN s |->
       IF last(o) = {} THEN s[o]
       ELSE LET c == Max(last(o)) IN
            self[p].sets[WS_INDEX(c)].buffer[CHOOSE i \in entry(o, c) : TRUE].val]

-----------------------------------------------------------------------------
(***************************************************************************)
(* A section                                                               *)
(***************************************************************************)
\* snap: the state the section should see; got: what it did see.
SectionFrame(op) ==
    [pc |-> "reader_lock", op |-> op, steps |-> op.steps, tries |-> op.tries, at |-> Nothing,
     ptr |-> Nothing, failed |-> FALSE, snap |-> Nothing, got |-> {}, ret |-> Nothing]

SyncFrame == [pc |-> "sync", version |-> 0, who |-> 1, waits |-> << >>, ws |-> 0, i |-> 1]

\* rlu_sync_checkpoint; me goes on.
Checkpoint(p, me) ==
    IF self[p].is_sync THEN Invoke(p, me, SyncFrame) ELSE Put(p, me)

readerLock(p) ==
    /\ At(p, "reader_lock")
    /\ Checkpoint(p, [Top(p) EXCEPT !.pc = "register"])
    /\ UNCHANGED <<rlu, history>>

register(p) ==
    /\ At(p, "register")
    /\ self' = [self EXCEPT ![p].run_counter = @ + 1, ![p].is_write_detected = FALSE]
    /\ Go(p, "local_version")
    /\ UNCHANGED <<version, writer_lock, copy_of, data, freed, latest, history>>

localVersion(p) ==
    /\ At(p, "local_version")
    /\ self' = [self EXCEPT ![p].local_version = version.writer]
    /\ Put(p, [Top(p) EXCEPT !.pc = "commit_version",
                             !.snap = Overlaid(latest, p, self[p].ws_wb, self[p].ws_tail)])
    /\ UNCHANGED <<version, writer_lock, copy_of, data, freed, latest, history>>

commitVersion(p) ==
    LET me == Top(p)  same == self[p].local_version = version.commit IN
    /\ At(p, "commit_version")
    /\ self' = [self EXCEPT ![p].is_steal = ~same,
                            ![p].is_check_locks = ~same \/ self[p].ws_tail # self[p].ws_wb]
    /\ Go(p, IF me.op.coarse THEN "writer_lock" ELSE "section")
    /\ UNCHANGED <<version, writer_lock, copy_of, data, freed, latest, history>>

Cur(p) == WS_INDEX(self[p].ws_tail)

TryAcquire(p) == writer_lock = Nothing /\ writer_lock' = p

tryWriterLock(p) ==
    /\ At(p, "writer_lock")
    /\ IF writer_lock = Nothing
         THEN /\ TryAcquire(p)
              /\ self' = [self EXCEPT ![p].sets[Cur(p)].writer_locks = {"general"}]
              /\ Go(p, "section")
         ELSE Put(p, [Top(p) EXCEPT !.failed = TRUE, !.pc = "abort"]) /\ UNCHANGED <<writer_lock, self>>
    /\ UNCHANGED <<version, copy_of, data, freed, latest, history>>

\* The caller's next step.
section(p) ==
    LET me == Top(p)  s == Head(me.steps)  rest == [me EXCEPT !.steps = Tail(@)] IN
    /\ At(p, "section")
    /\ \/ /\ me.steps = << >>
          /\ Go(p, IF me.op.abort THEN "abort" ELSE "leave") /\ UNCHANGED self
       \/ /\ me.steps # << >> /\ s.do = "free"
          /\ self' = [self EXCEPT ![p].free_nodes = @ \cup {s.obj}]
          /\ Put(p, rest)
       \/ /\ me.steps # << >> /\ s.do # "free"
          /\ Put(p, [me EXCEPT !.at = s.obj, !.pc = IF s.do = "write" THEN "try_lock" ELSE "deref"])
          /\ UNCHANGED self
    /\ UNCHANGED <<version, writer_lock, copy_of, data, freed, latest, history>>

-----------------------------------------------------------------------------
\* rlu_deref_slow_path: the copy if it is one's own, and no copy of another's
\* unless is_steal; steal decides on the rest.
SlowPath(p, me, c) ==
    IF c[1] = p THEN [me EXCEPT !.ptr = c, !.pc = "load"]
    ELSE IF self[p].is_steal THEN [me EXCEPT !.ptr = c, !.pc = "steal"]
    ELSE [me EXCEPT !.ptr = Nothing, !.pc = "load"]

\* RLU_DEREF
deref(p) ==
    LET me == Top(p)  c == copy_of[me.at] IN
    /\ At(p, "deref")
    /\ Put(p, IF self[p].is_check_locks /\ c # Nothing THEN SlowPath(p, me, c)
              ELSE [me EXCEPT !.ptr = Nothing, !.pc = "load"])
    /\ UNCHANGED <<rlu, history>>

steal(p) ==
    LET me == Top(p) IN
    /\ At(p, "steal")
    /\ Put(p, [me EXCEPT !.pc = "load",
                 !.ptr = IF self[@[1]].writer_version <= self[p].local_version THEN @ ELSE Nothing])
    /\ UNCHANGED <<rlu, history>>

\* The caller uses the pointer; "follow" takes what it finds for a pointer.
load(p) ==
    LET me == Top(p)  s == Head(me.steps)  c == me.ptr
        v == IF c = Nothing THEN data[me.at] ELSE self[c[1]].sets[c[2]].buffer[c[3]].val
        saw == [me EXCEPT !.got = @ \cup {[obj |-> me.at, val |-> v, should |-> me.snap[me.at]]}] IN
    /\ At(p, "load")
    /\ Put(p, [saw EXCEPT !.pc = "section",
                 !.steps = IF s.do = "follow" THEN <<[do |-> "read", obj |-> v]>> \o Tail(@)
                                              ELSE Tail(@)])
    /\ UNCHANGED <<rlu, history>>

-----------------------------------------------------------------------------
\* rlu_try_lock
Fail(p) == Put(p, [Top(p) EXCEPT !.failed = TRUE, !.pc = "abort"])

tryLock(p) ==
    LET c == copy_of[Top(p).at] IN
    /\ At(p, "try_lock")
    /\ \/ /\ c = Nothing
          /\ self' = [self EXCEPT ![p].is_write_detected = TRUE, ![p].is_check_locks = TRUE]
          /\ Go(p, "lock")
       \/ /\ c # Nothing /\ c[1] = p
          /\ IF self[p].sets[c[2]].buffer[c[3]].run_counter = self[p].run_counter
               THEN Go(p, "change") /\ UNCHANGED self
               ELSE Fail(p) /\ self' = [self EXCEPT ![p].is_sync = TRUE]
       \/ /\ c # Nothing /\ c[1] # p
          /\ self' = [self EXCEPT ![c[1]].is_sync = TRUE, ![p].is_sync = TRUE]
          /\ Fail(p)
    /\ UNCHANGED <<version, writer_lock, copy_of, data, freed, latest, history>>

\* The header of the copy is in the write-set before the object is locked; the
\* object is copied after.
CopyOf(p, o) == [obj |-> o, run_counter |-> self[p].run_counter, val |-> data[o]]

lock(p) ==
    LET me == Top(p)  ws == self[p].sets[Cur(p)]  i == ws.num_of_objs + 1  copy == CopyOf(p, me.at) IN
    /\ At(p, "lock")
    /\ IF copy_of[me.at] = Nothing
         THEN /\ copy_of' = [copy_of EXCEPT ![me.at] = <<p, Cur(p), i>>]
              /\ self' = [self EXCEPT
                   ![p].sets[Cur(p)] = [ws EXCEPT !.num_of_objs = i,
                     !.buffer = IF i \in DOMAIN ws.buffer THEN [ws.buffer EXCEPT ![i] = copy]
                                                          ELSE Append(ws.buffer, copy)]]
              /\ Go(p, "change")
         ELSE Fail(p) /\ UNCHANGED <<copy_of, self>>
    /\ UNCHANGED <<version, writer_lock, data, freed, latest, history>>

\* The caller changes the copy.
change(p) ==
    LET me == Top(p)  c == copy_of[me.at]  v == Head(me.steps).val IN
    /\ At(p, "change")
    /\ self' = [self EXCEPT ![p].sets[c[2]].buffer[c[3]].val = v]
    /\ Put(p, [me EXCEPT !.snap[me.at] = v, !.steps = Tail(@), !.pc = "section"])
    /\ UNCHANGED <<version, writer_lock, copy_of, data, freed, latest, history>>

-----------------------------------------------------------------------------
(***************************************************************************)
(* The end of a section                                                    *)
(***************************************************************************)
ReleasedBy(p, ws) == IF self[p].sets[ws].writer_locks = {} THEN writer_lock ELSE Nothing

\* rlu_commit_write_set: is it time, now that the write-sets end before tail?
SyncIsDue(p, tail) ==
    \/ WS_INDEX(tail) = WS_INDEX(self[p].ws_head)
    \/ tail - self[p].ws_wb >= self[p].max_write_sets

\* rlu_reader_unlock
leave(p) ==
    LET me == Top(p)  tail == self[p].ws_tail + 1 IN
    /\ At(p, "leave")
    /\ IF self[p].is_write_detected
         THEN /\ self' = [self EXCEPT ![p].run_counter = @ + 1, ![p].is_write_detected = FALSE,
                                      ![p].ws_tail = tail]
              /\ IF SyncIsDue(p, tail)
                   THEN Invoke(p, [me EXCEPT !.pc = "release_writer_lock"], SyncFrame)
                   ELSE Go(p, "release_writer_lock")
              /\ UNCHANGED writer_lock
         ELSE /\ writer_lock' = ReleasedBy(p, Cur(p))
              /\ self' = [self EXCEPT ![p].run_counter = @ + 1,
                                      ![p].sets[Cur(p)].writer_locks = {}]
              /\ Go(p, "checkpoint")
    /\ UNCHANGED <<version, copy_of, data, freed, latest, history>>

releaseWriterLock(p) ==
    /\ At(p, "release_writer_lock")
    /\ writer_lock' = ReleasedBy(p, WS_INDEX(self[p].ws_tail - 1))
    /\ Go(p, "checkpoint")
    /\ UNCHANGED <<version, copy_of, data, self, freed, latest, history>>

\* rlu_unlock_objs: what the write-set of an aborted section has locked.
Mine(p) == {o \in Objects : /\ copy_of[o] # Nothing
                            /\ copy_of[o][1] = p /\ copy_of[o][2] = Cur(p)}

\* rlu_abort.  An object of an aborted section has the same value locked or
\* not, so that they are unlocked in one step.
abort(p) ==
    /\ At(p, "abort")
    /\ copy_of' = [o \in Objects |-> IF self[p].is_write_detected /\ o \in Mine(p) THEN Nothing ELSE copy_of[o]]
    /\ writer_lock' = ReleasedBy(p, Cur(p))
    /\ self' = [self EXCEPT ![p].run_counter = @ + 1, ![p].is_write_detected = FALSE,
                            ![p].sets[Cur(p)] = [@ EXCEPT !.num_of_objs = 0, !.writer_locks = {}]]
    /\ Go(p, "checkpoint")
    /\ UNCHANGED <<version, data, freed, latest, history>>

checkpoint(p) ==
    /\ At(p, "checkpoint")
    /\ Checkpoint(p, [Top(p) EXCEPT !.pc = "end", !.got = {}, !.snap = Nothing])
    /\ UNCHANGED <<rlu, history>>

\* A caller that could not lock an object tries again, op.tries times.
end(p) ==
    LET me == Top(p) IN
    /\ At(p, "end")
    /\ IF me.failed /\ me.tries > 0
         THEN /\ Put(p, [SectionFrame(me.op) EXCEPT !.tries = me.tries - 1])
              /\ UNCHANGED history
         ELSE Return(p, <<"done">>)
    /\ UNCHANGED rlu

-----------------------------------------------------------------------------
(***************************************************************************)
(* rlu_sync_and_writeback                                                  *)
(***************************************************************************)
sync(p) ==
    /\ At(p, "sync")
    /\ IF self[p].ws_tail = self[p].ws_head THEN Pop(p)
       ELSE Put(p, [Top(p) EXCEPT !.version = version.writer + 1, !.pc = "writer_version"])
    /\ UNCHANGED <<rlu, history>>

writerVersion(p) ==
    /\ At(p, "writer_version")
    /\ self' = [self EXCEPT ![p].writer_version = Top(p).version]
    /\ Go(p, "announce")
    /\ UNCHANGED <<version, writer_lock, copy_of, data, freed, latest, history>>

announceVersion(p) ==
    /\ At(p, "announce")
    /\ version' = [version EXCEPT !.writer = @ + 1]
    /\ latest' = Overlaid(latest, p, self[p].ws_wb, self[p].ws_tail)
    /\ Go(p, "init_quiescence")
    /\ UNCHANGED <<writer_lock, copy_of, data, self, freed, history>>

\* waits[t]: the run_counter of t, or 0 when there is nothing to wait for.
initQuiescence(p) ==
    LET me == Top(p)  t == me.who IN
    /\ At(p, "init_quiescence")
    /\ Put(p, IF t \in Threads
                THEN [me EXCEPT !.who = t + 1,
                        !.waits = Append(@, IF t # p /\ Running(t) THEN self[t].run_counter ELSE 0)]
                ELSE [me EXCEPT !.who = 1, !.pc = "wait"])
    /\ UNCHANGED <<rlu, history>>

\* Mutant: sections that began at the version before are not waited for.
waitForOlderQuiescence(p) ==
    LET me == Top(p)  t == me.who IN
    /\ At(p, "wait")
    /\ \/ /\ t \in Threads
          /\ \/ me.waits[t] \in {0} \cup (Nat \ {self[t].run_counter})
             \/ self[t].local_version >= me.version - 1
          /\ Put(p, [me EXCEPT !.who = t + 1])
       \/ t \notin Threads /\ Go(p, "reset")
    /\ UNCHANGED <<rlu, history>>

waitForQuiescence(p) ==
    LET me == Top(p)  t == me.who IN
    /\ At(p, "wait")
    /\ \/ /\ t \in Threads
          /\ \/ me.waits[t] \in {0} \cup (Nat \ {self[t].run_counter})
             \/ self[t].local_version >= me.version
          /\ Put(p, [me EXCEPT !.who = t + 1])
       \/ t \notin Threads /\ Go(p, "reset")
    /\ UNCHANGED <<rlu, history>>

NowUnused(p) == self[p].ws_wb

reset(p) ==
    LET old == {WS_INDEX(c) : c \in self[p].ws_head .. NowUnused(p) - 1} IN
    /\ At(p, "reset")
    /\ self' = [self EXCEPT ![p].ws_head = NowUnused(p),
                  ![p].sets = [i \in DOMAIN @ |->
                     IF i \in old THEN [@[i] EXCEPT !.num_of_objs = 0, !.writer_locks = {}] ELSE @[i]]]
    /\ Put(p, [Top(p) EXCEPT !.ws = self[p].ws_wb, !.i = 1, !.pc = "write_back"])
    /\ UNCHANGED <<version, writer_lock, copy_of, data, freed, latest, history>>

writeBack(p) ==
    LET me == Top(p)  ws == self[p].sets[WS_INDEX(me.ws)] IN
    /\ At(p, "write_back")
    /\ \/ /\ me.ws < self[p].ws_tail /\ me.i <= ws.num_of_objs
          /\ data' = [data EXCEPT ![ws.buffer[me.i].obj] = ws.buffer[me.i].val]
          /\ Go(p, "unlock")
       \/ /\ me.ws < self[p].ws_tail /\ me.i > ws.num_of_objs
          /\ Put(p, [me EXCEPT !.ws = @ + 1, !.i = 1]) /\ UNCHANGED data
       \/ /\ me.ws = self[p].ws_tail
          /\ Go(p, "written_back") /\ UNCHANGED data
    /\ UNCHANGED <<version, writer_lock, copy_of, self, freed, latest, history>>

unlock(p) ==
    LET me == Top(p)  ws == self[p].sets[WS_INDEX(me.ws)] IN
    /\ At(p, "unlock")
    /\ copy_of' = [copy_of EXCEPT ![ws.buffer[me.i].obj] = Nothing]
    /\ Put(p, [me EXCEPT !.i = @ + 1, !.pc = "write_back"])
    /\ UNCHANGED <<version, writer_lock, data, self, freed, latest, history>>

writtenBack(p) ==
    /\ At(p, "written_back")
    /\ self' = [self EXCEPT ![p].ws_wb = self[p].ws_tail, ![p].writer_version = MAX_VERSION]
    /\ Go(p, "commit")
    /\ UNCHANGED <<version, writer_lock, copy_of, data, freed, latest, history>>

commit(p) ==
    /\ At(p, "commit")
    /\ version' = [version EXCEPT !.commit = @ + 1]
    /\ self' = [self EXCEPT ![p].is_sync = FALSE]
    /\ Go(p, "free")
    /\ UNCHANGED <<writer_lock, copy_of, data, freed, latest, history>>

processFree(p) ==
    /\ At(p, "free")
    /\ freed' = freed \cup self[p].free_nodes
    /\ self' = [self EXCEPT ![p].free_nodes = {}]
    /\ Pop(p)
    /\ UNCHANGED <<version, writer_lock, copy_of, data, latest, history>>

\* rlu_thread_finish
FinishFrame(op) == [pc |-> "finish", op |-> op, left |-> 2]

finish(p) ==
    LET me == Top(p) IN
    /\ At(p, "finish")
    /\ \/ me.left > 0 /\ Invoke(p, [me EXCEPT !.left = @ - 1], SyncFrame) /\ UNCHANGED history
       \/ me.left = 0 /\ Return(p, <<"done">>)
    /\ UNCHANGED rlu

RluStep(p) ==
    \/ readerLock(p) \/ register(p) \/ localVersion(p) \/ commitVersion(p) \/ tryWriterLock(p)
    \/ section(p) \/ deref(p) \/ steal(p) \/ load(p) \/ tryLock(p) \/ lock(p) \/ change(p)
    \/ leave(p) \/ releaseWriterLock(p) \/ abort(p) \/ checkpoint(p) \/ end(p) \/ finish(p)
    \/ sync(p) \/ writerVersion(p) \/ announceVersion(p) \/ initQuiescence(p)
    \/ waitForQuiescence(p) \/ reset(p) \/ writeBack(p) \/ unlock(p) \/ writtenBack(p)
    \/ commit(p) \/ processFree(p)

RluInit(s, max) ==
    /\ version = [writer |-> 0, commit |-> 0]
    /\ writer_lock = Nothing
    /\ copy_of = [o \in Objects |-> Nothing]
    /\ data = s /\ latest = s
    /\ self = [p \in Threads |-> NewThread(max)]
    /\ freed = {}

-----------------------------------------------------------------------------
\* A section sees the objects of one version: those of the last one announced
\* before it began, with what the thread itself has changed.
SectionSeesOneState ==
    \A p \in Threads : \A i \in DOMAIN stack[p] :
       "got" \in DOMAIN stack[p][i] => \A x \in stack[p][i].got : x.val = x.should

\* No object is freed while a section may still use it, or while it is locked
\* (the assertion of rlu_process_free).
FreedIsUnused ==
    /\ \A p \in Threads : At(p, "load") => Top(p).at \notin freed
    /\ \A p \in Threads : At(p, "free") => \A o \in self[p].free_nodes : copy_of[o] = Nothing
=============================================================================
