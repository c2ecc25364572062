------------------------------- MODULE RwLock -------------------------------
(***************************************************************************)
(* The readers-writer lock of rwlock.h in its two compilations of its own: *)
(* RWLOCK_FAVOR_READERS, where a reader enters and then waits for the      *)
(* writer to leave, and RWLOCK_FAVOR_WRITERS, where a reader that met a    *)
(* writer leaves again, and a writer bars new readers before it waits for  *)
(* the old ones.  The frame of the caller goes from "read_lock" to         *)
(* "read_locked", or from "write_lock" to "write_locked".                  *)
(***************************************************************************)
EXTENDS Clients

VARIABLE lock    \* [readers, writer]: the two bit fields; favors: the macro

FavorWriters == lock.favors = "writers"
IsLocked     == lock.readers > 0 \/ lock.writer
Unlocked(favors) == [favors |-> favors, readers |-> 0, writer |-> FALSE]

readLock(p) ==
    /\ At(p, "read_lock")
    /\ \/ /\ ~FavorWriters
          /\ lock' = [lock EXCEPT !.readers = @ + 1]
          /\ Go(p, "read_wait")
       \/ /\ FavorWriters /\ ~IsLocked
          /\ Go(p, "read_try") /\ UNCHANGED lock

readWait(p) ==
    /\ At(p, "read_wait") /\ ~lock.writer
    /\ Go(p, "read_locked") /\ UNCHANGED lock

readTry(p) ==
    /\ At(p, "read_try")
    /\ lock' = [lock EXCEPT !.readers = @ + 1]
    /\ Go(p, IF lock.writer THEN "read_undo" ELSE "read_locked")

\* Mutant: the reader stays counted.
readUndoCounted(p) == At(p, "read_undo") /\ Go(p, "read_lock") /\ UNCHANGED lock

readUndo(p) ==
    /\ At(p, "read_undo")
    /\ lock' = [lock EXCEPT !.readers = @ - 1]
    /\ Go(p, "read_lock")

ReadUnlocked == [lock EXCEPT !.readers = @ - 1]

writeLock(p) ==
    /\ At(p, "write_lock")
    /\ lock' = [lock EXCEPT !.writer = TRUE]
    /\ \/ ~FavorWriters /\ ~IsLocked /\ Go(p, "write_locked")
       \/ /\ FavorWriters /\ ~lock.writer
          /\ Go(p, IF lock.readers = 0 THEN "write_locked" ELSE "write_wait")

writeWait(p) ==
    /\ At(p, "write_wait") /\ lock.readers = 0
    /\ Go(p, "write_locked") /\ UNCHANGED lock

WriteUnlocked == [lock EXCEPT !.writer = FALSE]

RwLockStep(p) ==
    \/ readLock(p) \/ readWait(p) \/ readTry(p) \/ readUndo(p)
    \/ writeLock(p) \/ writeWait(p)
=============================================================================
