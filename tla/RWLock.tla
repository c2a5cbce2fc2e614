------------------------------- MODULE RWLock -------------------------------
(***************************************************************************)
(* shmem_rw_lock.cpp: a reader-writer lock in one word of a PE's symmetric *)
(* memory.  The top bit is a write request, the other bits count readers.  *)
(* Every change is a compare-and-swap against a value read earlier, which  *)
(* any other PE may have made stale.                                       *)
(***************************************************************************)
EXTENDS Integers, FiniteSets

CONSTANT PEs                   \* the PEs that use the lock

ASSUME PEsFinite == IsFiniteSet(PEs)

VARIABLES
  lock,      \* the lock word: [writer, readers]
  val,       \* curr_val of each PE's call
  pc         \* where each PE is in its lock or unlock call

vars == <<lock, val, pc>>

Word == [writer : BOOLEAN, readers : Nat]
PC == {"idle", "rlock", "reading", "runlock",
       "wlock", "drain", "writing", "wunlock"}

\* Mutants of the operations on the word.
has_writer_request_never(v)  == FALSE
remove_reader_drops_bit(v)   == [writer |-> FALSE, readers |-> v.readers - 1]
no_wait_for_readers(v)       == 0
clear_writer_keeps_bit(v)    == v

nreaders(v)           == v.readers
has_writer_request(v) == v.writer
set_writer(v)         == [v EXCEPT !.writer = TRUE]
clear_writer(v)       == [v EXCEPT !.writer = FALSE]
add_reader(v)         == [writer |-> FALSE, readers |-> nreaders(v) + 1]
remove_reader(v)      == [v EXCEPT !.readers = nreaders(v) - 1]
left_to_drain(v)      == nreaders(v)

Init ==
  /\ lock = [writer |-> FALSE, readers |-> 0]
  /\ val = [p \in PEs |-> lock]
  /\ pc = [p \in PEs |-> "idle"]

\* shmem_getmem of the lock word on entry to a call.
Start(p, from, to) ==
  /\ pc[p] = from
  /\ val' = [val EXCEPT ![p] = lock]
  /\ pc' = [pc EXCEPT ![p] = to]
  /\ UNCHANGED lock

\* One more shmem_getmem of the lock word.
Reread(p) == val' = [val EXCEPT ![p] = lock] /\ UNCHANGED <<lock, pc>>

\* Compare-and-swap of the word from val[p] to new: a failed one returns the
\* current word for the next attempt.
Cswap(p, new, to) ==
  \/ /\ lock = val[p]
     /\ lock' = new
     /\ pc' = [pc EXCEPT ![p] = to]
     /\ UNCHANGED val
  \/ lock # val[p] /\ Reread(p)

RLockStart(p)   == Start(p, "idle", "rlock")
RLockBlocked(p) == pc[p] = "rlock" /\ has_writer_request(val[p]) /\ Reread(p)
\* Mutant of RLockTry: a reader joins readers that are there beside a request.
RLockTryBesideReaders(p) ==
  /\ pc[p] = "rlock" /\ (has_writer_request(val[p]) => nreaders(val[p]) > 0)
  /\ Cswap(p, [val[p] EXCEPT !.readers = nreaders(val[p]) + 1], "reading")
RLockTry(p)     == /\ pc[p] = "rlock" /\ ~has_writer_request(val[p])
                   /\ Cswap(p, add_reader(val[p]), "reading")

RUnlockStart(p) == Start(p, "reading", "runlock")
RUnlockTry(p)   == /\ pc[p] = "runlock"
                   /\ Cswap(p, remove_reader(val[p]), "idle")

WLockStart(p)   == Start(p, "idle", "wlock")
WLockBlocked(p) == pc[p] = "wlock" /\ has_writer_request(val[p]) /\ Reread(p)
WLockTry(p)     == /\ pc[p] = "wlock" /\ ~has_writer_request(val[p])
                   /\ Cswap(p, set_writer(val[p]), "drain")
WLockDrain(p)   == pc[p] = "drain" /\ left_to_drain(val[p]) > 0 /\ Reread(p)
WLockDone(p)    == /\ pc[p] = "drain" /\ left_to_drain(val[p]) = 0
                   /\ pc' = [pc EXCEPT ![p] = "writing"]
                   /\ UNCHANGED <<lock, val>>

WUnlockStart(p) == Start(p, "writing", "wunlock")
WUnlockTry(p)   == /\ pc[p] = "wunlock"
                   /\ Cswap(p, clear_writer(val[p]), "idle")

Enter(p) == RLockStart(p) \/ WLockStart(p)
Call(p)  == \/ RLockBlocked(p) \/ RLockTry(p) \/ RUnlockTry(p)
            \/ WLockBlocked(p) \/ WLockTry(p) \/ WLockDrain(p) \/ WLockDone(p)
            \/ WUnlockTry(p)
Leave(p) == RUnlockStart(p) \/ WUnlockStart(p)

Next == \E p \in PEs : Enter(p) \/ Call(p) \/ Leave(p)

\* A PE inside a call keeps running it and a holder releases the lock; no PE
\* is obliged to ask for it.
Fairness == \A p \in PEs : WF_vars(Call(p)) /\ WF_vars(Leave(p))

Spec == Init /\ [][Next]_vars
FairSpec == Spec /\ Fairness
-----------------------------------------------------------------------------
(* Properties *)

\* Type correctness.
TypeOK == lock \in Word /\ val \in [PEs -> Word] /\ pc \in [PEs -> PC]

Readers == {p \in PEs : pc[p] \in {"reading", "runlock"}}
Writers == {p \in PEs : pc[p] \in {"writing", "wunlock"}}
Requesters == {p \in PEs : pc[p] \in {"drain", "writing", "wunlock"}}

\* No PE holds the lock together with a writer (hvr_rwlock_wlock returns only
\* when every reader counted before its request is gone).
MutualExclusion ==
  \A w \in Writers : Readers = {} /\ Writers = {w}

\* The word counts exactly the PEs that hold a read lock and its top bit is set
\* exactly while one PE has requested or holds the write lock, though every
\* update was computed from a copy.
WordIsExact ==
  /\ nreaders(lock) = Cardinality(Readers)
  /\ lock.writer <=> Requesters # {}
  /\ \A p, q \in Requesters : p = q

\* The asserts of remove_reader, clear_writer (shmem_rw_lock.h) hold for the
\* copy each unlock call works on.
AssertsHold ==
  \A p \in PEs :
    /\ pc[p] = "runlock" => nreaders(val[p]) > 0
    /\ pc[p] = "wunlock" => has_writer_request(val[p]) /\ nreaders(val[p]) = 0

\* The lock implements the abstract one, in which a writer that has asked comes
\* before new readers: "Don't add readers as long as there's a pending write
\* request" (shmem_rw_lock.cpp:32), though a reader decides on a copy of the word
\* that the request may have overtaken.  Exclusion is not enough for this: a
\* reader that joins other readers beside the request excludes nobody.
Waiting == {p \in PEs : pc[p] = "drain"}
Abstract == INSTANCE SharedLock
              WITH readers <- Readers, writers <- Writers, waiting <- Waiting
ImplementsSharedLock == Abstract!Spec

\* A writer that has set the request bit gets the lock: no new reader is let
\* in before it (the comment in hvr_rwlock_rlock).
RequestedIsGranted == \A p \in PEs : pc[p] = "drain" ~> pc[p] = "writing"

\* Some PE always gets through: contended compare-and-swaps do not block all.
SomeoneEnters ==
  (\E p \in PEs : pc[p] \in {"rlock", "wlock"})
     ~> (\E p \in PEs : pc[p] \in {"reading", "writing"})
=============================================================================
