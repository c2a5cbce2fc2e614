----------------------------- MODULE SharedLock -----------------------------
(***************************************************************************)
(* What the reader-writer lock promises: any number of readers together,   *)
(* or one writer alone, and a writer that has asked comes before every     *)
(* reader that has not got in yet.                                         *)
(***************************************************************************)
CONSTANT PEs

VARIABLES
  readers, writers,     \* the PEs that hold the lock, by mode
  waiting               \* the PE that has asked to write

vars == <<readers, writers, waiting>>

Init == readers = {} /\ writers = {} /\ waiting = {}

AcquireRead(p) ==
  /\ writers = {} /\ waiting = {} /\ p \notin readers
  /\ readers' = readers \cup {p}
  /\ UNCHANGED <<writers, waiting>>

ReleaseRead(p) ==
  /\ p \in readers
  /\ readers' = readers \ {p}
  /\ UNCHANGED <<writers, waiting>>

\* Readers may still hold the lock; no other writer does or waits.
RequestWrite(p) ==
  /\ writers = {} /\ waiting = {} /\ p \notin readers
  /\ waiting' = {p}
  /\ UNCHANGED <<readers, writers>>

AcquireWrite(p) ==
  /\ readers = {} /\ p \in waiting
  /\ waiting' = {}
  /\ writers' = {p}
  /\ UNCHANGED readers

ReleaseWrite(p) ==
  /\ p \in writers
  /\ writers' = writers \ {p}
  /\ UNCHANGED <<readers, waiting>>

Next == \E p \in PEs : \/ AcquireRead(p)  \/ ReleaseRead(p)
                       \/ RequestWrite(p)
                       \/ AcquireWrite(p) \/ ReleaseWrite(p)

Spec == Init /\ [][Next]_vars
=============================================================================
