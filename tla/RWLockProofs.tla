---------------------------- MODULE RWLockProofs ----------------------------
(***************************************************************************)
(* Mutual exclusion of the reader-writer lock, and that it implements the  *)
(* abstract lock, for any finite set of PEs.  MutualExclusion is not       *)
(* inductive: a writer goes ahead on a copy of the word, so the invariant  *)
(* says what the copies of the PEs inside a call may still be trusted for. *)
(***************************************************************************)
EXTENDS RWLock, FiniteSetTheorems, TLAPS

\* A copy that lets a PE act: the runlock and wunlock copies satisfy the
\* asserts, and a drained writer really has no reader beside it.
CopiesTrusted ==
  \A p \in PEs :
    /\ pc[p] = "runlock" => val[p].readers > 0
    /\ pc[p] = "drain" /\ val[p].readers = 0 => lock.readers = 0
    /\ pc[p] \in {"writing", "wunlock"} => lock.readers = 0
    /\ pc[p] = "wunlock" => val[p].writer /\ val[p].readers = 0

IInv == TypeOK /\ WordIsExact /\ CopiesTrusted

\* Moving p into or out of the readers changes their number by one.
LEMMA ReaderCount ==
  ASSUME NEW S \in SUBSET PEs, NEW p \in PEs
  PROVE  /\ IsFiniteSet(S) /\ Cardinality(S) \in Nat
         /\ p \notin S => Cardinality(S \cup {p}) = Cardinality(S) + 1
         /\ p \in S => Cardinality(S \ {p}) = Cardinality(S) - 1
         /\ Cardinality(S) = 0 <=> S = {}
<1>1. IsFiniteSet(S)
  BY PEsFinite, FS_Subset
<1>2. QED
  BY <1>1, FS_CardinalityType, FS_AddElement, FS_RemoveElement, FS_EmptySet

\* A fresh lock satisfies the invariant.
LEMMA InitIInv == Init => IInv
<1> SUFFICES ASSUME Init PROVE IInv
  OBVIOUS
<1>1. Readers = {} /\ Requesters = {}
  BY DEF Init, Readers, Requesters
<1>2. Cardinality(Readers) = 0
  BY <1>1, FS_EmptySet
<1>3. QED
  BY <1>1, <1>2 DEF Init, IInv, TypeOK, WordIsExact, CopiesTrusted, Word, PC, nreaders

\* A step that leaves the word and both sets of holders alone, as every
\* getmem of a copy does, keeps the word exact.
LEMMA WordUnchanged ==
  ASSUME WordIsExact, UNCHANGED lock, Readers' = Readers, Requesters' = Requesters
  PROVE  WordIsExact'
BY DEF WordIsExact, nreaders

\* While a PE reads, the word counts at least one reader.
LEMMA ReaderIsCounted ==
  ASSUME IInv, NEW p \in Readers
  PROVE  lock.readers > 0
<1>1. lock.readers = Cardinality(Readers)
  BY DEF IInv, WordIsExact, nreaders
<1>2. Cardinality(Readers) \in Nat /\ Cardinality(Readers) # 0
  BY ReaderCount DEF Readers
<1> QED BY <1>1, <1>2

\* Every step keeps the invariant.
LEMMA StepIInv == IInv /\ [Next]_vars => IInv'
<1> SUFFICES ASSUME IInv, [Next]_vars PROVE IInv'
  OBVIOUS
<1> USE DEF IInv, TypeOK, Word, PC
<1>1. ASSUME NEW p \in PEs, NEW from \in PC, NEW to \in PC, Start(p, from, to),
             \/ from = "idle" /\ to \in {"rlock", "wlock"}
             \/ from = "reading" /\ to = "runlock"
             \/ from = "writing" /\ to = "wunlock"
      PROVE  IInv'
  <2>1. TypeOK'
    BY <1>1 DEF Start
  <2>2. Readers' = Readers /\ Requesters' = Requesters
    BY <1>1 DEF Start, Readers, Requesters
  <2>3. WordIsExact'
    BY <1>1, <2>2, WordUnchanged DEF Start
  <2>4. CopiesTrusted'
    <3>1. from = "reading" => lock.readers > 0
      <4>1. from = "reading" => p \in Readers
        BY <1>1 DEF Start, Readers
      <4> QED BY <4>1, ReaderIsCounted
    <3>2. from = "writing" => lock.writer /\ lock.readers = 0
      BY <1>1 DEF Start, WordIsExact, CopiesTrusted, Requesters
    <3> QED BY <1>1, <3>1, <3>2 DEF Start, CopiesTrusted
  <2> QED BY <2>1, <2>3, <2>4
<1>2. ASSUME NEW p \in PEs, Reread(p),
             pc[p] \in {"rlock", "wlock", "drain", "runlock", "wunlock"}
      PROVE  IInv'
  <2>1. TypeOK'
    BY <1>2 DEF Reread
  <2>2. Readers' = Readers /\ Requesters' = Requesters
    BY <1>2 DEF Reread, Readers, Requesters
  <2>3. WordIsExact'
    BY <1>2, <2>2, WordUnchanged DEF Reread
  <2>4. CopiesTrusted'
    <3>1. pc[p] = "runlock" => lock.readers > 0
      <4>1. pc[p] = "runlock" => p \in Readers
        BY DEF Readers
      <4> QED BY <4>1, ReaderIsCounted
    <3>2. pc[p] = "wunlock" => lock.writer /\ lock.readers = 0
      BY DEF WordIsExact, CopiesTrusted, Requesters
    <3> QED BY <1>2, <3>1, <3>2 DEF Reread, CopiesTrusted
  <2> QED BY <2>1, <2>3, <2>4
<1>3. ASSUME NEW p \in PEs, RLockTry(p), lock = val[p]
      PROVE  IInv'
  <2> USE <1>3 DEF RLockTry, Cswap, add_reader, has_writer_request, nreaders
  <2>1. TypeOK'
    <3>1. lock' = [writer |-> FALSE, readers |-> val[p].readers + 1]
      OBVIOUS
    <3>2. lock' \in Word
      BY <3>1
    <3> QED BY <3>2
  <2>2. Readers' = Readers \cup {p} /\ p \notin Readers /\ Requesters' = Requesters
    BY DEF Readers, Requesters
  <2>3. Requesters = {}
    BY DEF WordIsExact
  <2>4. WordIsExact'
    <3>1. Cardinality(Readers \cup {p}) = Cardinality(Readers) + 1
      BY <2>2, ReaderCount DEF Readers
    <3>2. Cardinality(Readers') = lock'.readers
      BY <2>2, <3>1 DEF WordIsExact
    <3>3. ~lock'.writer /\ Requesters' = {}
      BY <2>2, <2>3
    <3> QED BY <3>2, <3>3 DEF WordIsExact
  <2>5. CopiesTrusted'
    BY <2>3 DEF CopiesTrusted, Requesters
  <2> QED BY <2>1, <2>4, <2>5
<1>4. ASSUME NEW p \in PEs, RUnlockTry(p), lock = val[p]
      PROVE  IInv'
  <2> USE <1>4 DEF RUnlockTry, Cswap, remove_reader, nreaders
  <2>1. val[p].readers > 0
    BY DEF CopiesTrusted
  <2>2. TypeOK'
    BY <2>1
  <2>3. Readers' = Readers \ {p} /\ p \in Readers /\ Requesters' = Requesters
    BY DEF Readers, Requesters
  <2>4. WordIsExact'
    <3>1. Cardinality(Readers \ {p}) = Cardinality(Readers) - 1
      BY <2>3, ReaderCount DEF Readers
    <3>2. Cardinality(Readers') = lock'.readers
      BY <2>1, <2>3, <3>1 DEF WordIsExact
    <3>3. lock'.writer = lock.writer
      OBVIOUS
    <3> QED BY <2>3, <3>2, <3>3 DEF WordIsExact
  <2>5. CopiesTrusted'
    BY <2>1 DEF CopiesTrusted
  <2> QED BY <2>2, <2>4, <2>5
<1>5. ASSUME NEW p \in PEs, WLockTry(p), lock = val[p]
      PROVE  IInv'
  <2> USE <1>5 DEF WLockTry, Cswap, set_writer, has_writer_request, nreaders
  <2>1. TypeOK'
    OBVIOUS
  <2>2. Readers' = Readers /\ Requesters' = Requesters \cup {p}
    BY DEF Readers, Requesters
  <2>3. Requesters = {}
    BY DEF WordIsExact
  <2>4. WordIsExact'
    BY <2>2, <2>3 DEF WordIsExact
  <2>5. CopiesTrusted'
    BY <2>3 DEF CopiesTrusted, Requesters
  <2> QED BY <2>1, <2>4, <2>5
<1>6. ASSUME NEW p \in PEs, WLockDone(p)
      PROVE  IInv'
  <2> USE <1>6 DEF WLockDone, left_to_drain, nreaders
  <2>1. TypeOK'
    OBVIOUS
  <2>2. Readers' = Readers /\ Requesters' = Requesters
    BY DEF Readers, Requesters
  <2>3. WordIsExact'
    BY <2>2, WordUnchanged
  <2>4. CopiesTrusted'
    BY DEF CopiesTrusted
  <2> QED BY <2>1, <2>3, <2>4
<1>7. ASSUME NEW p \in PEs, WUnlockTry(p), lock = val[p]
      PROVE  IInv'
  <2> USE <1>7 DEF WUnlockTry, Cswap, clear_writer, nreaders
  <2>1. TypeOK'
    OBVIOUS
  <2>2. Readers' = Readers /\ Requesters' = Requesters \ {p} /\ p \in Requesters
    BY DEF Readers, Requesters
  <2>3. WordIsExact'
    BY <2>2 DEF WordIsExact
  <2>4. CopiesTrusted'
    BY DEF CopiesTrusted
  <2> QED BY <2>1, <2>3, <2>4
<1>8. CASE UNCHANGED vars
  <2>1. Readers' = Readers /\ Requesters' = Requesters
    BY <1>8 DEF vars, Readers, Requesters
  <2> QED BY <1>8, <2>1, WordUnchanged DEF vars, CopiesTrusted
<1>9. ASSUME NEW p \in PEs, Enter(p) \/ Leave(p)
      PROVE  IInv'
  BY <1>1, <1>9 DEF Enter, Leave, RLockStart, WLockStart, RUnlockStart, WUnlockStart
<1>10. ASSUME NEW p \in PEs, Call(p)
       PROVE  IInv'
  BY <1>2, <1>3, <1>4, <1>5, <1>6, <1>7, <1>10
     DEF Call, RLockBlocked, WLockBlocked, WLockDrain,
         RLockTry, RUnlockTry, WLockTry, WUnlockTry, Cswap
<1> QED BY <1>8, <1>9, <1>10 DEF Next

\* What the runs check follows from the invariant.
LEMMA IInvImplies == IInv => MutualExclusion /\ AssertsHold
<1> SUFFICES ASSUME IInv PROVE MutualExclusion /\ AssertsHold
  OBVIOUS
<1>1. AssertsHold
  BY DEF IInv, TypeOK, CopiesTrusted, AssertsHold, nreaders, has_writer_request
<1>2. ASSUME NEW w \in Writers PROVE Readers = {} /\ Writers = {w}
  <2>1. Cardinality(Readers) = 0
    BY DEF IInv, CopiesTrusted, WordIsExact, Writers, nreaders
  <2>2. Readers = {}
    BY <2>1, ReaderCount DEF Readers
  <2> QED BY <2>2 DEF IInv, WordIsExact, Writers, Requesters
<1> QED BY <1>1, <1>2 DEF MutualExclusion

\* The invariant holds in every reachable state.
THEOREM Invariance == Spec => []IInv
BY InitIInv, StepIInv, PTL DEF Spec

\* hvr_rwlock_wlock excludes every other holder, whatever the number of PEs.
THEOREM LockExcludes == Spec => []MutualExclusion
BY Invariance, IInvImplies, PTL

\* The reader count and the request bit stay exact, and no assert of
\* shmem_rw_lock.h can fail.
THEOREM WordExact == Spec => [](WordIsExact /\ AssertsHold)
<1>1. IInv => WordIsExact
  BY DEF IInv
<1> QED BY Invariance, IInvImplies, <1>1, PTL

\* Every step of the lock is a step of the abstract lock or leaves its state.
LEMMA StepRefines == IInv /\ [Next]_vars => [Abstract!Next]_(Abstract!vars)
<1> SUFFICES ASSUME IInv, [Next]_vars,
                    ~ UNCHANGED <<Readers, Writers, Waiting>>
             PROVE  Abstract!Next
  BY DEF Abstract!vars
<1> USE DEF IInv, TypeOK, Word, PC
<1>1. PICK p \in PEs : Enter(p) \/ Call(p) \/ Leave(p)
  BY DEF Next, vars, Readers, Writers, Waiting
<1>2. \/ RLockTry(p) /\ lock = val[p]
      \/ RUnlockTry(p) /\ lock = val[p]
      \/ WLockTry(p) /\ lock = val[p]
      \/ WLockDone(p)
      \/ WUnlockTry(p) /\ lock = val[p]
  BY <1>1 DEF Readers, Writers, Waiting, Enter, Leave, Call, Start, Reread, Cswap, RLockStart,
     WLockStart, RUnlockStart, WUnlockStart, RLockBlocked, WLockBlocked, WLockDrain,
     RLockTry, RUnlockTry, WLockTry, WUnlockTry
<1>3. CASE RLockTry(p) /\ lock = val[p]
  <2>1. ~lock.writer
    BY <1>3 DEF RLockTry, has_writer_request
  <2>2. Writers = {} /\ Waiting = {} /\ p \notin Readers
    BY <1>3, <2>1 DEF WordIsExact, Writers, Requesters, Readers, Waiting, RLockTry
  <2>3. Readers' = Readers \cup {p} /\ Writers' = Writers /\ Waiting' = Waiting
    BY <1>3 DEF RLockTry, Cswap, Readers, Writers, Waiting
  <2> QED BY <2>2, <2>3 DEF Abstract!Next, Abstract!AcquireRead
<1>4. CASE RUnlockTry(p) /\ lock = val[p]
  <2>1. p \in Readers /\ Readers' = Readers \ {p} /\ Writers' = Writers /\ Waiting' = Waiting
    BY <1>4 DEF RUnlockTry, Cswap, Readers, Writers, Waiting
  <2> QED BY <2>1 DEF Abstract!Next, Abstract!ReleaseRead
<1>5. CASE WLockTry(p) /\ lock = val[p]
  <2>1. ~lock.writer
    BY <1>5 DEF WLockTry, has_writer_request
  <2>2. Writers = {} /\ Waiting = {} /\ p \notin Readers
    BY <1>5, <2>1 DEF WordIsExact, Writers, Requesters, Readers, Waiting, WLockTry
  <2>3. Readers' = Readers /\ Writers' = Writers /\ Waiting' = {p}
    BY <1>5, <2>2 DEF WLockTry, Cswap, Readers, Writers, Waiting
  <2> QED BY <2>2, <2>3 DEF Abstract!Next, Abstract!RequestWrite
<1>6. CASE WLockDone(p)
  <2>1. lock.readers = 0
    BY <1>6 DEF WLockDone, left_to_drain, nreaders, CopiesTrusted
  <2>2. Readers = {}
    BY <2>1, ReaderCount DEF WordIsExact, nreaders, Readers
  <2>3. Writers = {} /\ Waiting = {p}
    BY <1>6 DEF WLockDone, WordIsExact, Writers, Requesters, Waiting
  <2>4. Writers' = {p} /\ Readers' = Readers /\ Waiting' = {}
    BY <1>6, <2>3 DEF WLockDone, Readers, Writers, Waiting
  <2> QED BY <2>2, <2>3, <2>4 DEF Abstract!Next, Abstract!AcquireWrite
<1>7. CASE WUnlockTry(p) /\ lock = val[p]
  <2>1. p \in Writers /\ Writers' = Writers \ {p} /\ Readers' = Readers /\ Waiting' = Waiting
    BY <1>7 DEF WUnlockTry, Cswap, Readers, Writers, Waiting
  <2> QED BY <2>1 DEF Abstract!Next, Abstract!ReleaseWrite
<1> QED BY <1>2, <1>3, <1>4, <1>5, <1>6, <1>7

\* The compare-and-swap lock implements the abstract lock with its order of
\* writers before new readers.
THEOREM LockRefines == Spec => ImplementsSharedLock
<1>1. Init => Abstract!Init
  BY DEF Init, Abstract!Init, Readers, Writers, Waiting
<1> QED BY <1>1, Invariance, StepRefines, PTL DEF Spec, ImplementsSharedLock, Abstract!Spec
=============================================================================
