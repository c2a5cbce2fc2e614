---------------------------- MODULE DistBitvec ----------------------------
(***************************************************************************)
(* The distributed bit vector of src/hvr_dist_bitvec.cpp, the directory in  *)
(* which each PE publishes the partitions it produces (and, at its end,     *)
(* those it produced).  A row per partition, a bit per PE; beside the row   *)
(* its sequence number, which a reader compares with that of its local copy *)
(* to learn that nothing changed (hoover.cpp, handle_existing_subscription).*)
(*                                                                          *)
(* An update is a non-fetching atomic on the word, a fence, and a           *)
(* non-fetching atomic increment of the sequence number.  The PE goes on    *)
(* at once; its atomics land later, in any order that its fences allow.  A  *)
(* copy reads the sequence number first and then the row word by word.      *)
(*                                                                          *)
(* Rows of one PE's share of the vector do not overlap and all atomics on a *)
(* row have the same target, so rows are an index of their own here.        *)
(***************************************************************************)
EXTENDS Integers, Sequences, SequencesExt

CONSTANTS
  Dim0,           \* rows
  Dim1,           \* bits of a row: the number of PEs
  BITS_PER_ELE,   \* bits of a word of the row (64 in the code)
  BITS_PER_WORD,  \* what the bit index is reduced by (32 in the code)
  Producers,      \* the PEs that update their bits
  Readers,        \* the PEs that keep copies
  MaxUpdates      \* bound: updates of each producer

ASSUME BitvecAssumption ==
  /\ Dim0 \in Nat \ {0} /\ Dim1 \in Nat \ {0}
  /\ BITS_PER_ELE \in Nat \ {0} /\ BITS_PER_WORD \in 1 .. BITS_PER_ELE
  /\ Producers \subseteq 0 .. Dim1 - 1 /\ Readers \subseteq 0 .. Dim1 - 1
  /\ MaxUpdates \in Nat

Pes  == 0 .. Dim1 - 1
Rows == 0 .. Dim0 - 1
dim1_length_in_words == (Dim1 + BITS_PER_ELE - 1) \div BITS_PER_ELE
Words == 0 .. dim1_length_in_words - 1
Bits  == 0 .. BITS_PER_ELE - 1

coord1_bit(k)  == k % BITS_PER_WORD
coord1_word(k) == k \div BITS_PER_ELE

VARIABLES
  symm_vec,   \* the rows: the bits set in each word
  seq_nos,    \* their sequence numbers
  flight,     \* for each producer, its atomics and fences that have not landed
  member,     \* for each producer, the rows in which it believes itself set
  updates,    \* for each producer, the updates it has issued
  copy,       \* for each reader and row, its local copy
  left        \* for each reader and row, the words a running copy still reads

vars == <<symm_vec, seq_nos, flight, member, updates, copy, left>>

NoBits == [w \in Words |-> {}]

\* hvr_dist_bitvec_local_subcopy_contains
contains(k, subvec) == coord1_bit(k) \in subvec[coord1_word(k)]

Init ==
  /\ symm_vec = [c \in Rows |-> NoBits]
  /\ seq_nos = [c \in Rows |-> 0]
  /\ flight = [p \in Producers |-> <<>>]
  /\ member = [p \in Producers |-> {}]
  /\ updates = [p \in Producers |-> 0]
  /\ copy = [r \in Readers |-> [c \in Rows |-> [subvec |-> NoBits, seq_no |-> 0]]]
  /\ left = [r \in Readers |-> [c \in Rows |-> {}]]

-----------------------------------------------------------------------------
(* Updates *)

Fence == [op |-> "fence"]

IssueUnfenced(op, c) == << [op |-> op, row |-> c], [op |-> "inc", row |-> c] >>
\* The atomics of hvr_dist_bitvec_set and hvr_dist_bitvec_clear on row c.
Issue(op, c) == << [op |-> op, row |-> c], Fence, [op |-> "inc", row |-> c] >>

Update(p, c, op) ==
  /\ updates[p] < MaxUpdates
  /\ updates' = [updates EXCEPT ![p] = @ + 1]
  /\ flight' = [flight EXCEPT ![p] = @ \o Issue(op, c)]
  /\ UNCHANGED <<symm_vec, seq_nos, copy, left>>

\* update_partition_window, cases 2 and 1: only a change of membership is
\* published.
Set(p, c) ==
  /\ c \notin member[p]
  /\ member' = [member EXCEPT ![p] = @ \union {c}]
  /\ Update(p, c, "or")

Clear(p, c) ==
  /\ c \in member[p]
  /\ member' = [member EXCEPT ![p] = @ \ {c}]
  /\ Update(p, c, "and")

AppliedByStore(p, op, words) ==
  LET w == coord1_word(p)  b == coord1_bit(p)
  IN  CASE op = "or"  -> [words EXCEPT ![w] = {b}]
        [] op = "and" -> [words EXCEPT ![w] = @ \ {b}]
        [] OTHER      -> words

\* What an atomic of p does to the words of its row.
Applied(p, op, words) ==
  LET w == coord1_word(p)  b == coord1_bit(p)
  IN  CASE op = "or"  -> [words EXCEPT ![w] = @ \union {b}]
        [] op = "and" -> [words EXCEPT ![w] = @ \ {b}]
        [] OTHER      -> words

\* Fences with nothing before them to wait for are over.
PastFences(s) ==
  IF s # <<>> /\ Head(s) = Fence THEN Tail(s) ELSE s

\* The i-th atomic lands; a fence holds back what was issued after it.
Land(p, i) ==
  /\ \A j \in 1 .. i : flight[p][j] # Fence
  /\ LET f == flight[p][i]
     IN  /\ symm_vec' = [symm_vec EXCEPT ![f.row] = Applied(p, f.op, @)]
         /\ seq_nos' = [seq_nos EXCEPT ![f.row] = IF f.op = "inc" THEN @ + 1 ELSE @]
  /\ flight' = [flight EXCEPT ![p] = PastFences(RemoveAt(@, i))]
  /\ UNCHANGED <<member, updates, copy, left>>

-----------------------------------------------------------------------------
(* Copies *)

OutdatedByTwo(r, c) == seq_nos[c] > copy[r][c].seq_no + 1

\* handle_existing_subscription: a row is copied only if its sequence number
\* (hvr_dist_bitvec_get_seq_no) is beyond that of the copy.
Outdated(r, c) == seq_nos[c] > copy[r][c].seq_no

\* hvr_dist_bitvec_copy_locally: the sequence number, then the words.
CopyStart(r, c) ==
  /\ left[r][c] = {}
  /\ Outdated(r, c)
  /\ copy' = [copy EXCEPT ![r][c].seq_no = seq_nos[c]]
  /\ left' = [left EXCEPT ![r][c] = Words]
  /\ UNCHANGED <<symm_vec, seq_nos, flight, member, updates>>

CopyWord(r, c, w) ==
  /\ w \in left[r][c]
  /\ copy' = [copy EXCEPT ![r][c].subvec[w] = symm_vec[c][w]]
  /\ left' = [left EXCEPT ![r][c] = @ \ {w}]
  /\ UNCHANGED <<symm_vec, seq_nos, flight, member, updates>>

Next ==
  \/ \E p \in Producers, c \in Rows : Set(p, c) \/ Clear(p, c)
  \/ \E p \in Producers : \E i \in DOMAIN flight[p] : Land(p, i)
  \/ \E r \in Readers, c \in Rows : CopyStart(r, c)
  \/ \E r \in Readers, c \in Rows, w \in Words : CopyWord(r, c, w)

Spec == Init /\ [][Next]_vars

\* The network delivers, and a subscriber checks its rows in every iteration.
FairSpec ==
  /\ Spec
  /\ \A p \in Producers : WF_vars(\E i \in DOMAIN flight[p] : Land(p, i))
  /\ \A r \in Readers, c \in Rows :
       WF_vars(CopyStart(r, c) \/ \E w \in Words : CopyWord(r, c, w))

-----------------------------------------------------------------------------
(* Properties *)

Atomics == [op : {"or", "and", "inc"}, row : Rows] \union {Fence}

\* The vector, the copies and what is in flight stay in their types: no
\* atomic ever touches a word or a bit outside its row.
TypeOK ==
  /\ symm_vec \in [Rows -> [Words -> SUBSET Bits]]
  /\ seq_nos \in [Rows -> Nat]
  /\ flight \in [Producers -> Seq(Atomics)]
  /\ member \in [Producers -> SUBSET Rows]
  /\ updates \in [Producers -> 0 .. MaxUpdates]
  /\ copy \in [Readers -> [Rows -> [subvec : [Words -> SUBSET Bits], seq_no : Nat]]]
  /\ left \in [Readers -> [Rows -> SUBSET Words]]

\* Nothing of what p did to row c is still on its way.
Settled(p, c) ==
  \A i \in DOMAIN flight[p] : flight[p][i] # Fence => flight[p][i].row # c

\* A producer whose updates of a row have all landed has its bit in the row
\* exactly if it was the last to set it: neither the order in which its
\* atomics land nor the updates of the other producers undo it.
RowIsMembership ==
  \A p \in Producers, c \in Rows :
    Settled(p, c) => (contains(p, symm_vec[c]) <=> c \in member[p])

\* A copy whose sequence number is still that of the row has missed nothing:
\* it shows every producer whose updates have landed as it is now.  On this
\* a subscriber relies when it skips the copy (hoover.cpp:859).
NoMissedChange ==
  \A r \in Readers, c \in Rows :
    left[r][c] = {} /\ ~Outdated(r, c) =>
      \A p \in Producers :
        Settled(p, c) => (contains(p, copy[r][c].subvec) <=> c \in member[p])

\* Every change of membership reaches every copy: from some point on, all
\* copies show the producers as they ended up.
CopiesCatchUp ==
  <>[](\A r \in Readers, c \in Rows, p \in Producers :
         contains(p, copy[r][c].subvec) <=> c \in member[p])

\* Who has set its bit and not cleared it reads as set, whatever other PEs have
\* set and cleared since: "Still set", as hvr_dist_bitvec_test.c:53 asserts of the
\* PEs that have not cleared theirs after the others have.
StillSet ==
  \A p \in Producers, c \in Rows :
    (\A q \in Producers : Settled(q, c)) /\ c \in member[p]
      => contains(p, symm_vec[c])
=============================================================================
