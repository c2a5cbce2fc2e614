------------------------------ MODULE Mailbox ------------------------------
(***************************************************************************)
(* hvr_mailbox.cpp: a ring buffer in the symmetric memory of one PE, the   *)
(* owner.  Any PE reserves space by a compare-and-swap on the packed       *)
(* (read, write) indices, puts its message into the reserved space and     *)
(* only then puts the sentinel word in front of it; the owner waits for    *)
(* the sentinel, copies the message out, clears the space and moves the    *)
(* read index.                                                             *)
(*                                                                         *)
(* The unit is the 4-byte word (hvr_mailbox_init and hvr_mailbox_send      *)
(* assert that sizes are multiples of it): a message takes one word for    *)
(* the sentinel, two for its size_t length and its payload words.          *)
(***************************************************************************)
EXTENDS Integers, Sequences, FiniteSets

CONSTANTS
  Senders,      \* the PEs that send to this mailbox
  Owner,        \* the PE that receives from it, possibly one of Senders
  Cap,          \* capacity in words
  Msgs,         \* message names
  Payload,      \* Payload[m]: the words of message m
  Tries,        \* Tries[p]: the max_tries p passes, -1 for "infinitely"
  AbortTries,   \* failed tries after which a sender aborts (10^6 in the code)
  MaxSends      \* BOUND: calls of hvr_mailbox_send by one sender

Clear    == 0                 \* clear_sentinel
Sentinel == 57069             \* 0xdeed
Header   == 3                 \* sentinel word, length (two words)
Full(m)  == Header + Len(Payload[m])

ASSUME MailboxAssumption ==
  /\ Cap \in Nat \ {0}
  /\ Msgs # {} /\ Payload \in [Msgs -> Seq(Nat)]
  /\ \A m \in Msgs : Full(m) < Cap         \* assert(full_msg_len < capacity)
  /\ Tries \in [Senders -> Int]
  /\ AbortTries \in Nat /\ MaxSends \in Nat

Slots == 0 .. Cap - 1
Index == [r : Slots, w : Slots]
NoWrap(i, k) == i + k                    \* mutant: forgets the rotation
At(i, k) == (i + k) % Cap

VARIABLES
  buf,          \* the ring: word at each slot
  indices,      \* the packed read and write index, updated by CAS
  snd,          \* per sender: where it is in hvr_mailbox_send
  flying,       \* sentinel puts issued by each sender and not yet landed
  rcv,          \* the owner: where it is in hvr_mailbox_recv
  curr_val,     \* indices_curr_val: the indices the owner saved last
  resv,         \* history: reservations not yet released, oldest first
  delivered     \* history: payloads returned by hvr_mailbox_recv

sendVars == <<snd, flying>>
recvVars == <<rcv, curr_val, delivered>>
vars == <<buf, indices, snd, flying, rcv, curr_val, resv, delivered>>

used_bytes(x) == IF x.w >= x.r THEN x.w - x.r ELSE x.w + (Cap - x.r)
free_bytes(x) == Cap - used_bytes(x)

RoomToFill(x, m) == free_bytes(x) >= Full(m)            \* mutant: fills the ring
Room(x, m)       == free_bytes(x) > Full(m)

\* Write the words s from slot i on, around the end of the ring.
put_in_mailbox(i, s) ==
  [k \in Slots |-> LET d == (k - i) % Cap
                   IN  IF d < Len(s) THEN s[d + 1] ELSE buf[k]]
get_from_mailbox(i, n) == [k \in 1 .. n |-> buf[At(i, k - 1)]]
OnlyPayloadZeros(n) == [k \in 1 .. n - 2 |-> Clear]      \* mutant: leaves the length
Zeros(n) == [k \in 1 .. n |-> Clear]

SenderPC == {"idle", "try", "len", "body", "sentinel", "aborted"}
SendState == [pc : SenderPC, msg : Msgs, old : Index, tries : Nat, start : Slots,
              calls : Nat]
OwnerPC  == {"idle", "wait", "clear", "unmark", "advance"}

Init ==
  /\ buf = [i \in Slots |-> Clear]
  /\ indices = [r |-> 0, w |-> 0]
  /\ snd = [p \in Senders |-> [pc |-> "idle", msg |-> CHOOSE m \in Msgs : TRUE,
                               old |-> indices, tries |-> 0, start |-> 0, calls |-> 0]]
  /\ flying = [p \in Senders |-> {}]
  /\ rcv = [pc |-> "idle", curr |-> indices, msg |-> <<>>]
  /\ curr_val = indices
  /\ resv = <<>>
  /\ delivered = <<>>

(***************************************************************************)
(* hvr_mailbox_send.  The owner runs one call at a time: it does not send  *)
(* in the middle of a receive, nor receive in the middle of a send.        *)
(***************************************************************************)
MaySend(p)  == p = Owner => rcv.pc = "idle"
OwnerIsFree == Owner \in Senders => snd[Owner].pc = "idle"

SendStart(p, m) ==
  /\ snd[p].pc = "idle" /\ MaySend(p)
  /\ snd[p].calls < MaxSends
  /\ snd' = [snd EXCEPT ![p] = [@ EXCEPT !.pc = "try", !.msg = m, !.old = indices,
                                         !.tries = 0, !.calls = snd[p].calls + 1]]
  /\ UNCHANGED <<buf, indices, flying, recvVars, resv>>

MoreTries(p) == Tries[p] < 0 \/ snd[p].tries < Tries[p]
Trying(p) == snd[p].pc = "try" /\ MoreTries(p) /\ snd[p].tries <= AbortTries

\* Room according to the indices last seen, and they are still current.
SendReserve(p) ==
  LET x == snd[p].old  IN
  /\ Trying(p) /\ Room(x, snd[p].msg)
  /\ indices = x
  /\ indices' = [x EXCEPT !.w = At(x.w, Full(snd[p].msg))]
  /\ snd' = [snd EXCEPT ![p] = [@ EXCEPT !.pc = "len", !.start = x.w]]
  /\ resv' = Append(resv, [from |-> p, msg |-> snd[p].msg, start |-> x.w])
  /\ UNCHANGED <<buf, flying, recvVars>>

\* A failed compare-and-swap returns the current indices; without room they
\* are fetched again.  Either way one try is spent.
SendRetry(p) ==
  /\ Trying(p)
  /\ Room(snd[p].old, snd[p].msg) => indices # snd[p].old
  /\ snd' = [snd EXCEPT ![p] = [@ EXCEPT !.old = indices, !.tries = snd[p].tries + 1]]
  /\ UNCHANGED <<buf, indices, flying, recvVars, resv>>

SendFail(p) ==              \* return 0
  /\ snd[p].pc = "try" /\ ~MoreTries(p)
  /\ snd' = [snd EXCEPT ![p].pc = "idle"]
  /\ UNCHANGED <<buf, indices, flying, recvVars, resv>>

SendAbort(p) ==             \* abort()
  /\ snd[p].pc = "try" /\ MoreTries(p) /\ snd[p].tries > AbortTries
  /\ snd' = [snd EXCEPT ![p].pc = "aborted"]
  /\ UNCHANGED <<buf, indices, flying, recvVars, resv>>

SendLenAndSentinel(p) ==    \* mutant: the sentinel is put before the quiet
  /\ snd[p].pc = "len" /\ flying[p] = {}
  /\ buf' = put_in_mailbox(At(snd[p].start, 1), <<Len(Payload[snd[p].msg]), 0>>)
  /\ flying' = [flying EXCEPT ![p] = {snd[p].start}]
  /\ snd' = [snd EXCEPT ![p].pc = "body"]
  /\ UNCHANGED <<indices, recvVars, resv>>

SendLen(p) ==
  /\ snd[p].pc = "len"
  /\ buf' = put_in_mailbox(At(snd[p].start, 1), <<Len(Payload[snd[p].msg]), 0>>)
  /\ snd' = [snd EXCEPT ![p].pc = "body"]
  /\ UNCHANGED <<indices, flying, recvVars, resv>>

SendBody(p) ==
  /\ snd[p].pc = "body"
  /\ buf' = put_in_mailbox(At(snd[p].start, Header), Payload[snd[p].msg])
  /\ snd' = [snd EXCEPT ![p].pc = "sentinel"]
  /\ UNCHANGED <<indices, flying, recvVars, resv>>

\* shmem_quiet waits for every earlier put of p, the sentinel of its last
\* message included; the new sentinel put is left in flight (return 1).
SendSentinel(p) ==
  /\ snd[p].pc = "sentinel" /\ flying[p] = {}
  /\ flying' = [flying EXCEPT ![p] = {snd[p].start}]
  /\ snd' = [snd EXCEPT ![p].pc = "idle"]
  /\ UNCHANGED <<buf, indices, recvVars, resv>>

SentinelLands(p) ==
  /\ \E i \in flying[p] : /\ buf' = put_in_mailbox(i, <<Sentinel>>)
                          /\ flying' = [flying EXCEPT ![p] = @ \ {i}]
  /\ UNCHANGED <<indices, snd, recvVars, resv>>

(***************************************************************************)
(* hvr_mailbox_recv, run by the owner only.                                *)
(***************************************************************************)
\* The saved indices are trusted while they show a pending message.
RecvIndices == IF used_bytes(curr_val) > 0 THEN curr_val ELSE indices

PendingIfAdvanced == indices.w > RecvIndices.r          \* mutant: forgets the wrap
Pending == RecvIndices # curr_val \/ used_bytes(curr_val) > 0

RecvPoll ==
  /\ rcv.pc = "idle" /\ OwnerIsFree /\ Pending
  /\ rcv' = [rcv EXCEPT !.pc = "wait", !.curr = RecvIndices]
  /\ UNCHANGED <<buf, indices, sendVars, curr_val, resv, delivered>>

RecvNothing ==              \* return 0
  /\ rcv.pc = "idle" /\ OwnerIsFree /\ ~Pending
  /\ UNCHANGED vars

RecvCopy ==
  LET i == rcv.curr.r  IN
  /\ rcv.pc = "wait" /\ buf[i] = Sentinel
  /\ rcv' = [rcv EXCEPT !.pc = "clear",
                        !.msg = get_from_mailbox(At(i, Header), buf[At(i, 1)])]
  /\ UNCHANGED <<buf, indices, sendVars, curr_val, resv, delivered>>

RecvClear ==
  /\ rcv.pc = "clear"
  /\ buf' = put_in_mailbox(At(rcv.curr.r, 1), Zeros(2 + Len(rcv.msg)))
  /\ rcv' = [rcv EXCEPT !.pc = "unmark"]
  /\ UNCHANGED <<indices, sendVars, curr_val, resv, delivered>>

RecvUnmark ==
  /\ rcv.pc = "unmark"
  /\ buf' = put_in_mailbox(rcv.curr.r, <<Clear>>)
  /\ rcv' = [rcv EXCEPT !.pc = "advance"]
  /\ UNCHANGED <<indices, sendVars, curr_val, resv, delivered>>

RecvAdvance ==
  /\ rcv.pc = "advance" /\ indices = rcv.curr
  /\ indices' = [rcv.curr EXCEPT !.r = At(@, Header + Len(rcv.msg))]
  /\ curr_val' = indices'
  /\ delivered' = Append(delivered, rcv.msg)
  /\ resv' = SubSeq(resv, 2, Len(resv))
  /\ rcv' = [rcv EXCEPT !.pc = "idle"]
  /\ UNCHANGED <<buf, sendVars>>

RecvAdvanceRetry ==
  /\ rcv.pc = "advance" /\ indices # rcv.curr
  /\ rcv' = [rcv EXCEPT !.curr = indices]
  /\ UNCHANGED <<buf, indices, sendVars, curr_val, resv, delivered>>

----------------------------------------------------------------------------
Put(p) == SendLen(p) \/ SendBody(p) \/ SendSentinel(p)
Send(p) == \/ \E m \in Msgs : SendStart(p, m)
           \/ SendReserve(p) \/ SendRetry(p) \/ SendFail(p) \/ SendAbort(p)
           \/ Put(p) \/ SentinelLands(p)
Recv == \/ RecvPoll \/ RecvNothing \/ RecvCopy \/ RecvClear \/ RecvUnmark
        \/ RecvAdvance \/ RecvAdvanceRetry

Next == (\E p \in Senders : Send(p)) \/ Recv

\* A PE inside a call keeps running, its puts complete, and the owner polls
\* its mailboxes in every time step.  Nothing obliges a PE to call send.
Fairness ==
  /\ \A p \in Senders : /\ WF_vars(SendReserve(p) \/ SendRetry(p) \/ SendFail(p)
                                                  \/ SendAbort(p))
                        /\ WF_vars(Put(p))
                        /\ WF_vars(SentinelLands(p))
  /\ WF_vars(Recv)

SafeSpec == Init /\ [][Next]_vars
Spec == SafeSpec /\ Fairness
----------------------------------------------------------------------------
(* Properties *)

\* Type correctness of the ring, the indices and the local state of both sides.
TypeOK ==
  /\ buf \in [Slots -> Nat]
  /\ indices \in Index
  /\ snd \in [Senders -> SendState]
  /\ flying \in [Senders -> SUBSET Slots]
  /\ rcv \in [pc : OwnerPC, curr : Index, msg : Seq(Nat)]
  /\ curr_val \in Index
  /\ resv \in Seq([from : Senders, msg : Msgs, start : Slots])
  /\ delivered \in Seq(Seq(Nat))

Region(e) == {At(e.start, k) : k \in 0 .. Full(e.msg) - 1}
Reserved == UNION {Region(resv[i]) : i \in DOMAIN resv}

\* While the owner is in a receive, the message it works on is the oldest
\* reservation: the asserts used > 0 and read_index == this_read_index hold,
\* whatever was appended after it saved the indices.
OwnerAtOldest ==
  rcv.pc # "idle" => /\ resv # <<>>
                     /\ used_bytes(rcv.curr) > 0
                     /\ rcv.curr.r = indices.r /\ rcv.curr.r = resv[1].start

\* The reservations tile the ring from the read to the write index without
\* overlap, so no two senders ever write the same word, however their
\* compare-and-swaps on stale indices interleave with the owner's
\* (hvr_mailbox_send's CAS loop and the strict free_bytes > full_msg_len); and
\* the owner is at the first of them.
ReservationsTile ==
  /\ \A i \in DOMAIN resv :
       resv[i].start = IF i = 1 THEN indices.r
                       ELSE At(resv[i - 1].start, Full(resv[i - 1].msg))
  /\ indices.w = IF resv = <<>> THEN indices.r
                 ELSE At(resv[Len(resv)].start, Full(resv[Len(resv)].msg))
  /\ \A i, j \in DOMAIN resv : i # j => Region(resv[i]) \cap Region(resv[j]) = {}
  /\ OwnerAtOldest

\* Every word outside the reserved space is clear.  This is what lets the
\* owner take any nonzero sentinel word for a completed message, although
\* payloads may contain the sentinel value (clear_mailbox_with_rotation).
FreeSpaceIsClear == \A i \in Slots \ Reserved : buf[i] = Clear

\* An entry is open until its sender's sentinel has landed.
Open(e) == \E p \in Senders :
              \/ snd[p].pc \in {"len", "body", "sentinel"} /\ snd[p].start = e.start
              \/ e.start \in flying[p]
Queue == [i \in DOMAIN resv |->
            [from |-> resv[i].from, msg |-> Payload[resv[i].msg],
             ready |-> ~Open(resv[i])]]

\* The mailbox implements the channel: whole messages, each once, in the order
\* of reservation, and none stuck behind a finished send.
Abstract == INSTANCE Channel WITH Contents <- {Payload[m] : m \in Msgs}, queue <- Queue
ImplementsChannel == Abstract!Spec

\* Every message that got its space is received: the n-th reservation leads to
\* the n-th delivery (hvr_mailbox_recv is never stuck on a sentinel).
ReservedIsDelivered ==
  \A n \in 1 .. MaxSends * Cardinality(Senders) :
     (Len(resv) + Len(delivered) >= n) ~> (Len(delivered) >= n)
============================================================================
