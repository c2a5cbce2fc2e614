------------------------------ MODULE Channel ------------------------------
(***************************************************************************)
(* What one hvr_mailbox_t promises to the runtime: a channel from many     *)
(* sending PEs to the PE that owns the mailbox.  A sender first claims a   *)
(* place in the channel and publishes its message later; the owner         *)
(* receives messages whole, once, and in the order of the claims, however  *)
(* the publications are reordered.                                         *)
(***************************************************************************)
EXTENDS Naturals, Sequences

CONSTANTS Senders, Contents

VARIABLES queue,      \* claimed places: [from, msg, ready], oldest first
          delivered   \* the contents handed to the owner so far

vars == <<queue, delivered>>

Entry == [from : Senders, msg : Contents, ready : BOOLEAN]

Init == queue = <<>> /\ delivered = <<>>

Claim(p, m) ==
  /\ queue' = Append(queue, [from |-> p, msg |-> m, ready |-> FALSE])
  /\ UNCHANGED delivered

\* A sender's claims become ready in the order it made them.
OldestOpen(p, i) ==
  /\ queue[i].from = p /\ ~queue[i].ready
  /\ \A j \in 1 .. i - 1 : queue[j].from = p => queue[j].ready

Publish(p) ==
  /\ \E i \in DOMAIN queue :
       OldestOpen(p, i) /\ queue' = [queue EXCEPT ![i].ready = TRUE]
  /\ UNCHANGED delivered

\* Only the oldest claim is delivered: a slow sender holds up the others.
Deliver ==
  /\ queue # <<>> /\ Head(queue).ready
  /\ delivered' = Append(delivered, Head(queue).msg)
  /\ queue' = Tail(queue)

Next == \/ \E p \in Senders, m \in Contents : Claim(p, m)
        \/ \E p \in Senders : Publish(p)
        \/ Deliver

SafeSpec == Init /\ [][Next]_vars

Spec == /\ SafeSpec
        /\ \A p \in Senders : WF_vars(Publish(p))
        /\ WF_vars(Deliver)
============================================================================
