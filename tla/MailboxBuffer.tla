----------------------------- MODULE MailboxBuffer -----------------------------
(***************************************************************************)
(* Two PEs that send each other vertex updates and vertex subscriptions    *)
(* through buffers (src/hvr_mailbox_buffer.cpp) into mailboxes that fill   *)
(* up.  A PE that finds the other's mailbox full receives, from inside the *)
(* send, what others have sent it, and handling that may send in turn      *)
(* (src/hoover.cpp).  So a PE has a stack of things to do, the innermost   *)
(* first; w is the state of both PEs.                                      *)
(***************************************************************************)
EXTENDS Integers, Sequences

CONSTANTS
  buffer_size_per_pe,
  MailboxBatches,         \* how many messages of a mailbox buffer a mailbox holds
  MAX_MSGS_DRAINED

ASSUME BufferAssumption == buffer_size_per_pe \in Nat \ {0} /\ MailboxBatches \in Nat \ {0}

Sorts == {"update", "sub"}
Two == {1, 2}
OtherOf(p) == 3 - p
NoLimit == -1

\* left: how many messages of each sort each PE may yet send of its own accord.
two_pes(left) ==
  [p \in Two |->
     [buffers |-> [s \in Sorts |-> <<>>], nbuffered |-> [s \in Sorts |-> 0],
      mailbox |-> [s \in Sorts |-> <<>>], overtaken |-> FALSE,
      todo |-> <<>>, sent |-> [s \in Sorts |-> 0], left |-> left[p],
      got |-> [s \in Sorts |-> {}], may_end |-> FALSE, exited |-> FALSE,
      knows_exit |-> FALSE]]

(* What there is to do *)

Send(s) == [do |-> "send", sort |-> s]
\* A flush remembers how many messages it began with; 0 when it has yet to begin.
Flush(s, n) == [do |-> "flush", sort |-> s, n |-> n]
Poll == [do |-> "poll", sort |-> "dead"]
\* One message of a batch, and batches as long as there are any, max at most; what
\* the loop over subscriptions does at its limit is in ExplicitEdges.
Handle(s, msg) == [do |-> "handle", sort |-> s, msg |-> msg]
Receive(s, max) == [do |-> "receive", sort |-> s, max |-> max]

Then(p, items, w) == [w EXCEPT ![p].todo = items \o Tail(@)]
Before(p, items, w) == [w EXCEPT ![p].todo = items \o @]

\* hvr_mailbox_send of the first n messages in the memory of the buffer
HasRoom(p, s, w) == Len(w[OtherOf(p)].mailbox[s]) < MailboxBatches
Post(p, s, n, w) ==
  [w EXCEPT ![OtherOf(p)].mailbox[s] = Append(@, SubSeq(w[p].buffers[s], 1, n)),
            ![p].nbuffered[s] = 0]

\* handle_dead_msg, once the other has told all PEs that it has terminated
poll_for_dead_pes(p, w) == [w EXCEPT ![p].knows_exit = w[OtherOf(p)].exited]

\* hvr_mailbox_buffer_send; without room it returns 0.
IsStuck(p, s, w) == w[p].nbuffered[s] = buffer_size_per_pe /\ ~HasRoom(p, s, w)
hvr_mailbox_buffer_send(p, s, w) ==
  LET n       == w[p].nbuffered[s]
      flushed == IF n = buffer_size_per_pe THEN Post(p, s, n, w) ELSE w
      number  == w[p].sent[s] + 1
      slot    == flushed[p].nbuffered[s] + 1
  IN [flushed EXCEPT ![p].buffers[s] = SubSeq(@, 1, slot - 1) \o <<number>>
                                         \o SubSeq(@, slot + 1, Len(@)),
                     ![p].nbuffered[s] = slot, ![p].sent[s] = number]

\* Between two tries a PE receives updates, then looks for the dead.
Drain == <<Receive("update", MAX_MSGS_DRAINED), Poll>>

send_to_vertex_update_mailbox(p, w) ==
  IF w[p].knows_exit THEN Then(p, <<>>, w)
  ELSE IF IsStuck(p, "update", w) THEN Before(p, Drain, w)
  ELSE Then(p, <<>>, hvr_mailbox_buffer_send(p, "update", w))

\* The end of set_up_vertex_subscription: a PE that is stuck serves subscriptions,
\* and does not learn that the owner is gone.
send_vertex_subscription(p, w) ==
  IF IsStuck(p, "sub", w) THEN Before(p, <<Receive("sub", 100)>>, w)
  ELSE Then(p, <<>>, hvr_mailbox_buffer_send(p, "sub", w))

\* hvr_mailbox_buffer_flush: done with the buffer, whatever has been put in it or
\* sent since the flush began; overtaken remembers that there was such a thing.
EndFlush(p, s, n, w) ==
  Then(p, <<>>, [w EXCEPT ![p].nbuffered[s] = 0,
                          ![p].overtaken = @ \/ n # w[p].nbuffered[s]])
FlushSent(p, s, n, w) ==
  LET ended == EndFlush(p, s, n, w) IN [Post(p, s, n, w) EXCEPT ![p] = ended[p]]

\* process_vertex_updates_cb drains between two tries, and has the flush give up
\* after one more try.
flush_updates(p, began, w) ==
  LET n == IF began = 0 THEN w[p].nbuffered["update"] ELSE began
  IN IF n = 0 THEN Then(p, <<>>, w)
     ELSE IF HasRoom(p, "update", w) THEN FlushSent(p, "update", n, w)
     ELSE IF began # 0 /\ w[p].knows_exit THEN EndFlush(p, "update", n, w)
     ELSE Then(p, Drain \o <<Flush("update", n)>>, w)

\* Without a callback the flush just tries again.
flush_subscriptions(p, w) ==
  LET n == w[p].nbuffered["sub"]
  IN IF n = 0 THEN Then(p, <<>>, w)
     ELSE IF HasRoom(p, "sub", w) THEN FlushSent(p, "sub", n, w)
     ELSE w

\* process_vertex_updates, process_vertex_subscriptions: batch by batch
receive(p, s, max, w) ==
  IF w[p].mailbox[s] = <<>> THEN Then(p, <<>>, w)
  ELSE LET batch == Head(w[p].mailbox[s])
           again == IF max = NoLimit THEN <<Receive(s, max)>>
                    ELSE IF max = 1 THEN <<>> ELSE <<Receive(s, max - 1)>>
       IN Then(p, [i \in 1 .. Len(batch) |-> Handle(s, batch[i])] \o again,
               [w EXCEPT ![p].mailbox[s] = Tail(@)])

\* A subscription is answered; an update, when it is an edge, may need one.
handle(p, s, msg, needs_sub, w) ==
  Then(p, CASE s = "sub" -> <<Send("update")>>
            [] needs_sub -> <<Send("sub")>>
            [] OTHER -> <<>>,
       [w EXCEPT ![p].got[s] = @ \cup {msg}, ![p].left["sub"] = @ - IF needs_sub THEN 1 ELSE 0])

(* The steps of a PE: each set is of the states it may lead to *)

\* Callbacks make own sends; then the phases of the iteration; then maybe the end.
NextPhase(p, w) ==
  {[w EXCEPT ![p].todo = <<Send(s)>>, ![p].left[s] = @ - 1, ![p].may_end = FALSE] :
     s \in {x \in Sorts : w[p].left[x] > 0}}
  \cup
  {[w EXCEPT ![p].todo = <<Flush("update", 0), Receive("sub", NoLimit),
                           Flush("sub", 0), Receive("update", NoLimit), Poll>>,
             ![p].may_end = TRUE]}
  \cup (IF w[p].may_end THEN {[w EXCEPT ![p].exited = TRUE]} ELSE {})

Step(p, w) ==
  IF w[p].exited THEN {}
  ELSE IF w[p].todo = <<>> THEN NextPhase(p, w)
  ELSE LET item == Head(w[p].todo)
           s == item.sort
       IN CASE item.do = "send" -> {IF s = "update" THEN send_to_vertex_update_mailbox(p, w)
                                    ELSE send_vertex_subscription(p, w)}
            [] item.do = "flush" -> {IF s = "update" THEN flush_updates(p, item.n, w)
                                     ELSE flush_subscriptions(p, w)}
            [] item.do = "poll" -> {Then(p, <<>>, poll_for_dead_pes(p, w))}
            [] item.do = "receive" -> {receive(p, s, item.max, w)}
            [] item.do = "handle" -> {handle(p, s, item.msg, b, w) : b \in
                 IF s = "update" /\ w[p].left["sub"] > 0 THEN BOOLEAN ELSE {FALSE}}
=============================================================================
