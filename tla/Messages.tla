------------------------------- MODULE Messages -------------------------------
(***************************************************************************)
(* Messages between vertices on the side of the PE they are for            *)
(* (src/hoover.cpp): the mailbox they arrive in, the stacks they wait in,  *)
(* one per vertex, and the flags that give a vertex its turn.  ctx has     *)
(* what of the context this touches; the vertices are listed in the order  *)
(* of the iterator, and in_hand is the one update_metadata was called on.  *)
(***************************************************************************)
EXTENDS Pools

Nobody == 0
Outside == 0                  \* of update_vertices

hvr_ctx(n_vertices, n_nodes) ==
  [vertex_msg_mailbox |-> <<>>, needs_processing |-> [i \in 1 .. n_vertices |-> FALSE],
   any_needs_processing |-> TRUE, iter |-> Outside, in_hand |-> Nobody]
  @@ hvr_buffered_msgs_init(1 .. n_vertices, n_nodes)

mark_for_processing(i, ctx) ==
  [ctx EXCEPT !.needs_processing[i] = TRUE, !.any_needs_processing = TRUE]

\* hvr_send_msg to a vertex of this PE; the insertion aborts when memory is out.
\* A slip for the mutants: the receiver is left as it is.
send_unmarked(dst, payload, ctx) == hvr_buffered_msgs_insert(dst, payload, ctx)
hvr_send_msg(dst, payload, ctx) ==
  LET inserted == hvr_buffered_msgs_insert(dst, payload, ctx)
  IN IF inserted.aborted THEN inserted ELSE mark_for_processing(dst, inserted)

\* hvr_send_msg on another PE
Arrived(dst, payload, ctx) ==
  [ctx EXCEPT !.vertex_msg_mailbox = Append(@, [dst |-> dst, payload |-> payload])]

\* hvr_poll_msg, of the vertex in hand, which has a message
hvr_poll_msg(ctx) == hvr_buffered_msgs_poll(ctx.in_hand, ctx)

process_incoming_messages(ctx) ==
  LET received == ctx.vertex_msg_mailbox
      After[k \in 0 .. Len(received)] ==
        IF k = 0 THEN [ctx EXCEPT !.vertex_msg_mailbox = <<>>]
        ELSE IF After[k - 1].aborted THEN After[k - 1]
        ELSE hvr_send_msg(received[k].dst, received[k].payload, After[k - 1])
  IN After[Len(received)]

(* update_vertices *)

BeginUpdates(ctx) ==
  IF ~ctx.any_needs_processing THEN ctx
  ELSE [ctx EXCEPT !.any_needs_processing = FALSE, !.iter = 1]

\* The iterator's next vertex is called if it is flagged, and the flag dropped first.
NextVertex(ctx) ==
  LET moved == [ctx EXCEPT !.iter = @ + 1]
  IN IF ~ctx.needs_processing[ctx.iter] THEN moved
     ELSE [moved EXCEPT !.needs_processing[ctx.iter] = FALSE, !.in_hand = ctx.iter]

EndCallback(ctx) == [ctx EXCEPT !.in_hand = Nobody]

EndUpdates(ctx) == [ctx EXCEPT !.iter = Outside]
=============================================================================
