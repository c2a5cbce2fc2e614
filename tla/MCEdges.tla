------------------------------ MODULE MCEdges ------------------------------
(* Instances of EdgeDistance: vertices on a line, neighbors have an edge.    *)
EXTENDS EdgeDistance

TwoParts(at) == at \div 2
Both(p)      == <<0, 1>>

\* Neighbors on the line have an edge, directed up the line, so that it turns when
\* one passes the other.
Near(u, at, v, there) ==
  CASE u = v \/ at - there \notin -1 .. 1 -> NO_EDGE
    [] at = there -> BIDIRECTIONAL
    [] at < there -> DIRECTED_OUT
    [] at > there -> DIRECTED_IN

Cast(in, moving, leaving) == [in |-> in, moving |-> moving, leaving |-> leaving]
StayOrMove == {Cast(C, {}, C \cap Mirrors) : C \in {{1, 2, 3, 4}, {1, 3, 4, 5}}} \cup
              {Cast(C, C, C \cap Mirrors) : C \in {{1, 2, 3}, {1, 3, 4}}}
=============================================================================
