------------------------------ MODULE MCVertices ------------------------------
(* A cache of a few slots for own vertices and mirrors in two partitions.      *)
EXTENDS Vertices, TLC

\* The partitions of a PE differ in nothing but their numbers.
AnyPartition == Permutations(Parts)
=============================================================================
