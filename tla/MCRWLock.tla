------------------------------ MODULE MCRWLock ------------------------------
(* Small instances of RWLock: every PE may read and write, again and again.  *)
EXTENDS RWLock
=============================================================================
