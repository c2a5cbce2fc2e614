--------------------------- MODULE MCDistBitvec ---------------------------
(* Instances of DistBitvec for TLC: words of four bits and bit indices       *)
(* modulo two stand for the 64 and 32 of the code.                           *)
EXTENDS DistBitvec

TwoWords == {0, 1, 4}   \* producers that share no bit, in two words
OneReader == {2}
=============================================================================
