----------------------------- MODULE MCMailbox -----------------------------
(* Small instances of Mailbox: payloads of one and two words, the first of  *)
(* which is the sentinel value itself, in a ring too small for two of the   *)
(* longer ones, so that every offset of a message wraps around the end.     *)
EXTENDS Mailbox, TLC

CONSTANTS s1, s2, m1, m2

MCPayload == (m1 :> <<Sentinel>>) @@ (m2 :> <<7, Sentinel>>)
MCTries   == (s1 :> 2) @@ (s2 :> -1)
============================================================================
