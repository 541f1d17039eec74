----------------------------- MODULE MCRecovery -----------------------------
(***************************************************************************)
(* Recovery on a small instance: one match thread, two buckets, the        *)
(* entries of the stream alternating between them.                         *)
(***************************************************************************)
EXTENDS Recovery

CONSTANTS w1

HomeInTwo == [i \in Id |-> i % 2]
=============================================================================
