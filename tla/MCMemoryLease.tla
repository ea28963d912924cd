---------------------------- MODULE MCMemoryLease ----------------------------
(* An instance of MemoryLease for TLC. *)
EXTENDS MemoryLease

BackoffTicks == <<1, 2>>
=============================================================================
