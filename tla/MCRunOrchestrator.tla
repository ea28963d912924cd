-------------------------- MODULE MCRunOrchestrator --------------------------
(* Instances of RunOrchestrator for TLC. *)
EXTENDS RunOrchestrator

Nobody == {}
First == {1}
Second == {2}
Both == {1, 2}
==============================================================================
