-------------------------- MODULE MCRunController --------------------------
(* Instances of RunController for TLC: one user beside the budget and the timer. *)
EXTENDS RunController

=============================================================================
