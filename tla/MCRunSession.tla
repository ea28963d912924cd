---------------------------- MODULE MCRunSession ----------------------------
(* Instances of RunSession for TLC. *)
EXTENDS RunSession

=============================================================================
