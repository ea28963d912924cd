----------------------------- MODULE MCRunStore -----------------------------
(* Instances of RunStore for TLC. *)
EXTENDS RunStore, TLC

\* What the engine and the host propose: a completion with its stop reason, one
\* the host decided without it, and a failure.
EngineTerminals ==
  {[status |-> "completed", detail |-> "end_turn"], [status |-> "completed", detail |-> None],
   [status |-> "failed", detail |-> "internal"]}

WriterSymmetry == Permutations(Writers)
=============================================================================
