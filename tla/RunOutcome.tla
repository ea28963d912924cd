----------------------------- MODULE RunOutcome -----------------------------
(***************************************************************************)
(* How a run's terminal state is decided (packages/agent-core,             *)
(* run-outcome.ts) and the vocabulary every run module shares.  A terminal *)
(* state is abstracted to the arm of RunTerminalState a reader can tell    *)
(* apart: the three non-failed statuses, a failure the run produced        *)
(* itself, a failure produced by a hard kill ("escalated"), and the        *)
(* failure that says storage did not take the run ("persistence_failed").  *)
(***************************************************************************)

None == "none"

\* What resolveRunOutcome can return.
Verdict == {"completed", "cancelled", "budget_exhausted", "failed", "escalated"}

\* The terminal a run reports when its durable barrier failed.
Degraded == "persistence_failed"

Terminal == Verdict \cup {Degraded}

\* What a terminal EVENT can declare: run.completed carries a status, run.failed
\* an error.
Declared == {"completed", "cancelled", "budget_exhausted", "failed"}

\* The caller's statement about why the run stops.
Intent == SUBSET {"cancel", "escalated"}

\* terminalFromCompletion: a ceiling outranks a stop, a stop outranks a success.
TerminalFromCompletion(declared, intent, exhausted) ==
  IF exhausted \/ declared = "budget_exhausted" THEN "budget_exhausted"
  ELSE IF "cancel" \in intent \/ declared = "cancelled" THEN "cancelled"
  ELSE "completed"

\* No terminal event at all: the verdict is the reason for the silence.
TerminalFromSilence(intent, exhausted) ==
  IF exhausted THEN "budget_exhausted"
  ELSE IF "escalated" \in intent THEN "escalated"
  ELSE IF "cancel" \in intent THEN "cancelled"
  ELSE "failed"

ResolveRunOutcome(declared, intent, exhausted) ==
  CASE declared = "failed"          -> "failed"
    [] declared = None              -> TerminalFromSilence(intent, exhausted)
    [] declared \in Declared \ {"failed"} -> TerminalFromCompletion(declared, intent, exhausted)

\* The event RunSession synthesises for a verdict no event described.
EventOf(verdict) == IF verdict = "escalated" THEN "failed" ELSE verdict
=============================================================================
