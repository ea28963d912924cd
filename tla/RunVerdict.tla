----------------------------- MODULE RunVerdict -----------------------------
(***************************************************************************)
(* What a run promises its host about its ending, whatever the machinery   *)
(* that delivers it: one verdict is decided, the run row is written at     *)
(* most once, and the terminal that is published is the one the row holds  *)
(* -- or the explicit admission that storage did not take it.              *)
(***************************************************************************)
EXTENDS RunOutcome

VARIABLES decided,    \* the verdict, None until the run is being settled
          row,        \* runs.terminal: None while the row says 'running'
          terminal    \* what terminal$ resolved to, None until it did

vars == <<decided, row, terminal>>

Init == decided = None /\ row = None /\ terminal = None

\* A verdict is chosen once.
Decide ==
  /\ decided = None
  /\ decided' \in Verdict
  /\ UNCHANGED <<row, terminal>>

\* The row is written once, by this run or by another writer of the same row.
WriteRow ==
  /\ row = None
  /\ row' \in Terminal
  /\ UNCHANGED <<decided, terminal>>

\* The barrier answered: the published terminal is the durable verdict.
PublishDurable ==
  /\ terminal = None
  /\ decided # None
  /\ row = decided
  /\ terminal' = decided
  /\ UNCHANGED <<decided, row>>

\* The barrier failed, and the run says so.
PublishDegraded ==
  /\ terminal = None
  /\ decided # None
  /\ terminal' = Degraded
  /\ UNCHANGED <<decided, row>>

Next == Decide \/ WriteRow \/ PublishDurable \/ PublishDegraded

Spec == Init /\ [][Next]_vars
=============================================================================
