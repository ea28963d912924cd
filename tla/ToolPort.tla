------------------------------ MODULE ToolPort ------------------------------
(***************************************************************************)
(* What a run's engine is promised by the tool calls of a turn, through    *)
(* TurnPipelinePublisher (packages/agent-runtime/src/tools): a turn's      *)
(* publication is queued to, drained at most once, and discarded at most   *)
(* once; its drain answers no call twice, and ends with a call unanswered  *)
(* only in an interrupted run.  ToolExecutor implements it, RunEngine      *)
(* drives it.                                                              *)
(***************************************************************************)
CONSTANT Id

VARIABLES
  asked,      \* the calls queued on the published turn
  answered,   \* the calls the drain has answered
  stage,      \* of the publication; "none" before the first
  cut         \* the run's abort signal

port == <<asked, answered, stage, cut>>

TypeOK ==
  /\ asked \subseteq Id /\ answered \subseteq Id
  /\ stage \in {"none", "open", "draining", "ended", "discarded"}
  /\ cut \in BOOLEAN

Init ==
  /\ asked = {} /\ answered = {} /\ stage \in {"none", "open"}
  /\ cut = FALSE

\* isUsable, of a publication there is.
Usable == stage \in {"open", "draining", "ended"}

\* publish: the next turn's pipeline supersedes this one.
Publish ==
  /\ asked' = {} /\ answered' = {} /\ stage' = "open"
  /\ UNCHANGED cut

\* queue, before the drain.
Queue(i) ==
  /\ stage = "open" /\ i \notin asked
  /\ asked' = asked \cup {i}
  /\ UNCHANGED <<answered, stage, cut>>

\* drain, once; calls that cannot run are answered at its start.
Drain(refused) ==
  /\ stage = "open" /\ refused \subseteq asked
  /\ stage' = "draining"
  /\ answered' = refused
  /\ UNCHANGED <<asked, cut>>

Answer(i) ==
  /\ stage = "draining" /\ i \in asked \ answered
  /\ answered' = answered \cup {i}
  /\ UNCHANGED <<asked, stage, cut>>

\* The drain is exhausted.
End ==
  /\ stage = "draining" /\ (cut \/ answered = asked)
  /\ stage' = "ended"
  /\ UNCHANGED <<asked, answered, cut>>

\* discard: what is queued is dropped.
Discard ==
  /\ Usable
  /\ stage' = "discarded"
  /\ asked' = IF stage = "open" THEN {} ELSE asked
  /\ UNCHANGED <<answered, cut>>

Interrupt ==
  /\ ~cut /\ cut' = TRUE
  /\ UNCHANGED <<asked, answered, stage>>

Next ==
  \/ Publish \/ End \/ Discard \/ Interrupt
  \/ \E i \in Id : Queue(i) \/ Answer(i)
  \/ \E refused \in SUBSET Id : Drain(refused)

Spec == Init /\ [][Next]_port
=============================================================================
