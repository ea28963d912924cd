-------------------------- MODULE RunEngineProofs --------------------------
(***************************************************************************)
(* A run of the engine keeps its promises for every set of calls and every *)
(* bound.                                                                  *)
(***************************************************************************)
EXTENDS RunEngine, TLAPS

USE EngineAssumption, NoneAssumption
USE DEF None, vars, loop, calls, ends, port, Awaits, Over, Exits, Leave, ThrownExit,
  DiscardAndLeave

\* Where a turn has still to begin, or may be followed by another.
Heads == {"starting", "top", "vetting", "polling", "repolling"}

Turns ==
  /\ turn \in 0 .. Ceiling
  /\ pc \in Heads => turn < Ceiling
  /\ pc \in Awaits \ {"starting", "top"} => turn > 0

\* The call at hand.
At ==
  /\ pc \in {"authorizing", "beginning", "begun", "settling"} => now \in Id
  /\ pc \in {"authorizing", "beginning"} => shown[now] = "none"
  /\ pc = "begun" => shown[now] = "started"
  /\ pc = "settling" => now \in asked

\* A call's row and its events go together.
RowsAgree ==
  \A i \in Id : /\ ledger[i] = "dispatched" <=> shown[i] = "started"
                /\ ledger[i] = "settled" => shown[i] = "completed"

Asking == {"streaming", "authorizing", "beginning", "begun"}
Requesting == {"compacting", "sweeping", "requesting", "emergency", "retrying"} \cup Asking
Draining == {"draining", "settling"}

\* The publication, at each step of the turn.
Publication ==
  /\ answered \subseteq asked /\ \A i \in asked : ledger[i] # "none"
  /\ stage = "open" => answered = {}
  /\ pc \in Requesting => stage \in {"open", "discarded"}
  /\ pc \in Draining => stage = "draining"
  /\ pc \in Requesting \cup Draining => asked \subseteq touched

\* Where a call may be without its result: it is in the publication, or at hand,
\* or the publication was discarded, from which no way leads to another turn.
Missing ==
  \A i \in Id : shown[i] = "started" =>
    \/ pc \in Asking /\ stage = "open" /\ i \in asked
    \/ pc \in Asking /\ stage = "discarded" /\ touched # {}
    \/ pc = "begun" /\ i = now
    \/ pc \in Draining /\ i \in asked \ answered
    \/ pc = "settling" /\ i = now
    \/ pc \in {"emergency", "retrying"} /\ stage = "discarded"
    \/ pc = "turned" /\ cut
    \/ pc \in Over /\ exit \in {None, "cancelled", "failed", "budget_exhausted"}

Answering ==
  Asking \cup Draining \cup {"turned", "deciding", "vetting", "polling", "repolling", "committing"}

\* A result the model has not read is work of the turn, and a turn that did work
\* is not the last.
Unread ==
  /\ pc = "starting" => unread = {}
  /\ pc \in Answering /\ "result" \in unread => touched # {}
  /\ pc \in {"polling", "repolling", "committing"} => touched = {}
  /\ exit = "completed" => "result" \notin unread

Left == (exit # None => pc \in Over) /\ (pc = "dead" \/ pc \in Awaits \/ exit # None)

IInv ==
  TypeOK /\ Turns /\ At /\ RowsAgree /\ Publication /\ Missing /\ Unread /\ Left
-----------------------------------------------------------------------------
\* A run starts with nothing asked, shown or recorded.
LEMMA Initially == Init => IInv
<1> USE DEF Init, TypeOK, Tools!TypeOK, Heads, Asking, Requesting, Draining, Answering
<1> SUFFICES ASSUME Init PROVE IInv OBVIOUS
<1>1. TypeOK
  <2>1. shown \in [Id -> {"none", "started", "completed"}]
        /\ ledger \in [Id -> {"none", "dispatched", "settled"}] OBVIOUS
  <2>2. unread \subseteq {"result", "message"} /\ touched \subseteq Id /\ Tools!TypeOK OBVIOUS
  <2>3. /\ turn \in 0 .. Ceiling /\ recoveries \in 0 .. MaxRecoveries
        /\ polls \in 0 .. MaxPolls OBVIOUS
  <2>4. /\ pc \in Awaits \cup Over /\ now \in Id \cup {None} /\ exit \in Exits \cup {None}
        /\ terminal \in {None, "completed", "budget_exhausted", "cancelled", "failed"} OBVIOUS
  <2> QED BY <2>1, <2>2, <2>3, <2>4, Zenon
<1>2. Turns /\ At /\ RowsAgree BY DEF Turns, At, RowsAgree
<1>3. Publication BY DEF Publication
<1>4. Missing BY DEF Missing
<1>5. Unread /\ Left BY DEF Unread, Left
<1> QED BY <1>1, <1>2, <1>3, <1>4, <1>5 DEF IInv

\* The head of a turn.
LEMMA HeadSteps ==
  ASSUME IInv, Start \/ BeginTurn \/ Assemble \/ Compact \/ Sweep \/ Request
  PROVE  IInv'
<1> USE DEF IInv, TypeOK, Turns, At, RowsAgree, Publication, Missing, Unread, Left, Heads,
      Asking, Requesting, Draining, Answering, Tools!TypeOK
<1>1. CASE Start BY <1>1 DEF Start
<1>2. CASE BeginTurn BY <1>2 DEF BeginTurn, Tools!Discard, Tools!Usable
<1>3. CASE Assemble BY <1>3 DEF Assemble, Tools!Publish
<1>4. CASE Compact BY <1>4 DEF Compact
<1>5. CASE Sweep BY <1>5 DEF Sweep, Absorb
<1>6. CASE Request BY <1>6 DEF Request, Tools!Discard, Tools!Usable
<1> QED BY <1>1, <1>2, <1>3, <1>4, <1>5, <1>6

\* The stream and the retry.
LEMMA StreamSteps ==
  ASSUME IInv, StreamCancelled \/ StreamFails \/ StreamIsEmpty \/ StreamEnds \/ RetryTurn
  PROVE  IInv'
<1> USE DEF IInv, TypeOK, Turns, At, RowsAgree, Publication, Missing, Unread, Left, Heads,
      Asking, Requesting, Draining, Answering, Tools!TypeOK
<1>1. CASE StreamCancelled BY <1>1 DEF StreamCancelled, Tools!Discard, Tools!Usable
<1>2. CASE StreamFails BY <1>2 DEF StreamFails, Tools!Discard, Tools!Usable
<1>3. CASE StreamIsEmpty BY <1>3 DEF StreamIsEmpty
<1>4. CASE StreamEnds BY <1>4 DEF StreamEnds, Tools!Drain
<1>5. CASE RetryTurn BY <1>5 DEF RetryTurn, Tools!Discard, Tools!Usable
<1> QED BY <1>1, <1>2, <1>3, <1>4, <1>5

\* A call is authorized, recorded and dispatched.
LEMMA DispatchSteps ==
  ASSUME IInv, Denied \/ Authorized \/ Begin \/ Dispatch
  PROVE  IInv'
<1> USE DEF IInv, TypeOK, Turns, At, RowsAgree, Publication, Missing, Unread, Left, Heads,
      Asking, Requesting, Draining, Answering, Tools!TypeOK
<1>1. CASE Denied BY <1>1 DEF Denied, Refuse
<1>2. CASE Authorized
  <2>1. unread' \subseteq {"result", "message"}
    BY <1>2, Zenon DEF Authorized, Refuse, Tools!Discard, Tools!Usable
  <2>2. TypeOK'
    BY <1>2, <2>1 DEF Authorized, Refuse, Tools!Discard, Tools!Usable
  <2> QED BY <1>2, <2>2 DEF Authorized, Refuse, Tools!Discard, Tools!Usable
<1>3. CASE Begin BY <1>3 DEF Begin
<1>4. CASE Dispatch BY <1>4 DEF Dispatch, Tools!Queue
<1> QED BY <1>1, <1>2, <1>3, <1>4

\* The drain.
LEMMA DrainSteps ==
  ASSUME IInv, DrainAbandoned \/ Settle \/ DrainEnds \/ TurnCompleted
  PROVE  IInv'
<1> USE DEF IInv, TypeOK, Turns, At, RowsAgree, Publication, Missing, Unread, Left, Heads,
      Asking, Requesting, Draining, Answering, Tools!TypeOK
<1>1. CASE DrainAbandoned BY <1>1 DEF DrainAbandoned, Tools!Discard, Tools!Usable
<1>2. CASE Settle BY <1>2 DEF Settle
<1>3. CASE DrainEnds BY <1>3 DEF DrainEnds, Tools!End
<1>4. CASE TurnCompleted BY <1>4 DEF TurnCompleted, Tools!Discard, Tools!Usable
<1> QED BY <1>1, <1>2, <1>3, <1>4

\* The decision to go on.
LEMMA StopSteps ==
  ASSUME IInv, Decide \/ BeforeFinalize \/ FinalPoll \/ SecondPoll \/ Commit
  PROVE  IInv'
<1> USE DEF IInv, TypeOK, Turns, At, RowsAgree, Publication, Missing, Unread, Left, Heads,
      Asking, Requesting, Draining, Answering, Tools!TypeOK
<1>1. CASE Decide
  <2>1. unread' \subseteq {"result", "message"}
    BY <1>1, Zenon DEF Decide, CeilingReached
  <2>2. TypeOK'
    BY <1>1, <2>1 DEF Decide, CeilingReached
  <2> QED BY <1>1, <2>2 DEF Decide, CeilingReached
<1>2. CASE BeforeFinalize BY <1>2 DEF BeforeFinalize
<1>3. CASE FinalPoll
  <2>1. unread' \subseteq {"result", "message"}
    BY <1>3, Zenon DEF FinalPoll, Absorb
  <2>2. TypeOK'
    BY <1>3, <2>1 DEF FinalPoll, Absorb
  <2> QED BY <1>3, <2>2 DEF FinalPoll, Absorb
<1>4. CASE SecondPoll
  <2>1. unread' \subseteq {"result", "message"}
    BY <1>4, Zenon DEF SecondPoll, Absorb
  <2>2. TypeOK'
    BY <1>4, <2>1 DEF SecondPoll, Absorb
  <2> QED BY <1>4, <2>2 DEF SecondPoll, Absorb
<1>5. CASE Commit BY <1>5 DEF Commit
<1> QED BY <1>1, <1>2, <1>3, <1>4, <1>5

\* The ends of a run, and its environment.
LEMMA OtherSteps ==
  ASSUME IInv, Throws \/ Finalize \/ Interrupt \/ Exhaust \/ Crash
  PROVE  IInv'
<1> USE DEF IInv, TypeOK, Turns, At, RowsAgree, Publication, Missing, Unread, Left, Heads,
      Asking, Requesting, Draining, Answering, Tools!TypeOK
<1>1. CASE Throws BY <1>1 DEF Throws
<1>2. CASE Finalize BY <1>2 DEF Finalize
<1>3. CASE Interrupt BY <1>3 DEF Interrupt, Tools!Interrupt
<1>4. CASE Exhaust BY <1>4 DEF Exhaust
<1>5. CASE Crash BY <1>5 DEF Crash
<1> QED BY <1>1, <1>2, <1>3, <1>4, <1>5

\* A call of the model's, and a result of the drain.
LEMMA CallSteps ==
  ASSUME IInv, NEW i \in Id, ToolUse(i) \/ DrainItem(i)
  PROVE  IInv'
<1> USE DEF IInv, TypeOK, Turns, At, RowsAgree, Publication, Missing, Unread, Left, Heads,
      Asking, Requesting, Draining, Answering, Tools!TypeOK
<1>1. CASE ToolUse(i) BY <1>1 DEF ToolUse
<1>2. CASE DrainItem(i) BY <1>2 DEF DrainItem, Tools!Answer
<1> QED BY <1>1, <1>2

\* The emergency pass, whatever it answers.
LEMMA EmergencySteps ==
  ASSUME IInv, NEW kind \in Compaction, EmergencyCompact(kind)
  PROVE  IInv'
BY DEF EmergencyCompact, EarnsRetry, IInv, TypeOK, Turns, At, RowsAgree, Publication, Missing,
  Unread, Left, Heads, Asking, Requesting, Draining, Answering, Tools!TypeOK

\* Every step, a stutter included.
LEMMA Steps == IInv /\ [Next]_vars => IInv'
<1> SUFFICES ASSUME IInv, [Next]_vars PROVE IInv' OBVIOUS
<1>1. CASE Next
  <2>1. CASE EngineStep
    BY <2>1, HeadSteps, StreamSteps, DispatchSteps, DrainSteps, StopSteps, OtherSteps,
       CallSteps, EmergencySteps, Zenon DEF EngineStep
  <2> QED BY <1>1, <2>1, OtherSteps DEF Next
<1>2. CASE UNCHANGED vars
  BY <1>2 DEF IInv, TypeOK, Turns, At, RowsAgree, Publication, Missing, Unread, Left, Heads,
    Asking, Requesting, Draining, Answering, Tools!TypeOK
<1> QED BY <1>1, <1>2

\* The invariant holds in every reachable state: a missing result is always in the
\* publication or at hand, or the run can only end on an error.
THEOREM InductiveInvariant == Spec => []IInv
<1> QED BY Initially, Steps, PTL DEF Spec

\* Every variable keeps its type.
THEOREM TypeCorrect == Spec => []TypeOK
<1>1. IInv => TypeOK BY DEF IInv
<1> QED BY <1>1, InductiveInvariant, PTL

\* A worker may die at any step: its ledger covers every call it queued.
THEOREM LedgerIsAhead == Spec => []LedgerCoversTools
<1>1. IInv => LedgerCoversTools
  BY DEF IInv, TypeOK, Tools!TypeOK, Publication, RowsAgree, LedgerCoversTools
<1> QED BY <1>1, InductiveInvariant, PTL

\* A run that completed, and every request, has every result.
THEOREM ResultsAreIn == Spec => []NothingLeftOpen
<1>1. IInv => NothingLeftOpen
  BY DEF IInv, TypeOK, Missing, RowsAgree, Left, NothingLeftOpen, Open, Asking, Draining
<1> QED BY <1>1, InductiveInvariant, PTL

\* The last answer was given with every result in view.
THEOREM AnswersWithResults == Spec => []ResultsAreRead
<1>1. IInv => ResultsAreRead BY DEF IInv, Unread, ResultsAreRead
<1> QED BY <1>1, InductiveInvariant, PTL

\* No retried turn, veto, recovery or poll passes the ceiling.
THEOREM CeilingIsKept == Spec => []CeilingHolds
<1>1. IInv => CeilingHolds BY DEF IInv, Turns, CeilingHolds
<1> QED BY <1>1, InductiveInvariant, PTL
-----------------------------------------------------------------------------
\* Whatever a step of the engine does to the publication, its interface offers.
LEMMA EngineStepsAreThePorts ==
  ASSUME IInv, EngineStep PROVE [Tools!Next]_(Tools!port)
<1> USE DEF Tools!port, Tools!Next
<1>1. CASE UNCHANGED port BY <1>1
<1>2. CASE Assemble BY <1>2 DEF Assemble
<1>3. CASE Tools!Discard BY <1>3
<1>4. CASE StreamEnds
  <2>1. Tools!Drain({}) => \E refused \in SUBSET Id : Tools!Drain(refused) OBVIOUS
  <2> QED BY <1>4, <2>1 DEF StreamEnds
<1>5. CASE Dispatch BY <1>5 DEF Dispatch, IInv, At
<1>6. CASE DrainEnds BY <1>6 DEF DrainEnds
<1>7. ASSUME NEW i \in Id, DrainItem(i) PROVE Tools!Next
  BY <1>7 DEF DrainItem
<1>8. CASE BeginTurn BY <1>8, <1>1, <1>3 DEF BeginTurn
<1>9. CASE Request \/ StreamCancelled \/ StreamFails \/ RetryTurn
  BY <1>9, <1>1, <1>3 DEF Request, StreamCancelled, StreamFails, RetryTurn
<1>10. CASE Authorized BY <1>10, <1>1, <1>3 DEF Authorized
<1>11. CASE DrainAbandoned \/ TurnCompleted
  BY <1>11, <1>1, <1>3 DEF DrainAbandoned, TurnCompleted
<1>12. CASE Start \/ Compact \/ Sweep \/ StreamIsEmpty \/ Denied \/ Begin \/ Settle
  BY <1>12, <1>1 DEF Start, Compact, Sweep, StreamIsEmpty, Denied, Begin, Settle
<1>13. CASE Decide \/ BeforeFinalize \/ FinalPoll \/ SecondPoll \/ Commit \/ Throws \/ Finalize
  BY <1>13, <1>1 DEF Decide, BeforeFinalize, FinalPoll, SecondPoll, Commit, Throws, Finalize
<1>14. CASE \E kind \in Compaction : EmergencyCompact(kind)
  BY <1>14, <1>1 DEF EmergencyCompact
<1>15. CASE \E i \in Id : ToolUse(i) BY <1>15, <1>1 DEF ToolUse
<1> QED
  BY <1>2, <1>4, <1>5, <1>6, <1>7, <1>8, <1>9, <1>10, <1>11, <1>12, <1>13, <1>14, <1>15,
     Zenon DEF EngineStep

\* The engine relies on its tools for ToolPort alone, and never uses the port in a
\* way the tools do not offer: it queues no call twice, drains a publication once,
\* and discards none it has discarded.
THEOREM AssumesThePort == Spec => Tools!Spec
<1>1. Init => Tools!Init BY DEF Init, Tools!Init
<1>2. IInv /\ [Next]_vars => [Tools!Next]_(Tools!port)
  <2> SUFFICES ASSUME IInv, [Next]_vars PROVE [Tools!Next]_(Tools!port) OBVIOUS
  <2>1. CASE EngineStep BY <2>1, EngineStepsAreThePorts
  <2>2. CASE Interrupt BY <2>2 DEF Interrupt, Tools!Next
  <2>3. CASE Exhaust \/ Crash BY <2>3 DEF Exhaust, Crash, Tools!port
  <2>4. CASE UNCHANGED vars BY <2>4 DEF Tools!port
  <2> QED BY <2>1, <2>2, <2>3, <2>4 DEF Next
<1> QED BY <1>1, <1>2, InductiveInvariant, PTL DEF Spec, Tools!Spec
=============================================================================
