------------------------ MODULE RunControllerProofs ------------------------
(***************************************************************************)
(* RunController keeps its promises for every set of users.                *)
(***************************************************************************)
EXTENDS RunController, TLAPS

USE DEF None, Degraded, Absent, Session!None, Session!Degraded

\* The verdict of a settle, and what a cancel that was asked for rules out.
LEMMA SettleVerdict ==
  ASSUME NEW said \in Declared \cup {None}, NEW intent \in Intent, NEW spent
  PROVE  /\ ResolveRunOutcome(said, intent, spent) \in Verdict
         /\ "cancel" \in intent => ResolveRunOutcome(said, intent, spent) # "completed"
BY DEF ResolveRunOutcome, TerminalFromCompletion, TerminalFromSilence, Verdict, Declared

\* The terminal event minted for a verdict is one the ledger may declare.
LEMMA SynthesizedEvent == \A v \in Verdict : EventOf(v) \in Declared
BY DEF EventOf, Verdict, Declared

\* TypeOK, the flags and the rest apart: the provers take them differently.
Flags ==
  /\ live \in BOOLEAN /\ handle \in BOOLEAN /\ timer \in BOOLEAN
  /\ streaming \in BOOLEAN /\ exhausted \in BOOLEAN
  /\ cancelRequested \in BOOLEAN

Values ==
  /\ start \in {"flushing", "dispatching", "failing", "open", "rejected", "undurable"}
  /\ executor \in {"none", "running", "ended"}
  /\ declared \in Declared \cup {None}
  /\ held \in Declared \cup {None}
  /\ published \in Declared \cup {None}
  /\ settling \in {"none", "barrier", "closed", "released", "dropped"}
  /\ decided \in Verdict \cup {None}
  /\ row \in Terminal \cup {None}
  /\ terminal \in Terminal \cup {None}
  /\ receipt \in Terminal \cup {None}
  /\ stopping \in {"none", "waiting"} \cup Dispositions
  /\ stops \in Nat
  /\ ask \in [Askers -> {"idle", "stopping", "settling"} \cup Answers]
  /\ told \in [Askers -> Terminal \cup {None, Absent}]

\* The type invariant is the flags and the values.
LEMMA TypeParts == TypeOK <=> Flags /\ Values
BY DEF TypeOK, Flags, Values

\* What each phase of settle knows about the session.
SettlePhases ==
  /\ settling = "none" => decided = None
  /\ settling # "none" => decided # None /\ declared # None
  /\ settling \in {"none", "barrier"} <=> terminal = None
  /\ terminal # None => terminal = Degraded \/ row = terminal
  /\ settling = "dropped" <=> receipt # None
  /\ receipt # None => receipt = terminal
  /\ published # None => settling \in {"released", "dropped"}

\* What each phase of start knows about the run.
StartPhases ==
  /\ live <=> settling # "dropped" /\ start # "undurable"
  /\ executor # "none" => start \in {"dispatching", "open"}
  /\ start = "rejected" => ~live
  /\ start \in {"flushing", "undurable"} =>
       settling = "none" /\ declared = None /\ ~timer /\ \A a \in Askers : ask[a] = "idle"
  /\ timer => start = "open"
  /\ handle => start = "open"

\* What an asker that is still waiting, or was answered, can rely on.
AskPhases ==
  \A a \in Askers :
    /\ ask[a] = "settling" => settling # "none"
    /\ ask[a] \in Answers => terminal # None /\ told[a] = terminal

StopPhases ==
  /\ stops <= 1
  /\ stopping = "none" => stops = 0
  /\ stopping = "waiting" => handle

IInv ==
  Values /\ SettlePhases /\ StartPhases /\ AskPhases /\ StopPhases /\ AnnouncedIsCommitted

\* Entering settle decides once, from the ledger and everybody's intent, and
\* leaves the row and the terminal alone.
LEMMA SettleEntered ==
  ASSUME Values, SettlePhases,
         NEW intent \in Intent, NEW said \in Declared \cup {None},
         declared # None => said = declared,
         EnterSettle(intent, said)
  PROVE  /\ settling' \in {settling, "barrier"}
         /\ settling' # settling => settling = "none" /\ live
         /\ decided' \in Verdict \cup {None}
         /\ declared' \in Declared \cup {None}
         /\ declared # None => declared' = declared
         /\ settling' = "none" => decided' = None /\ declared' = said
         /\ settling' # "none" => decided' # None /\ declared' # None
         /\ decided = None /\ cancelRequested => decided' # "completed"
         /\ timer' \in {timer, FALSE}
         /\ row' = row /\ terminal' = terminal
<1>1. Merged(intent) \in Intent /\ (cancelRequested => "cancel" \in Merged(intent))
  BY DEF Merged, Intent
<1>2. CASE live /\ settling = "none"
  <2>1. PICK spent \in {exhausted, TRUE} :
          LET verdict == ResolveRunOutcome(said, Merged(intent), spent) IN
          /\ settling' = "barrier" /\ timer' = FALSE
          /\ decided' = verdict
          /\ declared' = IF said = None THEN EventOf(verdict) ELSE said
          /\ UNCHANGED <<row, terminal>>
    BY <1>2 DEF EnterSettle
  <2>3. decided' \in Verdict /\ (cancelRequested => decided' # "completed")
    BY <1>1, <2>1, SettleVerdict
  <2>4. declared' \in Declared
    BY <2>1, <2>3, SynthesizedEvent
  <2>5. None \notin Verdict /\ None \notin Declared
    BY DEF Verdict, Declared
  <2> QED BY <1>2, <2>1, <2>3, <2>4, <2>5
<1>3. CASE ~(live /\ settling = "none")
  <2>1. declared' = said /\ UNCHANGED <<settling, timer, session>>
    BY <1>3 DEF EnterSettle
  <2>2. settling # "none" => said # None
    BY DEF SettlePhases
  <2>3. None \notin Verdict
    BY DEF Verdict
  <2> QED BY <1>3, <2>1, <2>2, <2>3 DEF session, Values, SettlePhases
<1> QED BY <1>2, <1>3
-----------------------------------------------------------------------------
\* A controller that has started nothing satisfies the invariant.
LEMMA InitInvariant == Init => IInv
<1> SUFFICES ASSUME Init PROVE IInv
  OBVIOUS
<1> USE DEF Init, Session!Init
<1>1. Values
  BY DEF Values
<1>2. AskPhases
  BY DEF AskPhases, Answers
<1>3. SettlePhases /\ StartPhases /\ StopPhases /\ AnnouncedIsCommitted
  BY DEF SettlePhases, StartPhases, StopPhases, AnnouncedIsCommitted
<1> QED BY <1>1, <1>2, <1>3 DEF IInv

\* An action that enters settle and changes nothing the start or the askers hold.
LEMMA EnteringInvariant ==
  ASSUME IInv,
         NEW intent \in Intent, NEW said \in Declared \cup {None},
         declared # None => said = declared,
         start \notin {"flushing", "undurable"},
         EnterSettle(intent, said),
         held' \in Declared \cup {None},
         UNCHANGED <<live, published, streaming, exhausted, receipt>>
  PROVE  SettlePhases' /\ AnnouncedIsCommitted' /\ (timer' => timer)
<1>1. Values /\ SettlePhases /\ AnnouncedIsCommitted
  BY DEF IInv
<1> QED BY <1>1, SettleEntered DEF SettlePhases, AnnouncedIsCommitted, Values

\* The first asker sends the one stop.
LEMMA StopTyped ==
  ASSUME Values, StopPhases, NEW a \in Askers, AskToStop(a)
  PROVE  /\ stopping' \in {"none", "waiting"} \cup Dispositions
         /\ stops' \in Nat
         /\ stops' <= 1
         /\ stopping' = "none" => stops' = 0
         /\ stopping' = "waiting" => handle
<1>1. CASE stopping = "none" /\ handle
  BY <1>1 DEF AskToStop, Values, StopPhases
<1>2. CASE ~(stopping = "none" /\ handle)
  BY <1>2 DEF AskToStop, Values, StopPhases, Dispositions
<1> QED BY <1>1, <1>2

\* Every step keeps the invariant.
LEMMA StepInvariant == IInv /\ [Next]_vars => IInv'
<1> SUFFICES ASSUME IInv, [Next]_vars PROVE IInv'
  OBVIOUS
<1> USE DEF IInv
<1>1. CASE UNCHANGED vars
  BY <1>1 DEF vars, opening, events, session, cancelling, Values, SettlePhases, StartPhases,
     AskPhases, StopPhases, AnnouncedIsCommitted
<1>2. CASE Starting
  <2>1. CASE StartedDurable
    BY <2>1 DEF StartedDurable, events, session, cancelling, Values, SettlePhases, StartPhases,
       AskPhases, StopPhases, AnnouncedIsCommitted
  <2>2. CASE StartedLost
    <3> USE <2>2 DEF StartedLost, events, session, cancelling
    <3>1. Values'
      BY DEF Values
    <3>2. StartPhases'
      BY DEF StartPhases
    <3>3. SettlePhases' /\ AskPhases' /\ StopPhases' /\ AnnouncedIsCommitted'
      BY DEF SettlePhases, AskPhases, StopPhases, AnnouncedIsCommitted
    <3> QED BY <3>1, <3>2, <3>3
  <2>3. CASE DispatchResolves
    BY <2>3 DEF DispatchResolves, events, session, cancelling, Values, SettlePhases, StartPhases,
       AskPhases, StopPhases, AnnouncedIsCommitted
  <2>4. CASE DispatchRefused
    <3> DEFINE said == IF live /\ declared = None THEN "failed" ELSE declared
    <3>1. said \in Declared \cup {None} /\ {} \in Intent /\ (declared # None => said = declared)
      BY DEF Values, Declared, Intent
    <3>2. EnterSettle({}, said) /\ held' \in Declared \cup {None}
      BY <2>4 DEF DispatchRefused, Values, Declared
    <3> HIDE DEF said
    <3>3. SettlePhases' /\ AnnouncedIsCommitted' /\ (timer' => timer)
      BY <2>4, <3>1, <3>2, EnteringInvariant DEF DispatchRefused, cancelling
    <3>4. Values'
      BY <2>4, <3>1, <3>2, SettleEntered DEF DispatchRefused, cancelling, Values
    <3>5. StartPhases' /\ StopPhases'
      <4>1. start = "dispatching" /\ start' = "failing" /\ executor' = "none" /\ ~handle' /\ ~timer'
        BY <2>4, <3>3 DEF DispatchRefused, StartPhases
      <4>2. settling' = "dropped" <=> settling = "dropped"
        BY <3>1, <3>2, SettleEntered
      <4> QED BY <2>4, <4>1, <4>2 DEF DispatchRefused, cancelling, StartPhases, StopPhases
    <3>6. AskPhases'
      BY <2>4, <3>1, <3>2, SettleEntered DEF DispatchRefused, cancelling, AskPhases, Values
    <3> QED BY <3>3, <3>4, <3>5, <3>6
  <2>5. CASE FailStartReturns
    BY <2>5 DEF FailStartReturns, events, session, cancelling, Values, SettlePhases, StartPhases,
       AskPhases, StopPhases, AnnouncedIsCommitted
  <2> QED BY <1>2, <2>1, <2>2, <2>3, <2>4, <2>5 DEF Starting
<1>3. CASE Dispatched
  BY <1>3 DEF Dispatched, opening, events, session, cancelling, Values, SettlePhases, StartPhases,
     AskPhases, StopPhases, AnnouncedIsCommitted
<1>4. CASE FrameObserved
  <2>1. start \notin {"flushing", "undurable"} /\ Budget \in Askers
    BY <1>4 DEF FrameObserved, Recordable, StartPhases, Askers
  <2>2. IF exhausted' /\ ~cancelRequested THEN AskToStop(Budget) ELSE UNCHANGED cancelling
    BY <1>4 DEF FrameObserved
  <2>4. stopping' \in {"none", "waiting"} \cup Dispositions /\ stops' \in Nat /\ StopPhases'
    <3>1. handle' = handle
      BY <1>4 DEF FrameObserved, opening
    <3>2. CASE AskToStop(Budget)
      BY <2>1, <3>1, <3>2, StopTyped DEF StopPhases
    <3>3. CASE UNCHANGED cancelling
      BY <3>1, <3>3 DEF cancelling, Values, StopPhases
    <3> QED BY <2>2, <3>2, <3>3
  <2>3. ask' \in {ask, [ask EXCEPT ![Budget] = "stopping"]} /\ told' = told
    BY <1>4 DEF FrameObserved, AskToStop, cancelling
  <2> USE <1>4 DEF FrameObserved, opening, events, session
  <2>6. ask' \in [Askers -> {"idle", "stopping", "settling"} \cup Answers]
    BY <2>1, <2>3 DEF Values
  <2>7. Values'
    BY <2>3, <2>4, <2>6 DEF Values
  <2>8. SettlePhases' /\ StartPhases' /\ AnnouncedIsCommitted'
    BY <2>1, <2>3 DEF SettlePhases, StartPhases, AnnouncedIsCommitted
  <2>9. AskPhases'
    BY <2>1, <2>3 DEF AskPhases, Answers, Values
  <2> QED BY <2>4, <2>7, <2>8, <2>9
<1>5. CASE EnvelopeAccepted
  <2> USE <1>5 DEF EnvelopeAccepted, opening, events, session, cancelling
  <2>1. Values'
    BY DEF Values
  <2>2. SettlePhases' /\ StartPhases' /\ AskPhases' /\ StopPhases' /\ AnnouncedIsCommitted'
    BY DEF SettlePhases, StartPhases, AskPhases, StopPhases, AnnouncedIsCommitted
  <2> QED BY <2>1, <2>2
<1>7. ASSUME NEW event \in Declared, TerminalObserved(event) PROVE IInv'
  <2>1. start \notin {"flushing", "undurable"} /\ None \notin Declared
    BY <1>7 DEF TerminalObserved, Recordable, StartPhases, Declared
  <2> QED BY <1>7, <2>1
      DEF TerminalObserved, Recordable, opening, session, cancelling, Values, SettlePhases,
          StartPhases, AskPhases, StopPhases, AnnouncedIsCommitted
<1>8. CASE FrameViolates
  <2>1. start \notin {"flushing", "undurable"} /\ declared = None
    BY <1>8 DEF FrameViolates, Recordable, StartPhases
  <2>2. {} \in Intent /\ "failed" \in Declared
    BY DEF Intent, Declared
  <2>3. EnterSettle({}, "failed") /\ held' \in Declared \cup {None}
    BY <1>8, <2>2 DEF FrameViolates
  <2>4. SettlePhases' /\ AnnouncedIsCommitted' /\ (timer' => timer)
    BY <1>8, <2>1, <2>2, <2>3, EnteringInvariant DEF FrameViolates, opening, cancelling
  <2>5. Values'
    BY <1>8, <2>1, <2>2, <2>3, SettleEntered, ZenonT(40) DEF FrameViolates, opening, cancelling, Values
  <2>6. StartPhases' /\ StopPhases'
    BY <1>8, <2>1, <2>2, <2>3, <2>4, SettleEntered DEF FrameViolates, opening, cancelling, StartPhases, StopPhases
  <2>7. AskPhases'
    BY <1>8, <2>1, <2>2, <2>3, SettleEntered DEF FrameViolates, opening, cancelling, AskPhases, Values
  <2> QED BY <2>4, <2>5, <2>6, <2>7
<1>9. CASE ExecutorEnds
  <2>1. start \notin {"flushing", "undurable"}
    BY <1>9 DEF ExecutorEnds, StartPhases
  <2>2. {} \in Intent /\ declared \in Declared \cup {None} /\ held' \in Declared \cup {None}
    BY <1>9 DEF Intent, Values, ExecutorEnds
  <2>3. EnterSettle({}, declared)
    BY <1>9 DEF ExecutorEnds
  <2>4. SettlePhases' /\ AnnouncedIsCommitted' /\ (timer' => timer)
    BY <1>9, <2>1, <2>2, <2>3, EnteringInvariant DEF ExecutorEnds, opening, cancelling
  <2>5. Values'
    BY <1>9, <2>1, <2>2, <2>3, SettleEntered DEF ExecutorEnds, opening, cancelling, Values
  <2>6. StartPhases' /\ StopPhases'
    BY <1>9, <2>1, <2>2, <2>3, <2>4, SettleEntered DEF ExecutorEnds, opening, cancelling, StartPhases, StopPhases
  <2>7. AskPhases'
    BY <1>9, <2>1, <2>2, <2>3, SettleEntered DEF ExecutorEnds, opening, cancelling, AskPhases, Values
  <2> QED BY <2>4, <2>5, <2>6, <2>7
<1>10. ASSUME NEW intent \in {{}, {"cancel"}}, HostSettles(intent) PROVE IInv'
  <2>1. start \notin {"flushing", "undurable"}
    BY <1>10 DEF HostSettles, StartPhases
  <2>2. intent \in Intent /\ declared \in Declared \cup {None} /\ held' \in Declared \cup {None}
    BY <1>10 DEF Intent, Values, HostSettles
  <2>3. EnterSettle(intent, declared)
    BY <1>10 DEF HostSettles
  <2>4. SettlePhases' /\ AnnouncedIsCommitted' /\ (timer' => timer)
    BY <1>10, <2>1, <2>2, <2>3, EnteringInvariant DEF HostSettles, opening, cancelling
  <2>5. Values'
    BY <1>10, <2>1, <2>2, <2>3, SettleEntered DEF HostSettles, opening, cancelling, Values
  <2>6. StartPhases' /\ StopPhases'
    BY <1>10, <2>1, <2>2, <2>3, <2>4, SettleEntered DEF HostSettles, opening, cancelling, StartPhases, StopPhases
  <2>7. AskPhases'
    BY <1>10, <2>1, <2>2, <2>3, SettleEntered DEF HostSettles, opening, cancelling, AskPhases, Values
  <2> QED BY <2>4, <2>5, <2>6, <2>7
<1>11. CASE Settling
  <2>1. CASE BarrierAnswers
    <3>1. terminal = None /\ settling' = "closed" /\ terminal' \in Terminal /\ decided' = decided
          /\ row' = row /\ (terminal' = Degraded \/ row' = terminal')
      BY <2>1 DEF BarrierAnswers, Session!PublishDurable, Session!PublishDegraded, Values,
         SettlePhases, Terminal
    <3>2. None \notin Terminal
      BY DEF Terminal, Verdict
    <3> QED BY <2>1, <3>1, <3>2
        DEF BarrierAnswers, opening, events, cancelling, Values, SettlePhases,
            StartPhases, AskPhases, StopPhases, AnnouncedIsCommitted
  <2>2. CASE ReleaseTerminal
    <3> USE <2>2 DEF ReleaseTerminal, opening, session, cancelling
    <3>1. Values' /\ AskPhases' /\ StopPhases' /\ StartPhases'
      BY DEF Values, AskPhases, StopPhases, StartPhases
    <3>2. terminal # None /\ Degraded \notin Declared
      BY DEF SettlePhases, Declared
    <3>3. published' # None => published' = terminal /\ row = terminal
      BY <3>2 DEF Values, SettlePhases
    <3>4. SettlePhases' /\ AnnouncedIsCommitted'
      BY <3>3 DEF SettlePhases, AnnouncedIsCommitted
    <3> QED BY <3>1, <3>4
  <2>3. CASE DropRun
    <3> USE <2>3 DEF DropRun, opening, events, session, cancelling
    <3>1. Values'
      BY DEF Values
    <3>2. SettlePhases' /\ AnnouncedIsCommitted'
      BY DEF SettlePhases, AnnouncedIsCommitted
    <3>3. StartPhases' /\ AskPhases' /\ StopPhases'
      BY DEF StartPhases, AskPhases, StopPhases
    <3> QED BY <3>1, <3>2, <3>3
  <2> QED BY <1>11, <2>1, <2>2, <2>3 DEF Settling
<1>12. CASE RowWritten
  <2>1. row = None /\ row' \in Terminal /\ UNCHANGED <<decided, terminal>>
    BY <1>12 DEF RowWritten, Session!WriteRow, Session!Terminal, Session!Verdict, Terminal, Verdict
  <2> QED BY <1>12, <2>1
      DEF RowWritten, opening, events, cancelling, Values, SettlePhases,
          StartPhases, AskPhases, StopPhases, AnnouncedIsCommitted
<1>13. ASSUME NEW a \in Askers, Ask(a), start \notin {"flushing", "undurable"},
              UNCHANGED <<start, handle, live, executor, events, exhausted, settling, session, receipt>>,
              timer' => timer
       PROVE  IInv'
  <2>1. CASE AskTooLate(a)
    <3>1. told' = [told EXCEPT ![a] = terminal] /\ terminal # None
      BY <1>13, <2>1 DEF AskTooLate, IsClosed, SettlePhases, StartPhases
    <3> USE <1>13, <2>1, <3>1 DEF AskTooLate, events, session
    <3>2. Values'
      BY DEF Values, Answers
    <3>3. SettlePhases' /\ StopPhases' /\ AnnouncedIsCommitted'
      BY DEF SettlePhases, StopPhases, AnnouncedIsCommitted
    <3>4. StartPhases'
      BY DEF StartPhases
    <3>5. AskPhases'
      BY DEF AskPhases, Answers, Values
    <3> QED BY <3>2, <3>3, <3>4, <3>5
  <2>2. CASE AskToStop(a)
    <3>1. stopping' \in {"none", "waiting"} \cup Dispositions /\ stops' \in Nat /\ StopPhases'
      BY <1>13, <2>2, StopTyped DEF StopPhases
    <3> USE <1>13, <2>2, <3>1 DEF AskToStop, events, session
    <3>2. Values'
      BY DEF Values
    <3>3. SettlePhases' /\ AnnouncedIsCommitted'
      BY DEF SettlePhases, AnnouncedIsCommitted
    <3>4. StartPhases'
      BY DEF StartPhases
    <3>5. AskPhases'
      BY DEF AskPhases, Answers, Values
    <3> QED BY <3>1, <3>2, <3>3, <3>4, <3>5
  <2> QED BY <1>13, <2>1, <2>2 DEF Ask
<1>14. ASSUME NEW u \in Users, UserAsks(u) PROVE IInv'
  BY <1>13, <1>14 DEF UserAsks, opening, Askers
<1>15. CASE WallclockFires
  <2>1. start \notin {"flushing", "undurable"} /\ Wallclock \in Askers
    BY <1>15 DEF WallclockFires, StartPhases, Askers
  <2> QED BY <1>13, <1>15, <2>1 DEF WallclockFires, opening
<1>16. CASE StopAnswered
  <2> USE <1>16 DEF StopAnswered, opening, events, session
  <2>1. Values'
    BY DEF Values
  <2>2. stops <= 1 /\ start \in {"dispatching", "open"} /\ stopping' # "none"
    BY DEF StopPhases, StartPhases, Dispositions
  <2>3. SettlePhases' /\ AskPhases' /\ AnnouncedIsCommitted'
    BY DEF SettlePhases, AskPhases, AnnouncedIsCommitted
  <2>4. StartPhases' /\ StopPhases'
    BY <2>2 DEF StartPhases, StopPhases
  <2> QED BY <2>1, <2>3, <2>4
<1>17. ASSUME NEW a \in Askers, CancelResumes(a) PROVE IInv'
  <2>1. start \notin {"flushing", "undurable"}
    BY <1>17 DEF CancelResumes, StartPhases
  <2>2. CASE IsClosed
    BY <1>17, <2>1, <2>2 DEF CancelResumes, IsClosed, opening, session, Values, SettlePhases,
       StartPhases, AskPhases, StopPhases, AnnouncedIsCommitted, Answers
  <2>3. CASE ~IsClosed
    <3> DEFINE intent == {"cancel"} \cup (IF stopping = "escalated" THEN {"escalated"} ELSE {})
    <3>1. intent \in Intent /\ declared \in Declared \cup {None} /\ held' \in Declared \cup {None}
      BY <1>17 DEF Intent, Values, CancelResumes
    <3>2. EnterSettle(intent, declared) /\ ask' = [ask EXCEPT ![a] = "settling"] /\ told' = told
      BY <1>17, <2>3 DEF CancelResumes
    <3>3. live
      BY <2>1, <2>3 DEF IsClosed, StartPhases, SettlePhases
    <3> HIDE DEF intent
    <3>4. settling' # "none"
      BY <3>2, <3>3 DEF EnterSettle
    <3>5. SettlePhases' /\ AnnouncedIsCommitted' /\ (timer' => timer)
      BY <1>17, <2>1, <3>1, <3>2, <3>4, EnteringInvariant DEF CancelResumes, opening
    <3>6. Values'
      BY <1>17, <2>1, <3>1, <3>2, <3>4, SettleEntered DEF CancelResumes, opening, Values
    <3>7. StartPhases' /\ StopPhases'
      BY <1>17, <2>1, <3>1, <3>2, <3>4, <3>5, SettleEntered DEF CancelResumes, opening, StartPhases, StopPhases
    <3>8. AskPhases'
      BY <1>17, <2>1, <3>1, <3>2, <3>4, SettleEntered DEF CancelResumes, opening, AskPhases, Answers, Values
    <3> QED BY <3>5, <3>6, <3>7, <3>8
  <2> QED BY <2>2, <2>3
<1>18. ASSUME NEW a \in Askers, CancelAnswered(a) PROVE IInv'
  <2>1. terminal # None
    BY <1>18 DEF CancelAnswered, SettlePhases
  <2> QED BY <1>18, <2>1 DEF CancelAnswered, opening, events, session, Values, SettlePhases,
       StartPhases, AskPhases, StopPhases, AnnouncedIsCommitted, Answers
<1> QED BY <1>1, <1>2, <1>3, <1>4, <1>5, <1>7, <1>8, <1>9, <1>10, <1>11, <1>12, <1>14,
        <1>15, <1>16, <1>17, <1>18 DEF Next, Observing
-----------------------------------------------------------------------------
\* The run's invariant, for every set of users.
THEOREM InductiveInvariant == Spec => []IInv
BY InitInvariant, StepInvariant, PTL DEF Spec

\* The flags stay flags.
LEMMA FlagsStay == Flags /\ [Next]_vars => Flags'
<1> SUFFICES ASSUME Flags, [Next]_vars PROVE Flags'
  OBVIOUS
<1> USE DEF Flags
<1>1. CASE UNCHANGED vars
  BY <1>1, Zenon DEF vars, opening, events, cancelling
<1>2. ASSUME NEW intent, NEW said, EnterSettle(intent, said) PROVE timer' \in BOOLEAN
  BY <1>2, Zenon DEF EnterSettle
<1>3. ASSUME NEW a, Ask(a) PROVE cancelRequested' \in BOOLEAN
  BY <1>3, Zenon DEF Ask, AskTooLate, AskToStop
<1>4. CASE Starting
  BY <1>4, <1>2, ZenonT(60) DEF Starting, StartedDurable, StartedLost, DispatchResolves, DispatchRefused,
     FailStartReturns, opening, events, cancelling
<1>5. CASE FrameObserved
  <2>1. exhausted' \in BOOLEAN
    BY <1>5, Zenon DEF FrameObserved
  <2>2. cancelRequested' \in BOOLEAN
    BY <1>5, Zenon DEF FrameObserved, AskToStop, cancelling
  <2> QED BY <1>5, <2>1, <2>2, Zenon DEF FrameObserved, opening, events
<1>6. CASE EnvelopeAccepted \/ FrameViolates \/ ExecutorEnds
  BY <1>6, <1>2, ZenonT(60) DEF EnvelopeAccepted, FrameViolates, ExecutorEnds, opening,
     events, cancelling
<1>7. ASSUME NEW event, TerminalObserved(event) PROVE Flags'
  BY <1>7, Zenon DEF TerminalObserved, opening, cancelling
<1>8. ASSUME NEW intent, HostSettles(intent) PROVE Flags'
  BY <1>8, <1>2, Zenon DEF HostSettles, opening, cancelling
<1>9. CASE Settling \/ RowWritten \/ StopAnswered \/ Dispatched
  BY <1>9, ZenonT(60) DEF Settling, BarrierAnswers, ReleaseTerminal, DropRun, RowWritten, StopAnswered,
     Dispatched, opening, events, cancelling
<1>10. ASSUME NEW u, UserAsks(u) PROVE Flags'
  BY <1>10, <1>3, Zenon DEF UserAsks, opening, events
<1>11. CASE WallclockFires
  BY <1>11, <1>3, Zenon DEF WallclockFires, opening, events
<1>12. ASSUME NEW a, CancelResumes(a) \/ CancelAnswered(a) PROVE Flags'
  BY <1>12, <1>2, ZenonT(60) DEF CancelResumes, CancelAnswered, opening, events
<1> QED
  BY <1>1, <1>4, <1>5, <1>6, <1>7, <1>8, <1>9, <1>10, <1>11, <1>12, Zenon DEF Next, Observing

\* Every variable of the controller keeps its type.
THEOREM TypeCorrect == Spec => []TypeOK
<1>1. Init => Flags
  BY DEF Init, Flags
<1>2. IInv => Values
  BY DEF IInv
<1> QED BY <1>1, <1>2, FlagsStay, InductiveInvariant, TypeParts, PTL DEF Spec

\* No consumer is told of an ending the run row does not hold: announcing waits
\* for the barrier and drops a terminal it overruled.
THEOREM AnnouncesTheCommitted == Spec => []AnnouncedIsCommitted
<1>1. IInv => AnnouncedIsCommitted
  BY DEF IInv
<1> QED BY <1>1, InductiveInvariant, PTL

\* Every answer to a cancel carries the run's one terminal.
THEOREM AnswersTheSame == Spec => []AnswersAgree
<1>1. IInv => AnswersAgree
  BY DEF IInv, AskPhases, AnswersAgree
<1> QED BY <1>1, InductiveInvariant, PTL

\* The executor is interrupted at most once, however many users ask.
THEOREM InterruptsOnce == Spec => []OneInterrupt
<1>1. IInv => OneInterrupt
  BY DEF IInv, StopPhases, OneInterrupt
<1> QED BY <1>1, InductiveInvariant, PTL

\* start() only rejects once nothing of the run is left.
THEOREM RejectsClean == Spec => []RejectedStartLeavesNothing
<1>1. IInv => RejectedStartLeavesNothing
  BY DEF IInv, StartPhases, Values, RejectedStartLeavesNothing
<1> QED BY <1>1, InductiveInvariant, PTL

\* A settle the controller enters: with an intent of its own, and with the ledger's
\* terminal event when there is one.
Enters ==
  \E intent \in Intent, said \in Declared \cup {None} :
    (declared # None => said = declared) /\ EnterSettle(intent, said)

\* Only settle, the barrier and the row's write touch the session.
LEMMA SessionSteps ==
  ASSUME IInv, [Next]_vars
  PROVE  UNCHANGED session \/ Enters \/ BarrierAnswers \/ RowWritten
<1>1. Values
  BY DEF IInv
<1>2. {} \in Intent /\ {"cancel"} \in Intent /\ {"cancel", "escalated"} \in Intent
  BY DEF Intent
<1>3. ASSUME NEW intent \in Intent, EnterSettle(intent, declared) PROVE Enters
  BY <1>1, <1>3 DEF Values, Enters
<1>4. CASE DispatchRefused
  <2> DEFINE said == IF live /\ declared = None THEN "failed" ELSE declared
  <2>1. said \in Declared \cup {None} /\ (declared # None => said = declared)
    BY <1>1 DEF Values, Declared
  <2>2. EnterSettle({}, said)
    BY <1>4 DEF DispatchRefused
  <2> HIDE DEF said
  <2> QED BY <1>2, <2>1, <2>2 DEF Enters
<1>5. CASE FrameViolates
  BY <1>2, <1>5 DEF FrameViolates, Recordable, Declared, Enters
<1>6. CASE ExecutorEnds
  BY <1>2, <1>3, <1>6 DEF ExecutorEnds
<1>7. ASSUME NEW intent \in {{}, {"cancel"}}, HostSettles(intent) PROVE Enters
  BY <1>2, <1>3, <1>7 DEF HostSettles
<1>8. ASSUME NEW a \in Askers, CancelResumes(a) PROVE UNCHANGED session \/ Enters
  <2> DEFINE intent == {"cancel"} \cup (IF stopping = "escalated" THEN {"escalated"} ELSE {})
  <2>1. intent \in Intent
    BY DEF Intent
  <2>2. UNCHANGED session \/ EnterSettle(intent, declared)
    BY <1>8 DEF CancelResumes
  <2> QED BY <1>3, <2>1, <2>2
<1>9. UNCHANGED session \/ BarrierAnswers \/ RowWritten
      \/ DispatchRefused \/ FrameViolates \/ ExecutorEnds
      \/ (\E intent \in {{}, {"cancel"}} : HostSettles(intent))
      \/ (\E a \in Askers : CancelResumes(a))
  BY DEF Next, vars, session, Starting, Observing, Settling, StartedDurable, StartedLost,
     DispatchResolves, FailStartReturns, Dispatched, FrameObserved, EnvelopeAccepted,
     TerminalObserved, ReleaseTerminal, DropRun, UserAsks, WallclockFires, StopAnswered,
     CancelAnswered
<1> QED BY <1>4, <1>5, <1>6, <1>7, <1>8, <1>9

\* A verdict decided after somebody asked the run to stop is never a success: the
\* cancel is in the intent whichever of the racing paths enters settle.
THEOREM CancelWins == Spec => CancelBeatsCompletion
<1> DEFINE Beats == decided = None /\ cancelRequested => decided' # "completed"
<1>1. IInv /\ [Next]_vars => [Beats]_vars
  <2> SUFFICES ASSUME IInv, [Next]_vars, decided = None, cancelRequested
               PROVE  decided' # "completed"
    OBVIOUS
  <2>1. CASE decided' = decided
    BY <2>1
  <2>2. CASE Enters
    BY <2>2, SettleEntered DEF Enters, IInv
  <2>3. decided' = decided \/ Enters
    BY SessionSteps DEF session, BarrierAnswers, Session!PublishDurable,
       Session!PublishDegraded, RowWritten, Session!WriteRow
  <2> QED BY <2>1, <2>2, <2>3
<1>2. CancelBeatsCompletion <=> [][Beats]_vars
  BY PTL DEF CancelBeatsCompletion
<1> QED BY <1>1, <1>2, InductiveInvariant, PTL DEF Spec

\* The controller relies on its session for RunVerdict alone and uses it as it is
\* promised: of the paths that race to settle a run, one decides, once, and the
\* terminal is published once, as what the row holds or as a degraded run.
THEOREM AssumesTheVerdict == Spec => Session!Spec
<1>1. Init => Session!Init
  BY DEF Init
<1>2. IInv /\ [Next]_vars => [Session!Next]_Session!vars
  <2> SUFFICES ASSUME IInv, [Next]_vars PROVE [Session!Next]_Session!vars
    OBVIOUS
  <2> USE DEF Session!vars, Session!Next
  <2>1. CASE UNCHANGED session
    BY <2>1 DEF session
  <2>2. CASE Enters
    <3>1. PICK intent \in Intent, said \in Declared \cup {None} :
            (declared # None => said = declared) /\ EnterSettle(intent, said)
      BY <2>2 DEF Enters
    <3>2. CASE live /\ settling = "none"
      <4>1. decided = None
        BY <3>2 DEF IInv, SettlePhases
      <4>2. settling' # "none"
        BY <3>1, <3>2 DEF EnterSettle
      <4>3. decided' \in Verdict /\ UNCHANGED <<row, terminal>>
        BY <3>1, <4>2, SettleEntered DEF IInv
      <4> QED BY <4>1, <4>3 DEF Session!Decide, Session!Verdict, Verdict
    <3>3. CASE ~(live /\ settling = "none")
      BY <3>1, <3>3 DEF EnterSettle, session
    <3> QED BY <3>2, <3>3
  <2>3. CASE BarrierAnswers
    BY <2>3 DEF BarrierAnswers
  <2>4. CASE RowWritten
    BY <2>4 DEF RowWritten
  <2> QED BY <2>1, <2>2, <2>3, <2>4, SessionSteps
<1> QED BY <1>1, <1>2, InductiveInvariant, PTL DEF Spec, Session!Spec
-----------------------------------------------------------------------------
(* A cancel is never stuck. *)

\* An asker that waits for the stop has one to wait for, the budget asks once and
\* the timer fires once.
Asked ==
  /\ \A a \in Askers : ask[a] = "stopping" => stopping # "none"
  /\ ask[Budget] \in {"stopping", "settling"} => cancelRequested
  /\ ask[Wallclock] # "idle" => ~timer /\ start = "open"

\* What is left of a cancel: the stop's answer, its return from it, the barrier, the
\* release of the terminal, and the answer.
CancelLeft(a) ==
  CASE ask[a] = "stopping" -> IF stopping = "waiting" THEN 5 ELSE 4
    [] ask[a] = "settling" -> (CASE settling = "barrier" -> 3
                                 [] settling = "closed" -> 2
                                 [] OTHER -> 1)
    [] OTHER -> 0

Waits(a) == ask[a] \in {"stopping", "settling"}

\* The steps a cancel waits for.
Advances(a) ==
  \/ ask[a] = "stopping" /\ StopAnswered
  \/ ask[a] = "settling" /\ (BarrierAnswers \/ ReleaseTerminal)
  \/ CancelResumes(a) \/ CancelAnswered(a)

\* No step of anybody else puts a waiting cancel back, and each of its own takes it on.
CancelMovesOn ==
  \A a \in Askers : Waits(a) =>
    /\ CancelLeft(a)' <= CancelLeft(a)
    /\ Advances(a) => CancelLeft(a)' < CancelLeft(a)

\* A waiting cancel has the guard of one of its own steps met.
CancelMoves ==
  \A a \in Askers :
    /\ ask[a] = "stopping" => stopping = "waiting" \/ stopping \in Dispositions
    /\ ask[a] = "settling" =>
         \/ settling = "barrier" /\ terminal = None /\ decided # None
         \/ settling \in {"closed", "released", "dropped"}

\* What a step does to each asker: the others join a stop and never undo one.
LEMMA AskerSteps ==
  ASSUME IInv, Asked, [Next]_vars
  PROVE  /\ Asked'
         /\ \A a \in Askers :
              \/ ask'[a] = ask[a]
              \/ ~Waits(a)
              \/ ask[a] = "stopping" /\ CancelResumes(a)
              \/ ask[a] = "settling" /\ CancelAnswered(a)
         /\ stopping # "none" => stopping' = stopping \/ StopAnswered
<1> USE UsersAssumption DEF IInv
<1>0. /\ Budget \in Askers /\ Wallclock \in Askers /\ Budget # Wallclock
      /\ ask \in [Askers -> {"idle", "stopping", "settling"} \cup Answers]
      /\ \A u \in Users : u # Budget /\ u # Wallclock /\ u \in Askers
  BY DEF Askers, Values, Budget, Wallclock
<1>1. ASSUME UNCHANGED <<ask, stopping, cancelRequested>>, (timer' => timer),
             start = "open" => start' = "open"
      PROVE  Asked' /\ (\A a \in Askers : ask'[a] = ask[a]) /\ stopping' = stopping
  BY <1>1 DEF Asked
<1>2. ASSUME NEW intent, NEW said, EnterSettle(intent, said) PROVE (timer' => timer)
  BY <1>2 DEF EnterSettle
<1>3. CASE UNCHANGED vars
  BY <1>1, <1>3 DEF vars, opening, cancelling
<1>4. CASE Starting
  <2>1. CASE DispatchResolves
    <3>1. /\ start = "dispatching" /\ start' = "open"
          /\ UNCHANGED <<ask, stopping, cancelRequested>>
      BY <2>1 DEF DispatchResolves, cancelling
    <3> QED BY <3>1 DEF Asked
  <2>2. CASE DispatchRefused
    <3>1. (timer' => timer) BY <1>2, <2>2 DEF DispatchRefused
    <3> QED BY <1>1, <2>2, <3>1 DEF DispatchRefused, cancelling
  <2>3. CASE StartedDurable \/ StartedLost \/ FailStartReturns
    BY <1>1, <2>3 DEF StartedDurable, StartedLost, FailStartReturns, cancelling
  <2> QED BY <1>4, <2>1, <2>2, <2>3 DEF Starting
<1>5. CASE Dispatched \/ EnvelopeAccepted \/ Settling \/ RowWritten
           \/ \E event \in Declared : TerminalObserved(event)
  BY <1>1, <1>5 DEF Dispatched, EnvelopeAccepted, Settling, RowWritten, TerminalObserved,
     BarrierAnswers, ReleaseTerminal, DropRun, opening, cancelling
<1>6. CASE FrameViolates \/ ExecutorEnds \/ \E intent \in {{}, {"cancel"}} : HostSettles(intent)
  <2>1. (timer' => timer)
    BY <1>2, <1>6 DEF FrameViolates, ExecutorEnds, HostSettles
  <2> QED BY <1>1, <1>6, <2>1 DEF FrameViolates, ExecutorEnds, HostSettles, opening, cancelling
<1>7. CASE FrameObserved
  <2>1. UNCHANGED <<timer, start>> /\ (UNCHANGED cancelling \/ (~cancelRequested /\ AskToStop(Budget)))
    BY <1>7 DEF FrameObserved, opening
  <2>2. CASE UNCHANGED cancelling
    BY <1>1, <2>1, <2>2 DEF cancelling
  <2>3. CASE ~cancelRequested /\ AskToStop(Budget)
    <3>1. /\ ask' = [ask EXCEPT ![Budget] = "stopping"] /\ cancelRequested' = TRUE
          /\ stopping' # "none" /\ (stopping # "none" => stopping' = stopping)
      BY <2>3 DEF AskToStop
    <3>2. ~Waits(Budget) BY <2>3 DEF Asked, Waits
    <3> QED BY <1>0, <2>1, <3>1, <3>2 DEF Asked
  <2> QED BY <2>1, <2>2, <2>3
<1>8. ASSUME NEW b \in Askers, Ask(b), ask[b] = "idle" \/ (b = Wallclock /\ timer /\ ~timer'),
             b # Budget, timer' => timer, UNCHANGED start,
             b = Wallclock => timer /\ ~timer'
      PROVE  /\ Asked' /\ \A a \in Askers : ask'[a] = ask[a] \/ ~Waits(a)
             /\ stopping # "none" => stopping' = stopping
  <2>1. ask[b] = "idle" BY <1>8 DEF Asked
  <2>2. \E s \in {"late", "stopping"} :
          /\ ask' = [ask EXCEPT ![b] = s]
          /\ cancelRequested' \in {cancelRequested, TRUE}
          /\ stopping # "none" => stopping' = stopping
          /\ s = "stopping" => stopping' # "none"
          /\ s = "late" => stopping' = stopping
    BY <1>8 DEF Ask, AskTooLate, AskToStop
  <2>3. b = Wallclock => start' = "open"
    BY <1>8 DEF StartPhases
  <2>4. \A a \in Askers \ {b} : ask'[a] = ask[a] BY <1>0, <2>2
  <2>5. \A a \in Askers : ask'[a] = "stopping" => stopping' # "none"
    BY <1>0, <2>2, <2>4 DEF Asked
  <2>6. ask'[Budget] \in {"stopping", "settling"} => cancelRequested'
    <3>1. ask'[Budget] = ask[Budget] BY <1>0, <1>8, <2>4
    <3>2. CASE cancelRequested' = TRUE BY <3>2
    <3>3. CASE cancelRequested' = cancelRequested BY <3>1, <3>3 DEF Asked
    <3> QED BY <2>2, <3>2, <3>3
  <2>7. ask'[Wallclock] # "idle" => ~timer' /\ start' = "open"
    <3>1. CASE b = Wallclock BY <1>8, <2>3, <3>1
    <3>2. CASE b # Wallclock BY <1>0, <1>8, <2>4, <3>2 DEF Asked
    <3> QED BY <3>1, <3>2
  <2>8. \A a \in Askers : ask'[a] = ask[a] \/ ~Waits(a) BY <2>1, <2>4 DEF Waits
  <2> QED BY <2>2, <2>5, <2>6, <2>7, <2>8 DEF Asked
<1>9. ASSUME NEW u \in Users, UserAsks(u) PROVE
          /\ Asked' /\ \A a \in Askers : ask'[a] = ask[a] \/ ~Waits(a)
          /\ stopping # "none" => stopping' = stopping
  <2>1. Ask(u) /\ ask[u] = "idle" /\ UNCHANGED <<timer, start>>
    BY <1>9 DEF UserAsks, opening
  <2> QED BY <1>0, <1>8, <2>1
<1>10. CASE WallclockFires
  <2>1. Ask(Wallclock) /\ timer /\ ~timer' /\ UNCHANGED start
    BY <1>10 DEF WallclockFires, opening
  <2> QED BY <1>0, <1>8, <2>1
<1>11. CASE StopAnswered
  <2>1. stopping' \in Dispositions /\ UNCHANGED <<ask, cancelRequested, timer, start>>
    BY <1>11 DEF StopAnswered, opening
  <2> QED BY <1>11, <2>1 DEF Asked, Dispositions
<1>12. ASSUME NEW b \in Askers, CancelResumes(b) \/ CancelAnswered(b)
       PROVE  /\ Asked'
              /\ \A a \in Askers : \/ ask'[a] = ask[a]
                                   \/ ask[a] = "stopping" /\ CancelResumes(a)
                                   \/ ask[a] = "settling" /\ CancelAnswered(a)
              /\ stopping' = stopping
  <2>1. /\ UNCHANGED <<stopping, cancelRequested, start>> /\ (timer' => timer)
        /\ Waits(b) /\ \E s \in {"late", "settling", "applied"} : ask' = [ask EXCEPT ![b] = s]
    BY <1>2, <1>12 DEF CancelResumes, CancelAnswered, Waits, opening
  <2>2. \A a \in Askers \ {b} : ask'[a] = ask[a] BY <2>1
  <2>3. ask'[b] # "stopping" BY <1>0, <2>1
  <2>4. Asked'
    <3>1. \A a \in Askers : ask'[a] \in {"stopping", "settling"} => Waits(a)
      BY <2>1, <2>2 DEF Waits
    <3>2. ask'[Wallclock] # "idle" => ask[Wallclock] # "idle" BY <1>0, <2>1, <2>2 DEF Waits
    <3> QED BY <1>0, <2>1, <2>2, <2>3, <3>1, <3>2 DEF Asked, Waits
  <2>5. \/ ask[b] = "stopping" /\ CancelResumes(b)
        \/ ask[b] = "settling" /\ CancelAnswered(b)
    BY <1>12 DEF CancelResumes, CancelAnswered
  <2> QED BY <2>1, <2>2, <2>4, <2>5
<1> QED BY <1>3, <1>4, <1>5, <1>6, <1>7, <1>9, <1>10, <1>11, <1>12 DEF Next, Observing

\* Whatever the executor does with the stop and whoever else asks, stops or settles,
\* a cancel is a bounded number of steps from its answer and can take the next one.
THEOREM CancelIsNeverStuck == Spec => []CancelMoves /\ [][CancelMovesOn]_vars
<1>1. Init => Asked
  BY DEF Init, Asked, Askers
<1>2. IInv /\ Asked /\ [Next]_vars => Asked'
  BY AskerSteps
<1>3. Spec => []Asked
  BY <1>1, <1>2, InductiveInvariant, PTL DEF Spec
<1>4. IInv /\ Asked => CancelMoves
  BY DEF IInv, Asked, AskPhases, SettlePhases, Values, CancelMoves
<1>5. IInv /\ IInv' /\ Asked /\ [Next]_vars => [CancelMovesOn]_vars
  <2> SUFFICES ASSUME IInv, IInv', Asked, [Next]_vars, NEW a \in Askers, Waits(a)
               PROVE  /\ CancelLeft(a)' <= CancelLeft(a)
                      /\ Advances(a) => CancelLeft(a)' < CancelLeft(a)
    BY DEF CancelMovesOn
  <2>1. /\ ask \in [Askers -> {"idle", "stopping", "settling"} \cup Answers]
        /\ settling \in {"none", "barrier", "closed", "released", "dropped"}
        /\ ask[a] = "stopping" => stopping # "none"
        /\ ask[a] = "settling" => settling # "none"
    BY DEF IInv, Values, AskPhases, Asked
  <2>2. /\ settling = "closed" => settling' \in {"closed", "released"}
        /\ settling \in {"released", "dropped"} => settling' \in {"released", "dropped"}
        /\ settling = "barrier" => settling' \in {"barrier", "closed"}
    <3>1. ASSUME NEW intent, NEW said, EnterSettle(intent, said), settling # "none"
          PROVE  settling' = settling
      BY <3>1 DEF EnterSettle
    <3>2. ASSUME settling # "none"
          PROVE  \/ settling' = settling \/ Settling
      BY <3>1, <3>2 DEF Next, vars, Starting, StartedDurable, StartedLost, DispatchResolves,
         DispatchRefused, FailStartReturns, Dispatched, Observing, FrameObserved,
         EnvelopeAccepted, FrameViolates, TerminalObserved, ExecutorEnds, HostSettles,
         RowWritten, UserAsks, WallclockFires, StopAnswered, CancelResumes, CancelAnswered
    <3> QED BY <3>2 DEF Settling, BarrierAnswers, ReleaseTerminal, DropRun
  <2>3. CASE ask'[a] = ask[a]
    <3>1. ~CancelResumes(a) /\ ~CancelAnswered(a)
      BY <2>1, <2>3 DEF CancelResumes, CancelAnswered, Answers
    <3>2. CASE ask[a] = "stopping"
      <4>1. stopping' = stopping \/ StopAnswered BY <2>1, <3>2, AskerSteps
      <4>2. StopAnswered => stopping = "waiting" /\ stopping' # "waiting"
        BY DEF StopAnswered, Dispositions
      <4> QED BY <2>3, <3>1, <3>2, <4>1, <4>2 DEF CancelLeft, Advances
    <3>3. CASE ask[a] = "settling"
      <4>1. BarrierAnswers => settling = "barrier" /\ settling' = "closed" BY DEF BarrierAnswers
      <4>2. ReleaseTerminal => settling = "closed" /\ settling' = "released"
        BY DEF ReleaseTerminal
      <4> QED BY <2>1, <2>2, <2>3, <3>1, <3>3, <4>1, <4>2 DEF CancelLeft, Advances
    <3> QED BY <3>2, <3>3 DEF Waits
  <2>4. CASE ask[a] = "stopping" /\ CancelResumes(a)
    <3>1. ask'[a] \in {"late", "settling"} BY <2>1, <2>4 DEF CancelResumes
    <3> QED BY <2>4, <3>1 DEF CancelLeft
  <2>5. CASE ask[a] = "settling" /\ CancelAnswered(a)
    <3>1. ask'[a] = "applied" BY <2>1, <2>5 DEF CancelAnswered
    <3> QED BY <2>5, <3>1 DEF CancelLeft
  <2> QED BY <2>3, <2>4, <2>5, AskerSteps
<1> QED BY <1>3, <1>4, <1>5, InductiveInvariant, PTL DEF Spec
=============================================================================
