--------------------------- MODULE RunController ---------------------------
(***************************************************************************)
(* One run in the controller (packages/agent-runtime, controller.ts and    *)
(* events/event-emitter.ts): opened behind a durable run.started,          *)
(* dispatched to an executor, cancelled by a user, a ceiling or a timer,   *)
(* and settled once; its ending is held back until the durable barrier     *)
(* answers.  The session behind the barrier is taken at its promise,       *)
(* RunVerdict, which RunSession implements.                                *)
(***************************************************************************)
EXTENDS RunOutcome, Integers

CONSTANT Users   \* callers of cancel

Budget == "budget"           \* #enforceBudget, on a frame
Wallclock == "wallclock"     \* the timer of #armWallClockBudget

Askers == Users \cup {Budget, Wallclock}

ASSUME UsersAssumption == Budget \notin Users /\ Wallclock \notin Users

VARIABLES
  start,       \* where start() is; it answers "open", "rejected" or "undurable"
  live,        \* the run is in #runs
  handle,      \* active.handle is set
  executor,    \* "none", "running" or "ended"
  timer,       \* the wallclock timer is armed
  (* the event path *)
  declared,    \* what the ledger's terminal event says
  held,        \* the terminal the emitter minted and has not announced
  published,   \* the terminal frame consumers got
  streaming,   \* the run's stream is open
  exhausted,   \* a budget ceiling is crossed
  (* settle *)
  settling,    \* "none", "barrier", "closed", "released" or "dropped"
  decided, row, terminal,   \* the session, see RunVerdict
  receipt,     \* #receipts
  (* cancel *)
  cancelRequested,
  stopping,    \* the one stop: "none", "waiting" or its disposition
  stops,       \* stops the executor was sent
  ask,         \* where each asker's cancel() is
  told         \* the terminal its answer carries

opening == <<start, handle>>
events == <<declared, held, published, streaming>>
session == <<decided, row, terminal>>
cancelling == <<cancelRequested, stopping, stops, ask, told>>
vars == <<opening, live, executor, timer, events, exhausted, settling, session, receipt,
          cancelling>>

Session == INSTANCE RunVerdict WITH decided <- decided, row <- row, terminal <- terminal

Absent == "run_not_found"
Dispositions == {"cooperative", "escalated", "unavailable"}
Answers == {"applied", "late"}

TypeOK ==
  /\ start \in {"flushing", "dispatching", "failing", "open", "rejected", "undurable"}
  /\ live \in BOOLEAN /\ handle \in BOOLEAN /\ timer \in BOOLEAN
  /\ streaming \in BOOLEAN /\ exhausted \in BOOLEAN
  /\ cancelRequested \in BOOLEAN
  /\ executor \in {"none", "running", "ended"}
  /\ declared \in Declared \cup {None}
  /\ held \in Declared \cup {None}
  /\ published \in Declared \cup {None}
  /\ settling \in {"none", "barrier", "closed", "released", "dropped"}
  /\ decided \in Verdict \cup {None}
  /\ row \in Terminal \cup {None}
  /\ terminal \in Terminal \cup {None}
  /\ receipt \in Terminal \cup {None}
  /\ stopping \in {"none", "waiting"} \cup Dispositions
  /\ stops \in Nat
  /\ ask \in [Askers -> {"idle", "stopping", "settling"} \cup Answers]
  /\ told \in [Askers -> Terminal \cup {None, Absent}]

\* start() has minted run.started and registered the run; its flush is pending.
Init ==
  /\ start = "flushing" /\ live = TRUE /\ handle = FALSE
  /\ executor = "none" /\ timer = FALSE
  /\ declared = None /\ held = None /\ published = None /\ streaming = TRUE
  /\ exhausted = FALSE
  /\ settling = "none" /\ Session!Init /\ receipt = None
  /\ cancelRequested = FALSE /\ stopping = "none" /\ stops = 0
  /\ ask = [a \in Askers |-> "idle"]
  /\ told = [a \in Askers |-> None]
-----------------------------------------------------------------------------
(* settle *)

\* session.isClosed
IsClosed == terminal # None

\* Mutant: a cancel that is still waiting for its stop is not part of the intent.
MergedOnlyCaller(intent) == intent

\* The intent a settle decides with: its caller's, plus a cancel already asked for.
Merged(intent) == intent \cup IF cancelRequested THEN {"cancel"} ELSE {}

\* The synchronous part of settle, entered with the ledger's terminal event at
\* `said`: nothing for a run that is gone or already settling, otherwise the
\* timer dies, the verdict is decided and a silent ledger gets its terminal.
EnterSettle(intent, said) ==
  IF live /\ settling = "none"
    THEN \E spent \in {exhausted, TRUE} :
           LET verdict == ResolveRunOutcome(said, Merged(intent), spent) IN
           /\ settling' = "barrier" /\ timer' = FALSE
           /\ decided' = verdict
           /\ declared' = IF said = None THEN EventOf(verdict) ELSE said
           /\ UNCHANGED <<row, terminal>>
    ELSE /\ declared' = said
         /\ UNCHANGED <<settling, timer, session>>

\* The barrier answers, one way or the other: the session is closed.
BarrierAnswers ==
  /\ settling = "barrier"
  /\ settling' = "closed"
  /\ Session!PublishDurable \/ Session!PublishDegraded
  /\ UNCHANGED <<opening, live, executor, timer, events, exhausted, receipt, cancelling>>

\* The run row is written, by the session or by another writer of it.
RowWritten ==
  /\ Session!WriteRow
  /\ UNCHANGED <<opening, live, executor, timer, events, exhausted, settling, receipt,
                 cancelling>>

\* Mutant: the held terminal is announced whatever the barrier committed.
ReleaseTerminalUnchecked ==
  /\ settling = "closed"
  /\ settling' = "released"
  /\ held' = None
  /\ published' = held
  /\ streaming' = FALSE
  /\ UNCHANGED <<opening, live, executor, timer, declared, exhausted, session,
                 receipt, cancelling>>

\* publishCommittedTerminal, then stream.close: the held terminal is announced
\* if the committed one agrees with it, and discarded if it does not.
ReleaseTerminal ==
  /\ settling = "closed"
  /\ settling' = "released"
  /\ held' = None
  /\ published' = IF held = terminal THEN held ELSE None
  /\ streaming' = FALSE
  /\ UNCHANGED <<opening, live, executor, timer, declared, exhausted, session,
                 receipt, cancelling>>

\* Mutant: the run is dropped and its verdict is not remembered.
DropRunForgets ==
  /\ settling = "released"
  /\ settling' = "dropped"
  /\ live' = FALSE
  /\ UNCHANGED <<opening, executor, timer, events, exhausted, session, receipt, cancelling>>

\* The first settle caller resumes: the run leaves #runs, its verdict is kept.
DropRun ==
  /\ settling = "released"
  /\ settling' = "dropped"
  /\ live' = FALSE
  /\ receipt' = terminal
  /\ UNCHANGED <<opening, executor, timer, events, exhausted, session, cancelling>>
-----------------------------------------------------------------------------
(* cancel *)

\* cancel() on a run that is gone, or whose session already closed.
AskTooLate(a) ==
  /\ ~live \/ IsClosed
  /\ ask' = [ask EXCEPT ![a] = "late"]
  /\ told' = [told EXCEPT ![a] = IF live THEN terminal
                                 ELSE IF receipt = None THEN Absent ELSE receipt]
  /\ UNCHANGED <<cancelRequested, stopping, stops>>

\* cancel() on a live run: the first asker issues the stop, the others share it;
\* with no handle there is nothing to send it to.
AskToStop(a) ==
  /\ live /\ ~IsClosed
  /\ cancelRequested' = TRUE
  /\ IF stopping = "none" /\ handle
       THEN stopping' = "waiting" /\ stops' = stops + 1
       ELSE stopping' = (IF stopping = "none" THEN "unavailable" ELSE stopping)
            /\ UNCHANGED stops
  /\ ask' = [ask EXCEPT ![a] = "stopping"]
  /\ UNCHANGED told

Ask(a) == AskTooLate(a) \/ AskToStop(a)

\* A user knows the run from onDispatchReady on.
UserAsks(u) ==
  /\ start \notin {"flushing", "undurable"} /\ ask[u] = "idle"
  /\ Ask(u)
  /\ UNCHANGED <<opening, live, executor, timer, events, exhausted, settling, session, receipt>>

WallclockFires ==
  /\ timer
  /\ timer' = FALSE
  /\ Ask(Wallclock)
  /\ UNCHANGED <<opening, live, executor, events, exhausted, settling, session, receipt>>

\* Mutant: the stop is waited for until the executor has ended.
StopAnsweredUnbounded ==
  /\ stopping = "waiting" /\ executor = "ended"
  /\ stopping' = "cooperative"
  /\ UNCHANGED <<opening, live, executor, timer, events, exhausted, settling, session, receipt,
                 cancelRequested, stops, ask, told>>

\* handle.stop answers, throws, or outlives its bound: only an escalation leaves
\* it open whether the executor is gone.
StopAnswered ==
  /\ stopping = "waiting"
  /\ stopping' \in Dispositions
  /\ executor' \in {"ended"} \cup (IF stopping' = "escalated" THEN {executor} ELSE {})
  /\ UNCHANGED <<opening, live, timer, events, exhausted, settling, session, receipt,
                 cancelRequested, stops, ask, told>>

\* cancel() after its stop: too late if the session closed meanwhile, otherwise
\* it joins or starts the settlement.
CancelResumes(a) ==
  /\ ask[a] = "stopping" /\ stopping \in Dispositions
  /\ IF IsClosed
       THEN /\ ask' = [ask EXCEPT ![a] = "late"] /\ told' = [told EXCEPT ![a] = terminal]
            /\ UNCHANGED <<settling, timer, session, declared>>
       ELSE /\ ask' = [ask EXCEPT ![a] = "settling"] /\ UNCHANGED told
            /\ EnterSettle({"cancel"} \cup (IF stopping = "escalated" THEN {"escalated"} ELSE {}),
                           declared)
  /\ UNCHANGED <<opening, live, executor, held, published, streaming, exhausted,
                 receipt, cancelRequested, stopping, stops>>

\* The settlement a cancel waits for resolved.
CancelAnswered(a) ==
  /\ ask[a] = "settling" /\ settling \in {"released", "dropped"}
  /\ ask' = [ask EXCEPT ![a] = "applied"]
  /\ told' = [told EXCEPT ![a] = terminal]
  /\ UNCHANGED <<opening, live, executor, timer, events, exhausted, settling, session, receipt,
                 cancelRequested, stopping, stops>>
-----------------------------------------------------------------------------
(* start *)

StartedDurable ==
  /\ start = "flushing"
  /\ start' = "dispatching"
  /\ UNCHANGED <<handle, live, executor, timer, events, exhausted, settling, session, receipt,
                 cancelling>>

\* run.started was given up on: the run is dropped, nothing was dispatched.
StartedLost ==
  /\ start = "flushing"
  /\ start' = "undurable" /\ live' = FALSE
  /\ UNCHANGED <<handle, executor, timer, events, exhausted, settling, session, receipt,
                 cancelling>>

\* The channel puts the run on an executor; frames may precede its handle.
Dispatched ==
  /\ start = "dispatching" /\ executor = "none"
  /\ executor' = "running"
  /\ UNCHANGED <<opening, live, timer, events, exhausted, settling, session, receipt, cancelling>>

\* channel.start resolves: the handle is kept and the wallclock armed.
DispatchResolves ==
  /\ start = "dispatching" /\ executor # "none"
  /\ start' = "open" /\ handle' = TRUE /\ timer' = TRUE
  /\ UNCHANGED <<live, executor, events, exhausted, settling, session, receipt, cancelling>>

\* channel.start throws: #failStart reports the failure if the ledger takes it
\* and settles the run.
DispatchRefused ==
  /\ start = "dispatching" /\ executor = "none"
  /\ start' = "failing"
  /\ LET said == IF live /\ declared = None THEN "failed" ELSE declared IN
     /\ held' = IF said # declared THEN "failed" ELSE held
     /\ EnterSettle({}, said)
  /\ UNCHANGED <<handle, live, executor, published, streaming, exhausted, receipt,
                 cancelling>>

\* Mutant: start() rejects without waiting for the settlement.
FailStartReturnsEarly ==
  /\ start = "failing"
  /\ start' = "rejected"
  /\ UNCHANGED <<handle, live, executor, timer, events, exhausted, settling, session, receipt,
                 cancelling>>

\* #failStart returns and start() rejects.
FailStartReturns ==
  /\ start = "failing" /\ ~live
  /\ start' = "rejected"
  /\ UNCHANGED <<handle, live, executor, timer, events, exhausted, settling, session, receipt,
                 cancelling>>
-----------------------------------------------------------------------------
(* the executor *)

Recordable == live /\ executor # "none" /\ declared = None

\* An ordinary frame: recorded, and the first one over a ceiling asks for a stop.
FrameObserved ==
  /\ Recordable
  /\ exhausted' \in {exhausted, TRUE}
  /\ IF exhausted' /\ ~cancelRequested THEN AskToStop(Budget) ELSE UNCHANGED cancelling
  /\ UNCHANGED <<opening, live, executor, timer, events, settling, session, receipt>>

\* The same event pushed as an envelope is recorded and checks no ceiling.
EnvelopeAccepted ==
  /\ Recordable
  /\ exhausted' \in {exhausted, TRUE}
  /\ UNCHANGED <<opening, live, executor, timer, events, settling, session, receipt, cancelling>>

\* run.completed or run.failed, by either door: recorded and held.
TerminalObserved(event) ==
  /\ Recordable
  /\ declared' = event /\ held' = event
  /\ UNCHANGED <<opening, live, executor, timer, published, streaming, exhausted,
                 settling, session, receipt, cancelling>>

\* A frame that breaks a run rule: the run is failed with it and settled.
FrameViolates ==
  /\ Recordable
  /\ held' = "failed"
  /\ EnterSettle({}, "failed")
  /\ UNCHANGED <<opening, live, executor, published, streaming, exhausted, receipt,
                 cancelling>>

\* The executor's stream ends.
ExecutorEnds ==
  /\ executor = "running"
  /\ executor' = "ended"
  /\ EnterSettle({}, declared)
  /\ UNCHANGED <<opening, live, held, published, streaming, exhausted, receipt,
                 cancelling>>

\* The host settles the run itself, on a terminal frame or a lost worker.
HostSettles(intent) ==
  /\ live /\ settling = "none" /\ start # "flushing"
  /\ EnterSettle(intent, declared)
  /\ UNCHANGED <<opening, live, executor, held, published, streaming, exhausted,
                 receipt, cancelling>>
-----------------------------------------------------------------------------
Starting ==
  StartedDurable \/ StartedLost \/ DispatchResolves \/ DispatchRefused \/ FailStartReturns

Observing ==
  \/ FrameObserved \/ EnvelopeAccepted \/ FrameViolates
  \/ \E event \in Declared : TerminalObserved(event)

Settling == BarrierAnswers \/ ReleaseTerminal \/ DropRun

Next ==
  \/ Starting \/ Dispatched
  \/ Observing \/ ExecutorEnds
  \/ \E intent \in {{}, {"cancel"}} : HostSettles(intent)
  \/ Settling \/ RowWritten
  \/ \E u \in Users : UserAsks(u)
  \/ WallclockFires \/ StopAnswered
  \/ \E a \in Askers : CancelResumes(a) \/ CancelAnswered(a)

Spec == Init /\ [][Next]_vars

\* start()'s promises resume, the barrier answers (SettleAnswers of RunSession), a
\* stop is bounded and a resumed cancel runs.  Executors, users and timers owe nothing.
Fairness ==
  /\ WF_vars(Starting) /\ WF_vars(Settling) /\ WF_vars(StopAnswered)
  /\ \A a \in Askers : WF_vars(CancelResumes(a)) /\ WF_vars(CancelAnswered(a))

FairSpec == Spec /\ Fairness
-----------------------------------------------------------------------------
(* Properties *)

\* Consumers are told of an ending only once it is the run row's: no frame
\* announces a verdict the barrier downgraded or a cancel overruled.
AnnouncedIsCommitted == published # None => published = terminal /\ row = terminal

\* Everybody who asked about the run got the same ending, whenever the answer was
\* read: from the session, from the settlement or from the receipt.
AnswersAgree == \A a \in Askers : ask[a] \in Answers => told[a] = terminal

\* However many askers there are, the executor is sent one stop.
OneInterrupt == stops <= 1

\* A start that was refused leaves no live run and no executor.
RejectedStartLeavesNothing ==
  start \in {"rejected", "undurable"} => ~live /\ executor = "none"

\* A run that was asked to stop before its verdict is never decided as a success.
CancelBeatsCompletion ==
  [][decided = None /\ cancelRequested => decided' # "completed"]_vars

\* A cancel is always answered, whatever the executor does with the stop.
CancelIsAnswered == \A a \in Askers : ask[a] = "stopping" ~> ask[a] \in Answers

\* What the comment on the missing handle says: there was no executor to stop.
UnavailableMeansIdle ==
  \A a \in Askers : ask[a] = "applied" /\ stopping = "unavailable" => executor # "running"
=============================================================================
