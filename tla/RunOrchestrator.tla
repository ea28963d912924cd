--------------------------- MODULE RunOrchestrator ---------------------------
(***************************************************************************)
(* The turns of one session in the Host (packages/host,                    *)
(* run-orchestrator.ts): which run the session is bound to, the queue of   *)
(* native events that feeds the durable log, and #finish, the one path a   *)
(* run leaves through, which a terminal frame, a closing response and a    *)
(* cancel all take.  The controller behind it is taken at what             *)
(* RunController shows: it settles a run once, the first caller's intent   *)
(* decides, and everybody waits for the same answer of the store.          *)
(***************************************************************************)
EXTENDS RunOutcome, Integers, Sequences

CONSTANTS
  MaxRuns,    \* bound: turns of the session
  MaxEvents,  \* bound: native events the workers emit
  Cancelled,  \* runs a caller cancels
  Stopped,    \* runs the controller stops by itself: a ceiling or the wallclock
  Closed,     \* runs whose HTTP response closes; the standalone Host has none
  HasWriter   \* the Host is given a native writer, as both deployments do

Runs == 1 .. MaxRuns
NoRun == 0
OnFrame == 0
OnCancel == -1
Callers == {OnFrame, OnCancel} \cup Runs   \* of #finish; a run stands for its response
Finishes == Runs \X Callers
NoFinish == <<NoRun, OnFrame>>

ASSUME RunsAssumption == MaxRuns \in Nat \ {0}
ASSUME EventsAssumption == MaxEvents \in Nat
ASSUME CallsAssumption == Cancelled \cup Stopped \cup Closed \subseteq Runs
ASSUME WriterAssumption == HasWriter \in BOOLEAN

VARIABLES
  (* openRun *)
  open,        \* run -> how far openRun got
  (* the session's maps *)
  bySession,   \* the live run, NoRun when there is none
  ended,       \* #endedBySession
  finishing,   \* the #finish that #finishing holds
  entry,       \* #nativeQueues has an entry: the last tail
  (* native events *)
  pending,     \* events queued, each with the run it was accepted for
  writing,     \* the head is at the writer
  sent,        \* events queued so far
  lost,        \* run -> #nativeLostByRun is positive
  hole,        \* run -> one of its accepted events is not in the durable log
  (* the controller *)
  ctl,         \* run -> "none", "live", its settlement, "ended"
  declared,    \* run -> its terminal event
  decided,     \* run -> the verdict
  terminal,    \* run -> the receipt
  row,         \* run -> runs.terminal, None while 'running'
  (* the terminal's way out *)
  attempt,     \* run -> #attemptByRun: "none", "held", "retired"
  presented,   \* run -> run:complete carried the attempt
  override,    \* run -> #committedTerminalByRun
  held,        \* run -> #terminalAwaitingCommit
  published,   \* run -> the terminal onEvent got
  told,        \* <<run, terminal>> answers given to closers and cancellers
  (* the calls *)
  fin,         \* #finish call -> "idle", "draining", "settling", "done"
  drained,     \* #finish call -> the tail its drain ended on, 0 for none
  cancel,      \* run -> where cancelRun is
  ceiling,     \* run -> where the controller's own stop is
  close,       \* run -> where its response's settleSession is, and how it asked
  awaits       \* run -> the #finish its response waits for

queue == <<entry, pending, writing, sent>>
holes == <<lost, hole>>
session == <<bySession, ended>>
control == <<ctl, declared, decided, terminal, row, presented, override>>
outlet == <<held, published, told>>
finish == <<finishing, fin, drained>>
calls == <<cancel, ceiling, close, awaits>>
vars == <<open, session, queue, holes, control, attempt, outlet, finish, calls>>

Settling == {"flushing", "completing", "degrading"}

TypeOK ==
  /\ open \in [Runs -> {"idle", "creating", "dispatching", "sent", "failing", "accepted", "refused"}]
  /\ bySession \in Runs \cup {NoRun} /\ ended \in Runs \cup {NoRun}
  /\ entry \in BOOLEAN /\ writing \in BOOLEAN
  /\ pending \in Seq(Runs \cup {NoRun}) /\ sent \in 0 .. MaxEvents
  /\ lost \in [Runs -> BOOLEAN] /\ hole \in [Runs -> BOOLEAN] /\ presented \in [Runs -> BOOLEAN]
  /\ ctl \in [Runs -> {"none", "live", "ended"} \cup Settling]
  /\ declared \in [Runs -> Declared \cup {None}]
  /\ decided \in [Runs -> Verdict \cup {None}]
  /\ terminal \in [Runs -> Terminal \cup {None}]
  /\ row \in [Runs -> Terminal \cup {None}]
  /\ attempt \in [Runs -> {"none", "held", "retired"}]
  /\ override \in [Runs -> {None, Degraded}]
  /\ held \in [Runs -> Declared \cup {None}] /\ published \in [Runs -> Declared \cup {None}]
  /\ told \subseteq Runs \X Terminal
  /\ finishing \in Finishes \cup {NoFinish}
  /\ fin \in [Finishes -> {"idle", "draining", "settling", "done"}]
  /\ drained \in [Finishes -> 0 .. MaxEvents]
  /\ cancel \in [Runs -> {"idle", "stopping", "settling", "finishing", "answered"}]
  /\ ceiling \in [Runs -> {"idle", "stopping", "done"}]
  /\ close \in [Runs -> {"idle", "closed", "disconnected", "answered"}]
  /\ awaits \in [Runs -> Finishes \cup {NoFinish}]

Init ==
  /\ open = [r \in Runs |-> "idle"]
  /\ bySession = NoRun /\ ended = NoRun
  /\ entry = FALSE /\ pending = <<>> /\ writing = FALSE /\ sent = 0
  /\ lost = [r \in Runs |-> FALSE] /\ hole = [r \in Runs |-> FALSE]
  /\ ctl = [r \in Runs |-> "none"]
  /\ declared = [r \in Runs |-> None] /\ decided = [r \in Runs |-> None]
  /\ terminal = [r \in Runs |-> None] /\ row = [r \in Runs |-> None]
  /\ attempt = [r \in Runs |-> "none"] /\ presented = [r \in Runs |-> FALSE]
  /\ override = [r \in Runs |-> None]
  /\ held = [r \in Runs |-> None] /\ published = [r \in Runs |-> None] /\ told = {}
  /\ finishing = NoFinish
  /\ fin = [f \in Finishes |-> "idle"] /\ drained = [f \in Finishes |-> 0]
  /\ cancel = [r \in Runs |-> "idle"] /\ ceiling = [r \in Runs |-> "idle"]
  /\ close = [r \in Runs |-> "idle"] /\ awaits = [r \in Runs |-> NoFinish]
-----------------------------------------------------------------------------
Opening(r) == open[r] \in {"creating", "dispatching", "sent", "failing"}

\* isSessionBusy
Busy == (\E r \in Runs : Opening(r)) \/ bySession # NoRun \/ finishing # NoFinish

\* The run's worker was told to begin.
Working(r) == open[r] \in {"sent", "accepted"}

StatusOf(t) == IF t \in {"failed", "escalated", Degraded} THEN "failed" ELSE t

\* Mutant: the runtime's verdict is what consumers are told.
DurableTerminalRuntime(r) == terminal[r]

\* #durableTerminalFor: what the row holds outranks what the runtime reached.
DurableTerminal(r) ==
  IF ctl[r] = "ended" /\ override[r] # None THEN override[r] ELSE terminal[r]

Tell(r) == told' = told \cup (IF r = NoRun \/ DurableTerminal(r) = None THEN {}
                              ELSE {<<r, DurableTerminal(r)>>})
-----------------------------------------------------------------------------
(* the controller's settle *)

\* Mutant: the attempt number is taken with the binding when it is released.
PresentsBinding(r) == attempt[r] = "held"

\* run:complete carries the attempt as long as it is bound, retired or not.
Presents(r) == attempt[r] # "none"

CancelAsked(r) == cancel[r] \in {"stopping", "settling"} \/ ceiling[r] = "stopping"

\* The synchronous part of settle: the first caller decides, the others join it.
EnterSettle(r, intent, exhausted, said) ==
  IF ctl[r] = "live"
    THEN LET merged == intent \cup IF CancelAsked(r) THEN {"cancel"} ELSE {}
             verdict == ResolveRunOutcome(said, merged, exhausted) IN
         /\ ctl' = [ctl EXCEPT ![r] = "flushing"]
         /\ decided' = [decided EXCEPT ![r] = verdict]
         /\ declared' = [declared EXCEPT ![r] = IF said = None THEN EventOf(verdict) ELSE said]
         /\ UNCHANGED <<terminal, row, presented, override>>
    ELSE UNCHANGED control

\* Mutant: run:complete is sent with the runtime's verdict, holes or not.
FlushAnswersBlind(r) ==
  /\ ctl[r] = "flushing"
  /\ ctl' = [ctl EXCEPT ![r] = "completing"]
  /\ presented' = [presented EXCEPT ![r] = Presents(r)]
  /\ UNCHANGED <<declared, decided, terminal, row, override>>
  /\ UNCHANGED <<open, session, queue, holes, attempt, outlet, finish, calls>>

\* The settlement's flush, then run:complete.  A counted loss refuses the flush,
\* if it has anything left to append, and otherwise replaces a verdict that is
\* not a failure.
FlushAnswers(r) ==
  /\ ctl[r] = "flushing"
  /\ \/ /\ lost[r]
        /\ ctl' = [ctl EXCEPT ![r] = "degrading"]
        /\ UNCHANGED override
     \/ /\ ctl' = [ctl EXCEPT ![r] = "completing"]
        /\ override' = [override EXCEPT ![r] =
             IF lost[r] /\ StatusOf(decided[r]) # "failed" THEN Degraded ELSE @]
  /\ presented' = [presented EXCEPT ![r] = Presents(r)]
  /\ UNCHANGED <<declared, decided, terminal, row>>
  /\ UNCHANGED <<open, session, queue, holes, attempt, outlet, finish, calls>>

Proposed(r) == IF ctl[r] = "degrading" \/ override[r] # None THEN Degraded ELSE decided[r]

\* run:complete is acknowledged, or it is refused, or it lands and its answer
\* does not arrive: then the runtime's verdict is persistence_failed.
CompleteAnswers(r) ==
  /\ ctl[r] \in {"completing", "degrading"}
  /\ ctl' = [ctl EXCEPT ![r] = "ended"]
  /\ \E lands, acknowledged \in BOOLEAN :
       /\ acknowledged => lands
       /\ lands => presented[r]
       /\ row' = [row EXCEPT ![r] = IF lands THEN Proposed(r) ELSE @]
       /\ terminal' = [terminal EXCEPT ![r] =
            IF acknowledged /\ ctl[r] = "completing" THEN decided[r] ELSE Degraded]
  /\ UNCHANGED <<declared, decided, presented, override>>
  /\ UNCHANGED <<open, session, queue, holes, attempt, outlet, finish, calls>>
-----------------------------------------------------------------------------
(* #finish *)

StartFinish(f) ==
  /\ finishing' = f
  /\ fin' = [fin EXCEPT ![f] = "draining"]
  /\ UNCHANGED drained

\* A cancel and a client that went away say that the host stopped the run; the
\* backstop of a closed response says nothing.
IntentOf(f) ==
  IF f[2] = OnCancel \/ (f[2] \in Runs /\ close[f[2]] = "disconnected") THEN {"cancel"} ELSE {}

\* Mutant: the binding is released at once.
DrainEndsAtOnce(f) ==
  /\ fin[f] = "draining"
  /\ fin' = [fin EXCEPT ![f] = "settling"]
  /\ drained' = [drained EXCEPT ![f] = IF entry THEN sent ELSE 0]
  /\ bySession' = IF bySession = f[1] THEN NoRun ELSE bySession
  /\ ended' = IF bySession = f[1] THEN f[1] ELSE ended
  /\ attempt' = [attempt EXCEPT ![f[1]] = IF @ = "held" THEN "retired" ELSE @]
  /\ EnterSettle(f[1], IntentOf(f), FALSE, declared[f[1]])
  /\ UNCHANGED <<open, queue, holes, outlet, finishing, calls>>

\* Everything queued was written or refused: the binding is released, the
\* attempt retired, and the run is settled unless somebody already did.
DrainEnds(f) ==
  /\ fin[f] = "draining" /\ pending = <<>>
  /\ fin' = [fin EXCEPT ![f] = "settling"]
  /\ drained' = [drained EXCEPT ![f] = IF entry THEN sent ELSE 0]
  /\ bySession' = IF bySession = f[1] THEN NoRun ELSE bySession
  /\ ended' = IF bySession = f[1] THEN f[1] ELSE ended
  /\ attempt' = [attempt EXCEPT ![f[1]] = IF @ = "held" THEN "retired" ELSE @]
  /\ EnterSettle(f[1], IntentOf(f), FALSE, declared[f[1]])
  /\ UNCHANGED <<open, queue, holes, outlet, finishing, calls>>

\* #releaseTerminalToConsumers announces what the row's terminal agrees with.
Releases(r) == held[r] # None /\ StatusOf(DurableTerminal(r)) = held[r]

\* The settlement answered: the counters go, the held terminal is announced or
\* dropped, and the maps are cleaned of what still is this call's.
FinishEnds(f) ==
  LET r == f[1] IN
  /\ fin[f] = "settling" /\ ctl[r] = "ended"
  /\ fin' = [fin EXCEPT ![f] = "done"]
  /\ lost' = [lost EXCEPT ![r] = FALSE]
  /\ held' = [held EXCEPT ![r] = None]
  /\ published' = [published EXCEPT ![r] = IF Releases(r) THEN held[r] ELSE @]
  /\ finishing' = IF finishing = f THEN NoFinish ELSE finishing
  /\ attempt' = [attempt EXCEPT ![r] = "none"]
  /\ entry' = (entry /\ drained[f] # sent)
  /\ UNCHANGED <<open, session, pending, writing, sent, hole, control, told, drained, calls>>
-----------------------------------------------------------------------------
(* openRun *)

\* The session is taken and the attempt begun, before the row is asked for.
OpenRun(r) ==
  /\ open[r] = "idle" /\ \A q \in Runs : q < r => open[q] # "idle"
  /\ ~Busy
  /\ open' = [open EXCEPT ![r] = "creating"]
  /\ attempt' = [attempt EXCEPT ![r] = "held"]
  /\ UNCHANGED <<session, queue, holes, control, outlet, finish, calls>>

\* Refused before the dispatch; a row that may exist is closed as abandoned.
OpenRefused(r) ==
  /\ open[r] = "creating"
  /\ open' = [open EXCEPT ![r] = "refused"]
  /\ attempt' = [attempt EXCEPT ![r] = "none"]
  /\ row' \in {row, [row EXCEPT ![r] = "failed"]}
  /\ UNCHANGED <<ctl, declared, decided, terminal, presented, override>>
  /\ UNCHANGED <<session, queue, holes, outlet, finish, calls>>

\* onDispatchReady: run.started is durable, the command is not sent yet.
DispatchReady(r) ==
  /\ open[r] = "creating"
  /\ open' = [open EXCEPT ![r] = "dispatching"]
  /\ ctl' = [ctl EXCEPT ![r] = "live"]
  /\ bySession' = r /\ ended' = NoRun
  /\ UNCHANGED <<declared, decided, terminal, row, presented, override>>
  /\ UNCHANGED <<queue, holes, attempt, outlet, finish, calls>>

Dispatch(r) ==
  /\ open[r] = "dispatching"
  /\ open' = [open EXCEPT ![r] = "sent"]
  /\ UNCHANGED <<session, queue, holes, control, attempt, outlet, finish, calls>>

\* The channel refuses: the controller fails the run and settles it.
DispatchFails(r) ==
  /\ open[r] = "dispatching"
  /\ open' = [open EXCEPT ![r] = "failing"]
  /\ EnterSettle(r, {}, FALSE, IF declared[r] = None THEN "failed" ELSE declared[r])
  /\ UNCHANGED <<session, queue, holes, attempt, outlet, finish, calls>>

\* start threw: every binding of the run is dropped.
OpenFails(r) ==
  /\ open[r] = "failing" /\ ctl[r] = "ended"
  /\ open' = [open EXCEPT ![r] = "refused"]
  /\ attempt' = [attempt EXCEPT ![r] = "none"]
  /\ bySession' = IF bySession = r THEN NoRun ELSE bySession
  /\ UNCHANGED <<ended, queue, holes, control, outlet, finish, calls>>

OpenAccepted(r) ==
  /\ open[r] = "sent"
  /\ open' = [open EXCEPT ![r] = "accepted"]
  /\ UNCHANGED <<session, queue, holes, control, attempt, outlet, finish, calls>>
-----------------------------------------------------------------------------
(* frames of the workers *)

\* queueNativeRunEvent: with no live run the frame is dropped at the door.
NativeEvent(r) ==
  /\ Working(r)
  /\ bySession # NoRun /\ sent < MaxEvents
  /\ pending' = Append(pending, IF bySession = r THEN r ELSE NoRun)
  /\ sent' = sent + 1 /\ entry' = TRUE
  /\ UNCHANGED <<open, session, writing, holes, control, attempt, outlet, finish, calls>>

\* #appendNativeRunEvent refuses an event whose run is not the live one, and any
\* event when there is no writer: nobody counts either as a loss.
AppendRefused ==
  /\ pending # <<>> /\ ~writing
  /\ LET r == Head(pending) IN
     /\ r = NoRun \/ r # bySession \/ ~HasWriter
     /\ hole' = IF r = NoRun THEN hole ELSE [hole EXCEPT ![r] = TRUE]
  /\ pending' = Tail(pending)
  /\ UNCHANGED <<open, session, entry, writing, sent, lost, control, attempt, outlet, finish, calls>>

AppendStarts ==
  /\ HasWriter /\ pending # <<>> /\ ~writing
  /\ bySession # NoRun /\ Head(pending) = bySession
  /\ writing' = TRUE
  /\ UNCHANGED <<open, session, entry, pending, sent, holes, control, attempt, outlet, finish, calls>>

\* Mutant: a refused batch is logged and not counted.
AppendAnswersUncounted ==
  /\ writing /\ writing' = FALSE
  /\ pending' = Tail(pending)
  /\ hole' \in {hole, [hole EXCEPT ![Head(pending)] = TRUE]}
  /\ UNCHANGED <<open, session, entry, sent, lost, control, attempt, outlet, finish, calls>>

\* The writer answers: stored, or refused by the attempt fence, which is not a
\* loss; or conflicting, failed or thrown, which is counted.
AppendAnswers ==
  /\ writing /\ writing' = FALSE
  /\ pending' = Tail(pending)
  /\ \/ UNCHANGED holes
     \/ /\ lost' = [lost EXCEPT ![Head(pending)] = TRUE]
        /\ hole' = [hole EXCEPT ![Head(pending)] = TRUE]
  /\ UNCHANGED <<open, session, entry, sent, control, attempt, outlet, finish, calls>>

\* Mutant: the terminal frame is recorded and the run left to the close event.
TerminalFrameStays(r, said) ==
  /\ Working(r)
  /\ bySession # NoRun
  /\ LET q == bySession IN
     /\ ctl[q] \in {"live"} \cup Settling /\ declared[q] = None
     /\ declared' = [declared EXCEPT ![q] = said]
     /\ held' = [held EXCEPT ![q] = said]
  /\ UNCHANGED <<ctl, decided, terminal, row, presented, override>>
  /\ UNCHANGED <<open, session, queue, holes, attempt, published, told, finish, calls>>

\* observe, on the frame that ends a run: it names a session and no run, so it is
\* the live run's.  The ending is held and the run starts to leave.
TerminalFrame(r, said) ==
  /\ Working(r)
  /\ bySession # NoRun
  /\ LET q == bySession IN
     /\ ctl[q] \in {"live"} \cup Settling /\ declared[q] = None
     /\ declared' = [declared EXCEPT ![q] = said]
     /\ held' = [held EXCEPT ![q] = said]
     /\ StartFinish(<<q, OnFrame>>)
  /\ UNCHANGED <<ctl, decided, terminal, row, presented, override>>
  /\ UNCHANGED <<open, session, queue, holes, attempt, published, told, calls>>

\* A frame that breaks a run rule: the controller fails the run and settles it
\* without being asked, and the envelope it returns is held like any ending.
ViolatingFrame(r) ==
  /\ Working(r)
  /\ bySession # NoRun
  /\ LET q == bySession IN
     /\ ctl[q] = "live" /\ declared[q] = None
     /\ EnterSettle(q, {}, FALSE, "failed")
     /\ held' = [held EXCEPT ![q] = "failed"]
     /\ StartFinish(<<q, OnFrame>>)
  /\ UNCHANGED <<open, session, queue, holes, attempt, published, told, calls>>
-----------------------------------------------------------------------------
(* settleSession, from the close events of a request *)

\* The response's own close is the backstop, armed before openRun; the client's
\* going away before the run ended is told of an accepted run, with the host's
\* intent to stop it.  A disconnect closes the response as well, and the call that
\* comes second finds the first in #finishing: the one that starts #finish counts.
CloseAsks(r, how) ==
  /\ r \in Closed /\ close[r] = "idle" /\ open[r] # "idle"
  /\ how = "disconnected" => open[r] = "accepted" /\ declared[r] = None
  /\ IF finishing # NoFinish
       THEN /\ awaits' = [awaits EXCEPT ![r] = finishing]
            /\ close' = [close EXCEPT ![r] = how]
            /\ UNCHANGED <<finish, told>>
       ELSE IF bySession = NoRun
              THEN /\ close' = [close EXCEPT ![r] = "answered"]
                   /\ UNCHANGED <<finish, awaits, told>>
              ELSE /\ StartFinish(<<bySession, r>>)
                   /\ awaits' = [awaits EXCEPT ![r] = <<bySession, r>>]
                   /\ close' = [close EXCEPT ![r] = how]
                   /\ UNCHANGED told
  /\ UNCHANGED <<open, session, queue, holes, control, attempt, held, published, cancel, ceiling>>

\* #terminalFor the live run or the last one; the non-SSE answer is read the same way.
CloseAnswers(r) ==
  /\ close[r] \in {"closed", "disconnected"} /\ fin[awaits[r]] = "done"
  /\ close' = [close EXCEPT ![r] = "answered"]
  /\ Tell(IF bySession # NoRun THEN bySession ELSE ended)
  /\ UNCHANGED <<open, session, queue, holes, control, attempt, held, published, finish,
                 cancel, ceiling, awaits>>
-----------------------------------------------------------------------------
(* cancelRun *)

\* A run that ended is answered from its receipt, and finished once more.
CancelAsks(r) ==
  /\ r \in Cancelled /\ cancel[r] = "idle"
  /\ ctl[r] # "none"
  /\ IF ctl[r] = "ended"
       THEN /\ StartFinish(<<r, OnCancel>>)
            /\ cancel' = [cancel EXCEPT ![r] = "finishing"]
       ELSE /\ cancel' = [cancel EXCEPT ![r] = "stopping"]
            /\ UNCHANGED finish
  /\ UNCHANGED <<open, session, queue, holes, control, attempt, outlet, ceiling, close, awaits>>

\* The executor's stop is answered, or its bound ran out: the CONTROLLER settles.
CancelStops(r) ==
  /\ cancel[r] = "stopping"
  /\ cancel' = [cancel EXCEPT ![r] = "settling"]
  /\ \E intent \in {{"cancel"}, {"cancel", "escalated"}} : EnterSettle(r, intent, FALSE, declared[r])
  /\ UNCHANGED <<open, session, queue, holes, attempt, outlet, finish, ceiling, close, awaits>>

\* Only then does the Host let the run go.
CancelSettled(r) ==
  /\ cancel[r] = "settling" /\ ctl[r] = "ended"
  /\ cancel' = [cancel EXCEPT ![r] = "finishing"]
  /\ StartFinish(<<r, OnCancel>>)
  /\ UNCHANGED <<open, session, queue, holes, control, attempt, outlet, ceiling, close, awaits>>

\* controller.cancel threw: the run is closed all the same.
CancelThrows(r) ==
  /\ cancel[r] = "stopping"
  /\ cancel' = [cancel EXCEPT ![r] = "finishing"]
  /\ StartFinish(<<r, OnCancel>>)
  /\ UNCHANGED <<open, session, queue, holes, control, attempt, outlet, ceiling, close, awaits>>

CancelAnswers(r) ==
  /\ cancel[r] = "finishing" /\ fin[<<r, OnCancel>>] = "done"
  /\ cancel' = [cancel EXCEPT ![r] = "answered"]
  /\ Tell(r)
  /\ UNCHANGED <<open, session, queue, holes, control, attempt, held, published, finish,
                 ceiling, close, awaits>>
-----------------------------------------------------------------------------
(* stops the controller orders itself: #enforceBudget and the wallclock *)

CeilingReached(r) ==
  /\ r \in Stopped /\ ceiling[r] = "idle"
  /\ open[r] = "accepted" /\ ctl[r] \in {"live"} \cup Settling
  /\ ceiling' = [ceiling EXCEPT ![r] = "stopping"]
  /\ UNCHANGED <<open, session, queue, holes, control, attempt, outlet, finish, cancel, close, awaits>>

\* Its stop is answered and it settles; the Host is not called.
CeilingStops(r) ==
  /\ ceiling[r] = "stopping"
  /\ ceiling' = [ceiling EXCEPT ![r] = "done"]
  /\ \E exhausted \in BOOLEAN : EnterSettle(r, {"cancel"}, exhausted, declared[r])
  /\ UNCHANGED <<open, session, queue, holes, attempt, outlet, finish, cancel, close, awaits>>
-----------------------------------------------------------------------------
Resumes(r) ==
  \/ OpenRefused(r) \/ DispatchReady(r) \/ Dispatch(r) \/ DispatchFails(r)
  \/ OpenFails(r) \/ OpenAccepted(r)
  \/ FlushAnswers(r) \/ CompleteAnswers(r)
  \/ CancelStops(r) \/ CancelSettled(r) \/ CancelThrows(r) \/ CancelAnswers(r)
  \/ CloseAnswers(r) \/ CeilingStops(r)

Appending == AppendRefused \/ AppendStarts \/ AppendAnswers

Frames(r) ==
  \/ NativeEvent(r) \/ ViolatingFrame(r)
  \/ \E said \in {"completed", "failed"} : TerminalFrame(r, said)

Next ==
  \/ \E r \in Runs :
       \/ OpenRun(r) \/ Resumes(r) \/ Frames(r)
       \/ CloseAsks(r, "closed") \/ CloseAsks(r, "disconnected")
       \/ CancelAsks(r) \/ CeilingReached(r)
  \/ Appending
  \/ \E f \in Finishes : DrainEnds(f) \/ FinishEnds(f)

Spec == Init /\ [][Next]_vars

\* The Host's own promises resume and the store answers one way or the other.
\* Workers, users and sockets owe nothing.
Fairness ==
  /\ WF_vars(Appending)
  /\ \A r \in Runs : WF_vars(Resumes(r))
  /\ \A f \in Finishes : WF_vars(DrainEnds(f)) /\ WF_vars(FinishEnds(f))

FairSpec == Spec /\ Fairness
-----------------------------------------------------------------------------
(* Properties *)

\* Consumers, closing responses and cancellers are told of an ending other than
\* a failure only when it is the row's.
ToldSuccessIsDurable ==
  /\ \A r \in Runs : published[r] \notin {None, "failed"} => row[r] = published[r]
  /\ \A t \in told : StatusOf(t[2]) # "failed" => row[t[1]] = t[2]

\* A row that says completed summarises a log without holes: where there is a log,
\* every event its session took in for it is stored.
NoSuccessOverAHole == HasWriter => \A r \in Runs : row[r] = "completed" => ~hole[r]

\* The stronger promise of the drain, which a run keeps that nobody stops:
\* whatever the ending, a disconnect's included, a hole is admitted.
HoleIsAdmitted ==
  HasWriter => \A r \in Runs \ (Cancelled \cup Stopped) :
    row[r] # None /\ hole[r] => StatusOf(row[r]) = "failed"

\* An event taken in for a live run is offered to the log before the binding it
\* is checked against is released.
QueuedUnderBinding == \A i \in 1 .. Len(pending) : pending[i] \in {NoRun, bySession}

\* No terminal is asked for without the attempt that may land it.
TerminalIsFenced == \A r \in Runs : ctl[r] \in {"completing", "degrading"} => presented[r]


\* A run that has its terminal event ends and lets its session go, however the
\* calls that end it overlap.
EndedRunLeaves == \A r \in Runs : declared[r] # None ~> ctl[r] = "ended" /\ bySession # r
=============================================================================
