----------------------------- MODULE RunEngine -----------------------------
(***************************************************************************)
(* One run of the engine (packages/agent-runtime/src/engine): the loop of  *)
(* turns that asks the model, dispatches the calls it makes, drains their  *)
(* results and decides whether to go on, with the compaction, the          *)
(* inter-turn polls, the interrupt and the crash that may fall between any *)
(* two of its awaits.  The tools are the turn's publication, ToolPort.     *)
(***************************************************************************)
EXTENDS Integers, FiniteSets

CONSTANTS
  Id,              \* calls the model may make in the run: bounds the model
  Ceiling,         \* maxTurns
  MaxRecoveries,   \* outputRecovery.limit
  MaxPolls,        \* FINAL_POLL_MAX_ABSORBS
  Budgeted         \* whether a budget port is bound; the worker binds none

ASSUME EngineAssumption ==
  /\ Ceiling \in Nat \ {0} /\ MaxRecoveries \in Nat /\ MaxPolls \in Nat
  /\ Budgeted \in BOOLEAN /\ IsFiniteSet(Id)

None == "none"
ASSUME NoneAssumption == None \notin Id

VARIABLES
  pc,          \* the await or the step the run stands at
  turn,        \* spend.turns
  exit,        \* why the loop was left
  terminal,    \* the terminal proposed
  over,        \* the budget is exhausted
  now,         \* the call being dispatched or settled
  touched,     \* turnWork: the turn's calls that were dispatched or refused
  shown,       \* the call's events published: "none", "started", "completed"
  ledger,      \* the call's durable row: "none", "dispatched", "settled"
  unread,      \* what the model has not been sent: "result", "message"
  truncated,   \* the last answer stopped at the output limit
  recoveries,  \* outputRecovery.attempts
  polls,       \* finalPollAbsorbs
  asked, answered, stage, cut   \* of ToolPort; cut is the run's abort signal

Tools == INSTANCE ToolPort WITH
  asked <- asked, answered <- answered, stage <- stage, cut <- cut

loop == <<turn, over, recoveries, polls>>
calls == <<now, touched, shown, ledger>>
ends == <<exit, terminal>>
port == <<asked, answered, stage, cut>>
vars == <<pc, loop, ends, calls, unread, truncated, port>>

Awaits ==
  {"starting", "top", "assembling", "compacting", "sweeping", "requesting", "streaming",
   "authorizing", "beginning", "begun", "emergency", "retrying", "draining", "settling",
   "turned", "deciding", "vetting", "polling", "repolling", "committing"}
Over == {"finalizing", "ended", "dead"}

Exits == {"completed", "stopped", "max_turns", "repeated_tool_calls", "budget_exhausted",
          "cancelled", "failed"}

TypeOK ==
  /\ pc \in Awaits \cup Over
  /\ turn \in 0 .. Ceiling
  /\ exit \in Exits \cup {None}
  /\ terminal \in {None, "completed", "budget_exhausted", "cancelled", "failed"}
  /\ over \in BOOLEAN /\ truncated \in BOOLEAN
  /\ now \in Id \cup {None} /\ touched \subseteq Id
  /\ shown \in [Id -> {"none", "started", "completed"}]
  /\ ledger \in [Id -> {"none", "dispatched", "settled"}]
  /\ unread \subseteq {"result", "message"}
  /\ recoveries \in 0 .. MaxRecoveries /\ polls \in 0 .. MaxPolls
  /\ Tools!TypeOK

Init ==
  /\ pc = "starting" /\ turn = 0 /\ exit = None /\ terminal = None
  /\ over = FALSE /\ now = None /\ touched = {}
  /\ shown = [i \in Id |-> "none"] /\ ledger = [i \in Id |-> "none"]
  /\ unread = {} /\ truncated = FALSE /\ recoveries = 0 /\ polls = 0
  /\ asked = {} /\ answered = {} /\ stage = "none" /\ cut = FALSE
-----------------------------------------------------------------------------
(* Leaving the loop *)

\* break, with an exit: the finally block is next.
Leave(reason) == exit' = reason /\ pc' = "finalizing"

\* The catch of the run: an error is a cancellation when the run is interrupted.
ThrownExit == IF cut THEN "cancelled" ELSE "failed"

\* tools.discard and then leave; the publication refuses a second discard, and
\* a run that has none, by throwing.
DiscardAndLeave(reason) ==
  \/ Tools!Discard /\ Leave(reason)
  \/ ~Tools!Usable /\ Leave(ThrownExit) /\ UNCHANGED port

\* A port's await throws.
Throws ==
  /\ pc \in Awaits \ {"top", "retrying", "turned", "deciding"}
  /\ Leave(ThrownExit)
  /\ UNCHANGED <<loop, terminal, calls, unread, truncated, port>>

\* The finally block: it proposes the one terminal, and nothing in it is let out.
Finalize ==
  /\ pc = "finalizing"
  /\ pc' = "ended"
  /\ terminal' = IF exit \in {"cancelled", "failed", "budget_exhausted"}
                   THEN exit ELSE "completed"
  /\ UNCHANGED <<loop, exit, calls, unread, truncated, port>>
-----------------------------------------------------------------------------
(* The head of a turn *)

\* A command that answers the prompt ends the run before its first turn.
Start ==
  /\ pc = "starting"
  /\ \/ pc' = "top" /\ UNCHANGED exit
     \/ Leave("completed")
  /\ UNCHANGED <<loop, terminal, calls, unread, truncated, port>>

\* The budget and the interrupt are looked at before the turn begins.
BeginTurn ==
  /\ pc = "top"
  /\ \/ over /\ DiscardAndLeave("budget_exhausted") /\ UNCHANGED <<turn, touched>>
     \/ ~over /\ cut /\ DiscardAndLeave("cancelled") /\ turn' = turn + 1 /\ touched' = {}
     \/ ~over /\ ~cut /\ pc' = "assembling" /\ turn' = turn + 1 /\ touched' = {}
        /\ UNCHANGED <<exit, port>>
  /\ UNCHANGED <<terminal, over, recoveries, polls, now, shown, ledger, unread, truncated>>

\* context.assemble publishes the turn's pipeline.
Assemble ==
  /\ pc = "assembling"
  /\ Tools!Publish
  /\ pc' = "compacting"
  /\ UNCHANGED <<loop, ends, calls, unread, truncated>>

\* The proactive pass: only a failure of it ends the run.
Compact ==
  /\ pc = "compacting"
  /\ \/ pc' = "sweeping" /\ UNCHANGED exit
     \/ Leave("failed")
  /\ UNCHANGED <<loop, terminal, calls, unread, truncated, port>>

\* interTurn.sweep: messages may be absorbed, and the host may stop the run.
Absorb == unread' \in {unread, unread \cup {"message"}}

Sweep ==
  /\ pc = "sweeping" /\ Absorb
  /\ \/ pc' = "requesting" /\ UNCHANGED exit
     \/ Leave("stopped")
  /\ UNCHANGED <<loop, terminal, calls, truncated, port>>

\* The request is built from all that is deferred, and the stream opened unless
\* the run is interrupted.
Request ==
  /\ pc = "requesting"
  /\ unread' = {}
  /\ \/ cut /\ DiscardAndLeave("cancelled")
     \/ ~cut /\ pc' = "streaming" /\ UNCHANGED <<exit, port>>
  /\ UNCHANGED <<loop, terminal, calls, truncated>>
-----------------------------------------------------------------------------
(* The stream *)

\* A frame that arrives after the interrupt, or that says so, ends the run.
StreamCancelled ==
  /\ pc = "streaming"
  /\ DiscardAndLeave("cancelled")
  /\ UNCHANGED <<loop, terminal, calls, unread, truncated>>

\* A tool_use frame.
ToolUse(i) ==
  /\ pc = "streaming" /\ ~cut /\ shown[i] = "none"
  /\ now' = i /\ pc' = "authorizing"
  /\ UNCHANGED <<loop, ends, touched, shown, ledger, unread, truncated, port>>

\* A frame that cannot be retried: the calls of the turn are dropped.
StreamFails ==
  /\ pc = "streaming" /\ ~cut
  /\ \/ Tools!Discard /\ pc' = "emergency" /\ UNCHANGED exit
     \/ ~Tools!Usable /\ Leave(ThrownExit) /\ UNCHANGED port
  /\ UNCHANGED <<loop, terminal, calls, unread, truncated>>

\* The stream ends without a frame.
StreamIsEmpty ==
  /\ pc = "streaming" /\ touched = {}
  /\ pc' = "emergency"
  /\ UNCHANGED <<loop, ends, calls, unread, truncated, port>>

\* The stream ends; what it said is published, and the drain begins, which the
\* publication refuses when it was discarded.
StreamEnds ==
  /\ pc = "streaming"
  /\ \E length \in BOOLEAN : truncated' = length
  /\ \/ Tools!Drain({}) /\ pc' = "draining" /\ UNCHANGED exit
     \/ stage # "open" /\ Leave(ThrownExit) /\ UNCHANGED port
  /\ UNCHANGED <<loop, terminal, calls, unread>>

\* Mutant: a declined compaction earns the retry as well.
EarnsRetryUnlessCancelled(kind) == kind # "cancelled"

EarnsRetry(kind) == kind = "replaced"

\* The emergency pass after a failed request; anything but a replacement keeps
\* the failure.
EmergencyCompact(kind) ==
  /\ pc = "emergency"
  /\ \/ EarnsRetry(kind) /\ pc' = "retrying" /\ UNCHANGED exit
     \/ ~EarnsRetry(kind) /\ Leave("failed")
  /\ UNCHANGED <<loop, terminal, calls, unread, truncated, port>>

\* tools.discard('model_retry'), and the same turn again.
RetryTurn ==
  /\ pc = "retrying"
  /\ \/ Tools!Discard /\ pc' = "top" /\ turn' = turn - 1 /\ UNCHANGED exit
     \/ ~Tools!Usable /\ Leave(ThrownExit) /\ UNCHANGED <<turn, port>>
  /\ UNCHANGED <<terminal, over, recoveries, polls, calls, unread, truncated>>
-----------------------------------------------------------------------------
(* dispatchCall *)

\* Mutant: a refused call is not counted as work of the turn.
RefuseUncounted(i) ==
  /\ shown' = [shown EXCEPT ![i] = "completed"]
  /\ unread' = unread \cup {"result"}
  /\ UNCHANGED touched
  /\ now' = None /\ pc' = "streaming"

\* refuseCall: both events of the call at once, and a result the model will read.
Refuse(i) ==
  /\ shown' = [shown EXCEPT ![i] = "completed"]
  /\ unread' = unread \cup {"result"}
  /\ touched' = touched \cup {i}
  /\ now' = None /\ pc' = "streaming"

Denied ==
  /\ pc = "authorizing"
  /\ Refuse(now)
  /\ UNCHANGED <<loop, ends, ledger, truncated, port>>

\* The call is allowed; an exhausted budget drops the turn's calls and refuses it.
Authorized ==
  /\ pc = "authorizing"
  /\ \/ /\ ~over
        /\ pc' = "beginning"
        /\ UNCHANGED <<exit, calls, unread, port>>
     \/ over /\ Tools!Discard /\ Refuse(now) /\ UNCHANGED <<exit, ledger>>
     \/ /\ over /\ ~Tools!Usable
        /\ Leave(ThrownExit)
        /\ UNCHANGED <<calls, unread, port>>
  /\ UNCHANGED <<loop, terminal, truncated>>

\* Mutant: the call is begun without a record of it.
BeginUnrecorded ==
  /\ pc = "beginning"
  /\ shown' = [shown EXCEPT ![now] = "started"]
  /\ pc' = "begun"
  /\ UNCHANGED <<loop, ends, now, touched, ledger, unread, truncated, port>>

\* The ledger's row is durable before the call is announced and dispatched.
Begin ==
  /\ pc = "beginning"
  /\ ledger' = [ledger EXCEPT ![now] = "dispatched"]
  /\ shown' = [shown EXCEPT ![now] = "started"]
  /\ pc' = "begun"
  /\ UNCHANGED <<loop, ends, now, touched, unread, truncated, port>>

\* After before_tool: tools.dispatch, which a discarded publication refuses.
Dispatch ==
  /\ pc = "begun"
  /\ \/ Tools!Queue(now) /\ touched' = touched \cup {now} /\ now' = None
        /\ pc' = "streaming" /\ UNCHANGED exit
     \/ /\ stage # "open"
        /\ Leave(ThrownExit)
        /\ UNCHANGED <<now, touched, port>>
  /\ UNCHANGED <<loop, terminal, shown, ledger, unread, truncated>>
-----------------------------------------------------------------------------
(* The drain *)

\* An item of the drain, seen after the interrupt: the drain is abandoned.
DrainAbandoned ==
  /\ pc = "draining" /\ cut
  /\ \/ Tools!Discard /\ pc' = "turned" /\ UNCHANGED exit
     \/ ~Tools!Usable /\ Leave(ThrownExit) /\ UNCHANGED port
  /\ UNCHANGED <<loop, terminal, calls, unread, truncated>>

\* A result: commitToolResult settles its row first.
DrainItem(i) ==
  /\ pc = "draining" /\ ~cut
  /\ Tools!Answer(i)
  /\ now' = i /\ pc' = "settling"
  /\ UNCHANGED <<loop, ends, touched, shown, ledger, unread, truncated>>

\* ... and then shows it and defers it to the next request.
Settle ==
  /\ pc = "settling"
  /\ ledger' = [ledger EXCEPT ![now] = "settled"]
  /\ shown' = [shown EXCEPT ![now] = "completed"]
  /\ unread' = unread \cup {"result"}
  /\ now' = None /\ pc' = "draining"
  /\ UNCHANGED <<loop, ends, touched, truncated, port>>

DrainEnds ==
  /\ pc = "draining"
  /\ Tools!End
  /\ pc' = "turned"
  /\ UNCHANGED <<loop, ends, calls, unread, truncated>>

\* Mutant: the interrupt is not looked at between the drain and the decision.
TurnCompletedUnchecked ==
  /\ pc = "turned"
  /\ pc' = "deciding"
  /\ UNCHANGED <<loop, ends, calls, unread, truncated, port>>

\* After the preflight pass: the turn is over, and the interrupt looked at.
TurnCompleted ==
  /\ pc = "turned"
  /\ \/ cut /\ DiscardAndLeave("cancelled")
     \/ ~cut /\ pc' = "deciding" /\ UNCHANGED <<exit, port>>
  /\ UNCHANGED <<loop, terminal, calls, unread, truncated>>
-----------------------------------------------------------------------------
(* shouldStop *)

\* Mutant: one turn too many.
CeilingPassed == turn > Ceiling

CeilingReached == turn >= Ceiling

\* The checks before the first await: a truncated answer is continued while
\* there is a recovery and a turn left; a streak of one call, of this turn or an
\* earlier one, may stop the run.
Decide ==
  /\ pc = "deciding"
  /\ \/ /\ truncated /\ (recoveries = MaxRecoveries \/ CeilingReached)
        /\ Leave("failed") /\ UNCHANGED <<recoveries, unread>>
     \/ /\ truncated /\ recoveries < MaxRecoveries /\ ~CeilingReached
        /\ recoveries' = recoveries + 1 /\ unread' = unread \cup {"message"}
        /\ pc' = "top" /\ UNCHANGED exit
     \/ /\ ~truncated /\ CeilingReached
        /\ Leave("max_turns") /\ UNCHANGED <<recoveries, unread>>
     \/ /\ ~truncated /\ ~CeilingReached /\ (touched # {} \/ turn > 1)
        /\ Leave("repeated_tool_calls") /\ UNCHANGED <<recoveries, unread>>
     \/ /\ ~truncated /\ ~CeilingReached
        /\ pc' = "vetting" /\ UNCHANGED <<exit, recoveries, unread>>
  /\ UNCHANGED <<turn, over, polls, terminal, calls, truncated, port>>

\* before_finalize: a veto goes on, and so does a turn that did work.
BeforeFinalize ==
  /\ pc = "vetting"
  /\ \/ pc' = "top"
     \/ touched = {} /\ pc' = "polling"
  /\ UNCHANGED <<loop, ends, calls, unread, truncated, port>>

\* The first final poll: stop, go on with what it brought, or ask once more.
FinalPoll ==
  /\ pc = "polling"
  /\ \/ Absorb /\ Leave("stopped")
     \/ Absorb /\ pc' = "top" /\ UNCHANGED exit
     \/ pc' = "repolling" /\ UNCHANGED <<exit, unread>>
  /\ UNCHANGED <<loop, terminal, calls, truncated, port>>

\* The second: a bounded number of times it goes on with what it brought; any
\* other answer goes on to the commit.
SecondPoll ==
  /\ pc = "repolling"
  /\ \/ /\ polls < MaxPolls
        /\ polls' = polls + 1 /\ unread' = unread \cup {"message"}
        /\ pc' = "top"
     \/ Absorb /\ pc' = "committing" /\ UNCHANGED polls
  /\ UNCHANGED <<turn, over, recoveries, ends, calls, truncated, port>>

\* before_commit and the mode's exit hooks.
Commit ==
  /\ pc = "committing"
  /\ Leave("completed")
  /\ UNCHANGED <<loop, terminal, calls, unread, truncated, port>>
-----------------------------------------------------------------------------
(* The environment *)

\* The caller stops the run.
Interrupt ==
  /\ pc \notin {"ended", "dead"}
  /\ Tools!Interrupt
  /\ UNCHANGED <<pc, loop, ends, calls, unread, truncated>>

\* Tokens, calls or time run out.
Exhaust ==
  /\ Budgeted /\ ~over /\ pc \in Awaits
  /\ over' = TRUE
  /\ UNCHANGED <<pc, turn, recoveries, polls, ends, calls, unread, truncated, port>>

\* The worker dies: only the ledger's rows are left.
Crash ==
  /\ pc \notin {"ended", "dead"}
  /\ pc' = "dead"
  /\ UNCHANGED <<loop, ends, calls, unread, truncated, port>>

Compaction == {"replaced", "declined", "failed", "cancelled"}

EngineStep ==
  \/ Start \/ BeginTurn \/ Assemble \/ Compact \/ Sweep \/ Request
  \/ StreamCancelled \/ StreamFails \/ StreamIsEmpty \/ StreamEnds
  \/ \E kind \in Compaction : EmergencyCompact(kind)
  \/ RetryTurn \/ Denied \/ Authorized \/ Begin \/ Dispatch
  \/ DrainAbandoned \/ Settle \/ DrainEnds \/ TurnCompleted
  \/ Decide \/ BeforeFinalize \/ FinalPoll \/ SecondPoll \/ Commit
  \/ Throws \/ Finalize
  \/ \E i \in Id : ToolUse(i) \/ DrainItem(i)

Next == EngineStep \/ Interrupt \/ Exhaust \/ Crash

Spec == Init /\ [][Next]_vars

\* Every port answers in the end, and a transcript cannot be replaced by a
\* smaller one for ever: the emergency pass declines in the end.
FairSpec ==
  /\ Spec
  /\ WF_vars(EngineStep)
  /\ SF_vars(EmergencyCompact("declined"))
-----------------------------------------------------------------------------
(* Properties *)

\* A call that is queued has its durable row, and a result that is shown was
\* settled first, a refused call's apart: so also for whoever reads the ledger
\* of a worker that died at any point.
LedgerCoversTools ==
  /\ \A i \in asked : ledger[i] # "none"
  /\ \A i \in answered : shown[i] = "completed" => ledger[i] = "settled"

\* A run that tells its caller it completed left no call without its result,
\* and no request is made while one is missing: an interrupted drain, which may
\* leave some, never leads there.
Open == {i \in Id : shown[i] = "started"}
NothingLeftOpen ==
  (exit \in Exits \ {"cancelled", "failed", "budget_exhausted", None} \/ pc = "requesting") =>
    Open = {} /\ \A i \in Id : ledger[i] # "dispatched"

\* A run that ends on its own ends on an answer the model gave with every
\* result in view, those of refused calls included.
ResultsAreRead == exit = "completed" => "result" \notin unread

\* No run goes past its ceiling, through retried turns, vetoes, recoveries and
\* polls.
CeilingHolds == turn <= Ceiling

\* Every run ends, interrupted or not.
EveryRunEnds == <>(pc \in {"ended", "dead"})

\* "Only a REPLACEMENT earns the retry": a request whose transcript the
\* emergency pass replaced is made again, in the same turn.
ReplacementEarnsRetry ==
  [][pc = "retrying" => pc' \in {"retrying", "top", "dead"}]_vars
=============================================================================
