---------------------------- MODULE ToolExecutor ----------------------------
(***************************************************************************)
(* The tool calls of one turn (packages/agent-runtime/src/tools): queued   *)
(* on the turn's pipeline through TurnPipelinePublisher, planned in waves  *)
(* by planExecution, run wave after wave by StreamingToolExecutor with     *)
(* ToolRetryExecutor behind it, and drained once by the run's engine.  The *)
(* tools themselves, the permission check and the user's prompt are        *)
(* asynchronous calls that may answer late or never.                       *)
(***************************************************************************)
EXTENDS Integers, FiniteSets, Sequences, SequencesExt

CONSTANTS
  Tool,       \* names of tools
  Path,       \* paths a tool may declare
  Decl,       \* what each tool declares, see Declaration
  Asks,       \* the batches a model may ask for in the turn: bounds the model
  MaxWave,    \* maxConcurrency of planExecution
  MaxReads    \* BATCH_STRATEGY[READ] and [SYSTEM].maxConcurrency

Unknown == "unknown"   \* UNKNOWN_PATHS

Declaration ==
  [batch : {"read", "write", "system"}, safe : BOOLEAN, repeatable : BOOLEAN,
   known : BOOLEAN, reads : SUBSET (Path \cup {Unknown}),
   writes : SUBSET (Path \cup {Unknown}), requires : SUBSET Tool]

ASSUME DeclAssumption == Decl \in [Tool -> Declaration]
ASSUME BoundAssumption ==
  /\ Asks # {} /\ Asks \subseteq Seq(Tool) /\ IsFiniteSet(Asks)
  /\ MaxWave \in Nat \ {0} /\ MaxReads \in Nat \ {0}

Id == UNION {DOMAIN ask : ask \in Asks}   \* tool_call_id, in the order asked

VARIABLES
  call,        \* the names asked for, in order: pendingTools, then the plan's input
  phase,       \* the publication: "open", "draining" or "ended"
  plan,        \* ensurePlan: the waves, and the calls no wave can take
  wave,        \* the wave being drained
  status,      \* the status of each tracked tool; "absent" before addTool
  at,          \* what executeTool of a call is waiting for
  attempts,    \* attempts of the retry executor
  approved,    \* markInvocationApproved
  begun,       \* executions of the tool that were started, the fallback's included
  results,     \* messages with the call's tool_call_id the drain yielded
  aborted,     \* the run's abort signal
  discarded    \* discard() ran

turn == <<call, phase, plan, wave>>
tracked == <<status, at, attempts, approved>>
stops == <<aborted, discarded>>
vars == <<turn, tracked, begun, results, stops>>

\* Mutant: the executor's controller is not a child of the run's.
StoppedByDiscard == discarded

\* siblingAbortController.signal.aborted
Stopped == aborted \/ discarded

Of(i) == Decl[call[i]]
Asked == 1 .. Len(call)
NoPlan == [waves |-> <<>>, stuck |-> {}]

Finished == {"completed", "failed"}
InExecution == {"running", "again", "granted", "retrying"}

\* Beside its executions: the check, and the race it won; the race of the first
\* execution, won; the user before an execution, or after one that asked.
AwaitsBeside == {"none", "checking", "checked", "answered", "asking", "approving"}

TypeOK ==
  /\ \E ask \in Asks : IsPrefix(call, ask)
  /\ phase \in {"open", "draining", "ended"}
  /\ plan \in [waves : Seq(SUBSET Id), stuck : SUBSET Id]
  /\ wave \in Nat
  /\ status \in [Id -> {"absent", "queued", "starting", "executing", "cancelled",
                        "yielded"} \cup Finished]
  /\ at \in [Id -> AwaitsBeside \cup InExecution]
  /\ attempts \in [Id -> Nat]
  /\ approved \in [Id -> BOOLEAN]
  /\ begun \in [Id -> Nat] /\ results \in [Id -> Nat]
  /\ aborted \in BOOLEAN /\ discarded \in BOOLEAN

Init ==
  /\ call = <<>> /\ phase = "open" /\ plan = NoPlan /\ wave = 0
  /\ status = [i \in Id |-> "absent"]
  /\ at = [i \in Id |-> "none"]
  /\ attempts = [i \in Id |-> 0]
  /\ approved = [i \in Id |-> FALSE]
  /\ begun = [i \in Id |-> 0]
  /\ results = [i \in Id |-> 0]
  /\ aborted = FALSE /\ discarded = FALSE
-----------------------------------------------------------------------------
(* planExecution *)

Mutates(d) == d.writes # {}
Opaque(paths) == Unknown \in paths

\* Mutant: only write paths are compared, as before reads took part.
WritesConflict(d, e) ==
  \/ Opaque(d.writes) \/ Opaque(e.writes)
  \/ (d.writes \cap e.writes) \ {Unknown} # {}

\* footprintsConflict: an opaque writer conflicts with everything, an opaque
\* reader with a writer, and a shared path when either side writes it.
FootprintsConflict(d, e) ==
  \/ Opaque(d.writes) \/ Opaque(e.writes)
  \/ (Mutates(d) \/ Mutates(e)) /\ (Opaque(d.reads) \/ Opaque(e.reads))
  \/ ((d.writes \cap (e.reads \cup e.writes)) \cup (d.reads \cap e.writes)) \ {Unknown} # {}

Instances(name) == {i \in Asked : call[i] = name}

\* Every call of every required name is already scheduled.
PrerequisitesIn(i, scheduled) ==
  \A name \in Of(i).requires :
    Instances(name) # {} /\ Instances(name) \subseteq scheduled

\* The next call of the loop joins the wave: it is left over, it is ready, and it
\* meets no conflict.
Takes(taken, i, scheduled) ==
  /\ i \notin scheduled /\ Cardinality(taken) < MaxWave
  /\ PrerequisitesIn(i, scheduled)
  /\ \A j \in taken : ~FootprintsConflict(Of(j), Of(i))

\* One wave, taken in the order asked.
WaveAfter(scheduled) ==
  LET taken[i \in Nat] ==
        IF i = 0 THEN {}
        ELSE LET before == taken[i - 1]
             IN IF Takes(before, i, scheduled) THEN before \cup {i} ELSE before
  IN taken[Len(call)]

Scheduled(p) == p.stuck \cup UNION {p.waves[k] : k \in DOMAIN p.waves}

\* One round of planning: a wave while one can be formed; otherwise the first call
\* left over is unresolved, and counts as scheduled.
Round(p) ==
  LET left == Asked \ Scheduled(p)
      next == WaveAfter(Scheduled(p))
  IN IF left = {} THEN p
     ELSE IF next = {}
       THEN [waves |-> p.waves,
             stuck |-> p.stuck \cup {CHOOSE i \in left : \A j \in left : i <= j}]
     ELSE [waves |-> Append(p.waves, next), stuck |-> p.stuck]

\* Each round schedules a call.
PlanExecution ==
  LET after[k \in Nat] == IF k = 0 THEN NoPlan ELSE Round(after[k - 1])
  IN after[Len(call)]
-----------------------------------------------------------------------------
(* StreamingToolExecutor: the queue *)

Busy == {i \in Id : status[i] \in {"starting", "executing"}}

\* Mutant: a system call joins another whatever either says of its safety.
CanExecuteUnsafe(i, busy) ==
  \/ busy = {}
  \/ /\ \A j \in busy : Of(j).batch = Of(i).batch
     /\ Cardinality(busy) < MaxReads /\ Of(i).batch # "write"

\* canExecuteTool, for a call that would join the calls `busy`.
CanExecuteTool(i, busy) ==
  \/ busy = {}
  \/ /\ \A j \in busy : Of(j).batch = Of(i).batch
     /\ Cardinality(busy) < MaxReads
     /\ \/ Of(i).batch = "read"
        \/ Of(i).batch = "system" /\ Of(i).safe /\ \A j \in busy : Of(j).safe

\* The tools before i in executor.tools, when w waves were added.
Earlier(w, i) ==
  {j \in Id : \E l \in 1 .. w : \E k \in 1 .. l :
     i \in plan.waves[l] /\ j \in plan.waves[k] /\ (k < l \/ j < i)}

\* processQueue over the tools of w waves, of which `queued` wait: `starts` is
\* what one scan starts.  A blocked call that is not a read ends the scan; a call
\* that starts when the turn is stopped is finished at once and holds no slot.
ScanStarts(w, queued, starts) ==
  \A i \in queued :
    i \in starts <=>
      /\ \A j \in (Earlier(w, i) \cap queued) \ starts : Of(j).batch = "read"
      /\ CanExecuteTool(i, Busy \cup IF Stopped THEN {} ELSE Earlier(w, i) \cap starts)

\* executeTool up to its first await: the initial abort check, or "starting".
StatusOfStarted == IF Stopped THEN "failed" ELSE "starting"

Started(st, starts) == [i \in Id |-> IF i \in starts THEN StatusOfStarted ELSE st[i]]
AwaitsOfStarted(starts) ==
  [i \in Id |-> IF i \in starts /\ ~Stopped THEN "checking" ELSE at[i]]

\* Mutant: nothing is started once the wave has been added.
ProcessQueueNever == FALSE /\ UNCHANGED vars

\* The scan at the top of the drain's loop.
ProcessQueue ==
  /\ phase = "draining" /\ ~Stopped
  /\ LET queued == {i \in Id : status[i] = "queued"} IN
     \E starts \in (SUBSET queued) \ {{}} :
       /\ ScanStarts(wave, queued, starts)
       /\ status' = Started(status, starts)
       /\ at' = AwaitsOfStarted(starts)
  /\ UNCHANGED <<turn, attempts, approved, begun, results, stops>>

\* The pipeline submits wave k, each addTool followed by its scan; a tool the
\* registry does not know is answered at once.  No call is in two waves.
AddWave(k) ==
  LET ids == {i \in plan.waves[k] : status[i] = "absent"}
      added == [i \in Id |-> IF i \notin ids THEN status[i]
                             ELSE IF Of(i).known THEN "queued" ELSE "completed"]
      queued == {i \in Id : added[i] = "queued"}
  IN \E starts \in SUBSET queued :
       /\ ScanStarts(k, queued, starts)
       /\ status' = Started(added, starts)
       /\ at' = AwaitsOfStarted(starts)
-----------------------------------------------------------------------------
(* executeTool *)

\* finalizeTool: the call has its message, whatever became of its status.
Finalize(i, outcome) ==
  /\ status' = [status EXCEPT ![i] = outcome]
  /\ at' = [at EXCEPT ![i] = "none"]

\* The tool is called: toolRegistry.execute.
Begin(i, state) ==
  /\ at' = [at EXCEPT ![i] = state]
  /\ begun' = [begun EXCEPT ![i] = @ + 1]

\* canUseTool answers or throws: its race with the abort is decided, and a stop
\* that comes before the call goes on is not looked at again.
CheckAnswered(i) ==
  /\ at[i] = "checking" /\ ~Stopped
  /\ at' = [at EXCEPT ![i] = "checked"]
  /\ UNCHANGED <<turn, status, attempts, approved, begun, results, stops>>

\* canUseTool answers no, or nobody can be asked: the call is answered unrun.
Refused(i) ==
  /\ at[i] = "checked"
  /\ \E outcome \in Finished : Finalize(i, outcome)
  /\ UNCHANGED <<turn, attempts, approved, begun, results, stops>>

\* The check passes and asks no one: the execution begins.
Allowed(i) ==
  /\ at[i] = "checked"
  /\ status' = [status EXCEPT ![i] = "executing"]
  /\ Begin(i, "running")
  /\ \E user \in BOOLEAN : approved' = [approved EXCEPT ![i] = user]
  /\ UNCHANGED <<turn, attempts, results, stops>>

\* checkPermissions wants the user: requestPermission, which no abort interrupts.
AskUser(i) ==
  /\ at[i] = "checked"
  /\ at' = [at EXCEPT ![i] = "asking"]
  /\ UNCHANGED <<turn, status, attempts, approved, begun, results, stops>>

\* The user denies, the request is parked for later, or it fails.
PromptDenied(i) ==
  /\ at[i] \in {"asking", "approving"}
  /\ Finalize(i, "failed")
  /\ UNCHANGED <<turn, attempts, approved, begun, results, stops>>

\* The user allows, whatever happened to the turn meanwhile.
PromptAllowed(i) ==
  /\ at[i] \in {"asking", "approving"}
  /\ approved' = [approved EXCEPT ![i] = TRUE]
  /\ status' = [status EXCEPT ![i] = IF at[i] = "asking" THEN "executing" ELSE @]
  /\ Begin(i, IF at[i] = "asking" THEN "running" ELSE "granted")
  /\ UNCHANGED <<turn, attempts, results, stops>>

\* The first execution answers, throws or runs out of maxExecutionTimeMs: its race
\* with the abort is decided.
ExecutionAnswered(i) ==
  /\ at[i] = "running" /\ ~Stopped
  /\ at' = [at EXCEPT ![i] = "answered"]
  /\ UNCHANGED <<turn, status, attempts, approved, begun, results, stops>>

\* The execution that is awaited ends and the call is finalized: "completed" for
\* a result or an error result, "failed" where the answer is missing or refused.
Returns(i) ==
  /\ at[i] \in {"answered", "again", "granted", "retrying"}
  /\ \E outcome \in IF at[i] = "answered" THEN {"completed"} ELSE Finished :
       Finalize(i, outcome)
  /\ UNCHANGED <<turn, attempts, approved, begun, results, stops>>

\* The tool throws PermissionRequiredError: the user is asked, unless the call
\* is already approved, and then it is called once more.
NeedsPermission(i) ==
  /\ at[i] = "answered"
  /\ \/ approved[i] /\ Begin(i, "again")
     \/ ~approved[i] /\ at' = [at EXCEPT ![i] = "approving"] /\ UNCHANGED begun
  /\ UNCHANGED <<turn, status, attempts, approved, results, stops>>

\* What decideNextAction does with a failed attempt, by the class of its error,
\* under DEFAULT_RETRY_STRATEGIES: retry, or fall back to another tool.
RetriesAfter(i, error) ==
  /\ attempts[i] < 2
  /\ error = "timed_out" => Of(i).repeatable

\* The catch of executeTool: the retry executor calls the tool at once, before it
\* consults a strategy.
EntersRetry(i) ==
  /\ Begin(i, "retrying")
  /\ attempts' = [attempts EXCEPT ![i] = 1]
  /\ UNCHANGED <<turn, status, approved, results, stops>>

\* canUseTool or checkPermissions throws: it is the same catch.
CheckThrows(i) ==
  /\ at[i] = "checked"
  /\ EntersRetry(i)

\* The approved execution asks for permission again.  The registry hands every
\* other error of a tool back as an error result, so only this one is thrown.
Throws(i) ==
  /\ at[i] = "again"
  /\ EntersRetry(i)

\* It ran out of time: the execution is abandoned and goes on.
TimesOut(i) ==
  /\ at[i] = "answered"
  /\ EntersRetry(i)

\* The next attempt begins after a delay nothing interrupts.
RetriesAgain(i) ==
  /\ at[i] = "retrying"
  /\ \E error \in {"timed_out", "network"} : RetriesAfter(i, error)
  /\ attempts' = [attempts EXCEPT ![i] = @ + 1]
  /\ begun' = [begun EXCEPT ![i] = @ + 1]
  /\ UNCHANGED <<turn, status, at, approved, results, stops>>

\* The abort is noticed where it is raced: the check, and the first execution.
Interrupted(i) ==
  /\ at[i] \in {"checking", "running"} /\ Stopped
  /\ Finalize(i, "failed")
  /\ UNCHANGED <<turn, attempts, approved, begun, results, stops>>

-----------------------------------------------------------------------------
(* The publication and its one drain *)

\* publisher.queue: the pipeline buffers the call.
QueueTool(name) ==
  /\ phase = "open" /\ ~discarded
  /\ \E ask \in Asks : IsPrefix(Append(call, name), ask)
  /\ call' = Append(call, name)
  /\ UNCHANGED <<phase, plan, wave, tracked, begun, results, stops>>

\* Mutant: the calls the planner could not place are not surfaced.
DrainSilently ==
  /\ phase = "open" /\ ~discarded
  /\ phase' = "draining"
  /\ plan' = PlanExecution
  /\ UNCHANGED <<call, wave, tracked, begun, results, stops>>

\* publisher.drain: the plan is made, and its unresolved calls are answered.
Drain ==
  /\ phase = "open" /\ ~discarded
  /\ phase' = "draining"
  /\ plan' = PlanExecution
  /\ results' = [i \in Id |-> IF i \in plan'.stuck THEN 1 ELSE 0]
  /\ UNCHANGED <<call, wave, tracked, begun, stops>>

\* getCompletedResults passes a finished call, unless a call before it is
\* executing and is not a read.
Yieldable(i) ==
  /\ status[i] \in Finished
  /\ \A j \in Earlier(wave, i) : status[j] = "executing" => Of(j).batch = "read"

YieldResult(i) ==
  /\ phase = "draining" /\ Yieldable(i)
  /\ status' = [status EXCEPT ![i] = "yielded"]
  /\ results' = [results EXCEPT ![i] = @ + 1]
  /\ UNCHANGED <<turn, at, attempts, approved, begun, stops>>

\* Mutant: the next wave is submitted as soon as this one has started.
WaveStarted == wave > 0 => \A i \in plan.waves[wave] : status[i] # "queued"

\* Every call of the wave is answered, or the turn is stopped and nothing more
\* can be yielded.
WaveOver ==
  wave > 0 => \/ \A i \in plan.waves[wave] : status[i] = "yielded"
              \/ Stopped /\ \A i \in Id : ~Yieldable(i)

NextWave ==
  /\ phase = "draining" /\ WaveOver
  /\ wave < Len(plan.waves)
  /\ wave' = wave + 1
  /\ AddWave(wave + 1)
  /\ UNCHANGED <<call, phase, plan, attempts, approved, begun, results, stops>>

DrainEnds ==
  /\ phase = "draining" /\ WaveOver
  /\ wave = Len(plan.waves)
  /\ phase' = "ended"
  /\ UNCHANGED <<call, plan, wave, tracked, begun, results, stops>>

\* The user interrupts the run.
Abort ==
  /\ ~aborted
  /\ aborted' = TRUE
  /\ UNCHANGED <<turn, tracked, begun, results, discarded>>

\* publisher.discard, between two items of a drain too, which the engine then
\* abandons: buffered calls are dropped, and what the executor tracks is marked
\* cancelled where it stands.
Discard ==
  /\ ~discarded
  /\ discarded' = TRUE
  /\ call' = IF phase = "open" THEN <<>> ELSE call
  /\ phase' = "ended"
  /\ status' = [i \in Id |-> IF status[i] \in {"queued", "starting", "executing"}
                               THEN "cancelled" ELSE status[i]]
  /\ UNCHANGED <<plan, wave, at, attempts, approved, begun, results, aborted>>
-----------------------------------------------------------------------------
CheckAnswers(i) ==
  \/ CheckAnswered(i) \/ Refused(i) \/ Allowed(i) \/ AskUser(i) \/ CheckThrows(i)
  \/ Interrupted(i)
UserAnswers(i) == PromptDenied(i) \/ PromptAllowed(i)
ToolAnswers(i) ==
  \/ ExecutionAnswered(i) \/ Returns(i) \/ NeedsPermission(i) \/ Throws(i) \/ TimesOut(i)
  \/ RetriesAgain(i) \/ Interrupted(i)
DrainStep ==
  ProcessQueue \/ NextWave \/ DrainEnds \/ \E i \in Id : YieldResult(i)

Next ==
  \/ \E name \in Tool : QueueTool(name)
  \/ Drain \/ DrainStep \/ Abort \/ Discard
  \/ \E i \in Asked :
       CheckAnswers(i) \/ UserAnswers(i) \/ ToolAnswers(i)

Spec == Init /\ [][Next]_vars

\* The drain's loop runs on the event loop; a check, a prompt and a tool are
\* taken to answer in the end, which only the first execution has a timer for.
FairSpec ==
  /\ Spec
  /\ WF_vars(DrainStep)
  /\ \A i \in Id : WF_vars(i \in Asked /\ CheckAnswers(i))
                   /\ WF_vars(i \in Asked /\ UserAnswers(i))
                   /\ WF_vars(i \in Asked /\ ToolAnswers(i))
-----------------------------------------------------------------------------
(* Properties *)

MayWrite(d, p) == p \in d.writes \/ Unknown \in d.writes
MayTouch(d, p) == MayWrite(d, p) \/ p \in d.reads \/ Unknown \in d.reads

Executing(i) == at[i] \in InExecution

\* Two calls that may touch one path, one of them writing it, are never both
\* awaited in execution, in whatever order they were asked and whichever waves
\* and scans they went through (DependencyGraphOrchestrator: "tools that share
\* a path serialise against each other").
ConflictsSerialise ==
  \A i, j \in Asked :
    i # j /\ Executing(i) /\ Executing(j) =>
      \A p \in Path : ~(MayWrite(Of(i), p) /\ MayTouch(Of(j), p))

\* A call that began had every call it requires answered first, the unresolved
\* ones included (planExecution: "must already be scheduled").
RequiredFirst ==
  \A i \in Asked : begun[i] > 0 =>
    \A j \in Asked : call[j] \in Of(i).requires => results[j] > 0

\* Calls that execute together are reads, or system calls that all declare
\* themselves safe: nothing joins a write, also not through a late prompt.
SlotsAreExclusive ==
  \A i, j \in Asked : i # j /\ Executing(i) /\ Executing(j) =>
    \/ Of(i).batch = "read" /\ Of(j).batch = "read"
    \/ /\ Of(i).batch = "system" /\ Of(j).batch = "system"
       /\ Of(i).safe /\ Of(j).safe

Port == INSTANCE ToolPort WITH
  asked <- Asked,
  answered <- {i \in Id : results[i] = 1},
  stage <- IF discarded THEN "discarded" ELSE phase,
  cut <- aborted

\* The turn keeps what ToolPort promises the engine: queued to before its one
\* drain, no call answered twice, and in a run nobody interrupts every call
\* answered, so that no tool_use is left without its tool_result.
KeepsPort == Port!Spec

\* Where a stop is not looked at any more: a prompt, the retry loop, and an answer
\* that came before the stop and is not yet taken up.
Committed == {"checked", "answered", "asking", "approving", "again", "retrying"}

\* Once the run is interrupted or the turn discarded no execution begins but of
\* calls that were past their last look at it by then, and no other call gets there.
StopStartsNothing ==
  [][aborted \/ discarded =>
       \A i \in Id :
         begun'[i] > begun[i] \/ at'[i] \in Committed => at[i] \in Committed]_vars

\* A call whose tool cannot be repeated is executed once: what ToolRetryExecutor
\* says of them, "Tools with side effects that must not be transparently re-run
\* after a failure".
RerunsOnlyRepeatable ==
  \A i \in Asked : ~Of(i).repeatable /\ ~approved[i] => begun[i] <= 1

\* Every drain ends: no call waits for a slot that nothing will free.
EveryDrainEnds == phase = "draining" ~> phase = "ended"
=============================================================================
