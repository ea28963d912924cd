----------------------------- MODULE RunSession -----------------------------
(***************************************************************************)
(* One run's session (packages/agent-runtime, run-session.ts) over the run *)
(* ledger (packages/agent-protocol, run-ledger.ts): events are minted in   *)
(* seq order, the durable ones are written to storage in batches with      *)
(* bounded retries, and the run is settled once, behind a durable barrier. *)
(* Storage may refuse a call, or take it and lose the reply, and another   *)
(* writer may land the run's terminal row first.                           *)
(***************************************************************************)
EXTENDS RunOutcome, Integers, FiniteSets

CONSTANTS
  Tools,         \* tool call ids the executor may use
  MaxAttempts,   \* 1 + appendRetries
  FlushEvery,    \* buffered envelopes that trigger a flush
  MaxSeq         \* bound: no ordinary event is observed past this seq

ASSUME MaxAttemptsAssumption == MaxAttempts \in Nat \ {0}
ASSUME FlushEveryAssumption == FlushEvery \in Nat \ {0}
ASSUME MaxSeqAssumption == MaxSeq \in Nat
ASSUME ToolsAssumption == IsFiniteSet(Tools)

VARIABLES
  (* the ledger *)
  seq,         \* last minted sequence number
  durable,     \* the minted seqs whose event type is durable
  started,     \* tool calls with an authoritative start
  answered,    \* started calls the ledger holds an outcome for
  declared,    \* what the terminal event said, None while there is none
  (* the write path *)
  buffer,      \* durable seqs not yet handed to the write queue
  batch,       \* the write queue's head, {} when the queue is empty
  attempts,    \* refusals the head has met
  passes,      \* drain passes on the flush chain, the running one included
  drain,       \* the running pass: "top" of its loop or "appending"
  lost,        \* seqs of the batches given up on
  (* the barrier *)
  settle,      \* "live", "flushing", "completing", "degrading" or "done"
  awaited,     \* drain passes settle still waits for
  decided,     \* the verdict resolveRunOutcome returned
  terminal,    \* the published terminal
  (* storage *)
  stored,      \* seqs in run_events
  row          \* runs.terminal, None while the row is 'running'

ledger == <<seq, durable, started, answered, declared>>
writes == <<buffer, batch, attempts, passes, drain, lost>>
barrier == <<settle, awaited, decided, terminal>>
storage == <<stored, row>>
vars == <<ledger, writes, barrier, storage>>

TypeOK ==
  /\ seq \in Nat
  /\ durable \subseteq 1 .. seq
  /\ started \subseteq Tools
  /\ answered \subseteq started
  /\ declared \in Declared \cup {None}
  /\ buffer \subseteq durable
  /\ batch \subseteq durable
  /\ lost \subseteq durable
  /\ stored \subseteq durable
  /\ attempts \in 0 .. MaxAttempts - 1
  /\ passes \in Nat
  /\ awaited \in Nat
  /\ drain \in {"top", "appending"}
  /\ settle \in {"live", "flushing", "completing", "degrading", "done"}
  /\ decided \in Verdict \cup {None}
  /\ terminal \in Terminal \cup {None}
  /\ row \in Terminal \cup {None}

Init ==
  /\ seq = 0 /\ durable = {}
  /\ started = {} /\ answered = {}
  /\ declared = None
  /\ buffer = {} /\ batch = {} /\ attempts = 0
  /\ passes = 0 /\ drain = "top" /\ lost = {}
  /\ settle = "live" /\ awaited = 0
  /\ decided = None /\ terminal = None
  /\ stored = {} /\ row = None
-----------------------------------------------------------------------------
(* Minting *)

\* n durable events take the next n seqs and join the buffer.
Mint(n) ==
  /\ seq' = seq + n
  /\ durable' = durable \cup (seq + 1 .. seq + n)
  /\ buffer' = buffer \cup (seq + 1 .. seq + n)

\* Each of n pushes whose buffer has reached FlushEvery chains one more pass.
FlushesDue(n) ==
  Cardinality({k \in 1 .. n : Cardinality(buffer) + k >= FlushEvery})

\* danglingToolCalls
Dangling == started \ answered

\* A call the ledger will accept an event for: no terminal event yet.
Open == declared = None

Ordinary == Open /\ seq > 0 /\ seq < MaxSeq

\* run.started is the first event, and flushes on its own.
ObserveRunStarted ==
  /\ Open /\ seq = 0
  /\ Mint(1)
  /\ passes' = passes + 1
  /\ UNCHANGED <<started, answered, declared, batch, attempts, drain, lost>>
  /\ UNCHANGED <<barrier, storage>>

\* A volatile or ephemeral event takes a seq and is never written.
ObserveTransient ==
  /\ Ordinary
  /\ seq' = seq + 1
  /\ UNCHANGED <<durable, started, answered, declared, writes, barrier, storage>>

ObserveToolStarted(t) ==
  /\ Ordinary
  /\ t \notin started
  /\ started' = started \cup {t}
  /\ Mint(1)
  /\ passes' = passes + FlushesDue(1)
  /\ UNCHANGED <<answered, declared, batch, attempts, drain, lost>>
  /\ UNCHANGED <<barrier, storage>>

ObserveToolCompleted(t) ==
  /\ Ordinary
  /\ t \in started
  /\ answered' = answered \cup {t}
  /\ Mint(1)
  /\ passes' = passes + FlushesDue(1)
  /\ UNCHANGED <<started, declared, batch, attempts, drain, lost>>
  /\ UNCHANGED <<barrier, storage>>

\* tool.timed_out closes the call in the ledger and is volatile.
ObserveToolTimedOut(t) ==
  /\ Ordinary
  /\ t \in started
  /\ answered' = answered \cup {t}
  /\ seq' = seq + 1
  /\ UNCHANGED <<durable, started, declared, writes, barrier, storage>>

\* Mutant: the terminal is minted over open calls.
MintTerminalUnanswered(event) ==
  LET n == Cardinality(Dangling) + 1 IN
  /\ Mint(n)
  /\ declared' = event
  /\ UNCHANGED <<started, answered, batch, attempts, drain, lost>>

\* Every open call is completed as indeterminate, then the terminal is minted.
MintTerminal(event) ==
  LET n == Cardinality(Dangling) + 1 IN
  /\ Mint(n)
  /\ answered' = answered \cup Dangling
  /\ declared' = event
  /\ UNCHANGED <<started, batch, attempts, drain, lost>>

ObserveTerminal(event) ==
  /\ Open /\ seq > 0
  /\ MintTerminal(event)
  /\ passes' = passes + FlushesDue(Cardinality(Dangling) + 1)
  /\ UNCHANGED <<barrier, storage>>
-----------------------------------------------------------------------------
(* The write path: flush chains a pass, #drain runs it *)

\* Top of #drain's loop: take the buffer when the queue is empty, then offer
\* the head, or end the pass when there is nothing to offer.
PassEnds ==
  /\ passes' = passes - 1
  /\ awaited' = IF awaited = 0 THEN 0 ELSE awaited - 1
  /\ drain' = "top"

\* Mutant: the buffer becomes the head even while a refused head is waiting.
DrainTopOverwrites ==
  /\ passes > 0 /\ drain = "top"
  /\ IF batch = {} /\ buffer = {}
       THEN /\ PassEnds
            /\ UNCHANGED <<buffer, batch, attempts>>
       ELSE /\ drain' = "appending"
            /\ IF buffer # {}
                 THEN batch' = buffer /\ buffer' = {} /\ attempts' = 0
                 ELSE UNCHANGED <<batch, buffer, attempts>>
            /\ UNCHANGED <<passes, awaited>>
  /\ UNCHANGED <<ledger, lost, settle, decided, terminal, storage>>

DrainTop ==
  /\ passes > 0 /\ drain = "top"
  /\ IF batch = {} /\ buffer = {}
       THEN /\ PassEnds
            /\ UNCHANGED <<buffer, batch, attempts>>
       ELSE /\ drain' = "appending"
            /\ IF batch = {}
                 THEN batch' = buffer /\ buffer' = {} /\ attempts' = 0
                 ELSE UNCHANGED <<batch, buffer, attempts>>
            /\ UNCHANGED <<passes, awaited>>
  /\ UNCHANGED <<ledger, lost, settle, decided, terminal, storage>>

\* persistence.append resolved: the batch leaves the queue and the pass ends.
AppendAcknowledged ==
  /\ drain = "appending"
  /\ stored' = stored \cup batch
  /\ batch' = {} /\ attempts' = 0
  /\ PassEnds
  /\ UNCHANGED <<ledger, buffer, lost, settle, decided, terminal, row>>

\* Mutant: a head that is retried for ever.
AppendRefusedUnbounded ==
  /\ drain = "appending"
  /\ drain' = "top"
  /\ stored' \in {stored, stored \cup batch}
  /\ UNCHANGED <<ledger, buffer, batch, attempts, lost, passes, barrier, row>>

\* persistence.append rejected, with or without the write having landed: the
\* batch is re-offered in place until its attempts are spent, then given up.
AppendRefused ==
  /\ drain = "appending"
  /\ drain' = "top"
  /\ stored' \in {stored, stored \cup batch}
  /\ IF attempts + 1 >= MaxAttempts
       THEN batch' = {} /\ lost' = lost \cup batch /\ attempts' = 0
       ELSE attempts' = attempts + 1 /\ UNCHANGED <<batch, lost>>
  /\ UNCHANGED <<ledger, buffer, passes, barrier, row>>
-----------------------------------------------------------------------------
(* The barrier *)

\* settle: close what is open, decide, give a silent run its terminal event,
\* and start the flush the barrier waits for.
Settle(intent, exhausted) ==
  LET verdict == ResolveRunOutcome(declared, intent, exhausted) IN
  /\ settle = "live" /\ seq > 0
  /\ decided' = verdict
  /\ settle' = "flushing"
  /\ IF declared = None
       THEN /\ MintTerminal(EventOf(verdict))
            /\ passes' = passes + FlushesDue(Cardinality(Dangling) + 1) + 1
       ELSE /\ passes' = passes + 1
            /\ UNCHANGED <<ledger, buffer, batch, attempts, drain, lost>>
  /\ awaited' = passes'
  /\ UNCHANGED <<terminal, storage>>

\* Mutant: the terminal row is written over a transcript with a hole.
FlushResolvedBlind ==
  /\ settle = "flushing" /\ awaited = 0
  /\ settle' = "completing"
  /\ UNCHANGED <<ledger, writes, awaited, decided, terminal, storage>>

\* The awaited flush resolved: a lost batch forbids the terminal row.
FlushResolved ==
  /\ settle = "flushing" /\ awaited = 0
  /\ settle' = IF lost = {} THEN "completing" ELSE "degrading"
  /\ UNCHANGED <<ledger, writes, awaited, decided, terminal, storage>>

Publish(t) == terminal' = t /\ settle' = "done"

\* The row update persistence.complete asked for lands, under the CAS that only
\* meets a 'running' row.
RowLands ==
  /\ settle \in {"completing", "degrading"}
  /\ row = None
  /\ row' = IF settle = "completing" THEN decided ELSE Degraded
  /\ UNCHANGED <<ledger, writes, barrier, stored>>

\* Mutant: a reply is taken for an acknowledgement whatever the row says.
CompleteAcknowledgedBlind ==
  /\ settle = "completing"
  /\ Publish(decided)
  /\ UNCHANGED <<ledger, writes, awaited, decided, storage>>

\* persistence.complete resolved: the row holds the verdict, because this call
\* wrote it or because a racing writer already had.
CompleteAcknowledged ==
  /\ settle = "completing"
  /\ row = decided
  /\ Publish(decided)
  /\ UNCHANGED <<ledger, writes, awaited, decided, storage>>

\* persistence.complete rejected: refused outright, or landed with its reply
\* lost, or another writer's terminal was there first.
CompleteRefused ==
  /\ settle = "completing"
  /\ Publish(Degraded)
  /\ UNCHANGED <<ledger, writes, awaited, decided, storage>>

\* A transcript with a hole: the best-effort attempt to say so in the row is
\* answered, and its answer is not looked at.
CompleteDegraded ==
  /\ settle = "degrading"
  /\ Publish(Degraded)
  /\ UNCHANGED <<ledger, writes, awaited, decided, storage>>

\* Another writer of the same run row (a recovery sweep, an abandoned-run
\* close) lands a terminal while this session is alive.
OtherWriterCompletes(t) ==
  /\ row = None
  /\ row' = t
  /\ UNCHANGED <<ledger, writes, barrier, stored>>
-----------------------------------------------------------------------------
Minting ==
  \/ ObserveRunStarted
  \/ ObserveTransient
  \/ \E t \in Tools : ObserveToolStarted(t) \/ ObserveToolCompleted(t) \/ ObserveToolTimedOut(t)
  \/ \E event \in Declared : ObserveTerminal(event)

Draining == DrainTop \/ AppendAcknowledged \/ AppendRefused

Settling ==
  \/ \E intent \in Intent, exhausted \in BOOLEAN : Settle(intent, exhausted)
  \/ FlushResolved
  \/ RowLands
  \/ CompleteAcknowledged
  \/ CompleteRefused
  \/ CompleteDegraded

Next == Minting \/ Draining \/ Settling \/ \E t \in Terminal : OtherWriterCompletes(t)

Spec == Init /\ [][Next]_vars

\* Promises of this process are resumed and storage calls settle one way or the
\* other; nothing is assumed of the executor, and nothing makes storage agree.
Fairness ==
  /\ WF_vars(Draining)
  /\ WF_vars(FlushResolved \/ CompleteAcknowledged \/ CompleteRefused \/ CompleteDegraded)

FairSpec == Spec /\ Fairness
-----------------------------------------------------------------------------
(* Properties *)

\* A run that publishes a verdict other than persistence_failed has it in its
\* row, and every durable event it minted, the terminal included, in storage.
VerdictIsDurable ==
  terminal \in Verdict =>
    row = terminal /\ declared # None /\ durable \subseteq stored

\* Once a run has a terminal event, no tool call it started is unanswered.
AnsweredBeforeTerminal == declared # None => Dangling = {}

\* A durable event is stored, counted as lost, or still owed by the write path.
NothingVanishes == durable \subseteq stored \cup lost \cup batch \cup buffer

\* The session delivers the abstract promise: decided once, row written once,
\* published terminal durable or an admitted failure.
Promise == INSTANCE RunVerdict WITH decided <- decided, row <- row, terminal <- terminal
KeepsPromise == Promise!Spec

\* A run being settled is answered, however often storage refuses.
SettleAnswers == settle = "flushing" ~> settle = "done"
=============================================================================
