-------------------------- MODULE RunSessionProofs --------------------------
(* Proofs about RunSession: its write path loses nothing silently, and the  *)
(* verdict it publishes is durable, for any tools, retries and thresholds.  *)
EXTENDS RunSession, FiniteSetTheorems, TLAPS

\* Every definition a step of one of the three groups may have to expand.
USE DEF None, Degraded

\* resolveRunOutcome returns a verdict, whatever the log and the caller say.
LEMMA ResolveVerdict ==
  ASSUME NEW event \in Declared \cup {None}, NEW intent \in Intent, NEW exhausted \in BOOLEAN
  PROVE  ResolveRunOutcome(event, intent, exhausted) \in Verdict
BY DEF ResolveRunOutcome, TerminalFromCompletion, TerminalFromSilence, Verdict, Declared

\* The event synthesised for a verdict is one the ledger knows.
LEMMA EventOfVerdict == \A v \in Verdict : EventOf(v) \in Declared
BY DEF EventOf, Verdict, Declared

\* A mint chains a natural number of passes.
LEMMA FlushesDueType ==
  ASSUME NEW n \in Nat
  PROVE  FlushesDue(n) \in Nat
<1> DEFINE K == {k \in 1 .. n : Cardinality(buffer) + k >= FlushEvery}
<1>1. IsFiniteSet(1 .. n) BY FS_Interval
<1>2. IsFiniteSet(K)
  <2> K \subseteq 1 .. n OBVIOUS
  <2> HIDE DEF K
  <2> QED BY <1>1, FS_Subset
<1> QED BY <1>2, FS_CardinalityType DEF FlushesDue

\* Closing what is open and ending the run mints at least one event.
LEMMA DanglingCount ==
  ASSUME started \subseteq Tools
  PROVE  Cardinality(Dangling) + 1 \in Nat \ {0}
<1>1. IsFiniteSet(Dangling)
  BY ToolsAssumption, FS_Subset DEF Dangling
<1> QED BY <1>1, FS_CardinalityType
-----------------------------------------------------------------------------
\* The queue's head exists exactly while a pass can be working on it.
QueueShape ==
  /\ passes = 0 => batch = {} /\ drain = "top"
  /\ drain = "appending" => batch # {}

\* The pass settle waits for leaves nothing behind.
BarrierDrains ==
  /\ settle = "live" => awaited = 0
  /\ settle # "live" /\ awaited = 1 => batch = {} \/ buffer = {}
  /\ settle # "live" /\ awaited = 0 => batch = {} /\ buffer = {}

\* What each phase of the barrier has established.
BarrierPhases ==
  /\ settle = "live" <=> decided = None
  /\ settle # "done" => terminal = None
  /\ settle # "live" => declared # None
  /\ settle \in {"completing", "degrading"} => awaited = 0
  /\ settle = "completing" => lost = {}
  /\ terminal \in Verdict =>
       terminal = decided /\ row = decided /\ awaited = 0 /\ lost = {}

IInv ==
  /\ TypeOK
  /\ NothingVanishes
  /\ AnsweredBeforeTerminal
  /\ QueueShape
  /\ BarrierDrains
  /\ BarrierPhases

\* A session that has observed nothing satisfies the invariant.
LEMMA InitInvariant == Init => IInv
BY MaxAttemptsAssumption
   DEF Init, IInv, TypeOK, NothingVanishes, AnsweredBeforeTerminal, Dangling, QueueShape,
       BarrierDrains, BarrierPhases, Verdict, Terminal, Declared,
       ledger, writes, barrier, storage
-----------------------------------------------------------------------------
(* One lemma per group of actions. *)

\* Minting adds to the buffer and the ledger, and only while the log is open.
LEMMA MintingInvariant == IInv /\ Minting => IInv'
<1> SUFFICES ASSUME IInv, Minting PROVE IInv'
  OBVIOUS
<1> USE DEF IInv, TypeOK, NothingVanishes, AnsweredBeforeTerminal, Dangling, QueueShape,
            BarrierDrains, BarrierPhases, ledger, writes, barrier, storage
<1>1. CASE ObserveRunStarted
  BY <1>1 DEF ObserveRunStarted, Mint, Open
<1>2. CASE ObserveTransient
  BY <1>2 DEF ObserveTransient, Ordinary, Open
<1>3. ASSUME NEW t \in Tools, ObserveToolStarted(t) PROVE IInv'
  <2>1. FlushesDue(1) \in Nat BY FlushesDueType
  <2> QED BY <1>3, <2>1 DEF ObserveToolStarted, Ordinary, Open, Mint
<1>4. ASSUME NEW t \in Tools, ObserveToolCompleted(t) PROVE IInv'
  <2>1. FlushesDue(1) \in Nat BY FlushesDueType
  <2> QED BY <1>4, <2>1 DEF ObserveToolCompleted, Ordinary, Open, Mint
<1>5. ASSUME NEW t \in Tools, ObserveToolTimedOut(t) PROVE IInv'
  BY <1>5 DEF ObserveToolTimedOut, Ordinary, Open
<1>6. ASSUME NEW event \in Declared, ObserveTerminal(event) PROVE IInv'
  <2> DEFINE n == Cardinality(Dangling) + 1
  <2>1. n \in Nat \ {0} BY DanglingCount
  <2> HIDE DEF n
  <2>2. FlushesDue(n) \in Nat BY <2>1, FlushesDueType
  <2>3. /\ seq' = seq + n
        /\ durable' = durable \cup (seq + 1 .. seq + n)
        /\ buffer' = buffer \cup (seq + 1 .. seq + n)
        /\ answered' = answered \cup (started \ answered)
        /\ declared' = event
        /\ passes' = passes + FlushesDue(n)
        /\ UNCHANGED <<started, batch, attempts, drain, lost, settle, awaited, decided,
                      terminal, stored, row>>
    BY <1>6 DEF ObserveTerminal, MintTerminal, Mint, n
  <2>4. declared = None BY <1>6 DEF ObserveTerminal, Open
  <2> HIDE DEF Dangling
  <2> QED BY <2>1, <2>2, <2>3, <2>4 DEF Declared, Dangling
<1> QED BY <1>1, <1>2, <1>3, <1>4, <1>5, <1>6 DEF Minting

\* A pass either ends with the queue empty, offers its head, or drops it as lost.
LEMMA DrainingInvariant == IInv /\ Draining => IInv'
<1> SUFFICES ASSUME IInv, Draining PROVE IInv'
  OBVIOUS
<1>0. /\ passes \in Nat /\ awaited \in Nat
      /\ attempts \in 0 .. MaxAttempts - 1 /\ MaxAttempts \in Nat \ {0}
  BY MaxAttemptsAssumption DEF IInv, TypeOK
<1>kept. /\ UNCHANGED <<seq, durable, started, answered, declared, settle, decided,
                        terminal, row>>
  BY DEF Draining, DrainTop, AppendAcknowledged, AppendRefused, ledger, storage, barrier
<1>sets. /\ batch' \in {{}, batch, buffer}
         /\ buffer' \in {{}, buffer}
         /\ lost' \in {lost, lost \cup batch}
         /\ stored' \in {stored, stored \cup batch}
  BY DEF Draining, DrainTop, AppendAcknowledged, AppendRefused, ledger, storage, barrier, PassEnds
<1>counts. /\ attempts' \in 0 .. MaxAttempts - 1
           /\ passes' \in Nat /\ awaited' \in Nat
           /\ drain' \in {"top", "appending"}
  <2>1. drain = "appending" => passes > 0 BY <1>0 DEF IInv, QueueShape
  <2>2. CASE DrainTop BY <2>2, <1>0 DEF DrainTop, PassEnds
  <2>3. CASE AppendAcknowledged BY <2>3, <2>1, <1>0 DEF AppendAcknowledged, PassEnds
  <2>4. CASE AppendRefused BY <2>4, <1>0 DEF AppendRefused, barrier
  <2> QED BY <2>2, <2>3, <2>4 DEF Draining
<1>1. TypeOK'
  BY <1>kept, <1>sets, <1>counts, ZenonT(40) DEF IInv, TypeOK
<1>2. NothingVanishes'
  <2>1. CASE DrainTop
    BY <2>1 DEF DrainTop, PassEnds, ledger, storage, IInv, NothingVanishes
  <2>2. CASE AppendAcknowledged
    BY <2>2 DEF AppendAcknowledged, PassEnds, ledger, IInv, NothingVanishes
  <2>3. CASE AppendRefused
    BY <2>3 DEF AppendRefused, ledger, IInv, NothingVanishes
  <2> QED BY <2>1, <2>2, <2>3 DEF Draining
<1>3. AnsweredBeforeTerminal'
  BY <1>kept DEF IInv, AnsweredBeforeTerminal, Dangling
<1>4. QueueShape'
  <2>1. CASE DrainTop
    BY <2>1, <1>0 DEF DrainTop, PassEnds, IInv, QueueShape
  <2>2. CASE AppendAcknowledged
    BY <2>2, <1>0 DEF AppendAcknowledged, PassEnds, IInv, QueueShape
  <2>3. CASE AppendRefused
    BY <2>3, <1>0 DEF AppendRefused, IInv, QueueShape
  <2> QED BY <2>1, <2>2, <2>3 DEF Draining
<1>5. BarrierDrains'
  <2>1. CASE DrainTop
    BY <2>1, <1>0, <1>kept DEF DrainTop, PassEnds, IInv, BarrierDrains
  <2>2. CASE AppendAcknowledged
    BY <2>2, <1>0, <1>kept DEF AppendAcknowledged, PassEnds, IInv, BarrierDrains, QueueShape
  <2>3. CASE AppendRefused
    BY <2>3, <1>0, <1>kept DEF AppendRefused, barrier, IInv, BarrierDrains, QueueShape
  <2> QED BY <2>1, <2>2, <2>3 DEF Draining
<1>6. BarrierPhases'
  <2>1. awaited = 0 => awaited' = 0
    BY <1>0 DEF Draining, DrainTop, AppendAcknowledged, AppendRefused, PassEnds, barrier
  <2>2. awaited = 0 /\ settle # "live" => lost' = lost
    BY DEF Draining, DrainTop, AppendAcknowledged, AppendRefused, IInv, BarrierDrains, QueueShape
  <2> QED BY <1>kept, <2>1, <2>2 DEF IInv, BarrierPhases, Verdict
<1> QED BY <1>1, <1>2, <1>3, <1>4, <1>5, <1>6 DEF IInv

\* The barrier decides once, and publishes the verdict only over a full transcript.
LEMMA SettlingInvariant == IInv /\ Settling => IInv'
<1> SUFFICES ASSUME IInv, Settling PROVE IInv'
  OBVIOUS
<1>0. /\ passes \in Nat /\ awaited \in Nat
      /\ MaxAttempts \in Nat \ {0} /\ started \subseteq Tools
      /\ declared \in Declared \cup {None}
  BY MaxAttemptsAssumption DEF IInv, TypeOK
<1>1. ASSUME NEW intent \in Intent, NEW exhausted \in BOOLEAN, Settle(intent, exhausted)
      PROVE  IInv'
  <2> DEFINE verdict == ResolveRunOutcome(declared, intent, exhausted)
             n == Cardinality(Dangling) + 1
  <2>1. verdict \in Verdict BY <1>0, ResolveVerdict
  <2>2. EventOf(verdict) \in Declared BY <2>1, EventOfVerdict
  <2>3. n \in Nat \ {0} BY <1>0, DanglingCount
  <2>4. FlushesDue(n) \in Nat BY <2>3, FlushesDueType
  <2>5. /\ settle = "live" /\ settle' = "flushing"
        /\ decided' = verdict /\ awaited' = passes'
        /\ UNCHANGED <<terminal, stored, row, started, batch, attempts, drain, lost>>
    BY <1>1 DEF Settle, MintTerminal, ledger, storage
  <2> HIDE DEF verdict, n
  <2>6. CASE declared = None
    <3>1. /\ seq' = seq + n
          /\ durable' = durable \cup (seq + 1 .. seq + n)
          /\ buffer' = buffer \cup (seq + 1 .. seq + n)
          /\ answered' = answered \cup (started \ answered)
          /\ declared' = EventOf(verdict)
          /\ passes' = passes + FlushesDue(n) + 1
      BY <1>1, <2>6 DEF Settle, MintTerminal, Mint, Dangling, n, verdict
    <3>2. TypeOK'
      BY <2>1, <2>2, <2>3, <2>4, <2>5, <3>1 DEF IInv, TypeOK
    <3>3. NothingVanishes' /\ AnsweredBeforeTerminal'
      BY <2>5, <3>1 DEF IInv, NothingVanishes, AnsweredBeforeTerminal, Dangling
    <3>4. QueueShape' /\ BarrierDrains'
      BY <1>0, <2>4, <2>5, <3>1 DEF IInv, QueueShape, BarrierDrains
    <3>5. BarrierPhases'
      BY <2>1, <2>2, <2>5, <3>1 DEF IInv, BarrierPhases, Verdict, Declared
    <3> QED BY <3>2, <3>3, <3>4, <3>5 DEF IInv
  <2>7. CASE declared # None
    <3>1. /\ UNCHANGED <<seq, durable, answered, declared, buffer>>
          /\ passes' = passes + 1
      BY <1>1, <2>7 DEF Settle, ledger
    <3>2. TypeOK'
      BY <1>0, <2>1, <2>5, <3>1 DEF IInv, TypeOK
    <3>3. NothingVanishes' /\ AnsweredBeforeTerminal'
      BY <2>5, <3>1 DEF IInv, NothingVanishes, AnsweredBeforeTerminal, Dangling
    <3>4. QueueShape' /\ BarrierDrains'
      BY <1>0, <2>5, <3>1 DEF IInv, QueueShape, BarrierDrains
    <3>5. BarrierPhases'
      BY <2>1, <2>5, <2>7, <3>1 DEF IInv, BarrierPhases, Verdict
    <3> QED BY <3>2, <3>3, <3>4, <3>5 DEF IInv
  <2> QED BY <2>6, <2>7
<1>2. CASE FlushResolved
  <2> USE <1>2 DEF FlushResolved, ledger, writes, storage
  <2>1. TypeOK' BY DEF IInv, TypeOK
  <2>2. NothingVanishes' /\ AnsweredBeforeTerminal' /\ QueueShape' /\ BarrierDrains'
    BY DEF IInv, NothingVanishes, AnsweredBeforeTerminal, Dangling, QueueShape, BarrierDrains
  <2>3. BarrierPhases' BY DEF IInv, BarrierPhases, Verdict
  <2> QED BY <2>1, <2>2, <2>3 DEF IInv
<1>3. CASE RowLands
  <2> USE <1>3 DEF RowLands, ledger, writes, barrier
  <2>1. TypeOK' BY DEF IInv, TypeOK, BarrierPhases, Terminal
  <2>2. NothingVanishes' /\ AnsweredBeforeTerminal' /\ QueueShape' /\ BarrierDrains'
    BY DEF IInv, NothingVanishes, AnsweredBeforeTerminal, Dangling, QueueShape, BarrierDrains
  <2>3. BarrierPhases' BY DEF IInv, BarrierPhases, Verdict
  <2> QED BY <2>1, <2>2, <2>3 DEF IInv
<1>4. ASSUME CompleteAcknowledged \/ CompleteRefused \/ CompleteDegraded PROVE IInv'
  <2> USE <1>4 DEF CompleteAcknowledged, CompleteRefused, CompleteDegraded, Publish,
                   ledger, writes, storage
  <2>1. TypeOK' BY DEF IInv, TypeOK, BarrierPhases, Terminal
  <2>2. NothingVanishes' /\ AnsweredBeforeTerminal' /\ QueueShape' /\ BarrierDrains'
    BY DEF IInv, NothingVanishes, AnsweredBeforeTerminal, Dangling, QueueShape, BarrierDrains
  <2>3. BarrierPhases' BY DEF IInv, BarrierPhases, Verdict
  <2> QED BY <2>1, <2>2, <2>3 DEF IInv
<1> QED BY <1>1, <1>2, <1>3, <1>4 DEF Settling

\* A racing writer of the row changes nothing the session relies on.
LEMMA OtherWriterInvariant ==
  ASSUME NEW t \in Terminal, IInv, OtherWriterCompletes(t)
  PROVE  IInv'
<1> USE DEF OtherWriterCompletes, ledger, writes, barrier
<1>1. TypeOK' BY DEF IInv, TypeOK
<1>2. NothingVanishes' /\ AnsweredBeforeTerminal' /\ QueueShape' /\ BarrierDrains'
  BY DEF IInv, NothingVanishes, AnsweredBeforeTerminal, Dangling, QueueShape, BarrierDrains
<1>3. BarrierPhases' BY DEF IInv, BarrierPhases, Verdict
<1> QED BY <1>1, <1>2, <1>3 DEF IInv

\* The strengthened invariant holds of every reachable state.
THEOREM InductiveInvariant == Spec => []IInv
<1>1. IInv /\ UNCHANGED vars => IInv'
  BY DEF IInv, TypeOK, NothingVanishes, AnsweredBeforeTerminal, Dangling, QueueShape,
         BarrierDrains, BarrierPhases, vars, ledger, writes, barrier, storage
<1>2. IInv /\ [Next]_vars => IInv'
  BY <1>1, MintingInvariant, DrainingInvariant, SettlingInvariant, OtherWriterInvariant DEF Next
<1> QED BY InitInvariant, <1>2, PTL DEF Spec

\* Type correctness.
THEOREM TypeCorrect == Spec => []TypeOK
BY InductiveInvariant, PTL DEF IInv

\* No durable event vanishes: RunSession's write queue and its retries.
THEOREM NothingIsLostSilently == Spec => []NothingVanishes
BY InductiveInvariant, PTL DEF IInv

\* No terminal event is minted over an unanswered tool call.
THEOREM ToolsAreAnswered == Spec => []AnsweredBeforeTerminal
BY InductiveInvariant, PTL DEF IInv

\* A verdict other than persistence_failed is published only when the row holds
\* it and every durable event is stored: #settleOnce's barrier.
THEOREM DurableVerdict == Spec => []VerdictIsDurable
<1>1. IInv => VerdictIsDurable
  <2> SUFFICES ASSUME IInv, terminal \in Verdict PROVE VerdictIsDurable
    BY DEF VerdictIsDurable
  <2>1. settle = "done"
    BY DEF IInv, BarrierPhases, Verdict
  <2>2. row = terminal /\ declared # None /\ awaited = 0 /\ lost = {}
    BY <2>1 DEF IInv, BarrierPhases
  <2>3. batch = {} /\ buffer = {}
    BY <2>1, <2>2 DEF IInv, BarrierDrains
  <2> QED BY <2>2, <2>3 DEF IInv, NothingVanishes, VerdictIsDurable
<1> QED BY <1>1, InductiveInvariant, PTL

\* RunSession implements RunVerdict: every step of the session is a step of the
\* abstract promise or leaves decided, row and terminal alone.
THEOREM Refinement == Spec => KeepsPromise
<1>1. Init => Promise!Init
  BY DEF Init, Promise!Init, Promise!None
<1>2. IInv /\ [Next]_vars => [Promise!Next]_Promise!vars
  <2> SUFFICES ASSUME IInv, [Next]_vars PROVE [Promise!Next]_Promise!vars
    OBVIOUS
  <2> USE DEF Promise!vars, Promise!None, Promise!Degraded
  <2>1. CASE UNCHANGED vars \/ Minting \/ Draining \/ FlushResolved
    BY <2>1 DEF vars, barrier, storage, Minting, ObserveRunStarted, ObserveTransient,
         ObserveToolStarted, ObserveToolCompleted, ObserveToolTimedOut, ObserveTerminal,
         Draining, DrainTop, AppendAcknowledged, AppendRefused, FlushResolved
  <2>2. ASSUME NEW intent \in Intent, NEW exhausted \in BOOLEAN, Settle(intent, exhausted)
        PROVE  Promise!Decide
    <3>1. decided = None /\ declared \in Declared \cup {None}
      BY <2>2 DEF Settle, IInv, TypeOK, BarrierPhases
    <3>2. decided' \in Verdict
      BY <2>2, <3>1, ResolveVerdict DEF Settle
    <3> QED BY <2>2, <3>1, <3>2 DEF Settle, storage, Promise!Decide, Promise!Verdict, Verdict
  <2>3. CASE RowLands \/ \E t \in Terminal : OtherWriterCompletes(t)
    BY <2>3 DEF RowLands, OtherWriterCompletes, barrier, Promise!Next, Promise!WriteRow,
         Promise!Terminal, Promise!Verdict, Terminal, Verdict, IInv, TypeOK, BarrierPhases
  <2>4. CASE CompleteAcknowledged
    BY <2>4 DEF CompleteAcknowledged, Publish, storage, IInv, BarrierPhases,
         Promise!Next, Promise!PublishDurable
  <2>5. CASE CompleteRefused \/ CompleteDegraded
    BY <2>5 DEF CompleteRefused, CompleteDegraded, Publish, storage, IInv, BarrierPhases,
         Promise!Next, Promise!PublishDegraded
  <2> QED BY <2>1, <2>2, <2>3, <2>4, <2>5 DEF Next, Settling, Promise!Next
<1> QED BY <1>1, <1>2, InductiveInvariant, PTL DEF Spec, KeepsPromise, Promise!Spec
-----------------------------------------------------------------------------
(* What settle waits for comes, after a bounded number of storage calls. *)

\* The pass settle waits for is on the chain.
Owed == awaited <= passes

\* It stays there until it ran.
LEMMA OwedStays == IInv /\ Owed /\ [Next]_vars => Owed'
<1> SUFFICES ASSUME IInv, Owed, [Next]_vars PROVE Owed'
  OBVIOUS
<1>0. /\ passes \in Nat /\ awaited \in Nat
      /\ drain = "appending" => passes > 0
      /\ settle = "live" => awaited = 0
  BY DEF IInv, TypeOK, QueueShape, BarrierDrains
<1> USE DEF Owed
<1>1. CASE Minting
  <2>1. passes' \in Nat
    BY <1>1, MintingInvariant DEF IInv, TypeOK
  <2>2. CASE awaited = 0
    BY <1>1, <2>1, <2>2 DEF Minting, ObserveRunStarted, ObserveTransient, ObserveToolStarted,
       ObserveToolCompleted, ObserveToolTimedOut, ObserveTerminal, writes, barrier
  <2>3. CASE awaited # 0
    <3>1. declared # None
      BY <1>0, <2>3 DEF IInv, BarrierPhases
    <3> QED BY <1>1, <3>1 DEF Minting, ObserveRunStarted, ObserveTransient, ObserveToolStarted,
       ObserveToolCompleted, ObserveToolTimedOut, ObserveTerminal, Ordinary, Open
  <2> QED BY <2>2, <2>3
<1>2. CASE Draining
  BY <1>0, <1>2 DEF Draining, DrainTop, AppendAcknowledged, AppendRefused, PassEnds, barrier
<1>3. CASE Settling
  <2>1. ASSUME NEW intent, NEW exhausted, Settle(intent, exhausted) PROVE awaited' = passes'
    BY <2>1 DEF Settle
  <2>2. passes' \in Nat
    BY <1>3, SettlingInvariant DEF IInv, TypeOK
  <2> QED BY <1>0, <1>3, <2>1, <2>2 DEF Settling, FlushResolved, RowLands, CompleteAcknowledged,
       CompleteRefused, CompleteDegraded, writes, barrier
<1>4. CASE \E t \in Terminal : OtherWriterCompletes(t)
  BY <1>4 DEF OtherWriterCompletes, writes, barrier
<1>5. CASE UNCHANGED vars
  BY <1>5 DEF vars, writes, barrier
<1> QED BY <1>1, <1>2, <1>3, <1>4, <1>5 DEF Next

\* A settle in progress has a guard of the session's met, whatever storage answered:
\* a pass to run while it waits for the flush, an answer of storage afterwards.
SettleMoves ==
  /\ settle = "flushing" => awaited = 0 \/ (passes > 0 /\ drain \in {"top", "appending"})
  /\ settle = "flushing" /\ awaited = 0 => batch = {} /\ buffer = {} /\ lost \cup stored = durable

\* The flush settle waits for is never one that nothing will run, and resolves
\* only over a transcript each event of which is stored or counted as lost.
THEOREM SettleIsNeverStuck == Spec => []SettleMoves
<1>1. Init => Owed
  BY DEF Init, Owed
<1>2. Spec => []Owed
  BY <1>1, OwedStays, InductiveInvariant, PTL DEF Spec
<1>3. IInv /\ Owed => SettleMoves
  <2> SUFFICES ASSUME IInv, Owed, settle = "flushing" PROVE SettleMoves
    BY DEF SettleMoves
  <2>1. awaited = 0 \/ passes > 0
    BY DEF IInv, TypeOK, Owed
  <2>2. drain \in {"top", "appending"} /\ lost \cup stored \subseteq durable
    BY DEF IInv, TypeOK
  <2>3. awaited = 0 => batch = {} /\ buffer = {}
    BY DEF IInv, BarrierDrains
  <2> QED BY <2>1, <2>2, <2>3 DEF IInv, NothingVanishes, SettleMoves
<1> QED BY <1>2, <1>3, InductiveInvariant, PTL

\* What is left of a settle's wait: the refusals storage may still give to what is
\* queued, the passes on the chain, and a step to offer the head.
Refusals ==
  (IF batch = {} THEN 0 ELSE MaxAttempts - attempts) + (IF buffer = {} THEN 0 ELSE MaxAttempts)

Wait == 2 * (Refusals + passes) + (IF drain = "top" THEN 1 ELSE 0)

\* While a settle waits, its wait never grows, and every step of the write path
\* shortens it: retries, a head that is given up and a buffer that follows included.
WaitShortens ==
  settle = "flushing" /\ settle' = "flushing" =>
    Wait' <= Wait /\ (UNCHANGED writes \/ Wait' < Wait)

\* A settle waits for a bounded number of writes and refusals, each of which is a step
\* nearer its end: storage that refuses for ever delays it and cannot hold it.
THEOREM SettleWaitIsBounded == Spec => [](Wait \in Nat) /\ [][WaitShortens]_vars
<1>1. IInv => Wait \in Nat
  <2> SUFFICES ASSUME IInv PROVE Wait \in Nat
    OBVIOUS
  <2>1. Refusals \in Nat
    BY MaxAttemptsAssumption DEF IInv, TypeOK, Refusals
  <2> QED BY <2>1 DEF IInv, TypeOK, Wait
<1>2. IInv /\ IInv' /\ [Next]_vars => [WaitShortens]_vars
  <2> SUFFICES ASSUME IInv, IInv', [Next]_vars, settle = "flushing", settle' = "flushing"
               PROVE  Wait' <= Wait /\ (UNCHANGED writes \/ Wait' < Wait)
    BY DEF WaitShortens
  <2>0. /\ passes \in Nat /\ attempts \in 0 .. MaxAttempts - 1 /\ MaxAttempts \in Nat \ {0}
        /\ drain \in {"top", "appending"} /\ declared # None
        /\ drain = "appending" => batch # {} /\ passes > 0
    BY MaxAttemptsAssumption DEF IInv, TypeOK, QueueShape, BarrierPhases
  <2>1. CASE UNCHANGED writes
    <3>1. Wait' = Wait
      BY <2>1 DEF writes, Wait, Refusals
    <3>2. Wait \in Nat
      BY <1>1
    <3> QED BY <2>1, <3>1, <3>2
  <2>2. CASE DrainTop
    BY <2>0, <2>2 DEF DrainTop, PassEnds, Wait, Refusals
  <2>3. CASE AppendAcknowledged
    BY <2>0, <2>3 DEF AppendAcknowledged, PassEnds, Wait, Refusals
  <2>4. CASE AppendRefused
    BY <2>0, <2>4 DEF AppendRefused, Wait, Refusals
  <2>5. UNCHANGED writes \/ Draining
    BY <2>0 DEF Next, vars, Minting, ObserveRunStarted, ObserveTransient, ObserveToolStarted,
       ObserveToolCompleted, ObserveToolTimedOut, ObserveTerminal, Ordinary, Open,
       Settling, Settle, FlushResolved, RowLands, CompleteAcknowledged, CompleteRefused,
       CompleteDegraded, OtherWriterCompletes
  <2> QED BY <2>1, <2>2, <2>3, <2>4, <2>5 DEF Draining
<1> QED BY <1>1, <1>2, InductiveInvariant, PTL DEF Spec
=============================================================================
