-------------------------- MODULE MemoryLeaseProofs --------------------------
(***************************************************************************)
(* What is proved of MemoryLease, for any number of workers, any TTL and   *)
(* grace, any backoff and retry bound.                                     *)
(***************************************************************************)
EXTENDS MemoryLease, TLAPS

\* A run still in its TTL holds the row, and the row's deadline is its own.
BeatIsDeadline ==
  \A w \in Workers :
    run[w] # "idle" /\ beat[w] < TTL => Holds(w) /\ lease.left = TTL - beat[w]

\* The row's version is the one its run extracts, newer than the last output.
LeaseIsAhead ==
  lease # NoLease => /\ output.version < lease.version
                     /\ lease.version <= source
                     /\ snapshot[lease.holder] = lease.version

\* A run knows the version it extracts, and has enqueued it before it completes.
RunHasSnapshot ==
  \A w \in Workers : /\ run[w] # "idle" => snapshot[w] > 0
                     /\ run[w] = "projected" => snapshot[w] \in projections

RetiredHasNoLease == retired => lease = NoLease

IInv ==
  /\ TypeOK
  /\ BeatIsDeadline
  /\ LeaseIsAhead
  /\ RunHasSnapshot
  /\ OutputIsProjected
  /\ RetiredHasNoLease
-----------------------------------------------------------------------------
\* A row, and the lack of one, are told apart by the status.
LEMMA RowOrNone ==
  ASSUME lease \in Lease \cup {NoLease}
  PROVE  /\ lease # NoLease => lease \in Lease
         /\ lease.status \in {"running", "failed"} <=> lease # NoLease
<1>1. NoLease.status = "none" BY DEF NoLease
<1>2. ASSUME NEW l \in Lease PROVE l.status \in {"running", "failed"} BY DEF Lease
<1> QED BY <1>1, <1>2

\* The fields of a row.
LEMMA RowFields ==
  ASSUME lease \in Lease
  PROVE  /\ lease.status \in {"running", "failed"} /\ lease.holder \in Workers
         /\ lease.attempts \in 1 .. MaxRetry /\ lease.left \in 0 .. TTL
         /\ lease.age \in 0 .. Grace + 1 /\ lease.retry \in Nat
         /\ lease.version \in 1 .. MaxSource
BY DEF Lease

\* A retry waits a number of ticks.
LEMMA BackoffType ==
  ASSUME NEW n \in 1 .. MaxRetry
  PROVE  BackoffOf(n) \in Nat
<1>1. Len(Backoff) \in Nat /\ Len(Backoff) > 0 BY BackoffAssumption
<1>2. (IF n < Len(Backoff) THEN n ELSE Len(Backoff)) \in 1 .. Len(Backoff)
  BY <1>1, MaxRetryAssumption
<1>3. \A i \in 1 .. Len(Backoff) : Backoff[i] \in Nat BY BackoffAssumption
<1> QED BY <1>2, <1>3 DEF BackoffOf

\* Before any run the invariant holds.
LEMMA InitInvariant == Init => IInv
<1> USE TTLAssumption, MaxSourceAssumption
<1> SUFFICES ASSUME Init PROVE IInv
  OBVIOUS
<1>1. TypeOK
  <2>1. run \in [Workers -> {"idle", "extracting", "projected"}] BY DEF Init
  <2>2. snapshot \in [Workers -> 0 .. MaxSource] /\ beat \in [Workers -> 0 .. TTL] BY DEF Init
  <2>3. retired \in BOOLEAN BY Zenon DEF Init
  <2>4. source \in 1 .. MaxSource /\ projections \subseteq 1 .. MaxSource BY DEF Init
  <2>5. lease \in Lease \cup {NoLease} /\ output \in [kind: Outputs, version: 1 .. MaxSource] \cup {NoOutput}
    BY Zenon DEF Init
  <2> QED BY <2>1, <2>2, <2>3, <2>4, <2>5 DEF TypeOK
<1>2. BeatIsDeadline /\ RunHasSnapshot BY DEF Init, BeatIsDeadline, RunHasSnapshot
<1>3. LeaseIsAhead /\ RetiredHasNoLease BY DEF Init, LeaseIsAhead, RetiredHasNoLease
<1>4. OutputIsProjected BY DEF Init, OutputIsProjected, NoOutput
<1> QED BY <1>1, <1>2, <1>3, <1>4 DEF IInv
-----------------------------------------------------------------------------
\* The clock moves every deadline and every heartbeat together.
LEMMA TickInvariant == IInv /\ Tick => IInv'
<1> USE TTLAssumption, GraceAssumption, MaxRetryAssumption, MaxSourceAssumption
<1> SUFFICES ASSUME IInv, Tick PROVE IInv'
  OBVIOUS
<1>t. TypeOK BY DEF IInv
<1>1. UNCHANGED <<source, retired, output, projections, run, snapshot>> BY DEF Tick
<1>2. ASSUME NEW w \in Workers
      PROVE  beat'[w] = More(beat[w], TTL) /\ beat[w] \in 0 .. TTL
  BY <1>t DEF Tick, TypeOK
<1>3. beat' \in [Workers -> 0 .. TTL]
  BY <1>t DEF Tick, TypeOK, More
<1>4. CASE lease = NoLease
  <2>1. lease' = NoLease BY <1>4 DEF Tick
  <2>2. TypeOK' BY <1>t, <1>1, <1>3, <2>1 DEF TypeOK
  <2>3. BeatIsDeadline'
    BY <1>1, <1>2, <1>4, <2>1 DEF IInv, BeatIsDeadline, Holds, NoLease, More
  <2>4. LeaseIsAhead' /\ RunHasSnapshot' /\ OutputIsProjected' /\ RetiredHasNoLease'
    BY <1>1, <2>1 DEF IInv, LeaseIsAhead, RunHasSnapshot, OutputIsProjected, RetiredHasNoLease
  <2> QED BY <2>2, <2>3, <2>4 DEF IInv
<1>5. CASE lease # NoLease
  <2>1. lease \in Lease BY <1>5, <1>t, RowOrNone DEF TypeOK
  <2>2. lease' = [lease EXCEPT !.left = Less(@), !.retry = Less(@), !.age = More(@, Grace + 1)]
    BY <1>5 DEF Tick
  <2>3. /\ lease'.status = lease.status /\ lease'.holder = lease.holder
        /\ lease'.left = Less(lease.left) /\ lease'.version = lease.version
        /\ lease' \in Lease
    <3>1. /\ Less(lease.left) \in 0 .. TTL /\ Less(lease.retry) \in Nat
          /\ More(lease.age, Grace + 1) \in 0 .. Grace + 1
      BY <2>1, RowFields DEF Less, More
    <3> HIDE DEF Less, More
    <3> QED BY <2>1, <2>2, <3>1 DEF Lease
  <2>4. lease' # NoLease BY <2>1, <2>3 DEF Lease, NoLease
  <2>5. TypeOK' BY <1>t, <1>1, <1>3, <2>3 DEF TypeOK
  <2>6. BeatIsDeadline'
    BY <1>1, <1>2, <2>1, <2>3, RowFields DEF IInv, BeatIsDeadline, Holds, Less, More
  <2>7. LeaseIsAhead' /\ RunHasSnapshot' /\ OutputIsProjected' /\ RetiredHasNoLease'
    BY <1>1, <1>5, <2>3 DEF IInv, LeaseIsAhead, RunHasSnapshot, OutputIsProjected, RetiredHasNoLease
  <2> QED BY <2>5, <2>6, <2>7 DEF IInv
<1> QED BY <1>4, <1>5

\* Whoever may acquire stands beside no run that is still in its TTL.
LEMMA AcquireInvariant == ASSUME NEW w \in Workers PROVE IInv /\ Acquire(w) => IInv'
<1> USE TTLAssumption, GraceAssumption, MaxRetryAssumption, MaxSourceAssumption
<1> SUFFICES ASSUME IInv, Acquire(w) PROVE IInv'
  OBVIOUS
<1>t. TypeOK BY DEF IInv
<1>1. /\ UNCHANGED <<source, retired, output, projections>>
      /\ run' = [run EXCEPT ![w] = "extracting"]
      /\ snapshot' = [snapshot EXCEPT ![w] = source]
      /\ beat' = [beat EXCEPT ![w] = 0]
      /\ run[w] = "idle" /\ ~retired
  BY DEF Acquire, Acquirable
<1>2. /\ lease'.status = "running" /\ lease'.holder = w /\ lease'.left = TTL
      /\ lease'.version = source
  BY DEF Acquire
<1>3. lease' \in Lease
  <2>1. (IF lease = NoLease THEN 1 ELSE More(lease.attempts, MaxRetry)) \in 1 .. MaxRetry
    BY <1>t, RowOrNone, RowFields DEF TypeOK, More
  <2> QED BY <1>t, <2>1 DEF Acquire, Lease, TypeOK
<1>4. lease' # NoLease BY <1>2 DEF NoLease
<1>5. TypeOK' BY <1>t, <1>1, <1>3 DEF TypeOK
<1>6. ASSUME NEW v \in Workers, v # w, run[v] # "idle", beat[v] < TTL PROVE FALSE
  <2>1. lease.status = "running" /\ lease.left = TTL - beat[v]
    BY <1>6 DEF IInv, BeatIsDeadline, Holds
  <2>2. beat[v] \in 0 .. TTL BY <1>t DEF TypeOK
  <2> QED BY <2>1, <2>2, <1>6 DEF Acquire, Acquirable
<1>7. BeatIsDeadline'
  BY <1>t, <1>1, <1>2, <1>6 DEF TypeOK, BeatIsDeadline, Holds
<1>8. LeaseIsAhead'
  <2>1. output.version < source
    <3>1. CASE output = NoOutput BY <3>1, <1>t DEF NoOutput, TypeOK
    <3>2. CASE lease.status = "failed"
      <4>1. lease # NoLease /\ lease \in Lease BY <1>t, <3>2, RowOrNone DEF TypeOK
      <4>2. lease.version \in 1 .. MaxSource BY <4>1, RowFields
      <4>3. output.version \in 0 .. MaxSource BY <1>t DEF TypeOK, NoOutput
      <4> QED BY <1>t, <4>1, <4>2, <4>3 DEF IInv, LeaseIsAhead, TypeOK
    <3> QED BY <3>1, <3>2 DEF Acquire, Eligible
  <2>2. snapshot'[w] = source BY <1>t, <1>1 DEF TypeOK
  <2> QED BY <1>t, <1>1, <1>2, <2>1, <2>2 DEF LeaseIsAhead, TypeOK
<1>9. RunHasSnapshot' /\ OutputIsProjected' /\ RetiredHasNoLease'
  <2>1. RunHasSnapshot' BY <1>t, <1>1 DEF IInv, RunHasSnapshot, TypeOK
  <2>2. OutputIsProjected' BY <1>1 DEF IInv, OutputIsProjected
  <2>3. RetiredHasNoLease' BY <1>1 DEF RetiredHasNoLease
  <2> QED BY <2>1, <2>2, <2>3
<1> QED BY <1>5, <1>7, <1>8, <1>9 DEF IInv
-----------------------------------------------------------------------------
\* A heartbeat moves the deadline and the run's own clock together.
LEMMA HeartbeatInvariant == ASSUME NEW w \in Workers PROVE IInv /\ Heartbeat(w) => IInv'
<1> USE TTLAssumption, GraceAssumption, MaxRetryAssumption, MaxSourceAssumption
<1> SUFFICES ASSUME IInv, Heartbeat(w) PROVE IInv'
  OBVIOUS
<1>t. TypeOK BY DEF IInv
<1>1. /\ UNCHANGED <<source, retired, output, projections, run, snapshot>>
      /\ beat' = [beat EXCEPT ![w] = 0]
      /\ lease.status = "running" /\ lease.holder = w
  BY DEF Heartbeat, Holds
<1>2. lease # NoLease /\ lease \in Lease BY <1>t, <1>1, RowOrNone DEF TypeOK
<1>3. /\ lease'.status = "running" /\ lease'.holder = w /\ lease'.left = TTL
      /\ lease'.version = lease.version
      /\ lease' \in Lease
  <2>1. lease' = [lease EXCEPT !.age = 0, !.left = TTL] BY DEF Heartbeat
  <2>2. 0 \in 0 .. Grace + 1 /\ TTL \in 0 .. TTL OBVIOUS
  <2> QED BY ONLY <1>1, <1>2, <2>1, <2>2 DEF Lease
<1>4. TypeOK' BY <1>t, <1>1, <1>3 DEF TypeOK
<1>5. BeatIsDeadline'
  BY <1>t, <1>1, <1>3 DEF IInv, TypeOK, BeatIsDeadline, Holds
<1>6. LeaseIsAhead' BY <1>1, <1>2, <1>3 DEF IInv, LeaseIsAhead
<1>7. RunHasSnapshot' /\ OutputIsProjected' BY <1>1 DEF IInv, RunHasSnapshot, OutputIsProjected
<1>8. RetiredHasNoLease' BY <1>1, <1>2 DEF IInv, RetiredHasNoLease
<1> QED BY <1>4, <1>5, <1>6, <1>7, <1>8 DEF IInv

\* A failure touches the row of its own run only.
LEMMA FailInvariant == ASSUME NEW w \in Workers PROVE IInv /\ Fail(w) => IInv'
<1> USE TTLAssumption, GraceAssumption, MaxRetryAssumption, MaxSourceAssumption
<1> SUFFICES ASSUME IInv, Fail(w) PROVE IInv'
  OBVIOUS
<1>t. TypeOK BY DEF IInv
<1>1. /\ UNCHANGED <<source, output, projections, snapshot, beat>>
      /\ run' = [run EXCEPT ![w] = "idle"]
  BY DEF Fail
<1>2. run' \in [Workers -> {"idle", "extracting", "projected"}] BY <1>t, <1>1 DEF TypeOK
<1>3. RunHasSnapshot' /\ OutputIsProjected'
  BY <1>t, <1>1 DEF IInv, RunHasSnapshot, OutputIsProjected, TypeOK
<1>4. CASE lease = NoLease \/ lease.holder # w
  <2>1. UNCHANGED <<lease, retired>> BY <1>4 DEF Fail
  <2>2. TypeOK' BY <1>t, <1>1, <1>2, <2>1 DEF TypeOK
  <2>3. BeatIsDeadline' /\ LeaseIsAhead' /\ RetiredHasNoLease'
    BY <1>t, <1>1, <2>1 DEF IInv, BeatIsDeadline, LeaseIsAhead, RetiredHasNoLease, Holds, TypeOK
  <2> QED BY <1>3, <2>2, <2>3 DEF IInv
<1>5. CASE lease # NoLease /\ lease.holder = w
  <2>1. ASSUME NEW v \in Workers PROVE ~(run'[v] # "idle" /\ beat'[v] < TTL)
    BY <1>t, <1>1, <1>5 DEF IInv, BeatIsDeadline, Holds, TypeOK
  <2>2. BeatIsDeadline' BY <2>1 DEF BeatIsDeadline
  <2>3. lease \in Lease BY <1>t, <1>5, RowOrNone DEF TypeOK
  <2>4. CASE lease.attempts >= MaxRetry
    <3>1. lease' = NoLease /\ retired' = TRUE BY <1>5, <2>4 DEF Fail
    <3>2. TypeOK' BY <1>t, <1>1, <1>2, <3>1 DEF TypeOK
    <3> QED BY <1>3, <2>2, <3>1, <3>2 DEF IInv, LeaseIsAhead, RetiredHasNoLease
  <2>5. CASE ~(lease.attempts >= MaxRetry)
    <3>1. /\ lease' = [lease EXCEPT !.status = "failed", !.retry = BackoffOf(lease.attempts)]
          /\ UNCHANGED retired
      BY <1>5, <2>5 DEF Fail
    <3>2. BackoffOf(lease.attempts) \in Nat BY <2>3, RowFields, BackoffType
    <3>3. lease'.holder = lease.holder /\ lease'.version = lease.version /\ lease' \in Lease
      <4> HIDE DEF BackoffOf
      <4> QED BY <2>3, <3>1, <3>2 DEF Lease
    <3>4. TypeOK' BY <1>t, <1>1, <1>2, <3>1, <3>3 DEF TypeOK
    <3>5. LeaseIsAhead' BY <1>1, <1>5, <3>3 DEF IInv, LeaseIsAhead
    <3>6. RetiredHasNoLease' BY <1>5, <3>1 DEF IInv, RetiredHasNoLease
    <3> QED BY <1>3, <2>2, <3>4, <3>5, <3>6 DEF IInv
  <2> QED BY <2>4, <2>5
<1> QED BY <1>4, <1>5

\* Enqueueing a summary keeps the invariant.
LEMMA ProjectInvariant == ASSUME NEW w \in Workers PROVE IInv /\ Project(w) => IInv'
<1> SUFFICES ASSUME IInv, Project(w) PROVE IInv'
  OBVIOUS
<1>t. TypeOK BY DEF IInv
<1>1. /\ UNCHANGED <<source, lease, retired, output, snapshot, beat>>
      /\ run[w] = "extracting" /\ run' = [run EXCEPT ![w] = "projected"]
      /\ projections' = projections \cup {snapshot[w]}
  BY DEF Project
<1>2. snapshot[w] \in 1 .. MaxSource
  BY <1>t, <1>1, MaxSourceAssumption DEF IInv, RunHasSnapshot, TypeOK
<1>3. TypeOK' BY <1>t, <1>1, <1>2 DEF TypeOK
<1>4. BeatIsDeadline' /\ LeaseIsAhead' /\ RetiredHasNoLease'
  BY <1>t, <1>1 DEF IInv, BeatIsDeadline, LeaseIsAhead, RetiredHasNoLease, Holds, TypeOK
<1>5. RunHasSnapshot' BY <1>t, <1>1 DEF IInv, RunHasSnapshot, TypeOK
<1>6. OutputIsProjected' BY <1>1 DEF IInv, OutputIsProjected
<1> QED BY <1>3, <1>4, <1>5, <1>6 DEF IInv

\* A completion commits what the row is for, or writes nothing.
LEMMA CompleteInvariant == ASSUME NEW w \in Workers PROVE IInv /\ Complete(w) => IInv'
<1> USE TTLAssumption, GraceAssumption, MaxSourceAssumption
<1> SUFFICES ASSUME IInv, Complete(w) PROVE IInv'
  OBVIOUS
<1>t. TypeOK BY DEF IInv
<1>1. /\ UNCHANGED <<source, retired, projections, snapshot, beat>>
      /\ run[w] # "idle" /\ run' = [run EXCEPT ![w] = "idle"]
  BY DEF Complete
<1>2. run' \in [Workers -> {"idle", "extracting", "projected"}] BY <1>t, <1>1 DEF TypeOK
<1>3. RunHasSnapshot' BY <1>t, <1>1 DEF IInv, RunHasSnapshot, TypeOK
<1>4. CASE Holds(w) /\ lease.age <= Grace
  <2>1. lease' = NoLease BY <1>4 DEF Complete
  <2>2. PICK kind \in Kinds(w) : output' = [kind |-> kind, version |-> snapshot[w]]
    BY <1>4 DEF Complete
  <2>3. snapshot[w] \in 1 .. MaxSource BY <1>t, <1>1 DEF IInv, RunHasSnapshot, TypeOK
  <2>4. output' \in [kind: Outputs, version: 1 .. MaxSource]
    <3>1. kind \in Outputs BY DEF Kinds, Outputs
    <3> QED BY <2>2, <2>3, <3>1
  <2>5. TypeOK' BY <1>t, <1>1, <1>2, <2>1, <2>4 DEF TypeOK
  <2>6. ASSUME NEW v \in Workers PROVE ~(run'[v] # "idle" /\ beat'[v] < TTL)
    BY <1>t, <1>1, <1>4 DEF IInv, BeatIsDeadline, Holds, TypeOK
  <2>7. BeatIsDeadline' BY <2>6 DEF BeatIsDeadline
  <2>8. OutputIsProjected'
    <3>1. CASE run[w] = "projected"
      BY <1>1, <2>2, <3>1 DEF IInv, RunHasSnapshot, OutputIsProjected
    <3>2. CASE run[w] # "projected"
      <4>1. kind = "succeeded_no_output" BY <3>2 DEF Kinds
      <4> QED BY <2>2, <4>1 DEF OutputIsProjected
    <3> QED BY <3>1, <3>2
  <2>9. LeaseIsAhead' /\ RetiredHasNoLease' BY <2>1 DEF LeaseIsAhead, RetiredHasNoLease
  <2> QED BY <1>3, <2>5, <2>7, <2>8, <2>9 DEF IInv
<1>5. CASE ~(Holds(w) /\ lease.age <= Grace)
  <2>1. UNCHANGED <<output, lease>> BY <1>5 DEF Complete
  <2>2. TypeOK' BY <1>t, <1>1, <1>2, <2>1 DEF TypeOK
  <2>3. BeatIsDeadline' /\ LeaseIsAhead' /\ RetiredHasNoLease'
    BY <1>t, <1>1, <2>1 DEF IInv, BeatIsDeadline, LeaseIsAhead, RetiredHasNoLease, Holds, TypeOK
  <2>4. OutputIsProjected' BY <1>1, <2>1 DEF IInv, OutputIsProjected
  <2> QED BY <1>3, <2>2, <2>3, <2>4 DEF IInv
<1> QED BY <1>4, <1>5

\* What the others do leaves every row where it is.
LEMMA OtherInvariant ==
  IInv /\ (SourceAdvances \/ Purge \/ \E w \in Workers : Crash(w)) => IInv'
<1> USE MaxSourceAssumption
<1> SUFFICES ASSUME IInv, SourceAdvances \/ Purge \/ \E w \in Workers : Crash(w) PROVE IInv'
  OBVIOUS
<1>t. TypeOK BY DEF IInv
<1>1. CASE SourceAdvances
  <2>1. /\ source < MaxSource /\ source' = source + 1
        /\ UNCHANGED <<lease, retired, output, projections, run, snapshot, beat>>
    BY <1>1 DEF SourceAdvances
  <2>2. TypeOK' BY <1>t, <2>1 DEF TypeOK
  <2>3. LeaseIsAhead'
    <3>1. lease # NoLease => lease.version \in 1 .. MaxSource
      BY <1>t, RowOrNone, RowFields DEF TypeOK
    <3> QED BY <1>t, <2>1, <3>1 DEF IInv, LeaseIsAhead, TypeOK
  <2>4. BeatIsDeadline' /\ RunHasSnapshot' /\ OutputIsProjected' /\ RetiredHasNoLease'
    BY <2>1 DEF IInv, BeatIsDeadline, RunHasSnapshot, OutputIsProjected, RetiredHasNoLease, Holds
  <2> QED BY <2>2, <2>3, <2>4 DEF IInv
<1>2. CASE Purge
  <2>1. /\ output' = NoOutput
        /\ UNCHANGED <<source, lease, retired, projections, run, snapshot, beat>>
    BY <1>2 DEF Purge
  <2>2. TypeOK' BY <1>t, <2>1 DEF TypeOK
  <2>3. LeaseIsAhead'
    <3>1. lease # NoLease => lease.version \in 1 .. MaxSource
      BY <1>t, RowOrNone, RowFields DEF TypeOK
    <3> QED BY <2>1, <3>1 DEF IInv, LeaseIsAhead, NoOutput
  <2>4. OutputIsProjected' BY <2>1 DEF OutputIsProjected, NoOutput
  <2>5. BeatIsDeadline' /\ RunHasSnapshot' /\ RetiredHasNoLease'
    BY <2>1 DEF IInv, BeatIsDeadline, RunHasSnapshot, RetiredHasNoLease, Holds
  <2> QED BY <2>2, <2>3, <2>4, <2>5 DEF IInv
<1>3. ASSUME NEW w \in Workers, Crash(w) PROVE IInv'
  <2>1. /\ run' = [run EXCEPT ![w] = "idle"]
        /\ UNCHANGED <<source, lease, retired, output, projections, snapshot, beat>>
    BY <1>3 DEF Crash
  <2>2. TypeOK' BY <1>t, <2>1 DEF TypeOK
  <2>3. BeatIsDeadline' /\ LeaseIsAhead' /\ RunHasSnapshot'
    BY <1>t, <2>1 DEF IInv, BeatIsDeadline, LeaseIsAhead, RunHasSnapshot, Holds, TypeOK
  <2>4. OutputIsProjected' /\ RetiredHasNoLease'
    BY <2>1 DEF IInv, OutputIsProjected, RetiredHasNoLease
  <2> QED BY <2>2, <2>3, <2>4 DEF IInv
<1> QED BY <1>1, <1>2, <1>3
-----------------------------------------------------------------------------
\* The strengthened invariant: the holder's clock is the row's deadline, the row is
\* ahead of the output, and a file comes before its output.
THEOREM InductiveInvariant == Spec => []IInv
<1>1. IInv /\ [Next]_vars => IInv'
  <2> SUFFICES ASSUME IInv, [Next]_vars PROVE IInv'
    OBVIOUS
  <2>1. CASE UNCHANGED vars
    <3>1. /\ UNCHANGED <<source, lease, retired, output, projections, run, snapshot, beat>>
      BY <2>1 DEF vars
    <3>2. TypeOK' BY <3>1 DEF IInv, TypeOK
    <3> QED BY <3>1, <3>2 DEF IInv, BeatIsDeadline, LeaseIsAhead, RunHasSnapshot,
                             OutputIsProjected, RetiredHasNoLease, Holds
  <2>2. CASE Tick BY <2>2, TickInvariant
  <2>3. CASE SourceAdvances \/ Purge \/ \E w \in Workers : Crash(w) BY <2>3, OtherInvariant
  <2>4. ASSUME NEW w \in Workers,
               Acquire(w) \/ Heartbeat(w) \/ Fail(w) \/ Project(w) \/ Complete(w)
        PROVE  IInv'
    BY <2>4, AcquireInvariant, HeartbeatInvariant, FailInvariant, ProjectInvariant, CompleteInvariant
  <2> QED BY <2>1, <2>2, <2>3, <2>4 DEF Next, RunExtraction
<1> QED BY <1>1, InitInvariant, PTL DEF Spec

\* Rows, clocks and runs keep their types.
THEOREM TypeCorrect == Spec => []TypeOK
<1>1. IInv => TypeOK BY DEF IInv
<1> QED BY <1>1, InductiveInvariant, PTL

\* lease.ts: nobody is given a lease beside a run that beat less than a TTL ago.
THEOREM HoldersKeepTheirLease == Spec => []HolderKeepsLease
<1>1. IInv => HolderKeepsLease BY DEF IInv, BeatIsDeadline, HolderKeepsLease
<1> QED BY <1>1, InductiveInvariant, PTL

\* extractor.ts: an output with a summary always has its file in the outbox.
THEOREM OutputsAreProjected == Spec => []OutputIsProjected
<1>1. IInv => OutputIsProjected BY DEF IInv
<1> QED BY <1>1, InductiveInvariant, PTL

\* complete: an output is only replaced by one of a newer source.
THEOREM OutputsAdvance == Spec => VersionsAdvance
<1> DEFINE Advances ==
      output # NoOutput /\ output' # output => output' = NoOutput \/ output'.version > output.version
<1>1. IInv /\ [Next]_vars => [Advances]_vars
  <2> SUFFICES ASSUME IInv, Next PROVE Advances
    OBVIOUS
  <2>1. ASSUME NEW w \in Workers, Complete(w) PROVE Advances
    <3>1. CASE Holds(w) /\ lease.age <= Grace
      <4>1. output'.version = snapshot[w] BY <2>1, <3>1 DEF Complete
      <4>2. lease # NoLease /\ lease.holder = w BY <3>1 DEF Holds, NoLease
      <4>3. snapshot[w] = lease.version /\ output.version < lease.version
        BY <4>2 DEF IInv, LeaseIsAhead
      <4>4. output.version \in Int /\ lease.version \in Int
        BY <4>2, RowOrNone, RowFields, MaxSourceAssumption DEF IInv, TypeOK, NoOutput
      <4> QED BY <4>1, <4>3, <4>4
    <3>2. CASE ~(Holds(w) /\ lease.age <= Grace)
      BY <2>1, <3>2 DEF Complete
    <3> QED BY <3>1, <3>2
  <2>2. CASE Purge BY <2>2 DEF Purge
  <2>3. ASSUME output' = output PROVE Advances BY <2>3
  <2> QED BY <2>1, <2>2, <2>3
    DEF Next, RunExtraction, Tick, SourceAdvances, Acquire, Heartbeat, Fail, Project, Crash
<1> QED BY <1>1, InductiveInvariant, PTL DEF Spec, VersionsAdvance

\* fail and acquireLease: once retired, a rollout has no row, and no run that is
\* still under way writes its output.
THEOREM RetirementIsFinal == Spec => RetiredIsFinal
<1> DEFINE Final == retired => retired' /\ lease' = NoLease /\ output' \in {output, NoOutput}
<1>1. IInv /\ [Next]_vars => [Final]_vars
  <2> SUFFICES ASSUME IInv, Next, retired PROVE retired' /\ lease' = NoLease /\ output' \in {output, NoOutput}
    OBVIOUS
  <2>1. lease = NoLease BY DEF IInv, RetiredHasNoLease
  <2>2. \A w \in Workers : ~Holds(w) BY <2>1 DEF Holds, NoLease
  <2>3. CASE Tick BY <2>1, <2>3 DEF Tick
  <2>4. CASE SourceAdvances \/ Purge BY <2>1, <2>4 DEF SourceAdvances, Purge
  <2>5. ASSUME NEW w \in Workers,
               Acquire(w) \/ Heartbeat(w) \/ Fail(w) \/ Project(w) \/ Complete(w) \/ Crash(w)
        PROVE  retired' /\ lease' = NoLease /\ output' \in {output, NoOutput}
    BY <2>1, <2>2, <2>5 DEF Acquire, Acquirable, Heartbeat, Fail, Project, Complete, Crash
  <2> QED BY <2>3, <2>4, <2>5 DEF Next, RunExtraction
<1> QED BY <1>1, InductiveInvariant, PTL DEF Spec, RetiredIsFinal
=============================================================================
