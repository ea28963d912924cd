----------------------------- MODULE MemoryLease -----------------------------
(***************************************************************************)
(* The extraction of one rollout by any number of workers (packages/       *)
(* memory: lease.ts, the control of extractor.ts, the selection of         *)
(* eligibility.ts).  A lease names its holder and lives as long as it is   *)
(* heartbeaten; a result is committed only under the lease it was made     *)
(* under.                                                                  *)
(*                                                                         *)
(* Each call of lease.ts is one immediate transaction and one action.  A   *)
(* timestamp is kept as its distance from now: what is left of a deadline, *)
(* the age of a heartbeat.  Tick is the clock; nothing ties a worker's     *)
(* timers to it, so a worker may stall for as long as it likes.  A token   *)
(* is minted for one run and never reused: the run of a worker is the one  *)
(* it last acquired for, and the token is modelled by that worker.         *)
(***************************************************************************)
EXTENDS Integers, Sequences

CONSTANTS
  Workers,      \* extractions that may run at the same time: ticks and forced
                \* sweeps of this worker, workers of other processes
  TTL,          \* DEFAULT_LEASE_TTL_MS, in ticks
  Grace,        \* STALE_WORKER_GRACE_MS
  MaxRetry,     \* MAX_RETRY_ATTEMPTS
  Backoff,      \* BACKOFF_SEQUENCE_MINUTES
  MaxSource     \* bound: versions of the rollout's source

ASSUME TTLAssumption == TTL \in Nat \ {0}
ASSUME GraceAssumption == Grace \in Nat /\ Grace < TTL
ASSUME MaxRetryAssumption == MaxRetry \in Nat \ {0}
ASSUME BackoffAssumption == Backoff \in Seq(Nat) /\ Backoff # <<>>
ASSUME MaxSourceAssumption == MaxSource \in Nat \ {0}

NoLease == [status |-> "none"]
NoOutput == [kind |-> "none", version |-> 0]
Outputs == {"succeeded", "degraded", "succeeded_no_output"}

VARIABLES
  source,       \* the catalog's version of the rollout: last message and fingerprint
  lease,        \* the row of rollout_leases
  retired,      \* the row of rollout_retired exists
  output,       \* the row of stage1_outputs
  projections,  \* source versions with a file in the projection outbox
  run,          \* worker -> "idle", "extracting" or, its file enqueued, "projected"
  snapshot,     \* worker -> the source version its lease was taken at
  beat          \* worker -> ticks since its lease last said yes to it

vars == <<source, lease, retired, output, projections, run, snapshot, beat>>

Lease == [status: {"running", "failed"}, holder: Workers, attempts: 1 .. MaxRetry,
          left: 0 .. TTL, age: 0 .. Grace + 1, retry: Nat, version: 1 .. MaxSource]

TypeOK ==
  /\ source \in 1 .. MaxSource
  /\ lease \in Lease \cup {NoLease}
  /\ retired \in BOOLEAN
  /\ output \in [kind: Outputs, version: 1 .. MaxSource] \cup {NoOutput}
  /\ projections \subseteq 1 .. MaxSource
  /\ run \in [Workers -> {"idle", "extracting", "projected"}]
  /\ snapshot \in [Workers -> 0 .. MaxSource]
  /\ beat \in [Workers -> 0 .. TTL]

Init ==
  /\ source = 1 /\ lease = NoLease /\ retired = FALSE
  /\ output = NoOutput /\ projections = {}
  /\ run = [w \in Workers |-> "idle"]
  /\ snapshot = [w \in Workers |-> 0]
  /\ beat = [w \in Workers |-> TTL]
-----------------------------------------------------------------------------
(* time, and the session the rollout is extracted from *)

Less(n) == IF n = 0 THEN 0 ELSE n - 1
More(n, cap) == IF n = cap THEN cap ELSE n + 1

Tick ==
  /\ lease' = IF lease = NoLease THEN NoLease
              ELSE [lease EXCEPT !.left = Less(@), !.retry = Less(@), !.age = More(@, Grace + 1)]
  /\ beat' = [w \in Workers |-> More(beat[w], TTL)]
  /\ UNCHANGED <<source, retired, output, projections, run, snapshot>>

\* The session goes on, and the catalog follows it.
SourceAdvances ==
  /\ source < MaxSource
  /\ source' = source + 1
  /\ UNCHANGED <<lease, retired, output, projections, run, snapshot, beat>>
-----------------------------------------------------------------------------
(* selectEligible and acquireLease: no await between them *)

BackingOff == lease.status = "failed" /\ lease.retry > 0

\* Never extracted, extracted at an older version, or due for a retry.
Eligible ==
  /\ output = NoOutput \/ output.version < source \/ lease.status = "failed"
  /\ ~BackingOff
  /\ ~retired

\* Mutant: a running row is somebody's for good.
AcquirableUnlessRunning == ~retired /\ lease.status # "running" /\ ~BackingOff

\* Mutant: a row out of its grace is up for grabs.
AcquirableByGrace ==
  ~retired /\ ~BackingOff /\ (lease.status = "running" => lease.age > Grace)

\* No row, an expired one, or a failed one whose backoff elapsed.
Acquirable == ~retired /\ ~BackingOff /\ (lease.status = "running" => lease.left = 0)

\* The attempt count survives the row's replacement; nothing reads it beyond
\* MaxRetry, where the model stops counting.
Acquire(w) ==
  /\ run[w] = "idle" /\ Eligible /\ Acquirable
  /\ lease' = [status |-> "running", holder |-> w,
               attempts |-> IF lease = NoLease THEN 1 ELSE More(lease.attempts, MaxRetry),
               left |-> TTL, age |-> 0, retry |-> 0, version |-> source]
  /\ run' = [run EXCEPT ![w] = "extracting"]
  /\ snapshot' = [snapshot EXCEPT ![w] = source]
  /\ beat' = [beat EXCEPT ![w] = 0]
  /\ UNCHANGED <<source, retired, output, projections>>
-----------------------------------------------------------------------------
(* a run under way *)

\* The row is running under this run's token.
Holds(w) == lease.status = "running" /\ lease.holder = w

\* Mutant: the heartbeat is recorded and the deadline is not moved.
HeartbeatKeepsDeadline(w) ==
  /\ run[w] = "extracting" /\ Holds(w)
  /\ lease' = [lease EXCEPT !.age = 0]
  /\ beat' = [beat EXCEPT ![w] = 0]
  /\ UNCHANGED <<source, retired, output, projections, run, snapshot>>

\* An interval of the run: it revives an expired row nobody took, and what it
\* answers when the row is lost is not looked at.
Heartbeat(w) ==
  /\ run[w] = "extracting" /\ Holds(w)
  /\ lease' = [lease EXCEPT !.age = 0, !.left = TTL]
  /\ beat' = [beat EXCEPT ![w] = 0]
  /\ UNCHANGED <<source, retired, output, projections, run, snapshot>>

BackoffOf(attempts) ==
  Backoff[IF attempts < Len(Backoff) THEN attempts ELSE Len(Backoff)]

\* fail: the row backs off, or the rollout is retired with it; a lost row is
\* left alone.
Fail(w) ==
  /\ run[w] = "extracting"
  /\ run' = [run EXCEPT ![w] = "idle"]
  /\ IF lease = NoLease \/ lease.holder # w THEN UNCHANGED <<lease, retired>>
     ELSE IF lease.attempts >= MaxRetry
            THEN lease' = NoLease /\ retired' = TRUE
            ELSE /\ lease' = [lease EXCEPT !.status = "failed", !.retry = BackoffOf(lease.attempts)]
                 /\ UNCHANGED retired
  /\ UNCHANGED <<source, output, projections, snapshot, beat>>

\* writeRolloutProjection enqueues the summary in a transaction of its own,
\* whether or not the lease is still held.
Project(w) ==
  /\ run[w] = "extracting"
  /\ run' = [run EXCEPT ![w] = "projected"]
  /\ projections' = projections \cup {snapshot[w]}
  /\ UNCHANGED <<source, lease, retired, output, snapshot, beat>>

\* Mutant: the output is written before its file is enqueued.
KindsAnyOrder(w) == Outputs

\* With nothing to remember there is no file.
Kinds(w) == IF run[w] = "projected" THEN {"succeeded", "degraded"} ELSE {"succeeded_no_output"}

\* Mutant: any fresh row will do, whoever holds it.
CompleteUnderAnyRow(w) ==
  /\ run[w] # "idle"
  /\ run' = [run EXCEPT ![w] = "idle"]
  /\ IF lease.status = "running" /\ lease.age <= Grace
       THEN /\ \E kind \in Kinds(w) : output' = [kind |-> kind, version |-> snapshot[w]]
            /\ lease' = NoLease
       ELSE UNCHANGED <<output, lease>>
  /\ UNCHANGED <<source, retired, projections, snapshot, beat>>

\* complete: under the run's own row and a fresh heartbeat the output replaces
\* the last one and the row goes; otherwise nothing is written, and the run ends
\* all the same.
Complete(w) ==
  /\ run[w] # "idle"
  /\ run' = [run EXCEPT ![w] = "idle"]
  /\ IF Holds(w) /\ lease.age <= Grace
       THEN /\ \E kind \in Kinds(w) : output' = [kind |-> kind, version |-> snapshot[w]]
            /\ lease' = NoLease
       ELSE UNCHANGED <<output, lease>>
  /\ UNCHANGED <<source, retired, projections, snapshot, beat>>

\* The process dies, or the extractor throws: the row stays as it is.
Crash(w) ==
  /\ run[w] # "idle"
  /\ run' = [run EXCEPT ![w] = "idle"]
  /\ UNCHANGED <<source, lease, retired, output, projections, snapshot, beat>>

\* purgeDegradedOutputs, when a worker starts: the rollout is to be done again.
Purge ==
  /\ output.kind = "degraded"
  /\ output' = NoOutput
  /\ UNCHANGED <<source, lease, retired, projections, run, snapshot, beat>>

\* A run beats between its awaits, and fails anywhere until its summary is
\* enqueued; it completes without one when there is nothing to remember.
RunExtraction(w) == Heartbeat(w) \/ Fail(w) \/ Project(w) \/ Complete(w) \/ Crash(w)
-----------------------------------------------------------------------------
Next ==
  \/ Tick \/ SourceAdvances \/ Purge
  \/ \E w \in Workers : Acquire(w) \/ RunExtraction(w)

Spec == Init /\ [][Next]_vars

\* The clock runs and the worker's interval keeps selecting.  Nothing is owed by
\* a run: it may stall, crash or fail for ever.
Fairness == WF_vars(Tick) /\ WF_vars(\E w \in Workers : Acquire(w))

FairSpec == Spec /\ Fairness
-----------------------------------------------------------------------------
(* Properties *)

\* A run whose lease said yes to it less than a TTL ago still holds it: nobody
\* is let in beside a worker that keeps beating.
HolderKeepsLease ==
  \A w \in Workers : run[w] # "idle" /\ beat[w] < TTL => Holds(w)

\* An output is only ever replaced by one of a newer source: a run that stalled
\* and lost its row, while another extracted the rollout further, overwrites
\* nothing when it wakes, and no version is extracted twice.
VersionsAdvance ==
  [][output # NoOutput /\ output' # output => output' = NoOutput \/ output'.version > output.version]_vars

\* A retired rollout stays as it was retired, whoever still runs.
RetiredIsFinal ==
  [][retired => retired' /\ lease' = NoLease /\ output' \in {output, NoOutput}]_vars

\* An output with a summary has its file enqueued, wherever the worker died.
OutputIsProjected ==
  output.kind \in {"succeeded", "degraded"} => output.version \in projections

\* A rollout behind its source is extracted again or retired, whatever the last
\* run left behind.
BehindIsRetried ==
  (output = NoOutput \/ output.version < source) ~>
    (retired \/ output.version = source \/ \E w \in Workers : run[w] # "idle")
=============================================================================
