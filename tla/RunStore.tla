------------------------------ MODULE RunStore ------------------------------
(***************************************************************************)
(* One run's rows in the durable store (packages/data, run-store.ts): the  *)
(* runs row with its terminal compare-and-set and attempt epoch, and the   *)
(* run_events rows keyed by seq.  Every call is one SQLite transaction, so *)
(* the interleaving is that of whole calls by several writers, which may   *)
(* be superseded, may repeat a call and may never see its answer.          *)
(***************************************************************************)
EXTENDS Integers

CONSTANTS
  Writers,     \* callers that present an attempt with every write
  Operators,   \* callers authorised to write without one
  Manifests,   \* manifest hashes
  Inputs,      \* input hashes
  Terminals,   \* terminal states callers may propose
  MaxSeq,      \* bound: seqs callers write
  MaxEpoch     \* bound: attempts begun

None == "none"

\* A terminal: how the run ended, and the stop reason or the error that goes with it.
Statuses == {"completed", "cancelled", "budget_exhausted", "failed"}
Running == [status |-> "running", detail |-> None]

Callers == Writers \cup Operators
Seqs == 1 .. MaxSeq
Epochs == 0 .. MaxEpoch

ASSUME CallersAssumption == Writers \cap Operators = {} /\ None \notin Callers
ASSUME HashAssumption == None \notin Manifests /\ None \notin Inputs
ASSUME TerminalAssumption == Terminals \subseteq [status : Statuses, detail : STRING]
ASSUME BoundAssumption == MaxSeq \in Nat /\ MaxEpoch \in Nat

VARIABLES
  (* the runs row *)
  manifest,   \* manifest_hash, None while there is no row
  input,      \* input_hash
  epoch,      \* the attempt that holds write authority
  terminal,   \* what completeRun was given, Running until then
  settledBy,  \* who landed it
  (* run_events *)
  author,     \* seq -> the caller whose envelope is stored
  stamp,      \* seq -> its epoch column
  (* what callers know *)
  attempt,    \* the epoch a writer presents
  heard       \* a caller's last call that was answered, with the answer

row == <<manifest, input, epoch, terminal, settledBy>>
log == <<author, stamp>>
vars == <<row, log, attempt, heard>>

Claims == [manifest : Manifests, input : Inputs \cup {None}]
Silence == [call |-> None]
Opened == [call : {"createRun"}, asked : Claims, answer : {"created", "reused", "conflict"}]
Written == [call : {"appendEvents"}, seqs : SUBSET Seqs]
Settled == [call : {"settleRun"}, asked : Terminals,
            answer : {"applied", "reconciled", "conflict", "absent", "fenced"}]
Answers == {Silence} \cup Opened \cup Written \cup Settled

\* The caller gets the answer, or the answer is lost on its way.
Answer(c, a) == heard' \in {heard, [heard EXCEPT ![c] = a]}

TypeOK ==
  /\ manifest \in Manifests \cup {None}
  /\ input \in Inputs \cup {None}
  /\ epoch \in Epochs
  /\ terminal \in Terminals \cup {Running}
  /\ settledBy \in Callers \cup {None}
  /\ author \in [Seqs -> Callers \cup {None}]
  /\ stamp \in [Seqs -> Epochs]
  /\ attempt \in [Writers -> Epochs]
  /\ heard \in [Callers -> Answers]

Init ==
  /\ manifest = None /\ input = None /\ epoch = 0 /\ terminal = Running /\ settledBy = None
  /\ author = [s \in Seqs |-> None] /\ stamp = [s \in Seqs |-> 0]
  /\ attempt = [w \in Writers |-> 0]
  /\ heard = [c \in Callers |-> Silence]

Exists == manifest # None
Stored == {s \in Seqs : author[s] # None}
-----------------------------------------------------------------------------
(* createRun *)

\* classifyReuse: the same run retried, or a different one under its id.
ClassifyReuse(c) ==
  IF c.manifest = manifest /\ c.input = input THEN "reused" ELSE "conflict"

CreateRun(c, asked) ==
  LET answer == IF Exists THEN ClassifyReuse(asked) ELSE "created" IN
  /\ manifest' = IF Exists THEN manifest ELSE asked.manifest
  /\ input' = IF Exists THEN input ELSE asked.input
  /\ Answer(c, [call |-> "createRun", asked |-> asked, answer |-> answer])
  /\ UNCHANGED <<epoch, terminal, settledBy, log, attempt>>
-----------------------------------------------------------------------------
(* attempts *)

\* beginAttempt: the writer's own attempt revokes every earlier one.
BeginAttempt(w) ==
  /\ Exists /\ epoch < MaxEpoch
  /\ epoch' = epoch + 1
  /\ attempt' = [attempt EXCEPT ![w] = epoch + 1]
  /\ UNCHANGED <<manifest, input, terminal, settledBy, log, heard>>

\* currentEpoch: a writer takes up the attempt that holds authority now.
ReadEpoch(w) ==
  /\ Exists
  /\ attempt' = [attempt EXCEPT ![w] = epoch]
  /\ UNCHANGED <<row, log, heard>>
-----------------------------------------------------------------------------
(* appendEvents *)

\* Mutant: nobody is superseded.
NeverFenced(c) == FALSE

\* assertAttemptCurrent, and the epoch predicate of the terminal update.
Fenced(c) == c \in Writers /\ attempt[c] # epoch

Presented(c) == IF c \in Writers THEN attempt[c] ELSE 0

Contradicted(c, batch) == \E s \in batch : author[s] \notin {None, c}

\* Mutant: a seq that is taken is skipped and the batch acknowledged.
AppendIgnoring(c, batch) ==
  /\ ~Fenced(c)
  /\ author' = [s \in Seqs |-> IF s \in batch \ Stored THEN c ELSE author[s]]
  /\ stamp' = [s \in Seqs |-> IF s \in batch \ Stored THEN Presented(c) ELSE stamp[s]]
  /\ Answer(c, [call |-> "appendEvents", seqs |-> batch])
  /\ UNCHANGED <<row, attempt>>

\* The batch is written as a whole; seqs that already hold the caller's own
\* envelope are a retry.  A fenced or contradicted batch throws and is rolled
\* back, so that such a call changes nothing.
Append(c, batch) ==
  /\ ~Fenced(c) /\ ~Contradicted(c, batch)
  /\ author' = [s \in Seqs |-> IF s \in batch \ Stored THEN c ELSE author[s]]
  /\ stamp' = [s \in Seqs |-> IF s \in batch \ Stored THEN Presented(c) ELSE stamp[s]]
  /\ Answer(c, [call |-> "appendEvents", seqs |-> batch])
  /\ UNCHANGED <<row, attempt>>
-----------------------------------------------------------------------------
(* settleRun *)

\* Mutant: the error body of a failed row is not given back either.
CommittedStatusOnly == [terminal EXCEPT !.detail = None]

\* readCommittedTerminal: a failed row gives its error back, the other rows only
\* their status -- the columns hold no stop reason.
Committed == IF terminal.status = "failed" THEN terminal ELSE [terminal EXCEPT !.detail = None]

\* terminalsAgree: the status and its detail, the stop reason or the error.
TerminalsAgree(a, b) == a.status = b.status /\ a.detail = b.detail

Settlement(t, answer) == [call |-> "settleRun", asked |-> t, answer |-> answer]

\* Mutant: the update matches a row whatever its status.
CompleteRunAgain(c, t) ==
  /\ Exists /\ ~Fenced(c)
  /\ terminal' = t /\ settledBy' = c
  /\ Answer(c, Settlement(t, "applied"))
  /\ UNCHANGED <<manifest, input, epoch, log, attempt>>

\* completeRun: the compare-and-set meets a running row of the caller's attempt.
CompleteRun(c, t) ==
  /\ Exists /\ terminal = Running /\ ~Fenced(c)
  /\ terminal' = t /\ settledBy' = c
  /\ Answer(c, Settlement(t, "applied"))
  /\ UNCHANGED <<manifest, input, epoch, log, attempt>>

\* What a caller that may write reads back from a settled row.
Reconciles(t) == IF TerminalsAgree(Committed, t) THEN "reconciled" ELSE "conflict"

\* The compare-and-set missed: superseded, no row, or another terminal is there.
SettleMisses(c, t) ==
  /\ Fenced(c) \/ ~Exists \/ terminal # Running
  /\ Answer(c, Settlement(t, IF Fenced(c) THEN "fenced"
                             ELSE IF ~Exists THEN "absent"
                             ELSE Reconciles(t)))
  /\ UNCHANGED <<row, log, attempt>>
-----------------------------------------------------------------------------
Batches == {s .. t : s \in Seqs, t \in Seqs} \ {{}}

Next ==
  \/ \E c \in Callers, asked \in Claims : CreateRun(c, asked)
  \/ \E w \in Writers : BeginAttempt(w) \/ ReadEpoch(w)
  \/ \E c \in Callers, batch \in Batches : Append(c, batch)
  \/ \E c \in Callers, t \in Terminals : CompleteRun(c, t) \/ SettleMisses(c, t)

Spec == Init /\ [][Next]_vars
-----------------------------------------------------------------------------
(* Properties *)

\* A caller that was told the run is open as it asked holds the run the row
\* records, not a namesake with another manifest or another prompt.
OpenedAsAsked ==
  \A c \in Callers :
    heard[c].call = "createRun" /\ heard[c].answer \in {"created", "reused"} =>
      heard[c].asked = [manifest |-> manifest, input |-> input]

\* An envelope a caller was told is written is the one every reader gets for its
\* seq, through retries, rivals and later attempts.
AckedIsStored ==
  \A c \in Callers :
    heard[c].call = "appendEvents" => \A s \in heard[c].seqs : author[s] = c

\* A caller that was told the run is settled as it proposed finds that ending in
\* the row from then on, and the very error if the run failed.
SettledAsTold ==
  \A c \in Callers :
    heard[c].call = "settleRun" /\ heard[c].answer \in {"applied", "reconciled"} =>
      /\ heard[c].asked.status = terminal.status
      /\ terminal.status = "failed" => heard[c].asked = terminal

\* Once an attempt is superseded, none of its events and no terminal of it lands.
SupersededWritesNothing ==
  [][\A w \in Writers : attempt[w] # epoch =>
       /\ \A s \in Seqs : author'[s] = w => author[s] = w
       /\ settledBy' = w => settledBy = w]_vars

\* A caller that is told of a rival had proposed another terminal than the row's,
\* whichever call of whom landed it, unless the row cannot give back what it was
\* given: the stop reason of a run that did not fail.
ConflictIsARival ==
  \A c \in Callers :
    heard[c].call = "settleRun" /\ heard[c].answer = "conflict" =>
      \/ heard[c].asked # terminal
      \/ terminal.status # "failed" /\ terminal.detail # None

\* What the code says of a settle that is repeated: the writer whose terminal is in
\* the row is not told of a rival.  It is, when that terminal has a stop reason.
RetryReconciles ==
  \A c \in Callers :
    settledBy = c /\ heard[c].call = "settleRun" /\ heard[c].asked = terminal =>
      heard[c].answer # "conflict"
=============================================================================
