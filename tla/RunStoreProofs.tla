--------------------------- MODULE RunStoreProofs ---------------------------
(***************************************************************************)
(* What RunStore promises to any number of writers, authorised or not, over *)
(* any number of attempts: proofs for every value of the constants.         *)
(***************************************************************************)
EXTENDS RunStore, TLAPS

USE DEF None, Running, Callers, Seqs, Epochs

IInv == TypeOK /\ OpenedAsAsked /\ AckedIsStored /\ SettledAsTold

\* A proposed terminal is a status with its detail, and is not the running row.
LEMMA TerminalShape ==
  ASSUME NEW t \in Terminals
  PROVE  /\ t.status \in Statuses
         /\ t = [status |-> t.status, detail |-> t.detail]
         /\ t # Running
BY TerminalAssumption DEF Statuses

\* Nothing is stored, answered or promised before the first call.
LEMMA InitIInv == Init => IInv
<1> SUFFICES ASSUME Init PROVE IInv OBVIOUS
<1>1. TypeOK BY BoundAssumption DEF Init, TypeOK, Answers, Silence
<1>2. \A c \in Callers : heard[c].call = None BY DEF Init, Silence
<1> QED BY <1>1, <1>2 DEF IInv, OpenedAsAsked, AckedIsStored, SettledAsTold

\* An answer that arrives is one of the answers; a lost one leaves the last.
LEMMA AnswerType ==
  ASSUME TypeOK, NEW c \in Callers, NEW a \in Answers, Answer(c, a)
  PROVE  heard' \in [Callers -> Answers]
BY DEF TypeOK, Answer

\* What a caller has heard after an answer: the new one for it, or what it had.
LEMMA AnswerIsHeard ==
  ASSUME TypeOK, NEW c \in Callers, NEW a, Answer(c, a), NEW d \in Callers
  PROVE  heard'[d] = heard[d] \/ (d = c /\ heard'[d] = a)
BY DEF TypeOK, Answer

\* Opening a run, or asking for it again, leaves what others were told true.
LEMMA CreateRunIInv ==
  ASSUME IInv, NEW c \in Callers, NEW asked \in Claims, CreateRun(c, asked)
  PROVE  IInv'
<1> DEFINE answer == IF Exists THEN ClassifyReuse(asked) ELSE "created"
           a == [call |-> "createRun", asked |-> asked, answer |-> answer]
<1>1. a \in Opened BY DEF Opened, ClassifyReuse
<1>2. Answer(c, a) BY DEF CreateRun
<1>3. heard' \in [Callers -> Answers] BY <1>1, <1>2, AnswerType DEF IInv, Answers
<1>4. TypeOK' BY <1>3 DEF IInv, TypeOK, CreateRun, Claims, row, log
<1>5. Exists => manifest' = manifest /\ input' = input BY DEF CreateRun
<1>6. answer \in {"created", "reused"} => asked = [manifest |-> manifest', input |-> input']
  BY DEF CreateRun, ClassifyReuse, Claims
<1>7. ASSUME NEW d \in Callers PROVE heard'[d] = heard[d] \/ (d = c /\ heard'[d] = a)
  BY <1>2, AnswerIsHeard DEF IInv
<1>8. OpenedAsAsked'
  <2> SUFFICES ASSUME NEW d \in Callers, heard'[d].call = "createRun",
                      heard'[d].answer \in {"created", "reused"}
               PROVE  heard'[d].asked = [manifest |-> manifest', input |-> input']
    BY DEF OpenedAsAsked
  <2>1. CASE heard'[d] = a BY <2>1, <1>6
  <2>2. CASE heard'[d] = heard[d]
    <3>1. heard[d].asked = [manifest |-> manifest, input |-> input]
      BY <2>2 DEF IInv, OpenedAsAsked
    <3>2. heard[d] \in Opened
      BY <2>2 DEF IInv, TypeOK, Answers, Silence, Written, Settled
    <3>3. Exists BY <3>1, <3>2, HashAssumption DEF Opened, Claims, Exists
    <3> QED BY <2>2, <3>1, <3>3, <1>5
  <2> QED BY <2>1, <2>2, <1>7
<1>9. AckedIsStored'
  BY <1>7 DEF IInv, AckedIsStored, CreateRun, log
<1>10. SettledAsTold'
  BY <1>7 DEF IInv, SettledAsTold, CreateRun
<1> QED BY <1>4, <1>8, <1>9, <1>10 DEF IInv

\* Attempts come and go without touching what anybody was told.
LEMMA AttemptIInv ==
  ASSUME IInv, NEW w \in Writers, BeginAttempt(w) \/ ReadEpoch(w)
  PROVE  IInv'
<1>1. TypeOK'
  <2>1. CASE BeginAttempt(w)
    BY <2>1, BoundAssumption DEF IInv, TypeOK, BeginAttempt, log
  <2>2. CASE ReadEpoch(w)
    BY <2>2 DEF IInv, TypeOK, ReadEpoch, log, row
  <2> QED BY <2>1, <2>2
<1>2. UNCHANGED <<manifest, input, terminal, settledBy, log, heard>>
  BY DEF BeginAttempt, ReadEpoch, row
<1> QED BY <1>1, <1>2 DEF IInv, OpenedAsAsked, AckedIsStored, SettledAsTold, log

\* A batch that is stored keeps the invariant.
LEMMA AppendIInv ==
  ASSUME IInv, NEW c \in Callers, NEW batch \in SUBSET Seqs, Append(c, batch)
  PROVE  IInv'
<1> DEFINE a == [call |-> "appendEvents", seqs |-> batch]
<1>1. a \in Answers BY DEF Answers, Written
<1>2. Answer(c, a) BY DEF Append
<1>3. heard' \in [Callers -> Answers] BY <1>1, <1>2, AnswerType DEF IInv
<1>4. Presented(c) \in Epochs BY BoundAssumption DEF IInv, TypeOK, Presented
<1>5. TypeOK' BY <1>3, <1>4 DEF IInv, TypeOK, Append, row
<1>6. ASSUME NEW d \in Callers PROVE heard'[d] = heard[d] \/ (d = c /\ heard'[d] = a)
  BY <1>2, AnswerIsHeard DEF IInv
<1>7. AckedIsStored'
  <2> SUFFICES ASSUME NEW d \in Callers, heard'[d].call = "appendEvents",
                      NEW s \in heard'[d].seqs
               PROVE  author'[s] = d
    BY DEF AckedIsStored
  <2>1. CASE d = c /\ heard'[d] = a
    <3>0. heard'[d].seqs = batch BY ONLY <2>1
    <3>1. s \in batch /\ s \in Seqs BY ONLY <3>0, s \in heard'[d].seqs, batch \in SUBSET Seqs
    <3>2. author[s] \in {None, c} BY <3>1 DEF Append, Contradicted
    <3> QED BY <2>1, <3>1, <3>2 DEF Append, Stored
  <2>2. CASE heard'[d] = heard[d]
    <3>1. author[s] = d /\ d # None
      BY <2>2, CallersAssumption DEF IInv, AckedIsStored
    <3>2. s \in Seqs
      BY <2>2 DEF IInv, TypeOK, Answers, Silence, Opened, Written, Settled
    <3> QED BY <3>1, <3>2 DEF Append, Stored
  <2> QED BY <2>1, <2>2, <1>6
<1>8. OpenedAsAsked'
  BY <1>6 DEF IInv, OpenedAsAsked, Append, row
<1>9. SettledAsTold'
  BY <1>6 DEF IInv, SettledAsTold, Append, row
<1> QED BY <1>5, <1>7, <1>8, <1>9 DEF IInv

\* A terminal that is written keeps the invariant.
LEMMA CompleteRunIInv ==
  ASSUME IInv, NEW c \in Callers, NEW t \in Terminals, CompleteRun(c, t)
  PROVE  IInv'
<1> DEFINE a == Settlement(t, "applied")
<1>1. a \in Answers BY DEF Answers, Settled, Settlement
<1>2. Answer(c, a) BY DEF CompleteRun
<1>3. heard' \in [Callers -> Answers] BY <1>1, <1>2, AnswerType DEF IInv
<1>4. TypeOK' BY <1>3 DEF IInv, TypeOK, CompleteRun, log
<1>5. ASSUME NEW d \in Callers PROVE heard'[d] = heard[d] \/ (d = c /\ heard'[d] = a)
  BY <1>2, AnswerIsHeard DEF IInv
<1>6. SettledAsTold'
  <2> SUFFICES ASSUME NEW d \in Callers, heard'[d].call = "settleRun",
                      heard'[d].answer \in {"applied", "reconciled"}
               PROVE  /\ heard'[d].asked.status = terminal'.status
                      /\ terminal'.status = "failed" => heard'[d].asked = terminal'
    BY DEF SettledAsTold
  <2>1. CASE heard'[d] = a BY <2>1 DEF CompleteRun, Settlement
  <2>2. CASE heard'[d] = heard[d]
    <3>1. heard[d].asked.status = "running"
      BY <2>2 DEF IInv, SettledAsTold, CompleteRun
    <3>2. heard[d].asked \in Terminals
      BY <2>2 DEF IInv, TypeOK, Answers, Silence, Opened, Written, Settled
    <3> QED BY <3>1, <3>2, TerminalShape DEF Statuses
  <2> QED BY <2>1, <2>2, <1>5
<1>7. OpenedAsAsked'
  BY <1>5 DEF IInv, OpenedAsAsked, CompleteRun, Settlement
<1>8. AckedIsStored'
  BY <1>5 DEF IInv, AckedIsStored, CompleteRun, Settlement, log
<1> QED BY <1>4, <1>6, <1>7, <1>8 DEF IInv

\* A settle that finds its row settled, or not its own, keeps the invariant.
LEMMA SettleMissesIInv ==
  ASSUME IInv, NEW c \in Callers, NEW t \in Terminals, SettleMisses(c, t)
  PROVE  IInv'
<1> DEFINE answer == IF Fenced(c) THEN "fenced" ELSE IF ~Exists THEN "absent" ELSE Reconciles(t)
           a == Settlement(t, answer)
<1>1. a \in Answers BY DEF Answers, Settled, Settlement, Reconciles
<1>2. Answer(c, a) BY DEF SettleMisses
<1>3. heard' \in [Callers -> Answers] BY <1>1, <1>2, AnswerType DEF IInv
<1>4. TypeOK' BY <1>3 DEF IInv, TypeOK, SettleMisses, row, log
<1>5. ASSUME NEW d \in Callers PROVE heard'[d] = heard[d] \/ (d = c /\ heard'[d] = a)
  BY <1>2, AnswerIsHeard DEF IInv
<1>6. UNCHANGED <<manifest, input, terminal, author>> BY DEF SettleMisses, row, log
<1>7. SettledAsTold'
  <2> SUFFICES ASSUME NEW d \in Callers, heard'[d].call = "settleRun",
                      heard'[d].answer \in {"applied", "reconciled"}
               PROVE  /\ heard'[d].asked.status = terminal.status
                      /\ terminal.status = "failed" => heard'[d].asked = terminal
    BY <1>6 DEF SettledAsTold
  <2>1. CASE heard'[d] = a
    <3>1. a.answer = answer /\ a.asked = t BY DEF Settlement
    <3>2. ~Fenced(c) /\ Exists /\ TerminalsAgree(Committed, t)
      BY <2>1, <3>1 DEF Reconciles
    <3>3. terminal \in Terminals BY <3>2 DEF SettleMisses, IInv, TypeOK
    <3>4. Committed.status = terminal.status
      BY <3>3, TerminalShape DEF Committed
    <3> QED BY <2>1, <3>1, <3>2, <3>3, <3>4, TerminalShape DEF TerminalsAgree, Committed
  <2>2. CASE heard'[d] = heard[d] BY <2>2 DEF IInv, SettledAsTold
  <2> QED BY <2>1, <2>2, <1>5
<1>8. OpenedAsAsked' BY <1>5, <1>6 DEF IInv, OpenedAsAsked, Settlement
<1>9. AckedIsStored' BY <1>5, <1>6 DEF IInv, AckedIsStored, Settlement
<1> QED BY <1>4, <1>7, <1>8, <1>9 DEF IInv

\* A batch is a set of seqs.
LEMMA BatchesAreSeqs == Batches \subseteq SUBSET Seqs
BY BoundAssumption DEF Batches

\* Every call keeps the invariant.
LEMMA NextIInv == IInv /\ [Next]_vars => IInv'
<1> SUFFICES ASSUME IInv, [Next]_vars PROVE IInv' OBVIOUS
<1>1. CASE UNCHANGED vars
  BY <1>1 DEF vars, row, log, IInv, TypeOK, OpenedAsAsked, AckedIsStored, SettledAsTold
<1>2. ASSUME NEW c \in Callers, NEW asked \in Claims, CreateRun(c, asked) PROVE IInv'
  BY <1>2, CreateRunIInv
<1>3. ASSUME NEW w \in Writers, BeginAttempt(w) \/ ReadEpoch(w) PROVE IInv'
  BY <1>3, AttemptIInv
<1>4. ASSUME NEW c \in Callers, NEW batch \in Batches, Append(c, batch) PROVE IInv'
  BY <1>4, AppendIInv, BatchesAreSeqs
<1>5. ASSUME NEW c \in Callers, NEW t \in Terminals, CompleteRun(c, t) PROVE IInv'
  BY <1>5, CompleteRunIInv
<1>6. ASSUME NEW c \in Callers, NEW t \in Terminals, SettleMisses(c, t) PROVE IInv'
  BY <1>6, SettleMissesIInv
<1> QED BY <1>1, <1>2, <1>3, <1>4, <1>5, <1>6 DEF Next

\* The four parts hold together in every reachable state, whatever the callers,
\* the hashes, the terminals and the bounds.
THEOREM InductiveInvariant == Spec => []IInv
BY InitIInv, NextIInv, PTL DEF Spec

\* The rows and the answers keep their types.
THEOREM TypeCorrect == Spec => []TypeOK
BY InductiveInvariant, PTL DEF IInv

\* createRun never lets two callers hold different runs under one id.
THEOREM OpensOneRun == Spec => []OpenedAsAsked
BY InductiveInvariant, PTL DEF IInv

\* appendEvents acknowledges only what readers of the run get back.
THEOREM AcknowledgesTheStored == Spec => []AckedIsStored
BY InductiveInvariant, PTL DEF IInv

\* settleRun says applied or reconciled only of the ending the row keeps for good.
THEOREM SettlesOnce == Spec => []SettledAsTold
BY InductiveInvariant, PTL DEF IInv

\* A superseded attempt lands no event and no terminal: the fence is read in the
\* transaction that writes.
THEOREM SupersededIsMute == Spec => SupersededWritesNothing
<1> DEFINE Mute == \A w \in Writers : attempt[w] # epoch =>
                     /\ \A s \in Seqs : author'[s] = w => author[s] = w
                     /\ settledBy' = w => settledBy = w
<1>1. TypeOK /\ [Next]_vars => [Mute]_vars
  <2> SUFFICES ASSUME TypeOK, [Next]_vars, NEW w \in Writers, attempt[w] # epoch
               PROVE  /\ \A s \in Seqs : author'[s] = w => author[s] = w
                      /\ settledBy' = w => settledBy = w
    OBVIOUS
  <2>1. ASSUME NEW c \in Callers, NEW batch \in Batches, Append(c, batch)
        PROVE  c # w /\ UNCHANGED settledBy /\
               \A s \in Seqs : author'[s] \in {author[s], c}
    BY <2>1 DEF TypeOK, Append, Fenced, row
  <2>2. ASSUME NEW c \in Callers, NEW t \in Terminals, CompleteRun(c, t)
        PROVE  c # w /\ settledBy' = c /\ UNCHANGED author
    BY <2>2 DEF CompleteRun, Fenced, log
  <2>3. \/ UNCHANGED <<author, settledBy>>
        \/ \E c \in Callers, batch \in Batches : Append(c, batch)
        \/ \E c \in Callers, t \in Terminals : CompleteRun(c, t)
    BY DEF Next, vars, row, log, CreateRun, BeginAttempt, ReadEpoch, SettleMisses
  <2> QED BY <2>1, <2>2, <2>3
<1>2. QED BY <1>1, TypeCorrect, PTL DEF Spec, SupersededWritesNothing
-----------------------------------------------------------------------------
(* What a conflict says *)

\* A caller that was told of a rival proposed something the settled row does not
\* give back.
ConflictIsRead ==
  \A c \in Callers : heard[c].call = "settleRun" /\ heard[c].answer = "conflict" =>
    terminal # Running /\ ~TerminalsAgree(Committed, heard[c].asked)

\* Every step keeps that: a settled row is final.
LEMMA ConflictStays ==
  ASSUME TypeOK, ConflictIsRead, [Next]_vars
  PROVE  ConflictIsRead'
<1>1. ASSUME terminal' = terminal,
             \A c \in Callers :
               \/ heard'[c] = heard[c] \/ heard'[c].call # "settleRun"
               \/ heard'[c].answer = "conflict" =>
                    terminal # Running /\ ~TerminalsAgree(Committed, heard'[c].asked)
      PROVE  ConflictIsRead'
  BY <1>1 DEF ConflictIsRead, TerminalsAgree, Committed
<1>2. CASE UNCHANGED vars BY <1>1, <1>2 DEF vars, row
<1>3. ASSUME NEW c \in Callers, NEW asked \in Claims, CreateRun(c, asked)
      PROVE  ConflictIsRead'
  <2> DEFINE a == [call |-> "createRun", asked |-> asked,
                   answer |-> IF Exists THEN ClassifyReuse(asked) ELSE "created"]
  <2>1. \A d \in Callers : heard'[d] = heard[d] \/ heard'[d] = a
    BY <1>3, AnswerIsHeard DEF CreateRun
  <2>2. terminal' = terminal /\ a.call # "settleRun" BY <1>3 DEF CreateRun
  <2> HIDE DEF a
  <2> QED BY <1>1, <2>1, <2>2
<1>4. ASSUME NEW w \in Writers, BeginAttempt(w) \/ ReadEpoch(w) PROVE ConflictIsRead'
  BY <1>1, <1>4 DEF BeginAttempt, ReadEpoch, row
<1>5. ASSUME NEW c \in Callers, NEW batch \in Batches, Append(c, batch) PROVE ConflictIsRead'
  <2> DEFINE a == [call |-> "appendEvents", seqs |-> batch]
  <2>1. \A d \in Callers : heard'[d] = heard[d] \/ heard'[d] = a
    BY <1>5, AnswerIsHeard DEF Append
  <2>2. terminal' = terminal /\ a.call # "settleRun" BY <1>5 DEF Append, row
  <2> HIDE DEF a
  <2> QED BY <1>1, <2>1, <2>2
<1>6. ASSUME NEW c \in Callers, NEW t \in Terminals, CompleteRun(c, t) PROVE ConflictIsRead'
  <2>1. terminal = Running /\ Answer(c, Settlement(t, "applied")) BY <1>6 DEF CompleteRun
  <2>2. \A d \in Callers : heard'[d] = heard[d] \/ heard'[d] = Settlement(t, "applied")
    BY <2>1, AnswerIsHeard
  <2>3. Settlement(t, "applied").answer # "conflict" BY DEF Settlement
  <2> QED BY <2>1, <2>2, <2>3 DEF ConflictIsRead
<1>7. ASSUME NEW c \in Callers, NEW t \in Terminals, SettleMisses(c, t) PROVE ConflictIsRead'
  <2> DEFINE answer == IF Fenced(c) THEN "fenced" ELSE IF ~Exists THEN "absent" ELSE Reconciles(t)
             a == Settlement(t, answer)
  <2>1. terminal' = terminal /\ Answer(c, a) BY <1>7 DEF SettleMisses, row
  <2>2. \A d \in Callers : heard'[d] = heard[d] \/ heard'[d] = a BY <2>1, AnswerIsHeard
  <2>3. a.answer = answer /\ a.asked = t BY DEF Settlement
  <2>4. answer = "conflict" => terminal # Running /\ ~TerminalsAgree(Committed, t)
    BY <1>7 DEF SettleMisses, Reconciles
  <2> HIDE DEF a, answer
  <2> QED BY <1>1, <2>1, <2>2, <2>3, <2>4
<1> QED BY <1>2, <1>3, <1>4, <1>5, <1>6, <1>7 DEF Next

\* Whatever anybody proposes: a caller is told of a rival although the row holds
\* what it proposed only where the row cannot give that back, a stop reason of a run
\* that did not fail.
THEOREM ConflictsAreRivals == Spec => []ConflictIsARival
<1>1. Init => ConflictIsRead BY DEF Init, ConflictIsRead, Silence
<1>2. TypeOK /\ ConflictIsRead /\ [Next]_vars => ConflictIsRead' BY ConflictStays
<1>3. TypeOK /\ ConflictIsRead => ConflictIsARival
  <2> SUFFICES ASSUME TypeOK, ConflictIsRead, NEW c \in Callers,
                      heard[c].call = "settleRun", heard[c].answer = "conflict",
                      heard[c].asked = terminal
               PROVE  terminal.status # "failed" /\ terminal.detail # None
    BY DEF ConflictIsARival
  <2>1. terminal # Running /\ ~TerminalsAgree(Committed, terminal) BY DEF ConflictIsRead
  <2>2. terminal \in Terminals BY <2>1 DEF TypeOK
  <2>3. terminal = [status |-> terminal.status, detail |-> terminal.detail]
    BY <2>2, TerminalShape
  <2> QED BY <2>1, <2>3 DEF TerminalsAgree, Committed
<1> QED BY <1>1, <1>2, <1>3, TypeCorrect, PTL DEF Spec
=============================================================================
