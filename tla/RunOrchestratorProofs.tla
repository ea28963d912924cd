------------------------ MODULE RunOrchestratorProofs ------------------------
(***************************************************************************)
(* What the Host tells of a run's ending is what the row holds, and a row  *)
(* that says completed has its whole log, for every number of turns and    *)
(* events and every overlap of cancels, stops, closes and frames.          *)
(***************************************************************************)
EXTENDS RunOrchestrator, TLAPS

USE RunsAssumption, EventsAssumption, CallsAssumption, WriterAssumption

\* One run is being opened at a time, and none is bound before it is durable.
Openings ==
  /\ \A q, r \in Runs : Opening(q) /\ Opening(r) => q = r
  /\ \A r \in Runs :
       /\ open[r] = "creating" => bySession = NoRun /\ attempt[r] = "held"
       /\ open[r] \in {"idle", "creating"} => ctl[r] = "none" /\ row[r] = None
       /\ open[r] \in {"dispatching", "sent", "failing", "accepted"} => ctl[r] # "none"
       /\ open[r] = "refused" => ctl[r] \in {"none", "ended"}
  /\ bySession # NoRun => ctl[bySession] # "none"

\* Only a run that began is cancelled or finished.
Begun ==
  /\ \A f \in Finishes : fin[f] # "idle" => ctl[f[1]] # "none"
  /\ \A r \in Runs : cancel[r] # "idle" => ctl[r] # "none"

\* The attempt is there until the run is settled.
Fenced ==
  \A r \in Runs :
    /\ ctl[r] \in {"live"} \cup Settling => attempt[r] # "none"
    /\ ctl[r] \in {"completing", "degrading"} => presented[r]

\* What is queued is the bound run's, and comes from a worker that was told to begin.
Queued ==
  /\ QueuedUnderBinding
  /\ \A i \in 1 .. Len(pending) : pending[i] # NoRun => Working(pending[i])
  /\ writing => pending # <<>> /\ Head(pending) = bySession /\ bySession # NoRun

\* What the row may hold, by the state of the controller.
Settled ==
  \A r \in Runs :
    /\ ctl[r] \in {"none", "live"} <=> decided[r] = None
    /\ terminal[r] # None => ctl[r] = "ended"
    /\ row[r] # None => \/ ctl[r] = "ended" /\ row[r] \in {decided[r], Degraded}
                        \/ ctl[r] = "none" /\ row[r] = "failed"
    /\ override[r] # None => row[r] \in {None, Degraded} /\ ctl[r] \in {"completing", "ended"}
    /\ ctl[r] = "ended" /\ override[r] = None /\ StatusOf(terminal[r]) # "failed" =>
         row[r] = terminal[r]

\* What was told comes from a settled run.
Told ==
  /\ ToldSuccessIsDurable
  /\ \A r \in Runs : published[r] # None => ctl[r] = "ended"
  /\ \A t \in told : ctl[t[1]] = "ended"

\* The endings other than a failure that are decided only once the queue is empty: a
\* success, and for a run that nobody stops the cancel of its own disconnect.
Clean(r) == IF r \in Cancelled \cup Stopped THEN {"completed"} ELSE {"completed", "cancelled"}

\* A run with such an ending has no event on its way, and its holes were counted
\* before it was settled.
Whole ==
  HasWriter => \A r \in Runs :
    /\ hole[r] /\ ctl[r] \in {"none", "live", "flushing"} => lost[r]
    /\ decided[r] \in Clean(r) =>
         /\ \A i \in 1 .. Len(pending) : pending[i] # r
         /\ bySession # r \/ open[r] \in {"failing", "refused"}
         /\ hole[r] /\ ctl[r] = "completing" => override[r] # None
    /\ row[r] \in Clean(r) => ~hole[r]

\* What may be declared of a run that nobody stops, and decided.
Unforced == {None, "completed", "failed", "cancelled"}

\* A run that nobody stops is not ended by a ceiling or a kill.
Unstopped ==
  /\ \A r \in Runs \ Cancelled : cancel[r] = "idle"
  /\ \A r \in Runs \ Cancelled : fin[<<r, OnCancel>>] = "idle"
  /\ \A r \in Runs \ Stopped : ceiling[r] = "idle"
  /\ \A r \in Runs \ (Cancelled \cup Stopped) :
       declared[r] \in Unforced /\ decided[r] \in Unforced

IInv ==
  /\ TypeOK /\ Openings /\ Begun /\ Fenced
  /\ Queued /\ Settled /\ Told /\ Whole /\ Unstopped
-----------------------------------------------------------------------------
(* Helpers *)

\* No stop was ordered of the run and nothing ran out.
Plain(r, intent, exhausted, said) ==
  "escalated" \notin intent /\ ~CancelAsked(r) /\ ~exhausted /\ said \in Unforced

\* What settle does, whoever calls it: only the first caller changes anything.
Enters(r, intent, exhausted, said) ==
  \/ ctl[r] # "live" /\ UNCHANGED control
  \/ /\ ctl[r] = "live" /\ ctl' = [ctl EXCEPT ![r] = "flushing"]
     /\ UNCHANGED <<terminal, row, presented, override>>
     /\ \E verdict \in Verdict, event \in Declared :
          /\ decided' = [decided EXCEPT ![r] = verdict]
          /\ declared' = [declared EXCEPT ![r] = event]
          /\ verdict = "completed" => "cancel" \notin intent
          /\ said = "failed" => verdict = "failed"
          /\ Plain(r, intent, exhausted, said) => verdict \in Unforced /\ event \in Unforced

\* Who cancels gets no success, and who declares a failure gets it.
LEMMA SettleEnters ==
  ASSUME NEW r \in Runs, NEW intent \in Intent, NEW exhausted \in BOOLEAN,
         NEW said \in Declared \cup {None}, EnterSettle(r, intent, exhausted, said)
  PROVE  Enters(r, intent, exhausted, said)
<1> DEFINE merged == intent \cup IF CancelAsked(r) THEN {"cancel"} ELSE {}
           verdict == ResolveRunOutcome(said, merged, exhausted)
           event == IF said = None THEN EventOf(verdict) ELSE said
<1>1. /\ verdict \in Verdict /\ event \in Declared
      /\ verdict = "completed" => "cancel" \notin intent
      /\ said = "failed" => verdict = "failed"
      /\ Plain(r, intent, exhausted, said) => verdict \in Unforced /\ event \in Unforced
  BY DEF Plain, Unforced, ResolveRunOutcome, TerminalFromCompletion, TerminalFromSilence, EventOf, None,
         Declared, Verdict
<1>2. CASE ctl[r] = "live"
  <2>1. /\ ctl' = [ctl EXCEPT ![r] = "flushing"]
        /\ UNCHANGED <<terminal, row, presented, override>>
        /\ decided' = [decided EXCEPT ![r] = verdict]
        /\ declared' = [declared EXCEPT ![r] = event]
    BY <1>2 DEF EnterSettle
  <2> QED BY <1>1, <1>2, <2>1 DEF Enters
<1> QED BY <1>2 DEF EnterSettle, Enters

\* What each part of the invariant is about.
LEMMA Frame ==
  ASSUME IInv
  PROVE  /\ UNCHANGED <<open, bySession, attempt, ctl, row>> => Openings'
         /\ UNCHANGED <<ctl, fin, cancel>> => Begun'
         /\ UNCHANGED <<ctl, attempt, presented>> => Fenced'
         /\ UNCHANGED <<open, bySession, pending, writing>> => Queued'
         /\ UNCHANGED <<ctl, decided, terminal, row, override>> => Settled'
         /\ UNCHANGED <<ctl, row, published, told>> => Told'
         /\ UNCHANGED <<open, bySession, pending, ctl, hole, lost, decided, override, row>> =>
              Whole'
         /\ UNCHANGED <<cancel, fin, ceiling, declared, decided>> => Unstopped'
<1>1. UNCHANGED <<open, bySession, attempt, ctl, row>> => Openings'
  BY DEF IInv, Openings, Opening
<1>8. UNCHANGED <<ctl, fin, cancel>> => Begun' BY DEF IInv, Begun
<1>2. UNCHANGED <<ctl, attempt, presented>> => Fenced' BY DEF IInv, Fenced
<1>3. UNCHANGED <<open, bySession, pending, writing>> => Queued'
  BY DEF IInv, Queued, QueuedUnderBinding, Working
<1>4. UNCHANGED <<ctl, decided, terminal, row, override>> => Settled' BY DEF IInv, Settled
<1>5. UNCHANGED <<ctl, row, published, told>> => Told' BY DEF IInv, Told, ToldSuccessIsDurable
<1>6. UNCHANGED <<open, bySession, pending, ctl, hole, lost, decided, override, row>> => Whole'
  BY DEF IInv, Whole
<1>7. UNCHANGED <<cancel, fin, ceiling, declared, decided>> => Unstopped' BY DEF IInv, Unstopped
<1> QED BY <1>1, <1>2, <1>3, <1>4, <1>5, <1>6, <1>7, <1>8


\* The head and the tail of the queue.
LEMMA Popped ==
  ASSUME TypeOK, pending # <<>>
  PROVE  /\ Head(pending) = pending[1] /\ 1 \in 1 .. Len(pending)
         /\ Tail(pending) \in Seq(Runs \cup {NoRun})
         /\ \A i \in 1 .. Len(Tail(pending)) :
              i + 1 \in 1 .. Len(pending) /\ Tail(pending)[i] = pending[i + 1]
BY DEF TypeOK, Runs, NoRun

\* One event more.
LEMMA Appended ==
  ASSUME NEW s \in Seq(Runs \cup {NoRun}), NEW e \in Runs \cup {NoRun}
  PROVE  \A i \in 1 .. Len(Append(s, e)) :
           Append(s, e)[i] = e \/ (i \in 1 .. Len(s) /\ Append(s, e)[i] = s[i])
<1> DEFINE t == Append(s, e)
           n == Len(s)
<1>1. n \in Nat /\ Len(t) = n + 1 OBVIOUS
<1>2. \A i \in 1 .. n : t[i] = s[i] OBVIOUS
<1>3. t[n + 1] = e OBVIOUS
<1> HIDE DEF t, n
<1>4. \A i \in 1 .. n + 1 : i \in 1 .. n \/ i = n + 1 BY <1>1
<1>5. ASSUME NEW i \in 1 .. Len(t) PROVE t[i] = e \/ (i \in 1 .. n /\ t[i] = s[i])
  <2>1. CASE i \in 1 .. n BY <1>2, <2>1
  <2>2. CASE i = n + 1 BY <1>3, <2>2
  <2> QED BY <1>1, <1>4, <2>1, <2>2
<1> QED BY <1>5 DEF t, n

\* What a settle leaves behind, by run.
Effect(r, intent, exhausted, said) ==
  /\ UNCHANGED <<terminal, row, presented, override>>
  /\ ctl' \in [Runs -> {"none", "live", "ended"} \cup Settling]
  /\ declared' \in [Runs -> Declared \cup {None}]
  /\ decided' \in [Runs -> Verdict \cup {None}]
  /\ \A q \in Runs :
       \/ ctl'[q] = ctl[q] /\ decided'[q] = decided[q] /\ declared'[q] = declared[q]
       \/ /\ q = r /\ ctl[q] = "live" /\ ctl'[q] = "flushing" /\ decided'[q] # None
          /\ decided'[q] = "completed" => "cancel" \notin intent
          /\ said = "failed" => decided'[q] = "failed"
          /\ Plain(r, intent, exhausted, said) => {decided'[q], declared'[q]} \subseteq Unforced

\* Every settle has it.
LEMMA SettleHasEffect ==
  ASSUME IInv, NEW r \in Runs, NEW intent, NEW exhausted, NEW said,
         Enters(r, intent, exhausted, said)
  PROVE  Effect(r, intent, exhausted, said)
<1>1. CASE ctl[r] # "live" /\ UNCHANGED control
  BY <1>1 DEF IInv, TypeOK, control, Effect
<1>2. CASE ~(ctl[r] # "live" /\ UNCHANGED control)
  <2>1. PICK verdict \in Verdict, event \in Declared :
          /\ decided' = [decided EXCEPT ![r] = verdict]
          /\ declared' = [declared EXCEPT ![r] = event]
          /\ verdict = "completed" => "cancel" \notin intent
          /\ said = "failed" => verdict = "failed"
          /\ Plain(r, intent, exhausted, said) => verdict \in Unforced /\ event \in Unforced
    BY <1>2 DEF Enters
  <2>2. /\ ctl[r] = "live" /\ ctl' = [ctl EXCEPT ![r] = "flushing"]
        /\ UNCHANGED <<terminal, row, presented, override>>
    BY <1>2 DEF Enters
  <2>3. verdict # None BY DEF Verdict, None
  <2> QED BY <2>1, <2>2, <2>3 DEF IInv, TypeOK, Settling, Effect
<1> QED BY <1>1, <1>2

\* Which phases it leaves, and which run it can decide.
Phases(r) ==
  /\ row' = row /\ override' = override
  /\ \A p \in Runs :
       /\ ctl'[p] = "none" <=> ctl[p] = "none"
       /\ ctl'[p] = "ended" <=> ctl[p] = "ended"
       /\ ctl'[p] \in {"none", "live", "flushing"} => ctl[p] \in {"none", "live", "flushing"}
       /\ \/ decided'[p] = decided[p] /\ ctl'[p] = ctl[p]
          \/ p = r /\ ctl'[p] = "flushing"

\* Every settle leaves only those.
LEMMA SettlePhases ==
  ASSUME IInv, NEW r \in Runs, NEW intent, NEW exhausted, NEW said,
         Enters(r, intent, exhausted, said)
  PROVE  Phases(r)
<1>1. Effect(r, intent, exhausted, said) BY SettleHasEffect
<1> QED BY <1>1 DEF Effect, Phases

\* It gives no such ending to a run that is failed or stopped.
LEMMA SettleRefuses ==
  ASSUME IInv, NEW r \in Runs, NEW intent, NEW exhausted, NEW said,
         Enters(r, intent, exhausted, said),
         said = "failed" \/ ("cancel" \in intent /\ r \in Cancelled \cup Stopped)
  PROVE  \A p \in Runs : decided'[p] \in Clean(p) => decided'[p] = decided[p] /\ ctl'[p] = ctl[p]
<1>1. Effect(r, intent, exhausted, said) BY SettleHasEffect
<1> QED BY <1>1 DEF Effect, Clean

\* It writes no row, so what rows may hold stays so.
LEMMA SettleKeepsSettled ==
  ASSUME IInv, NEW r \in Runs, NEW intent, NEW exhausted, NEW said,
         Enters(r, intent, exhausted, said)
  PROVE  Settled'
<1>1. Effect(r, intent, exhausted, said) BY SettleHasEffect
<1>2. \A p \in Runs : \/ ctl'[p] = ctl[p] /\ decided'[p] = decided[p]
                      \/ ctl[p] = "live" /\ ctl'[p] = "flushing" /\ decided'[p] # None
  BY <1>1 DEF Effect
<1>3. UNCHANGED <<terminal, row, override>> BY <1>1 DEF Effect
<1> QED BY <1>2, <1>3 DEF IInv, Settled

\* A settle that begins takes nothing back that was told.
LEMMA EntersTold ==
  ASSUME IInv, NEW r \in Runs, NEW intent, NEW exhausted, NEW said,
         Enters(r, intent, exhausted, said), UNCHANGED <<published, told>>
  PROVE  Told'
<1>1. row' = row /\ \A p \in Runs : ctl[p] = "ended" => ctl'[p] = "ended"
  BY SettleHasEffect DEF Effect
<1>2. \A t \in told : t[1] \in Runs BY DEF IInv, TypeOK
<1> QED BY <1>1, <1>2 DEF IInv, Told, ToldSuccessIsDurable

\* The maps and sets of the model.
USE DEF queue, holes, session, control, outlet, finish, calls
-----------------------------------------------------------------------------
(* A run is opened. *)

\* A run is opened while the session is idle.
LEMMA OpenRunKeeps ==
  ASSUME IInv, NEW r \in Runs, OpenRun(r)
  PROVE  IInv'
<1>1. TypeOK' BY DEF IInv, TypeOK, OpenRun, Busy, Terminal, Verdict, Declared, Degraded,
     Finishes, Callers, NoFinish, OnFrame, OnCancel, Runs, NoRun, Settling, None
<1>2. Openings' BY DEF IInv, TypeOK, Openings, OpenRun, Busy, Opening, Runs, NoRun, Settling, None
<1>3. Fenced' BY DEF IInv, TypeOK, Openings, Fenced, OpenRun, Busy, Runs, NoRun, Settling, None
<1>4. Queued' BY DEF IInv, TypeOK, Openings, Queued, OpenRun, Busy, QueuedUnderBinding, Working,
     Opening, Runs, NoRun, Settling, None
<1>5. Whole' BY DEF IInv, TypeOK, Openings, Queued, Settled, Whole, OpenRun, Busy, Working,
     QueuedUnderBinding, Degraded, Runs, NoRun, Settling, None
<1>6. Begun' /\ Settled' /\ Told' /\ Unstopped' BY Frame DEF OpenRun
<1> QED BY <1>1, <1>2, <1>3, <1>4, <1>5, <1>6 DEF IInv

\* It is refused before its dispatch.
LEMMA OpenRefusedKeeps ==
  ASSUME IInv, NEW r \in Runs, OpenRefused(r)
  PROVE  IInv'
<1>1. TypeOK'
  <2>1. /\ open' = [open EXCEPT ![r] = "refused"] /\ attempt' = [attempt EXCEPT ![r] = "none"]
        /\ row' \in {row, [row EXCEPT ![r] = "failed"]}
        /\ UNCHANGED <<ctl, declared, decided, terminal, presented, override>>
        /\ UNCHANGED <<session, queue, holes, outlet, finish, calls>>
    BY DEF OpenRefused
  <2>2. row' \in [Runs -> Terminal \cup {None}] BY <2>1 DEF IInv, TypeOK, Terminal, Verdict
  <2> QED BY <2>1, <2>2 DEF IInv, TypeOK
<1>2. Openings' BY DEF IInv, TypeOK, Openings, OpenRefused, Opening, Runs, NoRun, Settling, None
<1>3. Fenced' BY DEF IInv, TypeOK, Openings, Fenced, OpenRefused, Runs, NoRun, Settling, None
<1>4. Queued' BY DEF IInv, TypeOK, Openings, Queued, OpenRefused, QueuedUnderBinding, Working,
     Opening, Runs, NoRun, Settling, None
<1>5. Settled' BY DEF IInv, TypeOK, Openings, Settled, OpenRefused, StatusOf, Degraded, Verdict,
     Runs, NoRun, Settling, None
<1>6. Told' BY DEF IInv, TypeOK, Openings, Settled, Told, OpenRefused, ToldSuccessIsDurable,
     StatusOf, Degraded, Runs, NoRun, Settling, None
<1>7. Whole' BY DEF IInv, TypeOK, Openings, Queued, Settled, Whole, Clean, OpenRefused, Working,
     QueuedUnderBinding, Degraded, Runs, NoRun, Settling, None
<1>8. Begun' /\ Unstopped' BY Frame DEF OpenRefused
<1> QED BY <1>1, <1>2, <1>3, <1>4, <1>5, <1>6, <1>7, <1>8 DEF IInv

\* It is bound to the session once its start is durable.
LEMMA DispatchReadyKeeps ==
  ASSUME IInv, NEW r \in Runs, DispatchReady(r)
  PROVE  IInv'
<1>1. TypeOK' BY DEF IInv, TypeOK, DispatchReady, Terminal, Verdict, Declared, Degraded,
     Finishes, Callers, NoFinish, OnFrame, OnCancel, Runs, NoRun, Settling, None
<1>2. Openings' BY DEF IInv, TypeOK, Openings, DispatchReady, Opening, Runs, NoRun, Settling, None
<1>3. Fenced' BY DEF IInv, TypeOK, Openings, Fenced, DispatchReady, Runs, NoRun, Settling, None
<1>4. Queued' BY DEF IInv, TypeOK, Openings, Queued, DispatchReady, QueuedUnderBinding, Working,
     Opening, Runs, NoRun, Settling, None
<1>5. Settled' BY DEF IInv, TypeOK, Openings, Settled, DispatchReady, StatusOf, Degraded,
     Verdict, Runs, NoRun, Settling, None
<1>6. Told' BY DEF IInv, TypeOK, Openings, Settled, Told, DispatchReady, ToldSuccessIsDurable,
     StatusOf, Degraded, Runs, NoRun, Settling, None
<1>7. Whole' BY DEF IInv, TypeOK, Openings, Queued, Settled, Whole, Clean, DispatchReady, Working,
     QueuedUnderBinding, Degraded, Runs, NoRun, Settling, None
<1>8. Begun' BY DEF IInv, TypeOK, Openings, Begun, DispatchReady, Finishes, Callers, OnFrame,
     OnCancel, Runs, NoRun, Settling, None
<1>9. Unstopped' BY Frame DEF DispatchReady
<1> QED BY <1>1, <1>2, <1>3, <1>4, <1>5, <1>6, <1>7, <1>8, <1>9 DEF IInv

\* Its worker is told to begin.
LEMMA DispatchKeeps ==
  ASSUME IInv, NEW r \in Runs, Dispatch(r)
  PROVE  IInv'
<1>1. TypeOK' BY DEF IInv, TypeOK, Dispatch, Terminal, Verdict, Declared, Degraded, Finishes,
     Callers, NoFinish, OnFrame, OnCancel, Runs, NoRun, Settling, None
<1>2. Openings' BY DEF IInv, TypeOK, Openings, Dispatch, Opening, Runs, NoRun, Settling, None
<1>3. Queued' BY DEF IInv, TypeOK, Openings, Queued, Dispatch, QueuedUnderBinding, Working,
     Opening, Runs, NoRun, Settling, None
<1>4. Whole' BY DEF IInv, TypeOK, Openings, Queued, Settled, Whole, Dispatch, Working,
     QueuedUnderBinding, Degraded, Runs, NoRun, Settling, None
<1>5. Begun' /\ Fenced' /\ Settled' /\ Told' /\ Unstopped' BY Frame DEF Dispatch
<1> QED BY <1>1, <1>2, <1>3, <1>4, <1>5 DEF IInv

\* Its dispatch failed and it was settled.
LEMMA OpenFailsKeeps ==
  ASSUME IInv, NEW r \in Runs, OpenFails(r)
  PROVE  IInv'
<1>1. TypeOK' BY DEF IInv, TypeOK, OpenFails, Terminal, Verdict, Declared, Degraded, Finishes,
     Callers, NoFinish, OnFrame, OnCancel, Runs, NoRun, Settling, None
<1>2. Openings' BY DEF IInv, TypeOK, Openings, OpenFails, Opening, Runs, NoRun, Settling, None
<1>3. Fenced' BY DEF IInv, TypeOK, Openings, Fenced, OpenFails, Runs, NoRun, Settling, None
<1>4. Queued'
  <2>1. bySession' \in {bySession, NoRun} /\ (bySession = r => bySession' = NoRun)
        /\ (bySession # r => bySession' = bySession) /\ UNCHANGED <<pending, writing>>
    BY DEF OpenFails
  <2>2. \A q \in Runs : Working(q)' <=> Working(q) BY DEF OpenFails, Working, IInv, TypeOK
  <2>3. ~Working(r) /\ r # NoRun BY DEF OpenFails, Working, Runs, NoRun
  <2>4. \A i \in 1 .. Len(pending) :
          pending[i] \in Runs \cup {NoRun} /\ pending[i] \in {NoRun, bySession}
          /\ (pending[i] # NoRun => Working(pending[i]))
    BY DEF IInv, TypeOK, Queued, QueuedUnderBinding
  <2>5. \A i \in 1 .. Len(pending) : pending[i] \in {NoRun, bySession'} BY <2>1, <2>3, <2>4
  <2>6. writing => pending # <<>> /\ Head(pending) = bySession' /\ bySession' # NoRun
    <3> SUFFICES ASSUME writing
                 PROVE  pending # <<>> /\ Head(pending) = bySession' /\ bySession' # NoRun
      OBVIOUS
    <3>1. pending # <<>> /\ Head(pending) = bySession /\ bySession # NoRun BY DEF IInv, Queued
    <3>2. Head(pending) = pending[1] /\ 1 \in 1 .. Len(pending) BY <3>1, Popped DEF IInv
    <3>3. bySession # r BY <2>3, <2>4, <3>1, <3>2
    <3> QED BY <2>1, <3>1, <3>3
  <2> QED BY <2>1, <2>2, <2>4, <2>5, <2>6 DEF Queued, QueuedUnderBinding
<1>5. Whole'
  <2>1. /\ bySession' \in {bySession, NoRun} /\ r # NoRun
        /\ open' = [open EXCEPT ![r] = "refused"] /\ UNCHANGED <<pending, holes, control>>
    BY DEF OpenFails, Runs, NoRun
  <2>2. \A q \in Runs : bySession' = q => bySession = q BY <2>1 DEF Runs, NoRun
  <2>3. \A q \in Runs : open[q] \in {"failing", "refused"} => open'[q] \in {"failing", "refused"}
    BY <2>1 DEF IInv, TypeOK
  <2> QED BY <2>1, <2>2, <2>3 DEF IInv, Whole
<1>6. Begun' /\ Settled' /\ Told' /\ Unstopped' BY Frame DEF OpenFails
<1> QED BY <1>1, <1>2, <1>3, <1>4, <1>5, <1>6 DEF IInv

\* It is accepted.
LEMMA OpenAcceptedKeeps ==
  ASSUME IInv, NEW r \in Runs, OpenAccepted(r)
  PROVE  IInv'
<1>1. TypeOK' BY DEF IInv, TypeOK, OpenAccepted, Terminal, Verdict, Declared, Degraded, Finishes,
     Callers, NoFinish, OnFrame, OnCancel, Runs, NoRun, Settling, None
<1>2. Openings' BY DEF IInv, TypeOK, Openings, OpenAccepted, Opening, Runs, NoRun, Settling, None
<1>3. Queued' BY DEF IInv, TypeOK, Openings, Queued, OpenAccepted, QueuedUnderBinding, Working,
     Opening, Runs, NoRun, Settling, None
<1>4. Whole' BY DEF IInv, TypeOK, Openings, Queued, Settled, Whole, OpenAccepted, Working,
     QueuedUnderBinding, Degraded, Runs, NoRun, Settling, None
<1>5. Begun' /\ Fenced' /\ Settled' /\ Told' /\ Unstopped' BY Frame DEF OpenAccepted
<1> QED BY <1>1, <1>2, <1>3, <1>4, <1>5 DEF IInv

-----------------------------------------------------------------------------
(* The store answers. *)

\* The flush of a settlement.
LEMMA FlushAnswersKeeps ==
  ASSUME IInv, NEW r \in Runs, FlushAnswers(r)
  PROVE  IInv'
<1>1. PICK c \in {"degrading", "completing"}, o \in {None, Degraded} :
        /\ ctl' = [ctl EXCEPT ![r] = c] /\ override' = [override EXCEPT ![r] = o]
        /\ c = "completing" /\ lost[r] /\ decided[r] \in Clean(r) => o # None
        /\ o # None => c = "completing"
  <2>1. ctl[r] = "flushing" /\ override \in [Runs -> {None, Degraded}] /\ override[r] = None
    BY DEF FlushAnswers, IInv, TypeOK, Settled
  <2>2. (\A v \in Clean(r) : StatusOf(v) # "failed") /\ Degraded # None
    BY DEF Clean, StatusOf, Degraded, None
  <2>3. CASE lost[r] /\ ctl' = [ctl EXCEPT ![r] = "degrading"] /\ UNCHANGED override
    <3>1. override' = [override EXCEPT ![r] = None] BY <2>1, <2>3
    <3> QED BY <3>1, <2>3
  <2>4. CASE /\ ctl' = [ctl EXCEPT ![r] = "completing"]
             /\ override' = [override EXCEPT ![r] =
                  IF lost[r] /\ StatusOf(decided[r]) # "failed" THEN Degraded ELSE @]
    <3> DEFINE o == IF lost[r] /\ StatusOf(decided[r]) # "failed" THEN Degraded ELSE None
    <3>1. override' = [override EXCEPT ![r] = o] BY <2>1, <2>4
    <3>2. o \in {None, Degraded} OBVIOUS
    <3>3. lost[r] /\ decided[r] \in Clean(r) => o # None BY <2>2
    <3> HIDE DEF o
    <3> QED BY <3>1, <3>2, <3>3, <2>4
  <2> QED BY <2>3, <2>4 DEF FlushAnswers
<1>2. /\ ctl[r] = "flushing" /\ presented' = [presented EXCEPT ![r] = Presents(r)]
      /\ UNCHANGED <<declared, decided, terminal, row>>
      /\ UNCHANGED <<open, session, queue, holes, attempt, outlet, finish, calls>>
  BY DEF FlushAnswers
<1>3. Presents(r) \in BOOLEAN /\ (attempt[r] # "none" => Presents(r)) BY DEF Presents
<1>4. TypeOK' BY <1>1, <1>2, <1>3 DEF IInv, TypeOK, Settling
<1>5. Openings' BY <1>1, <1>2 DEF IInv, TypeOK, Openings, Opening, Runs, NoRun
<1>6. Fenced' BY <1>1, <1>2, <1>3 DEF IInv, TypeOK, Fenced, Settling
<1>7. Settled' BY <1>1, <1>2 DEF IInv, TypeOK, Settled
<1>8. Told' BY <1>1, <1>2 DEF IInv, TypeOK, Told, ToldSuccessIsDurable
<1>9. Whole'
  <2>1. \A q \in Runs : q # r => ctl'[q] = ctl[q] /\ override'[q] = override[q] BY <1>1 DEF IInv,
     TypeOK
  <2>2. ctl'[r] = c /\ override'[r] = o BY <1>1 DEF IInv, TypeOK
  <2>3. HasWriter /\ hole[r] => lost[r] BY <1>2 DEF IInv, Whole
  <2> QED BY <1>1, <1>2, <2>1, <2>2, <2>3 DEF IInv, Whole
<1>11. Begun' BY <1>1, <1>2 DEF IInv, TypeOK, Begun, Finishes
<1>10. Queued' /\ Unstopped' BY <1>2, Frame
<1> QED BY <1>4, <1>5, <1>6, <1>7, <1>8, <1>9, <1>10, <1>11 DEF IInv

\* The row is written, or not, and answered, or not.
LEMMA CompleteAnswersKeeps ==
  ASSUME IInv, NEW r \in Runs, CompleteAnswers(r)
  PROVE  IInv'
<1>1. TypeOK'
  <2>1. PICK lands \in BOOLEAN, acknowledged \in BOOLEAN :
          /\ row' = [row EXCEPT ![r] = IF lands THEN Proposed(r) ELSE @]
          /\ terminal' = [terminal EXCEPT ![r] =
               IF acknowledged /\ ctl[r] = "completing" THEN decided[r] ELSE Degraded]
    BY DEF CompleteAnswers
  <2>2. /\ ctl[r] \in {"completing", "degrading"} /\ ctl' = [ctl EXCEPT ![r] = "ended"]
        /\ UNCHANGED <<declared, decided, presented, override>>
        /\ UNCHANGED <<open, session, queue, holes, attempt, outlet, finish, calls>>
    BY DEF CompleteAnswers
  <2>3. decided[r] \in Terminal /\ Degraded \in Terminal
    BY <2>2 DEF IInv, TypeOK, Settled, Terminal
  <2>4. Proposed(r) \in Terminal BY <2>3 DEF Proposed
  <2>5. row' \in [Runs -> Terminal \cup {None}] BY <2>1, <2>4 DEF IInv, TypeOK
  <2>6. terminal' \in [Runs -> Terminal \cup {None}] BY <2>1, <2>3 DEF IInv, TypeOK
  <2>7. ctl' \in [Runs -> {"none", "live", "ended"} \cup Settling] BY <2>2 DEF IInv, TypeOK
  <2> QED BY <2>2, <2>5, <2>6, <2>7 DEF IInv, TypeOK
<1>2. Openings' BY DEF IInv, TypeOK, Openings, CompleteAnswers, Proposed, StatusOf, Degraded,
     Opening, Runs, NoRun, Settling, None
<1>3. Fenced' BY DEF IInv, TypeOK, Openings, Fenced, CompleteAnswers, Proposed, StatusOf,
     Degraded, Runs, NoRun, Settling, None
<1>4. Settled' BY DEF IInv, TypeOK, Openings, Settled, CompleteAnswers, Proposed, StatusOf,
     Degraded, Verdict, Runs, NoRun, Settling, None
<1>5. Told' BY DEF IInv, TypeOK, Openings, Settled, Told, CompleteAnswers, Proposed, StatusOf,
     Degraded, ToldSuccessIsDurable, Runs, NoRun, Settling, None
<1>6. Whole'
  <2>1. PICK lands \in BOOLEAN : row' = [row EXCEPT ![r] = IF lands THEN Proposed(r) ELSE @]
    BY DEF CompleteAnswers
  <2>2. /\ ctl[r] \in {"completing", "degrading"} /\ ctl' = [ctl EXCEPT ![r] = "ended"]
        /\ UNCHANGED <<decided, override, open, session, queue, holes>>
    BY DEF CompleteAnswers
  <2>3. HasWriter /\ Proposed(r) \in Clean(r) => ~hole[r]
    BY <2>2 DEF Proposed, Degraded, Clean, IInv, Whole
  <2>4. HasWriter /\ row'[r] \in Clean(r) => ~hole[r] BY <2>1, <2>3 DEF IInv, TypeOK, Whole
  <2>5. \A q \in Runs : q # r => row'[q] = row[q] /\ ctl'[q] = ctl[q]
    BY <2>1, <2>2 DEF IInv, TypeOK
  <2>6. ctl'[r] = "ended" BY <2>2 DEF IInv, TypeOK
  <2> QED BY <2>2, <2>4, <2>5, <2>6 DEF IInv, Whole
<1>7. Begun' BY DEF IInv, TypeOK, Openings, Begun, CompleteAnswers, Proposed, StatusOf, Degraded,
     Finishes, Callers, OnFrame, OnCancel, Runs, NoRun, Settling, None
<1>8. Queued' /\ Unstopped' BY Frame DEF CompleteAnswers
<1> QED BY <1>1, <1>2, <1>3, <1>4, <1>5, <1>6, <1>7, <1>8 DEF IInv

-----------------------------------------------------------------------------
(* Events and frames. *)

\* A worker sends an event.
LEMMA NativeEventKeeps ==
  ASSUME IInv, NEW r \in Runs, NativeEvent(r)
  PROVE  IInv'
<1>1. TypeOK'
  <2>1. /\ pending' = Append(pending, IF bySession = r THEN r ELSE NoRun)
        /\ sent < MaxEvents /\ sent' = sent + 1 /\ entry' = TRUE
        /\ UNCHANGED <<open, session, writing, holes, control, attempt, outlet, finish, calls>>
    BY DEF NativeEvent
  <2>2. pending' \in Seq(Runs \cup {NoRun}) BY <2>1 DEF IInv, TypeOK
  <2>3. sent' \in 0 .. MaxEvents BY <2>1 DEF IInv, TypeOK
  <2> QED BY <2>1, <2>2, <2>3 DEF IInv, TypeOK
<1>2. Queued'
  <2> DEFINE v == IF bySession = r THEN r ELSE NoRun
  <2>1. /\ pending' = Append(pending, v) /\ Working(r) /\ v \in Runs \cup {NoRun}
        /\ UNCHANGED <<open, session, writing>> /\ v \in {NoRun, bySession} /\ v \in {NoRun, r}
    BY DEF NativeEvent
  <2> HIDE DEF v
  <2>2. pending \in Seq(Runs \cup {NoRun}) BY DEF IInv, TypeOK
  <2>3. \A i \in 1 .. Len(pending') :
          pending'[i] = v \/ (i \in 1 .. Len(pending) /\ pending'[i] = pending[i])
    BY <2>1, <2>2, Appended
  <2>4. QueuedUnderBinding' BY <2>1, <2>3 DEF IInv, Queued, QueuedUnderBinding
  <2>5. \A i \in 1 .. Len(pending') : pending'[i] # NoRun => Working(pending'[i])
    BY <2>1, <2>3 DEF IInv, Queued
  <2>6. writing => pending' # <<>> /\ Head(pending') = Head(pending) BY <2>1, <2>2 DEF IInv, Queued
  <2> QED BY <2>1, <2>4, <2>5, <2>6 DEF IInv, Queued, Working
<1>3. Whole'
  <2> DEFINE v == IF bySession = r THEN r ELSE NoRun
  <2>1. /\ pending' = Append(pending, v) /\ Working(r) /\ v \in Runs \cup {NoRun}
        /\ UNCHANGED <<open, session, holes, control>> /\ v \in {NoRun, bySession}
        /\ bySession # NoRun /\ v \in {NoRun, r}
    BY DEF NativeEvent
  <2> HIDE DEF v
  <2>2. \A i \in 1 .. Len(pending') :
          pending'[i] = v \/ (i \in 1 .. Len(pending) /\ pending'[i] = pending[i])
    BY <2>1, Appended DEF IInv, TypeOK
  <2>3. HasWriter => \A q \in Runs : decided[q] \in Clean(q) => v # q
    BY <2>1 DEF IInv, Whole, Working, Runs, NoRun
  <2> QED BY <2>1, <2>2, <2>3 DEF IInv, Whole
<1>4. Openings' /\ Begun' /\ Fenced' /\ Settled' /\ Told' /\ Unstopped' BY Frame DEF NativeEvent
<1> QED BY <1>1, <1>2, <1>3, <1>4 DEF IInv

\* An event of no live run is refused.
LEMMA AppendRefusedKeeps ==
  ASSUME IInv, AppendRefused
  PROVE  IInv'
<1>1. TypeOK'
  <2>1. /\ pending # <<>> /\ pending' = Tail(pending)
        /\ hole' = IF Head(pending) = NoRun THEN hole ELSE [hole EXCEPT ![Head(pending)] = TRUE]
        /\ UNCHANGED <<open, session, entry, writing, sent, lost, control, attempt, outlet, finish,
                       calls>>
    BY DEF AppendRefused
  <2>2. pending' \in Seq(Runs \cup {NoRun}) /\ Head(pending) \in Runs \cup {NoRun}
    BY <2>1, Popped DEF IInv, TypeOK
  <2>3. hole' \in [Runs -> BOOLEAN] BY <2>1, <2>2 DEF IInv, TypeOK
  <2> QED BY <2>1, <2>2, <2>3 DEF IInv, TypeOK
<1>2. Queued' BY DEF IInv, TypeOK, Openings, Queued, AppendRefused, QueuedUnderBinding, Working,
     Opening, Runs, NoRun, Settling, None
<1>3. Whole' BY DEF IInv, TypeOK, Openings, Queued, Settled, Whole, AppendRefused, Working,
     QueuedUnderBinding, Degraded, Runs, NoRun, Settling, None
<1>4. Openings' /\ Begun' /\ Fenced' /\ Settled' /\ Told' /\ Unstopped' BY Frame DEF AppendRefused
<1> QED BY <1>1, <1>2, <1>3, <1>4 DEF IInv

\* The writer takes an event.
LEMMA AppendStartsKeeps ==
  ASSUME IInv, AppendStarts
  PROVE  IInv'
<1>1. TypeOK' BY DEF IInv, TypeOK, AppendStarts, Terminal, Verdict, Declared, Degraded, Finishes,
     Callers, NoFinish, OnFrame, OnCancel, Runs, NoRun, Settling, None
<1>2. Queued' BY DEF IInv, TypeOK, Openings, Queued, AppendStarts, QueuedUnderBinding, Working,
     Opening, Runs, NoRun, Settling, None
<1>3. Openings' /\ Begun' /\ Fenced' /\ Settled' /\ Told' /\ Whole' /\ Unstopped'
  BY Frame DEF AppendStarts
<1> QED BY <1>1, <1>2, <1>3 DEF IInv

\* The writer answers.
LEMMA AppendAnswersKeeps ==
  ASSUME IInv, AppendAnswers
  PROVE  IInv'
<1>1. TypeOK'
  <2>1. pending # <<>> /\ Head(pending) = bySession /\ bySession \in Runs
    BY DEF AppendAnswers, IInv, Queued, TypeOK
  <2>2. /\ writing' = FALSE /\ pending' = Tail(pending)
        /\ \/ UNCHANGED holes
           \/ /\ lost' = [lost EXCEPT ![Head(pending)] = TRUE]
              /\ hole' = [hole EXCEPT ![Head(pending)] = TRUE]
        /\ UNCHANGED <<open, session, entry, sent, control, attempt, outlet, finish, calls>>
    BY DEF AppendAnswers
  <2>3. pending' \in Seq(Runs \cup {NoRun}) BY <2>1, <2>2, Popped DEF IInv
  <2>4. lost' \in [Runs -> BOOLEAN] /\ hole' \in [Runs -> BOOLEAN]
    <3>1. lost \in [Runs -> BOOLEAN] /\ hole \in [Runs -> BOOLEAN] BY DEF IInv, TypeOK
    <3>2. \/ lost' = lost /\ hole' = hole
          \/ /\ lost' = [lost EXCEPT ![bySession] = TRUE] /\ bySession \in Runs
             /\ hole' = [hole EXCEPT ![bySession] = TRUE]
      BY <2>1, <2>2
    <3> QED BY <3>1, <3>2
  <2> QED BY <2>2, <2>3, <2>4 DEF IInv, TypeOK
<1>2. Queued'
  <2>1. pending # <<>> /\ Head(pending) = bySession /\ bySession \in Runs
    BY DEF AppendAnswers, IInv, Queued, TypeOK
  <2>2. ~writing' /\ pending' = Tail(pending) /\ UNCHANGED <<open, session>> BY DEF AppendAnswers
  <2>3. \A i \in 1 .. Len(pending') : i + 1 \in 1 .. Len(pending) /\ pending'[i] = pending[i + 1]
    BY <2>1, <2>2, Popped DEF IInv
  <2> QED BY <2>2, <2>3 DEF IInv, Queued, QueuedUnderBinding, Working
<1>3. Whole'
  <2>1. pending # <<>> /\ Head(pending) = bySession /\ bySession \in Runs
    BY DEF AppendAnswers, IInv, Queued, TypeOK
  <2>2. /\ \/ UNCHANGED holes
           \/ /\ lost' = [lost EXCEPT ![Head(pending)] = TRUE]
              /\ hole' = [hole EXCEPT ![Head(pending)] = TRUE]
        /\ pending' = Tail(pending) /\ UNCHANGED <<open, session, control>>
    BY DEF AppendAnswers
  <2>3. /\ Head(pending) = pending[1] /\ 1 \in 1 .. Len(pending)
        /\ \A i \in 1 .. Len(pending') : i + 1 \in 1 .. Len(pending) /\ pending'[i] = pending[i + 1]
    BY <2>1, <2>2, Popped DEF IInv
  <2>4. HasWriter => decided[bySession] \notin Clean(bySession) BY <2>1, <2>3 DEF IInv, Whole
  <2>5. HasWriter => row[bySession] \notin Clean(bySession)
    BY <2>1, <2>3, <2>4 DEF IInv, Settled, Clean, Degraded, None
  <2>6. \A q \in Runs : /\ lost[q] => lost'[q]
                        /\ hole'[q] => hole[q] \/ (q = bySession /\ lost'[q])
    <3>1. CASE lost' = lost /\ hole' = hole
      BY <1>1, <3>1 DEF IInv, TypeOK
    <3>2. CASE /\ lost' = [lost EXCEPT ![Head(pending)] = TRUE]
               /\ hole' = [hole EXCEPT ![Head(pending)] = TRUE]
      <4>1. /\ lost' = [lost EXCEPT ![bySession] = TRUE] /\ bySession \in Runs
            /\ hole' = [hole EXCEPT ![bySession] = TRUE]
        BY <2>1, <3>2
      <4>2. lost \in [Runs -> BOOLEAN] /\ hole \in [Runs -> BOOLEAN] BY DEF IInv, TypeOK
      <4>3. \A q \in Runs : /\ q = bySession => lost'[q] = TRUE
                            /\ q # bySession => lost'[q] = lost[q] /\ hole'[q] = hole[q]
        BY <4>1, <4>2
      <4> QED BY <1>1, <4>2, <4>3 DEF TypeOK
    <3> QED BY <2>2, <3>1, <3>2
  <2>7. \A q \in Runs : (\A i \in 1 .. Len(pending) : pending[i] # q) =>
                          \A i \in 1 .. Len(pending') : pending'[i] # q
    BY <2>3
  <2>8. UNCHANGED <<open, bySession, ctl, decided, override, row>> BY <2>2
  <2> SUFFICES ASSUME HasWriter, NEW q \in Runs
               PROVE  /\ hole'[q] /\ ctl[q] \in {"none", "live", "flushing"} => lost'[q]
                      /\ decided[q] \in Clean(q) =>
                           /\ \A i \in 1 .. Len(pending') : pending'[i] # q
                           /\ bySession # q \/ open[q] \in {"failing", "refused"}
                           /\ hole'[q] /\ ctl[q] = "completing" => override[q] # None
                      /\ row[q] \in Clean(q) => ~hole'[q]
    BY <2>8 DEF Whole
  <2> QED BY <2>4, <2>5, <2>6, <2>7 DEF IInv, Whole
<1>4. Openings' /\ Begun' /\ Fenced' /\ Settled' /\ Told' /\ Unstopped' BY Frame DEF AppendAnswers
<1> QED BY <1>1, <1>2, <1>3, <1>4 DEF IInv

\* A worker says the run ended.
LEMMA TerminalFrameKeeps ==
  ASSUME IInv, NEW r \in Runs, NEW said \in {"completed", "failed"}, TerminalFrame(r, said)
  PROVE  IInv'
<1>1. TypeOK' BY DEF IInv, TypeOK, TerminalFrame, StartFinish, Terminal, Verdict, Declared,
     Degraded, Finishes, Callers, NoFinish, OnFrame, OnCancel, Runs, NoRun, Settling, None
<1>2. Begun' BY DEF IInv, TypeOK, Openings, Begun, TerminalFrame, StartFinish, Finishes, Callers,
     OnFrame, OnCancel, Runs, NoRun, Settling, None
<1>3. Unstopped' BY DEF IInv, TypeOK, Settled, Unstopped, Unforced, TerminalFrame, StartFinish, OnCancel,
     Callers, OnFrame, Finishes, NoFinish, Runs, NoRun, Settling, None
<1>4. Openings' /\ Fenced' /\ Queued' /\ Settled' /\ Told' /\ Whole' BY Frame DEF TerminalFrame,
     StartFinish
<1> QED BY <1>1, <1>2, <1>3, <1>4 DEF IInv

-----------------------------------------------------------------------------
(* Responses and cancels. *)

\* A response closes.
LEMMA CloseAsksKeeps ==
  ASSUME IInv, NEW r \in Runs, NEW how \in {"closed", "disconnected"}, CloseAsks(r, how)
  PROVE  IInv'
<1>1. TypeOK'
  <2>1. /\ close' \in [Runs -> {"idle", "closed", "disconnected", "answered"}]
        /\ awaits' \in [Runs -> Finishes \cup {NoFinish}] /\ finishing' \in Finishes \cup {NoFinish}
        /\ fin' \in [Finishes -> {"idle", "draining", "settling", "done"}]
        /\ drained' = drained /\ told' = told
    <3>1. r \in Callers /\ (bySession # NoRun => <<bySession, r>> \in Finishes)
      BY DEF Callers, Finishes, IInv, TypeOK
    <3>2. CASE finishing # NoFinish
      <4>1. /\ awaits' = [awaits EXCEPT ![r] = finishing] /\ close' = [close EXCEPT ![r] = how]
            /\ UNCHANGED <<finish, told>>
        BY <3>2 DEF CloseAsks
      <4> QED BY <4>1 DEF IInv, TypeOK
    <3>3. CASE finishing = NoFinish /\ bySession = NoRun BY <3>1, <3>3 DEF CloseAsks, IInv, TypeOK
    <3>4. CASE finishing = NoFinish /\ bySession # NoRun
      <4>1. /\ awaits' = [awaits EXCEPT ![r] = <<bySession, r>>]
            /\ close' = [close EXCEPT ![r] = how]
            /\ finishing' = <<bySession, r>> /\ fin' = [fin EXCEPT ![<<bySession, r>>] = "draining"]
            /\ UNCHANGED <<drained, told>>
        BY <3>4 DEF CloseAsks, StartFinish
      <4> QED BY <3>1, <3>4, <4>1 DEF IInv, TypeOK
    <3> QED BY <3>2, <3>3, <3>4
  <2>2. UNCHANGED <<open, session, queue, holes, control, attempt, held, published, cancel, ceiling>>
    BY DEF CloseAsks
  <2> QED BY <2>1, <2>2 DEF IInv, TypeOK
<1>2. Unstopped'
  <2>1. UNCHANGED <<cancel, ceiling, declared, decided>> BY DEF CloseAsks
  <2>2. \/ fin' = fin
        \/ bySession \in Runs /\ fin' = [fin EXCEPT ![<<bySession, r>>] = "draining"]
    BY DEF CloseAsks, StartFinish, IInv, TypeOK
  <2>3. \A q \in Runs : <<q, OnCancel>> # <<bySession, r>> /\ <<q, OnCancel>> \in Finishes
    BY DEF OnCancel, Runs, Finishes, Callers
  <2>4. \A q \in Runs : fin'[<<q, OnCancel>>] = fin[<<q, OnCancel>>] BY <2>2, <2>3 DEF IInv, TypeOK
  <2> QED BY <2>1, <2>4 DEF IInv, Unstopped
<1>3. Begun'
  <2>1. UNCHANGED <<ctl, cancel>> BY DEF CloseAsks
  <2>2. \/ fin' = fin
        \/ bySession \in Runs /\ fin' = [fin EXCEPT ![<<bySession, r>>] = "draining"]
    BY DEF CloseAsks, StartFinish, IInv, TypeOK
  <2>3. \A g \in Finishes : fin'[g] = fin[g] \/ (bySession \in Runs /\ g[1] = bySession)
    <3> SUFFICES ASSUME NEW g \in Finishes, bySession \in Runs, g[1] # bySession,
                        fin' = [fin EXCEPT ![<<bySession, r>>] = "draining"]
                 PROVE  fin'[g] = fin[g]
      BY <2>2
    <3>1. g # <<bySession, r>> OBVIOUS
    <3> QED BY <3>1 DEF IInv, TypeOK
  <2>4. bySession \in Runs => ctl[bySession] # "none" BY DEF IInv, Openings, Runs, NoRun
  <2> QED BY <2>1, <2>3, <2>4 DEF IInv, Begun
<1>4. Openings' /\ Fenced' /\ Queued' /\ Settled' /\ Told' /\ Whole' BY Frame DEF CloseAsks,
     StartFinish
<1> QED BY <1>1, <1>2, <1>3, <1>4 DEF IInv

\* It is answered.
LEMMA CloseAnswersKeeps ==
  ASSUME IInv, NEW r \in Runs, CloseAnswers(r)
  PROVE  IInv'
<1>1. TypeOK'
  <2>1. \A q \in Runs : DurableTerminal(q) \in Terminal \cup {None}
    BY DEF DurableTerminal, Degraded, Terminal, None, IInv, TypeOK
  <2>2. \A q \in Runs \cup {NoRun} : Tell(q) => told' \subseteq Runs \X Terminal
    BY <2>1 DEF Tell, IInv, TypeOK
  <2>3. told' \subseteq Runs \X Terminal BY <2>2 DEF CloseAnswers, IInv, TypeOK
  <2> QED BY <2>3 DEF CloseAnswers, IInv, TypeOK
<1>2. Told' BY DEF IInv, TypeOK, Openings, Settled, Told, CloseAnswers, Tell, DurableTerminal,
     ToldSuccessIsDurable, StatusOf, Degraded, Runs, NoRun, Settling, None
<1>3. Openings' /\ Begun' /\ Fenced' /\ Queued' /\ Settled' /\ Whole' /\ Unstopped'
  BY Frame DEF CloseAnswers
<1> QED BY <1>1, <1>2, <1>3 DEF IInv

\* A caller cancels.
LEMMA CancelAsksKeeps ==
  ASSUME IInv, NEW r \in Runs, CancelAsks(r)
  PROVE  IInv'
<1>1. TypeOK'
  <2>1. <<r, OnCancel>> \in Finishes BY DEF Finishes, Callers
  <2>2. /\ cancel' \in [Runs -> {"idle", "stopping", "settling", "finishing", "answered"}]
        /\ finishing' \in Finishes \cup {NoFinish} /\ drained' = drained
        /\ fin' \in [Finishes -> {"idle", "draining", "settling", "done"}]
    <3>1. CASE ctl[r] = "ended"
      <4>1. /\ finishing' = <<r, OnCancel>> /\ fin' = [fin EXCEPT ![<<r, OnCancel>>] = "draining"]
            /\ drained' = drained /\ cancel' = [cancel EXCEPT ![r] = "finishing"]
        BY <3>1 DEF CancelAsks, StartFinish
      <4> QED BY <2>1, <4>1 DEF IInv, TypeOK
    <3>2. CASE ctl[r] # "ended"
      <4>1. cancel' = [cancel EXCEPT ![r] = "stopping"] /\ UNCHANGED finish
        BY <3>2 DEF CancelAsks
      <4> QED BY <4>1 DEF IInv, TypeOK
    <3> QED BY <3>1, <3>2
  <2>3. UNCHANGED <<open, session, queue, holes, control, attempt, outlet, ceiling, close, awaits>>
    BY DEF CancelAsks
  <2> QED BY <2>2, <2>3 DEF IInv, TypeOK
<1>2. Unstopped'
  <2>1. r \in Cancelled /\ UNCHANGED <<ceiling, declared, decided>> BY DEF CancelAsks
  <2>2. \A q \in Runs : q # r => <<q, OnCancel>> # <<r, OnCancel>> /\ <<q, OnCancel>> \in Finishes
    BY DEF Finishes, Callers
  <2>3. \A q \in Runs : q # r => cancel'[q] = cancel[q]
    BY DEF CancelAsks, IInv, TypeOK
  <2>4. fin' = fin \/ fin' = [fin EXCEPT ![<<r, OnCancel>>] = "draining"]
    BY DEF CancelAsks, StartFinish
  <2>5. \A q \in Runs : q # r => fin'[<<q, OnCancel>>] = fin[<<q, OnCancel>>]
    BY <2>2, <2>4 DEF IInv, TypeOK
  <2> QED BY <2>1, <2>3, <2>5 DEF IInv, Unstopped
<1>3. Begun' BY DEF IInv, TypeOK, Openings, Begun, CancelAsks, StartFinish, Finishes, Callers,
     OnFrame, OnCancel, Runs, NoRun, Settling, None
<1>4. Openings' /\ Fenced' /\ Queued' /\ Settled' /\ Told' /\ Whole' BY Frame DEF CancelAsks,
     StartFinish
<1> QED BY <1>1, <1>2, <1>3, <1>4 DEF IInv

\* The controller settled the cancelled run.
LEMMA CancelSettledKeeps ==
  ASSUME IInv, NEW r \in Runs, CancelSettled(r)
  PROVE  IInv'
<1>1. TypeOK' BY DEF IInv, TypeOK, CancelSettled, StartFinish, Terminal, Verdict, Declared,
     Degraded, Finishes, Callers, NoFinish, OnFrame, OnCancel, Runs, NoRun, Settling, None
<1>2. Unstopped' BY DEF IInv, TypeOK, Settled, Unstopped, CancelSettled, StartFinish, OnCancel,
     Callers, OnFrame, Finishes, NoFinish, Runs, NoRun, Settling, None
<1>3. Begun' BY DEF IInv, TypeOK, Openings, Begun, CancelSettled, StartFinish, Finishes, Callers,
     OnFrame, OnCancel, Runs, NoRun, Settling, None
<1>4. Openings' /\ Fenced' /\ Queued' /\ Settled' /\ Told' /\ Whole' BY Frame DEF CancelSettled,
     StartFinish
<1> QED BY <1>1, <1>2, <1>3, <1>4 DEF IInv

\* The controller threw.
LEMMA CancelThrowsKeeps ==
  ASSUME IInv, NEW r \in Runs, CancelThrows(r)
  PROVE  IInv'
<1>1. TypeOK' BY DEF IInv, TypeOK, CancelThrows, StartFinish, Terminal, Verdict, Declared,
     Degraded, Finishes, Callers, NoFinish, OnFrame, OnCancel, Runs, NoRun, Settling, None
<1>2. Unstopped' BY DEF IInv, TypeOK, Settled, Unstopped, Unforced, CancelThrows, StartFinish, OnCancel,
     Callers, OnFrame, Finishes, NoFinish, Runs, NoRun, Settling, None
<1>3. Begun' BY DEF IInv, TypeOK, Openings, Begun, CancelThrows, StartFinish, Finishes, Callers,
     OnFrame, OnCancel, Runs, NoRun, Settling, None
<1>4. Openings' /\ Fenced' /\ Queued' /\ Settled' /\ Told' /\ Whole' BY Frame DEF CancelThrows,
     StartFinish
<1> QED BY <1>1, <1>2, <1>3, <1>4 DEF IInv

\* The caller is answered.
LEMMA CancelAnswersKeeps ==
  ASSUME IInv, NEW r \in Runs, CancelAnswers(r)
  PROVE  IInv'
<1>1. TypeOK'
  <2>1. DurableTerminal(r) \in Terminal \cup {None}
    BY DEF DurableTerminal, Degraded, Terminal, None, IInv, TypeOK
  <2>2. told' \subseteq Runs \X Terminal BY <2>1 DEF CancelAnswers, Tell, IInv, TypeOK
  <2> QED BY <2>2 DEF CancelAnswers, IInv, TypeOK
<1>2. Told' BY DEF IInv, TypeOK, Openings, Settled, Told, CancelAnswers, Tell, DurableTerminal,
     ToldSuccessIsDurable, StatusOf, Degraded, Runs, NoRun, Settling, None
<1>3. Unstopped' BY DEF IInv, TypeOK, Settled, Unstopped, CancelAnswers, Tell, DurableTerminal,
     OnCancel, Callers, OnFrame, Finishes, NoFinish, Runs, NoRun, Settling, None
<1>4. Begun' BY DEF IInv, TypeOK, Openings, Begun, CancelAnswers, Tell, DurableTerminal,
     Finishes, Callers, OnFrame, OnCancel, Runs, NoRun, Settling, None
<1>5. Openings' /\ Fenced' /\ Queued' /\ Settled' /\ Whole' BY Frame DEF CancelAnswers
<1> QED BY <1>1, <1>2, <1>3, <1>4, <1>5 DEF IInv

\* A ceiling or the wallclock stops the run.
LEMMA CeilingReachedKeeps ==
  ASSUME IInv, NEW r \in Runs, CeilingReached(r)
  PROVE  IInv'
<1>1. TypeOK' BY DEF IInv, TypeOK, CeilingReached, Terminal, Verdict, Declared, Degraded,
     Finishes, Callers, NoFinish, OnFrame, OnCancel, Runs, NoRun, Settling, None
<1>2. Unstopped' BY DEF IInv, TypeOK, Settled, Unstopped, CeilingReached, OnCancel, Callers,
     OnFrame, Finishes, NoFinish, Runs, NoRun, Settling, None
<1>3. Openings' /\ Begun' /\ Fenced' /\ Queued' /\ Settled' /\ Told' /\ Whole'
  BY Frame DEF CeilingReached
<1> QED BY <1>1, <1>2, <1>3 DEF IInv

-----------------------------------------------------------------------------
(* Whoever settles first decides. *)

\* The dispatch failed: the run is settled.
LEMMA DispatchFailsKeeps ==
  ASSUME IInv, NEW r \in Runs, DispatchFails(r)
  PROVE  IInv'
<1> DEFINE said == IF declared[r] = None THEN "failed" ELSE declared[r]
<1>1. /\ open[r] = "dispatching" /\ open' = [open EXCEPT ![r] = "failing"]
      /\ EnterSettle(r, {}, FALSE, said)
      /\ UNCHANGED <<session, queue, holes, attempt, outlet, finish, calls>>
  BY DEF DispatchFails
<1>2. said \in Declared \cup {None} /\ {} \in Intent
  BY DEF IInv, TypeOK, Declared, Intent
<1>3. Enters(r, {}, FALSE, said) BY <1>1, <1>2, SettleEnters
<1> HIDE DEF said
<1>4. Effect(r, {}, FALSE, said) BY <1>1, <1>3, SettleHasEffect
<1>4a. Phases(r) BY <1>1, <1>3, SettlePhases
<1>5. TypeOK' BY <1>1, <1>4 DEF IInv, TypeOK, Effect
<1>6. Openings' BY <1>1, <1>4a DEF IInv, TypeOK, Openings, Opening, Phases
<1>7. Fenced' BY <1>1, <1>4 DEF IInv, Fenced, Settling, Effect
<1>8. Queued'
  <2>1. ~Working(r) /\ \A q \in Runs : Working(q)' <=> Working(q) BY <1>1 DEF Working, IInv, TypeOK
  <2>2. \A i \in 1 .. Len(pending) : pending[i] \in Runs \cup {NoRun} BY DEF IInv, TypeOK
  <2> QED BY <1>1, <2>1, <2>2 DEF IInv, Queued, QueuedUnderBinding
<1>9. Settled' BY <1>1, <1>3, SettleKeepsSettled
<1>10. Told' BY <1>1, <1>3, EntersTold
<1>11. Whole'
  <2>1. \A i \in 1 .. Len(pending) : pending[i] # r
    BY <1>1 DEF IInv, Queued, Working, Runs, NoRun
  <2>2. open'[r] = "failing" /\ \A q \in Runs : q # r => open'[q] = open[q]
    BY <1>1 DEF IInv, TypeOK
  <2> QED BY <1>1, <1>4a, <2>1, <2>2 DEF IInv, Whole, Phases
<1>13. Begun' BY <1>1, <1>4a DEF IInv, TypeOK, Begun, Finishes, Callers, Phases
<1>12. Unstopped'
  <2>1. r \notin Cancelled \cup Stopped => ~CancelAsked(r) BY DEF IInv, Unstopped, CancelAsked
  <2>2. r \notin Cancelled \cup Stopped => said \in Unforced BY DEF said, IInv, Unstopped, Unforced
  <2> QED BY <1>1, <1>4, <2>1, <2>2 DEF IInv, Unstopped, Plain, Effect
<1> QED BY <1>5, <1>6, <1>7, <1>8, <1>9, <1>10, <1>11, <1>12, <1>13 DEF IInv

\* A frame breaks a rule: the run is settled.
LEMMA ViolatingFrameKeeps ==
  ASSUME IInv, NEW r \in Runs, ViolatingFrame(r)
  PROVE  IInv'
<1> DEFINE q == bySession
<1>1. /\ q \in Runs /\ ctl[q] = "live" /\ declared[q] = None
      /\ EnterSettle(q, {}, FALSE, "failed")
      /\ held' = [held EXCEPT ![q] = "failed"]
      /\ finishing' = <<q, OnFrame>> /\ fin' = [fin EXCEPT ![<<q, OnFrame>>] = "draining"]
      /\ UNCHANGED <<open, session, queue, holes, attempt, published, told, drained, calls>>
  BY DEF ViolatingFrame, StartFinish, IInv, TypeOK
<1>2. "failed" \in Declared /\ {} \in Intent BY DEF Declared, Intent
<1>3. Enters(q, {}, FALSE, "failed") BY <1>1, <1>2, SettleEnters
<1> HIDE DEF q
<1>4. Effect(q, {}, FALSE, "failed") BY <1>1, <1>3, SettleHasEffect
<1>4a. Phases(q) BY <1>1, <1>3, SettlePhases
<1>5. TypeOK'
  <2>1. <<q, OnFrame>> \in Finishes BY <1>1 DEF Finishes, Callers
  <2>2. held' \in [Runs -> Declared \cup {None}] BY <1>1, <1>2 DEF IInv, TypeOK
  <2>3. fin' \in [Finishes -> {"idle", "draining", "settling", "done"}]
    BY <1>1, <2>1 DEF IInv, TypeOK
  <2> QED BY <1>1, <1>4, <2>1, <2>2, <2>3 DEF IInv, TypeOK, Effect
<1>6. Openings' BY <1>1, <1>4a DEF IInv, TypeOK, Openings, Opening, Phases
<1>7. Fenced' BY <1>1, <1>4 DEF IInv, Fenced, Settling, Effect
<1>8. Queued' BY <1>1, Frame
<1>9. Settled' BY <1>1, <1>3, SettleKeepsSettled
<1>10. Told' BY <1>1, <1>3, EntersTold
<1>11. Whole'
  <2>1. \A p \in Runs : decided'[p] \in Clean(p) => decided'[p] = decided[p] /\ ctl'[p] = ctl[p]
    BY <1>1, <1>3, SettleRefuses
  <2> QED BY <1>1, <1>4a, <2>1 DEF IInv, Whole, Phases
<1>13. Begun' BY <1>1, <1>4a DEF IInv, TypeOK, Openings, Begun, Finishes, Callers, Phases
<1>12. Unstopped'
  <2>1. q \notin Cancelled \cup Stopped => ~CancelAsked(q)
    BY <1>1 DEF IInv, Unstopped, CancelAsked
  <2>2. \A p \in Runs : <<p, OnCancel>> # <<q, OnFrame>> /\ <<p, OnCancel>> \in Finishes
    BY DEF Finishes, Callers, OnCancel, OnFrame
  <2>3. \A p \in Runs : fin'[<<p, OnCancel>>] = fin[<<p, OnCancel>>]
    BY <1>1, <2>2 DEF IInv, TypeOK
  <2> QED BY <1>1, <1>4, <2>1, <2>3 DEF IInv, Unstopped, Unforced, Plain, Effect
<1> QED BY <1>5, <1>6, <1>7, <1>8, <1>9, <1>10, <1>11, <1>12, <1>13 DEF IInv

\* A stop was answered.
LEMMA CancelStopsKeeps ==
  ASSUME IInv, NEW r \in Runs, CancelStops(r)
  PROVE  IInv'
<1>1. /\ cancel[r] = "stopping" /\ cancel' = [cancel EXCEPT ![r] = "settling"]
      /\ UNCHANGED <<open, session, queue, holes, attempt, outlet, finish, ceiling, close, awaits>>
  BY DEF CancelStops
<1>2. PICK intent \in {{"cancel"}, {"cancel", "escalated"}} : EnterSettle(r, intent, FALSE,
     declared[r]) BY DEF CancelStops
<1>2a. intent \in Intent /\ "cancel" \in intent /\ FALSE \in BOOLEAN
      /\ declared[r] \in Declared \cup {None}
  BY DEF Intent, IInv, TypeOK
<1>2b. r \in Cancelled BY <1>1 DEF IInv, Unstopped
<1>3. Enters(r, intent, FALSE, declared[r]) BY <1>2, <1>2a, SettleEnters
<1>4. Effect(r, intent, FALSE, declared[r]) BY <1>1, <1>3, SettleHasEffect
<1>4a. Phases(r) BY <1>1, <1>3, SettlePhases
<1>5. TypeOK' BY <1>1, <1>4 DEF IInv, TypeOK, Effect
<1>6. Openings' BY <1>1, <1>4a DEF IInv, TypeOK, Openings, Opening, Phases
<1>7. Fenced' BY <1>1, <1>4 DEF IInv, Fenced, Settling, Effect
<1>8. Queued' BY <1>1, Frame
<1>9. Settled' BY <1>1, <1>3, SettleKeepsSettled
<1>10. Told' BY <1>1, <1>3, EntersTold
<1>11. Whole'
  <2>1. \A p \in Runs : decided'[p] \in Clean(p) => decided'[p] = decided[p] /\ ctl'[p] = ctl[p]
    BY <1>1, <1>2a, <1>2b, <1>3, SettleRefuses
  <2> QED BY <1>1, <1>4a, <2>1 DEF IInv, Whole, Phases
<1>13. Begun' BY <1>1, <1>4a DEF IInv, TypeOK, Begun, Finishes, Callers, Phases
<1>12. Unstopped'
  <2>1. \A p \in Runs : p # r => cancel'[p] = cancel[p] BY <1>1 DEF IInv, TypeOK
  <2> QED BY <1>1, <1>2b, <1>4, <2>1 DEF IInv, Unstopped, Plain, Effect
<1> QED BY <1>5, <1>6, <1>7, <1>8, <1>9, <1>10, <1>11, <1>12, <1>13 DEF IInv

\* A stop of the controller was answered.
LEMMA CeilingStopsKeeps ==
  ASSUME IInv, NEW r \in Runs, CeilingStops(r)
  PROVE  IInv'
<1>1. /\ ceiling[r] = "stopping" /\ ceiling' = [ceiling EXCEPT ![r] = "done"]
      /\ UNCHANGED <<open, session, queue, holes, attempt, outlet, finish, cancel, close, awaits>>
  BY DEF CeilingStops
<1>2. PICK exhausted \in BOOLEAN : EnterSettle(r, {"cancel"}, exhausted,
     declared[r]) BY DEF CeilingStops
<1>2a. {"cancel"} \in Intent /\ "cancel" \in {"cancel"} /\ exhausted \in BOOLEAN
      /\ declared[r] \in Declared \cup {None}
  BY DEF Intent, IInv, TypeOK
<1>2b. r \in Stopped BY <1>1 DEF IInv, Unstopped
<1>3. Enters(r, {"cancel"}, exhausted, declared[r]) BY <1>2, <1>2a, SettleEnters
<1>4. Effect(r, {"cancel"}, exhausted, declared[r]) BY <1>1, <1>3, SettleHasEffect
<1>4a. Phases(r) BY <1>1, <1>3, SettlePhases
<1>5. TypeOK' BY <1>1, <1>4 DEF IInv, TypeOK, Effect
<1>6. Openings' BY <1>1, <1>4a DEF IInv, TypeOK, Openings, Opening, Phases
<1>7. Fenced' BY <1>1, <1>4 DEF IInv, Fenced, Settling, Effect
<1>8. Queued' BY <1>1, Frame
<1>9. Settled' BY <1>1, <1>3, SettleKeepsSettled
<1>10. Told' BY <1>1, <1>3, EntersTold
<1>11. Whole'
  <2>1. \A p \in Runs : decided'[p] \in Clean(p) => decided'[p] = decided[p] /\ ctl'[p] = ctl[p]
    BY <1>1, <1>2a, <1>2b, <1>3, SettleRefuses
  <2> QED BY <1>1, <1>4a, <2>1 DEF IInv, Whole, Phases
<1>13. Begun' BY <1>1, <1>4a DEF IInv, TypeOK, Begun, Finishes, Callers, Phases
<1>12. Unstopped'
  <2>1. \A p \in Runs : p # r => ceiling'[p] = ceiling[p] BY <1>1 DEF IInv, TypeOK
  <2> QED BY <1>1, <1>2b, <1>4, <2>1 DEF IInv, Unstopped, Plain, Effect
<1> QED BY <1>5, <1>6, <1>7, <1>8, <1>9, <1>10, <1>11, <1>12, <1>13 DEF IInv

\* The drain of #finish ended.
LEMMA DrainEndsKeeps ==
  ASSUME IInv, NEW f \in Finishes, DrainEnds(f)
  PROVE  IInv'
<1> DEFINE q == f[1]
<1>1. /\ q \in Runs /\ f[2] \in Callers /\ f = <<q, f[2]>> BY DEF Finishes
<1>2. /\ fin[f] = "draining" /\ pending = <<>> /\ fin' = [fin EXCEPT ![f] = "settling"]
      /\ drained' = [drained EXCEPT ![f] = IF entry THEN sent ELSE 0]
      /\ bySession' = (IF bySession = q THEN NoRun ELSE bySession)
      /\ ended' = (IF bySession = q THEN q ELSE ended)
      /\ attempt' = [attempt EXCEPT ![q] = IF @ = "held" THEN "retired" ELSE @]
      /\ EnterSettle(q, IntentOf(f), FALSE, declared[q])
      /\ UNCHANGED <<open, queue, holes, outlet, finishing, calls>>
  BY DEF DrainEnds
<1>2a. IntentOf(f) \in Intent /\ declared[q] \in Declared \cup {None}
  BY <1>1 DEF IntentOf, Intent, IInv, TypeOK
<1>3. Enters(q, IntentOf(f), FALSE, declared[q]) BY <1>1, <1>2, <1>2a, SettleEnters
<1> HIDE DEF q
<1>4. Effect(q, IntentOf(f), FALSE, declared[q]) BY <1>1, <1>3, SettleHasEffect
<1>4a. Phases(q) BY <1>1, <1>3, SettlePhases
<1>2b. bySession' \in {bySession, NoRun} /\ (bySession = q => bySession' = NoRun) /\ bySession' # q
  BY <1>1, <1>2 DEF Runs, NoRun
<1>2c. \A p \in Runs :
         \/ attempt'[p] = attempt[p]
         \/ attempt[p] = "held" /\ attempt'[p] = "retired" /\ p = q
  <2>1. attempt \in [Runs -> {"none", "held", "retired"}] BY DEF IInv, TypeOK
  <2>2. attempt' = [attempt EXCEPT ![q] = IF attempt[q] = "held" THEN "retired" ELSE attempt[q]]
    BY <1>2
  <2> QED BY <1>1, <2>1, <2>2
<1>5. TypeOK'
  <2>1. (IF entry THEN sent ELSE 0) \in 0 .. MaxEvents BY DEF IInv, TypeOK
  <2>2. drained' \in [Finishes -> 0 .. MaxEvents] BY <1>2, <2>1 DEF IInv, TypeOK
  <2>3. fin' \in [Finishes -> {"idle", "draining", "settling", "done"}] BY <1>2 DEF IInv, TypeOK
  <2>4. attempt' \in [Runs -> {"none", "held", "retired"}] BY <1>1, <1>2 DEF IInv, TypeOK
  <2>5. ended' \in Runs \cup {NoRun} BY <1>1, <1>2 DEF IInv, TypeOK
  <2>6. bySession' \in Runs \cup {NoRun} BY <1>2b DEF IInv, TypeOK
  <2> QED BY <1>2, <1>4, <2>2, <2>3, <2>4, <2>5, <2>6 DEF IInv, TypeOK, Effect
<1>6. Openings'
  <2>1. bySession' # NoRun => ctl'[bySession'] # "none"
    BY <1>4, <1>2b, ZenonT(40) DEF IInv, TypeOK, Openings, Effect
  <2>2. \A p \in Runs : open[p] = "creating" => bySession' = NoRun /\ attempt'[p] = "held"
    <3> SUFFICES ASSUME NEW p \in Runs, open[p] = "creating"
                 PROVE  bySession' = NoRun /\ attempt'[p] = "held"
      OBVIOUS
    <3>1. bySession = NoRun /\ attempt[p] = "held" /\ ctl[p] = "none" BY DEF IInv, Openings
    <3>2. ctl[f[1]] # "none" BY <1>2 DEF IInv, Begun
    <3>3. p # q BY <3>1, <3>2 DEF q
    <3> QED BY <3>1, <3>3, <1>2b, <1>2c
  <2> QED BY <1>2, <1>4, <2>1, <2>2 DEF IInv, Openings, Opening, Effect
<1>7. Fenced' BY <1>4, <1>2c DEF IInv, Fenced, Settling, Effect
<1>8. Queued'
  <2>1. ~writing BY <1>2 DEF IInv, Queued
  <2> QED BY <1>2, <2>1 DEF Queued, QueuedUnderBinding
<1>9. Settled' BY <1>1, <1>3, SettleKeepsSettled
<1>10. Told' BY <1>1, <1>2, <1>3, EntersTold
<1>11. Whole'
  <2>1. \A p \in Runs : bySession' = p => bySession = p BY <1>2b DEF Runs, NoRun
  <2> QED BY <1>2, <1>4a, <1>2b, <2>1 DEF IInv, Whole, Phases
<1>13. Begun'
  <2>1. \A p \in Runs : ctl[p] # "none" => ctl'[p] # "none" BY <1>4 DEF Effect
  <2>2. \A g \in Finishes : g[1] \in Runs BY DEF Finishes
  <2>3. \A g \in Finishes : fin'[g] # "idle" => fin[g] # "idle" BY <1>2 DEF IInv, TypeOK
  <2> QED BY <1>2, <2>1, <2>2, <2>3 DEF IInv, Begun
<1>12. Unstopped'
  <2>1. q \notin Cancelled \cup Stopped => ~CancelAsked(q) /\ f[2] # OnCancel
    BY <1>1, <1>2 DEF IInv, Unstopped, CancelAsked
  <2>2. q \notin Cancelled \cup Stopped =>
          "escalated" \notin IntentOf(f) /\ declared[q] \in Unforced
    BY <2>1, <1>1 DEF IInv, Unstopped, IntentOf
  <2>3. \A p \in Runs : fin'[<<p, OnCancel>>] = "idle" \/ fin[<<p, OnCancel>>] # "idle"
    BY <1>2 DEF IInv, TypeOK, Finishes, Callers
  <2> QED BY <1>2, <1>4, <2>1, <2>2, <2>3 DEF IInv, Unstopped, Plain, Effect
<1> QED BY <1>5, <1>6, <1>7, <1>8, <1>9, <1>10, <1>11, <1>12, <1>13 DEF IInv

-----------------------------------------------------------------------------
(* A run leaves. *)

\* The last step of #finish.
LEMMA FinishEndsKeeps ==
  ASSUME IInv, NEW f \in Finishes, FinishEnds(f)
  PROVE  IInv'
<1>1. TypeOK' BY DEF IInv, TypeOK, FinishEnds, Releases, DurableTerminal, Terminal, Verdict,
     Declared, Degraded, Finishes, Callers, NoFinish, OnFrame, OnCancel, Runs, NoRun, Settling, None
<1>2. Openings' BY DEF IInv, TypeOK, Openings, FinishEnds, Releases, DurableTerminal, Opening,
     Runs, NoRun, Settling, None
<1>3. Begun' BY DEF IInv, TypeOK, Openings, Begun, FinishEnds, Releases, DurableTerminal,
     Finishes, Callers, OnFrame, OnCancel, Runs, NoRun, Settling, None
<1>4. Fenced' BY DEF IInv, TypeOK, Openings, Fenced, FinishEnds, Releases, DurableTerminal, Runs,
     NoRun, Settling, None
<1>5. Told' BY DEF IInv, TypeOK, Openings, Settled, Told, FinishEnds, Releases, DurableTerminal,
     ToldSuccessIsDurable, StatusOf, Degraded, Runs, NoRun, Settling, None
<1>6. Whole'
  <2>1. f[1] \in Runs BY DEF Finishes
  <2>2. ctl[f[1]] = "ended" /\ UNCHANGED <<open, session, pending, hole, control>> BY DEF FinishEnds
  <2>3. \A q \in Runs : q # f[1] => lost'[q] = lost[q] BY <2>1 DEF FinishEnds, IInv, TypeOK
  <2> QED BY <2>1, <2>2, <2>3 DEF IInv, Whole
<1>7. Unstopped' BY DEF IInv, TypeOK, Settled, Unstopped, FinishEnds, Releases, DurableTerminal,
     OnCancel, Callers, OnFrame, Finishes, NoFinish, Runs, NoRun, Settling, None
<1>8. Queued' /\ Settled' BY Frame DEF FinishEnds
<1> QED BY <1>1, <1>2, <1>3, <1>4, <1>5, <1>6, <1>7, <1>8 DEF IInv

-----------------------------------------------------------------------------
(* The invariant is inductive. *)

\* Nothing was opened.
LEMMA Initially ==
  ASSUME Init
  PROVE  IInv
<1>1. TypeOK
  <2>1. sent \in 0 .. MaxEvents /\ drained \in [Finishes -> 0 .. MaxEvents] BY DEF Init
  <2>2. pending \in Seq(Runs \cup {NoRun}) /\ told \subseteq Runs \X Terminal BY DEF Init
  <2> QED BY <2>1, <2>2 DEF Init, TypeOK
<1>2. Openings /\ Begun /\ Fenced
  BY DEF Init, Openings, Opening, Begun, Fenced, Settling, Finishes, None
<1>3. Queued /\ Settled BY DEF Init, Queued, QueuedUnderBinding, Settled, StatusOf, None
<1>4. Told /\ Whole BY DEF Init, Told, ToldSuccessIsDurable, Whole, Clean, None
<1>5. \A r \in Runs : <<r, OnCancel>> \in Finishes BY DEF Finishes, Callers
<1>6. Unstopped BY <1>5 DEF Init, Unstopped, Unforced
<1> QED BY <1>1, <1>2, <1>3, <1>4, <1>6 DEF IInv

\* Every step keeps it.
LEMMA Steps ==
  ASSUME IInv, [Next]_vars
  PROVE  IInv'
<1>1. CASE UNCHANGED vars
  <2>1. TypeOK' BY <1>1 DEF vars, IInv, TypeOK
  <2> QED BY <1>1, <2>1, Frame DEF vars, IInv
<1>2. ASSUME NEW r \in Runs, OpenRun(r) \/ Resumes(r) \/ Frames(r)
                             \/ CloseAsks(r, "closed") \/ CloseAsks(r, "disconnected")
                             \/ CancelAsks(r) \/ CeilingReached(r)
      PROVE  IInv'
  <2>1. CASE Resumes(r)
    BY <2>1, OpenRefusedKeeps, DispatchReadyKeeps, DispatchKeeps, DispatchFailsKeeps,
       OpenFailsKeeps, OpenAcceptedKeeps, FlushAnswersKeeps, CompleteAnswersKeeps,
       CancelStopsKeeps, CancelSettledKeeps, CancelThrowsKeeps, CancelAnswersKeeps,
       CloseAnswersKeeps, CeilingStopsKeeps DEF Resumes
  <2>2. CASE Frames(r)
    BY <2>2, NativeEventKeeps, ViolatingFrameKeeps, TerminalFrameKeeps DEF Frames
  <2>3. CASE OpenRun(r) \/ CancelAsks(r) \/ CeilingReached(r)
    BY <2>3, OpenRunKeeps, CancelAsksKeeps, CeilingReachedKeeps
  <2>4. CASE CloseAsks(r, "closed") \/ CloseAsks(r, "disconnected")
    BY <2>4, CloseAsksKeeps
  <2> QED BY <1>2, <2>1, <2>2, <2>3, <2>4
<1>3. CASE Appending
  BY <1>3, AppendRefusedKeeps, AppendStartsKeeps, AppendAnswersKeeps DEF Appending
<1>4. ASSUME NEW f \in Finishes, DrainEnds(f) \/ FinishEnds(f)
      PROVE  IInv'
  BY <1>4, DrainEndsKeeps, FinishEndsKeeps
<1> QED BY <1>1, <1>2, <1>3, <1>4 DEF Next

\* However cancels, stops, closes and frames overlap, the invariant holds.
THEOREM InductiveInvariant == Spec => []IInv
<1>1. Init => IInv BY Initially
<1>2. IInv /\ [Next]_vars => IInv' BY Steps
<1> QED BY <1>1, <1>2, PTL DEF Spec

\* Every variable keeps to its type.
THEOREM TypeCorrect == Spec => []TypeOK
<1>1. IInv => TypeOK BY DEF IInv
<1> QED BY <1>1, InductiveInvariant, PTL

\* No ending but a failure is told that the row does not hold.
THEOREM ToldIsTheRow == Spec => []ToldSuccessIsDurable
<1>1. IInv => ToldSuccessIsDurable BY DEF IInv, Told
<1> QED BY <1>1, InductiveInvariant, PTL

\* A row that says completed has a log without holes.
THEOREM CompletedIsWhole == Spec => []NoSuccessOverAHole
<1>1. IInv => NoSuccessOverAHole BY DEF IInv, Whole, Clean, NoSuccessOverAHole
<1> QED BY <1>1, InductiveInvariant, PTL

\* A run that nobody stops never hides a hole behind another ending either.
THEOREM UnstoppedAdmitsItsHoles == Spec => []HoleIsAdmitted
<1>1. IInv => HoleIsAdmitted
  <2> SUFFICES ASSUME IInv, HasWriter, NEW r \in Runs \ (Cancelled \cup Stopped),
                      row[r] # None, hole[r]
               PROVE  StatusOf(row[r]) = "failed"
    BY DEF HoleIsAdmitted
  <2>1. row[r] \notin {"completed", "cancelled"} BY DEF IInv, Whole, Clean
  <2>2. decided[r] \in Unforced BY DEF IInv, Unstopped
  <2>3. row[r] \in {"failed", Degraded} BY <2>1, <2>2 DEF IInv, Settled, Unforced
  <2> QED BY <2>3 DEF StatusOf
<1> QED BY <1>1, InductiveInvariant, PTL

\* What is queued is written under the binding it was taken in for.
THEOREM NoEventOutlivesItsBinding == Spec => []QueuedUnderBinding
<1>1. IInv => QueuedUnderBinding BY DEF IInv, Queued
<1> QED BY <1>1, InductiveInvariant, PTL

\* A terminal that may land carries its attempt.
THEOREM TerminalCarriesItsAttempt == Spec => []TerminalIsFenced
<1>1. IInv => TerminalIsFenced BY DEF IInv, Fenced, TerminalIsFenced
<1> QED BY <1>1, InductiveInvariant, PTL
-----------------------------------------------------------------------------
(* A declared run is never stuck. *)

\* A run that is declared and not let go yet has a call on its way that settles it
\* and releases it.
Leaving(r) ==
  /\ ctl[r] = "none" => declared[r] = None
  /\ cancel[r] = "settling" \/ open[r] = "failing" => ctl[r] # "live"
  /\ r \notin Stopped /\ declared[r] # None /\ (ctl[r] = "live" \/ bySession = r) =>
       \/ \E f \in Finishes : f[1] = r /\ fin[f] = "draining"
       \/ open[r] = "failing"
       \/ cancel[r] \in {"stopping", "settling"}

\* A step that has no part in a run's leaving.
Apart(r) ==
  /\ ctl[r] # "none" => ctl'[r] # "none"
  /\ ctl'[r] = "live" => ctl[r] = "live"
  /\ declared'[r] # None => declared[r] # None
  /\ bySession' = r => bySession = r
  /\ cancel'[r] = cancel[r]
  /\ open'[r] = "failing" <=> open[r] = "failing"
  /\ \A f \in Finishes : f[1] = r /\ fin[f] = "draining" => fin'[f] = "draining"

\* It keeps the run on its way.
LEMMA ApartKeeps ==
  ASSUME NEW r \in Runs, Leaving(r), Apart(r)
  PROVE  Leaving(r)'
BY DEF Leaving, Apart

\* A settle of a run that is declared changes nothing of its leaving.
LEMMA SettleIsApart ==
  ASSUME IInv, NEW r \in Runs, NEW intent, NEW exhausted, NEW said,
         Enters(r, intent, exhausted, said)
  PROVE  /\ \A p \in Runs \ {r} : declared'[p] = declared[p]
         /\ \A p \in Runs : ctl[p] # "none" => ctl'[p] # "none"
         /\ \A p \in Runs : ctl'[p] = "live" => ctl[p] = "live"
         /\ \A p \in Runs : ctl[p] # "live" => declared'[p] = declared[p]
         /\ ctl'[r] # "live"
<1>1. Effect(r, intent, exhausted, said) BY SettleHasEffect
<1>2. ctl'[r] # "live" BY DEF Enters, IInv, TypeOK
<1> QED BY <1>1, <1>2 DEF Effect

\* Every step keeps every run on its way: a frame's or a cancel's #finish, a cancel
\* that waits for the controller, or an opening that throws.
LEMMA LeavingStays ==
  ASSUME IInv, \A r \in Runs : Leaving(r), [Next]_vars, NEW p \in Runs
  PROVE  Leaving(p)'
<1>0. /\ Leaving(p)
      /\ \A f \in Finishes : f[1] \in Runs
      /\ \A r \in Runs : <<r, OnFrame>> \in Finishes /\ <<r, OnCancel>> \in Finishes
  BY DEF Finishes, Callers
<1> DEFINE settled(r) ==
  /\ \A q \in Runs \ {r} : declared'[q] = declared[q]
  /\ \A q \in Runs : ctl[q] # "none" => ctl'[q] # "none"
  /\ \A q \in Runs : ctl'[q] = "live" => ctl[q] = "live"
  /\ \A q \in Runs : ctl[q] # "live" => declared'[q] = declared[q]
  /\ ctl'[r] # "live"
<1>1. CASE UNCHANGED vars
  BY <1>0, <1>1 DEF vars, Leaving
<1>2. ASSUME NEW r \in Runs, OpenRun(r) \/ OpenRefused(r) \/ Dispatch(r) \/ OpenAccepted(r)
      PROVE  Leaving(p)'
  <2>1. /\ UNCHANGED <<ctl, declared, bySession, cancel, fin>>
        /\ open'[p] = "failing" <=> open[p] = "failing"
    BY <1>2 DEF OpenRun, OpenRefused, Dispatch, OpenAccepted, IInv, TypeOK
  <2> QED BY <1>0, <2>1, ApartKeeps DEF Apart
<1>3. ASSUME NEW r \in Runs, DispatchReady(r) PROVE Leaving(p)'
  <2>1. /\ ctl[r] = "none" /\ bySession' = r /\ open' = [open EXCEPT ![r] = "dispatching"]
        /\ ctl' = [ctl EXCEPT ![r] = "live"] /\ UNCHANGED <<declared, cancel, fin>>
    BY <1>3 DEF DispatchReady, IInv, Openings
  <2>2. CASE p = r
    BY <1>0, <2>1, <2>2 DEF Leaving, IInv, TypeOK, Begun
  <2>3. CASE p # r
    BY <1>0, <2>1, <2>3, ApartKeeps DEF Apart, IInv, TypeOK
  <2> QED BY <2>2, <2>3
<1>4. ASSUME NEW r \in Runs, DispatchFails(r) PROVE Leaving(p)'
  <2> DEFINE said == IF declared[r] = None THEN "failed" ELSE declared[r]
  <2>1. said \in Declared \cup {None} /\ {} \in Intent /\ FALSE \in BOOLEAN
    BY DEF IInv, TypeOK, Declared, Intent
  <2>2. /\ EnterSettle(r, {}, FALSE, said) /\ open' = [open EXCEPT ![r] = "failing"]
        /\ UNCHANGED <<bySession, cancel, fin>>
    BY <1>4 DEF DispatchFails
  <2> HIDE DEF said
  <2>3. settled(r) BY <2>1, <2>2, SettleEnters, SettleIsApart
  <2>4. ctl[r] # "none" BY <1>4 DEF DispatchFails, IInv, Openings
  <2>5. CASE p = r BY <2>2, <2>3, <2>4, <2>5 DEF Leaving, IInv, TypeOK
  <2>6. CASE p # r
    <3>1. UNCHANGED <<bySession, cancel, fin>> /\ open'[p] = open[p]
      BY <2>2, <2>6 DEF IInv, TypeOK
    <3>2. /\ declared'[p] = declared[p] /\ (ctl[p] # "none" => ctl'[p] # "none")
          /\ (ctl'[p] = "live" => ctl[p] = "live")
      BY <2>3, <2>6
    <3> QED BY <1>0, <3>1, <3>2, ApartKeeps DEF Apart
  <2> QED BY <2>5, <2>6
<1>5. ASSUME NEW r \in Runs, OpenFails(r) PROVE Leaving(p)'
  <2>1. /\ ctl[r] = "ended" /\ open' = [open EXCEPT ![r] = "refused"]
        /\ bySession' = (IF bySession = r THEN NoRun ELSE bySession)
        /\ UNCHANGED <<ctl, declared, cancel, fin>>
    BY <1>5 DEF OpenFails
  <2>2. \A q \in Runs : q # NoRun BY DEF Runs, NoRun
  <2>3. CASE p = r BY <1>0, <2>1, <2>2, <2>3 DEF Leaving, IInv, TypeOK
  <2>4. CASE p # r BY <1>0, <2>1, <2>2, <2>4, ApartKeeps DEF Apart, IInv, TypeOK
  <2> QED BY <2>3, <2>4
<1>6. ASSUME NEW r \in Runs, FlushAnswers(r) \/ CompleteAnswers(r) PROVE Leaving(p)'
  <2>1. /\ ctl[r] \in Settling /\ UNCHANGED <<declared, open, bySession, cancel, fin>>
        /\ \E c \in {"completing", "degrading", "ended"} : ctl' = [ctl EXCEPT ![r] = c]
    BY <1>6 DEF FlushAnswers, CompleteAnswers, Settling
  <2> QED BY <1>0, <2>1, ApartKeeps DEF Apart, IInv, TypeOK, Settling
<1>7. ASSUME NEW r \in Runs, NativeEvent(r) \/ CloseAnswers(r) PROVE Leaving(p)'
  <2>1. UNCHANGED <<ctl, declared, open, bySession, cancel, fin>>
    BY <1>7 DEF NativeEvent, CloseAnswers
  <2> QED BY <1>0, <2>1 DEF Leaving
<1>8. ASSUME NEW r \in Runs, NEW how \in {"closed", "disconnected"}, CloseAsks(r, how) PROVE Leaving(p)'
  <2>1. /\ UNCHANGED <<ctl, declared, open, bySession, cancel>>
        /\ fin' = fin \/ \E f : fin' = [fin EXCEPT ![f] = "draining"]
    BY <1>8 DEF CloseAsks, StartFinish
  <2> QED BY <1>0, <2>1, ApartKeeps DEF Apart, IInv, TypeOK
<1>9. ASSUME NEW r \in Runs, CancelAsks(r) PROVE Leaving(p)'
  <2>1. /\ UNCHANGED <<ctl, declared, open, bySession>>
        /\ cancel[r] = "idle"
        /\ \E c \in {"finishing", "stopping"} : cancel' = [cancel EXCEPT ![r] = c]
        /\ fin' = fin \/ fin' = [fin EXCEPT ![<<r, OnCancel>>] = "draining"]
    BY <1>9 DEF CancelAsks, StartFinish
  <2>2. \A f \in Finishes : fin[f] = "draining" => fin'[f] = "draining"
    BY <2>1 DEF IInv, TypeOK
  <2> QED BY <1>0, <2>1, <2>2 DEF Leaving, IInv, TypeOK
<1>10. ASSUME NEW r \in Runs, CancelStops(r) PROVE Leaving(p)'
  <2>1. PICK intent \in {{"cancel"}, {"cancel", "escalated"}} :
          EnterSettle(r, intent, FALSE, declared[r])
    BY <1>10 DEF CancelStops
  <2>2. intent \in Intent /\ declared[r] \in Declared \cup {None} /\ FALSE \in BOOLEAN
    BY DEF Intent, IInv, TypeOK
  <2>3. settled(r) BY <2>1, <2>2, SettleEnters, SettleIsApart
  <2>4. /\ cancel[r] = "stopping" /\ cancel' = [cancel EXCEPT ![r] = "settling"]
        /\ UNCHANGED <<open, bySession, fin>>
    BY <1>10 DEF CancelStops
  <2>5. ctl[r] # "none" BY <2>4 DEF IInv, Begun
  <2>6. CASE p = r BY <2>3, <2>4, <2>5, <2>6 DEF Leaving, IInv, TypeOK
  <2>7. CASE p # r
    <3>1. cancel'[p] = cancel[p] BY <2>4, <2>7 DEF IInv, TypeOK
    <3> QED BY <1>0, <2>3, <2>4, <2>7, <3>1, ApartKeeps DEF Apart
  <2> QED BY <2>6, <2>7
<1>11. ASSUME NEW r \in Runs, CancelSettled(r) \/ CancelThrows(r) PROVE Leaving(p)'
  <2>1. /\ cancel' = [cancel EXCEPT ![r] = "finishing"]
        /\ fin' = [fin EXCEPT ![<<r, OnCancel>>] = "draining"]
        /\ UNCHANGED <<ctl, declared, open, bySession>>
    BY <1>11 DEF CancelSettled, CancelThrows, StartFinish
  <2>2. /\ fin'[<<r, OnCancel>>] = "draining"
        /\ \A f \in Finishes : fin[f] = "draining" => fin'[f] = "draining"
    BY <1>0, <2>1 DEF IInv, TypeOK
  <2>3. CASE p = r
    <3>1. cancel'[r] = "finishing" BY <2>1 DEF IInv, TypeOK
    <3>2. \E f \in Finishes : f[1] = r /\ fin'[f] = "draining" BY <1>0, <2>2
    <3> QED BY <1>0, <2>1, <2>3, <3>1, <3>2 DEF Leaving
  <2>4. CASE p # r
    <3>1. cancel'[p] = cancel[p] BY <2>1, <2>4 DEF IInv, TypeOK
    <3> QED BY <1>0, <2>1, <2>2, <3>1, ApartKeeps DEF Apart
  <2> QED BY <2>3, <2>4
<1>12. ASSUME NEW r \in Runs, CancelAnswers(r) PROVE Leaving(p)'
  <2>1. /\ cancel[r] = "finishing" /\ cancel' = [cancel EXCEPT ![r] = "answered"]
        /\ UNCHANGED <<ctl, declared, open, bySession, fin>>
    BY <1>12 DEF CancelAnswers
  <2> QED BY <1>0, <2>1 DEF Leaving, IInv, TypeOK
<1>13. ASSUME NEW r \in Runs, CeilingStops(r) \/ CeilingReached(r) PROVE Leaving(p)'
  <2>1. CASE CeilingReached(r)
    BY <1>0, <2>1 DEF Leaving, CeilingReached
  <2>2. CASE CeilingStops(r)
    <3>1. PICK exhausted \in BOOLEAN : EnterSettle(r, {"cancel"}, exhausted, declared[r])
      BY <2>2 DEF CeilingStops
    <3>2. {"cancel"} \in Intent /\ declared[r] \in Declared \cup {None}
      BY DEF Intent, IInv, TypeOK
    <3>3. settled(r) BY <3>1, <3>2, SettleEnters, SettleIsApart
    <3>4. r \in Stopped /\ UNCHANGED <<open, bySession, fin, cancel>>
      BY <2>2 DEF CeilingStops, IInv, Unstopped
    <3>6. CASE p = r BY <1>0, <3>3, <3>4, <3>6 DEF Leaving
    <3>7. CASE p # r BY <1>0, <3>3, <3>4, <3>7, ApartKeeps DEF Apart
    <3> QED BY <3>6, <3>7
  <2> QED BY <1>13, <2>1, <2>2
<1>14. ASSUME NEW r \in Runs, NEW said, TerminalFrame(r, said) PROVE Leaving(p)'
  <2> DEFINE q == bySession
  <2>1. /\ q \in Runs /\ ctl[q] # "none"
        /\ declared' = [declared EXCEPT ![q] = said]
        /\ fin' = [fin EXCEPT ![<<q, OnFrame>>] = "draining"]
        /\ UNCHANGED <<ctl, open, bySession, cancel>>
    BY <1>14 DEF TerminalFrame, StartFinish, IInv, TypeOK, Settling
  <2> HIDE DEF q
  <2>2. /\ fin'[<<q, OnFrame>>] = "draining"
        /\ \A f \in Finishes : fin[f] = "draining" => fin'[f] = "draining"
    BY <1>0, <2>1 DEF IInv, TypeOK
  <2>3. CASE p = q BY <1>0, <2>1, <2>2, <2>3 DEF Leaving
  <2>4. CASE p # q BY <1>0, <2>1, <2>2, <2>4, ApartKeeps DEF Apart, IInv, TypeOK
  <2> QED BY <2>3, <2>4
<1>15. ASSUME NEW r \in Runs, ViolatingFrame(r) PROVE Leaving(p)'
  <2> DEFINE q == bySession
  <2>1. /\ q \in Runs /\ ctl[q] = "live"
        /\ EnterSettle(q, {}, FALSE, "failed")
        /\ fin' = [fin EXCEPT ![<<q, OnFrame>>] = "draining"]
        /\ UNCHANGED <<open, bySession, cancel>>
    BY <1>15 DEF ViolatingFrame, StartFinish, IInv, TypeOK
  <2> HIDE DEF q
  <2>2. /\ fin'[<<q, OnFrame>>] = "draining"
        /\ \A f \in Finishes : fin[f] = "draining" => fin'[f] = "draining"
    BY <1>0, <2>1 DEF IInv, TypeOK
  <2>3. "failed" \in Declared \cup {None} /\ {} \in Intent /\ FALSE \in BOOLEAN
    BY DEF Declared, Intent
  <2>4. settled(q) BY <2>1, <2>3, SettleEnters, SettleIsApart
  <2>5. CASE p = q BY <1>0, <2>1, <2>2, <2>4, <2>5 DEF Leaving
  <2>6. CASE p # q BY <1>0, <2>1, <2>2, <2>4, <2>6, ApartKeeps DEF Apart
  <2> QED BY <2>5, <2>6
<1>16. CASE Appending
  <2>1. UNCHANGED <<ctl, declared, open, bySession, cancel, fin>>
    BY <1>16 DEF Appending, AppendRefused, AppendStarts, AppendAnswers
  <2> QED BY <1>0, <2>1 DEF Leaving
<1>17. ASSUME NEW f \in Finishes, DrainEnds(f) PROVE Leaving(p)'
  <2> DEFINE q == f[1]
  <2>1. /\ q \in Runs /\ fin' = [fin EXCEPT ![f] = "settling"]
        /\ bySession' = (IF bySession = q THEN NoRun ELSE bySession)
        /\ EnterSettle(q, IntentOf(f), FALSE, declared[q])
        /\ UNCHANGED <<open, cancel>>
    BY <1>0, <1>17 DEF DrainEnds
  <2>2. IntentOf(f) \in Intent /\ declared[q] \in Declared \cup {None} /\ FALSE \in BOOLEAN
    BY <2>1 DEF IntentOf, Intent, IInv, TypeOK
  <2>3. settled(q) BY <2>1, <2>2, SettleEnters, SettleIsApart
  <2>4. bySession' # q /\ \A r \in Runs : bySession' = r => bySession = r
    BY <2>1 DEF Runs, NoRun
  <2>5. ctl[q] # "none" BY <1>17 DEF DrainEnds, IInv, Begun
  <2>6. CASE p = q BY <1>0, <2>1, <2>3, <2>4, <2>5, <2>6 DEF Leaving
  <2>7. CASE p # q
    <3>1. \A g \in Finishes : g[1] = p => fin'[g] = fin[g]
      BY <2>1, <2>7 DEF IInv, TypeOK
    <3> QED BY <1>0, <2>1, <2>3, <2>4, <2>7, <3>1, ApartKeeps DEF Apart
  <2> QED BY <2>6, <2>7
<1>18. ASSUME NEW f \in Finishes, FinishEnds(f) PROVE Leaving(p)'
  <2>1. /\ fin[f] = "settling" /\ fin' = [fin EXCEPT ![f] = "done"]
        /\ UNCHANGED <<ctl, declared, open, bySession, cancel>>
    BY <1>18 DEF FinishEnds
  <2>2. \A g \in Finishes : fin[g] = "draining" => fin'[g] = "draining"
    BY <2>1 DEF IInv, TypeOK
  <2> QED BY <1>0, <2>1, <2>2, ApartKeeps DEF Apart
<1> QED BY <1>1, <1>2, <1>3, <1>4, <1>5, <1>6, <1>7, <1>8, <1>9, <1>10, <1>11, <1>12, <1>13,
           <1>14, <1>15, <1>16, <1>17, <1>18 DEF Next, Resumes, Frames

\* What a declared run that is not ended and let go yet may do next: the store
\* answers its settlement, its opening throws, its cancel goes on, or its #finish
\* drains, for which the queue is empty or has an event to offer, refuse or answer.
LeavingMoves ==
  \A r \in Runs \ Stopped : declared[r] # None /\ ~(ctl[r] = "ended" /\ bySession # r) =>
    \/ ctl[r] \in Settling
    \/ open[r] = "failing" /\ ctl[r] = "ended"
    \/ cancel[r] = "stopping" \/ (cancel[r] = "settling" /\ ctl[r] = "ended")
    \/ \E f \in Finishes :
         /\ f[1] = r /\ fin[f] = "draining"
         /\ writing => pending # <<>>

\* However frames, closes and cancels overlap, a declared run that the controller
\* does not stop by itself always has a step of the Host or of the store to take.
THEOREM LeavingIsNeverStuck == Spec => []LeavingMoves
<1> DEFINE L == \A r \in Runs : Leaving(r)
<1>1. Init => L BY DEF Init, Leaving, None
<1>2. IInv /\ L /\ [Next]_vars => L' BY LeavingStays
<1>3. Spec => []L BY <1>1, <1>2, InductiveInvariant, PTL DEF Spec
<1>4. IInv /\ L => LeavingMoves
  <2> SUFFICES ASSUME IInv, L, NEW r \in Runs \ Stopped, declared[r] # None,
                      ~(ctl[r] = "ended" /\ bySession # r), ctl[r] \notin Settling
               PROVE  \/ open[r] = "failing" /\ ctl[r] = "ended"
                      \/ cancel[r] = "stopping" \/ (cancel[r] = "settling" /\ ctl[r] = "ended")
                      \/ \E f \in Finishes :
                           f[1] = r /\ fin[f] = "draining" /\ (writing => pending # <<>>)
    BY DEF LeavingMoves
  <2>1. Leaving(r) /\ ctl[r] \in {"none", "live", "ended"} BY DEF IInv, TypeOK
  <2>2. writing => pending # <<>> BY DEF IInv, Queued
  <2>3. ctl[r] = "live" \/ bySession = r BY <2>1 DEF Leaving
  <2>4. (cancel[r] = "settling" \/ open[r] = "failing") => ctl[r] = "ended" BY <2>1 DEF Leaving
  <2> QED BY <2>1, <2>2, <2>3, <2>4 DEF Leaving
<1> QED BY <1>3, <1>4, InductiveInvariant, PTL
=============================================================================
