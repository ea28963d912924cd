------------------------------ MODULE Mailbox ------------------------------
(***************************************************************************)
(* The mailbox of one session (packages/data/src/mailbox.ts): messages the *)
(* user and the background tasks leave for whichever run is going on.  A   *)
(* run claims a batch at a checkpoint, under a lease, applies each row and *)
(* then shows it to its model (_claimMailboxAtCheckpoint of the worker),   *)
(* while the user edits, guides, withdraws or sends the same rows as a     *)
(* turn of their own.  Each statement of the mailbox is one transaction of *)
(* the Host; the worker awaits each one, and may die or be superseded      *)
(* between any two.                                                        *)
(***************************************************************************)
EXTENDS Integers, Sequences, FiniteSets

CONSTANTS
  Rows,          \* messages sent to the session: bounds the model
  Run,           \* the runs of the session, an escalated one may linger
  MaxAttempts,   \* maxClaimAttempts
  Sent           \* the kinds that are sent

Kind == {"followup", "background_notification", "queued", "agent_dm"}
UserTurn == "user turn"
None == "none"

ASSUME MailboxAssumption ==
  /\ Rows \in Nat /\ MaxAttempts \in Nat \ {0} /\ Sent \subseteq Kind
  /\ UserTurn \notin Run /\ None \notin Run

Row == 1 .. Rows   \* in the order of created_at

KIND_PRIORITY ==
  [followup |-> 10, background_notification |-> 50, queued |-> 100, agent_dm |-> 100]

VARIABLES
  row,      \* mailbox_items
  alive,    \* the runs that are going on
  claim,    \* of a run's sweep: the rows claimed and not yet vetted,
  usable,   \*   those vetted and not yet applied,
  taken,    \*   those applied and not yet pushed
  handed,   \* rows the renderer has promoted and not yet sent
  told      \* where a row's content went, in order

sweep == <<claim, usable, taken>>
vars == <<row, alive, sweep, handed, told>>

\* The terminal statuses carry applied_summary and cancelled_by.
Applied == {"absorbed", "promoted", "reserved"}
Cancelled == {"withdrawn", "rejected", "exhausted"}
Status == {"absent", "pending", "observed"} \cup Applied \cup Cancelled

\* Every claim of a row changes its claim_attempts or its status, which never
\* returns to pending: the count stands for the fresh claim_token.
Handle == [id : Row, token : 0 .. MaxAttempts]

TypeOK ==
  /\ row \in [Row -> [status : Status, kind : Kind, priority : {10, 50, 100},
                      guided : BOOLEAN, lease : {"none", "live", "expired"},
                      attempts : 0 .. MaxAttempts, observer : Run \cup {None},
                      reserved : Run \cup {None}]]
  /\ alive \in [Run -> BOOLEAN]
  /\ claim \in [Run -> SUBSET Handle] /\ usable \in [Run -> SUBSET Handle]
  /\ taken \in [Run -> SUBSET Row]
  /\ handed \subseteq Row
  /\ told \in [Row -> Seq(Run \cup {UserTurn})]

Absent ==
  [status |-> "absent", kind |-> "queued", priority |-> 100, guided |-> FALSE,
   lease |-> "none", attempts |-> 0, observer |-> None, reserved |-> None]

Init ==
  /\ row = [r \in Row |-> Absent]
  /\ alive = [w \in Run |-> TRUE]
  /\ claim = [w \in Run |-> {}] /\ usable = [w \in Run |-> {}]
  /\ taken = [w \in Run |-> {}]
  /\ handed = {} /\ told = [r \in Row |-> <<>>]
-----------------------------------------------------------------------------
(* The senders and the user *)

\* A retry, which carries the same clientMsgId, finds the row and leaves it.
Enqueue(r, k) ==
  /\ \A q \in 1 .. r - 1 : row[q].status # "absent"
  /\ \/ /\ row[r].status = "absent"
        /\ row' = [row EXCEPT ![r].status = "pending", ![r].kind = k,
                              ![r].priority = KIND_PRIORITY[k]]
     \/ row[r].status # "absent" /\ UNCHANGED row
  /\ UNCHANGED <<alive, sweep, handed, told>>

Edit(r, k) ==
  /\ row[r].status = "pending"
  /\ row' = [row EXCEPT ![r].kind = k, ![r].priority = KIND_PRIORITY[k]]
  /\ UNCHANGED <<alive, sweep, handed, told>>

\* The priority of the kind it had stays.
Guide(r) ==
  /\ row[r].status = "pending"
  /\ row' = [row EXCEPT ![r].guided = TRUE, ![r].kind = "followup"]
  /\ UNCHANGED <<alive, sweep, handed, told>>

Cancel(r) ==
  /\ row[r].status = "pending"
  /\ row' = [row EXCEPT ![r].status = "withdrawn"]
  /\ UNCHANGED <<alive, sweep, handed, told>>

\* Mutant: a message a run has taken is promoted all the same.
PromoteTaken(r) ==
  /\ row[r].status \in {"pending", "observed", "absorbed"} /\ ~row[r].guided
  /\ row' = [row EXCEPT ![r].status = "promoted"]
  /\ handed' = handed \cup {r}
  /\ UNCHANGED <<alive, sweep, told>>

\* The renderer takes a message out of the mailbox first; that it asks for the
\* user's own messages alone is its own filter, which the mailbox does not share.
PromoteQueued(r) ==
  /\ row[r].status = "pending" /\ ~row[r].guided
  /\ row' = [row EXCEPT ![r].status = "promoted"]
  /\ handed' = handed \cup {r}
  /\ UNCHANGED <<alive, sweep, told>>

\* It then sends it as a turn.
StartStream(r) ==
  /\ r \in handed
  /\ handed' = handed \ {r}
  /\ told' = [told EXCEPT ![r] = Append(@, UserTurn)]
  /\ UNCHANGED <<row, alive, sweep>>
-----------------------------------------------------------------------------
(* claimBatch *)

Expire(r) ==
  /\ row[r].status = "observed" /\ row[r].lease = "live"
  /\ row' = [row EXCEPT ![r].lease = "expired"]
  /\ UNCHANGED <<alive, sweep, handed, told>>

\* User messages are left alone at the exit boundary.
Claimable(checkpoint) ==
  IF checkpoint = "before_final_answer" THEN {"background_notification"}
  ELSE {"followup", "background_notification"}

\* Mutant: a row is claimed once.
FreeOnce(r) == row[r].status = "pending"

Free(r) ==
  \/ row[r].status = "pending"
  \/ row[r].status = "observed" /\ row[r].lease = "expired"

Ready(checkpoint) == {r \in Row : row[r].kind \in Claimable(checkpoint) /\ Free(r)}

\* ORDER BY priority, created_at
Before(q, r) ==
  row[q].priority < row[r].priority \/ (row[q].priority = row[r].priority /\ q <= r)

\* Mutant: one attempt too many.
SpentLate(r) == row[r].status = "observed" /\ row[r].attempts > MaxAttempts

Spent(r) == row[r].status = "observed" /\ row[r].attempts >= MaxAttempts

\* Mutant: the receipt of an earlier run is not looked at.
ReservedNever(r, w) == FALSE

\* A notice that another run reserved for itself may have been shown there.
ReservedElsewhere(r, w) ==
  /\ row[r].status = "observed" /\ row[r].kind = "background_notification"
  /\ row[r].reserved \notin {None, w}

Claimed(r, w) ==
  [row[r] EXCEPT
     !.status = "observed", !.lease = "live", !.observer = w,
     !.attempts = IF row[r].status = "observed" THEN @ + 1 ELSE @,
     !.reserved = IF row[r].kind = "background_notification" /\ @ = None THEN w ELSE @]

\* What a batch becomes: passed over for good, given up, or claimed; the answer
\* may not reach the run, which then goes on without.
ClaimEach(w, candidates) ==
  LET passed == {r \in candidates : ReservedElsewhere(r, w)}
      spent == {r \in candidates \ passed : Spent(r)}
      won == candidates \ (passed \cup spent)
  IN /\ row' = [r \in Row |->
                  CASE r \in passed -> [row[r] EXCEPT !.status = "reserved"]
                    [] r \in spent -> [row[r] EXCEPT !.status = "exhausted"]
                    [] r \in won -> Claimed(r, w)
                    [] OTHER -> row[r]]
     /\ \/ claim' = [claim EXCEPT ![w] = {[id |-> r, token |-> row'[r].attempts] : r \in won}]
        \/ UNCHANGED claim

\* The anchor and, within the window, the rows of its priority.
ClaimBatch(w, checkpoint) ==
  /\ alive[w] /\ claim[w] = {} /\ usable[w] = {} /\ taken[w] = {}
  /\ \E anchor \in Ready(checkpoint) :
       /\ \A r \in Ready(checkpoint) : Before(anchor, r)
       /\ \/ /\ Spent(anchor)
             /\ row' = [row EXCEPT ![anchor].status = "exhausted"]
             /\ UNCHANGED claim
          \/ /\ ~Spent(anchor)
             /\ \E windowEnd \in anchor .. Rows :
                  ClaimEach(w, {r \in Ready(checkpoint) :
                                  row[r].priority = row[anchor].priority /\ r <= windowEnd})
  /\ UNCHANGED <<alive, usable, taken, handed, told>>
-----------------------------------------------------------------------------
(* The rest of the sweep *)

First(S) == CHOOSE h \in S : \A g \in S : h.id <= g.id

\* Mutant: a row is settled by whoever once claimed it.
OwnsAny(h) == row[h.id].status = "observed"

\* status = 'observed' AND claim_token = @claimToken
Owns(h) == row[h.id].status = "observed" /\ row[h.id].attempts = h.token

\* A row is found fit; or it is refused, and cancelled if the claim still holds;
\* or it is empty, or can be neither validated nor cancelled, and left.
Vet(w) ==
  /\ alive[w] /\ claim[w] # {}
  /\ LET h == First(claim[w])
     IN /\ claim' = [claim EXCEPT ![w] = @ \ {h}]
        /\ \/ usable' = [usable EXCEPT ![w] = @ \cup {h}] /\ UNCHANGED row
           \/ /\ row' = IF Owns(h) THEN [row EXCEPT ![h.id].status = "rejected"] ELSE row
              /\ UNCHANGED usable
           \/ UNCHANGED <<row, usable>>
  /\ UNCHANGED <<alive, taken, handed, told>>

\* What a run has applied is kept here after its end, for the properties alone.
Over(w) ==
  /\ alive' = [alive EXCEPT ![w] = FALSE]
  /\ claim' = [claim EXCEPT ![w] = {}]
  /\ usable' = [usable EXCEPT ![w] = {}]

\* A stale claim throws, and so does an answer that does not arrive: the sweep is
\* not caught, and the run fails.
Apply(w) ==
  /\ alive[w] /\ claim[w] = {} /\ usable[w] # {}
  /\ LET h == First(usable[w])
     IN \/ /\ Owns(h)
           /\ row' = [row EXCEPT ![h.id].status = "absorbed"]
           /\ taken' = [taken EXCEPT ![w] = @ \cup {h.id}]
           /\ \/ usable' = [usable EXCEPT ![w] = @ \ {h}] /\ UNCHANGED <<alive, claim>>
              \/ Over(w)
        \/ ~Owns(h) /\ Over(w) /\ UNCHANGED <<row, taken>>
  /\ UNCHANGED <<handed, told>>

Tell(w, rows) ==
  /\ told' = [r \in Row |-> IF r \in rows THEN Append(told[r], w) ELSE told[r]]
  /\ taken' = [taken EXCEPT ![w] = @ \ rows]
  /\ UNCHANGED <<row, alive, claim, usable, handed>>

Notices(w) == {r \in taken[w] : row[r].kind = "background_notification"}

\* messages.push of the batch's notices, once every row of it is applied.
PushNotices(w) ==
  /\ alive[w] /\ claim[w] = {} /\ usable[w] = {} /\ Notices(w) # {}
  /\ Tell(w, Notices(w))

\* And of the user's rows, when their attachments have been read.
PushGuidance(w) ==
  /\ alive[w] /\ claim[w] = {} /\ usable[w] = {} /\ taken[w] # {} /\ Notices(w) = {}
  /\ Tell(w, taken[w])

\* The run ends, or its worker dies.
Stop(w) ==
  /\ alive[w] /\ Over(w)
  /\ UNCHANGED <<row, taken, handed, told>>
-----------------------------------------------------------------------------
User ==
  \E r \in Row :
    \/ \E k \in Sent : Enqueue(r, k) \/ Edit(r, k)
    \/ Guide(r) \/ Cancel(r) \/ PromoteQueued(r) \/ StartStream(r)

\* The sweep at the head of each turn.
Sweep(w) ==
  \/ ClaimBatch(w, "before_model_turn") \/ Vet(w) \/ Apply(w)
  \/ PushNotices(w) \/ PushGuidance(w)

Next ==
  \/ User
  \/ \E r \in Row : Expire(r)
  \/ \E w \in Run : Sweep(w) \/ ClaimBatch(w, "before_final_answer") \/ Stop(w)

Spec == Init /\ [][Next]_vars

\* Leases run out; a run that goes on finishes its sweep and sweeps again.
FairSpec ==
  /\ Spec
  /\ WF_vars(\E r \in Row : Expire(r))
  /\ \A w \in Run : WF_vars(Sweep(w))
-----------------------------------------------------------------------------
(* Properties *)

\* A message goes to the model once, in a run or as a turn of its own, and a
\* message that was withdrawn or refused never does.
ToldOnce ==
  \A r \in Row :
    /\ Len(told[r]) <= 1
    /\ told[r] # <<>> => row[r].status \in {"absorbed", "promoted"}

\* An absorbed message is with the run its row names as its observer, told or
\* about to be, and with no other, however many claims came before.
AbsorbedHasOwner ==
  \A r \in Row : row[r].status = "absorbed" =>
    /\ row[r].observer # None
    /\ told[r] \in {<<>>, <<row[r].observer>>}
    /\ told[r] = <<>> => r \in taken[row[r].observer]

\* A notice that goes to a run goes to the one that first reserved it: a run that
\* may have shown it and died is never followed by one that shows it again.
NoticeKeepsItsRun ==
  \A r \in Row :
    row[r].kind = "background_notification" /\ told[r] \notin {<<>>, <<UserTurn>>} =>
      told[r] = <<row[r].reserved>>

\* A row that no run can finish is given up, after MaxAttempts reclaims and not
\* before.
ReclaimsAreBounded ==
  \A r \in Row :
    /\ row[r].attempts <= MaxAttempts
    /\ row[r].status = "exhausted" => row[r].attempts = MaxAttempts

\* While some run goes on, no message for it waits for ever: not behind an
\* exhausted one, a lost answer, a dead claimant or a message of a higher priority.
Waiting(r) ==
  row[r].kind \in Claimable("before_model_turn") /\ row[r].status \in {"pending", "observed"}

MessagesAreSettled ==
  \A r \in Row : Waiting(r) ~> (~Waiting(r) \/ \A w \in Run : ~alive[w])

\* "User-content kinds (followup/queued) stay at-least-once": what the user sent
\* is told, unless the run that applied it still has it.
GuidanceIsKept ==
  \A r \in Row :
    row[r].status = "absorbed" /\ row[r].kind # "background_notification" =>
      told[r] # <<>> \/ \E w \in Run : alive[w] /\ r \in taken[w]
=============================================================================
