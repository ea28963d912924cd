--------------------------- MODULE MailboxProofs ---------------------------
(***************************************************************************)
(* A message is told once and in the run that owns it, for every set of    *)
(* messages and runs, any bound of attempts, and every interleaving of     *)
(* claims, lost answers, deaths and edits.                                 *)
(***************************************************************************)
EXTENDS Mailbox, TLAPS, WellFoundedInduction

USE MailboxAssumption DEF Row

\* A row of mailbox_items.
Item ==
  [status : Status, kind : Kind, priority : {10, 50, 100}, guided : BOOLEAN,
   lease : {"none", "live", "expired"}, attempts : 0 .. MaxAttempts,
   observer : Run \cup {None}, reserved : Run \cup {None}]

\* TypeOK, told apart.
Types ==
  /\ row \in [Row -> Item]
  /\ alive \in [Run -> BOOLEAN]
  /\ claim \in [Run -> SUBSET Handle] /\ usable \in [Run -> SUBSET Handle]
  /\ taken \in [Run -> SUBSET Row]
  /\ handed \subseteq Row

\* A row counts its attempts, and has an observer from its first claim on, which
\* for a notice is the run that reserved it.
Counted ==
  \A r \in Row :
    /\ row[r].status = "absent" => row[r].kind = "queued"
    /\ row[r].status \in {"absent", "pending"} => row[r].attempts = 0 /\ row[r].reserved = None
    /\ row[r].status = "exhausted" => row[r].attempts = MaxAttempts
    /\ row[r].status \in {"observed", "absorbed"} =>
         /\ row[r].observer \in Run
         /\ row[r].kind = "background_notification" => row[r].reserved = row[r].observer

\* A handle is never ahead of its row, and one that still fits it is the
\* observer's.
HandleFits(w, h) ==
  /\ row[h.id].status \notin {"absent", "pending"}
  /\ h.token <= row[h.id].attempts
  /\ Owns(h) => row[h.id].observer = w

Handles == \A w \in Run : \A h \in claim[w] \cup usable[w] : HandleFits(w, h)

\* Where a row's content is: nowhere, with its observer or with the user.
Told ==
  /\ DOMAIN told = Row
  /\ \A r \in Row :
       \/ told[r] = <<>>
       \/ row[r].status = "absorbed" /\ told[r] = <<row[r].observer>>
       \/ row[r].status = "promoted" /\ told[r] = <<UserTurn>>

\* What is on its way there has not been told.
Underway ==
  /\ \A w \in Run : \A r \in taken[w] :
       row[r].status = "absorbed" /\ row[r].observer = w /\ told[r] = <<>>
  /\ \A r \in handed : row[r].status = "promoted" /\ told[r] = <<>>
  /\ \A r \in Row : row[r].status = "absorbed" /\ told[r] = <<>> => r \in taken[row[r].observer]

IInv == Types /\ Counted /\ Handles /\ Told /\ Underway
-----------------------------------------------------------------------------
(* Helpers *)

\* A set of numbers has a least one.
LEMMA Least ==
  ASSUME NEW S \in SUBSET Nat, S # {}
  PROVE  \E n \in S : \A m \in S : n <= m
<1>1. PICK n \in S : \A m \in S : <<m, n>> \notin OpToRel(<, Nat)
  BY WFMin, NatLessThanWellFounded, Zenon
<1>2. \A m \in S : n \in Nat /\ m \in Nat /\ ~ (m < n)
  BY <1>1, Zenon DEF OpToRel
<1> QED BY <1>2

\* The next handle of a sweep is one of its handles.
LEMMA FirstIn == ASSUME NEW S \in SUBSET Handle, S # {} PROVE First(S) \in S
<1> DEFINE Ids == {h.id : h \in S}
<1>1. Ids \in SUBSET Nat /\ Ids # {} BY DEF Handle
<1>2. \E n \in Ids : \A m \in Ids : n <= m BY <1>1, Least
<1>3. PICK h \in S : \A g \in S : h.id <= g.id BY <1>2
<1> QED BY <1>3, Zenon DEF First

\* What a claim writes to the row.
LEMMA ClaimedFields ==
  ASSUME Types, NEW r \in Row, NEW w \in Run
  PROVE  /\ Claimed(r, w).status = "observed" /\ Claimed(r, w).observer = w
         /\ Claimed(r, w).lease = "live"
         /\ Claimed(r, w).kind = row[r].kind
         /\ Claimed(r, w).attempts =
              IF row[r].status = "observed" THEN row[r].attempts + 1 ELSE row[r].attempts
         /\ Claimed(r, w).reserved =
              IF row[r].kind = "background_notification" /\ row[r].reserved = None
                THEN w ELSE row[r].reserved
<1>1. row[r] \in Item BY DEF Types
<1> QED BY <1>1 DEF Item, Claimed

\* A row that is not spent can be claimed once more.
LEMMA ClaimedIsItem ==
  ASSUME Types, NEW r \in Row, NEW w \in Run,
         row[r].status = "observed" => row[r].attempts < MaxAttempts
  PROVE  Claimed(r, w) \in Item
<1> DEFINE n == Claimed(r, w).attempts
           v == Claimed(r, w).reserved
<1>1. row[r] \in Item BY DEF Types
<1>2. n \in 0 .. MaxAttempts BY <1>1, ClaimedFields DEF Item
<1>3. v \in Run \cup {None} BY <1>1, ClaimedFields DEF Item
<1>4. Claimed(r, w) = [row[r] EXCEPT !.status = "observed", !.lease = "live", !.observer = w,
                                     !.attempts = n, !.reserved = v]
  BY <1>1 DEF Claimed, Item
<1> HIDE DEF n, v
<1>5. [row[r] EXCEPT !.status = "observed", !.lease = "live", !.observer = w,
                     !.attempts = n, !.reserved = v] \in Item
  BY <1>1, <1>2, <1>3 DEF Item, Status
<1> QED BY <1>4, <1>5

\* A row may be given any status, guided, and lose its lease.
LEMMA RowsTyped ==
  ASSUME Types, NEW r \in Row
  PROVE  /\ \A s \in Status : [row EXCEPT ![r].status = s] \in [Row -> Item]
         /\ [row EXCEPT ![r].guided = TRUE, ![r].kind = "followup"] \in [Row -> Item]
         /\ [row EXCEPT ![r].lease = "expired"] \in [Row -> Item]
<1>1. row[r] \in Item /\ row \in [Row -> Item] BY DEF Types
<1>2. \A s \in Status : [row[r] EXCEPT !.status = s] \in Item BY <1>1 DEF Item
<1>3. [row[r] EXCEPT !.guided = TRUE, !.kind = "followup"] \in Item BY <1>1 DEF Item, Kind
<1>4. [row[r] EXCEPT !.lease = "expired"] \in Item BY <1>1 DEF Item
<1>5. [row EXCEPT ![r].guided = TRUE, ![r].kind = "followup"] =
        [row EXCEPT ![r] = [row[r] EXCEPT !.guided = TRUE, !.kind = "followup"]]
  BY <1>1
<1> QED BY <1>1, <1>2, <1>3, <1>4, <1>5

\* A row that is sent or edited is given a kind, and the priority of the kind.
LEMMA KindsTyped ==
  ASSUME Types, NEW r \in Row, NEW k \in Sent
  PROVE  /\ [row EXCEPT ![r].kind = k, ![r].priority = KIND_PRIORITY[k]] \in [Row -> Item]
         /\ [row EXCEPT ![r].status = "pending", ![r].kind = k, ![r].priority = KIND_PRIORITY[k]]
              \in [Row -> Item]
<1>1. row[r] \in Item /\ row \in [Row -> Item] BY DEF Types
<1>2. k \in Kind /\ KIND_PRIORITY[k] \in {10, 50, 100} BY DEF KIND_PRIORITY, Kind
<1>3. [row[r] EXCEPT !.kind = k, !.priority = KIND_PRIORITY[k]] \in Item
  BY <1>1, <1>2 DEF Item
<1>4. [row[r] EXCEPT !.status = "pending", !.kind = k, !.priority = KIND_PRIORITY[k]] \in Item
  BY <1>1, <1>2 DEF Item, Status
<1>5. [row EXCEPT ![r].kind = k, ![r].priority = KIND_PRIORITY[k]] =
        [row EXCEPT ![r] = [row[r] EXCEPT !.kind = k, !.priority = KIND_PRIORITY[k]]]
  BY <1>1
<1>6. [row EXCEPT ![r].status = "pending", ![r].kind = k, ![r].priority = KIND_PRIORITY[k]] =
        [row EXCEPT ![r] = [row[r] EXCEPT !.status = "pending", !.kind = k,
                                          !.priority = KIND_PRIORITY[k]]]
  BY <1>1
<1> QED BY <1>1, <1>3, <1>4, <1>5, <1>6
-----------------------------------------------------------------------------
(* The senders and the user *)

\* A message is sent, or sent again.
LEMMA EnqueueKeeps ==
  ASSUME IInv, NEW r \in Row, NEW k \in Sent, Enqueue(r, k)
  PROVE  IInv'
<1> USE DEF IInv, Enqueue, sweep
<1>1. CASE row' = row
  BY <1>1 DEF Types, Counted, Handles, HandleFits, Owns, Told, Underway
<1>2. CASE row[r].status = "absent" /\ row' # row
  <2>1. row' = [row EXCEPT ![r].status = "pending", ![r].kind = k,
                           ![r].priority = KIND_PRIORITY[k]] BY <1>2
  <2>2. Types' BY <2>1, KindsTyped DEF Types
  <2>3. /\ row'[r].status = "pending" /\ row'[r].attempts = row[r].attempts
        /\ row'[r].reserved = row[r].reserved
        /\ \A q \in Row \ {r} : row'[q] = row[q]
    BY <2>1 DEF Types, Item
  <2>4. Counted' BY <1>2, <2>3 DEF Counted
  <2>5. Handles'
    <3>1. \A w \in Run : \A h \in claim[w] \cup usable[w] : h.id \in Row \ {r}
      BY <1>2 DEF Types, Handles, HandleFits, Handle
    <3> QED BY <2>3, <3>1 DEF Handles, HandleFits, Owns
  <2>6. Told' BY <1>2, <2>3 DEF Told
  <2>7. Underway'
    <3>1. \A w \in Run : \A q \in taken[w] : q \in Row \ {r}
      BY <1>2 DEF Types, Underway
    <3>2. \A q \in handed : q \in Row \ {r} BY <1>2 DEF Types, Underway
    <3> QED BY <1>2, <2>3, <3>1, <3>2 DEF Underway
  <2> QED BY <2>2, <2>4, <2>5, <2>6, <2>7
<1> QED BY <1>1, <1>2

\* A waiting message is edited.
LEMMA EditKeeps ==
  ASSUME IInv, NEW r \in Row, NEW k \in Sent, Edit(r, k)
  PROVE  IInv'
<1> USE DEF IInv, sweep
<1>1. row' = [row EXCEPT ![r].kind = k, ![r].priority = KIND_PRIORITY[k]] BY DEF Edit
<1>2. row[r].status = "pending" BY DEF Edit
<1>3. UNCHANGED <<alive, claim, usable, taken, handed, told>> BY DEF Edit
<1>4. Types'
  <2>1. row' \in [Row -> Item] BY <1>1, KindsTyped, Zenon
  <2> QED BY <1>3, <2>1 DEF Types
<1>5. /\ row'[r].status = "pending" /\ row'[r].attempts = row[r].attempts
      /\ row'[r].reserved = row[r].reserved
      /\ \A q \in Row \ {r} : row'[q] = row[q]
  <2>1. row[r] \in Item BY DEF Types
  <2> QED BY <1>1, <1>2, <2>1 DEF Types, Item
<1>6. Counted' BY <1>2, <1>5 DEF Counted
<1>7. Handles'
  <2>1. \A w \in Run : \A h \in claim[w] \cup usable[w] : h.id \in Row \ {r}
    BY <1>2 DEF Types, Handles, HandleFits, Handle
  <2> QED BY <1>3, <1>5, <2>1 DEF Handles, HandleFits, Owns
<1>8. Told' BY <1>2, <1>3, <1>5 DEF Told
<1>9. Underway'
  <2>1. \A w \in Run : \A q \in taken[w] : q \in Row \ {r} BY <1>2 DEF Types, Underway
  <2>2. \A q \in handed : q \in Row \ {r} BY <1>2 DEF Types, Underway
  <2> QED BY <1>2, <1>3, <1>5, <2>1, <2>2 DEF Underway
<1> QED BY <1>4, <1>6, <1>7, <1>8, <1>9

\* The user's other hands on a waiting message, and a lease that runs out.
LEMMA UserKeeps ==
  ASSUME IInv, NEW r \in Row,
         Guide(r) \/ Cancel(r) \/ PromoteQueued(r) \/ StartStream(r) \/ Expire(r)
  PROVE  IInv'
<1> USE DEF IInv, sweep
<1>1. CASE Guide(r)
  <2>1. Types' BY <1>1, RowsTyped DEF Types, Guide
  <2> QED BY <1>1, <2>1, SMTT(30) DEF Types, Item, Counted, Handles, HandleFits, Owns, Handle, Told, Underway,
    Guide
<1>2. CASE Cancel(r)
  <2>1. Types' BY <1>2, RowsTyped DEF Types, Cancel, Status, Cancelled
  <2> QED BY <1>2, <2>1 DEF Types, Item, Counted, Handles, HandleFits, Owns, Handle, Told, Underway,
    Cancel
<1>3. CASE PromoteQueued(r)
  <2>1. Types' BY <1>3, RowsTyped DEF Types, PromoteQueued, Status, Applied
  <2> QED BY <1>3, <2>1 DEF Types, Item, Counted, Handles, HandleFits, Owns, Handle, Told, Underway,
    PromoteQueued
<1>4. CASE StartStream(r)
  <2>1. told[r] = <<>> /\ r \in handed BY <1>4 DEF StartStream, Underway
  <2>2. told' = [told EXCEPT ![r] = <<UserTurn>>] BY <1>4, <2>1 DEF StartStream
  <2>3. Told' BY <1>4, <2>1, <2>2 DEF StartStream, Told, Underway
  <2> QED BY <1>4, <2>1, <2>2, <2>3 DEF Types, Counted, Handles, HandleFits, Owns, Told, Underway, StartStream
<1>5. CASE Expire(r)
  <2>1. Types' BY <1>5, RowsTyped DEF Types, Expire
  <2>2. /\ row' = [row EXCEPT ![r].lease = "expired"]
        /\ UNCHANGED <<alive, claim, usable, taken, handed, told>>
    BY <1>5 DEF Expire
  <2>3. \A q \in Row :
          /\ row'[q].status = row[q].status /\ row'[q].kind = row[q].kind
          /\ row'[q].attempts = row[q].attempts /\ row'[q].observer = row[q].observer
          /\ row'[q].reserved = row[q].reserved
    <3>1. \A q \in Row : row[q] \in Item BY DEF Types
    <3> QED BY <2>2, <3>1 DEF Types, Item
  <2>4. Counted' BY <2>3 DEF Counted
  <2>5. Handles'
    <3>1. \A w \in Run : \A h \in claim[w] \cup usable[w] : h.id \in Row BY DEF Types, Handle
    <3> QED BY <2>2, <2>3, <3>1 DEF Handles, HandleFits, Owns
  <2>6. Told' BY <2>2, <2>3 DEF Told
  <2>7. Underway'
    <3>1. (\A w \in Run : taken[w] \subseteq Row) /\ handed \subseteq Row BY DEF Types
    <3> QED BY <2>2, <2>3, <3>1 DEF Underway
  <2> QED BY <2>1, <2>4, <2>5, <2>6, <2>7
<1> QED BY <1>1, <1>2, <1>3, <1>4, <1>5
-----------------------------------------------------------------------------
(* claimBatch *)

\* What a batch does to each row, and the handles it gives out.
BatchRow(r, w) ==
  \/ row'[r] = row[r]
  \/ /\ row[r].status = "observed"
     /\ \/ row'[r] = [row[r] EXCEPT !.status = "reserved"]
        \/ Spent(r) /\ row'[r] = [row[r] EXCEPT !.status = "exhausted"]
  \/ Free(r) /\ ~Spent(r) /\ ~ReservedElsewhere(r, w) /\ row'[r] = Claimed(r, w)

Batch(w) ==
  /\ row' = [r \in Row |-> row'[r]]
  /\ \A r \in Row : BatchRow(r, w)
  /\ claim[w] = {} /\ claim' = [claim EXCEPT ![w] = claim'[w]]
  /\ \A h \in claim'[w] :
       /\ h.id \in Row /\ row'[h.id] = Claimed(h.id, w) /\ Free(h.id) /\ ~Spent(h.id)
       /\ ~ReservedElsewhere(h.id, w)
       /\ h = [id |-> h.id, token |-> row'[h.id].attempts]
  /\ UNCHANGED <<alive, usable, taken, handed, told>>

\* A batch decides each of its rows on its own.
LEMMA BatchIs ==
  ASSUME Types, NEW w \in Run, NEW checkpoint, ClaimBatch(w, checkpoint)
  PROVE  Batch(w)
<1>1. claim[w] = {} /\ UNCHANGED <<alive, usable, taken, handed, told>> BY DEF ClaimBatch
<1>2. ASSUME NEW anchor \in Ready(checkpoint), Spent(anchor),
             row' = [row EXCEPT ![anchor].status = "exhausted"], UNCHANGED claim
      PROVE  Batch(w)
  BY <1>1, <1>2 DEF Types, Batch, BatchRow, Spent, Ready
<1>3. ASSUME NEW batch \in SUBSET Ready(checkpoint), ClaimEach(w, batch)
      PROVE  Batch(w)
  <2> DEFINE passed == {r \in batch : ReservedElsewhere(r, w)}
             spent == {r \in batch \ passed : Spent(r)}
             won == batch \ (passed \cup spent)
  <2>1. /\ row' = [r \in Row |->
                    CASE r \in passed -> [row[r] EXCEPT !.status = "reserved"]
                      [] r \in spent -> [row[r] EXCEPT !.status = "exhausted"]
                      [] r \in won -> Claimed(r, w)
                      [] OTHER -> row[r]]
        /\ \/ claim' = [claim EXCEPT ![w] =
                          {[id |-> r, token |-> row'[r].attempts] : r \in won}]
           \/ UNCHANGED claim
    BY <1>3 DEF ClaimEach
  <2>2. /\ won \in SUBSET Row /\ \A r \in won : r \notin passed /\ r \notin spent
        /\ \A r \in won : Free(r) /\ ~Spent(r) /\ ~ReservedElsewhere(r, w)
    BY DEF Ready
  <2>3. (\A r \in spent : Spent(r)) /\ \A r \in passed : ReservedElsewhere(r, w) OBVIOUS
  <2> HIDE DEF passed, spent, won
  <2>4. \A r \in Row : BatchRow(r, w)
    BY <2>1, <2>2, <2>3 DEF BatchRow, Spent, ReservedElsewhere
  <2>5. \A r \in won : row'[r] = Claimed(r, w) BY <2>1, <2>2
  <2>6. claim' = [claim EXCEPT ![w] = claim'[w]] BY <2>1 DEF Types
  <2>7. \A h \in claim'[w] : \E r \in won : h = [id |-> r, token |-> row'[r].attempts]
    <3>1. claim'[w] \in {{}, {[id |-> r, token |-> row'[r].attempts] : r \in won}}
      BY <1>1, <2>1 DEF Types
    <3> QED BY <3>1
  <2>8. row' = [r \in Row |-> row'[r]] BY <2>1
  <2>9. \A h \in claim'[w] :
          /\ h.id \in Row /\ row'[h.id] = Claimed(h.id, w) /\ Free(h.id) /\ ~Spent(h.id)
          /\ ~ReservedElsewhere(h.id, w)
          /\ h = [id |-> h.id, token |-> row'[h.id].attempts]
    BY <2>2, <2>5, <2>7
  <2> QED BY <1>1, <2>4, <2>6, <2>8, <2>9 DEF Batch
<1> QED BY <1>2, <1>3 DEF ClaimBatch

\* A batch keeps the invariant: it takes no row from a run that has it, and its
\* handles are fresh.
LEMMA ClaimKeeps ==
  ASSUME IInv, NEW w \in Run, NEW checkpoint, ClaimBatch(w, checkpoint)
  PROVE  IInv'
<1> USE DEF IInv
<1>1. Batch(w) BY BatchIs
<1>2. UNCHANGED <<alive, usable, taken, handed, told>> BY <1>1 DEF Batch
<1>3. \A r \in Row : BatchRow(r, w) BY <1>1 DEF Batch
<1>4. \A r \in Row : row[r] \in Item BY DEF Types
<1>5. Types'
  <2>1. \A r \in Row : row'[r] \in Item
    <3> TAKE r \in Row
    <3>1. CASE row'[r] = Claimed(r, w) /\ ~Spent(r)
      <4>1. row[r].status = "observed" => row[r].attempts < MaxAttempts
        BY <1>4, <3>1 DEF Spent, Item
      <4> QED BY <3>1, <4>1, ClaimedIsItem
    <3>2. \A s \in Status : [row[r] EXCEPT !.status = s] \in Item BY <1>4 DEF Item
    <3>3. "reserved" \in Status /\ "exhausted" \in Status BY DEF Status, Applied, Cancelled
    <3> QED BY <1>3, <1>4, <3>1, <3>2, <3>3 DEF BatchRow
  <2>2. row' \in [Row -> Item] BY <1>1, <2>1 DEF Batch
  <2>3. claim'[w] \subseteq Handle
    BY <1>1, <2>1 DEF Batch, Handle, Item
  <2>4. claim' \in [Run -> SUBSET Handle] BY <1>1, <2>3 DEF Batch, Types
  <2> QED BY <1>2, <2>2, <2>4 DEF Types
<1>6. \A r \in Row : row[r].status \notin {"pending", "observed"} => row'[r] = row[r]
  BY <1>3, <1>4 DEF BatchRow, Free
<1>7. \A r \in Row :
       \/ row'[r] = row[r]
       \/ /\ row[r].status = "observed" /\ row'[r].status \in {"reserved", "exhausted"}
          /\ row'[r].attempts = row[r].attempts /\ row'[r].kind = row[r].kind
          /\ row'[r].status = "exhausted" => row[r].attempts = MaxAttempts
       \/ /\ row[r].status \in {"pending", "observed"} /\ row'[r].status = "observed"
          /\ row'[r].observer = w /\ row'[r].kind = row[r].kind
          /\ row[r].status = "observed" => row'[r].attempts = row[r].attempts + 1
          /\ row[r].status = "pending" => row'[r].attempts = row[r].attempts
          /\ row[r].kind = "background_notification" => row'[r].reserved = w
  <2> TAKE r \in Row
  <2>1. CASE Free(r) /\ ~ReservedElsewhere(r, w) /\ row'[r] = Claimed(r, w)
    <3>1. row[r].status = "pending" => row[r].reserved = None BY DEF Counted
    <3>2. row[r].kind = "background_notification" => row[r].reserved \in {None, w}
      BY <2>1, <3>1 DEF Free, ReservedElsewhere
    <3> QED BY <2>1, <3>2, ClaimedFields DEF Free
  <2>2. CASE row[r].status = "observed" /\ row'[r] = [row[r] EXCEPT !.status = "reserved"]
    BY <1>4, <2>2 DEF Item
  <2>3. CASE /\ row[r].status = "observed" /\ Spent(r)
             /\ row'[r] = [row[r] EXCEPT !.status = "exhausted"]
    BY <1>4, <2>3 DEF Item, Spent
  <2> QED BY <1>3, <2>1, <2>2, <2>3 DEF BatchRow
<1>8. Counted' BY <1>7 DEF Counted
<1>9. Handles'
  <2>1. ASSUME NEW v \in Run, NEW h \in claim[v] \cup usable[v] PROVE HandleFits(v, h)'
    <3>1. h.id \in Row /\ h.token \in Nat /\ HandleFits(v, h)
      BY DEF Types, Handle, Handles
    <3>2. row[h.id].attempts \in Nat BY <1>4, <3>1 DEF Item
    <3> QED BY <1>7, <3>1, <3>2 DEF HandleFits, Owns
  <2>2. ASSUME NEW h \in claim'[w] PROVE HandleFits(w, h)'
    <3>1. /\ h.id \in Row /\ row'[h.id] = Claimed(h.id, w)
          /\ h = [id |-> h.id, token |-> row'[h.id].attempts]
      BY <1>1 DEF Batch
    <3>2. row'[h.id].status = "observed" /\ row'[h.id].observer = w BY <3>1, ClaimedFields
    <3>3. h.token = row'[h.id].attempts BY <3>1
    <3>4. row'[h.id].attempts \in Nat BY <1>5, <3>1 DEF Types, Item
    <3> QED BY <3>2, <3>3, <3>4 DEF HandleFits, Owns
  <2>3. \A v \in Run : v # w => claim'[v] = claim[v] BY <1>1 DEF Batch, Types
  <2> QED BY <1>2, <2>1, <2>2, <2>3 DEF Handles
<1>10. Told' BY <1>2, <1>6 DEF Told
<1>11. Underway'
  <2>1. \A r \in Row : row'[r].status = "absorbed" => row'[r] = row[r] BY <1>6, <1>7
  <2>2. \A v \in Run : taken[v] \subseteq Row BY DEF Types
  <2> QED BY <1>2, <1>6, <2>1, <2>2 DEF Underway, Types
<1> QED BY <1>5, <1>8, <1>9, <1>10, <1>11
-----------------------------------------------------------------------------
(* The rest of the sweep *)

\* A row is looked at before it is applied.
LEMMA VetKeeps ==
  ASSUME IInv, NEW w \in Run, Vet(w)
  PROVE  IInv'
<1> USE DEF IInv
<1> DEFINE h == First(claim[w])
<1>1. h \in claim[w] BY FirstIn DEF Vet, Types
<1>2. h.id \in Row /\ HandleFits(w, h) BY <1>1 DEF Types, Handle, Handles
<1>3. /\ claim' = [claim EXCEPT ![w] = @ \ {h}]
      /\ usable' = [usable EXCEPT ![w] = @ \cup {h}] \/ UNCHANGED usable
      /\ row' = row \/ (Owns(h) /\ row' = [row EXCEPT ![h.id].status = "rejected"])
      /\ UNCHANGED <<alive, taken, handed, told>>
  BY DEF Vet
<1> HIDE DEF h
<1>4. \A r \in Row : \/ row'[r] = row[r]
                     \/ /\ row[r].status = "observed" /\ row'[r].status = "rejected"
                        /\ row'[r].attempts = row[r].attempts /\ row'[r].kind = row[r].kind
  <2>1. CASE Owns(h) /\ row' = [row EXCEPT ![h.id].status = "rejected"]
    <3>1. row[h.id].status = "observed" BY <2>1 DEF Owns
    <3> QED BY <1>2, <2>1, <3>1 DEF Types, Item
  <2> QED BY <1>3, <2>1
<1>5. Types'
  <2>1. "rejected" \in Status BY DEF Status, Cancelled
  <2>2. [row EXCEPT ![h.id].status = "rejected"] \in [Row -> Item] BY <1>2, <2>1, RowsTyped
  <2>3. row' \in [Row -> Item] BY <1>3, <2>2 DEF Types
  <2>4. h \in Handle BY <1>1 DEF Types
  <2>5. claim' \in [Run -> SUBSET Handle] BY <1>3 DEF Types
  <2>6. usable' \in [Run -> SUBSET Handle] BY <1>3, <2>4 DEF Types
  <2> QED BY <1>3, <2>3, <2>5, <2>6 DEF Types
<1>6. Counted' BY <1>4 DEF Counted
<1>7. Handles'
  <2>1. \A v \in Run : claim'[v] \cup usable'[v] \subseteq claim[v] \cup usable[v]
    BY <1>1, <1>3 DEF Types
  <2>2. \A v \in Run : \A g \in claim[v] \cup usable[v] : g.id \in Row BY DEF Types, Handle
  <2> QED BY <1>4, <2>1, <2>2 DEF Handles, HandleFits, Owns
<1>8. Told' BY <1>3, <1>4 DEF Told
<1>9. Underway'
  <2>1. \A v \in Run : taken[v] \subseteq Row BY DEF Types
  <2>2. handed \subseteq Row BY DEF Types
  <2>3. \A r \in Row : row'[r].status = "absorbed" => row'[r] = row[r] BY <1>4
  <2>4. \A r \in Row : row[r].status # "observed" => row'[r] = row[r] BY <1>4
  <2> QED BY <1>3, <2>1, <2>2, <2>3, <2>4 DEF Underway
<1> QED BY <1>5, <1>6, <1>7, <1>8, <1>9

\* A row is applied by the run its claim still belongs to.
LEMMA ApplyKeeps ==
  ASSUME IInv, NEW w \in Run, Apply(w)
  PROVE  IInv'
<1> USE DEF IInv
<1> DEFINE h == First(usable[w])
<1>1. h \in usable[w] BY FirstIn DEF Apply, Types
<1>2. h.id \in Row /\ HandleFits(w, h) BY <1>1 DEF Types, Handle, Handles
<1>3. /\ UNCHANGED <<handed, told>>
      /\ \/ Owns(h) /\ row' = [row EXCEPT ![h.id].status = "absorbed"]
            /\ taken' = [taken EXCEPT ![w] = @ \cup {h.id}]
         \/ UNCHANGED <<row, taken>>
      /\ \/ Over(w)
         \/ usable' = [usable EXCEPT ![w] = @ \ {h}] /\ UNCHANGED <<alive, claim>>
  BY DEF Apply
<1> HIDE DEF h
<1>4. /\ alive' \in [Run -> BOOLEAN]
      /\ claim' \in [Run -> SUBSET Handle] /\ usable' \in [Run -> SUBSET Handle]
      /\ \A v \in Run : claim'[v] \cup usable'[v] \subseteq claim[v] \cup usable[v]
  BY <1>3, ZenonT(40) DEF Types, Over
<1>5. CASE UNCHANGED <<row, taken>>
  BY <1>3, <1>4, <1>5 DEF Types, Counted, Handles, HandleFits, Owns, Told, Underway
<1>6. CASE Owns(h) /\ row' = [row EXCEPT ![h.id].status = "absorbed"]
           /\ taken' = [taken EXCEPT ![w] = @ \cup {h.id}]
  <2>1. /\ row[h.id].status = "observed" /\ row[h.id].observer = w
        /\ row'[h.id].status = "absorbed" /\ row'[h.id].observer = w
        /\ row'[h.id].kind = row[h.id].kind /\ row'[h.id].reserved = row[h.id].reserved
        /\ row'[h.id].attempts = row[h.id].attempts
        /\ \A r \in Row \ {h.id} : row'[r] = row[r]
    BY <1>2, <1>6 DEF HandleFits, Owns, Types, Item
  <2>2. Types'
    <3>1. row' \in [Row -> Item] BY <1>2, <1>6, RowsTyped DEF Status, Applied
    <3> QED BY <1>2, <1>3, <1>4, <1>6, <3>1 DEF Types
  <2>3. Counted' BY <2>1 DEF Counted
  <2>4. Handles'
    <3>1. \A v \in Run : \A g \in claim[v] \cup usable[v] : g.id \in Row BY DEF Types, Handle
    <3> QED BY <1>4, <2>1, <3>1 DEF Handles, HandleFits, Owns
  <2>5. told[h.id] = <<>> BY <1>2, <2>1 DEF Told
  <2>6. Told' BY <1>3, <2>1, <2>5 DEF Told
  <2>7. Underway'
    <3>1. \A v \in Run : taken[v] \subseteq Row BY DEF Types
    <3>2. \A v \in Run : taken'[v] = IF v = w THEN taken[v] \cup {h.id} ELSE taken[v]
      BY <1>6 DEF Types
    <3>3. handed \subseteq Row BY DEF Types
    <3>4. \A v \in Run : \A r \in taken'[v] :
            row'[r].status = "absorbed" /\ row'[r].observer = v /\ told'[r] = <<>>
      <4> TAKE v \in Run
      <4>1. \A r \in taken[v] : r \in Row \ {h.id} BY <2>1, <3>1 DEF Underway
      <4>2. \A r \in taken[v] :
              row'[r].status = "absorbed" /\ row'[r].observer = v /\ told'[r] = <<>>
        BY <1>3, <2>1, <4>1 DEF Underway
      <4>3. \A r \in taken'[v] : r \in taken[v] \/ (v = w /\ r = h.id) BY <3>2
      <4>4. told'[h.id] = <<>> BY <1>3, <2>5
      <4> QED BY <2>1, <4>2, <4>3, <4>4
    <3>5. \A r \in handed' : row'[r].status = "promoted" /\ told'[r] = <<>>
      BY <1>2, <1>3, <2>1, <3>3 DEF Underway
    <3>6. \A r \in Row : row'[r].status = "absorbed" /\ told'[r] = <<>> =>
            r \in taken'[row'[r].observer]
      <4>1. \A r \in Row : row'[r].status = "absorbed" => row'[r].observer \in Run
        BY <2>3 DEF Counted
      <4> TAKE r \in Row
      <4>2. CASE r = h.id BY <2>1, <3>2, <4>2
      <4>3. CASE r # h.id
        <5>1. row'[r] = row[r] /\ told'[r] = told[r] BY <1>3, <2>1, <4>3
        <5>2. \A v \in Run : taken[v] \subseteq taken'[v] BY <3>2
        <5>3. row[r].status = "absorbed" /\ told[r] = <<>> => r \in taken[row[r].observer]
          BY DEF Underway
        <5> QED BY <4>1, <5>1, <5>2, <5>3
      <4> QED BY <4>2, <4>3
    <3> QED BY <3>4, <3>5, <3>6 DEF Underway
  <2> QED BY <2>2, <2>3, <2>4, <2>6, <2>7
<1> QED BY <1>3, <1>5, <1>6

\* Rows a run took reach its model.
LEMMA TellKeeps ==
  ASSUME IInv, NEW w \in Run, NEW rows \in SUBSET taken[w], Tell(w, rows)
  PROVE  IInv'
<1> USE DEF IInv
<1>1. /\ told' = [r \in Row |-> IF r \in rows THEN Append(told[r], w) ELSE told[r]]
      /\ taken' = [taken EXCEPT ![w] = @ \ rows]
      /\ UNCHANGED <<row, alive, claim, usable, handed>>
  BY DEF Tell
<1>2. \A r \in rows : told[r] = <<>> /\ row[r].status = "absorbed" /\ row[r].observer = w
  BY DEF Underway
<1>3. told' = [r \in Row |-> IF r \in rows THEN <<w>> ELSE told[r]]
  <2>1. Append(<<>>, w) = <<w>> OBVIOUS
  <2> QED BY <1>1, <1>2, <2>1
<1>4. Types' BY <1>1 DEF Types
<1>5. Counted' /\ Handles' BY <1>1 DEF Counted, Handles, HandleFits, Owns
<1>6. Told' BY <1>1, <1>2, <1>3 DEF Told
<1>7. Underway'
  <2>1. \A v \in Run : taken'[v] = IF v = w THEN taken[w] \ rows ELSE taken[v]
    BY <1>1 DEF Types
  <2>2. \A v \in Run : \A r \in taken[v] : r \in rows => v = w BY <1>2 DEF Underway
  <2>3. \A v \in Run : taken[v] \subseteq Row BY DEF Types
  <2>4. \A r \in handed : r \notin rows /\ r \in Row BY <1>2 DEF Underway, Types
  <2> QED BY <1>1, <1>2, <1>3, <2>1, <2>2, <2>3, <2>4 DEF Underway
<1> QED BY <1>4, <1>5, <1>6, <1>7

\* The batch reaches the run's model, and a run ends.
LEMMA RunKeeps ==
  ASSUME IInv, NEW w \in Run, PushNotices(w) \/ PushGuidance(w) \/ Stop(w)
  PROVE  IInv'
<1> USE DEF IInv
<1>1. CASE PushNotices(w) \/ PushGuidance(w)
  <2>1. \E rows \in SUBSET taken[w] : Tell(w, rows)
    BY <1>1 DEF PushNotices, PushGuidance, Notices
  <2> QED BY <2>1, TellKeeps
<1>2. CASE Stop(w)
  <2>1. UNCHANGED <<row, taken, handed, told>> BY <1>2 DEF Stop
  <2>2. /\ alive' = [alive EXCEPT ![w] = FALSE]
        /\ claim' = [claim EXCEPT ![w] = {}] /\ usable' = [usable EXCEPT ![w] = {}]
    BY <1>2 DEF Stop, Over
  <2>3. Types' BY <2>1, <2>2 DEF Types
  <2>4. \A v \in Run : claim'[v] \subseteq claim[v] /\ usable'[v] \subseteq usable[v]
    BY <2>2 DEF Types
  <2>5. Handles' BY <2>1, <2>4 DEF Handles, HandleFits, Owns
  <2>6. Counted' /\ Told' /\ Underway' BY <2>1 DEF Counted, Told, Underway
  <2> QED BY <2>3, <2>5, <2>6
<1> QED BY <1>1, <1>2
-----------------------------------------------------------------------------
(* The theorems *)

\* The mailbox starts empty.
LEMMA Initially == Init => IInv
<1> USE DEF Init, Absent
<1> SUFFICES ASSUME Init PROVE IInv OBVIOUS
<1>1. Absent \in Item BY DEF Item, Status, Kind
<1>2. Types BY <1>1 DEF Types, Handle
<1>3. Counted /\ Handles BY DEF Counted, Handles
<1>4. Told /\ Underway BY DEF Told, Underway
<1> QED BY <1>2, <1>3, <1>4 DEF IInv

\* Every step, a stutter included.
LEMMA Steps == IInv /\ [Next]_vars => IInv'
<1> SUFFICES ASSUME IInv, [Next]_vars PROVE IInv' OBVIOUS
<1>1. CASE Next
  BY <1>1, EnqueueKeeps, EditKeeps, UserKeeps, ClaimKeeps, VetKeeps, ApplyKeeps, RunKeeps
     DEF Next, User, Sweep
<1>2. CASE UNCHANGED vars
  BY <1>2 DEF vars, sweep, IInv, Types, Counted, Handles, HandleFits, Owns, Told, Underway
<1> QED BY <1>1, <1>2

\* Each row's content is in one place, whichever runs claimed it, lost it or died.
THEOREM InductiveInvariant == Spec => []IInv
<1> QED BY Initially, Steps, PTL DEF Spec

\* told is a function on the rows.
Shape == told = [r \in Row |-> told[r]]

\* It stays one: told is only ever extended.
LEMMA ToldIsFunction == Spec => []Shape
<1>1. Init => Shape BY DEF Init, Shape
<1>2. Shape /\ [Next]_vars => Shape'
  <2> SUFFICES ASSUME Shape, [Next]_vars PROVE Shape' OBVIOUS
  <2>1. \/ UNCHANGED told
        \/ \E r \in Row : told' = [told EXCEPT ![r] = Append(@, UserTurn)]
        \/ \E w \in Run :
             \E rows \in {taken[w], Notices(w)} :
               told' = [r \in Row |-> IF r \in rows THEN Append(told[r], w) ELSE told[r]]
    BY DEF Next, User, Sweep, vars, Enqueue, Edit, Guide, Cancel, PromoteQueued, StartStream,
       Expire, ClaimBatch, Vet, Apply, PushNotices, PushGuidance, Tell, Stop
  <2> QED BY <2>1 DEF Shape
<1> QED BY <1>1, <1>2, PTL DEF Spec

\* Every variable keeps its type.
THEOREM TypeCorrect == Spec => []TypeOK
<1>1. IInv /\ Shape => TypeOK
  <2> SUFFICES ASSUME IInv, Shape PROVE TypeOK OBVIOUS
  <2>1. Types BY DEF IInv
  <2>2. \A r \in Row : told[r] \in Seq(Run \cup {UserTurn})
    <3> TAKE r \in Row
    <3>1. CASE told[r] = <<>> BY <3>1
    <3>2. CASE told[r] = <<UserTurn>> BY <3>2
    <3>3. CASE row[r].status = "absorbed" /\ told[r] = <<row[r].observer>>
      <4>1. row[r].observer \in Run BY <3>3 DEF IInv, Counted
      <4> QED BY <3>3, <4>1
    <3> QED BY <3>1, <3>2, <3>3 DEF IInv, Told
  <2>3. told \in [Row -> Seq(Run \cup {UserTurn})]
    BY <2>2 DEF Shape
  <2> QED BY <2>1, <2>3 DEF Types, TypeOK, Item
<1> QED BY <1>1, InductiveInvariant, ToldIsFunction, PTL

\* A message is told once, and never after it was withdrawn or refused.
THEOREM MessagesAreToldOnce == Spec => []ToldOnce
<1>1. ASSUME IInv, NEW r \in Row
      PROVE  Len(told[r]) <= 1 /\ (told[r] # <<>> => row[r].status \in {"absorbed", "promoted"})
  <2>1. CASE told[r] = <<>> BY <2>1
  <2>2. CASE row[r].status = "absorbed" /\ told[r] = <<row[r].observer>> BY <2>2
  <2>3. CASE row[r].status = "promoted" /\ told[r] = <<UserTurn>> BY <2>3
  <2> QED BY <1>1, <2>1, <2>2, <2>3 DEF IInv, Told
<1>2. IInv => ToldOnce BY <1>1 DEF ToldOnce
<1> QED BY <1>2, InductiveInvariant, PTL

\* An absorbed message is with the run that its row names.
THEOREM AbsorbedIsWithItsRun == Spec => []AbsorbedHasOwner
<1>1. ASSUME IInv, NEW r \in Row, row[r].status = "absorbed"
      PROVE  /\ row[r].observer # None
             /\ told[r] \in {<<>>, <<row[r].observer>>}
             /\ told[r] = <<>> => r \in taken[row[r].observer]
  <2>1. row[r].observer \in Run BY <1>1 DEF IInv, Counted
  <2>2. told[r] \in {<<>>, <<row[r].observer>>} BY <1>1 DEF IInv, Told
  <2>3. told[r] = <<>> => r \in taken[row[r].observer] BY <1>1 DEF IInv, Underway
  <2> QED BY <2>1, <2>2, <2>3
<1>2. IInv => AbsorbedHasOwner BY <1>1 DEF AbsorbedHasOwner
<1> QED BY <1>2, InductiveInvariant, PTL

\* A notice is told in the run that first reserved it, or not at all.
THEOREM NoticesStay == Spec => []NoticeKeepsItsRun
<1>1. IInv => NoticeKeepsItsRun BY DEF IInv, Told, Counted, NoticeKeepsItsRun
<1> QED BY <1>1, InductiveInvariant, PTL

\* A row is given up after its last reclaim, and not before.
THEOREM ReclaimsEnd == Spec => []ReclaimsAreBounded
<1>1. IInv => ReclaimsAreBounded
  BY DEF IInv, Types, Item, Counted, ReclaimsAreBounded
<1> QED BY <1>1, InductiveInvariant, PTL
-----------------------------------------------------------------------------
(* What settles a message, short of fairness *)

\* How far a message has come: sent, claimed, its lease run out, claimed again,
\* and so on until it is settled.
Age(r) ==
  CASE row[r].status = "absent" -> 0
    [] row[r].status = "pending" -> 1
    [] row[r].status = "observed" ->
         2 + 2 * row[r].attempts + (IF row[r].lease = "expired" THEN 1 ELSE 0)
    [] OTHER -> 2 * MaxAttempts + 4

\* No step takes a message back, and a settled one is never touched again.
OnlyForward ==
  \A r \in Row :
    /\ Age(r)' >= Age(r)
    /\ row[r].status \in Applied \cup Cancelled => row'[r] = row[r]

\* A claim brings some message forward: it is never one of nothing, even when its
\* answer is lost, its anchor is exhausted or all it finds is reserved elsewhere.
ClaimsAdvance ==
  (\E w \in Run : ClaimBatch(w, "before_model_turn") \/ ClaimBatch(w, "before_final_answer"))
    => \E r \in Row : Age(r)' > Age(r)

\* The ways a row is changed in.
Moves(r) ==
  \/ row'[r] = row[r]
  \/ /\ row[r].status \in {"absent", "pending"} /\ row'[r].status = "pending"
     /\ row'[r].attempts = row[r].attempts
  \/ row[r].status = "pending" /\ \E s \in {"withdrawn", "promoted"} : row'[r] = [row[r] EXCEPT !.status = s]
  \/ /\ row[r].status = "observed"
     /\ \E s \in {"reserved", "exhausted", "rejected", "absorbed"} :
          row'[r] = [row[r] EXCEPT !.status = s]
  \/ /\ row[r].status = "observed" /\ row[r].lease = "live"
     /\ row'[r] = [row[r] EXCEPT !.lease = "expired"]
  \/ \E w \in Run : Free(r) /\ ~Spent(r) /\ row'[r] = Claimed(r, w)

\* There are no others.
LEMMA RowMoves ==
  ASSUME IInv, [Next]_vars, NEW r \in Row
  PROVE  Moves(r)
<1>0. row[r] \in Item /\ row \in [Row -> Item] BY DEF IInv, Types
<1>1. CASE UNCHANGED row BY <1>1 DEF Moves
<1>2. ASSUME NEW q \in Row, NEW k \in Sent, Enqueue(q, k) \/ Edit(q, k) PROVE Moves(r)
  <2>1. \/ row' = row
        \/ /\ row[q].status = "absent"
           /\ row' = [row EXCEPT ![q].status = "pending", ![q].kind = k,
                                 ![q].priority = KIND_PRIORITY[k]]
        \/ /\ row[q].status = "pending"
           /\ row' = [row EXCEPT ![q].kind = k, ![q].priority = KIND_PRIORITY[k]]
    BY <1>2 DEF Enqueue, Edit
  <2>2. CASE q = r
    BY <1>0, <2>1, <2>2 DEF Moves, Item
  <2>3. CASE q # r BY <1>0, <2>1, <2>3 DEF Moves
  <2> QED BY <2>2, <2>3
<1>3. ASSUME NEW q \in Row, Guide(q) PROVE Moves(r)
  <2>1. row[q].status = "pending" /\ row' = [row EXCEPT ![q].guided = TRUE, ![q].kind = "followup"]
    BY <1>3 DEF Guide
  <2>2. CASE q = r BY <1>0, <2>1, <2>2 DEF Moves, Item
  <2>3. CASE q # r BY <1>0, <2>1, <2>3 DEF Moves
  <2> QED BY <2>2, <2>3
<1>4. ASSUME NEW q \in Row, Cancel(q) \/ PromoteQueued(q) PROVE Moves(r)
  <2>1. /\ row[q].status = "pending"
        /\ \E s \in {"withdrawn", "promoted"} : row' = [row EXCEPT ![q].status = s]
    BY <1>4 DEF Cancel, PromoteQueued
  <2> QED BY <1>0, <2>1 DEF Moves
<1>5. ASSUME NEW q \in Row, Expire(q) PROVE Moves(r)
  <2>1. /\ row[q].status = "observed" /\ row[q].lease = "live"
        /\ row' = [row EXCEPT ![q].lease = "expired"]
    BY <1>5 DEF Expire
  <2> QED BY <1>0, <2>1 DEF Moves
<1>6. ASSUME NEW w \in Run, NEW c, ClaimBatch(w, c) PROVE Moves(r)
  <2>1. BatchRow(r, w) BY <1>6, BatchIs DEF IInv, Batch
  <2> QED BY <2>1 DEF Moves, BatchRow
<1>7. ASSUME NEW w \in Run, Vet(w) \/ Apply(w) PROVE Moves(r)
  <2>1. \E h \in claim[w] \cup usable[w], s \in {"rejected", "absorbed"} :
          \/ row' = row
          \/ row[h.id].status = "observed" /\ row' = [row EXCEPT ![h.id].status = s]
    <3>1. claim[w] \in SUBSET Handle /\ usable[w] \in SUBSET Handle BY DEF IInv, Types
    <3>2. CASE Vet(w)
      <4>1. First(claim[w]) \in claim[w] BY <3>1, <3>2, FirstIn DEF Vet
      <4> QED BY <3>2, <4>1 DEF Vet, Owns
    <3>3. CASE Apply(w)
      <4>1. First(usable[w]) \in usable[w] BY <3>1, <3>3, FirstIn DEF Apply
      <4> QED BY <3>3, <4>1 DEF Apply, Owns
    <3> QED BY <1>7, <3>2, <3>3
  <2> QED BY <1>0, <2>1 DEF Moves
<1>8. CASE Next
  <2>1. ASSUME NEW q \in Row, StartStream(q) PROVE Moves(r) BY <2>1 DEF StartStream, Moves
  <2>2. ASSUME NEW w \in Run, PushNotices(w) \/ PushGuidance(w) \/ Stop(w) PROVE Moves(r)
    BY <2>2 DEF PushNotices, PushGuidance, Tell, Stop, Moves
  <2> QED BY <1>2, <1>3, <1>4, <1>5, <1>6, <1>7, <1>8, <2>1, <2>2 DEF Next, User, Sweep
<1> QED BY <1>1, <1>8 DEF vars

\* A row that is claimed is under a lease, live or expired.
Leased == \A r \in Row : row[r].status = "observed" => row[r].lease # "none"

\* It stays so.
LEMMA LeasedAlways == Spec => []Leased
<1>1. Init => Leased BY DEF Init, Leased, Absent
<1>2. IInv /\ Leased /\ [Next]_vars => Leased'
  <2> SUFFICES ASSUME IInv, Leased, [Next]_vars, NEW r \in Row, row'[r].status = "observed"
               PROVE  row'[r].lease # "none"
    BY DEF Leased
  <2>1. Moves(r) BY RowMoves
  <2>2. row[r] \in Item BY DEF IInv, Types
  <2>3. \A w \in Run : Claimed(r, w).lease = "live" BY ClaimedFields DEF IInv
  <2> QED BY <2>1, <2>2, <2>3 DEF Moves, Leased, Item
<1> QED BY <1>1, <1>2, InductiveInvariant, PTL DEF Spec

\* No way leads back.
LEMMA MovesForward ==
  ASSUME IInv, IInv', NEW r \in Row, Moves(r)
  PROVE  /\ Age(r)' >= Age(r)
         /\ row[r].status \in Applied \cup Cancelled => row'[r] = row[r]
<1>0. row[r] \in Item /\ row'[r] \in Item /\ MaxAttempts \in Nat BY DEF IInv, Types
<1>1. Age(r) \in 0 .. 2 * MaxAttempts + 4 BY <1>0 DEF Age, Item
<1>2. CASE row'[r] = row[r] BY <1>1, <1>2 DEF Age
<1>3. CASE row[r].status \in {"absent", "pending"} /\ row'[r].status = "pending"
  BY <1>0, <1>3 DEF Age, Applied, Cancelled
<1>4. CASE /\ row[r].status \in {"pending", "observed"}
           /\ \E s \in {"reserved", "exhausted", "rejected", "absorbed", "withdrawn", "promoted"} :
                row'[r] = [row[r] EXCEPT !.status = s]
  <2>1. Age(r)' = 2 * MaxAttempts + 4 BY <1>0, <1>4 DEF Age, Item
  <2> QED BY <1>0, <1>1, <1>4, <2>1 DEF Applied, Cancelled
<1>5. CASE /\ row[r].status = "observed" /\ row[r].lease = "live"
           /\ row'[r] = [row[r] EXCEPT !.lease = "expired"]
  BY <1>0, <1>5 DEF Age, Item, Applied, Cancelled
<1>6. CASE \E w \in Run : Free(r) /\ ~Spent(r) /\ row'[r] = Claimed(r, w)
  <2>1. PICK w \in Run : row'[r] = Claimed(r, w) BY <1>6
  <2>2. /\ row'[r].status = "observed"
        /\ row'[r].attempts =
             IF row[r].status = "observed" THEN row[r].attempts + 1 ELSE row[r].attempts
    BY <2>1, ClaimedFields DEF IInv
  <2> QED BY <1>0, <1>6, <2>2 DEF Age, Item, Free, Applied, Cancelled
<1> QED BY <1>2, <1>3, <1>4, <1>5, <1>6 DEF Moves

\* A claim takes its anchor, which was free, one step on.
LEMMA AnchorMoves ==
  ASSUME IInv, NEW w \in Run, NEW checkpoint, ClaimBatch(w, checkpoint)
  PROVE  \E r \in Row : Age(r)' > Age(r)
<1> USE DEF IInv
<1>1. PICK anchor \in Ready(checkpoint) :
        \/ /\ Spent(anchor) /\ row' = [row EXCEPT ![anchor].status = "exhausted"]
        \/ /\ ~Spent(anchor)
           /\ \E batch \in SUBSET Ready(checkpoint) : anchor \in batch /\ ClaimEach(w, batch)
  <2>1. PICK anchor \in Ready(checkpoint) :
          \/ /\ Spent(anchor) /\ row' = [row EXCEPT ![anchor].status = "exhausted"]
          \/ /\ ~Spent(anchor)
             /\ \E windowEnd \in anchor .. Rows :
                  ClaimEach(w, {r \in Ready(checkpoint) :
                                  row[r].priority = row[anchor].priority /\ r <= windowEnd})
    BY DEF ClaimBatch
  <2>2. \A windowEnd \in anchor .. Rows :
          anchor \in {r \in Ready(checkpoint) :
                        row[r].priority = row[anchor].priority /\ r <= windowEnd}
    BY DEF Ready
  <2> QED BY <2>1, <2>2
<1>2. anchor \in Row /\ Free(anchor) /\ row[anchor] \in Item /\ row \in [Row -> Item]
  BY DEF Ready, Types
<1>3. \/ row'[anchor] = [row[anchor] EXCEPT !.status = "exhausted"]
      \/ row'[anchor] = [row[anchor] EXCEPT !.status = "reserved"]
      \/ row'[anchor] = Claimed(anchor, w)
  <2>1. CASE Spent(anchor) BY <1>1, <1>2, <2>1
  <2>2. CASE ~Spent(anchor)
    <3>1. PICK batch \in SUBSET Ready(checkpoint) : anchor \in batch /\ ClaimEach(w, batch)
      BY <1>1, <2>2
    <3>2. batch \subseteq Row BY DEF Ready
    <3>3. row'[anchor] = IF ReservedElsewhere(anchor, w)
                           THEN [row[anchor] EXCEPT !.status = "reserved"]
                           ELSE Claimed(anchor, w)
      BY <1>2, <2>2, <3>1 DEF ClaimEach
    <3> QED BY <3>3
  <2> QED BY <2>1, <2>2
<1>4. Age(anchor)' > Age(anchor)
  <2>1. CASE row'[anchor] = Claimed(anchor, w)
    <3>1. /\ row'[anchor].status = "observed"
          /\ row'[anchor].attempts = IF row[anchor].status = "observed"
                                       THEN row[anchor].attempts + 1 ELSE row[anchor].attempts
          /\ row'[anchor].lease = "live"
      BY <1>2, <2>1, ClaimedFields
    <3>2. row[anchor].attempts \in Nat BY <1>2 DEF Item
    <3> QED BY <1>2, <3>1, <3>2 DEF Age, Free
  <2>2. CASE \E s \in {"exhausted", "reserved"} : row'[anchor] = [row[anchor] EXCEPT !.status = s]
    BY <1>2, <2>2 DEF Age, Item, Free
  <2> QED BY <1>3, <2>1, <2>2
<1> QED BY <1>2, <1>4

\* A message is settled after a bounded number of claims: each claim brings one
\* forward, none ever goes back, and how far they go is bounded.
THEOREM ClaimsRunOut ==
  Spec => /\ [](\A r \in Row : Age(r) \in 0 .. 2 * MaxAttempts + 4)
          /\ [][OnlyForward /\ ClaimsAdvance]_vars
<1>1. IInv => \A r \in Row : Age(r) \in 0 .. 2 * MaxAttempts + 4
  BY DEF IInv, Types, Item, Age
<1>2. IInv /\ [Next]_vars => [OnlyForward /\ ClaimsAdvance]_vars
  BY Steps, RowMoves, MovesForward, AnchorMoves DEF OnlyForward, ClaimsAdvance
<1> QED BY <1>1, <1>2, InductiveInvariant, PTL DEF Spec

\* The order of a batch has a first row.
LEMMA AnchorExists ==
  ASSUME Types, NEW S \in SUBSET Row, S # {}
  PROVE  \E anchor \in S : \A r \in S : Before(anchor, r)
<1> DEFINE P == {row[r].priority : r \in S}
<1>1. P \in SUBSET Nat /\ P # {}
  <2>1. \A r \in S : row[r].priority \in {10, 50, 100} BY DEF Types, Item
  <2>2. \A n \in P : n \in Nat BY <2>1
  <2> QED BY <2>2
<1>2. PICK a \in S : \A r \in S : row[a].priority <= row[r].priority
  <2>1. \E n \in P : \A m \in P : n <= m BY <1>1, Least
  <2> QED BY <2>1
<1> DEFINE T == {r \in S : row[r].priority = row[a].priority}
<1>3. T \in SUBSET Nat /\ T # {}
  <2>1. a \in T OBVIOUS
  <2>2. \A r \in T : r \in Nat OBVIOUS
  <2> QED BY <2>1, <2>2
<1>4. PICK b \in T : \A r \in T : b <= r BY <1>3, Least
<1>5. \A r \in S : row[r].priority \in Nat BY SMTT(30) DEF Types, Item
<1>6. \A r \in S : Before(b, r) BY <1>2, <1>4, <1>5 DEF Before
<1> QED BY <1>4, <1>6

\* A run that goes on has a row to vet, one to apply, a batch to push or a batch to
\* claim, unless nothing waits but what is under somebody's live lease.
SweepMoves ==
  \A w \in Run : alive[w] =>
    \/ claim[w] # {} \/ usable[w] # {} \/ taken[w] # {}
    \/ \E anchor \in Ready("before_model_turn") :
         \A r \in Ready("before_model_turn") : Before(anchor, r)
    \/ \A r \in Row : Waiting(r) => row[r].status = "observed" /\ row[r].lease = "live"

\* No message waits for a run whose sweep is stuck.
THEOREM SweepIsNeverStuck == Spec => []SweepMoves
<1>1. IInv /\ Leased => SweepMoves
  <2> SUFFICES ASSUME IInv, Leased, NEW w \in Run,
                      NEW r \in Row, Waiting(r),
                      ~(row[r].status = "observed" /\ row[r].lease = "live")
               PROVE  \E anchor \in Ready("before_model_turn") :
                        \A q \in Ready("before_model_turn") : Before(anchor, q)
    BY DEF SweepMoves
  <2>1. row[r].lease # "live" /\ row[r].status = "observed" => row[r].lease = "expired"
    BY DEF IInv, Types, Item, Leased
  <2>2. r \in Ready("before_model_turn") BY <2>1 DEF Waiting, Ready, Free
  <2>3. Ready("before_model_turn") \in SUBSET Row BY DEF Ready
  <2> QED BY <2>2, <2>3, AnchorExists DEF IInv
<1> QED BY <1>1, LeasedAlways, InductiveInvariant, PTL
=============================================================================
