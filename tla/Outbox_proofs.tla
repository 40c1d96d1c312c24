---------------------------- MODULE Outbox_proofs ----------------------------
(***************************************************************************)
(* Proofs about Outbox, for any number of rows, of overlapping batches, of *)
(* retries and of faults, and any batch size and concurrency.              *)
(***************************************************************************)
EXTENDS Outbox, TLAPS

-----------------------------------------------------------------------------
(* A claim that has the broker's confirmation is for a published row.      *)
ConfirmedIsPublished ==
  \A b \in Batches, r \in Rows : claims[b][r].pc = "confirmed" => r \in published

(* An abandoned row is never stranded: as long as it is "processing" it    *)
(* has a lease, the only thing by which it can be reclaimed.               *)
ProcessingIsLeased ==
  \A r \in Rows : table[r].status = "processing" => table[r].lease # "none"

IInv ==
  /\ TypeOK
  /\ ConfirmedIsPublished
  /\ ProcessedIsPublished
  /\ FailedIsExhausted
  /\ ClaimsAreDistinct
  /\ ProcessingIsLeased

LEMMA InitInv == Init => IInv
<1> SUFFICES ASSUME Init
             PROVE  IInv
  OBVIOUS
<1>1. TypeOK
  BY DEF Init, TypeOK, AbsentRow, Row, NoClaim, Claim
<1> QED
  BY <1>1 DEF Init, IInv, ConfirmedIsPublished, ProcessedIsPublished, FailedIsExhausted,
     ClaimsAreDistinct, ProcessingIsLeased, AbsentRow, NoClaim, Active

-----------------------------------------------------------------------------
(* An UPDATE of one row keeps the table well typed, the other rows and the *)
(* row's attempts.                                                         *)
LEMMA PutType ==
  ASSUME TypeOK, NEW r \in Rows,
         NEW st \in {"absent", "pending", "processing", "processed", "failed"},
         NEW lease \in {"none", "live", "expired"}, NEW due \in BOOLEAN,
         Put(r, st, lease, due)
  PROVE  /\ table' \in [Rows -> Row]
         /\ \A q \in Rows : table'[q].attempts = table[q].attempts
         /\ \A q \in Rows \ {r} : table'[q] = table[q]
         /\ table'[r].status = st /\ table'[r].lease = lease
  BY DEF TypeOK, Row, Put

(* The table's own steps: a handler's insert, the passing of time, and a   *)
(* publish that ends after its caller gave up.                             *)
LEMMA RowStepInv ==
  ASSUME IInv, NEW r \in Rows, RowStep(r)
  PROVE  IInv'
<1>0. TypeOK
  BY DEF IInv
<1>1. UNCHANGED claims /\ published \subseteq published'
  BY DEF RowStep, Record, LeaseExpires, BackoffElapses, LingeringPublish, Put
<1>2. TypeOK'
  <2>1. CASE Record(r) \/ LeaseExpires(r) \/ BackoffElapses(r)
    <3>1. PICK st \in {"absent", "pending", "processing", "processed", "failed"},
               lease \in {"none", "live", "expired"}, due \in BOOLEAN : Put(r, st, lease, due)
      BY <1>0, <2>1 DEF TypeOK, Row, Record, LeaseExpires, BackoffElapses
    <3>2. table' \in [Rows -> Row]
      BY <1>0, <3>1, PutType
    <3> QED
      BY <1>0, <2>1, <3>2 DEF TypeOK, Record, LeaseExpires, BackoffElapses
  <2>2. CASE LingeringPublish(r)
    BY <1>0, <2>2 DEF TypeOK, LingeringPublish
  <2> QED
    BY <2>1, <2>2 DEF RowStep
<1>3. \A q \in Rows :
        /\ table'[q].attempts = table[q].attempts
        /\ table'[q].status \in {"processing", "processed", "failed"} =>
             table'[q].status = table[q].status
        /\ table'[q].status = "processing" => (table[q].lease # "none" => table'[q].lease # "none")
  BY <1>0 DEF TypeOK, Row, RowStep, Record, LeaseExpires, BackoffElapses, LingeringPublish, Put
<1> QED
  BY <1>1, <1>2, <1>3 DEF IInv, ConfirmedIsPublished, ProcessedIsPublished, FailedIsExhausted,
     ClaimsAreDistinct, ProcessingIsLeased, Active

(* A batch's claims are newer than every claim that is alive.              *)
LEMMA FetchInv ==
  ASSUME IInv, NEW b \in Batches, NEW batch \in SUBSET Rows, FetchAndMarkProcessing(b, batch)
  PROVE  IInv'
<1>0. TypeOK
  BY DEF IInv
<1>1. /\ \A q \in batch : /\ table'[q].status = "processing"
                          /\ table'[q].lease = "live"
                          /\ table'[q].attempts = table[q].attempts + 1
      /\ \A q \in Rows \ batch : table'[q] = table[q]
  BY <1>0 DEF FetchAndMarkProcessing, TypeOK, Row
<1>2. /\ \A q \in batch : /\ claims'[b][q].pc = "queued"
                          /\ claims'[b][q].attempts = table[q].attempts + 1
      /\ \A q \in Rows \ batch : claims'[b][q].pc = "none"
  BY <1>0 DEF FetchAndMarkProcessing, TypeOK, NoClaim, Row
<1>3. \A c \in Batches \ {b} : claims'[c] = claims[c]
  BY <1>0 DEF FetchAndMarkProcessing, TypeOK
<1>4. TypeOK'
  <2>1. table' \in [Rows -> Row]
    BY <1>0 DEF FetchAndMarkProcessing, TypeOK, Row
  <2>2. [r \in Rows |-> IF r \in batch THEN [pc |-> "queued", attempts |-> table[r].attempts + 1]
                                       ELSE NoClaim] \in [Rows -> Claim]
    BY <1>0 DEF TypeOK, Row, Claim, NoClaim
  <2> QED
    BY <1>0, <2>1, <2>2 DEF FetchAndMarkProcessing, TypeOK
<1>5. ClaimsAreDistinct'
  <2>1. \A c \in Batches \ {b}, q \in Rows : claims'[c][q] = claims[c][q]
    BY <1>3
  <2>2. \A c \in Batches, q \in Rows : Active(c, q) => claims[c][q].attempts <= table[q].attempts
    BY DEF IInv, ClaimsAreDistinct
  <2>3. \A c \in Batches, q \in Rows :
          table[q].attempts \in Nat /\ claims[c][q].attempts \in Nat
    BY <1>0 DEF TypeOK, Row, Claim
  <2>4. ASSUME NEW q \in Rows, Active(b, q)'
        PROVE  /\ claims'[b][q].attempts = table[q].attempts + 1
               /\ table'[q].attempts = table[q].attempts + 1
    <3>1. q \in batch
      BY <1>2, <2>4 DEF Active
    <3> QED
      BY <1>1, <1>2, <3>1
  <2>5. ASSUME NEW c \in Batches \ {b}, NEW q \in Rows, Active(c, q)'
        PROVE  /\ Active(c, q)
               /\ claims'[c][q].attempts <= table[q].attempts
               /\ table[q].attempts <= table'[q].attempts
    <3>1. Active(c, q) /\ claims'[c][q].attempts = claims[c][q].attempts
      BY <2>1, <2>5 DEF Active
    <3>2. table'[q].attempts \in {table[q].attempts, table[q].attempts + 1}
      BY <1>1, <2>3
    <3> QED
      BY <2>2, <2>3, <3>1, <3>2
  <2>6. ASSUME NEW q \in Rows, NEW c \in Batches, Active(c, q)'
        PROVE  claims'[c][q].attempts <= table'[q].attempts
    <3>1. CASE c = b
      BY <2>3, <2>4, <2>6, <3>1
    <3>2. CASE c # b
      <4>1. /\ table'[q].attempts \in Nat /\ table[q].attempts \in Nat
            /\ claims'[c][q].attempts \in Nat
        BY <1>4, <2>3 DEF TypeOK, Row, Claim
      <4> QED
        BY <2>5, <2>6, <3>2, <4>1
    <3> QED
      BY <3>1, <3>2
  <2>7. ASSUME NEW q \in Rows, NEW c \in Batches, NEW d \in Batches, c # d,
               Active(c, q)', Active(d, q)'
        PROVE  claims'[c][q].attempts # claims'[d][q].attempts
    <3>1. CASE c # b /\ d # b
      BY <2>1, <2>5, <2>7, <3>1 DEF IInv, ClaimsAreDistinct
    <3>2. CASE c = b
      BY <2>1, <2>3, <2>4, <2>5, <2>7, <3>2
    <3>3. CASE d = b
      BY <2>1, <2>3, <2>4, <2>5, <2>7, <3>3
    <3> QED
      BY <3>1, <3>2, <3>3
  <2> QED
    BY <2>6, <2>7 DEF ClaimsAreDistinct
<1>6. ConfirmedIsPublished'
  BY <1>2, <1>3 DEF FetchAndMarkProcessing, IInv, ConfirmedIsPublished, NoClaim
<1>7. ProcessedIsPublished' /\ FailedIsExhausted' /\ ProcessingIsLeased'
  BY <1>1 DEF FetchAndMarkProcessing, IInv, ProcessedIsPublished, FailedIsExhausted, ProcessingIsLeased
<1> QED
  BY <1>4, <1>5, <1>6, <1>7 DEF IInv

(* A step of one claim changes that claim's counter or drops the claim,    *)
(* and may settle or release the row.                                      *)
LEMMA ClaimStepInv ==
  ASSUME IInv, NEW b \in Batches, NEW r \in Rows, ClaimStep(b, r)
  PROVE  IInv'
<1>0. TypeOK
  BY DEF IInv
<1>1. (\E pc \in {"publishing", "confirmed", "error"} : SetClaim(b, r, pc)) \/ DropClaim(b, r)
  BY DEF ClaimStep, StartPublish, ReleaseUnprocessed, PublishConfirmed, PublishError,
     PublishTimeout, MarkProcessed, ReleaseForRetry, MarkFailed, BookkeepingError
<1>2. PICK claim \in Claim :
        /\ claims' = [claims EXCEPT ![b][r] = claim]
        /\ claim.pc # "none" => claim.attempts = claims[b][r].attempts
  <2>1. CASE \E pc \in {"publishing", "confirmed", "error"} : SetClaim(b, r, pc)
    <3>1. PICK pc \in {"publishing", "confirmed", "error"} : SetClaim(b, r, pc)
      BY <2>1
    <3>2. [pc |-> pc, attempts |-> claims[b][r].attempts] \in Claim
      BY <1>0 DEF TypeOK, Claim
    <3>3. claims' = [claims EXCEPT ![b][r] = [pc |-> pc, attempts |-> claims[b][r].attempts]]
      BY <3>1 DEF SetClaim
    <3>4. [pc |-> pc, attempts |-> claims[b][r].attempts].attempts = claims[b][r].attempts
      OBVIOUS
    <3> QED
      BY <3>2, <3>3, <3>4
  <2>2. CASE DropClaim(b, r)
    <3>1. NoClaim \in Claim /\ NoClaim.pc = "none"
      BY DEF NoClaim, Claim
    <3> QED
      BY <2>2, <3>1 DEF DropClaim
  <2> QED
    BY <1>1, <2>1, <2>2
<1>3. /\ claims' \in [Batches -> [Rows -> Claim]]
      /\ claims'[b][r] = claim
      /\ \A c \in Batches, q \in Rows : (c # b \/ q # r) => claims'[c][q] = claims[c][q]
  BY <1>0, <1>2 DEF TypeOK
<1>4. Active(b, r)
  BY DEF Active, ClaimStep, StartPublish, ReleaseUnprocessed, PublishConfirmed, PublishError,
     PublishTimeout, MarkProcessed, ReleaseForRetry, MarkFailed, BookkeepingError, Put
<1>5. \A c \in Batches, q \in Rows :
        Active(c, q)' => Active(c, q) /\ claims'[c][q].attempts = claims[c][q].attempts
  BY <1>2, <1>3, <1>4 DEF Active
<1>6. published' \in SUBSET Rows /\ published \subseteq published'
  BY <1>0 DEF TypeOK, ClaimStep, StartPublish, ReleaseUnprocessed, PublishConfirmed, PublishError,
     PublishTimeout, MarkProcessed, ReleaseForRetry, MarkFailed, BookkeepingError, Put
<1>7. /\ table' \in [Rows -> Row]
      /\ \A q \in Rows : table'[q].attempts = table[q].attempts
      /\ \A q \in Rows \ {r} : table'[q] = table[q]
      /\ \/ table'[r] = table[r]
         \/ table'[r].status = "pending"
         \/ table'[r].status = "processed" /\ claims[b][r].pc = "confirmed"
         \/ table'[r].status = "failed" /\ claims[b][r].attempts >= MaxRetries
  <2>1. CASE UNCHANGED table
    BY <1>0, <2>1 DEF TypeOK
  <2>2. CASE ~UNCHANGED table
    <3>1. PICK st \in {"pending", "processed", "failed"}, due \in BOOLEAN :
            /\ Put(r, st, "none", due)
            /\ st = "processed" => claims[b][r].pc = "confirmed"
            /\ st = "failed" => claims[b][r].attempts >= MaxRetries
      BY <1>0, <2>2 DEF TypeOK, Row, ClaimStep, StartPublish, ReleaseUnprocessed, PublishConfirmed,
         PublishError, PublishTimeout, MarkProcessed, ReleaseForRetry, MarkFailed, BookkeepingError
    <3> QED
      BY <1>0, <3>1, PutType
  <2> QED
    BY <2>1, <2>2
<1>8. lingering' \in SUBSET Rows /\ worker' = worker /\ faults' \in Nat
  <2>1. faults' = faults \/ Fault
    BY DEF ClaimStep, StartPublish, ReleaseUnprocessed, PublishConfirmed, PublishError,
       PublishTimeout, MarkProcessed, ReleaseForRetry, MarkFailed, BookkeepingError
  <2>2. faults' \in Nat
    BY <1>0, <2>1 DEF TypeOK, Fault
  <2>3. lingering' \in SUBSET Rows /\ worker' = worker
    BY <1>0 DEF TypeOK, ClaimStep, StartPublish, ReleaseUnprocessed, PublishConfirmed,
       PublishError, PublishTimeout, MarkProcessed, ReleaseForRetry, MarkFailed, BookkeepingError
  <2> QED
    BY <2>2, <2>3
<1>9. TypeOK'
  BY <1>0, <1>3, <1>6, <1>7, <1>8 DEF TypeOK
<1>10. ClaimsAreDistinct'
  BY <1>3, <1>5, <1>7 DEF IInv, ClaimsAreDistinct
<1>11. ConfirmedIsPublished'
  <2>1. claims'[b][r].pc = "confirmed" => r \in published'
    <3>1. CASE PublishConfirmed(b, r)
      BY <3>1 DEF PublishConfirmed
    <3>2. CASE ~PublishConfirmed(b, r)
      <4>1. SetClaim(b, r, "publishing") \/ SetClaim(b, r, "error") \/ DropClaim(b, r)
        BY <3>2 DEF ClaimStep, StartPublish, ReleaseUnprocessed, PublishError, PublishTimeout,
           MarkProcessed, ReleaseForRetry, MarkFailed, BookkeepingError
      <4>2. claims'[b][r].pc \in {"publishing", "error", "none"}
        BY <1>0, <4>1 DEF TypeOK, SetClaim, DropClaim, NoClaim
      <4> QED
        BY <4>2
    <3> QED
      BY <3>1, <3>2
  <2> QED
    BY <1>3, <1>6, <2>1 DEF IInv, ConfirmedIsPublished
<1>12. ProcessedIsPublished'
  BY <1>6, <1>7 DEF IInv, ProcessedIsPublished, ConfirmedIsPublished
<1>13. FailedIsExhausted'
  <2>1. claims[b][r].attempts <= table[r].attempts
    BY <1>4 DEF IInv, ClaimsAreDistinct
  <2>2. claims[b][r].attempts \in Nat /\ table[r].attempts \in Nat
    BY <1>0 DEF TypeOK, Row, Claim
  <2>3. table'[r].status = "failed" => table'[r].attempts >= MaxRetries
    BY <1>7, <2>1, <2>2, OutboxAssumption DEF IInv, FailedIsExhausted
  <2> QED
    BY <1>7, <2>3 DEF IInv, FailedIsExhausted
<1>14. ProcessingIsLeased'
  BY <1>7 DEF IInv, ProcessingIsLeased
<1> QED
  BY <1>9, <1>10, <1>11, <1>12, <1>13, <1>14 DEF IInv

(* The end of the process takes its claims with it, and nothing else.      *)
LEMMA WorkerInv ==
  ASSUME IInv, Stop \/ Exit \/ Crash \/ Restart
  PROVE  IInv'
<1>1. UNCHANGED <<table, published>> /\ (claims' = claims \/ \A b \in Batches, r \in Rows :
                                                          claims'[b][r] = NoClaim)
  BY DEF Stop, Exit, Crash, Restart, GoDown
<1>2. TypeOK'
  BY DEF IInv, TypeOK, Stop, Exit, Crash, Restart, GoDown, Fault, NoClaim, Claim
<1> QED
  BY <1>1, <1>2 DEF IInv, ConfirmedIsPublished, ProcessedIsPublished, FailedIsExhausted,
     ClaimsAreDistinct, ProcessingIsLeased, Active, NoClaim

LEMMA StepInv == IInv /\ [Next]_vars => IInv'
<1> SUFFICES ASSUME IInv, [Next]_vars
             PROVE  IInv'
  OBVIOUS
<1>1. CASE UNCHANGED vars
  BY <1>1 DEF vars, IInv, TypeOK, ConfirmedIsPublished, ProcessedIsPublished, FailedIsExhausted,
     ClaimsAreDistinct, ProcessingIsLeased, Active
<1> QED
  BY <1>1, RowStepInv, FetchInv, ClaimStepInv, WorkerInv DEF Next

LEMMA Inductive == Spec => []IInv
  BY InitInv, StepInv, PTL DEF Spec

-----------------------------------------------------------------------------
(* Every reachable state of the table and of the batches is well typed.    *)
THEOREM TypeCorrect == Spec => []TypeOK
  BY Inductive, PTL DEF IInv

(* A row booked as processed has been confirmed by the broker.             *)
THEOREM Processed_Published == Spec => []ProcessedIsPublished
  BY Inductive, PTL DEF IInv

(* A row given up has used up its budget of claims.                        *)
THEOREM Failed_Exhausted == Spec => []FailedIsExhausted
  BY Inductive, PTL DEF IInv

(* The attempt number identifies a live claim.                             *)
THEOREM Claims_Distinct == Spec => []ClaimsAreDistinct
  BY Inductive, PTL DEF IInv

(* A row in processing can always be reclaimed.                            *)
THEOREM Processing_Leased == Spec => []ProcessingIsLeased
  BY Inductive, PTL DEF IInv

(* No claim puts a settled row back to work.                               *)
THEOREM Settled_Stays == Spec => SettledStays
<1>1. ASSUME IInv, [Next]_vars
      PROVE  [\A r \in Rows :
                /\ table[r].status = "processed" => table'[r].status \in {"processed", "failed"}
                /\ table[r].status = "failed" => table'[r].status = "failed"]_vars
  <2>1. SUFFICES ASSUME Next, NEW q \in Rows, table[q].status \in {"processed", "failed"}
                 PROVE  /\ table[q].status = "processed" => table'[q].status \in {"processed", "failed"}
                        /\ table[q].status = "failed" => table'[q].status = "failed"
    BY <1>1
  <2>0. TypeOK
    BY <1>1 DEF IInv
  <2>2. ASSUME NEW r \in Rows, RowStep(r)
        PROVE  table'[q].status = table[q].status
    BY <2>0, <2>1, <2>2 DEF TypeOK, Row, RowStep, Record, LeaseExpires, BackoffElapses,
       LingeringPublish, Put
  <2>3. ASSUME NEW b \in Batches, NEW batch \in SUBSET Rows, FetchAndMarkProcessing(b, batch)
        PROVE  table'[q].status = table[q].status
    BY <2>1, <2>3 DEF FetchAndMarkProcessing, Claimable
  <2>4. ASSUME NEW b \in Batches, NEW r \in Rows, ClaimStep(b, r)
        PROVE  table'[q].status \in {table[q].status, "failed"}
    BY <2>0, <2>1, <2>4 DEF TypeOK, Row, ClaimStep, StartPublish, ReleaseUnprocessed,
       PublishConfirmed, PublishError, PublishTimeout, MarkProcessed, ReleaseForRetry,
       MarkFailed, BookkeepingError, Put
  <2>5. CASE Stop \/ Exit \/ Crash \/ Restart
    BY <2>5 DEF Stop, Exit, Crash, Restart, GoDown
  <2> QED
    BY <2>1, <2>2, <2>3, <2>4, <2>5 DEF Next
<1> QED
  BY Inductive, <1>1, PTL DEF Spec, SettledStays
=============================================================================
