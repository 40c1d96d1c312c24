------------------------------- MODULE Outbox -------------------------------
(***************************************************************************)
(* The transactional outbox relay, the same code in order-, payment-,      *)
(* restaurant-, identity- and customer-service: a table of events and a    *)
(* worker that polls it every two seconds, claims what is due under a      *)
(* thirty-second lease, publishes with publisher confirms and books the    *)
(* result.  A tick does not wait for the previous tick's batch, and a row's*)
(* lease runs while it queues for the batch's semaphore, so one row may be *)
(* claimed by several batches at a time; nothing but the row's status      *)
(* guards what they book.                                                  *)
(***************************************************************************)
EXTENDS Naturals, FiniteSets

CONSTANTS Rows,         \* outbox events
          Batches,      \* batches in progress at a time
          BatchSize,    \* rows a batch claims at most
          Concurrency,  \* rows a batch publishes at a time
          MaxRetries,   \* claims after which a publish error is final
          MaxFaults     \* publish and database errors, stops and crashes

ASSUME OutboxAssumption == /\ BatchSize \in Nat \ {0}
                           /\ Concurrency \in Nat \ {0}
                           /\ MaxRetries \in Nat \ {0}
                           /\ MaxFaults \in Nat

VARIABLES
  table,      \* outbox_events
  published,  \* rows the broker has accepted at least once
  claims,     \* what each batch holds: the row as fetched and how far it got
  lingering,  \* rows whose publish goes on after its caller gave up
  worker,     \* the worker process
  faults      \* faults injected so far

vars == <<table, published, claims, lingering, worker, faults>>

(* locked_until and next_attempt_at only matter compared with NOW().       *)
Row == [status   : {"absent", "pending", "processing", "processed", "failed"},
        attempts : Nat,
        lease    : {"none", "live", "expired"},
        due      : BOOLEAN]
Claim == [pc : {"none", "queued", "publishing", "confirmed", "error"}, attempts : Nat]

AbsentRow == [status |-> "absent", attempts |-> 0, lease |-> "none", due |-> TRUE]
NoClaim == [pc |-> "none", attempts |-> 0]

TypeOK ==
  /\ table \in [Rows -> Row]
  /\ published \in SUBSET Rows
  /\ claims \in [Batches -> [Rows -> Claim]]
  /\ lingering \in SUBSET Rows
  /\ worker \in {"running", "stopping", "down"}
  /\ faults \in Nat

Init ==
  /\ table = [r \in Rows |-> AbsentRow]
  /\ published = {}
  /\ claims = [b \in Batches |-> [r \in Rows |-> NoClaim]]
  /\ lingering = {}
  /\ worker = "running"
  /\ faults = 0

Fault == faults < MaxFaults /\ faults' = faults + 1

(* An UPDATE of one row; attempts only ever changes by a claim.            *)
Put(r, status, lease, due) ==
  table' = [table EXCEPT ![r] = [status |-> status, attempts |-> @.attempts,
                                 lease |-> lease, due |-> due]]

SetClaim(b, r, pc) ==
  claims' = [claims EXCEPT ![b][r] = [pc |-> pc, attempts |-> @.attempts]]
DropClaim(b, r) == claims' = [claims EXCEPT ![b][r] = NoClaim]

-----------------------------------------------------------------------------
(* A handler records the event in its own transaction (Create).            *)
Record(r) ==
  /\ table[r].status = "absent"
  /\ Put(r, "pending", "none", TRUE)
  /\ UNCHANGED <<published, claims, lingering, worker, faults>>

(* Time passes a row's lease, or its next_attempt_at.                      *)
LeaseExpires(r) ==
  /\ table[r].lease = "live"
  /\ Put(r, table[r].status, "expired", table[r].due)
  /\ UNCHANGED <<published, claims, lingering, worker, faults>>

BackoffElapses(r) ==
  /\ ~table[r].due
  /\ Put(r, table[r].status, table[r].lease, TRUE)
  /\ UNCHANGED <<published, claims, lingering, worker, faults>>

-----------------------------------------------------------------------------
(* processBatch                                                            *)

(* Slip: leases are written but never looked at again.                     *)
Claimable_pendingOnly(r) ==
  table[r].status = "pending" /\ table[r].lease # "live" /\ table[r].due

Claimable(r) ==
  \/ table[r].status = "pending" /\ table[r].lease # "live" /\ table[r].due
  \/ table[r].status = "processing" /\ table[r].lease = "expired"

(* Slip: the claim counts itself only in the copy it hands out.            *)
FetchAndMarkProcessing_uncounted(b, batch) ==
  /\ worker = "running"
  /\ \A r \in Rows : claims[b][r].pc = "none"
  /\ batch # {} /\ Cardinality(batch) <= BatchSize
  /\ \A r \in batch : Claimable(r)
  /\ table' = [r \in Rows |->
                 IF r \in batch
                   THEN [status |-> "processing", attempts |-> table[r].attempts,
                         lease |-> "live", due |-> table[r].due]
                   ELSE table[r]]
  /\ claims' = [claims EXCEPT ![b] =
                  [r \in Rows |-> IF r \in batch
                                    THEN [pc |-> "queued", attempts |-> table[r].attempts + 1]
                                    ELSE NoClaim]]
  /\ UNCHANGED <<published, lingering, worker, faults>>

(* One UPDATE claims the whole batch; SKIP LOCKED lets it miss some rows.  *)
FetchAndMarkProcessing(b, batch) ==
  /\ worker = "running"
  /\ \A r \in Rows : claims[b][r].pc = "none"
  /\ batch # {} /\ Cardinality(batch) <= BatchSize
  /\ \A r \in batch : Claimable(r)
  /\ table' = [r \in Rows |->
                 IF r \in batch
                   THEN [status |-> "processing", attempts |-> table[r].attempts + 1,
                         lease |-> "live", due |-> table[r].due]
                   ELSE table[r]]
  /\ claims' = [claims EXCEPT ![b] =
                  [r \in Rows |-> IF r \in batch
                                    THEN [pc |-> "queued", attempts |-> table[r].attempts + 1]
                                    ELSE NoClaim]]
  /\ UNCHANGED <<published, lingering, worker, faults>>

StartPublish(b, r) ==
  /\ worker = "running"
  /\ claims[b][r].pc = "queued"
  /\ Cardinality({q \in Rows : claims[b][q].pc \in {"publishing", "confirmed", "error"}})
       < Concurrency
  /\ SetClaim(b, r, "publishing")
  /\ UNCHANGED <<table, published, lingering, worker, faults>>

(* Shutdown: what no goroutine took yet is released without delay; what a  *)
(* goroutine took but did not start is dropped, and waits for its lease.   *)
ReleaseUnprocessed(b, r) ==
  /\ worker = "stopping"
  /\ claims[b][r].pc = "queued"
  /\ \/ /\ table[r].status = "processing"
        /\ Put(r, "pending", "none", TRUE)
     \/ UNCHANGED table
  /\ DropClaim(b, r)
  /\ UNCHANGED <<published, lingering, worker, faults>>

-----------------------------------------------------------------------------
(* Publish: the broker confirms, or an error comes back whether or not the *)
(* broker has the message, or the caller's context ends first and the      *)
(* publish goes on behind its back.                                        *)
PublishConfirmed(b, r) ==
  /\ claims[b][r].pc = "publishing"
  /\ published' = published \cup {r}
  /\ SetClaim(b, r, "confirmed")
  /\ UNCHANGED <<table, lingering, worker, faults>>

(* Slip: a closed confirm channel is taken for an ack.                     *)
PublishError_swallowed(b, r) ==
  /\ claims[b][r].pc = "publishing"
  /\ Fault
  /\ published' \in {published, published \cup {r}}
  /\ SetClaim(b, r, "confirmed")
  /\ UNCHANGED <<table, lingering, worker>>

PublishError(b, r) ==
  /\ claims[b][r].pc = "publishing"
  /\ Fault
  /\ published' \in {published, published \cup {r}}
  /\ SetClaim(b, r, "error")
  /\ UNCHANGED <<table, lingering, worker>>

PublishTimeout(b, r) ==
  /\ claims[b][r].pc = "publishing"
  /\ \/ worker = "stopping" /\ UNCHANGED faults
     \/ Fault
  /\ lingering' \in {lingering, lingering \cup {r}}
  /\ SetClaim(b, r, "error")
  /\ UNCHANGED <<table, published, worker>>

LingeringPublish(r) ==
  /\ r \in lingering
  /\ lingering' = lingering \ {r}
  /\ published' \in {published, published \cup {r}}
  /\ UNCHANGED <<table, claims, worker, faults>>

-----------------------------------------------------------------------------
(* handleEvent books the result against whatever the row is by now         *)

MarkProcessed(b, r) ==
  /\ claims[b][r].pc = "confirmed"
  /\ IF table[r].status = "processing" THEN Put(r, "processed", "none", TRUE)
                                        ELSE UNCHANGED table
  /\ DropClaim(b, r)
  /\ UNCHANGED <<published, lingering, worker, faults>>

(* A slip: the WHERE clause forgets the status.                            *)
ReleaseForRetry_unguarded(b, r) ==
  /\ claims[b][r].pc = "error"
  /\ claims[b][r].attempts < MaxRetries
  /\ Put(r, "pending", "none", FALSE)
  /\ DropClaim(b, r)
  /\ UNCHANGED <<published, lingering, worker, faults>>

ReleaseForRetry(b, r) ==
  /\ claims[b][r].pc = "error"
  /\ claims[b][r].attempts < MaxRetries
  /\ IF table[r].status = "processing" THEN Put(r, "pending", "none", FALSE)
                                        ELSE UNCHANGED table
  /\ DropClaim(b, r)
  /\ UNCHANGED <<published, lingering, worker, faults>>

(* By id alone, whatever the row's status.                                 *)
MarkFailed(b, r) ==
  /\ claims[b][r].pc = "error"
  /\ claims[b][r].attempts >= MaxRetries
  /\ Put(r, "failed", "none", table[r].due)
  /\ DropClaim(b, r)
  /\ UNCHANGED <<published, lingering, worker, faults>>

(* The database refuses the booking: logged, the row stays as it is.       *)
BookkeepingError(b, r) ==
  /\ claims[b][r].pc \in {"confirmed", "error"}
  /\ Fault
  /\ DropClaim(b, r)
  /\ UNCHANGED <<table, published, lingering, worker>>

-----------------------------------------------------------------------------
(* The process: SIGTERM, its end (shutdown waits for the batches, but only *)
(* StopTimeout), a crash, and the restart.                                 *)
Stop ==
  /\ worker = "running"
  /\ Fault
  /\ worker' = "stopping"
  /\ UNCHANGED <<table, published, claims, lingering>>

GoDown ==
  /\ worker' = "down"
  /\ claims' = [b \in Batches |-> [r \in Rows |-> NoClaim]]
  /\ lingering' = {}
  /\ UNCHANGED <<table, published>>

Exit == worker = "stopping" /\ GoDown /\ UNCHANGED faults

Crash == worker # "down" /\ Fault /\ GoDown

Restart ==
  /\ worker = "down"
  /\ worker' = "running"
  /\ UNCHANGED <<table, published, claims, lingering, faults>>

-----------------------------------------------------------------------------
RowStep(r) ==
  Record(r) \/ LeaseExpires(r) \/ BackoffElapses(r) \/ LingeringPublish(r)

ClaimStep(b, r) ==
  \/ StartPublish(b, r) \/ ReleaseUnprocessed(b, r)
  \/ PublishConfirmed(b, r) \/ PublishError(b, r) \/ PublishTimeout(b, r)
  \/ MarkProcessed(b, r) \/ ReleaseForRetry(b, r) \/ MarkFailed(b, r)
  \/ BookkeepingError(b, r)

Next ==
  \/ \E r \in Rows : RowStep(r)
  \/ \E b \in Batches, batch \in SUBSET Rows : FetchAndMarkProcessing(b, batch)
  \/ \E b \in Batches, r \in Rows : ClaimStep(b, r)
  \/ Stop \/ Exit \/ Crash \/ Restart

(* Fairness.  Time passes; the ticker fires and a claimable row is at some *)
(* point among the oldest of a batch; a goroutine runs to its end; a       *)
(* stopped or crashed worker is ended and restarted.                       *)
Fairness ==
  /\ \A r \in Rows :
       /\ WF_vars(LeaseExpires(r))
       /\ WF_vars(BackoffElapses(r))
       /\ SF_vars(\E b \in Batches, batch \in SUBSET Rows :
                    r \in batch /\ FetchAndMarkProcessing(b, batch))
  /\ \A b \in Batches, r \in Rows :
       /\ WF_vars(StartPublish(b, r))
       /\ WF_vars(PublishConfirmed(b, r))
       /\ WF_vars(MarkProcessed(b, r) \/ ReleaseForRetry(b, r) \/ MarkFailed(b, r))
  /\ WF_vars(Exit)
  /\ WF_vars(Restart)

Spec == Init /\ [][Next]_vars
FairSpec == Spec /\ Fairness

-----------------------------------------------------------------------------
(* Properties                                                              *)

Active(b, r) == claims[b][r].pc # "none"

(* At least once: a row is booked as processed only if the broker has      *)
(* confirmed it, whichever of several claims books it.                     *)
ProcessedIsPublished ==
  \A r \in Rows : table[r].status = "processed" => r \in published

(* A row is given up only after its whole budget of claims.                *)
FailedIsExhausted ==
  \A r \in Rows : table[r].status = "failed" => table[r].attempts >= MaxRetries

(* The attempt number tells apart all the claims on a row that are alive,  *)
(* and none is from the row's future.                                      *)
ClaimsAreDistinct ==
  \A r \in Rows, b, c \in Batches :
    /\ Active(b, r) => claims[b][r].attempts <= table[r].attempts
    /\ b # c /\ Active(b, r) /\ Active(c, r) => claims[b][r].attempts # claims[c][r].attempts

(* Once a row is settled no claim, however late, puts it back to work: a   *)
(* processed row is never published again by a new claim, a failed row     *)
(* stays for inspection.                                                   *)
SettledStays ==
  [][\A r \in Rows :
       /\ table[r].status = "processed" => table'[r].status \in {"processed", "failed"}
       /\ table[r].status = "failed" => table'[r].status = "failed"]_vars

(* Every recorded event is eventually published or given up, in spite of   *)
(* errors, overlapping batches, shutdowns and crashes.                     *)
RecordedSettles ==
  \A r \in Rows :
    table[r].status = "pending" ~> table[r].status \in {"processed", "failed"}
=============================================================================
