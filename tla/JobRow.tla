------------------------------ MODULE JobRow ------------------------------
(***************************************************************************)
(* One row of the background_jobs table and what each function of          *)
(* job_queue.py does to it.  The module has no variables: JobQueue, and    *)
(* every module that composes the queue with a domain table, builds its    *)
(* actions from these row transformers.                                    *)
(*                                                                         *)
(* Time is relative: wait is run_after minus the present and lease is      *)
(* lease_expires_at minus the present.  A process reads the present with   *)
(* an error d of its own clock, so a transformer that the code gives a     *)
(* timestamp takes d.  A column no statement reads in the row's status is  *)
(* kept at 0, and version, checkpoint, last_error and the event rows,      *)
(* which nothing in the queue reads, are left out.                         *)
(***************************************************************************)
EXTENDS Integers

CONSTANTS
  MaxAttempts,   \* background_jobs.max_attempts
  LeaseTime,     \* lease_seconds, in ticks
  NoOwner,       \* NULL lease_owner
  NoToken        \* NULL lease_token

ASSUME AttemptsAssumption == MaxAttempts \in Nat \ {0}
ASSUME LeaseAssumption == LeaseTime \in Nat \ {0}

Terminal == {"succeeded", "cancelled", "dead_letter"}
Statuses == {"absent", "queued", "running"} \cup Terminal
Stages == {"queued", "claimed", "working", "retry_scheduled", "lease_recovered",
           "operator_requeued"} \cup Terminal
Stamps == {"completed", "failed", "cancelled", "dead_lettered"}

NoRow == [status |-> "absent", stage |-> "queued", attempts |-> 0, wait |-> 0,
          lease |-> 0, owner |-> NoOwner, token |-> NoToken, cancel |-> FALSE,
          stamps |-> {}]

(***************************************************************************)
(* Predicates the queue's WHERE clauses evaluate.                          *)
(***************************************************************************)
Claimable(r, d) == r.status = "queued" /\ r.wait <= d /\ r.attempts < MaxAttempts

Stale(r, d) == r.status = "running" /\ r.lease <= d

\* Mutants of Owned: a guard that trusts the status alone, and one that drops the
\* status and lease conditions.
OwnedByAnyone(r, id, t, d) == r.status = "running" /\ r.lease > d
OwnedByName(r, id, t, d) == r.status = "running" /\ r.owner = id /\ r.lease > d

Owned(r, id, t, d) ==
  r.status = "running" /\ r.owner = id /\ r.token = t /\ r.lease > d

(***************************************************************************)
(* Transformers.                                                           *)
(***************************************************************************)
\* Mutant of Unleased: the lease outlives the transition that should end it.
KeepLease(r) == r

Unleased(r) == [r EXCEPT !.owner = NoOwner, !.token = NoToken, !.lease = 0]

NewRow(delay, d) == [NoRow EXCEPT !.status = "queued", !.wait = delay + d]

ClaimedRow(r, id, t, d) ==
  [r EXCEPT !.status = "running", !.stage = "claimed", !.attempts = @ + 1, !.wait = 0,
            !.owner = id, !.token = t, !.lease = LeaseTime + d]

RenewedRow(r, d) == [r EXCEPT !.lease = LeaseTime + d]

StagedRow(r) == [r EXCEPT !.stage = "working"]

Stamped(r, stamp) == [r EXCEPT !.stamps = @ \cup {stamp}]

\* The end of a row: the terminal statuses are also stages.
Ended(r, status, stamp) ==
  Stamped([Unleased(r) EXCEPT !.status = status, !.stage = status], stamp)

FinalCancel(r) == Ended(r, "cancelled", "cancelled")

Succeeded(r) == Ended(r, "succeeded", "completed")

\* Mutant of CompletedRow: a completion that does not look at the cancellation.
CompletedAnyway(r) == Succeeded(r)

CompletedRow(r) == IF r.cancel THEN FinalCancel(r) ELSE Succeeded(r)

DeadLettered(r) == Ended(r, "dead_letter", "dead_lettered")

Retried(r, stage, wait) ==
  [Unleased(r) EXCEPT !.status = "queued", !.stage = stage, !.wait = wait]

\* Mutant of FailedRow: the attempt budget is not consulted on failure.
FailedForever(r, terminal, delay, d) ==
  IF r.cancel THEN FinalCancel(r)
  ELSE IF terminal THEN DeadLettered(Stamped(r, "failed"))
  ELSE Retried(Stamped(r, "failed"), "retry_scheduled", delay + d)

FailedRow(r, terminal, delay, d) ==
  LET failed == Stamped(r, "failed")
  IN  IF r.cancel THEN FinalCancel(r)
      ELSE IF terminal \/ r.attempts >= MaxAttempts THEN DeadLettered(failed)
      ELSE Retried(failed, "retry_scheduled", delay + d)

CancelledRow(r) ==
  IF r.status = "running" THEN [r EXCEPT !.cancel = TRUE]
  ELSE IF r.status = "queued" THEN [FinalCancel(r) EXCEPT !.cancel = TRUE]
  ELSE r

\* Mutants of RecoveredRow: recovery that ignores the cancellation, and recovery
\* that ignores the attempt budget.
RecoveredDespiteCancel(r, d) ==
  IF r.attempts >= MaxAttempts THEN DeadLettered(r) ELSE Retried(r, "lease_recovered", d)
RecoveredForever(r, d) ==
  IF r.cancel THEN FinalCancel(r) ELSE Retried(r, "lease_recovered", d)

RecoveredRow(r, d) ==
  IF r.cancel THEN FinalCancel(r)
  ELSE IF r.attempts >= MaxAttempts THEN DeadLettered(r)
  ELSE Retried(r, "lease_recovered", d)

RequeuedRow(r, d) ==
  [Retried(r, "operator_requeued", d)
     EXCEPT !.attempts = 0, !.cancel = FALSE, !.stamps = {}]
===========================================================================
