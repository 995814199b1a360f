-------------------------- MODULE OpportunityScan --------------------------
(***************************************************************************)
(* A saved-search scan: the opportunity_scans row, its                     *)
(* opportunity_scan_sources rows, and the handler that works through them  *)
(* (opportunity_scan_worker.py) under a lease of the job queue.  The queue *)
(* is JobQueue itself: an action here that touches background_jobs is an   *)
(* action of JobQueue in conjunction with what the same transaction does   *)
(* to the scan.                                                            *)
(*                                                                         *)
(* Left out: the postings a result carries, the warning codes and stage    *)
(* texts, and the payload checks of a claimed job.  Every adapter labels   *)
(* its result partial (sources/resolver.py), so a source that succeeded is *)
(* always counted as degraded.                                             *)
(***************************************************************************)
EXTENDS WorkerPool

CONSTANTS
  Scans,         \* scans, each with its background job
  Sources,       \* the (company, source) partitions of a scan
  ScanAttempts   \* max_attempts of a scan's job

ASSUME ScanAssumption ==
  /\ Sources # {} /\ IsFiniteSet(Sources)
  /\ ScanAttempts \in Nat \ {0} /\ NoJob \notin Scans

VARIABLES
  scanJob,    \* background_jobs
  scanClaim,  \* what each process holds of the job it claimed
  scan,       \* opportunity_scans
  source,     \* opportunity_scan_sources
  scanPlan,   \* what each process remembers of the scan it works on
  scanned     \* the scans that moved SavedSearch.last_scan_at

ScanQueue == INSTANCE JobQueue
  WITH Jobs <- Scans, WorkerId <- [w \in Workers |-> w],
       Serves <- [w \in Workers |-> Scans], Priority <- [s \in Scans |-> 100],
       Skews <- {0}, Delays <- {0}, MaxAttempts <- ScanAttempts,
       MaxRequeues <- 0, requeues <- 0, job <- scanJob, claim <- scanClaim

scanVars == <<scanJob, scanClaim, scan, source, scanPlan, scanned>>

TerminalScan == {"succeeded", "partial", "failed", "cancelled"}
ScanStatuses == {"absent", "queued", "running"} \cup TerminalScan
Closed == {"succeeded", "failed", "cancelled"}
SourceStatuses == {"absent", "pending", "running"} \cup Closed

(***************************************************************************)
(* A scan row: status, whether started_at and finalized_at are set, and    *)
(* the four source counts.  A source row: status, whether started_at and   *)
(* completed_at are set, and whether error_code is.                        *)
(***************************************************************************)
NoScan == [status |-> "absent", started |-> FALSE, final |-> FALSE,
           total |-> 0, closed |-> 0, ok |-> 0, bad |-> 0]

NoSource == [status |-> "absent", started |-> FALSE, completed |-> FALSE, code |-> FALSE]

\* The process's memory: "claimed" before _start_scan, "planned" after it; the
\* sources still to be marked and the fetches whose result is still to be handled.
NoScanPlan == [at |-> "none", todo |-> {}, fetching |-> {}]

(***************************************************************************)
(* The CHECK constraints of the two tables.                                *)
(***************************************************************************)
ScanLegal(s) ==
  /\ s.status \in TerminalScan <=> s.final
  /\ s.status \in {"running", "succeeded", "partial", "failed"} => s.started
  /\ s.closed <= s.total
  /\ s.ok + s.bad <= s.closed

SourceLegal(x) ==
  /\ x.status = "pending" => ~x.started /\ ~x.completed
  /\ x.status = "running" => x.started /\ ~x.completed
  /\ x.status \in {"succeeded", "failed"} => x.started /\ x.completed
  /\ x.status = "cancelled" => x.completed
  /\ x.status = "failed" <=> x.code

(***************************************************************************)
(* Rows as the transitions write them.                                     *)
(***************************************************************************)
PendingSource == [NoSource EXCEPT !.status = "pending"]

RunningSource == [NoSource EXCEPT !.status = "running", !.started = TRUE]

ClosedSource(status, started) ==
  [status |-> status, started |-> started, completed |-> TRUE, code |-> status = "failed"]

Count(rows, statuses) == Cardinality({x \in Sources : rows[x].status \in statuses})

AllClosed(rows) == \A x \in Sources : rows[x].status \in Closed

\* The counts of a scan whose sources are all closed.
Counted(s, rows) ==
  [s EXCEPT !.total = Cardinality(Sources), !.closed = Cardinality(Sources),
            !.ok = Count(rows, {"succeeded"}), !.bad = Count(rows, {"failed", "cancelled"})]

Finalized(s, status) == [s EXCEPT !.status = status, !.started = TRUE, !.final = TRUE]

\* Mutant of Verdict: the verdict is read off the sources alone.
VerdictOfSources(rows, cancelled) ==
  IF Count(rows, {"failed", "cancelled"}) = Cardinality(Sources) THEN "failed"
  ELSE "partial"

\* The verdict of _finalize_scan.
Verdict(rows, cancelled) ==
  IF cancelled THEN "cancelled"
  ELSE IF Count(rows, {"failed", "cancelled"}) = Cardinality(Sources) THEN "failed"
  ELSE "partial"

(***************************************************************************)
(* Creation: the scan, its sources and its queue row in one transaction.   *)
(***************************************************************************)
ScanInit == /\ ScanQueue!Init
            /\ scan = [s \in Scans |-> NoScan]
            /\ source = [s \in Scans |-> [x \in Sources |-> NoSource]]
            /\ scanPlan = [w \in Workers |-> NoScanPlan]
            /\ scanned = {}

CreateScan(s) ==
  /\ ScanQueue!Enqueue(s)
  /\ scan' = [scan EXCEPT ![s] = [NoScan EXCEPT !.status = "queued",
                                                !.total = Cardinality(Sources)]]
  /\ source' = [source EXCEPT ![s] = [x \in Sources |-> PendingSource]]
  /\ UNCHANGED <<scanPlan, scanned>>

\* cancel_job: the scan row follows at the next poll.
CancelScan(s) == ScanQueue!Cancel(s) /\ UNCHANGED <<scan, source, scanPlan, scanned>>

(***************************************************************************)
(* The poll transaction: recovery, reconciliation of the scans whose job   *)
(* ended without them, and the claim.                                      *)
(***************************************************************************)
\* Mutant of Diverged: only scans that look unfinished are reconciled.
DivergedIfOpen(j, s) ==
  j.status \in {"cancelled", "dead_letter"} /\ s.status \in {"queued", "running"}

Diverged(j, s) ==
  /\ j.status \in {"cancelled", "dead_letter"}
  /\ s.status \in {"queued", "running", "failed", "cancelled"}

Target(j) == IF j.status = "cancelled" THEN "cancelled" ELSE "failed"

\* Mutant of Interrupted: a dead letter leaves started_at as it was.
InterruptedUnstarted(row, status) ==
  IF row.status \in Closed THEN row ELSE ClosedSource(status, row.started)

\* A failed source was attempted, even if the process died before it said so.
Interrupted(row, status) ==
  IF row.status \in Closed THEN row
  ELSE ClosedSource(status, row.started \/ status = "failed")

ReconciledSources(s) ==
  IF Diverged(scanJob'[s], scan[s])
  THEN [x \in Sources |-> Interrupted(source[s][x], Target(scanJob'[s]))]
  ELSE source[s]

ReconcileScans ==
  /\ source' = [s \in Scans |-> ReconciledSources(s)]
  /\ scan' = [s \in Scans |-> IF Diverged(scanJob'[s], scan[s])
                              THEN Finalized(Counted(scan[s], source'[s]), Target(scanJob'[s]))
                              ELSE scan[s]]

PollScan(w) ==
  /\ ScanQueue!PollIdle(w, {}, 0) \/ ScanQueue!PollClaim(w, {}, 0)
  /\ ReconcileScans
  /\ scanPlan' = [scanPlan EXCEPT ![w].at = IF scanClaim'[w] = scanClaim[w] THEN "none"
                                            ELSE "claimed"]
  /\ UNCHANGED scanned

(***************************************************************************)
(* The handler.  Every transaction starts with lock_owned_running_job; a   *)
(* process whose lease is gone walks on through its plan and writes        *)
(* nothing.                                                                *)
(***************************************************************************)
\* Mutant of MayWrite: the lease is only looked at when the scan starts.
MayWriteLate(w) == ScanQueue!Working(w)

MayWrite(w) == ScanQueue!HoldsLease(w, 0)

ScanOf(w) == scanClaim[w].job

ForgetScan(w) == scanPlan' = [scanPlan EXCEPT ![w] = NoScanPlan]

\* A scan that ended already only has its job completed.
StartScan(w) ==
  LET s == ScanOf(w) IN
  /\ scanPlan[w].at = "claimed"
  /\ IF scan[s].status \in TerminalScan
     THEN ScanQueue!Complete(w) /\ ForgetScan(w) /\ UNCHANGED scan
     ELSE /\ ScanQueue!Stage(w)
          /\ scan' = [scan EXCEPT ![s].status = "running", ![s].started = TRUE,
                                  ![s].total = Cardinality(Sources)]
          /\ scanPlan' = [scanPlan EXCEPT ![w] = [at |-> "planned", todo |-> Sources,
                                          fetching |-> {}]]
  /\ UNCHANGED <<source, scanned>>

\* Mutant of Fetchable: a retry fetches every source again.
FetchAgain(s, x) == ~scanJob[s].cancel

Fetchable(s, x) == ~scanJob[s].cancel /\ source[s][x].status # "succeeded"

\* _mark_source_running, for a source the registry still lists.
Mark(w, x) ==
  LET s == ScanOf(w)
      fetch == MayWrite(w) /\ Fetchable(s, x)
  IN  /\ x \in scanPlan[w].todo
      /\ source' = IF fetch THEN [source EXCEPT ![s][x] = RunningSource] ELSE source
      /\ scanPlan' = [scanPlan EXCEPT ![w].todo = @ \ {x},
                              ![w].fetching = IF fetch THEN @ \cup {x} ELSE @]
      /\ IF fetch THEN ScanQueue!Stage(w) ELSE UNCHANGED <<scanJob, scanClaim>>
      /\ UNCHANGED <<scan, scanned>>

\* _record_source_failure and _persist_source_result.
Write(w, x, status) ==
  source' = IF MayWrite(w)
            THEN [source EXCEPT ![ScanOf(w)][x] = ClosedSource(status, TRUE)]
            ELSE source

\* The registry no longer lists the source.
Drop(w, x) ==
  /\ x \in scanPlan[w].todo
  /\ Write(w, x, "failed")
  /\ scanPlan' = [scanPlan EXCEPT ![w].todo = @ \ {x}]
  /\ UNCHANGED <<scanJob, scanClaim, scan, scanned>>

\* A fetch ends, in whatever order they end, with a result or an error.
Fetched(w, x) ==
  \E status \in {"succeeded", "failed"} :
    /\ scanPlan[w].todo = {} /\ x \in scanPlan[w].fetching
    /\ Write(w, x, status)
    /\ scanPlan' = [scanPlan EXCEPT ![w].fetching = @ \ {x}]
    /\ UNCHANGED <<scanJob, scanClaim, scan, scanned>>

\* _finalize_scan.  With a source still open it returns and GiveUp is all that is left.
Finalize(w) ==
  LET s == ScanOf(w)
      verdict == Verdict(source[s], scanJob[s].cancel)
  IN  /\ scanPlan[w].at = "planned" /\ scanPlan[w].todo = {} /\ scanPlan[w].fetching = {}
      /\ AllClosed(source[s])
      /\ ScanQueue!Complete(w)
      /\ scan' = [scan EXCEPT ![s] = Finalized(Counted(@, source[s]), verdict)]
      /\ scanned' = IF verdict = "partial" THEN scanned \cup {s} ELSE scanned
      /\ ForgetScan(w)
      /\ UNCHANGED source

\* Mutant of Abandoned: the scan is failed although it was cancelled.
AbandonedAsFailed(j) == "failed"

Abandoned(j) == IF j.cancel THEN "cancelled" ELSE "failed"

\* _fail_scan: the plan cannot be read or its company pack not be loaded.
FailScan(w) ==
  LET s == ScanOf(w)
      open == {x \in Sources : source[s][x].status \notin Closed}
  IN  /\ scanPlan[w].at = "claimed" \/ (scanPlan[w].at = "planned" /\ scanPlan[w].todo = Sources)
      /\ ScanQueue!FailAttempt(w, TRUE)
      /\ source' = [source EXCEPT ![s] =
           [x \in Sources |-> IF x \in open THEN ClosedSource("failed", TRUE) ELSE @[x]]]
      /\ scan' = [scan EXCEPT ![s] =
           [Finalized(@, Abandoned(scanJob[s])) EXCEPT !.closed = Cardinality(open),
                                                   !.bad = Cardinality(open)]]
      /\ ForgetScan(w)
      /\ UNCHANGED scanned

(***************************************************************************)
(* _finish_practical_scan_attempt_failure: the rows an unforeseen          *)
(* exception leaves behind, given the status fail_job_attempt gave the     *)
(* job.  The constraints of the tables decide whether the transaction      *)
(* commits; if not, the lease stays behind for the next recovery.          *)
(***************************************************************************)
\* Mutant of ScanAfter: the scan gets the status of a source that waits.
ScanAfterAsSource(s, status) ==
  [s EXCEPT !.status = IF status = "queued" THEN "pending" ELSE "failed",
            !.final = status # "queued"]

ScanAfter(s, status) ==
  IF status = "queued" THEN [s EXCEPT !.status = "queued", !.final = FALSE]
  ELSE [s EXCEPT !.status = IF status = "cancelled" THEN "cancelled" ELSE "failed",
                 !.final = TRUE]

SourceAfter(x, status) ==
  IF x.status # "running" THEN x
  ELSE IF status = "queued" THEN PendingSource
  ELSE [ClosedSource(IF status = "cancelled" THEN "cancelled" ELSE "failed", TRUE)
          EXCEPT !.code = TRUE]

FailureLands(s) ==
  LET status == ScanQueue!FailedRow(scanJob[s], FALSE, 0, 0).status
  IN  /\ ScanLegal(ScanAfter(scan[s], status))
      /\ \A x \in Sources : SourceLegal(SourceAfter(source[s][x], status))

FailAttempt(w) ==
  LET s == ScanOf(w) IN
  /\ ScanQueue!FailAttempt(w, FALSE)
  /\ FailureLands(s)
  /\ scan' = [scan EXCEPT ![s] = ScanAfter(@, scanJob'[s].status)]
  /\ source' = [source EXCEPT ![s] = [x \in Sources |-> SourceAfter(@[x], scanJob'[s].status)]]
  /\ ForgetScan(w)
  /\ UNCHANGED scanned

\* The process dies, or returns without a transition of the job.
GiveUpScan(w) == ScanQueue!GiveUp(w) /\ ForgetScan(w) /\ UNCHANGED <<scan, source, scanned>>

RenewScan(w) == ScanQueue!Renew(w) /\ UNCHANGED <<scan, source, scanPlan, scanned>>

ScanTick == ScanQueue!Tick /\ UNCHANGED <<scan, source, scanPlan, scanned>>

ReturnScan(w) == Finalize(w) \/ FailScan(w) \/ FailAttempt(w) \/ GiveUpScan(w)

ScanNext == \/ \E s \in Scans : CreateScan(s) \/ CancelScan(s)
            \/ \E w \in Workers : \/ PollScan(w) \/ RenewScan(w) \/ StartScan(w) \/ ReturnScan(w)
                                  \/ \E x \in Sources : Mark(w, x) \/ Drop(w, x) \/ Fetched(w, x)
            \/ ScanTick

ScanSpec == ScanInit /\ [][ScanNext]_scanVars

(***************************************************************************)
(* Properties.                                                             *)
(***************************************************************************)
ScanRow == [status : ScanStatuses, started : BOOLEAN, final : BOOLEAN,
            total : 0..Cardinality(Sources), closed : 0..Cardinality(Sources),
            ok : 0..Cardinality(Sources), bad : 0..Cardinality(Sources)]

SourceRow == [status : SourceStatuses, started : BOOLEAN, completed : BOOLEAN, code : BOOLEAN]

Plan == [at : {"none", "claimed", "planned"}, todo : SUBSET Sources, fetching : SUBSET Sources]

\* Types of the tables and of the processes' memory.
ScanTypeOK == /\ ScanQueue!TypeOK
              /\ scan \in [Scans -> ScanRow]
              /\ source \in [Scans -> [Sources -> SourceRow]]
              /\ scanPlan \in [Workers -> Plan]
              /\ scanned \subseteq Scans

\* No transaction but the failure transition, which FailureLands guards, can be
\* refused by a CHECK constraint: whatever path led to a row, every other transition
\* leaves the scan and its sources legal.
RowsLegal ==
  \A s \in Scans : ScanLegal(scan[s]) /\ \A x \in Sources : SourceLegal(source[s][x])

Accounted(s) ==
  /\ AllClosed(source[s])
  /\ scan[s].total = Cardinality(Sources) /\ scan[s].closed = Cardinality(Sources)
  /\ scan[s].ok = Count(source[s], {"succeeded"})
  /\ scan[s].bad = Count(source[s], {"failed", "cancelled"})

\* What the owner reads of a scan agrees with its job and with its sources: a
\* verdict of the sources belongs to a completed job and counts every source; a
\* cancelled scan to a cancelled job; an unfinished scan to a job that runs or waits,
\* or to one whose end the next poll brings to the scan.
VerdictAgrees ==
  \A s \in Scans :
    /\ scanJob[s].status = "succeeded" =>
         Accounted(s) /\ scan[s].status \in {"partial", "failed"}
    /\ scan[s].status = "partial" => scanJob[s].status = "succeeded" /\ scan[s].ok > 0
    /\ scan[s].status = "failed" => scanJob[s].status \in {"succeeded", "dead_letter"}
    /\ scan[s].status = "cancelled" => scanJob[s].status = "cancelled"
    /\ s \in scanned <=> scan[s].status = "partial"

\* Rows are legal, and the verdict agrees with the job and counts every source.
ScansAgree == RowsLegal /\ VerdictAgrees

\* Once a scan has its verdict no later transaction gives it another, neither a
\* stale process nor the reconciliation of its job.
VerdictFinal ==
  [][\A s \in Scans : scan[s].status \in TerminalScan =>
       scan'[s].status = scan[s].status]_scanVars

\* A source that was fetched once is not fetched again by a later attempt.
FetchedOnce ==
  [][\A s \in Scans, x \in Sources :
       source[s][x].status = "succeeded" => source'[s][x].status \in Closed]_scanVars

\* A process whose lease is gone may go through the rest of its plan, but no step of
\* it changes a row of the scan.
StaleWritesNothing ==
  [][\A w \in Workers :
       /\ ScanQueue!Working(w) /\ ~ScanQueue!HoldsLease(w, 0)
       /\ <<scanClaim'[w], scanPlan'[w]>> # <<scanClaim[w], scanPlan[w]>>
     => UNCHANGED <<scan, source>>]_scanVars

\* Every scan ends with a verdict, all its sources closed and counted, whatever the
\* processes, the company pack and the owner do.
EveryScanAccounted ==
  \A s \in Scans : scan[s].status = "queued" ~> scan[s].status \in TerminalScan /\ Accounted(s)

\* worker.py:1194 "Reset an interrupted scan for retry or finalize it after
\* exhaustion": the failure transition of the process that holds the lease is one the
\* database accepts.
FailureTransitionLands == \A w \in Workers : MayWrite(w) => FailureLands(ScanOf(w))
=============================================================================
