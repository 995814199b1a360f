--------------------------- MODULE FitEvaluation ---------------------------
(***************************************************************************)
(* Optional model evaluations of a posting against the private profile:    *)
(* the jobs keyed by everything an evaluation depends on, the handler that *)
(* calls the provider between two transactions, and the cache of verdicts  *)
(* (opportunity_fit_worker.py, fit_evaluation_service.py and               *)
(* fit_evaluation_repository.py).                                          *)
(*                                                                         *)
(* The rows an evaluation reads are its facts: search, track, resume,      *)
(* profile and approved evidence, each with a version that only grows.     *)
(* They are read one after the other, without locks, while edits commit    *)
(* in between.  Of a verdict only the facts it was computed from matter.   *)
(***************************************************************************)
EXTENDS WorkerPool

CONSTANTS
  Versions,    \* posting versions that matched the one saved search
  Facts,       \* the rows an evaluation reads
  MaxEdits,    \* bound: edits of a fact
  BatchSize,   \* DEFAULT_FIT_BACKFILL_BATCH_SIZE
  FitAttempts  \* max_attempts of a fit job

ASSUME EditsAssumption == MaxEdits \in Nat

VARIABLES
  fitJob, fitClaim,  \* the queue
  matched,           \* posting versions a match of the search shows
  active,            \* saved_searches.active
  facts,             \* the version of each fact
  was,               \* every state the facts have had
  fitMemory,         \* what each worker process has read
  cache              \* opportunity_fit_evaluations

Snapshots == [Facts -> 0..MaxEdits]

\* _fit_job_dedupe_key: the posting version and fit_profile_revision_token.
Jobs == [version : Versions, token : Snapshots]

FitQueue == INSTANCE JobQueue
  WITH WorkerId <- [w \in Workers |-> w], Serves <- [w \in Workers |-> Jobs],
       Priority <- [j \in Jobs |-> 110], Skews <- {0}, Delays <- {0},
       MaxAttempts <- FitAttempts, MaxRequeues <- 0, requeues <- 0,
       job <- fitJob, claim <- fitClaim

fitVars == <<fitJob, fitClaim, matched, active, facts, was, fitMemory, cache>>

Nothing == [f \in {} |-> 0]

FitIdle == [at |-> "idle", seen |-> Nothing, again |-> Nothing]

FitInit ==
  /\ FitQueue!Init
  /\ matched = {}
  /\ active = TRUE
  /\ facts = [f \in Facts |-> 0]
  /\ was = {facts}
  /\ fitMemory = [w \in Workers |-> FitIdle]
  /\ cache = {}

\* Mutant of JobOf: the key leaves the facts out.
JobOfVersion(v) == [version |-> v, token |-> [f \in Facts |-> 0]]

JobOf(v) == [version |-> v, token |-> facts]

\* A scan persists a posting version that is new to the search, and enqueues it in the
\* same transaction.
Match(v) ==
  /\ v \notin matched
  /\ matched' = matched \cup {v}
  /\ FitQueue!Enqueue(JobOf(v))
  /\ UNCHANGED <<active, facts, was, fitMemory, cache>>

\* enqueue_missing_opportunity_fit_evaluations.
Backfill ==
  /\ active
  /\ LET missing == {JobOf(v) : v \in {x \in matched : fitJob[JobOf(x)].status = "absent"}}
     IN  \E batch \in SUBSET missing :
           /\ Cardinality(batch) = BatchSize \/ batch = missing
           /\ Cardinality(batch) \in 1..BatchSize
           /\ fitJob' = [j \in Jobs |-> IF j \in batch THEN FitQueue!NewRow(0, 0)
                                        ELSE fitJob[j]]
  /\ UNCHANGED <<fitClaim, matched, active, facts, was, fitMemory, cache>>

Edit(f) ==
  /\ facts[f] < MaxEdits
  /\ facts' = [facts EXCEPT ![f] = @ + 1]
  /\ was' = was \cup {facts'}
  /\ UNCHANGED <<fitJob, fitClaim, matched, active, fitMemory, cache>>

Pause == /\ active' = ~active
         /\ UNCHANGED <<fitJob, fitClaim, matched, facts, was, fitMemory, cache>>

(***************************************************************************)
(* The handler.                                                            *)
(***************************************************************************)
RememberFit(w, what) == fitMemory' = [fitMemory EXCEPT ![w] = what]

Work == <<matched, active, facts, was>>

PollFit(w) ==
  /\ \/ FitQueue!PollIdle(w, {}, 0) /\ RememberFit(w, FitIdle)
     \/ FitQueue!PollClaim(w, {}, 0) /\ RememberFit(w, [FitIdle EXCEPT !.at = "prepare"])
  /\ UNCHANGED <<Work, cache>>

Read(snapshot, f) == [g \in DOMAIN snapshot \cup {f} |->
                        IF g = f THEN facts[f] ELSE snapshot[g]]

\* prepare_fit_evaluation, a row at a time; the lease is checked where it begins, and
\* the job stays locked until the transaction ends.
Prepare(w, f) ==
  /\ fitMemory[w].at = "prepare" /\ f \notin DOMAIN fitMemory[w].seen
  /\ fitMemory[w].seen = Nothing => FitQueue!HoldsLease(w, 0)
  /\ RememberFit(w, [fitMemory[w] EXCEPT !.seen = Read(@, f)])
  /\ UNCHANGED <<fitJob, fitClaim, Work, cache>>

Entry(w) == [version |-> fitClaim[w].job.version, key |-> fitMemory[w].seen]

Cached(entry) == \E row \in cache : row.version = entry.version /\ row.key = entry.key

Seen(w) == fitMemory[w].at = "prepare" /\ DOMAIN fitMemory[w].seen = Facts

\* No verdict of these facts is cached and the posting passes should_request_model:
\* the provider is called, and answers.
Evaluate(w) ==
  /\ Seen(w) /\ ~Cached(Entry(w))
  /\ RememberFit(w, [fitMemory[w] EXCEPT !.at = "publish"])
  /\ UNCHANGED <<fitJob, fitClaim, Work, cache>>

\* The second transaction prepares again.
Refresh(w, f) ==
  /\ fitMemory[w].at = "publish" /\ f \notin DOMAIN fitMemory[w].again
  /\ fitMemory[w].again = Nothing => FitQueue!HoldsLease(w, 0)
  /\ RememberFit(w, [fitMemory[w] EXCEPT !.again = Read(@, f)])
  /\ UNCHANGED <<fitJob, fitClaim, Work, cache>>

Refreshed(w) == fitMemory[w].at = "publish" /\ DOMAIN fitMemory[w].again = Facts

\* Mutant of Unchanged: the verdict is published whatever was edited meanwhile.
UnchangedOrNot(w) == TRUE

\* The fingerprint is the one the provider was called with.
Unchanged(w) == fitMemory[w].again = fitMemory[w].seen

\* store_fit_verdict: a concurrent row of the key is kept.
StoreVerdict(w) ==
  /\ Refreshed(w) /\ Unchanged(w)
  /\ cache' = IF Cached(Entry(w)) THEN cache
              ELSE cache \cup {[version |-> fitClaim[w].job.version,
                                key |-> fitMemory[w].again, from |-> fitMemory[w].seen]}
  /\ RememberFit(w, [FitIdle EXCEPT !.at = "done"])
  /\ UNCHANGED <<fitJob, fitClaim, Work>>

\* Every other outcome is the deterministic fallback: no provider, a posting that is
\* not worth a call, a call or a read that fails, facts that changed.
Fallback(w) ==
  /\ fitMemory[w].at \in {"prepare", "publish"}
  /\ RememberFit(w, [FitIdle EXCEPT !.at = "done"])
  /\ UNCHANGED <<fitJob, fitClaim, Work, cache>>

\* complete_opportunity_fit_evaluation.
CompleteFit(w) ==
  /\ fitMemory[w].at = "done"
  /\ FitQueue!Complete(w)
  /\ RememberFit(w, FitIdle)
  /\ UNCHANGED <<Work, cache>>

\* The process dies, the database fails, or the lease is gone.
GiveUpFit(w) == FitQueue!GiveUp(w) /\ RememberFit(w, FitIdle) /\ UNCHANGED <<Work, cache>>

RenewFit(w) == FitQueue!Renew(w) /\ UNCHANGED <<Work, fitMemory, cache>>

FitTick == FitQueue!Tick /\ UNCHANGED <<Work, fitMemory, cache>>

HandleFit(w) == \/ \E f \in Facts : Prepare(w, f) \/ Refresh(w, f)
                \/ Evaluate(w) \/ StoreVerdict(w) \/ Fallback(w) \/ CompleteFit(w) \/ GiveUpFit(w)

FitNext ==
  \/ \E v \in Versions : Match(v)
  \/ \E f \in Facts : Edit(f)
  \/ Backfill \/ Pause
  \/ \E w \in Workers : PollFit(w) \/ HandleFit(w) \/ RenewFit(w)
  \/ FitTick

FitSpec == FitInit /\ [][FitNext]_fitVars

(***************************************************************************)
(* Properties.                                                             *)
(***************************************************************************)
\* A verdict in the cache was computed from exactly the facts it is filed under, these
\* were all current at one moment although they are read row by row, and they are
\* filed once: whatever was edited while the provider was thinking.
FitVerdictsGrounded ==
  \A row \in cache : /\ row.from = row.key /\ row.key \in was
                     /\ \A other \in cache : other.version = row.version /\ other.key = row.key
                          => other = row

\* Every matched posting of an active search gets its evaluation of the facts as they
\* are, or they change: no edit between enqueue, call and publication loses it.
EveryMatchEvaluated ==
  \A v \in Versions, s \in Snapshots :
    v \in matched /\ active /\ facts = s ~>
      \/ fitJob[[version |-> v, token |-> s]].status \in FitQueue!Terminal
      \/ facts # s \/ ~active
=============================================================================
