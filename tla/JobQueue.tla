----------------------------- MODULE JobQueue -----------------------------
(***************************************************************************)
(* The durable job queue: the background_jobs table under job_queue.py and *)
(* the worker processes of worker.py that lease rows from it.  Every       *)
(* database transaction is one action.  A worker keeps the identity of the *)
(* row it leased in its own memory while it works outside any transaction, *)
(* so it can go on after its lease has lapsed and the row was leased to    *)
(* somebody else; a second thread renews the lease meanwhile.              *)
(***************************************************************************)
EXTENDS JobRow, FiniteSets

CONSTANTS
  Jobs,          \* one value per (dedupe_scope, kind, dedupe_key)
  Workers,       \* worker processes
  WorkerId,      \* the worker_id each process reports; processes may share one
  Serves,        \* the jobs whose kind the process may claim
  Priority,      \* background_jobs.priority
  Tokens,        \* uuid4 lease tokens
  Skews,         \* clock errors of the processes, in ticks
  Delays,        \* retry delays and scheduling delays
  MaxRequeues,   \* bound: operator retries of dead letters
  NoJob          \* the claim of an idle worker

ASSUME SkewAssumption == Skews \subseteq Int /\ 0 \in Skews
ASSUME DelayAssumption == Delays \subseteq Nat /\ 0 \in Delays
ASSUME PriorityAssumption == Priority \in [Jobs -> Int]
ASSUME ServesAssumption == Serves \in [Workers -> SUBSET Jobs]
ASSUME BoundAssumption == MaxRequeues \in Nat
ASSUME NullAssumption == NoToken \notin Tokens /\ NoJob \notin Jobs
                         /\ NoOwner \notin Workers \cup {WorkerId[w] : w \in Workers}

VARIABLES
  job,        \* the background_jobs table
  claim,      \* what each worker process holds in memory while it works
  requeues    \* operator retries so far

vars == <<job, claim, requeues>>

\* Claimed*.job_id and Claimed*.lease_token.
NoClaim == [job |-> NoJob, token |-> NoToken]

Ids == {WorkerId[w] : w \in Workers}

TokensInUse == {job[j].token : j \in Jobs} \cup {claim[w].token : w \in Workers}

Working(w) == claim[w].job # NoJob

\* The process still passes the lease check of its job at clock error d.
HoldsLease(w, d) ==
  Working(w) /\ Owned(job[claim[w].job], WorkerId[w], claim[w].token, d)

Init == /\ job = [j \in Jobs |-> NoRow]
        /\ claim = [w \in Workers |-> NoClaim]
        /\ requeues = 0

(***************************************************************************)
(* Producers: the API and the scheduler.                                   *)
(***************************************************************************)
\* A second enqueue of the same key finds the row and changes nothing.
Enqueue(j) ==
  \E d \in Skews, delay \in Delays :
    /\ job[j].status = "absent"
    /\ job' = [job EXCEPT ![j] = NewRow(delay, d)]
    /\ UNCHANGED <<claim, requeues>>

Cancel(j) ==
  /\ job' = [job EXCEPT ![j] = CancelledRow(@)]
  /\ UNCHANGED <<claim, requeues>>

Requeue(j) ==
  \E d \in Skews :
    /\ job[j].status = "dead_letter"
    /\ requeues < MaxRequeues
    /\ job' = [job EXCEPT ![j] = RequeuedRow(@, d)]
    /\ requeues' = requeues + 1
    /\ UNCHANGED claim

(***************************************************************************)
(* A poll: recover_stale_jobs and claim_next_job in one transaction.  Both *)
(* use FOR UPDATE SKIP LOCKED, so they pass over the rows another          *)
(* transaction holds at that moment (locked).  Rows of equal priority are  *)
(* claimed in any order: run_after and created_at, which order them in the *)
(* code, are not compared.                                                 *)
(***************************************************************************)
Recovered(locked, d) ==
  [j \in Jobs |-> IF j \notin locked /\ Stale(job[j], d)
                  THEN RecoveredRow(job[j], d) ELSE job[j]]

FirstOf(S) == {j \in S : \A k \in S : Priority[j] <= Priority[k]}

PollIdle(w, locked, d) ==
  /\ ~Working(w)
  /\ \A j \in Serves[w] \ locked : ~Claimable(Recovered(locked, d)[j], d)
  /\ job' = Recovered(locked, d)
  /\ UNCHANGED <<claim, requeues>>

PollClaim(w, locked, d) ==
  LET rows == Recovered(locked, d)
      eligible == {j \in Serves[w] \ locked : Claimable(rows[j], d)}
  IN  /\ ~Working(w)
      /\ \E j \in FirstOf(eligible), t \in Tokens \ TokensInUse :
           /\ job' = [rows EXCEPT ![j] = ClaimedRow(@, WorkerId[w], t, d)]
           /\ claim' = [claim EXCEPT ![w] = [job |-> j, token |-> t]]
      /\ UNCHANGED requeues

Poll(w) ==
  \E locked \in SUBSET Jobs, d \in Skews : PollIdle(w, locked, d) \/ PollClaim(w, locked, d)

(***************************************************************************)
(* The renewing thread, _PracticalLeaseHeartbeat.  Nothing obliges it to   *)
(* renew: it ends when the row is no longer its worker's or the database   *)
(* does not answer, and then the handler works on without it.              *)
(***************************************************************************)
Renew(w) ==
  \E d \in Skews :
    /\ HoldsLease(w, d)
    /\ job' = [job EXCEPT ![claim[w].job] = RenewedRow(@, d)]
    /\ UNCHANGED <<claim, requeues>>

(***************************************************************************)
(* The handler: each transition locks the row only while it is owned.      *)
(***************************************************************************)
Stage(w) ==
  \E d \in Skews :
    /\ HoldsLease(w, d)
    /\ job' = [job EXCEPT ![claim[w].job] = StagedRow(@)]
    /\ UNCHANGED <<claim, requeues>>

Complete(w) ==
  \E d \in Skews :
    /\ HoldsLease(w, d)
    /\ job' = [job EXCEPT ![claim[w].job] = CompletedRow(@)]
    /\ claim' = [claim EXCEPT ![w] = NoClaim]
    /\ UNCHANGED requeues

FailAttempt(w, terminal) ==
  \E d \in Skews, delay \in Delays :
    /\ HoldsLease(w, d)
    /\ job' = [job EXCEPT ![claim[w].job] = FailedRow(@, terminal, delay, d)]
    /\ claim' = [claim EXCEPT ![w] = NoClaim]
    /\ UNCHANGED requeues

Fail(w) == \E terminal \in BOOLEAN : FailAttempt(w, terminal)

\* The process dies, or its handler returns without a transition of the row: the
\* lease was lost, the database failed, a scan still has open sources.
GiveUp(w) ==
  /\ Working(w)
  /\ claim' = [claim EXCEPT ![w] = NoClaim]
  /\ UNCHANGED <<job, requeues>>

(***************************************************************************)
(* Time passes.  A lease or delay that every clock sees as elapsed does    *)
(* not get any smaller, which keeps the state finite.                      *)
(***************************************************************************)
Elapsed(n) == \A d \in Skews : n <= d

Tick ==
  /\ \E j \in Jobs : \/ job[j].status = "running" /\ ~Elapsed(job[j].lease)
                     \/ job[j].status = "queued" /\ ~Elapsed(job[j].wait)
  /\ job' = [j \in Jobs |->
       [job[j] EXCEPT
          !.lease = IF job[j].status = "running" /\ ~Elapsed(@) THEN @ - 1 ELSE @,
          !.wait  = IF job[j].status = "queued" /\ ~Elapsed(@) THEN @ - 1 ELSE @]]
  /\ UNCHANGED <<claim, requeues>>

Next == \/ \E j \in Jobs : Enqueue(j) \/ Cancel(j) \/ Requeue(j)
        \/ \E w \in Workers : \/ Poll(w) \/ Renew(w) \/ Stage(w)
                              \/ Complete(w) \/ Fail(w) \/ GiveUp(w)
        \/ Tick

Spec == Init /\ [][Next]_vars

(***************************************************************************)
(* Fairness.  Time passes; run_worker_loop polls without end, and a row    *)
(* lock is held only for one short transaction, so a poll that finds no    *)
(* row locked comes again and again; a handler returns or its process      *)
(* dies.  Nothing is assumed of the renewing threads, the users or the     *)
(* operators.                                                              *)
(***************************************************************************)
UnlockedPoll(w) == \E d \in Skews : PollIdle(w, {}, d) \/ PollClaim(w, {}, d)

Return(w) == Complete(w) \/ Fail(w) \/ GiveUp(w)

Fairness == /\ WF_vars(Tick)
            /\ \A w \in Workers : WF_vars(UnlockedPoll(w)) /\ WF_vars(Return(w))

FairSpec == Spec /\ Fairness

(***************************************************************************)
(* Properties.                                                             *)
(***************************************************************************)
Owners == Ids \cup {NoOwner}
LeaseTokens == Tokens \cup {NoToken}

Row == [status : Statuses, stage : Stages, attempts : 0..MaxAttempts, wait : Int,
        lease : Int, owner : Owners, token : LeaseTokens, cancel : BOOLEAN,
        stamps : SUBSET Stamps]

Claim == [job : Jobs \cup {NoJob}, token : LeaseTokens]

\* Types of the table, of the workers' memory and of the operator's budget.
TypeOK == /\ job \in [Jobs -> Row]
          /\ claim \in [Workers -> Claim]
          /\ requeues \in 0..MaxRequeues

RowCoherent(r) ==
  /\ r.status = "running" <=> r.token # NoToken
  /\ r.status = "running" <=> r.owner # NoOwner
  /\ r.status = "running" => r.attempts >= 1
  /\ r.cancel => r.status \in {"running", "cancelled"}
  /\ r.status = "cancelled" => r.cancel
  /\ r.status \in Terminal => r.stage = r.status
  /\ "completed" \in r.stamps <=> r.status = "succeeded"
  /\ "dead_lettered" \in r.stamps <=> r.status = "dead_letter"
  /\ "cancelled" \in r.stamps <=> r.status = "cancelled"

\* However claims, renewals, completions, failures, cancellations, recoveries and
\* operator retries follow one another, the columns of a row tell one story: a lease
\* exists exactly while the row runs, each timestamp exactly in its own status, and a
\* cancellation request is never carried into success, retry or dead letter.
RowsCoherent == \A j \in Jobs : RowCoherent(job[j])

\* A queued row has attempts left: claim_next_job skips rows without, and nothing
\* else moves a queued row on, so such a row would wait for ever.
NoStrandedJob ==
  \A j \in Jobs : job[j].status = "queued" => job[j].attempts < MaxAttempts

CanFinish(w, j) ==
  claim[w].job = j /\ \E d \in Skews : Owned(job[j], WorkerId[w], claim[w].token, d)

\* However many processes still believe they work on a job - after lapsed leases,
\* skewed clocks and a shared worker_id - at most one can still pass the guard of
\* _owned_running_job.
SingleFinisher ==
  \A j \in Jobs : \A v, w \in Workers : CanFinish(v, j) /\ CanFinish(w, j) => v = w

\* The process a running row was last leased to, by its lease token.
LeasedTo(w, j) ==
  claim[w].job = j /\ job[j].status = "running" /\ claim[w].token = job[j].token

EndsOnlyBy(j) ==
  job[j].status = "running" /\ job'[j].status # "running" =>
    \/ \E w \in Workers : LeasedTo(w, j) /\ claim'[w] = NoClaim
    \/ \E d \in Skews : Stale(job[j], d)

\* A running job leaves that state only by the hand of the process it was last leased
\* to, or once some clock sees its lease elapsed: a process whose lease was recovered
\* can neither complete nor fail the attempt of its successor.
OnlyHolderEnds == [][\A j \in Jobs : EndsOnlyBy(j)]_vars

StaysDoomed(j) ==
  job[j].cancel =>
    \/ job'[j].status = "cancelled"
    \/ job'[j].status = "running" /\ job'[j].cancel /\ job'[j].token = job[j].token

\* Once a running job is asked to stop, no completion, failure or recovery that was
\* already under way gives it another attempt or another ending.
CancelWins == [][\A j \in Jobs : StaysDoomed(j)]_vars

\* Every queued job is eventually settled, whatever its workers do.
EverySettles ==
  \A j \in Jobs : job[j].status = "queued" ~> job[j].status \in Terminal

\* A cancellation asked of a running job is eventually carried out.
CancelSettles ==
  \A j \in Jobs : job[j].cancel ~> job[j].status = "cancelled"

(***************************************************************************)
(* The queue implements LeasedTask: the holder of a task is the process    *)
(* whose memory still matches the row.                                     *)
(***************************************************************************)
Holder(j) == IF \E w \in Workers : LeasedTo(w, j)
             THEN CHOOSE w \in Workers : LeasedTo(w, j) ELSE NoOwner

PhaseOf == [absent |-> "none", queued |-> "waiting", running |-> "held",
            succeeded |-> "done", cancelled |-> "dropped", dead_letter |-> "parked"]

AsTask(j) == [phase |-> PhaseOf[job[j].status], holder |-> Holder(j),
              tries |-> job[j].attempts, doomed |-> job[j].cancel]

Abs == INSTANCE LeasedTask WITH task <- [j \in Jobs |-> AsTask(j)], NoWorker <- NoOwner

\* Every step of the queue, a poll that recovers several rows and claims one
\* included, is for each row a step LeasedTask allows.
ImplementsLeasedTask == Abs!Spec
===========================================================================
