------------------------------ MODULE HuntRun ------------------------------
(***************************************************************************)
(* Practical hunts: the hunt_runs row that keeps a private request and,    *)
(* later, a private result beside its background job; the API commands on  *)
(* it, the retention that erases it, and the worker that turns the request *)
(* into the result.  Every database transaction is one action, except that *)
(* a read the code makes before it locks the row, and acts on afterwards,  *)
(* is an action of its own: with_for_update() does not refresh an object   *)
(* the session already holds.                                              *)
(*                                                                         *)
(* Age is counted in retention periods, which are hours and days; a lease  *)
(* is renewed every few seconds, so the two clocks are independent here.   *)
(* All runs belong to one owner.  The access capability, the request hash  *)
(* of a reused key and the import of finished legacy runs are left out.    *)
(***************************************************************************)
EXTENDS WorkerPool

CONSTANTS
  Runs,          \* uuid4 run ids: one is used at most once
  KeyOf,         \* the idempotency key a run id is posted under
  Requests,      \* HTTP requests, each of which may run the retention first
  RequestLife,   \* REQUEST_RETENTION_HOURS
  MaxLife,       \* DEFAULT_HUNT_RETENTION_DAYS
  Policies,      \* the days owners choose
  HuntAttempts,  \* max_attempts of a hunt's job
  MaxRequeues    \* bound: operator retries

ASSUME HuntAssumption ==
  /\ RequestLife \in Nat \ {0} /\ MaxLife \in Nat
  /\ RequestLife < MaxLife /\ Policies \subseteq 1..MaxLife
  /\ HuntAttempts \in Nat \ {0} /\ NoJob \notin Runs

VARIABLES
  huntJob, huntClaim, requeues,  \* the queue
  hunt,                          \* hunt_runs and hunt_outcomes
  huntMemory,                    \* what each worker process holds of the run it claimed
  asked,                         \* operator retries that have read the run but not locked it
  sweep,                         \* requests that selected the runs their policy deletes
  policy                         \* data_retention_settings: the days, or NoSetting

HuntQueue == INSTANCE JobQueue
  WITH Jobs <- Runs, WorkerId <- [w \in Workers |-> w],
       Serves <- [w \in Workers |-> Runs], Priority <- [r \in Runs |-> 100],
       Skews <- {0}, Delays <- {0}, MaxAttempts <- HuntAttempts,
       job <- huntJob, claim <- huntClaim

huntQueue == <<huntJob, huntClaim, requeues>>

huntVars == <<huntQueue, hunt, huntMemory, asked, sweep, policy>>

hunts == <<hunt, huntMemory, asked, sweep, policy>>

NoHunt == [is |-> "unused", request |-> FALSE, result |-> FALSE, outcomes |-> FALSE,
           age |-> 0, life |-> 0]

Gone == [NoHunt EXCEPT !.is = "gone"]

Live(r) == hunt[r].is = "live"

NoSetting == 0

HuntInit == /\ HuntQueue!Init
            /\ hunt = [r \in Runs |-> NoHunt]
            /\ huntMemory = [w \in Workers |-> Idle]
            /\ asked = [r \in Runs |-> "no"]
            /\ sweep = [c \in Requests |-> {Idle}]
            /\ policy = NoSetting

\* get_owner_hunt_retention_days.
Days == IF policy = NoSetting THEN MaxLife ELSE policy

RequestExpired(h) == h.age >= RequestLife

AccessExpired(h) == h.age >= h.life

\* _get_owner_hunt: what the owner can still reach.
Visible(r) == Live(r) /\ ~AccessExpired(hunt[r])

\* Mutant of Cleared: only the ciphertext of a waiting run is worth clearing.
ClearedIfQueued(h, row) == IF row.status = "queued" THEN [h EXCEPT !.request = FALSE] ELSE h

\* _clear_request_envelope, in the transaction that leaves the job as row.
Cleared(h, row) == [h EXCEPT !.request = FALSE]

(***************************************************************************)
(* Retention.  Deleting a run deletes its job, events and outcomes with    *)
(* it, whoever is working on it.                                           *)
(***************************************************************************)
\* purge_expired_hunts: the runs whose access expired go, expired requests are
\* cancelled and cleared.
Lapsed == {r \in Runs : Live(r) /\ AccessExpired(hunt[r])}

Overdue == {r \in Runs : Visible(r) /\ hunt[r].request /\ RequestExpired(hunt[r])}

Purged(gone) ==
  LET rows == [r \in Runs |-> IF r \in gone THEN HuntQueue!NoRow
                              ELSE IF r \in Overdue THEN HuntQueue!CancelledRow(huntJob[r])
                              ELSE huntJob[r]]
  IN  /\ huntJob' = rows
      /\ hunt' = [r \in Runs |-> IF r \in gone THEN Gone
                                 ELSE IF r \in Overdue THEN Cleared(hunt[r], rows[r])
                                 ELSE hunt[r]]

\* The runs the owner's own policy, if there is one, deletes.
Aged(days) == {r \in Runs : Live(r) /\ days # NoSetting /\ hunt[r].age >= days}

\* purge_configured_hunts selects what purge_expired_hunts has left.
Select(c) ==
  /\ sweep[c] = {Idle}
  /\ sweep' = [sweep EXCEPT ![c] = Aged(policy) \ Lapsed]
  /\ UNCHANGED <<huntQueue, hunt, huntMemory, asked, policy>>

\* It deletes what it selected, unless some of it is gone.
Deletable(c) == \A r \in sweep[c] : Live(r)

\* The retention of any request, which also opens the transaction of post_hunt.
Clean(c) ==
  /\ sweep[c] # {Idle} /\ Deletable(c)
  /\ Purged(Lapsed \cup sweep[c])
  /\ sweep' = [sweep EXCEPT ![c] = {Idle}]
  /\ UNCHANGED <<huntClaim, requeues, huntMemory, asked, policy>>

\* PrivacyConflict: the transaction is rolled back.
Refuse(c) ==
  /\ sweep[c] # {Idle} /\ ~Deletable(c)
  /\ sweep' = [sweep EXCEPT ![c] = {Idle}]
  /\ UNCHANGED <<huntQueue, hunt, huntMemory, asked, policy>>

\* update_retention_setting purges under the new policy at once.
SetRetention(days) ==
  /\ policy' = days
  /\ huntJob' = [r \in Runs |-> IF r \in Aged(days) THEN HuntQueue!NoRow ELSE huntJob[r]]
  /\ hunt' = [r \in Runs |-> IF r \in Aged(days) THEN Gone ELSE hunt[r]]
  /\ UNCHANGED <<huntClaim, requeues, huntMemory, asked, sweep>>

Age == /\ \E r \in Runs : Live(r) /\ hunt[r].age < MaxLife
       /\ hunt' = [r \in Runs |-> [hunt[r] EXCEPT !.age =
                                     IF Live(r) /\ @ < MaxLife THEN @ + 1 ELSE @]]
       /\ UNCHANGED <<huntQueue, huntMemory, asked, sweep, policy>>

(***************************************************************************)
(* The commands of the API.                                                *)
(***************************************************************************)
\* Mutant of KeyFree: only a run that can still be read occupies its key.
KeyFreeOfUnfinished(r) ==
  \A q \in Runs : KeyOf[q] = KeyOf[r] => ~Live(q) \/ huntJob[q].status \in HuntQueue!Terminal

\* No run of this key, by the row and by the dedupe key of the queue.
KeyFree(r) == \A q \in Runs : KeyOf[q] = KeyOf[r] => ~Live(q)

\* create_or_reuse_hunt after the purge of the same transaction has found nothing; a
\* post that finds a run of its key changes nothing modelled here.
Post(r) ==
  /\ hunt[r].is = "unused" /\ KeyFree(r)
  /\ Lapsed \cup Overdue \cup Aged(policy) = {}
  /\ HuntQueue!Enqueue(r)
  /\ hunt' = [hunt EXCEPT ![r] = [NoHunt EXCEPT !.is = "live", !.request = TRUE,
                                                !.life = Days]]
  /\ UNCHANGED <<requeues, huntMemory, asked, sweep, policy>>

CancelHunt(r) ==
  /\ Visible(r)
  /\ HuntQueue!Cancel(r)
  /\ hunt' = [hunt EXCEPT ![r] = Cleared(@, huntJob'[r])]
  /\ UNCHANGED <<huntMemory, asked, sweep, policy>>

\* delete_hunt.
DeleteHunt(r) ==
  /\ Visible(r)
  /\ huntJob' = [huntJob EXCEPT ![r] = HuntQueue!NoRow]
  /\ hunt' = [hunt EXCEPT ![r] = Gone]
  /\ UNCHANGED <<huntClaim, requeues, huntMemory, asked, sweep, policy>>

\* append_hunt_outcomes.
Append(r) ==
  /\ Visible(r) /\ huntJob[r].status = "succeeded" /\ hunt[r].result
  /\ hunt' = [hunt EXCEPT ![r].outcomes = TRUE]
  /\ UNCHANGED <<huntQueue, huntMemory, asked, sweep, policy>>

\* requeue_hunt_dead_letter reads the run,
Ask(r) ==
  /\ Visible(r) /\ asked[r] = "no"
  /\ asked' = [asked EXCEPT ![r] = IF hunt[r].request THEN "with request" ELSE "without"]
  /\ UNCHANGED <<huntQueue, hunt, huntMemory, sweep, policy>>

Retryable(r) == asked[r] = "with request" /\ ~RequestExpired(hunt[r])

\* locks job and run, and goes by the request it read.
Answer(r) ==
  /\ asked[r] # "no"
  /\ asked' = [asked EXCEPT ![r] = "no"]
  /\ IF ~Visible(r) \/ huntJob[r].status # "dead_letter"
     THEN UNCHANGED <<huntQueue, hunt>>
     ELSE IF Retryable(r)
     THEN HuntQueue!Requeue(r) /\ UNCHANGED hunt
     ELSE /\ hunt' = [hunt EXCEPT ![r] = Cleared(@, huntJob[r])]
          /\ UNCHANGED huntQueue
  /\ UNCHANGED <<huntMemory, sweep, policy>>

(***************************************************************************)
(* The worker: process_claimed_practical_hunt.                             *)
(***************************************************************************)
HuntOf(w) == huntClaim[w].job

RememberHunt(w, what) == huntMemory' = [huntMemory EXCEPT ![w] = what]

PollHunt(w) ==
  /\ \/ HuntQueue!PollIdle(w, {}, 0) /\ RememberHunt(w, Idle)
     \/ HuntQueue!PollClaim(w, {}, 0) /\ RememberHunt(w, "claimed")
  /\ UNCHANGED <<hunt, asked, sweep, policy>>

\* load_hunt_request_for_worker reads the run before it locks the job.
Glance(w) ==
  /\ huntMemory[w] = "claimed"
  /\ HuntQueue!Stage(w)
  /\ RememberHunt(w, IF hunt[HuntOf(w)].request THEN "seen request" ELSE "seen none")
  /\ UNCHANGED <<hunt, asked, sweep, policy>>

Loadable(w) ==
  LET h == hunt[HuntOf(w)]
  IN  huntMemory[w] = "seen request" /\ ~RequestExpired(h) /\ ~AccessExpired(h)

Load(w) ==
  /\ huntMemory[w] = "seen request" /\ HuntQueue!HoldsLease(w, 0) /\ Loadable(w)
  /\ HuntQueue!Stage(w)
  /\ RememberHunt(w, "loaded")
  /\ UNCHANGED <<hunt, asked, sweep, policy>>

\* _finish_practical_failure: a cancelled run loses its request with its lease.
FinishFailure(w, terminal) ==
  LET r == HuntOf(w)
  IN  /\ HuntQueue!FailAttempt(w, terminal)
      /\ hunt' = IF huntJob[r].cancel THEN [hunt EXCEPT ![r] = Cleared(@, huntJob'[r])]
                 ELSE hunt
      /\ RememberHunt(w, Idle)
      /\ UNCHANGED <<asked, sweep, policy>>

\* The request is gone or cannot be decrypted: no further attempt.
Unavailable(w) ==
  /\ huntMemory[w] \in {"seen request", "seen none"} /\ ~Loadable(w)
  /\ FinishFailure(w, TRUE)

\* The run itself fails: an unknown company pack for good, anything else for now.
FailHunt(w) ==
  /\ huntMemory[w] = "loaded"
  /\ \E terminal \in BOOLEAN : FinishFailure(w, terminal)

\* Mutant of StoreEnding: the result is written without asking for the lease again.
StoreUnfenced(w) ==
  LET r == HuntOf(w)
  IN  /\ huntJob' = [huntJob EXCEPT ![r].status = "succeeded"]
      /\ huntClaim' = [huntClaim EXCEPT ![w] = HuntQueue!NoClaim]
      /\ hunt' = [hunt EXCEPT ![r] = [Cleared(@, huntJob'[r]) EXCEPT !.result = TRUE]]
      /\ UNCHANGED requeues

\* What store_hunt_success makes of job and run: a cancellation or an expired access
\* completes the job as cancelled and stores nothing.
StoreEnding(w) ==
  LET r == HuntOf(w)
      doomed == huntJob[r].cancel \/ AccessExpired(hunt[r])
  IN  IF doomed
      THEN /\ HuntQueue!HoldsLease(w, 0)
           /\ huntJob' = [huntJob EXCEPT ![r] =
                            HuntQueue!CompletedRow(HuntQueue!CancelledRow(@))]
           /\ huntClaim' = [huntClaim EXCEPT ![w] = HuntQueue!NoClaim]
           /\ hunt' = [hunt EXCEPT ![r] = Cleared(@, huntJob'[r])]
           /\ UNCHANGED requeues
      ELSE /\ HuntQueue!Complete(w)
           /\ hunt' = [hunt EXCEPT ![r] = [Cleared(@, huntJob'[r]) EXCEPT !.result = TRUE]]

StoreHunt(w) ==
  /\ huntMemory[w] = "loaded" /\ ~hunt[HuntOf(w)].result
  /\ StoreEnding(w)
  /\ RememberHunt(w, Idle)
  /\ UNCHANGED <<asked, sweep, policy>>

\* The process dies, or a step finds its lease gone and returns.
GiveUpHunt(w) == HuntQueue!GiveUp(w) /\ RememberHunt(w, Idle)
                 /\ UNCHANGED <<hunt, asked, sweep, policy>>

RenewHunt(w) == HuntQueue!Renew(w) /\ UNCHANGED hunts

HuntTick == HuntQueue!Tick /\ UNCHANGED hunts

HuntNext == \/ \E c \in Requests : Select(c) \/ Clean(c) \/ Refuse(c)
            \/ \E days \in Policies : SetRetention(days)
            \/ Age
            \/ \E r \in Runs : \/ Post(r) \/ CancelHunt(r) \/ DeleteHunt(r) \/ Append(r)
                               \/ Ask(r) \/ Answer(r)
            \/ \E w \in Workers : \/ PollHunt(w) \/ Glance(w) \/ Load(w) \/ Unavailable(w)
                                  \/ FailHunt(w) \/ StoreHunt(w) \/ GiveUpHunt(w) \/ RenewHunt(w)
            \/ HuntTick

HuntSpec == HuntInit /\ [][HuntNext]_huntVars

(***************************************************************************)
(* Properties.                                                             *)
(***************************************************************************)
Hunt == [is : {"unused", "live", "gone"}, request : BOOLEAN, result : BOOLEAN,
         outcomes : BOOLEAN, age : 0..MaxLife, life : 0..MaxLife]

\* Types of the tables and of the processes' memory.
HuntTypeOK == /\ HuntQueue!TypeOK
              /\ hunt \in [Runs -> Hunt]
              /\ huntMemory \in [Workers -> {Idle, "claimed", "seen request", "seen none", "loaded"}]
              /\ asked \in [Runs -> {"no", "with request", "without"}]
              /\ sweep \in [Requests -> SUBSET (Runs \cup {Idle})]
              /\ policy \in 0..MaxLife

HuntAgrees(r) ==
  /\ Live(r) <=> huntJob[r].status # "absent"
  /\ hunt[r].result <=> huntJob[r].status = "succeeded"
  /\ hunt[r].request => /\ ~huntJob[r].cancel
                        /\ huntJob[r].status \notin {"succeeded", "cancelled"}
  /\ hunt[r].outcomes => hunt[r].result

\* Whatever the worker, the owner, the operator and the retention do to a run at the
\* same time: a result exists exactly when the job succeeded, a cancelled, finished or
\* deleted run keeps nothing private but its result, and a key has one run.
HuntsAgree ==
  /\ \A r \in Runs : HuntAgrees(r)
  /\ \A q, r \in Runs : Live(q) /\ Live(r) /\ KeyOf[q] = KeyOf[r] => q = r

HuntKeepsItsEnd(r) ==
  /\ hunt[r].is = "gone" => hunt'[r] = hunt[r] /\ huntJob'[r] = huntJob[r]
  /\ Live(r) /\ ~hunt[r].request => ~hunt'[r].request
  /\ hunt[r].result => hunt'[r].result \/ hunt'[r].is = "gone"

\* A deleted run is not brought back by a worker that still computes its result or an
\* operator who retries it; a cleared request never reappears; a stored result goes
\* only with its run.
NothingComesBack == [][\A r \in Runs : HuntKeepsItsEnd(r)]_huntVars
=============================================================================
