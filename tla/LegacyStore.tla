---------------------------- MODULE LegacyStore ----------------------------
(***************************************************************************)
(* The SQLite file of the former hunt service: its queue, its results, the *)
(* outcomes logged for them, the worker that serves it, and the script     *)
(* that copies finished runs into the workspace of an owner while the      *)
(* service may still be running.  Every transaction is one action, and so  *)
(* is every statement outside one.                                         *)
(*                                                                         *)
(* Time is in flags that turn once: a lease lapses, a delay passes, a      *)
(* request or the access to a run expires.  Renewals show only in that a   *)
(* lease has not lapsed.  Capabilities and idempotency keys are left out,  *)
(* and which of the runs that wait is claimed first is left open.          *)
(***************************************************************************)
EXTENDS Integers, FiniteSets

CONSTANTS
  Runs,        \* run ids, each used once
  LegacyWorkers, \* worker processes
  LeaseIds,      \* lease tokens
  Clients,     \* requests that log outcomes
  Entries,     \* outcomes of a draft
  RunAttempts,   \* run_security.max_attempts
  None

ASSUME RunAssumption == RunAttempts \in Nat \ {0} /\ None \notin LeaseIds

VARIABLES
  mode,        \* of the compatibility API
  row,         \* run_security
  kept,        \* runs and outcomes: the result and what was logged for it
  hand,        \* what a worker process holds of the run it claimed
  logging,     \* the run a client was told it may log outcomes for
  target,      \* the run in the workspace of the owner
  import       \* what the importer has read

legacyVars == <<mode, row, kept, hand, logging, target, import>>

service == <<mode, row, kept, hand, logging>>

Active == {"queued", "running"}
EndedStates == {"succeeded", "failed", "cancelled"}

NoRunRow == [status |-> "absent", attempts |-> 0, token |-> None, lapsed |-> FALSE, due |-> TRUE,
          request |-> FALSE, requestOver |-> FALSE, accessOver |-> FALSE]

Nothing == [result |-> FALSE, outcomes |-> {}]
Idle == [run |-> None, token |-> None, at |-> "idle"]
NoCopy == [is |-> "none", outcomes |-> {}]

Exists(r) == row[r].status \notin {"absent", "gone"}

(***************************************************************************)
(* The queue.                                                              *)
(***************************************************************************)
Post(r) ==
  /\ mode = "enabled" /\ row[r].status = "absent"
  /\ row' = [row EXCEPT ![r].status = "queued", ![r].request = TRUE]
  /\ UNCHANGED <<mode, kept, hand, logging, target, import>>

WithoutLease(x) == [x EXCEPT !.token = None, !.lapsed = FALSE]

\* An ended run keeps no request; a dead letter keeps it for the operator.
EndAs(x, status) == [WithoutLease(x) EXCEPT !.status = status, !.request = FALSE]

Spent(x) == x.attempts >= RunAttempts

BackInLine(x, due) ==
  IF Spent(x) THEN [WithoutLease(x) EXCEPT !.status = "dead_letter"]
  ELSE [WithoutLease(x) EXCEPT !.status = "queued", !.due = due]

\* _recover_stale_leases_conn, in every claim.
RecoveredRuns == [r \in Runs |-> IF row[r].status = "running" /\ row[r].lapsed
                                 THEN BackInLine(row[r], TRUE) ELSE row[r]]

\* Tokens are uuids: none is drawn while a row or a process has it.
Drawn == {row[r].token : r \in Runs} \cup {hand[w].token : w \in LegacyWorkers}

Leased(x, t) == [x EXCEPT !.status = "running", !.attempts = @ + 1, !.token = t]

ClaimRun(w) ==
  /\ hand[w] = Idle
  /\ LET open == {r \in Runs : /\ RecoveredRuns[r].status = "queued"
                               /\ RecoveredRuns[r].request /\ RecoveredRuns[r].due}
     IN  IF open = {} THEN row' = RecoveredRuns /\ UNCHANGED hand
         ELSE \E r \in open, t \in LeaseIds \ Drawn :
                /\ row' = [RecoveredRuns EXCEPT ![r] = Leased(@, t)]
                /\ hand' = [hand EXCEPT ![w] = [run |-> r, token |-> t, at |-> "claimed"]]
  /\ UNCHANGED <<mode, kept, logging, target, import>>

\* _worker_owns_live_lease.
Owns(w) == LET x == row[hand[w].run]
           IN  x.status = "running" /\ x.token = hand[w].token /\ ~ x.lapsed

Drop(w) == hand' = [hand EXCEPT ![w] = Idle]

\* load_encrypted_request, which asks for no lease.
Load(w) ==
  /\ hand[w].at = "claimed"
  /\ hand' = [hand EXCEPT ![w].at = IF row[hand[w].run].request THEN "loaded" ELSE "missing"]
  /\ UNCHANGED <<mode, row, kept, logging, target, import>>

\* heartbeat_run before the hunt.
Start(w) ==
  /\ hand[w].at = "loaded"
  /\ IF Owns(w) THEN hand' = [hand EXCEPT ![w].at = "hunting"] ELSE Drop(w)
  /\ UNCHANGED <<mode, row, kept, logging, target, import>>

\* mark_run_failed: without a request, with one that cannot be read, or without a registry.
FailForGood(w) ==
  /\ hand[w].at \in {"missing", "loaded", "hunting"}
  /\ row' = IF Owns(w) THEN [row EXCEPT ![hand[w].run] = EndAs(@, "failed")] ELSE row
  /\ Drop(w)
  /\ UNCHANGED <<mode, kept, logging, target, import>>

\* mark_run_attempt_failed.
FailRunAttempt(w) ==
  /\ hand[w].at = "hunting"
  /\ row' = IF Owns(w) THEN [row EXCEPT ![hand[w].run] = BackInLine(@, FALSE)] ELSE row
  /\ Drop(w)
  /\ UNCHANGED <<mode, kept, logging, target, import>>

\* Mutant of MayComplete: the run is still there.
MayCompleteAnyway(w) == Exists(hand[w].run)

MayComplete(w) == Owns(w)

\* complete_run_with_result.
CompleteRun(w) ==
  /\ hand[w].at = "hunting"
  /\ IF MayComplete(w)
     THEN /\ row' = [row EXCEPT ![hand[w].run] = EndAs(@, "succeeded")]
          /\ kept' = [kept EXCEPT ![hand[w].run].result = TRUE]
     ELSE UNCHANGED <<row, kept>>
  /\ Drop(w)
  /\ UNCHANGED <<mode, logging, target, import>>

Crash(w) ==
  /\ hand[w] # Idle /\ Drop(w)
  /\ UNCHANGED <<mode, row, kept, logging, target, import>>

(***************************************************************************)
(* The service.                                                            *)
(***************************************************************************)
CancelRun(r) ==
  /\ mode = "enabled" /\ row[r].status \in Active
  /\ row' = [row EXCEPT ![r] = EndAs(@, "cancelled")]
  /\ UNCHANGED <<mode, kept, hand, logging, target, import>>

RequeueRun(r) ==
  /\ mode = "enabled" /\ row[r].status = "dead_letter" /\ row[r].request
  /\ row' = [row EXCEPT ![r] = [WithoutLease(@) EXCEPT !.status = "queued", !.attempts = 0,
                                                   !.due = TRUE]]
  /\ UNCHANGED <<mode, kept, hand, logging, target, import>>

\* post_outcomes reads the state and the result,
MayLog(c, r) ==
  /\ mode = "enabled" /\ logging[c] = None
  /\ row[r].status = "succeeded" /\ kept[r].result
  /\ logging' = [logging EXCEPT ![c] = r]
  /\ UNCHANGED <<mode, row, kept, hand, target, import>>

\* Mutant of Referenced: SQLite does not check foreign keys unless it is told to.
ReferencedOrNot(r) == TRUE

\* PRAGMA foreign_keys = ON.
Referenced(r) == kept[r].result

\* and writes in a transaction of its own.
Log(c) ==
  /\ logging[c] # None
  /\ \E e \in Entries : kept' = IF Referenced(logging[c])
                                THEN [kept EXCEPT ![logging[c]].outcomes = @ \cup {e}] ELSE kept
  /\ logging' = [logging EXCEPT ![c] = None]
  /\ UNCHANGED <<mode, row, hand, target, import>>

Erased(r, x) == [NoRunRow EXCEPT !.status = "gone"]

\* delete_run stays as the privacy escape while the API is read-only.
Delete(r) ==
  /\ mode # "disabled" /\ Exists(r)
  /\ row' = [row EXCEPT ![r] = Erased(r, @)]
  /\ kept' = [kept EXCEPT ![r] = Nothing]
  /\ UNCHANGED <<mode, hand, logging, target, import>>

\* purge_expired_data clears what expired and then deletes what nobody may open any more.
Purge ==
  LET over == {r \in Runs : Exists(r) /\ row[r].accessOver}
      cleared(r) == IF row[r].status \in Active \cup {"dead_letter"}
                    THEN EndAs(row[r], "failed") ELSE EndAs(row[r], row[r].status)
  IN  /\ \E r \in Runs : Exists(r) /\ (row[r].accessOver \/ (row[r].requestOver /\ row[r].request))
      /\ row' = [r \in Runs |-> IF r \in over THEN Erased(r, row[r])
                                ELSE IF row[r].request /\ row[r].requestOver THEN cleared(r)
                                ELSE row[r]]
      /\ kept' = [r \in Runs |-> IF r \in over THEN Nothing ELSE kept[r]]
      /\ UNCHANGED <<mode, hand, logging, target, import>>

\* A deployment moves the API towards its sunset; requests that were served are over.
Sunset ==
  /\ mode' = [enabled |-> "read_only", read_only |-> "disabled", disabled |-> "disabled"][mode]
  /\ mode' # mode
  /\ logging' = [c \in Clients |-> None]
  /\ UNCHANGED <<row, kept, hand, target, import>>

Time(r) ==
  /\ Exists(r)
  /\ \/ row[r].status = "running" /\ ~ row[r].lapsed /\ row' = [row EXCEPT ![r].lapsed = TRUE]
     \/ row[r].status = "queued" /\ ~ row[r].due /\ row' = [row EXCEPT ![r].due = TRUE]
     \/ ~ row[r].requestOver /\ row' = [row EXCEPT ![r].requestOver = TRUE]
     \/ /\ row[r].requestOver /\ ~ row[r].accessOver
        /\ row' = [row EXCEPT ![r].accessOver = TRUE]
  /\ UNCHANGED <<mode, kept, hand, logging, target, import>>

(***************************************************************************)
(* The import.                                                             *)
(***************************************************************************)
NoImport == [at |-> "idle", status |-> [r \in Runs |-> "absent"],
             outcomes |-> [r \in Runs |-> {}], picked |-> {}]

\* _security_rows, _outcome_rows and the runs are three reads of a file that may change.
ReadRows ==
  /\ import.at = "idle"
  /\ import' = [import EXCEPT !.at = "rows", !.status = [r \in Runs |-> row[r].status]]
  /\ UNCHANGED <<service, target>>

ReadOutcomes ==
  /\ import.at = "rows"
  /\ import' = [import EXCEPT !.at = "outcomes", !.outcomes = [r \in Runs |-> kept[r].outcomes]]
  /\ UNCHANGED <<service, target>>

\* A run without a row in run_security is of the time before there was one.
Importable(r) == kept[r].result /\ import.status[r] \in {"succeeded", "absent", "gone"}

\* The runs are read and compared with the workspace: a copy that differs refuses them all.
Compare ==
  /\ import.at = "outcomes"
  /\ LET candidates == {r \in Runs : Importable(r)}
         differ == {r \in candidates : /\ target[r].is = "copied"
                                       /\ target[r].outcomes # import.outcomes[r]}
         fresh  == {r \in candidates : target[r].is \in {"none", "deleted"}}
     IN  import' = IF differ = {} /\ fresh # {}
                   THEN [import EXCEPT !.at = "compared", !.picked = fresh,
                           !.status = [r \in Runs |-> "absent"]]
                   ELSE NoImport
  /\ UNCHANGED <<service, target>>

\* One transaction; the report is all that is left of a dry run.
Insert ==
  /\ import.at = "compared"
  /\ target' = [r \in Runs |-> IF r \in import.picked
                               THEN [is |-> "copied", outcomes |-> import.outcomes[r]]
                               ELSE target[r]]
  /\ import' = NoImport
  /\ UNCHANGED service

Quit == import.at # "idle" /\ import' = NoImport /\ UNCHANGED <<service, target>>

\* The owner logs for a copy, deletes it, or its retention passes, before or after the import.
Practical(r) ==
  /\ \/ /\ target[r].is = "copied"
        /\ \E e \in Entries \ target[r].outcomes :
             target' = [target EXCEPT ![r].outcomes = @ \cup {e}]
     \/ target[r].is = "copied" /\ target' = [target EXCEPT ![r] = [NoCopy EXCEPT !.is = "deleted"]]
     \/ target[r].is # "over" /\ target' = [target EXCEPT ![r] = [NoCopy EXCEPT !.is = "over"]]
  /\ r \notin import.picked
  /\ UNCHANGED <<service, import>>

(***************************************************************************)
LegacyInit ==
  /\ mode = "enabled"
  /\ row = [r \in Runs |-> NoRunRow]
  /\ kept = [r \in Runs |-> Nothing]
  /\ hand = [w \in LegacyWorkers |-> Idle]
  /\ logging = [c \in Clients |-> None]
  /\ target = [r \in Runs |-> NoCopy]
  /\ import = NoImport

LegacyNext ==
  \/ \E w \in LegacyWorkers :
       \/ ClaimRun(w) \/ Load(w) \/ Start(w) \/ FailForGood(w) \/ FailRunAttempt(w)
       \/ CompleteRun(w) \/ Crash(w)
  \/ \E r \in Runs :
       \/ Post(r) \/ CancelRun(r) \/ RequeueRun(r) \/ Delete(r) \/ Time(r) \/ Practical(r)
  \/ \E c \in Clients : Log(c) \/ \E r \in Runs : MayLog(c, r)
  \/ Purge \/ Sunset \/ ReadRows \/ ReadOutcomes \/ Compare \/ Insert \/ Quit

LegacySpec == LegacyInit /\ [][LegacyNext]_legacyVars

(***************************************************************************)
(* Properties.                                                             *)
(***************************************************************************)
\* Whatever expires, is deleted, cancelled or retried around a worker: a private request is
\* kept exactly while it may still be worked on, a lease while the run is worked on, a result
\* with a success and outcomes with a result; and what was copied is a success.
LegacyStoresAgree ==
  \A r \in Runs :
    /\ row[r].request <=> row[r].status \in Active \cup {"dead_letter"}
    /\ row[r].token # None <=> row[r].status = "running"
    /\ row[r].status = "queued" => ~ Spent(row[r])
    /\ kept[r].result <=> row[r].status = "succeeded"
    /\ kept[r].outcomes # {} => kept[r].result
    /\ target[r].is = "copied" => row[r].status \in {"succeeded", "gone"}

\* No worker, operator or cleanup changes the end of a run, but to erase all of it; and a run
\* is started over only by an operator.
EndsStay ==
  [][\A r \in Runs :
       /\ row[r].status \in EndedStates => row'[r].status \in {row[r].status, "gone"}
       /\ row[r].status = "dead_letter" => row'[r].attempts \in {0, row[r].attempts}
       /\ row[r].status # "gone" /\ row'[r].status = "gone" =>
            kept'[r] = Nothing /\ ~ row'[r].request]_legacyVars
===========================================================================
