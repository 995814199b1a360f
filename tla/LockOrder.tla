----------------------------- MODULE LockOrder -----------------------------
(***************************************************************************)
(* The order in which the transactions around one pursued application lock *)
(* rows on PostgreSQL.  A transaction is a sequence of requests: SELECT    *)
(* ... FOR UPDATE waits, FOR UPDATE NOWAIT fails on a conflict, and the    *)
(* insert of a row with a foreign key to owners takes FOR KEY SHARE on the *)
(* owner.  Locks are held until the transaction ends.                      *)
(*                                                                         *)
(* posting1 and opportunity1 are those of the application; a scan source   *)
(* also returns posting2.  The other foreign keys of the inserted rows     *)
(* name rows the transaction already holds or rows nobody locks, so they   *)
(* add no request.  Left out: rows one transaction alone locks (events,    *)
(* revisions, receipts of its own key, the scan and its sources) and       *)
(* requests for rows that do not exist yet.                                *)
(***************************************************************************)
EXTENDS Integers, Sequences

CONSTANT Connections    \* database sessions, each running one transaction at a time

VARIABLES
  txn,   \* the transaction a session runs, or "idle"
  todo,  \* the requests it still has to make, in their order
  held   \* those that were granted

lockVars == <<txn, todo, held>>

Update(row) == [row |-> row, mode |-> "update", wait |-> TRUE]
NoWait(row) == [row |-> row, mode |-> "update", wait |-> FALSE]
KeyShare(row) == [row |-> row, mode |-> "share", wait |-> TRUE]

(***************************************************************************)
(* The transactions, each named for its function.                          *)
(***************************************************************************)
\* Mutant of PursueLocks: the opportunity first.
PursueOpportunityFirst ==
  <<Update("opportunity1"), Update("posting1"), KeyShare("owner"), Update("application")>>

PursueLocks ==
  <<Update("posting1"), Update("opportunity1"), KeyShare("owner"), Update("application")>>

\* Mutants of UndoLocks: an undo that waits for the application, and one that locks the
\* contact job where it deletes it.
UndoWaiting ==
  <<Update("job"), Update("sequence"), Update("opportunity1"), Update("application"),
    Update("pack"), Update("plan"), KeyShare("owner")>>
UndoJobLast ==
  <<Update("sequence"), Update("opportunity1"), NoWait("application"), NoWait("pack"),
    Update("plan"), KeyShare("owner"), Update("job")>>

UndoLocks ==
  <<Update("job"), Update("sequence"), Update("opportunity1"), NoWait("application"),
    NoWait("pack"), Update("plan"), KeyShare("owner")>>

\* The snapshot found neither a contact search nor an outreach sequence.
UndoBareLocks ==
  <<Update("opportunity1"), NoWait("application"), NoWait("pack"), Update("plan"),
    KeyShare("owner")>>

DecideLocks == <<Update("opportunity1"), KeyShare("owner")>>

\* One transaction persists every role a source returned, in the order returned.
PersistRole(posting, opportunity) ==
  <<Update(posting), KeyShare("owner"), Update(opportunity)>>

Scan12 ==
  PersistRole("posting1", "opportunity1") \o PersistRole("posting2", "opportunity2")

Scan21 ==
  PersistRole("posting2", "opportunity2") \o PersistRole("posting1", "opportunity1")

ReadyLocks ==
  <<Update("owner"), Update("application"), Update("posting1"), Update("pack"),
    Update("resume")>>

AppliedLocks ==
  <<Update("application"), KeyShare("owner"), Update("posting1"), Update("pack"),
    Update("resume")>>

\* Progress, closing, interview rounds and corrections.
ProgressLocks == <<Update("application"), KeyShare("owner")>>

CreatePackLocks ==
  <<Update("application"), KeyShare("owner"), Update("posting1"), Update("resume")>>

\* With the guard that the base resume is the only one.
CreatePackSoleBaseLocks ==
  <<Update("application"), KeyShare("owner"), Update("posting1"), Update("owner"),
    Update("resume")>>

RevisePackLocks ==
  <<Update("pack"), KeyShare("owner"), Update("posting1"), Update("evidence")>>

ApproveArtifactLocks ==
  <<Update("pack"), KeyShare("owner"), Update("evidence"), Update("owner"),
    Update("resume")>>

EditEvidenceLocks == <<Update("owner"), Update("evidence")>>

CreateContactSearchLocks ==
  <<Update("application"), Update("budget"), Update("plan"), KeyShare("owner")>>

\* Mutant of LockedContactGraph: the plan before the application.
PlanBeforeApplication == <<Update("posting1"), Update("plan"), Update("application")>>

LockedContactGraph == <<Update("posting1"), Update("application"), Update("plan")>>

ContactWorkerLocks ==
  <<Update("job")>> \o LockedContactGraph \o <<Update("contact"), KeyShare("owner")>>

\* The failure transition, and the reconciliation at the next poll.
ClosePlanLocks == <<Update("job"), Update("plan")>>

StartOutreachLocks ==
  <<Update("application"), KeyShare("owner"), Update("plan"), Update("contact")>>

RecordCopyLocks ==
  <<Update("sequence"), KeyShare("owner"), Update("contact"), Update("owner")>>

Requests ==
  [pursue |-> PursueLocks, undo |-> UndoLocks, undoBare |-> UndoBareLocks,
   decide |-> DecideLocks, scan12 |-> Scan12, scan21 |-> Scan21, ready |-> ReadyLocks,
   applied |-> AppliedLocks, progress |-> ProgressLocks, createPack |-> CreatePackLocks,
   createPackSoleBase |-> CreatePackSoleBaseLocks, revisePack |-> RevisePackLocks,
   approveArtifact |-> ApproveArtifactLocks, editEvidence |-> EditEvidenceLocks,
   createContactSearch |-> CreateContactSearchLocks, contactWorker |-> ContactWorkerLocks,
   closePlan |-> ClosePlanLocks, startOutreach |-> StartOutreachLocks,
   recordCopy |-> RecordCopyLocks]

Transactions == DOMAIN Requests

(***************************************************************************)
(* Locks held, awaited and in conflict.                                    *)
(***************************************************************************)
Running(s) == txn[s] # "idle"

Pending(s) == todo[s] # <<>>

Request(s) == Head(todo[s])

\* r holds what the request q of another session needs.
Blocks(r, q) ==
  \E g \in held[r] : g.row = q.row /\ "update" \in {g.mode, q.mode}

Conflict(s) == \E r \in Connections \ {s} : Blocks(r, Request(s))

WaitsFor(s, r) == s # r /\ Pending(s) /\ Request(s).wait /\ Blocks(r, Request(s))

\* X is closed: whoever its members and s wait for is in it.
Closed(X, s) ==
  \A x \in X \cup {s} : \A y \in Connections : WaitsFor(x, y) => y \in X

\* r is in every such set, so s waits for it, perhaps through others.
Reaches(s, r) == \A X \in SUBSET Connections : Closed(X, s) => r \in X

(***************************************************************************)
(* Actions.                                                                *)
(***************************************************************************)
LockInit == /\ txn = [s \in Connections |-> "idle"]
            /\ todo = [s \in Connections |-> <<>>]
            /\ held = [s \in Connections |-> {}]

Ended(s) == /\ txn' = [txn EXCEPT ![s] = "idle"]
            /\ todo' = [todo EXCEPT ![s] = <<>>]
            /\ held' = [held EXCEPT ![s] = {}]

BeginTransaction(s, t) == /\ ~Running(s)
                          /\ txn' = [txn EXCEPT ![s] = t]
                          /\ todo' = [todo EXCEPT ![s] = Requests[t]]
                          /\ UNCHANGED held

Acquire(s) == /\ Pending(s) /\ ~Conflict(s)
              /\ held' = [held EXCEPT ![s] = @ \cup {Request(s)}]
              /\ todo' = [todo EXCEPT ![s] = Tail(@)]
              /\ UNCHANGED txn

\* MutationPending: the client is told to retry.
Refuse(s) == Pending(s) /\ ~Request(s).wait /\ Conflict(s) /\ Ended(s)

CommitTransaction(s) == Running(s) /\ ~Pending(s) /\ Ended(s)

\* PostgreSQL ends a transaction that waits for itself.
BreakDeadlock(s) == Reaches(s, s) /\ Ended(s)

LockNext == \E s \in Connections :
              \/ \E t \in Transactions : BeginTransaction(s, t)
              \/ Acquire(s) \/ Refuse(s) \/ CommitTransaction(s) \/ BreakDeadlock(s)

LockSpec == LockInit /\ [][LockNext]_lockVars

(***************************************************************************)
(* Properties.                                                             *)
(***************************************************************************)
\* No cycle of waiting transactions goes through one of A and one of B.
Apart(A, B) ==
  \A s, r \in Connections :
    txn[s] \in A /\ txn[r] \in B => ~(Reaches(s, r) /\ Reaches(r, s))

\* s waits for r, or for a transaction that does.
WaitsWithin(s, r) ==
  WaitsFor(s, r) \/ \E x \in Connections : WaitsFor(s, x) /\ WaitsFor(x, r)

\* No cycle of two or three waiting transactions goes through one of A and one of B.
ApartInThrees(A, B) ==
  \A s, r \in Connections :
    txn[s] \in A /\ txn[r] \in B =>
      ~(WaitsFor(s, r) /\ WaitsWithin(r, s)) /\ ~(WaitsWithin(s, r) /\ WaitsFor(r, s))

Undos == {"undo", "undoBare"}
Scans == {"scan12", "scan21"}

\* What comments of the code promise.  application_repository.py:1472: an undo never deadlocks
\* with a scan, although a scan holds postings while it waits for the opportunity and pack
\* writers hold the application while they wait for the posting; :332: nor does a pursuit, here
\* in a cycle of at most three (there is one of four); contact_search_worker.py:356 and :1074:
\* the contact worker and the reconciliation of its plans never deadlock with an undo or with
\* the creation of another search, which holds the application and waits for the plan.
OrdersHold ==
  /\ Apart(Undos, Scans)
  /\ ApartInThrees({"pursue"}, Scans)
  /\ Apart(Undos \cup {"createContactSearch"}, {"contactWorker", "closePlan"})

\* contact_search_worker.py:1076 "This order therefore avoids both PostgreSQL deadlock
\* cycles": the contact worker is in no cycle.
ContactWorkerNeverDeadlocks == Apart({"contactWorker"}, Transactions)
=============================================================================
