----------------------------- MODULE WorkerPool -----------------------------
(***************************************************************************)
(* What the components that work under leases of the job queue share: the  *)
(* worker processes (worker.py) and the values they lease rows with.       *)
(***************************************************************************)
EXTENDS Integers, FiniteSets

CONSTANTS
  Workers,       \* worker processes
  Tokens,        \* uuid4 lease tokens
  LeaseTime,     \* lease_seconds, in ticks
  NoOwner,       \* NULL lease_owner
  NoToken,       \* NULL lease_token
  NoJob          \* the claim of an idle worker

ASSUME PoolAssumption == LeaseTime \in Nat \ {0} /\ NoToken \notin Tokens /\ NoOwner \notin Workers

\* What a process that works on nothing remembers.
Idle == "idle"
=============================================================================
