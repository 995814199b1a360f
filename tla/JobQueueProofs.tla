--------------------------- MODULE JobQueueProofs ---------------------------
(***************************************************************************)
(* Machine-checked proofs about JobQueue, for any number of jobs, workers, *)
(* tokens and attempts and for any clock errors, and about LegacyStore,    *)
(* the queue it replaced, for any number of runs, workers and attempts.    *)
(***************************************************************************)
EXTENDS JobQueue, LegacyStore, TLAPS

-----------------------------------------------------------------------------
(***************************************************************************)
(* Types of the row transformers.                                          *)
(***************************************************************************)
\* Writing a column with a value of its type leaves a row of the table's type.
LEMMA RowFields ==
  /\ \A s \in Row, v \in Statuses : [s EXCEPT !.status = v] \in Row
  /\ \A s \in Row, v \in Stages : [s EXCEPT !.stage = v] \in Row
  /\ \A s \in Row, n \in 0..MaxAttempts : [s EXCEPT !.attempts = n] \in Row
  /\ \A s \in Row, n \in Int : [s EXCEPT !.wait = n] \in Row
  /\ \A s \in Row, n \in Int : [s EXCEPT !.lease = n] \in Row
  /\ \A s \in Row, v \in Owners : [s EXCEPT !.owner = v] \in Row
  /\ \A s \in Row, v \in LeaseTokens : [s EXCEPT !.token = v] \in Row
  /\ \A s \in Row, v \in BOOLEAN : [s EXCEPT !.cancel = v] \in Row
  /\ \A s \in Row, v \in Stamps : [s EXCEPT !.stamps = @ \cup {v}] \in Row
  /\ \A s \in Row : [s EXCEPT !.stamps = {}] \in Row
BY DEF Row

\* The values the code writes into the columns.
LEMMA RowValues ==
  /\ NoOwner \in Owners /\ NoToken \in LeaseTokens
  /\ \A w \in Workers : WorkerId[w] \in Owners
  /\ \A t \in Tokens : t \in LeaseTokens
  /\ "queued" \in Statuses /\ "running" \in Statuses
  /\ "succeeded" \in Statuses /\ "cancelled" \in Statuses /\ "dead_letter" \in Statuses
  /\ "claimed" \in Stages /\ "working" \in Stages /\ "retry_scheduled" \in Stages
  /\ "lease_recovered" \in Stages /\ "operator_requeued" \in Stages
  /\ "succeeded" \in Stages /\ "cancelled" \in Stages /\ "dead_letter" \in Stages
  /\ "completed" \in Stamps /\ "failed" \in Stamps
  /\ "cancelled" \in Stamps /\ "dead_lettered" \in Stamps
  /\ 0 \in 0..MaxAttempts /\ 0 \in Int /\ TRUE \in BOOLEAN /\ FALSE \in BOOLEAN
BY AttemptsAssumption
   DEF Owners, LeaseTokens, Ids, Statuses, Stages, Stamps, Terminal

\* Clearing the lease, and the endings of a running row.
LEMMA EndingsTyped ==
  ASSUME NEW r \in Row, NEW stage \in Stages, NEW n \in Int
  PROVE  /\ \A stamp \in Stamps : Stamped(r, stamp) \in Row
         /\ FinalCancel(r) \in Row
         /\ Succeeded(r) \in Row
         /\ DeadLettered(r) \in Row
         /\ Retried(r, stage, n) \in Row
<1> USE RowFields, RowValues
<1>1. \A s \in Row, stamp \in Stamps : Stamped(s, stamp) \in Row
  BY DEF Stamped
<1>2. Unleased(r) \in Row
  BY DEF Unleased
<1>3. ASSUME NEW status \in Statuses \cap Stages, NEW stamp \in Stamps
      PROVE  Ended(r, status, stamp) \in Row
  BY <1>1, <1>2 DEF Ended
<1>4. FinalCancel(r) \in Row /\ Succeeded(r) \in Row /\ DeadLettered(r) \in Row
  BY <1>3 DEF FinalCancel, Succeeded, DeadLettered
<1>5. Retried(r, stage, n) \in Row
  BY <1>2 DEF Retried
<1>6. QED
  BY <1>1, <1>4, <1>5

\* The row before and after its insertion.
LEMMA NewTyped ==
  /\ NoRow \in Row
  /\ \A delay \in Delays, d \in Skews : NewRow(delay, d) \in Row
<1>1. NoRow \in Row
  BY RowValues DEF NoRow, Row, Statuses, Stages
<1>2. ASSUME NEW delay \in Delays, NEW d \in Skews
      PROVE  NewRow(delay, d) \in Row
  <2>1. delay + d \in Int
    BY SkewAssumption, DelayAssumption
  <2>2. QED
    BY <1>1, <2>1, RowFields, RowValues DEF NewRow
<1>3. QED
  BY <1>1, <1>2

\* Every transformer an action applies keeps the type of a row.
LEMMA TransformersTyped ==
  ASSUME NEW r \in Row, NEW d \in Skews, NEW delay \in Delays, NEW terminal \in BOOLEAN,
         NEW w \in Workers, NEW t \in Tokens
  PROVE  /\ NoRow \in Row
         /\ NewRow(delay, d) \in Row
         /\ r.attempts < MaxAttempts => ClaimedRow(r, WorkerId[w], t, d) \in Row
         /\ RenewedRow(r, d) \in Row
         /\ StagedRow(r) \in Row
         /\ CompletedRow(r) \in Row
         /\ FailedRow(r, terminal, delay, d) \in Row
         /\ CancelledRow(r) \in Row
         /\ RecoveredRow(r, d) \in Row
         /\ RequeuedRow(r, d) \in Row
<1> USE RowFields, RowValues, EndingsTyped
<1>1. d \in Int /\ delay + d \in Int /\ LeaseTime + d \in Int
  BY SkewAssumption, DelayAssumption, LeaseAssumption
<1>2. NoRow \in Row
  BY NewTyped
<1>3. NewRow(delay, d) \in Row
  BY NewTyped
<1>4. ASSUME r.attempts < MaxAttempts
      PROVE  ClaimedRow(r, WorkerId[w], t, d) \in Row
  <2>1. r.attempts + 1 \in 0..MaxAttempts
    BY <1>4, AttemptsAssumption DEF Row
  <2>2. QED
    BY <1>1, <2>1 DEF ClaimedRow
<1>5. RenewedRow(r, d) \in Row
  BY <1>1 DEF RenewedRow
<1>6. StagedRow(r) \in Row
  BY DEF StagedRow
<1>7. CompletedRow(r) \in Row
  BY DEF CompletedRow
<1>8. FailedRow(r, terminal, delay, d) \in Row
  BY <1>1 DEF FailedRow
<1>9. CancelledRow(r) \in Row
  BY DEF CancelledRow
<1>10. RecoveredRow(r, d) \in Row
  BY <1>1 DEF RecoveredRow
<1>11. RequeuedRow(r, d) \in Row
  <2>1. Retried(r, "operator_requeued", d) \in Row
    BY <1>1
  <2>2. QED
    BY <2>1 DEF RequeuedRow
<1>12. QED
  BY <1>2, <1>3, <1>4, <1>5, <1>6, <1>7, <1>8, <1>9, <1>10, <1>11

-----------------------------------------------------------------------------
(***************************************************************************)
(* Coherence of the row transformers.                                      *)
(***************************************************************************)
\* What the inductive invariant says of one row.
RowGood(r) == /\ RowCoherent(r)
              /\ r.status = "queued" => r.attempts < MaxAttempts
              /\ r.status = "absent" => r.attempts = 0

\* A row that was just inserted, and a claim of a claimable row.
LEMMA StartsGood ==
  ASSUME NEW delay \in Delays, NEW d \in Skews, NEW w \in Workers, NEW t \in Tokens
  PROVE  /\ RowGood(NoRow) /\ RowGood(NewRow(delay, d))
         /\ \A r \in Row : RowGood(r) /\ Claimable(r, d) =>
                            RowGood(ClaimedRow(r, WorkerId[w], t, d))
<1>1. RowGood(NoRow) /\ RowGood(NewRow(delay, d))
  BY AttemptsAssumption DEF RowGood, RowCoherent, NoRow, NewRow, Terminal
<1>2. ASSUME NEW r \in Row, RowGood(r), Claimable(r, d)
      PROVE  RowGood(ClaimedRow(r, WorkerId[w], t, d))
  <2>1. t # NoToken /\ WorkerId[w] # NoOwner
    BY NullAssumption
  <2>2. QED
    BY <1>2, <2>1 DEF RowGood, RowCoherent, Claimable, ClaimedRow, Row, Terminal
<1>3. QED
  BY <1>1, <1>2

\* Clearing the lease and ending a row.
LEMMA EndingsGood ==
  ASSUME NEW r \in Row, RowGood(r), r.status = "running", NEW stage \in Stages, NEW n \in Int
  PROVE  /\ r.cancel => RowGood(FinalCancel(r))
         /\ ~r.cancel => RowGood(Succeeded(r))
         /\ ~r.cancel => RowGood(DeadLettered(r))
         /\ ~r.cancel /\ r.attempts < MaxAttempts => RowGood(Retried(r, stage, n))
<1> USE DEF RowGood, RowCoherent, Row, Terminal, Ended, Stamped, Unleased
<1>1. r.cancel => RowGood(FinalCancel(r))
  BY DEF FinalCancel
<1>2. ~r.cancel => RowGood(Succeeded(r))
  BY DEF Succeeded
<1>3. ~r.cancel => RowGood(DeadLettered(r))
  BY DEF DeadLettered
<1>4. ~r.cancel /\ r.attempts < MaxAttempts => RowGood(Retried(r, stage, n))
  BY DEF Retried
<1>5. QED
  BY <1>1, <1>2, <1>3, <1>4

\* The transformers of a running row keep it good.
LEMMA RunningGood ==
  ASSUME NEW r \in Row, RowGood(r), r.status = "running",
         NEW d \in Skews, NEW delay \in Delays, NEW terminal \in BOOLEAN
  PROVE  /\ RowGood(RenewedRow(r, d))
         /\ RowGood(StagedRow(r))
         /\ RowGood(CompletedRow(r))
         /\ RowGood(FailedRow(r, terminal, delay, d))
         /\ RowGood(RecoveredRow(r, d))
<1>1. d \in Int /\ delay + d \in Int /\ r.attempts \in Int /\ MaxAttempts \in Int
  BY SkewAssumption, DelayAssumption, AttemptsAssumption DEF Row
<1>2. RowGood(RenewedRow(r, d))
  BY DEF RowGood, RowCoherent, Row, RenewedRow
<1>3. RowGood(StagedRow(r))
  BY DEF RowGood, RowCoherent, Row, StagedRow, Terminal
<1>4. RowGood(CompletedRow(r))
  BY EndingsGood, RowValues DEF CompletedRow
<1>5. RowGood(FailedRow(r, terminal, delay, d))
  <2> DEFINE f == Stamped(r, "failed")
  <2>1. f \in Row
    BY EndingsTyped, RowValues
  <2>2. RowGood(f) /\ f.status = "running" /\ f.cancel = r.cancel /\ f.attempts = r.attempts
    BY DEF RowGood, RowCoherent, Row, Stamped
  <2>3. QED
    BY <1>1, <2>1, <2>2, EndingsGood, RowValues DEF FailedRow
<1>6. RowGood(RecoveredRow(r, d))
  BY <1>1, EndingsGood, RowValues DEF RecoveredRow
<1>7. QED
  BY <1>2, <1>3, <1>4, <1>5, <1>6

\* The transformers the API applies, whatever the status of the row.
LEMMA OutsideGood ==
  ASSUME NEW r \in Row, RowGood(r), NEW d \in Skews
  PROVE  /\ RowGood(CancelledRow(r))
         /\ r.status = "dead_letter" => RowGood(RequeuedRow(r, d))
<1>1. RowGood(CancelledRow(r))
  BY DEF CancelledRow, FinalCancel, Ended, Stamped, Unleased, RowGood, RowCoherent, Row,
         Terminal
<1>2. r.status = "dead_letter" => RowGood(RequeuedRow(r, d))
  BY AttemptsAssumption
     DEF RequeuedRow, Retried, Unleased, RowGood, RowCoherent, Row, Terminal
<1>3. QED
  BY <1>1, <1>2

-----------------------------------------------------------------------------
(***************************************************************************)
(* The inductive invariant.  Coherence of the rows is inductive with       *)
(* NoStrandedJob; SingleFinisher is not: that two processes never hold the *)
(* same token is, because a claim takes a token no row and no process has. *)
(***************************************************************************)
TableGood == job \in [Jobs -> Row] /\ \A j \in Jobs : RowGood(job[j])

ClaimsDistinct ==
  /\ claim \in [Workers -> Claim]
  /\ \A w \in Workers : claim[w].job # NoJob => claim[w].token # NoToken
  /\ \A v, w \in Workers :
       claim[v].token = claim[w].token /\ claim[v].token # NoToken => v = w

IInv == TableGood /\ ClaimsDistinct /\ requeues \in 0..MaxRequeues

\* An action that rewrites one row with a good one leaves a good table.
LEMMA OneRow ==
  ASSUME TableGood, NEW j \in Jobs, NEW f \in Row, RowGood(f), job' = [job EXCEPT ![j] = f]
  PROVE  TableGood'
BY DEF TableGood, RowGood, RowCoherent

\* A worker that forgets its claim.
LEMMA Forgets ==
  ASSUME ClaimsDistinct, NEW w \in Workers, claim' = [claim EXCEPT ![w] = NoClaim]
  PROVE  ClaimsDistinct'
<1>1. NoClaim \in Claim /\ NoClaim.job = NoJob /\ NoClaim.token = NoToken
  BY RowValues DEF NoClaim, Claim
<1>2. QED
  BY <1>1 DEF ClaimsDistinct

\* A worker that notes the fresh token of its claim.
LEMMA Notes ==
  ASSUME ClaimsDistinct, NEW w \in Workers, NEW j \in Jobs, NEW t \in Tokens \ TokensInUse,
         claim' = [claim EXCEPT ![w] = [job |-> j, token |-> t]]
  PROVE  ClaimsDistinct'
<1> DEFINE c == [job |-> j, token |-> t]
<1>1. c \in Claim /\ c.token = t /\ t # NoToken
  BY RowValues, NullAssumption DEF Claim
<1>2. \A v \in Workers : claim[v].token # t
  BY DEF TokensInUse
<1>3. claim' \in [Workers -> Claim]
  BY <1>1 DEF ClaimsDistinct
<1>4. \A v \in Workers : claim'[v] = IF v = w THEN c ELSE claim[v]
  BY DEF ClaimsDistinct
<1> HIDE DEF c
<1>5. QED
  BY <1>1, <1>2, <1>3, <1>4 DEF ClaimsDistinct

\* What a poll makes of the table before it claims.
LEMMA RecoveredGood ==
  ASSUME TableGood, NEW locked \in SUBSET Jobs, NEW d \in Skews
  PROVE  /\ Recovered(locked, d) \in [Jobs -> Row]
         /\ \A j \in Jobs : RowGood(Recovered(locked, d)[j])
<1>1. ASSUME NEW j \in Jobs
      PROVE  Recovered(locked, d)[j] \in Row /\ RowGood(Recovered(locked, d)[j])
  <2>1. job[j] \in Row /\ RowGood(job[j])
    BY DEF TableGood
  <2>2. CASE j \notin locked /\ Stale(job[j], d)
    <3>1. job[j].status = "running"
      BY <2>2 DEF Stale
    <3>2. RecoveredRow(job[j], d) \in Row /\ RowGood(RecoveredRow(job[j], d))
      <4>1. RecoveredRow(job[j], d) \in Row
        BY <2>1, EndingsTyped, RowValues, SkewAssumption DEF RecoveredRow
      <4>2. RowGood(RecoveredRow(job[j], d))
        BY <2>1, <3>1, RunningGood, DelayAssumption
      <4>3. QED
        BY <4>1, <4>2
    <3>3. QED
      BY <2>2, <3>2 DEF Recovered
  <2>3. CASE ~(j \notin locked /\ Stale(job[j], d))
    BY <2>1, <2>3 DEF Recovered
  <2>4. QED
    BY <2>2, <2>3
<1>2. QED
  BY <1>1 DEF Recovered

-----------------------------------------------------------------------------
(***************************************************************************)
(* Induction.                                                              *)
(***************************************************************************)
\* The empty table, idle workers.
LEMMA InitIInv == Init => IInv
<1> SUFFICES ASSUME Init PROVE IInv
  OBVIOUS
<1>1. NoRow \in Row /\ RowGood(NoRow)
  <2>1. NoRow \in Row
    BY NewTyped
  <2>2. RowGood(NoRow)
    BY AttemptsAssumption DEF RowGood, RowCoherent, NoRow, Terminal
  <2>3. QED
    BY <2>1, <2>2
<1>2. NoClaim \in Claim /\ NoClaim.job = NoJob /\ NoClaim.token = NoToken
  BY RowValues DEF NoClaim, Claim
<1>3. QED
  BY <1>1, <1>2, BoundAssumption DEF Init, IInv, TableGood, ClaimsDistinct

\* The producers: Enqueue, Cancel and Requeue.
LEMMA ProducersKeep ==
  ASSUME IInv, NEW j \in Jobs, Enqueue(j) \/ Cancel(j) \/ Requeue(j)
  PROVE  IInv'
<1>1. job[j] \in Row /\ RowGood(job[j]) /\ TableGood /\ ClaimsDistinct
  BY DEF IInv, TableGood
<1>2. UNCHANGED claim /\ ClaimsDistinct'
  BY <1>1 DEF Enqueue, Cancel, Requeue, ClaimsDistinct
<1>3. requeues' \in 0..MaxRequeues
  BY BoundAssumption DEF IInv, Enqueue, Cancel, Requeue
<1>4. CASE Enqueue(j)
  <2>1. PICK d \in Skews, delay \in Delays : job' = [job EXCEPT ![j] = NewRow(delay, d)]
    BY <1>4 DEF Enqueue
  <2>2. NewRow(delay, d) \in Row
    BY NewTyped
  <2>3. RowGood(NewRow(delay, d))
    BY AttemptsAssumption DEF RowGood, RowCoherent, NoRow, NewRow, Terminal
  <2>4. QED
    BY <1>1, <1>2, <1>3, <2>1, <2>2, <2>3, OneRow DEF IInv
<1>5. CASE Cancel(j)
  <2>1. job' = [job EXCEPT ![j] = CancelledRow(job[j])]
    BY <1>5 DEF Cancel
  <2>2. CancelledRow(job[j]) \in Row
    BY <1>1, EndingsTyped, RowFields, RowValues, SkewAssumption DEF CancelledRow
  <2>3. RowGood(CancelledRow(job[j]))
    BY <1>1, OutsideGood, SkewAssumption
  <2>4. QED
    BY <1>1, <1>2, <1>3, <2>1, <2>2, <2>3, OneRow DEF IInv
<1>6. CASE Requeue(j)
  <2>1. PICK d \in Skews : /\ job' = [job EXCEPT ![j] = RequeuedRow(job[j], d)]
                           /\ job[j].status = "dead_letter"
    BY <1>6 DEF Requeue
  <2>2. RequeuedRow(job[j], d) \in Row
    <3>1. Retried(job[j], "operator_requeued", d) \in Row
      BY <1>1, EndingsTyped, RowValues, SkewAssumption
    <3>2. QED
      BY <3>1, RowFields, RowValues DEF RequeuedRow
  <2>3. RowGood(RequeuedRow(job[j], d))
    BY <1>1, <2>1, OutsideGood
  <2>4. QED
    BY <1>1, <1>2, <1>3, <2>1, <2>2, <2>3, OneRow DEF IInv
<1>7. QED
  BY <1>4, <1>5, <1>6

\* A poll, whichever rows it finds locked.
LEMMA PollKeeps ==
  ASSUME IInv, NEW w \in Workers, Poll(w)
  PROVE  IInv'
<1>1. PICK locked \in SUBSET Jobs, d \in Skews : PollIdle(w, locked, d) \/ PollClaim(w, locked, d)
  BY DEF Poll
<1> DEFINE rows == Recovered(locked, d)
<1>2. TableGood /\ ClaimsDistinct /\ requeues' \in 0..MaxRequeues
  BY <1>1 DEF IInv, PollIdle, PollClaim
<1>3. rows \in [Jobs -> Row] /\ \A j \in Jobs : RowGood(rows[j])
  BY <1>2, RecoveredGood
<1>4. CASE PollIdle(w, locked, d)
  <2>1. job' = rows /\ claim' = claim
    BY <1>4 DEF PollIdle
  <2>2. TableGood' /\ ClaimsDistinct'
    BY <1>2, <1>3, <2>1 DEF TableGood, ClaimsDistinct, RowGood, RowCoherent
  <2>3. QED
    BY <1>2, <2>2 DEF IInv
<1>5. CASE PollClaim(w, locked, d)
  <2>1. PICK j \in Jobs, t \in Tokens \ TokensInUse :
          /\ Claimable(rows[j], d)
          /\ job' = [rows EXCEPT ![j] = ClaimedRow(rows[j], WorkerId[w], t, d)]
          /\ claim' = [claim EXCEPT ![w] = [job |-> j, token |-> t]]
    BY <1>5, ServesAssumption DEF PollClaim, FirstOf
  <2> DEFINE r == ClaimedRow(rows[j], WorkerId[w], t, d)
  <2>2. r \in Row
    BY <1>3, <2>1, TransformersTyped, DelayAssumption DEF Claimable
  <2>3. RowGood(r)
    BY <1>3, <2>1, StartsGood, DelayAssumption
  <2>4. ClaimsDistinct'
    BY <1>2, <2>1, Notes
  <2> HIDE DEF r, rows
  <2>5. TableGood'
    <3>1. \A k \in Jobs : job'[k] = IF k = j THEN r ELSE rows[k]
      BY <1>3, <2>1 DEF r
    <3>2. job' \in [Jobs -> Row]
      BY <1>3, <2>1, <2>2 DEF r
    <3>3. QED
      BY <1>3, <2>3, <3>1, <3>2 DEF TableGood, RowGood, RowCoherent
  <2>6. QED
    BY <1>2, <2>4, <2>5 DEF IInv
<1>6. QED
  BY <1>1, <1>4, <1>5

\* The renewing thread and the handler of one worker.
LEMMA WorkKeeps ==
  ASSUME IInv, NEW w \in Workers,
         Renew(w) \/ Stage(w) \/ Complete(w) \/ Fail(w) \/ GiveUp(w)
  PROVE  IInv'
<1> DEFINE j == claim[w].job
<1>1. TableGood /\ ClaimsDistinct /\ requeues' \in 0..MaxRequeues
  BY DEF IInv, Renew, Stage, Complete, Fail, FailAttempt, GiveUp
<1>2. j \in Jobs
  BY <1>1 DEF ClaimsDistinct, Claim, Renew, Stage, Complete, Fail, FailAttempt, GiveUp, HoldsLease,
              Working
<1>3. job[j] \in Row /\ RowGood(job[j])
  BY <1>1, <1>2 DEF TableGood
<1>4. (\E d \in Skews : HoldsLease(w, d)) => job[j].status = "running"
  BY DEF HoldsLease, Owned
<1>5. CASE Renew(w)
  <2>1. PICK d \in Skews : HoldsLease(w, d) /\ job' = [job EXCEPT ![j] = RenewedRow(job[j], d)]
    BY <1>5 DEF Renew
  <2>2. RenewedRow(job[j], d) \in Row
    BY <1>3, RowFields, SkewAssumption, LeaseAssumption DEF RenewedRow
  <2>3. RowGood(RenewedRow(job[j], d))
    BY <1>3, <1>4, <2>1, RunningGood, DelayAssumption
  <2> HIDE DEF j
  <2>4. TableGood'
    BY <1>1, <1>2, <2>1, <2>2, <2>3, OneRow
  <2>5. QED
    BY <1>1, <1>5, <2>4 DEF IInv, ClaimsDistinct, Renew
<1>6. CASE Stage(w)
  <2>1. (\E d \in Skews : HoldsLease(w, d)) /\ job' = [job EXCEPT ![j] = StagedRow(job[j])]
    BY <1>6 DEF Stage
  <2>2. StagedRow(job[j]) \in Row
    BY <1>3, RowFields, RowValues DEF StagedRow
  <2>3. RowGood(StagedRow(job[j]))
    BY <1>3, <1>4, <2>1, RunningGood, DelayAssumption, SkewAssumption
  <2> HIDE DEF j
  <2>4. TableGood'
    BY <1>1, <1>2, <2>1, <2>2, <2>3, OneRow
  <2>5. QED
    BY <1>1, <1>6, <2>4 DEF IInv, ClaimsDistinct, Stage
<1>7. CASE Complete(w)
  <2>1. (\E d \in Skews : HoldsLease(w, d)) /\ job' = [job EXCEPT ![j] = CompletedRow(job[j])]
    BY <1>7 DEF Complete
  <2>2. CompletedRow(job[j]) \in Row
    BY <1>3, EndingsTyped, RowValues DEF CompletedRow
  <2>3. RowGood(CompletedRow(job[j]))
    BY <1>3, <1>4, <2>1, RunningGood, DelayAssumption, SkewAssumption
  <2>4. ClaimsDistinct'
    BY <1>1, <1>7, Forgets DEF Complete
  <2> HIDE DEF j
  <2>5. TableGood'
    BY <1>1, <1>2, <2>1, <2>2, <2>3, OneRow
  <2>6. QED
    BY <1>1, <2>4, <2>5 DEF IInv
<1>8. CASE Fail(w)
  <2>1. PICK d \in Skews, terminal \in BOOLEAN, delay \in Delays :
          HoldsLease(w, d) /\ job' = [job EXCEPT ![j] = FailedRow(job[j], terminal, delay, d)]
    BY <1>8 DEF Fail, FailAttempt
  <2>2. FailedRow(job[j], terminal, delay, d) \in Row
    <3>1. delay + d \in Int
      BY SkewAssumption, DelayAssumption
    <3>2. Stamped(job[j], "failed") \in Row
      BY <1>3, EndingsTyped, RowValues
    <3>3. QED
      BY <1>3, <3>1, <3>2, EndingsTyped, RowValues DEF FailedRow
  <2>3. RowGood(FailedRow(job[j], terminal, delay, d))
    BY <1>3, <1>4, <2>1, RunningGood
  <2>4. ClaimsDistinct'
    BY <1>1, <1>8, Forgets DEF Fail, FailAttempt
  <2> HIDE DEF j
  <2>5. TableGood'
    BY <1>1, <1>2, <2>1, <2>2, <2>3, OneRow
  <2>6. QED
    BY <1>1, <2>4, <2>5 DEF IInv
<1>9. CASE GiveUp(w)
  <2>1. ClaimsDistinct'
    BY <1>1, <1>9, Forgets DEF GiveUp
  <2>2. TableGood'
    BY <1>1, <1>9 DEF GiveUp, TableGood, RowGood, RowCoherent
  <2>3. QED
    BY <1>1, <2>1, <2>2 DEF IInv
<1>10. QED
  BY <1>5, <1>6, <1>7, <1>8, <1>9

\* Time passing, and a step that changes nothing.
LEMMA TimeKeeps ==
  ASSUME IInv, Tick \/ UNCHANGED vars
  PROVE  IInv'
<1>1. CASE Tick
  <2>1. ASSUME NEW j \in Jobs
        PROVE  job'[j] \in Row /\ RowGood(job'[j])
    <3>1. job[j] \in Row /\ RowGood(job[j])
      BY DEF IInv, TableGood
    <3>2. PICK l \in Int, n \in Int : job'[j] = [job[j] EXCEPT !.lease = l, !.wait = n]
      <4>1. job[j].lease \in Int /\ job[j].wait \in Int
        BY <3>1 DEF Row
      <4> DEFINE l == IF job[j].status = "running" /\ ~Elapsed(job[j].lease)
                      THEN job[j].lease - 1 ELSE job[j].lease
                 n == IF job[j].status = "queued" /\ ~Elapsed(job[j].wait)
                      THEN job[j].wait - 1 ELSE job[j].wait
      <4>2. l \in Int /\ n \in Int
        BY <4>1
      <4>3. job'[j] = [job[j] EXCEPT !.lease = l, !.wait = n]
        BY <1>1 DEF Tick
      <4>4. QED
        BY <4>2, <4>3
    <3>3. job'[j] \in Row
      <4>1. [job[j] EXCEPT !.lease = l] \in Row
        BY <3>1, RowFields
      <4>2. [[job[j] EXCEPT !.lease = l] EXCEPT !.wait = n] \in Row
        BY <4>1, RowFields
      <4>3. QED
        BY <3>2, <4>2
    <3>4. RowGood(job'[j])
      BY <3>1, <3>2 DEF RowGood, RowCoherent, Row
    <3>5. QED
      BY <3>3, <3>4
  <2>2. job' \in [Jobs -> Row]
    BY <1>1, <2>1 DEF Tick
  <2>3. UNCHANGED <<claim, requeues>>
    BY <1>1 DEF Tick
  <2>4. QED
    BY <2>1, <2>2, <2>3 DEF IInv, TableGood, ClaimsDistinct, RowGood, RowCoherent
<1>2. CASE UNCHANGED vars
  BY <1>2 DEF IInv, TableGood, ClaimsDistinct, RowGood, RowCoherent, vars
<1>3. QED
  BY <1>1, <1>2

\* Every step keeps the invariant.
LEMMA NextIInv == IInv /\ [Next]_vars => IInv'
BY ProducersKeep, PollKeeps, WorkKeeps, TimeKeeps DEF Next

\* The invariant implies what the runs check.
LEMMA IInvImplies == IInv => TypeOK /\ RowsCoherent /\ NoStrandedJob /\ SingleFinisher
<1> SUFFICES ASSUME IInv PROVE TypeOK /\ RowsCoherent /\ NoStrandedJob /\ SingleFinisher
  OBVIOUS
<1>1. TypeOK
  BY DEF IInv, TableGood, ClaimsDistinct, TypeOK
<1>2. RowsCoherent /\ NoStrandedJob
  BY DEF IInv, TableGood, RowGood, RowsCoherent, NoStrandedJob
<1>3. SingleFinisher
  <2> SUFFICES ASSUME NEW j \in Jobs, NEW v \in Workers, NEW w \in Workers,
                      CanFinish(v, j), CanFinish(w, j)
               PROVE  v = w
    BY DEF SingleFinisher
  <2>1. claim[v].token = job[j].token /\ claim[w].token = job[j].token /\ claim[v].job = j
    BY DEF CanFinish, Owned
  <2>2. claim[v].token # NoToken
    BY <2>1, NullAssumption DEF IInv, ClaimsDistinct
  <2>3. QED
    BY <2>1, <2>2 DEF IInv, ClaimsDistinct
<1>4. QED
  BY <1>1, <1>2, <1>3

-----------------------------------------------------------------------------
\* The invariant holds of every execution.
THEOREM Invariance == Spec => []IInv
BY InitIInv, NextIInv, PTL DEF Spec

\* Types of the jobs table and of the workers' memory.
THEOREM TypeCorrect == Spec => []TypeOK
BY Invariance, IInvImplies, PTL

\* The columns of a row always tell one story.
THEOREM Coherence == Spec => []RowsCoherent
BY Invariance, IInvImplies, PTL

\* No queued job is ever out of attempts, so none is skipped by every claim.
THEOREM NeverStranded == Spec => []NoStrandedJob
BY Invariance, IInvImplies, PTL

\* At most one process can ever pass the lease check of a job.
THEOREM MutualExclusion == Spec => []SingleFinisher
BY Invariance, IInvImplies, PTL

-----------------------------------------------------------------------------
(***************************************************************************)
(* What one step can make of one row.  The action properties and the       *)
(* refinement are proved from this case distinction.                       *)
(***************************************************************************)
\* The row keeps everything but its stage and its times.
Aged(r, s) ==
  /\ s.status = r.status /\ s.attempts = r.attempts /\ s.owner = r.owner
  /\ s.token = r.token /\ s.cancel = r.cancel

TakenUp(j) ==
  \E d \in Skews, w \in Workers, t \in Tokens \ TokensInUse, r \in Row :
    /\ r = job[j] \/ (Stale(job[j], d) /\ r = RecoveredRow(job[j], d))
    /\ Claimable(r, d)
    /\ job'[j] = ClaimedRow(r, WorkerId[w], t, d)
    /\ claim' = [claim EXCEPT ![w] = [job |-> j, token |-> t]]

FinishedBy(w, j) ==
  /\ LeasedTo(w, j) /\ claim'[w] = NoClaim
  /\ \/ job'[j] = CompletedRow(job[j])
     \/ \E d \in Skews, terminal \in BOOLEAN, delay \in Delays :
          job'[j] = FailedRow(job[j], terminal, delay, d)

Changed(j) ==
  \/ Aged(job[j], job'[j])
  \/ \E d \in Skews, delay \in Delays :
       job[j].status = "absent" /\ job'[j] = NewRow(delay, d)
  \/ job'[j] = CancelledRow(job[j]) /\ claim' = claim
  \/ \E d \in Skews : job[j].status = "dead_letter" /\ job'[j] = RequeuedRow(job[j], d)
  \/ \E d \in Skews : Stale(job[j], d) /\ job'[j] = RecoveredRow(job[j], d)
  \/ TakenUp(j)
  \/ \E w \in Workers : FinishedBy(w, j)

\* A process keeps its claim, forgets it, or takes one with a fresh token.
ClaimChanged(w) ==
  \/ claim'[w] = claim[w]
  \/ claim'[w] = NoClaim
  \/ claim'[w].token \in Tokens \ TokensInUse

\* Every step changes every row in one of these ways.
LEMMA RowSteps ==
  ASSUME IInv, [Next]_vars, NEW j \in Jobs
  PROVE  Changed(j)
<1>1. job[j] \in Row /\ job \in [Jobs -> Row] /\ claim \in [Workers -> Claim]
  BY DEF IInv, TableGood, ClaimsDistinct
<1>2. ASSUME job'[j] = job[j] PROVE Changed(j)
  BY <1>2 DEF Changed, Aged
<1>3. ASSUME NEW k \in Jobs, Enqueue(k) \/ Cancel(k) \/ Requeue(k)
      PROVE  Changed(j)
  <2>1. CASE k = j
    BY <1>1, <1>3, <2>1 DEF Enqueue, Cancel, Requeue, Changed
  <2>2. CASE k # j
    BY <1>1, <1>2, <1>3, <2>2 DEF Enqueue, Cancel, Requeue
  <2>3. QED
    BY <2>1, <2>2
<1>4. ASSUME NEW w \in Workers, Poll(w)
      PROVE  Changed(j)
  <2>1. PICK locked \in SUBSET Jobs, d \in Skews :
          PollIdle(w, locked, d) \/ PollClaim(w, locked, d)
    BY <1>4 DEF Poll
  <2> DEFINE rows == Recovered(locked, d)
  <2>2. rows \in [Jobs -> Row]
    BY RecoveredGood DEF IInv
  <2>3. rows[j] = job[j] \/ (Stale(job[j], d) /\ rows[j] = RecoveredRow(job[j], d))
    BY DEF Recovered
  <2>4. ASSUME job'[j] = rows[j] PROVE Changed(j)
    BY <1>2, <2>3, <2>4 DEF Changed
  <2>5. CASE PollIdle(w, locked, d)
    BY <2>4, <2>5 DEF PollIdle
  <2>6. CASE PollClaim(w, locked, d)
    <3>1. PICK k \in Jobs, t \in Tokens \ TokensInUse :
            /\ Claimable(rows[k], d)
            /\ job' = [rows EXCEPT ![k] = ClaimedRow(rows[k], WorkerId[w], t, d)]
            /\ claim' = [claim EXCEPT ![w] = [job |-> k, token |-> t]]
      BY <2>6, ServesAssumption DEF PollClaim, FirstOf
    <3> HIDE DEF rows
    <3>2. CASE k = j
      <4>1. job'[j] = ClaimedRow(rows[j], WorkerId[w], t, d)
        BY <2>2, <3>1, <3>2
      <4>2. rows[j] \in Row
        BY <2>2
      <4>3. TakenUp(j)
        BY <2>3, <3>1, <3>2, <4>1, <4>2 DEF TakenUp
      <4>4. QED
        BY <4>3 DEF Changed
    <3>3. CASE k # j
      BY <2>2, <2>4, <3>1, <3>3
    <3>4. QED
      BY <3>2, <3>3
  <2>7. QED
    BY <2>1, <2>5, <2>6
<1>5. ASSUME NEW w \in Workers,
             Renew(w) \/ Stage(w) \/ Complete(w) \/ Fail(w) \/ GiveUp(w)
      PROVE  Changed(j)
  <2>1. CASE claim[w].job # j \/ GiveUp(w)
    BY <1>1, <1>2, <1>5, <2>1 DEF Renew, Stage, Complete, Fail, FailAttempt, GiveUp
  <2>2. CASE claim[w].job = j /\ (Renew(w) \/ Stage(w))
    <3>1. job'[j] = StagedRow(job[j]) \/ \E d \in Skews : job'[j] = RenewedRow(job[j], d)
      BY <1>1, <2>2 DEF Renew, Stage
    <3>2. Aged(job[j], job'[j])
      BY <1>1, <3>1 DEF Aged, RenewedRow, StagedRow, Row
    <3>3. QED
      BY <3>2 DEF Changed
  <2>3. CASE claim[w].job = j /\ (Complete(w) \/ Fail(w))
    <3>1. LeasedTo(w, j)
      BY <2>3 DEF Complete, Fail, FailAttempt, HoldsLease, Owned, LeasedTo
    <3>2. claim'[w] = NoClaim
      BY <1>1, <2>3 DEF Complete, Fail, FailAttempt
    <3>3. \/ job'[j] = CompletedRow(job[j])
          \/ \E d \in Skews, terminal \in BOOLEAN, delay \in Delays :
               job'[j] = FailedRow(job[j], terminal, delay, d)
      BY <1>1, <2>3 DEF Complete, Fail, FailAttempt
    <3>4. QED
      BY <3>1, <3>2, <3>3 DEF Changed, FinishedBy
  <2>4. QED
    BY <1>5, <2>1, <2>2, <2>3
<1>6. CASE Tick
  <2>1. Aged(job[j], job'[j])
    BY <1>1, <1>6 DEF Tick, Aged, Row
  <2>2. QED
    BY <2>1 DEF Changed
<1>7. CASE UNCHANGED vars
  BY <1>2, <1>7 DEF vars
<1>8. QED
  BY <1>3, <1>4, <1>5, <1>6, <1>7 DEF Next

\* Every step changes every claim in one of these ways.
LEMMA ClaimSteps ==
  ASSUME IInv, [Next]_vars, NEW w \in Workers
  PROVE  ClaimChanged(w)
<1>1. claim \in [Workers -> Claim]
  BY DEF IInv, ClaimsDistinct
<1>2. ASSUME NEW k \in Jobs, Enqueue(k) \/ Cancel(k) \/ Requeue(k)
      PROVE  ClaimChanged(w)
  BY <1>2 DEF Enqueue, Cancel, Requeue, ClaimChanged
<1>3. ASSUME NEW v \in Workers, Poll(v)
      PROVE  ClaimChanged(w)
  <2>1. CASE claim' = claim
    BY <2>1 DEF ClaimChanged
  <2>2. CASE claim' # claim
    <3>1. PICK locked \in SUBSET Jobs, d \in Skews : PollClaim(v, locked, d)
      BY <1>3, <2>2 DEF Poll, PollIdle
    <3>2. PICK k \in Jobs, t \in Tokens \ TokensInUse :
            claim' = [claim EXCEPT ![v] = [job |-> k, token |-> t]]
      BY <3>1, ServesAssumption DEF PollClaim, FirstOf
    <3>3. QED
      BY <1>1, <3>2 DEF ClaimChanged
  <2>3. QED
    BY <2>1, <2>2
<1>4. ASSUME NEW v \in Workers, Renew(v) \/ Stage(v)
      PROVE  ClaimChanged(w)
  BY <1>4 DEF Renew, Stage, ClaimChanged
<1>5. ASSUME NEW v \in Workers, Complete(v) \/ Fail(v) \/ GiveUp(v)
      PROVE  ClaimChanged(w)
  BY <1>1, <1>5 DEF Complete, Fail, FailAttempt, GiveUp, ClaimChanged
<1>6. CASE Tick \/ UNCHANGED vars
  BY <1>6 DEF Tick, vars, ClaimChanged
<1>7. QED
  BY <1>2, <1>3, <1>4, <1>5, <1>6 DEF Next

-----------------------------------------------------------------------------
(***************************************************************************)
(* Action properties.                                                      *)
(***************************************************************************)
\* What is needed of the transformers here.
LEMMA Doom ==
  ASSUME NEW r \in Row, r.cancel, RowGood(r)
  PROVE  /\ r.status \in {"running", "cancelled"}
         /\ CancelledRow(r) = r
         /\ CompletedRow(r).status = "cancelled"
         /\ \A t, delay, d : FailedRow(r, t, delay, d).status = "cancelled"
         /\ \A d : RecoveredRow(r, d).status = "cancelled"
<1>1. r.status \in {"running", "cancelled"}
  BY DEF RowGood, RowCoherent
<1>2. CancelledRow(r) = r
  BY <1>1 DEF CancelledRow, Row
<1>3. FinalCancel(r).status = "cancelled"
  BY DEF FinalCancel, Ended, Stamped, Unleased, Row
<1>4. QED
  BY <1>1, <1>2, <1>3 DEF CompletedRow, FailedRow, RecoveredRow

\* A job asked to stop never leaves the way to "cancelled".
LEMMA StepStaysDoomed ==
  ASSUME IInv, [Next]_vars, NEW j \in Jobs
  PROVE  StaysDoomed(j)
<1> SUFFICES ASSUME job[j].cancel PROVE StaysDoomed(j)
  BY DEF StaysDoomed
<1>1. job[j] \in Row /\ RowGood(job[j])
  BY DEF IInv, TableGood
<1>2. job[j].status \in {"running", "cancelled"}
  BY <1>1, Doom
<1>3. CASE Aged(job[j], job'[j])
  BY <1>2, <1>3 DEF Aged, StaysDoomed
<1>4. CASE job'[j] = CancelledRow(job[j])
  BY <1>1, <1>2, <1>4, Doom DEF StaysDoomed
<1>5. CASE \E d \in Skews : job'[j] = RecoveredRow(job[j], d)
  BY <1>1, <1>5, Doom DEF StaysDoomed
<1>6. ~TakenUp(j)
  BY <1>1, <1>2, Doom DEF TakenUp, Claimable
<1>7. CASE \E w \in Workers : FinishedBy(w, j)
  BY <1>1, <1>7, Doom DEF FinishedBy, StaysDoomed
<1>8. QED
  BY <1>2, <1>3, <1>4, <1>5, <1>6, <1>7, RowSteps DEF Changed

\* A job stops running only by its holder or after its lease.
LEMMA StepEndsOnlyBy ==
  ASSUME IInv, [Next]_vars, NEW j \in Jobs
  PROVE  EndsOnlyBy(j)
<1> SUFFICES ASSUME job[j].status = "running", job'[j].status # "running"
             PROVE  EndsOnlyBy(j)
  BY DEF EndsOnlyBy
<1>1. job[j] \in Row
  BY DEF IInv, TableGood
<1>2. ~Aged(job[j], job'[j]) /\ job'[j] # CancelledRow(job[j])
  BY <1>1 DEF Aged, CancelledRow, Row
<1>3. ASSUME TakenUp(j) PROVE \E d \in Skews : Stale(job[j], d)
  BY <1>3 DEF TakenUp, Claimable
<1>4. QED
  BY <1>2, <1>3, RowSteps DEF Changed, FinishedBy, EndsOnlyBy

\* No completion, failure or recovery overrides a cancellation request.
THEOREM CancellationWins == Spec => CancelWins
<1>1. IInv /\ [Next]_vars => [\A j \in Jobs : StaysDoomed(j)]_vars
  BY StepStaysDoomed
<1>2. QED
  BY <1>1, Invariance, PTL DEF Spec, CancelWins

\* A process whose lease was recovered cannot end its successor's attempt.
THEOREM Fencing == Spec => OnlyHolderEnds
<1>1. IInv /\ [Next]_vars => [\A j \in Jobs : EndsOnlyBy(j)]_vars
  BY StepEndsOnlyBy
<1>2. QED
  BY <1>1, Invariance, PTL DEF Spec, OnlyHolderEnds

-----------------------------------------------------------------------------
(***************************************************************************)
(* Refinement of LeasedTask.                                               *)
(***************************************************************************)
\* Holder(j) is the one process whose memory matches the row.
LEMMA HolderIs ==
  ASSUME IInv, NEW j \in Jobs
  PROVE  /\ \A w \in Workers : LeasedTo(w, j) => Holder(j) = w
         /\ Holder(j) \in Workers \cup {NoOwner}
         /\ Holder(j) # NoOwner => Holder(j) \in Workers /\ LeasedTo(Holder(j), j)
         /\ job[j].status # "running" => Holder(j) = NoOwner
<1>1. ASSUME NEW v \in Workers, NEW w \in Workers, LeasedTo(v, j), LeasedTo(w, j)
      PROVE  v = w
  <2>1. claim[v].token = claim[w].token /\ claim[v].token # NoToken
    BY <1>1, NullAssumption DEF LeasedTo, IInv, ClaimsDistinct
  <2>2. QED
    BY <2>1 DEF IInv, ClaimsDistinct
<1>2. CASE \E w \in Workers : LeasedTo(w, j)
  <2>1. PICK w \in Workers : LeasedTo(w, j)
    BY <1>2
  <2>2. Holder(j) \in Workers /\ LeasedTo(Holder(j), j)
    BY <2>1 DEF Holder
  <2>3. job[j].status = "running"
    BY <2>1 DEF LeasedTo
  <2>4. QED
    BY <1>1, <2>2, <2>3
<1>3. CASE ~\E w \in Workers : LeasedTo(w, j)
  BY <1>3 DEF Holder
<1>4. QED
  BY <1>2, <1>3

\* The same after a step.
LEMMA HolderIsNext ==
  ASSUME IInv', NEW j \in Jobs
  PROVE  /\ \A w \in Workers : LeasedTo(w, j)' => Holder(j)' = w
         /\ Holder(j)' \in Workers \cup {NoOwner}
         /\ Holder(j)' # NoOwner => Holder(j)' \in Workers /\ LeasedTo(Holder(j), j)'
         /\ job'[j].status # "running" => Holder(j)' = NoOwner
<1>1. ASSUME NEW v \in Workers, NEW w \in Workers, LeasedTo(v, j)', LeasedTo(w, j)'
      PROVE  v = w
  <2>1. claim'[v].token = claim'[w].token /\ claim'[v].token # NoToken
    BY <1>1, NullAssumption DEF LeasedTo, IInv, ClaimsDistinct
  <2>2. QED
    BY <2>1 DEF IInv, ClaimsDistinct
<1>2. CASE \E w \in Workers : LeasedTo(w, j)'
  <2>1. PICK w \in Workers : LeasedTo(w, j)'
    BY <1>2
  <2>2. Holder(j)' \in Workers /\ LeasedTo(Holder(j), j)'
    BY <2>1 DEF Holder, LeasedTo
  <2>3. job'[j].status = "running"
    BY <2>1 DEF LeasedTo
  <2>4. QED
    BY <1>1, <2>2, <2>3 DEF LeasedTo
<1>3. CASE ~\E w \in Workers : LeasedTo(w, j)'
  BY <1>3 DEF Holder, LeasedTo
<1>4. QED
  BY <1>2, <1>3

\* The phases of the statuses.
LEMMA Phases ==
  /\ PhaseOf["absent"] = "none" /\ PhaseOf["queued"] = "waiting" /\ PhaseOf["running"] = "held"
  /\ PhaseOf["succeeded"] = "done" /\ PhaseOf["cancelled"] = "dropped"
  /\ PhaseOf["dead_letter"] = "parked"
BY DEF PhaseOf

\* What the transformers do to the columns LeasedTask sees.
LEMMA Effects ==
  ASSUME NEW r \in Row, NEW d \in Skews, NEW delay \in Delays, NEW terminal \in BOOLEAN
  PROVE  /\ \A s \in {CompletedRow(r), FailedRow(r, terminal, delay, d), RecoveredRow(r, d)} :
              /\ s.attempts = r.attempts /\ s.cancel = r.cancel
              /\ r.cancel => s.status = "cancelled"
         /\ ~r.cancel => CompletedRow(r).status = "succeeded"
         /\ ~r.cancel => \A s \in {FailedRow(r, terminal, delay, d), RecoveredRow(r, d)} :
              \/ s.status = "queued" /\ r.attempts < MaxAttempts
              \/ s.status = "dead_letter"
<1> DEFINE f == Stamped(r, "failed")
<1>1. f \in Row
  BY EndingsTyped, RowValues
<1>2. f.attempts = r.attempts /\ f.cancel = r.cancel
  BY DEF Stamped, Row
<1> HIDE DEF f
<1>3. \A q \in Row : /\ Unleased(q) \in Row
                    /\ Unleased(q).attempts = q.attempts /\ Unleased(q).cancel = q.cancel
  <2>1. \A q \in Row : Unleased(q) \in Row
    BY RowFields, RowValues DEF Unleased
  <2>2. QED
    BY <2>1 DEF Unleased, Row
<1>4. \A q \in Row : \A status, stamp :
        LET s == Ended(q, status, stamp)
        IN  s.attempts = q.attempts /\ s.cancel = q.cancel /\ s.status = status
  BY <1>3 DEF Ended, Stamped, Row
<1>5. \A q \in Row : \A stage, n :
        LET s == Retried(q, stage, n)
        IN  s.attempts = q.attempts /\ s.cancel = q.cancel /\ s.status = "queued"
  BY <1>3 DEF Retried, Row
<1>6. r.attempts \in Int /\ MaxAttempts \in Int
  BY AttemptsAssumption DEF Row
<1>7. QED
  BY <1>1, <1>2, <1>4, <1>5, <1>6
     DEF CompletedRow, FailedRow, RecoveredRow, FinalCancel, Succeeded, DeadLettered, f

\* A task before and after a step.
LEMMA AsTaskIs ==
  ASSUME NEW j \in Jobs
  PROVE  /\ AsTask(j) = Abs!At(PhaseOf[job[j].status], Holder(j), job[j].attempts, job[j].cancel)
         /\ AsTask(j)' = Abs!At(PhaseOf[job'[j].status], Holder(j)', job'[j].attempts, job'[j].cancel)
BY DEF AsTask, Abs!At

\* A mapped row is an abstract task.
LEMMA TaskTyped ==
  ASSUME NEW r \in Row, NEW h \in Workers \cup {NoOwner}
  PROVE  Abs!At(PhaseOf[r.status], h, r.attempts, r.cancel) \in Abs!Task
<1>1. PhaseOf[r.status] \in Abs!Phases
  BY Phases DEF Row, Statuses, Terminal, Abs!Phases
<1>2. QED
  BY <1>1 DEF Abs!At, Abs!Task, Row

\* What can become of the holder of a row that keeps its token.
LEMMA HolderKept ==
  ASSUME IInv, IInv', [Next]_vars, NEW j \in Jobs, job'[j].token = job[j].token,
         job[j].status = "running"
  PROVE  Holder(j)' = Holder(j) \/ Holder(j)' = NoOwner
<1> SUFFICES ASSUME Holder(j)' # NoOwner PROVE Holder(j)' = Holder(j)
  OBVIOUS
<1>1. PICK w \in Workers : w = Holder(j)' /\ LeasedTo(w, j)'
  BY HolderIsNext DEF LeasedTo
<1>2. claim'[w].job = j /\ claim'[w].token = job[j].token
  BY <1>1 DEF LeasedTo
<1>3. job[j].token \in TokensInUse /\ job[j].token # NoToken
  BY DEF TokensInUse, IInv, TableGood, RowGood, RowCoherent
<1>4. claim'[w] # NoClaim /\ claim'[w].token \notin Tokens \ TokensInUse
  BY <1>2, <1>3, NullAssumption DEF NoClaim
<1>5. claim'[w] = claim[w]
  BY <1>4, ClaimSteps DEF ClaimChanged
<1>6. LeasedTo(w, j)
  BY <1>2, <1>5 DEF LeasedTo
<1>7. QED
  BY <1>1, <1>6, HolderIs

\* The steps of LeasedTask, written with the fields before and after.
LEMMA TaskSteps ==
  ASSUME NEW h, NEW n \in Int, NEW c \in BOOLEAN
  PROVE  /\ Abs!Step(Abs!At("none", h, n, c), Abs!At("waiting", h, n, c))
         /\ Abs!Step(Abs!At("held", h, n, c), Abs!At("held", NoOwner, n, c))
         /\ Abs!Step(Abs!At("held", h, n, c), Abs!At("held", h, n, TRUE))
         /\ Abs!Step(Abs!At("waiting", h, n, c), Abs!At("dropped", NoOwner, n, TRUE))
         /\ Abs!Step(Abs!At("held", h, n, TRUE), Abs!At("dropped", NoOwner, n, TRUE))
         /\ Abs!Step(Abs!At("parked", h, n, c), Abs!At("waiting", NoOwner, 0, FALSE))
         /\ n < MaxAttempts => Abs!Step(Abs!At("held", h, n, FALSE), Abs!At("waiting", NoOwner, n, FALSE))
         /\ Abs!Step(Abs!At("held", h, n, FALSE), Abs!At("parked", NoOwner, n, FALSE))
         /\ h # NoOwner => Abs!Step(Abs!At("held", h, n, FALSE), Abs!At("done", NoOwner, n, FALSE))
         /\ \A w \in Workers : n < MaxAttempts =>
              /\ Abs!Step(Abs!At("waiting", h, n, FALSE), Abs!At("held", w, n + 1, FALSE))
              /\ Abs!Step(Abs!At("held", h, n, FALSE), Abs!At("held", w, n + 1, FALSE))
<1>1. \A p, b : /\ Abs!At(p, h, n, b).phase = p /\ Abs!At(p, h, n, b).holder = h
                /\ Abs!At(p, h, n, b).tries = n /\ Abs!At(p, h, n, b).doomed = b
  BY DEF Abs!At
<1>2. QED
  BY <1>1 DEF Abs!Step, Abs!Submitted, Abs!Granted, Abs!Orphaned, Abs!Doomed, Abs!Done,
              Abs!Released, Abs!Dropped, Abs!Revived

\* Every step of the queue is, for each row, a step of LeasedTask or none.
LEMMA RefinesStep ==
  ASSUME IInv, IInv', [Next]_vars, NEW j \in Jobs
  PROVE  AsTask(j)' = AsTask(j) \/ Abs!Step(AsTask(j), AsTask(j)')
<1> DEFINE r == job[j]
           s == job'[j]
           h == Holder(j)
           g == Holder(j)'
           t == Abs!At(PhaseOf[r.status], h, r.attempts, r.cancel)
           u == Abs!At(PhaseOf[s.status], g, s.attempts, s.cancel)
<1> SUFFICES u = t \/ Abs!Step(t, u)
  BY AsTaskIs
<1>1. /\ r \in Row /\ RowGood(r) /\ s \in Row /\ RowGood(s)
      /\ job \in [Jobs -> Row] /\ claim \in [Workers -> Claim]
  BY DEF IInv, TableGood, ClaimsDistinct
<1>2. /\ r.attempts \in Int /\ r.cancel \in BOOLEAN /\ MaxAttempts \in Int
  BY <1>1, AttemptsAssumption DEF Row
<1>3. /\ r.status # "running" => h = NoOwner
      /\ s.status # "running" => g = NoOwner
  BY HolderIs, HolderIsNext
<1>4. r.cancel => r.status \in {"running", "cancelled"}
  BY <1>1 DEF RowGood, RowCoherent
<1> HIDE DEF r, s, h, g
<1> USE Phases, TaskSteps, <1>2
<1>5. CASE Aged(r, s)
  <2>1. s.status = r.status /\ s.attempts = r.attempts /\ s.cancel = r.cancel /\ s.token = r.token
    BY <1>5 DEF Aged
  <2>2. CASE r.status = "running"
    <3>1. g = h \/ g = NoOwner
      BY <2>1, <2>2, HolderKept DEF r, s, g, h
    <3>2. QED
      BY <2>1, <2>2, <3>1
  <2>3. CASE r.status # "running"
    BY <1>3, <2>1, <2>3
  <2>4. QED
    BY <2>2, <2>3
<1>6. ASSUME NEW d \in Skews, NEW delay \in Delays, r.status = "absent", s = NewRow(delay, d)
      PROVE  Abs!Step(t, u)
  <2>1. s.status = "queued" /\ s.attempts = 0 /\ s.cancel = FALSE
    BY <1>6 DEF NewRow, NoRow
  <2>2. r.attempts = 0 /\ r.cancel = FALSE
    BY <1>1, <1>2, <1>4, <1>6 DEF RowGood
  <2>3. QED
    BY <1>3, <1>6, <2>1, <2>2
<1>7. CASE s = CancelledRow(r) /\ claim' = claim
  <2>1. CASE r.status = "running"
    <3>1. s.status = "running" /\ s.attempts = r.attempts /\ s.cancel = TRUE /\ s.token = r.token
      BY <1>1, <1>7, <2>1 DEF CancelledRow, Row
    <3>2. g = h
      <4>1. g = h \/ g = NoOwner
        BY <2>1, <3>1, HolderKept DEF r, s, g, h
      <4>2. ASSUME h # NoOwner PROVE g = h
        <5>1. PICK w \in Workers : w = h /\ LeasedTo(w, j)
          BY <4>2, HolderIs DEF h
        <5>2. LeasedTo(w, j)'
          BY <1>7, <3>1, <5>1 DEF LeasedTo, r, s
        <5>3. QED
          BY <5>1, <5>2, HolderIsNext DEF g
      <4>3. QED
        BY <4>1, <4>2
    <3>3. QED
      BY <2>1, <3>1, <3>2
  <2>2. CASE r.status = "queued"
    <3>1. s.status = "cancelled" /\ s.attempts = r.attempts /\ s.cancel = TRUE
      BY <1>1, <1>7, <2>2 DEF CancelledRow, FinalCancel, Ended, Stamped, Unleased, Row
    <3>2. QED
      BY <1>3, <2>2, <3>1
  <2>3. CASE r.status \notin {"running", "queued"}
    <3>1. s = r
      BY <1>7, <2>3 DEF CancelledRow
    <3>2. QED
      BY <1>3, <2>3, <3>1
  <2>4. QED
    BY <2>1, <2>2, <2>3
<1>8. ASSUME NEW d \in Skews, r.status = "dead_letter", s = RequeuedRow(r, d)
      PROVE  Abs!Step(t, u)
  <2>1. s.status = "queued" /\ s.attempts = 0 /\ s.cancel = FALSE
    BY <1>1, <1>8 DEF RequeuedRow, Retried, Unleased, Row
  <2>2. QED
    BY <1>3, <1>8, <2>1
<1>9. ASSUME NEW d \in Skews, Stale(r, d), s = RecoveredRow(r, d)
      PROVE  Abs!Step(t, u)
  <2>1. r.status = "running"
    BY <1>9 DEF Stale
  <2>2. /\ s.attempts = r.attempts /\ s.cancel = r.cancel
        /\ r.cancel => s.status = "cancelled"
        /\ ~r.cancel => \/ s.status = "queued" /\ r.attempts < MaxAttempts
                       \/ s.status = "dead_letter"
    BY <1>1, <1>9, Effects, DelayAssumption
  <2>3. QED
    BY <1>3, <2>1, <2>2
<1>10. CASE TakenUp(j)
  <2>1. PICK d \in Skews, w \in Workers, k \in Tokens \ TokensInUse, q \in Row :
          /\ q = r \/ (Stale(r, d) /\ q = RecoveredRow(r, d))
          /\ Claimable(q, d)
          /\ s = ClaimedRow(q, WorkerId[w], k, d)
          /\ claim' = [claim EXCEPT ![w] = [job |-> j, token |-> k]]
    BY <1>10 DEF TakenUp, r, s
  <2>2. q.attempts = r.attempts /\ r.cancel = FALSE /\ r.status \in {"queued", "running"}
        /\ r.attempts < MaxAttempts /\ q.cancel = FALSE
    <3>1. CASE q = r
      BY <1>4, <2>1, <3>1 DEF Claimable
    <3>2. CASE Stale(r, d) /\ q = RecoveredRow(r, d)
      BY <1>1, <2>1, <3>2, Effects, DelayAssumption DEF Stale, Claimable
    <3>3. QED
      BY <2>1, <3>1, <3>2
  <2>3. s.status = "running" /\ s.attempts = r.attempts + 1 /\ s.cancel = FALSE /\ s.token = k
    BY <2>1, <2>2 DEF ClaimedRow, Row
  <2>4. claim'[w].job = j /\ claim'[w].token = k
    BY <1>1, <2>1
  <2>5. LeasedTo(w, j)'
    BY <2>3, <2>4 DEF LeasedTo, s
  <2>6. g = w
    BY <2>5, HolderIsNext DEF g
  <2>7. QED
    BY <2>2, <2>3, <2>6
<1>11. ASSUME NEW w \in Workers, FinishedBy(w, j)
       PROVE  Abs!Step(t, u)
  <2>1. h = w /\ h # NoOwner /\ r.status = "running"
    BY <1>11, HolderIs, NullAssumption DEF FinishedBy, LeasedTo, h, r
  <2>2. CASE s = CompletedRow(r)
    <3>1. /\ s.attempts = r.attempts /\ s.cancel = r.cancel
          /\ r.cancel => s.status = "cancelled"
          /\ ~r.cancel => s.status = "succeeded"
      BY <1>1, <2>2, Effects, DelayAssumption, SkewAssumption
    <3>2. QED
      BY <1>3, <2>1, <3>1
  <2>3. ASSUME NEW d \in Skews, NEW terminal \in BOOLEAN, NEW delay \in Delays,
               s = FailedRow(r, terminal, delay, d)
        PROVE  Abs!Step(t, u)
    <3>1. /\ s.attempts = r.attempts /\ s.cancel = r.cancel
          /\ r.cancel => s.status = "cancelled"
          /\ ~r.cancel => \/ s.status = "queued" /\ r.attempts < MaxAttempts
                         \/ s.status = "dead_letter"
      BY <1>1, <2>3, Effects
    <3>2. QED
      BY <1>3, <2>1, <3>1
  <2>4. QED
    BY <1>11, <2>2, <2>3 DEF FinishedBy, r, s
<1>12. QED
  BY <1>5, <1>6, <1>7, <1>8, <1>9, <1>10, <1>11, RowSteps DEF Changed, r, s

\* The queue implements LeasedTask.
THEOREM Refinement == Spec => ImplementsLeasedTask
<1> DEFINE tasks == [j \in Jobs |-> AsTask(j)]
<1>1. Init => Abs!Init
  <2> SUFFICES ASSUME Init PROVE Abs!Init
    OBVIOUS
  <2>1. ASSUME NEW j \in Jobs PROVE AsTask(j) = Abs!At("none", NoOwner, 0, FALSE)
    <3>1. job[j] = NoRow /\ job[j].status = "absent" /\ job[j].attempts = 0 /\ job[j].cancel = FALSE
      BY DEF Init, NoRow
    <3>2. Holder(j) = NoOwner
      BY <3>1, InitIInv, HolderIs
    <3>3. QED
      BY <3>1, <3>2, AsTaskIs, Phases
  <2>2. QED
    BY <2>1 DEF Abs!Init
<1>2. IInv /\ IInv' /\ [Next]_vars => [Abs!Next]_tasks
  <2> SUFFICES ASSUME IInv, IInv', [Next]_vars PROVE Abs!Next
    OBVIOUS
  <2>1. ASSUME NEW j \in Jobs
        PROVE  /\ AsTask(j)' \in Abs!Task
               /\ AsTask(j)' = AsTask(j) \/ Abs!Step(AsTask(j), AsTask(j)')
    <3>1. job'[j] \in Row /\ Holder(j)' \in Workers \cup {NoOwner}
      BY HolderIsNext DEF IInv, TableGood
    <3>2. AsTask(j)' \in Abs!Task
      BY <3>1, AsTaskIs, TaskTyped
    <3>3. QED
      BY <3>2, RefinesStep
  <2>2. QED
    BY <2>1 DEF Abs!Next
<1>3. QED
  BY <1>1, <1>2, Invariance, PTL DEF Spec, ImplementsLeasedTask, Abs!Spec, tasks

-----------------------------------------------------------------------------
(***************************************************************************)
(* LegacyStore. Each run moves alone: what a step may make of its row and  *)
(* of what is kept of it is stated once, and every action is shown to move *)
(* every run so.                                                           *)
(***************************************************************************)
RunRow ==
  [status : {"absent", "queued", "running", "dead_letter", "gone"} \cup EndedStates,
   attempts : Nat, token : LeaseIds \cup {None}, lapsed : BOOLEAN, due : BOOLEAN,
   request : BOOLEAN, requestOver : BOOLEAN, accessOver : BOOLEAN]

Hand ==
  [run : Runs \cup {None}, token : LeaseIds \cup {None},
   at : {"idle", "claimed", "missing", "loaded", "hunting"}]

Results == [result : BOOLEAN, outcomes : SUBSET Entries]

Copies == [is : {"none", "copied", "deleted", "over"}, outcomes : SUBSET Entries]

Imports ==
  [at : {"idle", "rows", "outcomes", "compared"},
   status : [Runs -> {"absent", "queued", "running", "dead_letter", "gone"} \cup EndedStates],
   outcomes : [Runs -> SUBSET Entries], picked : SUBSET Runs]

\* Every column has a value of its type.
LegacyTypeOK ==
  /\ row \in [Runs -> RunRow]
  /\ kept \in [Runs -> Results]
  /\ hand \in [LegacyWorkers -> Hand]
  /\ logging \in [Clients -> Runs \cup {None}]
  /\ target \in [Runs -> Copies]
  /\ import \in Imports

\* A worker that is past its claim has a run.
HandsHoldRuns == \A w \in LegacyWorkers : hand[w].at # "idle" => hand[w].run \in Runs

\* What the importer has picked was a success when the runs were compared, and what was one
\* can since have been erased and nothing else.
PickedSucceeded == \A r \in import.picked : row[r].status \in {"succeeded", "gone"}

\* An attempt is only ever counted for a run that was posted.
UnpostedUnspent == \A r \in Runs : row[r].status = "absent" => ~ Spent(row[r])

LegacyInv ==
  UnpostedUnspent /\ LegacyTypeOK /\ HandsHoldRuns /\ LegacyStoresAgree /\ PickedSucceeded

\* What LegacyStoresAgree says of a row x and what is kept of its run.
Fits(x, k) ==
  /\ x.request <=> x.status \in Active \cup {"dead_letter"}
  /\ x.token # None <=> x.status = "running"
  /\ x.status = "queued" => ~ Spent(x)
  /\ k.result <=> x.status = "succeeded"
  /\ k.outcomes # {} => k.result
  /\ x.status = "absent" => ~ Spent(x)

\* What a step may make of them.
MayBecome(x, k, y, l) ==
  /\ y \in RunRow /\ l \in Results /\ Fits(y, l)
  /\ x.status \in EndedStates => y.status \in {x.status, "gone"}
  /\ x.status = "gone" => y.status = "gone"
  /\ x.status = "dead_letter" => y.attempts \in {0, x.attempts}
  /\ x.status # "gone" /\ y.status = "gone" => l = Nothing /\ ~ y.request

\* The moves the actions are made of.
Moves(x, k) ==
  /\ MayBecome(x, k, x, k)
  /\ x.status = "running" =>
       \A due \in BOOLEAN : MayBecome(x, k, BackInLine(x, due), k)
  /\ x.status \in Active \cup {"dead_letter"} => MayBecome(x, k, EndAs(x, "failed"), k)
  /\ x.status \in Active => MayBecome(x, k, EndAs(x, "cancelled"), k)
  /\ x.status = "running" =>
       MayBecome(x, k, EndAs(x, "succeeded"), [k EXCEPT !.result = TRUE])
  /\ \A r \in Runs : MayBecome(x, k, Erased(r, x), Nothing)
  /\ x.status = "absent" =>
       MayBecome(x, k, [x EXCEPT !.status = "queued", !.request = TRUE], k)
  /\ x.status = "dead_letter" /\ x.request =>
       MayBecome(x, k, [WithoutLease(x) EXCEPT !.status = "queued", !.attempts = 0,
                                               !.due = TRUE], k)
  /\ x.status = "running" => MayBecome(x, k, [x EXCEPT !.lapsed = TRUE], k)
  /\ MayBecome(x, k, [x EXCEPT !.due = TRUE], k)
  /\ MayBecome(x, k, [x EXCEPT !.requestOver = TRUE], k)
  /\ MayBecome(x, k, [x EXCEPT !.accessOver = TRUE], k)
  /\ \A e \in Entries : k.result =>
       MayBecome(x, k, x, [k EXCEPT !.outcomes = @ \cup {e}])

LEMMA RowMoves ==
  ASSUME NEW x \in RunRow, NEW k \in Results, Fits(x, k)
  PROVE  Moves(x, k)
<1> USE RunAssumption DEF RunRow, Results, Fits, MayBecome, Active, EndedStates, Spent, WithoutLease
<1>1. MayBecome(x, k, x, k)
  OBVIOUS
<1>2. ASSUME x.status = "running", NEW due \in BOOLEAN PROVE MayBecome(x, k, BackInLine(x, due), k)
  BY <1>2 DEF BackInLine
<1>3. ASSUME x.status \in Active \cup {"dead_letter"} PROVE MayBecome(x, k, EndAs(x, "failed"), k)
  BY <1>3 DEF EndAs
<1>4. ASSUME x.status \in Active PROVE MayBecome(x, k, EndAs(x, "cancelled"), k)
  BY <1>4 DEF EndAs
<1>5. ASSUME x.status = "running"
      PROVE  MayBecome(x, k, EndAs(x, "succeeded"), [k EXCEPT !.result = TRUE])
  BY <1>5 DEF EndAs
<1>6. ASSUME NEW r \in Runs PROVE MayBecome(x, k, Erased(r, x), Nothing)
  BY DEF Erased, NoRunRow, Nothing
<1>7. ASSUME x.status = "absent"
      PROVE  MayBecome(x, k, [x EXCEPT !.status = "queued", !.request = TRUE], k)
  BY <1>7
<1>8. ASSUME x.status = "dead_letter", x.request
      PROVE  MayBecome(x, k, [WithoutLease(x) EXCEPT !.status = "queued", !.attempts = 0,
                                                     !.due = TRUE], k)
  <2> DEFINE y == [WithoutLease(x) EXCEPT !.status = "queued", !.attempts = 0, !.due = TRUE]
  <2>1. /\ y \in RunRow /\ y.status = "queued" /\ y.attempts = 0 /\ y.request
        /\ y.token = None
    BY <1>8
  <2> QED
    BY <1>8, <2>1
<1>9. ASSUME x.status = "running" PROVE MayBecome(x, k, [x EXCEPT !.lapsed = TRUE], k)
  BY <1>9
<1>10. MayBecome(x, k, [x EXCEPT !.due = TRUE], k)
  OBVIOUS
<1>11. MayBecome(x, k, [x EXCEPT !.requestOver = TRUE], k)
  OBVIOUS
<1>12. MayBecome(x, k, [x EXCEPT !.accessOver = TRUE], k)
  OBVIOUS
<1>13. ASSUME NEW e \in Entries, k.result
       PROVE  MayBecome(x, k, x, [k EXCEPT !.outcomes = @ \cup {e}])
  BY <1>13 DEF Nothing
<1> QED
  BY <1>1, <1>2, <1>3, <1>4, <1>5, <1>6, <1>7, <1>8, <1>9, <1>10, <1>11, <1>12, <1>13
  DEF Moves

\* A run that waits is claimed, after the recovery of its row.
LEMMA ClaimMoves ==
  ASSUME NEW x \in RunRow, NEW k \in Results, NEW y \in RunRow, MayBecome(x, k, y, k),
         y.status = "queued", x.status # "dead_letter", NEW t \in LeaseIds
  PROVE  MayBecome(x, k, Leased(y, t), k)
<1>1. y.attempts + 1 \in Nat /\ t # None /\ y.request
  BY RunAssumption DEF RunRow, MayBecome, Fits, Active
<1>2. Leased(y, t) \in RunRow
  BY <1>1 DEF Leased, RunRow
<1>3. /\ Leased(y, t).status = "running" /\ Leased(y, t).token = t
      /\ Leased(y, t).request
  BY <1>1 DEF Leased, RunRow
<1>4. x.status \notin EndedStates /\ x.status # "gone"
  BY DEF MayBecome, EndedStates
<1> QED
  BY <1>1, <1>2, <1>3, <1>4 DEF MayBecome, Fits, Active, EndedStates

LEMMA InvFits ==
  LegacyInv => \A r \in Runs : row[r] \in RunRow /\ kept[r] \in Results /\ Fits(row[r], kept[r])
BY DEF LegacyInv, LegacyTypeOK, LegacyStoresAgree, Fits, UnpostedUnspent

\* Every step of the former service and of the importer moves every run so.
LEMMA EveryRunMoves ==
  ASSUME LegacyInv, LegacyNext
  PROVE  \A r \in Runs : MayBecome(row[r], kept[r], row'[r], kept'[r])
<1> DEFINE Moved == \A r \in Runs : MayBecome(row[r], kept[r], row'[r], kept'[r])
<1>0. \A r \in Runs : row[r] \in RunRow /\ kept[r] \in Results /\ Fits(row[r], kept[r])
  BY InvFits
<1>m. \A r \in Runs : Moves(row[r], kept[r])
  BY <1>0, RowMoves, Zenon
<1>a. \A r \in Runs : MayBecome(row[r], kept[r], row[r], kept[r])
  BY <1>m, Zenon DEF Moves
<1>b. ASSUME NEW r \in Runs, MayBecome(row[r], kept[r], row'[r], kept'[r]),
             \A s \in Runs \ {r} : row'[s] = row[s] /\ kept'[s] = kept[s]
      PROVE  Moved
  BY <1>a, <1>b
<1>1. row' = row /\ kept' = kept => Moved
  BY <1>a
<1>2. \A w \in LegacyWorkers : hand[w].at # "idle" => hand[w].run \in Runs
  BY DEF LegacyInv, HandsHoldRuns
<1>3. row \in [Runs -> RunRow] /\ kept \in [Runs -> Results]
  BY DEF LegacyInv, LegacyTypeOK
<1>4. ASSUME NEW w \in LegacyWorkers, ClaimRun(w) PROVE Moved
  <2>1. \A r \in Runs : MayBecome(row[r], kept[r], RecoveredRuns[r], kept[r])
    <3> SUFFICES ASSUME NEW r \in Runs PROVE MayBecome(row[r], kept[r], RecoveredRuns[r], kept[r])
      OBVIOUS
    <3>1. RecoveredRuns[r] = row[r] \/ (row[r].status = "running"
                                        /\ RecoveredRuns[r] = BackInLine(row[r], TRUE))
      BY DEF RecoveredRuns
    <3>2. CASE row[r].status = "running" /\ RecoveredRuns[r] = BackInLine(row[r], TRUE)
      BY <1>m, <3>2, Zenon DEF Moves
    <3> QED
      BY <1>a, <3>1, <3>2
  <2>2. CASE row' = RecoveredRuns /\ kept' = kept
    BY <2>1, <2>2
  <2>3. ASSUME NEW r \in Runs, NEW t \in LeaseIds, kept' = kept,
               RecoveredRuns[r].status = "queued",
               row' = [RecoveredRuns EXCEPT ![r] = Leased(@, t)]
        PROVE  Moved
    <3>1. \A s \in Runs \ {r} : row'[s] = RecoveredRuns[s]
      BY <2>3 DEF RecoveredRuns
    <3>2. row'[r] = Leased(RecoveredRuns[r], t)
      BY <2>3 DEF RecoveredRuns
    <3>3. MayBecome(row[r], kept[r], row'[r], kept[r])
      <4>1. RecoveredRuns[r] \in RunRow
        BY <2>1 DEF MayBecome
      <4>2. row[r].status # "dead_letter"
        BY <2>3 DEF RecoveredRuns
      <4>3. row[r] \in RunRow /\ kept[r] \in Results
        BY <1>0
      <4>4. MayBecome(row[r], kept[r], RecoveredRuns[r], kept[r])
        BY <2>1
      <4>5. MayBecome(row[r], kept[r], Leased(RecoveredRuns[r], t), kept[r])
        BY <2>3, <4>1, <4>2, <4>3, <4>4, ClaimMoves
      <4> QED
        BY <3>2, <4>5, Zenon
    <3> QED
      BY <2>1, <2>3, <3>1, <3>3
  <2> QED
    BY <1>4, <2>2, <2>3 DEF ClaimRun
<1>5. ASSUME NEW w \in LegacyWorkers, Load(w) \/ Start(w) \/ Crash(w) PROVE Moved
  BY <1>1, <1>5 DEF Load, Start, Crash
<1>6. ASSUME NEW w \in LegacyWorkers, FailForGood(w) PROVE Moved
  <2>1. CASE Owns(w)
    <3> DEFINE r == hand[w].run
    <3>1. r \in Runs /\ row[r].status = "running"
      BY <1>6, <1>2, <2>1 DEF FailForGood, Owns
    <3>2. row' = [row EXCEPT ![r] = EndAs(@, "failed")] /\ kept' = kept
      BY <1>6, <2>1 DEF FailForGood
    <3> HIDE DEF r
    <3>3. row'[r] = EndAs(row[r], "failed") /\ \A s \in Runs \ {r} : row'[s] = row[s]
      BY <1>3, <3>1, <3>2
    <3>4. MayBecome(row[r], kept[r], EndAs(row[r], "failed"), kept[r])
      BY <1>m, <3>1, Zenon DEF Moves, Active
    <3> QED
      BY <1>b, <3>1, <3>2, <3>3, <3>4
  <2> QED
    BY <1>6, <1>1, <2>1 DEF FailForGood
<1>7. ASSUME NEW w \in LegacyWorkers, FailRunAttempt(w) PROVE Moved
  <2>1. CASE Owns(w)
    <3> DEFINE r == hand[w].run
    <3>1. r \in Runs /\ row[r].status = "running"
      BY <1>7, <1>2, <2>1 DEF FailRunAttempt, Owns
    <3>2. row' = [row EXCEPT ![r] = BackInLine(@, FALSE)] /\ kept' = kept
      BY <1>7, <2>1 DEF FailRunAttempt
    <3> HIDE DEF r
    <3>3. row'[r] = BackInLine(row[r], FALSE) /\ \A s \in Runs \ {r} : row'[s] = row[s]
      BY <1>3, <3>1, <3>2
    <3>4. MayBecome(row[r], kept[r], BackInLine(row[r], FALSE), kept[r])
      BY <1>m, <3>1, Zenon DEF Moves, Active
    <3> QED
      BY <1>b, <3>1, <3>2, <3>3, <3>4
  <2> QED
    BY <1>7, <1>1, <2>1 DEF FailRunAttempt
<1>8. ASSUME NEW w \in LegacyWorkers, CompleteRun(w) PROVE Moved
  <2>1. CASE Owns(w)
    <3> DEFINE r == hand[w].run
    <3>1. r \in Runs /\ row[r].status = "running"
      BY <1>8, <1>2, <2>1 DEF CompleteRun, Owns
    <3>2. /\ row' = [row EXCEPT ![r] = EndAs(@, "succeeded")]
          /\ kept' = [kept EXCEPT ![r].result = TRUE]
      BY <1>8, <2>1 DEF CompleteRun, MayComplete
    <3> HIDE DEF r
    <3>3. /\ row'[r] = EndAs(row[r], "succeeded") /\ kept'[r] = [kept[r] EXCEPT !.result = TRUE]
          /\ \A s \in Runs \ {r} : row'[s] = row[s] /\ kept'[s] = kept[s]
      BY <1>3, <3>1, <3>2
    <3>4. MayBecome(row[r], kept[r], row'[r], kept'[r])
      <4>2. MayBecome(row[r], kept[r], EndAs(row[r], "succeeded"),
                      [kept[r] EXCEPT !.result = TRUE])
        BY <1>m, <3>1, Zenon DEF Moves
      <4> QED
        BY <3>3, <4>2, Zenon
    <3> QED
      BY <1>b, <3>1, <3>3, <3>4
  <2> QED
    BY <1>8, <1>1, <2>1 DEF CompleteRun, MayComplete
<1>9. ASSUME NEW r \in Runs, Post(r) PROVE Moved
  <2>1. /\ row'[r] = [row[r] EXCEPT !.status = "queued", !.request = TRUE] /\ kept' = kept
        /\ \A s \in Runs \ {r} : row'[s] = row[s]
    BY <1>9, <1>3 DEF Post
  <2>2. MayBecome(row[r], kept[r], [row[r] EXCEPT !.status = "queued", !.request = TRUE], kept[r])
    BY <1>m, <1>9, Zenon DEF Moves, Post
  <2> QED
    BY <1>b, <2>1, <2>2
<1>10. ASSUME NEW r \in Runs, CancelRun(r) PROVE Moved
  <2>1. /\ row'[r] = EndAs(row[r], "cancelled") /\ kept' = kept
        /\ \A s \in Runs \ {r} : row'[s] = row[s]
    BY <1>10, <1>3 DEF CancelRun
  <2>2. MayBecome(row[r], kept[r], EndAs(row[r], "cancelled"), kept[r])
    BY <1>m, <1>10, Zenon DEF Moves, CancelRun
  <2> QED
    BY <1>b, <2>1, <2>2
<1>11. ASSUME NEW r \in Runs, RequeueRun(r) PROVE Moved
  <2>1. /\ row'[r] = [WithoutLease(row[r]) EXCEPT !.status = "queued", !.attempts = 0,
                                                  !.due = TRUE]
        /\ \A s \in Runs \ {r} : row'[s] = row[s]
        /\ kept' = kept
    BY <1>11, <1>3 DEF RequeueRun
  <2>2. MayBecome(row[r], kept[r],
                  [WithoutLease(row[r]) EXCEPT !.status = "queued", !.attempts = 0, !.due = TRUE],
                  kept[r])
    BY <1>m, <1>11, Zenon DEF Moves, RequeueRun
  <2> QED
    BY <1>b, <2>1, <2>2
<1>12. ASSUME NEW r \in Runs, Delete(r) PROVE Moved
  <2>1. /\ row'[r] = Erased(r, row[r]) /\ kept'[r] = Nothing
        /\ \A s \in Runs \ {r} : row'[s] = row[s] /\ kept'[s] = kept[s]
    BY <1>12, <1>3 DEF Delete
  <2>2. MayBecome(row[r], kept[r], Erased(r, row[r]), Nothing)
    BY <1>m, Zenon DEF Moves
  <2> QED
    BY <1>b, <2>1, <2>2
<1>13. ASSUME NEW r \in Runs, Time(r) PROVE Moved
  <2>1. /\ \/ row[r].status = "running" /\ row'[r] = [row[r] EXCEPT !.lapsed = TRUE]
           \/ row'[r] = [row[r] EXCEPT !.due = TRUE]
           \/ row'[r] = [row[r] EXCEPT !.requestOver = TRUE]
           \/ row'[r] = [row[r] EXCEPT !.accessOver = TRUE]
        /\ \A s \in Runs \ {r} : row'[s] = row[s]
        /\ kept' = kept
    BY <1>13, <1>3 DEF Time
  <2>2. /\ row[r].status = "running" =>
             MayBecome(row[r], kept[r], [row[r] EXCEPT !.lapsed = TRUE], kept[r])
        /\ MayBecome(row[r], kept[r], [row[r] EXCEPT !.due = TRUE], kept[r])
        /\ MayBecome(row[r], kept[r], [row[r] EXCEPT !.requestOver = TRUE], kept[r])
        /\ MayBecome(row[r], kept[r], [row[r] EXCEPT !.accessOver = TRUE], kept[r])
    BY <1>m, Zenon DEF Moves
  <2> QED
    BY <1>b, <2>1, <2>2
<1>14. ASSUME NEW r \in Runs, Practical(r) PROVE Moved
  BY <1>1, <1>14 DEF Practical, service
<1>15. ASSUME NEW c \in Clients, Log(c) PROVE Moved
  <2> DEFINE r == logging[c]
  <2>1. r \in Runs
    BY <1>15 DEF Log, LegacyInv, LegacyTypeOK
  <2>2. PICK e \in Entries : kept' = IF Referenced(r) THEN [kept EXCEPT ![r].outcomes = @ \cup {e}]
                                     ELSE kept
    BY <1>15 DEF Log
  <2>3. row' = row
    BY <1>15 DEF Log
  <2> HIDE DEF r
  <2>4. CASE ~ Referenced(r)
    BY <1>1, <2>2, <2>3, <2>4
  <2>5. CASE Referenced(r)
    <3>1. /\ kept[r].result /\ kept'[r] = [kept[r] EXCEPT !.outcomes = @ \cup {e}]
          /\ \A s \in Runs \ {r} : kept'[s] = kept[s]
      BY <1>3, <2>1, <2>2, <2>5 DEF Referenced
    <3>2. MayBecome(row[r], kept[r], row'[r], kept'[r])
      <4>2. MayBecome(row[r], kept[r], row[r], [kept[r] EXCEPT !.outcomes = @ \cup {e}])
        BY <1>m, <2>1, <3>1, Zenon DEF Moves
      <4> QED
        BY <2>3, <3>1, <4>2, Zenon
    <3> QED
      BY <1>b, <2>1, <2>3, <3>1, <3>2
  <2> QED
    BY <2>4, <2>5
<1>16. ASSUME NEW c \in Clients, NEW r \in Runs, MayLog(c, r) PROVE Moved
  BY <1>1, <1>16 DEF MayLog
<1>17. ASSUME Purge PROVE Moved
  <2> SUFFICES ASSUME NEW r \in Runs PROVE MayBecome(row[r], kept[r], row'[r], kept'[r])
    OBVIOUS
  <2>1. \/ row'[r] = Erased(r, row[r]) /\ kept'[r] = Nothing
        \/ kept'[r] = kept[r] /\ row'[r] = row[r]
        \/ /\ kept'[r] = kept[r] /\ row[r].request
           /\ row[r].status \in Active \cup {"dead_letter"} /\ row'[r] = EndAs(row[r], "failed")
        \/ /\ kept'[r] = kept[r] /\ row[r].request
           /\ row[r].status \notin Active \cup {"dead_letter"}
    BY <1>17 DEF Purge
  <2>2. row[r].request <=> row[r].status \in Active \cup {"dead_letter"}
    BY <1>0 DEF Fits
  <2>3. MayBecome(row[r], kept[r], Erased(r, row[r]), Nothing)
    BY <1>m, Zenon DEF Moves
  <2>4. row[r].status \in Active \cup {"dead_letter"} =>
          MayBecome(row[r], kept[r], EndAs(row[r], "failed"), kept[r])
    BY <1>m, Zenon DEF Moves
  <2> QED
    BY <1>a, <2>1, <2>2, <2>3, <2>4
<1>18. ASSUME Sunset \/ ReadRows \/ ReadOutcomes \/ Compare \/ Insert \/ Quit PROVE Moved
  BY <1>1, <1>18 DEF Sunset, ReadRows, ReadOutcomes, Compare, Insert, Quit, service
<1> QED
  BY <1>4, <1>5, <1>6, <1>7, <1>8, <1>9, <1>10, <1>11, <1>12, <1>13, <1>14, <1>15, <1>16,
     <1>17, <1>18 DEF LegacyNext

\* What a step does to the rest: tables stay tables, workers hold runs, only picked runs are
\* copied and only runs with a result are picked.
Rest ==
  /\ row' = [r \in Runs |-> row'[r]] /\ kept' = [r \in Runs |-> kept'[r]]
  /\ hand' \in [LegacyWorkers -> Hand]
  /\ \A w \in LegacyWorkers : hand'[w].at # "idle" => hand'[w].run \in Runs
  /\ logging' \in [Clients -> Runs \cup {None}]
  /\ target' \in [Runs -> Copies]
  /\ import' \in Imports
  /\ \A r \in Runs : target'[r].is = "copied" => target[r].is = "copied" \/ r \in import.picked
  /\ \A r \in import'.picked : r \in import.picked \/ kept[r].result

LEMMA RestKept ==
  ASSUME LegacyInv, LegacyNext
  PROVE  Rest
<1> USE DEF LegacyInv, LegacyTypeOK, Imports
<1>1. \A w \in LegacyWorkers : hand[w].at # "idle" => hand[w].run \in Runs
  BY DEF HandsHoldRuns
<1>2. row = [r \in Runs |-> row[r]] /\ kept = [r \in Runs |-> kept[r]]
  OBVIOUS
<1>3. ASSUME NEW w \in LegacyWorkers, Drop(w) PROVE /\ hand' \in [LegacyWorkers -> Hand]
         /\ \A v \in LegacyWorkers : hand'[v].at # "idle" => hand'[v].run \in Runs
  BY <1>1, <1>3 DEF Drop, Hand, Idle
<1>4. ASSUME NEW w \in LegacyWorkers, ClaimRun(w) PROVE Rest
  <2>1. UNCHANGED <<kept, logging, target, import>>
    BY <1>4 DEF ClaimRun
  <2>2. row' = [r \in Runs |-> row'[r]]
    BY <1>4 DEF ClaimRun, RecoveredRuns
  <2>3. \/ hand' = hand
        \/ \E r \in Runs, t \in LeaseIds :
             hand' = [hand EXCEPT ![w] = [run |-> r, token |-> t, at |-> "claimed"]]
    BY <1>4 DEF ClaimRun
  <2>4. /\ hand' \in [LegacyWorkers -> Hand]
        /\ \A v \in LegacyWorkers : hand'[v].at # "idle" => hand'[v].run \in Runs
    BY <1>1, <2>3 DEF Hand
  <2> QED
    BY <1>2, <2>1, <2>2, <2>4 DEF Rest
<1>5. ASSUME NEW w \in LegacyWorkers, Load(w) PROVE Rest
  BY <1>1, <1>2, <1>3, <1>5 DEF Rest, Load, Hand
<1>6. ASSUME NEW w \in LegacyWorkers, Start(w) PROVE Rest
  BY <1>1, <1>2, <1>3, <1>6 DEF Rest, Start, Hand
<1>7. ASSUME NEW w \in LegacyWorkers, FailForGood(w) PROVE Rest
  BY <1>1, <1>2, <1>3, <1>7 DEF Rest, FailForGood
<1>8. ASSUME NEW w \in LegacyWorkers, FailRunAttempt(w) PROVE Rest
  BY <1>1, <1>2, <1>3, <1>8 DEF Rest, FailRunAttempt
<1>9. ASSUME NEW w \in LegacyWorkers, CompleteRun(w) PROVE Rest
  BY <1>1, <1>2, <1>3, <1>9 DEF Rest, CompleteRun
<1>10. ASSUME NEW w \in LegacyWorkers, Crash(w) PROVE Rest
  BY <1>1, <1>2, <1>3, <1>10 DEF Rest, Crash
<1>11. ASSUME NEW r \in Runs, Post(r) PROVE Rest
  BY <1>1, <1>2, <1>3, <1>11 DEF Rest, Post
<1>12. ASSUME NEW r \in Runs, CancelRun(r) PROVE Rest
  BY <1>1, <1>2, <1>3, <1>12 DEF Rest, CancelRun
<1>13. ASSUME NEW r \in Runs, RequeueRun(r) PROVE Rest
  BY <1>1, <1>2, <1>3, <1>13 DEF Rest, RequeueRun
<1>14. ASSUME NEW r \in Runs, Delete(r) PROVE Rest
  BY <1>1, <1>2, <1>3, <1>14 DEF Rest, Delete
<1>15. ASSUME NEW r \in Runs, Time(r) PROVE Rest
  BY <1>1, <1>2, <1>3, <1>15 DEF Rest, Time
<1>16. ASSUME NEW r \in Runs, Practical(r) PROVE Rest
  <2>1. /\ row' = row /\ kept' = kept /\ hand' = hand /\ logging' = logging /\ import' = import
    BY <1>16 DEF Practical, service
  <2>2. /\ target' \in [Runs -> Copies]
        /\ \A s \in Runs : target'[s].is = "copied" => target[s].is = "copied"
    <3>1. CASE \E e \in Entries : /\ target[r].is = "copied"
                                  /\ target' = [target EXCEPT ![r].outcomes = @ \cup {e}]
      BY <3>1 DEF Copies
    <3>2. CASE target' = [target EXCEPT ![r] = [NoCopy EXCEPT !.is = "deleted"]]
      BY <3>2 DEF Copies, NoCopy
    <3>3. CASE target' = [target EXCEPT ![r] = [NoCopy EXCEPT !.is = "over"]]
      BY <3>3 DEF Copies, NoCopy
    <3> QED
      BY <1>16, <3>1, <3>2, <3>3 DEF Practical
  <2> QED
    BY <1>1, <1>2, <2>1, <2>2 DEF Rest
<1>17. ASSUME NEW c \in Clients, Log(c) PROVE Rest
  BY <1>1, <1>2, <1>3, <1>17 DEF Rest, Log
<1>18. ASSUME NEW c \in Clients, NEW r \in Runs, MayLog(c, r) PROVE Rest
  BY <1>1, <1>2, <1>3, <1>18 DEF Rest, MayLog
<1>19. ASSUME Purge PROVE Rest
  BY <1>1, <1>2, <1>3, <1>19 DEF Rest, Purge
<1>20. ASSUME Sunset PROVE Rest
  BY <1>1, <1>2, <1>3, <1>20 DEF Rest, Sunset
<1>21. ASSUME ReadRows PROVE Rest
  <2> DEFINE seen == [r \in Runs |-> row[r].status]
  <2>1. seen \in [Runs -> {"absent", "queued", "running", "dead_letter", "gone"} \cup EndedStates]
    BY DEF RunRow
  <2>2. import' = [import EXCEPT !.at = "rows", !.status = seen] /\ UNCHANGED <<service, target>>
    BY <1>21 DEF ReadRows
  <2> HIDE DEF seen
  <2>3. import' \in Imports /\ import'.picked = import.picked
    BY <2>1, <2>2
  <2> QED
    BY <1>1, <1>2, <2>2, <2>3 DEF Rest, service
<1>22. ASSUME ReadOutcomes PROVE Rest
  <2> DEFINE seen == [r \in Runs |-> kept[r].outcomes]
  <2>1. seen \in [Runs -> SUBSET Entries]
    BY DEF Results
  <2>2. /\ import' = [import EXCEPT !.at = "outcomes", !.outcomes = seen]
        /\ UNCHANGED <<service, target>>
    BY <1>22 DEF ReadOutcomes
  <2> HIDE DEF seen
  <2>3. import' \in Imports /\ import'.picked = import.picked
    BY <2>1, <2>2
  <2> QED
    BY <1>1, <1>2, <2>2, <2>3 DEF Rest, service
<1>23. ASSUME Compare PROVE Rest
  <2>1. UNCHANGED <<service, target>>
    BY <1>23 DEF Compare
  <2>2. PICK fresh \in SUBSET Runs :
          /\ \A r \in fresh : kept[r].result
          /\ \/ import' = NoImport
             \/ import' = [import EXCEPT !.at = "compared", !.picked = fresh,
                             !.status = [r \in Runs |-> "absent"]]
    <3> DEFINE fresh == {r \in Runs : Importable(r) /\ target[r].is \in {"none", "deleted"}}
    <3>1. fresh = {r \in {r \in Runs : Importable(r)} : target[r].is \in {"none", "deleted"}}
      OBVIOUS
    <3>2. fresh \in SUBSET Runs /\ \A r \in fresh : kept[r].result
      BY DEF Importable
    <3>3. \/ import' = NoImport
          \/ import' = [import EXCEPT !.at = "compared", !.picked = fresh,
                          !.status = [r \in Runs |-> "absent"]]
      BY <1>23, <3>1, Zenon DEF Compare
    <3> HIDE DEF fresh
    <3> QED
      BY <3>2, <3>3, Zenon
  <2>3. CASE import' = NoImport
    BY <1>1, <1>2, <2>1, <2>3 DEF Rest, NoImport, service
  <2> DEFINE none == [r \in Runs |-> "absent"]
  <2>4. CASE import' = [import EXCEPT !.at = "compared", !.picked = fresh, !.status = none]
    <3>1. none \in [Runs -> {"absent", "queued", "running", "dead_letter", "gone"}
                             \cup EndedStates]
      OBVIOUS
    <3> HIDE DEF none
    <3>2. import' \in Imports /\ import'.picked = fresh
      BY <2>4, <3>1
    <3> QED
      BY <1>1, <1>2, <2>1, <2>2, <3>2 DEF Rest, service
  <2> QED
    BY <2>2, <2>3, <2>4
<1>24. ASSUME Insert PROVE Rest
  BY <1>1, <1>2, <1>3, <1>24 DEF Rest, Insert, NoImport, Copies, service
<1>25. ASSUME Quit PROVE Rest
  BY <1>1, <1>2, <1>3, <1>25 DEF Rest, Quit, NoImport, service
<1> QED
  BY <1>4, <1>5, <1>6, <1>7, <1>8, <1>9, <1>10, <1>11, <1>12, <1>13, <1>14, <1>15, <1>16,
     <1>17, <1>18, <1>19, <1>20, <1>21, <1>22, <1>23, <1>24, <1>25 DEF LegacyNext

LEMMA LegacyInitially == LegacyInit => LegacyInv
BY RunAssumption
   DEF LegacyInit, LegacyInv, LegacyTypeOK, RunRow, Results, Copies, Hand, HandsHoldRuns,
  LegacyStoresAgree, PickedSucceeded, UnpostedUnspent, Active, EndedStates, Spent, NoRunRow,
  Nothing, Idle, NoCopy, NoImport, Imports

LEMMA LegacyStep == LegacyInv /\ [LegacyNext]_legacyVars => LegacyInv'
<1>1. CASE UNCHANGED legacyVars
  BY <1>1 DEF legacyVars, LegacyInv, LegacyTypeOK, HandsHoldRuns, LegacyStoresAgree,
     PickedSucceeded, UnpostedUnspent, Spent
<1>2. ASSUME LegacyInv, LegacyNext PROVE LegacyInv'
  <2>1. \A r \in Runs : /\ MayBecome(row[r], kept[r], row'[r], kept'[r])
                        /\ kept[r].result => row[r].status = "succeeded"
                        /\ target[r].is = "copied" => row[r].status \in {"succeeded", "gone"}
    BY <1>2, EveryRunMoves DEF LegacyInv, LegacyStoresAgree
  <2>2. Rest
    BY <1>2, RestKept
  <2>3. \A r \in Runs : row[r].status \in {"succeeded", "gone"} =>
                          row'[r].status \in {"succeeded", "gone"}
    BY <2>1 DEF MayBecome, EndedStates
  <2>4. PickedSucceeded /\ import.picked \subseteq Runs /\ import'.picked \subseteq Runs
    BY <1>2, <2>2 DEF LegacyInv, LegacyTypeOK, Imports, Rest
  <2>5. LegacyTypeOK'
    BY <2>1, <2>2 DEF LegacyTypeOK, Rest, MayBecome
  <2>6. HandsHoldRuns'
    BY <2>2 DEF HandsHoldRuns, Rest
  <2>7. UnpostedUnspent'
    BY <2>1 DEF UnpostedUnspent, MayBecome, Fits, Spent
  <2>8. PickedSucceeded'
    BY <2>1, <2>2, <2>3, <2>4 DEF PickedSucceeded, Rest
  <2>9. \A r \in Runs : target'[r].is = "copied" => row'[r].status \in {"succeeded", "gone"}
    BY <2>1, <2>2, <2>3, <2>4 DEF PickedSucceeded, Rest
  <2>10. LegacyStoresAgree'
    BY <2>1, <2>9 DEF LegacyStoresAgree, MayBecome, Fits, Spent
  <2> QED
    BY <2>5, <2>6, <2>7, <2>8, <2>10 DEF LegacyInv
<1> QED
  BY <1>1, <1>2

\* However expiry, deletion, retries and a worker that was taken for dead interleave, request,
\* lease, result and outcomes of a run fit its status, and only successes are copied.
THEOREM LegacyAgreement == LegacySpec => []LegacyStoresAgree
<1>1. LegacyInv => LegacyStoresAgree
  BY DEF LegacyInv
<1> QED
  BY LegacyInitially, LegacyStep, <1>1, PTL DEF LegacySpec

\* The end of a run is only ever erased, and only an operator starts a run over.
THEOREM LegacyEndsStay == LegacySpec => EndsStay
<1> DEFINE Stay(r) ==
      /\ row[r].status \in EndedStates => row'[r].status \in {row[r].status, "gone"}
      /\ row[r].status = "dead_letter" => row'[r].attempts \in {0, row[r].attempts}
      /\ row[r].status # "gone" /\ row'[r].status = "gone" =>
           kept'[r] = Nothing /\ ~ row'[r].request
<1>1. LegacyInv /\ [LegacyNext]_legacyVars => [\A r \in Runs : Stay(r)]_legacyVars
  <2>1. ASSUME LegacyInv, LegacyNext PROVE \A r \in Runs : Stay(r)
    BY <2>1, EveryRunMoves DEF MayBecome
  <2> QED
    BY <2>1
<1>2. LegacySpec => [][\A r \in Runs : Stay(r)]_legacyVars
  BY LegacyInitially, LegacyStep, <1>1, PTL DEF LegacySpec
<1> QED
  BY <1>2 DEF EndsStay
=============================================================================
