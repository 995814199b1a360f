---------------------------- MODULE LeasedTask ----------------------------
(***************************************************************************)
(* What the durable job queue promises to the code that uses it, without   *)
(* clocks, leases or tokens: a task waits, is granted to one process at a  *)
(* time, and reaches "done" only by the process it was last granted to.    *)
(* A task marked doomed while it is held can end no other way than         *)
(* dropped, and a task is granted at most MaxAttempts times before it is   *)
(* parked for an operator.                                                 *)
(***************************************************************************)
EXTENDS Naturals

CONSTANTS
  Jobs,          \* the tasks
  Workers,       \* the processes that may hold a task
  MaxAttempts,   \* grants of one task between two operator retries
  NoWorker       \* the holder of a task nobody can finish

VARIABLE task

Phases == {"none", "waiting", "held", "done", "dropped", "parked"}

Task == [phase : Phases, holder : Workers \cup {NoWorker}, tries : 0..MaxAttempts,
         doomed : BOOLEAN]

At(phase, holder, tries, doomed) ==
  [phase |-> phase, holder |-> holder, tries |-> tries, doomed |-> doomed]

Init == task = [j \in Jobs |-> At("none", NoWorker, 0, FALSE)]

Submitted(t, u) ==
  /\ t.phase = "none"
  /\ u = At("waiting", t.holder, t.tries, t.doomed)

\* Grant to a process.  A held task may be granted again: its lease has lapsed.
Granted(t, u) ==
  /\ t.phase \in {"waiting", "held"} /\ ~t.doomed
  /\ t.tries < MaxAttempts
  /\ \E w \in Workers : u = At("held", w, t.tries + 1, FALSE)

\* The holder died, or went on without the task.
Orphaned(t, u) ==
  /\ t.phase = "held"
  /\ u = At("held", NoWorker, t.tries, t.doomed)

Doomed(t, u) ==
  /\ t.phase = "held"
  /\ u = At("held", t.holder, t.tries, TRUE)

\* Only the process that holds the task brings it to "done".
Done(t, u) ==
  /\ t.phase = "held" /\ t.holder # NoWorker /\ ~t.doomed
  /\ u = At("done", NoWorker, t.tries, FALSE)

\* A failed attempt, or a lapsed lease.
Released(t, u) ==
  /\ t.phase = "held" /\ ~t.doomed
  /\ \/ t.tries < MaxAttempts /\ u = At("waiting", NoWorker, t.tries, FALSE)
     \/ u = At("parked", NoWorker, t.tries, FALSE)

Dropped(t, u) ==
  /\ t.phase = "waiting" \/ (t.phase = "held" /\ t.doomed)
  /\ u = At("dropped", NoWorker, t.tries, TRUE)

Revived(t, u) ==
  /\ t.phase = "parked"
  /\ u = At("waiting", NoWorker, 0, FALSE)

Step(t, u) ==
  \/ Submitted(t, u) \/ Granted(t, u) \/ Orphaned(t, u) \/ Doomed(t, u)
  \/ Done(t, u) \/ Released(t, u) \/ Dropped(t, u) \/ Revived(t, u)

\* One transaction of the queue may move several tasks, each by one step.
Next == /\ task' \in [Jobs -> Task]
        /\ \A j \in Jobs : task'[j] = task[j] \/ Step(task[j], task'[j])

Spec == Init /\ [][Next]_task
===========================================================================
