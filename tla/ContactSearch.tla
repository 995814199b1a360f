--------------------------- MODULE ContactSearch ---------------------------
(***************************************************************************)
(* Contact searches: the contact_plans row of one paid discovery for an    *)
(* application, its background job, and the bench of people it publishes.  *)
(* A plan changes by four hands: the owner's request                       *)
(* (contact_search_repository.py), the worker that holds the job           *)
(* (contact_search_worker.py), the poll that makes plans agree with jobs   *)
(* that ended without them, and the undo of a pursuit, which deletes the   *)
(* plans and jobs of the application (application_repository.py).          *)
(*                                                                         *)
(* Left out: candidates, ranks and shortfall wording; the validation of    *)
(* references no writer makes inconsistent; and the branches               *)
(* ContactPlansAgree below shows no state reaches: a plan that ended while *)
(* its job runs, and an active plan whose job is gone.                     *)
(***************************************************************************)
EXTENDS WorkerPool

CONSTANTS
  Apps,          \* applications; undoing one and pursuing again makes another
  OwnerOf,       \* the owner of an application
  Plans,         \* contact plans, each with its background job
  People,        \* public profiles
  Limits,        \* ContactSearchBudget: a limit per window
  TargetCount,   \* CONTACT_TARGET_COUNT
  MaxDays        \* bound: days that pass within the month

ASSUME ContactAssumption ==
  /\ \A x \in {"owner_day", "global_day", "global_month"} : Limits[x] \in Nat
  /\ TargetCount \in Nat \ {0} /\ MaxDays \in Nat
  /\ NoJob \notin Plans /\ "none" \notin Apps

VARIABLES
  contactJob, contactClaim,  \* the queue
  app,                       \* applications: none, open, halted or undone
  plan,                      \* contact_plans
  bench,                     \* the people a plan selected
  person,                    \* contacts.lifecycle
  contactMemory,             \* what each worker process holds of the job it claimed
  undoing,                   \* undos that have read the plans of the application
  days,                      \* days passed
  drawn                      \* the identifiers plans were created under; an undo takes the rows of some

\* CREATE of a plan gives its job one attempt: each attempt is charged.
ContactQueue == INSTANCE JobQueue
  WITH Jobs <- Plans, WorkerId <- [w \in Workers |-> w],
       Serves <- [w \in Workers |-> Plans], Priority <- [p \in Plans |-> 75],
       Skews <- {0}, Delays <- {0}, MaxAttempts <- 1, MaxRequeues <- 0, requeues <- 0,
       job <- contactJob, claim <- contactClaim

contactQueue == <<contactJob, contactClaim>>

contactVars == <<contactQueue, app, plan, bench, person, contactMemory, undoing, days, drawn>>

TerminalPlan == {"completed", "failed", "cancelled"}

NoPlan == [status |-> "absent", of |-> "none", day |-> 0]

ContactInit == /\ ContactQueue!Init
               /\ app = [a \in Apps |-> "none"]
               /\ plan = [p \in Plans |-> NoPlan]
               /\ bench = [p \in Plans |-> {}]
               /\ person = [x \in People |-> "unknown"]
               /\ contactMemory = [w \in Workers |-> Idle]
               /\ undoing = [a \in Apps |-> {Idle}]
               /\ days = 0
               /\ drawn = {}

PlansOf(a) == {p \in Plans : plan[p].of = a}

Active(p) == plan[p].status \in {"queued", "running"}

(***************************************************************************)
(* The application.  It is halted while its stage is past contact, an      *)
(* interview round is recorded or its posting is closed.                   *)
(***************************************************************************)
Pursue(a) ==
  /\ app[a] = "none"
  /\ app' = [app EXCEPT ![a] = "open"]
  /\ UNCHANGED <<contactQueue, plan, bench, person, contactMemory, undoing, days, drawn>>

Halt(a) ==
  /\ app[a] = "open"
  /\ app' = [app EXCEPT ![a] = "halted"]
  /\ UNCHANGED <<contactQueue, plan, bench, person, contactMemory, undoing, days, drawn>>

\* A closed posting is found open again.
Resume(a) ==
  /\ app[a] = "halted"
  /\ app' = [app EXCEPT ![a] = "open"]
  /\ UNCHANGED <<contactQueue, plan, bench, person, contactMemory, undoing, days, drawn>>

\* An outreach reply asks not to be contacted.
Block(x) ==
  /\ person[x] = "active"
  /\ person' = [person EXCEPT ![x] = "do_not_contact"]
  /\ UNCHANGED <<contactQueue, app, plan, bench, contactMemory, undoing, days, drawn>>

Day == /\ days < MaxDays
       /\ days' = days + 1
       /\ UNCHANGED <<contactQueue, app, plan, bench, person, contactMemory, undoing, drawn>>

(***************************************************************************)
(* create_contact_search.  A request whose key was used, or that finds an  *)
(* active plan, is answered with that plan and changes nothing here.       *)
(***************************************************************************)
ChargedPlans(rows, owners, since) ==
  {p \in Plans : /\ rows[p].status # "absent"
                 /\ OwnerOf[rows[p].of] \in owners
                 /\ rows[p].day >= since}

Owners == {OwnerOf[a] : a \in Apps}

\* _enforce_contact_search_budget counts the rows of contact_plans.
WithinBudget(rows, a) ==
  /\ Cardinality(ChargedPlans(rows, {OwnerOf[a]}, days)) < Limits["owner_day"]
  /\ Cardinality(ChargedPlans(rows, Owners, days)) < Limits["global_day"]
  /\ Cardinality(ChargedPlans(rows, Owners, 0)) < Limits["global_month"]

\* Mutant of Searchable: an application may have several active plans.
SearchableAgain(a) == app[a] = "open"

Searchable(a) == app[a] = "open" /\ \A p \in PlansOf(a) : ~Active(p)

CreateSearch(a, p) ==
  /\ p \notin drawn
  /\ Searchable(a) /\ WithinBudget(plan, a)
  /\ ContactQueue!Enqueue(p)
  /\ plan' = [plan EXCEPT ![p] = [status |-> "queued", of |-> a, day |-> days]]
  /\ drawn' = drawn \cup {p}
  /\ UNCHANGED <<app, bench, person, contactMemory, undoing, days>>

(***************************************************************************)
(* undo_application_pursuit: it reads the jobs of the application, locks   *)
(* them, and only then the application and its plans.                      *)
(***************************************************************************)
UndoRead(a) ==
  /\ app[a] \in {"open", "halted"} /\ undoing[a] = {Idle}
  /\ undoing' = [undoing EXCEPT ![a] = PlansOf(a)]
  /\ UNCHANGED <<contactQueue, app, plan, bench, person, contactMemory, days, drawn>>

\* Mutant of Undoable: the plans are not compared with those read first.
UndoableAsRead(a) == \A p \in undoing[a] : contactJob[p].status # "running"

Undoable(a) ==
  /\ PlansOf(a) = undoing[a]
  /\ \A p \in undoing[a] : contactJob[p].status # "running"

\* Plans and benches go with the application, the jobs are deleted one by one.
Undo(a) ==
  /\ undoing[a] # {Idle} /\ Undoable(a)
  /\ app' = [app EXCEPT ![a] = "undone"]
  /\ plan' = [p \in Plans |-> IF p \in PlansOf(a) THEN NoPlan ELSE plan[p]]
  /\ bench' = [p \in Plans |-> IF p \in PlansOf(a) THEN {} ELSE bench[p]]
  /\ contactJob' = [p \in Plans |-> IF p \in undoing[a] THEN ContactQueue!NoRow
                                    ELSE contactJob[p]]
  /\ undoing' = [undoing EXCEPT ![a] = {Idle}]
  /\ UNCHANGED <<contactClaim, person, contactMemory, days, drawn>>

RefuseUndo(a) ==
  /\ undoing[a] # {Idle} /\ ~Undoable(a)
  /\ undoing' = [undoing EXCEPT ![a] = {Idle}]
  /\ UNCHANGED <<contactQueue, app, plan, bench, person, contactMemory, days, drawn>>

(***************************************************************************)
(* The poll: recovery, reconciliation of plans, the cancellation of work   *)
(* no live worker can claim, and the claim, in one transaction.            *)
(***************************************************************************)
\* Mutant of EndedWith: a dead letter leaves its plan open.
EndedWithCancelled(p, status) ==
  IF Active(p) /\ status = "cancelled" THEN [plan[p] EXCEPT !.status = status] ELSE plan[p]

\* The plan, once its job has this status: what the poll and a failed attempt write.
EndedWith(p, status) ==
  IF ~Active(p) \/ status \notin ContactQueue!Terminal THEN plan[p]
  ELSE [plan[p] EXCEPT !.status = IF status = "cancelled" THEN "cancelled" ELSE "failed"]

ReconcilePlans == plan' = [p \in Plans |-> EndedWith(p, contactJob'[p].status)]

ForgetSearch(w) == contactMemory' = [contactMemory EXCEPT ![w] = Idle]

PollContacts(w) ==
  /\ \/ ContactQueue!PollIdle(w, {}, 0) /\ ForgetSearch(w)
     \/ /\ ContactQueue!PollClaim(w, {}, 0)
        /\ contactMemory' = [contactMemory EXCEPT ![w] = "claimed"]
  /\ ReconcilePlans
  /\ UNCHANGED <<app, bench, person, undoing, days, drawn>>

\* The poll of a process that serves no contact work, when none alive does:
\* _cancel_unserviceable_contact_jobs cancels what has waited too long.
Drain(old) ==
  /\ old # {} /\ \A p \in old : ContactQueue!Recovered({}, 0)[p].status = "queued"
  /\ contactJob' = [p \in Plans |-> IF p \in old THEN ContactQueue!CancelledRow(contactJob[p])
                             ELSE ContactQueue!Recovered({}, 0)[p]]
  /\ ReconcilePlans
  /\ UNCHANGED <<contactClaim, app, bench, person, contactMemory, undoing, days, drawn>>

(***************************************************************************)
(* The worker.                                                             *)
(***************************************************************************)
PlanOf(w) == contactClaim[w].job

Halted(p) == app[plan[p].of] # "open"

\* _cancel_running_plan, under the lease.
CancelPlan(w) ==
  LET p == PlanOf(w)
  IN  /\ ContactQueue!HoldsLease(w, 0)
      /\ contactJob' = [contactJob EXCEPT ![p] =
                          ContactQueue!CompletedRow(ContactQueue!CancelledRow(@))]
      /\ contactClaim' = [contactClaim EXCEPT ![w] = ContactQueue!NoClaim]
      /\ plan' = [plan EXCEPT ![p].status = "cancelled"]
      /\ ForgetSearch(w)
      /\ UNCHANGED <<app, bench, person, undoing, days, drawn>>

\* _start_contact_search.
StartSearch(w) ==
  LET p == PlanOf(w)
  IN  /\ contactMemory[w] = "claimed" /\ ContactQueue!HoldsLease(w, 0) /\ ~Halted(p)
      /\ ContactQueue!Stage(w)
      /\ plan' = [plan EXCEPT ![p].status = "running"]
      /\ contactMemory' = [contactMemory EXCEPT ![w] = "searching"]
      /\ UNCHANGED <<app, bench, person, undoing, days, drawn>>

\* The application was halted before the search started or while it ran.
Stop(w) ==
  /\ contactMemory[w] \in {"claimed", "searching"} /\ ContactQueue!HoldsLease(w, 0)
  /\ Halted(PlanOf(w))
  /\ CancelPlan(w)

\* Mutant of Contactable: the canonical row of a rediscovered person is made active.
ContactableAnyone(found) == found

\* _upsert_contact keeps the lifecycle of a person it knows.
Contactable(found) == {x \in found : person[x] # "do_not_contact"}

\* A bench of the verified: as many as there are, at most the target.
Benches(eligible) ==
  {b \in SUBSET eligible : Cardinality(b) <= TargetCount}

\* _publish_contact_search, whatever was found and verified.
Publish(w, found) ==
  LET p == PlanOf(w)
  IN  /\ contactMemory[w] = "searching" /\ ContactQueue!HoldsLease(w, 0) /\ ~Halted(p)
      /\ ContactQueue!Complete(w)
      /\ person' = [x \in People |-> IF x \in found /\ person[x] = "unknown"
                                     THEN "active" ELSE person[x]]
      /\ \E b \in Benches(Contactable(found)) : bench' = [bench EXCEPT ![p] = b]
      /\ plan' = [plan EXCEPT ![p].status = "completed"]
      /\ ForgetSearch(w)
      /\ UNCHANGED <<app, undoing, days, drawn>>

\* finish_contact_search_attempt_failure, of a reference, a provider or a publication.
FailSearch(w) ==
  LET p == PlanOf(w)
  IN  /\ \E terminal \in BOOLEAN : ContactQueue!FailAttempt(w, terminal)
      /\ plan' = [plan EXCEPT ![p] = EndedWith(p, contactJob'[p].status)]
      /\ ForgetSearch(w)
      /\ UNCHANGED <<app, bench, person, undoing, days, drawn>>

\* The process dies, or finds its lease gone.
GiveUpSearch(w) == ContactQueue!GiveUp(w) /\ ForgetSearch(w)
             /\ UNCHANGED <<app, plan, bench, person, undoing, days, drawn>>

RenewSearch(w) == ContactQueue!Renew(w)
            /\ UNCHANGED <<app, plan, bench, person, contactMemory, undoing, days, drawn>>

ContactTick == ContactQueue!Tick
        /\ UNCHANGED <<app, plan, bench, person, contactMemory, undoing, days, drawn>>

ReturnSearch(w) == \/ Stop(w) \/ FailSearch(w) \/ GiveUpSearch(w)
                   \/ \E found \in SUBSET People : Publish(w, found)

ContactNext == \/ \E a \in Apps : \/ Pursue(a) \/ Halt(a) \/ Resume(a)
                                  \/ UndoRead(a) \/ Undo(a) \/ RefuseUndo(a)
                                  \/ \E p \in Plans : CreateSearch(a, p)
               \/ \E x \in People : Block(x)
               \/ Day
               \/ \E w \in Workers : \/ PollContacts(w) \/ StartSearch(w)
                                     \/ ReturnSearch(w) \/ RenewSearch(w)
               \/ \E old \in SUBSET Plans : Drain(old)
               \/ ContactTick

ContactSpec == ContactInit /\ [][ContactNext]_contactVars

(***************************************************************************)
(* Properties.                                                             *)
(***************************************************************************)
PlanRow == [status : {"absent", "queued", "running"} \cup TerminalPlan,
            of : Apps \cup {"none"}, day : 0..MaxDays]

\* Types of the tables and of the processes' memory.
ContactTypeOK == /\ ContactQueue!TypeOK
                 /\ app \in [Apps -> {"none", "open", "halted", "undone"}]
                 /\ plan \in [Plans -> PlanRow]
                 /\ drawn \subseteq Plans
                 /\ bench \in [Plans -> SUBSET People]
                 /\ person \in [People -> {"unknown", "active", "do_not_contact"}]
                 /\ contactMemory \in [Workers -> {Idle, "claimed", "searching"}]
                 /\ days \in 0..MaxDays

EndOf == [completed |-> "succeeded", failed |-> "dead_letter", cancelled |-> "cancelled"]

PlanAgrees(p) ==
  /\ plan[p].status = "absent" <=> contactJob[p].status = "absent"
  /\ Active(p) <=> contactJob[p].status \in {"queued", "running"}
  /\ plan[p].status = "running" => contactJob[p].status = "running"
  /\ plan[p].status \in TerminalPlan => contactJob[p].status = EndOf[plan[p].status]
  /\ bench[p] # {} => plan[p].status = "completed"
  /\ plan[p].status # "absent" => app[plan[p].of] \in {"open", "halted"}

\* Whichever of request, worker, poll and undo comes between which, plan and job are
\* at the same point, no plan or job outlives its application, only a completed search
\* has a bench, and an application has one active search.
ContactPlansAgree ==
  /\ \A p \in Plans : PlanAgrees(p)
  /\ \A p, q \in Plans : Active(p) /\ Active(q) /\ plan[p].of = plan[q].of => p = q

PlanKeepsItsEnd(p) ==
  /\ plan[p].status \in TerminalPlan /\ plan'[p] # plan[p] => plan'[p] = NoPlan
  /\ bench'[p] # bench[p] /\ bench'[p] # {} =>
       \A x \in bench'[p] : person[x] # "do_not_contact"

\* A search keeps its ending until the pursuit is undone, and whoever asked not to be
\* contacted before a publication is not on its bench.
SearchesKeepTheirEnd == [][\A p \in Plans : PlanKeepsItsEnd(p)]_contactVars

\* Every requested search ends, although its worker may die and nobody polls for it.
EverySearchEnds ==
  \A p \in Plans : plan[p].status = "queued" ~> plan[p].status \in TerminalPlan \cup {"absent"}
=============================================================================
