------------------------ MODULE ApplicationLifecycle ------------------------
(***************************************************************************)
(* One opportunity and the application the owner makes of it: pursuit,     *)
(* undo, the transitions of the stage, interview rounds, corrections of    *)
(* milestone dates and the terminal outcome.  Each command is one database *)
(* transaction under the row lock of the opportunity or the application,   *)
(* so it is one action here, taken at an instant "now" and for dates the   *)
(* owner types in.                                                         *)
(*                                                                         *)
(* An action is a command the code accepts; a refused one changes nothing. *)
(* Left out: the due dates of the tasks, the review of the materials that  *)
(* the transitions to ready_to_apply and applied repeat, the owner's       *)
(* outreach (sent outreach also refuses the undo), and the closing of a    *)
(* posting, which no statement of src/ writes.  Row versions and           *)
(* idempotency receipts refuse or replay commands; they add none.          *)
(***************************************************************************)
EXTENDS Integers, Sequences, FiniteSets

CONSTANTS
  PerDay,          \* instants of a day of the owner's time zone
  MaxTime,         \* bound: the last instant
  MaxRounds,       \* _MAX_ROUNDS (100)
  MaxCorrections   \* MAX_MILESTONE_CORRECTIONS_PER_EVENT (50)

ASSUME BoundsAssumption ==
  /\ PerDay \in Nat \ {0}
  /\ MaxTime \in Nat
  /\ MaxRounds \in Nat
  /\ MaxCorrections \in Nat

VARIABLES
  now,       \* the server's clock
  decision,  \* owner_opportunities.decision
  app,       \* the application, its submission and its outcome
  open,      \* its open action items
  activity,  \* its activity events, in sequence_number order
  rounds     \* its interview rounds, in round_number order

vars == <<now, decision, app, open, activity, rounds>>

Day(t) == t \div PerDay
Today == Day(now)
Days == 0 .. Day(MaxTime)
NoDay == -1

Undecided == {"inbox", "watch", "dismiss"}
Submitted == {"applied", "screening", "interviewing", "offer"}
Active == {"pursuing", "ready_to_apply"} \cup Submitted
Schedulable == {"applied", "screening", "interviewing"}
Correctable == {"screening", "interviewing", "offer"}
Outcomes == {"offer_accepted", "offer_declined", "rejected", "no_response",
             "withdrawn", "posting_closed"}

\* The kind of the open action a stage has by default.
ActionKind ==
  [pursuing |-> "review_and_prepare_application", ready_to_apply |-> "submit_application",
   applied |-> "follow_up_application", screening |-> "prepare_recruiter_screen",
   interviewing |-> "prepare_interview", offer |-> "review_offer"]

\* created: day of created_at; applied: the submission's applied_on; outcome: its kind.
NoApplication == [stage |-> "none", created |-> NoDay, applied |-> NoDay, outcome |-> "none"]

\* on: the resolved date of the event, the last correction or else effective_on;
\* round: the interview round it is linked to, 0 for none; fixes: its corrections.
Event(from, to, on, round) ==
  [from |-> from, to |-> to, on |-> on, round |-> round, fixes |-> 0]

Action(kind, round) == [kind |-> kind, round |-> round]

Scheduled == {r \in DOMAIN rounds : rounds[r].status = "scheduled"}
Completed == {r \in DOMAIN rounds : rounds[r].status = "completed"}
Dated == {i \in DOMAIN activity : activity[i].on # NoDay}

Reached == {activity[i].to : i \in DOMAIN activity}

RoundDates == {rounds[r].done : r \in Completed}
DatesOf(stages) == {activity[i].on : i \in {j \in Dated : activity[j].to \in stages}}

\* Mutant of AfterAllFacts: completed rounds are not facts.
AfterAllEvents(on) ==
  /\ \A d \in {app.applied} \cup DatesOf(Correctable) : d <= on
  /\ on <= Today

\* _require_milestone_date: on or after every recorded fact, and not in the future.
AfterAllFacts(on) ==
  /\ \A d \in {app.applied} \cup DatesOf(Correctable) \cup RoundDates : d <= on
  /\ on <= Today

\* The open action is replaced; the code refuses to work unless there is exactly one.
Replace(kind, round) ==
  /\ Len(open) = 1
  /\ open' = <<Action(kind, round)>>

(***************************************************************************)
(* Decisions, pursuit and undo.                                            *)
(***************************************************************************)
Init ==
  /\ now = 0
  /\ decision = "inbox"
  /\ app = NoApplication
  /\ open = <<>>
  /\ activity = <<>>
  /\ rounds = <<>>

Decide(target) ==
  /\ decision \notin {"pursued", target}
  /\ decision' = target
  /\ UNCHANGED <<now, app, open, activity, rounds>>

Pursue ==
  /\ app.stage = "none"
  /\ decision \in Undecided
  /\ decision' = "pursued"
  /\ app' = [NoApplication EXCEPT !.stage = "pursuing", !.created = Today]
  /\ open' = <<Action(ActionKind["pursuing"], 0)>>
  /\ activity' = <<Event("none", "pursuing", NoDay, 0)>>
  /\ UNCHANGED <<now, rounds>>

\* Mutant of Undoable: only hiring progress counts, not the submission itself.
UndoableBeforeProgress ==
  /\ app.stage \in {"pursuing", "ready_to_apply", "applied"}
  /\ app.outcome = "none"
  /\ rounds = <<>>

\* _undo_pursuit_blocker, outreach aside.
Undoable ==
  /\ app.stage \in {"pursuing", "ready_to_apply"}
  /\ app.applied = NoDay
  /\ app.outcome = "none"
  /\ rounds = <<>>
  /\ \A i \in DOMAIN activity : activity[i].to \notin Submitted \cup {"closed"}

Undo ==
  /\ Undoable
  /\ decision = "pursued"
  /\ decision' = "inbox"
  /\ app' = NoApplication
  /\ open' = <<>>
  /\ activity' = <<>>
  /\ UNCHANGED <<now, rounds>>

(***************************************************************************)
(* Transitions of the stage: transition_application.                       *)
(***************************************************************************)
\* Mutant of MayMove: a scheduled round does not hold the stage.
MayMoveDespiteRound(stages) ==
  /\ app.stage \in stages
  /\ Len(open) = 1
  /\ open[1].kind = ActionKind[app.stage]

\* What every transition asks for before it looks at its own payload.
MayMove(stages) ==
  /\ app.stage \in stages
  /\ Scheduled = {}
  /\ Len(open) = 1
  /\ open[1].kind = ActionKind[app.stage]

Move(to, on) ==
  /\ Replace(ActionKind[to], 0)
  /\ activity' = Append(activity, Event(app.stage, to, on, 0))
  /\ UNCHANGED <<now, decision, rounds>>

Ready ==
  /\ MayMove({"pursuing"})
  /\ Len(activity) = 1
  /\ Move("ready_to_apply", NoDay)
  /\ app' = [app EXCEPT !.stage = "ready_to_apply"]

Apply(on) ==
  /\ MayMove({"ready_to_apply"})
  /\ Len(activity) = 2
  /\ on \in app.created .. Today
  /\ app.applied = NoDay
  /\ Move("applied", NoDay)
  /\ app' = [app EXCEPT !.stage = "applied", !.applied = on]

Progress(from, to, on) ==
  /\ MayMove(from)
  /\ app.applied # NoDay
  /\ AfterAllFacts(on)
  /\ Move(to, on)
  /\ app' = [app EXCEPT !.stage = to]

Screen(on) == Progress({"applied"}, "screening", on)
Interview(on) == Progress({"applied", "screening"}, "interviewing", on)
Offer(on) == Progress({"applied", "screening", "interviewing"}, "offer", on)

\* The stages an outcome can be recorded from.
ClosableFrom(kind) ==
  CASE kind \in {"offer_accepted", "offer_declined"} -> {"offer"}
    [] kind \in {"rejected", "no_response"} -> Submitted
    [] OTHER -> Active

Close(kind, on) ==
  /\ MayMove(ClosableFrom(kind))
  /\ IF app.stage \in Submitted
       THEN app.applied # NoDay /\ AfterAllFacts(on)
       ELSE app.applied = NoDay /\ on \in app.created .. Today
  /\ app.outcome = "none"
  /\ app' = [app EXCEPT !.stage = "closed", !.outcome = kind]
  /\ open' = <<>>
  /\ activity' = Append(activity, Event(app.stage, "closed", on, 0))
  /\ UNCHANGED <<now, decision, rounds>>

(***************************************************************************)
(* Interview rounds: schedule_interview_round and                          *)
(* record_interview_round_event.                                           *)
(***************************************************************************)
Schedule(start) ==
  /\ app.stage \in Schedulable
  /\ app.outcome = "none"
  /\ Scheduled = {}
  /\ Len(rounds) < MaxRounds
  /\ start > now
  /\ Len(open) = 1
  /\ open[1] = Action(ActionKind[app.stage], 0)
  /\ rounds' = Append(rounds, [status |-> "scheduled", start |-> start, done |-> NoDay])
  /\ Replace("prepare_interview", Len(rounds) + 1)
  /\ UNCHANGED <<now, decision, app, activity>>

\* What every event of a round asks for.
RoundOpen(r) ==
  /\ app.stage \in Schedulable
  /\ app.outcome = "none"
  /\ Scheduled = {r}
  /\ Len(open) = 1
  /\ open[1] = Action("prepare_interview", r)

Reschedule(r, start) ==
  /\ RoundOpen(r)
  /\ start > now
  /\ rounds' = [rounds EXCEPT ![r] = [@ EXCEPT !.start = start]]
  /\ Replace("prepare_interview", r)
  /\ UNCHANGED <<now, decision, app, activity>>

\* Mutant of FirstInterview: only a screening is followed by the interview stage.
FirstInterviewAfterScreening == app.stage = "screening"

\* The completed round is what brings the application to the interview stage.
FirstInterview == app.stage \in {"applied", "screening"}

CompleteRound(r, on) ==
  /\ RoundOpen(r)
  /\ now >= rounds[r].start
  /\ on \in Day(rounds[r].start) .. Today
  /\ rounds' = [rounds EXCEPT ![r] = [@ EXCEPT !.status = "completed", !.done = on]]
  /\ Replace("prepare_interview", 0)
  /\ activity' = IF FirstInterview
                   THEN Append(activity, Event(app.stage, "interviewing", on, r))
                   ELSE activity
  /\ app' = [app EXCEPT !.stage = "interviewing"]
  /\ UNCHANGED <<now, decision>>

\* cancelled_on lies between the last event of the round and today; nothing reads it.
CancelRound(r) ==
  /\ RoundOpen(r)
  /\ rounds' = [rounds EXCEPT ![r] = [@ EXCEPT !.status = "cancelled"]]
  /\ Replace(ActionKind[app.stage], 0)
  /\ UNCHANGED <<now, decision, app, activity>>

(***************************************************************************)
(* Corrections: milestone_correction_window and the command that uses it.  *)
(***************************************************************************)
\* Mutant of CorrectableEvents: a milestone linked to a round can be corrected too.
AnyCorrectableEvents == {i \in Dated : activity[i].to \in Correctable}

CorrectableEvents ==
  {i \in Dated : activity[i].to \in Correctable /\ activity[i].round = 0}

Predecessors(i) ==
  {app.applied} \cup
  CASE activity[i].to = "screening" -> {}
    [] activity[i].to = "interviewing" -> DatesOf({"screening"})
    [] activity[i].to = "offer" -> DatesOf({"screening", "interviewing"}) \cup RoundDates

\* Mutant of Successors: a correction may cross the outcome.
SuccessorsWhileOpen(i) ==
  {Today} \cup
  CASE activity[i].to = "screening" -> DatesOf({"interviewing", "offer"}) \cup RoundDates
    [] activity[i].to = "interviewing" -> DatesOf({"offer"}) \cup RoundDates
    [] activity[i].to = "offer" -> {}

Successors(i) ==
  {Today} \cup DatesOf({"closed"}) \cup
  CASE activity[i].to = "screening" -> DatesOf({"interviewing", "offer"}) \cup RoundDates
    [] activity[i].to = "interviewing" -> DatesOf({"offer"}) \cup RoundDates
    [] activity[i].to = "offer" -> {}

InWindow(i, on) ==
  /\ \A d \in Predecessors(i) : d <= on
  /\ \A d \in Successors(i) : on <= d

\* A correction supersedes the date; the event itself and earlier corrections stay.
Corrected(event, on) == [event EXCEPT !.on = on, !.fixes = @ + 1]

RoomForCorrection(i) == activity[i].fixes < MaxCorrections

Correct(i, on) ==
  /\ i \in CorrectableEvents
  /\ app.applied # NoDay
  /\ on # activity[i].on
  /\ InWindow(i, on)
  /\ RoomForCorrection(i)
  /\ activity' = [activity EXCEPT ![i] = Corrected(@, on)]
  /\ UNCHANGED <<now, decision, app, open, rounds>>

Tick ==
  /\ now < MaxTime
  /\ now' = now + 1
  /\ UNCHANGED <<decision, app, open, activity, rounds>>

Next ==
  \/ \E target \in Undecided : Decide(target)
  \/ Pursue
  \/ Undo
  \/ Ready
  \/ \E on \in Days :
       \/ Apply(on)
       \/ Screen(on)
       \/ Interview(on)
       \/ Offer(on)
       \/ \E kind \in Outcomes : Close(kind, on)
       \/ \E r \in DOMAIN rounds : CompleteRound(r, on)
       \/ \E i \in DOMAIN activity : Correct(i, on)
  \/ \E start \in 0 .. MaxTime : Schedule(start)
  \/ \E r \in DOMAIN rounds :
       \/ \E start \in 0 .. MaxTime : Reschedule(r, start)
       \/ CancelRound(r)
  \/ Tick

Spec == Init /\ [][Next]_vars

(***************************************************************************)
(* Type invariant.                                                         *)
(***************************************************************************)
\* The rows stay within their columns' values, and histories within their limits.
TypeOK ==
  /\ now \in 0 .. MaxTime
  /\ decision \in Undecided \cup {"pursued"}
  /\ app \in [stage : {"none", "closed"} \cup Active, created : Days \cup {NoDay},
              applied : Days \cup {NoDay}, outcome : {"none"} \cup Outcomes]
  /\ open \in Seq([kind : {ActionKind[s] : s \in Active}, round : 0 .. MaxRounds])
  /\ activity \in Seq([from : {"none"} \cup Active, to : {"closed"} \cup Active,
                       on : Days \cup {NoDay}, round : 0 .. MaxRounds,
                       fixes : 0 .. MaxCorrections])
  /\ rounds \in Seq([status : {"scheduled", "completed", "cancelled"},
                     start : 0 .. MaxTime, done : Days \cup {NoDay}])
  /\ Len(rounds) <= MaxRounds

(***************************************************************************)
(* Safety.                                                                 *)
(***************************************************************************)
\* What _validate_today_action_graph raises on: an active application has exactly one
\* open action, that of its stage, or the preparation of the round that is scheduled,
\* and a scheduled round always owns that action; no other application has any.
OneOpenAction ==
  IF app.stage \notin Active THEN open = <<>> /\ Scheduled = {}
  ELSE /\ Len(open) = 1
       /\ \/ Scheduled = {} /\ open[1] = Action(ActionKind[app.stage], 0)
          \/ /\ app.stage \in Schedulable
             /\ \E r \in Scheduled : Scheduled = {r} /\ open[1] = Action("prepare_interview", r)

\* The tables tell one story: pursued exactly when there is an application; the activity
\* is a chain of stages that ends at the current one; a submission exactly when
\* the chain went through applied; an outcome exactly when it is closed; and no rounds
\* without a submission.
RecordsAgree ==
  /\ decision = "pursued" <=> app.stage # "none"
  /\ app.stage = "none" <=> activity = <<>>
  /\ \A i \in DOMAIN activity :
       activity[i].from = IF i = 1 THEN "none" ELSE activity[i - 1].to
  /\ activity # <<>> => app.stage = activity[Len(activity)].to
  /\ app.applied # NoDay <=> "applied" \in Reached
  /\ app.outcome # "none" <=> "closed" \in Reached
  /\ rounds # <<>> => "applied" \in Reached

\* An event recorded by hand is on or after every event before it however often either was
\* corrected; the submission is the first fact, an offer or an outcome is on or after every
\* completed round, and nothing lies in the future.
ManualDatesOrdered ==
  /\ \A i, j \in Dated : i < j /\ activity[j].round = 0 => activity[i].on <= activity[j].on
  /\ \A d \in RoundDates \cup DatesOf(Correctable) : app.applied <= d /\ d <= Today
  /\ \A d \in RoundDates, e \in DatesOf({"offer", "closed"}) : d <= e
  /\ \A d \in DatesOf({"closed"}) : d <= Today

\* An event linked to a round keeps the date of its round, whatever is corrected around it.
LinkedDatesGrounded ==
  \A i \in Dated : activity[i].round # 0 =>
    /\ activity[i].round \in Completed
    /\ activity[i].on = rounds[activity[i].round].done
    /\ activity[i].to = "interviewing"

\* "Dates cannot move backward across recorded milestones" as far as the commands ensure it
\* (a completed round may lie before a milestone that was corrected meanwhile), and
\* "Round-linked interview milestones are grounded in an exact completed round"
\* (docs/PHASE_6_OUTCOME_LEARNING.md).
DatesHold == ManualDatesOrdered /\ LinkedDatesGrounded

\* No dead end in the correction graph: while there are correctable milestones, the first
\* of them has a date it may be moved to or keep, so an order that a completed round
\* spoiled can be repaired from the front.
WindowsRepairable ==
  \A i \in CorrectableEvents : (\A j \in CorrectableEvents : i <= j) =>
    \E on \in Days : InWindow(i, on)

\* The dates of rounds and milestones are in the order of the events they stand for, and
\* every correction window still open can be used.
RoundsHold == DatesHold /\ WindowsRepairable

\* Once something left the house "the immutable history wins" (undo_application_pursuit):
\* a submitted application is never discarded or resubmitted, its stage only moves
\* on, an outcome is final, and the activity only grows; a correction changes the date of
\* an event recorded by hand and nothing else about the past.
Rank == [none |-> 0, pursuing |-> 1, ready_to_apply |-> 2, applied |-> 3, screening |-> 4,
         interviewing |-> 5, offer |-> 6, closed |-> 7]

HistoryKept ==
  /\ app'.applied = app.applied
  /\ Rank[app'.stage] >= Rank[app.stage]
  /\ app.outcome # "none" => app' = app
  /\ Len(activity') >= Len(activity)
  /\ \A i \in DOMAIN activity :
       activity'[i] = activity[i] \/
       \E on \in Days : /\ activity'[i] = Corrected(activity[i], on)
                        /\ activity[i].round = 0 /\ app' = app
  /\ \A r \in Completed : rounds'[r] = rounds[r]

ImmutableHistoryWins ==
  [][app.applied # NoDay \/ app.outcome # "none" => HistoryKept]_vars
=============================================================================
