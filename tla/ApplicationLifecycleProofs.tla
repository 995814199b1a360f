--------------------- MODULE ApplicationLifecycleProofs ---------------------
(***************************************************************************)
(* Theorems about ApplicationLifecycle, for every length of a day, number  *)
(* of rounds, number of corrections and length of the history, and about   *)
(* LockOrder, for any number of sessions.                                  *)
(***************************************************************************)
EXTENDS ApplicationLifecycle, LockOrder, TLAPS

Stages == {"none", "closed"} \cup Active

ActionRow == [kind : {ActionKind[s] : s \in Active}, round : 0 .. MaxRounds]

EventRow ==
  [from : {"none"} \cup Active, to : {"closed"} \cup Active, on : Days \cup {NoDay},
   round : 0 .. MaxRounds, fixes : 0 .. MaxCorrections]

RoundRow ==
  [status : {"scheduled", "completed", "cancelled"}, start : 0 .. MaxTime,
   done : Days \cup {NoDay}]

(***************************************************************************)
(* Days.                                                                   *)
(***************************************************************************)
\* A later instant is on the same day or a later one.
LEMMA DayMonotone ==
  ASSUME NEW s \in Nat, NEW t \in Nat, s <= t
  PROVE  /\ Day(s) \in Nat /\ Day(t) \in Nat
         /\ Day(s) <= Day(t)
<1> DEFINE p == PerDay
           a == s \div p
           b == t \div p
<1>1. p \in Nat /\ p > 0
  BY BoundsAssumption
<1>2. a \in Nat /\ b \in Nat /\ s = p * a + (s % p) /\ t = p * b + (t % p)
      /\ s % p \in 0 .. (p - 1) /\ t % p \in 0 .. (p - 1)
  BY <1>1
<1>3. ASSUME b + 1 <= a PROVE FALSE
  <2>1. p * (b + 1) <= p * a
    BY <1>1, <1>2, <1>3
  <2> QED  BY <1>1, <1>2, <2>1
<1>4. a <= b
  BY <1>2, <1>3
<1> QED  BY <1>2, <1>4 DEF Day

LEMMA TodayIsADay ==
  ASSUME now \in 0 .. MaxTime
  PROVE  Today \in Days /\ Days \subseteq Int
BY DayMonotone, BoundsAssumption DEF Today, Days

(***************************************************************************)
(* Sequences of rows.                                                      *)
(***************************************************************************)
LEMMA Singleton ==
  ASSUME NEW S, NEW e \in S
  PROVE  <<e>> \in Seq(S) /\ Len(<<e>>) = 1 /\ <<e>>[1] = e /\ DOMAIN <<e>> = {1}
OBVIOUS

LEMMA Appended ==
  ASSUME NEW S, NEW s \in Seq(S), NEW e \in S
  PROVE  /\ Append(s, e) \in Seq(S)
         /\ Len(Append(s, e)) = Len(s) + 1
         /\ DOMAIN Append(s, e) = 1 .. (Len(s) + 1)
         /\ \A i \in DOMAIN s : Append(s, e)[i] = s[i]
         /\ Append(s, e)[Len(s) + 1] = e
OBVIOUS

LEMMA Put ==
  ASSUME NEW S, NEW s \in Seq(S), NEW i \in DOMAIN s, NEW e \in S
  PROVE  /\ [s EXCEPT ![i] = e] \in Seq(S)
         /\ Len([s EXCEPT ![i] = e]) = Len(s)
         /\ DOMAIN [s EXCEPT ![i] = e] = DOMAIN s
         /\ [s EXCEPT ![i] = e][i] = e
         /\ \A j \in DOMAIN s : j # i => [s EXCEPT ![i] = e][j] = s[j]
OBVIOUS

(***************************************************************************)
(* Types.                                                                  *)
(***************************************************************************)
LEMMA Kinds ==
  /\ \A s \in Active : ActionKind[s] \in {ActionKind[t] : t \in Active}
  /\ "prepare_interview" \in {ActionKind[t] : t \in Active}
<1>1. ActionKind["interviewing"] = "prepare_interview" /\ "interviewing" \in Active
  BY DEF ActionKind, Active, Submitted
<1> QED  BY <1>1

LEMMA TypeIs ==
  TypeOK <=> /\ now \in 0 .. MaxTime
             /\ decision \in Undecided \cup {"pursued"}
             /\ app \in [stage : Stages, created : Days \cup {NoDay},
                         applied : Days \cup {NoDay}, outcome : {"none"} \cup Outcomes]
             /\ open \in Seq(ActionRow)
             /\ activity \in Seq(EventRow)
             /\ rounds \in Seq(RoundRow)
             /\ Len(rounds) <= MaxRounds
BY DEF TypeOK, Stages, ActionRow, EventRow, RoundRow

LEMMA TypeInit == Init => TypeOK
<1> SUFFICES ASSUME Init PROVE TypeOK
  OBVIOUS
<1>1. app \in [stage : Stages, created : Days \cup {NoDay},
              applied : Days \cup {NoDay}, outcome : {"none"} \cup Outcomes]
  BY DEF Init, NoApplication, Stages
<1> QED  BY <1>1, TypeIs, BoundsAssumption DEF Init, Undecided

\* An action that leaves the clock alone and types what it writes.
LEMMA TypeStep ==
  ASSUME TypeOK, now' = now,
         decision' \in Undecided \cup {"pursued"},
         app' \in [stage : Stages, created : Days \cup {NoDay},
                  applied : Days \cup {NoDay}, outcome : {"none"} \cup Outcomes],
         open' \in Seq(ActionRow),
         activity' \in Seq(EventRow),
         rounds' \in Seq(RoundRow),
         Len(rounds') <= MaxRounds
  PROVE  TypeOK'
BY TypeIs DEF TypeOK, Stages, ActionRow, EventRow, RoundRow

\* The open action of a stage, and what a command may open in its place.
LEMMA Opens ==
  ASSUME NEW kind \in {ActionKind[s] : s \in Active}, NEW round \in 0 .. MaxRounds,
         Replace(kind, round)
  PROVE  /\ open' \in Seq(ActionRow)
         /\ Len(open') = 1
         /\ open'[1] = Action(kind, round)
<1>1. Action(kind, round) \in ActionRow
  BY DEF Action, ActionRow
<1> QED  BY <1>1, Singleton DEF Replace

LEMMA OpensDefault ==
  ASSUME NEW s \in Active, Replace(ActionKind[s], 0)
  PROVE  /\ open' \in Seq(ActionRow)
         /\ Len(open') = 1
         /\ open'[1] = Action(ActionKind[s], 0)
BY Opens, Kinds, BoundsAssumption

\* What a correction changes of an event, and what it keeps.
LEMMA CorrectedIs ==
  ASSUME NEW e \in EventRow, NEW on \in Days
  PROVE  /\ Corrected(e, on) = [from |-> e.from, to |-> e.to, on |-> on, round |-> e.round,
                               fixes |-> e.fixes + 1]
         /\ e.fixes \in 0 .. MaxCorrections
         /\ e.fixes < MaxCorrections => Corrected(e, on) \in EventRow
<1>1. e.fixes \in 0 .. MaxCorrections /\ e.round \in 0 .. MaxRounds
      /\ e.from \in {"none"} \cup Active /\ e.to \in {"closed"} \cup Active
  BY DEF EventRow
<1>2. Corrected(e, on) = [from |-> e.from, to |-> e.to, on |-> on, round |-> e.round,
                          fixes |-> e.fixes + 1]
  <2>1. e = [from |-> e.from, to |-> e.to, on |-> e.on, round |-> e.round, fixes |-> e.fixes]
    BY DEF EventRow
  <2>2. [e EXCEPT !.on = on] = [from |-> e.from, to |-> e.to, on |-> on, round |-> e.round,
                                fixes |-> e.fixes]
    BY <2>1
  <2> DEFINE f == e.fixes + 1
  <2>3. Corrected(e, on) = [[e EXCEPT !.on = on] EXCEPT !.fixes = f]
    BY DEF Corrected
  <2> HIDE DEF f
  <2>4. Corrected(e, on) = [from |-> e.from, to |-> e.to, on |-> on, round |-> e.round,
                            fixes |-> f]
    BY <2>2, <2>3
  <2> QED  BY <2>4 DEF f
<1>3. e.fixes < MaxCorrections => e.fixes + 1 \in 0 .. MaxCorrections
  BY <1>1, BoundsAssumption
<1>4. e.fixes < MaxCorrections => Corrected(e, on) \in EventRow
  BY <1>1, <1>2, <1>3 DEF EventRow
<1> QED  BY <1>1, <1>2, <1>4

\* The decisions of the owner, pursuit and undo keep the types.
LEMMA TypeDecisions ==
  ASSUME TypeOK, (\E target \in Undecided : Decide(target)) \/ Pursue \/ Undo
  PROVE  TypeOK'
<1>1. CASE \E target \in Undecided : Decide(target)
  BY <1>1, TypeIs, TypeStep DEF Decide
<1>2. CASE Pursue
  <2>1. Action(ActionKind["pursuing"], 0) \in ActionRow
    BY Kinds, BoundsAssumption DEF Action, ActionRow, Active
  <2>2. Event("none", "pursuing", NoDay, 0) \in EventRow
    BY BoundsAssumption DEF Event, EventRow, Active
  <2>3. app' \in [stage : Stages, created : Days \cup {NoDay},
                 applied : Days \cup {NoDay}, outcome : {"none"} \cup Outcomes]
    BY <1>2, TypeIs, TodayIsADay DEF Pursue, NoApplication, Stages, Active
  <2>4. open' \in Seq(ActionRow) /\ activity' \in Seq(EventRow)
    BY <1>2, <2>1, <2>2, Singleton DEF Pursue
  <2>5. now' = now /\ decision' = "pursued" /\ rounds' = rounds
    BY <1>2 DEF Pursue
  <2> QED  BY <2>3, <2>4, <2>5, TypeIs, TypeStep
<1>3. CASE Undo
  <2>1. app' \in [stage : Stages, created : Days \cup {NoDay},
                 applied : Days \cup {NoDay}, outcome : {"none"} \cup Outcomes]
    BY <1>3 DEF Undo, NoApplication, Stages
  <2>2. open' \in Seq(ActionRow) /\ activity' \in Seq(EventRow)
    BY <1>3 DEF Undo
  <2>3. now' = now /\ decision' = "inbox" /\ rounds' = rounds
    BY <1>3 DEF Undo
  <2> QED  BY <2>1, <2>2, <2>3, TypeIs, TypeStep DEF Undecided
<1> QED  BY <1>1, <1>2, <1>3

\* What a transition appends and opens is typed.
LEMMA TypeMove ==
  ASSUME TypeOK, NEW to \in Active, NEW on \in Days \cup {NoDay}, Move(to, on),
         app.stage \in Active,
         app' \in [stage : Stages, created : Days \cup {NoDay},
                  applied : Days \cup {NoDay}, outcome : {"none"} \cup Outcomes]
  PROVE  TypeOK'
<1>1. Event(app.stage, to, on, 0) \in EventRow
  BY BoundsAssumption DEF Event, EventRow
<1>2. activity' \in Seq(EventRow)
  BY <1>1, TypeIs, Appended DEF Move
<1>3. open' \in Seq(ActionRow)
  BY OpensDefault DEF Move
<1>4. now' = now /\ decision' = decision /\ rounds' = rounds
  BY DEF Move
<1> QED  BY <1>2, <1>3, <1>4, TypeIs, TypeStep

LEMMA TypeTransitions ==
  ASSUME TypeOK, NEW on \in Days,
         Ready \/ Apply(on) \/ Screen(on) \/ Interview(on) \/ Offer(on)
         \/ \E kind \in Outcomes : Close(kind, on)
  PROVE  TypeOK'
<1>0. app \in [stage : Stages, created : Days \cup {NoDay},
              applied : Days \cup {NoDay}, outcome : {"none"} \cup Outcomes]
  BY TypeIs
<1>1. CASE Ready
  BY <1>0, <1>1, TypeMove DEF Ready, MayMove, Stages, Active
<1>2. CASE Apply(on)
  BY <1>0, <1>2, TypeMove DEF Apply, MayMove, Stages, Active, Submitted
<1>3. ASSUME NEW from \in SUBSET Active, NEW to \in Correctable, Progress(from, to, on)
      PROVE  TypeOK'
  <2>1. to \in Active /\ to \in Stages
    BY DEF Correctable, Active, Submitted, Stages
  <2> QED  BY <1>0, <1>3, <2>1, TypeMove DEF Progress, MayMove
<1>4. CASE Screen(on)
  BY <1>3, <1>4 DEF Screen, Correctable, Active, Submitted
<1>5. CASE Interview(on)
  BY <1>3, <1>5 DEF Interview, Correctable, Active, Submitted
<1>6. CASE Offer(on)
  BY <1>3, <1>6 DEF Offer, Correctable, Active, Submitted
<1>7. ASSUME NEW kind \in Outcomes, Close(kind, on) PROVE TypeOK'
  <2>1. app.stage \in Active
    BY <1>7 DEF Close, MayMove, ClosableFrom, Active, Submitted
  <2>2. Event(app.stage, "closed", on, 0) \in EventRow
    BY <2>1, BoundsAssumption DEF Event, EventRow
  <2>a. activity' = Append(activity, Event(app.stage, "closed", on, 0)) /\ open' = <<>>
    BY <1>7 DEF Close
  <2>b. activity \in Seq(EventRow)
    BY TypeIs
  <2>3. activity' \in Seq(EventRow) /\ open' \in Seq(ActionRow)
    BY <2>2, <2>a, <2>b, Appended
  <2>4. app' \in [stage : Stages, created : Days \cup {NoDay},
                 applied : Days \cup {NoDay}, outcome : {"none"} \cup Outcomes]
    BY <1>0, <1>7 DEF Close, Stages
  <2>5. now' = now /\ decision' = decision /\ rounds' = rounds
    BY <1>7 DEF Close
  <2> QED  BY <2>3, <2>4, <2>5, TypeIs, TypeStep
<1> QED  BY <1>1, <1>2, <1>4, <1>5, <1>6, <1>7

LEMMA TypeRounds ==
  ASSUME TypeOK,
         \/ \E start \in 0 .. MaxTime : Schedule(start)
         \/ \E r \in DOMAIN rounds :
              \/ \E start \in 0 .. MaxTime : Reschedule(r, start)
              \/ \E on \in Days : CompleteRound(r, on)
              \/ CancelRound(r)
  PROVE  TypeOK'
<1>0. /\ app \in [stage : Stages, created : Days \cup {NoDay},
                 applied : Days \cup {NoDay}, outcome : {"none"} \cup Outcomes]
      /\ decision \in Undecided \cup {"pursued"}
      /\ activity \in Seq(EventRow)
      /\ rounds \in Seq(RoundRow)
      /\ Len(rounds) <= MaxRounds
      /\ MaxRounds \in Nat
  BY TypeIs, BoundsAssumption
<1>1. ASSUME NEW start \in 0 .. MaxTime, Schedule(start) PROVE TypeOK'
  <2>1. [status |-> "scheduled", start |-> start, done |-> NoDay] \in RoundRow
    BY DEF RoundRow
  <2>2. rounds' \in Seq(RoundRow) /\ Len(rounds') = Len(rounds) + 1
    BY <1>0, <1>1, <2>1, Appended DEF Schedule
  <2>3. Len(rounds) \in Nat /\ Len(rounds) < MaxRounds
    BY <1>0, <1>1 DEF Schedule
  <2>4. open' \in Seq(ActionRow)
    BY <1>0, <1>1, <2>3, Kinds, Opens DEF Schedule
  <2>5. now' = now /\ decision' = decision /\ app' = app /\ activity' = activity
    BY <1>1 DEF Schedule
  <2>6. Len(rounds') <= MaxRounds
    BY <1>0, <2>2, <2>3
  <2> QED  BY <1>0, <2>2, <2>4, <2>5, <2>6, TypeStep
<1>2. ASSUME NEW r \in DOMAIN rounds PROVE rounds[r] \in RoundRow /\ r \in 0 .. MaxRounds
  BY <1>0
<1>3. ASSUME NEW r \in DOMAIN rounds, NEW start \in 0 .. MaxTime, Reschedule(r, start)
      PROVE  TypeOK'
  <2>1. [rounds[r] EXCEPT !.start = start] \in RoundRow
    BY <1>2 DEF RoundRow
  <2>2. rounds' \in Seq(RoundRow) /\ Len(rounds') = Len(rounds)
    BY <1>0, <1>3, <2>1, Put DEF Reschedule
  <2>3. open' \in Seq(ActionRow)
    BY <1>2, <1>3, Kinds, Opens DEF Reschedule
  <2>4. now' = now /\ decision' = decision /\ app' = app /\ activity' = activity
    BY <1>3 DEF Reschedule
  <2> QED  BY <1>0, <2>2, <2>3, <2>4, TypeStep
<1>4. ASSUME NEW r \in DOMAIN rounds, NEW on \in Days, CompleteRound(r, on) PROVE TypeOK'
  <2>1. [rounds[r] EXCEPT !.status = "completed", !.done = on] \in RoundRow
    BY <1>2 DEF RoundRow
  <2>2. rounds' \in Seq(RoundRow) /\ Len(rounds') = Len(rounds)
    <3>1. rounds' = [rounds EXCEPT ![r] = [rounds[r] EXCEPT !.status = "completed", !.done = on]]
      BY <1>4 DEF CompleteRound
    <3> QED  BY <1>0, <2>1, <3>1, Put
  <2>3. open' \in Seq(ActionRow)
    <3>1. Replace("prepare_interview", 0)
      BY <1>4 DEF CompleteRound
    <3> QED  BY <1>0, <3>1, Kinds, Opens
  <2>4. FirstInterview => Event(app.stage, "interviewing", on, r) \in EventRow
    BY <1>2, BoundsAssumption DEF FirstInterview, Event, EventRow, Active, Submitted
  <2>5. activity' \in Seq(EventRow)
    BY <1>0, <1>4, <2>4, Appended DEF CompleteRound
  <2>6. app' \in [stage : Stages, created : Days \cup {NoDay},
                 applied : Days \cup {NoDay}, outcome : {"none"} \cup Outcomes]
    BY <1>0, <1>4 DEF CompleteRound, Stages, Active, Submitted
  <2>7. now' = now /\ decision' = decision
    BY <1>4 DEF CompleteRound
  <2> QED  BY <1>0, <2>2, <2>3, <2>5, <2>6, <2>7, TypeStep
<1>5. ASSUME NEW r \in DOMAIN rounds, CancelRound(r) PROVE TypeOK'
  <2>1. [rounds[r] EXCEPT !.status = "cancelled"] \in RoundRow
    BY <1>2 DEF RoundRow
  <2>2. rounds' \in Seq(RoundRow) /\ Len(rounds') = Len(rounds)
    BY <1>0, <1>5, <2>1, Put DEF CancelRound
  <2>3. app.stage \in Active
    BY <1>5 DEF CancelRound, RoundOpen, Schedulable, Active, Submitted
  <2>4. open' \in Seq(ActionRow)
    BY <1>5, <2>3, OpensDefault DEF CancelRound
  <2>5. now' = now /\ decision' = decision /\ app' = app /\ activity' = activity
    BY <1>5 DEF CancelRound
  <2> QED  BY <1>0, <2>2, <2>4, <2>5, TypeStep
<1> QED  BY <1>1, <1>3, <1>4, <1>5

LEMMA TypeCorrections ==
  ASSUME TypeOK,
         \/ \E on \in Days, i \in DOMAIN activity : Correct(i, on)
         \/ Tick
         \/ UNCHANGED vars
  PROVE  TypeOK'
<1>1. ASSUME NEW on \in Days, NEW i \in DOMAIN activity, Correct(i, on) PROVE TypeOK'
  <2>1. activity \in Seq(EventRow) /\ activity[i] \in EventRow
    BY TypeIs
  <2>2. Corrected(activity[i], on) \in EventRow
    <3>1. activity[i].fixes < MaxCorrections
      BY <1>1 DEF Correct, RoomForCorrection
    <3> QED  BY <2>1, <3>1, CorrectedIs
  <2>3. activity' \in Seq(EventRow)
    BY <1>1, <2>1, <2>2, Put DEF Correct
  <2>4. UNCHANGED <<now, decision, app, open, rounds>>
    BY <1>1 DEF Correct
  <2> QED  BY <2>3, <2>4, TypeIs, TypeStep
<1>2. CASE Tick
  BY <1>2, BoundsAssumption DEF Tick, TypeOK
<1>3. CASE UNCHANGED vars
  BY <1>3 DEF vars, TypeOK
<1> QED  BY <1>1, <1>2, <1>3

LEMMA TypeNext == TypeOK /\ [Next]_vars => TypeOK'
<1> SUFFICES ASSUME TypeOK, [Next]_vars PROVE TypeOK'
  OBVIOUS
<1>1. 0 \in Days
  BY DayMonotone, BoundsAssumption DEF Days
<1>2. ASSUME NEW on \in Days, \/ Apply(on) \/ Screen(on) \/ Interview(on) \/ Offer(on)
                             \/ \E kind \in Outcomes : Close(kind, on)
      PROVE  TypeOK'
  BY <1>2, TypeTransitions
<1>3. CASE Ready
  BY <1>1, <1>3, TypeTransitions
<1>4. CASE \E on \in Days, i \in DOMAIN activity : Correct(i, on)
  BY <1>4, TypeCorrections
<1>5. CASE \E r \in DOMAIN rounds, on \in Days : CompleteRound(r, on)
  BY <1>5, TypeRounds
<1> QED  BY <1>2, <1>3, <1>4, <1>5, TypeDecisions, TypeRounds, TypeCorrections DEF Next

\* Every row keeps its type, whatever the owner does.
THEOREM TypeCorrect == Spec => []TypeOK
BY TypeInit, TypeNext, PTL DEF Spec

(***************************************************************************)
(* The open action.                                                        *)
(***************************************************************************)
\* What the round commands do to the set of scheduled rounds.
LEMMA ScheduledAfterSchedule ==
  ASSUME TypeOK, NEW start \in 0 .. MaxTime, Schedule(start)
  PROVE  Scheduled' = {Len(rounds) + 1}
<1>1. rounds' = Append(rounds, [status |-> "scheduled", start |-> start, done |-> NoDay])
      /\ Scheduled = {}
  BY DEF Schedule
<1>2. rounds \in Seq(RoundRow)
      /\ [status |-> "scheduled", start |-> start, done |-> NoDay] \in RoundRow
  BY TypeIs DEF RoundRow
<1>3. /\ DOMAIN rounds' = 1 .. (Len(rounds) + 1)
      /\ DOMAIN rounds = 1 .. Len(rounds)
      /\ Len(rounds) \in Nat
      /\ \A i \in DOMAIN rounds : rounds'[i] = rounds[i]
      /\ rounds'[Len(rounds) + 1].status = "scheduled"
  BY <1>1, <1>2, Appended
<1>4. \A i \in DOMAIN rounds : rounds'[i].status # "scheduled"
  BY <1>1, <1>3 DEF Scheduled
<1> QED  BY <1>3, <1>4 DEF Scheduled

LEMMA RoundChanged ==
  ASSUME TypeOK, NEW r \in DOMAIN rounds, NEW row \in RoundRow,
         rounds' = [rounds EXCEPT ![r] = row], Scheduled = {r}
  PROVE  /\ row.status = "scheduled" => Scheduled' = {r}
         /\ row.status # "scheduled" => Scheduled' = {}
         /\ DOMAIN rounds' = DOMAIN rounds
         /\ rounds'[r] = row
         /\ \A q \in DOMAIN rounds : q # r => rounds'[q] = rounds[q]
<1>1. rounds \in Seq(RoundRow)
  BY TypeIs
<1>2. DOMAIN rounds' = DOMAIN rounds /\ rounds'[r] = row
      /\ \A q \in DOMAIN rounds : q # r => rounds'[q] = rounds[q]
  BY <1>1, Put
<1> QED  BY <1>2 DEF Scheduled

\* Such a row is what the events of a round write.
LEMMA RoundEvents ==
  ASSUME TypeOK, NEW r \in DOMAIN rounds
  PROVE  /\ rounds[r] \in RoundRow
         /\ \A start \in 0 .. MaxTime :
              /\ [rounds[r] EXCEPT !.start = start] \in RoundRow
              /\ [rounds[r] EXCEPT !.start = start].status = rounds[r].status
         /\ \A on \in Days :
              /\ [rounds[r] EXCEPT !.status = "completed", !.done = on] \in RoundRow
              /\ [rounds[r] EXCEPT !.status = "completed", !.done = on].status = "completed"
         /\ [rounds[r] EXCEPT !.status = "cancelled"] \in RoundRow
         /\ [rounds[r] EXCEPT !.status = "cancelled"].status = "cancelled"
<1>1. rounds[r] \in RoundRow
  BY TypeIs
<1> QED  BY <1>1 DEF RoundRow

\* A stage that was reached with one default action open, and no round scheduled.
LEMMA DefaultOpen ==
  ASSUME app'.stage \in Active, Replace(ActionKind[app'.stage], 0), Scheduled' = {}
  PROVE  OneOpenAction'
BY OpensDefault DEF OneOpenAction

LEMMA OneOpenActionNext ==
  ASSUME TypeOK, OneOpenAction, [Next]_vars
  PROVE  OneOpenAction'
<1>0. app \in [stage : Stages, created : Days \cup {NoDay},
              applied : Days \cup {NoDay}, outcome : {"none"} \cup Outcomes]
  BY TypeIs
<1>1. ASSUME NEW target \in Undecided, Decide(target) PROVE OneOpenAction'
  BY <1>1 DEF Decide, OneOpenAction, Scheduled
<1>2. CASE Pursue
  <2>1. open' = <<Action(ActionKind["pursuing"], 0)>> /\ app'.stage = "pursuing"
        /\ rounds' = rounds /\ app.stage = "none"
    BY <1>2 DEF Pursue, NoApplication
  <2>2. Scheduled' = {}
    BY <2>1 DEF OneOpenAction, Active, Submitted, Scheduled
  <2> QED  BY <2>1, <2>2 DEF OneOpenAction, Active
<1>3. CASE Undo
  <2>1. open' = <<>> /\ app'.stage = "none" /\ rounds' = <<>>
    BY <1>3 DEF Undo, Undoable, NoApplication
  <2> QED  BY <2>1 DEF OneOpenAction, Active, Submitted, Scheduled
<1>4. ASSUME NEW to \in Active, NEW on, app'.stage = to, Scheduled = {}, Move(to, on)
      PROVE  OneOpenAction'
  <2>1. Scheduled' = {} /\ Replace(ActionKind[to], 0)
    BY <1>4 DEF Move, Scheduled
  <2> QED  BY <1>4, <2>1, DefaultOpen
<1>5. CASE Ready
  BY <1>0, <1>4, <1>5 DEF Ready, MayMove, Active
<1>6. ASSUME NEW on \in Days, Apply(on) PROVE OneOpenAction'
  BY <1>0, <1>4, <1>6 DEF Apply, MayMove, Active, Submitted
<1>7. ASSUME NEW on \in Days, NEW from, NEW to \in Active, Progress(from, to, on)
      PROVE  OneOpenAction'
  BY <1>0, <1>4, <1>7 DEF Progress, MayMove
<1>8. ASSUME NEW on \in Days, Screen(on) \/ Interview(on) \/ Offer(on) PROVE OneOpenAction'
  BY <1>7, <1>8 DEF Screen, Interview, Offer, Active, Submitted
<1>9. ASSUME NEW on \in Days, NEW kind \in Outcomes, Close(kind, on) PROVE OneOpenAction'
  <2>1. open' = <<>> /\ app'.stage = "closed" /\ rounds' = rounds /\ Scheduled = {}
    BY <1>0, <1>9 DEF Close, MayMove
  <2> QED  BY <2>1 DEF OneOpenAction, Active, Submitted, Scheduled
<1>10. ASSUME NEW start \in 0 .. MaxTime, Schedule(start) PROVE OneOpenAction'
  <2>1. Replace("prepare_interview", Len(rounds) + 1) /\ app' = app
        /\ app.stage \in Schedulable
    BY <1>10 DEF Schedule
  <2>2. Len(open') = 1 /\ open'[1] = Action("prepare_interview", Len(rounds) + 1)
    BY <2>1 DEF Replace
  <2> QED  BY <1>10, <2>1, <2>2, ScheduledAfterSchedule
           DEF OneOpenAction, Active, Submitted, Schedulable
<1>11. ASSUME NEW r \in DOMAIN rounds, NEW start \in 0 .. MaxTime, Reschedule(r, start)
       PROVE  OneOpenAction'
  <2>1. /\ rounds' = [rounds EXCEPT ![r] = [rounds[r] EXCEPT !.start = start]]
        /\ Replace("prepare_interview", r) /\ app' = app
        /\ app.stage \in Schedulable /\ Scheduled = {r}
    BY <1>11 DEF Reschedule, RoundOpen
  <2>2. Len(open') = 1 /\ open'[1] = Action("prepare_interview", r)
    BY <2>1 DEF Replace
  <2>3. rounds[r].status = "scheduled"
    BY <2>1 DEF Scheduled
  <2>4. Scheduled' = {r}
    <3>1. PICK row : row = [rounds[r] EXCEPT !.start = start]
      OBVIOUS
    <3>2. row \in RoundRow /\ row.status = "scheduled"
      BY <2>3, <3>1, RoundEvents
    <3> QED  BY <2>1, <3>1, <3>2, RoundChanged
  <2> QED  BY <2>1, <2>2, <2>4 DEF OneOpenAction, Active, Submitted, Schedulable
<1>12. ASSUME NEW r \in DOMAIN rounds, NEW on \in Days, CompleteRound(r, on)
       PROVE  OneOpenAction'
  <2>1. /\ rounds' = [rounds EXCEPT ![r] = [rounds[r] EXCEPT !.status = "completed", !.done = on]]
        /\ Replace("prepare_interview", 0) /\ app'.stage = "interviewing"
        /\ Scheduled = {r}
    BY <1>0, <1>12 DEF CompleteRound, RoundOpen
  <2>2. Scheduled' = {}
    BY <2>1, RoundEvents, RoundChanged
  <2>3. app'.stage \in Active /\ Replace(ActionKind[app'.stage], 0)
    BY <2>1 DEF Active, Submitted, ActionKind
  <2> QED  BY <2>2, <2>3, DefaultOpen
<1>13. ASSUME NEW r \in DOMAIN rounds, CancelRound(r) PROVE OneOpenAction'
  <2>1. /\ rounds' = [rounds EXCEPT ![r] = [rounds[r] EXCEPT !.status = "cancelled"]]
        /\ Replace(ActionKind[app.stage], 0) /\ app' = app
        /\ app.stage \in Schedulable /\ Scheduled = {r}
    BY <1>13 DEF CancelRound, RoundOpen
  <2>2. Scheduled' = {}
    BY <2>1, RoundEvents, RoundChanged
  <2>3. app'.stage \in Active
    BY <2>1 DEF Active, Submitted, Schedulable
  <2> QED  BY <2>1, <2>2, <2>3, DefaultOpen
<1>14. ASSUME NEW on \in Days, NEW i \in DOMAIN activity, Correct(i, on) PROVE OneOpenAction'
  BY <1>14 DEF Correct, OneOpenAction, Scheduled
<1>15. CASE Tick \/ UNCHANGED vars
  BY <1>15 DEF Tick, vars, OneOpenAction, Scheduled
<1> QED
  BY <1>1, <1>2, <1>3, <1>5, <1>6, <1>8, <1>9, <1>10, <1>11, <1>12, <1>13, <1>14, <1>15 DEF Next

\* Today can always show the one thing to do next: what _validate_today_action_graph
\* checks holds after any sequence of transitions, rounds, corrections and undos.
THEOREM OneNextStep == Spec => []OneOpenAction
<1>1. Init => OneOpenAction
  BY DEF Init, OneOpenAction, NoApplication, Scheduled, Active, Submitted
<1>2. TypeOK /\ OneOpenAction /\ [Next]_vars => OneOpenAction'
  BY OneOpenActionNext
<1> QED  BY <1>1, <1>2, TypeCorrect, PTL DEF Spec

(***************************************************************************)
(* The records.                                                            *)
(***************************************************************************)
\* RecordsAgree is inductive together with this: a submitted stage has its submission.
SubmissionRecorded == app.stage \in Submitted => app.applied # NoDay

Records == RecordsAgree /\ SubmissionRecorded

Chain ==
  \A i \in DOMAIN activity :
    activity[i].from = IF i = 1 THEN "none" ELSE activity[i - 1].to

LEMMA RecordsAre ==
  RecordsAgree <=> /\ decision = "pursued" <=> app.stage # "none"
                   /\ app.stage = "none" <=> activity = <<>>
                   /\ Chain
                   /\ activity # <<>> => app.stage = activity[Len(activity)].to
                   /\ app.applied # NoDay <=> "applied" \in Reached
                   /\ app.outcome # "none" <=> "closed" \in Reached
                   /\ rounds # <<>> => "applied" \in Reached
BY DEF RecordsAgree, Chain

\* An event appended to the history of an application continues its chain.
LEMMA ChainGrows ==
  ASSUME TypeOK, RecordsAgree, app.stage # "none", NEW e \in EventRow, e.from = app.stage,
         activity' = Append(activity, e)
  PROVE  /\ Chain'
         /\ activity' # <<>>
         /\ activity'[Len(activity')].to = e.to
         /\ Reached' = Reached \cup {e.to}
         /\ Len(activity') = Len(activity) + 1
         /\ \A i \in DOMAIN activity : activity'[i] = activity[i]
<1>1. activity \in Seq(EventRow)
  BY TypeIs
<1> DEFINE n == Len(activity)
<1>2. n \in Nat /\ DOMAIN activity = 1 .. n
  BY <1>1
<1>3. /\ Len(activity') = n + 1
      /\ DOMAIN activity' = 1 .. (n + 1)
      /\ \A i \in DOMAIN activity : activity'[i] = activity[i]
      /\ activity'[n + 1] = e
  BY <1>1, Appended
<1>4. n >= 1 /\ activity[n].to = app.stage /\ Chain
  <2>1. activity # <<>>
    BY RecordsAre
  <2> QED  BY <1>1, <1>2, <2>1, RecordsAre
<1>5. ASSUME NEW i \in DOMAIN activity'
      PROVE  activity'[i].from = IF i = 1 THEN "none" ELSE activity'[i - 1].to
  <2>1. CASE i = n + 1
    <3>1. n \in DOMAIN activity /\ i - 1 = n /\ i # 1
      BY <1>2, <1>4, <2>1
    <3> QED  BY <1>3, <1>4, <2>1, <3>1
  <2>2. CASE i # n + 1
    <3>1. i \in DOMAIN activity /\ (i # 1 => i - 1 \in DOMAIN activity)
      BY <1>2, <1>3, <2>2
    <3> QED  BY <1>3, <1>4, <3>1 DEF Chain
  <2> QED  BY <2>1, <2>2
<1>6. Chain'
  BY <1>5 DEF Chain
<1>7. Reached' = Reached \cup {e.to}
  BY <1>2, <1>3 DEF Reached
<1>8. activity' # <<>>
  BY <1>2, <1>3
<1> QED  BY <1>3, <1>6, <1>7, <1>8

\* A correction changes no stage of the chain.
LEMMA CorrectionKeepsChain ==
  ASSUME TypeOK, RecordsAgree, NEW i \in DOMAIN activity, NEW on \in Days, Correct(i, on)
  PROVE  /\ activity'[i] = Corrected(activity[i], on)
         /\ \A j \in DOMAIN activity : j # i => activity'[j] = activity[j]
         /\ DOMAIN activity' = DOMAIN activity
         /\ Len(activity') = Len(activity)
         /\ Chain' /\ Reached' = Reached
         /\ activity # <<>> /\ activity' # <<>>
         /\ activity'[Len(activity')].to = activity[Len(activity)].to
<1>1. activity \in Seq(EventRow) /\ activity[i] \in EventRow
      /\ activity' = [activity EXCEPT ![i] = Corrected(activity[i], on)]
      /\ activity[i].fixes < MaxCorrections
  BY TypeIs DEF Correct, RoomForCorrection
<1>2. Corrected(activity[i], on) \in EventRow
      /\ Corrected(activity[i], on).from = activity[i].from
      /\ Corrected(activity[i], on).to = activity[i].to
  BY <1>1, CorrectedIs
<1>3. /\ activity'[i] = Corrected(activity[i], on)
      /\ \A j \in DOMAIN activity : j # i => activity'[j] = activity[j]
      /\ DOMAIN activity' = DOMAIN activity
      /\ Len(activity') = Len(activity)
  BY <1>1, <1>2, Put
<1>4. \A j \in DOMAIN activity : activity'[j].from = activity[j].from
                                /\ activity'[j].to = activity[j].to
  BY <1>2, <1>3
<1>5. Chain
  BY RecordsAre
<1>6. Chain'
  <2>1. \A j \in DOMAIN activity : j # 1 => j - 1 \in DOMAIN activity
    BY <1>1
  <2> QED  BY <1>3, <1>4, <1>5, <2>1 DEF Chain
<1>7. Reached' = Reached
  BY <1>3, <1>4 DEF Reached
<1>8. activity # <<>> /\ activity' # <<>> /\ Len(activity) \in DOMAIN activity
  BY <1>1, <1>3
<1> QED  BY <1>3, <1>4, <1>6, <1>7, <1>8

\* An application that moves on appends one event and keeps its submission.
LEMMA RecordsMove ==
  ASSUME TypeOK, Records, NEW to \in {"closed"} \cup Active, NEW e \in EventRow,
         e.from = app.stage, e.to = to, app.stage \in Active,
         activity' = Append(activity, e), decision' = decision,
         app'.stage = to, to \in Submitted => app'.applied # NoDay,
         app'.applied # NoDay <=> app.applied # NoDay \/ to = "applied",
         app'.outcome # "none" <=> app.outcome # "none" \/ to = "closed",
         rounds' # <<>> => rounds # <<>> \/ "applied" \in Reached
  PROVE  Records'
<1>1. app.stage # "none" /\ to # "none"
  BY DEF Active, Submitted
<1>2. Chain' /\ activity' # <<>> /\ activity'[Len(activity')].to = to
      /\ Reached' = Reached \cup {to}
  BY <1>1, ChainGrows DEF Records
<1>3. RecordsAgree'
  BY <1>1, <1>2, RecordsAre DEF Records, RecordsAgree, Chain
<1> QED  BY <1>3 DEF Records, SubmissionRecorded

LEMMA RecordsKept ==
  ASSUME TypeOK, Records, UNCHANGED <<app, activity>>,
         decision' = "pursued" <=> decision = "pursued",
         rounds' # <<>> => rounds # <<>> \/ "applied" \in Reached
  PROVE  Records'
BY DEF Records, RecordsAgree, SubmissionRecorded, Reached

LEMMA RecordsNext ==
  ASSUME TypeOK, Records, [Next]_vars
  PROVE  Records'
<1>0. app \in [stage : Stages, created : Days \cup {NoDay},
              applied : Days \cup {NoDay}, outcome : {"none"} \cup Outcomes]
      /\ Days \subseteq Nat
  BY TypeIs, DayMonotone, BoundsAssumption DEF Days
<1>a. ASSUME app.stage \in Active, NEW to \in {"closed"} \cup Active,
             NEW on \in Days \cup {NoDay}, NEW round \in 0 .. MaxRounds
      PROVE  /\ Event(app.stage, to, on, round) \in EventRow
             /\ Event(app.stage, to, on, round).from = app.stage
             /\ Event(app.stage, to, on, round).to = to
  BY <1>a, BoundsAssumption DEF Event, EventRow
<1>1. ASSUME NEW target \in Undecided, Decide(target) PROVE Records'
  <2>1. UNCHANGED <<app, activity, rounds>> /\ decision # "pursued" /\ decision' # "pursued"
    BY <1>1 DEF Decide, Undecided
  <2> QED  BY <2>1, RecordsKept
<1>2. CASE Pursue
  <2>1. /\ app.stage = "none" /\ decision' = "pursued"
        /\ app'.stage = "pursuing" /\ app'.applied = NoDay /\ app'.outcome = "none"
        /\ activity' = <<Event("none", "pursuing", NoDay, 0)>> /\ rounds' = rounds
    BY <1>2 DEF Pursue, NoApplication
  <2>2. activity = <<>> /\ rounds = <<>>
    BY <2>1 DEF Records, RecordsAgree, Reached
  <2>3. /\ activity' # <<>> /\ Len(activity') = 1 /\ DOMAIN activity' = {1}
        /\ activity'[1].from = "none" /\ activity'[1].to = "pursuing"
    BY <2>1 DEF Event
  <2>4. Chain' /\ Reached' = {"pursuing"}
    BY <2>3 DEF Chain, Reached
  <2> QED
    BY <2>1, <2>2, <2>3, <2>4 DEF Records, RecordsAgree, Chain, SubmissionRecorded, Submitted
<1>3. CASE Undo
  <2>1. /\ app'.stage = "none" /\ decision' = "inbox" /\ app'.applied = NoDay
        /\ app'.outcome = "none" /\ activity' = <<>> /\ rounds' = <<>>
    BY <1>3 DEF Undo, Undoable, NoApplication
  <2>2. Chain' /\ Reached' = {}
    BY <2>1 DEF Chain, Reached
  <2> QED
    BY <2>1, <2>2 DEF Records, RecordsAgree, Chain, SubmissionRecorded, Submitted
<1>4. ASSUME NEW to \in Active, NEW on \in Days \cup {NoDay}, Move(to, on),
             app.stage \in Active, app'.stage = to, app'.outcome = app.outcome,
             to \in Submitted => app'.applied # NoDay,
             app'.applied # NoDay <=> app.applied # NoDay \/ to = "applied"
      PROVE  Records'
  <2>1. activity' = Append(activity, Event(app.stage, to, on, 0))
        /\ decision' = decision /\ rounds' = rounds
    BY <1>4 DEF Move
  <2>2. to # "closed" /\ 0 \in 0 .. MaxRounds
    BY BoundsAssumption DEF Active, Submitted
  <2> QED  BY <1>4, <1>a, <2>1, <2>2, RecordsMove
<1>5. CASE Ready
  <2>1. /\ Move("ready_to_apply", NoDay) /\ app.stage \in Active
        /\ app'.stage = "ready_to_apply" /\ app'.outcome = app.outcome
        /\ app'.applied = app.applied
    BY <1>0, <1>5 DEF Ready, MayMove, Active
  <2> QED  BY <1>4, <2>1 DEF Active, Submitted
<1>6. ASSUME NEW on \in Days, Apply(on) PROVE Records'
  <2>1. /\ Move("applied", NoDay) /\ app.stage \in Active
        /\ app'.stage = "applied" /\ app'.outcome = app.outcome
        /\ app'.applied # NoDay
    BY <1>0, <1>6 DEF Apply, MayMove, Active, NoDay
  <2> QED  BY <1>4, <2>1 DEF Active, Submitted
<1>7. ASSUME NEW on \in Days, NEW from \in SUBSET Active, NEW to \in Correctable,
             Progress(from, to, on)
      PROVE  Records'
  <2>1. /\ Move(to, on) /\ app.stage \in Active
        /\ app'.stage = to /\ app'.outcome = app.outcome
        /\ app'.applied = app.applied /\ app.applied # NoDay
    BY <1>0, <1>7 DEF Progress, MayMove
  <2> QED  BY <1>4, <2>1 DEF Correctable, Active, Submitted
<1>8. ASSUME NEW on \in Days, Screen(on) \/ Interview(on) \/ Offer(on) PROVE Records'
  BY <1>7, <1>8 DEF Screen, Interview, Offer, Correctable, Active, Submitted
<1>9. ASSUME NEW on \in Days, NEW kind \in Outcomes, Close(kind, on) PROVE Records'
  <2>1. /\ app'.stage = "closed" /\ app'.outcome = kind /\ app'.applied = app.applied
        /\ activity' = Append(activity, Event(app.stage, "closed", on, 0))
        /\ decision' = decision /\ rounds' = rounds
    BY <1>0, <1>9 DEF Close
  <2>2. app.stage \in Active
    BY <1>9 DEF Close, MayMove, ClosableFrom, Active, Submitted
  <2>3. kind # "none"
    BY DEF Outcomes
  <2>4. 0 \in 0 .. MaxRounds /\ "closed" \notin Submitted
    BY BoundsAssumption DEF Submitted
  <2> QED  BY <1>a, <2>1, <2>2, <2>3, <2>4, RecordsMove
<1>b. app.stage \in Schedulable => "applied" \in Reached /\ app.applied # NoDay
                                   /\ app.stage \in Active
  BY DEF Records, RecordsAgree, SubmissionRecorded, Schedulable, Submitted, Active
<1>10. ASSUME NEW start \in 0 .. MaxTime, Schedule(start) PROVE Records'
  BY <1>b, <1>10, RecordsKept DEF Schedule
<1>11. ASSUME NEW r \in DOMAIN rounds, NEW start \in 0 .. MaxTime, Reschedule(r, start)
       PROVE  Records'
  BY <1>b, <1>11, RecordsKept DEF Reschedule, RoundOpen
<1>12. ASSUME NEW r \in DOMAIN rounds, NEW on \in Days, CompleteRound(r, on)
       PROVE  Records'
  <2>1. /\ app.stage \in Schedulable
        /\ app'.stage = "interviewing" /\ app'.applied = app.applied
        /\ app'.outcome = app.outcome /\ decision' = decision
        /\ activity' = IF FirstInterview
                         THEN Append(activity, Event(app.stage, "interviewing", on, r))
                         ELSE activity
    BY <1>0, <1>12 DEF CompleteRound, RoundOpen
  <2>2. CASE FirstInterview
    <3>1. r \in 0 .. MaxRounds
      BY TypeIs, BoundsAssumption
    <3>2. "interviewing" \in Active
      BY DEF Active, Submitted
    <3> QED  BY <1>a, <1>b, <2>1, <2>2, <3>1, <3>2, RecordsMove
  <2>3. CASE ~FirstInterview
    <3>1. app.stage = "interviewing"
      BY <2>1, <2>3 DEF FirstInterview, Schedulable
    <3>2. app'.stage = app.stage /\ activity' = activity
      BY <2>1, <2>3, <3>1
    <3> QED
      BY <1>b, <2>1, <3>2 DEF Records, RecordsAgree, SubmissionRecorded, Reached
  <2> QED  BY <2>2, <2>3
<1>13. ASSUME NEW r \in DOMAIN rounds, CancelRound(r) PROVE Records'
  BY <1>b, <1>13, RecordsKept DEF CancelRound, RoundOpen
<1>14. ASSUME NEW on \in Days, NEW i \in DOMAIN activity, Correct(i, on) PROVE Records'
  <2>1. UNCHANGED <<decision, app, rounds>>
    BY <1>14 DEF Correct
  <2>2. Chain' /\ Reached' = Reached /\ activity # <<>> /\ activity' # <<>>
        /\ activity'[Len(activity')].to = activity[Len(activity)].to
    BY <1>14, CorrectionKeepsChain DEF Records
  <2> QED  BY <2>1, <2>2 DEF Records, RecordsAgree, Chain, SubmissionRecorded
<1>15. CASE Tick \/ UNCHANGED vars
  BY <1>15, RecordsKept DEF Tick, vars
<1> QED
  BY <1>1, <1>2, <1>3, <1>5, <1>6, <1>8, <1>9, <1>10, <1>11, <1>12, <1>13, <1>14, <1>15 DEF Next

LEMMA RecordsInit == Init => Records
BY DEF Init, NoApplication, Records, RecordsAgree, SubmissionRecorded, Reached, Submitted

LEMMA RecordsAlways == Spec => [](TypeOK /\ Records)
BY RecordsInit, RecordsNext, TypeCorrect, PTL DEF Spec

\* The decision, the stage, the activity, the submission, the outcome and the rounds
\* tell one story after any sequence of commands and corrections.
THEOREM OneStory == Spec => []RecordsAgree
BY RecordsAlways, PTL DEF Records

(***************************************************************************)
(* The history.                                                            *)
(***************************************************************************)
\* An application with an outcome is closed: nothing in a chain follows the closing.
LEMMA OutcomeCloses ==
  ASSUME TypeOK, Records, app.outcome # "none"
  PROVE  app.stage = "closed"
<1>1. activity \in Seq(EventRow) /\ Chain
  BY TypeIs, RecordsAre DEF Records
<1>2. PICK i \in DOMAIN activity : activity[i].to = "closed"
  BY DEF Records, RecordsAgree, Reached
<1>3. i \in 1 .. Len(activity) /\ Len(activity) \in Nat
  BY <1>1
<1>4. CASE i = Len(activity)
  <2>1. activity # <<>>
    BY <1>1, <1>3
  <2> QED  BY <1>2, <1>4, <2>1 DEF Records, RecordsAgree
<1>5. CASE i # Len(activity)
  <2>1. i + 1 \in DOMAIN activity /\ i + 1 # 1 /\ (i + 1) - 1 = i
    BY <1>1, <1>3, <1>5
  <2>2. activity[i + 1].from = "closed"
    BY <1>1, <1>2, <2>1 DEF Chain
  <2>3. activity[i + 1] \in EventRow
    BY <1>1, <2>1
  <2> QED  BY <2>2, <2>3 DEF EventRow, Active, Submitted
<1> QED  BY <1>4, <1>5

\* A step that touches no event, no stage and no completed round.
LEMMA HistoryUntouched ==
  ASSUME TypeOK, UNCHANGED <<app, activity>>,
         \A r \in Completed : rounds'[r] = rounds[r]
  PROVE  HistoryKept
<1>1. app.stage \in Stages /\ Len(activity) \in Nat
  BY TypeIs
<1>2. Rank[app.stage] \in Nat
  BY <1>1 DEF Rank, Stages, Active, Submitted
<1> QED  BY <1>1, <1>2 DEF HistoryKept

\* A step that appends one event and raises the stage of an application without outcome.
LEMMA HistoryGrows ==
  ASSUME TypeOK, NEW e \in EventRow, activity' = Append(activity, e),
         app'.applied = app.applied, app.outcome = "none",
         Rank[app'.stage] >= Rank[app.stage],
         \A r \in Completed : rounds'[r] = rounds[r]
  PROVE  HistoryKept
<1>1. activity \in Seq(EventRow) /\ Len(activity) \in Nat
  BY TypeIs
<1>2. Len(activity') = Len(activity) + 1 /\ \A i \in DOMAIN activity : activity'[i] = activity[i]
  BY <1>1, Appended
<1> QED  BY <1>1, <1>2 DEF HistoryKept

LEMMA HistoryStep ==
  ASSUME TypeOK, Records, [Next]_vars, app.applied # NoDay \/ app.outcome # "none"
  PROVE  HistoryKept
<1>0. app \in [stage : Stages, created : Days \cup {NoDay},
              applied : Days \cup {NoDay}, outcome : {"none"} \cup Outcomes]
      /\ rounds \in Seq(RoundRow)
  BY TypeIs
<1>a. ASSUME app.stage \in Active PROVE app.outcome = "none"
  BY <1>a, OutcomeCloses DEF Active, Submitted
<1>b. ASSUME app.stage \in Active, NEW to \in {"closed"} \cup Active,
             NEW on \in Days \cup {NoDay}, NEW round \in 0 .. MaxRounds
      PROVE  Event(app.stage, to, on, round) \in EventRow
  BY <1>b, BoundsAssumption DEF Event, EventRow
<1>c. 0 \in 0 .. MaxRounds
  BY BoundsAssumption
<1>1. ASSUME NEW target \in Undecided, Decide(target) PROVE HistoryKept
  BY <1>1, HistoryUntouched DEF Decide
<1>2. CASE Pursue
  <2>1. activity = <<>>
    BY <1>2 DEF Pursue, Records, RecordsAgree
  <2> QED  BY <2>1 DEF Records, RecordsAgree, Reached
<1>3. CASE Undo
  BY <1>3 DEF Undo, Undoable
<1>4. ASSUME NEW to \in Active, NEW on \in Days \cup {NoDay}, Move(to, on),
             app.stage \in Active, app'.applied = app.applied,
             Rank[app'.stage] >= Rank[app.stage]
      PROVE  HistoryKept
  <2>1. activity' = Append(activity, Event(app.stage, to, on, 0)) /\ rounds' = rounds
    BY <1>4 DEF Move
  <2> QED  BY <1>4, <1>a, <1>b, <1>c, <2>1, HistoryGrows
<1>5. CASE Ready
  <2>1. /\ Move("ready_to_apply", NoDay) /\ app.stage = "pursuing"
        /\ app'.stage = "ready_to_apply" /\ app'.applied = app.applied
    BY <1>0, <1>5 DEF Ready, MayMove
  <2> QED  BY <1>4, <2>1 DEF Active, Rank
<1>6. ASSUME NEW on \in Days, Apply(on) PROVE HistoryKept
  <2>1. app.stage \in Active /\ app.applied = NoDay
    BY <1>6 DEF Apply, MayMove, Active
  <2> QED  BY <1>a, <2>1
<1>7. ASSUME NEW on \in Days, NEW from \in SUBSET Active, NEW to \in Active,
             \A stage \in from : Rank[to] >= Rank[stage], Progress(from, to, on)
      PROVE  HistoryKept
  <2>1. /\ Move(to, on) /\ app.stage \in from
        /\ app'.stage = to /\ app'.applied = app.applied
    BY <1>0, <1>7 DEF Progress, MayMove
  <2> QED  BY <1>4, <1>7, <2>1
<1>8. ASSUME NEW on \in Days, Screen(on) \/ Interview(on) \/ Offer(on) PROVE HistoryKept
  <2>1. {"applied"} \in SUBSET Active /\ "screening" \in Active
        /\ \A stage \in {"applied"} : Rank["screening"] >= Rank[stage]
    BY DEF Active, Submitted, Rank
  <2>2. {"applied", "screening"} \in SUBSET Active /\ "interviewing" \in Active
        /\ \A stage \in {"applied", "screening"} : Rank["interviewing"] >= Rank[stage]
    BY DEF Active, Submitted, Rank
  <2>3. {"applied", "screening", "interviewing"} \in SUBSET Active /\ "offer" \in Active
        /\ \A stage \in {"applied", "screening", "interviewing"} : Rank["offer"] >= Rank[stage]
    BY DEF Active, Submitted, Rank
  <2> QED  BY <1>7, <1>8, <2>1, <2>2, <2>3 DEF Screen, Interview, Offer
<1>9. ASSUME NEW on \in Days, NEW kind \in Outcomes, Close(kind, on) PROVE HistoryKept
  <2>1. /\ app'.stage = "closed" /\ app'.applied = app.applied /\ app.outcome = "none"
        /\ activity' = Append(activity, Event(app.stage, "closed", on, 0))
        /\ rounds' = rounds
    BY <1>0, <1>9 DEF Close
  <2>2. app.stage \in Active
    BY <1>9 DEF Close, MayMove, ClosableFrom, Active, Submitted
  <2>3. Rank[app'.stage] >= Rank[app.stage]
    BY <2>1, <2>2 DEF Rank, Active, Submitted
  <2> QED  BY <1>b, <1>c, <2>1, <2>2, <2>3, HistoryGrows
<1>10. ASSUME NEW start \in 0 .. MaxTime, Schedule(start) PROVE HistoryKept
  <2>1. UNCHANGED <<app, activity>>
        /\ rounds' = Append(rounds, [status |-> "scheduled", start |-> start, done |-> NoDay])
    BY <1>10 DEF Schedule
  <2>2. [status |-> "scheduled", start |-> start, done |-> NoDay] \in RoundRow
    BY DEF RoundRow
  <2>3. \A r \in DOMAIN rounds : rounds'[r] = rounds[r]
    BY <1>0, <2>1, <2>2, Appended
  <2> QED  BY <2>1, <2>3, HistoryUntouched DEF Completed
<1>d. ASSUME NEW r \in DOMAIN rounds, RoundOpen(r), NEW row \in RoundRow,
             rounds' = [rounds EXCEPT ![r] = row]
      PROVE  \A q \in Completed : rounds'[q] = rounds[q]
  <2>1. r \in Scheduled
    BY <1>d DEF RoundOpen
  <2>2. r \notin Completed
    BY <2>1 DEF Scheduled, Completed
  <2>3. \A q \in DOMAIN rounds : q # r => rounds'[q] = rounds[q]
    BY <1>0, <1>d, Put
  <2> QED  BY <2>2, <2>3 DEF Completed
<1>11. ASSUME NEW r \in DOMAIN rounds, NEW start \in 0 .. MaxTime, Reschedule(r, start)
       PROVE  HistoryKept
  <2>1. /\ RoundOpen(r) /\ UNCHANGED <<app, activity>>
        /\ rounds' = [rounds EXCEPT ![r] = [rounds[r] EXCEPT !.start = start]]
    BY <1>11 DEF Reschedule
  <2>2. PICK row : row = [rounds[r] EXCEPT !.start = start]
    OBVIOUS
  <2>3. row \in RoundRow
    BY <2>2, RoundEvents
  <2> QED  BY <1>d, <2>1, <2>2, <2>3, HistoryUntouched
<1>12. ASSUME NEW r \in DOMAIN rounds, NEW on \in Days, CompleteRound(r, on)
       PROVE  HistoryKept
  <2>1. /\ RoundOpen(r) /\ app'.stage = "interviewing" /\ app'.applied = app.applied
        /\ app' = [app EXCEPT !.stage = "interviewing"]
        /\ rounds' = [rounds EXCEPT ![r] = [rounds[r] EXCEPT !.status = "completed", !.done = on]]
        /\ activity' = IF FirstInterview
                         THEN Append(activity, Event(app.stage, "interviewing", on, r))
                         ELSE activity
    BY <1>0, <1>12 DEF CompleteRound
  <2>2. PICK row : row = [rounds[r] EXCEPT !.status = "completed", !.done = on]
    OBVIOUS
  <2>3. row \in RoundRow
    BY <2>2, RoundEvents
  <2>4. \A q \in Completed : rounds'[q] = rounds[q]
    BY <1>d, <2>1, <2>2, <2>3
  <2>5. app.stage \in Schedulable /\ app.outcome = "none"
    BY <2>1 DEF RoundOpen
  <2>6. CASE FirstInterview
    <3>1. app.stage \in Active /\ "interviewing" \in Active /\ r \in 0 .. MaxRounds
          /\ Rank[app'.stage] >= Rank[app.stage]
      <4>1. app.stage \in Active /\ "interviewing" \in Active
        BY <2>5 DEF Schedulable, Active, Submitted
      <4>2. r \in 0 .. MaxRounds
        BY TypeIs, BoundsAssumption
      <4>3. Rank[app'.stage] >= Rank[app.stage]
        BY <2>1, <2>5 DEF Schedulable, Rank
      <4> QED  BY <4>1, <4>2, <4>3
    <3> QED  BY <1>b, <2>1, <2>4, <2>5, <2>6, <3>1, HistoryGrows
  <2>7. CASE ~FirstInterview
    <3>1. app.stage = "interviewing"
      BY <2>5, <2>7 DEF FirstInterview, Schedulable
    <3>2. app' = app /\ activity' = activity
      BY <1>0, <2>1, <2>7, <3>1
    <3> QED  BY <2>4, <3>2, HistoryUntouched
  <2> QED  BY <2>6, <2>7
<1>13. ASSUME NEW r \in DOMAIN rounds, CancelRound(r) PROVE HistoryKept
  <2>1. /\ RoundOpen(r) /\ UNCHANGED <<app, activity>>
        /\ rounds' = [rounds EXCEPT ![r] = [rounds[r] EXCEPT !.status = "cancelled"]]
    BY <1>13 DEF CancelRound
  <2>2. PICK row : row = [rounds[r] EXCEPT !.status = "cancelled"]
    OBVIOUS
  <2>3. row \in RoundRow
    BY <2>2, RoundEvents
  <2> QED  BY <1>d, <2>1, <2>2, <2>3, HistoryUntouched
<1>14. ASSUME NEW on \in Days, NEW i \in DOMAIN activity, Correct(i, on) PROVE HistoryKept
  <2>1. app' = app /\ rounds' = rounds /\ activity[i].round = 0
    BY <1>14 DEF Correct, CorrectableEvents
  <2>2. /\ activity'[i] = Corrected(activity[i], on)
        /\ \A j \in DOMAIN activity : j # i => activity'[j] = activity[j]
        /\ Len(activity') = Len(activity)
    BY <1>14, CorrectionKeepsChain DEF Records
  <2>3. Len(activity) \in Nat /\ Rank[app.stage] \in Nat
    BY <1>0, TypeIs DEF Rank, Stages, Active, Submitted
  <2> QED  BY <2>1, <2>2, <2>3 DEF HistoryKept
<1>15. CASE Tick \/ UNCHANGED vars
  BY <1>15, HistoryUntouched DEF Tick, vars
<1> QED
  BY <1>1, <1>2, <1>3, <1>5, <1>6, <1>8, <1>9, <1>10, <1>11, <1>12, <1>13, <1>14, <1>15 DEF Next

\* Once an application was submitted or ended, no later command takes back its stage,
\* submission, outcome, events or completed rounds; a correction redates one event.
THEOREM HistoryImmutable == Spec => ImmutableHistoryWins
<1>1. TypeOK /\ Records /\ [Next]_vars
        => [app.applied # NoDay \/ app.outcome # "none" => HistoryKept]_vars
  BY HistoryStep
<1> QED  BY <1>1, RecordsAlways, PTL DEF Spec, ImmutableHistoryWins

(***************************************************************************)
(* The dates.  What is required of them is stated of any events and rounds *)
(* and any submission and day, so that a command that changes several can  *)
(* be taken apart.                                                         *)
(***************************************************************************)
DatedIn(acts) == {i \in DOMAIN acts : acts[i].on # NoDay}

DoneIn(rows) == {q \in DOMAIN rows : rows[q].status = "completed"}

\* Stages climb, only milestones and the end have dates, and milestones follow a submission.
Climbing(acts, applied) ==
  /\ \A i, j \in DOMAIN acts : i < j => Rank[acts[i].to] < Rank[acts[j].to]
  /\ \A i \in DatedIn(acts) : acts[i].to \in Correctable \cup {"closed"}
  /\ \A i \in DOMAIN acts : acts[i].to \in Correctable => applied # NoDay

\* Dates lie between the submission and today, and what is scheduled lies after the submission.
Bounded(acts, rows, applied, today) ==
  /\ applied <= today
  /\ \A i \in DatedIn(acts) : applied <= acts[i].on /\ acts[i].on <= today
  /\ \A q \in DoneIn(rows) : applied <= rows[q].done /\ rows[q].done <= today
  /\ \A q \in DOMAIN rows : rows[q].status = "scheduled" => applied <= Day(rows[q].start)

Ordered(acts) ==
  \A i, j \in DatedIn(acts) : i < j /\ acts[j].round = 0 => acts[i].on <= acts[j].on

\* An offer and the end come after every completed round; a linked event is its round's.
Linked(acts, rows) ==
  /\ \A i \in DatedIn(acts), q \in DoneIn(rows) :
       acts[i].to \in {"offer", "closed"} => rows[q].done <= acts[i].on
  /\ \A i \in DatedIn(acts) : acts[i].round # 0 =>
       /\ acts[i].round \in DoneIn(rows) /\ acts[i].on = rows[acts[i].round].done
       /\ acts[i].to = "interviewing"

DatesIn(acts, rows, applied, today) ==
  /\ Climbing(acts, applied) /\ Bounded(acts, rows, applied, today)
  /\ Ordered(acts) /\ Linked(acts, rows)

Dates == DatesIn(activity, rounds, app.applied, Today)

LEMMA Ranks ==
  /\ \A s \in {"closed"} \cup Active : Rank[s] \in Nat
  /\ Rank["screening"] = 4 /\ Rank["interviewing"] = 5 /\ Rank["offer"] = 6 /\ Rank["closed"] = 7
BY DEF Rank, Active, Submitted

\* What is known of any row.
LEMMA EventTyped ==
  ASSUME Days \subseteq Int, NEW e \in EventRow
  PROVE  e.on \in Int /\ e.round \in Nat /\ e.to \in {"closed"} \cup Active
<1>1. e.on \in Days \cup {NoDay} /\ e.round \in 0 .. MaxRounds /\ e.to \in {"closed"} \cup Active
  BY DEF EventRow
<1>2. NoDay \in Int /\ Days \cup {NoDay} \subseteq Int /\ 0 .. MaxRounds \subseteq Nat
  BY BoundsAssumption DEF NoDay
<1> QED BY <1>1, <1>2

LEMMA RoundTyped ==
  ASSUME Days \subseteq Int, NEW row \in RoundRow
  PROVE  row.start \in Nat /\ Day(row.start) \in Int /\ row.done \in Int
<1>1. row.done \in Days \cup {NoDay} /\ row.start \in 0 .. MaxTime
  BY DEF RoundRow
<1>2. NoDay \in Int /\ Days \cup {NoDay} \subseteq Int /\ 0 .. MaxTime \subseteq Nat
  BY BoundsAssumption DEF NoDay
<1>3. row.start \in Nat /\ row.done \in Int
  BY <1>1, <1>2
<1> QED BY <1>3, DayMonotone

LEMMA DatesTyped ==
  ASSUME TypeOK
  PROVE  /\ activity \in Seq(EventRow) /\ rounds \in Seq(RoundRow)
         /\ app.applied \in Int /\ Today \in Int /\ now \in Nat
         /\ Days \subseteq Int /\ NoDay \in Int
<1>1. now \in 0 .. MaxTime /\ MaxTime \in Nat
  BY BoundsAssumption DEF TypeOK
<1>2. Today \in Int /\ Days \subseteq Int /\ NoDay \in Int
  BY <1>1, TodayIsADay DEF NoDay
<1>3. app.applied \in Int
  BY <1>2, TypeIs
<1> QED  BY <1>1, <1>2, <1>3, TypeIs

\* A later day.
LEMMA TimeKeepsDates ==
  ASSUME NEW acts \in Seq(EventRow), NEW rows \in Seq(RoundRow), NEW applied \in Int,
         NEW today \in Int, NEW later \in Int, today <= later, Days \subseteq Int,
         DatesIn(acts, rows, applied, today)
  PROVE  DatesIn(acts, rows, applied, later)
<1>1. /\ \A i \in DatedIn(acts) : acts[i].on \in Int
      /\ \A q \in DoneIn(rows) : rows[q].done \in Int
  BY EventTyped, RoundTyped DEF DatedIn, DoneIn
<1> QED  BY <1>1 DEF DatesIn, Bounded

\* An event that is appended: what it must satisfy.
LEMMA EventKeepsDates ==
  ASSUME NEW acts \in Seq(EventRow), NEW rows \in Seq(RoundRow), NEW applied \in Int,
         NEW today \in Int, DatesIn(acts, rows, applied, today), NEW e \in EventRow,
         \A i \in DOMAIN acts : Rank[acts[i].to] < Rank[e.to],
         e.to \in Correctable => applied # NoDay,
         e.on # NoDay =>
           /\ e.to \in Correctable \cup {"closed"}
           /\ applied <= e.on /\ e.on <= today
           /\ e.round = 0 => \A i \in DatedIn(acts) : acts[i].on <= e.on
           /\ e.to \in {"offer", "closed"} => \A q \in DoneIn(rows) : rows[q].done <= e.on
           /\ e.round # 0 => /\ e.round \in DoneIn(rows) /\ e.on = rows[e.round].done
                             /\ e.to = "interviewing"
  PROVE  DatesIn(Append(acts, e), rows, applied, today)
<1> DEFINE new == Append(acts, e)
           n   == Len(acts) + 1
<1>1. /\ DOMAIN new = 1 .. n /\ DOMAIN acts = 1 .. (n - 1) /\ n \in Nat
      /\ \A i \in DOMAIN acts : i < n /\ new[i] = acts[i]
      /\ new[n] = e
  BY Appended
<1> HIDE DEF new, n
<1>2. \A i \in DatedIn(new) : (i \in DatedIn(acts) /\ i < n) \/ (i = n /\ e.on # NoDay)
  BY <1>1 DEF DatedIn
<1>3. Climbing(new, applied)
  <2>1. ASSUME NEW i \in DOMAIN new, NEW j \in DOMAIN new, i < j
        PROVE  Rank[new[i].to] < Rank[new[j].to]
    <3>1. i \in DOMAIN acts
      BY <1>1, <2>1
    <3>2. CASE j = n
      BY <1>1, <3>1, <3>2
    <3>3. CASE j # n
      <4>1. j \in DOMAIN acts
        BY <1>1, <3>3
      <4> QED BY <1>1, <2>1, <3>1, <4>1 DEF DatesIn, Climbing
    <3> QED BY <3>2, <3>3
  <2>2. \A i \in DatedIn(new) : new[i].to \in Correctable \cup {"closed"}
    BY <1>1, <1>2 DEF DatesIn, Climbing, DatedIn
  <2>3. \A i \in DOMAIN new : new[i].to \in Correctable => applied # NoDay
    BY <1>1 DEF DatesIn, Climbing
  <2> QED BY <2>1, <2>2, <2>3 DEF Climbing
<1>4. Bounded(new, rows, applied, today)
  BY <1>1, <1>2 DEF DatesIn, Bounded, DatedIn
<1>5. Ordered(new)
  <2> SUFFICES ASSUME NEW i \in DatedIn(new), NEW j \in DatedIn(new), i < j, new[j].round = 0
               PROVE  new[i].on <= new[j].on
    BY DEF Ordered
  <2>1. i \in DatedIn(acts) /\ new[i] = acts[i]
    BY <1>1, <1>2 DEF DatedIn
  <2>2. CASE j = n
    BY <1>1, <1>2, <2>1, <2>2
  <2>3. CASE j # n
    BY <1>1, <1>2, <2>1, <2>3 DEF DatesIn, Ordered, DatedIn
  <2> QED BY <2>2, <2>3
<1>6. Linked(new, rows)
  <2>1. ASSUME NEW i \in DatedIn(new)
        PROVE  /\ \A q \in DoneIn(rows) :
                    new[i].to \in {"offer", "closed"} => rows[q].done <= new[i].on
               /\ new[i].round # 0 => /\ new[i].round \in DoneIn(rows)
                                      /\ new[i].on = rows[new[i].round].done
                                      /\ new[i].to = "interviewing"
    <3>1. CASE i = n
      BY <1>1, <1>2, <3>1
    <3>2. CASE i # n
      BY <1>1, <1>2, <3>2 DEF DatesIn, Linked, DatedIn
    <3> QED BY <3>1, <3>2
  <2> QED BY <2>1 DEF Linked
<1> QED BY <1>3, <1>4, <1>5, <1>6 DEF DatesIn, new

\* Rounds that change: what ended stays, and what is new fits.
LEMMA RoundsKeepDates ==
  ASSUME NEW acts \in Seq(EventRow), NEW rows \in Seq(RoundRow), NEW new \in Seq(RoundRow),
         NEW applied \in Int, NEW today \in Int, DatesIn(acts, rows, applied, today),
         \A q \in DoneIn(rows) : q \in DoneIn(new) /\ new[q].done = rows[q].done,
         \A q \in DoneIn(new) \ DoneIn(rows) :
           /\ applied <= new[q].done /\ new[q].done <= today
           /\ \A i \in DatedIn(acts) : acts[i].to \notin {"offer", "closed"},
         \A q \in DOMAIN new : new[q].status = "scheduled" => applied <= Day(new[q].start)
  PROVE  DatesIn(acts, new, applied, today)
<1>1. Bounded(acts, new, applied, today)
  <2>1. \A q \in DoneIn(new) : applied <= new[q].done /\ new[q].done <= today
    BY DEF DatesIn, Bounded
  <2> QED BY <2>1 DEF DatesIn, Bounded
<1>2. Linked(acts, new)
  BY DEF DatesIn, Linked
<1> QED BY <1>1, <1>2 DEF DatesIn

\* A corrected date that lies in its window.
LEMMA CorrectionKeepsDates ==
  ASSUME NEW acts \in Seq(EventRow), NEW rows \in Seq(RoundRow), NEW applied \in Int,
         NEW today \in Int, Days \subseteq Int, DatesIn(acts, rows, applied, today),
         NEW i \in DatedIn(acts), acts[i].round = 0, acts[i].to \in Correctable,
         NEW on \in Days, NEW e \in EventRow, e.on = on, e.to = acts[i].to, e.round = 0,
         applied <= on, on <= today,
         \A j \in DatedIn(acts) : /\ Rank[acts[j].to] < Rank[e.to] => acts[j].on <= on
                                  /\ Rank[acts[j].to] > Rank[e.to] => on <= acts[j].on,
         e.to = "offer" => \A q \in DoneIn(rows) : rows[q].done <= on
  PROVE  DatesIn([acts EXCEPT ![i] = e], rows, applied, today)
<1> DEFINE new == [acts EXCEPT ![i] = e]
<1>1. /\ DOMAIN new = DOMAIN acts /\ new[i] = e
      /\ \A j \in DOMAIN acts : j # i => new[j] = acts[j]
      /\ i \in DOMAIN acts /\ acts[i].on # NoDay /\ on # NoDay
  BY Put DEF DatedIn, Days, NoDay
<1> HIDE DEF new
<1>2. /\ \A j \in DOMAIN acts : new[j].to = acts[j].to /\ new[j].round = acts[j].round
      /\ DatedIn(new) = DatedIn(acts)
      /\ \A j \in DatedIn(acts) : j # i => new[j].on = acts[j].on
      /\ new[i].on = on
  BY <1>1 DEF DatedIn
<1>3. Climbing(new, applied)
  <2>1. DOMAIN new = DOMAIN acts /\ \A j \in DOMAIN acts : new[j].to = acts[j].to
    BY <1>1, <1>2
  <2>2. \A j \in DatedIn(new) : j \in DatedIn(acts) /\ j \in DOMAIN acts
    BY <1>2 DEF DatedIn
  <2> QED BY <2>1, <2>2 DEF DatesIn, Climbing
<1>4. Bounded(new, rows, applied, today)
  BY <1>2 DEF DatesIn, Bounded
<1>5. Ordered(new)
  <2> SUFFICES ASSUME NEW j \in DatedIn(acts), NEW k \in DatedIn(acts), j < k, acts[k].round = 0
               PROVE  new[j].on <= new[k].on
    BY <1>2 DEF Ordered, DatedIn
  <2>1. Rank[acts[j].to] < Rank[acts[k].to]
    BY DEF DatesIn, Climbing, DatedIn
  <2>2. acts[j].on <= acts[k].on
    BY DEF DatesIn, Ordered
  <2>3. j \in DOMAIN acts /\ k \in DOMAIN acts /\ DOMAIN acts \subseteq Int
    BY DEF DatedIn
  <2>4. acts[j].to \in {"closed"} \cup Active /\ acts[k].to \in {"closed"} \cup Active
    <3>1. acts[j] \in EventRow /\ acts[k] \in EventRow
      BY <2>3
    <3> QED BY <3>1, EventTyped
  <2>5. Rank[acts[j].to] \in Nat /\ Rank[acts[k].to] \in Nat
    BY <2>4, Ranks
  <2> QED BY <1>2, <2>1, <2>2, <2>3, <2>5, SMTT(20)
<1>6. Linked(new, rows)
  <2>1. \A j \in DatedIn(acts), q \in DoneIn(rows) :
          acts[j].to \in {"offer", "closed"} => rows[q].done <= new[j].on
    BY <1>2 DEF DatesIn, Linked, Correctable
  <2>2. \A j \in DatedIn(acts) : acts[j].round # 0 =>
          /\ acts[j].round \in DoneIn(rows) /\ new[j].on = rows[acts[j].round].done
          /\ acts[j].to = "interviewing"
    BY <1>2 DEF DatesIn, Linked
  <2>3. \A j \in DatedIn(acts) : new[j].to = acts[j].to /\ new[j].round = acts[j].round
    BY <1>2 DEF DatedIn
  <2> QED BY <1>2, <2>1, <2>2, <2>3 DEF Linked
<1> QED BY <1>3, <1>4, <1>5, <1>6 DEF DatesIn, new

\* No event is later in the chain of stages than the stage the application has.
LEMMA StageIsLast ==
  ASSUME TypeOK, Records, Dates, app.stage # "none", NEW i \in DOMAIN activity
  PROVE  Rank[activity[i].to] <= Rank[app.stage]
<1>1. activity \in Seq(EventRow) /\ activity # <<>> /\ app.stage = activity[Len(activity)].to
  BY TypeIs DEF Records, RecordsAgree
<1>2. i \in 1 .. Len(activity) /\ Len(activity) \in DOMAIN activity /\ Len(activity) \in Nat
  BY <1>1
<1>3. activity[i].to \in {"closed"} \cup Active
  <2>1. activity[i] \in EventRow /\ Days \subseteq Int
    BY <1>1, DatesTyped
  <2> QED BY <2>1, EventTyped
<1>4. Rank[activity[i].to] \in Nat
  BY <1>3, Ranks
<1>5. CASE i = Len(activity)
  <2>1. activity[i].to = app.stage
    BY <1>1, <1>5
  <2> DEFINE n == Rank[activity[i].to]
  <2>2. Rank[app.stage] = n /\ n \in Nat
    BY <1>4, <2>1
  <2> HIDE DEF n
  <2>3. n <= Rank[app.stage]
    BY <2>2
  <2> QED BY <2>3 DEF n
<1>6. CASE i < Len(activity)
  <2>1. Rank[activity[i].to] < Rank[app.stage]
    BY <1>1, <1>2, <1>6 DEF Dates, DatesIn, Climbing
  <2>2. app.stage \in {"closed"} \cup Active
    BY TypeIs DEF Stages
  <2>3. Rank[app.stage] \in Nat
    BY <2>2, Ranks
  <2> QED BY <1>4, <2>1, <2>3
<1> QED BY <1>2, <1>5, <1>6

\* An application that has not ended has no date of an end, and one without an offer none of it.
LEMMA NoDateBeyond ==
  ASSUME TypeOK, Records, Dates, app.stage \in Active, NEW i \in DatedIn(activity)
  PROVE  /\ activity[i].to \in Correctable
         /\ app.stage # "offer" => activity[i].to # "offer"
<1>1. i \in DOMAIN activity /\ activity[i].to \in Correctable \cup {"closed"}
  BY DEF DatedIn, Dates, DatesIn, Climbing
<1>2. Rank[activity[i].to] <= Rank[app.stage]
  BY <1>1, StageIsLast DEF Active, Submitted
<1>3. Rank[app.stage] <= 6 /\ (app.stage # "offer" => Rank[app.stage] <= 5)
  BY DEF Rank, Active, Submitted
<1>4. Rank[app.stage] \in Nat
  BY Ranks
<1> QED BY <1>1, <1>2, <1>3, <1>4, Ranks

LEMMA WithoutSubmission ==
  ASSUME TypeOK, Records, Dates, app.stage \in Active, app.applied = NoDay
  PROVE  DatedIn(activity) = {} /\ rounds = <<>>
<1>1. ASSUME NEW i \in DatedIn(activity) PROVE FALSE
  <2>1. activity[i].to \in Correctable /\ i \in DOMAIN activity
    BY NoDateBeyond DEF DatedIn
  <2> QED BY <2>1 DEF Dates, DatesIn, Climbing
<1> QED BY <1>1 DEF Records, RecordsAgree

\* A transition appends an event whose date is after all facts.
LEMMA MoveKeepsDates ==
  ASSUME TypeOK, Records, Dates, app.stage \in Active, NEW e \in EventRow, e.round = 0,
         e.to \in Correctable => app.applied # NoDay, Rank[app.stage] < Rank[e.to],
         e.on # NoDay => e.to \in Correctable \cup {"closed"} /\ AfterAllFacts(e.on)
  PROVE  DatesIn(Append(activity, e), rounds, app.applied, Today)
<1>1. \A i \in DOMAIN activity : Rank[activity[i].to] < Rank[e.to]
  <2> TAKE i \in DOMAIN activity
  <2>1. Rank[activity[i].to] <= Rank[app.stage]
    BY StageIsLast DEF Active, Submitted
  <2>2. activity[i] \in EventRow /\ activity \in Seq(EventRow) /\ Days \subseteq Int
    BY DatesTyped
  <2>3. activity[i].to \in {"closed"} \cup Active /\ e.to \in {"closed"} \cup Active
    BY <2>2, EventTyped
  <2>4. Rank[activity[i].to] \in Nat /\ Rank[app.stage] \in Nat /\ Rank[e.to] \in Nat
    BY <2>3, Ranks
  <2> QED BY <2>1, <2>4
<1>2. ASSUME e.on # NoDay
      PROVE  /\ e.to \in Correctable \cup {"closed"}
             /\ app.applied <= e.on /\ e.on <= Today
             /\ \A i \in DatedIn(activity) : activity[i].on <= e.on
             /\ \A q \in DoneIn(rounds) : rounds[q].done <= e.on
  <2>1. AfterAllFacts(e.on) /\ e.to \in Correctable \cup {"closed"}
    BY <1>2
  <2>2. \A i \in DatedIn(activity) : activity[i].on \in DatesOf(Correctable)
    BY NoDateBeyond DEF DatesOf, Dated, DatedIn
  <2>3. \A q \in DoneIn(rounds) : rounds[q].done \in RoundDates
    BY DEF DoneIn, RoundDates, Completed
  <2> QED BY <2>1, <2>2, <2>3 DEF AfterAllFacts
<1>3. activity \in Seq(EventRow) /\ rounds \in Seq(RoundRow) /\ app.applied \in Int /\ Today \in Int
  BY DatesTyped
<1> QED BY <1>1, <1>2, <1>3, EventKeepsDates DEF Dates

LEMMA DatesTransitions ==
  ASSUME TypeOK, Records, Dates, NEW on \in Days,
         Ready \/ Apply(on) \/ Screen(on) \/ Interview(on) \/ Offer(on)
         \/ \E kind \in Outcomes : Close(kind, on)
  PROVE  Dates'
<1>0. app \in [stage : Stages, created : Days \cup {NoDay},
              applied : Days \cup {NoDay}, outcome : {"none"} \cup Outcomes]
  BY TypeIs
<1>a. ASSUME NEW to \in {"closed"} \cup Active, app.stage \in Active,
             NEW d \in Days \cup {NoDay}
      PROVE  LET e == Event(app.stage, to, d, 0)
             IN  e \in EventRow /\ e.to = to /\ e.round = 0 /\ e.on = d
  BY <1>a, BoundsAssumption DEF Event, EventRow
<1>1. ASSUME NEW to \in {"closed"} \cup Active, app.stage \in Active, NEW d \in Days \cup {NoDay},
             activity' = Append(activity, Event(app.stage, to, d, 0)),
             UNCHANGED <<now, rounds>>, app'.applied = app.applied,
             to \in Correctable => app.applied # NoDay, Rank[app.stage] < Rank[to],
             d # NoDay => to \in Correctable \cup {"closed"} /\ AfterAllFacts(d)
      PROVE  Dates'
  <2> DEFINE e == Event(app.stage, to, d, 0)
  <2>1. e \in EventRow /\ e.to = to /\ e.round = 0 /\ e.on = d /\ activity' = Append(activity, e)
    BY <1>1, <1>a
  <2> HIDE DEF e
  <2>2. DatesIn(Append(activity, e), rounds, app.applied, Today)
    BY <1>1, <2>1, MoveKeepsDates
  <2> QED BY <1>1, <2>1, <2>2 DEF Dates, Today
<1>2. CASE Ready
  <2>1. /\ app.stage = "pursuing" /\ UNCHANGED <<now, rounds>> /\ app'.applied = app.applied
        /\ activity' = Append(activity, Event(app.stage, "ready_to_apply", NoDay, 0))
    BY <1>0, <1>2 DEF Ready, MayMove, Move
  <2>2. /\ "ready_to_apply" \in Active /\ app.stage \in Active
        /\ Rank[app.stage] < Rank["ready_to_apply"] /\ "ready_to_apply" \notin Correctable
    BY <2>1 DEF Active, Rank, Correctable
  <2> QED BY <1>1, <2>1, <2>2
<1>3. CASE Apply(on)
  <2>1. /\ app.stage = "ready_to_apply" /\ app.applied = NoDay /\ app'.applied = on
        /\ UNCHANGED <<now, rounds>> /\ on <= Today
        /\ activity' = Append(activity, Event(app.stage, "applied", NoDay, 0))
    BY <1>0, <1>3 DEF Apply, MayMove, Move
  <2>2. DatedIn(activity) = {} /\ rounds = <<>>
    BY <2>1, WithoutSubmission DEF Active
  <2>3. /\ activity \in Seq(EventRow) /\ rounds \in Seq(RoundRow) /\ on \in Int /\ Today \in Int
        /\ on # NoDay
    BY DatesTyped DEF NoDay, Days
  <2>4. DatesIn(activity, rounds, on, Today)
    BY <2>1, <2>2, <2>3 DEF Dates, DatesIn, Climbing, Bounded, Ordered, Linked, DoneIn
  <2> DEFINE e == Event(app.stage, "applied", NoDay, 0)
  <2>5. "applied" \in Active /\ app.stage \in Active
    BY <2>1 DEF Active, Submitted
  <2>6. e \in EventRow /\ e.to = "applied" /\ e.on = NoDay
    BY <1>a, <2>5
  <2> HIDE DEF e
  <2>7. \A i \in DOMAIN activity : Rank[activity[i].to] < Rank[e.to]
    <3>1. Rank[app.stage] = 2 /\ Rank[e.to] = 3
      BY <2>1, <2>6 DEF Rank
    <3>2. ASSUME NEW i \in DOMAIN activity PROVE Rank[activity[i].to] \in Nat
      <4>1. activity[i].to \in {"closed"} \cup Active
        BY <2>3, DatesTyped, EventTyped
      <4> QED BY <4>1, Ranks
    <3>3. \A i \in DOMAIN activity : Rank[activity[i].to] <= Rank[app.stage]
      BY <2>1, StageIsLast
    <3> QED BY <3>1, <3>2, <3>3
  <2>8. DatesIn(Append(activity, e), rounds, on, Today)
    BY <2>3, <2>4, <2>6, <2>7, EventKeepsDates
  <2> QED BY <2>1, <2>8 DEF Dates, Today, e
<1>4. ASSUME NEW from \in SUBSET Active, NEW to \in Correctable, Progress(from, to, on),
             \A stage \in from : Rank[stage] < Rank[to]
      PROVE  Dates'
  <2>1. /\ app.stage \in from /\ app.applied # NoDay /\ AfterAllFacts(on)
        /\ UNCHANGED <<now, rounds>> /\ app'.applied = app.applied
        /\ activity' = Append(activity, Event(app.stage, to, on, 0))
    BY <1>0, <1>4 DEF Progress, MayMove, Move
  <2>2. to \in Active
    BY DEF Correctable, Active, Submitted
  <2> QED BY <1>1, <1>4, <2>1, <2>2
<1>5. CASE Screen(on) \/ Interview(on) \/ Offer(on)
  <2>1. /\ {"applied"} \in SUBSET Active /\ {"applied", "screening"} \in SUBSET Active
        /\ {"applied", "screening", "interviewing"} \in SUBSET Active
    BY DEF Active, Submitted
  <2>2. /\ \A s \in {"applied"} : Rank[s] < Rank["screening"]
        /\ \A s \in {"applied", "screening"} : Rank[s] < Rank["interviewing"]
        /\ \A s \in {"applied", "screening", "interviewing"} : Rank[s] < Rank["offer"]
    BY DEF Rank
  <2>3. CASE Screen(on)
    BY <1>4, <2>1, <2>2, <2>3 DEF Screen, Correctable
  <2>4. CASE Interview(on)
    BY <1>4, <2>1, <2>2, <2>4 DEF Interview, Correctable
  <2>5. CASE Offer(on)
    BY <1>4, <2>1, <2>2, <2>5 DEF Offer, Correctable
  <2> QED BY <1>5, <2>3, <2>4, <2>5
<1>6. ASSUME NEW kind \in Outcomes, Close(kind, on) PROVE Dates'
  <2>1. /\ UNCHANGED <<now, rounds>> /\ app'.applied = app.applied
        /\ activity' = Append(activity, Event(app.stage, "closed", on, 0))
    BY <1>0, <1>6 DEF Close
  <2>2. app.stage \in Active
    BY <1>6 DEF Close, MayMove, ClosableFrom, Active, Submitted
  <2>3. AfterAllFacts(on)
    <3>1. CASE app.stage \in Submitted
      BY <1>6, <3>1 DEF Close
    <3>2. CASE app.stage \notin Submitted
      <4>1. app.applied = NoDay /\ on <= Today
        <5>1. app.applied = NoDay /\ on \in app.created .. Today
          BY <1>6, <3>2 DEF Close
        <5>2. app.created \in Days \cup {NoDay}
          BY <1>0
        <5>3. app.created \in Int /\ Today \in Int
          BY <5>2, DatesTyped
        <5> QED BY <5>1, <5>3
      <4>2. DatedIn(activity) = {} /\ rounds = <<>>
        BY <2>2, <4>1, WithoutSubmission
      <4>3. DatesOf(Correctable) = {} /\ RoundDates = {}
        BY <4>2 DEF DatesOf, Dated, DatedIn, RoundDates, Completed
      <4>4. NoDay <= on
        BY DatesTyped, DayMonotone, BoundsAssumption DEF NoDay, Days
      <4> QED BY <4>1, <4>3, <4>4 DEF AfterAllFacts
    <3> QED BY <3>1, <3>2
  <2>4. Rank[app.stage] < Rank["closed"] /\ "closed" \notin Correctable
    BY <2>2 DEF Rank, Active, Submitted, Correctable
  <2> QED BY <1>1, <2>1, <2>2, <2>3, <2>4
<1> QED BY <1>2, <1>3, <1>5, <1>6

\* What the commands on a round write: the rounds that ended keep their dates.
LEMMA RoundWritten ==
  ASSUME NEW acts \in Seq(EventRow), NEW rows \in Seq(RoundRow), NEW applied \in Int,
         NEW today \in Int, DatesIn(acts, rows, applied, today),
         NEW r \in DOMAIN rows, rows[r].status = "scheduled", NEW row \in RoundRow,
         row.status = "scheduled" => applied <= Day(row.start),
         row.status = "completed" =>
           /\ applied <= row.done /\ row.done <= today
           /\ \A i \in DatedIn(acts) : acts[i].to \notin {"offer", "closed"}
  PROVE  DatesIn(acts, [rows EXCEPT ![r] = row], applied, today)
<1> DEFINE new == [rows EXCEPT ![r] = row]
<1>1. /\ new \in Seq(RoundRow) /\ DOMAIN new = DOMAIN rows /\ new[r] = row
      /\ \A q \in DOMAIN rows : q # r => new[q] = rows[q]
  BY Put
<1> HIDE DEF new
<1>2. \A q \in DoneIn(rows) : q \in DoneIn(new) /\ new[q].done = rows[q].done
  BY <1>1 DEF DoneIn
<1>3. \A q \in DoneIn(new) \ DoneIn(rows) : q = r /\ new[q] = row /\ row.status = "completed"
  BY <1>1 DEF DoneIn
<1>4. \A q \in DOMAIN new : new[q].status = "scheduled" => applied <= Day(new[q].start)
  BY <1>1 DEF DatesIn, Bounded
<1>5. DatesIn(acts, new, applied, today)
  BY <1>1, <1>2, <1>3, <1>4, RoundsKeepDates
<1> QED BY <1>5 DEF new

\* A time to come is not before the day of the submission.
LEMMA StartsLater ==
  ASSUME TypeOK, Dates, NEW start \in 0 .. MaxTime, start > now
  PROVE  app.applied <= Day(start)
<1>1. now \in Nat /\ start \in Nat /\ now <= start /\ app.applied \in Int
  BY DatesTyped, BoundsAssumption
<1>2. Today <= Day(start) /\ Today \in Nat /\ Day(start) \in Nat
  BY <1>1, DayMonotone DEF Today
<1>3. app.applied <= Today
  BY DEF Dates, DatesIn, Bounded
<1> QED BY <1>1, <1>2, <1>3

LEMMA DatesSchedules ==
  ASSUME TypeOK, Records, Dates,
         \/ \E start \in 0 .. MaxTime : Schedule(start)
         \/ \E r \in DOMAIN rounds :
              \/ \E start \in 0 .. MaxTime : Reschedule(r, start)
              \/ CancelRound(r)
  PROVE  Dates'
<1>0. activity \in Seq(EventRow) /\ rounds \in Seq(RoundRow) /\ app.applied \in Int /\ Today \in Int
  BY DatesTyped
<1>1. ASSUME NEW rows, rounds' = rows, UNCHANGED <<now, app, activity>>,
             DatesIn(activity, rows, app.applied, Today)
      PROVE  Dates'
  BY <1>1 DEF Dates, Today
<1>2. ASSUME NEW start \in 0 .. MaxTime, Schedule(start) PROVE Dates'
  <2> DEFINE row == [status |-> "scheduled", start |-> start, done |-> NoDay]
  <2>1. row \in RoundRow /\ row.status = "scheduled" /\ row.start = start
    BY DEF RoundRow
  <2>2. rounds' = Append(rounds, row) /\ start > now /\ UNCHANGED <<now, app, activity>>
    BY <1>2 DEF Schedule
  <2> HIDE DEF row
  <2> DEFINE new == Append(rounds, row)
             n   == Len(rounds) + 1
  <2>3. /\ new \in Seq(RoundRow) /\ DOMAIN new = 1 .. n /\ DOMAIN rounds = 1 .. (n - 1)
        /\ n \in Nat /\ new[n] = row
        /\ \A q \in DOMAIN rounds : q # n /\ new[q] = rounds[q]
    BY <1>0, <2>1, Appended
  <2> HIDE DEF new, n
  <2>4. DoneIn(new) = DoneIn(rounds) /\ \A q \in DoneIn(rounds) : new[q].done = rounds[q].done
    BY <2>1, <2>3 DEF DoneIn
  <2>5. app.applied <= Day(start)
    BY <2>2, StartsLater
  <2>6. \A q \in DOMAIN new : new[q].status = "scheduled" => app.applied <= Day(new[q].start)
    BY <2>1, <2>3, <2>5 DEF Dates, DatesIn, Bounded
  <2>7. DatesIn(activity, new, app.applied, Today)
    BY <1>0, <2>3, <2>4, <2>6, RoundsKeepDates DEF Dates
  <2> QED BY <1>1, <2>2, <2>7 DEF new
<1>3. ASSUME NEW r \in DOMAIN rounds, NEW start \in 0 .. MaxTime, Reschedule(r, start)
      PROVE  Dates'
  <2> DEFINE row == [rounds[r] EXCEPT !.start = start]
  <2>1. row \in RoundRow /\ row.status = rounds[r].status /\ row.start = start
    <3>1. rounds[r] \in RoundRow
      BY RoundEvents
    <3> QED BY <3>1 DEF RoundRow
  <2>2. rounds' = [rounds EXCEPT ![r] = row] /\ start > now /\ UNCHANGED <<now, app, activity>>
        /\ rounds[r].status = "scheduled"
    BY <1>3 DEF Reschedule, RoundOpen, Scheduled
  <2> HIDE DEF row
  <2>3. app.applied <= Day(start)
    BY <2>2, StartsLater
  <2>4. DatesIn(activity, [rounds EXCEPT ![r] = row], app.applied, Today)
    BY <1>0, <2>1, <2>2, <2>3, RoundWritten DEF Dates
  <2> QED BY <1>1, <2>2, <2>4
<1>4. ASSUME NEW r \in DOMAIN rounds, CancelRound(r) PROVE Dates'
  <2> DEFINE row == [rounds[r] EXCEPT !.status = "cancelled"]
  <2>1. row \in RoundRow /\ row.status = "cancelled"
    BY RoundEvents
  <2>2. rounds' = [rounds EXCEPT ![r] = row] /\ UNCHANGED <<now, app, activity>>
        /\ rounds[r].status = "scheduled"
    BY <1>4 DEF CancelRound, RoundOpen, Scheduled
  <2> HIDE DEF row
  <2>3. DatesIn(activity, [rounds EXCEPT ![r] = row], app.applied, Today)
    BY <1>0, <2>1, <2>2, RoundWritten DEF Dates
  <2> QED BY <1>1, <2>2, <2>3
<1> QED BY <1>2, <1>3, <1>4

LEMMA DatesComplete ==
  ASSUME TypeOK, Records, Dates, NEW r \in DOMAIN rounds, NEW on \in Days, CompleteRound(r, on)
  PROVE  Dates'
<1> DEFINE row == [rounds[r] EXCEPT !.status = "completed", !.done = on]
<1>0. /\ activity \in Seq(EventRow) /\ rounds \in Seq(RoundRow)
      /\ app.applied \in Int /\ Today \in Int /\ on \in Int /\ on # NoDay /\ r \in Nat /\ r # 0
  BY DatesTyped DEF Days, NoDay
<1>1. row \in RoundRow /\ row.status = "completed" /\ row.done = on
  <2>1. rounds[r] \in RoundRow
    BY RoundEvents
  <2> QED BY <2>1 DEF RoundRow
<1>2. /\ rounds' = [rounds EXCEPT ![r] = row] /\ now' = now
      /\ rounds[r].status = "scheduled" /\ app.stage \in Schedulable
      /\ on \in Day(rounds[r].start) .. Today
  BY DEF CompleteRound, RoundOpen, Scheduled
<1> HIDE DEF row
<1>3. app'.applied = app.applied
  <2>1. app \in [stage : Stages, created : Days \cup {NoDay},
                applied : Days \cup {NoDay}, outcome : {"none"} \cup Outcomes]
    BY TypeIs
  <2> QED BY <2>1 DEF CompleteRound
<1>4. app.applied <= on /\ on <= Today
  <2>1. app.applied <= Day(rounds[r].start)
    BY <1>2 DEF Dates, DatesIn, Bounded
  <2>2. Day(rounds[r].start) \in Int
    BY <1>0, DatesTyped, RoundTyped
  <2> QED BY <1>0, <1>2, <2>1, <2>2
<1>5. app.stage \in Active /\ app.stage # "offer" /\ app.stage \in Submitted
  BY <1>2 DEF Schedulable, Active, Submitted
<1>6. \A i \in DatedIn(activity) : activity[i].to \notin {"offer", "closed"}
  BY <1>5, NoDateBeyond DEF Correctable
<1>7. DatesIn(activity, rounds', app.applied, Today)
  BY <1>0, <1>1, <1>2, <1>4, <1>6, RoundWritten DEF Dates
<1>8. /\ rounds' \in Seq(RoundRow) /\ r \in DOMAIN rounds' /\ rounds'[r] = row
  BY <1>0, <1>1, <1>2, Put
<1>9. CASE FirstInterview
  <2> DEFINE e == Event(app.stage, "interviewing", on, r)
  <2>1. activity' = Append(activity, e)
    BY <1>9 DEF CompleteRound
  <2>2. e \in EventRow /\ e.to = "interviewing" /\ e.on = on /\ e.round = r
    <3>1. r \in 0 .. MaxRounds
      <4>1. r \in 1 .. Len(rounds) /\ Len(rounds) \in Nat /\ MaxRounds \in Nat
        BY <1>0, BoundsAssumption
      <4>2. Len(rounds) <= MaxRounds
        BY TypeIs
      <4> QED BY <4>1, <4>2
    <3> QED BY <3>1, <1>9, BoundsAssumption DEF FirstInterview, Event, EventRow, Active, Submitted
  <2> HIDE DEF e
  <2>3. \A i \in DOMAIN activity : Rank[activity[i].to] < Rank[e.to]
    <3>1. Rank[app.stage] \in Nat /\ Rank[app.stage] < 5 /\ Rank[e.to] = 5 /\ app.stage # "none"
      BY <1>9, <2>2 DEF Rank, FirstInterview
    <3>2. ASSUME NEW i \in DOMAIN activity
          PROVE  Rank[activity[i].to] \in Nat /\ Rank[activity[i].to] <= Rank[app.stage]
      <4>1. activity[i].to \in {"closed"} \cup Active
        BY <1>0, DatesTyped, EventTyped
      <4> QED BY <3>1, <4>1, Ranks, StageIsLast
    <3> QED BY <3>1, <3>2
  <2>4. app.applied # NoDay
    BY <1>5 DEF Records, SubmissionRecorded
  <2>5. e.round \in DoneIn(rounds') /\ e.on = rounds'[e.round].done
    BY <1>1, <1>8, <2>2 DEF DoneIn
  <2>6. DatesIn(Append(activity, e), rounds', app.applied, Today)
    BY <1>0, <1>4, <1>7, <1>8, <2>2, <2>3, <2>4, <2>5, EventKeepsDates DEF Correctable
  <2> QED BY <1>2, <1>3, <2>1, <2>6 DEF Dates, Today
<1>10. CASE ~FirstInterview
  <2>1. activity' = activity
    BY <1>10 DEF CompleteRound
  <2> QED BY <1>2, <1>3, <1>7, <2>1 DEF Dates, Today
<1> QED BY <1>9, <1>10

LEMMA DatesCorrected ==
  ASSUME TypeOK, Dates, NEW on \in Days, NEW i \in DOMAIN activity, Correct(i, on)
  PROVE  Dates'
<1> DEFINE e == Corrected(activity[i], on)
<1>0. /\ activity \in Seq(EventRow) /\ rounds \in Seq(RoundRow)
      /\ app.applied \in Int /\ Today \in Int /\ Days \subseteq Int
  BY DatesTyped
<1>1. /\ i \in DatedIn(activity) /\ activity[i].round = 0 /\ activity[i].to \in Correctable
      /\ activity' = [activity EXCEPT ![i] = e] /\ UNCHANGED <<now, app, rounds>>
      /\ InWindow(i, on)
  BY DEF Correct, CorrectableEvents, Dated, DatedIn
<1>2. e \in EventRow /\ e.on = on /\ e.to = activity[i].to /\ e.round = 0
  <2>1. activity[i] \in EventRow /\ activity[i].fixes < MaxCorrections
    BY <1>0 DEF Correct, RoomForCorrection
  <2> QED BY <1>1, <2>1, CorrectedIs
<1> HIDE DEF e
<1>3. app.applied <= on /\ on <= Today
  BY <1>1 DEF InWindow, Predecessors, Successors
<1>4. ASSUME NEW j \in DatedIn(activity)
      PROVE  /\ Rank[activity[j].to] < Rank[e.to] => activity[j].on <= on
             /\ Rank[activity[j].to] > Rank[e.to] => on <= activity[j].on
  <2>1. activity[j].to \in Correctable \cup {"closed"}
    BY DEF Dates, DatesIn, Climbing
  <2>2. \A stages : activity[j].to \in stages => activity[j].on \in DatesOf(stages)
    BY DEF DatesOf, Dated, DatedIn
  <2>3. ASSUME Rank[activity[j].to] < Rank[e.to] PROVE activity[j].on <= on
    <3>1. \/ activity[i].to = "interviewing" /\ activity[j].to = "screening"
          \/ activity[i].to = "offer" /\ activity[j].to \in {"screening", "interviewing"}
      BY <1>1, <1>2, <2>1, <2>3, Ranks DEF Correctable
    <3>2. activity[j].on \in Predecessors(i)
      BY <2>2, <3>1 DEF Predecessors
    <3> QED BY <1>1, <3>2 DEF InWindow
  <2>4. ASSUME Rank[activity[j].to] > Rank[e.to] PROVE on <= activity[j].on
    <3>1. \/ activity[j].to = "closed"
          \/ activity[i].to = "screening" /\ activity[j].to \in {"interviewing", "offer"}
          \/ activity[i].to = "interviewing" /\ activity[j].to = "offer"
      BY <1>1, <1>2, <2>1, <2>4, Ranks DEF Correctable
    <3>2. activity[j].on \in Successors(i)
      BY <2>2, <3>1 DEF Successors
    <3> QED BY <1>1, <3>2 DEF InWindow
  <2> QED BY <2>3, <2>4
<1>5. ASSUME e.to = "offer" PROVE \A q \in DoneIn(rounds) : rounds[q].done <= on
  <2>1. \A q \in DoneIn(rounds) : rounds[q].done \in Predecessors(i)
    BY <1>2, <1>5 DEF Predecessors, RoundDates, Completed, DoneIn
  <2> QED BY <1>1, <2>1 DEF InWindow
<1>6. DatesIn([activity EXCEPT ![i] = e], rounds, app.applied, Today)
  BY <1>0, <1>1, <1>2, <1>3, <1>4, <1>5, CorrectionKeepsDates DEF Dates
<1> QED BY <1>1, <1>6 DEF Dates, Today

\* An opportunity nobody applied to yet has no dates, and neither has a pursuit just begun.
LEMMA DatesUndated ==
  ASSUME now \in Nat, NEW acts, NEW rows, rows = <<>>,
         acts = <<>> \/ acts = <<Event("none", "pursuing", NoDay, 0)>>
  PROVE  DatesIn(acts, rows, NoDay, Today)
<1>1. NoDay <= Today
  BY DayMonotone DEF Today, NoDay
<1>2. DatedIn(acts) = {} /\ DoneIn(rows) = {} /\ DOMAIN rows = {}
      /\ \A i \in DOMAIN acts : i = 1 /\ acts[i].to = "pursuing"
  BY DEF DatedIn, DoneIn, Event
<1> QED BY <1>1, <1>2 DEF DatesIn, Climbing, Bounded, Ordered, Linked, Correctable

LEMMA DatesInit == Init => Dates
<1> SUFFICES ASSUME Init PROVE Dates
  OBVIOUS
<1>1. now \in Nat /\ activity = <<>> /\ rounds = <<>> /\ app.applied = NoDay
  BY DEF Init, NoApplication
<1> QED BY <1>1, DatesUndated DEF Dates

LEMMA DatesNext == TypeOK /\ Records /\ Dates /\ [Next]_vars => Dates'
<1> SUFFICES ASSUME TypeOK, Records, Dates, [Next]_vars PROVE Dates'
  OBVIOUS
<1>0. /\ activity \in Seq(EventRow) /\ rounds \in Seq(RoundRow) /\ now \in Nat
      /\ app.applied \in Int /\ Today \in Int /\ Days \subseteq Int /\ 0 \in Days
  BY DatesTyped, DayMonotone, BoundsAssumption DEF Days
<1>1. ASSUME NEW on \in Days, \/ Apply(on) \/ Screen(on) \/ Interview(on) \/ Offer(on)
                             \/ \E kind \in Outcomes : Close(kind, on)
      PROVE  Dates'
  BY <1>1, DatesTransitions
<1>2. CASE Ready
  BY <1>0, <1>2, DatesTransitions
<1>3. ASSUME NEW on \in Days, NEW r \in DOMAIN rounds, CompleteRound(r, on) PROVE Dates'
  BY <1>3, DatesComplete
<1>4. ASSUME NEW on \in Days, NEW i \in DOMAIN activity, Correct(i, on) PROVE Dates'
  BY <1>4, DatesCorrected
<1>5. CASE \/ \E start \in 0 .. MaxTime : Schedule(start)
           \/ \E r \in DOMAIN rounds :
                \/ \E start \in 0 .. MaxTime : Reschedule(r, start)
                \/ CancelRound(r)
  BY <1>5, DatesSchedules
<1>6. CASE (\E target \in Undecided : Decide(target)) \/ UNCHANGED vars
  BY <1>6 DEF Decide, vars, Dates, Today
<1>7. CASE Pursue
  <2>1. /\ now' = now /\ rounds' = <<>> /\ app'.applied = NoDay
        /\ activity' = <<Event("none", "pursuing", NoDay, 0)>>
    <3>1. app.stage = "none" /\ activity = <<>>
      BY <1>7 DEF Pursue, Records, RecordsAgree
    <3>2. rounds = <<>>
      BY <3>1 DEF Records, RecordsAgree, Reached
    <3> QED BY <1>7, <3>2 DEF Pursue, NoApplication
  <2>2. DatesIn(activity', rounds', NoDay, Today)
    BY <1>0, <2>1, DatesUndated
  <2> QED BY <2>1, <2>2 DEF Dates, Today
<1>8. CASE Undo
  <2>1. now' = now /\ rounds' = <<>> /\ app'.applied = NoDay /\ activity' = <<>>
    BY <1>8 DEF Undo, Undoable, NoApplication
  <2>2. DatesIn(activity', rounds', NoDay, Today)
    BY <1>0, <2>1, DatesUndated
  <2> QED BY <2>1, <2>2 DEF Dates, Today
<1>9. CASE Tick
  <2>1. now' = now + 1 /\ UNCHANGED <<app, activity, rounds>>
    BY <1>9 DEF Tick
  <2>2. now \in Nat /\ now + 1 \in Nat /\ now <= now + 1
    BY <1>0
  <2>3. Day(now) <= Day(now + 1) /\ Day(now + 1) \in Int
    BY <2>2, DayMonotone
  <2>4. DatesIn(activity, rounds, app.applied, Day(now + 1))
    BY <1>0, <2>3, TimeKeepsDates DEF Dates, Today
  <2> QED BY <2>1, <2>4 DEF Dates, Today
<1> QED BY <1>1, <1>2, <1>3, <1>4, <1>5, <1>6, <1>7, <1>8, <1>9 DEF Next

LEMMA OrderFollows ==
  ASSUME TypeOK, Dates
  PROVE  DatesHold
<1>1. DatedIn(activity) = Dated /\ DoneIn(rounds) = Completed
  BY DEF DatedIn, Dated, DoneIn, Completed
<1>2. ManualDatesOrdered
  BY <1>1 DEF ManualDatesOrdered, RoundDates, DatesOf, Dates, DatesIn, Bounded, Ordered, Linked
<1>3. LinkedDatesGrounded
  BY <1>1 DEF LinkedDatesGrounded, Dates, DatesIn, Linked
<1> QED BY <1>2, <1>3 DEF DatesHold

\* The first milestone that can be corrected may be put on the day of the submission, and an
\* offer may stay where it is.
LEMMA RepairFollows ==
  ASSUME TypeOK, Dates
  PROVE  WindowsRepairable
<1> SUFFICES ASSUME NEW i \in CorrectableEvents, \A j \in CorrectableEvents : i <= j
             PROVE  \E on \in Days : InWindow(i, on)
  BY DEF WindowsRepairable
<1>0. /\ activity \in Seq(EventRow) /\ rounds \in Seq(RoundRow)
      /\ app.applied \in Int /\ Today \in Int /\ Days \subseteq Int
      /\ app.applied \in Days \cup {NoDay}
  BY DatesTyped, TypeIs
<1>1. /\ i \in DOMAIN activity /\ i \in Dated /\ activity[i].to \in Correctable
      /\ activity[i].round = 0 /\ activity[i].on # NoDay
  BY DEF CorrectableEvents, Dated
<1>2. app.applied \in Days
  BY <1>0, <1>1 DEF Dates, DatesIn, Climbing
<1>3. ASSUME NEW j \in Dated
      PROVE  /\ j \in DOMAIN activity /\ j \in Int /\ i \in Int
             /\ activity[j].on \in Int /\ app.applied <= activity[j].on
             /\ activity[j].to # "interviewing" => activity[j].round = 0
             /\ Rank[activity[j].to] < Rank[activity[i].to] => j < i
             /\ Rank[activity[j].to] > Rank[activity[i].to] => i < j
  <2>1. j \in DOMAIN activity /\ j \in DatedIn(activity) /\ DOMAIN activity \subseteq Int
    BY <1>0 DEF Dated, DatedIn
  <2>2. activity[j].to \in {"closed"} \cup Active /\ activity[i].to \in {"closed"} \cup Active
        /\ activity[j].on \in Int
    BY <1>0, <1>1, <2>1, EventTyped
  <2>3. Rank[activity[j].to] \in Nat /\ Rank[activity[i].to] \in Nat
    BY <2>2, Ranks
  <2>4. /\ i < j => Rank[activity[i].to] < Rank[activity[j].to]
        /\ j < i => Rank[activity[j].to] < Rank[activity[i].to]
    BY <1>1, <2>1 DEF Dates, DatesIn, Climbing
  <2>5. i = j => Rank[activity[j].to] = Rank[activity[i].to]
    OBVIOUS
  <2>6. /\ Rank[activity[j].to] < Rank[activity[i].to] => j < i
        /\ Rank[activity[j].to] > Rank[activity[i].to] => i < j
    BY <1>1, <2>1, <2>3, <2>4, <2>5
  <2>7. /\ app.applied <= activity[j].on
        /\ activity[j].to # "interviewing" => activity[j].round = 0
    BY <2>1 DEF Dates, DatesIn, Bounded, Linked
  <2> QED BY <1>1, <2>1, <2>2, <2>6, <2>7
<1>4. /\ app.applied <= Today
      /\ \A d \in RoundDates : app.applied <= d
      /\ \A stages : \A d \in DatesOf(stages) : app.applied <= d
  BY <1>3 DEF Dates, DatesIn, Bounded, RoundDates, Completed, DoneIn, DatesOf
<1>5. \A d \in Successors(i) : app.applied <= d
  BY <1>1, <1>4 DEF Successors, Correctable
<1>6. CASE activity[i].to = "screening"
  <2>1. Predecessors(i) = {app.applied}
    BY <1>6 DEF Predecessors
  <2> QED BY <1>0, <1>2, <1>5, <2>1 DEF InWindow
<1>7. CASE activity[i].to = "interviewing"
  <2>1. ASSUME NEW j \in Dated, activity[j].to = "screening" PROVE FALSE
    <3>1. j < i /\ activity[j].round = 0 /\ i \in Int /\ j \in Int
      BY <1>3, <1>7, <2>1, Ranks
    <3>2. j \in CorrectableEvents
      BY <2>1, <3>1 DEF CorrectableEvents, Correctable
    <3> QED BY <3>1, <3>2
  <2>2. Predecessors(i) = {app.applied}
    BY <1>7, <2>1 DEF Predecessors, DatesOf
  <2> QED BY <1>0, <1>2, <1>5, <2>2 DEF InWindow
<1>8. CASE activity[i].to = "offer"
  <2> DEFINE on == activity[i].on
  <2>1. on \in Days
    <3>1. activity[i] \in EventRow
      BY <1>0, <1>1
    <3> QED BY <1>1, <3>1 DEF EventRow
  <2>2. app.applied <= on /\ on <= Today
    BY <1>1 DEF Dates, DatesIn, Bounded, Dated, DatedIn
  <2>3. \A d \in RoundDates : d <= on
    BY <1>1, <1>8 DEF RoundDates, Completed, DoneIn, Dates, DatesIn, Linked, Dated, DatedIn
  <2>4. \A d \in DatesOf({"screening", "interviewing"}) : d <= on
    <3> SUFFICES ASSUME NEW j \in Dated, activity[j].to \in {"screening", "interviewing"}
                 PROVE  activity[j].on <= on
      BY DEF DatesOf
    <3>1. j < i
      BY <1>3, <1>8, Ranks
    <3> QED BY <1>1, <3>1 DEF Dates, DatesIn, Ordered, Dated, DatedIn
  <2>5. \A d \in DatesOf({"closed"}) : on <= d
    <3> SUFFICES ASSUME NEW j \in Dated, activity[j].to = "closed"
                 PROVE  on <= activity[j].on
      BY DEF DatesOf
    <3>1. i < j /\ activity[j].round = 0
      BY <1>3, <1>8, Ranks
    <3> QED BY <1>1, <3>1 DEF Dates, DatesIn, Ordered, Dated, DatedIn
  <2>6. InWindow(i, on)
    BY <1>8, <2>2, <2>3, <2>4, <2>5 DEF InWindow, Predecessors, Successors
  <2> QED BY <2>1, <2>6
<1> QED BY <1>1, <1>6, <1>7, <1>8 DEF Correctable

\* The dates of rounds and milestones stay in the order of the events they stand for, and the
\* first milestone that can be corrected always has a day it may be put on, however the owner
\* moves, schedules and corrects.
THEOREM RoundsInOrder == Spec => []RoundsHold
<1>1. TypeOK /\ Dates => RoundsHold
  BY OrderFollows, RepairFollows DEF RoundsHold
<1>2. Spec => []Dates
  BY DatesInit, DatesNext, RecordsAlways, PTL DEF Spec
<1> QED BY <1>1, <1>2, TypeCorrect, PTL

-----------------------------------------------------------------------------
(***************************************************************************)
(* LockOrder. A request is judged by the locks its transaction can hold    *)
(* when it makes it, read off its sequence; a set of sessions that those   *)
(* who wait cannot leave shows what a wait does not lead to.               *)
(***************************************************************************)
\* The locks held and the requests left after the first k of q.
Got(q, k) == {q[i] : i \in 1..k}
Left(q, k) == [i \in 1..Len(q) - k |-> q[k + i]]

Rows ==
  {"posting1", "posting2", "opportunity1", "opportunity2", "owner", "application", "pack", "plan",
   "resume", "evidence", "job", "sequence", "budget", "contact"}

Locking == [row : Rows, mode : {"update", "share"}, wait : BOOLEAN]

\* A session is somewhere in the sequence of its transaction.
Stands(t, left, got) ==
  \/ t = "idle" /\ left = <<>> /\ got = {}
  \/ /\ t \in Transactions
     /\ \E k \in 0..Len(Requests[t]) : left = Left(Requests[t], k) /\ got = Got(Requests[t], k)

InPlace == \A s \in Connections : Stands(txn[s], todo[s], held[s])

\* No two sessions hold locks that conflict.
Exclusion ==
  \A s, r \in Connections : s # r =>
    \A g \in held[s], h \in held[r] : g.row = h.row => "update" \notin {g.mode, h.mode}

LockInv ==
  /\ txn \in [Connections -> Transactions \cup {"idle"}]
  /\ todo \in [Connections -> Seq(Locking)] /\ held \in [Connections -> SUBSET Locking]
  /\ InPlace /\ Exclusion

-----------------------------------------------------------------------------
Has(h, row) == \E g \in h : g.row = row
Shares(h) == \E g \in h : g.row = "owner" /\ g.mode = "share"
Owns(h) == \E g \in h : g.row = "owner" /\ g.mode = "update"
Within(h, rows) == \A g \in h : g.row \in rows \/ (g.row = "owner" /\ g.mode = "share")
Asks(w, rows) == w.row \in rows \/ (w.row = "owner" /\ w.mode = "share")

\* What the sequences have in common, wherever a transaction t stands with the locks h,
Holding(t, h) ==
  /\ \A g \in h : g.mode = "update" \/ g.row = "owner"
  /\ Has(h, "budget") => Has(h, "application")
  /\ t \in Scans => /\ Within(h, {"posting1", "opportunity1", "posting2", "opportunity2"})
                    /\ Has(h, "opportunity1") => Has(h, "posting1")
                    /\ Has(h, "opportunity2") => Has(h, "posting2")
  /\ t \in Scans \cup {"contactWorker", "closePlan"} => ~ Owns(h)

\* and where it asks for w: what it may hold already, for any transaction,
AskingWith(h, w) ==
  /\ w.mode = "update" \/ w.row = "owner"
  /\ Has(h, "plan") => Has(h, "application")
  /\ ~ Has(h, "resume")
  /\ Has(h, "evidence") => Shares(h)
  /\ Owns(h) => Has(h, "application") \/ w.row \in {"application", "resume", "evidence"}

AskingFor(h, w) ==
  /\ w.row = "job" => h = {}
  /\ w.row = "sequence" => h = {} \/ Has(h, "job")
  /\ w.row = "posting2" => h = {} \/ Has(h, "posting1")
  /\ w.row = "opportunity2" => Has(h, "posting2")
  /\ w.row = "owner" /\ w.mode = "update" =>
       h = {} \/ Has(h, "posting1") \/ Within(h, {"pack", "evidence", "sequence", "contact"})

\* and for those whose order the comments justify.
AskingInOrder(t, h, w) ==
  /\ t \in Undos /\ w.wait =>
       \/ Has(h, "application") /\ Asks(w, {"plan"})
       \/ /\ \A g \in h : g.row \in {"job", "sequence"}
          /\ Has(h, "sequence") => Has(h, "job")
  /\ t = "createContactSearch" => h = {} \/ (Has(h, "application") /\ Asks(w, {"budget", "plan"}))
  /\ t = "pursue" =>
       h = {} \/ /\ Has(h, "posting1") /\ Within(h, {"posting1", "opportunity1"})
                 /\ Asks(w, {"opportunity1", "application"})
  /\ t \in Scans =>
       /\ Asks(w, {"posting1", "opportunity1", "posting2", "opportunity2"})
       /\ w.row = "opportunity1" => Has(h, "posting1")

\* Each sequence, read off its definition.
Fits(t, q) ==
  /\ q \in Seq(Locking)
  /\ \A k \in 0..Len(q) : Holding(t, Got(q, k))
  /\ \A k \in 0..Len(q) - 1 : /\ AskingWith(Got(q, k), q[k + 1])
                              /\ AskingFor(Got(q, k), q[k + 1])
                              /\ AskingInOrder(t, Got(q, k), q[k + 1])

\* The requests of the sequences that are put together from others.
LEMMA Scan12Requests ==
  /\ Scan12 \in Seq(Locking) /\ Len(Scan12) = 6
  /\ Scan12[1] = Update("posting1") /\ Scan12[2] = KeyShare("owner")
  /\ Scan12[3] = Update("opportunity1") /\ Scan12[4] = Update("posting2")
  /\ Scan12[5] = KeyShare("owner") /\ Scan12[6] = Update("opportunity2")
<1>1. Scan12 \in Seq(Locking)
  BY DEF Scan12, PersistRole, Update, KeyShare, Locking, Rows
<1>2. Len(Scan12) = 6
  BY DEF Scan12, PersistRole
<1>3. Scan12[1] = Update("posting1")
  BY DEF Scan12, PersistRole
<1>4. Scan12[2] = KeyShare("owner")
  BY DEF Scan12, PersistRole
<1>5. Scan12[3] = Update("opportunity1")
  BY DEF Scan12, PersistRole
<1>6. Scan12[4] = Update("posting2")
  BY DEF Scan12, PersistRole
<1>7. Scan12[5] = KeyShare("owner")
  BY DEF Scan12, PersistRole
<1>8. Scan12[6] = Update("opportunity2")
  BY DEF Scan12, PersistRole
<1> QED
  BY <1>1, <1>2, <1>3, <1>4, <1>5, <1>6, <1>7, <1>8

LEMMA Scan21Requests ==
  /\ Scan21 \in Seq(Locking) /\ Len(Scan21) = 6
  /\ Scan21[1] = Update("posting2") /\ Scan21[2] = KeyShare("owner")
  /\ Scan21[3] = Update("opportunity2") /\ Scan21[4] = Update("posting1")
  /\ Scan21[5] = KeyShare("owner") /\ Scan21[6] = Update("opportunity1")
<1>1. Scan21 \in Seq(Locking)
  BY DEF Scan21, PersistRole, Update, KeyShare, Locking, Rows
<1>2. Len(Scan21) = 6
  BY DEF Scan21, PersistRole
<1>3. Scan21[1] = Update("posting2")
  BY DEF Scan21, PersistRole
<1>4. Scan21[2] = KeyShare("owner")
  BY DEF Scan21, PersistRole
<1>5. Scan21[3] = Update("opportunity2")
  BY DEF Scan21, PersistRole
<1>6. Scan21[4] = Update("posting1")
  BY DEF Scan21, PersistRole
<1>7. Scan21[5] = KeyShare("owner")
  BY DEF Scan21, PersistRole
<1>8. Scan21[6] = Update("opportunity1")
  BY DEF Scan21, PersistRole
<1> QED
  BY <1>1, <1>2, <1>3, <1>4, <1>5, <1>6, <1>7, <1>8

LEMMA ContactWorkerRequests ==
  /\ ContactWorkerLocks \in Seq(Locking) /\ Len(ContactWorkerLocks) = 6
  /\ ContactWorkerLocks[1] = Update("job") /\ ContactWorkerLocks[2] = Update("posting1")
  /\ ContactWorkerLocks[3] = Update("application") /\ ContactWorkerLocks[4] = Update("plan")
  /\ ContactWorkerLocks[5] = Update("contact") /\ ContactWorkerLocks[6] = KeyShare("owner")
<1>1. ContactWorkerLocks \in Seq(Locking)
  BY DEF ContactWorkerLocks, LockedContactGraph, Update, KeyShare, Locking, Rows
<1>2. Len(ContactWorkerLocks) = 6
  BY DEF ContactWorkerLocks, LockedContactGraph
<1>3. ContactWorkerLocks[1] = Update("job")
  BY DEF ContactWorkerLocks, LockedContactGraph
<1>4. ContactWorkerLocks[2] = Update("posting1")
  BY DEF ContactWorkerLocks, LockedContactGraph
<1>5. ContactWorkerLocks[3] = Update("application")
  BY DEF ContactWorkerLocks, LockedContactGraph
<1>6. ContactWorkerLocks[4] = Update("plan")
  BY DEF ContactWorkerLocks, LockedContactGraph
<1>7. ContactWorkerLocks[5] = Update("contact")
  BY DEF ContactWorkerLocks, LockedContactGraph
<1>8. ContactWorkerLocks[6] = KeyShare("owner")
  BY DEF ContactWorkerLocks, LockedContactGraph
<1> QED
  BY <1>1, <1>2, <1>3, <1>4, <1>5, <1>6, <1>7, <1>8

LEMMA EachFits == \A t \in Transactions : Fits(t, Requests[t])
<1> USE DEF Update, NoWait, KeyShare
<1>1. Fits("pursue", PursueLocks)
  <2>1. PursueLocks \in Seq(Locking) /\ Len(PursueLocks) = 4
    BY DEF PursueLocks, Locking, Rows
  <2>2. \A k \in 0..4 : Holding("pursue", Got(PursueLocks, k))
    BY DEF PursueLocks, Holding, Got, Has, Within, Owns, Scans
  <2>3. \A k \in 0..3 : AskingWith(Got(PursueLocks, k), PursueLocks[k + 1])
    BY DEF PursueLocks, AskingWith, Got, Has, Owns, Shares
  <2>4. \A k \in 0..3 : AskingFor(Got(PursueLocks, k), PursueLocks[k + 1])
    BY DEF PursueLocks, AskingFor, Got, Has, Within
  <2>5. \A k \in 0..3 : AskingInOrder("pursue", Got(PursueLocks, k), PursueLocks[k + 1])
    BY DEF PursueLocks, AskingInOrder, Got, Has, Within, Asks, Undos, Scans
  <2> QED
    BY <2>1, <2>2, <2>3, <2>4, <2>5 DEF Fits
<1>2. Fits("undo", UndoLocks)
  <2>1. UndoLocks \in Seq(Locking) /\ Len(UndoLocks) = 7
    BY DEF UndoLocks, Locking, Rows
  <2>2. \A k \in 0..7 : Holding("undo", Got(UndoLocks, k))
    BY DEF UndoLocks, Holding, Got, Has, Within, Owns, Scans
  <2>3. \A k \in 0..6 : AskingWith(Got(UndoLocks, k), UndoLocks[k + 1])
    BY DEF UndoLocks, AskingWith, Got, Has, Owns, Shares
  <2>4. \A k \in 0..6 : AskingFor(Got(UndoLocks, k), UndoLocks[k + 1])
    BY DEF UndoLocks, AskingFor, Got, Has, Within
  <2>5. \A k \in 0..6 : AskingInOrder("undo", Got(UndoLocks, k), UndoLocks[k + 1])
    BY DEF UndoLocks, AskingInOrder, Got, Has, Within, Asks, Undos, Scans
  <2> QED
    BY <2>1, <2>2, <2>3, <2>4, <2>5 DEF Fits
<1>3. Fits("undoBare", UndoBareLocks)
  <2>1. UndoBareLocks \in Seq(Locking) /\ Len(UndoBareLocks) = 5
    BY DEF UndoBareLocks, Locking, Rows
  <2>2. \A k \in 0..5 : Holding("undoBare", Got(UndoBareLocks, k))
    BY DEF UndoBareLocks, Holding, Got, Has, Within, Owns, Scans
  <2>3. \A k \in 0..4 : AskingWith(Got(UndoBareLocks, k), UndoBareLocks[k + 1])
    BY DEF UndoBareLocks, AskingWith, Got, Has, Owns, Shares
  <2>4. \A k \in 0..4 : AskingFor(Got(UndoBareLocks, k), UndoBareLocks[k + 1])
    BY DEF UndoBareLocks, AskingFor, Got, Has, Within
  <2>5. \A k \in 0..4 : AskingInOrder("undoBare", Got(UndoBareLocks, k), UndoBareLocks[k + 1])
    BY DEF UndoBareLocks, AskingInOrder, Got, Has, Within, Asks, Undos, Scans
  <2> QED
    BY <2>1, <2>2, <2>3, <2>4, <2>5 DEF Fits
<1>4. Fits("decide", DecideLocks)
  <2>1. DecideLocks \in Seq(Locking) /\ Len(DecideLocks) = 2
    BY DEF DecideLocks, Locking, Rows
  <2>2. \A k \in 0..2 : Holding("decide", Got(DecideLocks, k))
    BY DEF DecideLocks, Holding, Got, Has, Within, Owns, Scans
  <2>3. \A k \in 0..1 : AskingWith(Got(DecideLocks, k), DecideLocks[k + 1])
    BY DEF DecideLocks, AskingWith, Got, Has, Owns, Shares
  <2>4. \A k \in 0..1 : AskingFor(Got(DecideLocks, k), DecideLocks[k + 1])
    BY DEF DecideLocks, AskingFor, Got, Has, Within
  <2>5. \A k \in 0..1 : AskingInOrder("decide", Got(DecideLocks, k), DecideLocks[k + 1])
    BY DEF DecideLocks, AskingInOrder, Got, Has, Within, Asks, Undos, Scans
  <2> QED
    BY <2>1, <2>2, <2>3, <2>4, <2>5 DEF Fits
<1>5. Fits("scan12", Scan12)
  <2>1. \A k \in 0..6 : Holding("scan12", Got(Scan12, k))
    BY Scan12Requests, SMTT(20) DEF Holding, Got, Has, Within, Owns, Scans
  <2>2. \A k \in 0..5 : AskingWith(Got(Scan12, k), Scan12[k + 1])
    BY Scan12Requests DEF AskingWith, Got, Has, Owns, Shares
  <2>3. \A k \in 0..5 : AskingFor(Got(Scan12, k), Scan12[k + 1])
    BY Scan12Requests DEF AskingFor, Got, Has, Within
  <2>4. \A k \in 0..5 : AskingInOrder("scan12", Got(Scan12, k), Scan12[k + 1])
    BY Scan12Requests DEF AskingInOrder, Got, Has, Within, Asks, Undos, Scans
  <2> QED
    BY Scan12Requests, <2>1, <2>2, <2>3, <2>4 DEF Fits
<1>6. Fits("scan21", Scan21)
  <2>1. \A k \in 0..6 : Holding("scan21", Got(Scan21, k))
    BY Scan21Requests, SMTT(20) DEF Holding, Got, Has, Within, Owns, Scans
  <2>2. \A k \in 0..5 : AskingWith(Got(Scan21, k), Scan21[k + 1])
    BY Scan21Requests DEF AskingWith, Got, Has, Owns, Shares
  <2>3. \A k \in 0..5 : AskingFor(Got(Scan21, k), Scan21[k + 1])
    BY Scan21Requests DEF AskingFor, Got, Has, Within
  <2>4. \A k \in 0..5 : AskingInOrder("scan21", Got(Scan21, k), Scan21[k + 1])
    BY Scan21Requests DEF AskingInOrder, Got, Has, Within, Asks, Undos, Scans
  <2> QED
    BY Scan21Requests, <2>1, <2>2, <2>3, <2>4 DEF Fits
<1>7. Fits("ready", ReadyLocks)
  <2>1. ReadyLocks \in Seq(Locking) /\ Len(ReadyLocks) = 5
    BY DEF ReadyLocks, Locking, Rows
  <2>2. \A k \in 0..5 : Holding("ready", Got(ReadyLocks, k))
    BY DEF ReadyLocks, Holding, Got, Has, Within, Owns, Scans
  <2>3. \A k \in 0..4 : AskingWith(Got(ReadyLocks, k), ReadyLocks[k + 1])
    BY DEF ReadyLocks, AskingWith, Got, Has, Owns, Shares
  <2>4. \A k \in 0..4 : AskingFor(Got(ReadyLocks, k), ReadyLocks[k + 1])
    BY DEF ReadyLocks, AskingFor, Got, Has, Within
  <2>5. \A k \in 0..4 : AskingInOrder("ready", Got(ReadyLocks, k), ReadyLocks[k + 1])
    BY DEF ReadyLocks, AskingInOrder, Got, Has, Within, Asks, Undos, Scans
  <2> QED
    BY <2>1, <2>2, <2>3, <2>4, <2>5 DEF Fits
<1>8. Fits("applied", AppliedLocks)
  <2>1. AppliedLocks \in Seq(Locking) /\ Len(AppliedLocks) = 5
    BY DEF AppliedLocks, Locking, Rows
  <2>2. \A k \in 0..5 : Holding("applied", Got(AppliedLocks, k))
    BY DEF AppliedLocks, Holding, Got, Has, Within, Owns, Scans
  <2>3. \A k \in 0..4 : AskingWith(Got(AppliedLocks, k), AppliedLocks[k + 1])
    BY DEF AppliedLocks, AskingWith, Got, Has, Owns, Shares
  <2>4. \A k \in 0..4 : AskingFor(Got(AppliedLocks, k), AppliedLocks[k + 1])
    BY DEF AppliedLocks, AskingFor, Got, Has, Within
  <2>5. \A k \in 0..4 : AskingInOrder("applied", Got(AppliedLocks, k), AppliedLocks[k + 1])
    BY DEF AppliedLocks, AskingInOrder, Got, Has, Within, Asks, Undos, Scans
  <2> QED
    BY <2>1, <2>2, <2>3, <2>4, <2>5 DEF Fits
<1>9. Fits("progress", ProgressLocks)
  <2>1. ProgressLocks \in Seq(Locking) /\ Len(ProgressLocks) = 2
    BY DEF ProgressLocks, Locking, Rows
  <2>2. \A k \in 0..2 : Holding("progress", Got(ProgressLocks, k))
    BY DEF ProgressLocks, Holding, Got, Has, Within, Owns, Scans
  <2>3. \A k \in 0..1 : AskingWith(Got(ProgressLocks, k), ProgressLocks[k + 1])
    BY DEF ProgressLocks, AskingWith, Got, Has, Owns, Shares
  <2>4. \A k \in 0..1 : AskingFor(Got(ProgressLocks, k), ProgressLocks[k + 1])
    BY DEF ProgressLocks, AskingFor, Got, Has, Within
  <2>5. \A k \in 0..1 : AskingInOrder("progress", Got(ProgressLocks, k), ProgressLocks[k + 1])
    BY DEF ProgressLocks, AskingInOrder, Got, Has, Within, Asks, Undos, Scans
  <2> QED
    BY <2>1, <2>2, <2>3, <2>4, <2>5 DEF Fits
<1>10. Fits("createPack", CreatePackLocks)
  <2>1. CreatePackLocks \in Seq(Locking) /\ Len(CreatePackLocks) = 4
    BY DEF CreatePackLocks, Locking, Rows
  <2>2. \A k \in 0..4 : Holding("createPack", Got(CreatePackLocks, k))
    BY DEF CreatePackLocks, Holding, Got, Has, Within, Owns, Scans
  <2>3. \A k \in 0..3 : AskingWith(Got(CreatePackLocks, k), CreatePackLocks[k + 1])
    BY DEF CreatePackLocks, AskingWith, Got, Has, Owns, Shares
  <2>4. \A k \in 0..3 : AskingFor(Got(CreatePackLocks, k), CreatePackLocks[k + 1])
    BY DEF CreatePackLocks, AskingFor, Got, Has, Within
  <2>5. \A k \in 0..3 : AskingInOrder("createPack", Got(CreatePackLocks, k), CreatePackLocks[k + 1])
    BY DEF CreatePackLocks, AskingInOrder, Got, Has, Within, Asks, Undos, Scans
  <2> QED
    BY <2>1, <2>2, <2>3, <2>4, <2>5 DEF Fits
<1>11. Fits("createPackSoleBase", CreatePackSoleBaseLocks)
  <2>1. CreatePackSoleBaseLocks \in Seq(Locking) /\ Len(CreatePackSoleBaseLocks) = 5
    BY DEF CreatePackSoleBaseLocks, Locking, Rows
  <2>2. \A k \in 0..5 : Holding("createPackSoleBase", Got(CreatePackSoleBaseLocks, k))
    BY DEF CreatePackSoleBaseLocks, Holding, Got, Has, Within, Owns, Scans
  <2>3. \A k \in 0..4 : AskingWith(Got(CreatePackSoleBaseLocks, k), CreatePackSoleBaseLocks[k + 1])
    BY DEF CreatePackSoleBaseLocks, AskingWith, Got, Has, Owns, Shares
  <2>4. \A k \in 0..4 : AskingFor(Got(CreatePackSoleBaseLocks, k), CreatePackSoleBaseLocks[k + 1])
    BY DEF CreatePackSoleBaseLocks, AskingFor, Got, Has, Within
  <2>5. \A k \in 0..4 :
          AskingInOrder("createPackSoleBase", Got(CreatePackSoleBaseLocks, k), CreatePackSoleBaseLocks[k + 1])
    BY DEF CreatePackSoleBaseLocks, AskingInOrder, Got, Has, Within, Asks, Undos, Scans
  <2> QED
    BY <2>1, <2>2, <2>3, <2>4, <2>5 DEF Fits
<1>12. Fits("revisePack", RevisePackLocks)
  <2>1. RevisePackLocks \in Seq(Locking) /\ Len(RevisePackLocks) = 4
    BY DEF RevisePackLocks, Locking, Rows
  <2>2. \A k \in 0..4 : Holding("revisePack", Got(RevisePackLocks, k))
    BY DEF RevisePackLocks, Holding, Got, Has, Within, Owns, Scans
  <2>3. \A k \in 0..3 : AskingWith(Got(RevisePackLocks, k), RevisePackLocks[k + 1])
    BY DEF RevisePackLocks, AskingWith, Got, Has, Owns, Shares
  <2>4. \A k \in 0..3 : AskingFor(Got(RevisePackLocks, k), RevisePackLocks[k + 1])
    BY DEF RevisePackLocks, AskingFor, Got, Has, Within
  <2>5. \A k \in 0..3 : AskingInOrder("revisePack", Got(RevisePackLocks, k), RevisePackLocks[k + 1])
    BY DEF RevisePackLocks, AskingInOrder, Got, Has, Within, Asks, Undos, Scans
  <2> QED
    BY <2>1, <2>2, <2>3, <2>4, <2>5 DEF Fits
<1>13. Fits("approveArtifact", ApproveArtifactLocks)
  <2>1. ApproveArtifactLocks \in Seq(Locking) /\ Len(ApproveArtifactLocks) = 5
    BY DEF ApproveArtifactLocks, Locking, Rows
  <2>2. \A k \in 0..5 : Holding("approveArtifact", Got(ApproveArtifactLocks, k))
    BY DEF ApproveArtifactLocks, Holding, Got, Has, Within, Owns, Scans
  <2>3. \A k \in 0..4 : AskingWith(Got(ApproveArtifactLocks, k), ApproveArtifactLocks[k + 1])
    BY DEF ApproveArtifactLocks, AskingWith, Got, Has, Owns, Shares
  <2>4. \A k \in 0..4 : AskingFor(Got(ApproveArtifactLocks, k), ApproveArtifactLocks[k + 1])
    BY DEF ApproveArtifactLocks, AskingFor, Got, Has, Within
  <2>5. \A k \in 0..4 :
          AskingInOrder("approveArtifact", Got(ApproveArtifactLocks, k), ApproveArtifactLocks[k + 1])
    BY DEF ApproveArtifactLocks, AskingInOrder, Got, Has, Within, Asks, Undos, Scans
  <2> QED
    BY <2>1, <2>2, <2>3, <2>4, <2>5 DEF Fits
<1>14. Fits("editEvidence", EditEvidenceLocks)
  <2>1. EditEvidenceLocks \in Seq(Locking) /\ Len(EditEvidenceLocks) = 2
    BY DEF EditEvidenceLocks, Locking, Rows
  <2>2. \A k \in 0..2 : Holding("editEvidence", Got(EditEvidenceLocks, k))
    BY DEF EditEvidenceLocks, Holding, Got, Has, Within, Owns, Scans
  <2>3. \A k \in 0..1 : AskingWith(Got(EditEvidenceLocks, k), EditEvidenceLocks[k + 1])
    BY DEF EditEvidenceLocks, AskingWith, Got, Has, Owns, Shares
  <2>4. \A k \in 0..1 : AskingFor(Got(EditEvidenceLocks, k), EditEvidenceLocks[k + 1])
    BY DEF EditEvidenceLocks, AskingFor, Got, Has, Within
  <2>5. \A k \in 0..1 :
          AskingInOrder("editEvidence", Got(EditEvidenceLocks, k), EditEvidenceLocks[k + 1])
    BY DEF EditEvidenceLocks, AskingInOrder, Got, Has, Within, Asks, Undos, Scans
  <2> QED
    BY <2>1, <2>2, <2>3, <2>4, <2>5 DEF Fits
<1>15. Fits("createContactSearch", CreateContactSearchLocks)
  <2>1. CreateContactSearchLocks \in Seq(Locking) /\ Len(CreateContactSearchLocks) = 4
    BY DEF CreateContactSearchLocks, Locking, Rows
  <2>2. \A k \in 0..4 : Holding("createContactSearch", Got(CreateContactSearchLocks, k))
    BY DEF CreateContactSearchLocks, Holding, Got, Has, Within, Owns, Scans
  <2>3. \A k \in 0..3 :
          AskingWith(Got(CreateContactSearchLocks, k), CreateContactSearchLocks[k + 1])
    BY DEF CreateContactSearchLocks, AskingWith, Got, Has, Owns, Shares
  <2>4. \A k \in 0..3 : AskingFor(Got(CreateContactSearchLocks, k), CreateContactSearchLocks[k + 1])
    BY DEF CreateContactSearchLocks, AskingFor, Got, Has, Within
  <2>5. \A k \in 0..3 :
          AskingInOrder("createContactSearch", Got(CreateContactSearchLocks, k), CreateContactSearchLocks[k + 1])
    BY DEF CreateContactSearchLocks, AskingInOrder, Got, Has, Within, Asks, Undos, Scans
  <2> QED
    BY <2>1, <2>2, <2>3, <2>4, <2>5 DEF Fits
<1>16. Fits("contactWorker", ContactWorkerLocks)
  <2>1. \A k \in 0..6 : Holding("contactWorker", Got(ContactWorkerLocks, k))
    BY ContactWorkerRequests, SMTT(20) DEF Holding, Got, Has, Within, Owns, Scans
  <2>2. \A k \in 0..5 : AskingWith(Got(ContactWorkerLocks, k), ContactWorkerLocks[k + 1])
    BY ContactWorkerRequests DEF AskingWith, Got, Has, Owns, Shares
  <2>3. \A k \in 0..5 : AskingFor(Got(ContactWorkerLocks, k), ContactWorkerLocks[k + 1])
    BY ContactWorkerRequests DEF AskingFor, Got, Has, Within
  <2>4. \A k \in 0..5 :
          AskingInOrder("contactWorker", Got(ContactWorkerLocks, k), ContactWorkerLocks[k + 1])
    BY ContactWorkerRequests DEF AskingInOrder, Got, Has, Within, Asks, Undos, Scans
  <2> QED
    BY ContactWorkerRequests, <2>1, <2>2, <2>3, <2>4 DEF Fits
<1>17. Fits("closePlan", ClosePlanLocks)
  <2>1. ClosePlanLocks \in Seq(Locking) /\ Len(ClosePlanLocks) = 2
    BY DEF ClosePlanLocks, Locking, Rows
  <2>2. \A k \in 0..2 : Holding("closePlan", Got(ClosePlanLocks, k))
    BY DEF ClosePlanLocks, Holding, Got, Has, Within, Owns, Scans
  <2>3. \A k \in 0..1 : AskingWith(Got(ClosePlanLocks, k), ClosePlanLocks[k + 1])
    BY DEF ClosePlanLocks, AskingWith, Got, Has, Owns, Shares
  <2>4. \A k \in 0..1 : AskingFor(Got(ClosePlanLocks, k), ClosePlanLocks[k + 1])
    BY DEF ClosePlanLocks, AskingFor, Got, Has, Within
  <2>5. \A k \in 0..1 : AskingInOrder("closePlan", Got(ClosePlanLocks, k), ClosePlanLocks[k + 1])
    BY DEF ClosePlanLocks, AskingInOrder, Got, Has, Within, Asks, Undos, Scans
  <2> QED
    BY <2>1, <2>2, <2>3, <2>4, <2>5 DEF Fits
<1>18. Fits("startOutreach", StartOutreachLocks)
  <2>1. StartOutreachLocks \in Seq(Locking) /\ Len(StartOutreachLocks) = 4
    BY DEF StartOutreachLocks, Locking, Rows
  <2>2. \A k \in 0..4 : Holding("startOutreach", Got(StartOutreachLocks, k))
    BY DEF StartOutreachLocks, Holding, Got, Has, Within, Owns, Scans
  <2>3. \A k \in 0..3 : AskingWith(Got(StartOutreachLocks, k), StartOutreachLocks[k + 1])
    BY DEF StartOutreachLocks, AskingWith, Got, Has, Owns, Shares
  <2>4. \A k \in 0..3 : AskingFor(Got(StartOutreachLocks, k), StartOutreachLocks[k + 1])
    BY DEF StartOutreachLocks, AskingFor, Got, Has, Within
  <2>5. \A k \in 0..3 :
          AskingInOrder("startOutreach", Got(StartOutreachLocks, k), StartOutreachLocks[k + 1])
    BY DEF StartOutreachLocks, AskingInOrder, Got, Has, Within, Asks, Undos, Scans
  <2> QED
    BY <2>1, <2>2, <2>3, <2>4, <2>5 DEF Fits
<1>19. Fits("recordCopy", RecordCopyLocks)
  <2>1. RecordCopyLocks \in Seq(Locking) /\ Len(RecordCopyLocks) = 4
    BY DEF RecordCopyLocks, Locking, Rows
  <2>2. \A k \in 0..4 : Holding("recordCopy", Got(RecordCopyLocks, k))
    BY DEF RecordCopyLocks, Holding, Got, Has, Within, Owns, Scans
  <2>3. \A k \in 0..3 : AskingWith(Got(RecordCopyLocks, k), RecordCopyLocks[k + 1])
    BY DEF RecordCopyLocks, AskingWith, Got, Has, Owns, Shares
  <2>4. \A k \in 0..3 : AskingFor(Got(RecordCopyLocks, k), RecordCopyLocks[k + 1])
    BY DEF RecordCopyLocks, AskingFor, Got, Has, Within
  <2>5. \A k \in 0..3 : AskingInOrder("recordCopy", Got(RecordCopyLocks, k), RecordCopyLocks[k + 1])
    BY DEF RecordCopyLocks, AskingInOrder, Got, Has, Within, Asks, Undos, Scans
  <2> QED
    BY <2>1, <2>2, <2>3, <2>4, <2>5 DEF Fits
<1> QED
  BY <1>1, <1>2, <1>3, <1>4, <1>5, <1>6, <1>7, <1>8, <1>9, <1>10, <1>11, <1>12, <1>13, <1>14,
     <1>15, <1>16, <1>17, <1>18, <1>19 DEF Transactions, Requests

-----------------------------------------------------------------------------
(***************************************************************************)
(* Locks of two sessions never conflict, and each session stands somewhere *)
(* in the sequence of its transaction.                                     *)
(***************************************************************************)
LEMMA Advance ==
  ASSUME NEW q \in Seq(Locking), NEW k \in 0..Len(q)
  PROVE  /\ Left(q, 0) = q /\ Got(q, 0) = {}
         /\ Left(q, k) \in Seq(Locking) /\ Got(q, k) \subseteq Locking
         /\ Left(q, k) = <<>> <=> k = Len(q)
         /\ k < Len(q) =>
              /\ Head(Left(q, k)) = q[k + 1] /\ q[k + 1] \in Locking
              /\ Tail(Left(q, k)) = Left(q, k + 1)
              /\ Got(q, k) \cup {q[k + 1]} = Got(q, k + 1)
<1>1. Left(q, 0) = q /\ Got(q, 0) = {}
  BY DEF Left, Got
<1>2. Left(q, k) \in Seq(Locking) /\ Got(q, k) \subseteq Locking
  BY DEF Left, Got
<1>3. Left(q, k) = <<>> <=> k = Len(q)
  <2>1. Len(Left(q, k)) = Len(q) - k
    BY DEF Left
  <2> QED
    BY <1>2, <2>1
<1>4. ASSUME k < Len(q)
      PROVE  /\ Head(Left(q, k)) = q[k + 1] /\ q[k + 1] \in Locking
             /\ Tail(Left(q, k)) = Left(q, k + 1)
             /\ Got(q, k) \cup {q[k + 1]} = Got(q, k + 1)
  <2>1. Head(Left(q, k)) = q[k + 1] /\ q[k + 1] \in Locking
    BY <1>4 DEF Left
  <2>2. Tail(Left(q, k)) = Left(q, k + 1)
    BY <1>4, <1>2 DEF Left
  <2>3. Got(q, k) \cup {q[k + 1]} = Got(q, k + 1)
    BY <1>4 DEF Got
  <2> QED
    BY <2>1, <2>2, <2>3
<1> QED
  BY <1>1, <1>2, <1>3, <1>4

\* A session that runs nothing runs no transaction.
LEMMA IdleIsNone == "idle" \notin Transactions
BY DEF Transactions, Requests

LEMMA LocksInitially == LockInit => LockInv
BY DEF LockInit, LockInv, InPlace, Stands, Exclusion

LEMMA LocksStep == LockInv /\ [LockNext]_lockVars => LockInv'
<1> SUFFICES ASSUME LockInv, [LockNext]_lockVars PROVE LockInv'
  OBVIOUS
<1>1. CASE UNCHANGED lockVars
  BY <1>1 DEF lockVars, LockInv, InPlace, Exclusion
<1>2. ASSUME NEW s \in Connections, Ended(s) PROVE LockInv'
  BY <1>2 DEF Ended, LockInv, InPlace, Stands, Exclusion
<1>3. ASSUME NEW s \in Connections, NEW t \in Transactions, BeginTransaction(s, t) PROVE LockInv'
  <2> DEFINE q == Requests[t]
  <2>1. q \in Seq(Locking) /\ Left(q, 0) = q /\ Got(q, 0) = {} /\ 0 \in 0..Len(q)
    BY EachFits, Advance DEF Fits
  <2>2. held[s] = {}
    BY <1>3, IdleIsNone DEF BeginTransaction, Running, LockInv, InPlace, Stands
  <2>3. txn' = [txn EXCEPT ![s] = t] /\ todo' = [todo EXCEPT ![s] = q] /\ held' = held
    BY <1>3 DEF BeginTransaction
  <2> HIDE DEF q
  <2>4. /\ txn' \in [Connections -> Transactions \cup {"idle"}]
        /\ todo' \in [Connections -> Seq(Locking)] /\ held' \in [Connections -> SUBSET Locking]
    BY <2>1, <2>3 DEF LockInv
  <2>5. InPlace'
    <3>1. txn'[s] = t /\ todo'[s] = Left(q, 0) /\ held'[s] = Got(q, 0)
      BY <2>1, <2>2, <2>3 DEF LockInv
    <3>2. Stands(txn'[s], todo'[s], held'[s])
      BY <2>1, <3>1 DEF Stands, q
    <3>3. \A r \in Connections \ {s} : Stands(txn'[r], todo'[r], held'[r])
      BY <2>3 DEF LockInv, InPlace
    <3> QED
      BY <3>2, <3>3 DEF InPlace
  <2>6. Exclusion'
    BY <2>3 DEF LockInv, Exclusion
  <2> QED
    BY <2>4, <2>5, <2>6 DEF LockInv
<1>4. ASSUME NEW s \in Connections, Acquire(s) PROVE LockInv'
  <2> DEFINE q == Requests[txn[s]]
  <2>1. PICK k \in 0..Len(q) : /\ txn[s] \in Transactions /\ todo[s] = Left(q, k)
                               /\ held[s] = Got(q, k)
    BY <1>4 DEF Acquire, Pending, LockInv, InPlace, Stands
  <2>2. q \in Seq(Locking)
    BY <2>1, EachFits DEF Fits
  <2>3. /\ txn' = txn /\ todo' = [todo EXCEPT ![s] = Tail(todo[s])]
        /\ held' = [held EXCEPT ![s] = held[s] \cup {Request(s)}]
    BY <1>4 DEF Acquire
  <2>4. todo[s] # <<>> /\ ~ Conflict(s)
    BY <1>4 DEF Acquire, Pending
  <2> HIDE DEF q
  <2>5. k < Len(q) /\ k + 1 \in 0..Len(q)
    BY <2>1, <2>2, <2>4, Advance
  <2>6. /\ Tail(todo[s]) = Left(q, k + 1) /\ held[s] \cup {Request(s)} = Got(q, k + 1)
        /\ Request(s) \in Locking
    <3>1. /\ Head(Left(q, k)) = q[k + 1] /\ q[k + 1] \in Locking
          /\ Tail(Left(q, k)) = Left(q, k + 1)
          /\ Got(q, k) \cup {q[k + 1]} = Got(q, k + 1)
      BY <2>2, <2>5, Advance
    <3>2. Request(s) = q[k + 1]
      BY <2>1, <3>1 DEF Request
    <3> QED
      BY <2>1, <3>1, <3>2
  <2>7. Left(q, k + 1) \in Seq(Locking) /\ Got(q, k + 1) \subseteq Locking
    BY <2>2, <2>5, Advance
  <2>8. /\ txn' \in [Connections -> Transactions \cup {"idle"}]
        /\ todo' \in [Connections -> Seq(Locking)] /\ held' \in [Connections -> SUBSET Locking]
    BY <2>3, <2>6, <2>7 DEF LockInv
  <2>9. InPlace'
    <3>1. todo'[s] = Left(q, k + 1) /\ held'[s] = Got(q, k + 1)
      BY <2>3, <2>6 DEF LockInv
    <3>2. Stands(txn'[s], todo'[s], held'[s])
      BY <2>1, <2>3, <2>5, <3>1 DEF Stands, q
    <3>3. \A r \in Connections \ {s} : Stands(txn'[r], todo'[r], held'[r])
      BY <2>3 DEF LockInv, InPlace
    <3> QED
      BY <3>2, <3>3 DEF InPlace
  <2>10. Exclusion'
    <3>1. \A r \in Connections \ {s} : \A g \in held[r] :
            g.row = Request(s).row => "update" \notin {g.mode, Request(s).mode}
      BY <2>4 DEF Conflict, Blocks
    <3>2. /\ held'[s] = held[s] \cup {Request(s)}
          /\ \A r \in Connections \ {s} : held'[r] = held[r]
      BY <2>3 DEF LockInv
    <3> SUFFICES ASSUME NEW a \in Connections, NEW b \in Connections, a # b,
                        NEW g \in held'[a], NEW h \in held'[b], g.row = h.row
                 PROVE  "update" \notin {g.mode, h.mode}
      BY DEF Exclusion
    <3>3. CASE a # s /\ b # s
      BY <3>2, <3>3 DEF LockInv, Exclusion
    <3>4. CASE a = s
      BY <3>1, <3>2, <3>4 DEF LockInv, Exclusion
    <3>5. CASE b = s
      BY <3>1, <3>2, <3>5 DEF LockInv, Exclusion
    <3> QED
      BY <3>3, <3>4, <3>5
  <2> QED
    BY <2>8, <2>9, <2>10 DEF LockInv
<1> QED
  BY <1>1, <1>2, <1>3, <1>4 DEF LockNext, Refuse, CommitTransaction, BreakDeadlock

\* What a sequence says of the session that runs it.
LEMMA Standing ==
  ASSUME LockInv, NEW s \in Connections
  PROVE  /\ Holding(txn[s], held[s])
         /\ Pending(s) => /\ txn[s] \in Transactions
                          /\ AskingWith(held[s], Request(s))
                          /\ AskingFor(held[s], Request(s))
                          /\ AskingInOrder(txn[s], held[s], Request(s))
<1>1. CASE txn[s] = "idle" /\ todo[s] = <<>> /\ held[s] = {}
  BY <1>1 DEF Pending, Holding, Has, Owns, Scans
<1>2. CASE txn[s] \in Transactions /\ \E k \in 0..Len(Requests[txn[s]]) :
             todo[s] = Left(Requests[txn[s]], k) /\ held[s] = Got(Requests[txn[s]], k)
  <2> DEFINE q == Requests[txn[s]]
  <2>1. PICK k \in 0..Len(q) : todo[s] = Left(q, k) /\ held[s] = Got(q, k)
    BY <1>2
  <2>2. Fits(txn[s], q)
    BY <1>2, EachFits
  <2> HIDE DEF q
  <2>3. q \in Seq(Locking) /\ Holding(txn[s], held[s])
    BY <2>1, <2>2 DEF Fits
  <2>4. ASSUME Pending(s) PROVE k \in 0..Len(q) - 1 /\ Request(s) = q[k + 1]
    BY <2>1, <2>3, <2>4, Advance DEF Pending, Request
  <2> QED
    BY <1>2, <2>1, <2>2, <2>3, <2>4 DEF Fits
<1> QED
  BY <1>1, <1>2 DEF LockInv, InPlace, Stands

-----------------------------------------------------------------------------
(***************************************************************************)
(* Who can wait for whom.                                                  *)
(***************************************************************************)
\* A waiting session is blocked by a holder of the row it asks for.
LEMMA Blocked ==
  ASSUME LockInv, NEW s \in Connections, NEW r \in Connections, WaitsFor(s, r)
  PROVE  /\ s # r /\ Pending(s) /\ Request(s).wait /\ held[r] # {}
         /\ Has(held[r], Request(s).row)
         /\ Request(s).row = "owner" /\ Request(s).mode = "share" => Owns(held[r])
<1>1. s # r /\ Pending(s) /\ Request(s).wait /\ Blocks(r, Request(s))
  BY DEF WaitsFor
<1>2. PICK g \in held[r] : g.row = Request(s).row /\ "update" \in {g.mode, Request(s).mode}
  BY <1>1 DEF Blocks
<1> QED
  BY <1>1, <1>2 DEF Has, Owns

\* No two sessions have the same row, but for shares of the owner.
LEMMA Alone ==
  ASSUME LockInv, NEW s \in Connections, NEW r \in Connections, s # r
  PROVE  /\ \A row : Has(held[s], row) /\ Has(held[r], row) => row = "owner"
         /\ Owns(held[s]) => ~ Shares(held[r])
<1>1. ASSUME NEW g \in held[s], NEW h \in held[r], g.row = h.row
      PROVE  g.mode # "update" /\ h.mode # "update"
  BY <1>1 DEF LockInv, Exclusion
<1>2. (\A g \in held[s] : g.mode = "update" \/ g.row = "owner")
  BY Standing DEF Holding
<1> QED
  BY <1>1, <1>2 DEF Has, Owns, Shares

\* Nobody waits for a session without locks.
LEMMA Unawaited ==
  ASSUME LockInv, NEW s \in Connections, NEW r \in Connections, s # r, held[r] = {}
  PROVE  ~ Reaches(s, r)
<1> DEFINE X == Connections \ {r}
<1>1. Closed(X, s)
  BY Blocked DEF Closed
<1> QED
  BY <1>1 DEF Reaches

\* A session that does not wait reaches nobody.
LEMMA Unwaiting ==
  ASSUME NEW s \in Connections, NEW r \in Connections, ~ (Pending(s) /\ Request(s).wait)
  PROVE  ~ Reaches(s, r)
<1>1. Closed({}, s)
  BY DEF Closed, WaitsFor
<1> QED
  BY <1>1 DEF Reaches

(***************************************************************************)
(* From a holder of the application that asks for the plan the waiting     *)
(* leads to sessions that wait no more, and to those that hold the owner.  *)
(***************************************************************************)
LEMMA FromThePlan ==
  ASSUME LockInv, NEW s \in Connections, NEW r \in Connections, s # r,
         Has(held[s], "application"), Asks(Request(s), {"budget", "plan"}),
         Pending(r), ~ Owns(held[r])
  PROVE  ~ Reaches(s, r)
<1> DEFINE X == {s} \cup {y \in Connections : ~ Pending(y) \/ Owns(held[y])}
<1>1. ASSUME NEW y \in Connections, y # s PROVE ~ Has(held[y], "application")
  BY <1>1, Alone
<1>2. ASSUME NEW y \in Connections, WaitsFor(s, y) PROVE y \in X
  <2>1. s # y /\ ~ Has(held[y], "application")
    BY <1>1, <1>2, Blocked
  <2>2. CASE Request(s).row = "budget"
    BY <1>2, <2>1, <2>2, Blocked, Standing DEF Holding
  <2>3. CASE Request(s).row = "plan"
    BY <1>2, <2>1, <2>3, Blocked, Standing DEF AskingWith
  <2>4. CASE Request(s).row = "owner" /\ Request(s).mode = "share"
    BY <1>2, <2>4, Blocked
  <2> QED
    BY <2>2, <2>3, <2>4 DEF Asks
<1>3. ASSUME NEW x \in Connections, x # s, Owns(held[x]),
             NEW y \in Connections, WaitsFor(x, y)
      PROVE  y \in X
  <2>1. x # y /\ Pending(x) /\ Has(held[y], Request(x).row)
    BY <1>3, Blocked
  <2>2. Request(x).row \in {"application", "resume", "evidence"}
    BY <1>1, <1>3, <2>1, Standing DEF AskingWith
  <2>3. CASE Request(x).row = "application"
    BY <1>1, <2>1, <2>3
  <2>4. CASE Request(x).row = "resume"
    BY <2>1, <2>4, Standing DEF AskingWith
  <2>5. CASE Request(x).row = "evidence"
    <3>1. ~ Shares(held[y])
      BY <1>3, <2>1, Alone
    <3> QED
      BY <2>1, <2>5, <3>1, Standing DEF AskingWith
  <2> QED
    BY <2>2, <2>3, <2>4, <2>5
<1>4. Closed(X, s)
  <2>1. ASSUME NEW x \in X \cup {s}, NEW y \in Connections, WaitsFor(x, y) PROVE y \in X
    BY <1>2, <1>3, <2>1, Blocked
  <2> QED
    BY <2>1 DEF Closed
<1>5. X \in SUBSET Connections /\ r \notin X
  OBVIOUS
<1> QED
  BY <1>4, <1>5 DEF Reaches

(***************************************************************************)
(* An undo that has locked the contact job and the sequence at most is     *)
(* waited for by sessions without locks only.                              *)
(***************************************************************************)
LEMMA ToTheSequence ==
  ASSUME LockInv, NEW s \in Connections, NEW r \in Connections, s # r, held[r] # {},
         \A g \in held[s] : g.row \in {"job", "sequence"},
         Has(held[s], "sequence") => Has(held[s], "job")
  PROVE  ~ Reaches(r, s)
<1> DEFINE X == {x \in Connections \ {s} : held[x] # {}}
<1>1. ASSUME NEW x \in Connections, x # s, held[x] # {} PROVE ~ WaitsFor(x, s)
  <2> SUFFICES ASSUME WaitsFor(x, s) PROVE FALSE
    OBVIOUS
  <2>1. Pending(x) /\ Has(held[s], Request(x).row)
    BY Blocked
  <2>2. Request(x).row \in {"job", "sequence"}
    BY <2>1 DEF Has
  <2>3. AskingFor(held[x], Request(x))
    BY <2>1, Standing
  <2>4. Has(held[x], "job") /\ Has(held[s], "job")
    BY <1>1, <2>1, <2>2, <2>3 DEF AskingFor
  <2> QED
    BY <1>1, <2>4, Alone
<1>2. Closed(X, r)
  BY <1>1, Blocked DEF Closed
<1> QED
  BY <1>2 DEF Reaches

-----------------------------------------------------------------------------
LEMMA EachApart ==
  ASSUME LockInv,
         NEW s \in Connections, txn[s] \in Undos \cup {"createContactSearch"},
         NEW r \in Connections, txn[r] \in Scans \cup {"contactWorker", "closePlan"}
  PROVE  ~ (Reaches(s, r) /\ Reaches(r, s))
<1>1. s # r
  BY DEF Undos, Scans
<1>2. CASE ~ (Pending(s) /\ Request(s).wait) \/ ~ Pending(r)
  BY <1>2, Unwaiting
<1>3. CASE Pending(s) /\ Request(s).wait /\ Pending(r)
  <2>1. ~ Owns(held[r])
    BY Standing DEF Holding
  <2>2. CASE Has(held[s], "application") /\ Asks(Request(s), {"budget", "plan"})
    BY <1>1, <1>3, <2>1, <2>2, FromThePlan
  <2>3. CASE held[s] = {} \/ held[r] = {}
    BY <1>1, <2>3, Unawaited
  <2>4. CASE /\ \A g \in held[s] : g.row \in {"job", "sequence"}
             /\ Has(held[s], "sequence") => Has(held[s], "job")
    BY <1>1, <2>3, <2>4, ToTheSequence
  <2> QED
    BY <1>3, <2>2, <2>3, <2>4, Standing DEF AskingInOrder, Asks
<1> QED
  BY <1>2, <1>3

LEMMA PursuitApart ==
  ASSUME LockInv, NEW s \in Connections, txn[s] = "pursue",
         NEW r \in Connections, txn[r] \in Scans
  PROVE  /\ ~ (WaitsFor(s, r) /\ WaitsWithin(r, s))
         /\ ~ (WaitsWithin(s, r) /\ WaitsFor(r, s))
<1> DEFINE roles == {"posting1", "opportunity1", "posting2", "opportunity2"}
<1>1. s # r
  BY DEF Scans
<1>2. /\ Within(held[r], roles) /\ ~ Owns(held[r])
      /\ Has(held[r], "opportunity1") => Has(held[r], "posting1")
      /\ Has(held[r], "opportunity2") => Has(held[r], "posting2")
  BY Standing DEF Holding
<1>3. CASE \A x \in Connections : ~ WaitsFor(x, s)
  BY <1>3 DEF WaitsWithin
<1>4. CASE \E x \in Connections : WaitsFor(x, s)
  <2>1. held[s] # {}
    BY <1>4, Blocked
  <2>2. ASSUME Pending(s)
        PROVE  /\ Has(held[s], "posting1") /\ Within(held[s], {"posting1", "opportunity1"})
               /\ Asks(Request(s), {"opportunity1", "application"})
    BY <2>1, <2>2, Standing DEF AskingInOrder
  <2>3. ~ WaitsFor(s, r)
    <3> SUFFICES ASSUME WaitsFor(s, r) PROVE FALSE
      OBVIOUS
    <3>1. ~ Has(held[r], "posting1") /\ ~ Has(held[r], "opportunity1")
      BY <1>1, <1>2, <2>2, Alone, Blocked
    <3>2. ~ Has(held[r], "application")
      BY <1>2 DEF Within, Has
    <3> QED
      BY <1>2, <2>2, <3>1, <3>2, Blocked DEF Asks
  <2>4. ASSUME WaitsFor(r, s), WaitsWithin(s, r) PROVE FALSE
    <3>1. PICK x \in Connections : WaitsFor(s, x) /\ WaitsFor(x, r)
      BY <2>3, <2>4 DEF WaitsWithin
    <3>2. Pending(s) /\ Pending(x) /\ s # x /\ x # r /\ held[x] # {}
      BY <3>1, Blocked
    <3>3. ~ Has(held[r], "posting1") /\ ~ Has(held[r], "opportunity1") /\ ~ Has(held[x], "posting1")
      BY <1>1, <1>2, <2>2, <3>2, Alone
    <3>4. Request(x).row \in {"posting2", "opportunity2", "owner"} /\ Has(held[r], Request(x).row)
      BY <1>2, <3>1, <3>3, Blocked DEF Within, Has
    <3>5. AskingFor(held[x], Request(x)) /\ AskingWith(held[x], Request(x))
      BY <3>2, Standing
    <3>6. Request(x).row # "posting2"
      BY <3>2, <3>3, <3>5 DEF AskingFor
    <3>7. Request(x).row # "opportunity2"
      BY <1>2, <3>2, <3>4, <3>5, Alone DEF AskingFor
    <3>8. ASSUME Request(x).row = "owner", Request(x).mode = "update" PROVE FALSE
      <4>1. Within(held[x], {"pack", "evidence", "sequence", "contact"})
        BY <3>2, <3>3, <3>5, <3>8 DEF AskingFor
      <4>2. ~ Has(held[x], "opportunity1") /\ ~ Has(held[x], "application") /\ ~ Owns(held[x])
        BY <4>1 DEF Within, Has, Owns
      <4> QED
        BY <2>2, <3>1, <3>2, <4>2, Blocked DEF Asks
    <3>9. Request(x).mode \in {"update", "share"}
      <4>1. todo[x] \in Seq(Locking) /\ todo[x] # <<>>
        BY <3>2 DEF LockInv, Pending
      <4>2. Head(todo[x]) \in Locking
        BY <4>1
      <4> QED
        BY <4>2 DEF Request, Locking
    <3> QED
      BY <1>2, <3>1, <3>4, <3>6, <3>7, <3>8, <3>9, Blocked
  <2> QED
    BY <2>3, <2>4
<1> QED
  BY <1>3, <1>4

LEMMA LocksHold == LockSpec => []LockInv
<1> QED
  BY LocksInitially, LocksStep, PTL DEF LockSpec

\* No undo and no scan, no pursuit and no scan, alone or through a third transaction, and
\* neither an undo nor the creation of a contact search with a contact worker or a
\* reconciliation, wait for each other, however many sessions run whatever transactions.
THEOREM OrderedLocks == LockSpec => []OrdersHold
<1>1. LockInv => OrdersHold
  BY EachApart, PursuitApart DEF OrdersHold, Apart, ApartInThrees
<1> QED
  BY <1>1, LocksHold, PTL
=============================================================================
