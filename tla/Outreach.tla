------------------------------ MODULE Outreach ------------------------------
(***************************************************************************)
(* The manual outreach of one owner: for each application a sequence over  *)
(* the people of its completed contact bench.  People are the owner's, so  *)
(* the same person can be on the benches of several applications, and the  *)
(* limits on how often people and companies are written to span them.      *)
(*                                                                         *)
(* A command holds the row of the sequence, of the person and, when it     *)
(* releases a first message, of the owner, so it is one action; but it     *)
(* read its clock before it waited for those rows.  A command on a version *)
(* that is not the latest is refused, so within a sequence clocks are in   *)
(* order.  The days of a week are alike; a bench is of one company; a      *)
(* sequence has one wave, because the start puts everybody in the first.   *)
(***************************************************************************)
EXTENDS Integers, FiniteSets

CONSTANTS
  Apps,
  People,
  Cold,            \* people who are neither recruiters nor warm paths
  PersonCooldown,  \* PERSON_COOLDOWN_DAYS
  ColdWindow,      \* COMPANY_COLD_WINDOW_DAYS
  ColdLimit,       \* COMPANY_COLD_LIMIT
  FollowUpAfter,   \* FOLLOW_UP_BUSINESS_DAYS
  NoReplyAfter,    \* NO_REPLY_WITHOUT_FOLLOW_UP_BUSINESS_DAYS
  MaxWait,         \* bound: how long a command waits for its rows
  MaxDrafts,       \* bound: versions of a message
  MaxClock         \* bound of the clock

VARIABLES
  clock,
  over,        \* applications with an interview round or past the contactable stages
  sequence,    \* status of the sequence of an application
  bench,       \* bench_state of the people on its bench
  drafts,      \* latest version of each message
  log,         \* copied and marked_sent events
  answered,    \* people an outcome or a reply is recorded of, per application
  restricted   \* people who asked not to be contacted

outreachVars == <<clock, over, sequence, bench, drafts, log, answered, restricted>>

Kinds == {"initial", "follow_up"}

Fresh == [p \in People |-> IF p \in restricted THEN "excluded" ELSE "reserve"]

NoDrafts == [p \in People |-> [k \in Kinds |-> 0]]

OutreachInit == /\ clock = 0 /\ over = {} /\ restricted = {}
                /\ sequence = [a \in Apps |-> "none"]
                /\ bench = [a \in Apps |-> Fresh]
                /\ drafts = [a \in Apps |-> NoDrafts]
                /\ log = {} /\ answered = {}

(***************************************************************************)
(* What is known of a person and of the company.                           *)
(***************************************************************************)
EventsOf(a, p, kind, event) ==
  {e \in log : e.app = a /\ e.person = p /\ e.kind = kind /\ e.event = event}

Releases == {e \in log : e.kind = "initial"}

\* Mutant of Cooled: the last release counts only if it was marked as sent.
CooledSinceSent(p, others, at) ==
  \A e \in Releases : e.person = p /\ e.app \in others /\ e.event = "sent"
                        => e.at + PersonCooldown <= at

\* _last_initial_release_for_contact, over the given applications.
Cooled(p, others, at) ==
  \A e \in Releases : e.person = p /\ e.app \in others => e.at + PersonCooldown <= at

\* cooldown_until of a person who is ready: the last release of the application itself.
Cooling(a, p) == \E e \in Releases : e.app = a /\ e.person = p /\ e.at + PersonCooldown > clock

\* Mutant of RoomAtCompany: a release on the first day of the window is not counted.
RoomSinceDayAfter(p, at) ==
  p \notin Cold \/ Cardinality({e.person : e \in {x \in Releases :
    x.person \in Cold \ {p} /\ x.at > at - ColdWindow}}) < ColdLimit

\* _enforce_company_cold_limit.
RoomAtCompany(p, at) ==
  p \notin Cold \/ Cardinality({e.person : e \in {x \in Releases :
    x.person \in Cold \ {p} /\ x.at >= at - ColdWindow}}) < ColdLimit

\* When a command of the sequence may have read its clock.
Clock(a) == {t \in (clock - MaxWait)..clock : t >= 0 /\ \A e \in log : e.app = a => e.at <= t}

(***************************************************************************)
(* What the commands do to the rows of a sequence.                         *)
(***************************************************************************)
Bench(a, from, to) == [p \in People |-> IF bench[a][p] \in from THEN to ELSE bench[a][p]]

\* _stop_sequence_rows, _pause_sequence_rows.
Stopped(a) == /\ sequence' = [sequence EXCEPT ![a] = "stopped"]
              /\ bench' = [bench EXCEPT ![a] = Bench(a, {"ready", "paused"}, "stopped")]

Paused(a, row) ==
  /\ sequence' = [sequence EXCEPT ![a] = "paused"]
  /\ bench' = [bench EXCEPT ![a] = [p \in People |->
                 IF row[p] = "ready" THEN "paused" ELSE row[p]]]

\* Mutant of Resolved: who is paused is not counted.
ResolvedButPaused(row) == \A p \in People : row[p] # "ready"

\* _active_wave_is_resolved.
Resolved(row) == \A p \in People : row[p] \notin {"ready", "paused"}

\* One person is done with; with the last one the sequence is.
Settled(a, p) ==
  LET row == [bench[a] EXCEPT ![p] = "stopped"]
  IN  /\ bench' = [bench EXCEPT ![a] = row]
      /\ sequence' = [sequence EXCEPT ![a] = IF Resolved(row) THEN "completed" ELSE @]

Live(a) == sequence[a] \in {"active", "paused"}

(***************************************************************************)
(* Commands.                                                               *)
(***************************************************************************)
\* start_outreach_sequence.
Eligible(a, at) ==
  {p \in People \ restricted : bench[a][p] = "reserve" /\ Cooled(p, Apps, at)}

Start(a) ==
  /\ sequence[a] = "none" /\ a \notin over
  /\ \E at \in Clock(a) :
       /\ Eligible(a, at) # {}
       /\ sequence' = [sequence EXCEPT ![a] = "active"]
       /\ bench' = [bench EXCEPT ![a] = [p \in People |->
                      IF bench[a][p] = "excluded" THEN "excluded"
                      ELSE IF p \in Eligible(a, at) THEN "ready" ELSE "stopped"]]
  /\ UNCHANGED <<clock, over, drafts, log, answered, restricted>>

\* _sequence_stop_reason: any command but a stop finds the application past outreach.
Halt(a) ==
  /\ Live(a) /\ a \in over
  /\ Stopped(a)
  /\ UNCHANGED <<clock, over, drafts, log, answered, restricted>>

Acts(a) == sequence[a] = "active" /\ a \notin over

\* Mutant of Writable: the lifecycle of the person is not read again.
WritableAsStarted(a, p) ==
  Acts(a) /\ bench[a][p] = "ready" /\ <<a, p>> \notin answered

\* _require_ready_recipient, and no outcome.
Writable(a, p) ==
  Acts(a) /\ bench[a][p] = "ready" /\ p \notin restricted /\ <<a, p>> \notin answered

Sent(a, p, kind) == EventsOf(a, p, kind, "sent") # {}

\* Mutant of Editable: a follow-up need not follow anything.
EditableEither(a, p, kind) == Writable(a, p) /\ ~Sent(a, p, kind)

\* save_outreach_message.
Editable(a, p, kind) ==
  /\ Writable(a, p) /\ ~Sent(a, p, kind)
  /\ kind = "follow_up" => Sent(a, p, "initial")

Save(a, p, kind) ==
  /\ Editable(a, p, kind) /\ drafts[a][p][kind] < MaxDrafts
  /\ drafts' = [drafts EXCEPT ![a][p][kind] = @ + 1]
  /\ UNCHANGED <<clock, over, sequence, bench, log, answered, restricted>>

\* _require_follow_up_release_due, _enforce_initial_release_limits.
Releasable(a, p, kind, at) ==
  IF kind = "follow_up"
  THEN \E e \in EventsOf(a, p, "initial", "sent") : e.at + FollowUpAfter <= at
  ELSE Cooled(p, Apps \ {a}, at) /\ RoomAtCompany(p, at)

Release(a, p, kind, event) ==
  \E at \in Clock(a) :
    /\ Releasable(a, p, kind, at)
    /\ log' = log \cup {[app |-> a, person |-> p, kind |-> kind, event |-> event,
                         version |-> drafts[a][p][kind], at |-> at]}
    /\ UNCHANGED <<clock, over, sequence, bench, drafts, answered, restricted>>

\* _record_copy.
Copy(a, p, kind) ==
  /\ Writable(a, p) /\ drafts[a][p][kind] > 0 /\ ~Sent(a, p, kind)
  /\ Release(a, p, kind, "copied")

\* _record_marked_sent.
MarkSent(a, p, kind) ==
  /\ Writable(a, p) /\ ~Sent(a, p, kind)
  /\ \E e \in EventsOf(a, p, kind, "copied") : e.version = drafts[a][p][kind]
  /\ Release(a, p, kind, "sent")

\* _record_outcome, with the outcomes the schema admits.
NoReplyDue(a, p, at) ==
  IF Sent(a, p, "follow_up")
  THEN \A e \in EventsOf(a, p, "follow_up", "sent") : e.at + FollowUpAfter <= at
  ELSE \E e \in EventsOf(a, p, "initial", "sent") : e.at + NoReplyAfter <= at

Outcome(a, p, kind) ==
  /\ Acts(a) /\ bench[a][p] # "excluded" /\ <<a, p>> \notin answered
  /\ kind = "no_reply" => \E at \in Clock(a) : NoReplyDue(a, p, at)
  /\ answered' = answered \cup {<<a, p>>}
  /\ Settled(a, p)
  /\ UNCHANGED <<clock, over, drafts, log, restricted>>

Pause(a) == /\ Acts(a) /\ Paused(a, bench[a])
            /\ UNCHANGED <<clock, over, drafts, log, answered, restricted>>

\* _resume_sequence_rows: those who asked meanwhile not to be contacted stay out.
Restored(a) == [p \in People |-> IF bench[a][p] # "paused" THEN bench[a][p]
                                 ELSE IF p \in restricted THEN "stopped" ELSE "ready"]

Resume(a) ==
  /\ sequence[a] = "paused" /\ a \notin over
  /\ bench' = [bench EXCEPT ![a] = Restored(a)]
  /\ sequence' = [sequence EXCEPT ![a] = IF Resolved(Restored(a)) THEN "completed"
                                                                 ELSE "active"]
  /\ UNCHANGED <<clock, over, drafts, log, answered, restricted>>

Stop(a) == /\ Live(a) /\ Stopped(a)
           /\ UNCHANGED <<clock, over, drafts, log, answered, restricted>>

\* What becomes of the sequence once p replied.
AfterReply(a, p, kind) ==
  LET row == [bench[a] EXCEPT ![p] = "stopped"]
  IN  IF ~Live(a) THEN UNCHANGED sequence /\ bench' = [bench EXCEPT ![a] = row]
      ELSE IF a \in over \/ kind # "other" THEN Stopped(a)
      ELSE IF Resolved(row) THEN Settled(a, p)
      ELSE Paused(a, row)

\* record_outreach_reply: whatever became of the sequence, a reply to a sent message.
Reply(a, p, kind) ==
  /\ \E k \in Kinds : Sent(a, p, k)
  /\ answered' = answered \cup {<<a, p>>}
  /\ restricted' = IF kind = "do_not_contact" THEN restricted \cup {p} ELSE restricted
  /\ AfterReply(a, p, kind)
  /\ UNCHANGED <<clock, over, drafts, log>>

(***************************************************************************)
(* The application goes on, or its pursuit is undone before anything left  *)
(* the house; its rows are deleted, and it may be pursued and searched for *)
(* people again.                                                           *)
(***************************************************************************)
Advance(a) == /\ a \notin over /\ over' = over \cup {a}
              /\ UNCHANGED <<clock, sequence, bench, drafts, log, answered, restricted>>

\* _undo_pursuit_blocker, the part about outreach.
Discardable(a) == /\ \A e \in log : e.app = a => e.event = "copied"
                  /\ \A p \in People : <<a, p>> \notin answered

UndoPursuit(a) ==
  /\ a \notin over /\ Discardable(a)
  /\ sequence' = [sequence EXCEPT ![a] = "none"]
  /\ bench' = [bench EXCEPT ![a] = Fresh]
  /\ drafts' = [drafts EXCEPT ![a] = NoDrafts]
  /\ log' = {e \in log : e.app # a}
  /\ UNCHANGED <<clock, over, answered, restricted>>

ClockTick == /\ clock < MaxClock /\ clock' = clock + 1
             /\ UNCHANGED <<over, sequence, bench, drafts, log, answered, restricted>>

OutreachNext ==
  \/ ClockTick
  \/ \E a \in Apps :
       \/ Start(a) \/ Halt(a) \/ Pause(a) \/ Resume(a) \/ Stop(a) \/ Advance(a) \/ UndoPursuit(a)
       \/ \E p \in People :
            \/ \E k \in Kinds : Save(a, p, k) \/ Copy(a, p, k) \/ MarkSent(a, p, k)
            \/ \E o \in {"no_reply", "unreachable"} : Outcome(a, p, o)
            \/ \E o \in {"other", "introduced", "do_not_contact"} : Reply(a, p, o)

OutreachSpec == OutreachInit /\ [][OutreachNext]_outreachVars

(***************************************************************************)
(* Reads: what load_application_outreach can answer with.                  *)
(***************************************************************************)
\* _message_from_rows: what was sent is the latest version, sent once and copied before.
MessageShown(a, p, k) ==
  \A e \in EventsOf(a, p, k, "sent") :
    /\ e.version = drafts[a][p][k]
    /\ EventsOf(a, p, k, "sent") = {e}
    /\ \E f \in EventsOf(a, p, k, "copied") : f.version = e.version /\ f.at <= e.at

\* A follow-up is shown below the first message that was sent.
ThreadShown(a, p) ==
  /\ \A k \in Kinds : MessageShown(a, p, k)
  /\ drafts[a][p]["follow_up"] > 0 => Sent(a, p, "initial")

\* _contact_item: who is ready may be written to now.
ItemShown(a, p) == bench[a][p] = "ready" => p \notin restricted /\ ~Cooling(a, p)

(***************************************************************************)
(* Properties.                                                             *)
(***************************************************************************)
\* _enforce_initial_release_limits, across applications, and however long commands wait
\* for their rows: two applications do not release first messages to one person within the
\* cooldown, and no window of the company holds first messages to more strangers than the
\* limit.
LimitsSpanApplications ==
  \A e \in Releases :
    /\ \A f \in Releases : e.person = f.person /\ e.app # f.app =>
         e.at + PersonCooldown <= f.at \/ f.at + PersonCooldown <= e.at
    /\ Cardinality({f.person : f \in {x \in Releases :
         x.person \in Cold /\ e.at - ColdWindow <= x.at /\ x.at <= e.at}}) <= ColdLimit

\* A sequence that goes on has somebody left to write to, one that ended has nobody, and
\* who answered or could not be reached is out for good.
SequencesMatchBenches ==
  \A a \in Apps :
    /\ sequence[a] = "active" => \E p \in People : bench[a][p] = "ready"
    /\ sequence[a] = "paused" => \E p \in People : bench[a][p] = "paused"
    /\ sequence[a] # "active" => \A p \in People : bench[a][p] # "ready"
    /\ sequence[a] # "paused" => \A p \in People : bench[a][p] # "paused"
    /\ \A p \in People : <<a, p>> \in answered => bench[a][p] = "stopped"

\* What the response of load_application_outreach refuses to show never comes about: what
\* was sent is the latest version of its message, and was copied before; a message is sent
\* once, and a follow-up presupposes a first message that was sent.
OutreachReadable == \A a \in Apps, p \in People : ThreadShown(a, p)

\* The three above.
OutreachAgrees == LimitsSpanApplications /\ SequencesMatchBenches /\ OutreachReadable

\* Once somebody asked not to be contacted, whichever application heard it, nothing more
\* is released to that person, and no undo forgets who was written to.
RestrictionsHold ==
  [][/\ \A e \in log' \ log : e.person \notin restricted
     /\ restricted \subseteq restricted'
     /\ \A e \in log \ log' : e.event = "copied"]_outreachVars

\* docs/PHASE_5_APPLICATION_PACK.md:336 "People and manual outreach remain available": the
\* bench of an application can be loaded, that is, _contact_item accepts everybody on it.
BenchReadable == \A a \in Apps, p \in People : ItemShown(a, p)
=============================================================================
