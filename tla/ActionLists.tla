----------------------------- MODULE ActionLists -----------------------------
(***************************************************************************)
(* The lists of open work an owner reads: Today's actions in three groups  *)
(* by due date, the overdue ones of the weekly review, and the pages of    *)
(* all applications.  A list is read statement by statement, each seeing   *)
(* what was committed before it, while commands go on; what was read is    *)
(* put together only if it makes one picture, otherwise the owner gets an  *)
(* error.  From what is shown an action can be put off to a later day.     *)
(*                                                                         *)
(* The commands are told by what they do to the rows the lists are made    *)
(* of; the lifecycle itself is ApplicationLifecycle's.  A command takes    *)
(* its clock before it waits for the application, so updated_at can lie    *)
(* behind what was committed of others.  The day does not change.          *)
(***************************************************************************)
EXTENDS Optional, Integers, SequencesExt, FiniteSetsExt

CONSTANTS
  Apps,          \* numbers, for the order of their identities
  Starts,        \* bound: rows an application may start with
  ThisDay,       \* day of the owner
  Ahead,         \* days of the window of Today (7)
  Furthest,      \* last day a task may be due (365 days ahead, 90 for a review)
  PageSize,      \* of the list of applications
  MaxCommands    \* bound

Stages == {"pursuing", "ready_to_apply", "applied", "screening", "interviewing", "offer", "closed"}

Schedulable == {"applied", "screening", "interviewing"}

ActionKind ==
  [pursuing |-> "review_and_prepare_application", ready_to_apply |-> "submit_application",
   applied |-> "follow_up_application", screening |-> "prepare_recruiter_screen",
   interviewing |-> "prepare_interview", offer |-> "review_offer"]

Actions == [id : Nat, kind : {ActionKind[s] : s \in Stages \ {"closed"}}, round : BOOLEAN, due : Int]

Rows == [stage : Stages, scheduled : BOOLEAN, version : Nat, updated : Int, action : Actions \cup {None}]

\* What _validate_today_action_graph refuses, in four statements that each see committed rows.
Malformed(r) ==
  \/ (r.stage # "closed") # (r.action # None)
  \/ r.stage # "closed" /\ r.action.kind # (IF r.action.round THEN "prepare_interview"
                                           ELSE ActionKind[r.stage])
  \/ r.scheduled # (r.stage # "closed" /\ r.action.round)

\* Where a page of applications ends.
Marks == [updated : Int, app : Apps]

ASSUME AbsentAssumption == None \notin Actions /\ None \notin Marks /\ None \notin Nat
ASSUME AppsAssumption == IsFiniteSet(Apps) /\ Apps \subseteq Int
ASSUME DaysAssumption == ThisDay \in Int /\ Ahead \in Nat /\ Furthest \in Int
ASSUME PageSizeAssumption == PageSize \in Nat \ {0}
ASSUME StartsAssumption ==
  \A r \in Starts : r \in Rows /\ ~Malformed(r) /\ (r.scheduled => r.stage \in Schedulable)

VARIABLES
  row,           \* per application its stage, whether a round is scheduled, its open action,
                 \* its version and updated_at
  clock,
  reader,        \* None, or the read under way
  shown,         \* items of the last list that was served
  listed,        \* items of the pages of applications the client holds
  mark,          \* where the next page begins, or None
  touched,       \* applications changed since the first page
  disturbed,     \* a command was committed during the read
  failed         \* the last read ended in an error

listVars == <<row, clock, reader, shown, listed, mark, touched, disturbed, failed>>

Onward == [pursuing |-> {"ready_to_apply"}, ready_to_apply |-> {"applied"},
           applied |-> {"screening", "interviewing", "offer"}, screening |-> {"interviewing", "offer"},
           interviewing |-> {"offer"}, offer |-> {}]

ListsInit ==
  /\ row \in [Apps -> Starts]
  /\ clock = 1 /\ reader = None /\ shown = {} /\ listed = {} /\ mark = None
  /\ touched = {} /\ disturbed = FALSE /\ failed = FALSE

(***************************************************************************)
(* Commands on one application.                                            *)
(***************************************************************************)
\* The version an owner sends follows the last commit, and so does the clock of the command.
Commit(a, new) ==
  /\ clock <= MaxCommands
  /\ \E at \in {clock - 1, clock} :
       /\ at >= row[a].updated
       /\ row' = [row EXCEPT ![a] = [new EXCEPT !.version = @ + 1, !.updated = at]]
  /\ clock' = clock + 1
  /\ touched' = touched \cup {a}
  /\ disturbed' = TRUE
  /\ UNCHANGED <<reader, shown, listed, mark, failed>>

Open(a) == row[a].stage # "closed"

\* The open action is closed and another one takes its place.
Replaced(a, kind, round, due) ==
  [row[a] EXCEPT !.action = [id |-> @.id + 1, kind |-> kind, round |-> round, due |-> due]]

Transition(a, to, due) ==
  /\ Open(a) /\ ~row[a].scheduled /\ to \in Onward[row[a].stage]
  /\ Commit(a, [Replaced(a, ActionKind[to], FALSE, due) EXCEPT !.stage = to])

CloseApplication(a) ==
  /\ Open(a) /\ ~row[a].scheduled
  /\ Commit(a, [row[a] EXCEPT !.stage = "closed", !.action = None])

Schedule(a, due) ==
  /\ row[a].stage \in Schedulable /\ ~row[a].scheduled
  /\ Commit(a, [Replaced(a, "prepare_interview", TRUE, due) EXCEPT !.scheduled = TRUE])

Complete(a, due) ==
  /\ row[a].scheduled
  /\ Commit(a, [Replaced(a, "prepare_interview", FALSE, due)
                  EXCEPT !.scheduled = FALSE, !.stage = "interviewing"])

CancelRound(a, due) ==
  /\ row[a].scheduled
  /\ Commit(a, [Replaced(a, ActionKind[row[a].stage], FALSE, due) EXCEPT !.scheduled = FALSE])

\* record_application_action_review, of the action an item shows.
Postpone(item, due) ==
  LET a == item.app
  IN  /\ row[a].version = item.version
      /\ Open(a) /\ row[a].action.id = item.action.id /\ ~row[a].action.round
      /\ due > row[a].action.due
      /\ Commit(a, [row[a] EXCEPT !.action.due = due])

(***************************************************************************)
(* Reading.  A batch is a set of applications as one statement found them; *)
(* their actions and their scheduled rounds are read by later statements.  *)
(***************************************************************************)
Found(a) == [app |-> a, version |-> row[a].version, stage |-> row[a].stage, pinned |-> None]

Groups == <<"overdue", "today", "next">>

InGroup(group, due) == CASE group = "overdue" -> due < ThisDay
                         [] group = "today" -> due = ThisDay
                         [] group = "next" -> due > ThisDay /\ due <= ThisDay + Ahead

DueIn(group) == {a \in Apps : Open(a) /\ InGroup(group, row[a].action.due)}

\* Mutant of DueBy: what is due today counts as overdue.
DueByToday(group) ==
  DueIn(group) \cup {a \in Apps : group = "overdue" /\ Open(a) /\ row[a].action.due = ThisDay}

DueBy(group) == DueIn(group)

\* updated_at, then id, both descending.
ChangedLater(a, b) ==
  \/ row[a].updated > row[b].updated
  \/ row[a].updated = row[b].updated /\ a > b

\* Mutant of Below: the identity does not break ties.
BelowByTime(a) == mark = None \/ row[a].updated < mark.updated

Below(a) == \/ mark = None \/ row[a].updated < mark.updated
            \/ row[a].updated = mark.updated /\ a < mark.app

Rest == {a \in Apps : Below(a)}

Page == {a \in Rest : Cardinality({b \in Rest : ChangedLater(b, a)}) < PageSize}

Reader(view) == [view |-> view, group |-> 1, total |-> None, batches |-> <<>>, actions |-> None,
                 items |-> <<>>, next |-> None]

\* The client shows one list at a time; the next page of applications continues the last one.
BeginRead(view) ==
  /\ reader = None
  /\ disturbed' = FALSE
  /\ shown' = {}
  /\ IF view = "list" /\ mark # None THEN UNCHANGED <<listed, mark, touched>>
     ELSE listed' = {} /\ mark' = None /\ touched' = {}
  /\ IF view = "today" /\ \E a \in Apps : Malformed(row[a])
     THEN failed' = TRUE /\ reader' = None
     ELSE failed' = FALSE /\ reader' = Reader(view)
  /\ UNCHANGED <<row, clock>>

Fail == failed' = TRUE /\ reader' = None

Batched(r) == /\ reader' = r
              /\ UNCHANGED <<row, clock, shown, listed, mark, touched, disturbed, failed>>

Reading(view) == reader # None /\ reader.view = view /\ reader.batches = <<>>

\* _today_application_action_group: the total, then the applications.
CountGroup == /\ Reading("today") /\ reader.group <= 3 /\ reader.total = None
              /\ Batched([reader EXCEPT !.total = Cardinality(DueBy(Groups[reader.group]))])

SelectGroup ==
  /\ Reading("today") /\ reader.group <= 3 /\ reader.total # None
  /\ LET found == {Found(a) : a \in DueBy(Groups[reader.group])}
     IN  Batched([reader EXCEPT !.batches = <<found>>, !.group = @ + 1])

\* _stale_applications: the total, the rows with their actions, then one summary after another.
SelectStale ==
  /\ Reading("weekly") /\ reader.group = 1
  /\ LET stale == SetToSeq({a \in Apps : Open(a) /\ row[a].action.due < ThisDay})
     IN  Batched([reader EXCEPT !.group = 4, !.batches =
           [i \in DOMAIN stale |-> {[Found(stale[i]) EXCEPT !.pinned = row[stale[i]].action]}]])

\* list_applications: a page and the total in one statement.
SelectPage ==
  /\ Reading("list") /\ reader.group = 1
  /\ LET last == CHOOSE a \in Page : \A b \in Page \ {a} : ChangedLater(b, a)
     IN  reader' = [reader EXCEPT !.group = 4, !.batches = <<{Found(a) : a \in Page}>>,
                      !.next = IF Page = Rest THEN None
                               ELSE [updated |-> row[last].updated, app |-> last]]
  /\ touched' = IF mark = None THEN {} ELSE touched
  /\ UNCHANGED <<row, clock, shown, listed, mark, disturbed, failed>>

\* A row the session holds is found again, and not read again.
Loaded(f) == LET action == row[f.app].action
             IN  IF action # None /\ f.pinned # None /\ action.id = f.pinned.id THEN f.pinned ELSE action

ReadActions ==
  /\ reader # None /\ reader.batches # <<>> /\ reader.actions = None
  /\ Batched([reader EXCEPT !.actions = [f \in Head(reader.batches) |-> Loaded(f)]])

\* _application_summaries and _application_summary: closed exactly without an action, and the
\* action is that of the scheduled round exactly if there is one.
Torn(f, action) ==
  \/ (f.stage = "closed") # (action = None)
  \/ action # None /\ action.round # row[f.app].scheduled
  \/ f.pinned # None /\ action.id # f.pinned.id

\* Mutant of Item: the version is taken when everything was read.
ItemOfNow(f, action) ==
  [app |-> f.app, version |-> row[f.app].version, stage |-> f.stage, action |-> action]

Item(f, action) == [app |-> f.app, version |-> f.version, stage |-> f.stage, action |-> action]

\* TodayApplicationActionItem and its group.
Misplaced(item, group) ==
  \/ ~InGroup(group, item.action.due)
  \/ IF item.action.round THEN item.stage \notin Schedulable
     ELSE item.action.kind # ActionKind[item.stage]

Summarise ==
  /\ reader # None /\ reader.actions # None
  /\ LET batch == Head(reader.batches)
         items == {Item(f, reader.actions[f]) : f \in batch}
         before == UNION Range(reader.items)
     IN  IF \/ \E f \in batch : Torn(f, reader.actions[f])
            \/ reader.view = "today" /\
                 \/ reader.total < Cardinality(items)
                 \/ \E i \in items : Misplaced(i, Groups[reader.group - 1])
                 \/ \E i \in items, j \in before : i.app = j.app
         THEN Fail
         ELSE /\ failed' = FALSE
              /\ reader' = [reader EXCEPT !.items = Append(@, items), !.total = None,
                              !.batches = Tail(@), !.actions = None]
  /\ UNCHANGED <<row, clock, shown, listed, mark, touched, disturbed>>

\* The answer reaches the client; a page is added to the pages it holds.
Deliver ==
  /\ reader # None /\ reader.group = 4 /\ reader.batches = <<>>
  /\ LET items == UNION Range(reader.items)
     IN  /\ shown' = {i \in items : i.action # None}
         /\ IF reader.view = "list"
            THEN /\ listed' = listed \cup {i \in items : \A j \in listed : i.app # j.app}
                 /\ mark' = reader.next
            ELSE UNCHANGED <<listed, mark>>
  /\ reader' = None /\ disturbed' = FALSE
  /\ UNCHANGED <<row, clock, touched, failed>>

\* What a page that was loaded just now shows of an open action.
Latest(a) == [app |-> a, version |-> row[a].version, action |-> row[a].action]

ListsNext ==
  \/ \E a \in {b \in Apps : Open(b)}, due \in ThisDay..Furthest :
       \/ CloseApplication(a) \/ Postpone(Latest(a), due)
       \/ \E to \in Onward[row[a].stage] : Transition(a, to, due)
       \/ Schedule(a, due) \/ Complete(a, due) \/ CancelRound(a, due)
  \/ \E item \in shown, due \in ThisDay..Furthest : Postpone(item, due)
  \/ \E view \in {"today", "weekly", "list"} : BeginRead(view)
  \/ CountGroup \/ SelectGroup \/ SelectStale \/ SelectPage \/ ReadActions \/ Summarise \/ Deliver

ListsSpec == ListsInit /\ [][ListsNext]_listVars

(***************************************************************************)
(* Properties.                                                             *)
(***************************************************************************)
\* No sequence of commands leaves rows a list cannot be made of: a read fails only if a
\* command was committed while it went on.
QuietReadsAreServed == failed => disturbed

\* Whoever nothing was done to since the first page is on one of the pages, however the others
\* move while the list is read on.
PagesCoverTheQuiet ==
  mark = None /\ listed # {} /\ reader = None =>
    Apps \ touched \subseteq {i.app : i \in listed}

\* An action that is put off from a list is the one the list showed, with the date it showed:
\* the version a list gives with an action is never newer than the action.
PostponedAsShown ==
  [][\A item \in shown, due \in ThisDay..Furthest :
       Postpone(item, due) => item.action = row[item.app].action]_listVars
=============================================================================
