# Verification of agentic-job-hunt

TLA+ models of the program in `src/`: its job queue and workers, the components that work
in the background, the application with everything around it, the accounts, and the
pages that change them; TLC configurations that check the models on small instances; and
theorems TLAPS proves for every value of the constants. Every definition is translated
from the code, and `PROJECT.json` maps each one to the lines it stands for.

`tlc -config <cfg> <module>` checks a [run](#runs), `tlapm <module>` a
[proof module](#proofs).

Contents: [the system](#the-system), [modules](#modules), [runs](#runs),
[bounds](#bounds), [fairness](#fairness), [proofs](#proofs),
[what the checks showed](#what-the-checks-showed), [not modelled](#not-modelled),
[plan](#plan).

## The system

One owner's job hunt. Saved searches scan the boards of companies for postings; postings
are assessed, listed in Today and decided on; a pursued posting becomes an application
with a reviewed pack of documents, a bench of people found for it, messages the owner
sends to them, interview rounds with notes, and an outcome. An HTTP API changes PostgreSQL
(SQLite in development) in short transactions; worker processes lease rows of one table of
jobs and do what is slow; the pages of a browser repeat what they got no answer to.

| component | state | operations | what is hard | what makes it correct |
|---|---|---|---|---|
| Durable job queue | `background_jobs` | enqueue, recover, claim, heartbeat, complete, fail, cancel, requeue | lapsed leases, clock skew, processes with one `worker_id`, cancellation against completion | one finisher per attempt, no row out of reach, every job settled |
| Worker runtime | claims in memory, renewing thread | poll (recover, reconcile, claim), dispatch, failure transition | death at any point, renewal against recovery | a stale process writes nothing |
| Opportunity scan | scan and its sources | start, mark, fetch, finalize, fail, reconcile | a transaction per source under one lease | scan, sources and job agree; verdicts are final |
| Scheduled scans | searches with their next slot | tick, edit, pause, delete | two ticks at once, old clock readings | one scan per slot |
| Hunt runs | run, private request and result, job | post, cancel, delete, retry, store, retain | minutes of work against cancellation and expiry | a result belongs to a live request |
| Contact search | plan, job, bench, budget | request, publish, fail, undo, reconcile | five transactions that lock in different orders | plan, job, bench and application at one point |
| Contact discovery | results by lane | search, merge, choose | contradictions in any order, failures between | nobody contradicted on the bench |
| Posting identity, inbox | postings, versions, Today | persist a role, list, page | overlapping scans, moving lists | one posting per requisition, pages that continue their list |
| Fit evaluation, assessment | verdicts by facts | backfill, evaluate, file; score | facts read without locks | a verdict is filed under its facts |
| Mutation receipts | key, request, answer | claim, complete, replay | repetition after a lost answer | a key acts once |
| Row locks | locks of a transaction | `FOR UPDATE`, `NOWAIT`, key-share | orders of some twenty transactions | no deadlock where the code says so |
| Application lifecycle | decision, application, actions, events, submission, rounds, outcome | some fifteen commands | long sequences of legal commands | one next step, one story, immutable history |
| Pack, artifacts, dossier; evidence, resumes | grounds, papers, resume versions | revise, review, generate, approve, edit | a review of what changes later | approvals rest on what is true then |
| Outreach | sequences, people, drafts | start, draft, release, outcome, reply | limits that span applications | cooldowns, company limit, wishes respected |
| Interview preparation, lists, weekly review | notes, open work | save, read, postpone | reads of several statements, two version counters | lists make one picture |
| Sessions, throttling, erasure | accounts, sessions, throttle rows, receipts | sign up, log in, claim, recover, log out, erase | a request is several transactions | nothing outlives its workspace |
| Source adapters | the board, the result | read by pages, by keyword | boards that move, requests that fail | what is missing is told from what is gone |
| Pages of the browser, HTTP API | pending command, key, version | send, repeat, read back | answers late, lost, negative | what a page says came true |
| Legacy SQLite store | runs in two databases | claim, lose, log, import | import of a service that runs | ends stay |

A producer inserts its domain rows and their job in one transaction. A worker claims the
job in one transaction and changes the domain rows in later ones, each of which first
locks the job and checks status, owner, token and expiry (`lock_owned_running_job`). A
poll first recovers lapsed leases and reconciles domain rows whose job ended without them.
Owner commands and workers meet on the locks of postings, opportunities, applications and
plans. A command carries an idempotency key and the version it was made from.

The hazards of this code, each at its line and with the properties that watch it, are the
`hazards` of `PROJECT.json`. A hazard without a property says why.

## Modules

Background:

| module | models |
|---|---|
| `JobRow` | one row of `background_jobs`; each function of `job_queue.py` as a row transformer |
| `JobQueue` | the table, the claims of processes, polls, renewals, ends, time |
| `LeasedTask` | what the queue promises: waiting, held by one process, done, dropped, parked |
| `WorkerPool` | what those that work under leases share: processes, tokens, lease time |
| `OpportunityScan` | a scan and its sources under a lease; its queue steps are actions of `JobQueue` |
| `ScheduledScan` | searches, their slots, ticks and the owner's edits |
| `HuntRun` | a run with its job, the commands on it, operator retry, retention |
| `ContactSearch` | plan, job, bench, budget; owner, worker, poll and undo |
| `FitEvaluation` | jobs keyed by facts, the backfill, two transactions around the provider, the cache |
| `BackgroundWork` | the components above together, and `EndedWorkStays` of them |
| `LegacyStore` | the former store, its worker, its outcomes log, the importer |

What is read:

| module | models |
|---|---|
| `SourceFetch` | four ways adapters read a board that changes and fails |
| `PostingIdentity` | which posting a sighted role belongs to, with overlapping scans |
| `TodayInbox` | the inbox a series of scans leaves, its order, its pages |
| `Assessment` | blockers, matches, score and verdict of a posting for a profile |
| `ContactDiscovery` | lanes, pages and failures of a search for people, merging, the bench |
| `ActionLists` | Today's actions, the overdue of the weekly review, the list of applications |

Around an application:

| module | models |
|---|---|
| `Pursuit` | decisions on an opportunity by idempotency key, between pages and server |
| `ApplicationLifecycle` | the commands on an application, its rounds, dates, corrections |
| `LockOrder` | the lock sequences of nineteen transactions |
| `Documents` | evidence, resumes, grounds and papers of a pack, approvals, dossier |
| `Outreach` | sequences over the people of benches, cooldowns, limits, replies |
| `InterviewPreparation` | prompts, target, notes and the pages that save them |
| `PendingUpdates` | a page with one command whose answer is missing |
| `OwnerPages` | the lists, the pages and the notes together, and what an owner can rely on in all of them |
| `AuthThrottle`, `Account` | throttle rows; workspaces, credentials, sessions, recovery, erasure |

`MCJobQueue`, `MCBackgroundWork`, `MCWorkspace`, `MCOwner` and `MCIntake` put small
instances of several components into one state space. The components of one such module
share no row (what one reads of another is part of its own module), so each behaviour
moves one component, its *focus*, and leaves the others at one initial state: a product of
unrelated components would multiply their states and show nothing more. A component with
theorems is EXTENDed by these modules, so that a run and a theorem speak of the same
definition; names that would meet differ (`FetchInit`, `PeopleInit`, `LegacyInit`).
`MCOpportunityScan`, `MCLockOrder`, `MCAccount`, `MCOutreach` and `MCDocuments` belong to
the runs that refute a statement. The `*Proofs` modules hold the theorems; `Optional`
declares the value for what is absent, which the components of `MCIntake` share.

How state and actions correspond to the code:

- **A transaction is one action.** If it reads something before it waits for a row and
  uses it afterwards (SQLAlchemy objects keep what was read; `with_for_update` does not
  refresh them), the read is an action of its own: `Enter` in `Documents`, the asking and
  the carrying out of a request in `Account`, the clock of a command in `Outreach`, the
  find of a role in `PostingIdentity`, the unlocked read of PATCH in `ScheduledScan`.
- **A refused command** changes nothing and is no action, unless a page or a process
  learns something from the refusal (`Pursuit`, `PendingUpdates`, `Account`).
- **Time** in the queue is relative: `wait` is `run_after` minus now and `lease` is
  `lease_expires_at` minus now, a `Tick` decrements both, and a process with clock error
  `d` compares with `d`. Elsewhere a clock counts, bounded.
- **A death** is giving up at any point between two transactions (`GiveUp`, `Leave`): what was in memory is gone, what was committed stays.
- **Messages** between page and server may be lost, delayed, repeated and reordered
  (`wire` of `Pursuit` and `PendingUpdates`).
- **Data** is abstracted to what the properties tell apart: evidence to its version,
  papers to the evidence they use, a posting to its requisition, URL and content, a text
  to the clauses the patterns find in it.

Notes on single modules:

- `JobQueue`: rows another transaction has locked are passed over (`SKIP LOCKED`), any set
  of them. A worker remembers job and token while it works, so it can come back after its
  lease was recovered. `LeasedTask` maps a row to a task: its holder is the process whose
  token is the row's. One poll may move several rows, each by one step of a task.
- `OpportunityScan`: the CHECK constraints of both tables are `ScanLegal` and
  `SourceLegal`; the failure transition commits only when they accept its rows. Adapters
  label every result partial, so a fetched source counts as degraded. No endpoint cancels
  the job of a scan, but the handlers and their tests support it, so `Cancel` is an action.
- `LockOrder`: a transaction is its sequence of row-lock requests, read off the code along
  each path. `NOWAIT` requests are refused instead of waiting; whoever waits for itself is
  ended by PostgreSQL's detector. "Waits for, perhaps through others" is stated by closed
  sets.
- `ApplicationLifecycle`: an event carries its resolved date (the last correction or the
  recorded date), its round and its number of corrections. `AfterAllFacts` is
  `_require_milestone_date`, `Predecessors` and `Successors` the sides of
  `milestone_correction_window`, `Undoable` is `_undo_pursuit_blocker`.
- `SourceFetch`, `ContactDiscovery`: what the code computes by loops is said by sets and
  positions. The order in which a pool and a bench are kept is left out; who is in them is
  not. Of one person the best reading is kept, and readings of one profile, score and title
  are one.
- `Documents`: `Saves`, `Reviews`, `Generates`, `Rejects`, `Approves` and `Dossiers` are
  the outcomes a command may have on a pack; `Commit` takes one of them if the pack still
  has the version the request names.

## Runs

| run | states | shows |
|---|---|---|
| `queue_safety` | 226,452 | two processes with one `worker_id` and skewed clocks: coherent rows, no row out of reach, one finisher, fencing, cancellation wins, refinement of `LeasedTask`; the legacy store while it is imported |
| `background_safety` | 325,358 | scans, hunts, contact searches, fit evaluations and scheduled searches with lapsing leases, deaths, retries, cancellations, retention, undo and edits |
| `background_liveness` | 51,461 | every job is settled, every scan gets a verdict with its sources counted, every contact search ends, every match is evaluated |
| `workspace_safety` | 586,566 | lifecycle, locks, documents, posting identity, outreach |
| `owner_safety` | 683,089 | accounts and decisions under requests that overlap, are given up, repeated and delayed |
| `intake_safety` | 946,073 | boards, Today, assessment, discovery, lists, pages, notes |
| `scan_failure_lands`, `contact_worker_locks`, `erasure_final`, `bench_readable`, `ready_stays_complete`, `failure_hides` | violated | each a statement of the repository the code does not keep, see [below](#what-the-checks-showed) |

Properties, by what they watch:

- *Queue.* `SingleFinisher`, `OnlyHolderEnds`: a process that comes back after its lease
  was recovered. `CancelWins`: completion against cancellation. `NoStrandedJob`: attempts
  spent on the way back to the queue. `RowsCoherent`: lease, times and status of a row.
  `ImplementsLeasedTask`: all of it, abstractly. `JobsSettle`: every job ends.
- *Background.* `ScansAgree`, `HuntsAgree`, `ContactPlansAgree`: a domain row and its job
  that end apart. `EndedWorkStays`: verdicts revised, sources fetched again, stale
  processes that write, deleted runs that come back, people reached who asked not to be.
  `FitVerdictsGrounded`: a verdict filed under facts it was not computed from.
  `ScheduledSlotsCollapse`: a slot scanned twice. `ScanEveryAccounted`,
  `SearchesAndMatchesEnd`: work that never ends. `LegacyStoresAgree`, `EndsStay`: the
  import of a run that goes on.
- *Application.* `OneOpenAction`: a command that closes a task without opening the next.
  `RecordsAgree`: five tables written by a dozen commands. `RoundsHold`: corrections and
  rounds in any order, and windows that no correction could use. `ImmutableHistoryWins`:
  undo and corrections that rewrite what was submitted. `OrdersHold`: cycles of locks,
  for a pursuit and a scan those of two or three transactions.
  `ApprovalsGrounded`, `ApprovalsNameTheirText`: approvals of what has changed meanwhile.
  `RequisitionsApart`: overlapping scans that merge two requisitions. `OutreachAgrees`,
  `RestrictionsHold`: limits that span applications, replies that restrict all of them.
- *Owner.* `AccountsCoherent`, `AccountsKeepTheirWord`: overlapping signups, claims,
  recoveries and erasures. `PursuitsAgree`, `KeysActOnce`, `ProgressIsKept`: commands
  repeated after the opposite command succeeded.
- *Intake.* `MissingWasAskedInVain`: what is missing from a fetch that failed in part.
  `LastGoodStays`: what a scan takes from the inbox when it ends, which is what a source
  without a warning does not list (not: what is no longer published, see finding 4). `PagesContinueTheirList`: cursors of a list that moves. `GrowthNeverHurts`:
  more evidence that lowers a role. `BenchIsEarned`: results in any order.
  `ListsHold`: lists read while commands go on. `PagesKeepTheirWord`: what a page told its
  owner. A change called overtaken or in conflict is never made afterwards; one that was
  rejected otherwise only by an attempt sent before the one that was turned down, which the
  pages do not exclude; and what is called confirmed came after it was asked for, in as much
  as the page compares. `NotesAnswerTheirPage`: notes saved against one of two counters.

Every property of a passing run has a mutant, a definition changed the way a bug would
change the code, under which TLC finds it violated; the mutants stand beside what they
replace.

`CHECK_DEADLOCK FALSE` stands where the system may stop: all jobs settled, requests
answered, a clock or a counter at its bound. `LockOrder` alone is checked for deadlock,
in `contact_worker_locks`: some session can always move, because the detector ends one of
a cycle.

## Bounds

- *Queue:* two jobs, two processes, two attempts, leases of two ticks (a lapse that one
  clock has seen and the other has not, a renewal in between) in `queue_safety` and of one
  elsewhere; skews of -1..1 tick; `MaxRequeues` caps operator retries. There are more
  tokens than rows and processes can hold, so the choice of a fresh one never blocks.
  Elapsed leases and delays are not decremented further: every comparison with them has
  the same answer from then on.
- *Background:* two processes; one scan with three sources, two hunts that share a key,
  two applications that share a person and a budget, two versions of the facts, one
  search with two ticks at once and three instants. Two lease tokens: the safety of scans,
  hunts and contact searches has the same states with a third, and an evaluation misses
  only a third claim while two abandoned leases are remembered, which the proof of
  `FitVerdictsGrounded` covers. Clock errors and priorities are those of the queue's run.
- *Lifecycle:* two instants a day and five instants (three days, so one can lie strictly
  between two others), two rounds, one correction per event. `MaxRounds` and
  `MaxCorrections` are the code's 100 and 50 made small, so the limits are reached.
- *Locks:* three sessions, so cycles of two and of three (the theorem has no such bound);
  sessions start transactions without end. Two postings suffice for opposite orders.
- *Documents:* one piece of evidence with three versions, two requests at once, two
  resumes, two revisions of grounds and of papers: enough for an approval to meet an edit,
  a retirement and a text somebody stored before.
- *Postings:* two scans, two requisitions that share one URL or have none, three postings.
- *Outreach:* two applications with the same two people, limits of one, waits of one tick.
- *Accounts:* two clients, the legacy workspace and a new one, one address, as many tokens
  as they can hold; one page with two requests on the wire for decisions, so a repetition
  overlaps the first.
- *Intake:* five postings on a board with pages of two, one change of the board; two roles
  of one company and one of another, and two changes of Today (a cursor meets a scan and a
  decision), of one kind in a behaviour (`OneKindOfChange`: the clock, the owner, or the
  second company); four
  postings, two pieces of evidence and up to a quarter of a year of growth; three people
  and thirteen lists of results; two commands against one read; one request of a page,
  tried twice, against changes of others; four saves of notes.

The larger of these state spaces are what TLC goes through in a few minutes. Every mutant is
found under the bounds of its run, so none of them is too small for the case its property
is about.

## Fairness

- `WF(Tick)`: time passes.
- `WF(Poll(w))`, in the queue `WF(UnlockedPoll(w))`: `run_worker_loop` polls without end,
  and a row lock is held for one short transaction, so polls that find nothing locked
  recur. The dedicated loop dies on an unexpected exception; this assumes its supervisor
  restarts it. The embedded worker catches and goes on.
- `WF(Return(w))`, `WF(Handle(w))`: a handler returns or its process dies; it need not
  succeed.
- `WF(Backfill)`: every poll looks for matches without an evaluation.

Nothing is assumed of the renewing thread, of owners, operators, pages or the order of
polls. In `MCBackgroundWork` the fairness of a component is that of the behaviours in which
it moves. A job of low priority is not starved when the jobs are finitely many; with an
endless supply of urgent ones it would be, as there is no ageing.

## Proofs

Each theorem is about the specification of its component, for every value of the
constants; assumptions are named below. None of the invariants the runs check is
inductive by itself, except where said.

**`JobQueueProofs`**, from the assumptions of `JobRow` and `JobQueue` (at least one
attempt, a positive lease, integer clock errors that include 0, nulls distinct). The
inductive invariant is `IInv`: `TableGood` (every row typed and `RowGood`, which adds to
coherence what its preservation needs, such as attempts left in a queued row),
`ClaimsDistinct` (no two processes remember one token, because a claim takes a token nobody
remembers, a uuid in the code) and the bound on retries. It gives `TypeCorrect`,
`Coherence`, `NeverStranded`, `MutualExclusion`. A case distinction of what one step makes
of one row gives `CancellationWins`, `Fencing` and, with the holder of each task,
`Refinement`: every step of the queue is, for each row, a step of `LeasedTask` or none.
For the legacy store, from `RunAssumption`, `LegacyAgreement` and `LegacyEndsStay`: each run
moves alone, so `MayBecome` says once what a step may make of its row and of what is kept of
it (both theorems read off it), `RowMoves` that the transformers of the code make that, and
`EveryRunMoves` that every action applies only those. `LegacyInv` adds to the agreement that
a run nobody posted has no attempts, that what the importer has picked was a success and has
at most been erased since, and that a worker past its claim has a run.

**`ApplicationLifecycleProofs`**, from `BoundsAssumption`. `TypeOK /\ OneOpenAction` is
inductive (`OneNextStep`); `RecordsAgree` is so together with `TypeOK` and
`SubmissionRecorded` (a stage from applied to offer has its submission), which scheduling
a round relies on (`OneStory`). `ChainGrows` and `CorrectionKeepsChain` say what an
appended and a corrected event do to the chain of stages. `HistoryImmutable` follows from
the same invariant: `OutcomeCloses` derives that an application with an outcome is closed,
so no command that needs an open stage applies, and the undo's blockers exclude the rest.
`RoundsInOrder` needs more than the order it states: `Dates` adds that stages climb along
the activity, so an event without a round comes after everything of a lower rank, that every
date and every scheduled start lies on or after the submission, and that an offer and the end
lie after every completed round. `EventKeepsDates`, `RoundsKeepDates` and
`CorrectionKeepsDates` say of any activity and rounds which additions keep it; the actions
only have to meet their hypotheses. That a correction window is never a dead end
(`RepairFollows`) is then a matter of naming the day: that of the submission for a screening
or an interview, the present one for an offer.
The theorem on locks is `OrderedLocks`, for any number of sessions. `LockInv`: a session
stands somewhere in the sequence of its transaction (`InPlace`), and no two hold locks that
conflict (`Exclusion`). `EachFits` reads off each of the nineteen sequences what a
transaction can hold where it asks for a lock. That waits lead nowhere is shown by a set of
sessions which nobody in it waits to leave: from a holder of the application that asks for
the plan (`FromThePlan`), and to an undo that has locked no more than job and sequence
(`ToTheSequence`). The attempt to prove that no cycle at all contains a pursuit and a scan
failed for a good reason: with a fourth session, more than the run has, there is one. The
pursuit has posting 1 and waits for the application, which a start of outreach has, which
waits for a contact, which the copy of a message has, which waits to lock the owner's row,
of which a scan has a share, which waits for posting 1. `OrdersHold` therefore speaks of
cycles of two or three where the comment at `application_repository.py:332` speaks of any.

**`OwnerProofs`** (decisions): `TypeCorrect`, `OneStory` (decision, history, application and
receipts), `OneDecisionPerKey`, `ProgressKept`. A completed receipt is an event of the
history, keys of events are distinct, and a request on the wire or in a page is one the
receipt of its key was, or will be, made from.

**`WorkspaceProofs`** (postings): `Apart`, with `MaxPostings \in Nat`. `PostingTypes /\
RequisitionsApart` is inductive: a find may be stale by the time it is used, but the row it
leads to is looked at again under its lock.

**`WorkspaceProofs`** (documents): `Naming`, `Grounding`. The invariant says of every pack that a paper
rests on grounds that are reviewed and uses nothing beyond them (reviewed grounds are
never changed), and that an approved paper names a stored resume with its text and the
pack's base for a parent. So an approval on the latest grounds has only to ask whether
their evidence is still approved in that version, which `Grounded` does under the locks.

**`WorkspaceProofs`** (outreach): `Agreement`, `WishesRespected`, for finitely many people and natural
numbers for the limits. The invariant relates each release to the clock its command read
and to the one before it: `CooldownsSpan` and `WindowsHold` count releases over all
applications, `WrittenWereReady` and `SequencesMatchBenches` tie sequences to their bench,
and `OutreachReadable` is what the page asks of a release.

**`OwnerProofs`** (accounts): `Coherence`, `WordsKept`, with `SessionTtl \in Nat`.
`TypeOK /\ AccountsCoherent` is inductive, because the owner row is locked, and credentials
and sessions go with it.

**`IntakeProofs`** has a part for each of three components of `MCIntake`.

- *Notes*: `NotesOverNotes`. What a request says of the notes it was made over is true of
  them as long as they exist, because notes are never changed; and it is the next to be
  stored only while those notes are the last.
- *Today*: `PagesAgree` and `LastGoodKept`, from `RolesAssumption` (finitely many ids, all
  numbers), `TiersAssumption`, `LimitAssumption` (a page has room) and `NoneAssumption`.
  `RankedSorts`: whatever roles are in the inbox, the list holds each once. `Precedes` is a
  strict order in which any two roles have a place, so the numbers of roles before each are
  distinct, and distinct numbers below the size of a finite set are all of them; this needs
  no induction. `TodayInv` says that a scan has one source of a company, which lists only
  roles of that company, and that a cursor points behind the first role of its list and
  before its end. So a page that continues it is never empty and never passes the end
  (`RecommendedPage`), and the source that takes the place of another when a scan ends is of
  the company of the roles that leave and gave no warning (`ScanEnds`); a scan that fails or
  is cancelled replaces none (`VainChangesNothing`). The theorem does not say that a list
  without a warning is complete. It may be partial or filtered, and then takes roles that are
  still published (finding 4).
- *Assessment*: `GrowthHelps`, from `PostingsAssumption` (a description has finitely many
  clauses, each with finitely many skills) and `QuartersAssumption`. `JudgedNow` says that
  what is shown was judged by the facts of the moment. What grows, part by part, is said by
  `EmploymentPart` to `ExperiencePart` for the verdicts and by `CountsGrow` and
  `BackingGrows` for the counts. The score is a share of what can be known, so knowing less
  can raise it: one more mode of work turns a place from `conflict` to `unknown` and takes
  four points from the denominator. While nothing speaks against the owner this does not
  happen (`FitnessGrows`), and where something did, the band was the lowest.
  `KnownGrows` shows that the four points never cross one of the thresholds of the
  confidence, which holds of the weights in the code and of few others.

**`PagesProofs`** proves two theorems about `OwnerPages`.

- *Lists*: `ListsServed`, of the specifications of the lists and of the notes, for finitely
  many applications, any days and any page size (`AppsAssumption`, `DaysAssumption`,
  `PageSizeAssumption`, `StartsAssumption`, `AbsentAssumption`). Every command raises the
  version of its application. So what one statement found and what a later one finds belong
  together as long as the application has the version that was found (`ReadTrue`), and a read
  nothing came between has found what is (`Undisturbed`), which no check of the reader refuses
  (`FailsDisturbed`). An application that was not touched since the first page lies behind the
  mark, on a page under way or among what the client holds (`Covered`): a page ends with its
  last row, and the order by `updated_at` and identity is strict. `PlanCovers` is about the
  prompts, from `RequirementsAssumption` and `CapacityAssumption`: every required requirement
  with evidence has a place among the first of the order, by the argument of `Places` (distinct
  numbers below the size of a finite set are all of them), without induction.
- *Pages*: `WordsOfPages`, from `AsksAssumption` (a page asks for what it offers, a correction
  is no more than its date), `RequestsAssumption` and `NothingAssumption`. `UpdatesInv` has
  six parts. What was read is an earlier state of the record (`RecordsTrue`: a prefix of it, but
  for dates on the page of progress, where they can be corrected in place), and what came
  with an answer is not older than what is shown (`BackTrue`). A request that can be made only
  once was not in the record the page knew, a milestone not under any date, and what was to be
  reviewed was overdue (`RequestsTrue`); so what is found later is new (`FoundIsFresh`). All
  attempts of a key expect one version (`WireTrue`). If the owner was told that the record
  moved on without the request, or that it met a conflict, the record has passed that version
  and no attempt is ever carried out. If it was rejected for another reason, those still under
  way are older than the one that was turned down (`FateTrue`, `ReplyTrue`, `Behind`): none
  when there was one attempt, but after a retry an earlier one may land although the page says
  that the change was rejected. That an action is put off as it was shown follows
  from the invariant of the lists.

**`BackgroundProofs`** has a part for each component that works in the background.

- *Schedules*: `OneScanPerSlot`, from `ScheduleAssumption` (a schedule has a first slot
  after every instant). `SlotsAhead`: the next slot of a row lies after every reading a
  scan of this version was made with, so the next batch cannot repeat one; `ReadsHold`:
  what an unlocked PATCH has read is still the row's if the version is.
- *Fit evaluations*: `GroundedVerdicts`, from `EditsAssumption`. The facts are read row by
  row before the provider call and again after it. `Between` says that some state the
  facts had at one moment lies, fact by fact, between the two readings; when the readings
  are equal, so is that state.
- *Leased rows*: `RowsReleased` to `RowsLost` say what the transformers of `JobRow` make
  of a row without clock errors and delays, for any budget of attempts. `HuntWrites`,
  `SearchWrites` and `ScanWrites` equate those of the three instances of the queue with
  them, so what follows is said once.
- *Hunt runs*: `OneHuntOneStory`, from `PoolAssumption` and `HuntAssumption`. `HuntInv` is
  `HuntsAgree` with types: the rows of run and job agree after every transaction because
  each locks both and asks for lease and request again (`Agree` is preserved row by row,
  `AgreeKept`); retention and erasure take both rows.
- *Contact searches*: `OneSearchOneStory`, from `PoolAssumption` and `ContactAssumption`.
  `Fits` adds to the statement that a job still open is not asked to stop and that a
  running one has used its only attempt. Without that, recovery could queue a job again
  whose plan runs.
- *Scans*: `OneScanOneStory`, from `PoolAssumption` and `ScanAssumption`. `SoundScan` adds
  that a scan whose job is not over has no verdict, its total is that of its sources and
  none counts as successful yet. `SourceCounts` (over cardinalities) then shows that the
  counts a verdict, a failure or the reconciliation writes satisfy the CHECK constraints.
- *What has ended*: `EndedWorkStands`, of the specifications of scans, hunts and contact
  searches together, combines five action theorems over their invariants. `VerdictsStand`
  and `FetchesStand`: whoever holds the lease of a scan holds one without a verdict, and a
  poll revises only what already agrees with the job it settled. `LeaseFences`: a process
  writes under its lease, writes nothing, or polls because it has no work, and changes no
  other's memory. `NothingReturns`: a row that moves belongs to a live run, and no command
  sets a request but the one that creates its run. `EndsAreKept`: a leased plan is open,
  reconciliation passes over ended ones, and only a publication fills a bench.

**`SearchProofs`** is about what comes from outside. Induction over data is out of the
prover's reach, so `SourceFetch` and `ContactDiscovery` say by sets and positions what the
code computes by loops: the members of a sequence that are in a set (`Those`, by the `Nth`
of their positions), the first of the roles that share a page (`Deduped`), the best of some
candidates (`Best`, by how many rank above).

- *Boards*: `NothingPassedOver`, from `BoardsAssumption`, `KeywordsAssumption` (a search has a
  keyword) and `PagesAssumption`. `FetchInv` follows a posting through a fetch whose board did
  not change: while pages are listed, it lies behind the offset, is listed, or is found by a
  keyword still to come (`OffsetsPassed`, `TokensPassed`); while details are read, it is
  listed, a role, or a request that failed (`DetailsRead`); with one request per keyword, each
  that would have returned it is to come, has failed or has returned it (`KeywordsAsked`).
  Under `Further` an offset passes exactly the page that was read (`Paging`). `TwinsShareAPage`
  uses that numbers have a least one, from the library's well-foundedness.
- *People*: `BenchEarned`, from `ProfilesAssumption` (finitely many profiles), `ResultsAssumption`,
  `BenchAssumption` and `NobodyAssumption` (None is no candidate). `PeopleInv` says that the
  evidence of a person is every heard result that supports them, that somebody is found if there
  is any, that the blocked are those some heard result contradicts, and that all there was
  to hear was heard as long as no lane failed or was cut (`WhatIsShown`). Two candidates of one
  pool never rank level (`Ranks`), so each has a place (`Places` of `PagesProofs`), a pool
  or bench that is not full has everybody (`BestOfFew`), and nobody is left out of it for
  somebody lower (`BestAreFirst`).

Only model-checked: all liveness (fairness and `ENABLED` are out of the prover's reach).

## What the checks showed

Six statements of the repository are not what the code does; the `findings` of
`PROJECT.json` quote them.

1. `scan_failure_lands`: when the attempts of a scan end before `_start_scan` committed,
   `_finish_practical_scan_attempt_failure` writes `failed` without `started_at`, and for
   a cancelled scan it gives running sources an error code; CHECK constraints refuse both,
   the transaction rolls back and the exception leaves the worker loop. The job stays
   leased until its lease lapses; then recovery and reconciliation settle it
   (`ScanEveryAccounted`).
2. `contact_worker_locks`: transitions and pack creation lock the application and then the
   posting, the contact worker the other way round, although its docstring says that its
   order avoids deadlocks.
3. `erasure_final`: a login that verified the password before an erasure committed makes
   the owner row again, empty and with a session.
4. `failure_hides`: adapters skip postings whose detail request fails without a warning,
   so the result counts as reliable and postings still published leave Today.
   `docs/PHASE_2_OPPORTUNITY_RADAR.md:130` and `:155-157` exclude it ("Current
   criteria-filtered or partial scans never close or hide an existing opportunity"). Lists
   filtered by stricter criteria retire roles too, which the docstring of
   `_current_inbox_snapshot_condition` intends; `LastGoodStays` lets both pass.
5. `bench_readable`: a person on cooldown who is still ready makes the whole bench
   unreadable until the cooldown has passed.
6. `ready_stays_complete`: a pack revision that read the stage before the application
   became ready changes the pack of a ready application.

Observed while modelling, and not stated as a finding because no run checks it:

- Repeating a deletion in sequence gets 401, and concurrently 409, before the receipt of
  `docs/PHASE_6_PRIVACY_CONTROLS.md:52` is looked up. After an undo, a replayed pursuit is
  refused (409) where `docs/PHASE_3` says the original graph is returned. Closing a posting
  after two omissions (`docs/PHASE_2_OPPORTUNITY_RADAR.md:131`) is not in the code.
- The budget of contact searches counts surviving plans, so an undo gives it back
  (`contact_search_repository.py:435`). An undo deletes releases that were copied and not
  marked sent. `_sequence_stop_reason` reads the application without its lock.
- A PATCH can make a search the scheduler paused active without a next slot, so it is
  never due (`sqlalchemy_owner_workspace.py:549`); an edit can schedule a slot again that
  fired meanwhile. A track and a search can disagree about seniority for the same reason.
- The clean-up of hunts reads rows that another deletion may take first
  (`privacy_repository.py:806`). A renewal that was on its way when a job ended puts
  `current_job_id` back for one heartbeat (`worker.py:1548`).
- Dates of linked rounds can lie before earlier milestones
  (`docs/PHASE_6_OUTCOME_LEARNING.md:39`); `RoundsHold` says what does hold.
- Two scans can lock postings in opposite orders, two creations of a resume can deadlock
  on the owner's row (KEY SHARE, then FOR UPDATE), and `ready_to_apply` holds the owner's
  row while it waits for the application; PostgreSQL ends one of each pair. Through two more
  transactions a pursuit can be in a cycle with a scan (see [Proofs](#proofs)), although
  `application_repository.py:332` says that its order excludes one.
- `_make_base_locked` depends on the order in which a flush writes two rows
  (`profile_repository.py:528`). An upload of a changed resume approves a retired line
  again.
- Sorting by newest can omit or repeat roles between pages. The first reliable scan hides
  what the cumulative list showed before it. A failed fetch is kept for the day when the
  cache is used; Workable tokens can go round.
- Today and the weekly review read in several statements under READ COMMITTED and answer
  503 when a command falls between them.
- Merging results of discovery can drop a person whose first result was contradicted.
- The weekly review calls a postponement confirmed when the application merely left the
  list; the progress page does so without comparing the due date, the people page for any
  newer plan; a retry that was refused for a moment is reported as rejected
  (`application-progress.tsx:200`, `application-interview-rounds.tsx:346`) while the first
  attempt can still land (`PagesKeepTheirWord` says how far each goes); the pack
  page resends an old payload; the people page keeps its key after a definite refusal;
  notes written for an older target cannot be reached once newer ones are saved.
- Legacy store: two outcomes at once can violate a constraint, an access hash can be
  replaced on a deleted run, the importer reads its two databases in separate snapshots
  (`docs/runbooks/legacy-hunt-deprecation.md:47`), and a deleted run is imported again.

## Not modelled

The embedded worker and the heartbeat rows, the agent pipeline (its result is data of the
queue's handlers), and the migrations (the CHECK constraints that matter are modelled
where rows are written). Within the components: event rows and purges of the queue, the
capability check of a worker, access tokens of hunts, candidates' wording, sent text,
profile documents and the extraction of text, the export (a read), encryption keys,
validation, serialisation and rendering. No statement of the code closes a posting, so the
refusals for closed postings are left out, and so are outreach waves after the first, which
nothing starts. In `Assessment` a requirement of zero years (which the code counts as a
signal) is left out, in `ContactDiscovery` the lane of results that cannot be read. `components` in `PROJECT.json` says it for each part.

## Plan

Every invariant and every action property of the runs that pass is stated by a theorem.
Liveness stays with TLC.
