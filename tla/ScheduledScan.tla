--------------------------- MODULE ScheduledScan ---------------------------
(***************************************************************************)
(* Automatic searches: the saved_searches row with its next slot, the tick *)
(* that turns a due slot into a scan (scheduled_scan_repository.py, called *)
(* by the cadence endpoint and by the embedded worker), and the commands   *)
(* of the owner.  A transaction that locks a search is one action; the     *)
(* clock reading it was started with, and the unlocked read PATCH makes    *)
(* before it locks, may be older.                                          *)
(*                                                                         *)
(* A schedule is the set of its slots on the discrete clock: time zones    *)
(* and weekdays only select them.  Criteria and sources are the content    *)
(* number; what becomes of a scan is OpportunityScan.tla.                  *)
(***************************************************************************)
EXTENDS Integers, FiniteSets, FiniteSetsExt

CONSTANTS
  Searches,    \* saved searches of all owners
  Schedules,   \* the automatic schedules: sets of slots
  TickSize,    \* DEFAULT_SCHEDULED_SCAN_BATCH_SIZE: searches one transaction takes
  Ticks,       \* wakes of the scheduler, which may overlap
  MaxClock,    \* bound: readings of the clock
  MaxVersion   \* bound: owner edits of a search

\* Every schedule has a slot after every reading of the clock, and a first one:
\* calculate_next_scan_at searches the eight days that hold each weekday.
ASSUME ScheduleAssumption ==
  /\ MaxClock \in Nat
  /\ \A schedule \in Schedules : schedule \subseteq Int
  /\ \A schedule \in Schedules, after \in 0 .. MaxClock :
       \E first \in schedule : /\ after < first
                               /\ \A slot \in schedule : after < slot => first <= slot

VARIABLES
  clock,
  search,      \* saved_searches
  loadable,    \* whether the stored criteria and company pack are valid
  scans,       \* the scheduled opportunity_scans
  tick,        \* the reading each running wake started with, or Asleep
  patch        \* what PATCH requests have read of a search, or NoPatch

scheduleVars == <<clock, search, loadable, scans, tick, patch>>

Manual == {}

Never == 0

Asleep == -1

NoPatch == [is |-> "none"]

NoSearch == [is |-> "none", active |-> FALSE, schedule |-> Manual, next |-> Never,
             version |-> 0]

ScheduleInit ==
  /\ clock = 0
  /\ search = [s \in Searches |-> NoSearch]
  /\ loadable = [s \in Searches |-> TRUE]
  /\ scans = {}
  /\ tick = [t \in Ticks |-> Asleep]
  /\ patch = [s \in Searches |-> NoPatch]

\* calculate_next_scan_at: the first slot after the reading.
NextSlot(schedule, after) ==
  IF schedule = Manual THEN Never ELSE Min({x \in schedule : x > after})

\* Readings of the clock a transaction that ends now may have started with.
Since(t) == t..clock

Clock == /\ clock < MaxClock
         /\ clock' = clock + 1
         /\ UNCHANGED <<search, loadable, scans, tick, patch>>

\* A pack file of the deployment breaks, or is repaired.
Redeploy(s) == /\ loadable' = [loadable EXCEPT ![s] = ~@]
               /\ UNCHANGED <<clock, search, scans, tick, patch>>

(***************************************************************************)
(* Commands of the owner.                                                  *)
(***************************************************************************)
\* create_saved_search.
Create(s, schedule, active) ==
  /\ search[s].is = "none"
  /\ search' = [search EXCEPT ![s] =
       [is |-> "saved", active |-> active, schedule |-> schedule, version |-> 1,
        next |-> IF active THEN NextSlot(schedule, clock) ELSE Never]]
  /\ UNCHANGED <<clock, loadable, scans, tick, patch>>

\* patch_saved_search reads the search without a lock,
PatchRead(s) ==
  /\ search[s].is = "saved" /\ patch[s] = NoPatch
  /\ patch' = [patch EXCEPT ![s] = [is |-> "read", at |-> clock, row |-> search[s]]]
  /\ UNCHANGED <<clock, search, loadable, scans, tick>>

\* require_version, under the lock.
Current(s) == search[s].is = "saved" /\ search[s].version = patch[s].row.version

\* and update_saved_search writes what it read merged with what the owner sent.
PatchWrite(s) ==
  LET read == patch[s].row
  IN  /\ patch[s] # NoPatch /\ Current(s) /\ search[s].version < MaxVersion
      /\ patch' = [patch EXCEPT ![s] = NoPatch]
      /\ \E sent \in SUBSET {"schedule", "active"}, schedule \in Schedules \cup {Manual},
            active \in BOOLEAN, after \in Since(patch[s].at) :
           LET row == [search[s] EXCEPT
                 !.schedule = IF "schedule" \in sent THEN schedule ELSE read.schedule,
                 !.active = IF "active" \in sent THEN active ELSE read.active,
                 !.version = @ + 1]
               next == IF row.active THEN NextSlot(row.schedule, after) ELSE Never
           IN  search' = [search EXCEPT ![s] =
                            IF sent = {} THEN row ELSE [row EXCEPT !.next = next]]
      /\ UNCHANGED <<clock, loadable, scans, tick>>

PatchConflict(s) ==
  /\ patch[s] # NoPatch /\ ~Current(s)
  /\ patch' = [patch EXCEPT ![s] = NoPatch]
  /\ UNCHANGED <<clock, search, loadable, scans, tick>>

\* delete_saved_search keeps a search with history.
Delete(s) ==
  /\ search[s].is = "saved" /\ \A scan \in scans : scan.of # s
  /\ search' = [search EXCEPT ![s] = [NoSearch EXCEPT !.is = "deleted"]]
  /\ UNCHANGED <<clock, loadable, scans, tick, patch>>

(***************************************************************************)
(* The tick.                                                               *)
(***************************************************************************)
Wake(t) == /\ tick[t] = Asleep
           /\ tick' = [tick EXCEPT ![t] = clock]
           /\ UNCHANGED <<clock, search, loadable, scans, patch>>

\* due_saved_search_statement.
Due(now) == {s \in Searches : /\ search[s].active /\ search[s].schedule # Manual
                              /\ search[s].next # Never /\ search[s].next <= now}

\* The batches: the earliest, less what other transactions hold locked.
Batches(now) ==
  {b \in SUBSET Due(now) : b # {} /\ Cardinality(b) <= TickSize}

\* Mutant of Advanced: the next slot is counted from the slot served.
AdvancedFromSlot(s, now) == [search[s] EXCEPT !.next = NextSlot(search[s].schedule, search[s].next)]

\* _advance_operational_slot, from the reading of the tick: the version stays.
Advanced(s, now) == [search[s] EXCEPT !.next = NextSlot(search[s].schedule, now)]

\* _pause_invalid_search.
Paused(s) == [search[s] EXCEPT !.active = FALSE, !.next = Never]

\* The scan of the slot the search is locked at.
SlotScan(s, now) ==
  [of |-> s, version |-> search[s].version, slot |-> search[s].next, at |-> now]

\* enqueue_due_saved_search_scans: one transaction.
Batch(t) ==
  /\ tick[t] # Asleep
  /\ \E b \in Batches(tick[t]) :
       /\ scans' = scans \cup {SlotScan(s, tick[t]) : s \in {x \in b : loadable[x]}}
       /\ search' = [s \in Searches |-> IF s \notin b THEN search[s]
                                        ELSE IF loadable[s] THEN Advanced(s, tick[t])
                                        ELSE Paused(s)]
  /\ UNCHANGED <<clock, loadable, tick, patch>>

\* The last batch was not full, or the tick has taken as many as it may.
Sleep(t) == /\ tick[t] # Asleep
            /\ tick' = [tick EXCEPT ![t] = Asleep]
            /\ UNCHANGED <<clock, search, loadable, scans, patch>>

ScheduleNext ==
  \/ Clock
  \/ \E s \in Searches : \/ Redeploy(s) \/ PatchRead(s) \/ PatchWrite(s)
                         \/ PatchConflict(s) \/ Delete(s)
  \/ \E s \in Searches, schedule \in Schedules \cup {Manual}, active \in BOOLEAN :
       Create(s, schedule, active)
  \/ \E t \in Ticks : Wake(t) \/ Batch(t) \/ Sleep(t)

ScheduleSpec == ScheduleInit /\ [][ScheduleNext]_scheduleVars

(***************************************************************************)
(* Properties.                                                             *)
(***************************************************************************)
\* Only an active automatic search has a next slot, whatever the order of edits,
\* pauses and ticks (the response of any other search fails its own validation), and
\* no slot of a version is scanned twice or after a later one: slots missed while
\* nobody ticked are one scan.
ScheduledSlotsCollapse ==
  /\ \A s \in Searches : search[s].next # Never => search[s].active /\ search[s].schedule # Manual
  /\ \A a, b \in scans : a.of = b.of /\ a.version = b.version /\ a # b =>
       a.slot > b.at \/ b.slot > a.at
=============================================================================
