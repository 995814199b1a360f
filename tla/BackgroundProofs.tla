-------------------------- MODULE BackgroundProofs --------------------------
(***************************************************************************)
(* Theorems about the components that work in the background, each for any *)
(* workers and lease: ScheduledScan for any searches, schedules and        *)
(* overlapping ticks, FitEvaluation for any rows an evaluation reads and   *)
(* edits of them, HuntRun, ContactSearch and OpportunityScan for any runs, *)
(* plans and scans, budgets of attempts and interference by the owner.     *)
(***************************************************************************)
EXTENDS BackgroundWork, FiniteSetTheorems, TLAPS

(***************************************************************************)
(* Scheduled scans.                                                        *)
(***************************************************************************)
Search == [is : {"none", "saved", "deleted"}, active : BOOLEAN,
           schedule : Schedules \cup {Manual}, next : Int, version : Nat]

ReadOf == [is : {"read"}, at : 0 .. MaxClock, row : Search]

SlotOf == [of : Searches, version : Nat, slot : Int, at : 0 .. MaxClock]

ScheduleTyped ==
  /\ clock \in 0 .. MaxClock
  /\ search \in [Searches -> Search]
  /\ patch \in [Searches -> ReadOf \cup {NoPatch}]
  /\ tick \in [Ticks -> (0 .. MaxClock) \cup {Asleep}]
  /\ scans \subseteq SlotOf

\* A search that is gone or not there yet is not active.
SavedAct == \A s \in Searches : search[s].active => search[s].is = "saved"

SlotsAreDue ==
  \A s \in Searches : search[s].next # Never => search[s].active /\ search[s].schedule # Manual

\* What a request has read of a search whose version it still has: only the scheduler has
\* changed it since, and it can have paused it.
ReadsHold ==
  \A s \in Searches : patch[s] # NoPatch =>
    /\ search[s].is # "none"
    /\ Current(s) => /\ search[s].schedule = patch[s].row.schedule
                     /\ search[s].active => patch[s].row.active

\* A slot to come lies after every reading a scan of this version was made with.
SlotsAhead ==
  \A a \in scans : LET row == search[a.of] IN
    /\ row.is = "saved" /\ a.version <= row.version
    /\ a.version = row.version /\ row.next # Never => a.at < row.next

SlotsApart ==
  \A a, b \in scans : a.of = b.of /\ a.version = b.version /\ a # b =>
    a.slot > b.at \/ b.slot > a.at

ScheduleInv ==
  ScheduleTyped /\ SavedAct /\ SlotsAreDue /\ ReadsHold /\ SlotsAhead /\ SlotsApart

\* The next slot lies after the reading it is computed from; a manual search has none.
LEMMA NextSlotIs ==
  ASSUME NEW schedule \in Schedules \cup {Manual}, NEW after \in 0 .. MaxClock
  PROVE  /\ NextSlot(schedule, after) \in Int
         /\ schedule = Manual => NextSlot(schedule, after) = Never
         /\ NextSlot(schedule, after) # Never => after < NextSlot(schedule, after)
<1>1. CASE schedule = Manual
  BY <1>1 DEF NextSlot, Never
<1>2. CASE schedule # Manual
  <2> DEFINE later == {x \in schedule : x > after}
  <2>1. schedule \subseteq Int /\ after \in Int
    BY <1>2, ScheduleAssumption
  <2>2. PICK first \in schedule : /\ after < first
                                 /\ \A slot \in schedule : after < slot => first <= slot
    BY <1>2, ScheduleAssumption
  <2>3. first \in later /\ \A y \in later : first <= y
    BY <2>1, <2>2
  <2>4. Min(later) \in later
    BY <2>3 DEF Min
  <2> QED BY <1>2, <2>1, <2>4 DEF NextSlot
<1> QED BY <1>1, <1>2

LEMMA ScheduleStarts == ScheduleInit => ScheduleInv
<1> SUFFICES ASSUME ScheduleInit PROVE ScheduleInv
  OBVIOUS
<1>1. NoSearch \in Search /\ NoSearch.is = "none" /\ ~NoSearch.active /\ NoSearch.next = Never
  BY DEF NoSearch, Search, Never
<1>2. ScheduleTyped
  BY <1>1, ScheduleAssumption DEF ScheduleInit, ScheduleTyped
<1> QED
  BY <1>1, <1>2
  DEF ScheduleInit, ScheduleInv, SavedAct, SlotsAreDue, ReadsHold, SlotsAhead, SlotsApart

\* One row written by a command: what it must satisfy.
LEMMA RowWritten ==
  ASSUME ScheduleInv, NEW s \in Searches, NEW row \in Search,
         search' = [search EXCEPT ![s] = row],
         patch' \in [Searches -> ReadOf \cup {NoPatch}],
         patch'[s] = NoPatch, \A r \in Searches : r # s => patch'[r] = patch[r],
         UNCHANGED <<clock, scans, tick>>,
         row.active => row.is = "saved",
         row.next # Never => row.active /\ row.schedule # Manual,
         \A a \in scans : a.of = s => row.is = "saved" /\ a.version < row.version
  PROVE  ScheduleInv'
<1>1. /\ search' \in [Searches -> Search] /\ search'[s] = row
      /\ \A r \in Searches : r # s => search'[r] = search[r]
  BY DEF ScheduleInv, ScheduleTyped
<1>2. ScheduleTyped'
  BY <1>1 DEF ScheduleInv, ScheduleTyped
<1>3. SavedAct' /\ SlotsAreDue'
  BY <1>1 DEF ScheduleInv, SavedAct, SlotsAreDue
<1>4. ReadsHold'
  BY <1>1 DEF ScheduleInv, ReadsHold, Current
<1>5. SlotsAhead'
  <2> SUFFICES ASSUME NEW a \in scans
               PROVE  /\ search'[a.of].is = "saved" /\ a.version <= search'[a.of].version
                      /\ a.version = search'[a.of].version /\ search'[a.of].next # Never
                           => a.at < search'[a.of].next
    BY DEF SlotsAhead
  <2>1. a.of \in Searches /\ a.version \in Nat
    BY DEF ScheduleInv, ScheduleTyped, SlotOf
  <2>2. row.version \in Nat
    BY DEF Search
  <2>3. CASE a.of = s
    BY <1>1, <2>1, <2>2, <2>3
  <2>4. CASE a.of # s
    BY <1>1, <2>1, <2>4 DEF ScheduleInv, SlotsAhead
  <2> QED BY <2>3, <2>4
<1>6. SlotsApart'
  BY DEF ScheduleInv, SlotsApart
<1> QED BY <1>2, <1>3, <1>4, <1>5, <1>6 DEF ScheduleInv

\* Steps that write no search.
LEMMA SearchesKept ==
  ASSUME ScheduleInv, UNCHANGED <<search, scans, patch>>,
         clock' \in 0 .. MaxClock, tick' \in [Ticks -> (0 .. MaxClock) \cup {Asleep}]
  PROVE  ScheduleInv'
BY DEF ScheduleInv, ScheduleTyped, SavedAct, SlotsAreDue, ReadsHold, Current, SlotsAhead, SlotsApart

LEMMA RequestKept ==
  ASSUME ScheduleInv, UNCHANGED <<clock, search, scans, tick>>, NEW s \in Searches,
         NEW p \in ReadOf \cup {NoPatch}, patch' = [patch EXCEPT ![s] = p],
         p # NoPatch => p.row = search[s] /\ search[s].is # "none"
  PROVE  ScheduleInv'
<1>1. /\ patch' \in [Searches -> ReadOf \cup {NoPatch}] /\ patch'[s] = p
      /\ \A r \in Searches : r # s => patch'[r] = patch[r]
  BY DEF ScheduleInv, ScheduleTyped
<1>2. ScheduleTyped' /\ SavedAct' /\ SlotsAreDue' /\ SlotsAhead' /\ SlotsApart'
  BY <1>1 DEF ScheduleInv, ScheduleTyped, SavedAct, SlotsAreDue, SlotsAhead, SlotsApart
<1>3. ReadsHold'
  BY <1>1 DEF ScheduleInv, ReadsHold, Current
<1> QED BY <1>2, <1>3 DEF ScheduleInv

LEMMA OwnerSteps ==
  ASSUME ScheduleInv, NEW s \in Searches,
         \/ \E schedule \in Schedules \cup {Manual}, on \in BOOLEAN :
              Create(s, schedule, on)
         \/ Redeploy(s) \/ PatchRead(s) \/ PatchWrite(s) \/ PatchConflict(s) \/ Delete(s)
  PROVE  ScheduleInv'
<1>0. /\ clock \in 0 .. MaxClock /\ search \in [Searches -> Search] /\ search[s] \in Search
      /\ patch \in [Searches -> ReadOf \cup {NoPatch}]
      /\ tick \in [Ticks -> (0 .. MaxClock) \cup {Asleep}]
      /\ scans \subseteq SlotOf
  BY DEF ScheduleInv, ScheduleTyped
<1>1. ASSUME NEW schedule \in Schedules \cup {Manual}, NEW on \in BOOLEAN,
             Create(s, schedule, on)
      PROVE  ScheduleInv'
  <2> DEFINE next == IF on THEN NextSlot(schedule, clock) ELSE Never
             row == [is |-> "saved", active |-> on, schedule |-> schedule, version |-> 1,
                     next |-> next]
  <2>1. next \in Int /\ (next # Never => on /\ schedule # Manual)
    BY <1>0, NextSlotIs DEF Never
  <2>2. search[s].is = "none" /\ search' = [search EXCEPT ![s] = row]
        /\ UNCHANGED <<clock, scans, tick, patch>>
    BY <1>1 DEF Create
  <2> HIDE DEF next
  <2>3. row \in Search
    BY <2>1 DEF Search
  <2>4. patch[s] = NoPatch /\ \A a \in scans : a.of # s
    BY <2>2 DEF ScheduleInv, ReadsHold, SlotsAhead
  <2> QED BY <1>0, <2>1, <2>2, <2>3, <2>4, RowWritten
<1>2. CASE Redeploy(s)
  <2>1. UNCHANGED <<clock, search, scans, tick, patch>>
    BY <1>2 DEF Redeploy
  <2> QED BY <1>0, <2>1, SearchesKept
<1>3. CASE PatchRead(s)
  <2> DEFINE read == [is |-> "read", at |-> clock, row |-> search[s]]
  <2>1. search[s].is = "saved" /\ patch' = [patch EXCEPT ![s] = read]
        /\ UNCHANGED <<clock, search, scans, tick>>
    BY <1>3 DEF PatchRead
  <2>2. read \in ReadOf /\ read.row = search[s]
    BY <1>0 DEF ReadOf
  <2> HIDE DEF read
  <2> QED BY <2>1, <2>2, RequestKept
<1>4. CASE PatchWrite(s)
  <2> DEFINE read == patch[s].row
  <2>1. /\ patch[s] # NoPatch /\ Current(s) /\ patch' = [patch EXCEPT ![s] = NoPatch]
        /\ UNCHANGED <<clock, scans, tick>>
    BY <1>4 DEF PatchWrite
  <2>2. patch[s] \in ReadOf
    BY <1>0, <2>1
  <2>3. read \in Search /\ patch[s].at \in 0 .. MaxClock
    BY <2>2 DEF ReadOf
  <2>4. PICK sent \in SUBSET {"schedule", "active"}, schedule \in Schedules \cup {Manual},
             on \in BOOLEAN, after \in Since(patch[s].at) :
          LET row == [search[s] EXCEPT
                !.schedule = IF "schedule" \in sent THEN schedule ELSE read.schedule,
                !.active = IF "active" \in sent THEN on ELSE read.active,
                !.version = @ + 1]
              next == IF row.active THEN NextSlot(row.schedule, after) ELSE Never
          IN  search' = [search EXCEPT ![s] =
                           IF sent = {} THEN row ELSE [row EXCEPT !.next = next]]
    BY <1>4 DEF PatchWrite
  <2> DEFINE newSchedule == IF "schedule" \in sent THEN schedule ELSE read.schedule
             newActive   == IF "active" \in sent THEN on ELSE read.active
             version     == search[s].version + 1
             changed     == [search[s] EXCEPT !.schedule = newSchedule, !.active = newActive,
                                              !.version = version]
             next        == IF changed.active THEN NextSlot(changed.schedule, after) ELSE Never
             row         == IF sent = {} THEN changed ELSE [changed EXCEPT !.next = next]
  <2>5. search' = [search EXCEPT ![s] = row]
    BY <2>4
  <2>6. newSchedule \in Schedules \cup {Manual} /\ newActive \in BOOLEAN /\ version \in Nat
    BY <1>0, <2>3 DEF Search
  <2>7. after \in 0 .. MaxClock
    BY <1>0, <2>3, ScheduleAssumption DEF Since
  <2>8. search[s].is = "saved"
    BY <2>1 DEF Current
  <2>9. sent = {} => /\ newSchedule = search[s].schedule
                     /\ search[s].active => newActive
    BY <2>1 DEF ScheduleInv, ReadsHold
  <2> HIDE DEF newSchedule, newActive, version
  <2>10. /\ changed \in Search /\ changed.is = "saved" /\ changed.schedule = newSchedule
         /\ changed.active <=> newActive
         /\ changed.version = version /\ changed.next = search[s].next
    BY <1>0, <2>6, <2>8 DEF Search
  <2> HIDE DEF changed
  <2>11. next \in Int /\ (next # Never => changed.active /\ changed.schedule # Manual)
    <3>1. changed.schedule \in Schedules \cup {Manual}
      BY <2>6, <2>10
    <3> QED BY <2>7, <3>1, NextSlotIs DEF Never
  <2> HIDE DEF next
  <2>12. row \in Search /\ row.is = "saved" /\ row.version = version
    BY <2>10, <2>11 DEF Search
  <2>13. row.next # Never => row.active /\ row.schedule # Manual
    <3>1. CASE sent = {}
      BY <2>9, <2>10, <3>1 DEF ScheduleInv, SlotsAreDue
    <3>2. CASE sent # {}
      <4>1. /\ row.next = next /\ row.schedule = changed.schedule
            /\ row.active <=> changed.active
        BY <2>10, <2>11, <3>2 DEF Search
      <4> QED BY <2>11, <4>1
    <3> QED BY <3>1, <3>2
  <2>14. \A a \in scans : a.of = s => a.version < version
    <3>1. \A a \in scans : a.of = s => a.version <= search[s].version /\ a.version \in Nat
      BY <1>0 DEF ScheduleInv, SlotsAhead, SlotOf
    <3>2. search[s].version \in Nat
      BY <1>0 DEF Search
    <3> QED BY <3>1, <3>2 DEF version
  <2>15. patch' \in [Searches -> ReadOf \cup {NoPatch}] /\ patch'[s] = NoPatch
         /\ \A r \in Searches : r # s => patch'[r] = patch[r]
    BY <1>0, <2>1
  <2> HIDE DEF row
  <2> QED BY <2>1, <2>5, <2>12, <2>13, <2>14, <2>15, RowWritten
<1>5. CASE PatchConflict(s)
  <2>1. patch' = [patch EXCEPT ![s] = NoPatch] /\ UNCHANGED <<clock, search, scans, tick>>
    BY <1>5 DEF PatchConflict
  <2> QED BY <2>1, RequestKept
<1>6. CASE Delete(s)
  <2> DEFINE row == [NoSearch EXCEPT !.is = "deleted"]
  <2>1. search[s].is = "saved" /\ (\A a \in scans : a.of # s)
        /\ search' = [search EXCEPT ![s] = row] /\ UNCHANGED <<clock, scans, tick, patch>>
    BY <1>6 DEF Delete
  <2>2. row \in Search /\ row.is = "deleted" /\ ~row.active /\ row.next = Never
    <3>1. NoSearch \in Search /\ ~NoSearch.active /\ NoSearch.next = Never
      BY DEF NoSearch, Search, Never
    <3>2. /\ row \in Search /\ row.is = "deleted" /\ row.next = NoSearch.next
          /\ row.active <=> NoSearch.active
      BY <3>1 DEF Search
    <3> QED BY <3>1, <3>2
  <2> HIDE DEF row
  <2>3. /\ search' \in [Searches -> Search] /\ search'[s] = row
        /\ \A r \in Searches : r # s => search'[r] = search[r]
    BY <1>0, <2>1, <2>2
  <2>4. ScheduleTyped'
    BY <1>0, <2>1, <2>3 DEF ScheduleTyped
  <2>5. SavedAct' /\ SlotsAreDue' /\ SlotsApart'
    BY <2>1, <2>2, <2>3 DEF ScheduleInv, SavedAct, SlotsAreDue, SlotsApart
  <2>6. ReadsHold'
    BY <2>1, <2>2, <2>3 DEF ScheduleInv, ReadsHold, Current
  <2>7. SlotsAhead'
    <3>1. \A a \in scans : a.of \in Searches /\ search'[a.of] = search[a.of]
      BY <1>0, <2>1, <2>3 DEF SlotOf
    <3> QED BY <2>1, <3>1 DEF ScheduleInv, SlotsAhead
  <2> QED BY <2>4, <2>5, <2>6, <2>7 DEF ScheduleInv
<1> QED BY <1>1, <1>2, <1>3, <1>4, <1>5, <1>6

LEMMA BatchStep ==
  ASSUME ScheduleInv, NEW t \in Ticks, Batch(t)
  PROVE  ScheduleInv'
<1> DEFINE now == tick[t]
<1>0. /\ clock \in 0 .. MaxClock /\ search \in [Searches -> Search]
      /\ patch \in [Searches -> ReadOf \cup {NoPatch}]
      /\ scans \subseteq SlotOf /\ now \in 0 .. MaxClock
      /\ UNCHANGED <<clock, tick, patch>>
  BY DEF ScheduleInv, ScheduleTyped, Batch
<1>1. PICK b \in Batches(now) :
        /\ scans' = scans \cup {SlotScan(s, now) : s \in {x \in b : loadable[x]}}
        /\ search' = [s \in Searches |-> IF s \notin b THEN search[s]
                                         ELSE IF loadable[s] THEN Advanced(s, now)
                                         ELSE Paused(s)]
  BY DEF Batch
<1>2. ASSUME NEW s \in b
      PROVE  /\ s \in Searches /\ search[s] \in Search /\ search[s].is = "saved"
             /\ search[s].active /\ search[s].schedule # Manual
             /\ search[s].next # Never /\ search[s].next <= now /\ search[s].next \in Int
             /\ search[s].version \in Nat
  <2>1. s \in Due(now)
    BY DEF Batches
  <2>2. s \in Searches /\ search[s] \in Search
    BY <1>0, <2>1 DEF Due
  <2> QED BY <2>1, <2>2 DEF Due, ScheduleInv, SavedAct, Search
<1> HIDE DEF now
<1>3. ASSUME NEW s \in b
      PROVE  LET row == Advanced(s, now)
             IN  /\ row \in Search /\ row.is = "saved" /\ row.version = search[s].version
                 /\ row.active /\ row.schedule = search[s].schedule
                 /\ row.next # Never => now < row.next
  <2> DEFINE next == NextSlot(search[s].schedule, now)
  <2>1. search[s].schedule \in Schedules \cup {Manual}
    BY <1>2 DEF Search
  <2>2. next \in Int /\ (next # Never => now < next)
    BY <1>0, <2>1, NextSlotIs
  <2> HIDE DEF next
  <2>3. Advanced(s, now) = [search[s] EXCEPT !.next = next]
    BY DEF Advanced, next
  <2> QED BY <1>2, <2>2, <2>3 DEF Search
<1>4. ASSUME NEW s \in b
      PROVE  LET row == Paused(s)
             IN  /\ row \in Search /\ row.is = "saved" /\ row.version = search[s].version
                 /\ ~row.active /\ row.schedule = search[s].schedule /\ row.next = Never
  <2> DEFINE off == FALSE
             row == [search[s] EXCEPT !.active = off, !.next = Never]
  <2>1. Paused(s) = row /\ off \in BOOLEAN /\ ~off /\ Never \in Int
    BY DEF Paused, Never
  <2> HIDE DEF off
  <2>2. /\ row \in Search /\ row.is = "saved" /\ row.version = search[s].version
        /\ row.active <=> off
        /\ row.schedule = search[s].schedule /\ row.next = Never
    BY <1>2, <2>1 DEF Search
  <2> QED BY <2>1, <2>2
<1>5. ASSUME NEW s \in Searches
      PROVE  /\ search'[s] \in Search
             /\ search'[s].is = search[s].is /\ search'[s].version = search[s].version
             /\ search'[s].schedule = search[s].schedule
             /\ search'[s].active => search[s].active
             /\ search'[s].next # Never => search'[s].active /\ search'[s].schedule # Manual
             /\ s \notin b => search'[s] = search[s]
             /\ s \in b /\ search'[s].next # Never => now < search'[s].next
  <2>1. CASE s \notin b
    BY <1>0, <1>1, <2>1 DEF ScheduleInv, SlotsAreDue
  <2>2. CASE s \in b /\ loadable[s]
    <3>1. search'[s] = Advanced(s, now)
      BY <1>1, <2>2
    <3> QED BY <1>2, <1>3, <2>2, <3>1
  <2>3. CASE s \in b /\ ~loadable[s]
    <3>1. search'[s] = Paused(s)
      BY <1>1, <2>3
    <3> QED BY <1>2, <1>4, <2>3, <3>1
  <2> QED BY <2>1, <2>2, <2>3
<1>6. ASSUME NEW a \in scans'
      PROVE  \/ a \in scans
             \/ \E s \in b : /\ a.of = s /\ a.version = search[s].version
                             /\ a.slot = search[s].next /\ a.at = now
                             /\ a = SlotScan(s, now) /\ a \in SlotOf
  <2>1. CASE a \notin scans
    <3>1. PICK s \in b : a = SlotScan(s, now)
      BY <1>1, <2>1
    <3> QED BY <1>0, <1>2, <3>1 DEF SlotScan, SlotOf
  <2> QED BY <2>1
<1>7. ScheduleTyped'
  <2>1. search' \in [Searches -> Search]
    <3>1. \A s \in Searches : search'[s] \in Search
      BY <1>5
    <3>2. search' = [s \in Searches |-> search'[s]]
      BY <1>1
    <3> QED BY <3>1, <3>2
  <2>2. scans' \subseteq SlotOf
    BY <1>0, <1>6
  <2> QED BY <1>0, <2>1, <2>2 DEF ScheduleInv, ScheduleTyped
<1>8. SavedAct' /\ SlotsAreDue'
  BY <1>5 DEF ScheduleInv, SavedAct, SlotsAreDue
<1>9. ReadsHold'
  <2> SUFFICES ASSUME NEW s \in Searches, patch[s] # NoPatch
               PROVE  /\ search'[s].is # "none"
                      /\ Current(s)' => /\ search'[s].schedule = patch[s].row.schedule
                                        /\ search'[s].active => patch[s].row.active
    BY <1>0 DEF ReadsHold
  <2>1. Current(s)' <=> Current(s)
    BY <1>0, <1>5 DEF Current
  <2> QED BY <1>5, <2>1 DEF ScheduleInv, ReadsHold
<1>10. \A a \in scans : /\ a.of \in Searches /\ a.at \in Int /\ a.version \in Nat /\ a.slot \in Int
                        /\ search[a.of].is = "saved" /\ a.version <= search[a.of].version
                        /\ a.version = search[a.of].version /\ search[a.of].next # Never
                             => a.at < search[a.of].next
  BY <1>0 DEF ScheduleInv, SlotsAhead, SlotOf
<1>11. SlotsAhead'
  <2> SUFFICES ASSUME NEW a \in scans'
               PROVE  /\ search'[a.of].is = "saved" /\ a.version <= search'[a.of].version
                      /\ a.version = search'[a.of].version /\ search'[a.of].next # Never
                           => a.at < search'[a.of].next
    BY DEF SlotsAhead
  <2>1. CASE a \in scans
    <3>1. CASE a.of \in b
      <4>1. /\ search'[a.of].next # Never => now < search'[a.of].next
            /\ search'[a.of].next \in Int
        BY <1>5, <1>10, <2>1, <3>1 DEF Search
      <4>2. search[a.of].next # Never /\ search[a.of].next <= now /\ search[a.of].next \in Int
        BY <1>2, <3>1
      <4>3. now \in Int
        BY <1>0
      <4> QED BY <1>5, <1>10, <2>1, <4>1, <4>2, <4>3
    <3>2. CASE a.of \notin b
      BY <1>5, <1>10, <2>1, <3>2
    <3> QED BY <3>1, <3>2
  <2>2. CASE a \notin scans
    <3>1. PICK s \in b : a.of = s /\ a.version = search[s].version /\ a.at = now
      BY <1>6, <2>2
    <3>2. s \in Searches /\ search[s].is = "saved" /\ search[s].version \in Nat
      BY <1>2
    <3> QED BY <1>5, <3>1, <3>2
  <2> QED BY <2>1, <2>2
<1>12. SlotsApart'
  <2>1. ASSUME NEW a \in scans, NEW c \in scans', c \notin scans, a.of = c.of,
               a.version = c.version
        PROVE  c.slot > a.at
    <3>1. PICK s \in b : c.of = s /\ c.version = search[s].version /\ c.slot = search[s].next
      BY <1>6, <2>1
    <3>2. search[s].next # Never /\ search[s].next \in Int
      BY <1>2
    <3> QED BY <1>10, <2>1, <3>1, <3>2
  <2>2. ASSUME NEW a \in scans', NEW c \in scans', a \notin scans, c \notin scans, a.of = c.of
        PROVE  a = c
    BY <1>6, <2>2
  <2> SUFFICES ASSUME NEW a \in scans', NEW c \in scans', a.of = c.of, a.version = c.version,
                      a # c
               PROVE  a.slot > c.at \/ c.slot > a.at
    BY DEF SlotsApart
  <2> QED BY <2>1, <2>2 DEF ScheduleInv, SlotsApart
<1> QED BY <1>7, <1>8, <1>9, <1>11, <1>12 DEF ScheduleInv

LEMMA ScheduleSteps == ScheduleInv /\ [ScheduleNext]_scheduleVars => ScheduleInv'
<1> SUFFICES ASSUME ScheduleInv, [ScheduleNext]_scheduleVars PROVE ScheduleInv'
  OBVIOUS
<1>0. /\ clock \in 0 .. MaxClock /\ patch \in [Searches -> ReadOf \cup {NoPatch}]
      /\ tick \in [Ticks -> (0 .. MaxClock) \cup {Asleep}]
  BY DEF ScheduleInv, ScheduleTyped
<1>1. ASSUME NEW s \in Searches,
             \/ \E schedule \in Schedules \cup {Manual}, on \in BOOLEAN :
                  Create(s, schedule, on)
             \/ Redeploy(s) \/ PatchRead(s) \/ PatchWrite(s) \/ PatchConflict(s) \/ Delete(s)
      PROVE  ScheduleInv'
  BY <1>1, OwnerSteps
<1>2. ASSUME NEW t \in Ticks, Batch(t) PROVE ScheduleInv'
  BY <1>2, BatchStep
<1>3. ASSUME NEW t \in Ticks, Wake(t) \/ Sleep(t) PROVE ScheduleInv'
  <2>1. UNCHANGED <<clock, search, scans, patch>>
        /\ (tick' = [tick EXCEPT ![t] = clock] \/ tick' = [tick EXCEPT ![t] = Asleep])
    BY <1>3 DEF Wake, Sleep
  <2>2. tick' \in [Ticks -> (0 .. MaxClock) \cup {Asleep}]
    BY <1>0, <2>1
  <2> QED BY <1>0, <2>1, <2>2, SearchesKept
<1>4. CASE Clock
  <2>1. clock' \in 0 .. MaxClock /\ UNCHANGED <<search, scans, tick, patch>>
    BY <1>0, <1>4, ScheduleAssumption DEF Clock
  <2> QED BY <1>0, <2>1, SearchesKept
<1>5. CASE UNCHANGED scheduleVars
  <2>1. UNCHANGED <<clock, search, scans, tick, patch>>
    BY <1>5 DEF scheduleVars
  <2> QED BY <1>0, <2>1, SearchesKept
<1> QED BY <1>1, <1>2, <1>3, <1>4, <1>5 DEF ScheduleNext

\* Only an active automatic search has a next slot, and no slot of a version is scanned twice
\* or after a later one, whatever edits, pauses and overlapping ticks do.
THEOREM OneScanPerSlot == ScheduleSpec => []ScheduledSlotsCollapse
<1>1. ScheduleInv => ScheduledSlotsCollapse
  BY DEF ScheduleInv, SlotsAreDue, SlotsApart, ScheduledSlotsCollapse
<1> QED BY <1>1, ScheduleStarts, ScheduleSteps, PTL DEF ScheduleSpec

(***************************************************************************)
(* Fit evaluations.                                                        *)
(***************************************************************************)
\* What has been read so far.
Partial == UNION {[some -> 0 .. MaxEdits] : some \in SUBSET Facts}

Memory == [at : {"idle", "prepare", "publish", "done"}, seen : Partial, again : Partial]

\* A state the facts had lies between what was read before the call and what is read after it.
Between(m, x) ==
  \A f \in Facts : /\ m.seen[f] <= x[f] /\ x[f] <= facts[f]
                   /\ f \in DOMAIN m.again => x[f] <= m.again[f]

Sound(m) ==
  /\ m.at = "prepare" => /\ DOMAIN m.again = {}
                         /\ \A f \in DOMAIN m.seen : m.seen[f] <= facts[f]
  /\ m.at = "publish" => DOMAIN m.seen = Facts /\ \E x \in was : Between(m, x)

Filed(row) == row = [version |-> row.version, key |-> row.key, from |-> row.key]

FitInv ==
  /\ facts \in Snapshots /\ facts \in was /\ was \subseteq Snapshots
  /\ fitMemory \in [Workers -> Memory]
  /\ \A w \in Workers : Sound(fitMemory[w])
  /\ \A row \in cache : Filed(row) /\ row.key \in was
  /\ \A row, other \in cache : other.version = row.version /\ other.key = row.key => other = row

LEMMA PartialIs ==
  /\ Nothing \in Partial /\ DOMAIN Nothing = {}
  /\ \A p \in Partial : /\ DOMAIN p \subseteq Facts /\ p = [f \in DOMAIN p |-> p[f]]
                        /\ \A f \in DOMAIN p : p[f] \in 0 .. MaxEdits
<1>1. Nothing \in [{} -> 0 .. MaxEdits] /\ DOMAIN Nothing = {}
  BY DEF Nothing
<1>2. ASSUME NEW p \in Partial
      PROVE  /\ DOMAIN p \subseteq Facts /\ p = [f \in DOMAIN p |-> p[f]]
             /\ \A f \in DOMAIN p : p[f] \in 0 .. MaxEdits
  <2>1. PICK some \in SUBSET Facts : p \in [some -> 0 .. MaxEdits]
    BY DEF Partial
  <2> QED BY <2>1
<1>3. {} \in SUBSET Facts
  OBVIOUS
<1> QED BY <1>1, <1>2, <1>3 DEF Partial

LEMMA ReadIs ==
  ASSUME facts \in Snapshots, NEW p \in Partial, NEW f \in Facts
  PROVE  /\ Read(p, f) \in Partial /\ DOMAIN Read(p, f) = DOMAIN p \cup {f}
         /\ \A g \in DOMAIN p \cup {f} : Read(p, f)[g] = IF g = f THEN facts[f] ELSE p[g]
<1>1. DOMAIN p \subseteq Facts /\ \A g \in DOMAIN p : p[g] \in 0 .. MaxEdits
  BY PartialIs
<1>2. facts[f] \in 0 .. MaxEdits
  BY DEF Snapshots
<1> DEFINE some == DOMAIN p \cup {f}
<1>3. Read(p, f) \in [some -> 0 .. MaxEdits] /\ some \in SUBSET Facts
  BY <1>1, <1>2 DEF Read
<1> QED BY <1>3 DEF Read, Partial

\* A process that remembers something sound.
LEMMA RememberedIsSound ==
  ASSUME FitInv, NEW w \in Workers, NEW m \in Memory, Sound(m),
         RememberFit(w, m), UNCHANGED <<facts, was, cache>>
  PROVE  FitInv'
<1>1. /\ fitMemory' \in [Workers -> Memory]
      /\ \A v \in Workers : fitMemory'[v] = m \/ fitMemory'[v] = fitMemory[v]
  BY DEF RememberFit, FitInv
<1>2. \A v \in Workers : Sound(fitMemory'[v])
  BY <1>1 DEF FitInv
<1>3. \A v \in Workers : Sound(fitMemory[v])'
  BY <1>2 DEF Sound, Between
<1> QED BY <1>1, <1>3 DEF FitInv, Snapshots, Filed

LEMMA IdleIsSound ==
  ASSUME NEW at \in {"idle", "done"}
  PROVE  [FitIdle EXCEPT !.at = at] \in Memory /\ Sound([FitIdle EXCEPT !.at = at])
<1>1. [FitIdle EXCEPT !.at = at] = [at |-> at, seen |-> Nothing, again |-> Nothing]
  BY DEF FitIdle
<1> QED BY <1>1, PartialIs DEF Memory, Sound

LEMMA FitStarts == FitInit => FitInv
<1> SUFFICES ASSUME FitInit PROVE FitInv
  OBVIOUS
<1>1. facts \in Snapshots /\ was = {facts} /\ cache = {}
  BY EditsAssumption DEF FitInit, Snapshots
<1>2. [FitIdle EXCEPT !.at = "idle"] = FitIdle
  BY DEF FitIdle
<1>3. FitIdle \in Memory /\ Sound(FitIdle)
  BY <1>2, IdleIsSound
<1>4. fitMemory \in [Workers -> Memory] /\ \A w \in Workers : fitMemory[w] = FitIdle
  BY <1>3 DEF FitInit
<1> QED BY <1>1, <1>3, <1>4 DEF FitInv

\* What a process remembers stays sound while the facts grow.
LEMMA SoundAsFactsGrow ==
  ASSUME facts \in Snapshots, facts' \in Snapshots, was \subseteq Snapshots, was \subseteq was',
         \A g \in Facts : facts[g] <= facts'[g],
         NEW m \in Memory, Sound(m)
  PROVE  Sound(m)'
<1>0. m.seen \in Partial /\ \A g \in Facts : facts[g] \in Int /\ facts'[g] \in Int
  BY EditsAssumption DEF Memory, Snapshots
<1>1. ASSUME m.at = "prepare"
      PROVE  DOMAIN m.again = {} /\ \A g \in DOMAIN m.seen : m.seen[g] <= facts'[g]
  <2>1. DOMAIN m.again = {}
    BY <1>1 DEF Sound
  <2>2. ASSUME NEW g \in DOMAIN m.seen PROVE m.seen[g] <= facts'[g]
    <3>1. m.seen[g] <= facts[g]
      BY <1>1 DEF Sound
    <3>2. g \in Facts /\ m.seen[g] \in Int
      BY <1>0, EditsAssumption, PartialIs
    <3>3. facts[g] \in Int /\ facts'[g] \in Int /\ facts[g] <= facts'[g]
      BY <1>0, <3>2
    <3> QED BY <3>1, <3>2, <3>3
  <2> QED BY <2>1, <2>2
<1>2. ASSUME m.at = "publish"
      PROVE  DOMAIN m.seen = Facts
             /\ \E x \in was' : \A g \in Facts :
                  /\ m.seen[g] <= x[g] /\ x[g] <= facts'[g]
                  /\ g \in DOMAIN m.again => x[g] <= m.again[g]
  <2>1. PICK x \in was : Between(m, x)
    BY <1>2 DEF Sound
  <2>2. \A g \in Facts : x[g] \in Int
    BY EditsAssumption DEF Snapshots
  <2>3. ASSUME NEW g \in Facts PROVE x[g] <= facts'[g]
    <3>1. x[g] <= facts[g] /\ facts[g] <= facts'[g]
      BY <2>1 DEF Between
    <3> QED BY <1>0, <2>2, <3>1
  <2> QED BY <1>2, <2>1, <2>3 DEF Sound, Between
<1> QED BY <1>1, <1>2 DEF Sound, Between

LEMMA FactsEdited ==
  ASSUME FitInv, NEW f \in Facts, Edit(f)
  PROVE  FitInv'
<1>1. /\ facts' \in Snapshots /\ was' = was \cup {facts'} /\ UNCHANGED <<fitMemory, cache>>
      /\ \A g \in Facts : facts[g] <= facts'[g]
  BY EditsAssumption DEF Edit, FitInv, Snapshots
<1>2. facts \in Snapshots /\ was \subseteq Snapshots /\ was \subseteq was'
  BY <1>1 DEF FitInv
<1>3. ASSUME NEW w \in Workers PROVE Sound(fitMemory[w])'
  <2>1. fitMemory'[w] = fitMemory[w] /\ fitMemory[w] \in Memory /\ Sound(fitMemory[w])
    BY <1>1 DEF FitInv
  <2>2. ASSUME NEW m \in Memory, Sound(m) PROVE Sound(m)'
    BY <1>1, <1>2, <2>2, SoundAsFactsGrow
  <2>3. ASSUME NEW m, m = fitMemory[w] PROVE Sound(m)'
    BY <2>1, <2>2, <2>3
  <2> QED BY <2>1, <2>3 DEF Sound, Between
<1> QED BY <1>1, <1>3 DEF FitInv, Snapshots, Filed

\* Prepare, and the same again after the call.
LEMMA FactRead ==
  ASSUME FitInv, NEW w \in Workers, NEW f \in Facts, Prepare(w, f) \/ Refresh(w, f)
  PROVE  FitInv'
<1> DEFINE m == fitMemory[w]
<1>0. m \in Memory /\ Sound(m) /\ facts \in Snapshots /\ m.seen \in Partial /\ m.again \in Partial
  BY DEF FitInv, Memory
<1>a. \A g \in Facts : facts[g] \in Int /\ facts[g] <= facts[g]
  BY EditsAssumption DEF FitInv, Snapshots
<1> HIDE DEF m
<1>1. CASE Prepare(w, f)
  <2> DEFINE seen == Read(m.seen, f)
             now1 == [m EXCEPT !.seen = seen]
  <2>1. m.at = "prepare" /\ RememberFit(w, now1) /\ UNCHANGED <<facts, was, cache>>
    BY <1>1 DEF Prepare, Work, m
  <2>a. \A g \in DOMAIN m.seen \cup {f} : seen[g] = IF g = f THEN facts[f] ELSE m.seen[g]
    BY DEF Read
  <2>b. seen \in Partial /\ DOMAIN seen = DOMAIN m.seen \cup {f}
    BY <1>0, ReadIs
  <2>2. seen \in Partial /\ DOMAIN seen = DOMAIN m.seen \cup {f}
        /\ \A g \in DOMAIN seen : seen[g] = IF g = f THEN facts[f] ELSE m.seen[g]
    BY <2>a, <2>b
  <2> HIDE DEF seen
  <2>3. now1 \in Memory /\ now1.at = "prepare" /\ now1.seen = seen /\ now1.again = m.again
    BY <1>0, <2>1, <2>2 DEF Memory
  <2>4. \A g \in DOMAIN seen : seen[g] <= facts[g]
    BY <1>0, <1>a, <2>1, <2>2 DEF Sound
  <2>5. Sound(now1)
    BY <1>0, <2>1, <2>3, <2>4 DEF Sound
  <2> HIDE DEF now1
  <2> QED BY <2>1, <2>3, <2>5, RememberedIsSound
<1>2. CASE Refresh(w, f)
  <2> DEFINE again == Read(m.again, f)
             now2 == [m EXCEPT !.again = again]
  <2>1. m.at = "publish" /\ RememberFit(w, now2) /\ UNCHANGED <<facts, was, cache>>
    BY <1>2 DEF Refresh, Work, m
  <2>a. \A g \in DOMAIN m.again \cup {f} : again[g] = IF g = f THEN facts[f] ELSE m.again[g]
    BY DEF Read
  <2>b. again \in Partial /\ DOMAIN again = DOMAIN m.again \cup {f}
    BY <1>0, ReadIs
  <2>2. again \in Partial /\ DOMAIN again = DOMAIN m.again \cup {f}
        /\ \A g \in DOMAIN again : again[g] = IF g = f THEN facts[f] ELSE m.again[g]
    BY <2>a, <2>b
  <2> HIDE DEF again
  <2>3. now2 \in Memory /\ now2.at = "publish" /\ now2.seen = m.seen /\ now2.again = again
    BY <1>0, <2>1, <2>2 DEF Memory
  <2>4. PICK x \in was : Between(m, x)
    BY <1>0, <2>1 DEF Sound
  <2>5. Between(now2, x)
    BY <2>2, <2>3, <2>4 DEF Between
  <2>6. Sound(now2)
    BY <1>0, <2>1, <2>3, <2>5 DEF Sound
  <2> HIDE DEF now2
  <2> QED BY <2>1, <2>3, <2>6, RememberedIsSound
<1> QED BY <1>1, <1>2

\* The provider is called when everything has been read: the facts as they are now are a
\* state at least as new as every one of them.
LEMMA ProviderCalled ==
  ASSUME FitInv, NEW w \in Workers, Evaluate(w)
  PROVE  FitInv'
<1> DEFINE m == fitMemory[w]
           called == [m EXCEPT !.at = "publish"]
<1>0. m \in Memory /\ Sound(m) /\ facts \in Snapshots /\ facts \in was
  BY DEF FitInv
<1>1. m.at = "prepare" /\ DOMAIN m.seen = Facts /\ RememberFit(w, called)
      /\ UNCHANGED <<facts, was, cache>>
  BY DEF Evaluate, Seen, Work
<1> HIDE DEF m
<1>2. called \in Memory /\ called.at = "publish" /\ called.seen = m.seen /\ called.again = m.again
  BY <1>0 DEF Memory
<1>3. Between(called, facts)
  <2>1. \A f \in Facts : facts[f] \in Int
    BY <1>0 DEF Snapshots
  <2> QED BY <1>0, <1>1, <1>2, <2>1 DEF Between, Sound
<1>4. Sound(called)
  BY <1>0, <1>1, <1>2, <1>3 DEF Sound
<1> HIDE DEF called
<1> QED BY <1>1, <1>2, <1>4, RememberedIsSound

\* What was read before and after the call is the same, so it is the state in between.
LEMMA VerdictStored ==
  ASSUME FitInv, NEW w \in Workers, StoreVerdict(w)
  PROVE  FitInv'
<1> DEFINE m == fitMemory[w]
           row == [version |-> fitClaim[w].job.version, key |-> m.again, from |-> m.seen]
           done == [FitIdle EXCEPT !.at = "done"]
<1>0. m \in Memory /\ Sound(m) /\ facts \in Snapshots /\ was \subseteq Snapshots
      /\ m.seen \in Partial /\ m.again \in Partial
  BY DEF FitInv, Memory
<1>1. /\ m.at = "publish" /\ DOMAIN m.again = Facts /\ m.again = m.seen
      /\ cache' = IF Cached(Entry(w)) THEN cache ELSE cache \cup {row}
      /\ RememberFit(w, done) /\ UNCHANGED <<facts, was>>
  BY DEF StoreVerdict, Refreshed, Unchanged, Work
<1>2. Cached(Entry(w)) <=> \E other \in cache : other.version = row.version /\ other.key = row.key
  BY <1>1 DEF Cached, Entry
<1> HIDE DEF m
<1>3. m.seen \in was
  <2>1. PICK x \in was : Between(m, x)
    BY <1>0, <1>1 DEF Sound
  <2>2. ASSUME NEW f \in Facts PROVE x[f] = m.seen[f]
    <3>1. m.seen[f] <= x[f] /\ x[f] <= m.seen[f]
      BY <1>1, <2>1 DEF Between
    <3>2. x[f] \in 0 .. MaxEdits
      BY <1>0 DEF Snapshots
    <3>3. m.seen[f] \in 0 .. MaxEdits
      BY <1>0, <1>1, PartialIs
    <3> QED BY <3>1, <3>2, <3>3
  <2>3. x = [f \in Facts |-> x[f]]
    BY <1>0 DEF Snapshots
  <2>4. m.seen = [f \in Facts |-> m.seen[f]]
    BY <1>0, <1>1, PartialIs
  <2> QED BY <2>2, <2>3, <2>4
<1>4. Filed(row) /\ row.key \in was
  BY <1>1, <1>3 DEF Filed
<1> HIDE DEF row
<1>5. done \in Memory /\ Sound(done)
  BY IdleIsSound
<1> HIDE DEF done
<1>6. /\ fitMemory' \in [Workers -> Memory]
      /\ \A v \in Workers : fitMemory'[v] = done \/ fitMemory'[v] = fitMemory[v]
  BY <1>1, <1>5 DEF RememberFit, FitInv
<1>7. \A v \in Workers : Sound(fitMemory'[v])
  BY <1>5, <1>6 DEF FitInv
<1>8. \A v \in Workers : Sound(fitMemory[v])'
  BY <1>1, <1>7 DEF Sound, Between
<1>9. \A r \in cache' : Filed(r) /\ r.key \in was'
  BY <1>1, <1>4 DEF FitInv
<1>10. \A r, other \in cache' : other.version = r.version /\ other.key = r.key => other = r
  BY <1>1, <1>2 DEF FitInv
<1> QED BY <1>1, <1>6, <1>8, <1>9, <1>10 DEF FitInv, Snapshots, Filed

LEMMA FitSteps == FitInv /\ [FitNext]_fitVars => FitInv'
<1> SUFFICES ASSUME FitInv, [FitNext]_fitVars PROVE FitInv'
  OBVIOUS
<1>1. ASSUME UNCHANGED <<facts, was, fitMemory, cache>> PROVE FitInv'
  BY <1>1 DEF FitInv, Snapshots, Memory, Partial, Sound, Between, Filed
<1>2. ASSUME NEW w \in Workers, NEW at \in {"idle", "done"}, RememberFit(w, [FitIdle EXCEPT !.at = at]),
             UNCHANGED <<facts, was, cache>>
      PROVE  FitInv'
  BY <1>2, IdleIsSound, RememberedIsSound
<1>3. [FitIdle EXCEPT !.at = "idle"] = FitIdle
  BY DEF FitIdle
<1>4. ASSUME NEW w \in Workers, PollFit(w) PROVE FitInv'
  <2> DEFINE m == [FitIdle EXCEPT !.at = "prepare"]
  <2>1. UNCHANGED <<facts, was, cache>> /\ (RememberFit(w, FitIdle) \/ RememberFit(w, m))
    BY <1>4 DEF PollFit, Work
  <2>2. m = [at |-> "prepare", seen |-> Nothing, again |-> Nothing]
    BY DEF FitIdle
  <2> HIDE DEF m
  <2>3. m \in Memory /\ Sound(m)
    BY <2>2, PartialIs DEF Memory, Sound
  <2> QED BY <1>2, <1>3, <2>1, <2>3, RememberedIsSound
<1>5. ASSUME NEW w \in Workers, HandleFit(w) PROVE FitInv'
  <2>1. CASE \E f \in Facts : Prepare(w, f) \/ Refresh(w, f)
    BY <2>1, FactRead
  <2>2. CASE Evaluate(w)
    BY <2>2, ProviderCalled
  <2>3. CASE StoreVerdict(w)
    BY <2>3, VerdictStored
  <2>4. CASE Fallback(w)
    <3>1. RememberFit(w, [FitIdle EXCEPT !.at = "done"]) /\ UNCHANGED <<facts, was, cache>>
      BY <2>4 DEF Fallback, Work
    <3> QED BY <1>2, <3>1
  <2>5. CASE CompleteFit(w) \/ GiveUpFit(w)
    <3>1. RememberFit(w, [FitIdle EXCEPT !.at = "idle"]) /\ UNCHANGED <<facts, was, cache>>
      BY <1>3, <2>5 DEF CompleteFit, GiveUpFit, Work
    <3> QED BY <1>2, <3>1
  <2> QED BY <1>5, <2>1, <2>2, <2>3, <2>4, <2>5 DEF HandleFit
<1>6. ASSUME NEW f \in Facts, Edit(f) PROVE FitInv'
  BY <1>6, FactsEdited
<1>7. CASE \/ \E v \in Versions : Match(v)
           \/ Backfill \/ Pause \/ FitTick
           \/ \E w \in Workers : RenewFit(w)
           \/ UNCHANGED fitVars
  <2>1. UNCHANGED <<facts, was, fitMemory, cache>>
    BY <1>7 DEF Match, Backfill, Pause, FitTick, RenewFit, Work, fitVars
  <2> QED BY <1>1, <2>1
<1> QED BY <1>4, <1>5, <1>6, <1>7 DEF FitNext

\* A verdict in the cache was computed from the facts it is filed under, these were all current
\* at one moment although they are read row by row, and they are filed once.
THEOREM GroundedVerdicts == FitSpec => []FitVerdictsGrounded
<1>1. FitInv => FitVerdictsGrounded
  <2> SUFFICES ASSUME FitInv, NEW row \in cache
               PROVE  row.from = row.key /\ row.key \in was
    BY DEF FitInv, FitVerdictsGrounded
  <2>1. row = [version |-> row.version, key |-> row.key, from |-> row.key] /\ row.key \in was
    BY DEF FitInv, Filed
  <2> QED BY <2>1
<1> QED BY <1>1, FitStarts, FitSteps, PTL DEF FitSpec

(***************************************************************************)
(* Rows of background_jobs, as every component that works under leases has *)
(* them: what the transformers of JobRow write, whatever the number of     *)
(* attempts.                                                               *)
(***************************************************************************)
JobEnds == {"succeeded", "cancelled", "dead_letter"}

JobStages == {"queued", "claimed", "working", "retry_scheduled", "lease_recovered",
              "operator_requeued"} \cup JobEnds

LeaseRow ==
  [status : {"absent", "queued", "running"} \cup JobEnds, stage : JobStages, attempts : Nat,
   wait : Int, lease : Int, owner : Workers \cup {NoOwner}, token : Tokens \cup {NoToken},
   cancel : BOOLEAN, stamps : SUBSET {"completed", "failed", "cancelled", "dead_lettered"}]

Released(row) == [row EXCEPT !.owner = NoOwner, !.token = NoToken, !.lease = 0]

Stamp(row, stamp) == [row EXCEPT !.stamps = @ \cup {stamp}]

End(row, status, stamp) == Stamp([Released(row) EXCEPT !.status = status, !.stage = status], stamp)

Again(row, stage) == [Released(row) EXCEPT !.status = "queued", !.stage = stage, !.wait = 0]

Anew(row) == [Again(row, "operator_requeued") EXCEPT !.attempts = 0, !.cancel = FALSE, !.stamps = {}]

Leased(row, w, t) ==
  [row EXCEPT !.status = "running", !.stage = "claimed", !.attempts = @ + 1, !.wait = 0,
              !.owner = w, !.token = t, !.lease = LeaseTime]

\* A transformer that leaves status, cancellation and attempts alone.
SameStand(row, after) ==
  after.status = row.status /\ after.cancel = row.cancel /\ after.attempts = row.attempts

LEMMA RowsReleased ==
  ASSUME NEW row \in LeaseRow, NEW stage \in JobStages,
         NEW stamp \in {"completed", "failed", "cancelled", "dead_lettered"}
  PROVE  /\ Released(row) \in LeaseRow /\ SameStand(row, Released(row))
         /\ Stamp(row, stamp) \in LeaseRow /\ SameStand(row, Stamp(row, stamp))
         /\ [row EXCEPT !.stage = stage] \in LeaseRow
         /\ SameStand(row, [row EXCEPT !.stage = stage])
         /\ \A n \in Int : /\ [row EXCEPT !.lease = n] \in LeaseRow
                           /\ SameStand(row, [row EXCEPT !.lease = n])
<1>1. Released(row) \in LeaseRow /\ SameStand(row, Released(row))
  <2>1. NoOwner \in Workers \cup {NoOwner} /\ NoToken \in Tokens \cup {NoToken} /\ 0 \in Int
    OBVIOUS
  <2> QED BY <2>1 DEF Released, LeaseRow, SameStand
<1>2. Stamp(row, stamp) \in LeaseRow /\ SameStand(row, Stamp(row, stamp))
  BY DEF Stamp, LeaseRow, SameStand
<1>3. [row EXCEPT !.stage = stage] \in LeaseRow /\ SameStand(row, [row EXCEPT !.stage = stage])
  BY DEF LeaseRow, SameStand
<1>4. \A n \in Int : /\ [row EXCEPT !.lease = n] \in LeaseRow
                     /\ SameStand(row, [row EXCEPT !.lease = n])
  BY DEF LeaseRow, SameStand
<1> QED BY <1>1, <1>2, <1>3, <1>4

LEMMA RowsEnded ==
  ASSUME NEW row \in LeaseRow, NEW status \in JobEnds,
         NEW stamp \in {"completed", "cancelled", "dead_lettered"}
  PROVE  /\ End(row, status, stamp) \in LeaseRow
         /\ End(row, status, stamp).status = status
         /\ End(row, status, stamp).cancel = row.cancel
         /\ End(row, status, stamp).attempts = row.attempts
<1> DEFINE free == Released(row)
           ended == [free EXCEPT !.status = status, !.stage = status]
<1>1. free \in LeaseRow /\ SameStand(row, free) /\ status \in JobStages
  BY RowsReleased DEF JobStages
<1> HIDE DEF free
<1>2. ended \in LeaseRow /\ ended.status = status /\ ended.cancel = row.cancel
      /\ ended.attempts = row.attempts
  BY <1>1 DEF LeaseRow, SameStand
<1> HIDE DEF ended
<1>3. Stamp(ended, stamp) \in LeaseRow /\ SameStand(ended, Stamp(ended, stamp))
  BY <1>1, <1>2, RowsReleased
<1>4. End(row, status, stamp) = Stamp(ended, stamp)
  BY DEF End, ended, free
<1> QED BY <1>2, <1>3, <1>4 DEF SameStand

LEMMA RowsQueued ==
  ASSUME NEW row \in LeaseRow, NEW stage \in JobStages
  PROVE  /\ Again(row, stage) \in LeaseRow
         /\ Again(row, stage).status = "queued"
         /\ Again(row, stage).cancel = row.cancel
         /\ Again(row, stage).attempts = row.attempts
         /\ Anew(row) \in LeaseRow
         /\ Anew(row).status = "queued" /\ ~Anew(row).cancel
         /\ Anew(row).attempts = 0
<1> DEFINE free == Released(row)
<1>2. free \in LeaseRow /\ SameStand(row, free) /\ "operator_requeued" \in JobStages
  BY RowsReleased DEF JobStages
<1>3. ASSUME NEW st \in JobStages
      PROVE  /\ Again(row, st) \in LeaseRow /\ Again(row, st).status = "queued"
             /\ Again(row, st).cancel = row.cancel /\ Again(row, st).attempts = row.attempts
  <2>1. Again(row, st) = [free EXCEPT !.status = "queued", !.stage = st, !.wait = 0]
    BY DEF Again
  <2> HIDE DEF free
  <2>2. "queued" \in {"absent", "queued", "running"} \cup JobEnds /\ 0 \in Int
    OBVIOUS
  <2> QED BY <1>2, <2>1, <2>2 DEF LeaseRow, SameStand
<1> DEFINE queued == Again(row, "operator_requeued")
           off == FALSE
           none == {}
<1>4. queued \in LeaseRow /\ queued.status = "queued"
  BY <1>2, <1>3
<1>5. Anew(row) = [queued EXCEPT !.attempts = 0, !.cancel = off, !.stamps = none]
  BY DEF Anew
<1>6. off \in BOOLEAN /\ ~off /\ 0 \in Nat
      /\ none \in SUBSET {"completed", "failed", "cancelled", "dead_lettered"}
  OBVIOUS
<1> HIDE DEF queued, off, none
<1>7. Anew(row) \in LeaseRow /\ Anew(row).status = "queued" /\ (Anew(row).cancel <=> off)
      /\ Anew(row).attempts = 0
  BY <1>4, <1>5, <1>6 DEF LeaseRow
<1> QED BY <1>3, <1>6, <1>7

LEMMA RowsLeased ==
  ASSUME NEW row \in LeaseRow, NEW w \in Workers, NEW t \in Tokens
  PROVE  /\ Leased(row, w, t) \in LeaseRow
         /\ Leased(row, w, t).status = "running"
         /\ Leased(row, w, t).cancel = row.cancel
         /\ Leased(row, w, t).attempts = row.attempts + 1
         /\ Leased(row, w, t).owner = w /\ Leased(row, w, t).token = t
<1> DEFINE tried == row.attempts + 1
           until == LeaseTime
<1>1. tried \in Nat /\ until \in Int /\ w \in Workers \cup {NoOwner} /\ t \in Tokens \cup {NoToken}
  BY PoolAssumption DEF LeaseRow
<1>2. "running" \in {"absent", "queued", "running"} \cup JobEnds /\ "claimed" \in JobStages
      /\ 0 \in Int
  BY DEF JobStages
<1>3. Leased(row, w, t) =
        [row EXCEPT !.status = "running", !.stage = "claimed", !.attempts = tried, !.wait = 0,
                    !.owner = w, !.token = t, !.lease = until]
  BY DEF Leased
<1> HIDE DEF tried, until
<1>4. /\ Leased(row, w, t) \in LeaseRow
      /\ Leased(row, w, t).status = "running"
      /\ Leased(row, w, t).cancel = row.cancel
      /\ Leased(row, w, t).attempts = tried
      /\ Leased(row, w, t).owner = w /\ Leased(row, w, t).token = t
  BY <1>1, <1>2, <1>3 DEF LeaseRow
<1> QED BY <1>4 DEF tried

\* CompletedRow, CancelledRow, FailedRow and RecoveredRow, for a budget of attempts.
Done(row) ==
  IF row.cancel THEN End(row, "cancelled", "cancelled") ELSE End(row, "succeeded", "completed")

Doomed(row) ==
  IF row.status = "running" THEN [row EXCEPT !.cancel = TRUE]
  ELSE IF row.status = "queued" THEN [End(row, "cancelled", "cancelled") EXCEPT !.cancel = TRUE]
  ELSE row

Failed(row, terminal, budget) ==
  IF row.cancel THEN End(row, "cancelled", "cancelled")
  ELSE IF terminal \/ row.attempts >= budget
  THEN End(Stamp(row, "failed"), "dead_letter", "dead_lettered")
  ELSE Again(Stamp(row, "failed"), "retry_scheduled")

Lost(row, budget) ==
  IF row.cancel THEN End(row, "cancelled", "cancelled")
  ELSE IF row.attempts >= budget THEN End(row, "dead_letter", "dead_lettered")
  ELSE Again(row, "lease_recovered")

LEMMA RowsCompleted ==
  ASSUME NEW row \in LeaseRow
  PROVE  /\ Done(row) \in LeaseRow
         /\ Done(row).status = IF row.cancel THEN "cancelled" ELSE "succeeded"
         /\ Done(row).cancel = row.cancel
BY RowsEnded DEF Done, JobEnds

LEMMA RowsDoomed ==
  ASSUME NEW row \in LeaseRow
  PROVE  /\ Doomed(row) \in LeaseRow
         /\ Doomed(row).status = IF row.status = "queued" THEN "cancelled" ELSE row.status
         /\ row.status \in {"queued", "running"} => Doomed(row).cancel
         /\ row.status \notin {"queued", "running"} => Doomed(row) = row
         /\ Doomed(row).attempts = row.attempts
<1> DEFINE ended == End(row, "cancelled", "cancelled")
           on == TRUE
<1>1. ended \in LeaseRow /\ ended.status = "cancelled" /\ ended.attempts = row.attempts
  BY RowsEnded DEF JobEnds
<1>2. on \in BOOLEAN /\ on
  OBVIOUS
<1>3. Doomed(row) = IF row.status = "running" THEN [row EXCEPT !.cancel = on]
                    ELSE IF row.status = "queued" THEN [ended EXCEPT !.cancel = on] ELSE row
  BY DEF Doomed
<1> HIDE DEF ended, on
<1>4. \A r \in LeaseRow : /\ [r EXCEPT !.cancel = on] \in LeaseRow
                          /\ [r EXCEPT !.cancel = on].status = r.status
                          /\ [r EXCEPT !.cancel = on].attempts = r.attempts
                          /\ [r EXCEPT !.cancel = on].cancel <=> on
  BY <1>2 DEF LeaseRow
<1> QED BY <1>1, <1>2, <1>3, <1>4

LEMMA RowsFailed ==
  ASSUME NEW row \in LeaseRow, NEW terminal \in BOOLEAN, NEW budget \in Nat
  PROVE  /\ Failed(row, terminal, budget) \in LeaseRow
         /\ Failed(row, terminal, budget).cancel = row.cancel
         /\ row.cancel => Failed(row, terminal, budget).status = "cancelled"
         /\ ~row.cancel /\ (terminal \/ row.attempts >= budget) =>
              Failed(row, terminal, budget).status = "dead_letter"
         /\ ~row.cancel /\ ~(terminal \/ row.attempts >= budget) =>
              Failed(row, terminal, budget).status = "queued"
         /\ Failed(row, terminal, budget).attempts = row.attempts
<1> DEFINE noted == Stamp(row, "failed")
<1>1. noted \in LeaseRow /\ noted.cancel = row.cancel /\ noted.attempts = row.attempts
  BY RowsReleased DEF JobStages, SameStand
<1>2. "retry_scheduled" \in JobStages
  BY DEF JobStages
<1> HIDE DEF noted
<1>3. LET e == End(row, "cancelled", "cancelled")
      IN  e \in LeaseRow /\ e.status = "cancelled" /\ e.cancel = row.cancel
          /\ e.attempts = row.attempts
  BY RowsEnded DEF JobEnds
<1>4. LET e == End(noted, "dead_letter", "dead_lettered")
      IN  e \in LeaseRow /\ e.status = "dead_letter" /\ e.cancel = row.cancel
          /\ e.attempts = row.attempts
  BY <1>1, RowsEnded DEF JobEnds
<1>5. LET e == Again(noted, "retry_scheduled")
      IN  e \in LeaseRow /\ e.status = "queued" /\ e.cancel = row.cancel
          /\ e.attempts = row.attempts
  BY <1>1, <1>2, RowsQueued
<1> QED BY <1>3, <1>4, <1>5 DEF Failed, noted

LEMMA RowsLost ==
  ASSUME NEW row \in LeaseRow, NEW budget \in Nat
  PROVE  /\ Lost(row, budget) \in LeaseRow
         /\ Lost(row, budget).cancel = row.cancel
         /\ row.cancel => Lost(row, budget).status = "cancelled"
         /\ ~row.cancel /\ row.attempts >= budget => Lost(row, budget).status = "dead_letter"
         /\ ~row.cancel /\ ~(row.attempts >= budget) => Lost(row, budget).status = "queued"
         /\ Lost(row, budget).attempts = row.attempts
<1>1. "lease_recovered" \in JobStages
  BY DEF JobStages
<1>2. LET e == End(row, "cancelled", "cancelled")
      IN  e \in LeaseRow /\ e.status = "cancelled" /\ e.cancel = row.cancel
          /\ e.attempts = row.attempts
  BY RowsEnded DEF JobEnds
<1>3. LET e == End(row, "dead_letter", "dead_lettered")
      IN  e \in LeaseRow /\ e.status = "dead_letter" /\ e.cancel = row.cancel
          /\ e.attempts = row.attempts
  BY RowsEnded DEF JobEnds
<1>4. LET e == Again(row, "lease_recovered")
      IN  e \in LeaseRow /\ e.status = "queued" /\ e.cancel = row.cancel
          /\ e.attempts = row.attempts
  BY <1>1, RowsQueued
<1> QED BY <1>2, <1>3, <1>4 DEF Lost

(***************************************************************************)
(* Hunt runs.                                                              *)
(***************************************************************************)
\* HuntAgrees, of a run and its row.
Agree(h, row) ==
  /\ h.is = "live" <=> row.status # "absent"
  /\ h.result <=> row.status = "succeeded"
  /\ h.request => ~row.cancel /\ row.status \notin {"succeeded", "cancelled"}
  /\ h.outcomes => h.result

HuntTyped ==
  /\ huntJob \in [Runs -> LeaseRow]
  /\ huntClaim \in [Workers -> [job : Runs \cup {NoJob}, token : Tokens \cup {NoToken}]]
  /\ hunt \in [Runs -> Hunt]
  /\ policy \in 0..MaxLife

OneRunPerKey == \A q, r \in Runs : Live(q) /\ Live(r) /\ KeyOf[q] = KeyOf[r] => q = r

HuntInv == HuntTyped /\ (\A r \in Runs : Agree(hunt[r], huntJob[r])) /\ OneRunPerKey

\* What the queue of the hunts writes.
LEMMA HuntWrites ==
  /\ HuntQueue!NoRow \in LeaseRow /\ HuntQueue!NoRow.status = "absent" /\ ~HuntQueue!NoRow.cancel
  /\ LET fresh == HuntQueue!NewRow(0, 0)
     IN  fresh \in LeaseRow /\ fresh.status = "queued" /\ ~fresh.cancel /\ fresh.attempts = 0
  /\ \A row \in LeaseRow :
       /\ HuntQueue!CancelledRow(row) = Doomed(row)
       /\ HuntQueue!CompletedRow(row) = Done(row)
       /\ HuntQueue!RecoveredRow(row, 0) = Lost(row, HuntAttempts)
       /\ HuntQueue!RequeuedRow(row, 0) = Anew(row)
       /\ HuntQueue!StagedRow(row) = [row EXCEPT !.stage = "working"]
       /\ HuntQueue!RenewedRow(row, 0) = [row EXCEPT !.lease = LeaseTime]
       /\ \A terminal \in BOOLEAN :
            HuntQueue!FailedRow(row, terminal, 0, 0) = Failed(row, terminal, HuntAttempts)
       /\ \A w \in Workers, t \in Tokens : HuntQueue!ClaimedRow(row, w, t, 0) = Leased(row, w, t)
<1>1. HuntQueue!NoRow \in LeaseRow /\ HuntQueue!NoRow.status = "absent"
      /\ ~HuntQueue!NoRow.cancel
  BY DEF HuntQueue!NoRow, LeaseRow, JobStages, JobEnds
<1>10. LET fresh == HuntQueue!NewRow(0, 0)
       IN  fresh \in LeaseRow /\ fresh.status = "queued" /\ ~fresh.cancel /\ fresh.attempts = 0
  <2> DEFINE blank == HuntQueue!NoRow
             now == 0 + 0
  <2>1. HuntQueue!NewRow(0, 0) = [blank EXCEPT !.status = "queued", !.wait = now]
    BY DEF HuntQueue!NewRow
  <2>2. now \in Int /\ "queued" \in {"absent", "queued", "running"} \cup JobEnds
    OBVIOUS
  <2>3. blank \in LeaseRow /\ ~blank.cancel /\ blank.attempts = 0
    BY <1>1 DEF HuntQueue!NoRow
  <2> HIDE DEF now, blank
  <2> QED BY <2>1, <2>2, <2>3 DEF LeaseRow
<1>11. ASSUME NEW row \in LeaseRow, NEW terminal \in BOOLEAN
       PROVE  HuntQueue!FailedRow(row, terminal, 0, 0) = Failed(row, terminal, HuntAttempts)
  <2>1. 0 + 0 = 0
    OBVIOUS
  <2> QED BY <2>1, Zenon
      DEF HuntQueue!FailedRow, Failed, HuntQueue!Unleased, HuntQueue!Stamped, HuntQueue!Ended,
          HuntQueue!FinalCancel, HuntQueue!DeadLettered, HuntQueue!Retried,
          Released, Stamp, End, Again
<1>12. ASSUME NEW row \in LeaseRow, NEW w \in Workers, NEW t \in Tokens
       PROVE  HuntQueue!ClaimedRow(row, w, t, 0) = Leased(row, w, t)
  <2>1. LeaseTime + 0 = LeaseTime
    BY PoolAssumption
  <2> QED BY <2>1, Zenon DEF HuntQueue!ClaimedRow, Leased
<1>13. ASSUME NEW row \in LeaseRow
       PROVE  HuntQueue!RenewedRow(row, 0) = [row EXCEPT !.lease = LeaseTime]
  <2>1. LeaseTime + 0 = LeaseTime
    BY PoolAssumption
  <2> QED BY <2>1, Zenon DEF HuntQueue!RenewedRow
<1>14. ASSUME NEW row \in LeaseRow
       PROVE  /\ HuntQueue!CancelledRow(row) = Doomed(row)
              /\ HuntQueue!CompletedRow(row) = Done(row)
              /\ HuntQueue!RecoveredRow(row, 0) = Lost(row, HuntAttempts)
              /\ HuntQueue!RequeuedRow(row, 0) = Anew(row)
              /\ HuntQueue!StagedRow(row) = [row EXCEPT !.stage = "working"]
  BY DEF HuntQueue!CancelledRow, Doomed, HuntQueue!CompletedRow, Done, HuntQueue!RecoveredRow,
         Lost, HuntQueue!RequeuedRow, Anew, HuntQueue!StagedRow, HuntQueue!Unleased,
         HuntQueue!Stamped, HuntQueue!Ended, HuntQueue!FinalCancel, HuntQueue!Succeeded,
         HuntQueue!DeadLettered, HuntQueue!Retried, Released, Stamp, End, Again
<1>15. \A row \in LeaseRow :
         /\ HuntQueue!RenewedRow(row, 0) = [row EXCEPT !.lease = LeaseTime]
         /\ \A terminal \in BOOLEAN :
              HuntQueue!FailedRow(row, terminal, 0, 0) = Failed(row, terminal, HuntAttempts)
         /\ \A w \in Workers, t \in Tokens :
              HuntQueue!ClaimedRow(row, w, t, 0) = Leased(row, w, t)
  <2>1. \A row \in LeaseRow, terminal \in BOOLEAN :
          HuntQueue!FailedRow(row, terminal, 0, 0) = Failed(row, terminal, HuntAttempts)
    BY <1>11, Zenon
  <2>2. \A row \in LeaseRow, w \in Workers, t \in Tokens :
          HuntQueue!ClaimedRow(row, w, t, 0) = Leased(row, w, t)
    BY <1>12, Zenon
  <2> QED BY <1>13, <2>1, <2>2, Zenon
<1> QED BY <1>1, <1>10, <1>14, <1>15, Zenon

\* Every way a row moves on leaves its run in agreement with it.
LEMMA AgreeKept ==
  ASSUME NEW h \in Hunt, NEW row \in LeaseRow, Agree(h, row)
  PROVE  /\ [h EXCEPT !.request = FALSE] \in Hunt
         /\ [h EXCEPT !.request = FALSE].is = h.is
         /\ Agree([h EXCEPT !.request = FALSE], row)
         /\ Agree([h EXCEPT !.request = FALSE], Doomed(row))
         /\ row.status = "running" =>
              /\ Agree(h, [row EXCEPT !.stage = "working"])
              /\ Agree(h, [row EXCEPT !.lease = LeaseTime])
              /\ Agree(h, Lost(row, HuntAttempts))
              /\ Agree([h EXCEPT !.request = FALSE], Done(Doomed(row)))
              /\ ~row.cancel =>
                   Agree([[h EXCEPT !.request = FALSE] EXCEPT !.result = TRUE], Done(row))
              /\ \A terminal \in BOOLEAN :
                   Agree(IF row.cancel THEN [h EXCEPT !.request = FALSE] ELSE h,
                         Failed(row, terminal, HuntAttempts))
         /\ row.status = "queued" =>
              \A w \in Workers, t \in Tokens : Agree(h, Leased(row, w, t))
         /\ row.status = "dead_letter" => Agree(h, Anew(row))
<1> DEFINE off == FALSE
           on == TRUE
           cleared == [h EXCEPT !.request = off]
           kept == [cleared EXCEPT !.result = on]
<1>1. off \in BOOLEAN /\ ~off /\ on \in BOOLEAN /\ on /\ HuntAttempts \in Nat
  BY HuntAssumption
<1> HIDE DEF off, on
<1>2. /\ cleared \in Hunt /\ cleared.is = h.is /\ ~cleared.request
      /\ (cleared.result <=> h.result) /\ (cleared.outcomes <=> h.outcomes)
  BY <1>1 DEF Hunt
<1> HIDE DEF cleared
<1>3. /\ kept \in Hunt /\ kept.is = h.is /\ ~kept.request /\ kept.result
  BY <1>1, <1>2 DEF Hunt
<1> HIDE DEF kept
<1>4. Agree(cleared, row)
  BY <1>2 DEF Agree
<1>5. Agree(cleared, Doomed(row)) /\ Doomed(row) \in LeaseRow
  BY <1>2, RowsDoomed DEF Agree
<1>6. ASSUME row.status = "running"
      PROVE  /\ Agree(h, [row EXCEPT !.stage = "working"])
             /\ Agree(h, [row EXCEPT !.lease = LeaseTime])
             /\ Agree(h, Lost(row, HuntAttempts))
             /\ Agree(cleared, Done(Doomed(row)))
             /\ ~row.cancel => Agree(kept, Done(row))
             /\ \A terminal \in BOOLEAN :
                  Agree(IF row.cancel THEN cleared ELSE h, Failed(row, terminal, HuntAttempts))
  <2>1. Agree(h, [row EXCEPT !.stage = "working"]) /\ Agree(h, [row EXCEPT !.lease = LeaseTime])
    BY PoolAssumption, RowsReleased DEF JobStages, SameStand, Agree
  <2>2. Agree(h, Lost(row, HuntAttempts))
    BY <1>1, <1>6, RowsLost DEF Agree
  <2>3. Agree(cleared, Done(Doomed(row)))
    <3>1. Doomed(row) \in LeaseRow /\ Doomed(row).cancel
      BY <1>6, RowsDoomed
    <3>2. Done(Doomed(row)).status = "cancelled"
      BY <3>1, RowsCompleted
    <3> QED BY <1>2, <1>6, <3>2 DEF Agree
  <2>4. ASSUME ~row.cancel PROVE Agree(kept, Done(row))
    BY <1>3, <1>6, <2>4, RowsCompleted DEF Agree
  <2>5. ASSUME NEW terminal \in BOOLEAN
        PROVE  Agree(IF row.cancel THEN cleared ELSE h, Failed(row, terminal, HuntAttempts))
    <3>1. CASE row.cancel
      BY <1>1, <1>2, <1>6, <3>1, RowsFailed DEF Agree
    <3>2. CASE ~row.cancel
      BY <1>1, <1>6, <3>2, RowsFailed DEF Agree
    <3> QED BY <3>1, <3>2
  <2> QED BY <2>1, <2>2, <2>3, <2>4, <2>5
<1>7. ASSUME row.status = "queued", NEW w \in Workers, NEW t \in Tokens
      PROVE  Agree(h, Leased(row, w, t))
  BY <1>7, RowsLeased DEF Agree
<1>8. ASSUME row.status = "dead_letter" PROVE Agree(h, Anew(row))
  BY <1>8, RowsQueued DEF Agree, JobStages
<1>9. [h EXCEPT !.request = FALSE] = cleared /\ [cleared EXCEPT !.result = TRUE] = kept
  BY DEF off, on, cleared, kept
<1> QED BY <1>2, <1>4, <1>5, <1>6, <1>7, <1>8, <1>9

\* A step that keeps the types, leaves each run in agreement with its row and starts no
\* run keeps the invariant.
LEMMA RunsKept ==
  ASSUME HuntInv, HuntTyped',
         \A r \in Runs : Agree(hunt'[r], huntJob'[r]),
         \A r \in Runs : hunt'[r].is = "live" => Live(r)
  PROVE  HuntInv'
<1>1. OneRunPerKey'
  BY DEF HuntInv, OneRunPerKey, Live
<1> QED BY <1>1 DEF HuntInv

\* A step of one run.
LEMMA OneRun ==
  ASSUME HuntInv, NEW r \in Runs, NEW h \in Hunt, NEW row \in LeaseRow, Agree(h, row),
         h.is = "live" => Live(r),
         huntJob' = [huntJob EXCEPT ![r] = row], hunt' = [hunt EXCEPT ![r] = h],
         huntClaim' \in [Workers -> [job : Runs \cup {NoJob}, token : Tokens \cup {NoToken}]],
         policy' = policy
  PROVE  HuntInv'
<1>1. HuntTyped'
  BY DEF HuntInv, HuntTyped
<1>2. \A q \in Runs : /\ hunt'[q] = IF q = r THEN h ELSE hunt[q]
                      /\ huntJob'[q] = IF q = r THEN row ELSE huntJob[q]
  BY DEF HuntInv, HuntTyped
<1>3. \A q \in Runs : Agree(hunt'[q], huntJob'[q])
  BY <1>2 DEF HuntInv
<1>4. \A q \in Runs : hunt'[q].is = "live" => Live(q)
  BY <1>2 DEF Live
<1> QED BY <1>1, <1>3, <1>4, RunsKept

\* Nothing of the runs, their jobs, the claims or the policy changes.
LEMMA HuntsIdle ==
  ASSUME HuntInv, UNCHANGED <<huntJob, huntClaim, hunt, policy>>
  PROVE  HuntInv'
BY DEF HuntInv, HuntTyped, OneRunPerKey, Live

\* What the steps of the queue write, under the invariant.
LEMMA HuntQueueSteps ==
  ASSUME HuntInv
  PROVE  /\ HuntQueue!NoClaim \in [job : Runs \cup {NoJob}, token : Tokens \cup {NoToken}]
         /\ \A w \in Workers : HuntQueue!HoldsLease(w, 0) =>
              HuntOf(w) \in Runs /\ huntJob[HuntOf(w)].status = "running"
         /\ \A r \in Runs : huntJob[r] \in LeaseRow /\ hunt[r] \in Hunt /\ Agree(hunt[r], huntJob[r])
         /\ \A r \in Runs : [hunt EXCEPT ![r] = hunt[r]] = hunt
         /\ LET rows == HuntQueue!Recovered({}, 0)
            IN  /\ rows \in [Runs -> LeaseRow]
                /\ \A r \in Runs : Agree(hunt[r], rows[r])
<1>1. HuntQueue!NoClaim \in [job : Runs \cup {NoJob}, token : Tokens \cup {NoToken}]
  BY DEF HuntQueue!NoClaim
<1>2. \A r \in Runs : huntJob[r] \in LeaseRow /\ hunt[r] \in Hunt /\ Agree(hunt[r], huntJob[r])
  BY DEF HuntInv, HuntTyped
<1>3. \A w \in Workers : HuntQueue!HoldsLease(w, 0) =>
        HuntOf(w) \in Runs /\ huntJob[HuntOf(w)].status = "running"
  BY DEF HuntInv, HuntTyped, HuntQueue!HoldsLease, HuntQueue!Working, HuntQueue!Owned, HuntOf
<1>4. \A r \in Runs : [hunt EXCEPT ![r] = hunt[r]] = hunt
  BY DEF HuntInv, HuntTyped
<1>5. ASSUME NEW r \in Runs
      PROVE  LET row == HuntQueue!Recovered({}, 0)[r]
             IN  row \in LeaseRow /\ Agree(hunt[r], row)
  <2>1. HuntQueue!Recovered({}, 0)[r] =
          IF HuntQueue!Stale(huntJob[r], 0) THEN Lost(huntJob[r], HuntAttempts) ELSE huntJob[r]
    BY <1>2, HuntWrites DEF HuntQueue!Recovered
  <2>2. HuntQueue!Stale(huntJob[r], 0) => huntJob[r].status = "running"
    BY DEF HuntQueue!Stale
  <2>3. huntJob[r].status = "running" => Agree(hunt[r], Lost(huntJob[r], HuntAttempts))
    BY <1>2, AgreeKept
  <2>4. Lost(huntJob[r], HuntAttempts) \in LeaseRow
    BY <1>2, HuntAssumption, RowsLost
  <2> QED BY <1>2, <2>1, <2>2, <2>3, <2>4
<1>6. HuntQueue!Recovered({}, 0) \in [Runs -> LeaseRow]
  <2>1. HuntQueue!Recovered({}, 0) = [r \in Runs |-> HuntQueue!Recovered({}, 0)[r]]
    BY DEF HuntQueue!Recovered
  <2> QED BY <1>5, <2>1
<1> QED BY <1>1, <1>2, <1>3, <1>4, <1>5, <1>6

\* A run that is gone agrees with a row that is gone.
LEMMA GoneRun ==
  Gone \in Hunt /\ Agree(Gone, HuntQueue!NoRow) /\ Gone.is = "gone"
<1> DEFINE none == 0
<1>1. none \in 0..MaxLife /\ "gone" \in {"unused", "live", "gone"}
  BY HuntAssumption
<1>2. NoHunt = [is |-> "unused", request |-> FALSE, result |-> FALSE, outcomes |-> FALSE,
                age |-> none, life |-> none]
  BY DEF NoHunt
<1> HIDE DEF none
<1>3. /\ NoHunt \in Hunt /\ ~NoHunt.request /\ ~NoHunt.result /\ ~NoHunt.outcomes
  BY <1>1, <1>2 DEF Hunt
<1>4. /\ Gone \in Hunt /\ ~Gone.request /\ ~Gone.result /\ ~Gone.outcomes /\ Gone.is = "gone"
  BY <1>1, <1>3 DEF Gone, Hunt
<1> QED BY <1>4, HuntWrites DEF Agree

\* The retention: what goes goes with its row, what is overdue is cancelled and cleared.
LEMMA RunsPurged ==
  ASSUME HuntInv, NEW gone \in SUBSET Runs, Purged(gone), UNCHANGED <<huntClaim, policy>>
  PROVE  HuntInv'
<1>0. \A r \in Runs : huntJob[r] \in LeaseRow /\ hunt[r] \in Hunt /\ Agree(hunt[r], huntJob[r])
  BY HuntQueueSteps
<1> DEFINE rows == [r \in Runs |-> IF r \in gone THEN HuntQueue!NoRow
                                   ELSE IF r \in Overdue THEN HuntQueue!CancelledRow(huntJob[r])
                                   ELSE huntJob[r]]
<1>2. huntJob' = rows
      /\ hunt' = [r \in Runs |-> IF r \in gone THEN Gone
                                 ELSE IF r \in Overdue THEN [hunt[r] EXCEPT !.request = FALSE]
                                 ELSE hunt[r]]
  BY DEF Purged, Cleared
<1>3. ASSUME NEW r \in Runs
      PROVE  /\ hunt'[r] \in Hunt /\ huntJob'[r] \in LeaseRow /\ Agree(hunt'[r], huntJob'[r])
             /\ hunt'[r].is = "live" => Live(r)
  <2>1. CASE r \in gone
    <3>1. hunt'[r] = Gone /\ huntJob'[r] = HuntQueue!NoRow
      BY <1>2, <2>1
    <3> QED BY <3>1, GoneRun, HuntWrites
  <2>2. CASE r \notin gone /\ r \in Overdue
    <3>1. hunt'[r] = [hunt[r] EXCEPT !.request = FALSE] /\ huntJob'[r] = Doomed(huntJob[r])
      BY <1>0, <1>2, <2>2, HuntWrites
    <3>2. Doomed(huntJob[r]) \in LeaseRow
      BY <1>0, RowsDoomed
    <3> DEFINE h == hunt[r]
               row == huntJob[r]
    <3>3. h \in Hunt /\ row \in LeaseRow /\ Agree(h, row)
      BY <1>0
    <3> HIDE DEF h, row
    <3>4. /\ [h EXCEPT !.request = FALSE] \in Hunt /\ [h EXCEPT !.request = FALSE].is = h.is
          /\ Agree([h EXCEPT !.request = FALSE], Doomed(row))
      BY <3>3, AgreeKept
    <3> QED BY <3>1, <3>2, <3>4 DEF Live, h, row
  <2>3. CASE r \notin gone /\ r \notin Overdue
    BY <1>0, <1>2, <2>3 DEF Live
  <2> QED BY <2>1, <2>2, <2>3
<1>4. HuntTyped'
  BY <1>2, <1>3 DEF HuntInv, HuntTyped
<1> QED BY <1>3, <1>4, RunsKept

LEMMA RetentionKept ==
  ASSUME HuntInv
  PROVE  /\ \A c \in Requests : Select(c) \/ Clean(c) \/ Refuse(c) => HuntInv'
         /\ \A span \in Policies : SetRetention(span) => HuntInv'
         /\ Age => HuntInv'
<1>1. ASSUME NEW c \in Requests, Select(c) \/ Refuse(c) PROVE HuntInv'
  BY <1>1, HuntsIdle DEF Select, Refuse, huntQueue
<1>2. ASSUME NEW c \in Requests, Clean(c) PROVE HuntInv'
  <2>1. Purged(Lapsed \cup sweep[c]) /\ UNCHANGED <<huntClaim, policy>>
    BY <1>2 DEF Clean
  <2> DEFINE gone == Runs \cap (Lapsed \cup sweep[c])
  <2>2. Purged(gone)
    BY <2>1 DEF Purged
  <2> QED BY <2>1, <2>2, RunsPurged
<1>3. ASSUME NEW span \in Policies, SetRetention(span) PROVE HuntInv'
  <2>2. span \in 0..MaxLife
    BY HuntAssumption
  <2>3. ASSUME NEW r \in Runs
        PROVE  /\ hunt'[r] \in Hunt /\ huntJob'[r] \in LeaseRow /\ Agree(hunt'[r], huntJob'[r])
               /\ hunt'[r].is = "live" => Live(r)
    BY <1>3, GoneRun, HuntQueueSteps, HuntWrites DEF SetRetention, Live
  <2>4. HuntTyped'
    BY <1>3, <2>2, <2>3 DEF SetRetention, HuntInv, HuntTyped
  <2> QED BY <2>3, <2>4, RunsKept
<1>4. ASSUME Age PROVE HuntInv'
  <2>1. ASSUME NEW r \in Runs
        PROVE  /\ hunt'[r] \in Hunt /\ hunt'[r].is = hunt[r].is
               /\ hunt'[r].request = hunt[r].request /\ hunt'[r].result = hunt[r].result
               /\ hunt'[r].outcomes = hunt[r].outcomes
    <3> DEFINE grown == IF Live(r) /\ hunt[r].age < MaxLife THEN hunt[r].age + 1 ELSE hunt[r].age
    <3>1. hunt[r] \in Hunt /\ MaxLife \in Nat
      BY HuntQueueSteps, HuntAssumption
    <3>2. grown \in 0..MaxLife
      BY <3>1 DEF Hunt
    <3>3. hunt'[r] = [hunt[r] EXCEPT !.age = grown]
      BY <1>4 DEF Age
    <3> HIDE DEF grown
    <3> QED BY <3>1, <3>2, <3>3 DEF Hunt
  <2>2. HuntTyped' /\ huntJob' = huntJob
    BY <1>4, <2>1 DEF Age, HuntInv, HuntTyped, huntQueue
  <2> QED BY <2>1, <2>2, HuntQueueSteps, RunsKept DEF Agree, Live
<1> QED BY <1>1, <1>2, <1>3, <1>4

LEMMA HuntCommandsKept ==
  ASSUME HuntInv, NEW r \in Runs
  PROVE  Post(r) \/ CancelHunt(r) \/ DeleteHunt(r) \/ Append(r) \/ Ask(r) \/ Answer(r) => HuntInv'
<1> DEFINE h == hunt[r]
           row == huntJob[r]
           bare == [h EXCEPT !.request = FALSE]
<1>1. h \in Hunt /\ row \in LeaseRow /\ Agree(h, row) /\ [hunt EXCEPT ![r] = h] = hunt
  BY HuntQueueSteps
<1>2. /\ huntClaim \in [Workers -> [job : Runs \cup {NoJob}, token : Tokens \cup {NoToken}]]
      /\ h.is = "live" <=> Live(r)
  BY DEF HuntInv, HuntTyped, Live
<1> HIDE DEF h, row
<1>3. /\ bare \in Hunt /\ bare.is = h.is /\ Agree(bare, row) /\ Agree(bare, Doomed(row))
      /\ row.status = "dead_letter" => Agree(h, Anew(row))
      /\ Doomed(row) \in LeaseRow /\ Anew(row) \in LeaseRow
  BY <1>1, AgreeKept, RowsDoomed, RowsQueued DEF JobStages
<1>4. ASSUME Post(r) PROVE HuntInv'
  <2> DEFINE fresh == HuntQueue!NewRow(0, 0)
             on == TRUE
             new == [NoHunt EXCEPT !.is = "live", !.request = on, !.life = Days]
  <2>1. KeyFree(r) /\ UNCHANGED <<huntClaim, policy>> /\ hunt' = [hunt EXCEPT ![r] = new]
    BY <1>4 DEF Post, HuntQueue!Enqueue
  <2>2. huntJob' = [huntJob EXCEPT ![r] = fresh]
    BY <1>4 DEF Post, HuntQueue!Enqueue
  <2>3. fresh \in LeaseRow /\ fresh.status = "queued" /\ ~fresh.cancel
    BY HuntWrites
  <2>4. on \in BOOLEAN /\ on /\ Days \in 0..MaxLife
        /\ "live" \in {"unused", "live", "gone"} /\ 0 \in 0..MaxLife
    BY HuntAssumption DEF HuntInv, HuntTyped, Days
  <2> HIDE DEF on, fresh
  <2>5. NoHunt \in Hunt /\ ~NoHunt.result /\ ~NoHunt.outcomes
    <3> DEFINE none == 0
    <3>1. none \in 0..MaxLife /\ "unused" \in {"unused", "live", "gone"}
      BY <2>4
    <3>2. NoHunt = [is |-> "unused", request |-> FALSE, result |-> FALSE, outcomes |-> FALSE,
                    age |-> none, life |-> none]
      BY DEF NoHunt
    <3> HIDE DEF none
    <3> QED BY <3>1, <3>2 DEF Hunt
  <2>6. new \in Hunt /\ ~new.result /\ ~new.outcomes /\ new.is = "live"
    BY <2>4, <2>5 DEF Hunt
  <2> HIDE DEF new
  <2>7. Agree(new, fresh)
    BY <2>3, <2>6 DEF Agree
  <2>8. \A q \in Runs : /\ hunt'[q] = IF q = r THEN new ELSE hunt[q]
                        /\ huntJob'[q] = IF q = r THEN fresh ELSE huntJob[q]
    BY <2>1, <2>2 DEF HuntInv, HuntTyped
  <2>9. HuntTyped'
    BY <2>1, <2>2, <2>3, <2>6 DEF HuntInv, HuntTyped
  <2>10. \A q \in Runs : Agree(hunt'[q], huntJob'[q])
    BY <2>7, <2>8 DEF HuntInv
  <2>11. \A q \in Runs : q # r /\ hunt'[q].is = "live" => KeyOf[q] # KeyOf[r] /\ Live(q)
    BY <2>1, <2>8 DEF KeyFree, Live
  <2>12. OneRunPerKey'
    BY <2>11 DEF HuntInv, OneRunPerKey, Live
  <2> QED BY <2>9, <2>10, <2>12 DEF HuntInv
<1>5. ASSUME CancelHunt(r) PROVE HuntInv'
  <2>1. UNCHANGED <<huntClaim, policy>> /\ huntJob' = [huntJob EXCEPT ![r] = Doomed(row)]
    BY <1>1, <1>5, HuntWrites DEF CancelHunt, HuntQueue!Cancel, row
  <2>2. hunt' = [hunt EXCEPT ![r] = bare]
    BY <1>5 DEF CancelHunt, Cleared, h
  <2> QED BY <1>2, <1>3, <2>1, <2>2, OneRun
<1>6. ASSUME DeleteHunt(r) PROVE HuntInv'
  <2>1. /\ UNCHANGED <<huntClaim, policy>> /\ hunt' = [hunt EXCEPT ![r] = Gone]
        /\ huntJob' = [huntJob EXCEPT ![r] = HuntQueue!NoRow]
    BY <1>6 DEF DeleteHunt
  <2>2. HuntQueue!NoRow \in LeaseRow
    BY HuntWrites
  <2> QED BY <1>2, <2>1, <2>2, GoneRun, OneRun
<1>7. ASSUME Append(r) PROVE HuntInv'
  <2> DEFINE on == TRUE
             noted == [h EXCEPT !.outcomes = on]
  <2>1. /\ UNCHANGED <<huntJob, huntClaim, policy>> /\ h.result
        /\ hunt' = [hunt EXCEPT ![r] = noted]
    BY <1>7 DEF Append, huntQueue, h
  <2>2. on \in BOOLEAN
    OBVIOUS
  <2> HIDE DEF on
  <2>3. /\ noted \in Hunt /\ noted.is = h.is /\ noted.request = h.request
        /\ noted.result = h.result
    BY <1>1, <2>2 DEF Hunt
  <2> HIDE DEF noted
  <2>4. Agree(noted, row)
    BY <1>1, <2>1, <2>3 DEF Agree
  <2>5. huntJob' = [huntJob EXCEPT ![r] = row]
    BY <2>1 DEF HuntInv, HuntTyped, row
  <2> QED BY <1>1, <1>2, <2>1, <2>3, <2>4, <2>5, OneRun
<1>8. ASSUME Ask(r) PROVE HuntInv'
  BY <1>8, HuntsIdle DEF Ask, huntQueue
<1>9. ASSUME Answer(r) PROVE HuntInv'
  <2>1. CASE ~Visible(r) \/ huntJob[r].status # "dead_letter"
    BY <1>9, <2>1, HuntsIdle DEF Answer, huntQueue
  <2>2. CASE Visible(r) /\ huntJob[r].status = "dead_letter" /\ Retryable(r)
    <3>1. HuntQueue!Requeue(r) /\ hunt' = hunt /\ policy' = policy
      BY <1>9, <2>2 DEF Answer
    <3>2. huntClaim' = huntClaim /\ huntJob' = [huntJob EXCEPT ![r] = Anew(row)]
      BY <1>1, <3>1, HuntWrites DEF HuntQueue!Requeue, row
    <3>3. Agree(h, Anew(row))
      BY <1>3, <2>2 DEF row
    <3> QED BY <1>1, <1>2, <1>3, <3>1, <3>2, <3>3, OneRun
  <2>3. CASE Visible(r) /\ huntJob[r].status = "dead_letter" /\ ~Retryable(r)
    <3>1. UNCHANGED <<huntJob, huntClaim, policy>> /\ hunt' = [hunt EXCEPT ![r] = bare]
      BY <1>9, <2>3 DEF Answer, huntQueue, Cleared, h
    <3>2. huntJob' = [huntJob EXCEPT ![r] = row]
      BY <3>1 DEF HuntInv, HuntTyped, row
    <3> QED BY <1>1, <1>2, <1>3, <3>1, <3>2, OneRun
  <2> QED BY <2>1, <2>2, <2>3
<1> QED BY <1>4, <1>5, <1>6, <1>7, <1>8, <1>9

LEMMA HuntPollKept ==
  ASSUME HuntInv, NEW w \in Workers, PollHunt(w)
  PROVE  HuntInv'
<1> DEFINE rows == HuntQueue!Recovered({}, 0)
<1>1. rows \in [Runs -> LeaseRow] /\ \A r \in Runs : Agree(hunt[r], rows[r])
  BY HuntQueueSteps
<1>2. UNCHANGED <<hunt, policy>>
  BY DEF PollHunt
<1> HIDE DEF rows
<1>3. CASE HuntQueue!PollIdle(w, {}, 0)
  <2>1. huntJob' = rows /\ huntClaim' = huntClaim
    BY <1>3 DEF HuntQueue!PollIdle, rows
  <2>2. HuntTyped'
    BY <1>1, <1>2, <2>1 DEF HuntInv, HuntTyped
  <2> QED BY <1>1, <1>2, <2>1, <2>2, RunsKept DEF Live
<1>4. CASE HuntQueue!PollClaim(w, {}, 0)
  <2>1. PICK r \in Runs, t \in Tokens :
          /\ HuntQueue!Claimable(rows[r], 0)
          /\ huntJob' = [rows EXCEPT ![r] = HuntQueue!ClaimedRow(@, w, t, 0)]
          /\ huntClaim' = [huntClaim EXCEPT ![w] = [job |-> r, token |-> t]]
    BY <1>4 DEF HuntQueue!PollClaim, HuntQueue!FirstOf, rows
  <2> DEFINE row == rows[r]
  <2>2. row \in LeaseRow /\ row.status = "queued" /\ Agree(hunt[r], row) /\ hunt[r] \in Hunt
    BY <1>1, <2>1, HuntQueueSteps DEF HuntQueue!Claimable
  <2>3. huntJob' = [rows EXCEPT ![r] = Leased(row, w, t)]
    BY <2>1, <2>2, HuntWrites
  <2> HIDE DEF row
  <2>4. Leased(row, w, t) \in LeaseRow /\ Agree(hunt[r], Leased(row, w, t))
    BY <2>2, AgreeKept, RowsLeased
  <2>5. HuntTyped'
    BY <1>1, <1>2, <2>1, <2>3, <2>4 DEF HuntInv, HuntTyped
  <2>6. \A q \in Runs : Agree(hunt'[q], huntJob'[q])
    BY <1>1, <1>2, <2>3, <2>4
  <2> QED BY <1>2, <2>5, <2>6, RunsKept DEF Live
<1> QED BY <1>3, <1>4 DEF PollHunt

LEMMA HuntWorkersKept ==
  ASSUME HuntInv, NEW w \in Workers
  PROVE  Glance(w) \/ Load(w) \/ Unavailable(w) \/ FailHunt(w) \/ StoreHunt(w)
         \/ GiveUpHunt(w) \/ RenewHunt(w) => HuntInv'
<1> DEFINE r == HuntOf(w)
           h == hunt[r]
           row == huntJob[r]
           bare == [h EXCEPT !.request = FALSE]
           kept == [bare EXCEPT !.result = TRUE]
<1>1. HuntQueue!HoldsLease(w, 0) =>
        /\ r \in Runs /\ h \in Hunt /\ row \in LeaseRow /\ Agree(h, row)
        /\ row.status = "running" /\ [hunt EXCEPT ![r] = h] = hunt
        /\ (h.is = "live" => Live(r))
  BY HuntQueueSteps DEF Live
<1>2. /\ huntClaim \in [Workers -> [job : Runs \cup {NoJob}, token : Tokens \cup {NoToken}]]
      /\ [huntClaim EXCEPT ![w] = HuntQueue!NoClaim]
           \in [Workers -> [job : Runs \cup {NoJob}, token : Tokens \cup {NoToken}]]
  BY HuntQueueSteps DEF HuntInv, HuntTyped
<1> HIDE DEF r, h, row
<1>3. ASSUME HuntQueue!HoldsLease(w, 0)
      PROVE  /\ [row EXCEPT !.stage = "working"] \in LeaseRow
             /\ [row EXCEPT !.lease = LeaseTime] \in LeaseRow
             /\ Done(row) \in LeaseRow /\ Done(Doomed(row)) \in LeaseRow
             /\ \A terminal \in BOOLEAN : Failed(row, terminal, HuntAttempts) \in LeaseRow
  <2>1. LeaseTime \in Int /\ HuntAttempts \in Nat /\ "working" \in JobStages
    BY PoolAssumption, HuntAssumption DEF JobStages
  <2>2. [row EXCEPT !.stage = "working"] \in LeaseRow /\ [row EXCEPT !.lease = LeaseTime] \in LeaseRow
    BY <1>1, <1>3, <2>1, RowsReleased
  <2>3. Done(row) \in LeaseRow /\ Done(Doomed(row)) \in LeaseRow
    BY <1>1, <1>3, RowsCompleted, RowsDoomed
  <2>4. \A terminal \in BOOLEAN : Failed(row, terminal, HuntAttempts) \in LeaseRow
    BY <1>1, <1>3, <2>1, RowsFailed
  <2> QED BY <2>2, <2>3, <2>4
<1>4. ASSUME HuntQueue!HoldsLease(w, 0)
      PROVE  /\ bare \in Hunt /\ bare.is = h.is
             /\ Agree(h, [row EXCEPT !.stage = "working"])
             /\ Agree(h, [row EXCEPT !.lease = LeaseTime])
             /\ Agree(bare, Done(Doomed(row)))
             /\ ~row.cancel => Agree(kept, Done(row))
             /\ \A terminal \in BOOLEAN :
                  Agree(IF row.cancel THEN bare ELSE h, Failed(row, terminal, HuntAttempts))
  BY <1>1, <1>4, AgreeKept
<1>5. ASSUME HuntQueue!Stage(w), UNCHANGED <<hunt, policy>> PROVE HuntInv'
  <2>1. HuntQueue!HoldsLease(w, 0) /\ huntClaim' = huntClaim
    BY <1>5 DEF HuntQueue!Stage
  <2>2. huntJob' = [huntJob EXCEPT ![r] = [row EXCEPT !.stage = "working"]]
    BY <1>1, <1>5, <2>1, HuntWrites DEF HuntQueue!Stage, r, row, HuntOf
  <2> QED BY <1>1, <1>2, <1>3, <1>4, <1>5, <2>1, <2>2, OneRun
<1>6. ASSUME RenewHunt(w) PROVE HuntInv'
  <2>1. HuntQueue!HoldsLease(w, 0) /\ huntClaim' = huntClaim /\ UNCHANGED <<hunt, policy>>
    BY <1>6 DEF RenewHunt, HuntQueue!Renew, hunts
  <2>2. huntJob' = [huntJob EXCEPT ![r] = [row EXCEPT !.lease = LeaseTime]]
    BY <1>1, <1>6, <2>1, HuntWrites DEF RenewHunt, HuntQueue!Renew, r, row, HuntOf
  <2> QED BY <1>1, <1>2, <1>3, <1>4, <2>1, <2>2, OneRun
<1>7. ASSUME NEW terminal \in BOOLEAN, FinishFailure(w, terminal) PROVE HuntInv'
  <2>1. HuntQueue!HoldsLease(w, 0) /\ policy' = policy
        /\ huntClaim' = [huntClaim EXCEPT ![w] = HuntQueue!NoClaim]
    BY <1>7 DEF FinishFailure, HuntQueue!FailAttempt
  <2>2. huntJob' = [huntJob EXCEPT ![r] = Failed(row, terminal, HuntAttempts)]
    BY <1>1, <1>7, <2>1, HuntWrites DEF FinishFailure, HuntQueue!FailAttempt, r, row, HuntOf
  <2> DEFINE after == IF row.cancel THEN bare ELSE h
  <2>3. hunt' = [hunt EXCEPT ![r] = after]
    <3>1. hunt' = IF row.cancel THEN [hunt EXCEPT ![r] = bare] ELSE hunt
      BY <1>7 DEF FinishFailure, Cleared, r, row, h
    <3> QED BY <1>1, <2>1, <3>1
  <2>4. after \in Hunt /\ after.is = h.is /\ Agree(after, Failed(row, terminal, HuntAttempts))
    BY <1>1, <1>4, <2>1
  <2> HIDE DEF after
  <2> QED BY <1>1, <1>2, <1>3, <2>1, <2>2, <2>3, <2>4, OneRun
<1>8. ASSUME StoreHunt(w) PROVE HuntInv'
  <2>1. HuntQueue!HoldsLease(w, 0) /\ policy' = policy
        /\ huntClaim' = [huntClaim EXCEPT ![w] = HuntQueue!NoClaim]
    BY <1>8 DEF StoreHunt, StoreEnding, HuntQueue!Complete
  <2>2. CASE row.cancel \/ AccessExpired(h)
    <3>1. huntJob' = [huntJob EXCEPT ![r] =
                        HuntQueue!CompletedRow(HuntQueue!CancelledRow(@))]
          /\ hunt' = [hunt EXCEPT ![r] = bare]
      BY <1>8, <2>2 DEF StoreHunt, StoreEnding, Cleared, r, row, h
    <3>2. HuntQueue!CompletedRow(HuntQueue!CancelledRow(row)) = Done(Doomed(row))
      BY <1>1, <2>1, HuntWrites, RowsDoomed
    <3>3. huntJob' = [huntJob EXCEPT ![r] = Done(Doomed(row))]
      BY <3>1, <3>2 DEF row
    <3> QED BY <1>1, <1>2, <1>3, <1>4, <2>1, <3>1, <3>3, OneRun
  <2>3. CASE ~(row.cancel \/ AccessExpired(h))
    <3>1. HuntQueue!Complete(w) /\ hunt' = [hunt EXCEPT ![r] = kept]
      BY <1>8, <2>3 DEF StoreHunt, StoreEnding, Cleared, r, row, h
    <3>2. huntJob' = [huntJob EXCEPT ![r] = Done(row)]
      BY <1>1, <2>1, <3>1, HuntWrites DEF HuntQueue!Complete, r, row, HuntOf
    <3> DEFINE on == TRUE
    <3>3. on \in BOOLEAN
      OBVIOUS
    <3>4. kept = [bare EXCEPT !.result = on]
      OBVIOUS
    <3>5. bare \in Hunt /\ bare.is = h.is
      BY <1>4, <2>1
    <3> HIDE DEF on, bare
    <3>6. kept \in Hunt /\ kept.is = h.is
      BY <3>3, <3>4, <3>5 DEF Hunt
    <3> QED BY <1>1, <1>2, <1>3, <1>4, <2>1, <2>3, <3>1, <3>2, <3>6, OneRun
  <2> QED BY <2>2, <2>3
<1>9. ASSUME GiveUpHunt(w) PROVE HuntInv'
  <2>1. UNCHANGED <<huntJob, hunt, policy>>
        /\ huntClaim' = [huntClaim EXCEPT ![w] = HuntQueue!NoClaim]
    BY <1>9 DEF GiveUpHunt, HuntQueue!GiveUp
  <2> QED BY <1>2, <2>1 DEF HuntInv, HuntTyped, OneRunPerKey, Live
<1>10. ASSUME Glance(w) \/ Load(w) PROVE HuntInv'
  BY <1>5, <1>10 DEF Glance, Load
<1>11. ASSUME Unavailable(w) \/ FailHunt(w) PROVE HuntInv'
  BY <1>7, <1>11 DEF Unavailable, FailHunt
<1> QED BY <1>6, <1>8, <1>9, <1>10, <1>11

LEMMA HuntTickKept ==
  ASSUME HuntInv, HuntTick
  PROVE  HuntInv'
<1>1. UNCHANGED <<huntClaim, hunt, policy>>
  BY DEF HuntTick, HuntQueue!Tick, hunts
<1>2. ASSUME NEW r \in Runs
      PROVE  huntJob'[r] \in LeaseRow /\ SameStand(huntJob[r], huntJob'[r])
  <2> DEFINE row == huntJob[r]
             lease == IF row.status = "running" /\ ~HuntQueue!Elapsed(row.lease)
                      THEN row.lease - 1 ELSE row.lease
             wait == IF row.status = "queued" /\ ~HuntQueue!Elapsed(row.wait)
                     THEN row.wait - 1 ELSE row.wait
  <2>1. row \in LeaseRow
    BY HuntQueueSteps
  <2>2. huntJob'[r] = [row EXCEPT !.lease = lease, !.wait = wait]
    BY DEF HuntTick, HuntQueue!Tick
  <2>3. lease \in Int /\ wait \in Int
    BY <2>1 DEF LeaseRow
  <2> HIDE DEF row, lease, wait
  <2>4. huntJob'[r] \in LeaseRow /\ SameStand(row, huntJob'[r])
    BY <2>1, <2>2, <2>3 DEF LeaseRow, SameStand
  <2> QED BY <2>4 DEF row
<1>3. HuntTyped'
  <2>1. huntJob' = [r \in Runs |-> huntJob'[r]]
    BY DEF HuntTick, HuntQueue!Tick
  <2> QED BY <1>1, <1>2, <2>1 DEF HuntInv, HuntTyped
<1>4. \A r \in Runs : Agree(hunt'[r], huntJob'[r])
  BY <1>1, <1>2, HuntQueueSteps DEF SameStand, Agree
<1> QED BY <1>1, <1>3, <1>4, RunsKept DEF Live

LEMMA HuntStarts == HuntInit => HuntInv
<1> SUFFICES ASSUME HuntInit PROVE HuntInv
  OBVIOUS
<1>1. /\ huntJob = [r \in Runs |-> HuntQueue!NoRow]
      /\ huntClaim = [w \in Workers |-> HuntQueue!NoClaim]
      /\ hunt = [r \in Runs |-> NoHunt] /\ policy = 0
  BY DEF HuntInit, HuntQueue!Init, NoSetting
<1>2. HuntQueue!NoClaim \in [job : Runs \cup {NoJob}, token : Tokens \cup {NoToken}]
  BY DEF HuntQueue!NoClaim
<1> DEFINE none == 0
<1>3. none \in 0..MaxLife /\ "unused" \in {"unused", "live", "gone"}
  BY HuntAssumption
<1>4. NoHunt = [is |-> "unused", request |-> FALSE, result |-> FALSE, outcomes |-> FALSE,
                age |-> none, life |-> none]
  BY DEF NoHunt
<1>5. policy \in 0..MaxLife
  BY <1>1, <1>3
<1> HIDE DEF none
<1>6. /\ NoHunt \in Hunt /\ NoHunt.is = "unused" /\ ~NoHunt.request /\ ~NoHunt.result
      /\ ~NoHunt.outcomes
  BY <1>3, <1>4 DEF Hunt
<1>7. HuntTyped
  BY <1>1, <1>2, <1>5, <1>6, HuntWrites DEF HuntTyped
<1>8. \A r \in Runs : Agree(hunt[r], huntJob[r]) /\ ~Live(r)
  BY <1>1, <1>6, HuntWrites DEF Agree, Live
<1> QED BY <1>7, <1>8 DEF HuntInv, OneRunPerKey

LEMMA HuntsInduct == HuntInv /\ [HuntNext]_huntVars => HuntInv'
<1> SUFFICES ASSUME HuntInv, [HuntNext]_huntVars PROVE HuntInv'
  OBVIOUS
<1>1. CASE UNCHANGED huntVars
  BY <1>1, HuntsIdle DEF huntVars, huntQueue
<1>2. ASSUME NEW c \in Requests, Select(c) \/ Clean(c) \/ Refuse(c) PROVE HuntInv'
  BY <1>2, RetentionKept
<1>3. ASSUME NEW span \in Policies, SetRetention(span) PROVE HuntInv'
  BY <1>3, RetentionKept
<1>4. ASSUME Age PROVE HuntInv'
  BY <1>4, RetentionKept
<1>5. ASSUME NEW r \in Runs, Post(r) \/ CancelHunt(r) \/ DeleteHunt(r) \/ Append(r)
                               \/ Ask(r) \/ Answer(r)
      PROVE  HuntInv'
  BY <1>5, HuntCommandsKept
<1>6. ASSUME NEW w \in Workers, PollHunt(w) PROVE HuntInv'
  BY <1>6, HuntPollKept
<1>7. ASSUME NEW w \in Workers, Glance(w) \/ Load(w) \/ Unavailable(w) \/ FailHunt(w)
                                  \/ StoreHunt(w) \/ GiveUpHunt(w) \/ RenewHunt(w)
      PROVE  HuntInv'
  BY <1>7, HuntWorkersKept
<1>8. ASSUME HuntTick PROVE HuntInv'
  BY <1>8, HuntTickKept
<1> QED BY <1>1, <1>2, <1>3, <1>4, <1>5, <1>6, <1>7, <1>8 DEF HuntNext

\* Whatever the worker, the owner, the operator and the retention do to a hunt at the same
\* time, with any number of workers, runs and keys and any lease, budget and lifetimes: a
\* result exists exactly when the job succeeded, what was cancelled, finished or deleted
\* keeps nothing private but its result, and a key has one run.
THEOREM OneHuntOneStory == HuntSpec => []HuntsAgree
<1>1. HuntInv => HuntsAgree
  BY DEF HuntInv, OneRunPerKey, HuntsAgree, HuntAgrees, Agree, Live
<1> QED BY <1>1, HuntsInduct, HuntStarts, PTL DEF HuntSpec

\* Only rows of runs that exist move.
LEMMA RowsMove ==
  ASSUME HuntInv, hunt' = hunt,
         \A r \in Runs : huntJob[r].status = "absent" => huntJob'[r] = huntJob[r]
  PROVE  \A r \in Runs : HuntKeepsItsEnd(r)
BY DEF HuntInv, Agree, HuntKeepsItsEnd

\* A step of one run that is not gone.
LEMMA EndKept ==
  ASSUME HuntInv, NEW r \in Runs, NEW h, NEW row, hunt[r].is # "gone",
         huntJob' = [huntJob EXCEPT ![r] = row], hunt' = [hunt EXCEPT ![r] = h],
         Live(r) => /\ h.request => hunt[r].request
                    /\ hunt[r].result => h.result \/ h.is = "gone"
  PROVE  \A q \in Runs : HuntKeepsItsEnd(q)
<1>1. \A q \in Runs : /\ hunt'[q] = IF q = r THEN h ELSE hunt[q]
                      /\ huntJob'[q] = IF q = r THEN row ELSE huntJob[q]
  BY DEF HuntInv, HuntTyped
<1>2. hunt[r].result => Live(r)
  BY DEF HuntInv, Agree, Live
<1> QED BY <1>1, <1>2 DEF HuntKeepsItsEnd

LEMMA PurgedEnd ==
  ASSUME HuntInv, NEW gone \in SUBSET Runs, \A r \in gone : Live(r), Purged(gone)
  PROVE  \A r \in Runs : HuntKeepsItsEnd(r)
<1> SUFFICES ASSUME NEW r \in Runs PROVE HuntKeepsItsEnd(r)
  OBVIOUS
<1>1. ~Gone.request /\ Gone.is = "gone"
  BY DEF Gone, NoHunt
<1>2. hunt[r] \in Hunt
  BY HuntQueueSteps
<1>3. CASE r \in gone
  BY <1>1, <1>3 DEF Purged, HuntKeepsItsEnd, Live
<1>4. CASE r \notin gone /\ r \in Overdue
  <2>1. hunt'[r] = [hunt[r] EXCEPT !.request = FALSE] /\ Live(r)
    BY <1>4 DEF Purged, Cleared, Overdue, Visible
  <2>2. ~hunt'[r].request /\ hunt'[r].result = hunt[r].result
    BY <1>2, <2>1 DEF Hunt
  <2> QED BY <2>1, <2>2 DEF HuntKeepsItsEnd, Live
<1>5. CASE r \notin gone /\ r \notin Overdue
  BY <1>5 DEF Purged, HuntKeepsItsEnd
<1> QED BY <1>3, <1>4, <1>5

LEMMA RetentionEnd ==
  ASSUME HuntInv
  PROVE  /\ \A c \in Requests : Select(c) \/ Clean(c) \/ Refuse(c) =>
              \A r \in Runs : HuntKeepsItsEnd(r)
         /\ \A span \in Policies : SetRetention(span) => \A r \in Runs : HuntKeepsItsEnd(r)
         /\ Age => \A r \in Runs : HuntKeepsItsEnd(r)
<1>1. ASSUME NEW c \in Requests, Select(c) \/ Refuse(c) PROVE \A r \in Runs : HuntKeepsItsEnd(r)
  BY <1>1 DEF Select, Refuse, huntQueue, HuntKeepsItsEnd
<1>2. ASSUME NEW c \in Requests, Clean(c) PROVE \A r \in Runs : HuntKeepsItsEnd(r)
  <2> DEFINE gone == Runs \cap (Lapsed \cup sweep[c])
  <2>1. Purged(gone)
    BY <1>2 DEF Clean, Purged
  <2>2. \A r \in gone : Live(r)
    BY <1>2 DEF Clean, Deletable, Lapsed
  <2> HIDE DEF gone
  <2>3. gone \in SUBSET Runs
    BY DEF gone
  <2> QED BY <2>1, <2>2, <2>3, PurgedEnd
<1>3. ASSUME NEW span \in Policies, SetRetention(span) PROVE \A r \in Runs : HuntKeepsItsEnd(r)
  <2>1. ~Gone.request /\ Gone.is = "gone"
    BY DEF Gone, NoHunt
  <2> QED BY <1>3, <2>1 DEF SetRetention, Aged, Live, HuntKeepsItsEnd
<1>4. ASSUME Age, NEW r \in Runs PROVE HuntKeepsItsEnd(r)
  <2> DEFINE grown == IF Live(r) /\ hunt[r].age < MaxLife THEN hunt[r].age + 1 ELSE hunt[r].age
  <2>1. hunt[r] \in Hunt /\ huntJob' = huntJob /\ hunt'[r] = [hunt[r] EXCEPT !.age = grown]
    BY <1>4, HuntQueueSteps DEF Age, huntQueue
  <2>2. hunt[r].is = "gone" => grown = hunt[r].age
    BY DEF Live
  <2> HIDE DEF grown
  <2>3. /\ hunt'[r].request = hunt[r].request /\ hunt'[r].result = hunt[r].result
        /\ grown = hunt[r].age => hunt'[r] = hunt[r]
    BY <2>1 DEF Hunt
  <2> QED BY <2>1, <2>2, <2>3 DEF HuntKeepsItsEnd
<1> QED BY <1>1, <1>2, <1>3, <1>4

LEMMA CommandsEnd ==
  ASSUME HuntInv, NEW r \in Runs,
         Post(r) \/ CancelHunt(r) \/ DeleteHunt(r) \/ Append(r) \/ Ask(r) \/ Answer(r)
  PROVE  \A q \in Runs : HuntKeepsItsEnd(q)
<1> DEFINE h == hunt[r]
           row == huntJob[r]
           bare == [h EXCEPT !.request = FALSE]
           noted == [h EXCEPT !.outcomes = TRUE]
<1>1. h \in Hunt /\ [hunt EXCEPT ![r] = h] = hunt /\ [huntJob EXCEPT ![r] = row] = huntJob
  BY HuntQueueSteps DEF HuntInv, HuntTyped
<1>2. /\ ~bare.request /\ bare.result = h.result
      /\ noted.request = h.request /\ noted.result = h.result
  BY <1>1 DEF Hunt
<1>3. ~Gone.request /\ Gone.is = "gone"
  BY DEF Gone, NoHunt
<1>4. CASE Post(r)
  <2> DEFINE fresh == HuntQueue!NewRow(0, 0)
             new == [NoHunt EXCEPT !.is = "live", !.request = TRUE, !.life = Days]
  <2>1. hunt[r].is = "unused" /\ hunt' = [hunt EXCEPT ![r] = new]
        /\ huntJob' = [huntJob EXCEPT ![r] = fresh]
    BY <1>4 DEF Post, HuntQueue!Enqueue
  <2> HIDE DEF fresh, new
  <2> QED BY <2>1, EndKept DEF Live
<1>5. CASE CancelHunt(r)
  <2> DEFINE after == HuntQueue!CancelledRow(row)
  <2>1. Live(r) /\ hunt' = [hunt EXCEPT ![r] = bare] /\ huntJob' = [huntJob EXCEPT ![r] = after]
    BY <1>5 DEF CancelHunt, Visible, Cleared, HuntQueue!Cancel
  <2> HIDE DEF after, bare
  <2> QED BY <1>2, <2>1, EndKept DEF Live
<1>6. CASE DeleteHunt(r)
  <2> DEFINE none == HuntQueue!NoRow
  <2>1. Live(r) /\ hunt' = [hunt EXCEPT ![r] = Gone] /\ huntJob' = [huntJob EXCEPT ![r] = none]
    BY <1>6 DEF DeleteHunt, Visible
  <2> HIDE DEF none
  <2> QED BY <1>3, <2>1, EndKept DEF Live
<1>7. CASE Append(r)
  <2>1. Live(r) /\ hunt' = [hunt EXCEPT ![r] = noted] /\ huntJob' = huntJob
    BY <1>7 DEF Append, Visible, huntQueue
  <2> HIDE DEF noted, row
  <2> QED BY <1>1, <1>2, <2>1, EndKept DEF Live
<1>8. CASE Ask(r)
  BY <1>8 DEF Ask, huntQueue, HuntKeepsItsEnd
<1>9. CASE Answer(r)
  <2>1. CASE ~Visible(r) \/ huntJob[r].status # "dead_letter"
    BY <1>9, <2>1 DEF Answer, huntQueue, HuntKeepsItsEnd
  <2>2. CASE Visible(r) /\ huntJob[r].status = "dead_letter" /\ Retryable(r)
    <3> DEFINE after == HuntQueue!RequeuedRow(row, 0)
    <3>1. HuntQueue!Requeue(r) /\ hunt' = hunt
      BY <1>9, <2>2 DEF Answer
    <3>2. huntJob' = [huntJob EXCEPT ![r] = after]
      BY <3>1 DEF HuntQueue!Requeue
    <3> HIDE DEF after, h
    <3> QED BY <1>1, <2>2, <3>1, <3>2, EndKept DEF Visible, Live, h
  <2>3. CASE Visible(r) /\ huntJob[r].status = "dead_letter" /\ ~Retryable(r)
    <3>1. Live(r) /\ hunt' = [hunt EXCEPT ![r] = bare] /\ huntJob' = huntJob
      BY <1>9, <2>3 DEF Answer, huntQueue, Cleared, Visible
    <3> HIDE DEF bare, row
    <3> QED BY <1>1, <1>2, <3>1, EndKept DEF Live
  <2> QED BY <2>1, <2>2, <2>3
<1> QED BY <1>4, <1>5, <1>6, <1>7, <1>8, <1>9

LEMMA WorkersEnd ==
  ASSUME HuntInv, NEW w \in Workers,
         \/ PollHunt(w) \/ Glance(w) \/ Load(w) \/ Unavailable(w) \/ FailHunt(w)
         \/ StoreHunt(w) \/ GiveUpHunt(w) \/ RenewHunt(w)
  PROVE  \A q \in Runs : HuntKeepsItsEnd(q)
<1> DEFINE r == HuntOf(w)
           h == hunt[r]
           row == huntJob[r]
           bare == [h EXCEPT !.request = FALSE]
           kept == [bare EXCEPT !.result = TRUE]
<1>1. HuntQueue!HoldsLease(w, 0) =>
        /\ r \in Runs /\ h \in Hunt /\ row.status = "running" /\ Live(r)
        /\ [hunt EXCEPT ![r] = h] = hunt
  BY HuntQueueSteps DEF Agree, Live
<1>2. HuntQueue!HoldsLease(w, 0) =>
        /\ ~bare.request /\ bare.result = h.result /\ ~kept.request /\ kept.result
  BY <1>1 DEF Hunt
<1> HIDE DEF r
<1>3. ASSUME hunt' = hunt, NEW after, huntJob' = [huntJob EXCEPT ![r] = after],
             HuntQueue!HoldsLease(w, 0)
      PROVE  \A q \in Runs : HuntKeepsItsEnd(q)
  <2>1. \A q \in Runs : huntJob[q].status = "absent" => huntJob'[q] = huntJob[q]
    BY <1>1, <1>3 DEF HuntInv, HuntTyped
  <2> QED BY <1>3, <2>1, RowsMove
<1>4. ASSUME HuntQueue!HoldsLease(w, 0), NEW after, NEW new \in {h, bare, kept},
             huntJob' = [huntJob EXCEPT ![r] = after], hunt' = [hunt EXCEPT ![r] = new]
      PROVE  \A q \in Runs : HuntKeepsItsEnd(q)
  <2>1. /\ r \in Runs /\ Live(r) /\ (new.request => hunt[r].request)
        /\ (hunt[r].result => new.result)
    BY <1>1, <1>2, <1>4
  <2> HIDE DEF h, bare, kept
  <2> QED BY <1>4, <2>1, EndKept DEF Live
<1>5. ASSUME Glance(w) \/ Load(w) PROVE \A q \in Runs : HuntKeepsItsEnd(q)
  <2>1. HuntQueue!Stage(w) /\ hunt' = hunt
    BY <1>5 DEF Glance, Load
  <2> DEFINE after == HuntQueue!StagedRow(row)
  <2>2. HuntQueue!HoldsLease(w, 0) /\ huntJob' = [huntJob EXCEPT ![r] = after]
    BY <2>1 DEF HuntQueue!Stage, r, HuntOf
  <2> HIDE DEF after
  <2> QED BY <1>3, <2>1, <2>2
<1>6. ASSUME RenewHunt(w) PROVE \A q \in Runs : HuntKeepsItsEnd(q)
  <2> DEFINE after == HuntQueue!RenewedRow(row, 0)
  <2>1. HuntQueue!HoldsLease(w, 0) /\ hunt' = hunt /\ huntJob' = [huntJob EXCEPT ![r] = after]
    BY <1>6 DEF RenewHunt, hunts, HuntQueue!Renew, r, HuntOf
  <2> HIDE DEF after
  <2> QED BY <1>3, <2>1
<1>7. ASSUME GiveUpHunt(w) PROVE \A q \in Runs : HuntKeepsItsEnd(q)
  BY <1>7 DEF GiveUpHunt, HuntQueue!GiveUp, HuntKeepsItsEnd
<1>8. ASSUME NEW terminal \in BOOLEAN, FinishFailure(w, terminal)
      PROVE  \A q \in Runs : HuntKeepsItsEnd(q)
  <2> DEFINE after == HuntQueue!FailedRow(row, terminal, 0, 0)
             new == IF row.cancel THEN bare ELSE h
  <2>1. HuntQueue!HoldsLease(w, 0) /\ huntJob' = [huntJob EXCEPT ![r] = after]
    BY <1>8 DEF FinishFailure, HuntQueue!FailAttempt, r, HuntOf
  <2>2. hunt' = [hunt EXCEPT ![r] = new]
    <3>1. hunt' = IF row.cancel THEN [hunt EXCEPT ![r] = bare] ELSE hunt
      BY <1>8 DEF FinishFailure, Cleared, r
    <3> QED BY <1>1, <2>1, <3>1
  <2>3. new \in {h, bare, kept}
    OBVIOUS
  <2> HIDE DEF after, new
  <2> QED BY <1>4, <2>1, <2>2, <2>3
<1>9. ASSUME StoreHunt(w) PROVE \A q \in Runs : HuntKeepsItsEnd(q)
  <2> DEFINE doomed == HuntQueue!CompletedRow(HuntQueue!CancelledRow(row))
             done == HuntQueue!CompletedRow(row)
  <2>1. /\ HuntQueue!HoldsLease(w, 0)
        /\ \/ huntJob' = [huntJob EXCEPT ![r] = doomed] /\ hunt' = [hunt EXCEPT ![r] = bare]
           \/ huntJob' = [huntJob EXCEPT ![r] = done] /\ hunt' = [hunt EXCEPT ![r] = kept]
    BY <1>9 DEF StoreHunt, StoreEnding, Cleared, HuntQueue!Complete, r, HuntOf
  <2>2. bare \in {h, bare, kept} /\ kept \in {h, bare, kept}
    OBVIOUS
  <2> HIDE DEF doomed, done, bare, kept
  <2> QED BY <1>4, <2>1, <2>2
<1>10. ASSUME PollHunt(w) PROVE \A q \in Runs : HuntKeepsItsEnd(q)
  <2> DEFINE rows == HuntQueue!Recovered({}, 0)
  <2>1. rows \in [Runs -> LeaseRow]
    BY HuntQueueSteps
  <2>2. \A q \in Runs : huntJob[q].status = "absent" => rows[q] = huntJob[q]
    BY DEF HuntQueue!Recovered, HuntQueue!Stale
  <2>3. hunt' = hunt
    BY <1>10 DEF PollHunt
  <2>4. \/ huntJob' = rows
        \/ \E q \in Runs : \E after :
             rows[q].status = "queued" /\ huntJob' = [rows EXCEPT ![q] = after]
    BY <1>10 DEF PollHunt, HuntQueue!PollIdle, HuntQueue!PollClaim, HuntQueue!FirstOf,
                 HuntQueue!Claimable
  <2> HIDE DEF rows
  <2>5. \A q \in Runs : huntJob[q].status = "absent" => huntJob'[q] = huntJob[q]
    BY <2>1, <2>2, <2>4
  <2> QED BY <2>3, <2>5, RowsMove
<1>11. ASSUME Unavailable(w) \/ FailHunt(w) PROVE \A q \in Runs : HuntKeepsItsEnd(q)
  BY <1>8, <1>11 DEF Unavailable, FailHunt
<1> QED BY <1>5, <1>6, <1>7, <1>9, <1>10, <1>11

\* A deleted run is not brought back, a cleared request stays cleared and a stored result
\* goes only with its run, however late the worker that computes it, the operator who
\* retries it or the retention that selected it comes to it.
THEOREM NothingReturns == HuntSpec => NothingComesBack
<1>1. HuntInv /\ [HuntNext]_huntVars => [\A r \in Runs : HuntKeepsItsEnd(r)]_huntVars
  <2> SUFFICES ASSUME HuntInv, HuntNext PROVE \A r \in Runs : HuntKeepsItsEnd(r)
    OBVIOUS
  <2>1. ASSUME NEW c \in Requests, Select(c) \/ Clean(c) \/ Refuse(c)
        PROVE  \A r \in Runs : HuntKeepsItsEnd(r)
    BY <2>1, RetentionEnd
  <2>2. ASSUME NEW span \in Policies, SetRetention(span)
        PROVE  \A r \in Runs : HuntKeepsItsEnd(r)
    BY <2>2, RetentionEnd
  <2>3. ASSUME Age PROVE \A r \in Runs : HuntKeepsItsEnd(r)
    BY <2>3, RetentionEnd
  <2>4. ASSUME NEW r \in Runs, Post(r) \/ CancelHunt(r) \/ DeleteHunt(r) \/ Append(r)
                                 \/ Ask(r) \/ Answer(r)
        PROVE  \A q \in Runs : HuntKeepsItsEnd(q)
    BY <2>4, CommandsEnd
  <2>5. ASSUME NEW w \in Workers,
               \/ PollHunt(w) \/ Glance(w) \/ Load(w) \/ Unavailable(w) \/ FailHunt(w)
               \/ StoreHunt(w) \/ GiveUpHunt(w) \/ RenewHunt(w)
        PROVE  \A q \in Runs : HuntKeepsItsEnd(q)
    BY <2>5, WorkersEnd
  <2>6. ASSUME HuntTick PROVE \A r \in Runs : HuntKeepsItsEnd(r)
    <3>1. hunt' = hunt
      BY <2>6 DEF HuntTick, hunts
    <3>2. ASSUME NEW r \in Runs, huntJob[r].status = "absent" PROVE huntJob'[r] = huntJob[r]
      <4> DEFINE row == huntJob[r]
                 lease == row.lease
                 wait == row.wait
      <4>1. row \in LeaseRow
        BY HuntQueueSteps
      <4>2. huntJob'[r] = [row EXCEPT !.lease = lease, !.wait = wait]
        BY <2>6, <3>2 DEF HuntTick, HuntQueue!Tick
      <4> HIDE DEF row
      <4>3. [row EXCEPT !.lease = lease, !.wait = wait] = row
        BY <4>1 DEF LeaseRow
      <4> QED BY <4>2, <4>3 DEF row
    <3> QED BY <3>1, <3>2, RowsMove
  <2> QED BY <2>1, <2>2, <2>3, <2>4, <2>5, <2>6 DEF HuntNext
<1> QED BY <1>1, HuntsInduct, HuntStarts, PTL DEF HuntSpec, NothingComesBack

(***************************************************************************)
(* Contact searches.                                                       *)
(***************************************************************************)
OpenPlan == {"queued", "running"}

\* PlanAgrees, of a plan, its bench and its row; work that still runs is not asked to stop
\* and has used its only attempt, which is why the poll never queues a plan again.
Fits(pl, b, row) ==
  /\ pl.status = "absent" <=> row.status = "absent"
  /\ pl.status \in OpenPlan <=> row.status \in {"queued", "running"}
  /\ pl.status = "running" => row.status = "running"
  /\ pl.status = "completed" => row.status = "succeeded"
  /\ pl.status = "failed" => row.status = "dead_letter"
  /\ pl.status = "cancelled" => row.status = "cancelled"
  /\ b # {} => pl.status = "completed"
  /\ row.status \in {"queued", "running"} => ~row.cancel
  /\ row.status = "running" => row.attempts >= 1

SearchTyped ==
  /\ contactJob \in [Plans -> LeaseRow]
  /\ contactClaim \in [Workers -> [job : Plans \cup {NoJob}, token : Tokens \cup {NoToken}]]
  /\ app \in [Apps -> {"none", "open", "halted", "undone"}]
  /\ plan \in [Plans -> PlanRow]
  /\ bench \in [Plans -> SUBSET People]
  /\ days \in 0..MaxDays

Hosted(p) == plan[p].status # "absent" => plan[p].of \in Apps /\ app[plan[p].of] \in {"open", "halted"}

OneActive == \A p, q \in Plans : Active(p) /\ Active(q) /\ plan[p].of = plan[q].of => p = q

SearchInv ==
  /\ SearchTyped
  /\ \A p \in Plans : Fits(plan[p], bench[p], contactJob[p]) /\ Hosted(p)
  /\ OneActive

\* What the queue of the contact searches writes.
LEMMA SearchWrites ==
  /\ ContactQueue!NoRow \in LeaseRow /\ ContactQueue!NoRow.status = "absent" /\ ~ContactQueue!NoRow.cancel
  /\ LET fresh == ContactQueue!NewRow(0, 0)
     IN  fresh \in LeaseRow /\ fresh.status = "queued" /\ ~fresh.cancel /\ fresh.attempts = 0
  /\ \A row \in LeaseRow :
       /\ ContactQueue!CancelledRow(row) = Doomed(row)
       /\ ContactQueue!CompletedRow(row) = Done(row)
       /\ ContactQueue!RecoveredRow(row, 0) = Lost(row, 1)
       /\ ContactQueue!RequeuedRow(row, 0) = Anew(row)
       /\ ContactQueue!StagedRow(row) = [row EXCEPT !.stage = "working"]
       /\ ContactQueue!RenewedRow(row, 0) = [row EXCEPT !.lease = LeaseTime]
       /\ \A terminal \in BOOLEAN :
            ContactQueue!FailedRow(row, terminal, 0, 0) = Failed(row, terminal, 1)
       /\ \A w \in Workers, t \in Tokens : ContactQueue!ClaimedRow(row, w, t, 0) = Leased(row, w, t)
<1>1. ContactQueue!NoRow \in LeaseRow /\ ContactQueue!NoRow.status = "absent"
      /\ ~ContactQueue!NoRow.cancel
  BY DEF ContactQueue!NoRow, LeaseRow, JobStages, JobEnds
<1>10. LET fresh == ContactQueue!NewRow(0, 0)
       IN  fresh \in LeaseRow /\ fresh.status = "queued" /\ ~fresh.cancel /\ fresh.attempts = 0
  <2> DEFINE blank == ContactQueue!NoRow
             now == 0 + 0
  <2>1. ContactQueue!NewRow(0, 0) = [blank EXCEPT !.status = "queued", !.wait = now]
    BY DEF ContactQueue!NewRow
  <2>2. now \in Int /\ "queued" \in {"absent", "queued", "running"} \cup JobEnds
    OBVIOUS
  <2>3. blank \in LeaseRow /\ ~blank.cancel /\ blank.attempts = 0
    BY <1>1 DEF ContactQueue!NoRow
  <2> HIDE DEF now, blank
  <2> QED BY <2>1, <2>2, <2>3 DEF LeaseRow
<1>11. ASSUME NEW row \in LeaseRow, NEW terminal \in BOOLEAN
       PROVE  ContactQueue!FailedRow(row, terminal, 0, 0) = Failed(row, terminal, 1)
  <2>1. 0 + 0 = 0
    OBVIOUS
  <2> QED BY <2>1, Zenon
      DEF ContactQueue!FailedRow, Failed, ContactQueue!Unleased, ContactQueue!Stamped, ContactQueue!Ended,
          ContactQueue!FinalCancel, ContactQueue!DeadLettered, ContactQueue!Retried,
          Released, Stamp, End, Again
<1>12. ASSUME NEW row \in LeaseRow, NEW w \in Workers, NEW t \in Tokens
       PROVE  ContactQueue!ClaimedRow(row, w, t, 0) = Leased(row, w, t)
  <2>1. LeaseTime + 0 = LeaseTime
    BY PoolAssumption
  <2> QED BY <2>1, Zenon DEF ContactQueue!ClaimedRow, Leased
<1>13. ASSUME NEW row \in LeaseRow
       PROVE  ContactQueue!RenewedRow(row, 0) = [row EXCEPT !.lease = LeaseTime]
  <2>1. LeaseTime + 0 = LeaseTime
    BY PoolAssumption
  <2> QED BY <2>1, Zenon DEF ContactQueue!RenewedRow
<1>14. ASSUME NEW row \in LeaseRow
       PROVE  /\ ContactQueue!CancelledRow(row) = Doomed(row)
              /\ ContactQueue!CompletedRow(row) = Done(row)
              /\ ContactQueue!RecoveredRow(row, 0) = Lost(row, 1)
              /\ ContactQueue!RequeuedRow(row, 0) = Anew(row)
              /\ ContactQueue!StagedRow(row) = [row EXCEPT !.stage = "working"]
  BY DEF ContactQueue!CancelledRow, Doomed, ContactQueue!CompletedRow, Done, ContactQueue!RecoveredRow,
         Lost, ContactQueue!RequeuedRow, Anew, ContactQueue!StagedRow, ContactQueue!Unleased,
         ContactQueue!Stamped, ContactQueue!Ended, ContactQueue!FinalCancel, ContactQueue!Succeeded,
         ContactQueue!DeadLettered, ContactQueue!Retried, Released, Stamp, End, Again
<1>15. \A row \in LeaseRow :
         /\ ContactQueue!RenewedRow(row, 0) = [row EXCEPT !.lease = LeaseTime]
         /\ \A terminal \in BOOLEAN :
              ContactQueue!FailedRow(row, terminal, 0, 0) = Failed(row, terminal, 1)
         /\ \A w \in Workers, t \in Tokens :
              ContactQueue!ClaimedRow(row, w, t, 0) = Leased(row, w, t)
  <2>1. \A row \in LeaseRow, terminal \in BOOLEAN :
          ContactQueue!FailedRow(row, terminal, 0, 0) = Failed(row, terminal, 1)
    BY <1>11, Zenon
  <2>2. \A row \in LeaseRow, w \in Workers, t \in Tokens :
          ContactQueue!ClaimedRow(row, w, t, 0) = Leased(row, w, t)
    BY <1>12, Zenon
  <2> QED BY <1>13, <2>1, <2>2, Zenon
<1> QED BY <1>1, <1>10, <1>14, <1>15, Zenon

\* What EndedWith makes of a plan.
Settled(pl, status) ==
  IF pl.status \notin OpenPlan \/ status \notin JobEnds THEN pl
  ELSE [pl EXCEPT !.status = IF status = "cancelled" THEN "cancelled" ELSE "failed"]

LEMMA SettledPlans ==
  /\ \A status : \A p \in Plans : EndedWith(p, status) = Settled(plan[p], status)
  /\ \A status : \A pl \in PlanRow :
       /\ Settled(pl, status) \in PlanRow /\ Settled(pl, status).of = pl.of
       /\ Settled(pl, status).status = "absent" <=> pl.status = "absent"
       /\ Settled(pl, status).status \in OpenPlan => pl.status \in OpenPlan
<1>1. \A status : \A p \in Plans : EndedWith(p, status) = Settled(plan[p], status)
  BY DEF EndedWith, Settled, Active, OpenPlan, ContactQueue!Terminal, JobEnds
<1>2. ASSUME NEW pl \in PlanRow, NEW status
      PROVE  /\ Settled(pl, status) \in PlanRow /\ Settled(pl, status).of = pl.of
             /\ Settled(pl, status).status = "absent" <=> pl.status = "absent"
             /\ Settled(pl, status).status \in OpenPlan => pl.status \in OpenPlan
  <2> DEFINE end == IF status = "cancelled" THEN "cancelled" ELSE "failed"
  <2>1. end \in TerminalPlan /\ end # "absent" /\ end \notin OpenPlan
    BY DEF TerminalPlan, OpenPlan
  <2>2. Settled(pl, status) = IF pl.status \notin OpenPlan \/ status \notin JobEnds THEN pl
                              ELSE [pl EXCEPT !.status = end]
    BY DEF Settled
  <2> HIDE DEF end
  <2>3. /\ [pl EXCEPT !.status = end] \in PlanRow /\ [pl EXCEPT !.status = end].of = pl.of
        /\ [pl EXCEPT !.status = end].status = end
    BY <2>1 DEF PlanRow
  <2>4. "absent" \notin OpenPlan
    BY DEF OpenPlan
  <2> QED BY <2>1, <2>2, <2>3, <2>4
<1> QED BY <1>1, <1>2

\* Every way a row moves on, with what is made of the plan.
LEMMA FitsKept ==
  ASSUME NEW pl \in PlanRow, NEW b, NEW row \in LeaseRow, Fits(pl, b, row)
  PROVE  /\ row.status = "running" =>
              /\ Fits(pl, b, [row EXCEPT !.stage = "working"])
              /\ Fits(pl, b, [row EXCEPT !.lease = LeaseTime])
              /\ Fits([pl EXCEPT !.status = "running"], b, [row EXCEPT !.stage = "working"])
              /\ Fits(Settled(pl, Lost(row, 1).status), b, Lost(row, 1))
              /\ Lost(row, 1).status # "queued"
              /\ Fits([pl EXCEPT !.status = "cancelled"], b, Done(Doomed(row)))
              /\ \A c : Fits([pl EXCEPT !.status = "completed"], c, Done(row))
              /\ \A terminal \in BOOLEAN :
                   Fits(Settled(pl, Failed(row, terminal, 1).status), b, Failed(row, terminal, 1))
         /\ row.status = "queued" =>
              /\ Fits(Settled(pl, Doomed(row).status), b, Doomed(row))
              /\ \A w \in Workers, t \in Tokens :
                   Fits(Settled(pl, Leased(row, w, t).status), b, Leased(row, w, t))
         /\ row.status # "running" => Fits(Settled(pl, row.status), b, row)
<1> USE DEF OpenPlan
<1>1. ASSUME NEW status \in {"running", "cancelled", "failed", "completed"}
      PROVE  [pl EXCEPT !.status = status].status = status
  BY DEF PlanRow
<1>2. \A status \in {"dead_letter", "cancelled"} : pl.status \in OpenPlan =>
        Settled(pl, status).status = IF status = "cancelled" THEN "cancelled" ELSE "failed"
  BY <1>1 DEF Settled, JobEnds
<1>3. ASSUME row.status = "running"
      PROVE  /\ Fits(pl, b, [row EXCEPT !.stage = "working"])
             /\ Fits(pl, b, [row EXCEPT !.lease = LeaseTime])
             /\ Fits([pl EXCEPT !.status = "running"], b, [row EXCEPT !.stage = "working"])
             /\ Fits(Settled(pl, Lost(row, 1).status), b, Lost(row, 1))
             /\ Lost(row, 1).status # "queued"
             /\ Fits([pl EXCEPT !.status = "cancelled"], b, Done(Doomed(row)))
             /\ \A c : Fits([pl EXCEPT !.status = "completed"], c, Done(row))
             /\ \A terminal \in BOOLEAN :
                  Fits(Settled(pl, Failed(row, terminal, 1).status), b, Failed(row, terminal, 1))
  <2>1. ~row.cancel /\ row.attempts >= 1 /\ pl.status \in OpenPlan /\ b = {}
    BY <1>3 DEF Fits
  <2>2. /\ SameStand(row, [row EXCEPT !.stage = "working"])
        /\ SameStand(row, [row EXCEPT !.lease = LeaseTime])
    BY PoolAssumption, RowsReleased DEF JobStages
  <2>3. /\ Fits(pl, b, [row EXCEPT !.stage = "working"])
        /\ Fits(pl, b, [row EXCEPT !.lease = LeaseTime])
        /\ Fits([pl EXCEPT !.status = "running"], b, [row EXCEPT !.stage = "working"])
    BY <1>1, <1>3, <2>1, <2>2 DEF SameStand, Fits
  <2>4. Lost(row, 1).status = "dead_letter"
    BY <2>1, RowsLost
  <2>5. Fits(Settled(pl, Lost(row, 1).status), b, Lost(row, 1))
    BY <1>2, <2>1, <2>4 DEF Fits
  <2>6. Done(Doomed(row)).status = "cancelled"
    BY <1>3, RowsDoomed, RowsCompleted
  <2>7. Fits([pl EXCEPT !.status = "cancelled"], b, Done(Doomed(row)))
    BY <1>1, <2>1, <2>6 DEF Fits
  <2>8. Done(row).status = "succeeded"
    BY <2>1, RowsCompleted
  <2>9. \A c : Fits([pl EXCEPT !.status = "completed"], c, Done(row))
    BY <1>1, <2>8 DEF Fits
  <2>10. ASSUME NEW terminal \in BOOLEAN
         PROVE  Fits(Settled(pl, Failed(row, terminal, 1).status), b, Failed(row, terminal, 1))
    <3>1. Failed(row, terminal, 1).status = "dead_letter"
      BY <2>1, RowsFailed
    <3> QED BY <1>2, <2>1, <3>1 DEF Fits
  <2> QED BY <2>3, <2>4, <2>5, <2>7, <2>9, <2>10
<1>4. ASSUME row.status = "queued"
      PROVE  /\ Fits(Settled(pl, Doomed(row).status), b, Doomed(row))
             /\ \A w \in Workers, t \in Tokens :
                  Fits(Settled(pl, Leased(row, w, t).status), b, Leased(row, w, t))
  <2>1. pl.status = "queued" /\ b = {}
    BY <1>4 DEF Fits
  <2>2. Doomed(row).status = "cancelled"
    BY <1>4, RowsDoomed
  <2>3. Fits(Settled(pl, Doomed(row).status), b, Doomed(row))
    BY <1>2, <2>1, <2>2 DEF Fits
  <2>4. ASSUME NEW w \in Workers, NEW t \in Tokens
        PROVE  Fits(Settled(pl, Leased(row, w, t).status), b, Leased(row, w, t))
    <3>1. /\ Leased(row, w, t).status = "running" /\ Leased(row, w, t).cancel = row.cancel
          /\ Leased(row, w, t).attempts = row.attempts + 1 /\ row.attempts \in Nat
      BY RowsLeased DEF LeaseRow
    <3>2. ~row.cancel
      BY <1>4 DEF Fits
    <3>3. Settled(pl, "running") = pl
      BY DEF Settled, JobEnds
    <3> QED BY <2>1, <3>1, <3>2, <3>3 DEF Fits
  <2> QED BY <2>3, <2>4
<1>5. ASSUME row.status # "running" PROVE Fits(Settled(pl, row.status), b, row)
  <2>1. Settled(pl, row.status) = pl
    BY <1>5 DEF Settled, JobEnds, Fits
  <2> QED BY <2>1
<1> QED BY <1>3, <1>4, <1>5

\* A step that keeps the types, the fit of each plan to its row and its application, and
\* opens no plan keeps the invariant.
LEMMA PlansKept ==
  ASSUME SearchInv, SearchTyped', app' = app,
         \A p \in Plans :
           /\ Fits(plan'[p], bench'[p], contactJob'[p])
           /\ plan'[p].of = plan[p].of
           /\ plan'[p].status = "absent" <=> plan[p].status = "absent"
           /\ plan'[p].status \in OpenPlan => plan[p].status \in OpenPlan
  PROVE  SearchInv'
<1>1. \A p \in Plans : Hosted(p)'
  BY DEF SearchInv, Hosted
<1>2. OneActive'
  BY DEF SearchInv, OneActive, Active, OpenPlan
<1> QED BY <1>1, <1>2 DEF SearchInv

\* A step of one plan.
LEMMA OnePlan ==
  ASSUME SearchInv, NEW p \in Plans, NEW row \in LeaseRow, NEW pl \in PlanRow,
         NEW b \in SUBSET People, Fits(pl, b, row), pl.of = plan[p].of,
         pl.status = "absent" <=> plan[p].status = "absent",
         pl.status \in OpenPlan => plan[p].status \in OpenPlan,
         contactJob' = [contactJob EXCEPT ![p] = row], plan' = [plan EXCEPT ![p] = pl],
         bench' = [bench EXCEPT ![p] = b],
         contactClaim' \in [Workers -> [job : Plans \cup {NoJob}, token : Tokens \cup {NoToken}]],
         UNCHANGED <<app, days>>
  PROVE  SearchInv'
<1>1. SearchTyped'
  BY DEF SearchInv, SearchTyped
<1>2. \A q \in Plans : /\ contactJob'[q] = IF q = p THEN row ELSE contactJob[q]
                       /\ plan'[q] = IF q = p THEN pl ELSE plan[q]
                       /\ bench'[q] = IF q = p THEN b ELSE bench[q]
  BY DEF SearchInv, SearchTyped
<1>3. \A q \in Plans : Fits(plan'[q], bench'[q], contactJob'[q])
  BY <1>2 DEF SearchInv
<1> QED BY <1>1, <1>2, <1>3, PlansKept

\* Nothing of the plans, their jobs, their benches or the applications changes.
LEMMA SearchesIdle ==
  ASSUME SearchInv, UNCHANGED <<contactJob, plan, bench, app>>, days' \in 0..MaxDays,
         contactClaim' \in [Workers -> [job : Plans \cup {NoJob}, token : Tokens \cup {NoToken}]]
  PROVE  SearchInv'
BY DEF SearchInv, SearchTyped, Hosted, OneActive, Active

LEMMA SearchSteps ==
  ASSUME SearchInv
  PROVE  /\ ContactQueue!NoClaim \in [job : Plans \cup {NoJob}, token : Tokens \cup {NoToken}]
         /\ contactClaim \in [Workers -> [job : Plans \cup {NoJob}, token : Tokens \cup {NoToken}]]
         /\ \A w \in Workers : ContactQueue!HoldsLease(w, 0) =>
              PlanOf(w) \in Plans /\ contactJob[PlanOf(w)].status = "running"
         /\ \A p \in Plans : /\ contactJob[p] \in LeaseRow /\ plan[p] \in PlanRow
                             /\ bench[p] \in SUBSET People
                             /\ Fits(plan[p], bench[p], contactJob[p])
         /\ \A p \in Plans : /\ [plan EXCEPT ![p] = plan[p]] = plan
                             /\ [bench EXCEPT ![p] = bench[p]] = bench
         /\ LET rows == ContactQueue!Recovered({}, 0)
            IN  /\ rows \in [Plans -> LeaseRow]
                /\ \A p \in Plans :
                     /\ rows[p].status = "queued" => rows[p] = contactJob[p]
                     /\ Fits(Settled(plan[p], rows[p].status), bench[p], rows[p])
<1>1. ContactQueue!NoClaim \in [job : Plans \cup {NoJob}, token : Tokens \cup {NoToken}]
  BY DEF ContactQueue!NoClaim
<1>2. /\ contactClaim \in [Workers -> [job : Plans \cup {NoJob}, token : Tokens \cup {NoToken}]]
      /\ \A p \in Plans : /\ contactJob[p] \in LeaseRow /\ plan[p] \in PlanRow
                          /\ bench[p] \in SUBSET People
                          /\ Fits(plan[p], bench[p], contactJob[p])
  BY DEF SearchInv, SearchTyped
<1>3. \A w \in Workers : ContactQueue!HoldsLease(w, 0) =>
        PlanOf(w) \in Plans /\ contactJob[PlanOf(w)].status = "running"
  BY ContactAssumption, <1>2
     DEF ContactQueue!HoldsLease, ContactQueue!Working, ContactQueue!Owned, PlanOf
<1>4. \A p \in Plans : [plan EXCEPT ![p] = plan[p]] = plan /\ [bench EXCEPT ![p] = bench[p]] = bench
  BY DEF SearchInv, SearchTyped
<1>5. ASSUME NEW p \in Plans
      PROVE  LET row == ContactQueue!Recovered({}, 0)[p]
             IN  /\ row \in LeaseRow
                 /\ row.status = "queued" => row = contactJob[p]
                 /\ Fits(Settled(plan[p], row.status), bench[p], row)
  <2>1. ContactQueue!Recovered({}, 0)[p] =
          IF ContactQueue!Stale(contactJob[p], 0) THEN Lost(contactJob[p], 1) ELSE contactJob[p]
    BY <1>2, SearchWrites DEF ContactQueue!Recovered
  <2>2. ContactQueue!Stale(contactJob[p], 0) => contactJob[p].status = "running"
    BY DEF ContactQueue!Stale
  <2> DEFINE pl == plan[p]
             row == contactJob[p]
             b == bench[p]
  <2>3. pl \in PlanRow /\ row \in LeaseRow /\ Fits(pl, b, row)
    BY <1>2
  <2> HIDE DEF pl, row, b
  <2>4. /\ row.status = "running" =>
             Fits(Settled(pl, Lost(row, 1).status), b, Lost(row, 1)) /\ Lost(row, 1).status # "queued"
        /\ row.status # "running" => Fits(Settled(pl, row.status), b, row)
    BY <2>3, FitsKept
  <2>5. Lost(row, 1) \in LeaseRow
    BY <2>3, RowsLost
  <2>6. row.status = "running" => Fits(Settled(pl, row.status), b, row)
    BY <2>3 DEF Settled, JobEnds
  <2> QED BY <2>1, <2>2, <2>3, <2>4, <2>5, <2>6 DEF pl, row, b
<1>6. ContactQueue!Recovered({}, 0) \in [Plans -> LeaseRow]
  <2>1. ContactQueue!Recovered({}, 0) = [p \in Plans |-> ContactQueue!Recovered({}, 0)[p]]
    BY DEF ContactQueue!Recovered
  <2> QED BY <1>5, <2>1
<1> QED BY <1>1, <1>2, <1>3, <1>4, <1>5, <1>6

\* The poll makes plans agree with rows that fit their settled plans.
LEMMA PlansReconciled ==
  ASSUME SearchInv, contactJob' \in [Plans -> LeaseRow], ReconcilePlans,
         UNCHANGED <<app, bench, days>>,
         contactClaim' \in [Workers -> [job : Plans \cup {NoJob}, token : Tokens \cup {NoToken}]],
         \A p \in Plans : Fits(Settled(plan[p], contactJob'[p].status), bench[p], contactJob'[p])
  PROVE  SearchInv'
<1>1. \A p \in Plans : plan'[p] = Settled(plan[p], contactJob'[p].status)
  BY SettledPlans DEF ReconcilePlans
<1>2. ASSUME NEW p \in Plans
      PROVE  /\ plan'[p] \in PlanRow /\ plan'[p].of = plan[p].of
             /\ plan'[p].status = "absent" <=> plan[p].status = "absent"
             /\ plan'[p].status \in OpenPlan => plan[p].status \in OpenPlan
  BY <1>1, SearchSteps, SettledPlans
<1>3. SearchTyped'
  BY <1>2 DEF ReconcilePlans, SearchInv, SearchTyped
<1> QED BY <1>1, <1>2, <1>3, PlansKept

LEMMA SearchPollsKept ==
  ASSUME SearchInv
  PROVE  /\ \A w \in Workers : PollContacts(w) => SearchInv'
         /\ \A old \in SUBSET Plans : Drain(old) => SearchInv'
<1> DEFINE rows == ContactQueue!Recovered({}, 0)
<1>1. /\ rows \in [Plans -> LeaseRow]
      /\ \A p \in Plans : /\ rows[p].status = "queued" => rows[p] = contactJob[p]
                          /\ Fits(Settled(plan[p], rows[p].status), bench[p], rows[p])
  BY SearchSteps
<1>2. /\ contactClaim \in [Workers -> [job : Plans \cup {NoJob}, token : Tokens \cup {NoToken}]]
      /\ \A p \in Plans : /\ contactJob[p] \in LeaseRow /\ plan[p] \in PlanRow
                          /\ Fits(plan[p], bench[p], contactJob[p])
  BY SearchSteps
<1> HIDE DEF rows
<1>3. ASSUME NEW w \in Workers, ContactQueue!PollIdle(w, {}, 0), PollContacts(w) PROVE SearchInv'
  <2>1. contactJob' = rows /\ contactClaim' = contactClaim
    BY <1>3 DEF ContactQueue!PollIdle, rows
  <2>2. ReconcilePlans /\ UNCHANGED <<app, bench, days>>
    BY <1>3 DEF PollContacts
  <2> QED BY <1>1, <1>2, <2>1, <2>2, PlansReconciled
<1>4. ASSUME NEW w \in Workers, ContactQueue!PollClaim(w, {}, 0), PollContacts(w) PROVE SearchInv'
  <2>1. PICK p \in Plans, t \in Tokens :
          /\ ContactQueue!Claimable(rows[p], 0)
          /\ contactJob' = [rows EXCEPT ![p] = ContactQueue!ClaimedRow(@, w, t, 0)]
          /\ contactClaim' = [contactClaim EXCEPT ![w] = [job |-> p, token |-> t]]
    BY <1>4 DEF ContactQueue!PollClaim, ContactQueue!FirstOf, rows
  <2>2. rows[p].status = "queued" /\ rows[p] = contactJob[p]
    BY <1>1, <2>1 DEF ContactQueue!Claimable
  <2> DEFINE pl == plan[p]
             row == contactJob[p]
             b == bench[p]
             next == Leased(row, w, t)
  <2>3. contactJob' = [rows EXCEPT ![p] = next]
    <3>1. ContactQueue!ClaimedRow(rows[p], w, t, 0) = next
      BY <1>2, <2>2, SearchWrites
    <3>2. contactJob' = [rows EXCEPT ![p] = ContactQueue!ClaimedRow(rows[p], w, t, 0)]
      BY <2>1
    <3> QED BY <3>1, <3>2
  <2>4. pl \in PlanRow /\ row \in LeaseRow /\ Fits(pl, b, row) /\ row.status = "queued"
    BY <1>2, <2>2
  <2> HIDE DEF pl, row, b
  <2>5. next \in LeaseRow /\ Fits(Settled(pl, next.status), b, next)
    BY <2>4, RowsLeased, FitsKept
  <2> HIDE DEF next
  <2>6. contactJob' \in [Plans -> LeaseRow]
    BY <1>1, <2>3, <2>5
  <2>7. \A q \in Plans : contactJob'[q] = IF q = p THEN next ELSE rows[q]
    BY <1>1, <2>3
  <2>8. \A q \in Plans : Fits(Settled(plan[q], contactJob'[q].status), bench[q], contactJob'[q])
    BY <1>1, <2>5, <2>7 DEF pl, b
  <2>9. ReconcilePlans /\ UNCHANGED <<app, bench, days>>
        /\ contactClaim' \in [Workers -> [job : Plans \cup {NoJob}, token : Tokens \cup {NoToken}]]
    BY <1>2, <1>4, <2>1 DEF PollContacts
  <2> QED BY <2>6, <2>8, <2>9, PlansReconciled
<1>5. ASSUME NEW old \in SUBSET Plans, Drain(old) PROVE SearchInv'
  <2>1. /\ contactJob' = [p \in Plans |-> IF p \in old THEN ContactQueue!CancelledRow(contactJob[p])
                                          ELSE rows[p]]
        /\ \A p \in old : rows[p].status = "queued"
        /\ ReconcilePlans /\ UNCHANGED <<contactClaim, app, bench, days>>
    BY <1>5 DEF Drain, rows
  <2>2. ASSUME NEW p \in Plans
        PROVE  contactJob'[p] \in LeaseRow
               /\ Fits(Settled(plan[p], contactJob'[p].status), bench[p], contactJob'[p])
    <3>1. CASE p \notin old
      BY <1>1, <2>1, <3>1
    <3>2. CASE p \in old
      <4> DEFINE pl == plan[p]
                 row == contactJob[p]
                 b == bench[p]
      <4>1. contactJob'[p] = Doomed(row)
        BY <1>2, <2>1, <3>2, SearchWrites
      <4>2. pl \in PlanRow /\ row \in LeaseRow /\ Fits(pl, b, row) /\ row.status = "queued"
        BY <1>1, <1>2, <2>1, <3>2
      <4> HIDE DEF pl, row, b
      <4>3. Doomed(row) \in LeaseRow /\ Fits(Settled(pl, Doomed(row).status), b, Doomed(row))
        BY <4>2, RowsDoomed, FitsKept
      <4> QED BY <4>1, <4>3 DEF pl, b
    <3> QED BY <3>1, <3>2
  <2>3. contactJob' \in [Plans -> LeaseRow]
    BY <2>1, <2>2
  <2> QED BY <1>2, <2>1, <2>2, <2>3, PlansReconciled
<1> QED BY <1>3, <1>4, <1>5 DEF PollContacts

LEMMA SearchCommandsKept ==
  ASSUME SearchInv, NEW a \in Apps
  PROVE  /\ Pursue(a) \/ Halt(a) \/ Resume(a) \/ UndoRead(a) \/ RefuseUndo(a) => SearchInv'
         /\ Undo(a) => SearchInv'
         /\ \A p \in Plans : CreateSearch(a, p) => SearchInv'
<1>1. ASSUME Pursue(a) \/ Halt(a) \/ Resume(a) PROVE SearchInv'
  <2>1. UNCHANGED <<contactJob, contactClaim, plan, bench, days>>
    BY <1>1 DEF Pursue, Halt, Resume, contactQueue
  <2>2. /\ app' \in [Apps -> {"none", "open", "halted", "undone"}]
        /\ \A c \in Apps : app[c] \in {"open", "halted"} => app'[c] \in {"open", "halted"}
    BY <1>1 DEF Pursue, Halt, Resume, SearchInv, SearchTyped
  <2>3. SearchTyped'
    BY <2>1, <2>2 DEF SearchInv, SearchTyped
  <2>4. \A p \in Plans : Fits(plan'[p], bench'[p], contactJob'[p]) /\ Hosted(p)'
    BY <2>1, <2>2 DEF SearchInv, Hosted
  <2>5. OneActive'
    BY <2>1 DEF SearchInv, OneActive, Active
  <2> QED BY <2>3, <2>4, <2>5 DEF SearchInv
<1>2. ASSUME UndoRead(a) \/ RefuseUndo(a) PROVE SearchInv'
  <2>1. UNCHANGED <<contactJob, contactClaim, plan, bench, app, days>>
    BY <1>2 DEF UndoRead, RefuseUndo, contactQueue
  <2>2. days \in 0..MaxDays
    BY DEF SearchInv, SearchTyped
  <2> QED BY <2>1, <2>2, SearchSteps, SearchesIdle
<1>3. ASSUME Undo(a) PROVE SearchInv'
  <2> DEFINE gone == PlansOf(a)
  <2>1. /\ app' = [app EXCEPT ![a] = "undone"]
        /\ plan' = [p \in Plans |-> IF p \in gone THEN NoPlan ELSE plan[p]]
        /\ bench' = [p \in Plans |-> IF p \in gone THEN {} ELSE bench[p]]
        /\ contactJob' = [p \in Plans |-> IF p \in gone THEN ContactQueue!NoRow ELSE contactJob[p]]
        /\ UNCHANGED <<contactClaim, days>>
    BY <1>3 DEF Undo, Undoable
  <2>2. \A p \in Plans : p \in gone <=> plan[p].of = a
    BY DEF PlansOf
  <2> HIDE DEF gone
  <2>3. NoPlan \in PlanRow /\ NoPlan.status = "absent"
    BY ContactAssumption DEF NoPlan, PlanRow
  <2>4. ContactQueue!NoRow \in LeaseRow /\ Fits(NoPlan, {}, ContactQueue!NoRow)
    BY <2>3, SearchWrites DEF Fits, OpenPlan
  <2>5. \A p \in Plans : Fits(plan'[p], bench'[p], contactJob'[p])
    BY <2>1, <2>4, SearchSteps
  <2>6. app' \in [Apps -> {"none", "open", "halted", "undone"}]
    BY <2>1 DEF SearchInv, SearchTyped
  <2>7. plan' \in [Plans -> PlanRow] /\ bench' \in [Plans -> SUBSET People]
        /\ contactJob' \in [Plans -> LeaseRow]
    BY <2>1, <2>3, <2>4, SearchSteps
  <2>8. SearchTyped'
    BY <2>1, <2>6, <2>7 DEF SearchInv, SearchTyped
  <2>9. ASSUME NEW p \in Plans PROVE Hosted(p)'
    BY <2>1, <2>2, <2>3 DEF SearchInv, SearchTyped, Hosted
  <2>10. \A p \in Plans : plan'[p].status \in OpenPlan => plan'[p] = plan[p]
    BY <2>1, <2>3 DEF OpenPlan
  <2>11. OneActive'
    BY <2>10 DEF SearchInv, OneActive, Active, OpenPlan
  <2> QED BY <2>5, <2>8, <2>9, <2>11 DEF SearchInv
<1>4. ASSUME NEW p \in Plans, CreateSearch(a, p) PROVE SearchInv'
  <2> DEFINE fresh == ContactQueue!NewRow(0, 0)
             new == [status |-> "queued", of |-> a, day |-> days]
  <2>1. /\ contactJob' = [contactJob EXCEPT ![p] = fresh] /\ contactJob[p].status = "absent"
        /\ contactClaim' = contactClaim
    BY <1>4 DEF CreateSearch, ContactQueue!Enqueue
  <2>2. /\ app[a] = "open" /\ \A q \in Plans : Active(q) => plan[q].of # a
        /\ plan' = [plan EXCEPT ![p] = new] /\ UNCHANGED <<app, bench, days>>
    BY <1>4 DEF CreateSearch, Searchable, PlansOf
  <2>3. fresh \in LeaseRow /\ fresh.status = "queued" /\ ~fresh.cancel
    BY SearchWrites
  <2>4. new \in PlanRow /\ new.status = "queued" /\ new.of = a
    BY DEF SearchInv, SearchTyped, PlanRow
  <2> HIDE DEF fresh, new
  <2>5. bench[p] = {}
    BY <2>1, SearchSteps DEF Fits
  <2>6. Fits(new, bench[p], fresh)
    BY <2>3, <2>4, <2>5 DEF Fits, OpenPlan
  <2>7. \A q \in Plans : /\ plan'[q] = IF q = p THEN new ELSE plan[q]
                         /\ contactJob'[q] = IF q = p THEN fresh ELSE contactJob[q]
    BY <2>1, <2>2 DEF SearchInv, SearchTyped
  <2>8. SearchTyped'
    BY <2>1, <2>2, <2>3, <2>4 DEF SearchInv, SearchTyped
  <2>9. \A q \in Plans : Fits(plan'[q], bench'[q], contactJob'[q])
    BY <2>2, <2>6, <2>7, SearchSteps
  <2>10. \A q \in Plans : Hosted(q)'
    BY <2>2, <2>4, <2>7 DEF SearchInv, Hosted
  <2>11. OneActive'
    BY <2>2, <2>4, <2>7 DEF SearchInv, OneActive, Active
  <2> QED BY <2>8, <2>9, <2>10, <2>11 DEF SearchInv
<1> QED BY <1>1, <1>2, <1>3, <1>4

LEMMA SearchWorkersKept ==
  ASSUME SearchInv, NEW w \in Workers
  PROVE  StartSearch(w) \/ ReturnSearch(w) \/ RenewSearch(w) => SearchInv'
<1> DEFINE p == PlanOf(w)
           pl == plan[p]
           row == contactJob[p]
           b == bench[p]
           idle == [contactClaim EXCEPT ![w] = ContactQueue!NoClaim]
<1>1. ContactQueue!HoldsLease(w, 0) =>
        /\ p \in Plans /\ pl \in PlanRow /\ row \in LeaseRow /\ b \in SUBSET People
        /\ Fits(pl, b, row) /\ row.status = "running"
        /\ [plan EXCEPT ![p] = pl] = plan /\ [bench EXCEPT ![p] = b] = bench
  BY SearchSteps
<1>2. /\ contactClaim \in [Workers -> [job : Plans \cup {NoJob}, token : Tokens \cup {NoToken}]]
      /\ idle \in [Workers -> [job : Plans \cup {NoJob}, token : Tokens \cup {NoToken}]]
      /\ days \in 0..MaxDays
  BY SearchSteps DEF SearchInv, SearchTyped
<1> HIDE DEF p, pl, row, b, idle
<1>3. ASSUME ContactQueue!HoldsLease(w, 0)
      PROVE  /\ [row EXCEPT !.stage = "working"] \in LeaseRow
             /\ [row EXCEPT !.lease = LeaseTime] \in LeaseRow
             /\ Done(row) \in LeaseRow /\ Done(Doomed(row)) \in LeaseRow
             /\ \A terminal \in BOOLEAN : Failed(row, terminal, 1) \in LeaseRow
  <2>1. LeaseTime \in Int /\ "working" \in JobStages
    BY PoolAssumption DEF JobStages
  <2>2. [row EXCEPT !.stage = "working"] \in LeaseRow /\ [row EXCEPT !.lease = LeaseTime] \in LeaseRow
    BY <1>1, <1>3, <2>1, RowsReleased
  <2>3. Done(row) \in LeaseRow /\ Done(Doomed(row)) \in LeaseRow
    BY <1>1, <1>3, RowsCompleted, RowsDoomed
  <2>4. \A terminal \in BOOLEAN : Failed(row, terminal, 1) \in LeaseRow
    BY <1>1, <1>3, RowsFailed
  <2> QED BY <2>2, <2>3, <2>4
<1>4. ASSUME ContactQueue!HoldsLease(w, 0)
      PROVE  /\ Fits(pl, b, [row EXCEPT !.lease = LeaseTime])
             /\ Fits([pl EXCEPT !.status = "running"], b, [row EXCEPT !.stage = "working"])
             /\ Fits([pl EXCEPT !.status = "cancelled"], b, Done(Doomed(row)))
             /\ \A c : Fits([pl EXCEPT !.status = "completed"], c, Done(row))
             /\ \A terminal \in BOOLEAN :
                  Fits(Settled(pl, Failed(row, terminal, 1).status), b, Failed(row, terminal, 1))
  BY <1>1, <1>4, FitsKept
<1>5. ASSUME ContactQueue!HoldsLease(w, 0), NEW status \in {"running", "cancelled", "completed"}
      PROVE  /\ [pl EXCEPT !.status = status] \in PlanRow
             /\ [pl EXCEPT !.status = status].of = pl.of
             /\ [pl EXCEPT !.status = status].status # "absent"
             /\ pl.status \in OpenPlan /\ pl.status # "absent"
  BY <1>1, <1>5 DEF PlanRow, TerminalPlan, Fits, OpenPlan
<1>6. ASSUME RenewSearch(w) PROVE SearchInv'
  <2> DEFINE next == [row EXCEPT !.lease = LeaseTime]
  <2>1. ContactQueue!HoldsLease(w, 0) /\ UNCHANGED <<contactClaim, app, plan, bench, days>>
    BY <1>6 DEF RenewSearch, ContactQueue!Renew
  <2>2. contactJob' = [contactJob EXCEPT ![p] = next]
    BY <1>1, <1>6, <2>1, SearchWrites DEF RenewSearch, ContactQueue!Renew, p, row, PlanOf
  <2>3. plan' = [plan EXCEPT ![p] = pl] /\ bench' = [bench EXCEPT ![p] = b] /\ pl = plan[p]
    BY <1>1, <2>1 DEF pl
  <2>4. next \in LeaseRow /\ Fits(pl, b, next)
    BY <1>3, <1>4, <2>1
  <2> HIDE DEF next
  <2>5. p \in Plans /\ pl \in PlanRow /\ b \in SUBSET People
    BY <1>1, <2>1
  <2>6. contactClaim' \in [Workers -> [job : Plans \cup {NoJob}, token : Tokens \cup {NoToken}]]
    BY <1>2, <2>1
  <2> QED BY <2>1, <2>2, <2>3, <2>4, <2>5, <2>6, OnePlan
<1>7. ASSUME StartSearch(w) PROVE SearchInv'
  <2> DEFINE next == [pl EXCEPT !.status = "running"]
  <2>1. ContactQueue!HoldsLease(w, 0) /\ UNCHANGED <<contactClaim, app, bench, days>>
    BY <1>7 DEF StartSearch, ContactQueue!Stage
  <2>2. contactJob' = [contactJob EXCEPT ![p] = [row EXCEPT !.stage = "working"]]
    BY <1>1, <1>7, <2>1, SearchWrites DEF StartSearch, ContactQueue!Stage, p, row, PlanOf
  <2>3. plan' = [plan EXCEPT ![p] = next] /\ bench' = [bench EXCEPT ![p] = b] /\ pl = plan[p]
    BY <1>1, <1>7, <2>1 DEF StartSearch, p, pl
  <2>4. next \in PlanRow /\ next.of = pl.of /\ next.status # "absent" /\ pl.status # "absent"
        /\ pl.status \in OpenPlan
    BY <1>5, <2>1
  <2>5. Fits(next, b, [row EXCEPT !.stage = "working"])
    BY <1>4, <2>1
  <2> HIDE DEF next
  <2> QED BY <1>1, <1>2, <1>3, <2>1, <2>2, <2>3, <2>4, <2>5, OnePlan
<1>8. ASSUME Stop(w) PROVE SearchInv'
  <2> DEFINE next == [pl EXCEPT !.status = "cancelled"]
  <2>1. ContactQueue!HoldsLease(w, 0) /\ UNCHANGED <<app, bench, days>> /\ contactClaim' = idle
    BY <1>8 DEF Stop, CancelPlan, idle
  <2>2. contactJob' = [contactJob EXCEPT ![p] = Done(Doomed(row))]
    <3>1. ContactQueue!CompletedRow(ContactQueue!CancelledRow(row)) = Done(Doomed(row))
      BY <1>1, <2>1, SearchWrites, RowsDoomed
    <3>2. contactJob' = [contactJob EXCEPT ![p] =
                           ContactQueue!CompletedRow(ContactQueue!CancelledRow(@))]
      BY <1>8 DEF Stop, CancelPlan, p
    <3> QED BY <3>1, <3>2 DEF row
  <2>3. plan' = [plan EXCEPT ![p] = next] /\ bench' = [bench EXCEPT ![p] = b] /\ pl = plan[p]
    BY <1>1, <1>8, <2>1 DEF Stop, CancelPlan, p, pl
  <2>4. next \in PlanRow /\ next.of = pl.of /\ next.status # "absent" /\ pl.status # "absent"
        /\ pl.status \in OpenPlan
    BY <1>5, <2>1
  <2>5. Fits(next, b, Done(Doomed(row)))
    BY <1>4, <2>1
  <2> HIDE DEF next
  <2> QED BY <1>1, <1>2, <1>3, <2>1, <2>2, <2>3, <2>4, <2>5, OnePlan
<1>9. ASSUME NEW found \in SUBSET People, Publish(w, found) PROVE SearchInv'
  <2> DEFINE next == [pl EXCEPT !.status = "completed"]
  <2>1. ContactQueue!HoldsLease(w, 0) /\ UNCHANGED <<app, days>> /\ contactClaim' = idle
    BY <1>9 DEF Publish, ContactQueue!Complete, idle
  <2>2. contactJob' = [contactJob EXCEPT ![p] = Done(row)]
    BY <1>1, <1>9, <2>1, SearchWrites DEF Publish, ContactQueue!Complete, p, row, PlanOf
  <2>3. PICK c \in SUBSET People : bench' = [bench EXCEPT ![p] = c]
    BY <1>9 DEF Publish, Benches, Contactable, p
  <2>4. plan' = [plan EXCEPT ![p] = next] /\ pl = plan[p]
    BY <1>9 DEF Publish, p, pl
  <2>5. next \in PlanRow /\ next.of = pl.of /\ next.status # "absent" /\ pl.status # "absent"
        /\ pl.status \in OpenPlan
    BY <1>5, <2>1
  <2>6. Fits(next, c, Done(row))
    BY <1>4, <2>1
  <2> HIDE DEF next
  <2> QED BY <1>1, <1>2, <1>3, <2>1, <2>2, <2>3, <2>4, <2>5, <2>6, OnePlan
<1>10. ASSUME FailSearch(w) PROVE SearchInv'
  <2>1. PICK terminal \in BOOLEAN : ContactQueue!FailAttempt(w, terminal)
    BY <1>10 DEF FailSearch
  <2> DEFINE after == Failed(row, terminal, 1)
             next == Settled(pl, after.status)
  <2>2. ContactQueue!HoldsLease(w, 0) /\ UNCHANGED <<app, bench, days>> /\ contactClaim' = idle
    BY <1>10, <2>1 DEF FailSearch, ContactQueue!FailAttempt, idle
  <2>3. contactJob' = [contactJob EXCEPT ![p] = after]
    BY <1>1, <2>1, <2>2, SearchWrites DEF ContactQueue!FailAttempt, p, row, PlanOf
  <2>4. contactJob'[p] = after
    BY <1>1, <2>2, <2>3 DEF SearchInv, SearchTyped
  <2>5. plan' = [plan EXCEPT ![p] = next] /\ bench' = [bench EXCEPT ![p] = b] /\ pl = plan[p]
    <3>1. plan' = [plan EXCEPT ![p] = EndedWith(p, contactJob'[p].status)]
      BY <1>10 DEF FailSearch, p
    <3>2. EndedWith(p, after.status) = next
      BY <1>1, <2>2, SettledPlans DEF pl
    <3> QED BY <1>1, <2>2, <2>4, <3>1, <3>2 DEF pl
  <2>6. /\ next \in PlanRow /\ next.of = pl.of /\ (next.status = "absent" <=> pl.status = "absent")
        /\ (next.status \in OpenPlan => pl.status \in OpenPlan)
    BY <1>1, <2>2, SettledPlans
  <2>7. Fits(next, b, after) /\ after \in LeaseRow
    BY <1>3, <1>4, <2>2
  <2> HIDE DEF next, after
  <2> QED BY <1>1, <1>2, <2>2, <2>3, <2>5, <2>6, <2>7, OnePlan
<1>11. ASSUME GiveUpSearch(w) PROVE SearchInv'
  <2>1. UNCHANGED <<contactJob, plan, bench, app, days>> /\ contactClaim' = idle
    BY <1>11 DEF GiveUpSearch, ContactQueue!GiveUp, idle
  <2> QED BY <1>2, <2>1, SearchesIdle
<1> QED BY <1>6, <1>7, <1>8, <1>9, <1>10, <1>11 DEF ReturnSearch

LEMMA SearchTimeKept ==
  ASSUME SearchInv
  PROVE  /\ \A x \in People : Block(x) => SearchInv'
         /\ Day => SearchInv'
         /\ ContactTick => SearchInv'
<1>1. days \in 0..MaxDays /\ MaxDays \in Nat
  BY ContactAssumption DEF SearchInv, SearchTyped
<1>2. ASSUME NEW x \in People, Block(x) PROVE SearchInv'
  <2>1. UNCHANGED <<contactJob, contactClaim, plan, bench, app, days>>
    BY <1>2 DEF Block, contactQueue
  <2> QED BY <1>1, <2>1, SearchSteps, SearchesIdle
<1>3. ASSUME Day PROVE SearchInv'
  <2>1. UNCHANGED <<contactJob, contactClaim, plan, bench, app>> /\ days' \in 0..MaxDays
    BY <1>1, <1>3 DEF Day, contactQueue
  <2> QED BY <2>1, SearchSteps, SearchesIdle
<1>4. ASSUME ContactTick PROVE SearchInv'
  <2>1. UNCHANGED <<contactClaim, app, plan, bench, days>>
    BY <1>4 DEF ContactTick, ContactQueue!Tick
  <2>2. ASSUME NEW p \in Plans
        PROVE  contactJob'[p] \in LeaseRow /\ SameStand(contactJob[p], contactJob'[p])
    <3> DEFINE row == contactJob[p]
               lease == IF row.status = "running" /\ ~ContactQueue!Elapsed(row.lease)
                        THEN row.lease - 1 ELSE row.lease
               wait == IF row.status = "queued" /\ ~ContactQueue!Elapsed(row.wait)
                       THEN row.wait - 1 ELSE row.wait
    <3>1. row \in LeaseRow
      BY SearchSteps
    <3>2. contactJob'[p] = [row EXCEPT !.lease = lease, !.wait = wait]
      BY <1>4 DEF ContactTick, ContactQueue!Tick
    <3>3. lease \in Int /\ wait \in Int
      BY <3>1 DEF LeaseRow
    <3> HIDE DEF row, lease, wait
    <3>4. contactJob'[p] \in LeaseRow /\ SameStand(row, contactJob'[p])
      BY <3>1, <3>2, <3>3 DEF LeaseRow, SameStand
    <3> QED BY <3>4 DEF row
  <2>3. contactJob' = [p \in Plans |-> contactJob'[p]]
    BY <1>4 DEF ContactTick, ContactQueue!Tick
  <2>4. SearchTyped'
    BY <2>1, <2>2, <2>3 DEF SearchInv, SearchTyped
  <2>5. \A p \in Plans : Fits(plan'[p], bench'[p], contactJob'[p])
    BY <2>1, <2>2, SearchSteps DEF SameStand, Fits
  <2> QED BY <2>1, <2>4, <2>5, PlansKept
<1> QED BY <1>2, <1>3, <1>4

LEMMA SearchStarts == ContactInit => SearchInv
<1> SUFFICES ASSUME ContactInit PROVE SearchInv
  OBVIOUS
<1>1. /\ contactJob = [p \in Plans |-> ContactQueue!NoRow]
      /\ contactClaim = [w \in Workers |-> ContactQueue!NoClaim]
      /\ app = [a \in Apps |-> "none"] /\ plan = [p \in Plans |-> NoPlan]
      /\ bench = [p \in Plans |-> {}] /\ days = 0
  BY DEF ContactInit, ContactQueue!Init
<1>2. ContactQueue!NoClaim \in [job : Plans \cup {NoJob}, token : Tokens \cup {NoToken}]
  BY DEF ContactQueue!NoClaim
<1>3. NoPlan \in PlanRow /\ NoPlan.status = "absent"
  BY ContactAssumption DEF NoPlan, PlanRow
<1>4. days \in 0..MaxDays
  BY <1>1, ContactAssumption
<1>5. SearchTyped
  BY <1>1, <1>2, <1>3, <1>4, SearchWrites DEF SearchTyped
<1>6. \A p \in Plans : Fits(plan[p], bench[p], contactJob[p]) /\ Hosted(p) /\ ~Active(p)
  BY <1>1, <1>3, SearchWrites DEF Fits, OpenPlan, Hosted, Active
<1> QED BY <1>5, <1>6 DEF SearchInv, OneActive

LEMMA SearchesInduct == SearchInv /\ [ContactNext]_contactVars => SearchInv'
<1> SUFFICES ASSUME SearchInv, [ContactNext]_contactVars PROVE SearchInv'
  OBVIOUS
<1>1. CASE UNCHANGED contactVars
  <2>1. UNCHANGED <<contactJob, contactClaim, plan, bench, app, days>>
    BY <1>1 DEF contactVars, contactQueue
  <2>2. days \in 0..MaxDays
    BY DEF SearchInv, SearchTyped
  <2> QED BY <2>1, <2>2, SearchSteps, SearchesIdle
<1>2. ASSUME NEW a \in Apps, \/ Pursue(a) \/ Halt(a) \/ Resume(a) \/ UndoRead(a) \/ Undo(a)
                             \/ RefuseUndo(a) \/ \E p \in Plans : CreateSearch(a, p)
      PROVE  SearchInv'
  BY <1>2, SearchCommandsKept
<1>3. ASSUME NEW x \in People, Block(x) PROVE SearchInv'
  BY <1>3, SearchTimeKept
<1>4. ASSUME Day \/ ContactTick PROVE SearchInv'
  BY <1>4, SearchTimeKept
<1>5. ASSUME NEW w \in Workers, PollContacts(w) PROVE SearchInv'
  BY <1>5, SearchPollsKept
<1>6. ASSUME NEW w \in Workers, StartSearch(w) \/ ReturnSearch(w) \/ RenewSearch(w)
      PROVE  SearchInv'
  BY <1>6, SearchWorkersKept
<1>7. ASSUME NEW old \in SUBSET Plans, Drain(old) PROVE SearchInv'
  BY <1>7, SearchPollsKept
<1> QED BY <1>1, <1>2, <1>3, <1>4, <1>5, <1>6, <1>7 DEF ContactNext

\* Whichever of request, worker, poll, drain and undo comes between which, for any number
\* of applications, plans and workers and any limits: plan and job are at the same point,
\* no plan outlives its application, only a completed search has a bench, and an
\* application has one active search.
THEOREM OneSearchOneStory == ContactSpec => []ContactPlansAgree
<1>1. SearchInv => ContactPlansAgree
  <2> SUFFICES ASSUME SearchInv PROVE ContactPlansAgree
    OBVIOUS
  <2>1. ASSUME NEW p \in Plans PROVE PlanAgrees(p)
    <3>1. Fits(plan[p], bench[p], contactJob[p]) /\ Hosted(p)
      BY DEF SearchInv
    <3>2. plan[p].status \in TerminalPlan => contactJob[p].status = EndOf[plan[p].status]
      BY <3>1 DEF Fits, TerminalPlan, EndOf
    <3> QED BY <3>1, <3>2 DEF Fits, Hosted, PlanAgrees, Active, OpenPlan
  <2> QED BY <2>1 DEF SearchInv, OneActive, ContactPlansAgree
<1> QED BY <1>1, SearchesInduct, SearchStarts, PTL DEF ContactSpec

\* A step of one plan that has not ended.
LEMMA PlanEnds ==
  ASSUME SearchInv, NEW p \in Plans, NEW pl, NEW b, plan[p].status \notin TerminalPlan,
         plan' = [plan EXCEPT ![p] = pl], bench' = [bench EXCEPT ![p] = b],
         b # bench[p] => \A x \in b : person[x] # "do_not_contact"
  PROVE  \A q \in Plans : PlanKeepsItsEnd(q)
<1>1. \A q \in Plans : /\ plan'[q] = IF q = p THEN pl ELSE plan[q]
                       /\ bench'[q] = IF q = p THEN b ELSE bench[q]
  BY DEF SearchInv, SearchTyped
<1> QED BY <1>1 DEF PlanKeepsItsEnd

LEMMA OwnerStepsEnd ==
  ASSUME SearchInv, NEW a \in Apps
  PROVE  /\ Pursue(a) \/ Halt(a) \/ Resume(a) \/ UndoRead(a) \/ Undo(a) \/ RefuseUndo(a) =>
              \A q \in Plans : PlanKeepsItsEnd(q)
         /\ \A p \in Plans : CreateSearch(a, p) => \A q \in Plans : PlanKeepsItsEnd(q)
<1>1. ASSUME Pursue(a) \/ Halt(a) \/ Resume(a) \/ UndoRead(a) \/ RefuseUndo(a)
      PROVE  \A q \in Plans : PlanKeepsItsEnd(q)
  <2>1. UNCHANGED <<plan, bench>>
    BY <1>1 DEF Pursue, Halt, Resume, UndoRead, RefuseUndo
  <2> QED BY <2>1 DEF PlanKeepsItsEnd
<1>2. ASSUME Undo(a), NEW q \in Plans PROVE PlanKeepsItsEnd(q)
  <2>1. plan'[q] \in {NoPlan, plan[q]} /\ bench'[q] \in {{}, bench[q]}
    BY <1>2 DEF Undo
  <2> QED BY <2>1 DEF PlanKeepsItsEnd
<1>3. ASSUME NEW p \in Plans, CreateSearch(a, p) PROVE \A q \in Plans : PlanKeepsItsEnd(q)
  <2> DEFINE new == [status |-> "queued", of |-> a, day |-> days]
             b == bench[p]
  <2>1. plan' = [plan EXCEPT ![p] = new] /\ bench' = bench /\ contactJob[p].status = "absent"
    BY <1>3 DEF CreateSearch, ContactQueue!Enqueue
  <2>2. plan[p].status \notin TerminalPlan
    BY <2>1, SearchSteps DEF Fits, TerminalPlan
  <2>3. bench' = [bench EXCEPT ![p] = b] /\ b = bench[p]
    BY <2>1, SearchSteps
  <2> HIDE DEF new, b
  <2> QED BY <2>1, <2>2, <2>3, PlanEnds
<1> QED BY <1>1, <1>2, <1>3

\* A poll ends only open plans.
LEMMA ReconciledEnd ==
  ASSUME ReconcilePlans, bench' = bench
  PROVE  \A q \in Plans : PlanKeepsItsEnd(q)
<1>1. ASSUME NEW q \in Plans, plan[q].status \in TerminalPlan PROVE plan'[q] = plan[q]
  BY <1>1 DEF ReconcilePlans, EndedWith, Active, TerminalPlan
<1> QED BY <1>1 DEF PlanKeepsItsEnd

LEMMA SearchersEnd ==
  ASSUME SearchInv, NEW w \in Workers, StartSearch(w) \/ ReturnSearch(w) \/ RenewSearch(w)
  PROVE  \A q \in Plans : PlanKeepsItsEnd(q)
<1> DEFINE p == PlanOf(w)
           b == bench[p]
<1>1. ContactQueue!HoldsLease(w, 0) =>
        p \in Plans /\ plan[p].status \notin TerminalPlan /\ [bench EXCEPT ![p] = b] = bench
  BY SearchSteps DEF Fits, OpenPlan, TerminalPlan
<1> HIDE DEF p, b
<1>2. ASSUME RenewSearch(w) \/ GiveUpSearch(w) PROVE \A q \in Plans : PlanKeepsItsEnd(q)
  <2>1. UNCHANGED <<plan, bench>>
    BY <1>2 DEF RenewSearch, GiveUpSearch
  <2> QED BY <2>1 DEF PlanKeepsItsEnd
<1>3. ASSUME StartSearch(w) \/ Stop(w) \/ FailSearch(w)
      PROVE  \A q \in Plans : PlanKeepsItsEnd(q)
  <2>1. ContactQueue!HoldsLease(w, 0) /\ bench' = bench
    BY <1>3 DEF StartSearch, Stop, CancelPlan, FailSearch, ContactQueue!FailAttempt
  <2>2. PICK pl : plan' = [plan EXCEPT ![p] = pl]
    BY <1>3 DEF StartSearch, Stop, CancelPlan, FailSearch, p
  <2>3. bench' = [bench EXCEPT ![p] = b] /\ b = bench[p]
    BY <1>1, <2>1 DEF b
  <2> QED BY <1>1, <2>1, <2>2, <2>3, PlanEnds
<1>4. ASSUME NEW found \in SUBSET People, Publish(w, found)
      PROVE  \A q \in Plans : PlanKeepsItsEnd(q)
  <2>1. ContactQueue!HoldsLease(w, 0)
    BY <1>4 DEF Publish
  <2>2. PICK pl : plan' = [plan EXCEPT ![p] = pl]
    BY <1>4 DEF Publish, p
  <2>3. PICK c \in SUBSET Contactable(found) : bench' = [bench EXCEPT ![p] = c]
    BY <1>4 DEF Publish, Benches, p
  <2>4. \A x \in c : person[x] # "do_not_contact"
    BY <2>3 DEF Contactable
  <2> QED BY <1>1, <2>1, <2>2, <2>3, <2>4, PlanEnds
<1> QED BY <1>2, <1>3, <1>4 DEF ReturnSearch

\* A search keeps its ending, whichever worker, poll or request comes after it, until the
\* pursuit is undone, and whoever asked not to be contacted before a publication is not on
\* its bench.
THEOREM EndsAreKept == ContactSpec => SearchesKeepTheirEnd
<1>1. SearchInv /\ [ContactNext]_contactVars => [\A q \in Plans : PlanKeepsItsEnd(q)]_contactVars
  <2> SUFFICES ASSUME SearchInv, ContactNext PROVE \A q \in Plans : PlanKeepsItsEnd(q)
    OBVIOUS
  <2>1. ASSUME NEW a \in Apps, \/ Pursue(a) \/ Halt(a) \/ Resume(a) \/ UndoRead(a) \/ Undo(a)
                               \/ RefuseUndo(a) \/ \E p \in Plans : CreateSearch(a, p)
        PROVE  \A q \in Plans : PlanKeepsItsEnd(q)
    BY <2>1, OwnerStepsEnd
  <2>2. ASSUME \/ Day \/ ContactTick \/ \E x \in People : Block(x)
        PROVE  \A q \in Plans : PlanKeepsItsEnd(q)
    <3>1. UNCHANGED <<plan, bench>>
      BY <2>2 DEF Day, ContactTick, Block
    <3> QED BY <3>1 DEF PlanKeepsItsEnd
  <2>3. ASSUME \/ \E w \in Workers : PollContacts(w)
               \/ \E old \in SUBSET Plans : Drain(old)
        PROVE  \A q \in Plans : PlanKeepsItsEnd(q)
    <3>1. ReconcilePlans /\ bench' = bench
      BY <2>3 DEF PollContacts, Drain
    <3> QED BY <3>1, ReconciledEnd
  <2>4. ASSUME NEW w \in Workers, StartSearch(w) \/ ReturnSearch(w) \/ RenewSearch(w)
        PROVE  \A q \in Plans : PlanKeepsItsEnd(q)
    BY <2>4, SearchersEnd
  <2> QED BY <2>1, <2>2, <2>3, <2>4 DEF ContactNext
<1> QED BY <1>1, SearchesInduct, SearchStarts, PTL DEF ContactSpec, SearchesKeepTheirEnd

(***************************************************************************)
(* Scans.                                                                  *)
(***************************************************************************)
All == Cardinality(Sources)

\* Accounted, of a scan and its sources.
Tallied(sc, rows) ==
  /\ AllClosed(rows)
  /\ sc.total = All /\ sc.closed = All
  /\ sc.ok = Count(rows, {"succeeded"})
  /\ sc.bad = Count(rows, {"failed", "cancelled"})

\* What VerdictAgrees and RowsLegal say of a scan, its sources, its job and whether it
\* moved last_scan_at; and that a scan whose job is not over has no verdict, knows how many
\* sources it has and has counted none of them, which is what keeps the counts of a later
\* failure within the CHECK constraints.  No scan succeeds, its best verdict is "partial", and
\* nothing is fetched before it is requested.
SoundScan(sc, rows, row, moved) ==
  /\ ScanLegal(sc) /\ \A x \in Sources : SourceLegal(rows[x])
  /\ row.status \in {"queued", "running"} =>
       sc.status \in {"queued", "running"} /\ sc.total = All /\ sc.ok = 0
  /\ row.status = "succeeded" => Tallied(sc, rows) /\ sc.status \in {"partial", "failed"}
  /\ sc.status = "partial" => row.status = "succeeded" /\ sc.ok > 0
  /\ sc.status = "failed" => row.status \in {"succeeded", "dead_letter"}
  /\ sc.status = "cancelled" => row.status = "cancelled"
  /\ moved <=> sc.status = "partial"
  /\ sc.status # "succeeded"
  /\ row.status = "absent" => \A x \in Sources : rows[x].status # "succeeded"

ScanTyped ==
  /\ scanJob \in [Scans -> LeaseRow]
  /\ scanClaim \in [Workers -> [job : Scans \cup {NoJob}, token : Tokens \cup {NoToken}]]
  /\ scan \in [Scans -> ScanRow]
  /\ source \in [Scans -> [Sources -> SourceRow]]

ScanInv ==
  /\ ScanTyped
  /\ \A s \in Scans : SoundScan(scan[s], source[s], scanJob[s], s \in scanned)

\* What the queue of the scans writes.
LEMMA ScanWrites ==
  /\ ScanQueue!NoRow \in LeaseRow /\ ScanQueue!NoRow.status = "absent" /\ ~ScanQueue!NoRow.cancel
  /\ LET fresh == ScanQueue!NewRow(0, 0)
     IN  fresh \in LeaseRow /\ fresh.status = "queued" /\ ~fresh.cancel /\ fresh.attempts = 0
  /\ \A row \in LeaseRow :
       /\ ScanQueue!CancelledRow(row) = Doomed(row)
       /\ ScanQueue!CompletedRow(row) = Done(row)
       /\ ScanQueue!RecoveredRow(row, 0) = Lost(row, ScanAttempts)
       /\ ScanQueue!RequeuedRow(row, 0) = Anew(row)
       /\ ScanQueue!StagedRow(row) = [row EXCEPT !.stage = "working"]
       /\ ScanQueue!RenewedRow(row, 0) = [row EXCEPT !.lease = LeaseTime]
       /\ \A terminal \in BOOLEAN :
            ScanQueue!FailedRow(row, terminal, 0, 0) = Failed(row, terminal, ScanAttempts)
       /\ \A w \in Workers, t \in Tokens : ScanQueue!ClaimedRow(row, w, t, 0) = Leased(row, w, t)
<1>1. ScanQueue!NoRow \in LeaseRow /\ ScanQueue!NoRow.status = "absent"
      /\ ~ScanQueue!NoRow.cancel
  BY DEF ScanQueue!NoRow, LeaseRow, JobStages, JobEnds
<1>10. LET fresh == ScanQueue!NewRow(0, 0)
       IN  fresh \in LeaseRow /\ fresh.status = "queued" /\ ~fresh.cancel /\ fresh.attempts = 0
  <2> DEFINE blank == ScanQueue!NoRow
             now == 0 + 0
  <2>1. ScanQueue!NewRow(0, 0) = [blank EXCEPT !.status = "queued", !.wait = now]
    BY DEF ScanQueue!NewRow
  <2>2. now \in Int /\ "queued" \in {"absent", "queued", "running"} \cup JobEnds
    OBVIOUS
  <2>3. blank \in LeaseRow /\ ~blank.cancel /\ blank.attempts = 0
    BY <1>1 DEF ScanQueue!NoRow
  <2> HIDE DEF now, blank
  <2> QED BY <2>1, <2>2, <2>3 DEF LeaseRow
<1>11. ASSUME NEW row \in LeaseRow, NEW terminal \in BOOLEAN
       PROVE  ScanQueue!FailedRow(row, terminal, 0, 0) = Failed(row, terminal, ScanAttempts)
  <2>1. 0 + 0 = 0
    OBVIOUS
  <2> QED BY <2>1, Zenon
      DEF ScanQueue!FailedRow, Failed, ScanQueue!Unleased, ScanQueue!Stamped, ScanQueue!Ended,
          ScanQueue!FinalCancel, ScanQueue!DeadLettered, ScanQueue!Retried,
          Released, Stamp, End, Again
<1>12. ASSUME NEW row \in LeaseRow, NEW w \in Workers, NEW t \in Tokens
       PROVE  ScanQueue!ClaimedRow(row, w, t, 0) = Leased(row, w, t)
  <2>1. LeaseTime + 0 = LeaseTime
    BY PoolAssumption
  <2> QED BY <2>1, Zenon DEF ScanQueue!ClaimedRow, Leased
<1>13. ASSUME NEW row \in LeaseRow
       PROVE  ScanQueue!RenewedRow(row, 0) = [row EXCEPT !.lease = LeaseTime]
  <2>1. LeaseTime + 0 = LeaseTime
    BY PoolAssumption
  <2> QED BY <2>1, Zenon DEF ScanQueue!RenewedRow
<1>14. ASSUME NEW row \in LeaseRow
       PROVE  /\ ScanQueue!CancelledRow(row) = Doomed(row)
              /\ ScanQueue!CompletedRow(row) = Done(row)
              /\ ScanQueue!RecoveredRow(row, 0) = Lost(row, ScanAttempts)
              /\ ScanQueue!RequeuedRow(row, 0) = Anew(row)
              /\ ScanQueue!StagedRow(row) = [row EXCEPT !.stage = "working"]
  BY DEF ScanQueue!CancelledRow, Doomed, ScanQueue!CompletedRow, Done, ScanQueue!RecoveredRow,
         Lost, ScanQueue!RequeuedRow, Anew, ScanQueue!StagedRow, ScanQueue!Unleased,
         ScanQueue!Stamped, ScanQueue!Ended, ScanQueue!FinalCancel, ScanQueue!Succeeded,
         ScanQueue!DeadLettered, ScanQueue!Retried, Released, Stamp, End, Again
<1>15. \A row \in LeaseRow :
         /\ ScanQueue!RenewedRow(row, 0) = [row EXCEPT !.lease = LeaseTime]
         /\ \A terminal \in BOOLEAN :
              ScanQueue!FailedRow(row, terminal, 0, 0) = Failed(row, terminal, ScanAttempts)
         /\ \A w \in Workers, t \in Tokens :
              ScanQueue!ClaimedRow(row, w, t, 0) = Leased(row, w, t)
  <2>1. \A row \in LeaseRow, terminal \in BOOLEAN :
          ScanQueue!FailedRow(row, terminal, 0, 0) = Failed(row, terminal, ScanAttempts)
    BY <1>11, Zenon
  <2>2. \A row \in LeaseRow, w \in Workers, t \in Tokens :
          ScanQueue!ClaimedRow(row, w, t, 0) = Leased(row, w, t)
    BY <1>12, Zenon
  <2> QED BY <1>13, <2>1, <2>2, Zenon
<1> QED BY <1>1, <1>10, <1>14, <1>15, Zenon

\* Counting the sources.
LEMMA SourceCounts ==
  /\ All \in Nat
  /\ \A open \in SUBSET Sources : Cardinality(open) \in 0..All
  /\ \A rows \in [Sources -> SourceRow] :
       /\ Count(rows, {"succeeded"}) \in 0..All /\ Count(rows, {"failed", "cancelled"}) \in 0..All
       /\ Count(rows, {"succeeded"}) + Count(rows, {"failed", "cancelled"}) <= All
       /\ AllClosed(rows) =>
            Count(rows, {"succeeded"}) + Count(rows, {"failed", "cancelled"}) = All
<1>1. All \in Nat /\ IsFiniteSet(Sources)
  BY ScanAssumption, FS_CardinalityType DEF All
<1>2. ASSUME NEW open \in SUBSET Sources
      PROVE  IsFiniteSet(open) /\ Cardinality(open) \in Nat /\ Cardinality(open) <= All
  <2>1. IsFiniteSet(open) /\ Cardinality(open) <= Cardinality(Sources)
    BY <1>1, FS_Subset
  <2> QED BY <1>1, <2>1, FS_CardinalityType DEF All
<1>3. ASSUME NEW rows \in [Sources -> SourceRow]
      PROVE  /\ Count(rows, {"succeeded"}) \in 0..All /\ Count(rows, {"failed", "cancelled"}) \in 0..All
             /\ Count(rows, {"succeeded"}) + Count(rows, {"failed", "cancelled"}) <= All
             /\ AllClosed(rows) =>
                  Count(rows, {"succeeded"}) + Count(rows, {"failed", "cancelled"}) = All
  <2> DEFINE good == {x \in Sources : rows[x].status \in {"succeeded"}}
             bad == {x \in Sources : rows[x].status \in {"failed", "cancelled"}}
             both == good \cup bad
  <2>1. good \in SUBSET Sources /\ bad \in SUBSET Sources /\ both \in SUBSET Sources
        /\ good \cap bad = {}
    OBVIOUS
  <2>2. Count(rows, {"succeeded"}) = Cardinality(good)
        /\ Count(rows, {"failed", "cancelled"}) = Cardinality(bad)
    BY DEF Count
  <2>3. AllClosed(rows) => both = Sources
    BY DEF AllClosed, Closed
  <2> HIDE DEF good, bad
  <2>4. Cardinality(both) = Cardinality(good) + Cardinality(bad) - Cardinality(good \cap bad)
    BY <1>2, <2>1, FS_Union
  <2>5. Cardinality(good \cap bad) = 0
    BY <2>1, FS_EmptySet
  <2>6. /\ Cardinality(good) \in Nat /\ Cardinality(good) <= All
        /\ Cardinality(bad) \in Nat /\ Cardinality(bad) <= All
        /\ Cardinality(both) <= All /\ (both = Sources => Cardinality(both) = All)
    BY <1>2, <2>1 DEF All
  <2> HIDE DEF both
  <2> QED BY <1>1, <2>2, <2>3, <2>4, <2>5, <2>6
<1> QED BY <1>1, <1>2, <1>3

\* Source rows as the transitions write them.
LEMMA SourcesWritten ==
  /\ PendingSource \in SourceRow /\ SourceLegal(PendingSource)
  /\ RunningSource \in SourceRow /\ SourceLegal(RunningSource)
  /\ \A status \in Closed, started \in BOOLEAN :
       /\ ClosedSource(status, started) \in SourceRow
       /\ ClosedSource(status, started).status = status
       /\ started \/ status = "cancelled" => SourceLegal(ClosedSource(status, started))
  /\ \A x \in SourceRow, status \in {"cancelled", "failed"} : SourceLegal(x) =>
       LET after == Interrupted(x, status)
       IN  after \in SourceRow /\ SourceLegal(after) /\ after.status \in Closed
<1>1. PendingSource \in SourceRow /\ SourceLegal(PendingSource)
  BY DEF PendingSource, NoSource, SourceRow, SourceStatuses, SourceLegal
<1>2. RunningSource \in SourceRow /\ SourceLegal(RunningSource)
  <2> DEFINE on == TRUE
             off == FALSE
             blank == [status |-> "absent", started |-> off, completed |-> off, code |-> off]
  <2>1. on \in BOOLEAN /\ on /\ off \in BOOLEAN /\ ~off /\ "running" \in SourceStatuses
        /\ "absent" \in SourceStatuses
    BY DEF SourceStatuses
  <2>2. RunningSource = [blank EXCEPT !.status = "running", !.started = on]
    BY DEF RunningSource, NoSource
  <2> HIDE DEF on, off
  <2>3. /\ RunningSource \in SourceRow /\ RunningSource.status = "running"
        /\ (RunningSource.started <=> on) /\ (RunningSource.completed <=> off)
        /\ (RunningSource.code <=> off)
    BY <2>1, <2>2 DEF SourceRow
  <2> QED BY <2>1, <2>3 DEF SourceLegal
<1>3. ASSUME NEW status \in Closed, NEW started \in BOOLEAN
      PROVE  LET x == ClosedSource(status, started)
             IN  /\ x \in SourceRow /\ x.status = status
                 /\ started \/ status = "cancelled" => SourceLegal(x)
  <2> DEFINE code == status = "failed"
             on == TRUE
  <2>1. ClosedSource(status, started) =
          [status |-> status, started |-> started, completed |-> on, code |-> code]
    BY DEF ClosedSource
  <2>2. on \in BOOLEAN /\ on /\ code \in BOOLEAN /\ (code <=> status = "failed")
        /\ status \in SourceStatuses /\ status \notin {"pending", "running"}
    BY DEF SourceStatuses, Closed
  <2> HIDE DEF on, code
  <2> QED BY <2>1, <2>2 DEF SourceRow, SourceLegal
<1>4. ASSUME NEW x \in SourceRow, NEW status \in {"cancelled", "failed"}, SourceLegal(x)
      PROVE  LET after == Interrupted(x, status)
             IN  after \in SourceRow /\ SourceLegal(after) /\ after.status \in Closed
  <2> DEFINE begun == x.started \/ status = "failed"
  <2>1. begun \in BOOLEAN /\ status \in Closed /\ (begun \/ status = "cancelled")
    BY DEF SourceRow, Closed
  <2>2. Interrupted(x, status) = IF x.status \in Closed THEN x ELSE ClosedSource(status, begun)
    BY DEF Interrupted
  <2> HIDE DEF begun
  <2> QED BY <1>3, <1>4, <2>1, <2>2
<1> QED BY <1>1, <1>2, <1>3, <1>4

\* A scan finalized over sources that are all closed.
LEMMA ScansFinalized ==
  ASSUME NEW sc \in ScanRow, NEW rows \in [Sources -> SourceRow], AllClosed(rows),
         NEW status \in {"cancelled", "failed", "partial"}
  PROVE  LET after == Finalized(Counted(sc, rows), status)
         IN  /\ after \in ScanRow /\ ScanLegal(after) /\ after.status = status
             /\ Tallied(after, rows)
<1> DEFINE ok == Count(rows, {"succeeded"})
           bad == Count(rows, {"failed", "cancelled"})
           n == Cardinality(Sources)
           on == TRUE
           counted == [sc EXCEPT !.total = n, !.closed = n, !.ok = ok, !.bad = bad]
<1>1. /\ n = All /\ ok \in 0..n /\ bad \in 0..n /\ ok + bad <= n /\ n \in Nat /\ n \in 0..n
      /\ on \in BOOLEAN /\ on
  BY SourceCounts DEF All
<1>2. counted = Counted(sc, rows)
  BY DEF Counted
<1>3. status \in ScanStatuses /\ status \in TerminalScan
  BY DEF ScanStatuses, TerminalScan
<1>4. Finalized(counted, status) = [counted EXCEPT !.status = status, !.started = on, !.final = on]
  BY DEF Finalized
<1> HIDE DEF ok, bad, n, on
<1>5. /\ counted \in ScanRow /\ counted.total = n /\ counted.closed = n /\ counted.ok = ok
      /\ counted.bad = bad
  <2>1. ScanRow = [status : ScanStatuses, started : BOOLEAN, final : BOOLEAN,
                   total : 0..n, closed : 0..n, ok : 0..n, bad : 0..n]
    BY DEF ScanRow, n
  <2> QED BY <1>1, <2>1
<1> HIDE DEF counted
<1>6. LET after == Finalized(counted, status)
      IN  /\ after \in ScanRow /\ after.status = status /\ after.total = n /\ after.closed = n
          /\ after.ok = ok /\ after.bad = bad /\ (after.started <=> on) /\ (after.final <=> on)
  BY <1>1, <1>3, <1>4, <1>5 DEF ScanRow
<1>7. ScanLegal(Finalized(counted, status))
  BY <1>1, <1>3, <1>6 DEF ScanLegal
<1> QED BY <1>1, <1>2, <1>6, <1>7 DEF Tallied, ok, bad

\* A row that moves on without success leaves its scan sound: the verdict is still to come.
LEMMA SoundOn ==
  ASSUME NEW sc, NEW rows, NEW row, NEW after, NEW moved, SoundScan(sc, rows, row, moved),
         \/ after.status = row.status
         \/ /\ row.status \in {"queued", "running"}
            /\ after.status \in {"queued", "running", "cancelled", "dead_letter"}
  PROVE  SoundScan(sc, rows, after, moved)
BY DEF SoundScan

\* The reconciliation of the poll leaves a sound scan sound.
LEMMA SoundReconciled ==
  ASSUME NEW sc \in ScanRow, NEW rows \in [Sources -> SourceRow], NEW row, NEW moved,
         SoundScan(sc, rows, row, moved), Diverged(row, sc)
  PROVE  LET closed == [x \in Sources |-> Interrupted(rows[x], Target(row))]
             after == Finalized(Counted(sc, closed), Target(row))
         IN  /\ closed \in [Sources -> SourceRow] /\ after \in ScanRow
             /\ SoundScan(after, closed, row, moved)
<1> DEFINE target == Target(row)
           closed == [x \in Sources |-> Interrupted(rows[x], target)]
           after == Finalized(Counted(sc, closed), target)
<1>1. /\ row.status \in {"cancelled", "dead_letter"} /\ sc.status # "partial"
      /\ target = IF row.status = "cancelled" THEN "cancelled" ELSE "failed"
  BY DEF Diverged, Target
<1> HIDE DEF target
<1>2. target \in {"cancelled", "failed"}
  BY <1>1
<1>3. ASSUME NEW x \in Sources
      PROVE  closed[x] \in SourceRow /\ SourceLegal(closed[x]) /\ closed[x].status \in Closed
  BY <1>2, SourcesWritten DEF SoundScan
<1>4. closed \in [Sources -> SourceRow] /\ AllClosed(closed)
  BY <1>3 DEF AllClosed
<1> HIDE DEF closed
<1>5. after \in ScanRow /\ ScanLegal(after) /\ after.status = target
  BY <1>2, <1>4, ScansFinalized
<1> HIDE DEF after
<1>6. SoundScan(after, closed, row, moved)
  BY <1>1, <1>3, <1>5 DEF SoundScan
<1> QED BY <1>4, <1>5, <1>6 DEF closed, after, target

\* A step of one scan.
LEMMA OneScan ==
  ASSUME ScanInv, NEW s \in Scans, NEW row \in LeaseRow, NEW sc \in ScanRow,
         NEW rows \in [Sources -> SourceRow], SoundScan(sc, rows, row, s \in scanned'),
         scanJob' = [scanJob EXCEPT ![s] = row], scan' = [scan EXCEPT ![s] = sc],
         source' = [source EXCEPT ![s] = rows],
         \A q \in Scans : q # s => (q \in scanned' <=> q \in scanned),
         scanClaim' \in [Workers -> [job : Scans \cup {NoJob}, token : Tokens \cup {NoToken}]]
  PROVE  ScanInv'
<1>1. ScanTyped'
  BY DEF ScanInv, ScanTyped
<1>2. \A q \in Scans : /\ scanJob'[q] = IF q = s THEN row ELSE scanJob[q]
                       /\ scan'[q] = IF q = s THEN sc ELSE scan[q]
                       /\ source'[q] = IF q = s THEN rows ELSE source[q]
  BY DEF ScanInv, ScanTyped
<1>3. ASSUME NEW q \in Scans PROVE SoundScan(scan'[q], source'[q], scanJob'[q], q \in scanned')
  <2>1. CASE q = s
    BY <1>2, <2>1
  <2>2. CASE q # s
    <3>1. scan'[q] = scan[q] /\ source'[q] = source[q] /\ scanJob'[q] = scanJob[q]
          /\ SoundScan(scan[q], source[q], scanJob[q], q \in scanned)
      BY <1>2, <2>2 DEF ScanInv
    <3> QED BY <2>2, <3>1 DEF SoundScan
  <2> QED BY <2>1, <2>2
<1> QED BY <1>1, <1>3 DEF ScanInv

\* Nothing of the scans, their sources and their jobs changes.
LEMMA ScansIdle ==
  ASSUME ScanInv, UNCHANGED <<scanJob, scan, source, scanned>>,
         scanClaim' \in [Workers -> [job : Scans \cup {NoJob}, token : Tokens \cup {NoToken}]]
  PROVE  ScanInv'
BY DEF ScanInv, ScanTyped

LEMMA ScanSteps ==
  ASSUME ScanInv
  PROVE  /\ ScanQueue!NoClaim \in [job : Scans \cup {NoJob}, token : Tokens \cup {NoToken}]
         /\ scanClaim \in [Workers -> [job : Scans \cup {NoJob}, token : Tokens \cup {NoToken}]]
         /\ \A w \in Workers : MayWrite(w) =>
              ScanOf(w) \in Scans /\ scanJob[ScanOf(w)].status = "running"
         /\ \A s \in Scans :
              /\ scanJob[s] \in LeaseRow /\ scan[s] \in ScanRow
              /\ source[s] \in [Sources -> SourceRow]
              /\ SoundScan(scan[s], source[s], scanJob[s], s \in scanned)
         /\ \A s \in Scans : /\ [scan EXCEPT ![s] = scan[s]] = scan
                             /\ [source EXCEPT ![s] = source[s]] = source
                             /\ [scanJob EXCEPT ![s] = scanJob[s]] = scanJob
<1>1. ScanQueue!NoClaim \in [job : Scans \cup {NoJob}, token : Tokens \cup {NoToken}]
  BY DEF ScanQueue!NoClaim
<1>2. \A s \in Scans :
        /\ scanJob[s] \in LeaseRow /\ scan[s] \in ScanRow /\ source[s] \in [Sources -> SourceRow]
        /\ SoundScan(scan[s], source[s], scanJob[s], s \in scanned)
  BY DEF ScanInv, ScanTyped
<1>3. /\ scanClaim \in [Workers -> [job : Scans \cup {NoJob}, token : Tokens \cup {NoToken}]]
      /\ \A s \in Scans : /\ [scan EXCEPT ![s] = scan[s]] = scan
                          /\ [source EXCEPT ![s] = source[s]] = source
                          /\ [scanJob EXCEPT ![s] = scanJob[s]] = scanJob
  BY DEF ScanInv, ScanTyped
<1>4. \A w \in Workers : MayWrite(w) => ScanOf(w) \in Scans /\ scanJob[ScanOf(w)].status = "running"
  BY ScanAssumption, <1>3
     DEF MayWrite, ScanQueue!HoldsLease, ScanQueue!Working, ScanQueue!Owned, ScanOf
<1> QED BY <1>1, <1>2, <1>3, <1>4

\* The poll makes scans agree with rows that moved on without success.
LEMMA AllReconciled ==
  ASSUME ScanInv, scanJob' \in [Scans -> LeaseRow], ReconcileScans, scanned' = scanned,
         scanClaim' \in [Workers -> [job : Scans \cup {NoJob}, token : Tokens \cup {NoToken}]],
         \A s \in Scans : SoundScan(scan[s], source[s], scanJob'[s], s \in scanned)
  PROVE  ScanInv'
<1>1. ASSUME NEW s \in Scans
      PROVE  /\ scan'[s] \in ScanRow /\ source'[s] \in [Sources -> SourceRow]
             /\ SoundScan(scan'[s], source'[s], scanJob'[s], s \in scanned')
  <2> DEFINE sc == scan[s]
             rows == source[s]
             row == scanJob'[s]
             moved == s \in scanned
             closed == [x \in Sources |-> Interrupted(rows[x], Target(row))]
             after == Finalized(Counted(sc, closed), Target(row))
  <2>1. source'[s] = IF Diverged(row, sc) THEN closed ELSE rows
    BY DEF ReconcileScans, ReconciledSources
  <2>2. scan'[s] = IF Diverged(row, sc) THEN Finalized(Counted(sc, source'[s]), Target(row)) ELSE sc
    BY DEF ReconcileScans
  <2>3. sc \in ScanRow /\ rows \in [Sources -> SourceRow] /\ SoundScan(sc, rows, row, moved)
    BY ScanSteps
  <2>4. (s \in scanned') = moved
    OBVIOUS
  <2> HIDE DEF sc, rows, row, moved
  <2>5. Diverged(row, sc) =>
          /\ closed \in [Sources -> SourceRow] /\ after \in ScanRow
          /\ SoundScan(after, closed, row, moved)
    BY <2>3, SoundReconciled
  <2>6. Diverged(row, sc) => source'[s] = closed /\ scan'[s] = after
    BY <2>1, <2>2
  <2> HIDE DEF closed, after
  <2>7. CASE Diverged(row, sc)
    BY <2>4, <2>5, <2>6, <2>7 DEF row
  <2>8. CASE ~Diverged(row, sc)
    BY <2>1, <2>2, <2>3, <2>4, <2>8 DEF row
  <2> QED BY <2>7, <2>8
<1>2. scan' = [s \in Scans |-> scan'[s]] /\ source' = [s \in Scans |-> source'[s]]
  BY DEF ReconcileScans
<1>3. ScanTyped'
  BY <1>1, <1>2 DEF ScanTyped
<1> QED BY <1>1, <1>3 DEF ScanInv

\* What a poll makes of the jobs leaves their scans sound.
LEMMA PolledJobs ==
  ASSUME ScanInv, NEW w \in Workers, PollScan(w)
  PROVE  /\ scanJob' \in [Scans -> LeaseRow]
         /\ scanClaim' \in [Workers -> [job : Scans \cup {NoJob}, token : Tokens \cup {NoToken}]]
         /\ \A q \in Scans : SoundScan(scan[q], source[q], scanJob'[q], q \in scanned)
<1> DEFINE rows == ScanQueue!Recovered({}, 0)
<1>1. ASSUME NEW s \in Scans
      PROVE  rows[s] \in LeaseRow /\ SoundScan(scan[s], source[s], rows[s], s \in scanned)
  <2> DEFINE row == scanJob[s]
             lost == Lost(row, ScanAttempts)
  <2>1. row \in LeaseRow /\ SoundScan(scan[s], source[s], row, s \in scanned) /\ ScanAttempts \in Nat
    BY ScanSteps, ScanAssumption
  <2>2. rows[s] = IF ScanQueue!Stale(row, 0) THEN lost ELSE row
    BY <2>1, ScanWrites DEF ScanQueue!Recovered
  <2>3. lost \in LeaseRow /\ lost.status \in {"queued", "cancelled", "dead_letter"}
    BY <2>1, RowsLost
  <2>4. ScanQueue!Stale(row, 0) => row.status = "running"
    BY DEF ScanQueue!Stale
  <2> HIDE DEF row, lost, rows
  <2>5. row.status = "running" => SoundScan(scan[s], source[s], lost, s \in scanned)
    BY <2>1, <2>3, SoundOn
  <2> QED BY <2>1, <2>2, <2>3, <2>4, <2>5
<1>2. rows \in [Scans -> LeaseRow]
  <2>1. rows = [s \in Scans |-> rows[s]]
    BY DEF ScanQueue!Recovered
  <2> QED BY <1>1, <2>1
<1> HIDE DEF rows
<1>3. CASE ScanQueue!PollIdle(w, {}, 0)
  <2>1. scanJob' = rows /\ scanClaim' = scanClaim
    BY <1>3 DEF ScanQueue!PollIdle, rows
  <2>2. scanClaim' \in [Workers -> [job : Scans \cup {NoJob}, token : Tokens \cup {NoToken}]]
    BY <2>1, ScanSteps
  <2> QED BY <1>1, <1>2, <2>1, <2>2
<1>4. CASE ScanQueue!PollClaim(w, {}, 0)
  <2>1. PICK s \in Scans, t \in Tokens :
          /\ ScanQueue!Claimable(rows[s], 0)
          /\ scanJob' = [rows EXCEPT ![s] = ScanQueue!ClaimedRow(@, w, t, 0)]
          /\ scanClaim' = [scanClaim EXCEPT ![w] = [job |-> s, token |-> t]]
    BY <1>4 DEF ScanQueue!PollClaim, ScanQueue!FirstOf, rows
  <2> DEFINE row == rows[s]
             next == Leased(row, w, t)
  <2>2. row \in LeaseRow /\ row.status = "queued" /\ SoundScan(scan[s], source[s], row, s \in scanned)
    BY <1>1, <2>1 DEF ScanQueue!Claimable
  <2>3. scanJob' = [rows EXCEPT ![s] = next]
    <3>1. ScanQueue!ClaimedRow(row, w, t, 0) = next
      BY <2>2, ScanWrites
    <3> QED BY <2>1, <3>1
  <2> HIDE DEF row
  <2>4. next \in LeaseRow /\ next.status = "running"
    BY <2>2, RowsLeased
  <2> HIDE DEF next
  <2>5. SoundScan(scan[s], source[s], next, s \in scanned)
    BY <2>2, <2>4, SoundOn
  <2>6. /\ scanJob' \in [Scans -> LeaseRow]
        /\ \A q \in Scans : scanJob'[q] = IF q = s THEN next ELSE rows[q]
    BY <1>2, <2>3, <2>4
  <2>7. scanClaim' \in [Workers -> [job : Scans \cup {NoJob}, token : Tokens \cup {NoToken}]]
    BY <2>1, ScanSteps
  <2>8. \A q \in Scans : SoundScan(scan[q], source[q], scanJob'[q], q \in scanned)
    BY <1>1, <2>5, <2>6
  <2> QED BY <2>6, <2>7, <2>8
<1> QED BY <1>3, <1>4 DEF PollScan

LEMMA ScanPollsKept ==
  ASSUME ScanInv, NEW w \in Workers, PollScan(w)
  PROVE  ScanInv'
BY PolledJobs, AllReconciled DEF PollScan

LEMMA ScanCommandsKept ==
  ASSUME ScanInv, NEW s \in Scans
  PROVE  CreateScan(s) \/ CancelScan(s) => ScanInv'
<1>1. scanClaim \in [Workers -> [job : Scans \cup {NoJob}, token : Tokens \cup {NoToken}]]
  BY ScanSteps
<1>2. ASSUME CreateScan(s) PROVE ScanInv'
  <2> DEFINE fresh == ScanQueue!NewRow(0, 0)
             n == Cardinality(Sources)
             none == 0
             blank == [status |-> "absent", started |-> FALSE, final |-> FALSE,
                       total |-> none, closed |-> none, ok |-> none, bad |-> none]
             new == [blank EXCEPT !.status = "queued", !.total = n]
             waiting == [x \in Sources |-> PendingSource]
  <2>1. /\ scanJob[s].status = "absent" /\ scanJob' = [scanJob EXCEPT ![s] = fresh]
        /\ UNCHANGED <<scanClaim, scanned>>
    BY <1>2 DEF CreateScan, ScanQueue!Enqueue
  <2>2. scan' = [scan EXCEPT ![s] = new] /\ source' = [source EXCEPT ![s] = waiting]
    BY <1>2 DEF CreateScan, NoScan
  <2>3. fresh \in LeaseRow /\ fresh.status = "queued"
    BY ScanWrites
  <2>4. /\ n = All /\ n \in Nat /\ n \in 0..n /\ none \in 0..n /\ none = 0
        /\ "absent" \in ScanStatuses /\ "queued" \in ScanStatuses /\ "queued" \notin TerminalScan
    BY SourceCounts DEF All, ScanStatuses, TerminalScan
  <2>5. waiting \in [Sources -> SourceRow] /\ \A x \in Sources : SourceLegal(waiting[x])
    BY SourcesWritten
  <2>6. ScanRow = [status : ScanStatuses, started : BOOLEAN, final : BOOLEAN,
                   total : 0..n, closed : 0..n, ok : 0..n, bad : 0..n]
    BY DEF ScanRow
  <2> HIDE DEF fresh, n, none, waiting
  <2>7. blank \in ScanRow /\ ~blank.final /\ blank.closed = none /\ blank.ok = none
        /\ blank.bad = none
    BY <2>4, <2>6
  <2> HIDE DEF blank
  <2>8. /\ new \in ScanRow /\ new.status = "queued" /\ ~new.final /\ new.total = n
        /\ new.closed = none /\ new.ok = none /\ new.bad = none
    BY <2>4, <2>6, <2>7
  <2> HIDE DEF new
  <2>9. ScanLegal(new)
    BY <2>4, <2>8 DEF ScanLegal
  <2>10. s \notin scanned
    BY <2>1, ScanSteps DEF SoundScan
  <2>11. SoundScan(new, waiting, fresh, s \in scanned')
    BY <2>1, <2>3, <2>4, <2>5, <2>8, <2>9, <2>10 DEF SoundScan
  <2> QED BY <1>1, <2>1, <2>2, <2>3, <2>5, <2>8, <2>11, OneScan
<1>3. ASSUME CancelScan(s) PROVE ScanInv'
  <2> DEFINE row == scanJob[s]
             next == Doomed(row)
  <2>1. UNCHANGED <<scanClaim, scan, source, scanned>>
    BY <1>3 DEF CancelScan, ScanQueue!Cancel
  <2>2. row \in LeaseRow
    BY ScanSteps
  <2>3. scanJob' = [scanJob EXCEPT ![s] = next]
    BY <1>3, <2>2, ScanWrites DEF CancelScan, ScanQueue!Cancel
  <2> HIDE DEF row
  <2>4. next \in LeaseRow
        /\ (next.status = row.status \/ (row.status = "queued" /\ next.status = "cancelled"))
    BY <2>2, RowsDoomed
  <2> HIDE DEF next
  <2>5. SoundScan(scan[s], source[s], row, s \in scanned)
    BY ScanSteps DEF row
  <2>6. SoundScan(scan[s], source[s], next, s \in scanned)
    BY <2>4, <2>5, SoundOn
  <2>7. SoundScan(scan[s], source[s], next, s \in scanned')
    BY <2>1, <2>6 DEF SoundScan
  <2>8. /\ scan' = [scan EXCEPT ![s] = scan[s]] /\ source' = [source EXCEPT ![s] = source[s]]
        /\ scan[s] \in ScanRow /\ source[s] \in [Sources -> SourceRow]
    BY <2>1, ScanSteps
  <2> QED BY <1>1, <2>1, <2>3, <2>4, <2>7, <2>8, OneScan
<1> QED BY <1>2, <1>3

\* What a process holds of the scan whose lease it holds, and what its transitions may
\* make of the job.
LEMMA ScanHeld ==
  ASSUME ScanInv, NEW w \in Workers, MayWrite(w)
  PROVE  LET s == ScanOf(w)
             row == scanJob[s]
         IN  /\ s \in Scans /\ row \in LeaseRow /\ scan[s] \in ScanRow
             /\ source[s] \in [Sources -> SourceRow] /\ row.status = "running"
             /\ SoundScan(scan[s], source[s], row, s \in scanned)
             /\ scan[s].status \in {"queued", "running"}
             /\ scan[s].total = All /\ scan[s].ok = 0 /\ s \notin scanned
             /\ [row EXCEPT !.stage = "working"] \in LeaseRow
             /\ [row EXCEPT !.stage = "working"].status = "running"
             /\ [row EXCEPT !.lease = LeaseTime] \in LeaseRow
             /\ [row EXCEPT !.lease = LeaseTime].status = "running"
             /\ Done(row) \in LeaseRow
             /\ Done(row).status = IF row.cancel THEN "cancelled" ELSE "succeeded"
             /\ \A terminal \in BOOLEAN :
                  /\ Failed(row, terminal, ScanAttempts) \in LeaseRow
                  /\ Failed(row, terminal, ScanAttempts).status
                       \in {"queued", "cancelled", "dead_letter"}
                  /\ row.cancel => Failed(row, terminal, ScanAttempts).status = "cancelled"
                  /\ ~row.cancel /\ terminal =>
                       Failed(row, terminal, ScanAttempts).status = "dead_letter"
<1> DEFINE s == ScanOf(w)
           row == scanJob[s]
<1>1. /\ s \in Scans /\ row \in LeaseRow /\ scan[s] \in ScanRow
      /\ source[s] \in [Sources -> SourceRow] /\ row.status = "running"
      /\ SoundScan(scan[s], source[s], row, s \in scanned)
  BY ScanSteps
<1> HIDE DEF s, row
<1>2. scan[s].status \in {"queued", "running"} /\ scan[s].total = All /\ scan[s].ok = 0
      /\ s \notin scanned
  BY <1>1 DEF SoundScan
<1>3. LeaseTime \in Int /\ ScanAttempts \in Nat /\ "working" \in JobStages
  BY PoolAssumption, ScanAssumption DEF JobStages
<1>4. /\ [row EXCEPT !.stage = "working"] \in LeaseRow
      /\ [row EXCEPT !.stage = "working"].status = "running"
      /\ [row EXCEPT !.lease = LeaseTime] \in LeaseRow
      /\ [row EXCEPT !.lease = LeaseTime].status = "running"
  BY <1>1, <1>3, RowsReleased DEF SameStand
<1>5. Done(row) \in LeaseRow /\ Done(row).status = IF row.cancel THEN "cancelled" ELSE "succeeded"
  BY <1>1, RowsCompleted
<1>6. ASSUME NEW terminal \in BOOLEAN
      PROVE  /\ Failed(row, terminal, ScanAttempts) \in LeaseRow
             /\ Failed(row, terminal, ScanAttempts).status \in {"queued", "cancelled", "dead_letter"}
             /\ row.cancel => Failed(row, terminal, ScanAttempts).status = "cancelled"
             /\ ~row.cancel /\ terminal =>
                  Failed(row, terminal, ScanAttempts).status = "dead_letter"
  BY <1>1, <1>3, RowsFailed
<1> QED BY <1>1, <1>2, <1>4, <1>5, <1>6 DEF s, row

LEMMA ScanStartKept ==
  ASSUME ScanInv, NEW w \in Workers, StartScan(w)
  PROVE  ScanInv'
<1> DEFINE s == ScanOf(w)
           row == scanJob[s]
           sc == scan[s]
           staged == [row EXCEPT !.stage = "working"]
           n == Cardinality(Sources)
           on == TRUE
           new == [sc EXCEPT !.status = "running", !.started = on, !.total = n]
<1>1. MayWrite(w)
  BY DEF StartScan, ScanQueue!Complete, ScanQueue!Stage, MayWrite
<1>2. /\ s \in Scans /\ row \in LeaseRow /\ sc \in ScanRow /\ source[s] \in [Sources -> SourceRow]
      /\ row.status = "running" /\ SoundScan(sc, source[s], row, s \in scanned)
      /\ sc.status \in {"queued", "running"} /\ sc.ok = 0 /\ s \notin scanned
      /\ staged \in LeaseRow /\ staged.status = "running"
  BY <1>1, ScanHeld
<1>3. sc.status \notin TerminalScan
  BY <1>2 DEF TerminalScan
<1>4. ScanQueue!Stage(w) /\ UNCHANGED <<source, scanned>>
      /\ scan' = [scan EXCEPT ![s].status = "running", ![s].started = TRUE, ![s].total = n]
  BY <1>3 DEF StartScan
<1>5. scanJob' = [scanJob EXCEPT ![s] = staged] /\ scanClaim' = scanClaim
  BY <1>2, <1>4, ScanWrites DEF ScanQueue!Stage, ScanOf
<1>6. scan' = [scan EXCEPT ![s] = new]
  BY <1>2, <1>4 DEF ScanInv, ScanTyped
<1>7. /\ n \in Nat /\ n = All /\ n \in 0..n /\ on \in BOOLEAN /\ on
      /\ "running" \in ScanStatuses /\ "running" \notin TerminalScan
  BY SourceCounts DEF All, ScanStatuses, TerminalScan
<1>8. ScanRow = [status : ScanStatuses, started : BOOLEAN, final : BOOLEAN,
                 total : 0..n, closed : 0..n, ok : 0..n, bad : 0..n]
  BY DEF ScanRow
<1>9. source' = [source EXCEPT ![s] = source[s]]
  BY <1>2, <1>4, ScanSteps
<1>10. scanClaim' \in [Workers -> [job : Scans \cup {NoJob}, token : Tokens \cup {NoToken}]]
  BY <1>5, ScanSteps
<1> HIDE DEF s, row, sc, staged, n, on
<1>11. /\ new \in ScanRow /\ new.status = "running" /\ (new.started <=> on)
       /\ (new.final <=> sc.final) /\ new.total = n /\ new.closed = sc.closed
       /\ new.ok = sc.ok /\ new.bad = sc.bad /\ sc.closed \in 0..n
  BY <1>2, <1>7, <1>8
<1> HIDE DEF new
<1>12. ScanLegal(new)
  BY <1>2, <1>3, <1>7, <1>11 DEF ScanLegal, SoundScan
<1>13. SoundScan(new, source[s], staged, s \in scanned')
  BY <1>2, <1>4, <1>7, <1>11, <1>12 DEF SoundScan
<1> QED BY <1>2, <1>4, <1>5, <1>6, <1>9, <1>10, <1>11, <1>13, OneScan

\* A transaction of the handler that writes one source of the scan, and its job only to
\* a row that still runs.
LEMMA OneSource ==
  ASSUME ScanInv, NEW w \in Workers, MayWrite(w), NEW x \in Sources, NEW new \in SourceRow,
         SourceLegal(new), NEW row \in LeaseRow, row.status = "running",
         source' = [source EXCEPT ![ScanOf(w)][x] = new],
         scanJob' = [scanJob EXCEPT ![ScanOf(w)] = row],
         UNCHANGED <<scanClaim, scan, scanned>>
  PROVE  ScanInv'
<1> DEFINE s == ScanOf(w)
           rows == [source[s] EXCEPT ![x] = new]
<1>1. /\ s \in Scans /\ scan[s] \in ScanRow /\ source[s] \in [Sources -> SourceRow]
      /\ scanJob[s].status = "running" /\ SoundScan(scan[s], source[s], scanJob[s], s \in scanned)
  BY ScanHeld
<1>2. source' = [source EXCEPT ![s] = rows] /\ scanJob' = [scanJob EXCEPT ![s] = row]
  BY <1>1 DEF ScanInv, ScanTyped
<1>3. scan' = [scan EXCEPT ![s] = scan[s]]
  BY <1>1, ScanSteps
<1>4. scanClaim' \in [Workers -> [job : Scans \cup {NoJob}, token : Tokens \cup {NoToken}]]
  BY ScanSteps
<1> HIDE DEF s
<1>5. rows \in [Sources -> SourceRow] /\ \A y \in Sources : SourceLegal(rows[y])
  BY <1>1 DEF SoundScan
<1> HIDE DEF rows
<1>6. SoundScan(scan[s], rows, row, s \in scanned')
  BY <1>1, <1>5 DEF SoundScan
<1> QED BY <1>1, <1>2, <1>3, <1>4, <1>5, <1>6, OneScan

LEMMA ScanFetchesKept ==
  ASSUME ScanInv, NEW w \in Workers, NEW x \in Sources, Mark(w, x) \/ Drop(w, x) \/ Fetched(w, x)
  PROVE  ScanInv'
<1> DEFINE row == scanJob[ScanOf(w)]
           staged == [row EXCEPT !.stage = "working"]
<1>1. scanClaim \in [Workers -> [job : Scans \cup {NoJob}, token : Tokens \cup {NoToken}]]
  BY ScanSteps
<1>2. MayWrite(w) => /\ ScanOf(w) \in Scans /\ row \in LeaseRow /\ row.status = "running"
                     /\ staged \in LeaseRow /\ staged.status = "running"
                     /\ [scanJob EXCEPT ![ScanOf(w)] = row] = scanJob
  BY ScanHeld, ScanSteps
<1> HIDE DEF row
<1>3. CASE Mark(w, x)
  <2>1. UNCHANGED <<scan, scanned>>
    BY <1>3 DEF Mark
  <2>2. CASE MayWrite(w) /\ Fetchable(ScanOf(w), x)
    <3>1. ScanQueue!Stage(w) /\ source' = [source EXCEPT ![ScanOf(w)][x] = RunningSource]
      BY <1>3, <2>2 DEF Mark
    <3>2. scanJob' = [scanJob EXCEPT ![ScanOf(w)] = staged] /\ scanClaim' = scanClaim
      BY <1>2, <2>2, <3>1, ScanWrites DEF ScanQueue!Stage, ScanOf, row
    <3> HIDE DEF staged
    <3> QED BY <1>2, <2>1, <2>2, <3>1, <3>2, SourcesWritten, OneSource
  <2>3. CASE ~(MayWrite(w) /\ Fetchable(ScanOf(w), x))
    <3>1. UNCHANGED <<scanJob, scanClaim, source>>
      BY <1>3, <2>3 DEF Mark
    <3> QED BY <1>1, <2>1, <3>1, ScansIdle
  <2> QED BY <2>2, <2>3
<1>4. ASSUME NEW status \in {"succeeded", "failed"}, Write(w, x, status),
             UNCHANGED <<scanJob, scanClaim, scan, scanned>>
      PROVE  ScanInv'
  <2>1. CASE MayWrite(w)
    <3> DEFINE new == ClosedSource(status, TRUE)
    <3>1. source' = [source EXCEPT ![ScanOf(w)][x] = new]
      BY <1>4, <2>1 DEF Write
    <3>2. new \in SourceRow /\ SourceLegal(new)
      BY SourcesWritten DEF Closed
    <3> HIDE DEF new
    <3>3. scanJob' = [scanJob EXCEPT ![ScanOf(w)] = row]
      BY <1>2, <1>4, <2>1
    <3> QED BY <1>2, <1>4, <2>1, <3>1, <3>2, <3>3, OneSource
  <2>2. CASE ~MayWrite(w)
    BY <1>1, <1>4, <2>2, ScansIdle DEF Write
  <2> QED BY <2>1, <2>2
<1>5. CASE Drop(w, x)
  BY <1>4, <1>5 DEF Drop
<1>6. CASE Fetched(w, x)
  BY <1>4, <1>6 DEF Fetched
<1> QED BY <1>3, <1>5, <1>6

LEMMA ScanFinalKept ==
  ASSUME ScanInv, NEW w \in Workers, Finalize(w)
  PROVE  ScanInv'
<1> DEFINE s == ScanOf(w)
           row == scanJob[s]
           rows == source[s]
           verdict == Verdict(rows, row.cancel)
           after == Finalized(Counted(scan[s], rows), verdict)
           next == Done(row)
<1>1. MayWrite(w)
  BY DEF Finalize, ScanQueue!Complete, MayWrite
<1>2. /\ s \in Scans /\ row \in LeaseRow /\ scan[s] \in ScanRow /\ rows \in [Sources -> SourceRow]
      /\ SoundScan(scan[s], rows, row, s \in scanned) /\ s \notin scanned
      /\ next \in LeaseRow
      /\ next.status = IF row.cancel THEN "cancelled" ELSE "succeeded"
  BY <1>1, ScanHeld
<1>3. AllClosed(rows) /\ UNCHANGED source /\ scan' = [scan EXCEPT ![s] = after]
      /\ scanned' = IF verdict = "partial" THEN scanned \cup {s} ELSE scanned
  BY DEF Finalize
<1>4. scanJob' = [scanJob EXCEPT ![s] = next]
      /\ scanClaim' = [scanClaim EXCEPT ![w] = ScanQueue!NoClaim]
  BY <1>2, ScanWrites DEF Finalize, ScanQueue!Complete, ScanOf
<1>5. source' = [source EXCEPT ![s] = rows]
  BY <1>2, <1>3, ScanSteps
<1>6. scanClaim' \in [Workers -> [job : Scans \cup {NoJob}, token : Tokens \cup {NoToken}]]
  BY <1>4, ScanSteps
<1>7. /\ verdict \in {"cancelled", "failed", "partial"} /\ (verdict = "cancelled" <=> row.cancel)
      /\ verdict = "partial" => Count(rows, {"failed", "cancelled"}) # All
  BY DEF Verdict, All
<1> HIDE DEF s, row, rows, verdict, next
<1>8. after \in ScanRow /\ ScanLegal(after) /\ after.status = verdict /\ Tallied(after, rows)
  BY <1>2, <1>3, <1>7, ScansFinalized
<1> HIDE DEF after
<1>9. verdict = "partial" => after.ok > 0
  BY <1>2, <1>3, <1>7, <1>8, SourceCounts DEF Tallied
<1>10. (s \in scanned') <=> verdict = "partial"
  BY <1>2, <1>3
<1>11. \A x \in Sources : SourceLegal(rows[x])
  BY <1>2 DEF SoundScan
<1>12. SoundScan(after, rows, next, s \in scanned')
  BY <1>2, <1>7, <1>8, <1>9, <1>10, <1>11 DEF SoundScan
<1>13. \A q \in Scans : q # s => (q \in scanned' <=> q \in scanned)
  BY <1>3
<1> QED BY <1>2, <1>3, <1>4, <1>5, <1>6, <1>8, <1>12, <1>13, OneScan

LEMMA ScanFailedKept ==
  ASSUME ScanInv, NEW w \in Workers, FailScan(w)
  PROVE  ScanInv'
<1> DEFINE s == ScanOf(w)
           row == scanJob[s]
           sc == scan[s]
           rows == source[s]
           open == {x \in Sources : rows[x].status \notin Closed}
           c == Cardinality(open)
           end == Abandoned(row)
           on == TRUE
           ended == [sc EXCEPT !.status = end, !.started = on, !.final = on]
           after == [ended EXCEPT !.closed = c, !.bad = c]
           closed == [x \in Sources |-> IF x \in open THEN ClosedSource("failed", TRUE) ELSE rows[x]]
           next == Failed(row, TRUE, ScanAttempts)
<1>1. ScanQueue!FailAttempt(w, TRUE) /\ MayWrite(w) /\ scanned' = scanned
  BY DEF FailScan, ScanQueue!FailAttempt, MayWrite
<1>2. /\ s \in Scans /\ row \in LeaseRow /\ sc \in ScanRow /\ rows \in [Sources -> SourceRow]
      /\ SoundScan(sc, rows, row, s \in scanned) /\ s \notin scanned /\ sc.total = All /\ sc.ok = 0
      /\ next \in LeaseRow /\ next.status = IF row.cancel THEN "cancelled" ELSE "dead_letter"
  BY <1>1, ScanHeld
<1>3. /\ source' = [source EXCEPT ![s] = closed]
      /\ scan' = [scan EXCEPT ![s] = after]
  BY DEF FailScan, Finalized
<1>4. scanJob' = [scanJob EXCEPT ![s] = next]
      /\ scanClaim' = [scanClaim EXCEPT ![w] = ScanQueue!NoClaim]
  BY <1>1, <1>2, ScanWrites DEF ScanQueue!FailAttempt, ScanOf
<1>5. scanClaim' \in [Workers -> [job : Scans \cup {NoJob}, token : Tokens \cup {NoToken}]]
  BY <1>4, ScanSteps
<1>6. /\ end = IF row.cancel THEN "cancelled" ELSE "failed"
      /\ end \in TerminalScan /\ end \in ScanStatuses /\ on \in BOOLEAN /\ on
  BY DEF Abandoned, TerminalScan, ScanStatuses
<1>7. c \in 0..All /\ All \in Nat
  BY SourceCounts
<1>8. ScanRow = [status : ScanStatuses, started : BOOLEAN, final : BOOLEAN,
                 total : 0..All, closed : 0..All, ok : 0..All, bad : 0..All]
  BY DEF ScanRow, All
<1>9. ASSUME NEW x \in Sources PROVE closed[x] \in SourceRow /\ SourceLegal(closed[x])
  <2>1. ClosedSource("failed", TRUE) \in SourceRow /\ SourceLegal(ClosedSource("failed", TRUE))
    BY SourcesWritten DEF Closed
  <2>2. rows[x] \in SourceRow /\ SourceLegal(rows[x])
    BY <1>2 DEF SoundScan
  <2> QED BY <2>1, <2>2
<1>10. closed \in [Sources -> SourceRow]
  BY <1>9
<1> HIDE DEF s, row, sc, rows, open, c, end, on, next, closed
<1>11. /\ ended \in ScanRow /\ ended.status = end /\ (ended.started <=> on) /\ (ended.final <=> on)
       /\ ended.total = sc.total /\ ended.ok = sc.ok
  BY <1>2, <1>6, <1>8
<1> HIDE DEF ended
<1>12. /\ after \in ScanRow /\ after.status = end /\ (after.started <=> on) /\ (after.final <=> on)
       /\ after.total = All /\ after.ok = 0 /\ after.closed = c /\ after.bad = c
  BY <1>2, <1>7, <1>8, <1>11
<1> HIDE DEF after
<1>13. ScanLegal(after)
  BY <1>6, <1>7, <1>12 DEF ScanLegal
<1>14. SoundScan(after, closed, next, s \in scanned')
  BY <1>1, <1>2, <1>6, <1>9, <1>12, <1>13 DEF SoundScan
<1> QED BY <1>1, <1>2, <1>3, <1>4, <1>5, <1>10, <1>12, <1>14, OneScan

LEMMA ScanAttemptKept ==
  ASSUME ScanInv, NEW w \in Workers, FailAttempt(w)
  PROVE  ScanInv'
<1> DEFINE s == ScanOf(w)
           row == scanJob[s]
           sc == scan[s]
           rows == source[s]
           next == Failed(row, FALSE, ScanAttempts)
           after == ScanAfter(sc, next.status)
           reset == [x \in Sources |-> SourceAfter(rows[x], next.status)]
<1>1. ScanQueue!FailAttempt(w, FALSE) /\ MayWrite(w) /\ FailureLands(s) /\ scanned' = scanned
  BY DEF FailAttempt, ScanQueue!FailAttempt, MayWrite
<1>2. /\ s \in Scans /\ row \in LeaseRow /\ sc \in ScanRow /\ rows \in [Sources -> SourceRow]
      /\ SoundScan(sc, rows, row, s \in scanned) /\ s \notin scanned /\ sc.total = All /\ sc.ok = 0
      /\ next \in LeaseRow /\ next.status \in {"queued", "cancelled", "dead_letter"}
  BY <1>1, ScanHeld
<1>3. scanJob' = [scanJob EXCEPT ![s] = next]
      /\ scanClaim' = [scanClaim EXCEPT ![w] = ScanQueue!NoClaim]
  BY <1>1, <1>2, ScanWrites DEF ScanQueue!FailAttempt, ScanOf
<1>4. scanJob'[s] = next /\ ScanQueue!FailedRow(row, FALSE, 0, 0) = next
  BY <1>2, <1>3, ScanWrites DEF ScanInv, ScanTyped
<1>5. scan' = [scan EXCEPT ![s] = after] /\ source' = [source EXCEPT ![s] = reset]
  BY <1>4 DEF FailAttempt
<1>6. ScanLegal(after) /\ \A x \in Sources : SourceLegal(reset[x])
  BY <1>1, <1>4 DEF FailureLands
<1>7. scanClaim' \in [Workers -> [job : Scans \cup {NoJob}, token : Tokens \cup {NoToken}]]
  BY <1>3, ScanSteps
<1> DEFINE status == next.status
<1> HIDE DEF s, row, sc, rows, next
<1>8. /\ after \in ScanRow /\ after.total = sc.total /\ after.ok = sc.ok
      /\ after.status = IF status = "queued" THEN "queued"
                        ELSE IF status = "cancelled" THEN "cancelled" ELSE "failed"
  <2> DEFINE end == IF status = "cancelled" THEN "cancelled" ELSE "failed"
             on == TRUE
             off == FALSE
             again == [sc EXCEPT !.status = "queued", !.final = off]
             over == [sc EXCEPT !.status = end, !.final = on]
  <2>1. /\ end \in ScanStatuses /\ "queued" \in ScanStatuses /\ on \in BOOLEAN /\ off \in BOOLEAN
    BY DEF ScanStatuses, TerminalScan
  <2>2. after = IF status = "queued" THEN again ELSE over
    BY DEF ScanAfter
  <2> HIDE DEF after, end, on, off, status
  <2>3. /\ again \in ScanRow /\ again.total = sc.total /\ again.ok = sc.ok /\ again.status = "queued"
        /\ over \in ScanRow /\ over.total = sc.total /\ over.ok = sc.ok /\ over.status = end
    BY <1>2, <2>1 DEF ScanRow
  <2> HIDE DEF again, over
  <2> QED BY <2>2, <2>3 DEF end
<1>9. reset \in [Sources -> SourceRow]
  <2>1. ASSUME NEW x \in Sources PROVE SourceAfter(rows[x], status) \in SourceRow
    <3> DEFINE end == IF status = "cancelled" THEN "cancelled" ELSE "failed"
               shut == ClosedSource(end, TRUE)
               on == TRUE
    <3>1. rows[x] \in SourceRow /\ PendingSource \in SourceRow /\ shut \in SourceRow
          /\ on \in BOOLEAN
      BY <1>2, SourcesWritten DEF Closed
    <3>2. SourceAfter(rows[x], status) =
            IF rows[x].status # "running" THEN rows[x]
            ELSE IF status = "queued" THEN PendingSource ELSE [shut EXCEPT !.code = on]
      BY DEF SourceAfter
    <3> HIDE DEF shut, on, status
    <3>3. [shut EXCEPT !.code = on] \in SourceRow
      BY <3>1 DEF SourceRow
    <3> QED BY <3>1, <3>2, <3>3
  <2> QED BY <2>1
<1> HIDE DEF after, reset
<1>10. SoundScan(after, reset, next, s \in scanned')
  BY <1>1, <1>2, <1>6, <1>8 DEF SoundScan
<1> QED BY <1>1, <1>2, <1>3, <1>5, <1>7, <1>8, <1>9, <1>10, OneScan

LEMMA ScanTimeKept ==
  ASSUME ScanInv
  PROVE  /\ \A w \in Workers : GiveUpScan(w) \/ RenewScan(w) => ScanInv'
         /\ ScanTick => ScanInv'
<1>1. ASSUME NEW w \in Workers, GiveUpScan(w) PROVE ScanInv'
  <2>1. UNCHANGED <<scanJob, scan, source, scanned>>
        /\ scanClaim' = [scanClaim EXCEPT ![w] = ScanQueue!NoClaim]
    BY <1>1 DEF GiveUpScan, ScanQueue!GiveUp
  <2>2. scanClaim' \in [Workers -> [job : Scans \cup {NoJob}, token : Tokens \cup {NoToken}]]
    BY <2>1, ScanSteps
  <2> QED BY <2>1, <2>2, ScansIdle
<1>2. ASSUME NEW w \in Workers, RenewScan(w) PROVE ScanInv'
  <2> DEFINE s == ScanOf(w)
             row == scanJob[s]
             next == [row EXCEPT !.lease = LeaseTime]
  <2>1. MayWrite(w) /\ UNCHANGED <<scanClaim, scan, source, scanned>>
    BY <1>2 DEF RenewScan, ScanQueue!Renew, MayWrite
  <2>2. /\ s \in Scans /\ row \in LeaseRow /\ scan[s] \in ScanRow
        /\ source[s] \in [Sources -> SourceRow] /\ row.status = "running"
        /\ SoundScan(scan[s], source[s], row, s \in scanned)
        /\ next \in LeaseRow /\ next.status = "running"
    BY <2>1, ScanHeld
  <2>3. scanJob' = [scanJob EXCEPT ![s] = next]
    BY <1>2, <2>2, ScanWrites DEF RenewScan, ScanQueue!Renew, ScanOf
  <2>4. scan' = [scan EXCEPT ![s] = scan[s]] /\ source' = [source EXCEPT ![s] = source[s]]
        /\ scanClaim' \in [Workers -> [job : Scans \cup {NoJob}, token : Tokens \cup {NoToken}]]
    BY <2>1, <2>2, ScanSteps
  <2> HIDE DEF s, row, next
  <2>5. SoundScan(scan[s], source[s], next, s \in scanned')
    BY <2>1, <2>2 DEF SoundScan
  <2> QED BY <2>1, <2>2, <2>3, <2>4, <2>5, OneScan
<1>3. ASSUME ScanTick PROVE ScanInv'
  <2>1. UNCHANGED <<scanClaim, scan, source, scanned>>
    BY <1>3 DEF ScanTick, ScanQueue!Tick
  <2>2. ASSUME NEW s \in Scans
        PROVE  scanJob'[s] \in LeaseRow /\ SameStand(scanJob[s], scanJob'[s])
    <3> DEFINE row == scanJob[s]
               lease == IF row.status = "running" /\ ~ScanQueue!Elapsed(row.lease)
                        THEN row.lease - 1 ELSE row.lease
               wait == IF row.status = "queued" /\ ~ScanQueue!Elapsed(row.wait)
                       THEN row.wait - 1 ELSE row.wait
    <3>1. row \in LeaseRow
      BY ScanSteps
    <3>2. scanJob'[s] = [row EXCEPT !.lease = lease, !.wait = wait]
      BY <1>3 DEF ScanTick, ScanQueue!Tick
    <3>3. lease \in Int /\ wait \in Int
      BY <3>1 DEF LeaseRow
    <3> HIDE DEF row, lease, wait
    <3>4. scanJob'[s] \in LeaseRow /\ SameStand(row, scanJob'[s])
      BY <3>1, <3>2, <3>3 DEF LeaseRow, SameStand
    <3> QED BY <3>4 DEF row
  <2>3. scanJob' = [s \in Scans |-> scanJob'[s]]
    BY <1>3 DEF ScanTick, ScanQueue!Tick
  <2>4. ScanTyped'
    BY <2>1, <2>2, <2>3 DEF ScanInv, ScanTyped
  <2>5. ASSUME NEW s \in Scans PROVE SoundScan(scan'[s], source'[s], scanJob'[s], s \in scanned')
    <3>1. SoundScan(scan[s], source[s], scanJob[s], s \in scanned)
      BY ScanSteps
    <3> QED BY <2>1, <2>2, <3>1 DEF SameStand, SoundScan
  <2> QED BY <2>4, <2>5 DEF ScanInv
<1> QED BY <1>1, <1>2, <1>3

LEMMA ScanStarts == ScanInit => ScanInv
<1> SUFFICES ASSUME ScanInit PROVE ScanInv
  OBVIOUS
<1>1. /\ scanJob = [s \in Scans |-> ScanQueue!NoRow]
      /\ scanClaim = [w \in Workers |-> ScanQueue!NoClaim]
      /\ scan = [s \in Scans |-> NoScan] /\ scanned = {}
      /\ source = [s \in Scans |-> [x \in Sources |-> NoSource]]
  BY DEF ScanInit, ScanQueue!Init
<1>2. ScanQueue!NoClaim \in [job : Scans \cup {NoJob}, token : Tokens \cup {NoToken}]
  BY DEF ScanQueue!NoClaim
<1> DEFINE n == Cardinality(Sources)
           none == 0
           blank == [status |-> "absent", started |-> FALSE, final |-> FALSE,
                     total |-> none, closed |-> none, ok |-> none, bad |-> none]
<1>3. none \in 0..n /\ none = 0 /\ "absent" \in ScanStatuses
  BY SourceCounts DEF All, ScanStatuses
<1>4. ScanRow = [status : ScanStatuses, started : BOOLEAN, final : BOOLEAN,
                 total : 0..n, closed : 0..n, ok : 0..n, bad : 0..n]
  BY DEF ScanRow
<1>5. NoScan = blank
  BY DEF NoScan
<1>6. NoSource \in SourceRow /\ SourceLegal(NoSource) /\ NoSource.status = "absent"
  BY DEF NoSource, SourceRow, SourceStatuses, SourceLegal
<1> HIDE DEF n, none
<1>7. /\ blank \in ScanRow /\ blank.status = "absent" /\ ~blank.final /\ blank.total = none
      /\ blank.closed = none /\ blank.ok = none /\ blank.bad = none
  BY <1>3, <1>4
<1> HIDE DEF blank
<1>8. ScanLegal(NoScan)
  BY <1>3, <1>5, <1>7 DEF ScanLegal, TerminalScan
<1>9. ScanTyped
  BY <1>1, <1>2, <1>5, <1>6, <1>7, ScanWrites DEF ScanTyped
<1>10. \A s \in Scans : SoundScan(scan[s], source[s], scanJob[s], s \in scanned)
  BY <1>1, <1>5, <1>6, <1>7, <1>8, ScanWrites DEF SoundScan
<1> QED BY <1>9, <1>10 DEF ScanInv

LEMMA ScansInduct == ScanInv /\ [ScanNext]_scanVars => ScanInv'
<1> SUFFICES ASSUME ScanInv, [ScanNext]_scanVars PROVE ScanInv'
  OBVIOUS
<1>1. CASE UNCHANGED scanVars
  BY <1>1, ScanSteps, ScansIdle DEF scanVars
<1>2. ASSUME NEW s \in Scans, CreateScan(s) \/ CancelScan(s) PROVE ScanInv'
  BY <1>2, ScanCommandsKept
<1>3. ASSUME NEW w \in Workers, PollScan(w) PROVE ScanInv'
  BY <1>3, ScanPollsKept
<1>4. ASSUME NEW w \in Workers, RenewScan(w) PROVE ScanInv'
  BY <1>4, ScanTimeKept
<1>5. ASSUME NEW w \in Workers, StartScan(w) PROVE ScanInv'
  BY <1>5, ScanStartKept
<1>6. ASSUME NEW w \in Workers, ReturnScan(w) PROVE ScanInv'
  BY <1>6, ScanFinalKept, ScanFailedKept, ScanAttemptKept, ScanTimeKept DEF ReturnScan
<1>7. ASSUME NEW w \in Workers, NEW x \in Sources, Mark(w, x) \/ Drop(w, x) \/ Fetched(w, x)
      PROVE  ScanInv'
  BY <1>7, ScanFetchesKept
<1>8. ASSUME ScanTick PROVE ScanInv'
  BY <1>8, ScanTimeKept
<1> QED BY <1>1, <1>2, <1>3, <1>4, <1>5, <1>6, <1>7, <1>8 DEF ScanNext

\* Whatever order claims, fetches, cancellations, failures and recoveries come in, for any
\* scans, sources, workers, lease and budget of attempts: no transaction leaves rows the
\* CHECK constraints refuse, and what the owner reads of a scan agrees with its job and
\* counts all of its sources.
THEOREM OneScanOneStory == ScanSpec => []ScansAgree
<1>1. ScanInv => ScansAgree
  BY DEF ScanInv, SoundScan, Tallied, All, ScansAgree, RowsLegal, VerdictAgrees, Accounted
<1> QED BY <1>1, ScansInduct, ScanStarts, PTL DEF ScanSpec

\* What VerdictFinal and FetchedOnce ask of a scan.
ScanStands(s) ==
  /\ scan[s].status \in TerminalScan => scan'[s].status = scan[s].status
  /\ \A x \in Sources : source[s][x].status = "succeeded" => source'[s][x].status \in Closed

\* A step of one scan that has no verdict.
LEMMA OneStands ==
  ASSUME ScanInv, NEW s \in Scans, NEW sc, NEW rows, scan[s].status \notin TerminalScan,
         scan' = [scan EXCEPT ![s] = sc], source' = [source EXCEPT ![s] = rows],
         \A x \in Sources : source[s][x].status = "succeeded" => rows[x].status \in Closed
  PROVE  \A q \in Scans : ScanStands(q)
<1>1. \A q \in Scans : /\ scan'[q] = IF q = s THEN sc ELSE scan[q]
                       /\ source'[q] = IF q = s THEN rows ELSE source[q]
  BY DEF ScanInv, ScanTyped
<1> QED BY <1>1 DEF ScanStands, Closed

LEMMA UntouchedStand ==
  ASSUME UNCHANGED <<scan, source>>
  PROVE  \A q \in Scans : ScanStands(q)
BY DEF ScanStands, Closed

LEMMA CreatedStand ==
  ASSUME ScanInv, NEW s \in Scans, CreateScan(s)
  PROVE  \A q \in Scans : ScanStands(q)
<1> DEFINE new == [NoScan EXCEPT !.status = "queued", !.total = Cardinality(Sources)]
           waiting == [x \in Sources |-> PendingSource]
<1>1. /\ scanJob[s].status = "absent"
      /\ scan' = [scan EXCEPT ![s] = new] /\ source' = [source EXCEPT ![s] = waiting]
  BY DEF CreateScan, ScanQueue!Enqueue
<1>2. /\ scan[s].status \notin TerminalScan
      /\ \A x \in Sources : source[s][x].status # "succeeded"
  BY <1>1, ScanSteps DEF SoundScan, TerminalScan
<1> HIDE DEF new, waiting
<1> QED BY <1>1, <1>2, OneStands

LEMMA PolledStand ==
  ASSUME ScanInv, NEW w \in Workers, PollScan(w)
  PROVE  \A q \in Scans : ScanStands(q)
<1> SUFFICES ASSUME NEW q \in Scans PROVE ScanStands(q)
  OBVIOUS
<1> DEFINE sc == scan[q]
           row == scanJob'[q]
           counted == Counted(sc, source'[q])
<1>1. SoundScan(sc, source[q], row, q \in scanned)
  BY PolledJobs
<1>2. /\ scan'[q] = IF Diverged(row, sc) THEN Finalized(counted, Target(row)) ELSE sc
      /\ source'[q] = IF Diverged(row, sc)
                      THEN [x \in Sources |-> Interrupted(source[q][x], Target(row))]
                      ELSE source[q]
  BY DEF PollScan, ReconcileScans, ReconciledSources
<1>3. sc \in ScanRow
  BY ScanSteps
<1>4. Diverged(row, sc) /\ sc.status \in TerminalScan => Target(row) = sc.status
  BY <1>1 DEF SoundScan, Diverged, Target, TerminalScan
<1>5. \A x \in Sources : source[q][x].status = "succeeded" => source'[q][x].status \in Closed
  BY <1>2 DEF Interrupted, Closed
<1>6. \A status : Finalized(counted, status).status = status
  BY DEF Finalized, Counted
<1> HIDE DEF row, counted
<1> QED BY <1>2, <1>4, <1>5, <1>6 DEF ScanStands

LEMMA WorkedStand ==
  ASSUME ScanInv, NEW w \in Workers,
         \/ StartScan(w) \/ Finalize(w) \/ FailScan(w) \/ FailAttempt(w)
         \/ \E x \in Sources : Mark(w, x) \/ Drop(w, x) \/ Fetched(w, x)
  PROVE  \A q \in Scans : ScanStands(q)
<1> DEFINE s == ScanOf(w)
           sc == scan[s]
           rows == source[s]
<1>1. MayWrite(w) => /\ s \in Scans /\ sc.status \notin TerminalScan
                     /\ rows \in [Sources -> SourceRow]
                     /\ [scan EXCEPT ![s] = sc] = scan /\ [source EXCEPT ![s] = rows] = source
  BY ScanHeld, ScanSteps DEF TerminalScan
<1> HIDE DEF s, sc, rows
<1>2. CASE StartScan(w)
  <2>1. MayWrite(w) /\ source' = source
    BY <1>2 DEF StartScan, ScanQueue!Complete, ScanQueue!Stage, MayWrite
  <2>2. PICK new : scan' = [scan EXCEPT ![s] = new]
    <3>1. scan' = [scan EXCEPT ![s].status = "running", ![s].started = TRUE,
                               ![s].total = Cardinality(Sources)]
      BY <1>1, <1>2, <2>1 DEF StartScan, s, sc
    <3>2. scan' = [scan EXCEPT ![s] = [sc EXCEPT !.status = "running", !.started = TRUE,
                                                 !.total = Cardinality(Sources)]]
      BY <1>1, <2>1, <3>1 DEF ScanInv, ScanTyped, sc
    <3> QED BY <3>2
  <2>3. \A x \in Sources : source[s][x].status = "succeeded" => rows[x].status \in Closed
    BY DEF rows, Closed
  <2>4. scan[s].status \notin TerminalScan
    BY <1>1, <2>1 DEF sc
  <2>5. source' = [source EXCEPT ![s] = rows]
    BY <1>1, <2>1
  <2> QED BY <1>1, <2>1, <2>2, <2>3, <2>4, <2>5, OneStands
<1>3. CASE Finalize(w)
  <2>1. MayWrite(w) /\ source' = source
    BY <1>3 DEF Finalize, ScanQueue!Complete, MayWrite
  <2>2. PICK new : scan' = [scan EXCEPT ![s] = new]
    BY <1>3 DEF Finalize, s
  <2>3. \A x \in Sources : source[s][x].status = "succeeded" => rows[x].status \in Closed
    BY DEF rows, Closed
  <2>4. scan[s].status \notin TerminalScan
    BY <1>1, <2>1 DEF sc
  <2>5. source' = [source EXCEPT ![s] = rows]
    BY <1>1, <2>1
  <2> QED BY <1>1, <2>1, <2>2, <2>3, <2>4, <2>5, OneStands
<1>4. CASE FailScan(w)
  <2> DEFINE open == {x \in Sources : rows[x].status \notin Closed}
             shut == ClosedSource("failed", TRUE)
             closed == [x \in Sources |-> IF x \in open THEN shut ELSE rows[x]]
  <2>1. MayWrite(w)
    BY <1>4 DEF FailScan, ScanQueue!FailAttempt, MayWrite
  <2>2. PICK new : scan' = [scan EXCEPT ![s] = new]
    BY <1>4 DEF FailScan, s
  <2>3. source' = [source EXCEPT ![s] = closed]
    BY <1>4 DEF FailScan, s, rows
  <2>4. \A x \in Sources : source[s][x].status = "succeeded" => closed[x].status \in Closed
    BY DEF rows, Closed
  <2>5. scan[s].status \notin TerminalScan
    BY <1>1, <2>1 DEF sc
  <2> HIDE DEF closed
  <2> QED BY <1>1, <2>1, <2>2, <2>3, <2>4, <2>5, OneStands
<1>5. CASE FailAttempt(w)
  <2> DEFINE reset == [x \in Sources |-> SourceAfter(rows[x], scanJob'[s].status)]
  <2>1. MayWrite(w)
    BY <1>5 DEF FailAttempt, ScanQueue!FailAttempt, MayWrite
  <2>2. PICK new : scan' = [scan EXCEPT ![s] = new]
    BY <1>5 DEF FailAttempt, s
  <2>3. source' = [source EXCEPT ![s] = reset]
    BY <1>5 DEF FailAttempt, s, rows
  <2>4. \A x \in Sources : source[s][x].status = "succeeded" => reset[x].status \in Closed
    BY DEF rows, Closed, SourceAfter
  <2>5. scan[s].status \notin TerminalScan
    BY <1>1, <2>1 DEF sc
  <2> HIDE DEF reset
  <2> QED BY <1>1, <2>1, <2>2, <2>3, <2>4, <2>5, OneStands
<1>6. ASSUME NEW x \in Sources, NEW new, MayWrite(w), scan' = scan,
             source' = [source EXCEPT ![s][x] = new],
             rows[x].status = "succeeded" => new.status \in Closed
      PROVE  \A q \in Scans : ScanStands(q)
  <2> DEFINE next == [rows EXCEPT ![x] = new]
  <2>1. source' = [source EXCEPT ![s] = next] /\ scan' = [scan EXCEPT ![s] = sc]
    BY <1>1, <1>6 DEF rows
  <2>2. \A y \in Sources : source[s][y].status = "succeeded" => next[y].status \in Closed
    BY <1>1, <1>6 DEF rows, Closed
  <2>3. s \in Scans /\ scan[s].status \notin TerminalScan
    BY <1>1, <1>6 DEF sc
  <2> HIDE DEF next
  <2> QED BY <2>1, <2>2, <2>3, OneStands
<1>7. ASSUME NEW x \in Sources, NEW status \in {"succeeded", "failed"}, Write(w, x, status),
             scan' = scan
      PROVE  \A q \in Scans : ScanStands(q)
  <2> DEFINE new == ClosedSource(status, TRUE)
  <2>1. new.status \in Closed
    BY DEF ClosedSource, Closed
  <2>2. source' = IF MayWrite(w) THEN [source EXCEPT ![s][x] = new] ELSE source
    BY <1>7 DEF Write, s
  <2> HIDE DEF new
  <2> QED BY <1>6, <1>7, <2>1, <2>2, UntouchedStand
<1>8. ASSUME NEW x \in Sources, Mark(w, x) PROVE \A q \in Scans : ScanStands(q)
  <2>1. scan' = scan
        /\ source' = IF MayWrite(w) /\ Fetchable(s, x)
                     THEN [source EXCEPT ![s][x] = RunningSource] ELSE source
    BY <1>8 DEF Mark, s
  <2>2. Fetchable(s, x) => rows[x].status # "succeeded"
    BY DEF Fetchable, rows
  <2> QED BY <1>6, <2>1, <2>2, UntouchedStand
<1> QED BY <1>2, <1>3, <1>4, <1>5, <1>7, <1>8 DEF Drop, Fetched

LEMMA AllStand ==
  ASSUME ScanInv, ScanNext
  PROVE  \A q \in Scans : ScanStands(q)
<1>1. ASSUME NEW s \in Scans, CreateScan(s) PROVE \A q \in Scans : ScanStands(q)
  BY <1>1, CreatedStand
<1>2. ASSUME \/ \E s \in Scans : CancelScan(s)
             \/ \E w \in Workers : RenewScan(w) \/ GiveUpScan(w)
             \/ ScanTick
      PROVE  \A q \in Scans : ScanStands(q)
  <2>1. UNCHANGED <<scan, source>>
    BY <1>2 DEF CancelScan, RenewScan, GiveUpScan, ScanTick
  <2> QED BY <2>1, UntouchedStand
<1>3. ASSUME NEW w \in Workers, PollScan(w) PROVE \A q \in Scans : ScanStands(q)
  BY <1>3, PolledStand
<1>4. ASSUME NEW w \in Workers,
             \/ StartScan(w) \/ Finalize(w) \/ FailScan(w) \/ FailAttempt(w)
             \/ \E x \in Sources : Mark(w, x) \/ Drop(w, x) \/ Fetched(w, x)
      PROVE  \A q \in Scans : ScanStands(q)
  BY <1>4, WorkedStand
<1> QED BY <1>1, <1>2, <1>3, <1>4 DEF ScanNext, ReturnScan

\* Once a scan has its verdict no later transaction gives it another, neither a worker that
\* comes back nor the reconciliation of its job, whatever their number and their order.
THEOREM VerdictsStand == ScanSpec => VerdictFinal
<1>1. ScanInv /\ [ScanNext]_scanVars =>
        [\A s \in Scans : scan[s].status \in TerminalScan => scan'[s].status = scan[s].status]_scanVars
  BY AllStand DEF ScanStands
<1> QED BY <1>1, ScansInduct, ScanStarts, PTL DEF ScanSpec, VerdictFinal

\* A source that was fetched once stays closed: no later attempt of its scan fetches it
\* again, and no failure, reconciliation or late worker reopens it.
THEOREM FetchesStand == ScanSpec => FetchedOnce
<1>1. ScanInv /\ [ScanNext]_scanVars =>
        [\A s \in Scans, x \in Sources :
           source[s][x].status = "succeeded" => source'[s][x].status \in Closed]_scanVars
  BY AllStand DEF ScanStands
<1> QED BY <1>1, ScansInduct, ScanStarts, PTL DEF ScanSpec, FetchedOnce

\* Every process has a plan, and a claim.
PlansHeld == DOMAIN scanPlan = Workers

\* What StaleWritesNothing asks of a process.
Fenced(w) ==
  /\ ScanQueue!Working(w) /\ ~ScanQueue!HoldsLease(w, 0)
  /\ <<scanClaim'[w], scanPlan'[w]>> # <<scanClaim[w], scanPlan[w]>>
  => UNCHANGED <<scan, source>>

\* A process writes under its lease, writes nothing, or polls because it has no work.
LEMMA LeaseOrNothing ==
  ASSUME NEW w \in Workers,
         \/ PollScan(w) \/ RenewScan(w) \/ StartScan(w) \/ ReturnScan(w)
         \/ \E x \in Sources : Mark(w, x) \/ Drop(w, x) \/ Fetched(w, x)
  PROVE  \/ ~ScanQueue!Working(w)
         \/ ScanQueue!HoldsLease(w, 0)
         \/ UNCHANGED <<scan, source>>
<1>1. CASE PollScan(w)
  BY <1>1 DEF PollScan, ScanQueue!PollIdle, ScanQueue!PollClaim
<1>2. CASE RenewScan(w) \/ GiveUpScan(w)
  BY <1>2 DEF RenewScan, GiveUpScan
<1>3. CASE StartScan(w) \/ Finalize(w) \/ FailScan(w) \/ FailAttempt(w)
  BY <1>3 DEF StartScan, Finalize, FailScan, FailAttempt, ScanQueue!Complete, ScanQueue!Stage,
              ScanQueue!FailAttempt
<1>4. CASE \E x \in Sources : Mark(w, x) \/ Drop(w, x) \/ Fetched(w, x)
  BY <1>4 DEF Mark, Drop, Fetched, Write, MayWrite
<1> QED BY <1>1, <1>2, <1>3, <1>4 DEF ReturnScan

\* It changes no memory but its own.
LEMMA OwnMemory ==
  ASSUME ScanInv, PlansHeld, NEW w \in Workers,
         \/ PollScan(w) \/ RenewScan(w) \/ StartScan(w) \/ ReturnScan(w)
         \/ \E x \in Sources : Mark(w, x) \/ Drop(w, x) \/ Fetched(w, x)
  PROVE  /\ \A v \in Workers : v # w => scanClaim'[v] = scanClaim[v] /\ scanPlan'[v] = scanPlan[v]
         /\ PlansHeld'
<1>1. DOMAIN scanClaim = Workers /\ DOMAIN scanPlan = Workers
  BY ScanSteps DEF PlansHeld
<1>2. \A v \in Workers : v # w => scanClaim'[v] = scanClaim[v]
  <2>1. scanClaim' = scanClaim \/ \E c : scanClaim' = [scanClaim EXCEPT ![w] = c]
    <3>1. CASE PollScan(w)
      BY <3>1 DEF PollScan, ScanQueue!PollIdle, ScanQueue!PollClaim
    <3>2. CASE RenewScan(w) \/ StartScan(w)
      BY <3>2 DEF RenewScan, StartScan, ScanQueue!Renew, ScanQueue!Stage, ScanQueue!Complete
    <3>3. CASE ReturnScan(w)
      BY <3>3 DEF ReturnScan, Finalize, FailScan, FailAttempt, GiveUpScan, ScanQueue!Complete,
                  ScanQueue!FailAttempt, ScanQueue!GiveUp
    <3>4. CASE \E x \in Sources : Mark(w, x) \/ Drop(w, x) \/ Fetched(w, x)
      BY <3>4 DEF Mark, Drop, Fetched, ScanQueue!Stage
    <3> QED BY <3>1, <3>2, <3>3, <3>4
  <2> QED BY <1>1, <2>1
<1>3. /\ DOMAIN scanPlan' = Workers
      /\ \A v \in Workers : v # w => scanPlan'[v] = scanPlan[v]
  <2>1. CASE PollScan(w)
    BY <1>1, <2>1 DEF PollScan
  <2>2. CASE RenewScan(w) \/ StartScan(w)
    BY <1>1, <2>2 DEF RenewScan, StartScan, ForgetScan
  <2>3. CASE ReturnScan(w)
    BY <1>1, <2>3 DEF ReturnScan, Finalize, FailScan, FailAttempt, GiveUpScan, ForgetScan
  <2>4. CASE \E x \in Sources : Mark(w, x) \/ Drop(w, x) \/ Fetched(w, x)
    BY <1>1, <2>4 DEF Mark, Drop, Fetched
  <2> QED BY <2>1, <2>2, <2>3, <2>4
<1> QED BY <1>2, <1>3 DEF PlansHeld

LEMMA MemoryKept ==
  ASSUME ScanInv, PlansHeld, ScanNext
  PROVE  PlansHeld' /\ \A w \in Workers : Fenced(w)
<1>1. ASSUME (\E s \in Scans : CreateScan(s) \/ CancelScan(s)) \/ ScanTick
      PROVE  PlansHeld' /\ \A w \in Workers : Fenced(w)
  <2>1. UNCHANGED <<scanClaim, scanPlan>>
    BY <1>1 DEF CreateScan, CancelScan, ScanTick, ScanQueue!Enqueue, ScanQueue!Cancel,
                ScanQueue!Tick
  <2> QED BY <2>1 DEF PlansHeld, Fenced
<1>2. ASSUME NEW w \in Workers,
             \/ PollScan(w) \/ RenewScan(w) \/ StartScan(w) \/ ReturnScan(w)
             \/ \E x \in Sources : Mark(w, x) \/ Drop(w, x) \/ Fetched(w, x)
      PROVE  PlansHeld' /\ \A v \in Workers : Fenced(v)
  <2>1. /\ PlansHeld'
        /\ \A v \in Workers : v # w => scanClaim'[v] = scanClaim[v] /\ scanPlan'[v] = scanPlan[v]
    BY <1>2, OwnMemory
  <2>2. ~ScanQueue!Working(w) \/ ScanQueue!HoldsLease(w, 0) \/ UNCHANGED <<scan, source>>
    BY <1>2, LeaseOrNothing
  <2> QED BY <2>1, <2>2 DEF Fenced
<1> QED BY <1>1, <1>2 DEF ScanNext

\* A process whose lease is gone may go on through its plan, but no step of it changes a
\* row of a scan, whoever has taken the work over and whatever has become of it.
THEOREM LeaseFences == ScanSpec => StaleWritesNothing
<1>1. ScanInit => PlansHeld
  BY DEF ScanInit, PlansHeld
<1>2. ScanInv /\ PlansHeld /\ [ScanNext]_scanVars => PlansHeld'
  BY MemoryKept DEF scanVars, PlansHeld
<1>3. ScanInv /\ PlansHeld /\ [ScanNext]_scanVars =>
        [\A w \in Workers :
           /\ ScanQueue!Working(w) /\ ~ScanQueue!HoldsLease(w, 0)
           /\ <<scanClaim'[w], scanPlan'[w]>> # <<scanClaim[w], scanPlan[w]>>
           => UNCHANGED <<scan, source>>]_scanVars
  BY MemoryKept DEF Fenced
<1> QED BY <1>1, <1>2, <1>3, ScansInduct, ScanStarts, PTL DEF ScanSpec, StaleWritesNothing

\* Work that has ended stays ended: the action properties of scans, hunts and contact
\* searches together, whatever else goes on in the background.
THEOREM EndedWorkStands == ScanSpec /\ HuntSpec /\ ContactSpec => EndedWorkStays
BY VerdictsStand, FetchesStand, LeaseFences, NothingReturns, EndsAreKept, PTL DEF EndedWorkStays
=============================================================================
