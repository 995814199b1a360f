---------------------------- MODULE TodayInbox ----------------------------
(***************************************************************************)
(* The Today page of one owner with one saved search: which roles belong   *)
(* to the inbox, in which order they are listed, and how a page that asks  *)
(* for more goes through the list while scans, decisions and edits of the  *)
(* profile change it.  The list is computed anew for every request from    *)
(* the rows of that moment; a cursor carries what binds it to the list it  *)
(* was cut from.                                                           *)
(*                                                                         *)
(* A scan has one source per company.  The labels of an assessment         *)
(* (eligibility, fit band, confidence, recency, preference) are one tier;  *)
(* Assessment has where they come from.  Cursors of an older release and   *)
(* the other views are left out: they are not filtered by the inbox.       *)
(***************************************************************************)
EXTENDS Optional, Integers, Sequences, FiniteSets, SequencesExt

CONSTANTS
  Roles,       \* the ids of the roles, numbers, as ids order what else is equal
  Company,     \* the company of a role
  Tiers,       \* priorities of an assessment, the best first
  Limit,       \* roles of a page
  MaxChanges,  \* bound: scans and edits of the search
  MaxTime      \* bound of the clock

ASSUME RolesAssumption == IsFiniteSet(Roles) /\ Roles \subseteq Int
ASSUME TiersAssumption == Tiers \subseteq Int /\ 1 \in Tiers
ASSUME LimitAssumption == Limit \in Nat \ {0}

ScanRows == [id : Nat, version : Nat]
Cursors == [sort : {"recommended"}, at : Nat, offset : Nat \ {0},
            order : Seq(Roles \X Nat \X Tiers)]

ASSUME NoneAssumption == None \notin ScanRows \cup Cursors

VARIABLES
  now,
  search,      \* version and active of the saved search
  role,        \* decision, last_surfaced_at and tier of each role, none while unknown
  sources,     \* the finished sources of scans
  scan,        \* the running scan
  cursor       \* what the page holds to ask for more

todayVars == <<now, search, role, sources, scan, cursor>>

Companies == {Company[r] : r \in Roles}

Unknown == [decision |-> "unknown", surfaced |-> 0, tier |-> 1]

(***************************************************************************)
(* The inbox.                                                              *)
(***************************************************************************)
\* Mutant of Reliable: a source that was listed with warnings counts.
ReliableDespiteWarnings(at) ==
  {s \in sources : s.scan # scan /\ s.at <= at /\ search.active}

\* reliable_source_history: fetched with roles and without a warning, the scan finalized.  An
\* adapter that passed over a part of a board without a warning is among them, and so is a
\* list that the search has filtered: nothing here says that a list is complete.
Reliable(at) == {s \in sources : s.clean /\ s.scan # scan /\ s.at <= at /\ search.active}

\* Mutant of CurrentSources: the latest of all companies.
CurrentSourcesOfAll(at) ==
  LET own == {s \in Reliable(at) : s.version = search.version}
  IN  {s \in own : \A o \in own : \/ o.at < s.at
                                  \/ o.at = s.at /\ o.scan.id <= s.scan.id}

\* current_sources: the latest of each company by the present version of the search.  What has
\* one time here is told apart by the scan, because scans of a search do not overlap.
CurrentSources(at) ==
  LET own == {s \in Reliable(at) : s.version = search.version}
  IN  {s \in own : \A o \in own : o.company = s.company =>
                     \/ o.at < s.at
                     \/ o.at = s.at /\ o.scan.id <= s.scan.id}

\* _current_inbox_snapshot_condition.
Current(at) ==
  IF Reliable(at) = {} /\ search.active THEN {r \in Roles : role[r].decision # "unknown"}
  ELSE UNION {s.seen : s \in CurrentSources(at)}

Inbox(at) == {r \in Current(at) : role[r].decision = "inbox" /\ role[r].surfaced <= at}

(***************************************************************************)
(* Its order.                                                              *)
(***************************************************************************)
Newer(r, s) == \/ role[r].surfaced > role[s].surfaced
               \/ role[r].surfaced = role[s].surfaced /\ r > s

\* The place of a role among those of its company and tier.
Round(r, list) == Cardinality({s \in list : Company[s] = Company[r]
                                             /\ role[s].tier = role[r].tier /\ Newer(s, r)})

Precedes(r, s, list) ==
  \/ role[r].tier < role[s].tier
  \/ /\ role[r].tier = role[s].tier
     /\ \/ Round(r, list) < Round(s, list)
        \/ Round(r, list) = Round(s, list) /\ Newer(r, s)

\* _rank_recommended_today: by tier, and in a tier the companies take turns.
Ranked(list) ==
  [i \in 1..Cardinality(list) |->
     CHOOSE r \in list : Cardinality({s \in list : Precedes(s, r, list)}) = i - 1]

\* company_position: the companies take turns over the whole list.
Position(r, list) == Cardinality({s \in list : Company[s] = Company[r] /\ Newer(s, r)}) + 1

After(r, list, key) ==
  \/ Position(r, list) > key.position
  \/ /\ Position(r, list) = key.position
     /\ \/ role[r].surfaced < key.surfaced
        \/ role[r].surfaced = key.surfaced /\ r < key.id

Newest(list) ==
  SetToSortSeq(list, LAMBDA r, s :
    After(s, list, [position |-> Position(r, list), surfaced |-> role[r].surfaced, id |-> r]))

(***************************************************************************)
(* list_today_opportunities.                                               *)
(***************************************************************************)
Prefix(seq) == SubSeq(seq, 1, IF Len(seq) < Limit THEN Len(seq) ELSE Limit)

\* _recommended_ordering_fingerprint.
Fingerprint(seq) == [i \in DOMAIN seq |-> <<seq[i], role[seq[i]].surfaced, role[seq[i]].tier>>]

Recommended(at, offset) ==
  LET order == Ranked(Inbox(at))
      items == Prefix(SubSeq(order, offset + 1, Len(order)))
      next  == offset + Len(items)
  IN  [items |-> items,
       next  |-> IF next >= Len(order) THEN None
                 ELSE [sort |-> "recommended", at |-> at, offset |-> next,
                       order |-> Fingerprint(order)]]

\* The rows behind the key of the last one shown, in the list as it is now.
Recent(at, list, rest) ==
  LET items == Prefix(Newest(rest))
      last  == items[Len(items)]
  IN  [items |-> items,
       next  |-> IF Len(items) = Cardinality(rest) THEN None
                 ELSE [sort |-> "newest", at |-> at,
                       key |-> [position |-> Position(last, list),
                                surfaced |-> role[last].surfaced, id |-> last]]]

FirstPage(sort) == IF sort = "recommended" THEN Recommended(now, 0)
                   ELSE Recent(now, Inbox(now), Inbox(now))

\* InvalidTodayCursor.
Refused == None

\* Mutant of NextPage: the offset is taken in whatever the list is now.
NextPageUnbound(c) ==
  LET list == Inbox(c.at)
  IN  IF c.sort = "newest" THEN Recent(c.at, list, {r \in list : After(r, list, c.key)})
      ELSE IF c.offset > Cardinality(list) THEN Refused
      ELSE Recommended(c.at, c.offset)

NextPage(c) ==
  LET list == Inbox(c.at)
  IN  IF c.sort = "newest" THEN Recent(c.at, list, {r \in list : After(r, list, c.key)})
      ELSE IF Fingerprint(Ranked(list)) # c.order THEN Refused
      ELSE Recommended(c.at, c.offset)

(***************************************************************************)
(* The page (today-workspace.tsx).                                         *)
(***************************************************************************)
\* loadToday: at first, after every decision and scan, and with another order.
Load(sort) ==
  /\ cursor' = FirstPage(sort).next
  /\ UNCHANGED <<now, search, role, sources, scan>>

\* loadMore.  A refused cursor makes the page load again.
LoadMore(sort) ==
  /\ cursor # None
  /\ LET answer == NextPage(cursor)
     IN  cursor' = IF answer = Refused THEN FirstPage(sort).next ELSE answer.next
  /\ UNCHANGED <<now, search, role, sources, scan>>

(***************************************************************************)
(* What changes the list.                                                  *)
(***************************************************************************)
Started == IF scan # None THEN scan.id
           ELSE Cardinality({s.scan.id : s \in sources})

Changes == Started + search.version - 1

Begin ==
  /\ scan = None /\ search.active /\ Changes < MaxChanges
  /\ scan' = [id |-> Started + 1, version |-> search.version]
  /\ UNCHANGED <<now, search, role, sources, cursor>>

\* _persist_source_result: what the search keeps of what the source lists, and whether the
\* source listed anything and gave no warning.  A role is surfaced when it is new or changed.
Fetch(c, seen, changed, clean) ==
  /\ scan # None /\ \A s \in sources : s.scan = scan => s.company # c
  /\ sources' = sources \cup
       {[scan |-> scan, company |-> c, version |-> scan.version, at |-> now, seen |-> seen,
         clean |-> clean]}
  /\ role' = [r \in Roles |->
       IF r \notin seen THEN role[r]
       ELSE IF role[r].decision = "unknown"
       THEN [decision |-> "inbox", surfaced |-> now, tier |-> role[r].tier]
       ELSE IF r \in changed THEN [role[r] EXCEPT !.surfaced = now] ELSE role[r]]
  /\ UNCHANGED <<now, search, scan, cursor>>

\* _finalize_scan.
Finalize ==
  /\ scan # None
  /\ \A c \in Companies : \E s \in sources : s.scan = scan /\ s.company = c
  /\ scan' = None
  /\ UNCHANGED <<now, search, role, sources, cursor>>

\* _fail_scan, or a scan that was cancelled: none of its sources counts as clean, whatever it
\* listed; what was found stays.
EndInVain ==
  /\ scan # None
  /\ scan' = None
  /\ sources' = {[s EXCEPT !.clean = @ /\ s.scan # scan] : s \in sources}
  /\ UNCHANGED <<now, search, role, cursor>>

\* decide_owner_opportunity.
Decide(r) ==
  /\ role[r].decision # "unknown"
  /\ role' = [role EXCEPT ![r].decision = IF @ = "inbox" THEN "watch" ELSE "inbox"]
  /\ UNCHANGED <<now, search, sources, scan, cursor>>

\* The profile, its evidence or another decision changes what a role is judged to be.
Judge(r) ==
  /\ role[r].decision # "unknown"
  /\ \E t \in Tiers \ {role[r].tier} : role' = [role EXCEPT ![r].tier = t]
  /\ UNCHANGED <<now, search, sources, scan, cursor>>

\* update_saved_search.
EditSearch ==
  /\ Changes < MaxChanges
  /\ \E active \in BOOLEAN : search' = [version |-> search.version + 1, active |-> active]
  /\ UNCHANGED <<now, role, sources, scan, cursor>>

Tick == /\ now < MaxTime /\ now' = now + 1
        /\ UNCHANGED <<search, role, sources, scan, cursor>>

TodayInit ==
  /\ now = 0
  /\ search = [version |-> 1, active |-> TRUE]
  /\ role = [r \in Roles |-> Unknown]
  /\ sources = {}
  /\ scan = None
  /\ cursor = FirstPage("recommended").next

TodayNext ==
  \/ \E sort \in {"recommended", "newest"} : Load(sort) \/ LoadMore(sort)
  \/ Begin \/ Finalize \/ EndInVain \/ EditSearch \/ Tick
  \/ \E c \in Companies : \E seen \in SUBSET {r \in Roles : Company[r] = c} :
       \E changed \in SUBSET seen, clean \in BOOLEAN : Fetch(c, seen, changed, clean)
  \/ \E r \in Roles : Decide(r) \/ Judge(r)

TodaySpec == TodayInit /\ [][TodayNext]_todayVars

(***************************************************************************)
(* Properties.                                                             *)
(***************************************************************************)
\* docs/PHASE_2_OPPORTUNITY_RADAR.md:103: whatever scans, decisions and edits come between
\* two pages of the recommended list, an answer continues the list its cursor was cut from,
\* judged as it is now, up to its end, or it is refused.
PagesContinueTheirList ==
  LET answer == NextPage(cursor)
      items  == answer.items
  IN  cursor # None /\ cursor.sort = "recommended" /\ answer # Refused =>
        /\ items # <<>> /\ cursor.offset + Len(items) <= Len(cursor.order)
        /\ \A i \in DOMAIN items : cursor.order[cursor.offset + i] =
                                      <<items[i], role[items[i]].surfaced, role[items[i]].tier>>
        /\ IF answer.next = None THEN cursor.offset + Len(items) = Len(cursor.order)
           ELSE answer.next = [cursor EXCEPT !.offset = @ + Len(items)]

\* Once anything was listed without a warning, a scan that ends takes a role out of the inbox
\* only by one of its own sources, of the company of the role, that gave no warning and does not
\* list it.  A source that failed, warned or listed nothing takes nothing away, nor does one of
\* another company, nor a scan that failed or was cancelled.  It says nothing of how complete
\* a list without a warning is: a partial or a filtered one does take roles away, against
\* docs/PHASE_2_OPPORTUNITY_RADAR.md:155-157 (FailureHidesNothing in SourceFetch).
LastGoodStays ==
  [][scan # None /\ scan' = None /\ Reliable(now) # {} =>
       \A r \in Inbox(now) \ Inbox(now)' :
         \E s \in sources' : s.scan = scan /\ s.clean /\ s.company = Company[r] /\ r \notin s.seen]_todayVars
=============================================================================
