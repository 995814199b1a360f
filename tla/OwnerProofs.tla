----------------------------- MODULE OwnerProofs -----------------------------
(***************************************************************************)
(* Theorems about what an owner does once although it is asked for twice:  *)
(* Pursuit for any number of pages, keys, requests on their way and        *)
(* decisions, Account for any number of requests, workspaces, addresses,   *)
(* sessions and keys, and any limits of the throttle.                      *)
(***************************************************************************)
EXTENDS Pursuit, Account, TLAPS

(***************************************************************************)
(* Pursuit.                                                                *)
(***************************************************************************)
Decisions == {"inbox", "watch", "dismiss", "pursued"}

Receipt == [key : Keys, space : 0..MaxEvents, app : 0..MaxEvents, event : 0..MaxEvents]

Kept == [intent : Intent, key : Keys, expected : Nat]

Page == [shows : Shown, kept : SUBSET Kept, waits : Request \cup {NoRequest}]

\* The types, and the bound of the history that they rest on.
Typed == TypeOK /\ Len(events) <= MaxEvents

LEMMA TypedRows ==
  ASSUME Typed
  PROVE  /\ role \in [decision : Decisions, version : Nat \ {0}]
         /\ events \in Seq(Event) /\ Len(events) \in Nat /\ Len(events) <= MaxEvents
         /\ app \in Application
         /\ receipts \subseteq Receipt /\ wire \subseteq Request /\ page \in [Pages -> Page]
BY DEF Typed, TypeOK, Decisions, Receipt, Kept, Page

\* One more decision.
LEMMA Appended ==
  ASSUME NEW S, NEW s \in Seq(S), NEW e \in S
  PROVE  /\ Append(s, e) \in Seq(S)
         /\ Len(s) \in Nat /\ Len(Append(s, e)) = Len(s) + 1
         /\ DOMAIN s = 1..Len(s) /\ DOMAIN Append(s, e) = 1..(Len(s) + 1)
         /\ \A n \in DOMAIN s : Append(s, e)[n] = s[n] /\ s[n] \in S
         /\ Append(s, e)[Len(s) + 1] = e
OBVIOUS

LEMMA NowIsShown ==
  ASSUME MaxEvents \in Nat, Typed
  PROVE  Now \in Shown
BY TypedRows DEF Now, Shown, Decisions

LEMMA NoAppTyped == ASSUME MaxEvents \in Nat PROVE NoApp \in Application
BY DEF NoApp, Application

(***************************************************************************)
(* Types.                                                                  *)
(***************************************************************************)
LEMMA InitTyped == ASSUME MaxEvents \in Nat, PursuitInit PROVE Typed
<1>1. /\ role \in [decision : Decisions, version : Nat \ {0}]
      /\ events \in Seq(Event) /\ Len(events) = 0
      /\ app \in Application /\ receipts \subseteq Receipt /\ wire \subseteq Request
  BY NoAppTyped DEF PursuitInit, Decisions
<1>2. Now \in Shown
  BY <1>1 DEF Now, Shown, Decisions
<1>3. page \in [Pages -> Page]
  BY <1>2 DEF PursuitInit, Page
<1> QED  BY <1>1, <1>3 DEF Typed, TypeOK, Decisions, Receipt, Kept, Page

LEMMA PagesTyped ==
  ASSUME MaxEvents \in Nat, Typed, NEW p \in Pages,
         \/ Open(p) \/ Load(p) \/ Abandon(p)
         \/ \E i \in Intent : \E what \in Said(i) : Click(p, i, what)
  PROVE  Typed'
<1> USE TypedRows, NowIsShown DEF rows
<1>1. page[p] \in Page /\ page[p].shows \in Shown /\ page[p].kept \subseteq Kept
  BY DEF Page
<1>2. CASE Open(p) \/ Load(p) \/ Abandon(p)
  <2>1. UNCHANGED <<role, events, app, receipts, wire>> /\ page' \in [Pages -> Page]
    BY <1>1, <1>2 DEF Open, Load, Abandon, Page
  <2> QED  BY <2>1 DEF Typed, TypeOK, Decisions, Receipt, Kept, Page
<1>3. ASSUME NEW i \in Intent, NEW what \in Said(i), Click(p, i, what)
      PROVE  Typed'
  <2>1. PICK k \in Drafts(p, i) :
          LET r == [key |-> k.key, intent |-> i, what |-> what, expected |->
                      IF i.action = "undo" THEN k.expected ELSE page[p].shows.version]
          IN  /\ wire' = wire \cup {r}
              /\ page' = [page EXCEPT ![p].kept = @ \cup {k}, ![p].waits = r]
    BY <1>3 DEF Click
  <2>2. k \in Kept /\ k.key \in Keys /\ k.expected \in Nat
    BY <1>1 DEF Drafts, Kept, Shown, Application
  <2> DEFINE r == [key |-> k.key, intent |-> i, what |-> what, expected |->
                     IF i.action = "undo" THEN k.expected ELSE page[p].shows.version]
  <2>3. what \in Payloads \cup {0} /\ page[p].shows.version \in Nat
    BY <1>1 DEF Said, Shown
  <2>4. r \in Request
    BY <2>2, <2>3 DEF Request
  <2>5. wire' \subseteq Request /\ page' \in [Pages -> Page]
    BY <1>1, <2>1, <2>2, <2>4 DEF Page
  <2>6. UNCHANGED <<role, events, app, receipts>>
    BY <1>3 DEF Click
  <2> QED  BY <2>5, <2>6 DEF Typed, TypeOK, Decisions, Receipt, Kept, Page
<1> QED  BY <1>2, <1>3

\* An answer leaves pages what pages are.
LEMMA AnsweredTyped ==
  ASSUME Typed, NEW r \in wire, NEW granted \in BOOLEAN, NEW said \in Shown,
         Answered(r, granted, said)
  PROVE  page' \in [Pages -> Page]
<1>1. PICK got \in SUBSET {p \in Pages : page[p].waits = r} :
        page' = [p \in Pages |->
          IF p \notin got THEN page[p]
          ELSE [shows |-> IF granted THEN said ELSE page[p].shows,
                kept  |-> IF granted /\ r.intent.action \in {"pursue", "undo"} THEN {}
                          ELSE IF granted \/ r.intent.action = "undo"
                          THEN {k \in page[p].kept : k.intent # r.intent}
                          ELSE page[p].kept,
                waits |-> NoRequest]]
  BY DEF Answered
<1> SUFFICES ASSUME NEW p \in Pages PROVE page'[p] \in Page
  BY <1>1
<1>2. page[p] \in Page /\ page[p].shows \in Shown /\ page[p].kept \subseteq Kept
  BY TypedRows DEF Page
<1>3. CASE p \notin got
  BY <1>1, <1>2, <1>3
<1>4. CASE p \in got
  <2>1. page'[p].kept \subseteq page[p].kept
    BY <1>1, <1>2, <1>4
  <2> QED  BY <1>1, <1>2, <1>4, <2>1 DEF Page
<1> QED  BY <1>3, <1>4

\* What a decision leaves; its place in the history is in bounds.
LEMMA RecordTyped ==
  ASSUME MaxEvents \in Nat, Typed, NEW r \in wire, NEW new \in Decisions,
         NEW key \in Keys \cup {NoKey}, NEW id \in 0..MaxEvents, Record(r, new, key, id)
  PROVE  /\ role' \in [decision : Decisions, version : Nat \ {0}]
         /\ role'.decision = new
         /\ events' \in Seq(Event) /\ Len(events') = Len(events) + 1
         /\ Len(events) + 1 \in 0..MaxEvents
<1> DEFINE row == [key |-> key, action |-> r.intent.action, what |-> r.what,
                   old |-> role.decision, new |-> new, app |-> id]
<1>1. r.intent \in Intent /\ r.what \in Payloads \cup {0} /\ role.decision \in Decisions
  BY TypedRows DEF Request
<1>2. row \in Event
  BY <1>1 DEF Event, Intent, Decisions
<1>3. events' = Append(events, row) /\ Len(events) < MaxEvents
      /\ role' = [role EXCEPT !.decision = new, !.version = @ + 1]
  BY DEF Record
<1>4. /\ events' \in Seq(Event) /\ Len(events') = Len(events) + 1
      /\ Len(events) \in Nat
  BY <1>2, <1>3, TypedRows, Appended
<1>5. PICK d \in Decisions, v \in Nat \ {0} : role = [decision |-> d, version |-> v]
  BY TypedRows
<1>6. role' = [decision |-> new, version |-> v + 1]
  BY <1>3, <1>5
<1> QED  BY <1>3, <1>4, <1>5, <1>6

\* A grant whose answer is Now'.
LEMMA GrantTyped ==
  ASSUME MaxEvents \in Nat, Typed, NEW r \in wire, Answered(r, TRUE, Now'),
         role' \in [decision : Decisions, version : Nat \ {0}], events' \in Seq(Event),
         Len(events') <= MaxEvents, app' \in Application, receipts' \subseteq Receipt,
         wire' \subseteq wire
  PROVE  Typed'
<1>1. Now' \in Shown
  BY DEF Now, Shown, Decisions
<1>2. page' \in [Pages -> Page]
  BY <1>1, AnsweredTyped
<1>3. wire' \subseteq Request
  BY TypedRows
<1> QED  BY <1>2, <1>3 DEF Typed, TypeOK, Decisions, Receipt, Kept, Page

\* An answer that changes no row.
LEMMA ReplayTyped ==
  ASSUME MaxEvents \in Nat, Typed, NEW r \in wire, NEW granted \in BOOLEAN,
         NEW said \in Shown, Answered(r, granted, said),
         UNCHANGED rows, wire' \subseteq wire
  PROVE  Typed'
<1>1. page' \in [Pages -> Page] /\ wire' \subseteq Request
  BY AnsweredTyped, TypedRows
<1> QED  BY <1>1, TypedRows DEF Typed, TypeOK, Decisions, Receipt, Kept, Page, rows

LEMMA DeliverTyped ==
  ASSUME MaxEvents \in Nat, Typed, NEW r \in wire, Deliver(r)
  PROVE  Typed'
<1> USE TypedRows
<1>1. wire' \subseteq wire /\ r.key \in Keys /\ r.intent \in Intent
  BY DEF Deliver, Request
<1>2. CASE DecideAgain(r)
  <2>1. PICK n \in EventsOf(r) : Answered(r, TRUE, [Now EXCEPT !.last = n])
    BY <1>2 DEF DecideAgain
  <2>2. n \in 0..MaxEvents
    BY <2>1 DEF EventsOf
  <2>3. [Now EXCEPT !.last = n] \in Shown
    BY <2>2, NowIsShown DEF Shown
  <2> QED  BY <1>1, <1>2, <2>1, <2>3, ReplayTyped DEF DecideAgain
<1>3. CASE Decide(r)
  <2>1. Decided(r.intent.action) \in Decisions
    BY DEF Decided, Decisions
  <2>2. /\ Record(r, Decided(r.intent.action), r.key, 0) /\ Answered(r, TRUE, Now')
        /\ UNCHANGED <<app, receipts>>
    BY <1>3 DEF Decide
  <2>3. 0 \in 0..MaxEvents
    OBVIOUS
  <2>4. /\ role' \in [decision : Decisions, version : Nat \ {0}]
        /\ events' \in Seq(Event) /\ Len(events') <= MaxEvents
    BY <1>1, <2>1, <2>2, <2>3, RecordTyped
  <2> QED  BY <1>1, <2>2, <2>4, GrantTyped
<1>4. CASE PursueAgain(r) \/ UndoAgain(r)
  <2>1. Answered(r, TRUE, Now) /\ UNCHANGED rows
    BY <1>4 DEF PursueAgain, UndoAgain
  <2> QED  BY <1>1, <2>1, NowIsShown, ReplayTyped
<1>5. CASE Refuse(r)
  <2>1. Answered(r, FALSE, Now) /\ UNCHANGED rows
    BY <1>5 DEF Refuse
  <2> QED  BY <1>1, <2>1, NowIsShown, ReplayTyped
<1>6. CASE PursueExisting(r)
  <2>1. /\ receipts' = receipts \cup {[key |-> r.key, space |-> 0, app |-> app.id, event |-> 0]}
        /\ UNCHANGED <<role, events, app>>
    BY <1>6 DEF PursueExisting
  <2>2. receipts' \subseteq Receipt
    BY <1>1, <2>1 DEF Receipt, Application
  <2>3. Now' = Now
    BY <2>1 DEF Now
  <2>4. Answered(r, TRUE, Now')
    BY <1>6, <2>3 DEF PursueExisting
  <2> QED  BY <1>1, <2>1, <2>2, <2>4, GrantTyped
<1>7. CASE Pursue(r)
  <2> DEFINE id == Len(events) + 1
  <2>1. /\ Record(r, "pursued", r.key, id) /\ Answered(r, TRUE, Now')
        /\ app' = [id |-> id, version |-> 1, progressed |-> FALSE]
        /\ receipts' = receipts \cup {[key |-> r.key, space |-> 0, app |-> id, event |-> id]}
    BY <1>7 DEF Pursue
  <2>2. id \in 0..MaxEvents
    BY <2>1 DEF Record
  <2>3. /\ role' \in [decision : Decisions, version : Nat \ {0}]
        /\ events' \in Seq(Event) /\ Len(events') <= MaxEvents
    BY <1>1, <2>1, <2>2, RecordTyped DEF Decisions
  <2>4. app' \in Application /\ receipts' \subseteq Receipt
    BY <1>1, <2>1, <2>2 DEF Application, Receipt
  <2> QED  BY <1>1, <2>1, <2>3, <2>4, GrantTyped
<1>8. CASE Undo(r)
  <2>1. /\ Record(r, "inbox", NoKey, app.id) /\ Answered(r, TRUE, Now')
        /\ app' = NoApp
        /\ receipts' = receipts \cup {[key |-> r.key, space |-> app.id, app |-> 0,
                                       event |-> Len(events) + 1]}
    BY <1>8 DEF Undo
  <2>2. app.id \in 0..MaxEvents /\ "inbox" \in Decisions /\ NoKey \in Keys \cup {NoKey}
    BY DEF Application, Decisions
  <2>3. /\ role' \in [decision : Decisions, version : Nat \ {0}]
        /\ events' \in Seq(Event) /\ Len(events') = Len(events) + 1
        /\ Len(events) + 1 \in 0..MaxEvents
    <3> HIDE TypedRows
    <3> QED  BY <2>1, <2>2, RecordTyped
  <2>4. app' \in Application /\ receipts' \subseteq Receipt
    BY <1>1, <2>1, <2>2, <2>3, NoAppTyped DEF Receipt
  <2>5. Len(events') <= MaxEvents
    BY <2>3
  <2> QED  BY <1>1, <2>1, <2>3, <2>4, <2>5, GrantTyped
<1> QED  BY <1>2, <1>3, <1>4, <1>5, <1>6, <1>7, <1>8 DEF Deliver

LEMMA OthersTyped ==
  ASSUME Typed, Surface \/ Work
  PROVE  Typed'
<1>1. CASE Surface
  <2>1. PICK d \in Decisions, v \in Nat \ {0} : role = [decision |-> d, version |-> v]
    BY TypedRows
  <2>2. role' = [decision |-> d, version |-> v + 1]
    BY <1>1, <2>1 DEF Surface
  <2>3. role' \in [decision : Decisions, version : Nat \ {0}]
    BY <2>2
  <2> QED  BY <1>1, <2>3, TypedRows DEF Surface, Typed, TypeOK, Decisions, Receipt, Kept, Page
<1>2. CASE Work
  <2>1. PICK i \in 0..MaxEvents, v \in Nat, done \in BOOLEAN :
          app = [id |-> i, version |-> v, progressed |-> done]
    BY TypedRows DEF Application
  <2>2. PICK progressed \in {TRUE, app.progressed} :
          app' = [app EXCEPT !.version = @ + 1, !.progressed = progressed]
    BY <1>2 DEF Work
  <2>3. app' = [id |-> i, version |-> v + 1, progressed |-> progressed]
    BY <2>1, <2>2
  <2>4. progressed \in BOOLEAN
    BY <2>1
  <2>5. app' \in Application
    BY <2>3, <2>4 DEF Application
  <2> QED  BY <1>2, <2>5, TypedRows DEF Work, Typed, TypeOK, Decisions, Receipt, Kept, Page
<1> QED  BY <1>1, <1>2

LEMMA NextTyped ==
  ASSUME MaxEvents \in Nat, Typed, [PursuitNext]_pursuitVars
  PROVE  Typed'
<1>1. CASE UNCHANGED pursuitVars
  BY <1>1 DEF pursuitVars, Typed, TypeOK
<1>2. CASE PursuitNext
  BY <1>2, PagesTyped, DeliverTyped, OthersTyped DEF PursuitNext
<1> QED  BY <1>1, <1>2

\* Rows, requests and pages keep their types.
THEOREM TypeCorrect ==
  ASSUME MaxEvents \in Nat
  PROVE  PursuitSpec => []TypeOK
<1>1. PursuitInit => Typed
  BY InitTyped
<1>2. Typed /\ [PursuitNext]_pursuitVars => Typed'
  BY NextTyped
<1>3. Typed => TypeOK
  BY DEF Typed
<1> QED  BY <1>1, <1>2, <1>3, PTL DEF PursuitSpec

(***************************************************************************)
(* The story.  An application that exists has an id of its own, which      *)
(* tells it from none.                                                     *)
(***************************************************************************)
Story == PursuitsAgree /\ (app # NoApp => app.id > 0)

PursuitInv == Typed /\ Story /\ KeysActOnce

\* A decision recorded under a key that decided nothing before, or under none.
LEMMA RecordAgrees ==
  ASSUME MaxEvents \in Nat, PursuitInv, NEW r \in wire, NEW new \in Decisions,
         NEW key \in Keys \cup {NoKey}, NEW id \in 0..MaxEvents, Record(r, new, key, id),
         key = NoKey \/ \A n \in DOMAIN events : events[n].key # key
  PROVE  /\ role'.decision = new /\ events' # <<>>
         /\ events'[Len(events')].new = new /\ events'[Len(events')].app = id
         /\ Chained' /\ KeysActOnce'
<1> DEFINE row == [key |-> key, action |-> r.intent.action, what |-> r.what,
                   old |-> role.decision, new |-> new, app |-> id]
           last == Len(events)
<1>1. r.intent \in Intent /\ r.what \in Payloads \cup {0} /\ role.decision \in Decisions
  BY TypedRows DEF PursuitInv, Request
<1>2. row \in Event
  BY <1>1 DEF Event, Intent, Decisions
<1>3. events' = Append(events, row)
  BY DEF Record
<1>4. /\ last \in Nat /\ Len(events') = last + 1
      /\ DOMAIN events = 1..last /\ DOMAIN events' = 1..(last + 1)
      /\ \A n \in DOMAIN events : events'[n] = events[n]
      /\ events'[last + 1] = row
  BY <1>2, <1>3, TypedRows, Appended DEF PursuitInv
<1>5. role'.decision = new
  BY RecordTyped DEF PursuitInv
<1>6. role.decision = IF last = 0 THEN "inbox" ELSE events[last].new
  BY <1>4, TypedRows DEF PursuitInv, Story, PursuitsAgree
<1>7. Chained'
  <2> SUFFICES ASSUME NEW n \in DOMAIN events'
               PROVE  events'[n].old = IF n = 1 THEN "inbox" ELSE events'[n - 1].new
    BY DEF Chained
  <2>1. CASE n \in DOMAIN events
    <3>1. n = 1 \/ n - 1 \in DOMAIN events
      BY <1>4, <2>1
    <3> QED  BY <1>4, <2>1, <3>1 DEF PursuitInv, Story, PursuitsAgree, Chained
  <2>2. CASE n = last + 1
    <3>1. events'[n].old = role.decision
      BY <1>4, <2>2
    <3>2. n = 1 <=> last = 0
      BY <1>4, <2>2
    <3>3. last # 0 => events'[n - 1] = events[last]
      BY <1>4, <2>2
    <3> QED  BY <1>6, <3>1, <3>2, <3>3
  <2> QED  BY <1>4, <2>1, <2>2
<1>8. KeysActOnce'
  BY <1>4 DEF PursuitInv, KeysActOnce
<1>9. events' # <<>>
  BY <1>4
<1> QED  BY <1>4, <1>5, <1>7, <1>8, <1>9

LEMMA RowsAgree ==
  ASSUME PursuitInv, UNCHANGED <<role, events, app>>
  PROVE  Story' /\ KeysActOnce'
BY DEF PursuitInv, Story, PursuitsAgree, Chained, KeysActOnce

LEMMA DeliverAgrees ==
  ASSUME MaxEvents \in Nat, PursuitInv, NEW r \in wire, Deliver(r)
  PROVE  Story' /\ KeysActOnce'
<1>1. r.key \in Keys /\ r.intent \in Intent
  BY TypedRows DEF PursuitInv, Request
<1>2. CASE DecideAgain(r) \/ PursueAgain(r) \/ UndoAgain(r) \/ Refuse(r)
  BY <1>2, RowsAgree DEF DecideAgain, PursueAgain, UndoAgain, Refuse, rows
<1>3. CASE Decide(r)
  <2> DEFINE new == Decided(r.intent.action)
  <2>1. /\ Record(r, new, r.key, 0) /\ app' = app
        /\ IsDecision(r) /\ EventsOf(r) = {} /\ role.decision # "pursued"
    BY <1>3 DEF Decide, Decidable
  <2>2. new \in Decisions /\ new # "pursued" /\ 0 \in 0..MaxEvents
    BY <2>1 DEF Decided, IsDecision, Decisions
  <2>3. \A n \in DOMAIN events : events[n].key # r.key
    BY <2>1 DEF EventsOf
  <2>4. /\ role'.decision = new /\ events' # <<>> /\ events'[Len(events')].new = new
        /\ Chained' /\ KeysActOnce'
    BY <1>1, <2>1, <2>2, <2>3, RecordAgrees
  <2>5. app' = NoApp
    BY <2>1 DEF PursuitInv, Story, PursuitsAgree
  <2> QED  BY <2>2, <2>4, <2>5 DEF Story, PursuitsAgree, NoApp
<1>4. CASE PursueExisting(r)
  BY <1>4, RowsAgree DEF PursueExisting
<1>5. CASE Pursue(r)
  <2> DEFINE id == Len(events) + 1
  <2>1. /\ Record(r, "pursued", r.key, id) /\ EventsOf(r) = {}
        /\ app' = [id |-> id, version |-> 1, progressed |-> FALSE]
    BY <1>5 DEF Pursue, Pursuable
  <2>2. id \in 0..MaxEvents /\ id > 0 /\ "pursued" \in Decisions
    BY <2>1, TypedRows DEF Record, PursuitInv, Decisions
  <2>3. \A n \in DOMAIN events : events[n].key # r.key
    BY <2>1 DEF EventsOf
  <2>4. /\ role'.decision = "pursued" /\ events' # <<>>
        /\ events'[Len(events')].new = "pursued" /\ events'[Len(events')].app = id
        /\ Chained' /\ KeysActOnce'
    BY <1>1, <2>1, <2>2, <2>3, RecordAgrees
  <2>5. app'.id = id /\ app' # NoApp
    BY <2>1, <2>2 DEF NoApp
  <2> QED  BY <2>2, <2>4, <2>5 DEF Story, PursuitsAgree
<1>6. CASE Undo(r)
  <2>1. Record(r, "inbox", NoKey, app.id) /\ app' = NoApp
    BY <1>6 DEF Undo
  <2>2. app.id \in 0..MaxEvents /\ "inbox" \in Decisions /\ NoKey \in Keys \cup {NoKey}
    BY TypedRows DEF PursuitInv, Application, Decisions
  <2>3. /\ role'.decision = "inbox" /\ events' # <<>> /\ events'[Len(events')].new = "inbox"
        /\ Chained' /\ KeysActOnce'
    BY <2>1, <2>2, RecordAgrees
  <2> QED  BY <2>1, <2>3 DEF Story, PursuitsAgree
<1> QED  BY <1>2, <1>3, <1>4, <1>5, <1>6 DEF Deliver

LEMMA OthersAgree ==
  ASSUME PursuitInv, Surface \/ Work
  PROVE  Story' /\ KeysActOnce'
<1>1. CASE Surface
  <2>1. role'.decision = role.decision /\ UNCHANGED <<events, app>>
    BY <1>1, TypedRows DEF Surface, PursuitInv
  <2> QED  BY <2>1 DEF PursuitInv, Story, PursuitsAgree, Chained, KeysActOnce
<1>2. CASE Work
  <2>1. app'.id = app.id /\ app # NoApp /\ UNCHANGED <<role, events>>
    BY <1>2, TypedRows DEF Work, PursuitInv, Application
  <2>2. app.id > 0 /\ app' # NoApp
    BY <2>1 DEF PursuitInv, Story, NoApp
  <2> QED  BY <2>1, <2>2 DEF PursuitInv, Story, PursuitsAgree, Chained, KeysActOnce
<1> QED  BY <1>1, <1>2

LEMMA InitAgrees == ASSUME PursuitInit PROVE Story /\ KeysActOnce
BY DEF PursuitInit, Story, PursuitsAgree, Chained, KeysActOnce, NoApp

LEMMA NextAgrees ==
  ASSUME MaxEvents \in Nat, PursuitInv, [PursuitNext]_pursuitVars
  PROVE  PursuitInv'
<1>1. Typed'
  BY NextTyped DEF PursuitInv
<1>2. Story' /\ KeysActOnce'
  <2>1. CASE UNCHANGED pursuitVars
    BY <2>1, RowsAgree DEF pursuitVars
  <2>2. CASE \E p \in Pages : \/ Open(p) \/ Load(p) \/ Abandon(p)
                              \/ \E i \in Intent : \E what \in Said(i) : Click(p, i, what)
    <3>1. UNCHANGED <<role, events, app>>
      BY <2>2 DEF Open, Load, Abandon, Click, rows
    <3> QED  BY <3>1, RowsAgree
  <2>3. CASE (\E r \in wire : Deliver(r)) \/ Surface \/ Work
    BY <2>3, DeliverAgrees, OthersAgree
  <2> QED  BY <2>1, <2>2, <2>3 DEF PursuitNext
<1> QED  BY <1>1, <1>2 DEF PursuitInv

\* opportunity_repository.py, decide_owner_opportunity, and application_repository.py, pursue and
\* undo: decision, events and application tell one story, whatever requests are repeated,
\* delayed and crossed.
THEOREM OneStory ==
  ASSUME MaxEvents \in Nat
  PROVE  PursuitSpec => []PursuitsAgree
<1>1. PursuitInit => PursuitInv
  BY InitTyped, InitAgrees DEF PursuitInv
<1>2. PursuitInv /\ [PursuitNext]_pursuitVars => PursuitInv'
  BY NextAgrees
<1>3. PursuitInv => PursuitsAgree
  BY DEF PursuitInv, Story
<1> QED  BY <1>1, <1>2, <1>3, PTL DEF PursuitSpec

\* mutation_receipts.py, claim_owner_mutation, and the keys of decision events: a key decides
\* at most once.
THEOREM OneDecisionPerKey ==
  ASSUME MaxEvents \in Nat
  PROVE  PursuitSpec => []KeysActOnce
<1>1. PursuitInit => PursuitInv
  BY InitTyped, InitAgrees DEF PursuitInv
<1>2. PursuitInv /\ [PursuitNext]_pursuitVars => PursuitInv'
  BY NextAgrees
<1>3. PursuitInv => KeysActOnce
  BY DEF PursuitInv
<1> QED  BY <1>1, <1>2, <1>3, PTL DEF PursuitSpec

\* application_repository.py, _undo_pursuit_blocker: no command deletes or replaces an
\* application that has progressed.
THEOREM ProgressKept ==
  ASSUME MaxEvents \in Nat
  PROVE  PursuitSpec => ProgressIsKept
<1>1. PursuitInit => PursuitInv
  BY InitTyped, InitAgrees DEF PursuitInv
<1>2. PursuitInv /\ [PursuitNext]_pursuitVars => PursuitInv'
  BY NextAgrees
<1>3. PursuitInv /\ [PursuitNext]_pursuitVars => [app.progressed => app'.id = app.id]_pursuitVars
  <2> SUFFICES ASSUME PursuitInv, PursuitNext, app.progressed PROVE app'.id = app.id
    OBVIOUS
  <2>1. app # NoApp
    BY DEF NoApp
  <2>2. CASE \E r \in wire : Deliver(r)
    BY <2>1, <2>2 DEF Deliver, DecideAgain, Decide, PursueAgain, PursueExisting, Pursue,
      Pursuable, UndoAgain, Undo, Undoable, Refuse, rows
  <2>3. CASE Work
    BY <2>3, TypedRows DEF Work, PursuitInv, Application
  <2> QED  BY <2>2, <2>3 DEF PursuitNext, Open, Load, Abandon, Click, Surface, rows
<1> QED  BY <1>1, <1>2, <1>3, PTL DEF PursuitSpec, ProgressIsKept

(***************************************************************************)
(* Account.                                                                *)
(***************************************************************************)
AccountSession == [owner : Owners \cup {None}, until : Nat, revoked : BOOLEAN]

\* The requests, and what each step of one knows.
AccountRequest ==
  {Idle} \cup [op : {"capacity", "create"}, owner : {None}, token : {None}, arg : Emails]
         \cup [op : {"grant"}, owner : Owners, token : {None}, arg : {None}]
         \cup [op : {"logout"}, owner : Owners, token : Tokens, arg : {None}]
         \cup [op : {"claim"}, owner : Owners, token : Tokens, arg : Emails]
         \cup [op : {"delete", "erase"}, owner : Owners, token : Tokens, arg : DeletionKeys]

AccountTypeOK ==
  /\ clock \in Nat
  /\ owner \in [Owners -> {"unused", "present", "erased"}]
  /\ email \in [Owners -> Emails \cup {None}]
  /\ session \in [Tokens -> AccountSession]
  /\ req \in [Clients -> AccountRequest]

AccountInv == AccountTypeOK /\ AccountsCoherent

(***************************************************************************)
(* What the transactions write.                                            *)
(***************************************************************************)
LEMMA NextRequest ==
  ASSUME AccountTypeOK, NEW c \in Clients, NEW r \in AccountRequest, req' = [req EXCEPT ![c] = r]
  PROVE  req' \in [Clients -> AccountRequest]
BY DEF AccountTypeOK

LEMMA IdleIsRequest == Idle \in AccountRequest
BY DEF AccountRequest

\* What a request under way names.
LEMMA RequestNames ==
  ASSUME AccountTypeOK, NEW c \in Clients
  PROVE  /\ req[c].op \in {"capacity", "create"} => req[c].arg \in Emails
         /\ req[c].op \in {"grant", "logout", "claim", "delete", "erase"} => req[c].owner \in Owners
         /\ req[c].op \in {"logout", "claim", "delete", "erase"} => req[c].token \in Tokens
         /\ req[c].op = "claim" => req[c].arg \in Emails
         /\ req[c].op \in {"delete", "erase"} => req[c].arg \in DeletionKeys
         /\ req[c] = Idle <=> req[c].op = "idle"
<1>1. req[c] \in AccountRequest
  BY DEF AccountTypeOK
<1> QED BY <1>1 DEF AccountRequest, Idle

\* A session of a workspace that is present afterwards.
LEMMA GrantKeeps ==
  ASSUME SessionTtl \in Nat, NEW now \in Nat, clock = now,
         NEW states \in [Tokens -> AccountSession], NEW o \in Owners, GrantFrom(states, o)
  PROVE  /\ session' \in [Tokens -> AccountSession]
         /\ \A t \in Tokens : session'[t].owner \in {states[t].owner, o}
         /\ \A t \in issued : t \in Tokens => session'[t] = states[t]
<1>1. PICK t \in Tokens \ issued :
        session' = [states EXCEPT ![t] = [owner |-> o, until |-> clock + SessionTtl, revoked |-> FALSE]]
  BY DEF GrantFrom
<1>2. [owner |-> o, until |-> clock + SessionTtl, revoked |-> FALSE] \in AccountSession
  BY DEF AccountSession
<1> QED BY <1>1, <1>2

LEMMA AttachedKeeps ==
  ASSUME AccountTypeOK, NEW o \in Owners
  PROVE  /\ AttachedTo(o) \in [Tokens -> AccountSession]
         /\ \A t \in Tokens : /\ AttachedTo(o)[t].owner = session[t].owner
                              /\ session[t].owner = o => AttachedTo(o)[t].revoked
<1>1. ASSUME NEW t \in Tokens
      PROVE  /\ [session[t] EXCEPT !.revoked = TRUE] \in AccountSession
             /\ [session[t] EXCEPT !.revoked = TRUE].owner = session[t].owner
             /\ [session[t] EXCEPT !.revoked = TRUE].revoked
             /\ session[t] \in AccountSession
  BY DEF AccountTypeOK, AccountSession
<1> QED BY <1>1 DEF AttachedTo

(***************************************************************************)
(* Addresses, credentials and sessions.                                    *)
(***************************************************************************)
LEMMA InitCoherent == ASSUME SessionTtl \in Nat, AccountInit PROVE AccountInv
<1>1. Legacy \in Owners
  BY DEF Owners
<1>2. owner \in [Owners -> {"unused", "present", "erased"}]
  BY DEF AccountInit
<1>3. session \in [Tokens -> AccountSession]
  <2>1. /\ [owner |-> Legacy, until |-> 1 + SessionTtl, revoked |-> FALSE] \in AccountSession
        /\ NoSession \in AccountSession
    BY <1>1 DEF AccountSession, NoSession
  <2> QED BY <2>1 DEF AccountInit
<1>4. req \in [Clients -> AccountRequest]
  BY IdleIsRequest DEF AccountInit
<1>5. AccountTypeOK
  BY <1>2, <1>3, <1>4 DEF AccountTypeOK, AccountInit
<1>6. \A t \in Tokens : session[t].owner # None => session[t].owner = Legacy /\ Present(Legacy)
  <2>1. ASSUME NEW t \in Tokens, session[t].owner # None PROVE t \in issued
    BY <2>1 DEF AccountInit, NoSession
  <2> QED BY <2>1 DEF AccountInit, Present
<1>7. AccountsCoherent
  BY <1>6 DEF AccountsCoherent, AccountInit
<1> QED BY <1>5, <1>7 DEF AccountInv

\* Steps that only move requests along, and end sessions.
LEMMA RowsStay ==
  ASSUME AccountInv, UNCHANGED <<owner, email>>, clock' \in Nat, req' \in [Clients -> AccountRequest],
         session' \in [Tokens -> AccountSession],
         \A t \in Tokens : session'[t].owner = session[t].owner
  PROVE  AccountInv'
BY DEF AccountInv, AccountTypeOK, AccountsCoherent, Present

\* Steps that give a workspace a session, and perhaps a first address.
LEMMA RowsGrow ==
  ASSUME AccountInv, NEW o \in Owners,
         owner' \in [Owners -> {"unused", "present", "erased"}],
         owner'[o] = "present", \A p \in Owners : Present(p) => owner'[p] = "present",
         \/ email' = email
         \/ \E e \in Emails : ~Taken(e) /\ email' = [email EXCEPT ![o] = e],
         clock' = clock, req' \in [Clients -> AccountRequest],
         session' \in [Tokens -> AccountSession],
         \A t \in Tokens : session'[t].owner \in {session[t].owner, o}
  PROVE  AccountInv'
<1>1. AccountTypeOK'
  BY DEF AccountInv, AccountTypeOK
<1>2. \A p \in Owners : email'[p] # None => owner'[p] = "present"
  BY DEF AccountInv, AccountTypeOK, AccountsCoherent
<1>3. \A p, q \in Owners : email'[p] = email'[q] /\ email'[p] # None => p = q
  BY DEF AccountInv, AccountTypeOK, AccountsCoherent, Taken
<1>4. \A t \in Tokens : session'[t].owner # None => owner'[session'[t].owner] = "present"
  <2>1. \A t \in Tokens : session[t].owner \in Owners \cup {None}
    BY DEF AccountInv, AccountTypeOK, AccountSession
  <2> QED BY <2>1 DEF AccountInv, AccountsCoherent, Present
<1> QED BY <1>1, <1>2, <1>3, <1>4 DEF AccountInv, AccountsCoherent, Present

LEMMA CreateKeeps ==
  ASSUME SessionTtl \in Nat, AccountInv, NEW c \in Clients, CreateAccount(c)
  PROVE  AccountInv'
<1>1. req[c].arg \in Emails
  BY RequestNames DEF CreateAccount, AccountInv
<1>2. PICK o \in NewOwners :
        /\ owner[o] = "unused" /\ EnsureOwner(o)
        /\ email' = [email EXCEPT ![o] = req[c].arg] /\ GrantFrom(session, o)
  BY DEF CreateAccount
<1>3. o \in Owners
  BY DEF Owners
<1>4. /\ clock' = clock /\ req' \in [Clients -> AccountRequest] /\ ~Taken(req[c].arg)
  BY NextRequest, IdleIsRequest DEF CreateAccount, Done, MayAttach, AccountInv
<1>5. /\ owner' \in [Owners -> {"unused", "present", "erased"}]
      /\ owner'[o] = "present" /\ \A p \in Owners : Present(p) => owner'[p] = "present"
  BY <1>2, <1>3 DEF EnsureOwner, Present, AccountInv, AccountTypeOK
<1>6. /\ session' \in [Tokens -> AccountSession]
      /\ \A t \in Tokens : session'[t].owner \in {session[t].owner, o}
  BY <1>2, <1>3, GrantKeeps DEF AccountInv, AccountTypeOK
<1> QED BY <1>1, <1>2, <1>3, <1>4, <1>5, <1>6, RowsGrow

LEMMA GrantStepKeeps ==
  ASSUME SessionTtl \in Nat, AccountInv, NEW c \in Clients, LoginGrant(c)
  PROVE  AccountInv'
<1>1. req[c].owner \in Owners
  BY RequestNames DEF LoginGrant, AccountInv
<1>2. PICK o \in Owners : o = req[c].owner
  BY <1>1
<1>3. clock' = clock /\ email' = email /\ req' \in [Clients -> AccountRequest]
  BY NextRequest, IdleIsRequest DEF LoginGrant, Done, AccountInv
<1>4. /\ owner' \in [Owners -> {"unused", "present", "erased"}]
      /\ owner'[o] = "present" /\ \A p \in Owners : Present(p) => owner'[p] = "present"
  BY <1>2 DEF LoginGrant, EnsureOwner, Present, AccountInv, AccountTypeOK
<1>5. /\ session' \in [Tokens -> AccountSession]
      /\ \A t \in Tokens : session'[t].owner \in {session[t].owner, o}
  BY <1>2, GrantKeeps DEF LoginGrant, AccountInv, AccountTypeOK
<1> QED BY <1>3, <1>4, <1>5, RowsGrow

\* A claim and a recovery.
LEMMA AttachKeeps ==
  ASSUME SessionTtl \in Nat, AccountInv, NEW o \in Owners, NEW e \in Emails, Attach(o, e),
         UNCHANGED <<clock, owner>>, req' \in [Clients -> AccountRequest]
  PROVE  AccountInv'
<1>1. /\ session' \in [Tokens -> AccountSession]
      /\ \A t \in Tokens : session'[t].owner \in {session[t].owner, o}
  <2>1. /\ AttachedTo(o) \in [Tokens -> AccountSession]
        /\ \A t \in Tokens : AttachedTo(o)[t].owner = session[t].owner
    BY AttachedKeeps DEF AccountInv
  <2>2. GrantFrom(AttachedTo(o), o) /\ clock \in Nat
    BY DEF Attach, AccountInv, AccountTypeOK
  <2>3. /\ session' \in [Tokens -> AccountSession]
        /\ \A t \in Tokens : session'[t].owner \in {AttachedTo(o)[t].owner, o}
    BY <2>1, <2>2, GrantKeeps
  <2> QED BY <2>1, <2>3
<1>2. /\ owner' \in [Owners -> {"unused", "present", "erased"}]
      /\ owner'[o] = "present" /\ \A p \in Owners : Present(p) => owner'[p] = "present"
  BY DEF Attach, Present, AccountInv, AccountTypeOK
<1>3. ~Taken(e) /\ email' = [email EXCEPT ![o] = e]
  BY DEF Attach, MayAttach
<1> QED BY <1>1, <1>2, <1>3, RowsGrow

LEMMA EraseKeeps ==
  ASSUME AccountInv, NEW c \in Clients, Erase(c)
  PROVE  AccountInv'
<1>1. req[c].owner \in Owners
  BY RequestNames DEF Erase, AccountInv
<1>2. PICK o \in Owners : o = req[c].owner
  BY <1>1
<1>3. /\ owner' = [owner EXCEPT ![o] = "erased"]
      /\ email' = [email EXCEPT ![o] = None]
      /\ session' = [t \in Tokens |-> IF session[t].owner = o THEN NoSession ELSE session[t]]
      /\ clock' = clock /\ req' \in [Clients -> AccountRequest]
  BY <1>2, NextRequest, IdleIsRequest DEF Erase, SessionsWithout, Done, AccountInv
<1>4. NoSession \in AccountSession /\ NoSession.owner = None
  BY DEF NoSession, AccountSession
<1>5. AccountTypeOK'
  BY <1>3, <1>4 DEF AccountInv, AccountTypeOK
<1>6. AccountsCoherent'
  <2>1. \A p \in Owners : p # o => owner'[p] = owner[p] /\ email'[p] = email[p]
    BY <1>3 DEF AccountInv, AccountTypeOK
  <2>2. email'[o] = None
    BY <1>3 DEF AccountInv, AccountTypeOK
  <2>3. ASSUME NEW t \in Tokens, session'[t].owner # None
        PROVE  owner'[session'[t].owner] = "present"
    <3>1. session'[t] = session[t] /\ session[t].owner # o /\ session[t].owner # None
      BY <1>3, <1>4, <2>3
    <3>2. session[t].owner \in Owners
      BY <3>1 DEF AccountInv, AccountTypeOK, AccountSession
    <3> QED BY <2>1, <3>1, <3>2 DEF AccountInv, AccountsCoherent, Present
  <2> QED BY <2>1, <2>2, <2>3 DEF AccountInv, AccountsCoherent, Present
<1> QED BY <1>5, <1>6 DEF AccountInv

\* Where a request goes from one of its transactions to the next.
LEMMA RequestsGoOn ==
  ASSUME AccountInv, NEW c \in Clients,
         \/ \E e \in Emails : SignupGate(c, e) \/ LoginVerify(c, e)
         \/ SignupCapacity(c) \/ ErasureLookup(c) \/ Abort(c)
         \/ \E t \in Tokens : \/ Authorise(c, t, "logout", None)
                              \/ \E e \in Emails : Authorise(c, t, "claim", e)
                              \/ \E k \in DeletionKeys : Authorise(c, t, "delete", k)
  PROVE  req' \in [Clients -> AccountRequest] /\ UNCHANGED <<clock, owner, email, session, issued>>
<1>0. AccountTypeOK /\ req \in [Clients -> AccountRequest] /\ req[c] \in AccountRequest
  BY DEF AccountInv, AccountTypeOK
<1>1. ASSUME NEW e \in Emails, SignupGate(c, e)
      PROVE  req' \in [Clients -> AccountRequest] /\ UNCHANGED <<clock, owner, email, session, issued>>
  <2>1. [Idle EXCEPT !.op = "capacity", !.arg = e] \in AccountRequest
    BY DEF Idle, AccountRequest
  <2> QED BY <1>0, <1>1, <2>1 DEF SignupGate
<1>2. ASSUME NEW e \in Emails, LoginVerify(c, e)
      PROVE  req' \in [Clients -> AccountRequest] /\ UNCHANGED <<clock, owner, email, session, issued>>
  <2>1. \A o \in Owners : [Idle EXCEPT !.op = "grant", !.owner = o] \in AccountRequest
    BY DEF Idle, AccountRequest
  <2> QED BY <1>0, <1>2, <2>1 DEF LoginVerify, AnsweredNo
<1>3. ASSUME SignupCapacity(c)
      PROVE  req' \in [Clients -> AccountRequest] /\ UNCHANGED <<clock, owner, email, session, issued>>
  <2>1. [req[c] EXCEPT !.op = "create"] \in AccountRequest
    BY <1>0, <1>3 DEF SignupCapacity, AccountRequest, Idle
  <2> QED BY <1>0, <1>3, <2>1, IdleIsRequest DEF SignupCapacity
<1>4. ASSUME ErasureLookup(c)
      PROVE  req' \in [Clients -> AccountRequest] /\ UNCHANGED <<clock, owner, email, session, issued>>
  <2>1. [req[c] EXCEPT !.op = "erase"] \in AccountRequest
    BY <1>0, <1>4 DEF ErasureLookup, AccountRequest, Idle
  <2> QED BY <1>0, <1>4, <2>1, IdleIsRequest DEF ErasureLookup
<1>5. ASSUME Abort(c)
      PROVE  req' \in [Clients -> AccountRequest] /\ UNCHANGED <<clock, owner, email, session, issued>>
  BY <1>0, <1>5, IdleIsRequest DEF Abort, Done
<1>6. ASSUME NEW t \in Tokens, NEW op, NEW arg, Authorise(c, t, op, arg),
             \/ op = "logout" /\ arg = None
             \/ op = "claim" /\ arg \in Emails
             \/ op = "delete" /\ arg \in DeletionKeys
      PROVE  req' \in [Clients -> AccountRequest] /\ UNCHANGED <<clock, owner, email, session, issued>>
  <2>1. session[t].owner \in Owners
    BY <1>6 DEF Authorise, Live, AccountInv, AccountTypeOK, AccountSession
  <2>2. [op |-> op, owner |-> session[t].owner, token |-> t, arg |-> arg] \in AccountRequest
    BY <2>1, <1>6 DEF AccountRequest
  <2> QED BY <1>0, <1>6, <2>2 DEF Authorise
<1> QED BY <1>1, <1>2, <1>3, <1>4, <1>5, <1>6

LEMMA NextCoherent ==
  ASSUME SessionTtl \in Nat, AccountInv, [AccountNext]_accountVars
  PROVE  AccountInv'
<1>1. CASE Tick
  BY <1>1, RowsStay DEF Tick, AccountInv, AccountTypeOK
<1>2. ASSUME NEW e \in Emails, Recover(e) PROVE AccountInv'
  BY <1>2, AttachKeeps DEF Recover, Owners, AccountInv, AccountTypeOK
<1>3. ASSUME NEW c \in Clients,
             \/ \E e \in Emails : SignupGate(c, e) \/ LoginVerify(c, e)
             \/ SignupCapacity(c) \/ ErasureLookup(c) \/ Abort(c)
             \/ \E t \in Tokens : \/ Authorise(c, t, "logout", None)
                                  \/ \E e \in Emails : Authorise(c, t, "claim", e)
                                  \/ \E k \in DeletionKeys : Authorise(c, t, "delete", k)
      PROVE  AccountInv'
  <2>1. req' \in [Clients -> AccountRequest] /\ UNCHANGED <<clock, owner, email, session, issued>>
    BY <1>3, RequestsGoOn
  <2> QED BY <2>1, RowsStay DEF AccountInv, AccountTypeOK
<1>4. ASSUME NEW c \in Clients, CreateAccount(c) PROVE AccountInv'
  BY <1>4, CreateKeeps
<1>5. ASSUME NEW c \in Clients, LoginGrant(c) PROVE AccountInv'
  BY <1>5, GrantStepKeeps
<1>6. ASSUME NEW c \in Clients, Logout(c) PROVE AccountInv'
  <2>1. req[c].token \in Tokens
    BY <1>6, RequestNames DEF Logout, AccountInv
  <2>2. PICK t \in Tokens : t = req[c].token
    BY <2>1
  <2>3. [session[t] EXCEPT !.revoked = TRUE] \in AccountSession
        /\ [session[t] EXCEPT !.revoked = TRUE].owner = session[t].owner
    BY DEF AccountInv, AccountTypeOK, AccountSession
  <2>4. session' = session \/ session' = [session EXCEPT ![t] = [session[t] EXCEPT !.revoked = TRUE]]
    BY <1>6, <2>2 DEF Logout
  <2>5. /\ session' \in [Tokens -> AccountSession]
        /\ \A x \in Tokens : session'[x].owner = session[x].owner
    BY <2>3, <2>4 DEF AccountInv, AccountTypeOK
  <2>6. req' \in [Clients -> AccountRequest] /\ UNCHANGED <<owner, email, clock>>
    BY <1>6, NextRequest, IdleIsRequest DEF Logout, Done, AccountInv
  <2> QED BY <2>5, <2>6, RowsStay DEF AccountInv, AccountTypeOK
<1>7. ASSUME NEW c \in Clients, Claim(c) PROVE AccountInv'
  <2>1. req[c].owner \in Owners /\ req[c].arg \in Emails
    BY <1>7, RequestNames DEF Claim, AccountInv
  <2>2. req' \in [Clients -> AccountRequest] /\ UNCHANGED <<owner, clock>>
    BY <1>7, NextRequest, IdleIsRequest DEF Claim, Done, AccountInv
  <2> QED BY <1>7, <2>1, <2>2, AttachKeeps DEF Claim
<1>8. ASSUME NEW c \in Clients, Erase(c) PROVE AccountInv'
  BY <1>8, EraseKeeps
<1>9. CASE UNCHANGED accountVars
  BY <1>9, RowsStay DEF accountVars, AccountInv, AccountTypeOK
<1> QED BY <1>1, <1>2, <1>3, <1>4, <1>5, <1>6, <1>7, <1>8, <1>9 DEF AccountNext

\* Whatever requests overlap, and wherever they stop: an address opens one workspace, and
\* neither credentials nor sessions outlive theirs.
THEOREM Coherence ==
  ASSUME SessionTtl \in Nat
  PROVE  AccountSpec => []AccountsCoherent
<1>1. AccountInit => AccountInv
  BY InitCoherent
<1>2. AccountInv /\ [AccountNext]_accountVars => AccountInv'
  BY NextCoherent
<1>3. AccountInv => AccountsCoherent
  BY DEF AccountInv
<1> QED BY <1>1, <1>2, <1>3, PTL DEF AccountSpec

(***************************************************************************)
(* What requests promise each other.                                       *)
(***************************************************************************)
\* After an attachment the sessions of before are not live.
LEMMA AttachCloses ==
  ASSUME SessionTtl \in Nat, AccountInv, NEW o \in Owners, NEW e, Attach(o, e), clock' = clock
  PROVE  LiveSessions(o)' \subseteq Tokens \ issued
<1>1. /\ AttachedTo(o) \in [Tokens -> AccountSession]
      /\ \A t \in Tokens : /\ AttachedTo(o)[t].owner = session[t].owner
                           /\ session[t].owner = o => AttachedTo(o)[t].revoked
  BY AttachedKeeps DEF AccountInv
<1>2. \A t \in issued : t \in Tokens => session'[t] = AttachedTo(o)[t]
  BY <1>1, GrantKeeps DEF Attach, AccountInv, AccountTypeOK
<1> QED BY <1>1, <1>2 DEF LiveSessions, Live

\* The steps that attach an address, or take one away.
LEMMA AddressesMove ==
  ASSUME AccountInv, AccountNext, email' # email
  PROVE  \/ \E c \in Clients : CreateAccount(c) \/ Claim(c) \/ Erase(c)
         \/ \E e \in Emails : Recover(e)
BY RequestsGoOn DEF AccountNext, Tick, LoginGrant, Logout

LEMMA AttachmentsClose ==
  ASSUME SessionTtl \in Nat, AccountInv, AccountNext
  PROVE  /\ \A o \in Owners : Present(o) /\ email[o] = None /\ email'[o] # None =>
              LiveSessions(o)' \subseteq Tokens \ issued
         /\ \A c \in Clients : req[c].op = "claim" /\ req'[c] = Idle /\ email' # email =>
              LiveSessions(req[c].owner) = {req[c].token}
<1>1. ASSUME NEW o \in Owners, Present(o), email[o] = None, email'[o] # None
      PROVE  LiveSessions(o)' \subseteq Tokens \ issued
  <2>1. ASSUME NEW c \in Clients, CreateAccount(c) PROVE FALSE
    <3>1. PICK p \in NewOwners : owner[p] = "unused" /\ email' = [email EXCEPT ![p] = req[c].arg]
      BY <2>1 DEF CreateAccount
    <3> QED BY <1>1, <3>1 DEF Present, AccountInv, AccountTypeOK
  <2>2. ASSUME NEW c \in Clients, Claim(c) PROVE LiveSessions(o)' \subseteq Tokens \ issued
    <3>1. PICK p \in Owners : p = req[c].owner
      BY <2>2, RequestNames DEF Claim, AccountInv
    <3>2. Attach(p, req[c].arg) /\ clock' = clock
      BY <2>2, <3>1 DEF Claim
    <3>3. p = o
      BY <1>1, <3>2 DEF Attach, AccountInv, AccountTypeOK
    <3> QED BY <3>2, <3>3, AttachCloses
  <2>3. ASSUME NEW e \in Emails, Recover(e) PROVE LiveSessions(o)' \subseteq Tokens \ issued
    <3>1. Attach(Legacy, e) /\ clock' = clock /\ Legacy \in Owners
      BY <2>3 DEF Recover, Owners
    <3>2. Legacy = o
      BY <1>1, <3>1 DEF Attach, AccountInv, AccountTypeOK
    <3> QED BY <3>1, <3>2, AttachCloses
  <2>4. ASSUME NEW c \in Clients, Erase(c) PROVE FALSE
    BY <1>1, <2>4, RequestNames DEF Erase, AccountInv, AccountTypeOK
  <2>5. email' # email
    BY <1>1
  <2> QED BY <2>1, <2>2, <2>3, <2>4, <2>5, AddressesMove
<1>2. ASSUME NEW c \in Clients, req[c].op = "claim", req'[c] = Idle, email' # email
      PROVE  LiveSessions(req[c].owner) = {req[c].token}
  <2>1. req \in [Clients -> AccountRequest] /\ req[c] # Idle
    BY <1>2, RequestNames DEF AccountInv, AccountTypeOK, Idle
  <2>2. ASSUME NEW d \in Clients, CreateAccount(d) \/ Erase(d) PROVE FALSE
    BY <1>2, <2>1, <2>2 DEF CreateAccount, Erase, Done
  <2>3. ASSUME NEW d \in Clients, Claim(d) PROVE LiveSessions(req[c].owner) = {req[c].token}
    <3>1. d = c
      BY <1>2, <2>1, <2>3 DEF Claim, Done
    <3> QED BY <2>3, <3>1 DEF Claim, ClaimAuthorised
  <2>4. ASSUME NEW e \in Emails, Recover(e) PROVE FALSE
    BY <1>2, <2>1, <2>4 DEF Recover
  <2> QED BY <1>2, <2>2, <2>3, <2>4, AddressesMove
<1> QED BY <1>1, <1>2

LEMMA ErasuresNameKeys ==
  ASSUME SessionTtl \in Nat, AccountInv, AccountNext
  PROVE  \A o \in Owners : Present(o) /\ ~Present(o)' =>
           \E k \in DeletionKeys :
             deletions' = deletions \cup {<<o, k>>} /\ <<o, k>> \notin deletions
<1> SUFFICES ASSUME NEW o \in Owners, Present(o), ~Present(o)'
             PROVE  \E k \in DeletionKeys :
                      deletions' = deletions \cup {<<o, k>>} /\ <<o, k>> \notin deletions
  OBVIOUS
<1>1. owner \in [Owners -> {"unused", "present", "erased"}] /\ owner' # owner
  BY DEF Present, AccountInv, AccountTypeOK
<1>2. PICK c \in Clients : CreateAccount(c) \/ LoginGrant(c) \/ Erase(c)
  BY <1>1, RequestsGoOn DEF AccountNext, Tick, Recover, Logout, Claim
<1>3. ASSUME CreateAccount(c) \/ LoginGrant(c) PROVE FALSE
  <2>1. \E p : owner' = [owner EXCEPT ![p] = "present"]
    BY <1>3 DEF CreateAccount, LoginGrant, EnsureOwner
  <2> QED BY <2>1, <1>1 DEF Present
<1>4. CASE Erase(c)
  <2>1. req[c].arg \in DeletionKeys /\ req[c].owner \in Owners
    BY <1>4, RequestNames DEF Erase, AccountInv
  <2>2. req[c].owner = o
    BY <1>1, <1>4 DEF Erase, Present
  <2>3. deletions' = deletions \cup {<<o, req[c].arg>>} /\ <<o, req[c].arg>> \notin deletions
    BY <1>4, <2>2 DEF Erase, KeptReceipts, ReceiptUnique
  <2> QED BY <2>1, <2>3
<1> QED BY <1>2, <1>3, <1>4

LEMMA BlocksStay ==
  ASSUME AccountNext
  PROVE  /\ Blocked(login, clock) => login' \in {login, NoBucket}
         /\ Blocked(signup, clock) => signup' = signup
<1>1. ASSUME NEW e \in Emails, NEW c \in Clients, LoginVerify(c, e)
      PROVE  (Blocked(login, clock) => login' = login) /\ signup' = signup
  BY <1>1 DEF LoginVerify, AnsweredNo, Reopened, MayCount
<1>2. ASSUME NEW c \in Clients, SignupCapacity(c)
      PROVE  login' = login /\ (Blocked(signup, clock) => signup' = signup)
  BY <1>2 DEF SignupCapacity, Consumed
<1>3. ASSUME NEW c \in Clients, LoginGrant(c)
      PROVE  login' = NoBucket /\ signup' = signup
  BY <1>3 DEF LoginGrant
<1> QED BY <1>1, <1>2, <1>3
     DEF AccountNext, Tick, Recover, SignupGate, CreateAccount, Authorise, Logout, Claim, ErasureLookup,
         Erase, Abort

\* An attached address leaves one session, and a claim succeeds only while its session is the
\* only one; a deletion is carried out once per key; a block keeps its end: in every step.
THEOREM WordsKept ==
  ASSUME SessionTtl \in Nat
  PROVE  AccountSpec => AccountsKeepTheirWord
<1>1. AccountInit => AccountInv
  BY InitCoherent
<1>2. AccountInv /\ [AccountNext]_accountVars => AccountInv'
  BY NextCoherent
<1>3. AccountInv /\ [AccountNext]_accountVars =>
        [/\ \A o \in Owners : Present(o) /\ email[o] = None /\ email'[o] # None =>
              LiveSessions(o)' \subseteq Tokens \ issued
         /\ \A c \in Clients : req[c].op = "claim" /\ req'[c] = Idle /\ email' # email =>
              LiveSessions(req[c].owner) = {req[c].token}]_accountVars
  BY AttachmentsClose
<1>4. AccountInv /\ [AccountNext]_accountVars =>
        [\A o \in Owners : Present(o) /\ ~Present(o)' =>
           \E k \in DeletionKeys :
             deletions' = deletions \cup {<<o, k>>} /\ <<o, k>> \notin deletions]_accountVars
  BY ErasuresNameKeys
<1>5. [AccountNext]_accountVars =>
        [/\ Blocked(login, clock) => login' \in {login, NoBucket}
         /\ Blocked(signup, clock) => signup' = signup]_accountVars
  BY BlocksStay
<1> QED BY <1>1, <1>2, <1>3, <1>4, <1>5, PTL
     DEF AccountSpec, AccountsKeepTheirWord, AttachClosesTheOthers, OneErasurePerKey,
         BlockKeepsItsHour
==============================================================================
