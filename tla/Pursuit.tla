------------------------------ MODULE Pursuit ------------------------------
(***************************************************************************)
(* What the owner decides about one opportunity (watch, dismiss, restore,  *)
(* pursue, undo the pursuit) and the application a pursuit creates, between *)
(* browser pages that repeat a command whose answer they missed and a      *)
(* server that recognises the repetition by its idempotency key.           *)
(*                                                                         *)
(* A command is one transaction: the posting, opportunity and application  *)
(* rows it locks make it atomic, and the receipt of its key commits with   *)
(* it, so the pending state of a receipt is never seen by another          *)
(* transaction.  The decision events are listed in the order of their      *)
(* commits, which is the order of occurred_at as long as the processes     *)
(* share a clock.                                                          *)
(***************************************************************************)
EXTENDS Integers, Sequences, FiniteSets

CONSTANTS
  Pages,       \* browser tabs
  Keys,        \* idempotency keys the pages can draw
  Payloads,    \* what else a dismissal says: its reason and note
  MaxEvents,   \* bound: decision events of the opportunity
  MaxChanges,  \* bound: changes scans find, changes of an application
  MaxWire,     \* bound: requests on their way at a time
  NoKey, NoRequest

VARIABLES
  role,        \* the opportunity: decision and version
  events,      \* its decision events
  app,         \* its application, if there is one
  receipts,    \* the receipts of pursuits and undos
  wire,        \* requests on their way
  page         \* what each page shows, the keys it keeps, the answer it waits for

rows == <<role, events, app, receipts>>

pursuitVars == <<role, events, app, receipts, wire, page>>

NoApp == [id |-> 0, version |-> 0, progressed |-> FALSE]

\* What a command is about: the event a restore compensates, the application an undo
\* deletes.  The page keeps one key for each.
Intent == [action : {"watch", "dismiss", "pursue"}, of : {0}]
            \cup [action : {"restore", "undo"}, of : 1..MaxEvents]

Application == [id : 0..MaxEvents, version : Nat, progressed : BOOLEAN]

Event == [key : Keys \cup {NoKey}, action : {"watch", "dismiss", "pursue", "restore", "undo"},
          what : Payloads \cup {0}, old : {"inbox", "watch", "dismiss", "pursued"},
          new : {"inbox", "watch", "dismiss", "pursued"}, app : 0..MaxEvents]

Decided(action) == CASE action = "watch" -> "watch" [] action = "dismiss" -> "dismiss"
                     [] action = "pursue" -> "pursued" [] OTHER -> "inbox"

Now == [decision |-> role.decision, version |-> role.version, last |-> Len(events), app |-> app]

PursuitInit == /\ role = [decision |-> "inbox", version |-> 1]
               /\ events = <<>>
               /\ app = NoApp
               /\ receipts = {}
               /\ wire = {}
               /\ page = [p \in Pages |-> [shows |-> Now, kept |-> {}, waits |-> NoRequest]]

(***************************************************************************)
(* The pages.                                                              *)
(***************************************************************************)
Open(p) ==
  /\ page[p].waits = NoRequest
  /\ page' = [page EXCEPT ![p] = [shows |-> Now, kept |-> {}, waits |-> NoRequest]]
  /\ UNCHANGED <<rows, wire>>

\* loadToday.
Load(p) ==
  /\ page[p].waits = NoRequest
  /\ page' = [page EXCEPT ![p].shows = Now]
  /\ UNCHANGED <<rows, wire>>

\* The buttons of OpportunityActions, and of an application before it is submitted.
Offered(s) ==
  {i \in Intent :
     CASE i.action = "pursue"  -> s.decision # "pursued"
       [] i.action = "watch"   -> s.decision \notin {"pursued", "watch"}
       [] i.action = "dismiss" -> s.decision \notin {"pursued", "dismiss"}
       [] i.action = "restore" -> s.decision \in {"watch", "dismiss"} /\ i.of = s.last
       [] i.action = "undo"    -> s.app.id = i.of /\ ~s.app.progressed}

KeysDrawn == {r.key : r \in wire} \cup {e.key : e \in {events[n] : n \in DOMAIN events}}
               \cup {rc.key : rc \in receipts}
               \cup UNION {{k.key : k \in page[q].kept} : q \in Pages}

\* The command the page keeps for the intent, or one under a new key.
Drafts(p, i) ==
  LET kept == {k \in page[p].kept : k.intent = i}
  IN  IF kept # {} THEN kept
      ELSE [intent : {i}, key : Keys \ KeysDrawn, expected : {page[p].shows.app.version}]

\* The key of a dismissal says nothing of its reason.
Said(i) == IF i.action = "dismiss" THEN Payloads ELSE {0}

\* applyDecision, undoDecision, runUndo.  Only an undo keeps its version with its key.
Click(p, i, what) ==
  /\ page[p].waits = NoRequest
  /\ i \in Offered(page[p].shows)
  /\ \E k \in Drafts(p, i) :
       LET r == [key |-> k.key, intent |-> i, what |-> what, expected |->
                   IF i.action = "undo" THEN k.expected ELSE page[p].shows.version]
       IN  /\ wire' = wire \cup {r} /\ Cardinality(wire') <= MaxWire
           /\ page' = [page EXCEPT ![p].kept = @ \cup {k}, ![p].waits = r]
  /\ UNCHANGED rows

\* The page gives a request up that may still arrive, or misses its answer.
Abandon(p) ==
  /\ page[p].waits # NoRequest
  /\ page' = [page EXCEPT ![p].waits = NoRequest]
  /\ UNCHANGED <<rows, wire>>

\* Each page that waits for the answer gets or misses it.  A pursuit leads to the page of
\* the application, an undo to Today; a refusal makes only the undo forget its key.
Answered(r, granted, said) ==
  \E got \in SUBSET {p \in Pages : page[p].waits = r} :
    page' = [p \in Pages |->
      IF p \notin got THEN page[p]
      ELSE [shows |-> IF granted THEN said ELSE page[p].shows,
            kept  |-> IF granted /\ r.intent.action \in {"pursue", "undo"} THEN {}
                      ELSE IF granted \/ r.intent.action = "undo"
                      THEN {k \in page[p].kept : k.intent # r.intent}
                      ELSE page[p].kept,
            waits |-> NoRequest]]

(***************************************************************************)
(* The server.  Each grant has the branch of the command it models.        *)
(***************************************************************************)
Space(i) == IF i.action = "undo" THEN i.of ELSE 0

ReceiptOf(r) == {rc \in receipts : rc.key = r.key /\ rc.space = Space(r.intent)}

\* Mutant of EventsOf: only the latest decision is compared with the key.
EventsOfLast(r) == {n \in DOMAIN events : n = Len(events) /\ events[n].key = r.key}

\* The decision events made under the key of the request.
EventsOf(r) == {n \in DOMAIN events : events[n].key = r.key}

Record(r, new, key, id) ==
  /\ Len(events) < MaxEvents
  /\ events' = Append(events, [key |-> key, action |-> r.intent.action, what |-> r.what,
                               old |-> role.decision, new |-> new, app |-> id])
  /\ role' = [role EXCEPT !.decision = new, !.version = @ + 1]

IsDecision(r) == r.intent.action \in {"watch", "dismiss", "restore"}

\* decide_owner_opportunity, the key seen before.
SameDecision(r) ==
  /\ IsDecision(r)
  /\ \E n \in EventsOf(r) : /\ events[n].what = r.what /\ events[n].action = r.intent.action
                            /\ role.decision = events[n].new

DecideAgain(r) ==
  /\ SameDecision(r)
  /\ \E n \in EventsOf(r) : Answered(r, TRUE, [Now EXCEPT !.last = n])
  /\ UNCHANGED rows

Restorable(i) == /\ i.of = Len(events)
                 /\ events[i.of].new = role.decision

Decidable(r) ==
  /\ IsDecision(r) /\ EventsOf(r) = {}
  /\ role.decision # "pursued"
  /\ r.expected = role.version
  /\ r.intent.action = "restore" => Restorable(r.intent)
  /\ role.decision # Decided(r.intent.action)

Decide(r) ==
  /\ Decidable(r)
  /\ Record(r, Decided(r.intent.action), r.key, 0)
  /\ UNCHANGED <<app, receipts>>
  /\ Answered(r, TRUE, Now')

\* pursue_owner_opportunity, the key seen before: only the application it led to counts.
SamePursuit(r) ==
  /\ r.intent.action = "pursue"
  /\ \E rc \in ReceiptOf(r) : app.id = rc.app

PursueAgain(r) ==
  /\ SamePursuit(r)
  /\ Answered(r, TRUE, Now)
  /\ UNCHANGED rows

\* Another page was faster.
Pursued(r) == /\ r.intent.action = "pursue" /\ ReceiptOf(r) = {} /\ EventsOf(r) = {}
              /\ app # NoApp

PursueExisting(r) ==
  /\ Pursued(r)
  /\ receipts' = receipts \cup {[key |-> r.key, space |-> 0, app |-> app.id, event |-> 0]}
  /\ Answered(r, TRUE, Now)
  /\ UNCHANGED <<role, events, app>>

Pursuable(r) ==
  /\ r.intent.action = "pursue" /\ ReceiptOf(r) = {} /\ EventsOf(r) = {}
  /\ app = NoApp
  /\ r.expected = role.version
  /\ role.decision \in {"inbox", "watch", "dismiss"}

Pursue(r) ==
  LET id == Len(events) + 1
  IN  /\ Pursuable(r)
      /\ Record(r, "pursued", r.key, id)
      /\ app' = [id |-> id, version |-> 1, progressed |-> FALSE]
      /\ receipts' = receipts \cup {[key |-> r.key, space |-> 0, app |-> id, event |-> id]}
      /\ Answered(r, TRUE, Now')

\* undo_application_pursuit, the key seen before: the undo must still be the latest word.
SameUndo(r) ==
  /\ r.intent.action = "undo"
  /\ \E rc \in ReceiptOf(r) : role.decision = "inbox" /\ Len(events) = rc.event

UndoAgain(r) ==
  /\ SameUndo(r)
  /\ Answered(r, TRUE, Now)
  /\ UNCHANGED rows

\* Mutant of Undoable: the version the owner saw is enough.
UndoableAsSeen(r) == /\ r.intent.action = "undo" /\ ReceiptOf(r) = {}
                     /\ app # NoApp /\ r.expected = app.version

\* A progressed application is no longer the owner's to undo.
Undoable(r) ==
  /\ r.intent.action = "undo" /\ ReceiptOf(r) = {}
  /\ app.id = r.intent.of /\ r.expected = app.version /\ ~app.progressed
  /\ role.decision = "pursued"

\* Mutant of Undo: the opportunity returns to what it was before the pursuit, its event says
\* that it returned to the inbox.
UndoToFormer(r) ==
  /\ Undoable(r)
  /\ Len(events) < MaxEvents
  /\ events' = Append(events, [key |-> NoKey, action |-> "undo", what |-> 0,
                               old |-> "pursued", new |-> "inbox", app |-> app.id])
  /\ role' = [role EXCEPT !.decision = events[app.id].old, !.version = @ + 1]
  /\ app' = NoApp
  /\ receipts' = receipts \cup {[key |-> r.key, space |-> app.id, app |-> 0,
                                 event |-> Len(events) + 1]}
  /\ Answered(r, TRUE, Now')

Undo(r) ==
  /\ Undoable(r)
  /\ Record(r, "inbox", NoKey, app.id)
  /\ app' = NoApp
  /\ receipts' = receipts \cup {[key |-> r.key, space |-> app.id, app |-> 0,
                                 event |-> Len(events) + 1]}
  /\ Answered(r, TRUE, Now')

\* A conflict, or not found: nothing is written.
Refuse(r) ==
  /\ ~SameDecision(r) /\ ~Decidable(r) /\ ~SamePursuit(r) /\ ~Pursued(r) /\ ~Pursuable(r)
  /\ ~SameUndo(r) /\ ~Undoable(r)
  /\ Answered(r, FALSE, Now)
  /\ UNCHANGED rows

Deliver(r) ==
  /\ wire' = wire \ {r}
  /\ \/ DecideAgain(r) \/ Decide(r)
     \/ PursueAgain(r) \/ PursueExisting(r) \/ Pursue(r)
     \/ UndoAgain(r) \/ Undo(r)
     \/ Refuse(r)

(***************************************************************************)
(* What others do to the opportunity and to the application meanwhile.     *)
(***************************************************************************)
\* A scan found the posting changed.  Nothing closes a posting (see PostingIdentity), so the
\* refusals of closed postings are left out.
Surface ==
  /\ role.version <= MaxChanges + Len(events)
  /\ role' = [role EXCEPT !.version = @ + 1]
  /\ UNCHANGED <<events, app, receipts, wire, page>>

\* Another command of the application; at some time it is submitted.
Work ==
  /\ app # NoApp /\ app.version <= MaxChanges
  /\ \E progressed \in {TRUE, app.progressed} :
       app' = [app EXCEPT !.version = @ + 1, !.progressed = progressed]
  /\ UNCHANGED <<role, events, receipts, wire, page>>

PursuitNext ==
  \/ \E p \in Pages : \/ Open(p) \/ Load(p) \/ Abandon(p)
                      \/ \E i \in Intent : \E what \in Said(i) : Click(p, i, what)
  \/ \E r \in wire : Deliver(r)
  \/ Surface \/ Work

PursuitSpec == PursuitInit /\ [][PursuitNext]_pursuitVars

(***************************************************************************)
(* Properties.                                                             *)
(***************************************************************************)
Shown == [decision : {"inbox", "watch", "dismiss", "pursued"}, version : Nat \ {0},
          last : 0..MaxEvents, app : Application]

Request == [key : Keys, intent : Intent, what : Payloads \cup {0}, expected : Nat]

\* Types of the rows, of the requests and of the pages.
TypeOK ==
  /\ role \in [decision : {"inbox", "watch", "dismiss", "pursued"}, version : Nat \ {0}]
  /\ events \in Seq(Event)
  /\ app \in Application
  /\ receipts \subseteq [key : Keys, space : 0..MaxEvents, app : 0..MaxEvents,
                        event : 0..MaxEvents]
  /\ wire \subseteq Request
  /\ page \in [Pages -> [shows : Shown,
                         kept  : SUBSET [intent : Intent, key : Keys, expected : Nat],
                         waits : Request \cup {NoRequest}]]

Chained == \A n \in DOMAIN events :
             events[n].old = IF n = 1 THEN "inbox" ELSE events[n - 1].new

\* However often requests are repeated, delayed and crossed by those of other pages: the
\* decision is the last one recorded, each was made of the one before, and there is an
\* application exactly while a pursuit is the last one, the application of that pursuit.
PursuitsAgree ==
  /\ role.decision = IF events = <<>> THEN "inbox" ELSE events[Len(events)].new
  /\ Chained
  /\ (app # NoApp) <=> (role.decision = "pursued")
  /\ app # NoApp => events[Len(events)].app = app.id

\* A key decides once: a request that arrives again, even after what it did was undone,
\* makes no second decision and no second application.
KeysActOnce ==
  \A m, n \in DOMAIN events : events[m].key = events[n].key /\ events[m].key # NoKey => m = n

\* No undo, not even one sent for an earlier application of the opportunity, deletes an
\* application that has progressed.
ProgressIsKept == [][app.progressed => app'.id = app.id]_pursuitVars
=============================================================================
