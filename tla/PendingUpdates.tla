--------------------------- MODULE PendingUpdates ---------------------------
(***************************************************************************)
(* The pages on which an owner changes an application: what a page does    *)
(* with a change it has sent and whose answer is lost, late or negative.   *)
(* A page keeps one such request at a time, with its idempotency key and   *)
(* the version it was made from.  The owner can repeat it unchanged; the   *)
(* page reads the saved record back and either finds in it what was asked, *)
(* or finds that the record moved on without it, or goes on waiting.       *)
(*                                                                         *)
(* The record is told by its version and its entries, of which a page adds *)
(* one: a milestone, a round, a correction, a review, a submission, a      *)
(* revision, an approval, a message, a reply, a search.  The proxy between *)
(* page and server gives up after a while, the server does not: a request  *)
(* may be carried out long after the page was told that its answer is      *)
(* unknown.                                                                *)
(***************************************************************************)
EXTENDS Optional, Integers, Sequences

CONSTANTS
  Unread,
  Pages,         \* the pages of which one is looked at: some of "progress", "round",
                 \* "correction", "review", "submission", "materials", "pack", "outreach", "people"
  Asks,          \* what can be asked: [page, what, on, due]
  MaxRequests, MaxTries, MaxVersion      \* bounds

\* What each page can ask for.
Offers ==
  {<<"progress", "screening">>, <<"progress", "offer">>, <<"progress", "outcome">>,
   <<"round", "slot">>, <<"correction", "date">>, <<"review", "plan">>, <<"submission", "submit">>,
   <<"materials", "revision">>, <<"materials", "approve">>, <<"pack", "start">>,
   <<"pack", "revision">>, <<"pack", "review">>, <<"outreach", "message">>, <<"outreach", "sent">>,
   <<"outreach", "reply">>, <<"outreach", "pause">>, <<"people", "search">>}

\* A correction is no more than the date it gives.
ASSUME AsksAssumption ==
  \A a \in Asks : /\ a = [page |-> a.page, what |-> a.what, on |-> a.on, due |-> a.due]
                  /\ <<a.page, a.what>> \in Offers
                  /\ a.page = "correction" =>
                       a.on # 0 /\ \A b \in Asks : b.page = "correction" /\ b.on = a.on => b = a
ASSUME RequestsAssumption == MaxRequests \in Nat
ASSUME NothingAssumption == None \notin {"saved", "lost", "pending", "conflict", "refused", "unknown"}

VARIABLES
  page,
  record,        \* the saved record: version and entries
  landed,        \* keys of the requests that were carried out
  wire,          \* attempts the server has not dealt with
  view,          \* the record as the page shows it
  pending,       \* the request the page keeps, or None
  doing,         \* the request whose answer the page waits for or looks into, or None
  reply,         \* None, "saved", "lost", "pending", "conflict", "refused" or "unknown"
  back,          \* None, Unread, or a record: what came with the answer or was read back
  glance,        \* None, or a record read in the background and not yet shown
  made,          \* requests made so far
  fate           \* what the owner was told of each of them, at which attempt, and on which answer

updateVars == <<page, record, landed, wire, view, pending, doing, reply, back, glance, made, fate>>

InDossier == page \in {"progress", "round", "correction", "review"}
InWorkspace == page \in {"materials", "pack", "outreach", "people"}

Given == {a \in Asks : a.page = page}

\* What a record begins with: overdue work.
First == [page |-> page, what |-> "first", on |-> 0, due |-> 0]

Untold == [told |-> "open", tries |-> 0, reply |-> None]

UpdatesInit ==
  /\ page \in Pages
  /\ record = [version |-> 1, entries |-> <<First>>] /\ view = record
  /\ landed = {} /\ wire = {} /\ made = 0 /\ fate = [k \in 1..MaxRequests |-> Untold]
  /\ pending = None /\ doing = None /\ reply = None /\ back = None /\ glance = None

Entries(saved) == {saved.entries[i] : i \in DOMAIN saved.entries}

LastEntry(saved) == saved.entries[Len(saved.entries)]

\* The entries that came after those the page knew when the request was made.
Fresh(saved, r) == {saved.entries[i] : i \in r.known + 1 .. Len(saved.entries)}

(***************************************************************************)
(* The server.                                                             *)
(***************************************************************************)
With(entry) == [version |-> record.version + 1, entries |-> Append(record.entries, entry)]

Corrected(a) == [record EXCEPT !.version = @ + 1, !.entries[Len(record.entries)].on = a.on]

\* Another tab, or a worker, changes the record or corrects the date of its last entry.
Elsewhere ==
  /\ record.version < MaxVersion
  /\ \/ \E a \in Given \cup {First} : record' = With(a)
     \/ /\ page = "progress" /\ Len(record.entries) > 1
        /\ \E a \in Given : record' = Corrected(a)
  /\ UNCHANGED <<page, landed, wire, view, pending, doing, reply, back, glance, made, fate>>

Awaited(t) == doing # None /\ reply = None /\ doing.key = t.key /\ doing.tries = t.tries

\* A positive answer carries the record as it is when the answer is made.
Answered(t, answer) ==
  IF Awaited(t)
  THEN reply' = answer /\ back' = IF answer = "saved" THEN record' ELSE None
  ELSE UNCHANGED <<reply, back>>

Timely(t) == t.expected = record.version

\* Mutant of Carried: a repeated request is carried out whatever it was made from.
CarriedAnew(t) == /\ t.key \notin landed /\ (t.tries > 1 \/ Timely(t))
                  /\ record' = With(t.asked)
                  /\ landed' = landed \cup {t.key}
                  /\ Answered(t, "saved")

Carried(t) == /\ t.key \notin landed /\ Timely(t)
              /\ record' = With(t.asked)
              /\ landed' = landed \cup {t.key}
              /\ Answered(t, "saved")

Replayed(t) == t.key \in landed /\ UNCHANGED <<record, landed>> /\ Answered(t, "saved")

Conflict(t) == /\ t.key \notin landed /\ ~Timely(t)
               /\ UNCHANGED <<record, landed>> /\ Answered(t, "conflict")

\* While another attempt under the same key is being carried out.
Claimed(t) == /\ \E u \in wire : u.key = t.key /\ u # t
              /\ UNCHANGED <<record, landed>> /\ Answered(t, "pending")

\* The session ended, or the day did and with it the dates are no longer allowed.
TurnedDown(t) == UNCHANGED <<record, landed>> /\ Answered(t, "refused")

Serve(t) == /\ t \in wire
            /\ wire' = wire \ {t}
            /\ Carried(t) \/ Replayed(t) \/ Conflict(t) \/ Claimed(t) \/ TurnedDown(t)
            /\ UNCHANGED <<page, view, pending, doing, glance, made, fate>>

\* The connection breaks or the proxy gives up.
Lose == /\ doing # None /\ reply = None /\ reply' = "lost"
        /\ UNCHANGED <<page, record, landed, wire, view, pending, doing, back, glance, made, fate>>

(***************************************************************************)
(* What a page takes for the change it asked for.                          *)
(***************************************************************************)
\* Mutant of Milestone: under any date.
MilestoneEver(saved, r) == \E e \in Entries(saved) : e.what = r.asked.what

\* transitionMatches: the milestone and its date, wherever; not the date of the next task.
Milestone(saved, r) == \E e \in Entries(saved) : e.what = r.asked.what /\ e.on = r.asked.on

\* mutationMatches: a round that was not known, as asked, and its task is the current one.
Appointment(saved, r) == Len(saved.entries) > r.known /\ LastEntry(saved) = r.asked

\* correctionMatches: the next correction after those that were known.
Correction(saved, r) == Len(saved.entries) > r.known /\ saved.entries[r.known + 1].on = r.asked.on

\* The application is no longer among those whose work is overdue.
Reviewed(saved) == LastEntry(saved).due > 0

\* revisionMatchesPayload: the current revision, made from the one that was shown.
RevisionMade(saved, r) == Len(saved.entries) = r.known + 1 /\ LastEntry(saved) = r.asked

NoneReplaced(saved, r) == \A e \in Fresh(saved, r) : e.what # "revision"

\* The revision that was shown is still the current one, and this is what was last said of it.
Approved(saved, r) == LastEntry(saved) = r.asked /\ NoneReplaced(saved, r)

\* A pack on the résumé that was chosen.
PackStarted(saved, r) == r.asked \in Entries(saved)

\* The revision that was shown is still the current one, and has been reviewed.
PackReviewed(saved, r) == r.asked \in Entries(saved) /\ NoneReplaced(saved, r)

\* Mutant of Message: the text alone, whenever it was saved.
MessageEver(saved, r) == LastEntry(saved) = r.asked

\* The latest message has the text, and is not the one that was shown.
Message(saved, r) == Len(saved.entries) > r.known /\ LastEntry(saved) = r.asked

\* The message is marked sent on the channel, or the outcome is the one chosen.
Marked(saved, r) == r.asked \in Entries(saved)

\* replyMatches: among the replies that were not known.
Reply(saved, r) == r.asked \in Fresh(saved, r)

\* The sequence is paused, active or stopped, whoever made it so.
Controlled(saved, r) == LastEntry(saved) = r.asked

\* A plan with a higher number.
Searched(saved, r) == Len(saved.entries) > r.known

OnMaterials(saved, r) == IF r.asked.what = "revision" THEN RevisionMade(saved, r) ELSE Approved(saved, r)

OnPack(saved, r) ==
  CASE r.asked.what = "start" -> PackStarted(saved, r)
    [] r.asked.what = "revision" -> RevisionMade(saved, r)
    [] r.asked.what = "review" -> PackReviewed(saved, r)

OnOutreach(saved, r) ==
  CASE r.asked.what = "message" -> Message(saved, r)
    [] r.asked.what = "sent" -> Marked(saved, r)
    [] r.asked.what = "reply" -> Reply(saved, r)
    [] r.asked.what = "pause" -> Controlled(saved, r)

(***************************************************************************)
(* Asking.                                                                 *)
(***************************************************************************)
Attempt(r) == [key |-> r.key, tries |-> r.tries, asked |-> r.asked, expected |-> r.expected]

Send(r) == /\ pending' = r /\ doing' = r /\ wire' = wire \cup {Attempt(r)}
           /\ UNCHANGED <<page, record, landed, view, reply, back, glance, fate>>

\* What has been done once is not offered again, a milestone not under any date
\* (choicesForStage); only what is overdue is reviewed (stale_applications).
Offered(a) ==
  /\ a.what \in {"submit", "start", "review", "approve", "sent", "pause"} => a \notin Entries(view)
  /\ page = "progress" => \A e \in Entries(view) : e.what # a.what
  /\ page = "review" => LastEntry(view).due = 0

Ask(a) == /\ doing = None /\ pending = None /\ made < MaxRequests /\ Offered(a)
          /\ made' = made + 1
          /\ Send([key |-> made + 1, tries |-> 1, asked |-> a, expected |-> view.version,
                   known |-> Len(view.entries)])

\* Any other request is refused while this one is kept.
Retry == /\ doing = None /\ pending # None /\ pending.tries < MaxTries
         /\ Send([pending EXCEPT !.tries = @ + 1])
         /\ UNCHANGED made

(***************************************************************************)
(* Answers.                                                                *)
(***************************************************************************)
\* What the owner was told of a request is not told again of a later attempt.
Told(r, what) ==
  fate' = [fate EXCEPT ![r.key] =
             IF @ = Untold THEN [told |-> what, tries |-> r.tries, reply |-> reply] ELSE @]

Done == doing' = None /\ reply' = None /\ back' = None

LetGo(r, what) == pending' = None /\ Told(r, what)

Keep == UNCHANGED <<pending, fate>>

\* Mutant of Ambiguous: what broke off was turned down.
AmbiguousIfTold == reply \in {"pending", "unknown"}

Ambiguous == reply \in {"lost", "pending", "unknown"}

\* The page says that the change was rejected, also when it was a repetition that was turned
\* down and an earlier attempt is still under way.
Rejected(r) == LetGo(r, "rejected")

\* Mutant of Acceptable: whatever was read last is shown.
AnyAcceptable(saved) == saved.version >= 1

\* A record that was read before the one shown is not shown.
Acceptable(saved) == saved.version >= view.version

\* The page reads the record back, if it can.
ReadBack == /\ doing # None /\ back = None
            /\ IF InWorkspace THEN Ambiguous ELSE reply \notin {None, "saved"}
            /\ back' \in {record, Unread}
            /\ UNCHANGED <<page, record, landed, wire, view, pending, doing, reply, glance, made, fate>>

\* The owner asks for the saved state of the request that is kept.
Check == /\ InDossier /\ doing = None /\ pending # None
         /\ doing' = pending /\ reply' = "unknown"
         /\ UNCHANGED <<page, record, landed, wire, view, pending, back, glance, made, fate>>

Looking(at) == page = at /\ doing # None /\ back # None /\ reply # "saved"

\* The order in which a page of the dossier looks at what it read.
Settle(found, moved) ==
  /\ IF found THEN LetGo(doing, "confirmed")
     ELSE IF moved THEN LetGo(doing, "elsewhere")
     ELSE IF ~Ambiguous THEN Rejected(doing)
     ELSE Keep
  /\ Done
  /\ UNCHANGED <<page, record, landed, wire, glance, made>>

Moved(r) == back # Unread /\ back.version # r.expected

SettleProgress ==
  /\ Looking("progress")
  /\ Settle(back # Unread /\ Milestone(back, doing), Moved(doing))
  /\ view' = IF back = Unread THEN view ELSE back

SettleRound ==
  /\ Looking("round")
  /\ LET read == back # Unread /\ Acceptable(back)
     IN  /\ Settle(read /\ Appointment(back, doing), read /\ Moved(doing))
         /\ view' = IF read THEN back ELSE view

\* A correction is looked for only when the answer leaves it open.
SettleCorrection ==
  /\ Looking("correction")
  /\ Settle(Ambiguous /\ back # Unread /\ Correction(back, doing), Moved(doing))
  /\ view' = IF back = Unread THEN view ELSE back

\* Only what is still overdue is there to be compared.
SettleReview ==
  /\ Looking("review")
  /\ Settle(back # Unread /\ Reviewed(back), Moved(doing) /\ ~Reviewed(back))
  /\ view' = IF back = Unread THEN view ELSE back

\* A submission is never confirmed by what is read: the answer under its key decides.
SettleHandoff ==
  /\ Looking("submission")
  /\ IF Ambiguous THEN Keep
     ELSE IF back # Unread /\ doing.asked \in Entries(back) THEN LetGo(doing, "elsewhere")
     ELSE Rejected(doing)
  /\ view' = IF back = Unread THEN view ELSE back
  /\ Done
  /\ UNCHANGED <<page, record, landed, wire, glance, made>>

\* After an ambiguous answer.
Reconcile(found, moved) ==
  /\ view' = IF back # Unread /\ Acceptable(back) THEN back ELSE view
  /\ IF back # Unread /\ found THEN LetGo(doing, "confirmed")
     ELSE IF back # Unread /\ moved THEN LetGo(doing, "elsewhere")
     ELSE Keep
  /\ Done
  /\ UNCHANGED <<page, record, landed, wire, glance, made>>

Later == back.version > doing.expected

ReconcileMaterials == Looking("materials") /\ Ambiguous /\ Reconcile(OnMaterials(view', doing), Later)

\* An application without a pack has no version of it to compare.
ReconcilePack ==
  Looking("pack") /\ Ambiguous /\ Reconcile(OnPack(view', doing), Later /\ doing.asked.what # "start")

ReconcileOutreach ==
  /\ Looking("outreach") /\ Ambiguous
  /\ Reconcile(Acceptable(back) /\ OnOutreach(back, doing), Acceptable(back) /\ Later)

ReconcilePeople ==
  Looking("people") /\ Ambiguous /\ Reconcile(Acceptable(back) /\ Searched(back, doing), FALSE)

\* A conflict and any other definite answer; a search keeps its key until a newer plan is seen.
Dismiss ==
  /\ InWorkspace /\ doing # None /\ reply \in {"conflict", "refused"}
  /\ IF page = "people" THEN Keep ELSE Rejected(doing)
  /\ Done
  /\ UNCHANGED <<page, record, landed, wire, view, glance, made>>

\* The dossier and the weekly review are read again, the others show what came with the answer.
Accept ==
  /\ doing # None /\ reply = "saved"
  /\ IF InWorkspace /\ ~Acceptable(back) THEN Keep /\ UNCHANGED view
     ELSE /\ LetGo(doing, "saved")
          /\ view' = IF InWorkspace \/ page = "round" THEN back ELSE record
  /\ Done
  /\ UNCHANGED <<page, record, landed, wire, glance, made>>

(***************************************************************************)
(* Reading in the background.                                              *)
(***************************************************************************)
\* Focus, a poll, or another version of the application makes a page read again.
Glance == /\ doing = None /\ glance = None /\ (InWorkspace \/ page = "round")
          /\ glance' = record
          /\ UNCHANGED <<page, record, landed, wire, view, pending, doing, reply, back, made, fate>>

\* Every record such a page accepts is also held against the request it keeps.
Show(found, moved) ==
  /\ glance # None
  /\ glance' = None
  /\ IF ~Acceptable(glance) THEN Keep /\ UNCHANGED view
     ELSE /\ view' = glance
          /\ IF pending # None /\ found THEN LetGo(pending, "confirmed")
             ELSE IF pending # None /\ moved THEN LetGo(pending, "elsewhere")
             ELSE Keep
  /\ UNCHANGED <<page, record, landed, wire, doing, reply, back, made>>

Overtaken == glance.version > pending.expected

ShowRounds == page = "round" /\ Show(FALSE, FALSE)

ShowMaterials == page = "materials" /\ Show(OnMaterials(glance, pending), Overtaken)

\* Only once the page has told that the request is unresolved.
ShowPack == page = "pack" /\ Show(doing = None /\ OnPack(glance, pending), FALSE)

ShowOutreach == page = "outreach" /\ Show(OnOutreach(glance, pending), Overtaken)

ShowPeople == page = "people" /\ Show(Searched(glance, pending), FALSE)

\* The page is loaded again; the tab remembers a submission.
Reload == /\ view' = record
          /\ pending' = IF page = "submission" THEN pending ELSE None
          /\ glance' = None /\ Done
          /\ UNCHANGED <<page, record, landed, wire, made, fate>>

UpdatesNext ==
  \/ Elsewhere \/ Lose \/ Retry \/ ReadBack \/ Check
  \/ SettleProgress \/ SettleRound \/ SettleCorrection \/ SettleReview \/ SettleHandoff
  \/ ReconcileMaterials \/ ReconcilePack \/ ReconcileOutreach \/ ReconcilePeople
  \/ Dismiss \/ Accept
  \/ Glance \/ ShowRounds \/ ShowMaterials \/ ShowPack \/ ShowOutreach \/ ShowPeople \/ Reload
  \/ \E t \in wire : Serve(t)
  \/ \E a \in Given : Ask(a)

UpdatesSpec == UpdatesInit /\ [][UpdatesNext]_updateVars

(***************************************************************************)
(* Properties.                                                             *)
(***************************************************************************)
\* What is carried out although the owner was told that it was not.  After the word that the
\* record moved on, or that it had (a conflict), nothing of the request is, whatever is still
\* under way.  After any other refusal only an attempt that went out before the one that was
\* turned down can be: a change asked for once and rejected is not made, a change that was
\* repeated may be rejected on the screen and made on the server.
OnlyEarlierAttemptsLand ==
  [][\A t \in wire \ wire' : t.key \in landed' \ landed =>
       LET word == fate[t.key]
       IN  /\ word.told # "elsewhere"
           /\ word.told = "rejected" => word.reply # "conflict" /\ t.tries < word.tries]_updateVars

\* What an entry has of what was asked for.  On the weekly review any new date will do, or
\* whatever else leaves nothing overdue, in the search for people any newer plan, and of a
\* milestone the date of the next task is not looked at.
Amounts(e, asked) ==
  CASE asked.page = "progress" -> e.what = asked.what /\ e.on = asked.on
    [] asked.page = "review" -> e.due > 0
    [] asked.page = "people" -> TRUE
    [] OTHER -> e = asked

\* What a page calls confirmed has come about since it was asked for: what is shown has an
\* entry that was not there then and has of it what the page looks at.
ConfirmedIsNew ==
  [][\A k \in 1..MaxRequests : fate[k] = Untold /\ fate'[k].told = "confirmed" =>
       LET r == IF doing # None /\ doing.key = k THEN doing ELSE pending
       IN  \E e \in Fresh(view', r) : Amounts(e, r.asked)]_updateVars

\* What a page shows is never replaced by something older.
ShownNeverOlder == [][view'.version >= view.version]_updateVars
=============================================================================
